CONSTANTS
  Client = client
  Relay = relay
  Addr = {a1}
  RelayAddr = RelayAddr
  NoAddr = NoAddr
  DetectMult = 2
  Rewind = 2
  SeqMod = 16
  SendErrorThreshold = 2
  RebuildInterval = 2
  WindowLen = 2
  MaxDelay = 2
  Faults = {"straggle", "restart"}
  MaxFaults = 3
  MaxInFlight = 1
  MaxSeq = 5
SPECIFICATION Spec
PROPERTIES NoStaleRevival
CHECK_DEADLOCK FALSE
