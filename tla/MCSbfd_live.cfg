CONSTANTS
  Client = client
  Relay = relay
  Addr = {a1, a2}
  RelayAddr = RelayAddr
  NoAddr = NoAddr
  DetectMult = 2
  Rewind = 1
  SeqMod = 4
  SendErrorThreshold = 1
  RebuildInterval = 1
  WindowLen = 0
  MaxDelay = 1
  Faults = {"restart", "wedge", "rebuild_fails", "resolve_fails", "roam", "cut"}
  MaxFaults = 2
  MaxInFlight = 1
  MaxSeq = 4
SPECIFICATION FairSpec
INVARIANTS TypeOK
PROPERTIES Recovers OneWayDemoted
