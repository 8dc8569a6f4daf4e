---------------------------- MODULE SbfdSession ----------------------------
(***************************************************************************)
(* One sbfd session: the two daemons that peer over one WAN link, and the  *)
(* UDP path between them (sbfd.py).                                        *)
(*                                                                         *)
(* Each endpoint keeps a Session and runs two handlers, on_rx for a packet *)
(* and the body of the transmit tick (send_packet, check_timeouts,         *)
(* update_loss_ewma, maybe_rebuild_socket).  Time is counted in transmit   *)
(* intervals: Elapse lets one interval pass and makes both ticks due.      *)
(* Detection, the loss window and the rebuild floor are all whole numbers  *)
(* of intervals, each with a counter that saturates where the code stops   *)
(* telling values apart.  The RTT estimate, the EWMA of the loss and the   *)
(* log limiter are data no property reads, and are left out.               *)
(*                                                                         *)
(* The path loses, delays, duplicates and cuts; daemons restart, sockets   *)
(* wedge and the client's address changes.  All of that spends a fault     *)
(* budget, so that "after the last fault" makes sense.                     *)
(***************************************************************************)
EXTENDS Integers, Sequences, FiniteSets

CONSTANTS
  Client, Relay,      \* the two endpoints; only the relay has no configured peer
  Addr,               \* addresses the client can be seen at
  RelayAddr, NoAddr,  \* the relay's address (peer_host); "no peer yet"
  DetectMult,         \* SessionConfig.detect_mult
  Rewind,             \* SEQ_RESTART_REWIND
  SeqMod,             \* the width of tx_seq (2^64 in the code)
  SendErrorThreshold, \* SEND_ERROR_REBUILD_THRESHOLD
  RebuildInterval,    \* SOCKET_REBUILD_INTERVAL_S, in transmit intervals
  WindowLen,          \* the 5 s loss window, in transmit intervals
  MaxDelay,           \* assumption: how many later packets may overtake one
  Faults,             \* the kinds of fault this instance lets happen
  MaxFaults,          \* bound: how many faults happen
  MaxInFlight,        \* bound: packets on the way in one direction
  MaxSeq              \* bound: last sequence number an endpoint sends

FaultKinds == {"lose", "straggle", "duplicate", "restart", "wedge",
               "rebuild_fails", "resolve_fails", "cut", "roam", "stall"}

ASSUME EndpointAssumption == Client # Relay
ASSUME AddrAssumption ==
  Addr # {} /\ RelayAddr # NoAddr /\ {RelayAddr, NoAddr} \cap Addr = {}
ASSUME NumberAssumption ==
  /\ DetectMult \in Nat \ {0} /\ Rewind \in Nat /\ SeqMod \in Nat
  /\ SeqMod > Rewind + 1 /\ SeqMod > 1
  /\ SendErrorThreshold \in Nat \ {0} /\ RebuildInterval \in Nat
  /\ WindowLen \in Nat /\ MaxDelay \in Nat /\ MaxFaults \in Nat
  /\ MaxInFlight \in Nat \ {0} /\ MaxSeq \in Nat
ASSUME FaultAssumption == Faults \subseteq FaultKinds

Endpoint == {Client, Relay}
Peer(p)  == IF p = Client THEN Relay ELSE Client

VARIABLES
  sess,      \* sess[p]: endpoint p's Session
  inc,       \* inc[p]: how often p was started (history, for the properties)
  net,       \* net[p]: packets on their way to p, in the order they were sent
  late,      \* late[p]: packets to p the network delayed past the others
  cut,       \* cut[p]: the path from p to its peer drops everything
  addr,      \* the address the relay sees the client at
  heard,     \* heard[p]: <<incarnation, seq>> of the packet p accepted last
  demotedBy, \* demotedBy[p]: heard[p] when p last left UP or INIT for DOWN
  faults     \* how many faults happened

vars == <<sess, inc, net, late, cut, addr, heard, demotedBy, faults>>

\* What the fields range over; the ages are in transmit intervals.
State       == {"DOWN", "INIT", "UP"}
SeqNo       == 0 .. SeqMod - 1
RxAge       == 0 .. DetectMult + 1
ErrorCount  == 0 .. SendErrorThreshold
RebuildAge  == 0 .. RebuildInterval
WindowAge   == 0 .. WindowLen
Destination == Addr \cup {RelayAddr, NoAddr}

Packet == [seq: SeqNo, up: BOOLEAN,
           src: Addr \cup {RelayAddr}, inc: Nat]

\* "Nothing accepted yet", before any <<incarnation, seq>>.
Never == <<-1, 0>>

Session == [state: State, txSeq: SeqNo, lastRx: SeqNo, age: RxAge,
            due: BOOLEAN, peerAddr: Destination, wedged: BOOLEAN,
            sendErrors: ErrorCount, sinceRebuild: RebuildAge,
            rxWin: Nat, expWin: Nat, winAge: WindowAge]

TypeOK ==
  /\ sess \in [Endpoint -> Session]
  /\ inc \in [Endpoint -> Nat]
  /\ net \in [Endpoint -> Seq(Packet)]
  /\ late \in [Endpoint -> SUBSET Packet]
  /\ cut \in [Endpoint -> BOOLEAN]
  /\ addr \in Addr
  /\ heard \in [Endpoint -> Int \X Nat]
  /\ demotedBy \in [Endpoint -> Int \X Nat]
  /\ faults \in 0 .. MaxFaults

-----------------------------------------------------------------------------
(* The session object and its handlers.                                    *)

\* A Session as run() builds it: the client has yet to resolve peer_host, the
\* relay's peer_host is the 0.0.0.0 placeholder.
\* last_socket_rebuild = None never delays a rebuild: the counter starts full.
NewSession(p) ==
  [state |-> "DOWN", txSeq |-> 1, lastRx |-> 0, age |-> 0, due |-> TRUE,
   peerAddr |-> NoAddr,
   wedged |-> FALSE, sendErrors |-> 0, sinceRebuild |-> RebuildInterval,
   rxWin |-> 0, expWin |-> 0, winAge |-> 0]

\* Faulty variants, each placed before the definition it stands in for: a
\* demotion that forgets the watermark, and one that resets half the window.
TransitionForgetting(s, new) ==
  IF new = "DOWN" /\ s.state # "DOWN"
  THEN [s EXCEPT !.state = new, !.rxWin = 0, !.expWin = 0, !.winAge = 0,
                 !.lastRx = 0]
  ELSE [s EXCEPT !.state = new]
TransitionHalfReset(s, new) ==
  IF new = "DOWN" /\ s.state # "DOWN"
  THEN [s EXCEPT !.state = new, !.expWin = 0, !.winAge = 0]
  ELSE [s EXCEPT !.state = new]

\* transition(): a demotion restarts the loss window and keeps last_rx_seq.
Transition(s, new) ==
  IF new = "DOWN" /\ s.state # "DOWN"
  THEN [s EXCEPT !.state = new, !.rxWin = 0, !.expWin = 0, !.winAge = 0]
  ELSE [s EXCEPT !.state = new]

\* Faulty variant: no rewind test, a restarted peer's packets look stale.
FilteredForGood(s, seq) == seq <= s.lastRx

\* The replay filter: a small rewind is reordering, a large one a restart.
Filtered(s, seq) == s.lastRx - Rewind <= seq /\ seq <= s.lastRx

\* Packets the sequence number says were sent since last_rx_seq and missed.
Gap(s, seq) ==
  IF s.lastRx # 0 /\ seq > s.lastRx THEN seq - s.lastRx - 1 ELSE 0

\* Faulty variants: UP is taken on trust; UP is left to the detect timer.
StateAfterRxTrusting(state, up) ==
  CASE state = "DOWN"         -> "INIT"
    [] state = "INIT"         -> "UP"
    [] state = "UP" /\ ~up    -> "DOWN"
    [] OTHER                  -> state
StateAfterRxTimerOnly(state, up) ==
  CASE state = "DOWN"         -> "INIT"
    [] state = "INIT" /\ up   -> "UP"
    [] OTHER                  -> state

\* The state a packet's "I hear you" bit leads to.
StateAfterRx(state, up) ==
  CASE state = "DOWN"            -> "INIT"
    [] state = "INIT" /\ up      -> "UP"
    [] state = "UP"   /\ ~up     -> "DOWN"
    [] OTHER                     -> state

\* on_rx: the peer's address is learnt even from a packet the filter drops.
AfterRx(s, m) ==
  LET addressed == [s EXCEPT !.peerAddr = m.src]
      counted   == [addressed EXCEPT
                      !.lastRx = m.seq, !.age = 0, !.rxWin = @ + 1,
                      !.expWin = @ + Gap(s, m.seq) + 1]
  IN  IF Filtered(s, m.seq) THEN addressed
      ELSE Transition(counted, StateAfterRx(s.state, m.up))

HearsPeer(s) == s.state \in {"INIT", "UP"}

\* send_packet: a wedged socket's sendto fails and leaves tx_seq alone; an
\* endpoint that knows no address returns before it sends anything.
Sends(s) == s.peerAddr # NoAddr /\ ~s.wedged

AfterSendUnmasked(s) ==
  IF s.peerAddr = NoAddr THEN s
  ELSE IF s.wedged
       THEN [s EXCEPT !.sendErrors =
               IF @ < SendErrorThreshold THEN @ + 1 ELSE @]
       ELSE [s EXCEPT !.sendErrors = 0, !.txSeq = @ + 1]

AfterSend(s) ==
  IF s.peerAddr = NoAddr THEN s
  ELSE IF s.wedged
       THEN [s EXCEPT !.sendErrors =
               IF @ < SendErrorThreshold THEN @ + 1 ELSE @]
       ELSE [s EXCEPT !.sendErrors = 0, !.txSeq = (@ + 1) % SeqMod]

\* check_timeouts, `missed` being the whole intervals since the last packet.
AfterTimeoutCheck(s, missed) ==
  IF HearsPeer(s) /\ missed >= DetectMult THEN Transition(s, "DOWN") ELSE s

\* update_loss_ewma: a full window with anything expected in it is folded.
AfterLossUpdate(s) ==
  IF s.winAge >= WindowLen /\ s.expWin > 0
  THEN [s EXCEPT !.rxWin = 0, !.expWin = 0, !.winAge = 0]
  ELSE s

\* maybe_rebuild_socket: the attempt is stamped whether or not it succeeds.
RebuildDue(s) ==
  s.sendErrors >= SendErrorThreshold /\ s.sinceRebuild >= RebuildInterval

AfterRebuild(s, succeeds) ==
  IF ~RebuildDue(s) THEN s
  ELSE IF succeeds
       THEN [s EXCEPT !.sinceRebuild = 0, !.sendErrors = 0, !.wedged = FALSE]
       ELSE [s EXCEPT !.sinceRebuild = 0]

\* One iteration of run()'s per-session body.
AfterTick(s, missed, succeeds) ==
  AfterRebuild(AfterLossUpdate(AfterTimeoutCheck(
      [AfterSend(s) EXCEPT !.due = FALSE], missed)), succeeds)

-----------------------------------------------------------------------------
(* The system.                                                             *)

\* Which address the client has first is a matter of naming.
Init ==
  /\ addr = CHOOSE a \in Addr : TRUE
  /\ sess = [p \in Endpoint |-> NewSession(p)]
  /\ inc = [p \in Endpoint |-> 0]
  /\ net = [p \in Endpoint |-> <<>>]
  /\ late = [p \in Endpoint |-> {}]
  /\ cut = [p \in Endpoint |-> FALSE]
  /\ heard = [p \in Endpoint |-> Never]
  /\ demotedBy = [p \in Endpoint |-> Never]
  /\ faults = 0

\* A fault of the given kind happens now.
Fault(kind) == kind \in Faults /\ faults < MaxFaults /\ faults' = faults + 1

Saturate(n, top) == IF n < top THEN n + 1 ELSE n

\* One transmit interval passes.  Daemons keep up with their ticks and the
\* path with its packets, unless a daemon stalls (a blocked getaddrinfo).
Elapse ==
  /\ \A p \in Endpoint : /\ Len(net[p]) < MaxInFlight
                         /\ sess[p].txSeq < MaxSeq
  /\ \/ (\A p \in Endpoint : ~sess[p].due) /\ UNCHANGED faults
     \/ (\E p \in Endpoint : sess[p].due) /\ Fault("stall")
  /\ sess' = [p \in Endpoint |-> [sess[p] EXCEPT
                !.due = TRUE,
                !.age = Saturate(@, DetectMult + 1),
                !.sinceRebuild = Saturate(@, RebuildInterval),
                !.winAge = Saturate(@, WindowLen)]]
  /\ UNCHANGED <<inc, net, late, cut, addr, heard, demotedBy>>

\* getaddrinfo gave the client the relay's address, which it keeps.
Resolved(p) ==
  IF p = Client /\ sess[p].peerAddr = NoAddr
  THEN [sess[p] EXCEPT !.peerAddr = RelayAddr] ELSE sess[p]

\* What reaches the path when p sends with session s: the flag and the sequence number are
\* read before the timeout check; a cut path, or an address the client has
\* left, swallows the packet.
Outgoing(p, s) ==
  IF Sends(s) /\ ~cut[p] /\ (p = Relay => s.peerAddr = addr)
  THEN <<[seq |-> s.txSeq, up |-> HearsPeer(s),
          src |-> IF p = Client THEN addr ELSE RelayAddr, inc |-> inc[p]]>>
  ELSE <<>>

\* Packets of p's that the network may still deliver once p has sent more.
StillDeliverable(p, ms) ==
  {m \in ms : m.inc = inc[p] => sess'[p].txSeq - m.seq <= MaxDelay}

Demoted(p) ==
  IF HearsPeer(sess[p]) /\ sess'[p].state = "DOWN"
  THEN [demotedBy EXCEPT ![p] = heard'[p]] ELSE demotedBy

\* run(): p's tick is due.  The last packet came somewhere inside an
\* interval, so the whole intervals since are age or one less.
Tick(p) ==
  /\ sess[p].due
  /\ \E s \in {sess[p], Resolved(p)},
        missed \in {sess[p].age, sess[p].age - 1}, succeeds \in BOOLEAN :
       /\ sess' = [sess EXCEPT ![p] = AfterTick(s, missed, succeeds)]
       /\ net' = [net EXCEPT ![Peer(p)] = @ \o Outgoing(p, s)]
       /\ IF s # Resolved(p) THEN Fault("resolve_fails")
          ELSE IF ~succeeds /\ RebuildDue(AfterSend(s)) THEN Fault("rebuild_fails")
          ELSE UNCHANGED faults
  /\ late' = [late EXCEPT ![Peer(p)] = StillDeliverable(p, @)]
  /\ UNCHANGED <<inc, cut, addr, heard>>
  /\ demotedBy' = Demoted(p)

Receive(p, m) ==
  /\ sess' = [sess EXCEPT ![p] = AfterRx(@, m)]
  /\ heard' = IF Filtered(sess[p], m.seq) THEN heard
              ELSE [heard EXCEPT ![p] = <<m.inc, m.seq>>]
  /\ demotedBy' = Demoted(p)

Deliver(p) ==
  /\ net[p] # <<>>
  /\ Receive(p, Head(net[p]))
  /\ net' = [net EXCEPT ![p] = Tail(@)]
  /\ UNCHANGED <<inc, late, cut, addr, faults>>

DeliverLate(p) ==
  \E m \in late[p] :
    /\ Receive(p, m)
    /\ late' = [late EXCEPT ![p] = @ \ {m}]
    /\ UNCHANGED <<inc, net, cut, addr, faults>>

Lose(p) ==
  /\ net[p] # <<>>
  /\ Fault("lose")
  /\ net' = [net EXCEPT ![p] = Tail(@)]
  /\ UNCHANGED <<sess, inc, late, cut, addr, heard, demotedBy>>

\* The oldest packet on the way is delayed, or doubled: later ones overtake.
Straggle(p) ==
  /\ net[p] # <<>>
  /\ UNCHANGED sess
  /\ \/ Fault("straggle")  /\ net' = [net EXCEPT ![p] = Tail(@)]
     \/ Fault("duplicate") /\ UNCHANGED net
  /\ late' = [late EXCEPT ![p] = @ \cup StillDeliverable(Peer(p), {Head(net[p])})]
  /\ UNCHANGED <<inc, cut, addr, heard, demotedBy>>

\* The daemon at p restarts; what is on its way to p stays on its way.
Restart(p) ==
  /\ Fault("restart")
  /\ inc' = [inc EXCEPT ![p] = @ + 1]
  /\ sess' = [sess EXCEPT ![p] = NewSession(p)]
  /\ heard' = [heard EXCEPT ![p] = Never]
  /\ demotedBy' = [demotedBy EXCEPT ![p] = Never]
  /\ UNCHANGED <<net, late, cut, addr>>

\* Every sendto on p's socket fails from now on (link flap, lease change).
Wedge(p) ==
  /\ ~sess[p].wedged
  /\ Fault("wedge")
  /\ sess' = [sess EXCEPT ![p].wedged = TRUE]
  /\ UNCHANGED <<inc, net, late, cut, addr, heard, demotedBy>>

Cut(p) ==
  /\ ~cut[p]
  /\ Fault("cut")
  /\ cut' = [cut EXCEPT ![p] = TRUE]
  /\ UNCHANGED <<sess, inc, net, late, addr, heard, demotedBy>>

Mend(p) ==
  /\ cut[p]
  /\ cut' = [cut EXCEPT ![p] = FALSE]
  /\ UNCHANGED <<sess, inc, net, late, addr, heard, demotedBy, faults>>

\* The client's WAN gets another address; packets to the old one are lost.
Roam ==
  /\ Fault("roam")
  /\ addr' \in Addr \ {addr}
  /\ net' = [net EXCEPT ![Client] = <<>>]
  /\ late' = [late EXCEPT ![Client] = {}]
  /\ UNCHANGED <<sess, inc, cut, heard, demotedBy>>

Next ==
  \/ Elapse
  \/ Roam
  \/ \E p \in Endpoint :
       \/ Tick(p) \/ Deliver(p) \/ DeliverLate(p)
       \/ Lose(p) \/ Straggle(p) \/ Restart(p) \/ Wedge(p)
       \/ Cut(p) \/ Mend(p)

Spec == Init /\ [][Next]_vars

\* Time passes, the select loop reaches every tick (its timeout is at most
\* 100 ms) and the path delivers what no fault removed.  Nothing is assumed
\* of faults, and nothing makes a cut path heal.
Fairness ==
  /\ WF_vars(Elapse)
  /\ \A p \in Endpoint : WF_vars(Tick(p)) /\ WF_vars(Deliver(p))

FairSpec == Spec /\ Fairness

-----------------------------------------------------------------------------
(* Properties.                                                             *)

\* loss_pct = 100 * (1 - rx/expected) stays within 0..100: on_rx never counts
\* a packet as received that it did not also count as expected, whatever was
\* lost, reordered, restarted or reset by a demotion (update_loss_ewma).
LossWindowSound == \A p \in Endpoint : sess[p].rxWin <= sess[p].expWin

\* "Peer is hearing us; bidirectional confirmed" (on_rx, INIT -> UP): while an
\* endpoint is UP its peer has accepted a packet that this very process sent.
UpIsBidirectional ==
  \A p \in Endpoint :
    sess[p].state = "UP" => heard[Peer(p)][1] = inc[p]

\* <<incarnation, seq>> a was sent after b, both by one endpoint.
SentAfter(a, b) == a[1] > b[1] \/ (a[1] = b[1] /\ a[2] > b[2])

\* The watermark transition() deliberately keeps: what takes a session to UP
\* was sent after the packet that was newest when the session last went DOWN.
RevivesOnNewEvidence(p) ==
  (sess[p].state # "UP" /\ sess'[p].state = "UP")
    => SentAfter(heard'[p], demotedBy[p])
NoStaleRevival == [][\A p \in Endpoint : RevivesOnNewEvidence(p)]_vars

AllUp  == \A p \in Endpoint : sess[p].state = "UP"
NoneUp == \A p \in Endpoint : sess[p].state # "UP"

\* Once faults stop and both directions work, both ends settle in UP: the
\* replay filter never locks a restarted peer out, a wedged socket is
\* rebuilt, a moved client is found again (on_rx, maybe_rebuild_socket).
Recovers == (\A p \in Endpoint : <>[]~cut[p]) => <>[]AllUp

\* A path that stays broken in one direction is not UP at either end, however
\* well the other direction works (on_rx's demotion on a missing UP flag).
OneWayDemoted == (\E p \in Endpoint : <>[]cut[p]) => <>[]NoneUp
=============================================================================
