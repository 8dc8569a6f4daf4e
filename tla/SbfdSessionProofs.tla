------------------------- MODULE SbfdSessionProofs -------------------------
(***************************************************************************)
(* What holds of an sbfd session for every detection multiplier, reorder   *)
(* window, sequence width, address set and fault budget: types, the        *)
(* soundness of the loss window and, while neither daemon restarts and the *)
(* sequence space does not wrap, the meaning of UP and of the watermark.   *)
(***************************************************************************)
EXTENDS SbfdSession, TLAPS

-----------------------------------------------------------------------------
(* The session operators keep a Session a Session.                         *)

\* Every counter of a session can be reset, and the sequence starts at one.
LEMMA Resets ==
  /\ 0 \in SeqNo /\ 1 \in SeqNo /\ 0 \in RxAge /\ 0 \in ErrorCount
  /\ 0 \in RebuildAge /\ RebuildInterval \in RebuildAge /\ 0 \in WindowAge
  BY NumberAssumption DEF SeqNo, RxAge, ErrorCount, RebuildAge, WindowAge

\* A new session is well formed (run, Session).
LEMMA NewSessionType == \A p \in Endpoint : NewSession(p) \in Session
  BY Resets DEF NewSession, Session, State, Destination

\* transition() keeps the shape of a session.
LEMMA TransitionType ==
  \A s \in Session, new \in State : Transition(s, new) \in Session
  BY Resets DEF Transition, Session

\* The counted gap is a natural number.
LEMMA GapType == \A s \in Session, n \in SeqNo : Gap(s, n) \in Nat
  BY NumberAssumption DEF Gap, Session, SeqNo

\* The packet state machine stays within the three states.
LEMMA StateAfterRxType ==
  \A state \in State, up \in BOOLEAN : StateAfterRx(state, up) \in State
  BY DEF StateAfterRx, State

\* on_rx keeps the shape of a session.
LEMMA AfterRxType ==
  ASSUME NEW s \in Session, NEW m \in Packet PROVE AfterRx(s, m) \in Session
<1> DEFINE addressed == [s EXCEPT !.peerAddr = m.src]
           counted   == [addressed EXCEPT
                           !.lastRx = m.seq, !.age = 0, !.rxWin = @ + 1,
                           !.expWin = @ + Gap(s, m.seq) + 1]
<1>1. m.seq \in SeqNo /\ m.up \in BOOLEAN /\ m.src \in Destination
  BY DEF Packet, Destination
<1>2. addressed \in Session
  BY <1>1 DEF Session
<1>3. Gap(s, m.seq) \in Nat
  BY <1>1, GapType
<1>4. counted \in Session
  <2>1. addressed.rxWin + 1 \in Nat
    BY <1>2 DEF Session
  <2>2. addressed.expWin + Gap(s, m.seq) + 1 \in Nat
    BY <1>2, <1>3 DEF Session
  <2> HIDE DEF addressed
  <2> QED BY <1>1, <1>2, <2>1, <2>2, Resets DEF Session
<1>5. StateAfterRx(s.state, m.up) \in State
  BY <1>1, StateAfterRxType DEF Session
<1>6. Transition(counted, StateAfterRx(s.state, m.up)) \in Session
  BY <1>4, <1>5, TransitionType
<1> QED BY <1>2, <1>6 DEF AfterRx

\* send_packet keeps the shape of a session.
LEMMA AfterSendType == \A s \in Session : AfterSend(s) \in Session
<1> SUFFICES ASSUME NEW s \in Session PROVE AfterSend(s) \in Session
  OBVIOUS
<1>1. (s.txSeq + 1) % SeqMod \in SeqNo
  BY NumberAssumption DEF Session, SeqNo
<1>2. (IF s.sendErrors < SendErrorThreshold THEN s.sendErrors + 1
       ELSE s.sendErrors) \in ErrorCount
  BY NumberAssumption DEF Session, ErrorCount
<1> QED BY <1>1, <1>2, Resets DEF AfterSend, Session

\* check_timeouts keeps the shape of a session.
LEMMA AfterTimeoutCheckType ==
  \A s \in Session, missed \in Int : AfterTimeoutCheck(s, missed) \in Session
  BY TransitionType DEF AfterTimeoutCheck, State

\* update_loss_ewma keeps the shape of a session.
LEMMA AfterLossUpdateType == \A s \in Session : AfterLossUpdate(s) \in Session
  BY Resets DEF AfterLossUpdate, Session

\* maybe_rebuild_socket keeps the shape of a session.
LEMMA AfterRebuildType ==
  \A s \in Session, ok \in BOOLEAN : AfterRebuild(s, ok) \in Session
  BY Resets DEF AfterRebuild, Session

\* The body of run()'s per-session loop keeps the shape of a session.
LEMMA AfterTickType ==
  ASSUME NEW s \in Session, NEW missed \in Int, NEW ok \in BOOLEAN
  PROVE  AfterTick(s, missed, ok) \in Session
<1> DEFINE sent == [AfterSend(s) EXCEPT !.due = FALSE]
<1>1. sent \in Session
  BY AfterSendType DEF Session
<1> HIDE DEF sent
<1>2. AfterTimeoutCheck(sent, missed) \in Session
  BY <1>1, AfterTimeoutCheckType
<1>3. AfterLossUpdate(AfterTimeoutCheck(sent, missed)) \in Session
  BY <1>2, AfterLossUpdateType
<1>4. AfterRebuild(AfterLossUpdate(AfterTimeoutCheck(sent, missed)), ok)
        \in Session
  BY <1>3, AfterRebuildType
<1> QED BY <1>4 DEF AfterTick, sent

\* The session after one more transmit interval (Elapse).
LEMMA ElapseType ==
  ASSUME NEW s \in Session
  PROVE  [s EXCEPT !.due = TRUE, !.age = Saturate(@, DetectMult + 1),
                   !.sinceRebuild = Saturate(@, RebuildInterval),
                   !.winAge = Saturate(@, WindowLen)] \in Session
<1>1. Saturate(s.age, DetectMult + 1) \in RxAge
  BY NumberAssumption DEF Session, RxAge, Saturate
<1>2. Saturate(s.sinceRebuild, RebuildInterval) \in RebuildAge
  BY NumberAssumption DEF Session, RebuildAge, Saturate
<1>3. Saturate(s.winAge, WindowLen) \in WindowAge
  BY NumberAssumption DEF Session, WindowAge, Saturate
<1> QED BY <1>1, <1>2, <1>3 DEF Session

-----------------------------------------------------------------------------
(* Types.                                                                  *)

\* A packet on its way is one its sender could form.
LEMMA OutgoingType ==
  ASSUME TypeOK, NEW p \in Endpoint, NEW s \in Session
  PROVE  Outgoing(p, s) \in Seq(Packet)
<1> DEFINE m == [seq |-> s.txSeq, up |-> HearsPeer(s),
                 src |-> IF p = Client THEN addr ELSE RelayAddr,
                 inc |-> inc[p]]
<1>1. s.txSeq \in SeqNo /\ inc[p] \in Nat /\ addr \in Addr
  BY DEF TypeOK, Session
<1>2. HearsPeer(s) \in BOOLEAN
  BY DEF HearsPeer
<1>3. m \in Packet
  BY <1>1, <1>2 DEF Packet
<1>4. <<m>> \in Seq(Packet) /\ <<>> \in Seq(Packet)
  <2> HIDE DEF m
  <2> QED BY <1>3
<1> QED BY <1>4 DEF Outgoing

\* The bookkeeping of demotions stays well typed.
LEMMA DemotedType ==
  ASSUME TypeOK, NEW p \in Endpoint, heard' \in [Endpoint -> Int \X Nat]
  PROVE  Demoted(p) \in [Endpoint -> Int \X Nat]
  BY DEF TypeOK, Demoted

\* Receiving a packet, in order or late, keeps every type.
LEMMA ReceiveType ==
  ASSUME TypeOK, NEW p \in Endpoint, NEW m \in Packet, Receive(p, m)
  PROVE  /\ sess' \in [Endpoint -> Session]
         /\ heard' \in [Endpoint -> Int \X Nat]
         /\ demotedBy' \in [Endpoint -> Int \X Nat]
<1>1. AfterRx(sess[p], m) \in Session
  BY AfterRxType DEF TypeOK
<1>2. sess' \in [Endpoint -> Session]
  BY <1>1 DEF Receive, TypeOK
<1>3. <<m.inc, m.seq>> \in Int \X Nat
  BY NumberAssumption DEF Packet, SeqNo
<1>4. heard' \in [Endpoint -> Int \X Nat]
  BY <1>3 DEF Receive, TypeOK
<1>5. demotedBy' \in [Endpoint -> Int \X Nat]
  BY <1>4, DemotedType DEF Receive
<1> QED BY <1>2, <1>4, <1>5

\* The fault counter stays within its bound.
LEMMA FaultType ==
  ASSUME TypeOK, NEW kind, Fault(kind) PROVE faults' \in 0 .. MaxFaults
  BY NumberAssumption DEF TypeOK, Fault

\* What a tick starts from: the session it found, the peer's address apart.
TickFrom(p, s) ==
  /\ s.state = sess[p].state /\ s.lastRx = sess[p].lastRx
  /\ s.txSeq = sess[p].txSeq
  /\ s.rxWin = sess[p].rxWin /\ s.expWin = sess[p].expWin

\* A tick goes on from a well formed session, whether getaddrinfo failed or not.
LEMMA TickTakes ==
  ASSUME TypeOK, NEW p \in Endpoint, Tick(p)
  PROVE  \E s \in Session, missed \in Int, ok \in BOOLEAN :
           /\ sess' = [sess EXCEPT ![p] = AfterTick(s, missed, ok)]
           /\ net' = [net EXCEPT ![Peer(p)] = @ \o Outgoing(p, s)]
           /\ TickFrom(p, s)
           /\ faults' \in 0 .. MaxFaults
<1>1. PICK s \in {sess[p], Resolved(p)},
           missed \in {sess[p].age, sess[p].age - 1}, ok \in BOOLEAN :
        /\ sess' = [sess EXCEPT ![p] = AfterTick(s, missed, ok)]
        /\ net' = [net EXCEPT ![Peer(p)] = @ \o Outgoing(p, s)]
        /\ IF s # Resolved(p) THEN Fault("resolve_fails")
           ELSE IF ~ok /\ RebuildDue(AfterSend(s)) THEN Fault("rebuild_fails")
           ELSE UNCHANGED faults
  BY Zenon DEF Tick
<1>2. sess[p] \in Session
  BY DEF TypeOK
<1>3. RelayAddr \in Destination
  BY DEF Destination
<1>4. [sess[p] EXCEPT !.peerAddr = RelayAddr] \in Session
      /\ TickFrom(p, [sess[p] EXCEPT !.peerAddr = RelayAddr])
  BY <1>2, <1>3 DEF Session, TickFrom
<1>5. s \in Session /\ TickFrom(p, s)
  BY <1>1, <1>2, <1>4 DEF Resolved, TickFrom
<1>6. missed \in Int
  BY <1>2, NumberAssumption DEF Session, RxAge
<1>7. faults' \in 0 .. MaxFaults
  <2>1. Fault("resolve_fails") \/ Fault("rebuild_fails") \/ faults' = faults
    BY <1>1
  <2> QED BY <2>1, FaultType DEF TypeOK
<1> QED BY <1>1, <1>5, <1>6, <1>7

\* Packets no longer deliverable are dropped, none is made up.
LEMMA StillDeliverableType ==
  ASSUME NEW p \in Endpoint, NEW ms \in SUBSET Packet
  PROVE  StillDeliverable(p, ms) \in SUBSET Packet
  BY DEF StillDeliverable

\* Both endpoints differ from each other.
LEMMA PeerType ==
  \A p \in Endpoint : Peer(p) \in Endpoint /\ Peer(p) # p /\ Peer(Peer(p)) = p
  BY EndpointAssumption DEF Peer, Endpoint

\* Every initial state is typed.
LEMMA InitType == Init => TypeOK
<1> SUFFICES ASSUME Init PROVE TypeOK
  OBVIOUS
<1>1. sess \in [Endpoint -> Session]
  BY NewSessionType DEF Init
<1>2. Never \in Int \X Nat
  BY DEF Never
<1>3. addr \in Addr
  BY AddrAssumption DEF Init
<1> QED BY <1>1, <1>2, <1>3, NumberAssumption DEF Init, TypeOK

\* Every step, fault or handler, keeps every type.
LEMMA NextType == TypeOK /\ [Next]_vars => TypeOK'
<1> SUFFICES ASSUME TypeOK, [Next]_vars PROVE TypeOK'
  OBVIOUS
<1> USE DEF TypeOK
<1>1. CASE Elapse
  <2>1. sess' \in [Endpoint -> Session]
    BY <1>1, ElapseType DEF Elapse
  <2>2. faults' \in 0 .. MaxFaults
    BY <1>1, FaultType DEF Elapse
  <2> QED BY <1>1, <2>1, <2>2 DEF Elapse
<1>2. CASE Roam
  <2>1. /\ net' \in [Endpoint -> Seq(Packet)]
        /\ late' \in [Endpoint -> SUBSET Packet]
    <3>1. <<>> \in Seq(Packet) /\ {} \in SUBSET Packet
      OBVIOUS
    <3> QED BY <1>2, <3>1 DEF Roam
  <2>2. addr' \in Addr
    BY <1>2 DEF Roam
  <2> QED BY <1>2, <2>1, <2>2, FaultType DEF Roam
<1>3. ASSUME NEW p \in Endpoint, Tick(p) PROVE TypeOK'
  <2>1. PICK s \in Session, missed \in Int, ok \in BOOLEAN :
          /\ sess' = [sess EXCEPT ![p] = AfterTick(s, missed, ok)]
          /\ net' = [net EXCEPT ![Peer(p)] = @ \o Outgoing(p, s)]
          /\ TickFrom(p, s)
          /\ faults' \in 0 .. MaxFaults
    <3> HIDE DEF TypeOK
    <3> QED BY <1>3, TickTakes
  <2>3. sess' \in [Endpoint -> Session]
    BY <2>1, AfterTickType
  <2>5. net' \in [Endpoint -> Seq(Packet)]
    <3>1. net[Peer(p)] \o Outgoing(p, s) \in Seq(Packet)
      <4>1. Outgoing(p, s) \in Seq(Packet)
        <5> HIDE DEF TypeOK
        <5> QED BY OutgoingType
      <4> QED BY <4>1, PeerType
    <3> QED BY <2>1, <3>1
  <2>6. late' \in [Endpoint -> SUBSET Packet]
    BY <1>3, PeerType, StillDeliverableType DEF Tick
  <2>7. demotedBy' \in [Endpoint -> Int \X Nat]
    BY <1>3, DemotedType DEF Tick
  <2> QED BY <1>3, <2>1, <2>3, <2>5, <2>6, <2>7 DEF Tick
<1>4. ASSUME NEW p \in Endpoint, Deliver(p) PROVE TypeOK'
  <2>1. Head(net[p]) \in Packet /\ Tail(net[p]) \in Seq(Packet)
    BY <1>4 DEF Deliver
  <2>2. net' \in [Endpoint -> Seq(Packet)]
    BY <1>4, <2>1 DEF Deliver
  <2> QED BY <1>4, <2>1, <2>2, ReceiveType DEF Deliver
<1>5. ASSUME NEW p \in Endpoint, DeliverLate(p) PROVE TypeOK'
  <2>1. PICK m \in late[p] : /\ Receive(p, m)
                             /\ late' = [late EXCEPT ![p] = @ \ {m}]
                             /\ UNCHANGED <<inc, net, cut, addr, faults>>
    BY <1>5 DEF DeliverLate
  <2>2. m \in Packet
    BY <2>1
  <2>3. late' \in [Endpoint -> SUBSET Packet]
    BY <2>1
  <2> QED BY <2>1, <2>2, <2>3, ReceiveType
<1>6. ASSUME NEW p \in Endpoint, Lose(p) PROVE TypeOK'
  <2>1. net' \in [Endpoint -> Seq(Packet)]
    BY <1>6 DEF Lose
  <2> QED BY <1>6, <2>1, FaultType DEF Lose
<1>7. ASSUME NEW p \in Endpoint, Straggle(p) PROVE TypeOK'
  <2>1. /\ net' \in [Endpoint -> Seq(Packet)]
        /\ Head(net[p]) \in Packet
    <3>1. net[p] \in Seq(Packet) /\ net[p] # <<>>
      BY <1>7 DEF Straggle
    <3>2. Head(net[p]) \in Packet /\ Tail(net[p]) \in Seq(Packet)
      BY <3>1
    <3> QED BY <1>7, <3>2 DEF Straggle
  <2>2. StillDeliverable(Peer(p), {Head(net[p])}) \in SUBSET Packet
    BY <2>1, PeerType, StillDeliverableType
  <2>3. late' \in [Endpoint -> SUBSET Packet]
    BY <1>7, <2>2 DEF Straggle
  <2>4. faults' \in 0 .. MaxFaults
    BY <1>7, FaultType DEF Straggle
  <2> QED BY <1>7, <2>1, <2>3, <2>4 DEF Straggle
<1>8. ASSUME NEW p \in Endpoint, Restart(p) PROVE TypeOK'
  <2>1. Never \in Int \X Nat
    BY DEF Never
  <2>2. sess' \in [Endpoint -> Session]
    BY <1>8, NewSessionType DEF Restart
  <2>3. inc' \in [Endpoint -> Nat]
    BY <1>8 DEF Restart
  <2> QED BY <1>8, <2>1, <2>2, <2>3, FaultType DEF Restart
<1>9. ASSUME NEW p \in Endpoint, Wedge(p) PROVE TypeOK'
  <2>1. sess' \in [Endpoint -> Session]
    <3>1. sess[p] \in Session
      OBVIOUS
    <3> HIDE DEF TypeOK
    <3>2. [sess[p] EXCEPT !.wedged = TRUE] \in Session
      BY <3>1 DEF Session
    <3> QED BY <1>9, <3>2 DEF Wedge, TypeOK
  <2> QED BY <1>9, <2>1, FaultType DEF Wedge
<1>10. ASSUME NEW p \in Endpoint, Cut(p) \/ Mend(p) PROVE TypeOK'
  <2>1. cut' \in [Endpoint -> BOOLEAN]
    BY <1>10 DEF Cut, Mend
  <2>2. faults' \in 0 .. MaxFaults
    BY <1>10, FaultType DEF Cut, Mend
  <2> QED BY <1>10, <2>1, <2>2 DEF Cut, Mend
<1>11. CASE UNCHANGED vars
  BY <1>11 DEF vars
<1> QED BY <1>1, <1>2, <1>3, <1>4, <1>5, <1>6, <1>7, <1>8, <1>9, <1>10,
           <1>11 DEF Next

\* Every variable keeps its type in every behaviour of the session.
THEOREM TypeCorrect == Spec => []TypeOK
<1>1. Init => TypeOK
  BY InitType
<1>2. TypeOK /\ [Next]_vars => TypeOK'
  BY NextType
<1> QED BY <1>1, <1>2, PTL DEF Spec

-----------------------------------------------------------------------------
(* The loss window.                                                        *)

\* A session whose window counts no more received than expected packets.
Sound(s) == s.rxWin <= s.expWin

\* Every packet that is counted as received is counted as expected (on_rx).
LEMMA AfterRxSound ==
  ASSUME NEW s \in Session, NEW m \in Packet, Sound(s)
  PROVE  Sound(AfterRx(s, m))
<1>1. Gap(s, m.seq) \in Nat
  BY GapType DEF Packet
<1> QED BY <1>1 DEF AfterRx, Transition, Sound, Session

\* Sending, timing out, folding the window and rebuilding keep it sound.
LEMMA AfterTickSound ==
  ASSUME NEW s \in Session, NEW missed \in Int, NEW ok \in BOOLEAN, Sound(s)
  PROVE  Sound(AfterTick(s, missed, ok))
<1> DEFINE sent == [AfterSend(s) EXCEPT !.due = FALSE]
           timed == AfterTimeoutCheck(sent, missed)
           folded == AfterLossUpdate(timed)
<1>1. sent \in Session /\ Sound(sent)
  <2>1. AfterSend(s) \in Session
    BY AfterSendType
  <2>2. AfterSend(s).rxWin = s.rxWin /\ AfterSend(s).expWin = s.expWin
    BY DEF AfterSend, Session
  <2> QED BY <2>1, <2>2 DEF Sound, Session
<1> HIDE DEF sent
<1>2. timed \in Session /\ Sound(timed)
  <2>1. timed \in Session
    BY <1>1, AfterTimeoutCheckType
  <2>2. \/ timed.rxWin = sent.rxWin /\ timed.expWin = sent.expWin
        \/ timed.rxWin = 0 /\ timed.expWin = 0
    BY <1>1 DEF AfterTimeoutCheck, Transition, Session
  <2> HIDE DEF timed
  <2> QED BY <1>1, <2>1, <2>2 DEF Sound
<1> HIDE DEF timed
<1>3. folded \in Session /\ Sound(folded)
  <2>1. folded \in Session
    BY <1>2, AfterLossUpdateType
  <2>2. \/ folded = timed
        \/ folded.rxWin = 0 /\ folded.expWin = 0
    BY <1>2 DEF AfterLossUpdate, Session
  <2> HIDE DEF folded
  <2> QED BY <1>2, <2>1, <2>2 DEF Sound
<1> HIDE DEF folded
<1>4. Sound(AfterRebuild(folded, ok))
  BY <1>3 DEF AfterRebuild, Sound, Session
<1> QED BY <1>4 DEF AfterTick, sent, timed, folded

\* A step keeps every window sound.
LEMMA LossWindowStep ==
  ASSUME TypeOK, LossWindowSound, [Next]_vars PROVE LossWindowSound'
<1> USE DEF TypeOK
<1>0. \A p \in Endpoint : sess[p] \in Session /\ Sound(sess[p])
  BY DEF LossWindowSound, Sound
<1> SUFFICES \A q \in Endpoint : Sound(sess'[q])
  BY DEF LossWindowSound, Sound
<1>1. CASE Elapse
  BY <1>0, <1>1 DEF Elapse, Sound, Session
<1>2. ASSUME NEW p \in Endpoint, Tick(p)
      PROVE  \A q \in Endpoint : Sound(sess'[q])
  <2>1. PICK s \in Session, missed \in Int, ok \in BOOLEAN :
          /\ sess' = [sess EXCEPT ![p] = AfterTick(s, missed, ok)]
          /\ TickFrom(p, s)
    <3> HIDE DEF TypeOK
    <3> QED BY <1>2, TickTakes
  <2>2. Sound(s)
    BY <1>0, <2>1 DEF Sound, TickFrom
  <2>3. Sound(AfterTick(s, missed, ok))
    BY <2>2, AfterTickSound
  <2> QED BY <1>0, <2>1, <2>3
<1>3. ASSUME NEW p \in Endpoint, NEW m \in Packet, Receive(p, m)
      PROVE  \A q \in Endpoint : Sound(sess'[q])
  BY <1>0, <1>3, AfterRxSound DEF Receive
<1>4. ASSUME NEW p \in Endpoint, Deliver(p)
      PROVE  \A q \in Endpoint : Sound(sess'[q])
  <2>1. Head(net[p]) \in Packet
    BY <1>4 DEF Deliver
  <2> QED BY <1>3, <1>4, <2>1 DEF Deliver
<1>5. ASSUME NEW p \in Endpoint, DeliverLate(p)
      PROVE  \A q \in Endpoint : Sound(sess'[q])
  BY <1>3, <1>5 DEF DeliverLate
<1>6. ASSUME NEW p \in Endpoint, Restart(p)
      PROVE  \A q \in Endpoint : Sound(sess'[q])
  BY <1>0, <1>6 DEF Restart, NewSession, Sound
<1>7. ASSUME NEW p \in Endpoint, Wedge(p)
      PROVE  \A q \in Endpoint : Sound(sess'[q])
  BY <1>0, <1>7 DEF Wedge, Sound, Session
<1>8. CASE UNCHANGED sess
  BY <1>0, <1>8
<1> QED BY <1>1, <1>2, <1>4, <1>5, <1>6, <1>7, <1>8
        DEF Next, vars, Roam, Lose, Straggle, Cut, Mend

\* The published loss percentage is within 0..100 in every behaviour: no
\* reordering, restart or demotion makes on_rx count more than it expected.
THEOREM LossWindowIsSound == Spec => []LossWindowSound
<1>1. Init => LossWindowSound
  BY DEF Init, LossWindowSound, NewSession
<1>2. TypeOK /\ LossWindowSound /\ [Next]_vars => LossWindowSound'
  BY LossWindowStep
<1> QED BY <1>1, <1>2, TypeCorrect, PTL DEF Spec

-----------------------------------------------------------------------------
(* UP and the watermark, while both daemons live on.  Restarts are outside *)
(* these two theorems because the properties do not survive them: the run  *)
(* sbfd_restart shows the watermark losing to a restarted peer.            *)

\* No daemon restarts.
NoRestart == "restart" \notin Faults

\* No sequence number is reused, and a packet is not overtaken by more than
\* the replay filter takes for reordering (SEQ_RESTART_REWIND).
NoWrap == MaxSeq > 0 /\ MaxSeq + 1 < SeqMod
MildReordering == MaxDelay <= Rewind

OnTheWay(p) == {net[p][i] : i \in DOMAIN net[p]} \cup late[p]

\* Who has heard whom, read off the states and the flags on the way.
Hearing ==
  \A p \in Endpoint :
    /\ inc[p] = 0
    /\ heard[p][1] \in {-1, 0}
    /\ HearsPeer(sess[p]) => heard[p][1] = 0
    /\ sess[p].state = "UP" => heard[Peer(p)][1] = 0
    /\ \A m \in OnTheWay(p) :
         m.inc = 0 /\ (m.up => heard[Peer(p)][1] = 0)

\* One direction of the path: ns in order, ls overtaken, `last` the receiver's
\* watermark and `next` the sender's next number.
Stream(ns, ls, last, next) ==
  /\ last < next
  /\ \A i \in DOMAIN ns : last <= ns[i].seq /\ ns[i].seq < next
  /\ \A i, j \in DOMAIN ns : i < j => ns[i].seq < ns[j].seq
  /\ \A m \in ls : /\ m.seq < next /\ next - m.seq <= MaxDelay
                   /\ \A i \in DOMAIN ns : m.seq <= ns[i].seq

\* The streams are ordered, the watermark is the newest packet accepted and
\* never falls behind the one the last demotion happened at.
Ordered ==
  \A p \in Endpoint :
    /\ Stream(net[p], late[p], sess[p].lastRx, sess[Peer(p)].txSeq)
    /\ sess[p].txSeq <= IF sess[p].due THEN MaxSeq ELSE MaxSeq + 1
    /\ heard[p][1] = 0 => heard[p][2] = sess[p].lastRx
    /\ demotedBy[p][1] \in {-1, 0}
    /\ demotedBy[p][1] = 0 => demotedBy[p][2] <= sess[p].lastRx

\* What on_rx does to the fields the properties read.
LEMMA AfterRxFields ==
  ASSUME NEW s \in Session, NEW m \in Packet
  PROVE  /\ AfterRx(s, m).txSeq = s.txSeq /\ AfterRx(s, m).due = s.due
         /\ Filtered(s, m.seq) => /\ AfterRx(s, m).lastRx = s.lastRx
                                  /\ AfterRx(s, m).state = s.state
         /\ ~Filtered(s, m.seq) =>
              /\ AfterRx(s, m).lastRx = m.seq
              /\ AfterRx(s, m).state = StateAfterRx(s.state, m.up)
<1> DEFINE addressed == [s EXCEPT !.peerAddr = m.src]
           counted   == [addressed EXCEPT
                           !.lastRx = m.seq, !.age = 0, !.rxWin = @ + 1,
                           !.expWin = @ + Gap(s, m.seq) + 1]
           new       == StateAfterRx(s.state, m.up)
<1>1. /\ addressed.txSeq = s.txSeq /\ addressed.due = s.due
      /\ addressed.lastRx = s.lastRx /\ addressed.state = s.state
  BY DEF Session
<1>2. /\ counted.txSeq = s.txSeq /\ counted.due = s.due
      /\ counted.lastRx = m.seq
  BY DEF Session
<1>3. /\ Transition(counted, new).txSeq = counted.txSeq
      /\ Transition(counted, new).due = counted.due
      /\ Transition(counted, new).lastRx = counted.lastRx
      /\ Transition(counted, new).state = new
  BY DEF Transition, Session
<1>4. AfterRx(s, m) = IF Filtered(s, m.seq) THEN addressed
                      ELSE Transition(counted, new)
  BY DEF AfterRx
<1> HIDE DEF addressed, counted, new
<1>5. CASE Filtered(s, m.seq)
  BY <1>1, <1>4, <1>5
<1>6. CASE ~Filtered(s, m.seq)
  BY <1>2, <1>3, <1>4, <1>6 DEF new
<1> QED BY <1>5, <1>6

\* What a tick does to the fields the properties read.
LEMMA AfterTickFields ==
  ASSUME NEW s \in Session, NEW missed \in Int, NEW ok \in BOOLEAN
  PROVE  /\ AfterTick(s, missed, ok).lastRx = s.lastRx
         /\ ~AfterTick(s, missed, ok).due
         /\ AfterTick(s, missed, ok).state \in {s.state, "DOWN"}
         /\ AfterTick(s, missed, ok).txSeq =
              IF Sends(s) THEN (s.txSeq + 1) % SeqMod ELSE s.txSeq
<1> DEFINE sent == [AfterSend(s) EXCEPT !.due = FALSE]
           timed == AfterTimeoutCheck(sent, missed)
           folded == AfterLossUpdate(timed)
<1>1. sent \in Session
  BY AfterSendType DEF Session
<1>2. /\ sent.lastRx = s.lastRx /\ ~sent.due /\ sent.state = s.state
      /\ sent.txSeq = IF Sends(s) THEN (s.txSeq + 1) % SeqMod ELSE s.txSeq
  BY DEF AfterSend, Sends, Session
<1> HIDE DEF sent
<1>3. /\ timed.lastRx = sent.lastRx /\ timed.due = sent.due
      /\ timed.txSeq = sent.txSeq /\ timed.state \in {sent.state, "DOWN"}
  BY <1>1 DEF AfterTimeoutCheck, Transition, Session
<1>4. timed \in Session
  BY <1>1, AfterTimeoutCheckType
<1> HIDE DEF timed
<1>5. /\ folded.lastRx = timed.lastRx /\ folded.due = timed.due
      /\ folded.txSeq = timed.txSeq /\ folded.state = timed.state
  BY <1>4 DEF AfterLossUpdate, Session
<1>6. folded \in Session
  BY <1>4, AfterLossUpdateType
<1> HIDE DEF folded
<1>7. /\ AfterRebuild(folded, ok).lastRx = folded.lastRx
      /\ AfterRebuild(folded, ok).due = folded.due
      /\ AfterRebuild(folded, ok).txSeq = folded.txSeq
      /\ AfterRebuild(folded, ok).state = folded.state
  BY <1>6 DEF AfterRebuild, Session
<1> QED BY <1>2, <1>3, <1>5, <1>7 DEF AfterTick, sent, timed, folded

\* Accepting or dropping a packet keeps who-has-heard-whom.
LEMMA ReceiveHearing ==
  ASSUME TypeOK, Hearing, NEW p \in Endpoint, NEW m \in OnTheWay(p),
         m \in Packet, Receive(p, m), inc' = inc,
         \A q \in Endpoint : OnTheWay(q)' \subseteq OnTheWay(q)
  PROVE  Hearing'
<1>1. sess[p] \in Session /\ heard \in [Endpoint -> Int \X Nat]
      /\ sess \in [Endpoint -> Session]
  BY DEF TypeOK
<1>2. m.inc = 0 /\ (m.up => heard[Peer(p)][1] = 0)
  BY DEF Hearing
<1>3. \A q \in Endpoint : heard'[q] = heard[q] \/ heard'[q][1] = 0
  BY <1>1, <1>2 DEF Receive
<1>4. \A q \in Endpoint : heard[q][1] = 0 => heard'[q][1] = 0
  BY <1>3
<1>5. sess'[p] = AfterRx(sess[p], m)
      /\ \A q \in Endpoint \ {p} : sess'[q] = sess[q]
  BY <1>1 DEF Receive
<1>6. HearsPeer(sess'[p]) => heard'[p][1] = 0
  <2>1. CASE Filtered(sess[p], m.seq)
    BY <1>1, <1>4, <1>5, <2>1, AfterRxFields DEF HearsPeer, Hearing
  <2>2. CASE ~Filtered(sess[p], m.seq)
    BY <1>1, <1>2, <2>2 DEF Receive
  <2> QED BY <2>1, <2>2
<1>7. sess'[p].state = "UP" => heard'[Peer(p)][1] = 0
  <2>1. sess[p].state = "UP" => heard[Peer(p)][1] = 0
    BY DEF Hearing
  <2>2. sess'[p].state = "UP" => sess[p].state = "UP" \/ m.up
    BY <1>1, <1>5, AfterRxFields DEF StateAfterRx, Session, State
  <2> QED BY <1>2, <1>4, <2>1, <2>2, PeerType
<1>8. \A q \in Endpoint :
        /\ HearsPeer(sess'[q]) => heard'[q][1] = 0
        /\ sess'[q].state = "UP" => heard'[Peer(q)][1] = 0
  BY <1>4, <1>5, <1>6, <1>7, PeerType DEF Hearing
<1>9. \A q \in Endpoint : \A n \in OnTheWay(q)' :
        n.inc = 0 /\ (n.up => heard'[Peer(q)][1] = 0)
  BY <1>4, PeerType DEF Hearing
<1>10. \A q \in Endpoint : inc'[q] = 0 /\ heard'[q][1] \in {-1, 0}
  BY <1>3 DEF Hearing
<1> QED BY <1>8, <1>9, <1>10 DEF Hearing

\* A step that moves packets about but leaves sessions, incarnations and what
\* was heard as they are keeps who-has-heard-whom.
LEMMA QuietHearing ==
  ASSUME Hearing, inc' = inc, heard' = heard,
         \A q \in Endpoint : sess'[q].state = sess[q].state,
         \A q \in Endpoint : OnTheWay(q)' \subseteq OnTheWay(q)
  PROVE  Hearing'
  BY PeerType DEF Hearing, HearsPeer

\* The packets on the way after the oldest one left the queue.
LEMMA OnTheWayTail ==
  ASSUME TypeOK, NEW p \in Endpoint, net[p] # <<>>,
         net' = [net EXCEPT ![p] = Tail(@)],
         late' = late \/ late' = [late EXCEPT ![p] = @ \cup {Head(net[p])}]
                      \/ \E ms \in SUBSET {Head(net[p])} :
                           late' = [late EXCEPT ![p] = @ \cup ms]
  PROVE  \A q \in Endpoint : OnTheWay(q)' \subseteq OnTheWay(q)
<1>1. net[p] \in Seq(Packet) /\ net \in [Endpoint -> Seq(Packet)]
      /\ late \in [Endpoint -> SUBSET Packet]
  BY DEF TypeOK
<1>2. 1 \in DOMAIN net[p] /\ Head(net[p]) = net[p][1]
      /\ \A i \in DOMAIN Tail(net[p]) :
           i + 1 \in DOMAIN net[p] /\ Tail(net[p])[i] = net[p][i + 1]
  BY <1>1
<1>3. net'[p] = Tail(net[p]) /\ \A q \in Endpoint \ {p} : net'[q] = net[q]
  BY <1>1
<1>4. late'[p] \subseteq late[p] \cup {Head(net[p])}
      /\ \A q \in Endpoint \ {p} : late'[q] = late[q]
  BY <1>1
<1> QED BY <1>2, <1>3, <1>4 DEF OnTheWay

\* Every step keeps who-has-heard-whom, as long as nobody restarts.
LEMMA HearingStep ==
  ASSUME NoRestart, TypeOK, Hearing, [Next]_vars PROVE Hearing'
<1>1. /\ sess \in [Endpoint -> Session] /\ net \in [Endpoint -> Seq(Packet)]
      /\ late \in [Endpoint -> SUBSET Packet]
      /\ heard \in [Endpoint -> Int \X Nat]
  BY DEF TypeOK
<1>2. CASE Elapse
  <2>1. \A q \in Endpoint : sess'[q].state = sess[q].state
    BY <1>1, <1>2 DEF Elapse, Session
  <2> QED BY <1>2, <2>1, QuietHearing DEF Elapse, OnTheWay
<1>3. CASE Roam
  <2>1. \A q \in Endpoint : OnTheWay(q)' \subseteq OnTheWay(q)
    BY <1>1, <1>3 DEF Roam, OnTheWay
  <2> QED BY <1>3, <2>1, QuietHearing DEF Roam
<1>4. ASSUME NEW p \in Endpoint, Tick(p) PROVE Hearing'
  <2>1. PICK s \in Session, missed \in Int, ok \in BOOLEAN :
          /\ sess' = [sess EXCEPT ![p] = AfterTick(s, missed, ok)]
          /\ net' = [net EXCEPT ![Peer(p)] = @ \o Outgoing(p, s)]
          /\ TickFrom(p, s)
    BY <1>4, TickTakes
  <2>2. HearsPeer(s) = HearsPeer(sess[p])
    BY <2>1 DEF TickFrom, HearsPeer
  <2>3. \A q \in Endpoint : sess'[q].state \in {sess[q].state, "DOWN"}
    BY <1>1, <2>1, AfterTickFields DEF TickFrom
  <2>4. \A q \in Endpoint :
          /\ HearsPeer(sess'[q]) => heard[q][1] = 0
          /\ sess'[q].state = "UP" => heard[Peer(q)][1] = 0
    BY <2>3 DEF Hearing, HearsPeer
  <2>5. \A q \in Endpoint : \A n \in OnTheWay(q)' :
          \/ n \in OnTheWay(q)
          \/ q = Peer(p) /\ n.inc = inc[p] /\ n.up = HearsPeer(sess[p])
    <3>1. \A q \in Endpoint : late'[q] \subseteq late[q]
      BY <1>1, <1>4, PeerType DEF Tick, StillDeliverable
    <3>2. \A q \in Endpoint \ {Peer(p)} : net'[q] = net[q]
      BY <1>1, <1>4 DEF Tick
    <3>3. net'[Peer(p)] = net[Peer(p)] \o Outgoing(p, s)
      BY <1>1, <2>1, PeerType
    <3>4. \A i \in DOMAIN net'[Peer(p)] :
            \/ i \in DOMAIN net[Peer(p)]
               /\ net'[Peer(p)][i] = net[Peer(p)][i]
            \/ net'[Peer(p)][i].inc = inc[p]
               /\ net'[Peer(p)][i].up = HearsPeer(sess[p])
      <4>1. net[Peer(p)] \in Seq(Packet) /\ Outgoing(p, s) \in Seq(Packet)
        BY <1>1, PeerType, OutgoingType
      <4>2. \A j \in DOMAIN Outgoing(p, s) :
              /\ Outgoing(p, s)[j].inc = inc[p]
              /\ Outgoing(p, s)[j].up = HearsPeer(sess[p])
        BY <2>2 DEF Outgoing
      <4> HIDE DEF Outgoing
      <4>3. \A i \in DOMAIN (net[Peer(p)] \o Outgoing(p, s)) :
              \/ i \in DOMAIN net[Peer(p)]
                 /\ (net[Peer(p)] \o Outgoing(p, s))[i] = net[Peer(p)][i]
              \/ i - Len(net[Peer(p)]) \in DOMAIN Outgoing(p, s)
                 /\ (net[Peer(p)] \o Outgoing(p, s))[i]
                      = Outgoing(p, s)[i - Len(net[Peer(p)])]
        BY <4>1
      <4> QED BY <3>3, <4>2, <4>3
    <3> QED BY <3>1, <3>2, <3>4 DEF OnTheWay
  <2>6. \A q \in Endpoint : \A n \in OnTheWay(q)' :
          n.inc = 0 /\ (n.up => heard[Peer(q)][1] = 0)
    BY <2>5, PeerType DEF Hearing
  <2>7. heard' = heard /\ inc' = inc
    BY <1>4 DEF Tick
  <2> QED BY <2>4, <2>6, <2>7 DEF Hearing
<1>5. ASSUME NEW p \in Endpoint, Deliver(p) PROVE Hearing'
  <2>1. /\ Head(net[p]) \in Packet /\ Head(net[p]) \in OnTheWay(p)
        /\ \A q \in Endpoint : OnTheWay(q)' \subseteq OnTheWay(q)
    <3>1. net[p] # <<>> /\ net' = [net EXCEPT ![p] = Tail(@)] /\ late' = late
      BY <1>5 DEF Deliver
    <3>2. Head(net[p]) = net[p][1] /\ 1 \in DOMAIN net[p]
          /\ Head(net[p]) \in Packet
      BY <1>1, <3>1
    <3> QED BY <3>1, <3>2, OnTheWayTail DEF OnTheWay
  <2> QED BY <1>5, <2>1, ReceiveHearing DEF Deliver
<1>6. ASSUME NEW p \in Endpoint, DeliverLate(p) PROVE Hearing'
  <2>1. PICK m \in late[p] : /\ Receive(p, m)
                             /\ late' = [late EXCEPT ![p] = @ \ {m}]
                             /\ UNCHANGED <<inc, net, cut, addr, faults>>
    BY <1>6 DEF DeliverLate
  <2>2. /\ m \in Packet /\ m \in OnTheWay(p)
        /\ \A q \in Endpoint : OnTheWay(q)' \subseteq OnTheWay(q)
    BY <1>1, <2>1 DEF OnTheWay
  <2> QED BY <2>1, <2>2, ReceiveHearing
<1>7. ASSUME NEW p \in Endpoint, Lose(p) PROVE Hearing'
  <2>1. \A q \in Endpoint : OnTheWay(q)' \subseteq OnTheWay(q)
    BY <1>7, OnTheWayTail DEF Lose
  <2> QED BY <1>7, <2>1, QuietHearing DEF Lose
<1>8. ASSUME NEW p \in Endpoint, Straggle(p) PROVE Hearing'
  <2>1. net[p] \in Seq(Packet) /\ net[p] # <<>>
    BY <1>1, <1>8 DEF Straggle
  <2>2. 1 \in DOMAIN net[p] /\ Head(net[p]) = net[p][1]
    BY <2>1
  <2>3. StillDeliverable(Peer(p), {Head(net[p])}) \in SUBSET {Head(net[p])}
    BY DEF StillDeliverable
  <2>4. \A q \in Endpoint : OnTheWay(q)' \subseteq OnTheWay(q)
    <3>1. CASE net' = [net EXCEPT ![p] = Tail(@)]
      BY <1>8, <2>1, <2>3, <3>1, OnTheWayTail DEF Straggle
    <3>2. CASE net' = net
      BY <1>1, <1>8, <2>2, <2>3, <3>2 DEF Straggle, OnTheWay
    <3> QED BY <1>8, <3>1, <3>2 DEF Straggle
  <2> QED BY <1>8, <2>4, QuietHearing DEF Straggle
<1>9. ASSUME NEW p \in Endpoint, Restart(p) PROVE Hearing'
  BY <1>9 DEF Restart, Fault, NoRestart
<1>10. ASSUME NEW p \in Endpoint, Wedge(p) PROVE Hearing'
  <2>1. \A q \in Endpoint : sess'[q].state = sess[q].state
    BY <1>1, <1>10 DEF Wedge, Session
  <2> QED BY <1>10, <2>1, QuietHearing DEF Wedge, OnTheWay
<1>11. ASSUME NEW p \in Endpoint, Cut(p) \/ Mend(p) PROVE Hearing'
  BY <1>11, QuietHearing DEF Cut, Mend, OnTheWay
<1>12. CASE UNCHANGED vars
  BY <1>12, QuietHearing DEF vars, OnTheWay
<1> QED BY <1>2, <1>3, <1>4, <1>5, <1>6, <1>7, <1>8, <1>9, <1>10, <1>11,
           <1>12 DEF Next

\* While no daemon restarts, an endpoint that is UP is heard by its peer, for
\* every loss, delay, duplication, cut, address change and wedged socket.
THEOREM UpMeansHeard ==
  ASSUME NoRestart PROVE Spec => []UpIsBidirectional
<1>1. Init => Hearing
  BY DEF Init, Hearing, NewSession, HearsPeer, OnTheWay, Never
<1>2. TypeOK /\ Hearing /\ [Next]_vars => Hearing'
  BY HearingStep
<1>3. TypeOK /\ Hearing => UpIsBidirectional
  BY PeerType DEF Hearing, UpIsBidirectional
<1> QED BY <1>1, <1>2, <1>3, TypeCorrect, PTL DEF Spec

-----------------------------------------------------------------------------
(* The watermark.                                                          *)

\* Taking the oldest packet off an ordered stream leaves one that is ordered
\* from the old watermark and from that packet's number on.
LEMMA StreamTail ==
  ASSUME NEW ns \in Seq(Packet), ns # <<>>, NEW ls \in SUBSET Packet,
         NEW last \in SeqNo, NEW next \in SeqNo, Stream(ns, ls, last, next)
  PROVE  /\ Stream(Tail(ns), ls, last, next)
         /\ Stream(Tail(ns), ls, Head(ns).seq, next)
         /\ last <= Head(ns).seq
         /\ \A i \in DOMAIN Tail(ns) : Head(ns).seq <= Tail(ns)[i].seq
<1>1. /\ 1 \in DOMAIN ns /\ Head(ns) = ns[1]
      /\ \A i \in DOMAIN Tail(ns) : /\ i + 1 \in DOMAIN ns
                                    /\ Tail(ns)[i] = ns[i + 1]
                                    /\ i \in Nat /\ 1 < i + 1
  OBVIOUS
<1>2. \A i \in DOMAIN ns : ns[i].seq \in SeqNo
  <2>1. \A i \in DOMAIN ns : ns[i] \in Packet
    OBVIOUS
  <2> QED BY <2>1 DEF Packet
<1>3. \A i \in DOMAIN Tail(ns) : /\ Head(ns).seq < Tail(ns)[i].seq
                                 /\ last <= Tail(ns)[i].seq
                                 /\ Tail(ns)[i].seq < next
  BY <1>1 DEF Stream
<1>4. \A i, j \in DOMAIN Tail(ns) : i < j => Tail(ns)[i].seq < Tail(ns)[j].seq
  <2>1. \A i, j \in DOMAIN Tail(ns) : i < j => i + 1 < j + 1
    BY <1>1
  <2> QED BY <1>1, <2>1 DEF Stream
<1>5. \A m \in ls : \A i \in DOMAIN Tail(ns) : m.seq <= Tail(ns)[i].seq
  BY <1>1 DEF Stream
<1>6. last <= Head(ns).seq /\ Head(ns).seq < next
  BY <1>1 DEF Stream
<1>7. \A i \in DOMAIN Tail(ns) : Head(ns).seq <= Tail(ns)[i].seq
  BY <1>1, <1>2, <1>3 DEF SeqNo
<1> QED BY <1>3, <1>4, <1>5, <1>6, <1>7 DEF Stream

\* A packet delivered late is newer than the watermark or is filtered.
LEMMA StreamLate ==
  ASSUME MildReordering, NEW ns, NEW ls \in SUBSET Packet, NEW m \in ls,
         NEW last \in SeqNo, NEW next \in SeqNo, Stream(ns, ls, last, next)
  PROVE  /\ Stream(ns, ls \ {m}, last, next)
         /\ Stream(ns, ls \ {m}, m.seq, next)
         /\ last - Rewind <= m.seq
<1>1. m.seq \in SeqNo
  BY DEF Packet
<1> QED BY <1>1, NumberAssumption DEF Stream, MildReordering, SeqNo

\* The sender puts its next packet behind the others, and what has become too
\* old is no longer delivered.
LEMMA StreamSend ==
  ASSUME NEW ns \in Seq(Packet), NEW ls \in SUBSET Packet,
         NEW last \in SeqNo, NEW next \in SeqNo, Stream(ns, ls, last, next),
         NEW kept \in SUBSET ls, NEW out \in Seq(Packet),
         out = <<>> \/ (Len(out) = 1 /\ out[1].seq = next),
         \A m \in kept : (next + 1) - m.seq <= MaxDelay
  PROVE  Stream(ns \o out, kept, last, next + 1)
<1> DEFINE all == ns \o out
<1>1. \A i \in DOMAIN ns : ns[i].seq \in SeqNo
  <2>1. \A i \in DOMAIN ns : ns[i] \in Packet
    OBVIOUS
  <2> QED BY <2>1 DEF Packet
<1>2. \A m \in ls : m.seq \in SeqNo
  BY DEF Packet
<1>3. \A i \in DOMAIN all :
        \/ i \in DOMAIN ns /\ all[i] = ns[i]
        \/ i = Len(ns) + 1 /\ all[i].seq = next
  <2>1. CASE out = <<>>
    BY <2>1
  <2>2. CASE Len(out) = 1 /\ out[1].seq = next
    <3>1. DOMAIN all = 1 .. Len(ns) + 1 /\ DOMAIN ns = 1 .. Len(ns)
      <4>1. all \in Seq(Packet) /\ Len(all) = Len(ns) + Len(out)
        OBVIOUS
      <4> HIDE DEF all
      <4> QED BY <2>2, <4>1
    <3>2. \A i \in 1 .. Len(ns) + 1 :
            all[i] = IF i <= Len(ns) THEN ns[i] ELSE out[i - Len(ns)]
      <4>1. \A i \in 1 .. Len(ns) + Len(out) :
              all[i] = IF i <= Len(ns) THEN ns[i] ELSE out[i - Len(ns)]
        OBVIOUS
      <4> HIDE DEF all
      <4> QED BY <2>2, <4>1
    <3>3. Len(ns) \in Nat
      OBVIOUS
    <3> HIDE DEF all
    <3>4. \A i \in 1 .. Len(ns) + 1 : i <= Len(ns) \/ i - Len(ns) = 1
      BY <3>3
    <3> QED BY <2>2, <3>1, <3>2, <3>3, <3>4
  <2> QED BY <2>1, <2>2
<1>4. \A i \in DOMAIN ns : i \in Nat /\ i <= Len(ns)
  OBVIOUS
<1> HIDE DEF all
<1>5. \A i \in DOMAIN all : last <= all[i].seq /\ all[i].seq < next + 1
  BY <1>1, <1>3 DEF Stream, SeqNo
<1>6. \A i, j \in DOMAIN all : i < j => all[i].seq < all[j].seq
  BY <1>1, <1>3, <1>4 DEF Stream, SeqNo
<1>7. \A m \in kept : \A i \in DOMAIN all : m.seq <= all[i].seq
  BY <1>2, <1>3 DEF Stream, SeqNo
<1>8. \A m \in kept : m.seq < next + 1
  BY <1>2 DEF Stream, SeqNo
<1>9. last < next + 1
  BY DEF Stream, SeqNo
<1>10. \A m \in kept : (next + 1) - m.seq <= MaxDelay
  OBVIOUS
<1>11. Stream(all, kept, last, next + 1)
  BY ONLY <1>5, <1>6, <1>7, <1>8, <1>9, <1>10 DEF Stream
<1> QED BY <1>11 DEF all

\* Accepting, or dropping, a packet of an ordered stream moves the watermark
\* up or leaves it alone; accepted means newer.
LEMMA ReceiveOrdered ==
  ASSUME TypeOK, Hearing, Ordered, NEW p \in Endpoint, NEW m \in OnTheWay(p),
         m \in Packet, Receive(p, m), sess[p].lastRx - Rewind <= m.seq,
         inc' = inc,
         Stream(net'[p], late'[p], sess[p].lastRx, sess[Peer(p)].txSeq),
         Stream(net'[p], late'[p], m.seq, sess[Peer(p)].txSeq),
         \A q \in Endpoint \ {p} : net'[q] = net[q] /\ late'[q] = late[q]
  PROVE  /\ Ordered'
         /\ \A q \in Endpoint : RevivesOnNewEvidence(q)
<1>1. /\ sess[p] \in Session /\ heard \in [Endpoint -> Int \X Nat]
      /\ sess \in [Endpoint -> Session]
      /\ demotedBy \in [Endpoint -> Int \X Nat]
      /\ m.seq \in SeqNo /\ m.inc = 0
  BY DEF TypeOK, Packet, Hearing
<1>2. sess'[p] = AfterRx(sess[p], m)
      /\ \A q \in Endpoint \ {p} : sess'[q] = sess[q]
  BY <1>1 DEF Receive
<1>3. \A q \in Endpoint \ {p} :
        heard'[q] = heard[q] /\ demotedBy'[q] = demotedBy[q]
  BY <1>1 DEF Receive, Demoted
<1>4. /\ demotedBy'[p] \in {demotedBy[p], heard'[p]}
  BY <1>1 DEF Receive, Demoted
<1>5. sess'[p].txSeq = sess[p].txSeq /\ sess'[p].due = sess[p].due
  BY <1>1, <1>2, AfterRxFields
<1>6. \A q \in Endpoint \ {p} : Stream(net'[q], late'[q], sess'[q].lastRx,
                                       sess'[Peer(q)].txSeq)
  BY <1>2, <1>5, PeerType DEF Ordered
<1>7. CASE Filtered(sess[p], m.seq)
  <2>1. /\ sess'[p].lastRx = sess[p].lastRx /\ heard'[p] = heard[p]
        /\ sess'[p].state = sess[p].state
    BY <1>1, <1>2, <1>7, AfterRxFields DEF Receive
  <2>2. Stream(net'[p], late'[p], sess'[p].lastRx, sess'[Peer(p)].txSeq)
    BY <1>2, <2>1, PeerType
  <2>3. \A q \in Endpoint : /\ sess'[q].lastRx = sess[q].lastRx
                            /\ heard'[q] = heard[q]
                            /\ sess'[q].txSeq = sess[q].txSeq
                            /\ sess'[q].due = sess[q].due
                            /\ sess'[q].state = sess[q].state
    BY <1>2, <1>3, <1>5, <2>1
  <2>4. \A q \in Endpoint : heard[q][1] \in {-1, 0}
    BY DEF Hearing
  <2>5. \A q \in Endpoint : demotedBy'[q] \in {demotedBy[q], heard[q]}
    BY <1>3, <1>4, <2>1
  <2>6. \A q \in Endpoint :
          /\ demotedBy'[q][1] \in {-1, 0}
          /\ demotedBy'[q][1] = 0 => demotedBy'[q][2] <= sess'[q].lastRx
    <3>1. \A q \in Endpoint : heard[q][1] = 0 => heard[q][2] <= sess[q].lastRx
      BY <1>1, NumberAssumption DEF Ordered, Session, SeqNo
    <3> QED BY <2>3, <2>4, <2>5, <3>1 DEF Ordered
  <2> QED BY <1>6, <2>2, <2>3, <2>6 DEF Ordered, RevivesOnNewEvidence
<1>8. CASE ~Filtered(sess[p], m.seq)
  <2>1. sess'[p].lastRx = m.seq /\ heard'[p] = <<0, m.seq>>
    BY <1>1, <1>2, <1>8, AfterRxFields DEF Receive
  <2>2. sess[p].lastRx < m.seq
    BY <1>1, <1>8, NumberAssumption DEF Filtered, Session, SeqNo
  <2>3. Stream(net'[p], late'[p], sess'[p].lastRx, sess'[Peer(p)].txSeq)
    BY <1>2, <2>1, PeerType
  <2>4. /\ demotedBy[p][1] \in {-1, 0}
        /\ demotedBy[p][1] = 0 => demotedBy[p][2] < m.seq
    BY <1>1, <2>2, NumberAssumption DEF Ordered, Session, SeqNo
  <2>5. /\ demotedBy'[p][1] \in {-1, 0}
        /\ demotedBy'[p][1] = 0 => demotedBy'[p][2] <= sess'[p].lastRx
    <3>1. CASE demotedBy'[p] = demotedBy[p]
      BY <1>1, <2>1, <2>4, <3>1, NumberAssumption DEF SeqNo
    <3>2. CASE demotedBy'[p] = heard'[p]
      BY <1>1, <2>1, <3>2, NumberAssumption DEF SeqNo
    <3> QED BY <1>4, <3>1, <3>2
  <2>6. SentAfter(heard'[p], demotedBy[p])
    BY <2>1, <2>4 DEF SentAfter
  <2>7. \A q \in Endpoint : RevivesOnNewEvidence(q)
    BY <1>2, <2>6 DEF RevivesOnNewEvidence
  <2>8. \A q \in Endpoint :
          /\ sess'[q].txSeq <= IF sess'[q].due THEN MaxSeq ELSE MaxSeq + 1
          /\ heard'[q][1] = 0 => heard'[q][2] = sess'[q].lastRx
    BY <1>2, <1>3, <1>5, <2>1 DEF Ordered
  <2>9. \A q \in Endpoint \ {p} :
          /\ demotedBy'[q][1] \in {-1, 0}
          /\ demotedBy'[q][1] = 0 => demotedBy'[q][2] <= sess'[q].lastRx
    BY <1>2, <1>3 DEF Ordered
  <2> QED BY <1>6, <2>3, <2>5, <2>7, <2>8, <2>9 DEF Ordered
<1> QED BY <1>7, <1>8

\* A step that leaves what the streams are made of alone keeps them ordered,
\* and revives nothing.
LEMMA QuietOrdered ==
  ASSUME Ordered, heard' = heard, demotedBy' = demotedBy,
         \A q \in Endpoint :
           /\ sess'[q].lastRx = sess[q].lastRx
           /\ sess'[q].txSeq = sess[q].txSeq
           /\ sess'[q].state = sess[q].state
           /\ sess'[q].due = sess[q].due \/ sess'[q].txSeq < MaxSeq
           /\ Stream(net'[q], late'[q], sess[q].lastRx, sess[Peer(q)].txSeq),
         \A q \in Endpoint : sess[q] \in Session
  PROVE  Ordered' /\ \A q \in Endpoint : RevivesOnNewEvidence(q)
<1>1. \A q \in Endpoint :
        sess'[q].txSeq <= IF sess'[q].due THEN MaxSeq ELSE MaxSeq + 1
  BY NumberAssumption DEF Ordered, Session, SeqNo
<1>2. \A q \in Endpoint :
        Stream(net'[q], late'[q], sess'[q].lastRx, sess'[Peer(q)].txSeq)
  BY PeerType
<1>3. \A q \in Endpoint : RevivesOnNewEvidence(q)
  BY DEF RevivesOnNewEvidence
<1> QED BY <1>1, <1>2, <1>3 DEF Ordered

\* A tick sends at most the next number, behind everything else on the way.
LEMMA TickOrdered ==
  ASSUME NoRestart, NoWrap, TypeOK, Hearing, Ordered,
         NEW p \in Endpoint, Tick(p)
  PROVE  Ordered' /\ \A q \in Endpoint : RevivesOnNewEvidence(q)
<1> DEFINE r == Peer(p)
<1>1. /\ sess \in [Endpoint -> Session] /\ net \in [Endpoint -> Seq(Packet)]
      /\ late \in [Endpoint -> SUBSET Packet] /\ sess[p] \in Session
      /\ heard \in [Endpoint -> Int \X Nat]
      /\ demotedBy \in [Endpoint -> Int \X Nat]
      /\ r \in Endpoint /\ r # p /\ Peer(r) = p
  BY PeerType DEF TypeOK
<1> HIDE DEF r
<1>2. PICK s \in Session, missed \in Int, ok \in BOOLEAN :
        /\ sess' = [sess EXCEPT ![p] = AfterTick(s, missed, ok)]
        /\ net' = [net EXCEPT ![Peer(p)] = @ \o Outgoing(p, s)]
        /\ TickFrom(p, s)
  BY TickTakes
<1>3. s.state = sess[p].state /\ s.lastRx = sess[p].lastRx /\ s.txSeq = sess[p].txSeq
  BY <1>2 DEF TickFrom
<1>4. /\ sess'[p] = AfterTick(s, missed, ok)
      /\ \A q \in Endpoint \ {p} : sess'[q] = sess[q]
  BY <1>1, <1>2
<1>5. /\ sess'[p].lastRx = sess[p].lastRx /\ ~sess'[p].due
      /\ sess'[p].state \in {sess[p].state, "DOWN"}
      /\ sess'[p].txSeq = IF Sends(s) THEN (sess[p].txSeq + 1) % SeqMod
                          ELSE sess[p].txSeq
  BY <1>1, <1>3, <1>4, AfterTickFields
<1>6. /\ sess[p].txSeq \in SeqNo /\ sess[p].txSeq <= MaxSeq
      /\ sess'[p].txSeq = IF Sends(s) THEN sess[p].txSeq + 1
                          ELSE sess[p].txSeq
      /\ sess'[p].txSeq <= MaxSeq + 1
  <2>1. sess[p].txSeq \in SeqNo /\ sess[p].txSeq <= MaxSeq /\ sess[p].due
    BY <1>1 DEF Ordered, Session, Tick
  <2>2. (sess[p].txSeq + 1) % SeqMod = sess[p].txSeq + 1
    BY <2>1, NumberAssumption DEF NoWrap, SeqNo
  <2> QED BY <1>5, <2>1, <2>2, NumberAssumption DEF SeqNo
<1>7. /\ net'[r] = net[r] \o Outgoing(p, s) /\ net'[p] = net[p]
      /\ late'[r] = StillDeliverable(p, late[r]) /\ late'[p] = late[p]
  BY <1>1, <1>2 DEF Tick, r
<1>8. Stream(net'[r], late'[r], sess'[r].lastRx, sess'[p].txSeq)
  <2>1. Stream(net[r], late[r], sess[r].lastRx, sess[p].txSeq)
    BY <1>1 DEF Ordered
  <2>2. late'[r] \in SUBSET late[r]
        /\ \A m \in late'[r] : sess'[p].txSeq - m.seq <= MaxDelay
    <3>1. inc[p] = 0 /\ \A m \in late[r] : m.inc = 0
      BY <1>1 DEF Hearing, OnTheWay
    <3> QED BY <1>7, <3>1 DEF StillDeliverable
  <2>3. sess[r].lastRx \in SeqNo /\ sess'[r].lastRx = sess[r].lastRx
    BY <1>1, <1>4 DEF Session
  <2>4. Outgoing(p, s) \in Seq(Packet)
    BY OutgoingType
  <2>5. CASE Sends(s)
    <3>1. Outgoing(p, s) = <<>>
          \/ (Len(Outgoing(p, s)) = 1 /\ Outgoing(p, s)[1].seq = sess[p].txSeq)
      BY <1>3 DEF Outgoing
    <3>2. net[r] \in Seq(Packet) /\ late[r] \in SUBSET Packet
      BY <1>1
    <3>3. sess'[p].txSeq = sess[p].txSeq + 1
      BY <1>6, <2>5
    <3>4. \A m \in late'[r] : (sess[p].txSeq + 1) - m.seq <= MaxDelay
      BY <2>2, <3>3
    <3> HIDE DEF Outgoing
    <3>5. Stream(net[r] \o Outgoing(p, s), late'[r], sess[r].lastRx,
                 sess[p].txSeq + 1)
      BY <1>6, <2>1, <2>2, <2>3, <2>4, <3>1, <3>2, <3>4, StreamSend
    <3> QED BY <1>7, <2>3, <3>3, <3>5
  <2>6. CASE ~Sends(s)
    <3>1. Outgoing(p, s) = <<>> /\ sess'[p].txSeq = sess[p].txSeq
      BY <1>6, <2>6 DEF Outgoing
    <3>2. net'[r] = net[r]
      BY <1>1, <1>7, <3>1
    <3> QED BY <2>1, <2>2, <2>3, <3>1, <3>2 DEF Stream
  <2> QED BY <2>5, <2>6
<1>9. Stream(net'[p], late'[p], sess'[p].lastRx, sess'[r].txSeq)
  BY <1>1, <1>4, <1>5, <1>7 DEF Ordered, r
<1>10. \A q \in Endpoint : q = p \/ q = r
  BY EndpointAssumption DEF r, Peer, Endpoint
<1>11. heard' = heard /\ demotedBy' = Demoted(p)
  BY <1>1 DEF Tick
<1>12. \A q \in Endpoint : sess'[q].lastRx = sess[q].lastRx
  BY <1>4, <1>5
<1>13. \A q \in Endpoint :
         /\ demotedBy'[q][1] \in {-1, 0}
         /\ demotedBy'[q][1] = 0 => demotedBy'[q][2] <= sess'[q].lastRx
  <2>1. \A q \in Endpoint : demotedBy'[q] \in {demotedBy[q], heard[q]}
    BY <1>1, <1>11 DEF Demoted
  <2>2. \A q \in Endpoint : /\ heard[q][1] \in {-1, 0}
                            /\ heard[q][1] = 0 => heard[q][2] <= sess[q].lastRx
    <3>1. \A q \in Endpoint : sess[q].lastRx \in Int
      BY <1>1, NumberAssumption DEF Session, SeqNo
    <3> QED BY <3>1 DEF Hearing, Ordered
  <2> QED BY <1>12, <2>1, <2>2 DEF Ordered
<1>14. \A q \in Endpoint : RevivesOnNewEvidence(q)
  BY <1>4, <1>5 DEF RevivesOnNewEvidence
<1>15. \A q \in Endpoint :
         sess'[q].txSeq <= IF sess'[q].due THEN MaxSeq ELSE MaxSeq + 1
  BY <1>4, <1>5, <1>6 DEF Ordered
<1>16. \A q \in Endpoint : heard'[q][1] = 0 => heard'[q][2] = sess'[q].lastRx
  BY <1>11, <1>12 DEF Ordered
<1>17. \A q \in Endpoint : Stream(net'[q], late'[q], sess'[q].lastRx,
                                  sess'[Peer(q)].txSeq)
  BY <1>1, <1>8, <1>9, <1>10 DEF r
<1> QED BY <1>13, <1>14, <1>15, <1>16, <1>17 DEF Ordered

\* Every step keeps the streams ordered and revives only on new evidence.
LEMMA OrderedStep ==
  ASSUME NoRestart, NoWrap, MildReordering,
         TypeOK, Hearing, Ordered, [Next]_vars
  PROVE  Ordered' /\ \A q \in Endpoint : RevivesOnNewEvidence(q)
<1> DEFINE Goal == Ordered' /\ \A q \in Endpoint : RevivesOnNewEvidence(q)
<1>1. /\ sess \in [Endpoint -> Session] /\ net \in [Endpoint -> Seq(Packet)]
      /\ late \in [Endpoint -> SUBSET Packet]
      /\ \A q \in Endpoint : /\ sess[q].lastRx \in SeqNo
                             /\ sess[q].txSeq \in SeqNo
      /\ \A q \in Endpoint : sess[q] \in Session
  BY DEF TypeOK, Session
<1>2. \A q \in Endpoint :
        Stream(net[q], late[q], sess[q].lastRx, sess[Peer(q)].txSeq)
  BY DEF Ordered
<1>3. CASE Elapse
  <2>1. \A q \in Endpoint :
          /\ sess'[q].lastRx = sess[q].lastRx
          /\ sess'[q].txSeq = sess[q].txSeq
          /\ sess'[q].state = sess[q].state
          /\ sess'[q].txSeq < MaxSeq
    BY <1>1, <1>3 DEF Elapse, Session
  <2> QED BY <1>1, <1>2, <1>3, <2>1, QuietOrdered DEF Elapse
<1>4. CASE Roam
  <2>1. \A q \in Endpoint : Stream(net'[q], late'[q], sess[q].lastRx,
                                   sess[Peer(q)].txSeq)
    BY <1>1, <1>2, <1>4 DEF Roam, Stream
  <2> QED BY <1>1, <1>4, <2>1, QuietOrdered DEF Roam
<1>5. ASSUME NEW p \in Endpoint, Tick(p) PROVE Goal
  BY <1>5, TickOrdered
<1>6. ASSUME NEW p \in Endpoint, Deliver(p) PROVE Goal
  <2>1. /\ net[p] \in Seq(Packet) /\ net[p] # <<>>
        /\ net' = [net EXCEPT ![p] = Tail(@)] /\ late' = late /\ inc' = inc
        /\ Receive(p, Head(net[p]))
    BY <1>1, <1>6 DEF Deliver
  <2>2. Head(net[p]) \in Packet /\ Head(net[p]) \in OnTheWay(p)
    <3>1. 1 \in DOMAIN net[p] /\ Head(net[p]) = net[p][1]
          /\ Head(net[p]) \in Packet
      BY <2>1
    <3> QED BY <3>1 DEF OnTheWay
  <2>3. /\ Stream(Tail(net[p]), late[p], sess[p].lastRx, sess[Peer(p)].txSeq)
        /\ Stream(Tail(net[p]), late[p], Head(net[p]).seq,
                  sess[Peer(p)].txSeq)
        /\ sess[p].lastRx <= Head(net[p]).seq
    BY <1>1, <1>2, <2>1, PeerType, StreamTail
  <2>4. net'[p] = Tail(net[p]) /\ late'[p] = late[p]
        /\ \A q \in Endpoint \ {p} : net'[q] = net[q] /\ late'[q] = late[q]
    BY <1>1, <2>1
  <2>5. sess[p].lastRx - Rewind <= Head(net[p]).seq
    BY <1>1, <2>2, <2>3, NumberAssumption DEF Packet, SeqNo
  <2> QED BY <2>1, <2>2, <2>3, <2>4, <2>5, ReceiveOrdered
<1>7. ASSUME NEW p \in Endpoint, DeliverLate(p) PROVE Goal
  <2>1. PICK m \in late[p] : /\ Receive(p, m)
                             /\ late' = [late EXCEPT ![p] = @ \ {m}]
                             /\ UNCHANGED <<inc, net, cut, addr, faults>>
    BY <1>7 DEF DeliverLate
  <2>2. m \in Packet /\ m \in OnTheWay(p) /\ late[p] \in SUBSET Packet
    BY <1>1, <2>1 DEF OnTheWay
  <2>3. /\ Stream(net[p], late[p] \ {m}, sess[p].lastRx, sess[Peer(p)].txSeq)
        /\ Stream(net[p], late[p] \ {m}, m.seq, sess[Peer(p)].txSeq)
        /\ sess[p].lastRx - Rewind <= m.seq
    BY <1>1, <1>2, <2>2, PeerType, StreamLate
  <2>4. net'[p] = net[p] /\ late'[p] = late[p] \ {m}
        /\ \A q \in Endpoint \ {p} : net'[q] = net[q] /\ late'[q] = late[q]
    BY <1>1, <2>1
  <2> QED BY <2>1, <2>2, <2>3, <2>4, ReceiveOrdered
<1>8. ASSUME NEW p \in Endpoint, Lose(p) PROVE Goal
  <2>1. /\ net[p] \in Seq(Packet) /\ net[p] # <<>>
        /\ net'[p] = Tail(net[p])
        /\ \A q \in Endpoint \ {p} : net'[q] = net[q]
        /\ UNCHANGED <<sess, inc, late, heard, demotedBy>>
    BY <1>1, <1>8 DEF Lose
  <2>2. Stream(Tail(net[p]), late[p], sess[p].lastRx, sess[Peer(p)].txSeq)
    BY <1>1, <1>2, <2>1, PeerType, StreamTail
  <2>3. \A q \in Endpoint : Stream(net'[q], late'[q], sess[q].lastRx,
                                   sess[Peer(q)].txSeq)
    BY <1>2, <2>1, <2>2
  <2> QED BY <1>1, <2>1, <2>3, QuietOrdered
<1>9. ASSUME NEW p \in Endpoint, Straggle(p) PROVE Goal
  <2> DEFINE h == Head(net[p])
             ls == late[p] \cup StillDeliverable(Peer(p), {h})
             next == sess[Peer(p)].txSeq
  <2>1. /\ net[p] \in Seq(Packet) /\ net[p] # <<>>
        /\ net'[p] \in {net[p], Tail(net[p])} /\ late'[p] = ls
        /\ \A q \in Endpoint \ {p} : net'[q] = net[q] /\ late'[q] = late[q]
        /\ UNCHANGED <<sess, inc, heard, demotedBy>>
    BY <1>1, <1>9 DEF Straggle
  <2>2. /\ h \in Packet /\ 1 \in DOMAIN net[p] /\ h = net[p][1]
        /\ \A i \in DOMAIN net[p] : net[p][i] \in Packet /\ (i = 1 \/ 1 < i)
    BY <2>1
  <2>3. Stream(net[p], late[p], sess[p].lastRx, next)
        /\ next \in SeqNo /\ h.seq \in SeqNo
    BY <1>1, <1>2, <2>2, PeerType DEF Packet
  <2>4. /\ Stream(Tail(net[p]), late[p], sess[p].lastRx, next)
        /\ \A i \in DOMAIN Tail(net[p]) : h.seq <= Tail(net[p])[i].seq
    BY <1>1, <2>1, <2>3, StreamTail
  <2>5. /\ \A i \in DOMAIN net[p] : h.seq <= net[p][i].seq
        /\ h.seq < next
    BY <2>2, <2>3, NumberAssumption DEF Stream, Packet, SeqNo
  <2>6. \A m \in ls : m \in late[p] \/ (m = h /\ next - h.seq <= MaxDelay)
    <3>1. h.inc = 0 /\ inc[Peer(p)] = 0
      BY <2>2, PeerType DEF Hearing, OnTheWay
    <3> QED BY <2>1, <3>1 DEF StillDeliverable
  <2> HIDE DEF ls, h, next
  <2>7. Stream(net[p], ls, sess[p].lastRx, next)
    BY <2>3, <2>5, <2>6 DEF Stream
  <2>8. Stream(Tail(net[p]), ls, sess[p].lastRx, next)
    BY <2>4, <2>5, <2>6 DEF Stream
  <2>9. \A q \in Endpoint : Stream(net'[q], late'[q], sess[q].lastRx,
                                   sess[Peer(q)].txSeq)
    BY <1>2, <2>1, <2>7, <2>8 DEF next
  <2> QED BY <1>1, <2>1, <2>9, QuietOrdered
<1>10. ASSUME NEW p \in Endpoint, Restart(p) PROVE Goal
  BY <1>10 DEF Restart, Fault, NoRestart
<1>11. ASSUME NEW p \in Endpoint, Wedge(p) PROVE Goal
  <2>1. \A q \in Endpoint :
          /\ sess'[q].lastRx = sess[q].lastRx
          /\ sess'[q].txSeq = sess[q].txSeq
          /\ sess'[q].state = sess[q].state
          /\ sess'[q].due = sess[q].due
    BY <1>1, <1>11 DEF Wedge, Session
  <2> QED BY <1>1, <1>2, <1>11, <2>1, QuietOrdered DEF Wedge
<1>12. ASSUME NEW p \in Endpoint, Cut(p) \/ Mend(p) PROVE Goal
  BY <1>1, <1>2, <1>12, QuietOrdered DEF Cut, Mend
<1>13. CASE UNCHANGED vars
  BY <1>1, <1>2, <1>13, QuietOrdered DEF vars
<1> QED BY <1>3, <1>4, <1>5, <1>6, <1>7, <1>8, <1>9, <1>10, <1>11, <1>12,
           <1>13 DEF Next

\* While no daemon restarts, no sequence number repeats and packets overtake
\* each other by less than the replay filter allows for, the watermark that
\* transition() keeps does its work: nothing sent before a demotion brings
\* the session back up.
THEOREM WatermarkHolds ==
  ASSUME NoRestart, NoWrap, MildReordering PROVE Spec => NoStaleRevival
<1> DEFINE IInv == TypeOK /\ Hearing /\ Ordered
<1>1. Init => Hearing /\ Ordered
  <2>1. Init => Hearing
    BY DEF Init, Hearing, NewSession, HearsPeer, OnTheWay, Never
  <2>2. Init => Ordered
    BY PeerType, NumberAssumption
       DEF Init, Ordered, NewSession, Never, Stream, NoWrap
  <2> QED BY <2>1, <2>2
<1>2. IInv /\ [Next]_vars => Hearing' /\ Ordered'
  BY HearingStep, OrderedStep
<1>3. IInv /\ [Next]_vars => [\A p \in Endpoint : RevivesOnNewEvidence(p)]_vars
  BY OrderedStep
<1> QED BY <1>1, <1>2, <1>3, TypeCorrect, PTL DEF Spec, NoStaleRevival
=============================================================================
