------------------------ MODULE EgressObserverProofs ------------------------
(***************************************************************************)
(* Theorems about the egress observer, for any modes, times and numbers of *)
(* checks: its type, and, when a mismatch takes two checks or more, that   *)
(* no alarm is raised of a relay that did not stray.                       *)
(***************************************************************************)
EXTENDS EgressObserver, TLAPS

-----------------------------------------------------------------------------
(* The type invariant.                                                     *)

ThreadType ==
  /\ kick \in BOOLEAN /\ stop \in BOOLEAN
  /\ noting \in BOOLEAN /\ nudged \in BOOLEAN
  /\ pc \in {"loop", "kicked", "settle", "check", "fetch", "record", "wait", "done"}
  /\ left \in 0 .. Settle + Interval + FetchTime
  /\ asked \in Modes \cup {NoMode} /\ page \in Relayed \cup {"error", "none"}

WorldType ==
  /\ exit \in Relayed /\ astray \in BOOLEAN /\ readable \in BOOLEAN
  /\ events \in 0 .. MaxEvents /\ sinceSelect \in 0 .. Settle
  /\ strayed \in BOOLEAN

\* Only a selected mode is recorded, and one of the relay only with a page.
AskedSound ==
  /\ pc \in {"fetch", "record"} => asked # NoMode
  /\ pc = "fetch" => asked # LocalDirect
  /\ pc = "record" /\ asked # LocalDirect => page \in Relayed \cup {"error"}

\* A count stops at enough.
LEMMA CountType ==
  ASSUME NEW enough \in Nat, NEW n \in 0 .. enough
  PROVE  Count(n, enough) \in 0 .. enough
BY DEF Count

\* A selection starts over.
LEMMA SelectedType ==
  ASSUME NEW t \in Tracker, NEW mode \in Modes
  PROVE  /\ Selected(t, mode) \in Tracker
         /\ Selected(t, mode).selected = mode
         /\ Selected(t, mode).status = "checking"
         /\ Selected(t, mode).count = 0 /\ Selected(t, mode).errors = 0
<1>1. 0 \in 0 .. MismatchChecks /\ 0 \in 0 .. ErrorChecks /\ "checking" \in Status
  BY TimeAssumption DEF Status
<1> QED BY <1>1 DEF Selected, Tracker

\* What a check makes of the tracker: one case each for a mode without a check,
\* an error, the selected exit, and another one.
LEMMA UpdatedCases ==
  ASSUME NEW t \in Tracker, NEW seen
  PROVE  /\ Updated(t, seen) \in Tracker
         /\ Updated(t, seen).selected = t.selected
         /\ \/ /\ t.selected = LocalDirect
               /\ Updated(t, seen).status = "skipped"
               /\ Updated(t, seen).count = 0
            \/ /\ t.selected # LocalDirect /\ seen = "error"
               /\ Updated(t, seen).status \in {"error", "failing"}
               /\ Updated(t, seen).count = t.count
            \/ /\ t.selected # LocalDirect /\ seen = t.selected
               /\ Updated(t, seen).status = "match"
               /\ Updated(t, seen).count = 0 /\ Updated(t, seen).errors = 0
            \/ /\ t.selected # LocalDirect /\ seen # "error" /\ seen # t.selected
               /\ Updated(t, seen).count = Count(t.count, MismatchChecks)
               /\ Updated(t, seen).errors = 0
               /\ \/ /\ Updated(t, seen).status = "mismatch"
                     /\ Updated(t, seen).count >= MismatchChecks
                  \/ Updated(t, seen).status = "pending"
<1> DEFINE count  == Count(t.count, MismatchChecks)
           errors == Count(t.errors, ErrorChecks)
<1>1. /\ count \in 0 .. MismatchChecks /\ errors \in 0 .. ErrorChecks
      /\ 0 \in 0 .. MismatchChecks /\ 0 \in 0 .. ErrorChecks
      /\ {"skipped", "error", "failing", "match", "mismatch", "pending"} \subseteq Status
  BY CountType, TimeAssumption DEF Tracker, Status
<1>2. CASE t.selected = LocalDirect
  <2>1. Updated(t, seen) = [t EXCEPT !.status = "skipped", !.count = 0, !.errors = 0]
    BY <1>2 DEF Updated
  <2> QED BY <2>1, <1>1, <1>2 DEF Tracker
<1>3. CASE t.selected # LocalDirect /\ seen = "error"
  <2> DEFINE status == IF errors >= ErrorChecks THEN "failing" ELSE "error"
  <2>1. Updated(t, seen) = [t EXCEPT !.errors = errors, !.status = status]
    BY <1>3, ModeAssumption DEF Updated, Tracker
  <2>2. status \in {"error", "failing"}
    OBVIOUS
  <2> HIDE DEF status, errors
  <2> QED BY <2>1, <2>2, <1>1, <1>3 DEF Tracker
<1>4. CASE t.selected # LocalDirect /\ seen # "error" /\ seen = t.selected
  <2>1. Updated(t, seen) = [t EXCEPT !.status = "match", !.count = 0, !.errors = 0]
    BY <1>4 DEF Updated
  <2> QED BY <2>1, <1>1, <1>4 DEF Tracker
<1>5. CASE t.selected # LocalDirect /\ seen # "error" /\ seen # t.selected
  <2> DEFINE status == IF count >= MismatchChecks THEN "mismatch" ELSE "pending"
  <2>1. Updated(t, seen) = [t EXCEPT !.errors = 0, !.count = count, !.status = status]
    BY <1>5 DEF Updated
  <2>2. \/ status = "mismatch" /\ count >= MismatchChecks
        \/ status = "pending"
    OBVIOUS
  <2>3. /\ Updated(t, seen) \in Tracker /\ Updated(t, seen).selected = t.selected
        /\ Updated(t, seen).count = count /\ Updated(t, seen).errors = 0
        /\ Updated(t, seen).status = status
    <3> HIDE DEF status, count
    <3> QED BY <2>1, <2>2, <1>1 DEF Tracker
  <2> HIDE DEF status
  <2> QED BY <2>2, <2>3, <1>5
<1> QED BY <1>2, <1>3, <1>4, <1>5

TypeInv == TypeOK /\ AskedSound

\* So it begins.
LEMMA TypeInit == Init => TypeInv
<1> SUFFICES ASSUME Init PROVE TypeInv
  OBVIOUS
<1>1. /\ 0 \in 0 .. MismatchChecks /\ 0 \in 0 .. ErrorChecks /\ 0 \in 0 .. MaxEvents
      /\ 0 \in 0 .. Settle /\ 0 \in 0 .. Settle + Interval + FetchTime
  BY TimeAssumption
<1>2. tracker \in Tracker /\ TrackerConsistent
  BY <1>1 DEF Init, Tracker, TrackerConsistent, Status
<1> QED BY <1>1, <1>2 DEF Init, TypeInv, TypeOK, AskedSound

\* A new selection, and what a record makes of the tracker, are consistent.
LEMMA TrackerSteps ==
  ASSUME TypeInv
  PROVE  /\ SetSelected => tracker' \in Tracker /\ TrackerConsistent'
         /\ Record => tracker' \in Tracker /\ TrackerConsistent'
<1>1. ASSUME SetSelected PROVE tracker' \in Tracker /\ TrackerConsistent'
  <2>1. PICK mode \in Modes : tracker' = Selected(tracker, mode)
    BY <1>1 DEF SetSelected
  <2>2. tracker \in Tracker
    BY DEF TypeInv, TypeOK
  <2> QED BY <2>1, <2>2, SelectedType DEF TrackerConsistent
<1>2. ASSUME Record PROVE tracker' \in Tracker /\ TrackerConsistent'
  <2>1. /\ tracker \in Tracker /\ TrackerConsistent /\ asked # NoMode
        /\ tracker' = IF tracker.selected = asked THEN Updated(tracker, page) ELSE tracker
    BY <1>2 DEF Record, At, TypeInv, TypeOK, AskedSound
  <2>2. CASE tracker.selected = asked
    <3> DEFINE new == Updated(tracker, page)
    <3>1. tracker' = new /\ new \in Tracker /\ new.selected = tracker.selected
      BY <2>1, <2>2, UpdatedCases
    <3>2. tracker.selected \in Modes
      BY <2>1, <2>2 DEF Tracker
    <3>3. CASE tracker.selected = LocalDirect
      <4>1. new.status = "skipped" /\ new.count = 0
        BY <2>1, <3>3, UpdatedCases
      <4> HIDE DEF new
      <4> QED BY <3>1, <3>3, <4>1 DEF TrackerConsistent
    <3>4. CASE tracker.selected # LocalDirect
      <4>1. \/ new.status \in {"error", "failing"}
            \/ new.status = "match" /\ new.count = 0 /\ new.errors = 0
            \/ new.status \in {"mismatch", "pending"} /\ new.errors = 0
        BY <2>1, <3>4, UpdatedCases
      <4>2. new.selected \in Relayed
        BY <3>1, <3>2, <3>4 DEF Relayed
      <4> HIDE DEF new
      <4> QED BY <3>1, <4>1, <4>2 DEF TrackerConsistent
    <3> QED BY <3>3, <3>4
  <2>3. CASE tracker.selected # asked
    BY <2>1, <2>3 DEF TrackerConsistent
  <2> QED BY <2>2, <2>3
<1> QED BY <1>1, <1>2

\* Every step keeps the types, and what is known of the mode asked about.
LEMMA TypeStep == TypeInv /\ [Next]_vars => TypeInv'
<1> SUFFICES ASSUME TypeInv, [Next]_vars PROVE TypeInv'
  OBVIOUS
<1>t. /\ tracker \in Tracker /\ TrackerConsistent /\ ThreadType /\ WorldType /\ AskedSound
  BY DEF TypeInv, TypeOK, ThreadType, WorldType
<1>q. ASSUME tracker' \in Tracker, TrackerConsistent', ThreadType', WorldType', AskedSound'
      PROVE  TypeInv'
  BY <1>q DEF TypeInv, TypeOK, ThreadType, WorldType
<1>c. ASSUME tracker' = tracker PROVE tracker' \in Tracker /\ TrackerConsistent'
  BY <1>t, <1>c DEF TrackerConsistent
<1>n. /\ Settle \in Nat /\ Interval \in Nat /\ FetchTime \in Nat /\ MaxEvents \in Nat
  BY TimeAssumption
<1>1. CASE SetSelected
  <2>1. tracker' \in Tracker /\ TrackerConsistent'
    BY <1>1, TrackerSteps
  <2>2. ThreadType' /\ AskedSound'
    BY <1>t, <1>1 DEF SetSelected, ThreadType, AskedSound
  <2>3. events' \in 0 .. MaxEvents /\ 0 \in 0 .. Settle
    BY <1>t, <1>n, <1>1 DEF SetSelected, Event, WorldType
  <2>4. WorldType'
    BY <1>t, <1>1, <2>3 DEF SetSelected, Event, WorldType
  <2> QED BY <1>q, <2>1, <2>2, <2>4
<1>2. CASE Kick \/ Stop \/ KickOnStop
  <2>1. ThreadType' /\ WorldType' /\ AskedSound' /\ tracker' = tracker
    BY <1>t, <1>2 DEF Kick, Stop, KickOnStop, world, history, ThreadType, WorldType, AskedSound
  <2> QED BY <1>q, <1>c, <2>1
<1>3. CASE LoopTest \/ TakeKick \/ EndSettle \/ EndWait
  <2>1. WorldType' /\ AskedSound' /\ tracker' = tracker
    BY <1>t, <1>3 DEF LoopTest, TakeKick, EndSettle, EndWait, At, world, history,
                      WorldType, AskedSound
  <2>2. Settle \in 0 .. Settle + Interval + FetchTime
    BY <1>n
  <2>3. ThreadType'
    BY <1>t, <1>3, <2>2 DEF LoopTest, TakeKick, EndSettle, EndWait, At, ThreadType
  <2> QED BY <1>q, <1>c, <2>1, <2>3
<1>4. CASE BeginCheck
  <2>1. tracker.selected \in Modes \cup {NoMode}
    BY <1>t DEF Tracker
  <2>2. ThreadType' /\ WorldType' /\ AskedSound' /\ tracker' = tracker
    BY <1>t, <1>n, <1>4, <2>1, ModeAssumption
       DEF BeginCheck, At, world, history, ThreadType, WorldType, AskedSound
  <2> QED BY <1>q, <1>c, <2>2
<1>5. CASE FetchReturns
  <2>1. ThreadType' /\ WorldType' /\ AskedSound' /\ tracker' = tracker
    BY <1>t, <1>5 DEF FetchReturns, At, world, history, ThreadType, WorldType, AskedSound
  <2> QED BY <1>q, <1>c, <2>1
<1>6. CASE Record
  <2>1. tracker' \in Tracker /\ TrackerConsistent'
    BY <1>6, TrackerSteps
  <2>2. ThreadType' /\ WorldType' /\ AskedSound'
    BY <1>t, <1>n, <1>6 DEF Record, At, world, history, ThreadType, WorldType, AskedSound
  <2> QED BY <1>q, <2>1, <2>2
<1>7. CASE RelayApplies \/ Stray \/ ComeBack \/ PageChanges
  <2>1. ThreadType' /\ AskedSound' /\ tracker' = tracker
    BY <1>t, <1>7 DEF RelayApplies, Stray, ComeBack, PageChanges, threads, ThreadType, AskedSound
  <2>2. events' \in 0 .. MaxEvents
    BY <1>t, <1>n, <1>7 DEF RelayApplies, Stray, ComeBack, PageChanges, Event, WorldType
  <2>3. WorldType'
    BY <1>t, <1>7, <2>2 DEF RelayApplies, RelayBehind, Stray, ComeBack, PageChanges,
                            history, WorldType
  <2> QED BY <1>q, <1>c, <2>1, <2>3
<1>8. CASE Elapse
  <2>1. Count(sinceSelect, Settle) \in 0 .. Settle
    BY <1>t, <1>n, CountType DEF WorldType
  <2>2. ThreadType' /\ WorldType' /\ AskedSound' /\ tracker' = tracker
    BY <1>t, <1>n, <1>8, <2>1 DEF Elapse, world, ThreadType, WorldType, AskedSound
  <2> QED BY <1>q, <1>c, <2>2
<1>9. CASE UNCHANGED vars
  BY <1>t, <1>9 DEF vars, threads, world, history, TypeInv, TypeOK, TrackerConsistent,
                    ThreadType, WorldType, AskedSound
<1> QED BY <1>1, <1>2, <1>3, <1>4, <1>5, <1>6, <1>7, <1>8, <1>9 DEF Next, Checker

\* Every reachable state has its type, and the tracker says only what it may of
\* the mode that is selected (ExitTracker).
THEOREM TypeCorrect == Spec => []TypeOK
<1>1. TypeInv => TypeOK
  BY DEF TypeInv
<1> QED BY <1>1, TypeInit, TypeStep, PTL DEF Spec

-----------------------------------------------------------------------------
(* No false alarm.                                                         *)

\* The relay has had its time since the last change of mode.
Applied == sinceSelect > RelayLag
RelayInTime ==
  /\ astray => strayed
  /\ ~strayed /\ Applied /\ tracker.selected \in Relayed => exit = tracker.selected

\* A settle that reaches past the relay's time.
FullSettle == pc = "settle" /\ left + sinceSelect >= Settle

\* Until then the kick is set, is to be set, or has led to a settle.
SettleAhead ==
  tracker.selected # NoMode => \/ Applied \/ noting \/ kick \/ FullSettle \/ pc = "done"

\* A page that names another exit is from before the relay's time was over.
EarlyPage ==
  pc = "record" /\ ~strayed =>
    ~(Applied /\ asked = tracker.selected /\ asked # LocalDirect /\ page \in Relayed \ {asked})

\* One such page was counted at most: no other is fetched but after the settle.
OneEarly ==
  ~strayed /\ tracker.count > 0 =>
    /\ tracker.count = 1
    /\ \/ Applied \/ FullSettle \/ pc = "done"
       \/ pc \in {"wait", "loop", "kicked"} /\ kick
       \/ pc = "wait" /\ noting /\ left > 0

AlarmCounted == tracker.status = "mismatch" => tracker.count >= MismatchChecks

AlarmInv == RelayInTime /\ SettleAhead /\ EarlyPage /\ OneEarly /\ AlarmCounted

\* So it begins.
LEMMA AlarmInit == Init => AlarmInv
BY TimeAssumption
   DEF Init, AlarmInv, RelayInTime, Applied, SettleAhead, EarlyPage, OneEarly, AlarmCounted

\* What the proof needs of the types.
LEMMA AlarmTypes ==
  ASSUME TypeInv
  PROVE  /\ tracker \in Tracker /\ ThreadType /\ WorldType /\ AskedSound
         /\ tracker.selected \in Modes \cup {NoMode}
         /\ tracker.count \in 0 .. MismatchChecks
         /\ left \in Nat /\ sinceSelect \in 0 .. Settle
         /\ Settle \in Nat /\ RelayLag \in Nat /\ RelayLag < Settle /\ Interval \in Nat \ {0}
         /\ MismatchChecks \in Nat
BY TimeAssumption DEF TypeInv, TypeOK, ThreadType, WorldType, Tracker

\* What a record counts: nothing, or, when no early one was, the first early page.
LEMMA RecordCounts ==
  ASSUME TypeInv, AlarmInv, Record
  PROVE  /\ tracker'.selected = tracker.selected
         /\ AlarmCounted'
         /\ ~strayed => \/ tracker'.count = tracker.count
                        \/ tracker'.count = 0
                        \/ tracker'.count = 1 /\ ~Applied
<1> USE AlarmTypes
<1>1. /\ pc = "record" /\ asked # NoMode /\ page \in Relayed \cup {"error", "none"}
      /\ tracker' = IF tracker.selected = asked THEN Updated(tracker, page) ELSE tracker
  BY DEF Record, At, AskedSound, ThreadType
<1>2. CASE tracker.selected # asked
  BY <1>1, <1>2 DEF AlarmInv, AlarmCounted
<1>3. CASE tracker.selected = asked
  <2> DEFINE new == Updated(tracker, page)
  <2>1. tracker' = new /\ new.selected = tracker.selected
    BY <1>1, <1>3, UpdatedCases
  <2>2. CASE new.count = 0 /\ new.status \in {"skipped", "match"}
    <3> HIDE DEF new
    <3> QED BY <2>1, <2>2 DEF AlarmCounted
  <2>3. CASE new.count = tracker.count /\ new.status \in {"error", "failing"}
    <3> HIDE DEF new
    <3> QED BY <2>1, <2>3 DEF AlarmCounted
  <2>4. CASE /\ tracker.selected # LocalDirect /\ page # "error" /\ page # tracker.selected
             /\ new.count = Count(tracker.count, MismatchChecks)
             /\ \/ new.status = "mismatch" /\ new.count >= MismatchChecks
                \/ new.status = "pending"
    <3>1. AlarmCounted'
      <4> HIDE DEF new
      <4> QED BY <2>1, <2>4 DEF AlarmCounted
    <3>2. ASSUME ~strayed
          PROVE  \/ new.count = tracker.count
                 \/ new.count = 1 /\ ~Applied
      <4>1. page \in Relayed \ {asked}
        BY <1>1, <1>3, <2>4 DEF AskedSound
      <4>2. ~Applied
        BY <1>1, <1>3, <2>4, <3>2, <4>1 DEF AlarmInv, EarlyPage
      <4>3. tracker.count = 0
        BY <1>1, <3>2, <4>2 DEF AlarmInv, OneEarly, FullSettle
      <4> HIDE DEF new
      <4> QED BY <2>4, <4>2, <4>3 DEF Count
    <3> HIDE DEF new
    <3> QED BY <2>1, <3>1, <3>2
  <2>5. \/ new.count = 0 /\ new.status \in {"skipped", "match"}
        \/ new.count = tracker.count /\ new.status \in {"error", "failing"}
        \/ /\ tracker.selected # LocalDirect /\ page # "error" /\ page # tracker.selected
           /\ new.count = Count(tracker.count, MismatchChecks)
           /\ \/ new.status = "mismatch" /\ new.count >= MismatchChecks
              \/ new.status = "pending"
    BY UpdatedCases
  <2> HIDE DEF new
  <2> QED BY <2>2, <2>3, <2>4, <2>5
<1> QED BY <1>2, <1>3

\* Every step keeps it, whichever thread takes it.
LEMMA AlarmStep == TypeInv /\ AlarmInv /\ [Next]_vars => AlarmInv'
<1> SUFFICES ASSUME TypeInv, AlarmInv, [Next]_vars PROVE AlarmInv'
  OBVIOUS
<1> USE AlarmTypes DEF AlarmInv
<1>1. CASE SetSelected
  <2>1. PICK mode \in Modes : tracker' = Selected(tracker, mode)
    BY <1>1 DEF SetSelected
  <2>2. tracker'.count = 0 /\ tracker'.status = "checking"
    BY <2>1, SelectedType
  <2>3. noting' /\ ~astray' /\ sinceSelect' = 0
    BY <1>1 DEF SetSelected
  <2>4. ~Applied'
    BY <2>3 DEF Applied
  <2> QED BY <2>2, <2>3, <2>4 DEF RelayInTime, SettleAhead, EarlyPage, OneEarly, AlarmCounted
<1>2. CASE Kick \/ Stop \/ KickOnStop
  <2>1. /\ UNCHANGED <<tracker, pc, left, asked, page, world, history>>
        /\ kick => kick'
        /\ noting => noting' \/ kick'
    BY <1>2 DEF Kick, Stop, KickOnStop
  <2>2. RelayInTime' /\ EarlyPage' /\ AlarmCounted'
    BY <2>1 DEF RelayInTime, EarlyPage, AlarmCounted, Applied, world, history
  <2>3. SettleAhead'
    BY <2>1 DEF SettleAhead, FullSettle, Applied, history
  <2>4. OneEarly'
    BY <2>1 DEF OneEarly, FullSettle, Applied, history
  <2> QED BY <2>2, <2>3, <2>4
<1>3. CASE LoopTest \/ EndWait
  <2>1. /\ UNCHANGED <<tracker, kick, left, asked, page, noting, world, history>>
        /\ pc \in {"loop", "wait"} /\ pc' \in {"done", "kicked", "loop"}
        /\ pc = "wait" => kick \/ left = 0
    BY <1>3 DEF LoopTest, EndWait, At
  <2>2. RelayInTime' /\ EarlyPage' /\ AlarmCounted'
    BY <2>1 DEF RelayInTime, EarlyPage, AlarmCounted, Applied, world, history
  <2>3. SettleAhead'
    BY <2>1 DEF SettleAhead, FullSettle, Applied, history
  <2>4. OneEarly'
    BY <2>1 DEF OneEarly, FullSettle, Applied, history
  <2> QED BY <2>2, <2>3, <2>4
<1>4. CASE TakeKick
  <2>1. /\ UNCHANGED <<tracker, asked, page, noting, world, history>> /\ pc = "kicked"
        /\ \/ kick /\ pc' = "settle" /\ left' = Settle
           \/ ~kick /\ pc' = "check" /\ left' = left /\ kick' = kick
    BY <1>4 DEF TakeKick, At, ThreadType
  <2>2. RelayInTime' /\ EarlyPage' /\ AlarmCounted'
    BY <2>1 DEF RelayInTime, EarlyPage, AlarmCounted, Applied, world, history
  <2>3. kick => FullSettle'
    BY <2>1 DEF FullSettle, history
  <2>4. SettleAhead'
    BY <2>1, <2>3 DEF SettleAhead, FullSettle, Applied, history
  <2>5. OneEarly'
    BY <2>1, <2>3 DEF OneEarly, FullSettle, Applied, history
  <2> QED BY <2>2, <2>4, <2>5
<1>5. CASE EndSettle
  <2>1. /\ UNCHANGED <<tracker, kick, left, asked, page, noting, world, history>>
        /\ pc = "settle"
        /\ pc' = "done" \/ (pc' = "kicked" /\ left = 0)
    BY <1>5 DEF EndSettle, At
  <2>2. RelayInTime' /\ EarlyPage' /\ AlarmCounted'
    BY <2>1 DEF RelayInTime, EarlyPage, AlarmCounted, Applied, world, history
  <2>3. FullSettle => Applied \/ pc' = "done"
    BY <2>1 DEF FullSettle, Applied
  <2>4. SettleAhead'
    BY <2>1, <2>3 DEF SettleAhead, FullSettle, Applied, history
  <2>5. OneEarly'
    BY <2>1, <2>3 DEF OneEarly, FullSettle, Applied, history
  <2> QED BY <2>2, <2>4, <2>5
<1>6. CASE BeginCheck
  <2>1. /\ UNCHANGED <<tracker, kick, noting, world, history>>
        /\ pc = "check" /\ pc' \in {"wait", "record", "fetch"} /\ page' = "none"
        /\ pc' = "record" => asked' = LocalDirect
    BY <1>6 DEF BeginCheck, At
  <2>2. RelayInTime' /\ AlarmCounted'
    BY <2>1 DEF RelayInTime, AlarmCounted, Applied, world, history
  <2>3. SettleAhead'
    BY <2>1 DEF SettleAhead, FullSettle, Applied, history
  <2>4. OneEarly'
    BY <2>1 DEF OneEarly, FullSettle, Applied, history
  <2>5. EarlyPage'
    BY <2>1 DEF EarlyPage
  <2> QED BY <2>2, <2>3, <2>4, <2>5
<1>7. CASE FetchReturns
  <2>1. /\ UNCHANGED <<tracker, kick, left, asked, noting, world, history>>
        /\ pc = "fetch" /\ pc' = "record" /\ page' \in {exit, "error"}
    BY <1>7 DEF FetchReturns, At
  <2>2. RelayInTime' /\ AlarmCounted'
    BY <2>1 DEF RelayInTime, AlarmCounted, Applied, world, history
  <2>3. SettleAhead'
    BY <2>1 DEF SettleAhead, FullSettle, Applied, history
  <2>4. OneEarly'
    BY <2>1 DEF OneEarly, FullSettle, Applied, history
  <2>5. EarlyPage'
    <3> SUFFICES ASSUME ~strayed, asked = tracker.selected, page' \in Relayed \ {asked}
                 PROVE  ~Applied
      BY <2>1 DEF EarlyPage, Applied, history
    <3>1. asked \in Relayed
      BY <2>1 DEF AskedSound, Relayed
    <3>2. page' = exit
      BY <2>1, ModeAssumption DEF Relayed
    <3> QED BY <3>1, <3>2 DEF RelayInTime
  <2> QED BY <2>2, <2>3, <2>4, <2>5
<1>8. CASE Record
  <2>1. /\ UNCHANGED <<kick, asked, page, noting, world, history>>
        /\ pc = "record" /\ pc' = "wait" /\ left' = Interval
    BY <1>8 DEF Record, At
  <2>2. /\ tracker'.selected = tracker.selected /\ AlarmCounted'
        /\ ~strayed => \/ tracker'.count = tracker.count
                       \/ tracker'.count = 0
                       \/ tracker'.count = 1 /\ ~Applied
    BY <1>8, RecordCounts
  <2>3. RelayInTime' /\ EarlyPage'
    BY <2>1, <2>2 DEF RelayInTime, EarlyPage, Applied, world, history
  <2>4. SettleAhead'
    BY <2>1, <2>2 DEF SettleAhead, FullSettle, Applied, history
  <2>5. OneEarly'
    <3> SUFFICES ASSUME ~strayed, tracker'.count > 0
                 PROVE  /\ tracker'.count = 1
                        /\ Applied \/ kick \/ (noting /\ left' > 0)
      BY <2>1 DEF OneEarly, Applied, history
    <3>1. CASE tracker'.count = tracker.count
      BY <2>1, <3>1 DEF OneEarly, FullSettle
    <3>2. CASE tracker'.count # tracker.count /\ tracker'.count = 1 /\ ~Applied
      <4>1. tracker.selected # NoMode
        BY <1>8, <2>1, <3>2 DEF Record, At, AskedSound
      <4> QED BY <2>1, <3>2, <4>1 DEF SettleAhead, FullSettle
    <3> QED BY <2>2, <3>1, <3>2
  <2> QED BY <2>2, <2>3, <2>4, <2>5
<1>9. CASE RelayApplies \/ Stray \/ ComeBack \/ PageChanges
  <2>1. /\ UNCHANGED threads /\ sinceSelect' = sinceSelect
        /\ strayed => strayed'
        /\ astray' => astray \/ strayed'
        /\ ~strayed' => exit' = exit \/ exit' = tracker.selected
    BY <1>9 DEF RelayApplies, Stray, ComeBack, PageChanges, history
  <2>2. RelayInTime'
    BY <2>1, <1>9 DEF RelayInTime, Applied, threads, WorldType
  <2>3. SettleAhead' /\ EarlyPage' /\ OneEarly' /\ AlarmCounted'
    BY <2>1 DEF SettleAhead, EarlyPage, OneEarly, AlarmCounted, FullSettle, Applied,
                threads, WorldType
  <2> QED BY <2>2, <2>3
<1>10. CASE Elapse
  <2>1. /\ UNCHANGED <<tracker, kick, noting, pc, asked, page, world, strayed>>
        /\ sinceSelect' = Count(sinceSelect, Settle)
        /\ left' = IF left > 0 THEN left - 1 ELSE left
        /\ ~noting /\ RelayBehind => sinceSelect < RelayLag
        /\ \/ pc = "settle" /\ left > 0
           \/ pc = "fetch"
           \/ pc = "wait" /\ ~kick
           \/ pc = "done"
    BY <1>10 DEF Elapse, Waiting
  <2>2. ~noting /\ (Applied => Applied') /\ (FullSettle => Applied' \/ FullSettle')
    BY <1>10, <2>1 DEF Elapse, FullSettle, Applied, Count
  <2>3. RelayInTime'
    <3>1. Applied' => ~RelayBehind
      BY <2>1, <2>2 DEF Applied, Count
    <3> QED BY <2>1, <3>1 DEF RelayInTime, RelayBehind, world
  <2>4. SettleAhead'
    BY <2>1, <2>2 DEF SettleAhead
  <2>5. EarlyPage' /\ AlarmCounted'
    BY <2>1 DEF EarlyPage, AlarmCounted
  <2>6. OneEarly'
    BY <2>1, <2>2 DEF OneEarly
  <2> QED BY <2>3, <2>4, <2>5, <2>6
<1>11. CASE UNCHANGED vars
  BY <1>11 DEF vars, threads, world, history, RelayInTime, SettleAhead, EarlyPage, OneEarly,
               AlarmCounted, Applied, FullSettle
<1> QED BY <1>1, <1>2, <1>3, <1>4, <1>5, <1>6, <1>7, <1>8, <1>9, <1>10, <1>11
        DEF Next, Checker

\* With two checks to a mismatch, no order of the threads' steps, no lag of the
\* relay within the settle, no error and no stop lets the observer report a
\* fallback of a relay that did not stray since the mode was selected.
THEOREM AlarmsAreTrue ==
  ASSUME MismatchChecks >= 2
  PROVE  Spec => []NoFalseAlarm
<1>1. TypeInv /\ AlarmInv => NoFalseAlarm
  <2> SUFFICES ASSUME TypeInv, AlarmInv, tracker.status = "mismatch", ~strayed PROVE FALSE
    BY DEF NoFalseAlarm, TypeInv, TypeOK
  <2> QED BY AlarmTypes DEF AlarmInv, AlarmCounted, OneEarly
<1> QED BY <1>1, TypeInit, TypeStep, AlarmInit, AlarmStep, PTL DEF Spec
=============================================================================
