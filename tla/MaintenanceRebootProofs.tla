----------------------- MODULE MaintenanceRebootProofs -----------------------
(***************************************************************************)
(* Theorems about the maintenance reboot, for any set of runs, any times   *)
(* that keep the order TimeAssumption gives them, and any faults.          *)
(***************************************************************************)
EXTENDS MaintenanceReboot, TLAPS

-----------------------------------------------------------------------------
(* Types.                                                                  *)

\* What the times are, and that no place is given more than the windows hold.
LEMMA Times ==
  /\ SettleTime \in Nat /\ WatchdogTimeout \in Nat /\ GrpcCall \in Nat /\ NotifyTimeout \in Nat
  /\ WindowMargin \in Nat /\ DropLag \in Nat /\ MaxEvents \in Nat
  /\ RecoveryDeadline \in Nat /\ DropLag < RecoveryDeadline
  /\ Leg1Ttl \in Nat /\ Leg2Ttl \in Nat
BY TimeAssumption DEF Leg1Ttl, Leg2Ttl

Lefts == 0 .. Leg1Ttl + Leg2Ttl

\* What a run or a window is given is within the bound of the type.
LEMMA Durations ==
  /\ 0 \in Lefts /\ WatchdogTimeout \in Lefts /\ RecoveryDeadline \in Lefts
  /\ SettleTime \in Lefts /\ 2 * GrpcCall \in Lefts /\ GrpcCall \in Lefts
  /\ RecoveryDeadline + GrpcCall \in Lefts /\ NotifyTimeout + GrpcCall \in Lefts
  /\ Leg1Ttl \in Lefts /\ Leg2Ttl \in Lefts
  /\ \A n \in Lefts : Less(n) \in Lefts
BY Times DEF Lefts, Less, Leg1Ttl, Leg2Ttl

\* What a run becomes has the type.
LEMMA PlaceType ==
  ASSUME TypeOK, NEW r \in Runs, NEW pc \in Places, NEW left \in Lefts
  PROVE  /\ Place(r, pc, left) \in Run /\ Place(r, pc, left).pc = pc
         /\ Place(r, pc, left).left = left
         /\ Awaits(r, pc, left) \in Run /\ Awaits(r, pc, left).pc = pc
         /\ Awaits(r, pc, left).left = left
         /\ IdleRun \in Run /\ IdleRun.pc = "idle"
<1>1. run[r] \in Run
  BY DEF TypeOK
<1>2. /\ "idle" \in Places /\ 0 \in Lefts /\ FALSE \in BOOLEAN /\ TRUE \in BOOLEAN
      /\ {} \in SUBSET Wans
  BY Durations DEF Places
<1> HIDE DEF Places
<1> QED BY <1>1, <1>2 DEF Place, Awaits, Run, IdleRun, Lefts

\* One run goes on, and keeps the lock or ends.
LEMMA GoesType ==
  ASSUME TypeOK, NEW r \in Runs, NEW from, NEW to \in Run, Goes(r, from, to), from # "idle",
         \/ lock' = lock /\ to.pc # "idle"
         \/ lock' = NoRun /\ to.pc = "idle"
  PROVE  /\ lock' \in Runs \cup {NoRun} /\ run' \in [Runs -> Run]
         /\ \A s \in Runs : run'[s].pc # "idle" <=> lock' = s
<1>1. /\ run \in [Runs -> Run] /\ lock \in Runs \cup {NoRun} /\ NoRun \notin Runs
      /\ \A s \in Runs : run[s].pc # "idle" <=> lock = s
  BY NameAssumption DEF TypeOK
<1>2. run[r].pc = from /\ run' = [run EXCEPT ![r] = to]
  BY DEF Goes
<1> HIDE DEF Run
<1> QED BY <1>1, <1>2

\* The end of a leg.
LEMMA EndsType ==
  ASSUME TypeOK, NEW r \in Runs, NEW from, from # "idle", NEW w \in Wans,
         NEW outcome \in Outcome, Ends(r, from, w, outcome)
  PROVE  /\ lock' \in Runs \cup {NoRun} /\ run' \in [Runs -> Run]
         /\ \A s \in Runs : run'[s].pc # "idle" <=> lock' = s
         /\ window' \in [wan: Wans \cup {NoWan}, left: Lefts]
         /\ said' \in [Wans -> Outcome] /\ UNCHANGED <<path, readable, events>>
<1>1. Place(r, "open2", 0) \in Run /\ Place(r, "open2", 0).pc = "open2"
      /\ IdleRun \in Run /\ IdleRun.pc = "idle"
  BY PlaceType, Durations DEF Places
<1>2. window' = NoWindow /\ said' = [said EXCEPT ![w] = outcome]
  BY DEF Ends
<1>3. NoWindow \in [wan: Wans \cup {NoWan}, left: Lefts]
  BY Durations DEF NoWindow
<1>4. CASE w = wan1 /\ wan2 \in run[r].legs /\ outcome # "not_returned"
  <2>1. Goes(r, from, Place(r, "open2", 0)) /\ lock' = lock
    BY <1>4 DEF Ends
  <2> QED BY <1>1, <1>2, <1>3, <2>1, GoesType DEF TypeOK, Ends, world
<1>5. CASE ~(w = wan1 /\ wan2 \in run[r].legs /\ outcome # "not_returned")
  <2>1. Goes(r, from, IdleRun) /\ lock' = NoRun
    BY <1>5 DEF Ends
  <2> QED BY <1>1, <1>2, <1>3, <2>1, GoesType DEF TypeOK, Ends, world
<1> QED BY <1>4, <1>5

RunTyped ==
  /\ lock \in Runs \cup {NoRun} /\ run \in [Runs -> Run]
  /\ \A r \in Runs : run[r].pc # "idle" <=> lock = r
RestTyped ==
  /\ window \in [wan: Wans \cup {NoWan}, left: Lefts]
  /\ path \in [Wans -> BOOLEAN] /\ readable \in BOOLEAN
  /\ said \in [Wans -> Outcome] /\ events \in 0 .. MaxEvents
DeviceTyped ==
  /\ boot \in [Wans -> {"running", "leaving", "booting"}]
  /\ lag \in [Wans -> 0 .. DropLag] /\ bumped \in BOOLEAN

\* The type in three parts, in this state and in the next.
LEMMA TypeParts ==
  /\ TypeOK <=> (RunTyped /\ RestTyped /\ DeviceTyped /\ misled \in BOOLEAN)
  /\ TypeOK' <=> (RunTyped' /\ RestTyped' /\ DeviceTyped' /\ misled' \in BOOLEAN)
BY DEF TypeOK, RunTyped, RestTyped, DeviceTyped, Lefts

\* What a device's lag may be.
LEMMA Lags ==
  /\ 0 \in 0 .. DropLag /\ DropLag \in 0 .. DropLag
  /\ \A n \in 0 .. DropLag : Less(n) \in 0 .. DropLag
BY Times DEF Less

\* So it begins.
LEMMA TypeInit == Init => TypeOK
<1> SUFFICES ASSUME Init PROVE TypeOK
  OBVIOUS
<1>1. IdleRun \in Run /\ IdleRun.pc = "idle"
  BY Durations DEF IdleRun, Run, Places, Lefts
<1>2. RunTyped
  BY <1>1, NameAssumption DEF Init, RunTyped
<1>3. RestTyped
  <2>1. NoWindow \in [wan: Wans \cup {NoWan}, left: Lefts]
    BY Durations DEF NoWindow
  <2> QED BY <2>1, Times DEF Init, RestTyped, Outcome
<1>4. DeviceTyped /\ misled \in BOOLEAN
  BY Lags DEF Init, DeviceTyped
<1> QED BY <1>2, <1>3, <1>4, TypeParts

\* A reboot taken.
LEMMA TakesType ==
  ASSUME DeviceTyped, NEW w \in Wans, Takes(w)
  PROVE  DeviceTyped'
BY Lags DEF DeviceTyped, Takes

\* A leg's end, whatever became of the devices.
LEMMA EndsTyped ==
  ASSUME TypeOK, NEW r \in Runs, NEW from, from # "idle", NEW w \in Wans,
         NEW outcome \in Outcome, Ends(r, from, w, outcome)
  PROVE  RunTyped' /\ RestTyped'
<1>1. RestTyped
  BY TypeParts
<1> QED BY <1>1, EndsType DEF RunTyped, RestTyped

\* A leg's end with nothing else.
LEMMA EndLegTyped ==
  ASSUME TypeOK, NEW r \in Runs, NEW from, from # "idle", NEW w \in Wans,
         NEW outcome \in Outcome, EndLeg(r, from, w, outcome)
  PROVE  TypeOK'
<1>1. RunTyped' /\ RestTyped'
  BY EndsTyped DEF EndLeg
<1>2. DeviceTyped' /\ (misled \in BOOLEAN)'
  BY TypeParts DEF EndLeg, devices, DeviceTyped
<1> QED BY <1>1, <1>2, TypeParts

\* A step of a run that ends nothing.
LEMMA OnwardsTyped ==
  ASSUME TypeOK, NEW r \in Runs, NEW from, from # "idle", NEW to \in Run, to.pc # "idle",
         Goes(r, from, to), Onwards, DeviceTyped'
  PROVE  TypeOK'
<1>1. RunTyped'
  BY GoesType DEF Onwards, RunTyped
<1>2. RestTyped' /\ (misled \in BOOLEAN)'
  BY TypeParts DEF Onwards, world, RestTyped
<1> QED BY <1>1, <1>2, TypeParts

\* What a leg may say.
LEMMA OutcomeTypes ==
  /\ {"recovered", "skipped", "not_issued"} \subseteq Outcome
  /\ \A w, up : up \in Outcome => Classified(w, up) \in Outcome
BY DEF Outcome, Classified

\* The events stay within their bound.
LEMMA EventTyped == ASSUME TypeOK, Event PROVE (events \in 0 .. MaxEvents)'
BY Times DEF Event, TypeOK

\* The steps of a run.
LEMMA ProcessType == ASSUME TypeOK, NEW r \in Runs, Process(r) PROVE TypeOK'
<1>1. /\ run[r] \in Run /\ RunTyped /\ RestTyped /\ DeviceTyped /\ misled \in BOOLEAN
      /\ wan1 \in Wans /\ wan2 \in Wans
  BY TypeParts DEF RunTyped, Wans
<1>2. UNCHANGED devices => DeviceTyped'
  BY <1>1 DEF devices, DeviceTyped
<1>3. /\ "post1" \in Places /\ "await1" \in Places /\ "settle1" \in Places
      /\ "status2" \in Places /\ "ask2" \in Places /\ "await2" \in Places
      /\ "settle2" \in Places
  BY DEF Places
<1>4. CASE Open1(r)
  <2>1. CASE /\ SeenUp(wan2) /\ Goes(r, "open1", Place(r, "post1", WatchdogTimeout))
             /\ window' = [wan |-> wan1, left |-> Leg1Ttl]
             /\ UNCHANGED <<lock, said, devices, world, misled, events>>
    <3>1. RunTyped'
      BY <2>1, <1>3, PlaceType, Durations, GoesType DEF RunTyped
    <3>2. RestTyped'
      BY <2>1, <1>1, Durations DEF RestTyped, world
    <3> QED BY <2>1, <3>1, <3>2, <1>1, <1>2, TypeParts
  <2>2. CASE EndLeg(r, "open1", wan1, "skipped")
    BY <2>2, <1>1, EndLegTyped, OutcomeTypes
  <2> QED BY <1>4, <2>1, <2>2 DEF Open1
<1>5. CASE Post1(r)
  <2> DEFINE to == [Awaits(r, "await1", RecoveryDeadline) EXCEPT !.down = FALSE]
  <2>1. Awaits(r, "await1", RecoveryDeadline) \in Run
        /\ Awaits(r, "await1", RecoveryDeadline).pc = "await1"
    BY <1>3, PlaceType, Durations
  <2>2. to \in Run /\ to.pc = "await1"
    BY <2>1 DEF Run
  <2>3. DeviceTyped'
    BY <1>5, <1>1, <1>2, TakesType DEF Post1
  <2>4. Goes(r, "post1", to) /\ Onwards
    BY <1>5 DEF Post1
  <2> HIDE DEF to
  <2> QED BY <2>2, <2>3, <2>4, OnwardsTyped
<1>6. CASE Untouched1(r)
  BY <1>6, <1>1, EndLegTyped, OutcomeTypes DEF Untouched1
<1>7. CASE Stall1(r)
  <2>1. RunTyped' /\ RestTyped'
    BY <1>7, <1>1, EndsTyped, OutcomeTypes DEF Stall1
  <2> QED BY <1>7, <2>1, <1>1, TakesType, TypeParts DEF Stall1
<1>8. CASE Poll1(r)
  <2>1. CASE Goes(r, "await1", Place(r, "settle1", SettleTime)) /\ Onwards /\ UNCHANGED devices
    BY <2>1, <1>2, <1>3, PlaceType, Durations, OnwardsTyped
  <2>2. CASE EndLeg(r, "await1", wan1, Classified(wan1, "not_issued"))
    BY <2>2, <1>1, EndLegTyped, OutcomeTypes
  <2>3. CASE /\ Goes(r, "await1", [run[r] EXCEPT !.nap = TRUE,
                                      !.down = @ \/ (readable /\ ~SeenUp(wan1))])
             /\ Onwards /\ UNCHANGED devices
    <3> DEFINE to == [run[r] EXCEPT !.nap = TRUE, !.down = @ \/ (readable /\ ~SeenUp(wan1))]
    <3>1. (run[r].down \/ (readable /\ ~SeenUp(wan1))) \in BOOLEAN
      OBVIOUS
    <3>2. to \in Run /\ to.pc = run[r].pc
      BY <1>1, <3>1 DEF Run
    <3>3. run[r].pc = "await1"
      BY <2>3 DEF Goes
    <3>4. Goes(r, "await1", to) /\ Onwards /\ UNCHANGED devices
      BY <2>3
    <3> HIDE DEF to
    <3> QED BY <3>2, <3>3, <3>4, <1>2, OnwardsTyped
  <2> QED BY <1>8, <2>1, <2>2, <2>3 DEF Poll1
<1>9. CASE Settle1(r)
  BY <1>9, <1>1, EndLegTyped, OutcomeTypes DEF Settle1
<1>10. CASE Open2(r)
  <2>1. RunTyped'
    BY <1>10, <1>3, PlaceType, Durations, GoesType DEF RunTyped, Open2
  <2>2. RestTyped'
    BY <1>10, <1>1, Durations DEF RestTyped, world, Open2
  <2> QED BY <1>10, <2>1, <2>2, <1>1, <1>2, TypeParts DEF Open2
<1>11. CASE NoStatus2(r) \/ InFlight2(r) \/ NoPeer2(r)
  BY <1>11, <1>1, EndLegTyped, OutcomeTypes DEF NoStatus2, InFlight2, NoPeer2
<1>12. CASE Status2(r)
  <2>1. PICK staged \in BOOLEAN :
          Goes(r, "status2", [Place(r, "ask2", GrpcCall) EXCEPT !.staged = staged, !.again = FALSE])
    BY <1>12 DEF Status2
  <2> DEFINE to == [Place(r, "ask2", GrpcCall) EXCEPT !.staged = staged, !.again = FALSE]
  <2>2. Place(r, "ask2", GrpcCall) \in Run /\ Place(r, "ask2", GrpcCall).pc = "ask2"
    BY <1>3, PlaceType, Durations
  <2>3. to \in Run /\ to.pc = "ask2"
    BY <2>2 DEF Run
  <2>4. DeviceTyped' /\ Onwards
    BY <1>12, <1>1 DEF Status2, DeviceTyped
  <2>5. Goes(r, "status2", to)
    BY <2>1
  <2> HIDE DEF to
  <2> QED BY <2>3, <2>4, <2>5, OnwardsTyped
<1>13. CASE Ask2(r)
  <2>1. DeviceTyped'
    BY <1>13, <1>1, <1>2, TakesType DEF Ask2
  <2> QED BY <1>13, <2>1, <1>3, PlaceType, Durations, OnwardsTyped DEF Ask2
<1>14. CASE Refused2(r)
  BY <1>14, <1>1, EndLegTyped, OutcomeTypes DEF Refused2
<1>15. CASE AnswerLost2(r)
  <2>1. RunTyped' /\ RestTyped'
    BY <1>15, <1>1, EndsTyped, OutcomeTypes DEF AnswerLost2
  <2> QED BY <1>15, <2>1, <1>1, TakesType, TypeParts DEF AnswerLost2
<1>16. CASE Recovered2(r)
  BY <1>16, <1>2, <1>3, PlaceType, Durations, OnwardsTyped DEF Recovered2
<1>17. CASE Poll2(r)
  <2>1. [run[r] EXCEPT !.nap = TRUE] \in Run /\ [run[r] EXCEPT !.nap = TRUE].pc = run[r].pc
    BY <1>1 DEF Run
  <2>2. run[r].pc = "await2"
    BY <1>17 DEF Poll2, Goes
  <2> QED BY <1>17, <2>1, <2>2, <1>2, OnwardsTyped DEF Poll2
<1>18. CASE GiveUp2(r)
  <2>1. CASE /\ Goes(r, "await2", [Place(r, "ask2", NotifyTimeout + GrpcCall) EXCEPT !.again = TRUE])
             /\ Onwards /\ UNCHANGED devices
    <3>1. Place(r, "ask2", NotifyTimeout + GrpcCall) \in Run
          /\ Place(r, "ask2", NotifyTimeout + GrpcCall).pc = "ask2"
      BY <1>3, PlaceType, Durations
    <3>2. [Place(r, "ask2", NotifyTimeout + GrpcCall) EXCEPT !.again = TRUE] \in Run
          /\ [Place(r, "ask2", NotifyTimeout + GrpcCall) EXCEPT !.again = TRUE].pc = "ask2"
      BY <3>1 DEF Run
    <3> QED BY <2>1, <3>2, <1>2, OnwardsTyped
  <2>2. CASE EndLeg(r, "await2", wan2, Classified(wan2, "skipped"))
    BY <2>2, <1>1, EndLegTyped, OutcomeTypes
  <2>3. CASE EndLeg(r, "await2", wan2, Classified(wan2, "not_issued"))
    BY <2>3, <1>1, EndLegTyped, OutcomeTypes
  <2> QED BY <1>18, <2>1, <2>2, <2>3 DEF GiveUp2
<1>19. CASE Settle2(r)
  BY <1>19, <1>1, EndLegTyped, OutcomeTypes DEF Settle2
<1> QED BY <1>4, <1>5, <1>6, <1>7, <1>8, <1>9, <1>10, <1>11, <1>12, <1>13, <1>14, <1>15,
           <1>16, <1>17, <1>18, <1>19 DEF Process

\* So every step keeps it.
LEMMA TypeStep == ASSUME TypeOK, [Next]_vars PROVE TypeOK'
<1>1. RunTyped /\ RestTyped /\ DeviceTyped /\ misled \in BOOLEAN
  BY TypeParts
<1>2. NoWindow \in [wan: Wans \cup {NoWan}, left: Lefts] /\ IdleRun \in Run /\ IdleRun.pc = "idle"
  BY Durations DEF NoWindow, IdleRun, Run, Places, Lefts
<1>3. ASSUME NEW r \in Runs, Begin(r) PROVE TypeOK'
  <2>1. RestTyped' /\ DeviceTyped' /\ (misled \in BOOLEAN)'
    BY <1>1, <1>2, <1>3, EventTyped DEF Begin, RestTyped, DeviceTyped, devices, world, Outcome
  <2>2. CASE UNCHANGED <<lock, run>>
    BY <2>2, <2>1, <1>1, TypeParts DEF RunTyped
  <2>3. CASE \E legs \in {Wans, {wan1}, {wan2}} :
            /\ lock' = r
            /\ run' = [run EXCEPT ![r] = [IdleRun EXCEPT !.legs = legs,
                         !.pc = IF wan1 \in legs THEN "open1" ELSE "open2"]]
    <3>1. PICK legs \in {Wans, {wan1}, {wan2}} :
            /\ lock' = r
            /\ run' = [run EXCEPT ![r] = [IdleRun EXCEPT !.legs = legs,
                         !.pc = IF wan1 \in legs THEN "open1" ELSE "open2"]]
      BY <2>3
    <3> DEFINE to == [IdleRun EXCEPT !.legs = legs,
                         !.pc = IF wan1 \in legs THEN "open1" ELSE "open2"]
    <3>2. legs \in SUBSET Wans /\ "open1" \in Places /\ "open2" \in Places
      BY DEF Wans, Places
    <3>3. to \in Run /\ to.pc # "idle"
      BY <1>2, <3>2 DEF Run, IdleRun
    <3>4. lock = NoRun
      BY <1>3 DEF Begin, LockFree
    <3>5. run' = [run EXCEPT ![r] = to]
      BY <3>1
    <3> HIDE DEF to, Run
    <3>6. RunTyped'
      BY <3>1, <3>3, <3>4, <3>5, <1>1, NameAssumption DEF RunTyped
    <3> QED BY <3>6, <2>1, TypeParts
  <2> QED BY <1>3, <2>2, <2>3 DEF Begin
<1>4. ASSUME NEW r \in Runs, Kill(r) PROVE TypeOK'
  <2>1. RunTyped'
    <3> HIDE DEF Run
    <3> QED BY <1>1, <1>2, <1>4, NameAssumption DEF Kill, RunTyped
  <2> QED BY <2>1, <1>1, <1>2, <1>4, EventTyped, TypeParts
          DEF Kill, RestTyped, DeviceTyped, devices, world
<1>5. ASSUME NEW w \in Wans, Drops(w) \/ Returns(w) PROVE TypeOK'
  <2>1. DeviceTyped'
    BY <1>1, <1>5, Lags DEF Drops, Returns, DeviceTyped
  <2> QED BY <2>1, <1>1, <1>5, TypeParts DEF Drops, Returns, RunTyped, RestTyped, world
<1>6. ASSUME NEW w \in Wans, PathFails(w) \/ PathMends(w) PROVE TypeOK'
  <2>1. RestTyped' /\ (misled \in BOOLEAN)'
    BY <1>1, <1>6, EventTyped DEF PathFails, PathMends, RestTyped
  <2> QED BY <2>1, <1>1, <1>6, TypeParts DEF PathFails, PathMends, RunTyped, DeviceTyped, devices
<1>7. CASE Blinds
  <2>1. RestTyped'
    BY <1>1, <1>7, EventTyped DEF Blinds, RestTyped
  <2> QED BY <2>1, <1>1, <1>7, TypeParts DEF Blinds, RunTyped, DeviceTyped, devices
<1>8. CASE Elapse
  <2>1. RunTyped'
    <3>1. ASSUME NEW r \in Runs
          PROVE  /\ [run[r] EXCEPT !.left = Less(@), !.nap = FALSE] \in Run
                 /\ [run[r] EXCEPT !.left = Less(@), !.nap = FALSE].pc = run[r].pc
      <4>1. run[r] \in Run /\ Less(run[r].left) \in Lefts
        BY <1>1, Durations DEF RunTyped, Run, Lefts
      <4> QED BY <4>1 DEF Run, Lefts
    <3> HIDE DEF Run
    <3> QED BY <3>1, <1>1, <1>8 DEF Elapse, RunTyped
  <2>2. DeviceTyped'
    BY <1>1, <1>8, Lags DEF Elapse, DeviceTyped
  <2>3. window' \in [wan: Wans \cup {NoWan}, left: Lefts]
    <3>1. window.left > 1 => window.left - 1 \in Lefts
      BY <1>1, Times DEF RestTyped, Lefts
    <3> QED BY <3>1, <1>1, <1>2, <1>8 DEF Elapse, RestTyped
  <2> QED BY <2>1, <2>2, <2>3, <1>1, <1>8, TypeParts DEF Elapse, RestTyped
<1>9. CASE UNCHANGED vars
  BY <1>9, <1>1, TypeParts DEF vars, RunTyped, RestTyped, DeviceTyped
<1> QED BY <1>3, <1>4, <1>5, <1>6, <1>7, <1>8, <1>9, ProcessType DEF Next

\* Every reachable state has its type, and only the run that holds the lock is
\* anywhere, whatever is killed (acquire_lock, run_once).
THEOREM TypeCorrect == Spec => []TypeOK
BY TypeInit, TypeStep, PTL DEF Spec

-----------------------------------------------------------------------------
(* The devices.                                                            *)

Leg1 == {"open1", "post1", "await1", "settle1"}
Leg2 == {"open2", "status2", "ask2", "await2", "settle2"}

\* Unless misled, a run knows more than it has read: which devices stay up while
\* it is at a place, and that one on its way down drops before a deadline.
LegSound(me, device, goesOn, works) ==
  /\ me.pc \in Leg1 => device[wan2] = "running" /\ works[wan1]
  /\ me.pc \in Leg1 \ {"await1"} => device[wan1] = "running"
  /\ me.pc = "await1" /\ device[wan1] = "leaving" => goesOn[wan1] < me.left /\ ~me.down
  /\ me.pc \in Leg2 => device[wan1] = "running"
  /\ me.pc \in {"open2", "status2"} => device[wan2] = "running"
  /\ me.pc = "ask2" => device[wan2] # "leaving"
  /\ me.pc = "await2" /\ device[wan2] = "leaving" => goesOn[wan2] + GrpcCall < me.left

OneRuns == \E w \in Wans : boot[w] = "running"
DevicesInv == ~misled => OneRuns /\ \A r \in Runs : LegSound(run[r], boot, lag, path)

\* Both run at first, and nobody is on the way.
LEMMA DevicesInit == Init => DevicesInv
BY DEF Init, DevicesInv, OneRuns, LegSound, IdleRun, Leg1, Leg2, Wans

\* A run that is nowhere knows nothing.
LEMMA IdleSound ==
  ASSUME NEW me, NEW device, NEW goesOn, NEW works, me.pc = "idle"
  PROVE  LegSound(me, device, goesOn, works)
BY DEF LegSound, Leg1, Leg2

\* The others are idle while one run goes on.
LEMMA GoesSound ==
  ASSUME TypeOK, NEW r \in Runs, NEW from, NEW to \in Run, from # "idle", Goes(r, from, to),
         ~misled' => OneRuns' /\ LegSound(to, boot', lag', path')
  PROVE  DevicesInv'
<1>1. run \in [Runs -> Run] /\ run[r].pc = from /\ run' = [run EXCEPT ![r] = to]
      /\ \A s \in Runs : run[s].pc # "idle" <=> lock = s
  BY DEF Goes, TypeOK
<1>2. ASSUME NEW s \in Runs, s # r PROVE run'[s].pc = "idle"
  <2>1. run'[s] = run[s]
    BY <1>1, <1>2
  <2> QED BY <1>1, <1>2, <2>1
<1>3. run'[r] = to
  BY <1>1
<1>4. ASSUME ~misled', NEW s \in Runs PROVE LegSound(run'[s], boot', lag', path')
  BY <1>2, <1>3, <1>4, IdleSound
<1> QED BY <1>4 DEF DevicesInv

\* A leg ends, and leg 2 begins only with both devices running.
LEMMA EndLegSound ==
  ASSUME TypeOK, DevicesInv, NEW r \in Runs, NEW from, from # "idle", NEW w \in Wans,
         NEW outcome, EndLeg(r, from, w, outcome),
         ~misled /\ w = wan1 /\ outcome # "not_returned" =>
           boot[wan1] = "running" /\ boot[wan2] = "running"
  PROVE  DevicesInv'
<1> DEFINE more == w = wan1 /\ wan2 \in run[r].legs /\ outcome # "not_returned"
           to == IF more THEN Place(r, "open2", 0) ELSE IdleRun
<1>1. Goes(r, from, to) /\ misled' = misled /\ boot' = boot /\ lag' = lag /\ path' = path
  BY DEF EndLeg, Ends, devices, world
<1>2. /\ Place(r, "open2", 0) \in Run /\ Place(r, "open2", 0).pc = "open2"
      /\ IdleRun \in Run /\ IdleRun.pc = "idle" /\ "open2" \in Places
  BY PlaceType, Durations DEF Places
<1>3. to \in Run /\ (~misled => LegSound(to, boot, lag, path))
  BY <1>2 DEF LegSound, Leg1, Leg2
<1> HIDE DEF to
<1>4. ~misled' => OneRuns' /\ LegSound(to, boot', lag', path')
  BY <1>1, <1>3 DEF DevicesInv, OneRuns
<1> QED BY <1>1, <1>3, <1>4, GoesSound

\* A leg that ends with everything else misled.
LEMMA MisledSound == ASSUME misled' = TRUE PROVE DevicesInv'
BY DEF DevicesInv

\* The steps of leg 1.
LEMMA Leg1Sound ==
  ASSUME TypeOK, DevicesInv, NEW r \in Runs,
         Open1(r) \/ Post1(r) \/ Untouched1(r) \/ Stall1(r) \/ Poll1(r) \/ Settle1(r)
  PROVE  DevicesInv'
<1>1. /\ run[r] \in Run /\ boot \in [Wans -> {"running", "leaving", "booting"}]
      /\ lag \in [Wans -> 0 .. DropLag] /\ path \in [Wans -> BOOLEAN]
      /\ wan1 \in Wans /\ wan2 \in Wans /\ wan1 # wan2
  BY NameAssumption DEF TypeOK, Wans
<1>2. ~misled => LegSound(run[r], boot, lag, path) /\ OneRuns
  BY DEF DevicesInv
<1>3. /\ "post1" \in Places /\ "await1" \in Places /\ "settle1" \in Places
  BY DEF Places
<1>4. CASE Open1(r)
  <2>1. CASE /\ Goes(r, "open1", Place(r, "post1", WatchdogTimeout))
             /\ UNCHANGED <<lock, said, devices, world, misled, events>>
    <3>1. /\ Place(r, "post1", WatchdogTimeout) \in Run
          /\ Place(r, "post1", WatchdogTimeout).pc = "post1"
      BY <1>3, PlaceType, Durations
    <3>2. run[r].pc = "open1"
      BY <2>1 DEF Goes
    <3>3. ~misled' => OneRuns' /\ LegSound(Place(r, "post1", WatchdogTimeout), boot', lag', path')
      BY <2>1, <3>1, <3>2, <1>2 DEF LegSound, OneRuns, Leg1, Leg2, devices, world
    <3> QED BY <2>1, <3>1, <3>3, GoesSound
  <2>2. CASE EndLeg(r, "open1", wan1, "skipped")
    <3>1. run[r].pc = "open1"
      BY <2>2 DEF EndLeg, Ends, Goes
    <3> QED BY <2>2, <3>1, <1>1, <1>2, EndLegSound DEF LegSound, Leg1
  <2> QED BY <1>4, <2>1, <2>2 DEF Open1
<1>5. CASE Post1(r)
  <2> DEFINE to == [Awaits(r, "await1", RecoveryDeadline) EXCEPT !.down = FALSE]
  <2>1. /\ Awaits(r, "await1", RecoveryDeadline) \in Run
        /\ Awaits(r, "await1", RecoveryDeadline).pc = "await1"
        /\ Awaits(r, "await1", RecoveryDeadline).left = RecoveryDeadline
    BY <1>3, PlaceType, Durations
  <2>2. to \in Run /\ to.pc = "await1" /\ to.left = RecoveryDeadline /\ to.down = FALSE
    BY <2>1 DEF Run
  <2>3. /\ Goes(r, "post1", to) /\ misled' = misled /\ path' = path
        /\ Takes(wan1) \/ UNCHANGED devices
    BY <1>5 DEF Post1, Onwards, world
  <2>4. run[r].pc = "post1"
    BY <2>3 DEF Goes
  <2> HIDE DEF to
  <2>5. ASSUME ~misled
        PROVE  /\ boot[wan1] = "running" /\ boot[wan2] = "running" /\ path[wan1]
               /\ boot'[wan2] = "running" /\ path'[wan1]
               /\ boot'[wan1] = "leaving" => lag'[wan1] = DropLag
    BY <2>3, <2>4, <2>5, <1>1, <1>2 DEF LegSound, Leg1, Takes, devices
  <2>6. ~misled' => OneRuns' /\ LegSound(to, boot', lag', path')
    BY <2>2, <2>3, <2>5, <1>1, Times DEF OneRuns, LegSound, Leg1, Leg2
  <2> QED BY <2>2, <2>3, <2>6, GoesSound
<1>6. CASE Untouched1(r)
  <2>1. run[r].pc = "post1" /\ EndLeg(r, "post1", wan1, Classified(wan1, "not_issued"))
    BY <1>6 DEF Untouched1, EndLeg, Ends, Goes
  <2> QED BY <2>1, <1>1, <1>2, EndLegSound DEF LegSound, Leg1
<1>7. CASE Stall1(r)
  BY <1>7, MisledSound DEF Stall1
<1>8. CASE Poll1(r)
  <2>1. CASE SeenUp(wan1) /\ Receipt1(r)
    <3>1. Goes(r, "await1", Place(r, "settle1", SettleTime)) /\ Onwards /\ UNCHANGED devices
      BY <1>8, <2>1 DEF Poll1
    <3>2. run[r].pc = "await1" /\ run[r].down /\ boot[wan1] # "booting"
      BY <2>1, <3>1 DEF Goes, Receipt1, SeenUp
    <3>3. ~misled => boot[wan1] = "running" /\ boot[wan2] = "running" /\ path[wan1]
      BY <3>2, <1>1, <1>2 DEF LegSound, Leg1
    <3>4. Place(r, "settle1", SettleTime) \in Run /\ Place(r, "settle1", SettleTime).pc = "settle1"
      BY <1>3, PlaceType, Durations
    <3>5. ~misled' => OneRuns' /\ LegSound(Place(r, "settle1", SettleTime), boot', lag', path')
      BY <3>1, <3>3, <3>4, <1>1 DEF LegSound, OneRuns, Leg1, Leg2, Onwards, devices, world
    <3> QED BY <3>1, <3>4, <3>5, GoesSound
  <2>2. CASE ~(SeenUp(wan1) /\ Receipt1(r)) /\ run[r].left = 0
    <3>1. EndLeg(r, "await1", wan1, Classified(wan1, "not_issued"))
      BY <1>8, <2>2 DEF Poll1
    <3>2. run[r].pc = "await1"
      BY <3>1 DEF EndLeg, Ends, Goes
    <3>3. Classified(wan1, "not_issued") # "not_returned" => boot[wan1] # "booting"
      BY DEF Classified, SeenUp
    <3>4. ~misled => boot[wan1] # "leaving" /\ boot[wan2] = "running"
      BY <3>2, <2>2, <1>1, <1>2, Times DEF LegSound, Leg1
    <3> QED BY <3>1, <3>3, <3>4, <1>1, EndLegSound
  <2>3. CASE ~(SeenUp(wan1) /\ Receipt1(r)) /\ run[r].left # 0
    <3> DEFINE to == [run[r] EXCEPT !.nap = TRUE, !.down = @ \/ (readable /\ ~SeenUp(wan1))]
    <3>1. Goes(r, "await1", to) /\ Onwards /\ UNCHANGED devices
      BY <1>8, <2>3 DEF Poll1
    <3>2. (run[r].down \/ (readable /\ ~SeenUp(wan1))) \in BOOLEAN /\ run[r].pc = "await1"
      BY <3>1 DEF Goes
    <3>3. /\ to \in Run /\ to.pc = "await1" /\ to.left = run[r].left
          /\ to.down = (run[r].down \/ (readable /\ ~SeenUp(wan1)))
      BY <1>1, <3>2 DEF Run
    <3> HIDE DEF to
    <3>4. ~misled /\ boot[wan1] = "leaving" => ~to.down
      BY <3>2, <3>3, <1>1, <1>2 DEF LegSound, Leg1, SeenUp
    <3>5. ~misled' => OneRuns' /\ LegSound(to, boot', lag', path')
      BY <3>1, <3>2, <3>3, <3>4, <1>1, <1>2 DEF LegSound, OneRuns, Leg1, Leg2, Onwards, devices, world
    <3> QED BY <3>1, <3>3, <3>5, GoesSound
  <2> QED BY <2>1, <2>2, <2>3
<1>9. CASE Settle1(r)
  <2>1. run[r].pc = "settle1" /\ EndLeg(r, "settle1", wan1, "recovered")
    BY <1>9 DEF Settle1, EndLeg, Ends, Goes
  <2> QED BY <2>1, <1>1, <1>2, EndLegSound DEF LegSound, Leg1
<1> QED BY <1>4, <1>5, <1>6, <1>7, <1>8, <1>9

\* The steps of leg 2.
LEMMA Leg2Sound ==
  ASSUME TypeOK, DevicesInv, NEW r \in Runs,
         \/ Open2(r) \/ NoStatus2(r) \/ InFlight2(r) \/ NoPeer2(r) \/ Status2(r)
         \/ Ask2(r) \/ Refused2(r) \/ AnswerLost2(r) \/ Recovered2(r) \/ Poll2(r)
         \/ GiveUp2(r) \/ Settle2(r)
  PROVE  DevicesInv'
<1>1. /\ run[r] \in Run /\ boot \in [Wans -> {"running", "leaving", "booting"}]
      /\ lag \in [Wans -> 0 .. DropLag]
      /\ wan1 \in Wans /\ wan2 \in Wans /\ wan1 # wan2
  BY NameAssumption DEF TypeOK, Wans
<1>2. ~misled => LegSound(run[r], boot, lag, path) /\ OneRuns
  BY DEF DevicesInv
<1>3. /\ "status2" \in Places /\ "ask2" \in Places /\ "await2" \in Places
      /\ "settle2" \in Places
  BY DEF Places
<1>4. ASSUME NEW from, from # "idle", NEW outcome, EndLeg(r, from, wan2, outcome) PROVE DevicesInv'
  BY <1>1, <1>4, EndLegSound
<1>5. CASE Open2(r)
  <2>1. Goes(r, "open2", Place(r, "status2", 2 * GrpcCall)) /\ UNCHANGED <<devices, world, misled>>
    BY <1>5 DEF Open2
  <2>2. /\ Place(r, "status2", 2 * GrpcCall) \in Run
        /\ Place(r, "status2", 2 * GrpcCall).pc = "status2" /\ run[r].pc = "open2"
    BY <2>1, <1>3, PlaceType, Durations DEF Goes
  <2>3. ~misled' => OneRuns' /\ LegSound(Place(r, "status2", 2 * GrpcCall), boot', lag', path')
    BY <2>1, <2>2, <1>2 DEF LegSound, OneRuns, Leg1, Leg2, devices, world
  <2> QED BY <2>1, <2>2, <2>3, GoesSound
<1>6. CASE NoStatus2(r) \/ InFlight2(r) \/ NoPeer2(r)
  BY <1>6, <1>4 DEF NoStatus2, InFlight2, NoPeer2
<1>7. CASE Status2(r)
  <2>1. PICK staged \in BOOLEAN :
          Goes(r, "status2", [Place(r, "ask2", GrpcCall) EXCEPT !.staged = staged, !.again = FALSE])
    BY <1>7 DEF Status2
  <2> DEFINE to == [Place(r, "ask2", GrpcCall) EXCEPT !.staged = staged, !.again = FALSE]
  <2>2. Place(r, "ask2", GrpcCall) \in Run /\ Place(r, "ask2", GrpcCall).pc = "ask2"
    BY <1>3, PlaceType, Durations
  <2>3. to \in Run /\ to.pc = "ask2" /\ Goes(r, "status2", to)
    BY <2>1, <2>2 DEF Run
  <2>4. run[r].pc = "status2"
    BY <2>1 DEF Goes
  <2> HIDE DEF to
  <2>5. boot' = boot /\ lag' = lag /\ path' = path /\ misled' = misled
    BY <1>7 DEF Status2, Onwards, world
  <2>6. ~misled' => OneRuns' /\ LegSound(to, boot', lag', path')
    BY <2>3, <2>4, <2>5, <1>2 DEF LegSound, OneRuns, Leg1, Leg2
  <2> QED BY <2>3, <2>6, GoesSound
<1>8. CASE Ask2(r)
  <2> DEFINE to == Awaits(r, "await2", RecoveryDeadline + GrpcCall)
  <2>1. to \in Run /\ to.pc = "await2" /\ to.left = RecoveryDeadline + GrpcCall
    BY <1>3, PlaceType, Durations
  <2>2. /\ Goes(r, "ask2", to) /\ path' = path /\ misled' = misled
        /\ (boot[wan2] # "booting" /\ Takes(wan2)) \/ UNCHANGED devices
    BY <1>8 DEF Ask2, Onwards, world
  <2>3. run[r].pc = "ask2"
    BY <2>2 DEF Goes
  <2> HIDE DEF to
  <2>4. ASSUME ~misled
        PROVE  boot'[wan1] = "running" /\ (boot'[wan2] = "leaving" => lag'[wan2] = DropLag)
    BY <2>2, <2>3, <2>4, <1>1, <1>2 DEF LegSound, Leg2, Takes, devices
  <2>5. ~misled' => OneRuns' /\ LegSound(to, boot', lag', path')
    BY <2>1, <2>2, <2>4, <1>1, Times DEF LegSound, OneRuns, Leg1, Leg2
  <2> QED BY <2>1, <2>2, <2>5, GoesSound
<1>9. CASE Refused2(r)
  BY <1>9, <1>4 DEF Refused2
<1>10. CASE AnswerLost2(r)
  BY <1>10, MisledSound DEF AnswerLost2
<1>11. CASE Recovered2(r)
  <2>1. Goes(r, "await2", Place(r, "settle2", SettleTime)) /\ Onwards /\ UNCHANGED devices
    BY <1>11 DEF Recovered2
  <2>2. /\ Place(r, "settle2", SettleTime) \in Run /\ Place(r, "settle2", SettleTime).pc = "settle2"
        /\ run[r].pc = "await2"
    BY <2>1, <1>3, PlaceType, Durations DEF Goes
  <2>3. ~misled' => OneRuns' /\ LegSound(Place(r, "settle2", SettleTime), boot', lag', path')
    BY <2>1, <2>2, <1>2 DEF LegSound, OneRuns, Leg1, Leg2, Onwards, devices, world
  <2> QED BY <2>1, <2>2, <2>3, GoesSound
<1>12. CASE Poll2(r)
  <2> DEFINE to == [run[r] EXCEPT !.nap = TRUE]
  <2>1. Goes(r, "await2", to) /\ Onwards /\ UNCHANGED devices
    BY <1>12 DEF Poll2
  <2>2. to \in Run /\ to.pc = run[r].pc /\ to.left = run[r].left /\ run[r].pc = "await2"
    BY <2>1, <1>1 DEF Run, Goes
  <2> HIDE DEF to
  <2>3. ~misled' => OneRuns' /\ LegSound(to, boot', lag', path')
    BY <2>1, <2>2, <1>2 DEF LegSound, OneRuns, Leg1, Leg2, Onwards, devices, world
  <2> QED BY <2>1, <2>2, <2>3, GoesSound
<1>13. CASE GiveUp2(r)
  <2>1. CASE /\ Goes(r, "await2", [Place(r, "ask2", NotifyTimeout + GrpcCall) EXCEPT !.again = TRUE])
             /\ Onwards /\ UNCHANGED devices
    <3> DEFINE to == [Place(r, "ask2", NotifyTimeout + GrpcCall) EXCEPT !.again = TRUE]
    <3>1. Place(r, "ask2", NotifyTimeout + GrpcCall) \in Run
          /\ Place(r, "ask2", NotifyTimeout + GrpcCall).pc = "ask2"
      BY <1>3, PlaceType, Durations
    <3>2. to \in Run /\ to.pc = "ask2" /\ Goes(r, "await2", to)
      BY <2>1, <3>1 DEF Run
    <3>3. run[r].pc = "await2" /\ run[r].left <= GrpcCall
      BY <2>1, <1>13 DEF Goes, GiveUp2, TimeUp2
    <3> HIDE DEF to
    <3>4. ~misled => boot[wan2] # "leaving" /\ boot[wan1] = "running"
      <4>1. lag[wan2] \in Nat /\ run[r].left \in Nat
        BY <1>1, Times DEF Run
      <4> QED BY <4>1, <3>3, <1>2, Times DEF LegSound, Leg2
    <3>5. ~misled' => OneRuns' /\ LegSound(to, boot', lag', path')
      BY <2>1, <3>2, <3>4, <1>2 DEF LegSound, OneRuns, Leg1, Leg2, Onwards, devices, world
    <3> QED BY <3>2, <3>5, GoesSound
  <2>2. CASE \E outcome \in {Classified(wan2, "skipped"), Classified(wan2, "not_issued")} :
               EndLeg(r, "await2", wan2, outcome)
    BY <2>2, <1>4
  <2> QED BY <1>13, <2>1, <2>2 DEF GiveUp2
<1>14. CASE Settle2(r)
  BY <1>14, <1>4 DEF Settle2
<1> QED BY <1>5, <1>6, <1>7, <1>8, <1>9, <1>10, <1>11, <1>12, <1>13, <1>14

\* A device, a path or the time moves on under a run that stays where it is.
LEMMA WorldSound ==
  ASSUME TypeOK, DevicesInv,
         \/ \E w \in Wans : Drops(w) \/ Returns(w) \/ PathFails(w) \/ PathMends(w)
         \/ Blinds \/ Elapse
  PROVE  DevicesInv'
<1>1. /\ run \in [Runs -> Run] /\ boot \in [Wans -> {"running", "leaving", "booting"}]
      /\ lag \in [Wans -> 0 .. DropLag] /\ path \in [Wans -> BOOLEAN]
      /\ Wans = {wan1, wan2} /\ wan1 # wan2
  BY NameAssumption DEF TypeOK, Wans
<1>2. CASE \E w \in Wans : Drops(w) \/ Returns(w)
  <2>1. PICK w \in Wans : Drops(w) \/ Returns(w)
    BY <1>2
  <2>2. /\ run' = run /\ path' = path /\ misled' = misled
        /\ \A v \in Wans : \/ boot'[v] = boot[v] /\ lag'[v] = lag[v]
                           \/ boot'[v] # "leaving" /\ boot[v] # "running"
    <3>1. CASE Drops(w)
      BY <3>1, <1>1 DEF Drops, world
    <3>2. CASE Returns(w)
      BY <3>2, <1>1 DEF Returns, world
    <3> QED BY <2>1, <3>1, <3>2
  <2>3. ~misled => OneRuns'
    BY <2>2, <1>1 DEF DevicesInv, OneRuns
  <2>4. ASSUME ~misled, NEW r \in Runs PROVE LegSound(run[r], boot', lag', path)
    <3>1. LegSound(run[r], boot, lag, path)
      BY <2>4 DEF DevicesInv
    <3>2. /\ boot[wan1] = "running" => boot'[wan1] = "running"
          /\ boot[wan2] = "running" => boot'[wan2] = "running"
          /\ boot'[wan1] = "leaving" => boot[wan1] = "leaving" /\ lag'[wan1] = lag[wan1]
          /\ boot'[wan2] = "leaving" => boot[wan2] = "leaving" /\ lag'[wan2] = lag[wan2]
      BY <2>2, <1>1
    <3> QED BY <3>1, <3>2 DEF LegSound
  <2> QED BY <2>2, <2>3, <2>4 DEF DevicesInv
<1>3. CASE \E w \in Wans : PathFails(w)
  <2>1. PICK w \in Wans : PathFails(w)
    BY <1>3
  <2>2. CASE w = wan1 /\ InLeg1
    BY <2>1, <2>2, MisledSound DEF PathFails
  <2>3. CASE ~(w = wan1 /\ InLeg1)
    <3>1. /\ run' = run /\ boot' = boot /\ lag' = lag /\ misled' = misled
          /\ path' = [path EXCEPT ![w] = FALSE]
      BY <2>1, <2>3 DEF PathFails, devices
    <3>2. ASSUME NEW r \in Runs, run[r].pc \in Leg1 PROVE path'[wan1] = path[wan1]
      BY <2>3, <3>1, <3>2, <1>1 DEF InLeg1, Leg1
    <3> QED BY <3>1, <3>2 DEF DevicesInv, OneRuns, LegSound
  <2> QED BY <2>2, <2>3
<1>4. CASE \E w \in Wans : PathMends(w)
  <2>1. PICK w \in Wans : PathMends(w)
    BY <1>4
  <2>2. /\ run' = run /\ boot' = boot /\ lag' = lag /\ misled' = misled
        /\ path[wan1] => path'[wan1]
    BY <2>1, <1>1 DEF PathMends, devices
  <2> QED BY <2>2 DEF DevicesInv, OneRuns, LegSound
<1>5. CASE Blinds
  BY <1>5 DEF Blinds, devices, DevicesInv, OneRuns
<1>6. CASE Elapse
  <2>1. boot' = boot /\ path' = path /\ misled' = misled
    BY <1>6 DEF Elapse
  <2>2. ASSUME ~misled, NEW r \in Runs PROVE LegSound(run'[r], boot, lag', path)
    <3>1. LegSound(run[r], boot, lag, path)
      BY <2>2 DEF DevicesInv
    <3>2. /\ run'[r].pc = run[r].pc /\ run'[r].left = Less(run[r].left)
          /\ run'[r].down = run[r].down /\ run[r].left \in Nat
      <4>1. run[r] \in Run /\ run'[r] = [run[r] EXCEPT !.left = Less(@), !.nap = FALSE]
        BY <1>1, <1>6 DEF Elapse
      <4>2. run[r].left \in Lefts
        BY <4>1 DEF Run, Lefts
      <4> QED BY <4>1, <4>2, Times DEF Run, Lefts
    <3>3. \A w \in Wans : /\ lag[w] \in Nat /\ lag'[w] = Less(lag[w])
                          /\ boot[w] = "leaving" => lag[w] > 0
      <4>1. lag' = [w \in Wans |-> Less(lag[w])] /\ \A w \in Wans : boot[w] = "leaving" => lag[w] > 0
        BY <1>6 DEF Elapse
      <4>2. \A w \in Wans : lag[w] \in Nat
        BY <1>1, Times
      <4> QED BY <4>1, <4>2
    <3> QED BY <3>1, <3>2, <3>3, <1>1, Times DEF LegSound, Less
  <2> QED BY <2>1, <2>2 DEF DevicesInv, OneRuns
<1> QED BY <1>2, <1>3, <1>4, <1>5, <1>6

\* Every step keeps it: a run begins, goes on or is killed, or the world does.
LEMMA DevicesStep == ASSUME TypeOK, DevicesInv, [Next]_vars PROVE DevicesInv'
<1>1. ASSUME NEW r \in Runs, Begin(r) PROVE DevicesInv'
  <2>1. /\ run \in [Runs -> Run] /\ boot \in [Wans -> {"running", "leaving", "booting"}]
        /\ \A s \in Runs : run[s].pc # "idle" <=> lock = s
        /\ NoRun \notin Runs /\ lock = NoRun /\ wan1 \in Wans /\ wan2 \in Wans
    BY <1>1, NameAssumption DEF TypeOK, Begin, LockFree, Wans
  <2>2. boot' = boot /\ lag' = lag /\ path' = path
    BY <1>1 DEF Begin, devices, world
  <2>3. CASE misled' = TRUE
    BY <2>3, MisledSound
  <2>4. CASE misled' = misled /\ \A w \in Wans : boot[w] # "leaving"
    <3>1. CASE UNCHANGED <<lock, run>>
      BY <2>2, <2>4, <3>1 DEF DevicesInv, OneRuns
    <3>2. CASE /\ \A w \in Wans : SeenUp(w)
               /\ \E legs \in {Wans, {wan1}, {wan2}} :
                    run' = [run EXCEPT ![r] = [IdleRun EXCEPT !.legs = legs,
                              !.pc = IF wan1 \in legs THEN "open1" ELSE "open2"]]
      <4>1. \A w \in Wans : boot[w] = "running" /\ path[w]
        BY <2>1, <2>4, <3>2 DEF SeenUp
      <4>2. /\ run'[r].pc \in {"open1", "open2"}
            /\ \A s \in Runs : s # r => run'[s].pc = "idle"
        BY <2>1, <3>2 DEF IdleRun
      <4>3. ASSUME NEW s \in Runs PROVE LegSound(run'[s], boot', lag', path')
        <5>1. CASE s = r
          BY <2>1, <2>2, <4>1, <4>2, <5>1 DEF LegSound, Leg1, Leg2
        <5>2. CASE s # r
          BY <4>2, <5>2, IdleSound
        <5> QED BY <5>1, <5>2
      <4> QED BY <2>1, <2>2, <4>1, <4>3 DEF DevicesInv, OneRuns
    <3> QED BY <1>1, <3>1, <3>2 DEF Begin
  <2> QED BY <1>1, <2>3, <2>4 DEF Begin
<1>2. ASSUME NEW r \in Runs, Kill(r) PROVE DevicesInv'
  <2>1. run' = [run EXCEPT ![r] = IdleRun] /\ run[r].pc # "idle"
        /\ misled' = misled /\ boot' = boot /\ lag' = lag /\ path' = path
    BY <1>2 DEF Kill, devices, world
  <2>2. IdleRun \in Run /\ IdleRun.pc = "idle"
    BY PlaceType, Durations DEF Places
  <2>3. Goes(r, run[r].pc, IdleRun)
    BY <2>1 DEF Goes
  <2>4. ~misled' => OneRuns' /\ LegSound(IdleRun, boot', lag', path')
    BY <2>1, <2>2, IdleSound DEF DevicesInv, OneRuns
  <2> QED BY <2>1, <2>2, <2>3, <2>4, GoesSound
<1>3. CASE UNCHANGED vars
  BY <1>3 DEF vars, DevicesInv, OneRuns
<1>4. ASSUME NEW r \in Runs, Process(r) PROVE DevicesInv'
  BY <1>4, Leg1Sound, Leg2Sound DEF Process
<1> QED BY <1>1, <1>2, <1>3, <1>4, WorldSound DEF Next

\* So it holds of every reachable state.
LEMMA DevicesHold == Spec => []DevicesInv
BY DevicesInit, DevicesStep, TypeCorrect, PTL DEF Spec

\* No order of any number of runs, no kill, no request or answer that is lost,
\* no path that fails and no file that is blind takes both devices down, but
\* for what NeverBothDown names (run_once, reboot_wan1, reboot_wan2, await_up).
THEOREM OneStaysUp == Spec => []NeverBothDown
<1>1. DevicesInv => NeverBothDown
  BY DEF DevicesInv, OneRuns, NeverBothDown
<1> QED BY <1>1, DevicesHold, PTL

-----------------------------------------------------------------------------
(* What a quiet outcome means.                                             *)

\* Only the end of a leg says how it ended, and of its own WAN.
Quiet == {"skipped", "not_issued"}
Untouched(w) == misled' \/ boot'[w] = "running"

\* What the end of a leg says, and of whom.
LEMMA EndSays ==
  ASSUME TypeOK, NEW r \in Runs, NEW from, NEW w \in Wans, NEW outcome,
         EndLeg(r, from, w, outcome), NEW v \in Wans, said'[v] # said[v]
  PROVE  v = w /\ said'[v] = outcome /\ boot' = boot /\ misled' = misled /\ run[r].pc = from
BY DEF TypeOK, EndLeg, Ends, Goes, devices

\* A leg that ends quietly leaves its device running.
LEMMA QuietStep ==
  ASSUME TypeOK, DevicesInv, Next, NEW v \in Wans, said'[v] # said[v], said'[v] \in Quiet
  PROVE  Untouched(v)
<1>1. /\ boot \in [Wans -> {"running", "leaving", "booting"}] /\ said \in [Wans -> Outcome]
      /\ \A w \in Wans : lag[w] \in Nat
      /\ wan1 \in Wans /\ wan2 \in Wans
  BY Times DEF TypeOK, Wans
<1>2. ASSUME NEW r \in Runs, Process(r) PROVE Untouched(v)
  <2>1. ~misled => LegSound(run[r], boot, lag, path)
    BY DEF DevicesInv
  <2>2. run[r].left \in Nat
    BY Times DEF TypeOK, Run
  <2>3. CASE Stall1(r) \/ AnswerLost2(r)
    BY <2>3 DEF Stall1, AnswerLost2, Untouched
  <2>4. CASE EndLeg(r, "open1", wan1, "skipped") \/ EndLeg(r, "post1", wan1, Classified(wan1, "not_issued"))
    BY <2>1, <2>4, <1>1, EndSays DEF LegSound, Leg1, Untouched
  <2>5. CASE EndLeg(r, "await1", wan1, Classified(wan1, "not_issued")) /\ run[r].left = 0
    <3>1. v = wan1 /\ said'[v] = Classified(wan1, "not_issued") /\ boot' = boot
          /\ misled' = misled /\ run[r].pc = "await1"
      BY <2>5, <1>1, EndSays
    <3>2. boot[wan1] # "booting"
      BY <3>1 DEF Classified, SeenUp, Quiet
    <3>3. ~misled => boot[wan1] # "leaving"
      BY <2>1, <2>5, <3>1, <1>1 DEF LegSound
    <3> QED BY <3>1, <3>2, <3>3, <1>1 DEF Untouched
  <2>6. CASE \E place \in {"settle1", "settle2"} : \E w \in Wans : EndLeg(r, place, w, "recovered")
    BY <2>6, EndSays DEF Quiet
  <2>7. CASE \E outcome : EndLeg(r, "status2", wan2, outcome)
    BY <2>1, <2>7, <1>1, EndSays DEF LegSound, Untouched
  <2>8. CASE EndLeg(r, "ask2", wan2, Classified(wan2, "not_issued"))
    <3>1. v = wan2 /\ said'[v] = Classified(wan2, "not_issued") /\ boot' = boot
          /\ misled' = misled /\ run[r].pc = "ask2"
      BY <2>8, <1>1, EndSays
    <3>2. boot[wan2] # "booting"
      BY <3>1 DEF Classified, SeenUp, Quiet
    <3> QED BY <3>1, <3>2, <2>1, <1>1 DEF Untouched, LegSound
  <2>9. CASE /\ run[r].left <= GrpcCall
             /\ \E up \in Quiet : EndLeg(r, "await2", wan2, Classified(wan2, up))
    <3>1. PICK up \in Quiet : EndLeg(r, "await2", wan2, Classified(wan2, up))
      BY <2>9
    <3>2. v = wan2 /\ said'[v] = Classified(wan2, up) /\ boot' = boot
          /\ misled' = misled /\ run[r].pc = "await2"
      BY <3>1, <1>1, EndSays
    <3>3. boot[wan2] # "booting"
      BY <3>2 DEF Classified, SeenUp, Quiet
    <3>4. ~misled => boot[wan2] # "leaving"
      BY <2>1, <2>2, <2>9, <3>2, <1>1, Times DEF LegSound
    <3> QED BY <3>2, <3>3, <3>4, <1>1 DEF Untouched
  <2>10. CASE UNCHANGED said
    BY <2>10
  <2>11. CASE Open1(r) \/ Post1(r) \/ Untouched1(r) \/ Poll1(r) \/ Settle1(r)
    BY <2>11, <2>4, <2>5, <2>6, <2>10, <1>1 DEF Open1, Post1, Untouched1, Poll1, Settle1, Onwards
  <2>12. CASE Open2(r) \/ NoStatus2(r) \/ InFlight2(r) \/ NoPeer2(r) \/ Status2(r) \/ Ask2(r)
    BY <2>12, <2>7, <2>10 DEF Open2, NoStatus2, InFlight2, NoPeer2, Status2, Ask2, Onwards
  <2>13. CASE Refused2(r) \/ Recovered2(r) \/ Poll2(r) \/ GiveUp2(r) \/ Settle2(r)
    BY <2>13, <2>6, <2>8, <2>9, <2>10, <1>1
       DEF Refused2, Recovered2, Poll2, GiveUp2, Settle2, TimeUp2, Onwards, Quiet
  <2> QED BY <1>2, <2>3, <2>11, <2>12, <2>13 DEF Process
<1>3. ASSUME NEW r \in Runs, Begin(r) PROVE said'[v] = "none"
  BY <1>3 DEF Begin
<1>4. CASE \E r \in Runs : Kill(r)
  BY <1>4 DEF Kill
<1>5. CASE \/ \E w \in Wans : Drops(w) \/ Returns(w) \/ PathFails(w) \/ PathMends(w)
           \/ Blinds \/ Elapse
  BY <1>5 DEF Drops, Returns, PathFails, PathMends, Blinds, Elapse
<1> QED BY <1>2, <1>3, <1>4, <1>5 DEF Next, Quiet

\* A leg that says that nothing was done has left its device running, whatever
\* the request's fate, but for the same (classify_by_link).
THEOREM QuietIsTrue == Spec => QuietMeansUntouched
<1>1. ASSUME TypeOK, DevicesInv, [Next]_vars
      PROVE  [\A w \in Wans : said'[w] # said[w] /\ said'[w] \in {"skipped", "not_issued"}
                => misled' \/ boot'[w] = "running"]_vars
  BY <1>1, QuietStep DEF Quiet, Untouched
<1> QED BY <1>1, TypeCorrect, DevicesHold, PTL DEF Spec, QuietMeansUntouched

-----------------------------------------------------------------------------
(* The window.                                                             *)

\* What a leg may still take, from where it is.
Try2   == RecoveryDeadline + GrpcCall
Again2 == NotifyTimeout + GrpcCall + Try2
Remaining(me) ==
  CASE me.pc = "post1"   -> me.left + RecoveryDeadline + SettleTime
    [] me.pc = "await1"  -> me.left + SettleTime
    [] me.pc = "status2" -> me.left + GrpcCall + Try2 + Again2 + SettleTime
    [] me.pc = "ask2"    -> me.left + Try2 + (IF me.again THEN 0 ELSE Again2) + SettleTime
    [] me.pc = "await2"  -> me.left + (IF me.again THEN 0 ELSE Again2) + SettleTime
    [] OTHER -> me.left

\* The window is this leg's and open for longer than that; a run that sleeps
\* has some of its deadline left.
Covered(me, win) ==
  /\ me.pc \in {"await1", "await2"} /\ me.nap => me.left > 0
  /\ me.pc \in Leg1 \ {"open1"} => win.wan = wan1 /\ win.left > Remaining(me)
  /\ me.pc \in Leg2 \ {"open2"} => win.wan = wan2 /\ win.left > Remaining(me)

WindowInv == \A r \in Runs : Covered(run[r], window)

\* Before its request a leg needs no window.
LEMMA UncoveredPlaces ==
  ASSUME NEW me, NEW win, me.pc \in {"idle", "open1", "open2"}
  PROVE  Covered(me, win)
BY DEF Covered, Leg1, Leg2

\* The others are idle while one run goes on.
LEMMA GoesCovered ==
  ASSUME TypeOK, NEW r \in Runs, NEW from, NEW to \in Run, from # "idle", Goes(r, from, to),
         Covered(to, window')
  PROVE  WindowInv'
<1>1. run \in [Runs -> Run] /\ run[r].pc = from /\ run' = [run EXCEPT ![r] = to]
      /\ \A s \in Runs : run[s].pc # "idle" <=> lock = s
  BY DEF Goes, TypeOK
<1>2. ASSUME NEW s \in Runs, s # r PROVE Covered(run'[s], window')
  <2>1. run'[s] = run[s] /\ run[s].pc = "idle"
    BY <1>1, <1>2
  <2> QED BY <2>1, UncoveredPlaces
<1>3. run'[r] = to
  BY <1>1
<1> QED BY <1>2, <1>3 DEF WindowInv

\* After its end neither.
LEMMA EndsCovered ==
  ASSUME TypeOK, NEW r \in Runs, NEW from, from # "idle", NEW w, NEW outcome,
         Ends(r, from, w, outcome)
  PROVE  WindowInv'
<1> DEFINE more == w = wan1 /\ wan2 \in run[r].legs /\ outcome # "not_returned"
           to == IF more THEN Place(r, "open2", 0) ELSE IdleRun
<1>1. Goes(r, from, to)
  BY DEF Ends
<1>2. /\ Place(r, "open2", 0) \in Run /\ Place(r, "open2", 0).pc = "open2"
      /\ IdleRun \in Run /\ IdleRun.pc = "idle"
  BY PlaceType, Durations DEF Places
<1>3. to \in Run /\ to.pc \in {"idle", "open2"}
  BY <1>2
<1> HIDE DEF to
<1> QED BY <1>1, <1>3, GoesCovered, UncoveredPlaces

\* A window opens for longer than its leg, and each place gives way to ones that
\* take no longer than was left for them.
LEMMA ProcessCovered ==
  ASSUME WindowMargin > 0, TypeOK, WindowInv, NEW r \in Runs, Process(r)
  PROVE  WindowInv'
<1>1. /\ run[r] \in Run /\ Covered(run[r], window) /\ window.left \in Nat
      /\ run[r].left \in Nat
  BY Times DEF TypeOK, WindowInv, Run
<1>2. /\ "post1" \in Places /\ "await1" \in Places /\ "settle1" \in Places
      /\ "status2" \in Places /\ "ask2" \in Places /\ "await2" \in Places
      /\ "settle2" \in Places
  BY DEF Places
<1>3. /\ Try2 = RecoveryDeadline + GrpcCall
      /\ Again2 = NotifyTimeout + GrpcCall + RecoveryDeadline + GrpcCall
  BY Times DEF Try2, Again2
<1>4. ASSUME NEW from, from # "idle", NEW w, NEW outcome, Ends(r, from, w, outcome)
      PROVE  WindowInv'
  BY <1>4, EndsCovered
<1>5. CASE Open1(r)
  <2>1. CASE /\ Goes(r, "open1", Place(r, "post1", WatchdogTimeout))
             /\ window' = [wan |-> wan1, left |-> Leg1Ttl]
    <3> DEFINE to == Place(r, "post1", WatchdogTimeout)
    <3>1. to \in Run /\ to.pc = "post1" /\ to.left = WatchdogTimeout
      BY <1>2, PlaceType, Durations
    <3> HIDE DEF to
    <3>2. Leg1Ttl > Remaining(to) /\ window'.wan = wan1 /\ window'.left = Leg1Ttl
      BY <2>1, <3>1, Times DEF Remaining, Leg1Ttl
    <3>3. Covered(to, window')
      BY <3>1, <3>2 DEF Covered, Leg2
    <3> QED BY <2>1, <3>1, <3>3, GoesCovered DEF to
  <2> QED BY <1>4, <1>5, <2>1 DEF Open1, EndLeg
<1>6. CASE Post1(r)
  <2> DEFINE to == [Awaits(r, "await1", RecoveryDeadline) EXCEPT !.down = FALSE]
  <2>1. /\ Awaits(r, "await1", RecoveryDeadline) \in Run
        /\ Awaits(r, "await1", RecoveryDeadline).pc = "await1"
        /\ Awaits(r, "await1", RecoveryDeadline).left = RecoveryDeadline
    BY <1>2, PlaceType, Durations
  <2>2. to \in Run /\ to.pc = "await1" /\ to.left = RecoveryDeadline
    BY <2>1 DEF Run
  <2>3. Goes(r, "post1", to) /\ window' = window /\ run[r].pc = "post1"
    BY <1>6 DEF Post1, Onwards, Goes
  <2> HIDE DEF to
  <2>4. Covered(to, window')
    BY <1>1, <2>2, <2>3, Times DEF Covered, Remaining, Leg1, Leg2
  <2> QED BY <2>2, <2>3, <2>4, GoesCovered
<1>7. CASE Poll1(r)
  <2>1. CASE Goes(r, "await1", Place(r, "settle1", SettleTime)) /\ Onwards
    <3> DEFINE to == Place(r, "settle1", SettleTime)
    <3>1. /\ to \in Run /\ to.pc = "settle1" /\ to.left = SettleTime
          /\ window' = window /\ run[r].pc = "await1"
      BY <2>1, <1>2, PlaceType, Durations DEF Onwards, Goes
    <3> HIDE DEF to
    <3>2. Covered(to, window')
      BY <1>1, <3>1, Times DEF Covered, Remaining, Leg1, Leg2
    <3> QED BY <2>1, <3>1, <3>2, GoesCovered DEF to
  <2>2. CASE /\ run[r].left # 0
             /\ Goes(r, "await1", [run[r] EXCEPT !.nap = TRUE,
                                      !.down = @ \/ (readable /\ ~SeenUp(wan1))]) /\ Onwards
    <3> DEFINE to == [run[r] EXCEPT !.nap = TRUE, !.down = @ \/ (readable /\ ~SeenUp(wan1))]
    <3>1. (run[r].down \/ (readable /\ ~SeenUp(wan1))) \in BOOLEAN
      OBVIOUS
    <3>2. /\ to \in Run /\ to.pc = run[r].pc /\ to.left = run[r].left
      BY <1>1, <3>1 DEF Run
    <3>3. window' = window /\ run[r].pc = "await1" /\ Goes(r, "await1", to) /\ run[r].left # 0
      BY <2>2 DEF Onwards, Goes
    <3> HIDE DEF to
    <3>4. Covered(to, window')
      BY <1>1, <3>2, <3>3, Times DEF Covered, Remaining, Leg1, Leg2
    <3> QED BY <3>2, <3>3, <3>4, GoesCovered
  <2> QED BY <1>4, <1>7, <2>1, <2>2 DEF Poll1, EndLeg
<1>8. CASE Untouched1(r) \/ Stall1(r) \/ Settle1(r)
  BY <1>4, <1>8 DEF Untouched1, Stall1, Settle1, EndLeg
<1>9. CASE Open2(r)
  <2> DEFINE to == Place(r, "status2", 2 * GrpcCall)
  <2>1. to \in Run /\ to.pc = "status2" /\ to.left = 2 * GrpcCall
    BY <1>2, PlaceType, Durations
  <2>2. Goes(r, "open2", to) /\ window'.wan = wan2 /\ window'.left = Leg2Ttl
    BY <1>9 DEF Open2
  <2> HIDE DEF to
  <2>3. Leg2Ttl > Remaining(to)
    BY <1>3, <2>1, Times DEF Remaining, Leg2Ttl
  <2>4. Covered(to, window')
    BY <2>1, <2>2, <2>3 DEF Covered, Leg1
  <2> QED BY <2>1, <2>2, <2>4, GoesCovered
<1>10. CASE Status2(r)
  <2>1. PICK staged \in BOOLEAN :
          Goes(r, "status2", [Place(r, "ask2", GrpcCall) EXCEPT !.staged = staged, !.again = FALSE])
    BY <1>10 DEF Status2
  <2> DEFINE to == [Place(r, "ask2", GrpcCall) EXCEPT !.staged = staged, !.again = FALSE]
  <2>2. /\ Place(r, "ask2", GrpcCall) \in Run /\ Place(r, "ask2", GrpcCall).pc = "ask2"
        /\ Place(r, "ask2", GrpcCall).left = GrpcCall
    BY <1>2, PlaceType, Durations
  <2>3. /\ to \in Run /\ to.pc = "ask2" /\ to.left = GrpcCall /\ to.again = FALSE
        /\ Goes(r, "status2", to)
    BY <2>1, <2>2 DEF Run
  <2>4. run[r].pc = "status2" /\ window' = window
    BY <2>1, <1>10 DEF Goes, Status2, Onwards
  <2> HIDE DEF to
  <2>5. Covered(to, window')
    BY <1>1, <1>3, <2>3, <2>4, Times DEF Covered, Remaining, Leg1, Leg2
  <2> QED BY <2>3, <2>5, GoesCovered
<1>11. CASE Ask2(r)
  <2> DEFINE to == Awaits(r, "await2", RecoveryDeadline + GrpcCall)
  <2>1. /\ to \in Run /\ to.pc = "await2" /\ to.left = RecoveryDeadline + GrpcCall
        /\ to.again = run[r].again
    BY <1>1, <1>2, PlaceType, Durations DEF Awaits, Place, Run
  <2>2. Goes(r, "ask2", to) /\ window' = window /\ run[r].pc = "ask2"
    BY <1>11 DEF Ask2, Onwards, Goes
  <2> HIDE DEF to
  <2>3. Covered(to, window')
    BY <1>1, <1>3, <2>1, <2>2, Times DEF Covered, Remaining, Leg1, Leg2
  <2> QED BY <2>1, <2>2, <2>3, GoesCovered
<1>12. CASE Recovered2(r)
  <2> DEFINE to == Place(r, "settle2", SettleTime)
  <2>1. to \in Run /\ to.pc = "settle2" /\ to.left = SettleTime
    BY <1>2, PlaceType, Durations
  <2>2. Goes(r, "await2", to) /\ window' = window /\ run[r].pc = "await2"
    BY <1>12 DEF Recovered2, Onwards, Goes
  <2> HIDE DEF to
  <2>3. Covered(to, window')
    BY <1>1, <1>3, <2>1, <2>2, Times DEF Covered, Remaining, Leg1, Leg2
  <2> QED BY <2>1, <2>2, <2>3, GoesCovered
<1>13. CASE Poll2(r)
  <2> DEFINE to == [run[r] EXCEPT !.nap = TRUE]
  <2>1. /\ Goes(r, "await2", to) /\ window' = window /\ run[r].pc = "await2"
        /\ run[r].left > 0
    BY <1>1, <1>13, Times DEF Poll2, TimeUp2, Onwards, Goes
  <2>2. to \in Run /\ to.pc = run[r].pc /\ to.left = run[r].left /\ to.again = run[r].again
    BY <1>1 DEF Run
  <2> HIDE DEF to
  <2>3. Covered(to, window')
    BY <1>1, <1>3, <2>1, <2>2, Times DEF Covered, Remaining, Leg1, Leg2
  <2> QED BY <2>1, <2>2, <2>3, GoesCovered
<1>14. CASE GiveUp2(r)
  <2>1. CASE /\ ~run[r].again
             /\ Goes(r, "await2", [Place(r, "ask2", NotifyTimeout + GrpcCall) EXCEPT !.again = TRUE])
             /\ Onwards
    <3> DEFINE to == [Place(r, "ask2", NotifyTimeout + GrpcCall) EXCEPT !.again = TRUE]
    <3>1. /\ Place(r, "ask2", NotifyTimeout + GrpcCall) \in Run
          /\ Place(r, "ask2", NotifyTimeout + GrpcCall).pc = "ask2"
          /\ Place(r, "ask2", NotifyTimeout + GrpcCall).left = NotifyTimeout + GrpcCall
      BY <1>2, PlaceType, Durations
    <3>2. /\ to \in Run /\ to.pc = "ask2" /\ to.left = NotifyTimeout + GrpcCall /\ to.again = TRUE
          /\ Goes(r, "await2", to)
      BY <2>1, <3>1 DEF Run
    <3>3. window' = window /\ run[r].pc = "await2" /\ ~run[r].again
      BY <2>1 DEF Onwards, Goes
    <3> HIDE DEF to
    <3>4. Covered(to, window')
      BY <1>1, <1>3, <3>2, <3>3, Times DEF Covered, Remaining, Leg1, Leg2
    <3> QED BY <3>2, <3>4, GoesCovered
  <2> QED BY <1>4, <1>14, <2>1 DEF GiveUp2, EndLeg
<1>15. CASE NoStatus2(r) \/ InFlight2(r) \/ NoPeer2(r) \/ Refused2(r) \/ AnswerLost2(r) \/ Settle2(r)
  BY <1>4, <1>15 DEF NoStatus2, InFlight2, NoPeer2, Refused2, AnswerLost2, Settle2, EndLeg
<1> QED BY <1>5, <1>6, <1>7, <1>8, <1>9, <1>10, <1>11, <1>12, <1>13, <1>14, <1>15 DEF Process

\* Time takes as much from the window as from what the leg may still take.
LEMMA ElapseCovered == ASSUME TypeOK, WindowInv, Elapse PROVE WindowInv'
<1> SUFFICES ASSUME NEW r \in Runs PROVE Covered(run'[r], window')
  BY DEF WindowInv
<1>1. /\ run[r] \in Run /\ run'[r] = [run[r] EXCEPT !.left = Less(@), !.nap = FALSE]
      /\ Covered(run[r], window) /\ window.left \in Nat /\ Waiting(r)
      /\ window' = IF window.left > 1 THEN [window EXCEPT !.left = @ - 1] ELSE NoWindow
      /\ window \in [wan: Wans \cup {NoWan}, left: 0 .. Leg1Ttl + Leg2Ttl]
  <2>1. /\ run \in [Runs -> Run] /\ Waiting(r)
        /\ run' = [s \in Runs |-> [run[s] EXCEPT !.left = Less(@), !.nap = FALSE]]
        /\ window' = IF window.left > 1 THEN [window EXCEPT !.left = @ - 1] ELSE NoWindow
        /\ window \in [wan: Wans \cup {NoWan}, left: 0 .. Leg1Ttl + Leg2Ttl]
    BY DEF TypeOK, Elapse
  <2>2. window.left \in Nat
    <3>1. window.left \in 0 .. Leg1Ttl + Leg2Ttl
      BY <2>1
    <3> QED BY <3>1, Times
  <2> HIDE DEF Run
  <2> QED BY <2>1, <2>2 DEF WindowInv
<1>2. run[r].left \in Nat
  BY <1>1, Times DEF Run
<1>3. /\ run'[r].pc = run[r].pc /\ run'[r].left = Less(run[r].left) /\ run'[r].nap = FALSE
      /\ run'[r].again = run[r].again
  BY <1>1 DEF Run
<1>4. CASE run[r].pc \in {"idle", "open1", "open2"}
  BY <1>3, <1>4, UncoveredPlaces
<1>5. CASE run[r].pc \notin {"idle", "open1", "open2"}
  <2>1. run[r].left > 0 /\ run'[r].left = run[r].left - 1
    BY <1>1, <1>2, <1>3, <1>5 DEF Waiting, Covered, Less
  <2>2. Remaining(run[r]) \in Nat /\ Remaining(run[r]) > 0
        /\ Remaining(run'[r]) = Remaining(run[r]) - 1
    BY <1>1, <1>2, <1>3, <2>1, Times DEF Remaining, Try2, Again2
  <2>3. CASE window.left > Remaining(run[r])
    <3>1. window'.wan = window.wan /\ window'.left = window.left - 1
      BY <1>1, <2>2, <2>3
    <3> QED BY <1>1, <1>3, <2>2, <3>1 DEF Covered
  <2>4. CASE ~(window.left > Remaining(run[r]))
    BY <1>1, <1>3, <2>4 DEF Covered
  <2> QED BY <2>3, <2>4
<1> QED BY <1>4, <1>5

\* So every step keeps it.
LEMMA WindowStep ==
  ASSUME WindowMargin > 0, TypeOK, WindowInv, [Next]_vars
  PROVE  WindowInv'
<1>1. ASSUME NEW r \in Runs, Begin(r) PROVE WindowInv'
  <2>1. /\ run \in [Runs -> Run] /\ \A s \in Runs : run[s].pc = "idle"
    BY <1>1, NameAssumption DEF TypeOK, Begin, LockFree
  <2>2. \A s \in Runs : run'[s].pc \in {"idle", "open1", "open2"}
    BY <1>1, <2>1 DEF Begin, IdleRun
  <2> QED BY <2>2, UncoveredPlaces DEF WindowInv
<1>2. ASSUME NEW r \in Runs, Kill(r) PROVE WindowInv'
  <2>1. run' = [run EXCEPT ![r] = IdleRun] /\ run[r].pc # "idle"
    BY <1>2 DEF Kill
  <2>2. IdleRun \in Run /\ IdleRun.pc = "idle"
    BY PlaceType, Durations DEF Places
  <2>3. Goes(r, run[r].pc, IdleRun)
    BY <2>1 DEF Goes
  <2> QED BY <2>1, <2>2, <2>3, GoesCovered, UncoveredPlaces
<1>3. CASE \/ \E w \in Wans : Drops(w) \/ Returns(w) \/ PathFails(w) \/ PathMends(w)
           \/ Blinds \/ UNCHANGED vars
  BY <1>3 DEF Drops, Returns, PathFails, PathMends, Blinds, vars, WindowInv
<1> QED BY <1>1, <1>2, <1>3, ProcessCovered, ElapseCovered DEF Next

\* With a margin above zero the window outlives the leg it is opened for, a hung
\* one-shot, both tries of leg 2 and their calls included (leg1_window_ttl,
\* leg2_window_ttl).
THEOREM WindowIsOpen == ASSUME WindowMargin > 0 PROVE Spec => []WindowCovers
<1>1. Init => WindowInv
  BY UncoveredPlaces DEF Init, WindowInv, IdleRun
<1>2. TypeOK /\ WindowInv /\ [Next]_vars => WindowInv'
  BY WindowStep
<1>3. WindowInv => WindowCovers
  BY DEF WindowInv, Covered, WindowCovers, Leg1, Leg2
<1> QED BY <1>1, <1>2, <1>3, TypeCorrect, PTL DEF Spec
=============================================================================
