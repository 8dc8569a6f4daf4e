------------------------ MODULE HotspotWatchdogProofs ------------------------
(***************************************************************************)
(* Theorems about HotspotWatchdog: its types, and that the reboot budget   *)
(* survives crashes and failed saves for every configuration.              *)
(***************************************************************************)
EXTENDS HotspotWatchdog, TLAPS

-----------------------------------------------------------------------------
(* The policy as a function.                                               *)

\* A poll of a usable WAN leaves the policy well, and gives the budget back
\* only when the time of a recovery is over.
LEMMA UsableStep ==
  ASSUME NEW p \in Policy
  PROVE  LET q == AfterUsable(p) IN
         /\ q \in Policy /\ q.phase = "well"
         /\ q.left = IF p.phase = "well" THEN p.left ELSE HealthyReset
         /\ \/ q.reboots = p.reboots /\ q.holdoff = p.holdoff /\ q.grace = p.grace
            \/ q.left = 0
<1>1. HealthyReset \in 0 .. Dwell + Grace + HealthyReset /\ 0 \in 0 .. MaxReboots
      /\ 0 \in 0 .. Grace /\ 0 \in 0 .. Holdoff
  BY ConfigAssumption
<1> DEFINE q == InPhase(p, "well", HealthyReset)
<1>2. /\ q \in Policy /\ q.phase = "well"
      /\ q.left = IF p.phase = "well" THEN p.left ELSE HealthyReset
      /\ q.reboots = p.reboots /\ q.holdoff = p.holdoff /\ q.grace = p.grace
  BY <1>1 DEF InPhase, Policy
<1>3. AfterUsable(p) = IF q.fired /\ q.left = 0
        THEN [q EXCEPT !.fired = FALSE, !.reboots = 0, !.grace = 0, !.holdoff = 0]
        ELSE q
  BY DEF AfterUsable
<1> HIDE DEF q
<1>4. QED
  BY <1>1, <1>2, <1>3 DEF Policy

\* A poll of an unusable WAN leaves the policy bad; it spends one reboot that
\* the budget still has, or gives up and holds off, or does neither.
LEMMA UnusableStep ==
  ASSUME NEW p \in Policy, NEW s \in Sample
  PROVE  LET q   == AfterUnusable(p, s)
             act == Proposes(InPhase(p, "bad", Dwell), s) IN
         /\ q \in Policy /\ q.phase = "bad"
         /\ act  => /\ p.holdoff = 0 /\ q.holdoff = 0 /\ q.reboots = p.reboots + 1
                    /\ p.grace = 0 /\ q.grace = Grace
         /\ ~act => q.grace = p.grace
         /\ ~act => \/ q.reboots = p.reboots /\ q.holdoff = p.holdoff
                    \/ q.holdoff = Holdoff
<1>1. /\ Dwell \in 0 .. Dwell + Grace + HealthyReset
      /\ Grace + Dwell \in 0 .. Dwell + Grace + HealthyReset
      /\ 0 \in 0 .. MaxReboots /\ Holdoff \in 0 .. Holdoff /\ Grace \in 0 .. Grace
  BY ConfigAssumption
<1> DEFINE q == InPhase(p, "bad", Dwell)
           r == [q EXCEPT !.fired = TRUE]
<1>2. /\ q \in Policy /\ q.phase = "bad"
      /\ q.reboots = p.reboots /\ q.holdoff = p.holdoff /\ q.grace = p.grace
  BY <1>1 DEF InPhase, Policy
<1>3. /\ r \in Policy /\ r.phase = "bad"
      /\ r.reboots = p.reboots /\ r.holdoff = p.holdoff /\ r.grace = p.grace
  BY <1>2 DEF Policy
<1>4. AfterUnusable(p, s) =
        IF ~Acts(q) THEN q
        ELSE IF ~Rebootable(s) THEN r
        ELSE IF Proposes(q, s) THEN Spend(r) ELSE GiveUp(r)
  BY DEF AfterUnusable
<1>5. Proposes(q, s) => Acts(q) /\ Rebootable(s) /\ q.reboots < MaxReboots
                         /\ q.holdoff = 0 /\ q.grace = 0
  BY DEF Proposes, Acts
<1> HIDE DEF q, r
<1>6. GiveUp(r) \in Policy /\ GiveUp(r).phase = "bad" /\ GiveUp(r).holdoff = Holdoff
      /\ GiveUp(r).grace = p.grace
  BY <1>1, <1>3 DEF GiveUp, Policy
<1>7. ASSUME Proposes(q, s)
      PROVE  /\ Spend(r) \in Policy /\ Spend(r).phase = "bad"
             /\ Spend(r).reboots = p.reboots + 1 /\ Spend(r).holdoff = p.holdoff
             /\ Spend(r).grace = Grace
  <2>1. r.reboots + 1 \in 0 .. MaxReboots
    BY <1>2, <1>3, <1>5, <1>7, ConfigAssumption DEF Policy
  <2>2. QED
    BY <1>1, <1>3, <2>1 DEF Spend, Policy
<1>8. QED
  BY <1>2, <1>3, <1>4, <1>5, <1>6, <1>7 DEF q

\* Time passes for a policy.
LEMMA AgedStep ==
  ASSUME NEW p \in Policy
  PROVE  /\ Aged(p) \in Policy /\ Aged(p).phase = p.phase /\ Aged(p).reboots = p.reboots
         /\ Aged(p).left >= p.left - 1 /\ Aged(p).holdoff >= p.holdoff - 1
         /\ Aged(p).grace >= p.grace - 1
<1>1. \A m \in Nat : \A n \in 0 .. m : Less(n) \in 0 .. m /\ Less(n) >= n - 1
  BY DEF Less
<1>2. /\ p.left \in 0 .. Dwell + Grace + HealthyReset
      /\ p.grace \in 0 .. Grace /\ p.holdoff \in 0 .. Holdoff
      /\ {Dwell + Grace + HealthyReset, Grace, Holdoff} \subseteq Nat
  BY ConfigAssumption DEF Policy
<1> DEFINE q == Aged(p)
<1>3. /\ q.phase = p.phase /\ q.reboots = p.reboots
      /\ q.left = Less(p.left) /\ q.grace = Less(p.grace) /\ q.holdoff = Less(p.holdoff)
  BY DEF Aged, Policy
<1> HIDE DEF q
<1>4. /\ q.left \in 0 .. Dwell + Grace + HealthyReset /\ q.left >= p.left - 1
      /\ q.grace \in 0 .. Grace /\ q.grace >= p.grace - 1
      /\ q.holdoff \in 0 .. Holdoff /\ q.holdoff >= p.holdoff - 1
  BY <1>1, <1>2, <1>3
<1>5. q \in Policy
  BY <1>3, <1>4 DEF q, Aged, Policy
<1>6. QED
  BY <1>3, <1>4, <1>5 DEF q

-----------------------------------------------------------------------------
(* Types.                                                                  *)

\* Every step keeps the types.
LEMMA TypeStep == TypeOK /\ [Next]_vars => TypeOK'
<1> SUFFICES ASSUME TypeOK, [Next]_vars PROVE TypeOK'
  OBVIOUS
<1> USE DEF TypeOK
<1>1. CASE Poll
  <2>1. sample' \in Sample
    BY <1>1 DEF Poll
  <2>2. policy' \in Policy
    BY <1>1, <2>1, UsableStep, UnusableStep DEF Poll
  <2>3. posted' \in Nat /\ pc' = "save" /\ UNCHANGED <<disk, startLeft, sincePost, sinceBad>>
    BY <1>1 DEF Poll
  <2>4. proposed' \in BOOLEAN
    BY <1>1 DEF Poll, Proposes, Acts, Rebootable, Usable, Eligible
  <2>5. QED
    BY <2>1, <2>2, <2>3, <2>4
<1>2. CASE Save
  BY <1>2, ConfigAssumption DEF Save, OnDisk
<1>3. CASE SaveFails
  BY <1>3 DEF SaveFails, history
<1>4. CASE Post
  BY <1>4, ConfigAssumption DEF Post, AnyHoldoff
<1>5. CASE NoPost
  BY <1>5 DEF NoPost, history
<1>6. CASE Crash
  BY <1>6 DEF Crash, history
<1>7. CASE Restart
  <2>1. StartupGrace \in 0 .. StartupGrace
    BY ConfigAssumption
  <2>2. QED
    BY <1>7, <2>1 DEF Restart, history
<1>8. CASE Elapse
  <2>1. policy' \in Policy /\ disk' \in Policy
    BY <1>8, AgedStep DEF Elapse
  <2>2. startLeft' \in 0 .. StartupGrace
    BY <1>8, ConfigAssumption DEF Elapse, Less
  <2>3. sincePost' \in 0 .. AnyHoldoff /\ sinceBad' \in 0 .. HealthyReset
    BY <1>8, ConfigAssumption DEF Elapse, More, AnyHoldoff
  <2>4. pc' \in {"due", "down"} /\ UNCHANGED <<proposed, sample, posted>>
    BY <1>8 DEF Elapse
  <2>5. QED
    BY <2>1, <2>2, <2>3, <2>4
<1>9. CASE UNCHANGED vars
  BY <1>9 DEF vars, daemon, history
<1>10. QED
  BY <1>1, <1>2, <1>3, <1>4, <1>5, <1>6, <1>7, <1>8, <1>9 DEF Next

\* So it begins.
LEMMA TypeInit == Init => TypeOK
<1> SUFFICES ASSUME Init PROVE TypeOK
  OBVIOUS
<1>1. /\ 0 \in 0 .. Dwell + Grace + HealthyReset /\ 0 \in 0 .. MaxReboots
      /\ 0 \in 0 .. Grace /\ 0 \in 0 .. Holdoff /\ 0 \in 0 .. HealthyReset
      /\ StartupGrace \in 0 .. StartupGrace /\ AnyHoldoff \in 0 .. AnyHoldoff
  BY ConfigAssumption DEF AnyHoldoff
<1>2. Fresh \in Policy
  BY <1>1 DEF Fresh, Policy
<1>3. sample \in Sample
  BY DEF Init, Sample, Answer
<1>4. QED
  BY <1>1, <1>2, <1>3 DEF Init, TypeOK

\* Every variable keeps its type, for every configuration load_config accepts.
THEOREM TypeCorrect == Spec => []TypeOK
  BY TypeInit, TypeStep, PTL DEF Spec

-----------------------------------------------------------------------------
(* The budget.                                                             *)

\* A policy that counts fewer reboots than were posted is holding off, for as
\* long as the last of them is not a holdoff's time ago.
Credit(p) == posted <= p.reboots \/ sincePost + p.holdoff >= Holdoff

\* A recovery does not count more time than has passed without a bad poll.
Recovering(p) == p.phase = "well" => sinceBad + p.left >= HealthyReset

\* An attempt that is still to be posted is paid for.
Paid ==
  proposed /\ pc \in {"save", "execute"} =>
    /\ policy.reboots >= 1
    /\ posted < policy.reboots \/ sincePost >= Holdoff

\* It is paid for on disk when it is posted.
Saved == pc = "execute" => disk = policy

BudgetInv ==
  /\ TypeOK /\ BudgetKept /\ Paid /\ Saved
  /\ Credit(policy) /\ Recovering(policy)
  /\ Credit(disk) /\ Recovering(disk)

\* Every step of a poll, and a crash between any two, keeps the budget's account.
LEMMA BudgetStep == BudgetInv /\ [Next]_vars => BudgetInv'
<1> SUFFICES ASSUME BudgetInv, [Next]_vars PROVE BudgetInv'
  OBVIOUS
<1>0. TypeOK /\ TypeOK'
  BY TypeStep DEF BudgetInv
<1> USE ConfigAssumption DEF BudgetInv, BudgetKept, Paid, Saved, Credit, Recovering
<1>1. CASE Poll
  <2> USE DEF TypeOK, Policy
  <2>1. /\ pc' = "save" /\ sample' \in Sample
        /\ UNCHANGED <<disk, sincePost, sinceBad>>
        /\ posted' = IF Usable(sample') /\ sinceBad = HealthyReset THEN 0 ELSE posted
    BY <1>1 DEF Poll
  <2>2. posted' <= posted /\ posted' >= 0
    BY <1>0, <2>1
  <2>3. Credit(disk)' /\ Recovering(disk)' /\ BudgetKept' /\ Saved'
    BY <1>0, <2>1, <2>2
  <2>4. CASE Usable(sample')
    <3>1. policy' = AfterUsable(policy) /\ proposed' = FALSE
      BY <1>1, <2>4 DEF Poll
    <3>2. /\ policy'.phase = "well"
          /\ policy'.left = IF policy.phase = "well" THEN policy.left ELSE HealthyReset
          /\ \/ policy'.reboots = policy.reboots /\ policy'.holdoff = policy.holdoff
             \/ policy'.left = 0
      BY <1>0, <3>1, UsableStep
    <3>3. Recovering(policy)'
      BY <1>0, <2>1, <3>2
    <3>4. CASE policy'.left = 0
      <4>1. sinceBad = HealthyReset
        BY <1>0, <2>1, <3>2, <3>3, <3>4
      <4>2. QED
        BY <1>0, <2>1, <2>3, <2>4, <3>1, <3>3, <4>1
    <3>5. CASE policy'.left # 0
      BY <1>0, <2>1, <2>2, <2>3, <3>1, <3>2, <3>3, <3>5
    <3>6. QED
      BY <3>4, <3>5
  <2>5. CASE ~Usable(sample')
    <3> DEFINE act == Proposes(InPhase(policy, "bad", Dwell), sample')
    <3>1. policy' = AfterUnusable(policy, sample') /\ proposed' = act /\ posted' = posted
      BY <1>1, <2>1, <2>5 DEF Poll
    <3>2. /\ policy'.phase = "bad"
          /\ act  => policy.holdoff = 0 /\ policy'.holdoff = 0
                     /\ policy'.reboots = policy.reboots + 1
          /\ ~act => \/ policy'.reboots = policy.reboots /\ policy'.holdoff = policy.holdoff
                     \/ policy'.holdoff = Holdoff
      BY <1>0, <2>1, <3>1, UnusableStep
    <3> HIDE DEF act
    <3>3. CASE act
      BY <1>0, <2>1, <2>3, <3>1, <3>2, <3>3
    <3>4. CASE ~act
      BY <1>0, <2>1, <2>3, <3>1, <3>2, <3>4
    <3>5. QED
      BY <3>3, <3>4
  <2>6. QED
    BY <2>4, <2>5
<1>2. CASE Save
  BY <1>0, <1>2 DEF Save, OnDisk, TypeOK, Policy
<1>3. CASE SaveFails
  BY <1>0, <1>3 DEF SaveFails, history
<1>4. CASE Post
  BY <1>0, <1>4 DEF Post, TypeOK, Policy, AnyHoldoff
<1>5. CASE NoPost
  BY <1>0, <1>5 DEF NoPost, history
<1>6. CASE Crash
  BY <1>0, <1>6 DEF Crash, history
<1>7. CASE Restart
  BY <1>0, <1>7 DEF Restart, history
<1>8. CASE Elapse
  <2>1. /\ policy' = Aged(policy) /\ disk' = Aged(disk)
        /\ pc' \in {"due", "down"} /\ UNCHANGED posted
        /\ sincePost' >= Holdoff \/ sincePost' = sincePost + 1
        /\ sinceBad' = HealthyReset \/ sinceBad' = sinceBad + 1
    BY <1>0, <1>8 DEF Elapse, More, TypeOK, AnyHoldoff
  <2>2. ASSUME NEW p \in Policy, NEW q \in Policy, q = Aged(p), Credit(p), Recovering(p)
        PROVE  /\ posted' <= q.reboots \/ sincePost' + q.holdoff >= Holdoff
               /\ q.phase = "well" => sinceBad' + q.left >= HealthyReset
    BY <1>0, <2>1, <2>2, AgedStep DEF TypeOK, Policy
  <2>3. Credit(policy)' /\ Recovering(policy)' /\ Credit(disk)' /\ Recovering(disk)'
    BY <1>0, <2>1, <2>2 DEF TypeOK
  <2>4. QED
    BY <1>0, <2>1, <2>3
<1>9. CASE UNCHANGED vars
  BY <1>0, <1>9 DEF vars, daemon, history
<1>10. QED
  BY <1>1, <1>2, <1>3, <1>4, <1>5, <1>6, <1>7, <1>8, <1>9 DEF Next

\* So it begins.
LEMMA BudgetInit == Init => BudgetInv
  BY TypeInit, ConfigAssumption
  DEF Init, Fresh, AnyHoldoff, BudgetInv, BudgetKept, Paid, Saved, Credit, Recovering

\* No crash and no failed save lets the daemon post more reboots than its
\* budget, for every configuration load_config accepts.
THEOREM BudgetIsKept == Spec => []BudgetKept
<1>1. BudgetInv => BudgetKept
  BY DEF BudgetInv
<1>2. QED
  BY <1>1, BudgetInit, BudgetStep, PTL DEF Spec

-----------------------------------------------------------------------------
(* The grace.                                                              *)

\* As configured, a recovery takes no less time than a grace.
LongRecovery == HealthyReset >= Grace

\* A policy knows of the grace that a reboot still has.
Rested(p) == sincePost + p.grace >= Grace

\* The poll that led to a reboot is on disk when the reboot goes out, so what
\* has been a recovery for long cannot have had a reboot in it.
Behind == sinceBad <= sincePost \/ sincePost >= Grace

\* An attempt that is still to be posted has armed its grace.
Armed ==
  proposed /\ pc \in {"save", "execute"} =>
    /\ policy.phase = "bad" /\ policy.grace = Grace /\ sincePost >= Grace
    /\ pc = "execute" => sinceBad = 0

GraceInv == Rested(policy) /\ Rested(disk) /\ Behind /\ Armed

\* Every step keeps the grace, of the policy in memory and on disk.
LEMMA GraceStep ==
  ASSUME LongRecovery, BudgetInv, BudgetInv', GraceInv, [Next]_vars
  PROVE  GraceInv'
<1>0. /\ TypeOK /\ TypeOK' /\ Saved /\ Recovering(policy)'
      /\ {Grace, Holdoff, HealthyReset} \subseteq Nat \ {0}
  BY ConfigAssumption DEF BudgetInv
<1> USE DEF GraceInv, Rested, Behind, Armed, LongRecovery, Saved
<1>1. CASE Poll
  <2> USE DEF TypeOK, Policy
  <2>1. /\ pc' = "save" /\ sample' \in Sample
        /\ UNCHANGED <<disk, sincePost, sinceBad>>
    BY <1>1 DEF Poll
  <2>2. CASE Usable(sample')
    <3>1. policy' = AfterUsable(policy) /\ proposed' = FALSE
      BY <1>1, <2>2 DEF Poll
    <3>2. policy'.phase = "well" /\ (policy'.grace = policy.grace \/ policy'.left = 0)
      BY <1>0, <3>1, UsableStep
    <3>3. CASE policy'.left = 0
      <4>1. sinceBad >= HealthyReset
        BY <1>0, <2>1, <3>2, <3>3 DEF Recovering
      <4>2. QED
        BY <1>0, <2>1, <3>1, <4>1
    <3>4. QED
      BY <1>0, <2>1, <3>1, <3>2, <3>3
  <2>3. CASE ~Usable(sample')
    <3> DEFINE act == Proposes(InPhase(policy, "bad", Dwell), sample')
    <3>1. policy' = AfterUnusable(policy, sample') /\ proposed' = act
      BY <1>1, <2>3 DEF Poll
    <3>2. /\ policy'.phase = "bad"
          /\ act  => policy.grace = 0 /\ policy'.grace = Grace
          /\ ~act => policy'.grace = policy.grace
      BY <1>0, <2>1, <3>1, UnusableStep
    <3> HIDE DEF act
    <3>3. QED
      BY <1>0, <2>1, <3>1, <3>2
  <2>4. QED
    BY <2>2, <2>3
<1>2. CASE Save
  BY <1>0, <1>2 DEF Save, OnDisk, TypeOK, Policy
<1>3. CASE SaveFails
  BY <1>0, <1>3 DEF SaveFails, history
<1>4. CASE Post
  BY <1>0, <1>4 DEF Post, TypeOK, Policy
<1>5. CASE NoPost
  BY <1>0, <1>5 DEF NoPost, history
<1>6. CASE Crash
  BY <1>0, <1>6 DEF Crash, history
<1>7. CASE Restart
  BY <1>0, <1>7 DEF Restart, history
<1>8. CASE Elapse
  <2>1. /\ policy' = Aged(policy) /\ disk' = Aged(disk) /\ pc' \in {"due", "down"}
        /\ sincePost' >= Grace \/ sincePost' = sincePost + 1
        /\ sinceBad' <= sinceBad + 1 /\ sincePost' >= sincePost
    BY <1>0, <1>8 DEF Elapse, More, TypeOK, AnyHoldoff
  <2>2. policy'.grace >= policy.grace - 1 /\ disk'.grace >= disk.grace - 1
    BY <1>0, <2>1, AgedStep DEF TypeOK
  <2>3. QED
    BY <1>0, <2>1, <2>2 DEF TypeOK, Policy
<1>9. CASE UNCHANGED vars
  BY <1>0, <1>9 DEF vars, daemon, history
<1>10. QED
  BY <1>1, <1>2, <1>3, <1>4, <1>5, <1>6, <1>7, <1>8, <1>9 DEF Next

\* Every reboot is given its grace before the next one, restarts of the daemon
\* included, wherever a recovery takes no less time than a grace.
THEOREM GraceIsKept ==
  ASSUME LongRecovery PROVE Spec => GraceKept
<1>1. Init => GraceInv
  BY ConfigAssumption DEF Init, Fresh, AnyHoldoff, GraceInv, Rested, Behind, Armed
<1>2. BudgetInv /\ BudgetInv' /\ GraceInv /\ [Next]_vars => GraceInv'
  BY GraceStep
<1>3. GraceInv => [Post => sincePost >= Grace]_vars
  BY DEF GraceInv, Armed, Post
<1>4. QED
  BY <1>1, <1>2, <1>3, BudgetInit, BudgetStep, PTL DEF Spec, GraceKept
=============================================================================
