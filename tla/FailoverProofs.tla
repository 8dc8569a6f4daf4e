--------------------------- MODULE FailoverProofs ---------------------------
(***************************************************************************)
(* Theorems about the controller loop, for every set of WANs, every hold   *)
(* and dwell, and every bound on events and choice of faults.              *)
(***************************************************************************)
EXTENDS Failover, FiniteSetTheorems, TLAPS

-----------------------------------------------------------------------------
(* The inductive invariant.                                                *)

\* master_up_since never claims more than was seen: the master was UP for as
\* long as it says, or since the master last changed.
HoldClock ==
  upAge # NoTime =>
    \/ upFor[plan.master] > upAge
    \/ upFor[plan.master] > resolvedFor

\* A plan that leaves an UP link unused is a hold that is not over, and one
\* that has lasted longer than traffic has been on dead links.
PlanHeld ==
  pc # "sense" /\ Ups(eff) # {} /\ plan.active \cap Ups(eff) = {}
    => upAge # NoTime /\ upAge < Hold /\ (deadFor > 0 => upAge >= deadFor)

\* Past the switch, a tick without a refusal carries traffic where it planned.
PlanTaken == pc \in {"exclude", "route"} /\ clean => active = plan.active

DeadClock ==
  /\ pc = "sense" /\ deadFor > 0 => upAge # NoTime /\ upAge >= deadFor - 1
  /\ deadFor <= Hold

LoopInv == HoldClock /\ PlanHeld /\ PlanTaken /\ DeadClock
-----------------------------------------------------------------------------
(* The choices of decide.                                                  *)

\* Every set of naturals has a least element: of the intervals 0 .. n for n
\* in the set, one contains no other.
LEMMA LeastNatural ==
  ASSUME NEW S \in SUBSET Nat, S # {}
  PROVE  \E n \in S : \A m \in S : n <= m
<1> DEFINE T == {0 .. n : n \in S}
           R == StrictSubsetOrdering(Nat)
<1>1. T \subseteq FiniteSubsetsOf(Nat)
  <2> SUFFICES ASSUME NEW n \in S
               PROVE  0 .. n \in FiniteSubsetsOf(Nat)
    OBVIOUS
  <2>1. IsFiniteSet(0 .. n)
    BY FS_Interval, n \in Int, 0 \in Int
  <2> QED
    BY <2>1 DEF FiniteSubsetsOf
<1>2. T # {}
  OBVIOUS
<1>3. PICK t \in T : \A u \in T : <<u, t>> \notin R
  BY <1>1, <1>2, FS_StrictSubsetOrderingWellFounded, WFMin
<1>4. PICK n \in S : t = 0 .. n
  OBVIOUS
<1>5. ASSUME NEW m \in S
      PROVE  n <= m
  <2> SUFFICES ASSUME m < n
               PROVE  FALSE
    BY n \in Nat, m \in Nat
  <2>1. 0 .. m \subseteq 0 .. n /\ n \in 0 .. n /\ n \notin 0 .. m
    BY n \in Nat, m \in Nat
  <2>2. <<0 .. m, 0 .. n>> \in R
    BY <2>1, <1>1 DEF StrictSubsetOrdering, FiniteSubsetsOf
  <2> QED
    BY <2>2, <1>3, <1>4
<1> QED
  BY <1>5

\* The least value a function to the naturals takes on a nonempty set.
LEMMA LeastValue ==
  ASSUME NEW S, S # {}, NEW f \in [S -> Nat]
  PROVE  \E x \in S : \A y \in S : f[x] <= f[y]
<1> DEFINE V == {f[x] : x \in S}
<1>1. V \in SUBSET Nat /\ V # {}
  OBVIOUS
<1>2. PICK n \in V : \A m \in V : n <= m
  BY <1>1, LeastNatural
<1> QED
  BY <1>2

\* Of any WANs one is listed first.
LEMMA FirstIsOne ==
  ASSUME NEW S \in SUBSET Wans, S # {}
  PROVE  First(S) \in S
<1>1. [w \in S |-> Rank[w]] \in [S -> Nat]
  BY WanAssumption
<1>2. \E w \in S : \A v \in S : Rank[w] <= Rank[v]
  BY <1>1, LeastValue
<1> QED
  BY <1>2 DEF First

\* The backup is another WAN than the master.
LEMMA BackupIsAnother ==
  ASSUME NEW m \in Wans
  PROVE  Backup(m) \in Wans /\ Backup(m) # m
<1>1. Wans \ {m} # {}
  BY WanAssumption
<1> QED
  BY <1>1, FirstIsOne DEF Backup

\* Of any WANs one is preferred to all.
LEMMA BestIsOne ==
  ASSUME NEW q \in [rtt: [Wans -> Nat \cup {NoRtt}], loss: [Wans -> Nat]],
         NEW S \in SUBSET Wans, S # {}
  PROVE  BestOf(S, q) \in S
<1> DEFINE A == {w \in S : \A v \in S : q.loss[w] <= q.loss[v]}
           B == {w \in A : \A v \in A : Faster(q.rtt[w], q.rtt[v], 0)}
<1>1. A # {}
  <2>1. [w \in S |-> q.loss[w]] \in [S -> Nat]
    OBVIOUS
  <2>2. \E w \in S : \A v \in S : q.loss[w] <= q.loss[v]
    <3> DEFINE f == [w \in S |-> q.loss[w]]
    <3>1. \E w \in S : \A v \in S : f[w] <= f[v]
      <4> HIDE DEF f
      <4> QED
        BY <2>1, LeastValue DEF f
    <3> QED
      BY <3>1
  <2> QED
    BY <2>2
<1>2. B # {}
  <2> DEFINE T == {w \in A : q.rtt[w] # NoRtt}
  <2> HIDE DEF A
  <2>1. A \subseteq S
    BY DEF A
  <2>2. CASE T = {}
    <3>1. \A v, w \in A : Faster(q.rtt[v], q.rtt[w], 0)
      BY <2>2 DEF Faster
    <3> QED
      BY <3>1, <1>1
  <2>3. CASE T # {}
    <3>1. [w \in T |-> q.rtt[w]] \in [T -> Nat]
      BY <2>1
    <3>2. \E w \in T : \A v \in T : q.rtt[w] <= q.rtt[v]
      BY <3>1, <2>3, LeastValue
    <3>3. PICK w \in T : \A v \in T : q.rtt[w] <= q.rtt[v]
      BY <3>2
    <3>4. \A v \in A : Faster(q.rtt[w], q.rtt[v], 0)
      BY <3>3, <2>1 DEF Faster
    <3> QED
      BY <3>4
  <2> QED
    BY <2>2, <2>3
<1>3. \E b \in B : \A w \in B : b = DefaultMaster \/ (w # DefaultMaster /\ Rank[b] <= Rank[w])
  <2>1. CASE DefaultMaster \in B
    BY <2>1
  <2>2. CASE DefaultMaster \notin B
    <3>1. B \subseteq Wans
      OBVIOUS
    <3> HIDE DEF B
    <3>2. [w \in B |-> Rank[w]] \in [B -> Nat]
      BY <3>1, WanAssumption
    <3>3. \E b \in B : \A w \in B : Rank[b] <= Rank[w]
      <4> DEFINE f == [w \in B |-> Rank[w]]
      <4>1. \E b \in B : \A w \in B : f[b] <= f[w]
        <5> HIDE DEF f
        <5>1. B # {} /\ f \in [B -> Nat]
          BY <3>2, <1>2 DEF f
        <5> QED
          BY <5>1, LeastValue
      <4> QED
        BY <4>1
    <3> QED
      BY <3>3, <2>2
  <2> QED
    BY <2>1, <2>2
<1>4. PICK b \in B : \A w \in B : b = DefaultMaster \/ (w # DefaultMaster /\ Rank[b] <= Rank[w])
  BY <1>3
<1>5. ASSUME NEW w \in S
      PROVE  Preferred(b, w, q)
  <2>1. q.loss[b] \in Nat /\ q.loss[w] \in Nat
    OBVIOUS
  <2>2. q.loss[b] <= q.loss[w]
    OBVIOUS
  <2>3. CASE q.loss[b] # q.loss[w]
    BY <2>1, <2>2, <2>3 DEF Preferred
  <2>4. CASE q.loss[b] = q.loss[w]
    <3>1. w \in A
      BY <2>4
    <3>2. Faster(q.rtt[b], q.rtt[w], 0)
      BY <3>1
    <3>3. CASE q.rtt[b] # q.rtt[w]
      BY <2>4, <3>2, <3>3 DEF Preferred
    <3>4. CASE q.rtt[b] = q.rtt[w]
      <4>1. \A v \in A : Faster(q.rtt[w], q.rtt[v], 0)
        <5> HIDE DEF A
        <5>1. \A v \in A : Faster(q.rtt[b], q.rtt[v], 0)
          OBVIOUS
        <5> QED
          BY <5>1, <3>4
      <4>2. w \in B
        BY <3>1, <4>1
      <4> QED
        BY <4>2, <1>4, <2>4, <3>4 DEF Preferred
    <3> QED
      BY <3>3, <3>4
  <2> QED
    BY <2>3, <2>4
<1>6. b \in S
  OBVIOUS
<1> QED
  BY <1>5, <1>6 DEF BestOf
Quality == [rtt: [Wans -> Nat \cup {NoRtt}], loss: [Wans -> Nat]]
Age     == {NoTime} \cup 0 .. Hold
Active  == (SUBSET Wans) \ {{}}
DecideInput ==
  [mode: Modes, policy: Policies, configured: Wans, eff: [Wans -> EffState],
   q: Quality, upAge: Age, active: Active, dyn: Pick]

\* The sticky master is one of the WANs.
LEMMA PickIsOne ==
  ASSUME NEW e \in [Wans -> EffState], NEW q \in Quality, NEW d \in Pick
  PROVE  DynamicPick(e, q, d) \in Pick /\ DynamicPick(e, q, d).master \in Wans
<1> DEFINE C == Challengers(d.master, Ups(e), q)
<1>1. \A w \in Wans : Takes(w) \in Pick /\ Takes(w).master = w
  BY DEF Takes, NoPick, Pick
<1>2. DefaultMaster \in Wans
  BY WanAssumption
<1>3. Ups(e) # {} => BestOf(Ups(e), q) \in Wans
  BY BestIsOne DEF Ups, Quality
<1>4. ASSUME d.master \in Wans
      PROVE  Contest(d, C) \in Pick /\ Contest(d, C).master \in Wans
  <2>1. CASE C = {}
    BY <1>1, <1>4, <2>1 DEF Contest
  <2>2. CASE C # {}
    <3>1. C \in SUBSET Wans
      BY DEF Challengers, Ups
    <3>2. First(C) \in Wans
      BY <3>1, <2>2, FirstIsOne
    <3>3. 0 \in 0 .. Dwell
      BY PolicyNumberAssumption
    <3>4. LET e2 == [d EXCEPT !.cand = First(C), !.age = 0]
          IN  e2 \in Pick /\ e2.master = d.master
      BY <3>2, <3>3 DEF Pick
    <3> HIDE DEF C
    <3> QED
      BY <2>2, <3>2, <3>4, <1>1, <1>4 DEF Contest
  <2> QED
    BY <2>1, <2>2
<1>5. d.master \in Ups(e) => d.master \in Wans
  BY DEF Ups
<1> HIDE DEF C
<1> QED
  BY <1>1, <1>2, <1>3, <1>4, <1>5 DEF DynamicPick, C

\* decide chooses all WANs or one.
Choices == {Wans} \cup {{w} : w \in Wans}

\* What decide returns, whatever it is given.
LEMMA DecideReturns ==
  ASSUME NEW in \in DecideInput
  PROVE  LET out == Decide(in)
         IN  /\ out.active \in Active /\ out.active \in Choices /\ out.upAge \in Age
             /\ out.dyn \in Pick /\ out.master \in Wans
<1> DEFINE pick   == IF in.policy = "dynamic" THEN DynamicPick(in.eff, in.q, in.dyn)
                     ELSE NoPick
           master == Master(in.policy, in.configured, pick)
           age    == UpAge(master, in.eff, in.upAge)
<1>1. /\ in.policy \in Policies /\ in.configured \in Wans /\ in.q \in Quality
      /\ in.eff \in [Wans -> EffState] /\ in.dyn \in Pick /\ in.upAge \in Age
  BY DEF DecideInput
<1>2. pick \in Pick /\ (in.policy = "dynamic" => pick.master \in Wans)
  <2>1. NoPick \in Pick
    BY DEF NoPick, Pick
  <2> QED
    BY <1>1, <2>1, PickIsOne
<1>3. master \in Wans
  BY <1>1, <1>2, WanAssumption DEF Master, Policies
<1>4. age \in Age
  <2>1. 0 \in Age /\ NoTime \in Age
    BY PolicyNumberAssumption DEF Age
  <2> QED
    BY <1>1, <2>1 DEF UpAge
<1>5. Target(master, in.eff, in.policy, in.active, age) \in Active \cap Choices
  <2>1. Backup(master) \in Wans /\ Wans # {}
    BY <1>3, BackupIsAnother
  <2>2. {Backup(master), master} \subseteq Wans
    BY <2>1, <1>3
  <2>3. {{Backup(master)}, {master}, Wans} \subseteq Active \cap Choices
    BY <2>1, <2>2 DEF Active, Choices
  <2> QED
    BY <2>3 DEF Target
<1>6. Wans \in Active /\ Wans \in Choices /\ NoTime \in Age /\ NoPick \in Pick
  BY WanAssumption DEF Active, Choices, Age, NoPick, Pick
<1> HIDE DEF pick, master, age
<1>7. Decide(in) = IF in.mode = "full"
                   THEN [active |-> Wans, upAge |-> NoTime, dyn |-> NoPick,
                         master |-> in.configured]
                   ELSE [active |-> Target(master, in.eff, in.policy, in.active, age),
                         upAge |-> age, dyn |-> pick, master |-> master]
  BY DEF Decide, pick, master, age
<1> QED
  BY <1>1, <1>2, <1>3, <1>4, <1>5, <1>6, <1>7

\* How the hold bears on the decision: the clock runs on while the master is
\* UP, a fail-back shows it over, and an UP link left unused shows it pending.
LEMMA DecideHolds ==
  ASSUME NEW in \in DecideInput
  PROVE  LET out == Decide(in)
         IN  /\ out.upAge # NoTime =>
                  /\ in.mode # "full" /\ in.eff[out.master] = "UP"
                  /\ out.upAge = IF in.upAge = NoTime THEN 0 ELSE in.upAge
             /\ /\ in.mode # "full" /\ in.policy # "dynamic"
                /\ in.active = {Backup(out.master)} /\ out.active = {out.master}
                => out.upAge = Hold
             /\ Ups(in.eff) # {} /\ out.active \cap Ups(in.eff) = {}
                => out.upAge # NoTime /\ out.upAge < Hold
<1> DEFINE pick   == IF in.policy = "dynamic" THEN DynamicPick(in.eff, in.q, in.dyn)
                     ELSE NoPick
           master == Master(in.policy, in.configured, pick)
           age    == UpAge(master, in.eff, in.upAge)
           out    == Decide(in)
<1>1. out.master \in Wans /\ out.upAge \in Age
  BY DecideReturns
<1>2. CASE in.mode = "full"
  <2>1. out.upAge = NoTime /\ out.active = Wans
    BY <1>2 DEF Decide
  <2>2. Wans \cap Ups(in.eff) = Ups(in.eff)
    BY DEF Ups
  <2> QED
    BY <2>1, <2>2, <1>2
<1>3. CASE in.mode # "full"
  <2>1. /\ out.master = master /\ out.upAge = age
        /\ out.active = Target(master, in.eff, in.policy, in.active, age)
    BY <1>3 DEF Decide
  <2> HIDE DEF out, master, age
  <2>2. master \in Wans /\ age \in Age
    BY <1>1, <2>1
  <2>3. Backup(master) \in Wans /\ Backup(master) # master
    BY <2>2, BackupIsAnother
  <2>4. in.eff[master] # "UP" => age = NoTime
    BY DEF UpAge, age
  <2>5. in.eff[master] = "UP" => age = IF in.upAge = NoTime THEN 0 ELSE in.upAge
    BY DEF UpAge, age
  <2>6. age # NoTime => age \in 0 .. Hold
    BY <2>2 DEF Age
  <2>7. in.eff[master] = "UP" => age # NoTime
    BY <2>5, PolicyNumberAssumption DEF NoTime
  <2>8. Wans \cap Ups(in.eff) = Ups(in.eff)
    BY DEF Ups
  <2>9. \A w \in Wans : in.eff[w] = "UP" => w \in Ups(in.eff)
    BY DEF Ups
  <2>10. CASE in.eff[master] # "UP"
    <3>1. out.active = IF in.eff[Backup(master)] = "UP" THEN {Backup(master)} ELSE Wans
      BY <2>1, <2>10 DEF Target
    <3>2. out.active # {master}
      BY <3>1, <2>3, <2>2
    <3>3. Ups(in.eff) # {} => out.active \cap Ups(in.eff) # {}
      BY <3>1, <2>3, <2>8, <2>9
    <3> QED
      BY <2>1, <2>4, <2>10, <3>2, <3>3 DEF out
  <2>11. CASE in.eff[master] = "UP"
    <3>1. CASE in.active = {Backup(master)} /\ in.policy # "dynamic" /\ age < Hold
      <4>1. out.active = {Backup(master)}
        BY <2>1, <2>11, <3>1 DEF Target
      <4>2. out.active # {master}
        BY <4>1, <2>3
      <4> QED
        BY <2>1, <2>5, <2>7, <2>11, <3>1, <4>1, <4>2, <1>3 DEF out
    <3>2. CASE ~(in.active = {Backup(master)} /\ in.policy # "dynamic" /\ age < Hold)
      <4>1. out.active = {master}
        BY <2>1, <2>11, <3>2 DEF Target
      <4>2. out.active \cap Ups(in.eff) # {}
        BY <4>1, <2>2, <2>9, <2>11
      <4>3. in.active = {Backup(master)} /\ in.policy # "dynamic" => age = Hold
        BY <3>2, <2>6, <2>7, <2>11, PolicyNumberAssumption
      <4> QED
        BY <2>1, <2>5, <2>7, <2>11, <4>1, <4>2, <4>3, <1>3 DEF out
    <3> QED
      BY <3>1, <3>2
  <2> QED
    BY <2>10, <2>11
<1> QED
  BY <1>2, <1>3
-----------------------------------------------------------------------------
(* Type correctness.                                                       *)

\* Counts of the history stay within their bound.
LEMMA MoreStays ==
  /\ Enough \in Nat /\ Enough > Hold /\ Enough > Dwell
  /\ \A n \in 0 .. Enough : More(n) \in 0 .. Enough
<1>1. Enough \in Nat /\ Enough > Hold /\ Enough > Dwell
  BY PolicyNumberAssumption DEF Enough
<1> QED
  BY <1>1 DEF More

\* So do the ages.
LEMMA LaterStays ==
  ASSUME NEW bound \in Nat, NEW age \in {NoTime} \cup 0 .. bound
  PROVE  /\ Later(age, bound) \in {NoTime} \cup 0 .. bound
         /\ age = NoTime => Later(age, bound) = NoTime
         /\ age # NoTime => Later(age, bound) = IF age = bound THEN bound ELSE age + 1
BY DEF Later, NoTime

\* The box's own traffic gets a WAN or none.
LEMMA DefaultIsWan ==
  ASSUME NEW e \in [Wans -> EffState], NEW out, out.master \in Wans
  PROVE  DefaultWan(e, out) \in Wans \cup {NoWan}
<1> DEFINE live == out.active \cap Ups(e)
<1>1. Ups(e) \in SUBSET Wans /\ live \in SUBSET Wans
  BY DEF Ups
<1>2. Cardinality(live) = 1 => live # {}
  BY FS_EmptySet
<1>3. Cardinality(live) = 1 => First(live) \in Wans
  BY <1>1, <1>2, FirstIsOne
<1>4. Ups(e) # {} => First(Ups(e)) \in Wans
  BY <1>1, FirstIsOne
<1> HIDE DEF live
<1> QED
  BY <1>1, <1>3, <1>4 DEF DefaultWan, live

\* What a tick hands to decide is what decide expects.
SenseInput(seen) ==
  [mode |-> EffectiveMode, policy |-> overlay.policy,
   configured |-> overlay.master, eff |-> seen, q |-> quality,
   upAge |-> Later(upAge, Hold), active |-> active,
   dyn |-> [dyn EXCEPT !.age = Later(@, Dwell)]]

\* What the first step asks the decision is a typed input of it.
LEMMA SenseAsks ==
  ASSUME TypeOK
  PROVE  /\ Merge(local, Fetched) \in [Wans -> EffState]
         /\ \A seen \in [Wans -> EffState] : SenseInput(seen) \in DecideInput
         /\ EffectiveMode \in Modes /\ overlay \in [mode: Modes, policy: Policies,
                                                     master: Wans, egress: EgressModes]
<1>1. overlay \in [mode: Modes, policy: Policies, master: Wans, egress: EgressModes]
  BY SettingAssumption DEF TypeOK, InputTypes, EgressModes
<1>2. EffectiveMode \in Modes
  BY <1>1 DEF EffectiveMode, Modes
<1>3. Merge(local, Fetched) \in [Wans -> EffState]
  BY DEF Merge, EffState
<1>4. Later(upAge, Hold) \in Age
  BY LaterStays, PolicyNumberAssumption DEF TypeOK, MemoryTypes, Age
<1>5. [dyn EXCEPT !.age = Later(@, Dwell)] \in Pick
  <2>1. dyn.age \in {NoTime} \cup 0 .. Dwell /\ dyn \in Pick
    BY DEF TypeOK, MemoryTypes, Pick
  <2>2. Later(dyn.age, Dwell) \in {NoTime} \cup 0 .. Dwell
    BY <2>1, LaterStays, PolicyNumberAssumption
  <2> QED
    BY <2>1, <2>2 DEF Pick
<1>6. quality \in Quality
  BY SettingAssumption DEF TypeOK, InputTypes, Quality
<1>7. active \in Active
  BY DEF TypeOK, MemoryTypes, Active
<1>8. ASSUME NEW seen \in [Wans -> EffState]
      PROVE  SenseInput(seen) \in DecideInput
  <2>1. overlay.policy \in Policies /\ overlay.master \in Wans
    BY <1>1
  <2> DEFINE d == [dyn EXCEPT !.age = Later(@, Dwell)]
  <2>2. d \in Pick
    BY <1>5
  <2> HIDE DEF d
  <2>3. SenseInput(seen) =
          [mode |-> EffectiveMode, policy |-> overlay.policy,
           configured |-> overlay.master, eff |-> seen, q |-> quality,
           upAge |-> Later(upAge, Hold), active |-> active, dyn |-> d]
    BY DEF SenseInput, d
  <2> QED
    BY <1>2, <1>4, <1>6, <1>7, <2>1, <2>2, <2>3 DEF DecideInput
<1> QED
  BY <1>1, <1>2, <1>3, <1>8
\* What a tick's first step leaves behind, with decide's answer spelled out.
LEMMA SenseDecides ==
  ASSUME TypeOK, Sense
  PROVE  LET out == Decide(SenseInput(eff'))
         IN  /\ eff' \in [Wans -> EffState] /\ SenseInput(eff') \in DecideInput
             /\ upAge' = out.upAge /\ dyn' = out.dyn
             /\ plan' = [mode |-> EffectiveMode, policy |-> overlay.policy,
                         master |-> out.master, egress |-> overlay.egress,
                         active |-> out.active, default |-> DefaultWan(eff', out)]
             /\ resolvedFor' = IF out.master = plan.master THEN More(resolvedFor) ELSE 0
<1>1. eff' = Merge(local, Fetched)
  BY DEF Sense
<1>2. eff' \in [Wans -> EffState] /\ SenseInput(eff') \in DecideInput
  BY <1>1, SenseAsks
<1> QED
  BY <1>1, <1>2 DEF Sense, SenseInput

\* The plan of a tick is well formed.
LEMMA PlanIsTyped ==
  ASSUME TypeOK, Sense
  PROVE  plan' \in Plan
<1> DEFINE out == Decide(SenseInput(eff'))
<1>1. /\ eff' \in [Wans -> EffState] /\ SenseInput(eff') \in DecideInput
      /\ plan' = [mode |-> EffectiveMode, policy |-> overlay.policy,
                  master |-> out.master, egress |-> overlay.egress,
                  active |-> out.active, default |-> DefaultWan(eff', out)]
  BY SenseDecides
<1>2. out.active \in Active /\ out.master \in Wans
  BY <1>1, DecideReturns
<1> HIDE DEF out
<1>3. DefaultWan(eff', out) \in Wans \cup {NoWan}
  BY <1>1, <1>2, DefaultIsWan
<1>4. EffectiveMode \in Modes /\ overlay.policy \in Policies /\ overlay.egress \in EgressModes
  BY SenseAsks
<1> QED
  BY <1>1, <1>2, <1>3, <1>4 DEF Plan, Active

\* A rule is only taken away where there is one.
LEMMA AppliedIsTyped ==
  ASSUME rules \in [Wans -> Nat], NEW added, NEW removed \in SUBSET Blocked(rules)
  PROVE  Applied(added, removed) \in [Wans -> Nat]
BY DEF Applied, Blocked

\* Every variable keeps its type and the active set is never empty
\* (run_controller: a plan always names a WAN, "both WANs DOWN: safety
\* fallback to full redundancy").
THEOREM TypeCorrect == Spec => []TypeOK
<1>1. Init => TypeOK
  <2> SUFFICES ASSUME Init
               PROVE  TypeOK
    OBVIOUS
  <2>1. InputTypes
    BY DEF Init, InputTypes
  <2>2. Wans # {} /\ DefaultMaster \in Wans
    BY WanAssumption
  <2>3. MemoryTypes
    BY <2>2, SettingAssumption DEF Init, MemoryTypes, NoPick, Pick
  <2>4. plan \in Plan
    BY <2>2 DEF Init, Plan, Modes, Policies, EgressModes
  <2>5. TickTypes
    BY <2>4 DEF Init, TickTypes, EffState
  <2>6. DeviceTypes
    BY DEF Init, DeviceTypes, NoRules, Egress
  <2>7. HistoryTypes
    <3>1. 0 \in 0 .. Enough /\ 0 \in 0 .. MaxEvents
      BY MoreStays, SettingAssumption
    <3> QED
      BY <3>1 DEF Init, HistoryTypes
  <2> QED
    BY <2>1, <2>3, <2>5, <2>6, <2>7 DEF TypeOK
<1>2. TypeOK /\ [Next]_vars => TypeOK'
  <2> SUFFICES ASSUME TypeOK, [Next]_vars
               PROVE  TypeOK'
    OBVIOUS
  <2> USE DEF TypeOK
  <2>1. CASE UNCHANGED vars
    BY <2>1 DEF vars, inputs, memory, devices, history, InputTypes, MemoryTypes,
                TickTypes, DeviceTypes, HistoryTypes
  <2>2. Event => events' \in 0 .. MaxEvents
    BY SettingAssumption DEF Event, HistoryTypes
  <2>3. CASE LocalReport \/ RelayReport \/ QualityShift \/ OperatorApply
             \/ HazardChange \/ HandoffChange
    <3>1. InputTypes' /\ InputEvent
      BY <2>3 DEF InputTypes, LocalReport, RelayReport, QualityShift, OperatorApply,
                  HazardChange, HandoffChange
    <3> QED
      BY <3>1, <2>2 DEF InputEvent, memory, devices, history, MemoryTypes, TickTypes,
                        DeviceTypes, HistoryTypes
  <2>4. CASE EngardeRestart
    BY <2>4, <2>2 DEF EngardeRestart, inputs, memory, history, InputTypes,
                      MemoryTypes, TickTypes, DeviceTypes, HistoryTypes
  <2>5. CASE ControllerRestart
    <3>1. MemoryTypes'
      BY <2>5, WanAssumption, SettingAssumption
         DEF ControllerRestart, MemoryTypes, NoPick, Pick
    <3>2. DeviceTypes'
      BY <2>5 DEF ControllerRestart, DeviceTypes, NoRules
    <3>3. HistoryTypes'
      <4>1. 0 \in 0 .. Enough
        BY MoreStays
      <4> QED
        BY <4>1, <2>5, <2>2 DEF ControllerRestart, HistoryTypes
    <3> QED
      BY <2>5, <3>1, <3>2, <3>3 DEF ControllerRestart, inputs, InputTypes, TickTypes
  <2>6. CASE Sense
    <3>1. /\ eff' \in [Wans -> EffState] /\ upAge' \in Age /\ dyn' \in Pick
      <4> DEFINE out == Decide(SenseInput(eff'))
      <4>1. /\ eff' \in [Wans -> EffState] /\ SenseInput(eff') \in DecideInput
            /\ upAge' = out.upAge /\ dyn' = out.dyn
        BY <2>6, SenseDecides
      <4> QED
        BY <4>1, DecideReturns
    <3>2. remote' \in RelayViews \cup {NotFetched} /\ fetchIn' \in 0 .. FetchEvery
      BY <2>6, SettingAssumption DEF Sense, Fetched, MemoryTypes, InputTypes
    <3>3. MemoryTypes'
      BY <2>6, <3>1, <3>2 DEF Sense, MemoryTypes, Age
    <3>4. TickTypes'
      BY <2>6, <3>1, PlanIsTyped DEF Sense, TickTypes
    <3>5. upFor' \in [Wans -> 0 .. Enough] /\ resolvedFor' \in 0 .. Enough
      <4>1. /\ upFor' = [w \in Wans |-> IF eff'[w] = "UP" THEN More(upFor[w]) ELSE 0]
            /\ resolvedFor' = More(resolvedFor) \/ resolvedFor' = 0
        BY <2>6 DEF Sense
      <4>2. \A n \in 0 .. Enough : More(n) \in 0 .. Enough
        BY MoreStays
      <4>3. 0 \in 0 .. Enough
        BY MoreStays
      <4> QED
        BY <4>1, <4>2, <4>3 DEF HistoryTypes
    <3>6. HistoryTypes'
      BY <2>6, <3>5 DEF Sense, HistoryTypes
    <3> QED
      BY <2>6, <3>3, <3>4, <3>6 DEF Sense, inputs, devices, InputTypes, DeviceTypes
  <2>7. ASSUME NEW listed \in {{}, Blocked(rules)}, NEW removed \in SUBSET ToRemove(listed),
               NEW added
        PROVE  Applied(added, removed) \in [Wans -> Nat]
    BY AppliedIsTyped DEF DeviceTypes, ToRemove
  <2>8. ToExclude /\ active' \in {active, plan.active} =>
          InputTypes' /\ MemoryTypes' /\ TickTypes'
    BY DEF ToExclude, inputs, InputTypes, MemoryTypes, TickTypes, Plan
  <2>9. CASE SwitchNft
    <3>1. rules' \in [Wans -> Nat] /\ sound' \in BOOLEAN
      BY <2>9, <2>7 DEF SwitchNft, DeviceTypes, HistoryTypes
    <3> QED
      BY <2>9, <2>8, <3>1 DEF SwitchNft, ToExclude, history, DeviceTypes, HistoryTypes
  <2>10. CASE SwitchNftListFails
    <3>1. rules' \in [Wans -> Nat]
      BY <2>10, <2>7 DEF SwitchNftListFails
    <3> QED
      BY <2>10, <2>2, <2>8, <3>1
         DEF SwitchNftListFails, SwitchFault, ToExclude, history, DeviceTypes, HistoryTypes
  <2>11. CASE SwitchNftRefused
    BY <2>11, <2>2, <2>8
       DEF SwitchNftRefused, SwitchFault, ToExclude, history, DeviceTypes, HistoryTypes
  <2>12. CASE SwitchNftHalfApplied
    <3>1. rules' \in [Wans -> Nat]
      BY <2>12, <2>7 DEF SwitchNftHalfApplied
    <3> QED
      BY <2>12, <2>2, <2>8, <3>1
         DEF SwitchNftHalfApplied, SwitchFault, ToExclude, history, DeviceTypes, HistoryTypes
  <2>13. CASE SyncExclusions \/ SyncExclusionsFails
    <3>1. excluded' \in SUBSET Wans
      BY <2>13 DEF SyncExclusions, SyncExclusionsFails, DeviceTypes
    <3>2. events' \in 0 .. MaxEvents /\ clean' \in BOOLEAN
      BY <2>13, <2>2 DEF SyncExclusions, SyncExclusionsFails, HistoryTypes
    <3>3. ToRoute
      BY <2>13 DEF SyncExclusions, SyncExclusionsFails
    <3> QED
      BY <3>1, <3>2, <3>3 DEF ToRoute, inputs, memory, history, InputTypes, MemoryTypes,
                              TickTypes, DeviceTypes, HistoryTypes
  <2>14. CASE Reroute \/ RerouteFails
    <3>1. route' \in Wans \cup {NoWan} /\ table' \in Egress
      BY <2>14 DEF Reroute, RerouteFails, WantedRoute, WantedTable, DeviceTypes, TickTypes, Plan, Egress
    <3>2. events' \in 0 .. MaxEvents /\ clean' \in BOOLEAN
      BY <2>14, <2>2 DEF Reroute, RerouteFails, HistoryTypes
    <3>3. EndTick
      BY <2>14 DEF Reroute, RerouteFails
    <3>4. deadFor' \in 0 .. Enough
      BY <3>3, MoreStays DEF EndTick, HistoryTypes
    <3> QED
      BY <3>1, <3>2, <3>3, <3>4 DEF EndTick, inputs, memory, InputTypes, MemoryTypes,
                                    TickTypes, DeviceTypes, HistoryTypes
  <2> QED
    BY <2>1, <2>3, <2>4, <2>5, <2>6, <2>9, <2>10, <2>11, <2>12, <2>13, <2>14
       DEF Next, Step
<1> QED
  BY <1>1, <1>2, PTL DEF Spec
-----------------------------------------------------------------------------
(* The hold.                                                               *)

\* How the histories move with the first step of a tick.
LEMMA SenseCounts ==
  ASSUME TypeOK, HoldClock, Sense
  PROVE  HoldClock'
<1> DEFINE out == Decide(SenseInput(eff'))
           m   == plan'.master
<1>1. /\ eff' \in [Wans -> EffState] /\ SenseInput(eff') \in DecideInput
      /\ upAge' = out.upAge /\ plan'.master = out.master
      /\ resolvedFor' = IF out.master = plan.master THEN More(resolvedFor) ELSE 0
  BY SenseDecides
<1>2. /\ SenseInput(eff').upAge = Later(upAge, Hold)
      /\ SenseInput(eff').eff = eff'
  BY DEF SenseInput
<1>3. out.master \in Wans /\ out.upAge \in Age
  BY <1>1, DecideReturns
<1>4. upAge' # NoTime =>
        /\ eff'[m] = "UP"
        /\ upAge' = IF Later(upAge, Hold) = NoTime THEN 0 ELSE Later(upAge, Hold)
  BY <1>1, <1>2, DecideHolds
<1> HIDE DEF out
<1> SUFFICES ASSUME upAge' # NoTime
             PROVE  upFor'[m] > upAge' \/ upFor'[m] > resolvedFor'
  BY DEF HoldClock
<1>5. m \in Wans /\ upFor'[m] = More(upFor[m]) /\ upFor[m] \in 0 .. Enough
  BY <1>1, <1>3, <1>4 DEF Sense, TypeOK, HistoryTypes
<1>6. upAge \in {NoTime} \cup 0 .. Hold /\ resolvedFor \in 0 .. Enough
  BY DEF TypeOK, MemoryTypes, HistoryTypes
<1>7. Enough \in Nat /\ Enough > Hold /\ Hold \in Nat
  BY MoreStays, PolicyNumberAssumption
<1>8. upFor'[m] = IF upFor[m] = Enough THEN Enough ELSE upFor[m] + 1
  BY <1>5 DEF More
<1>9. CASE upAge = NoTime
  <2>1. upAge' = 0
    BY <1>4, <1>6, <1>7, <1>9, LaterStays
  <2> QED
    BY <2>1, <1>5, <1>7, <1>8
<1>10. CASE upAge # NoTime
  <2>1. upAge' = IF upAge = Hold THEN Hold ELSE upAge + 1
    <3>1. Later(upAge, Hold) = IF upAge = Hold THEN Hold ELSE upAge + 1
      BY <1>6, <1>7, <1>10, LaterStays
    <3>2. Later(upAge, Hold) # NoTime
      BY <3>1, <1>6, <1>7, <1>10 DEF NoTime
    <3> QED
      BY <3>1, <3>2, <1>4
  <2>2. upAge \in 0 .. Hold
    BY <1>6, <1>10
  <2>3. CASE m = plan.master
    <3>1. resolvedFor' = IF resolvedFor = Enough THEN Enough ELSE resolvedFor + 1
      BY <1>1, <2>3 DEF More
    <3>2. upFor[m] > upAge \/ upFor[m] > resolvedFor
      BY <1>10, <2>3 DEF HoldClock
    <3> QED
      BY <3>1, <3>2, <2>1, <2>2, <1>5, <1>6, <1>7, <1>8
  <2>4. CASE m # plan.master
    <3>1. resolvedFor' = 0
      BY <1>1, <2>4
    <3> QED
      BY <3>1, <1>5, <1>7, <1>8
  <2> QED
    BY <2>3, <2>4
<1> QED
  BY <1>9, <1>10

\* The first step of a tick plans to leave an UP link unused only under a hold
\* that has outlasted the dead link so far.
LEMMA SensePlans ==
  ASSUME TypeOK, DeadClock, Sense
  PROVE  PlanHeld'
<1> DEFINE out == Decide(SenseInput(eff'))
<1>1. /\ eff' \in [Wans -> EffState] /\ SenseInput(eff') \in DecideInput
      /\ upAge' = out.upAge /\ plan'.active = out.active
  BY SenseDecides
<1>2. /\ SenseInput(eff').upAge = Later(upAge, Hold)
      /\ SenseInput(eff').eff = eff'
  BY DEF SenseInput
<1>3. upAge' # NoTime =>
        upAge' = IF Later(upAge, Hold) = NoTime THEN 0 ELSE Later(upAge, Hold)
  BY <1>1, <1>2, DecideHolds
<1>4. Ups(eff)' # {} /\ plan'.active \cap Ups(eff)' = {} => upAge' # NoTime /\ upAge' < Hold
  <2>1. Ups(eff)' = Ups(eff')
    BY DEF Ups
  <2> QED
    BY <1>1, <1>2, <2>1, DecideHolds
<1>5. pc = "sense" /\ deadFor' = deadFor /\ deadFor \in Nat
  BY DEF Sense, TypeOK, HistoryTypes
<1>6. upAge \in {NoTime} \cup 0 .. Hold /\ Hold \in Nat
  BY PolicyNumberAssumption DEF TypeOK, MemoryTypes
<1>7. ASSUME deadFor > 0, upAge' # NoTime, upAge' < Hold
      PROVE  upAge' >= deadFor
  <2>1. upAge # NoTime /\ upAge >= deadFor - 1
    BY <1>5, <1>7 DEF DeadClock
  <2>2. Later(upAge, Hold) = IF upAge = Hold THEN Hold ELSE upAge + 1
    BY <1>6, <2>1, LaterStays
  <2>3. upAge' = Later(upAge, Hold)
    BY <1>3, <1>6, <1>7, <2>1, <2>2 DEF NoTime
  <2> QED
    BY <1>5, <1>6, <1>7, <2>1, <2>2, <2>3
<1> HIDE DEF out
<1> QED
  BY <1>4, <1>5, <1>7 DEF PlanHeld

\* The invariant is inductive, given the types.
LEMMA LoopInvInductive ==
  ASSUME TypeOK, LoopInv, [Next]_vars
  PROVE  LoopInv'
<1> USE DEF LoopInv
<1>1. CASE UNCHANGED vars
  BY <1>1 DEF vars, memory, history, HoldClock, PlanHeld, PlanTaken, DeadClock
<1>2. CASE LocalReport \/ RelayReport \/ QualityShift \/ OperatorApply
           \/ HazardChange \/ HandoffChange
  <2>1. InputEvent
    BY <1>2 DEF LocalReport, RelayReport, QualityShift, OperatorApply,
                HazardChange, HandoffChange
  <2> QED
    BY <2>1 DEF InputEvent, memory, history, HoldClock, PlanHeld, PlanTaken, DeadClock
<1>3. CASE EngardeRestart
  BY <1>3 DEF EngardeRestart, memory, history, HoldClock, PlanHeld, PlanTaken, DeadClock
<1>4. CASE ControllerRestart
  BY <1>4, PolicyNumberAssumption
     DEF ControllerRestart, HoldClock, PlanHeld, PlanTaken, DeadClock
<1>5. CASE Sense
  <2>1. PlanTaken'
    BY <1>5 DEF Sense, PlanTaken
  <2>2. DeadClock'
    BY <1>5 DEF Sense, DeadClock
  <2> QED
    BY <1>5, <2>1, <2>2, SenseCounts, SensePlans
<1>6. CASE SwitchNft \/ SwitchNftListFails \/ SwitchNftRefused \/ SwitchNftHalfApplied
  <2>1. ToExclude /\ (active' = plan.active \/ clean' = FALSE)
    BY <1>6 DEF SwitchNft, SwitchNftListFails, SwitchNftRefused, SwitchNftHalfApplied,
                SwitchFault
  <2> QED
    BY <2>1 DEF ToExclude, history, HoldClock, PlanHeld, PlanTaken, DeadClock
<1>7. CASE SyncExclusions \/ SyncExclusionsFails
  <2>1. ToRoute /\ (clean' = clean \/ clean' = FALSE)
    BY <1>7 DEF SyncExclusions, SyncExclusionsFails
  <2> QED
    BY <2>1 DEF ToRoute, memory, history, HoldClock, PlanHeld, PlanTaken, DeadClock
<1>8. CASE Reroute \/ RerouteFails
  <2>1. EndTick
    BY <1>8 DEF Reroute, RerouteFails
  <2>2. HoldClock' /\ PlanHeld' /\ PlanTaken'
    BY <2>1 DEF EndTick, memory, HoldClock, PlanHeld, PlanTaken
  <2>3. upAge \in {NoTime} \cup 0 .. Hold /\ deadFor \in 0 .. Enough /\ Hold \in Nat
    BY PolicyNumberAssumption DEF TypeOK, MemoryTypes, HistoryTypes
  <2>4. upAge' = upAge /\ Enough \in Nat /\ Enough > Hold
    BY <2>1, MoreStays DEF EndTick, memory
  <2>5. CASE OnDeadLink /\ clean
    <3>1. upAge # NoTime /\ upAge < Hold /\ (deadFor > 0 => upAge >= deadFor)
      BY <2>1, <2>5 DEF EndTick, OnDeadLink, PlanHeld, PlanTaken
    <3>2. deadFor' = IF deadFor = Enough THEN Enough ELSE deadFor + 1
      BY <2>1, <2>5 DEF EndTick, More
    <3>3. deadFor' <= Hold /\ upAge >= deadFor' - 1
      BY <2>3, <2>4, <3>1, <3>2
    <3> QED
      BY <2>2, <2>4, <3>1, <3>3 DEF DeadClock
  <2>6. CASE ~(OnDeadLink /\ clean)
    <3>1. deadFor' = 0
      BY <2>1, <2>6 DEF EndTick
    <3> QED
      BY <2>2, <2>3, <3>1 DEF DeadClock
  <2> QED
    BY <2>5, <2>6
<1> QED
  BY <1>1, <1>2, <1>3, <1>4, <1>5, <1>6, <1>7, <1>8 DEF Next, Step

\* It holds throughout.
LEMMA LoopInvHolds == Spec => []LoopInv
<1>1. Init => LoopInv
  BY PolicyNumberAssumption
     DEF Init, LoopInv, HoldClock, PlanHeld, PlanTaken, DeadClock
<1>2. TypeOK /\ LoopInv /\ [Next]_vars => LoopInv'
  BY LoopInvInductive
<1> QED
  BY <1>1, <1>2, TypeCorrect, PTL DEF Spec

\* However the views, the settings, the overrides and the actuators' refusals
\* fall, traffic is on dead links next to an UP one for no longer than the
\* failback hold (decide's hysteresis).
THEOREM DeadLinksEnd == Spec => []DeadLinkBounded
<1>1. LoopInv => DeadLinkBounded
  BY DEF LoopInv, DeadClock, DeadLinkBounded
<1> QED
  BY <1>1, LoopInvHolds, PTL

\* Every fail-back under a static policy follows a full hold of the master's
\* being UP (decide: "master UP for ..s, fail-back").
THEOREM HoldIsKept == Spec => FailbackHeld
<1> DEFINE Fails == /\ Decided /\ plan'.policy # "dynamic" /\ resolvedFor' > Hold
                    /\ active = {Backup(plan'.master)} /\ plan'.active = {plan'.master}
           Held  == upFor'[plan'.master] > Hold
<1>1. TypeOK /\ LoopInv /\ [Next]_vars => [Fails => Held]_vars
  <2> SUFFICES ASSUME TypeOK, LoopInv, Next, Fails
               PROVE  Held
    BY DEF Decided, vars
  <2>1. Sense
    BY DEF Decided, Next, Step, LocalReport, RelayReport, QualityShift, OperatorApply,
           HazardChange, HandoffChange, InputEvent, EngardeRestart, ControllerRestart,
           SwitchNft, SwitchNftListFails, SwitchNftRefused, SwitchNftHalfApplied,
           SwitchFault, ToExclude, SyncExclusions, SyncExclusionsFails, ToRoute,
           Reroute, RerouteFails, EndTick
  <2>2. HoldClock'
    BY <2>1, SenseCounts DEF LoopInv
  <2> DEFINE out == Decide(SenseInput(eff'))
  <2>3. /\ SenseInput(eff') \in DecideInput /\ upAge' = out.upAge
        /\ plan' = [mode |-> EffectiveMode, policy |-> overlay.policy,
                    master |-> out.master, egress |-> overlay.egress,
                    active |-> out.active, default |-> DefaultWan(eff', out)]
    BY <2>1, SenseDecides
  <2>4. /\ SenseInput(eff').mode = EffectiveMode /\ SenseInput(eff').active = active
        /\ SenseInput(eff').policy = overlay.policy
    BY DEF SenseInput
  <2>5. /\ plan'.mode = EffectiveMode /\ plan'.policy = overlay.policy
        /\ plan'.master = out.master /\ plan'.active = out.active
    BY <2>3
  <2>6. EffectiveMode # "full"
    BY <2>5 DEF Decided
  <2>7. upAge' = Hold
    BY <2>3, <2>4, <2>5, <2>6, DecideHolds
  <2>8. upAge' # NoTime
    BY <2>7, PolicyNumberAssumption DEF NoTime
  <2>9. upFor'[plan'.master] > upAge' \/ upFor'[plan'.master] > resolvedFor'
    BY <2>2, <2>8 DEF HoldClock
  <2>10. /\ upFor'[plan'.master] \in Nat /\ resolvedFor' \in Nat
    <3>1. plan'.master \in Wans
      BY <2>1, PlanIsTyped DEF Plan
    <3>2. upFor'[plan'.master] \in {More(upFor[plan'.master]), 0}
      BY <2>1, <3>1 DEF Sense
    <3>3. resolvedFor' \in {More(resolvedFor), 0}
      BY <2>1 DEF Sense
    <3> QED
      BY <3>1, <3>2, <3>3, MoreStays DEF TypeOK, HistoryTypes
  <2> QED
    BY <2>7, <2>9, <2>10, PolicyNumberAssumption
<1>2. FailbackHeld <=> [][Fails => Held]_vars
  BY DEF FailbackHeld
<1> QED
  BY <1>1, <1>2, TypeCorrect, LoopInvHolds, PTL DEF Spec

-----------------------------------------------------------------------------
(* The actuators.                                                          *)

\* Every WAN has the one rule it is to have, unless nft left one astray.
RulesSound == sound => \A w \in Wans : rules[w] = IF w \in active THEN 0 ELSE 1

\* The default a tick decided on is a link that is UP, in use where one is.
DefaultSound ==
  pc # "sense" /\ Ups(eff) # {} =>
    /\ plan.default \in Ups(eff) /\ plan.default # NoWan
    /\ plan.active \cap Ups(eff) # {} => plan.default \in plan.active

ExclusionsTaken == pc = "route" /\ clean => excluded = Wans \ plan.active

ActuatorInv == RulesSound /\ DefaultSound /\ ExclusionsTaken /\ ActuatorsAgree

\* What pick_default_wan chooses, when there is a choice.
LEMMA DefaultIsUp ==
  ASSUME NEW e \in [Wans -> EffState], NEW out,
         out.active \in Choices, out.master \in Wans, Ups(e) # {}
  PROVE  /\ DefaultWan(e, out) \in Ups(e)
         /\ out.active \cap Ups(e) # {} => DefaultWan(e, out) \in out.active
<1> DEFINE live == out.active \cap Ups(e)
<1>1. Ups(e) \in SUBSET Wans /\ live \in SUBSET Ups(e) /\ IsFiniteSet(Wans)
  BY WanAssumption DEF Ups
<1>2. CASE Cardinality(live) = 1
  <2>1. live # {}
    <3>1. Cardinality({}) = 0
      BY FS_EmptySet
    <3> HIDE DEF live
    <3> QED BY <1>2, <3>1
  <2>2. First(live) \in live
    BY <1>1, <2>1, FirstIsOne
  <2>3. DefaultWan(e, out) = First(live)
    BY <1>2 DEF DefaultWan
  <2> QED BY <2>2, <2>3
<1>3. CASE Cardinality(live) # 1
  <2>1. DefaultWan(e, out) \in {out.dyn.master, out.master, First(Ups(e))} \cap Ups(e)
    <3>1. First(Ups(e)) \in Ups(e)
      BY <1>1, FirstIsOne
    <3> QED BY <1>3, <3>1 DEF DefaultWan
  <2>2. ASSUME live # {} PROVE out.active = Wans
    <3> SUFFICES ASSUME NEW m \in Wans, out.active = {m} PROVE FALSE
      BY DEF Choices
    <3>1. live = {m}
      BY <2>2
    <3> QED BY <1>3, <3>1, FS_Singleton
  <2> QED BY <1>1, <2>1, <2>2
<1> QED BY <1>2, <1>3

\* The rules of one switch, from whatever rules there were at most one of.
LEMMA AppliedIsPlan ==
  ASSUME rules \in [Wans -> Nat], \A w \in Wans : rules[w] < 2
  PROVE  \A w \in Wans :
           Applied(ToAdd(Blocked(rules)), ToRemove(Blocked(rules)))[w]
             = IF w \in plan.active THEN 0 ELSE 1
BY DEF Applied, ToAdd, ToRemove, Blocked

\* Sound rules drop what is not active.
LEMMA SoundBlocks ==
  ASSUME RulesSound, sound
  PROVE  Blocked(rules) = Wans \ active
BY DEF RulesSound, Blocked

\* The invariant is inductive, given the types and that plans are taken.
LEMMA ActuatorInvInductive ==
  ASSUME TypeOK, PlanTaken, ActuatorInv, [Next]_vars
  PROVE  ActuatorInv'
<1> USE DEF ActuatorInv
<1>0. rules \in [Wans -> Nat] /\ active \subseteq Wans
  BY DEF TypeOK, DeviceTypes, MemoryTypes
<1>1. CASE UNCHANGED vars
  BY <1>1 DEF vars, memory, devices, RulesSound, DefaultSound, ExclusionsTaken,
              ActuatorsAgree, Between, Blocked, Ups
<1>2. CASE LocalReport \/ RelayReport \/ QualityShift \/ OperatorApply
           \/ HazardChange \/ HandoffChange
  <2>1. InputEvent
    BY <1>2 DEF LocalReport, RelayReport, QualityShift, OperatorApply,
                HazardChange, HandoffChange
  <2> QED
    BY <2>1 DEF InputEvent, memory, devices, RulesSound, DefaultSound, ExclusionsTaken,
                ActuatorsAgree, Between, Blocked, Ups
<1>3. CASE EngardeRestart
  BY <1>3 DEF EngardeRestart, memory, RulesSound, DefaultSound, ExclusionsTaken,
              ActuatorsAgree, Between, Ups
<1>4. CASE ControllerRestart
  BY <1>4 DEF ControllerRestart, RulesSound, DefaultSound, ExclusionsTaken,
              ActuatorsAgree, Between, NoRules
<1>5. CASE Sense
  <2> DEFINE out == Decide(SenseInput(eff'))
  <2>1. /\ eff' \in [Wans -> EffState] /\ SenseInput(eff') \in DecideInput
        /\ plan'.default = DefaultWan(eff', out) /\ plan'.active = out.active
    BY <1>5, SenseDecides
  <2>2. out.active \in Choices /\ out.master \in Wans
    BY <2>1, DecideReturns
  <2>3. pc' = "nft" /\ UNCHANGED <<active, devices, sound>>
    BY <1>5 DEF Sense
  <2>4. Ups(eff)' = Ups(eff') /\ Ups(eff') \subseteq Wans
    BY DEF Ups
  <2> HIDE DEF out
  <2>5. DefaultSound'
    BY <2>1, <2>2, <2>4, DefaultIsUp, WanAssumption DEF DefaultSound
  <2> QED
    BY <2>3, <2>5 DEF devices, RulesSound, ExclusionsTaken, ActuatorsAgree, Between
<1>6. CASE SwitchNft \/ SwitchNftListFails \/ SwitchNftRefused \/ SwitchNftHalfApplied
  <2>1. ToExclude
    BY <1>6 DEF SwitchNft, SwitchNftListFails, SwitchNftRefused, SwitchNftHalfApplied,
                SwitchFault
  <2>2. DefaultSound' /\ ExclusionsTaken' /\ ActuatorsAgree'
    BY <2>1 DEF ToExclude, DefaultSound, ExclusionsTaken, ActuatorsAgree, Between, Ups
  <2>3. RulesSound'
    <3>1. CASE SwitchNft /\ plan.active # active
      <4>1. /\ rules' = Applied(ToAdd(Blocked(rules)), ToRemove(Blocked(rules)))
            /\ sound' = (sound \/ \A w \in Wans : rules[w] < 2)
            /\ active' = plan.active
        BY <3>1 DEF SwitchNft
      <4>2. sound' => \A w \in Wans : rules[w] < 2
        <5>1. sound => \A w \in Wans : rules[w] < 2
          BY DEF RulesSound
        <5> QED
          BY <4>1, <5>1
      <4> QED
        BY <1>0, <4>1, <4>2, AppliedIsPlan DEF RulesSound
    <3>2. CASE SwitchNft /\ plan.active = active
      <4>1. UNCHANGED <<rules, sound>> /\ active' = active
        BY <3>2 DEF SwitchNft
      <4> QED
        BY <4>1 DEF RulesSound
    <3>3. CASE SwitchNftRefused
      BY <3>3 DEF SwitchNftRefused, RulesSound
    <3>4. CASE SwitchNftListFails \/ SwitchNftHalfApplied
      BY <3>4 DEF SwitchNftListFails, SwitchNftHalfApplied, RulesSound
    <3> QED
      BY <1>6, <3>1, <3>2, <3>3, <3>4
  <2> QED
    BY <2>2, <2>3
<1>7. CASE SyncExclusions \/ SyncExclusionsFails
  <2>1. ToRoute /\ (excluded' = Wans \ plan.active \/ clean' = FALSE)
    BY <1>7 DEF SyncExclusions, SyncExclusionsFails
  <2> QED
    BY <2>1 DEF ToRoute, memory, RulesSound, DefaultSound, ExclusionsTaken,
                ActuatorsAgree, Between, Ups
<1>8. CASE Reroute \/ RerouteFails
  <2>1. EndTick
    BY <1>8 DEF Reroute, RerouteFails
  <2>2. RulesSound' /\ DefaultSound' /\ ExclusionsTaken'
    BY <2>1 DEF EndTick, memory, RulesSound, DefaultSound, ExclusionsTaken
  <2>3. CASE clean' = FALSE
    BY <2>2, <2>3 DEF ActuatorsAgree, Between
  <2>4. CASE Reroute /\ clean
    <3>1. active = plan.active /\ excluded = Wans \ plan.active
      BY <2>1, <2>4 DEF EndTick, PlanTaken, ExclusionsTaken
    <3>2. UNCHANGED <<excluded, active, eff, rules, sound>>
      BY <2>1 DEF EndTick, memory
    <3>3. sound' => Blocked(rules)' = Wans \ active'
      BY <3>2, SoundBlocks DEF Blocked
    <3>4. ASSUME Ups(eff) # {}
          PROVE  /\ route' = plan.default /\ plan.default \in Ups(eff)
                 /\ plan.active \cap Ups(eff) # {} => plan.default \in plan.active
                 /\ table' \in {WgIface, plan.default}
      BY <2>1, <2>4, <3>4 DEF Reroute, WantedRoute, WantedTable, EndTick, DefaultSound
    <3>5. Ups(eff)' = Ups(eff)
      BY <3>2 DEF Ups
    <3>6. ActuatorsAgree'
      BY <3>1, <3>2, <3>3, <3>4, <3>5 DEF ActuatorsAgree
    <3> QED
      BY <2>2, <3>6
  <2>5. CASE Reroute /\ ~clean
    <3>1. ~clean'
      BY <2>5 DEF Reroute
    <3> QED
      BY <2>2, <3>1 DEF ActuatorsAgree, Between
  <2>6. Reroute \/ clean' = FALSE
    BY <1>8 DEF RerouteFails
  <2> QED
    BY <2>3, <2>4, <2>5, <2>6
<1> QED
  BY <1>1, <1>2, <1>3, <1>4, <1>5, <1>6, <1>7, <1>8 DEF Next, Step

\* After a tick in which nothing was refused, nft, engarde and the routes agree
\* on the WANs in use (switch_active, sync_engarde_exclusions, pick_default_wan).
THEOREM ActuatorsInAgreement == Spec => []ActuatorsAgree
<1>1. Init => ActuatorInv
  BY DEF Init, ActuatorInv, RulesSound, DefaultSound, ExclusionsTaken, ActuatorsAgree,
         Between, NoRules
<1>2. LoopInv => PlanTaken
  BY DEF LoopInv
<1>3. TypeOK /\ PlanTaken /\ ActuatorInv /\ [Next]_vars => ActuatorInv'
  BY ActuatorInvInductive
<1>4. ActuatorInv => ActuatorsAgree
  BY DEF ActuatorInv
<1> QED
  BY <1>1, <1>2, <1>3, <1>4, TypeCorrect, LoopInvHolds, PTL DEF Spec

-----------------------------------------------------------------------------
(* The dwell.                                                              *)

\* A bid for the sticky master is never older than its link has been UP.
DwellClock == dyn.age # NoTime => dyn.cand \in Wans /\ upFor[dyn.cand] > dyn.age

\* With two links all are UP while a bid is made; with more, a bid of the
\* configured master survives its own link being DOWN, and so the assumption.
TwoWans == \E a, b \in Wans : Wans = {a, b}

\* What the pick of one tick does with a bid, its age counted up.
LEMMA PickDwells ==
  ASSUME TwoWans, NEW e \in [Wans -> EffState], NEW q \in Quality, NEW d \in Pick
  PROVE  LET new == DynamicPick(e, q, d)
         IN  /\ new.age # NoTime =>
                  /\ Ups(e) = Wans
                  /\ \/ new.age = 0 /\ new.cand \in Wans
                     \/ new.age = d.age /\ new.cand = d.cand
             /\ d.master \in Ups(e) /\ new.master # d.master =>
                  /\ Ups(e) = Wans /\ new.age = NoTime
                  /\ d.age = Dwell /\ new.master = d.cand
<1> DEFINE ups == Ups(e)
           C   == Challengers(d.master, ups, q)
           new == DynamicPick(e, q, d)
<1>1. ups \subseteq Wans /\ C \subseteq ups
  BY DEF Ups, Challengers
<1>2. \A w : Takes(w).master = w /\ Takes(w).age = NoTime
  BY DEF Takes, NoPick
<1>3. d.age \in {NoTime} \cup 0 .. Dwell /\ Dwell \in Nat
  BY PolicyNumberAssumption DEF Pick
<1>4. CASE ups = {}
  BY <1>2, <1>4 DEF DynamicPick
<1>5. CASE ups # {} /\ (Cardinality(ups) = 1 \/ d.master \notin ups)
  <2>1. new = Takes(BestOf(ups, q))
    BY <1>5 DEF DynamicPick
  <2>2. BestOf(ups, q) \in ups
    BY <1>1, <1>5, BestIsOne DEF Quality
  <2>3. ASSUME d.master \in ups PROVE BestOf(ups, q) = d.master
    <3>1. PICK w : ups = {w}
      BY <1>1, <1>5, <2>3, WanAssumption, FS_Subset, FS_Singleton
    <3> QED BY <2>2, <2>3, <3>1
  <2> HIDE DEF ups, new
  <2>4. new.master = BestOf(ups, q) /\ new.age = NoTime
    BY <1>2, <2>1
  <2> QED BY <2>3, <2>4 DEF ups, new
<1>6. CASE ups # {} /\ Cardinality(ups) # 1 /\ d.master \in ups
  <2>1. ups = Wans
    <3>1. PICK a \in Wans, b \in Wans : Wans = {a, b}
      BY DEF TwoWans
    <3>2. ups # {a} /\ ups # {b}
      BY <1>6, FS_Singleton
    <3> QED BY <1>1, <1>6, <3>1, <3>2
  <2>2. new = Contest(d, C)
    BY <1>6 DEF DynamicPick
  <2> HIDE DEF ups, C, new
  <2>3. CASE C = {}
    <3>1. new = d \/ new = Takes(d.master)
      BY <2>2, <2>3 DEF Contest
    <3> QED BY <1>2, <2>1, <3>1 DEF ups, new
  <2>4. CASE C # {}
    <3>1. First(C) \in Wans
      BY <1>1, <2>1, <2>4, FirstIsOne
    <3>2. CASE d.cand # First(C) \/ d.age = NoTime
      <4>1. new = [d EXCEPT !.cand = First(C), !.age = 0]
        BY <2>2, <2>4, <3>2 DEF Contest
      <4>2. new.master = d.master /\ new.age = 0 /\ new.cand = First(C)
        BY <4>1 DEF Pick
      <4>3. new.master = d.master /\ new.age = 0 /\ new.cand \in Wans
        BY <3>1, <4>2
      <4> QED BY <2>1, <4>3 DEF ups, new
    <3>3. CASE d.cand = First(C) /\ d.age # NoTime /\ d.age >= Dwell
      <4>1. new = Takes(First(C)) /\ d.age = Dwell
        BY <1>3, <2>2, <2>4, <3>3 DEF Contest
      <4> QED BY <1>2, <2>1, <3>3, <4>1 DEF ups, new
    <3>4. CASE d.cand = First(C) /\ d.age # NoTime /\ ~(d.age >= Dwell)
      <4>1. new = d
        BY <2>2, <2>4, <3>4 DEF Contest
      <4> QED BY <2>1, <4>1 DEF ups, new
    <3> QED BY <3>2, <3>3, <3>4
  <2> QED BY <2>3, <2>4
<1> QED BY <1>4, <1>5, <1>6

\* A tick keeps the clock, and a swap waited for it.
LEMMA SenseDwells ==
  ASSUME TwoWans, TypeOK, DwellClock, Sense
  PROVE  /\ DwellClock'
         /\ /\ plan'.mode = "master_backup" /\ plan'.policy = "dynamic"
            /\ dyn.master # NoWan /\ dyn'.master # dyn.master /\ eff'[dyn.master] = "UP"
            => upFor'[dyn'.master] > Dwell
<1> DEFINE d   == [dyn EXCEPT !.age = Later(@, Dwell)]
           in  == SenseInput(eff')
           new == DynamicPick(eff', quality, d)
<1>1. /\ eff' \in [Wans -> EffState] /\ in \in DecideInput /\ dyn' = Decide(in).dyn
      /\ plan'.mode = EffectiveMode /\ plan'.policy = overlay.policy
  BY SenseDecides
<1>2. /\ in.mode = EffectiveMode /\ in.policy = overlay.policy /\ in.eff = eff'
      /\ in.q = quality /\ in.dyn = d
  BY DEF SenseInput
<1>3. quality \in Quality /\ d \in Pick
  BY <1>1, <1>2 DEF DecideInput
<1>4. dyn \in Pick /\ Dwell \in Nat /\ dyn.age \in {NoTime} \cup 0 .. Dwell
  BY PolicyNumberAssumption DEF TypeOK, MemoryTypes, Pick
<1>5. d.master = dyn.master /\ d.cand = dyn.cand /\ d.age = Later(dyn.age, Dwell)
  BY <1>4 DEF Pick
<1>6. dyn' = IF in.mode = "full" \/ in.policy # "dynamic" THEN NoPick ELSE new
  BY <1>1, <1>2 DEF Decide
<1> HIDE DEF in, new, d
<1>7. /\ new.age # NoTime =>
           /\ Ups(eff') = Wans
           /\ \/ new.age = 0 /\ new.cand \in Wans
              \/ new.age = d.age /\ new.cand = d.cand
      /\ d.master \in Ups(eff') /\ new.master # d.master =>
           /\ Ups(eff') = Wans /\ new.age = NoTime
           /\ d.age = Dwell /\ new.master = d.cand
  BY <1>1, <1>3, PickDwells DEF new
<1>8. ASSUME NEW w \in Wans, Ups(eff') = Wans
      PROVE  upFor'[w] = IF upFor[w] = Enough THEN Enough ELSE upFor[w] + 1
  BY <1>8 DEF Sense, More, Ups
<1>9. /\ upFor \in [Wans -> 0 .. Enough] /\ Enough \in Nat /\ Enough > Dwell
  BY MoreStays DEF TypeOK, HistoryTypes
<1>10. ASSUME d.age # NoTime, Ups(eff') = Wans
       PROVE  d.cand \in Wans /\ upFor'[d.cand] > d.age
  <2>1. dyn.age # NoTime /\ d.age = IF dyn.age = Dwell THEN Dwell ELSE dyn.age + 1
    BY <1>4, <1>5, <1>10, LaterStays
  <2>2. dyn.cand \in Wans /\ upFor[dyn.cand] > dyn.age
    BY <2>1 DEF DwellClock
  <2>3. upFor'[dyn.cand] = IF upFor[dyn.cand] = Enough THEN Enough ELSE upFor[dyn.cand] + 1
    BY <1>8, <1>10, <2>2
  <2> QED BY <1>4, <1>5, <1>9, <2>1, <2>2, <2>3 DEF NoTime
<1>11. DwellClock'
  <2> SUFFICES ASSUME dyn'.age # NoTime
              PROVE  dyn'.cand \in Wans /\ upFor'[dyn'.cand] > dyn'.age
    BY DEF DwellClock
  <2>1. dyn' = new /\ new.age # NoTime /\ Ups(eff') = Wans
    BY <1>6, <1>7 DEF NoPick
  <2>2. CASE new.age = 0 /\ new.cand \in Wans
    <3>1. upFor'[new.cand] > 0
      BY <1>4, <1>8, <1>9, <2>1, <2>2
    <3> QED BY <2>1, <2>2, <3>1
  <2>3. CASE new.age = d.age /\ new.cand = d.cand
    BY <1>10, <2>1, <2>3
  <2> QED BY <1>7, <2>1, <2>2, <2>3
<1>12. ASSUME plan'.mode = "master_backup", plan'.policy = "dynamic", dyn.master # NoWan,
              dyn'.master # dyn.master, eff'[dyn.master] = "UP"
       PROVE  upFor'[dyn'.master] > Dwell
  <2>1. dyn' = new
    BY <1>1, <1>2, <1>6, <1>12
  <2>2. dyn.master \in Ups(eff')
    BY <1>4, <1>12 DEF Ups, Pick
  <2>3. Ups(eff') = Wans /\ d.age = Dwell /\ new.master = d.cand
    BY <1>5, <1>7, <1>12, <2>1, <2>2
  <2>4. d.age # NoTime
    BY <1>4, <2>3 DEF NoTime
  <2> QED BY <1>10, <2>1, <2>3, <2>4
<1> QED BY <1>11, <1>12

\* Every step keeps the clock.
LEMMA DwellClockInductive ==
  ASSUME TwoWans, TypeOK, DwellClock, [Next]_vars
  PROVE  DwellClock'
<1>1. CASE Sense
  BY <1>1, SenseDwells
<1>2. CASE ControllerRestart
  BY <1>2 DEF ControllerRestart, DwellClock, NoPick
<1>3. CASE ~Sense /\ ~ControllerRestart
  <2>1. UNCHANGED <<dyn, upFor>>
    BY <1>3 DEF Next, Step, LocalReport, RelayReport, QualityShift, OperatorApply,
           HazardChange, HandoffChange, InputEvent, EngardeRestart,
           SwitchNft, SwitchNftListFails, SwitchNftRefused, SwitchNftHalfApplied,
           SwitchFault, ToExclude, SyncExclusions, SyncExclusionsFails, ToRoute,
           Reroute, RerouteFails, EndTick, vars, memory, history
  <2> QED BY <2>1 DEF DwellClock
<1> QED BY <1>1, <1>2, <1>3

\* Of two links the sticky master gives way only to one that has been UP for the
\* dwell, unless it went down itself (_dynamic_pick).
THEOREM DwellIsKept == ASSUME TwoWans PROVE Spec => DwellHeld
<1> DEFINE Swaps == /\ Decided /\ plan'.policy = "dynamic"
                    /\ dyn.master # NoWan /\ dyn'.master # dyn.master /\ eff'[dyn.master] = "UP"
           Dwelt == upFor'[dyn'.master] > Dwell
<1>1. Init => DwellClock
  BY DEF Init, DwellClock, NoPick
<1>2. TypeOK /\ DwellClock /\ [Next]_vars => DwellClock'
  BY DwellClockInductive
<1>3. TypeOK /\ DwellClock /\ [Next]_vars => [Swaps => Dwelt]_vars
  <2> SUFFICES ASSUME TypeOK, DwellClock, Next, Swaps
               PROVE  Dwelt
    BY DEF Decided, vars
  <2>1. Sense
    BY DEF Decided, Next, Step, LocalReport, RelayReport, QualityShift, OperatorApply,
           HazardChange, HandoffChange, InputEvent, EngardeRestart, ControllerRestart,
           SwitchNft, SwitchNftListFails, SwitchNftRefused, SwitchNftHalfApplied,
           SwitchFault, ToExclude, SyncExclusions, SyncExclusionsFails, ToRoute,
           Reroute, RerouteFails, EndTick
  <2> QED
    BY <2>1, SenseDwells DEF Decided
<1>4. DwellHeld <=> [][Swaps => Dwelt]_vars
  BY DEF DwellHeld
<1> QED
  BY <1>1, <1>2, <1>3, <1>4, TypeCorrect, PTL DEF Spec
=============================================================================
