-------------------------- MODULE FailoverPolicy --------------------------
(***************************************************************************)
(* The decisions of sbfd-ctl, as operators on values: how two views of a   *)
(* WAN merge, which WAN is master, which WANs carry traffic and which one  *)
(* the box's own traffic leaves by (sbfd_ctl.py: merge_effective,          *)
(* _dynamic_pick, decide, pick_default_wan).                               *)
(*                                                                         *)
(* A "since" timestamp is kept as the time elapsed since it, in controller *)
(* ticks, None as NoTime; elapsed times saturate at the bound they are     *)
(* compared with.  RTT and loss are numbers of the instance's choosing.    *)
(***************************************************************************)
EXTENDS Integers, FiniteSets

CONSTANTS
  Wans,                    \* cfg.wans
  Rank,                    \* the order cfg.wans lists them in, which is also
                           \* their names' order where the code sorts names
  NoWan,                   \* None, where a WAN is meant
  DefaultMaster,           \* policy.default_master_wan
  Hold, Dwell,             \* failback_hold_s, dynamic_swap_dwell_s, in ticks
  RttMargin, LossMargin    \* dynamic_rtt_margin_ms, dynamic_loss_margin_pct

ASSUME WanAssumption ==
  /\ NoWan \notin Wans /\ DefaultMaster \in Wans
  /\ \E w \in Wans : w # DefaultMaster
  /\ Rank \in [Wans -> Nat] /\ IsFiniteSet(Wans)
  /\ \A v, w \in Wans : Rank[v] = Rank[w] => v = w
ASSUME PolicyNumberAssumption ==
  Hold \in Nat /\ Dwell \in Nat /\ RttMargin \in Nat /\ LossMargin \in Nat

NoTime == -1
Later(age, bound) == IF age = NoTime \/ age = bound THEN age ELSE age + 1

\* What a side reports of a WAN, and what the two sides amount to.
Reported == {"UP", "INIT", "DOWN", "UNKNOWN"}
EffState == {"UP", "DOWN", "UNKNOWN"}

\* StateSnapshot: whether it could be read at all, how old it is, what it says.
Snapshot == [ok: BOOLEAN, stale: BOOLEAN, state: [Wans -> Reported]]

First(S) == CHOOSE w \in S : \A v \in S : Rank[w] <= Rank[v]

-----------------------------------------------------------------------------
\* merge_effective: DOWN dominates among the sides that contribute; a stale
\* side contributes only while the other one is not fresh.
Fresh(s) == s.ok /\ ~s.stale
Contributes(s, other) == s.ok /\ (Fresh(s) \/ ~Fresh(other))

Merge(local, remote) ==
  [w \in Wans |->
     LET said == (IF Contributes(local, remote) THEN {local.state[w]} ELSE {})
           \cup (IF Contributes(remote, local) THEN {remote.state[w]} ELSE {})
     IN  IF "DOWN" \in said THEN "DOWN"
         ELSE IF "UP" \in said THEN "UP" ELSE "UNKNOWN"]

Ups(eff) == {w \in Wans : eff[w] = "UP"}

-----------------------------------------------------------------------------
(* _dynamic_pick: the sticky master.                                       *)

Pick   == [master: Wans \cup {NoWan}, cand: Wans \cup {NoWan},
           age: {NoTime} \cup 0 .. Dwell]
NoPick == [master |-> NoWan, cand |-> NoWan, age |-> NoTime]
Takes(w) == [NoPick EXCEPT !.master = w]

\* A round-trip time that is missing counts as infinite: behind every other,
\* and by any margin not behind another that is missing.
NoRtt == -1
Faster(r, s, margin) == s = NoRtt \/ (r # NoRtt /\ r + margin <= s)

\* v beats w by a margin, in loss or else in round-trip time.
Beats(v, w, q) ==
  \/ q.loss[v] + LossMargin <= q.loss[w]
  \/ Faster(q.rtt[v], q.rtt[w], RttMargin) /\ q.loss[v] <= q.loss[w] + LossMargin

\* The link an unset or dead master is replaced by: least loss, then least
\* round-trip time, then the configured master, then the first listed.
Preferred(v, w, q) ==
  \/ q.loss[v] < q.loss[w]
  \/ q.loss[v] = q.loss[w] /\ q.rtt[v] # q.rtt[w] /\ Faster(q.rtt[v], q.rtt[w], 0)
  \/ /\ q.loss[v] = q.loss[w] /\ q.rtt[v] = q.rtt[w]
     /\ \/ v = DefaultMaster
        \/ w # DefaultMaster /\ Rank[v] <= Rank[w]
BestOf(ups, q) == CHOOSE v \in ups : \A w \in ups : Preferred(v, w, q)

\* Who challenges: on the configured master any link that beats it; away from
\* it the configured master, unless the current link beats it.
Challengers(current, ups, q) ==
  IF current = DefaultMaster
  THEN {w \in ups \ {current} : Beats(w, current, q)}
  ELSE {w \in ups \cap {DefaultMaster} : ~Beats(current, w, q)}

\* A challenger that held its place for the dwell takes over; a held bid of
\* the configured master survives ticks in which it does not challenge.
Contest(d, challengers) ==
  IF challengers = {}
  THEN IF d.cand = DefaultMaster THEN d ELSE Takes(d.master)
  ELSE LET rival == First(challengers)
       IN  IF d.cand # rival \/ d.age = NoTime
           THEN [d EXCEPT !.cand = rival, !.age = 0]
           ELSE IF d.age >= Dwell THEN Takes(rival) ELSE d

\* Faulty variant: the challenger takes over at once.
DynamicPickEager(eff, q, d) ==
  LET ups == Ups(eff)
      challengers == Challengers(d.master, ups, q)
  IN  IF ups = {} THEN Takes(DefaultMaster)
      ELSE IF d.master \notin ups THEN Takes(BestOf(ups, q))
      ELSE IF challengers = {} THEN Takes(d.master)
      ELSE Takes(First(challengers))

\* d is the pick of the tick before, its age already counted up to now.
DynamicPick(eff, q, d) ==
  LET ups == Ups(eff)
  IN  IF ups = {} THEN Takes(DefaultMaster)
      ELSE IF Cardinality(ups) = 1 \/ d.master \notin ups
           THEN Takes(BestOf(ups, q))
           ELSE Contest(d, Challengers(d.master, ups, q))

-----------------------------------------------------------------------------
(* decide.                                                                 *)

Modes    == {"full", "master_backup"}
Policies == {"static_primary", "static_configured", "dynamic"}

Backup(master) == First(Wans \ {master})

Master(policy, configured, pick) ==
  CASE policy = "static_primary"    -> DefaultMaster
    [] policy = "static_configured" -> configured
    [] policy = "dynamic"           -> pick.master

\* Faulty variant: the clock restarts at every tick.
UpAgeRestarting(master, eff, age) == IF eff[master] # "UP" THEN NoTime ELSE 0

\* master_up_since: kept while the master, whichever it is, stays UP.
UpAge(master, eff, age) ==
  IF eff[master] # "UP" THEN NoTime ELSE IF age = NoTime THEN 0 ELSE age

\* Faulty variant: with both links down, none is used.
TargetNoFallback(master, eff, policy, active, age) ==
  IF eff[master] # "UP" THEN {Backup(master)} \cap Ups(eff)
  ELSE IF active = {Backup(master)} /\ policy # "dynamic" /\ age < Hold
       THEN {Backup(master)} ELSE {master}

\* Faulty variant: a recovered master is gone back to at once.
TargetAtOnce(master, eff, policy, active, age) ==
  IF eff[master] # "UP"
  THEN IF eff[Backup(master)] = "UP" THEN {Backup(master)} ELSE Wans
  ELSE {master}

\* The WANs to carry traffic in master_backup mode.
Target(master, eff, policy, active, age) ==
  IF eff[master] # "UP"
  THEN IF eff[Backup(master)] = "UP" THEN {Backup(master)} ELSE Wans
  ELSE IF active = {Backup(master)} /\ policy # "dynamic" /\ age < Hold
       THEN {Backup(master)} ELSE {master}

\* in: mode, policy, configured master, eff, q, upAge, active and dyn.
Decide(in) ==
  LET pick   == IF in.policy = "dynamic" THEN DynamicPick(in.eff, in.q, in.dyn)
                ELSE NoPick
      master == Master(in.policy, in.configured, pick)
      age    == UpAge(master, in.eff, in.upAge)
  IN  IF in.mode = "full"
      THEN [active |-> Wans, upAge |-> NoTime, dyn |-> NoPick,
            master |-> in.configured]
      ELSE [active |-> Target(master, in.eff, in.policy, in.active, age),
            upAge |-> age, dyn |-> pick, master |-> master]

\* Faulty variant: the configured master, whether it is UP or not.
DefaultWanConfigured(eff, out) == IF Ups(eff) = {} THEN NoWan ELSE out.master

\* pick_default_wan: NoWan when nothing is UP.
DefaultWan(eff, out) ==
  LET ups  == Ups(eff)
      live == out.active \cap ups
  IN  IF ups = {} THEN NoWan
      ELSE IF Cardinality(live) = 1 THEN First(live)
      ELSE IF out.dyn.master \in ups THEN out.dyn.master
      ELSE IF out.master \in ups THEN out.master ELSE First(ups)
=============================================================================
