--------------------------- MODULE HotspotWatchdog ---------------------------
(***************************************************************************)
(* The daemon of hotspot_watchdog.py: its policy, the copy of it on disk,  *)
(* and the order of a poll: step, save, execute.  A crash may fall between *)
(* any two of them, and a restart takes up what is on disk.                *)
(*                                                                         *)
(* Time is counted in polls.  A point in time of the policy becomes the    *)
(* time left until it matters, in memory and on disk alike: it is wall     *)
(* clock time and goes on while nobody runs.  At most one of unusable_since*)
(* and healthy_since is set; phase says which, left what it still lacks of *)
(* its dwell or of its reset.  Which alerts were sent already is left out, *)
(* except for the first one of an episode (fired).                         *)
(***************************************************************************)
EXTENDS Integers

CONSTANTS
  Dwell, Grace, Holdoff, HealthyReset, StartupGrace,  \* their _s, in polls
  MaxReboots                                          \* max_reboots_per_episode

\* load_config.
ASSUME ConfigAssumption ==
  /\ {Dwell, Grace, Holdoff, HealthyReset, MaxReboots} \subseteq Nat \ {0}
  /\ StartupGrace \in Nat

VARIABLES
  policy, disk,   \* WatchdogPolicy, and its copy in the state file
  startLeft,      \* what is left of the startup grace
  pc,             \* where the daemon is in its poll
  proposed,       \* a reboot is among the poll's actions
  sample,         \* the last sample
  \* History: reboots posted since the last time out or recovery, the time
  \* since the last one, and since an unusable poll was last saved.
  posted, sincePost, sinceBad

daemon  == <<policy, disk, startLeft, pc, proposed, sample>>
history == <<posted, sincePost, sinceBad>>
vars    == <<daemon, history>>

Answer == {"yes", "no", "unknown"}
Sample == [private: BOOLEAN, wanUp: Answer, peerUp: Answer, carrier: Answer]
Policy == [phase: {"new", "well", "bad"}, left: 0 .. Dwell + Grace + HealthyReset,
           fired: BOOLEAN, reboots: 0 .. MaxReboots,
           grace: 0 .. Grace, holdoff: 0 .. Holdoff]
Fresh == [phase |-> "new", left |-> 0, fired |-> FALSE, reboots |-> 0,
          grace |-> 0, holdoff |-> 0]

AnyHoldoff == Grace + Holdoff

TypeOK ==
  /\ policy \in Policy /\ disk \in Policy /\ startLeft \in 0 .. StartupGrace
  /\ pc \in {"due", "save", "execute", "rest", "down"}
  /\ proposed \in BOOLEAN /\ sample \in Sample
  /\ posted \in Nat /\ sincePost \in 0 .. AnyHoldoff /\ sinceBad \in 0 .. HealthyReset

Init ==
  /\ policy = Fresh /\ disk = Fresh /\ startLeft = StartupGrace
  /\ pc = "due" /\ proposed = FALSE
  /\ sample = [private |-> FALSE, wanUp |-> "unknown", peerUp |-> "unknown",
               carrier |-> "unknown"]
  /\ posted = 0 /\ sincePost = AnyHoldoff /\ sinceBad = 0

-----------------------------------------------------------------------------
(* The policy.                                                             *)

Usable(s) == ~s.private /\ s.wanUp # "no"
Eligible(s) == s.private \/ (s.wanUp = "no" /\ s.peerUp # "no")
Rebootable(s) == ~Usable(s) /\ Eligible(s) /\ s.carrier # "no"

\* The continuous run of usable or of unusable polls begins or goes on.
InPhase(p, phase, time) ==
  IF p.phase = phase THEN p ELSE [p EXCEPT !.phase = phase, !.left = time]

\* _step_usable.  The end of an episode gives the budget back.
AfterUsable(p) ==
  LET q == InPhase(p, "well", HealthyReset)
  IN  IF q.fired /\ q.left = 0
      THEN [q EXCEPT !.fired = FALSE, !.reboots = 0, !.grace = 0, !.holdoff = 0]
      ELSE q

\* Nothing keeps the policy from acting on a WAN that is unusable.
Acts(p) == startLeft = 0 /\ p.grace = 0 /\ p.holdoff = 0 /\ p.left = 0

Spend(p) == [p EXCEPT !.reboots = @ + 1, !.grace = Grace, !.left = Grace + Dwell]

\* Faulty variant: the budget stays spent over the holdoff.
GiveUpForGood(p) == [p EXCEPT !.holdoff = Holdoff]

GiveUp(p) == [p EXCEPT !.holdoff = Holdoff, !.reboots = 0]

\* Faulty variant: nobody looks at the budget.
ProposesAnyway(p, s) == Acts(p) /\ Rebootable(s)

Proposes(p, s) == Acts(p) /\ Rebootable(s) /\ p.reboots < MaxReboots

\* _step_unusable.
AfterUnusable(p, s) ==
  LET q == InPhase(p, "bad", Dwell)
      r == [q EXCEPT !.fired = TRUE]
  IN  IF ~Acts(q) THEN q
      ELSE IF ~Rebootable(s) THEN r
      ELSE IF Proposes(q, s) THEN Spend(r) ELSE GiveUp(r)

-----------------------------------------------------------------------------
(* The daemon.                                                             *)

\* take_sample and step.
Poll ==
  /\ pc = "due" /\ pc' = "save"
  /\ sample' \in Sample
  /\ IF Usable(sample')
     THEN policy' = AfterUsable(policy) /\ proposed' = FALSE
     ELSE /\ policy' = AfterUnusable(policy, sample')
          /\ proposed' = Proposes(InPhase(policy, "bad", Dwell), sample')
  /\ posted' = IF Usable(sample') /\ sinceBad = HealthyReset THEN 0 ELSE posted
  /\ UNCHANGED <<disk, startLeft, sincePost, sinceBad>>

\* Faulty variant: the fields that are restored do not include the grace.
OnDiskWithoutGrace(p) == [p EXCEPT !.grace = 0, !.left = 0]

\* Faulty variant: what is saved is what was there before the attempt.
OnDiskBeforeAttempt(p) == IF proposed THEN [p EXCEPT !.reboots = @ - 1] ELSE p

\* to_dict and from_dict.
OnDisk(p) == p

Save ==
  /\ pc = "save" /\ pc' = "execute" /\ disk' = OnDisk(policy)
  /\ sinceBad' = IF policy.phase = "bad" THEN 0 ELSE sinceBad
  /\ UNCHANGED <<policy, startLeft, proposed, sample, posted, sincePost>>

\* The reboot is dropped, the attempt stays spent; alerts are sent.
SaveFails ==
  /\ pc = "save" /\ pc' = "rest"
  /\ UNCHANGED <<policy, disk, startLeft, proposed, sample, history>>

\* _do_reboot posts the restart, whatever comes back of it.
Post ==
  /\ pc = "execute" /\ proposed /\ pc' = "rest"
  /\ posted' = (IF sincePost >= Holdoff THEN 0 ELSE posted) + 1
  /\ sincePost' = 0
  /\ UNCHANGED <<policy, disk, startLeft, proposed, sample, sinceBad>>

\* Nothing to post; or the admin UI, the secret or the login is missing.
NoPost ==
  /\ pc = "execute" /\ pc' = "rest"
  /\ UNCHANGED <<policy, disk, startLeft, proposed, sample, history>>

Crash ==
  /\ pc # "down" /\ pc' = "down"
  /\ UNCHANGED <<policy, disk, startLeft, proposed, sample, history>>

\* _load_policy_state; the runtime directory survives a restart of the unit.
Restart ==
  /\ pc = "down" /\ pc' = "due"
  /\ policy' = disk /\ startLeft' = StartupGrace /\ proposed' = FALSE
  /\ UNCHANGED <<disk, sample, history>>

Less(n) == IF n > 0 THEN n - 1 ELSE 0
More(n, most) == IF n < most THEN n + 1 ELSE n
Aged(p) == [p EXCEPT !.left = Less(@), !.grace = Less(@), !.holdoff = Less(@)]

Elapse ==
  /\ pc \in {"rest", "down"} /\ pc' = IF pc = "rest" THEN "due" ELSE pc
  /\ policy' = Aged(policy) /\ disk' = Aged(disk) /\ startLeft' = Less(startLeft)
  /\ sincePost' = More(sincePost, AnyHoldoff) /\ sinceBad' = More(sinceBad, HealthyReset)
  /\ UNCHANGED <<proposed, sample, posted>>

Next == Poll \/ Save \/ SaveFails \/ Post \/ NoPost \/ Crash \/ Restart \/ Elapse

Spec == Init /\ [][Next]_vars

\* The daemon polls for ever, and systemd restarts it.
FairSpec == Spec /\ WF_vars(Poll) /\ WF_vars(Save \/ SaveFails)
                 /\ WF_vars(Post \/ NoPost) /\ WF_vars(Restart) /\ WF_vars(Elapse)

-----------------------------------------------------------------------------
(* Properties.                                                             *)

\* "a crash, an OOM kill or a power cut in that gap loses the increment: the
\* daemon ... can exceed max_reboots_per_episode": wherever crashes and failed
\* saves fall, no more than the budget is posted without a holdoff's time, or a
\* recovery that held for healthy_reset_s, in between (_persist_then_execute).
\* An unusable poll that a crash keeps off the disk does not end a recovery.
BudgetKept == posted <= MaxReboots

\* A reboot is given its grace before the next one, restarts of the daemon in
\* between included.  (The fresh dwell after the grace is not: one usable poll
\* during the grace forgets it.)  As configured, a recovery takes longer than a
\* grace; _reset_episode clears it.
GraceKept == [][Post => sincePost >= Grace]_vars

\* "A missed reboot costs one dwell": a WAN that stays rebootable is proposed
\* to be rebooted again and again, when the daemon stays up and can save.
KeepsTrying ==
  <>[](Rebootable(sample) /\ pc # "down" /\ (pc = "rest" => disk = policy))
    => []<>(pc = "execute" /\ proposed)
=============================================================================
