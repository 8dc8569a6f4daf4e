------------------------------- MODULE Alerts -------------------------------
(***************************************************************************)
(* The pages about the WANs (notify.py, EventDetector): a WAN down or up,  *)
(* all WANs down, a switch of the active set; with their holds, the        *)
(* maintenance window that excuses one WAN, and the silent seed of a run.  *)
(*                                                                         *)
(* What a tick observes is any at each tick: the WANs that are UP, the     *)
(* active set the loop left, and the WAN under an open window, if any (a   *)
(* window that is missing, malformed or over excuses none).  A clock       *)
(* counts ticks.  A page made counts as read: what becomes of it on its    *)
(* way is EgressRecord's.  What was read is not undone by a restart: the   *)
(* seed of the next run pages nothing, so that what the operator believes  *)
(* and what the detector remembers may part there.                         *)
(***************************************************************************)
EXTENDS Integers

CONSTANTS
  Wans,
  NoWan,
  WanHold,    \* wan_down_hold_s, in ticks
  SwitchHold  \* switch_hold_s, in ticks

ASSUME HoldAssumption == WanHold \in Nat /\ SwitchHold \in Nat
ASSUME WanAssumption  == NoWan \notin Wans

VARIABLES
  seeded,     \* the run has observed a tick
  link,       \* of each WAN: _down_since, in _down_alerted, in _maint_suppressed
  offline,    \* _all_down_since, _all_down_alerted
  active,     \* the active set as of the last tick
  announced,  \* _announced_active, {} for None
  pending,    \* _pending_switch
  \* History.  The WAN the tick's window was over; of each WAN, for how long it has
  \* not been UP, and for how long not UP without the excuse of a window; for how
  \* long the active set has been the same.
  under, out, bare, steady,
  \* What the operator was told, by any run: of each WAN whether it is down, of an
  \* outage of all of them that stands that it does, and the active set.
  toldDown, toldOffline, toldActive,
  \* Where the seed left the operator with another picture than the detector's:
  \* the WANs not paged since, whether of all of them being down, and (`missed`)
  \* of the active set, or of one that will not be told (see SwitchesTold).
  amiss, offlineAmiss, missed

detector == <<seeded, link, offline, active, announced, pending>>
history  == <<under, out, bare, steady, toldDown, toldOffline, toldActive,
              amiss, offlineAmiss, missed>>
vars     == <<detector, history>>

\* A time since which something has held: its age in ticks, up to a cap.
None == -1
Age(cap) == {None} \cup 0 .. cap
Older(age, cap) == IF age = None \/ age = cap THEN age ELSE age + 1
Since(age, holds, cap) == IF ~holds THEN None ELSE IF age = None THEN 0 ELSE Older(age, cap)

Link     == [since : Age(WanHold), alerted : BOOLEAN, withheld : BOOLEAN]
NoSwitch == [to |-> {}, since |-> None]
Actives  == (SUBSET Wans) \ {{}}

TypeOK ==
  /\ seeded \in BOOLEAN /\ link \in [Wans -> Link]
  /\ offline \in [since : Age(WanHold), alerted : BOOLEAN]
  /\ active \in SUBSET Wans /\ announced \in SUBSET Wans
  /\ pending \in [to : SUBSET Wans, since : Age(SwitchHold)]
  /\ under \in Wans \cup {NoWan} /\ out \in [Wans -> Age(WanHold)] /\ bare \in [Wans -> Age(WanHold)]
  /\ toldDown \in [Wans -> BOOLEAN] /\ toldOffline \in BOOLEAN
  /\ toldActive \in SUBSET Wans /\ steady \in 0 .. SwitchHold /\ missed \in BOOLEAN
  /\ amiss \in SUBSET Wans /\ offlineAmiss \in BOOLEAN
  \* An outage is announced or withheld, and a switch that waits is the last one.
  /\ \A w \in Wans : ~(link[w].alerted /\ link[w].withheld)
  /\ pending = NoSwitch \/ (pending.to = active /\ pending.to # announced)

Init ==
  /\ seeded = FALSE
  /\ link = [w \in Wans |-> [since |-> None, alerted |-> FALSE, withheld |-> FALSE]]
  /\ offline = [since |-> None, alerted |-> FALSE]
  /\ active = Wans /\ announced = {} /\ pending = NoSwitch
  /\ under = NoWan /\ out = [w \in Wans |-> None] /\ bare = out
  /\ toldDown = [w \in Wans |-> FALSE] /\ toldOffline = FALSE
  /\ toldActive \in Actives /\ steady = 0
  /\ amiss = {} /\ offlineAmiss = FALSE /\ missed = FALSE

-----------------------------------------------------------------------------
(* _wan_events and _all_down_events.                                       *)

\* Faulty variant: an outage announced before the window is withheld by it too.
AfterWanBoth(l, isUp, excused) ==
  LET since == IF isUp THEN None
               ELSE IF excused \/ l.alerted THEN Older(l.since, WanHold)
               ELSE Since(l.since, TRUE, WanHold)
      due   == ~isUp /\ ~excused /\ since = WanHold
  IN  [since |-> since, alerted |-> ~isUp /\ (l.alerted \/ due),
       withheld |-> ~isUp /\ excused]

\* Under a window an outage is neither announced nor forgotten.  The hold runs on
\* from before the window, or begins after it.
AfterWan(l, isUp, excused) ==
  LET since == IF isUp THEN None
               ELSE IF excused \/ l.alerted THEN Older(l.since, WanHold)
               ELSE Since(l.since, TRUE, WanHold)
      due   == ~isUp /\ ~excused /\ since = WanHold
  IN  [since |-> since, alerted |-> ~isUp /\ (l.alerted \/ due),
       withheld |-> ~isUp /\ ~l.alerted /\ excused]

\* The up page is withheld with the down page.
WanUpPage(l, isUp, excused)   == isUp /\ l.alerted /\ ~(excused /\ l.withheld)
WanDownPage(l, isUp, excused) == ~l.alerted /\ AfterWan(l, isUp, excused).alerted

WanPage(l, isUp, excused) == WanUpPage(l, isUp, excused) \/ WanDownPage(l, isUp, excused)

\* What the operator then believes, who was told `told`.
WanTold(told, l, isUp, excused) ==
  CASE WanUpPage(l, isUp, excused)   -> FALSE
    [] WanDownPage(l, isUp, excused) -> TRUE
    [] OTHER -> told

WanEvents(up, maint) ==
  /\ link' = [w \in Wans |-> AfterWan(link[w], w \in up, w = maint)]
  /\ toldDown' = [w \in Wans |-> WanTold(toldDown[w], link[w], w \in up, w = maint)]
  /\ amiss' = {w \in amiss : ~WanPage(link[w], w \in up, w = maint)}

\* No window excuses that all WANs are down.  That it is over has no page of its own.
AllDownEvents(up) ==
  LET since == Since(offline.since, up = {}, WanHold)
  IN  /\ offline' = [since |-> since,
                     alerted |-> up = {} /\ (offline.alerted \/ since = WanHold)]
      /\ toldOffline' = (up = {} /\ (toldOffline \/ (~offline.alerted /\ offline'.alerted)))
      /\ offlineAmiss' = (up = {} /\ offlineAmiss)

-----------------------------------------------------------------------------
(* _switch_events.                                                         *)

Toggled(set, w) == (set \ {w}) \cup ({w} \ set)

\* The maintained WAN, and only it, leaves or joins the active set.
Excused(to, maint) == maint # NoWan /\ to = Toggled(active, maint)

\* Before the first switch the operator believes in the set the run began in.
Believed == IF announced = {} THEN active ELSE announced

\* What waits once the switch to `to`, if any, is seen; a flap back cancels it.
Waiting(to) ==
  CASE to = active -> [pending EXCEPT !.since = Older(@, SwitchHold)]
    [] to # active /\ to # Believed -> [to |-> to, since |-> 0]
    [] OTHER -> NoSwitch

\* Faulty variant: the set a reboot leaves is not followed.
FollowedNot(to) == announced

\* A reboot's own switch is believed without a page.
Followed(to) == to

SwitchEvents(to, maint) ==
  /\ active' = to
  /\ IF to # active /\ Excused(to, maint)
     THEN /\ announced' = Followed(to) /\ pending' = NoSwitch
          /\ toldActive' = Toggled(toldActive, maint)
          /\ missed' = (missed \/ pending # NoSwitch)
     ELSE IF Waiting(to).since = SwitchHold
     THEN /\ announced' = Waiting(to).to /\ pending' = NoSwitch
          /\ toldActive' = Waiting(to).to /\ missed' = FALSE
     ELSE /\ announced' = (IF to # active THEN Believed ELSE announced)
          /\ pending' = Waiting(to) /\ UNCHANGED <<toldActive, missed>>
  /\ steady' = IF to # active THEN 0 ELSE Older(steady, SwitchHold)

-----------------------------------------------------------------------------

Watched(up, maint) ==
  /\ under' = maint
  /\ out'  = [w \in Wans |-> Since(out[w], w \notin up, WanHold)]
  /\ bare' = [w \in Wans |-> Since(bare[w], w \notin up /\ w # maint, WanHold)]

\* observe(), of a tick.
Observe ==
  /\ seeded /\ UNCHANGED seeded
  /\ \E up \in SUBSET Wans, maint \in Wans \cup {NoWan}, to \in Actives :
       /\ WanEvents(up, maint) /\ AllDownEvents(up) /\ SwitchEvents(to, maint)
       /\ Watched(up, maint)

\* Faulty variant: an outage under a window counts as announced too.
SeededLinkAnnounced(isUp, excused) ==
  [since |-> None, alerted |-> ~isUp, withheld |-> FALSE]

\* What is down at the seed counts as announced, unless a window withholds it.
SeededLink(isUp, excused) ==
  [since |-> None, alerted |-> ~isUp /\ ~excused, withheld |-> ~isUp /\ excused]

\* _seed, the first observation of a run.  It pages nothing, and a switch of that
\* tick is not seen.
Seed ==
  /\ ~seeded /\ seeded' = TRUE
  /\ \E up \in SUBSET Wans, maint \in Wans \cup {NoWan}, to \in Actives :
       /\ link' = [w \in Wans |-> SeededLink(w \in up, w = maint)]
       /\ offline' = [since |-> IF up = {} THEN 0 ELSE None, alerted |-> up = {}]
       /\ active' = to /\ announced' = {} /\ pending' = NoSwitch /\ steady' = 0
       /\ amiss' = {w \in Wans : toldDown[w] # (w \notin up \cup {maint})}
       /\ toldOffline' = (up = {} /\ toldOffline) /\ offlineAmiss' = (up = {} /\ ~toldOffline)
       /\ missed' = (toldActive # to)
       /\ Watched(up, maint)
  /\ UNCHANGED <<toldDown, toldActive>>

\* The run ends; the next one begins with nothing.
Restart ==
  /\ seeded /\ seeded' = FALSE
  /\ UNCHANGED <<link, offline, active, announced, pending, history>>

Next == Seed \/ Observe \/ Restart

Spec == Init /\ [][Next]_vars

-----------------------------------------------------------------------------
(* Properties.                                                             *)

\* Once a tick is handled the operator has the truth about the WANs, but for the
\* holds: a WAN that is UP is not believed down; one that has been out for the
\* hold with no window over it is; one that was not out for the hold is not,
\* unless it was believed down before this run and found down by its seed; and
\* that all are down for the hold is told under any window.  The exception is what
\* the seed takes over without a page (_seed): a WAN paged down by an earlier run and
\* found UP, or under a window, stays believed down until its next page, and what
\* is found down without having been paged stays so until its next page.
PagesTellTheTruth ==
  seeded =>
    /\ \A w \in Wans \ amiss :
         /\ out[w] = None => ~toldDown[w]
         /\ bare[w] = WanHold => toldDown[w]
         /\ toldDown[w] => out[w] = WanHold \/ link[w].since = None
    /\ (\A w \in Wans : out[w] = WanHold) => toldOffline \/ offlineAmiss

\* A switch that has held is told, and one that has not is not.  The exceptions are
\* the code's: a switch that still waits when the maintained WAN leaves or joins
\* the active set is dropped, whatever caused it; and one that the end of a run
\* overtakes, waiting or made between two runs, is taken over by the seed untold.
SwitchesTold ==
  [][seeded /\ seeded' =>
       /\ steady' = SwitchHold /\ ~missed' => toldActive' = active'
       /\ toldActive' # toldActive =>
            steady' = SwitchHold \/ toldActive' = Toggled(toldActive, under')]_vars
=============================================================================
