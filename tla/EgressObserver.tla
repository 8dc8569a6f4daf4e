--------------------------- MODULE EgressObserver ---------------------------
(***************************************************************************)
(* The check of the exit that traffic really takes (egress_observer.py).   *)
(*                                                                         *)
(* Three threads meet here: the controller's loop, which notes the         *)
(* selected egress mode every tick (set_selected); the checker (_run and   *)
(* check_once); and _kick_on_stop.  They share the tracker, under a lock,  *)
(* the kick and the stop flag, under none.  What one thread does without   *)
(* another being able to tell is one action.                               *)
(*                                                                         *)
(* The relay applies a new mode within RelayLag, and may stray from it: it *)
(* falls back by itself, or its exit is not what its mode says.  Steps of  *)
(* a thread that waits on nothing take no time.                            *)
(***************************************************************************)
EXTENDS Integers

CONSTANTS
  Modes,          \* VALID_EGRESS_MODES
  LocalDirect,    \* the mode in which traffic never takes the relay
  NoMode,         \* None: nothing selected yet
  Settle,         \* settle_s, in units of time
  Interval,       \* interval_s
  FetchTime,      \* timeout_s: the longest a fetch takes
  RelayLag,       \* assumption: the relay's next tick is this near
  MismatchChecks, \* mismatch_checks
  ErrorChecks,    \* error_checks
  MaxEvents       \* bound: changes of mode, of exit and of the page

ASSUME ModeAssumption ==
  LocalDirect \in Modes /\ NoMode \notin Modes /\ "error" \notin Modes \cup {NoMode}
ASSUME TimeAssumption ==
  /\ Settle \in Nat /\ Interval \in Nat \ {0} /\ FetchTime \in Nat
  /\ RelayLag \in Nat /\ RelayLag < Settle
  /\ MismatchChecks \in Nat \ {0} /\ ErrorChecks \in Nat \ {0}
  /\ MaxEvents \in Nat

VARIABLES
  tracker,   \* ExitTracker
  kick, stop,\* the two threading.Events
  noting,    \* set_selected released the lock after a change, kick not yet set
  nudged,    \* _kick_on_stop is through
  pc,        \* where the checker is
  left,      \* how long its wait or fetch lasts at most
  asked,     \* check_once's `selected`
  page,      \* what its fetch returned: an exit, "error" or "none"
  exit,      \* the exit the relay uses
  astray,    \* it is not to become the selected one by itself
  readable,  \* the page answers, and names an exit
  events,
  \* History: the time since the last change of mode, and whether the relay
  \* strayed since it.
  sinceSelect, strayed

threads == <<tracker, kick, stop, noting, nudged, pc, left, asked, page>>
world   == <<exit, astray, readable>>
history == <<sinceSelect, strayed>>
vars == <<threads, world, events, history>>

Relayed == Modes \ {LocalDirect}

Status == {"checking", "skipped", "error", "failing", "match", "pending", "mismatch"}

\* The counts stop at the number of checks they are compared with.
Tracker == [selected: Modes \cup {NoMode}, status: Status,
            count: 0 .. MismatchChecks, errors: 0 .. ErrorChecks]

\* Besides its type: what the tracker may say of which selection, and that a
\* verdict on the exit leaves no count behind that contradicts it.
TrackerConsistent ==
  /\ tracker.status = "skipped" => tracker.selected = LocalDirect
  /\ tracker.status \in {"error", "failing", "match", "pending", "mismatch"}
       => tracker.selected \in Relayed
  /\ tracker.status \in {"match", "skipped", "checking"} => tracker.count = 0
  /\ tracker.status \in {"match", "pending", "mismatch"} => tracker.errors = 0

TypeOK ==
  /\ tracker \in Tracker /\ TrackerConsistent
  /\ kick \in BOOLEAN /\ stop \in BOOLEAN
  /\ noting \in BOOLEAN /\ nudged \in BOOLEAN
  /\ pc \in {"loop", "kicked", "settle", "check", "fetch", "record", "wait", "done"}
  /\ left \in 0 .. Settle + Interval + FetchTime
  /\ asked \in Modes \cup {NoMode} /\ page \in Relayed \cup {"error", "none"}
  /\ exit \in Relayed /\ astray \in BOOLEAN /\ readable \in BOOLEAN
  /\ events \in 0 .. MaxEvents /\ sinceSelect \in 0 .. Settle
  /\ strayed \in BOOLEAN

Init ==
  /\ tracker = [selected |-> NoMode, status |-> "checking", count |-> 0, errors |-> 0]
  /\ kick = FALSE /\ stop = FALSE /\ noting = FALSE /\ nudged = FALSE
  /\ pc = "loop" /\ left = 0 /\ asked = NoMode /\ page = "none"
  /\ exit \in Relayed /\ astray = FALSE /\ readable = TRUE /\ events = 0
  /\ sinceSelect = 0 /\ strayed = FALSE

-----------------------------------------------------------------------------
(* ExitTracker.                                                            *)

Count(n, enough) == IF n < enough THEN n + 1 ELSE n

\* Faulty variant: a new selection inherits the mismatches of the old one.
SelectedKeepingCount(t, mode) ==
  [t EXCEPT !.selected = mode, !.status = "checking", !.errors = 0]

\* select, of a mode that is not the one selected.
Selected(t, mode) ==
  [t EXCEPT !.selected = mode, !.status = "checking", !.count = 0, !.errors = 0]

\* Faulty variant: a match leaves the mismatches before it standing.
UpdatedKeepingCount(t, seen) ==
  LET count  == Count(t.count, MismatchChecks)
      errors == Count(t.errors, ErrorChecks)
  IN  CASE t.selected = LocalDirect ->
             [t EXCEPT !.status = "skipped", !.count = 0, !.errors = 0]
        [] t.selected # LocalDirect /\ seen = "error" ->
             [t EXCEPT !.errors = errors,
                       !.status = IF errors >= ErrorChecks THEN "failing" ELSE "error"]
        [] t.selected # LocalDirect /\ seen = t.selected ->
             [t EXCEPT !.status = "match", !.errors = 0]
        [] OTHER ->
             [t EXCEPT !.errors = 0, !.count = count,
                       !.status = IF count >= MismatchChecks THEN "mismatch" ELSE "pending"]

\* update: an error keeps the mismatches counted, a verdict ends the errors.
Updated(t, seen) ==
  LET count  == Count(t.count, MismatchChecks)
      errors == Count(t.errors, ErrorChecks)
  IN  CASE t.selected = LocalDirect ->
             [t EXCEPT !.status = "skipped", !.count = 0, !.errors = 0]
        [] t.selected # LocalDirect /\ seen = "error" ->
             [t EXCEPT !.errors = errors,
                       !.status = IF errors >= ErrorChecks THEN "failing" ELSE "error"]
        [] t.selected # LocalDirect /\ seen = t.selected ->
             [t EXCEPT !.status = "match", !.count = 0, !.errors = 0]
        [] OTHER ->
             [t EXCEPT !.errors = 0, !.count = count,
                       !.status = IF count >= MismatchChecks THEN "mismatch" ELSE "pending"]

-----------------------------------------------------------------------------
(* The threads.                                                            *)

Event == events < MaxEvents /\ events' = events + 1

\* set_selected: a mode that is not the one selected, noted under the lock ...
SetSelected ==
  /\ ~noting /\ Event
  /\ \E mode \in Modes \ {tracker.selected} : tracker' = Selected(tracker, mode)
  /\ noting' = TRUE
  /\ astray' = FALSE
  /\ sinceSelect' = 0 /\ strayed' = FALSE
  /\ UNCHANGED <<kick, stop, nudged, pc, left, asked, page, exit, readable>>

\* ... and the kick, after the lock is released.
Kick ==
  /\ noting /\ noting' = FALSE /\ kick' = TRUE
  /\ UNCHANGED <<tracker, stop, nudged, pc, left, asked, page, world, events, history>>

Stop ==
  /\ ~stop /\ stop' = TRUE
  /\ UNCHANGED <<tracker, kick, noting, nudged, pc, left, asked, page, world, events, history>>

\* _kick_on_stop.
KickOnStop ==
  /\ stop /\ ~nudged /\ nudged' = TRUE /\ kick' = TRUE
  /\ UNCHANGED <<tracker, stop, noting, pc, left, asked, page, world, events, history>>

\* The checker moves from one place to another.
At(here) == pc = here /\ UNCHANGED <<stop, noting, nudged, world, events, history>>

\* _run's loop test.
LoopTest ==
  /\ At("loop") /\ pc' = IF stop THEN "done" ELSE "kicked"
  /\ UNCHANGED <<tracker, kick, left, asked, page>>

\* The kick is taken and a settle begun, or there is none (any more).
TakeKick ==
  /\ At("kicked") /\ kick' = FALSE
  /\ IF kick THEN pc' = "settle" /\ left' = Settle
             ELSE pc' = "check" /\ UNCHANGED left
  /\ UNCHANGED <<tracker, asked, page>>

\* stop.wait(settle_s): a stop ends the thread, time goes back to the test.
EndSettle ==
  /\ At("settle") /\ (stop \/ left = 0)
  /\ pc' = IF stop THEN "done" ELSE "kicked"
  /\ UNCHANGED <<tracker, kick, left, asked, page>>

\* check_once reads the selected mode; only a relay mode is worth a fetch.
BeginCheck ==
  /\ At("check") /\ asked' = tracker.selected
  /\ page' = "none"
  /\ CASE asked' = NoMode      -> pc' = "wait" /\ left' = Interval
       [] asked' = LocalDirect -> pc' = "record" /\ UNCHANGED left
       [] OTHER                -> pc' = "fetch" /\ left' = FetchTime
  /\ UNCHANGED <<tracker, kick>>

\* Faulty variant: a fetch that raises ends the thread.
FetchReturnsFatal ==
  /\ At("fetch") /\ page' = IF readable THEN exit ELSE "error"
  /\ pc' = IF readable THEN "record" ELSE "done"
  /\ UNCHANGED <<tracker, kick, left, asked>>

\* The page says which exit was taken, or it says nothing of use.
FetchReturns ==
  /\ At("fetch") /\ page' = IF readable THEN exit ELSE "error"
  /\ pc' = "record"
  /\ UNCHANGED <<tracker, kick, left, asked>>

\* The result counts if the mode is (again) the one that was asked about.
Record ==
  /\ At("record")
  /\ tracker' = IF tracker.selected = asked THEN Updated(tracker, page) ELSE tracker
  /\ pc' = "wait" /\ left' = Interval
  /\ UNCHANGED <<kick, asked, page>>

\* kick.wait(interval_s) leaves the kick set.
EndWait ==
  /\ At("wait") /\ (kick \/ left = 0) /\ pc' = "loop"
  /\ UNCHANGED <<tracker, kick, left, asked, page>>

Checker == LoopTest \/ TakeKick \/ EndSettle \/ BeginCheck
           \/ FetchReturns \/ Record \/ EndWait

-----------------------------------------------------------------------------
(* The relay, the page and time.                                           *)

\* The relay's exit is to become the selected one, and is not yet.
RelayBehind == tracker.selected \in Relayed /\ exit # tracker.selected /\ ~astray

RelayApplies ==
  /\ RelayBehind /\ exit' = tracker.selected
  /\ UNCHANGED <<threads, astray, readable, events, history>>

Stray ==
  /\ tracker.selected \in Relayed /\ Event
  /\ \E e \in Relayed \ {exit} : exit' = e
  /\ astray' = TRUE /\ strayed' = TRUE
  /\ UNCHANGED <<threads, readable, sinceSelect>>

ComeBack ==
  /\ astray /\ Event /\ astray' = FALSE
  /\ UNCHANGED <<threads, exit, readable, history>>

PageChanges ==
  /\ Event /\ readable' = ~readable
  /\ UNCHANGED <<threads, exit, astray, history>>

\* The checker waits on something that has not come.
Waiting ==
  \/ pc = "settle" /\ left > 0 /\ ~stop
  \/ pc = "fetch"  /\ left > 0
  \/ pc = "wait"   /\ left > 0 /\ ~kick
  \/ pc = "done"

Elapse ==
  /\ Waiting /\ ~noting /\ (stop => nudged)
  /\ RelayBehind => sinceSelect < RelayLag
  /\ left' = IF left > 0 THEN left - 1 ELSE left
  /\ sinceSelect' = Count(sinceSelect, Settle)
  /\ UNCHANGED <<tracker, kick, stop, noting, nudged, pc, asked, page, world,
                 events, strayed>>

Next == \/ SetSelected \/ Kick \/ Stop \/ KickOnStop \/ Checker
        \/ RelayApplies \/ Stray \/ ComeBack \/ PageChanges \/ Elapse

Spec == Init /\ [][Next]_vars

\* Threads run, the relay ticks and time passes; nothing has to change.
FairSpec ==
  Spec /\ WF_vars(Kick) /\ WF_vars(KickOnStop) /\ WF_vars(Checker)
       /\ WF_vars(RelayApplies) /\ WF_vars(Elapse)

-----------------------------------------------------------------------------
(* Properties.                                                             *)

\* "mismatching for mismatch_checks checks in a row": with two checks or more
\* an alarm is never about the old exit of a mode that was just changed, and
\* never about a mode no longer selected (set_selected, _run, update).
NoFalseAlarm == tracker.status = "mismatch" => strayed

\* What the status comes to when the world stays as it is.
Truth ==
  CASE tracker.selected = NoMode      -> "checking"
    [] tracker.selected = LocalDirect -> "skipped"
    [] OTHER -> IF ~readable THEN "failing"
                ELSE IF exit = tracker.selected THEN "match" ELSE "mismatch"

\* The status comes to tell the truth and stays with it, whatever errors and
\* changes of mode came between its checks, unless the thread was stopped.
TellsTheTruth == []~stop => <>[](tracker.status = Truth)
=============================================================================
