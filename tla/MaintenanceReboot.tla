-------------------------- MODULE MaintenanceReboot --------------------------
(***************************************************************************)
(* The maintenance reboot of the two WANs (maintenance_reboot.py, with the *)
(* one-shot of hotspot_watchdog.py it runs for wan1): two runs, the        *)
(* timer's and one by hand, that contend for the lock; the two legs; the   *)
(* window that keeps sbfd-ctl quiet about the WAN under maintenance; the   *)
(* devices and the link states that sbfd publishes of them.                *)
(*                                                                         *)
(* A device that takes a reboot goes on for a while (leaving), drops its   *)
(* link (booting), and comes back or does not.  Time is counted in polls.  *)
(***************************************************************************)
EXTENDS Integers, FiniteSets

CONSTANTS
  Runs, NoRun,       \* the processes that may run; no process
  wan1, wan2, NoWan,
  RecoveryDeadline,  \* recovery_deadline_s, in polls
  SettleTime,        \* settle_s
  WatchdogTimeout,   \* WATCHDOG_TIMEOUT_S
  GrpcCall,          \* GRPC_CALL_S
  NotifyTimeout,     \* NOTIFY_TIMEOUT_S
  WindowMargin,      \* WINDOW_MARGIN_S
  DropLag,           \* assumption: how long a device may go on after a reboot
  Faults, MaxEvents  \* what may go wrong, and how many events in all

Wans == {wan1, wan2}
Peer(w) == IF w = wan1 THEN wan2 ELSE wan1

ASSUME NameAssumption == wan1 # wan2 /\ NoWan \notin Wans /\ NoRun \notin Runs
ASSUME TimeAssumption ==
  /\ {SettleTime, WatchdogTimeout, GrpcCall, NotifyTimeout, WindowMargin,
      DropLag, MaxEvents} \subseteq Nat
  /\ RecoveryDeadline \in Nat /\ DropLag < RecoveryDeadline
ASSUME FaultAssumption ==
  Faults \subseteq {"path", "flap", "blind", "stall", "lost_answer", "kill", "hasty"}

VARIABLES
  lock,      \* the run that holds the lock
  run,       \* each run: where it is and its local variables
  window,    \* the maintenance window: whose, and for how long still
  boot, lag, \* each device, and how long it may still go on after a reboot
  bumped,    \* wan2's bootcount rose above the one noted
  path,      \* whether each WAN's path works, its device apart
  readable,  \* sbfd's state file is there and fresh
  said,      \* how each leg of the last run ended
  misled,    \* history: something happened that the code cannot see through
  events

vars == <<lock, run, window, boot, lag, bumped, path, readable, said, misled, events>>

Outcome == {"none", "recovered", "skipped", "not_issued", "not_returned"}
Places  == {"idle", "open1", "post1", "await1", "settle1",
            "open2", "status2", "ask2", "await2", "settle2"}

\* Faulty variant: a window that only bounds the recovery.
Leg1TtlShort == RecoveryDeadline + SettleTime
Leg1Ttl == WatchdogTimeout + RecoveryDeadline + SettleTime + WindowMargin
Leg2Ttl == 7 * GrpcCall + NotifyTimeout + 2 * RecoveryDeadline + SettleTime
           + WindowMargin
NoWindow == [wan |-> NoWan, left |-> 0]

\* pc; the time a call, a poll loop or a settle may still take; whether await_up
\* sleeps; seen_down; the legs to run; an update is staged; the fallback is on.
Run == [pc: Places, left: 0 .. Leg1Ttl + Leg2Ttl, nap: BOOLEAN, down: BOOLEAN,
        legs: SUBSET Wans, staged: BOOLEAN, again: BOOLEAN]
IdleRun == [pc |-> "idle", left |-> 0, nap |-> FALSE, down |-> FALSE,
            legs |-> {}, staged |-> FALSE, again |-> FALSE]

\* Besides the types: only the run that holds the lock is anywhere.
TypeOK ==
  /\ lock \in Runs \cup {NoRun} /\ run \in [Runs -> Run]
  /\ \A r \in Runs : run[r].pc # "idle" <=> lock = r
  /\ window \in [wan: Wans \cup {NoWan}, left: 0 .. Leg1Ttl + Leg2Ttl]
  /\ boot \in [Wans -> {"running", "leaving", "booting"}]
  /\ lag \in [Wans -> 0 .. DropLag] /\ bumped \in BOOLEAN
  /\ path \in [Wans -> BOOLEAN] /\ readable \in BOOLEAN
  /\ said \in [Wans -> Outcome] /\ misled \in BOOLEAN /\ events \in 0 .. MaxEvents

Init ==
  /\ lock = NoRun /\ run = [r \in Runs |-> IdleRun] /\ window = NoWindow
  /\ boot = [w \in Wans |-> "running"] /\ lag = [w \in Wans |-> 0]
  /\ bumped = FALSE /\ path = [w \in Wans |-> TRUE] /\ readable = TRUE
  /\ said = [w \in Wans |-> "none"] /\ misled = FALSE /\ events = 0

devices == <<boot, lag, bumped>>
world   == <<path, readable>>

-----------------------------------------------------------------------------
(* Reading sbfd's state, and moving from place to place.                   *)

Event == events < MaxEvents /\ events' = events + 1

\* read_wan_states: a file that cannot be read says of no WAN that it is UP.
SeenUp(w) == readable /\ path[w] /\ boot[w] # "booting"

\* Faulty variant: the request's failure is taken for the link's being well.
ClassifiedByRequest(w, up) == up

\* classify_by_link.
Classified(w, up) == IF SeenUp(w) THEN up ELSE "not_returned"

\* The run goes on to a place, with `to` for the rest of its record.
Goes(r, from, to) == /\ run[r].pc = from /\ run' = [run EXCEPT ![r] = to]
Place(r, pc, left) == [run[r] EXCEPT !.pc = pc, !.left = left]

\* A leg is over: its window is closed, and the run ends or goes on to leg 2,
\* which only a wan1 that did not come back prevents.
Ends(r, from, w, outcome) ==
  LET more == w = wan1 /\ wan2 \in run[r].legs /\ outcome # "not_returned"
  IN  /\ Goes(r, from, IF more THEN Place(r, "open2", 0) ELSE IdleRun)
      /\ lock' = IF more THEN lock ELSE NoRun
      /\ window' = NoWindow
      /\ said' = [said EXCEPT ![w] = outcome]
      /\ UNCHANGED <<world, events>>

\* So it is in most cases, and nothing else happens.
EndLeg(r, from, w, outcome) ==
  Ends(r, from, w, outcome) /\ UNCHANGED <<devices, misled>>

\* A step of a run that ends nothing.
Onwards == UNCHANGED <<lock, window, said, world, misled, events>>

\* Faulty variant: nobody asks for the lock.
LockIgnored(r) == TRUE

\* acquire_lock.
LockFree(r) == lock = NoRun

\* main and run_once up to the first leg: whatever window is left over is
\* closed, and both WANs must be UP.  A hasty one begins while a reboot that a
\* killed run asked for is still to show.
Begin(r) ==
  /\ run[r].pc = "idle" /\ LockFree(r) /\ Event
  /\ IF \A w \in Wans : boot[w] # "leaving" THEN UNCHANGED misled
     ELSE "hasty" \in Faults /\ misled' = TRUE
  /\ window' = NoWindow /\ said' = [w \in Wans |-> "none"]
  /\ IF \A w \in Wans : SeenUp(w)
     THEN \E legs \in {Wans, {wan1}, {wan2}} :
            /\ lock' = r
            /\ run' = [run EXCEPT ![r] = [IdleRun EXCEPT !.legs = legs,
                         !.pc = IF wan1 \in legs THEN "open1" ELSE "open2"]]
     ELSE UNCHANGED <<lock, run>>
  /\ UNCHANGED <<devices, world>>

-----------------------------------------------------------------------------
(* Leg 1: reboot_wan1 and the watchdog's one-shot.                         *)

\* The peer is checked here and, by the one-shot, once more; a device that is
\* off has no carrier, and a path that failed may have taken it along.
Open1(r) ==
  \/ /\ SeenUp(wan2)
     /\ Goes(r, "open1", Place(r, "post1", WatchdogTimeout))
     /\ window' = [wan |-> wan1, left |-> Leg1Ttl]
     /\ UNCHANGED <<lock, said, devices, world, misled, events>>
  \/ /\ ~SeenUp(wan2) \/ boot[wan1] = "booting" \/ ~path[wan1]
     /\ EndLeg(r, "open1", wan1, "skipped")

\* A device that was asked to reboot; one on its way down stays on it.
Takes(w) ==
  /\ boot' = [boot EXCEPT ![w] = IF @ = "running" THEN "leaving" ELSE @]
  /\ lag' = [lag EXCEPT ![w] = IF boot[w] = "running" THEN DropLag ELSE @]
  /\ UNCHANGED bumped

Awaits(r, pc, deadline) == [Place(r, pc, deadline) EXCEPT !.nap = TRUE]

\* Exit 0 or 3: the restart was posted, and it landed or it did not.
Post1(r) ==
  /\ Goes(r, "post1", [Awaits(r, "await1", RecoveryDeadline) EXCEPT !.down = FALSE])
  /\ Takes(wan1) \/ UNCHANGED devices
  /\ Onwards

\* Exit 1: it never was.  The link is asked, not the exit code.
Untouched1(r) == EndLeg(r, "post1", wan1, Classified(wan1, "not_issued"))

\* The one-shot hangs past its timeout although it had posted the restart.
Stall1(r) ==
  /\ "stall" \in Faults
  /\ Ends(r, "post1", wan1, Classified(wan1, "not_issued"))
  /\ Takes(wan1) /\ misled' = TRUE

\* Faulty variant: the first UP is taken for the recovery.
Receipt1AnyUp(r) == TRUE

\* require_down_first: a down that was observed is the only receipt there is.
Receipt1(r) == run[r].down

Poll1(r) ==
  /\ ~run[r].nap
  /\ IF SeenUp(wan1) /\ Receipt1(r)
     THEN Goes(r, "await1", Place(r, "settle1", SettleTime)) /\ Onwards /\ UNCHANGED devices
     ELSE IF run[r].left = 0
          THEN EndLeg(r, "await1", wan1, Classified(wan1, "not_issued"))
          ELSE /\ Goes(r, "await1", [run[r] EXCEPT !.nap = TRUE,
                                        !.down = @ \/ (readable /\ ~SeenUp(wan1))])
               /\ Onwards /\ UNCHANGED devices

Settle1(r) == run[r].left = 0 /\ EndLeg(r, "settle1", wan1, "recovered")

-----------------------------------------------------------------------------
(* Leg 2: reboot_wan2.                                                     *)

Open2(r) ==
  /\ Goes(r, "open2", Place(r, "status2", 2 * GrpcCall))
  /\ window' = [wan |-> wan2, left |-> Leg2Ttl]
  /\ UNCHANGED <<lock, said, devices, world, misled, events>>

\* The two reads of the terminal's status: it does not answer, or its
\* bootcount is not to be read; it writes firmware; or all is well, and the
\* peer is looked at as late as it can be.
NoStatus2(r) == EndLeg(r, "status2", wan2, Classified(wan2, "skipped"))
InFlight2(r) == EndLeg(r, "status2", wan2, "skipped")
NoPeer2(r)   == ~SeenUp(wan1) /\ EndLeg(r, "status2", wan2, "skipped")
Status2(r) ==
  /\ SeenUp(wan1) /\ boot[wan2] # "booting"
  /\ \E staged \in BOOLEAN :
       Goes(r, "status2", [Place(r, "ask2", GrpcCall) EXCEPT
                             !.staged = staged, !.again = FALSE])
  /\ bumped' = FALSE
  /\ UNCHANGED <<boot, lag>> /\ Onwards

\* The request is taken, and acted on or silently dropped.
Ask2(r) ==
  /\ Goes(r, "ask2", Awaits(r, "await2", RecoveryDeadline + GrpcCall))
  /\ (boot[wan2] # "booting" /\ Takes(wan2)) \/ UNCHANGED devices
  /\ Onwards

\* It fails: the terminal did not get it.
Refused2(r) == EndLeg(r, "ask2", wan2, Classified(wan2, "not_issued"))

\* It fails, but only on the way back: the terminal has taken it.
AnswerLost2(r) ==
  /\ "lost_answer" \in Faults /\ boot[wan2] = "running"
  /\ Ends(r, "ask2", wan2, Classified(wan2, "not_issued"))
  /\ Takes(wan2) /\ misled' = TRUE

\* UP, and the bootcount says that the terminal did reboot.
Recovered2(r) ==
  /\ ~run[r].nap /\ SeenUp(wan2) /\ bumped
  /\ Goes(r, "await2", Place(r, "settle2", SettleTime))
  /\ Onwards /\ UNCHANGED devices

\* Faulty variant: a terminal that is UP is given for ever to show a receipt.
TimeUp2Never(r) == run[r].left <= GrpcCall /\ ~SeenUp(wan2)

\* The deadline; the last read of the bootcount may run past it.
TimeUp2(r) == run[r].left <= GrpcCall

\* Not UP, no receipt, or one that cannot be read: the next poll.
Poll2(r) ==
  /\ ~run[r].nap /\ (run[r].left > 0 \/ ~TimeUp2(r))
  /\ Goes(r, "await2", [run[r] EXCEPT !.nap = TRUE])
  /\ Onwards /\ UNCHANGED devices

\* A plain reboot is over; after an update that did not apply, one plain reboot.
GiveUp2(r) ==
  /\ ~run[r].nap /\ TimeUp2(r)
  /\ IF run[r].staged /\ ~run[r].again
     THEN IF SeenUp(wan1)
          THEN /\ Goes(r, "await2", [Place(r, "ask2", NotifyTimeout + GrpcCall)
                                       EXCEPT !.again = TRUE])
               /\ Onwards /\ UNCHANGED devices
          ELSE EndLeg(r, "await2", wan2, Classified(wan2, "skipped"))
     ELSE EndLeg(r, "await2", wan2, Classified(wan2, "not_issued"))

Settle2(r) == run[r].left = 0 /\ EndLeg(r, "settle2", wan2, "recovered")

-----------------------------------------------------------------------------
(* Devices, paths, time.                                                   *)

Process(r) ==
  \/ Open1(r) \/ Post1(r) \/ Untouched1(r) \/ Stall1(r) \/ Poll1(r) \/ Settle1(r)
  \/ Open2(r) \/ NoStatus2(r) \/ InFlight2(r) \/ NoPeer2(r) \/ Status2(r)
  \/ Ask2(r) \/ Refused2(r) \/ AnswerLost2(r) \/ Recovered2(r) \/ Poll2(r)
  \/ GiveUp2(r) \/ Settle2(r)

\* SIGKILL leaves the window, SIGTERM takes it along; the lock goes either way.
Kill(r) ==
  /\ "kill" \in Faults /\ run[r].pc # "idle" /\ Event
  /\ run' = [run EXCEPT ![r] = IdleRun] /\ lock' = NoRun
  /\ window' \in {window, NoWindow}
  /\ UNCHANGED <<said, devices, world, misled>>

Drops(w) ==
  /\ boot[w] = "leaving" /\ boot' = [boot EXCEPT ![w] = "booting"]
  /\ lag' = [lag EXCEPT ![w] = 0]
  /\ UNCHANGED <<lock, run, window, bumped, said, world, misled, events>>

Returns(w) ==
  /\ boot[w] = "booting" /\ boot' = [boot EXCEPT ![w] = "running"]
  /\ bumped' = (bumped \/ w = wan2)
  /\ UNCHANGED <<lock, run, window, lag, said, world, misled, events>>

\* A path fails by itself; wan1's in the middle of its own leg is a flap.
InLeg1 == \E r \in Runs : run[r].pc \in {"open1", "post1", "await1", "settle1"}
PathFails(w) ==
  /\ path[w] /\ "path" \in Faults /\ Event
  /\ IF w = wan1 /\ InLeg1 THEN "flap" \in Faults /\ misled' = TRUE
     ELSE UNCHANGED misled
  /\ path' = [path EXCEPT ![w] = FALSE]
  /\ UNCHANGED <<lock, run, window, devices, readable, said>>
PathMends(w) ==
  /\ ~path[w] /\ path' = [path EXCEPT ![w] = TRUE]
  /\ UNCHANGED <<lock, run, window, devices, readable, said, misled, events>>

\* sbfd's state file goes missing or stale, and comes back.
Blinds ==
  /\ IF readable THEN "blind" \in Faults /\ Event ELSE UNCHANGED events
  /\ readable' = ~readable
  /\ UNCHANGED <<lock, run, window, devices, path, said, misled>>

Waiting(r) ==
  \/ run[r].pc = "idle"
  \/ run[r].pc \in {"post1", "status2", "ask2", "settle1", "settle2"} /\ run[r].left > 0
  \/ run[r].pc \in {"await1", "await2"} /\ run[r].nap

Less(n) == IF n > 0 THEN n - 1 ELSE 0

\* A window that has run out is none (load_maintenance_window).
Elapse ==
  /\ \A r \in Runs : Waiting(r)
  /\ \A w \in Wans : boot[w] = "leaving" => lag[w] > 0
  /\ run' = [r \in Runs |-> [run[r] EXCEPT !.left = Less(@), !.nap = FALSE]]
  /\ lag' = [w \in Wans |-> Less(lag[w])]
  /\ window' = IF window.left > 1 THEN [window EXCEPT !.left = @ - 1] ELSE NoWindow
  /\ UNCHANGED <<lock, boot, bumped, path, readable, said, misled, events>>

Next == \/ \E r \in Runs : Begin(r) \/ Process(r) \/ Kill(r)
        \/ \E w \in Wans : Drops(w) \/ Returns(w) \/ PathFails(w) \/ PathMends(w)
        \/ Blinds \/ Elapse

Spec == Init /\ [][Next]_vars

\* Calls have timeouts and time passes; no device has to come back.
FairSpec == Spec /\ WF_vars(Elapse) /\ \A w \in Wans : WF_vars(Drops(w))
                 /\ \A r \in Runs : WF_vars(Process(r))

-----------------------------------------------------------------------------
(* Properties.                                                             *)

\* What a reading of sbfd's state cannot show misleads the code: a reboot that
\* a call took though it failed, one that a killed run left behind, a path that
\* fails by itself while the drop of a reboot is waited for.  Short of that the
\* two devices are never on their way through a reboot together, whatever
\* requests are lost and other runs do (acquire_lock, await_up, peer_is_up).
NeverBothDown == misled \/ \E w \in Wans : boot[w] = "running"

\* "a reboot that was never issued left the link untouched, and says so
\* quietly": short of the same, a leg that ends skipped or not issued leaves no
\* device on its way down or off (classify_by_link, reboot_wan1, reboot_wan2).
QuietMeansUntouched ==
  [][\A w \in Wans : said'[w] # said[w] /\ said'[w] \in {"skipped", "not_issued"}
       => misled' \/ boot'[w] = "running"]_vars

\* "The window must outlive the leg" (leg1_window_ttl, leg2_window_ttl): from
\* the request to the end of the settle the window is open, for this WAN.
WindowCovers ==
  \A r \in Runs :
    /\ run[r].pc \in {"post1", "await1", "settle1"} => window.wan = wan1
    /\ run[r].pc \in {"status2", "ask2", "await2", "settle2"} => window.wan = wan2

\* "this must not be able to hang the run" (await_up), so the lock is not held
\* for ever, and a window left behind runs out.
RunEnds == []<>(lock = NoRun /\ window = NoWindow)
=============================================================================
