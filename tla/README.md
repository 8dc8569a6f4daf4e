# PathFuse in TLA+

PathFuse bonds two WAN links (a satellite terminal, `wan2`, and a cellular hotspot, `wan1`) between a
client box and a relay. `sbfd` watches each link from both ends, `sbfd-ctl` decides which links carry
traffic and drives the kernel and engarde accordingly, and a set of smaller daemons reboots equipment,
sends notifications and tunes forward error correction. This directory holds TLA+ modules of its
decision-making parts, TLC instances that check them, and proofs that TLAPS checks.

## 1. Inventory

| part | state it keeps | operations | interacts with | what makes it correct |
|---|---|---|---|---|
| **sbfd sessions** (`sbfd.py`), two daemons per link | per link: state DOWN/INIT/UP, `tx_seq`, the `last_rx_seq` watermark, the loss window, the peer's address, send-error count, last socket rebuild | `on_rx`; the transmit tick: `send_packet`, `check_timeouts`, `update_loss_ewma`, `maybe_rebuild_socket` | its peer over UDP; publishes `/run/sbfd/state.json` and `/state` over HTTP | UP is bidirectional and rests on new evidence; recovery after any fault; loss stays within 0..100 % |
| **sbfd-ctl decisions** (`sbfd_ctl.py` `merge_effective`, `_dynamic_pick`, `decide`, `pick_default_wan`) | `master_up_since`, `currently_active`, the `dynamic_*` fields | pure functions of the tick | called by the loop | some link is always active; failover at once, failback only after the hold; swaps only after the dwell |
| **sbfd-ctl loop and actuators** (`run_controller`) | last relay view and its age, the above, nft rules, engarde's exclusions, two routes | one tick: read inputs, merge, decide, nft, exclusions, default route, engarde table | nft, engarde's admin API, `ip route`, the overlay file, hazard and handoff files, the relay's `/state` | the actuators agree; a failing one is repaired by the next tick; a restart converges |
| **runtime overlay and UI server** (`sbfd_ctl.py` handlers, `ui/`) | the overlay file | `GET/POST /api/runtime`, FEC, map | the loop reads the file every tick | no setting lost; `local_direct` refused when its WAN is down |
| **adaptive FEC, client leg** (`fec_control.py`, the FEC part of `run_controller`) | the driver and its challenge, the active profile, level with its hysteresis, the signal latch, the ratio written last | one tick: driver, profile, level, floors, mode, FIFO write, what the card shows | udpspeeder's FIFO; the radio's and the place's readings; the UI | parity follows the loss, in bounded time and no further; the card tells the truth about the wire |
| **adaptive FEC, relay leg** (`udpspeeder_fec.py`, `post_relay_fec`) | on the relay: desired mode, pushed loss and link with their ages, level; on the client: what was acknowledged last and when it posted last | `POST /fec` by a handler thread, the relay's control loop | each other over HTTP; the relay's FIFO | an acknowledgement means the whole setting is held; the relay follows in bounded time, and forgets a client that is gone |
| **notifications** (`notify.py`) | holds and suppressions of each edge; the rate limiter; the egress alert's record on disk, its keeper's queue and retries | `observe`, `admit`, send, write, mark, adopt | the loop; `spool-notify`; the maintenance window file | the operator's picture is the truth but for the holds; a restart neither pages twice nor trusts what was not told |
| **environmental override** (`environ_ctl.py`, `station_tracker.py`), **cell telemetry** (`cell_telemetry.py`) | hazard per signal, heartbeat; handoff window | `poll_once`, `HandoffDetector` | write the files the loop reads | full mode while a hazard stands, and not after |
| **location-aware floors** (`location_fec.py`, `tile_store.py`) | statistics per map tile | lookup, learn, exit hold | the FEC choice | floors only raise |
| **egress observer** (`egress_observer.py`) | selected mode, exit status and counts; a kick flag | `set_selected` (loop thread), `check_once` (its own thread) | notifications | a verdict is about the selected mode, after it settled |
| **maintenance reboot** (`maintenance_reboot.py`) | run lock, window file | leg 1, leg 2 | watchdog one-shot, terminal's gRPC, sbfd's state | never both links down on its account; no outage left unannounced |
| **hotspot watchdog** (`hotspot_watchdog.py`, `netgear_api.py`) | the episode and its reboot budget, on disk | `step`, persist, execute | sbfd's state, the hotspot's admin API | budget kept over crashes |
| egress watchdog, ntfy control (shell, `deploy/`), installer, previews, linting | -- | -- | -- | see "Not modelled" |

### Behaviours that are hard

* **Sessions.** Loss, reordering and duplication against a replay filter that also has to recognise a
  restart; one-way outages, which only the "I hear you" flag reveals; sockets that fail every send; the
  relay learning a moved client's address; sequence wrap.
* **Loop.** Two hysteresis clocks whose subject (the master) can change under them; three independent
  actuators each of which can fail or half succeed; a restart of the controller or of engarde between two
  of them; inputs that go stale.
* **FEC.** A setting taken over in three steps under a lock that is released in between, posts that are lost,
  doubled or overtake each other; a level that is an index into a table that changes under it; a driver
  chosen among links that leave and join; a FIFO that may refuse, behind which the process restarts.
* **Notifications.** Four threads between a page and its record; pages held, dropped, summarised or accepted after
  the alert they are about has ended; kills and power losses between any two steps of it; maintenance
  windows that open and close over an outage.
* **Elsewhere.** Threads sharing the overlay and the observer's tracker; a maintenance run
  and the watchdog rebooting different links; budgets that have to survive a crash.

`PROJECT.json` lists them one by one under `hazards`, at the line where each bites.

## 2. Modules

| module | models | state ↔ code |
|---|---|---|
| `SbfdSession` | both ends of one link and the path between them | `sess[p]` is the `Session` object (`txSeq` = `tx_seq`, `lastRx` = `last_rx_seq`, `age` = time since `last_rx_ts`, `rxWin`/`expWin`/`winAge` = the loss window, `sinceRebuild` = time since `last_socket_rebuild`); `Tick` is one due iteration of `run`'s per-session body, `Deliver`/`DeliverLate` are `on_rx`; `net`, `late`, `cut`, `addr` are the path |
| `SbfdSessionProofs` | theorems about it | |
| `FailoverPolicy` | the pure decisions | `Merge` = `merge_effective`, `DynamicPick` = `_dynamic_pick`, `Decide` = `decide`, `DefaultWan` = `pick_default_wan` |
| `Failover` (extends `FailoverPolicy`) | the loop and its four actuators | a tick is `Sense`, `SwitchNft`, `SyncExclusions`, `Reroute` in that order, each with its failing variants; `active`, `upAge`, `dyn`, `remote`, `fetchIn` are `run_controller`'s locals; `rules`, `excluded`, `route`, `table` are the actuators, `shown` the published state file the overlay's gate reads |
| `FailoverProofs` | theorems about it | |
| `MCFailover` | views, qualities and settings for TLC | |
| `EgressObserver` | the exit check and its three threads | `tracker` is the `ExitTracker`; `kick`, `stop` are the two `Event`s; `noting` is `set_selected` between the lock's release and `kick.set()`; `pc`, `left`, `asked`, `page` are the checker thread in `_run` and `check_once`; `exit`, `astray`, `readable` are the relay and its trace page |
| `EgressObserverProofs` | theorems about it | |
| `MaintenanceReboot` | two contending maintenance runs and the devices they reboot | `run[r]` is a process: where it is in `run_once`, `reboot_wan1`, `reboot_wan2` or `await_up`, with `left` the time its current call, poll loop or settle still has, `down` = `seen_down`, `staged` = the decision of leg 2, `again` = the fallback is on; `lock`, `window` are the two files; `boot`, `path`, `readable` are what `read_wan_states` shows of the WANs, `bumped` the bootcount against the one noted |
| `MaintenanceRebootProofs` | theorems about it | |
| `HotspotWatchdog` | the watchdog's daemon and its state file | `policy` is the `WatchdogPolicy` (`phase` and `left` stand for `unusable_since` and `healthy_since`, of which one is set; `fired` = `degraded_notified`), `disk` its copy in the state file; a poll is `Poll`, `Save` or `SaveFails`, `Post` or `NoPost`, with a `Crash` anywhere between |
| `HotspotWatchdogProofs` | theorems about it | |
| `EgressRecord` | the egress alert and its record, with the four threads around them | `det` are `EventDetector`'s egress fields (`gen` = `_egress_gen`); `buf`, `hand` are the `Notifier`'s buffer and the page it is sending, `held`, `window` the `RateLimiter`'s of that kind; `ops`, `doing`, `timers`, `keeper` are the `EgressRecordKeeper`'s queue, the operation in its I/O, the retries that wait, and its counters; `record` is the file, `synced` what of it a power loss leaves; `phase` is where the run is between start, `Notifier.stop`, `keeper.close` and the end of the process |
| `EgressRecordProofs` | theorems about it, its refinement of `RecordRegister` among them | |
| `RecordRegister` | abstractly, what the record promises: a register on disk that is written late | no code of its own: `EgressRecord!KeepsRegister` is its specification under the mapping `shown` = the record's mode, `lasting` = the synced one's, `owed` = the operations that still count |
| `Alerts` | the pages about WANs, about all of them, and about switches of the active set | `link[w]` is `_down_since`, `w in _down_alerted`, `w in _maint_suppressed`; `offline` is `_all_down_since` and its flag; `announced`, `pending` are `_announced_active`, `_pending_switch`; `told*` is what the operator has read, over restarts; `amiss`, `offlineAmiss`, `missed` mark where a run's silent seed, or a reboot's own switch, left that picture apart from the detector's; `out`, `bare`, `steady` for how long something has held |
| `AlertsProofs` | theorems about it | |
| `FecControl` | the pure decisions both FEC legs share | `StepLevel` = `step_level`, `ReseedRuntime` = `reseed_runtime`, `ApplyMode` = `apply_mode`, `LadderScale`, `Span` = `ladder_scale`, `ladder_view` |
| `FecEngine` (extends `FecControl`) | the client's FEC leg | `drive` is the driver with its challenge, `profile`, `rt`, `engaged`, `ratio` are `run_controller`'s FEC locals, `wire` is what udpspeeder codes with, `shown` what the card reads; a tick is one action |
| `FecLink` (extends `FecControl`) | `POST /fec` and the relay's FEC leg | `desired`, `acked`, `due` are the client's; `calls[c]` is a POST, in the network or in one of the three critical sections of its handler; `fec` is `FecState`, `loop` the control loop between its three reads, `relayRt`, `last`, `relayRatio` its locals. Its names differ from `FecEngine`'s so that one module of proofs can be about both legs |
| `FecProofs` (extends `FecEngine`, `FecLink`) | lemmas about the decisions the legs share, and theorems about each leg | |
| `MCFecEngine`, `MCFecLink` | tables, settings and profiles for TLC | |

Conventions. Time is counted in the period of the thing modelled (a transmit interval, a controller tick);
a timestamp becomes the time elapsed since it, and saturates where the code stops telling values apart.
Definitions called *faulty variant* in a comment (`TransitionForgetting`, `UpAgeRestarting`, ...) are used by no
specification: each is a plausible bug in the definition after it, and substituting it must make the
property it is named with fail; `mutants` in `PROJECT.json` pairs them.

## 3. Runs

| run | question | result |
|---|---|---|
| `sbfd_path` | lossy, reordering, duplicating path; outages; stalls; no restart | holds: `LossWindowSound`, `UpIsBidirectional`, `NoStaleRevival` |
| `sbfd_live` | restarts, wedged sockets, failing rebuilds and look-ups, moved client, outages, sequence wrap | holds: `TypeOK`, `Recovers`, `OneWayDemoted` |
| `sbfd_restart` | does the watermark keep its promise over a restart of the peer? | **violated**: `NoStaleRevival` |
| `failover` | all inputs and faults of the loop: do the actuators agree, are both clocks kept, does it come to rest? | holds: `TypeOK`, `ActuatorsAgree`, `DeadLinkBounded`, `FailbackHeld`, `DwellHeld`, `Settles` |
| `failover_nft` | do the drop rules converge when `nft list` fails once? | **violated**: `DropsConverge` |
| `egress` | all interleavings of loop, checker and stop, with a relay that lags, strays and hides its page | holds: `TypeOK`, `NoFalseAlarm`, `TellsTheTruth` |
| `egress_record` | pages held, dropped, refused and overtaken; a disk that refuses; kills and power losses between any two steps; two runs | holds: `TypeOK`, `TrustedMeansTold`, `KeepsRegister` (refinement of `RecordRegister`), `RestartStaysSilent`, `CatchesUp` |
| `alerts` | any states, active sets, windows and restarts: is the operator's picture true but for the holds and what a seed takes over? | holds: `TypeOK`, `PagesTellTheTruth`, `SwitchesTold` |
| `fec_engine` | any losses, links, radio, place and mode at each tick, and restarts of udpspeeder | holds: `TypeOK`, `LossAskedForIt`, `CardTellsTheTruth`, `ComesToWhatIsAsked`, `DriverEarnsDwell` |
| `fec_link` | `POST /fec` lost, late, doubled, refused; handlers and control loop interleaved lock by lock; restarts of both daemons | holds: `LinkTypeOK`, `AckedMeansApplied`, `FollowsInTime` |
| `maintenance` | two runs, lost requests and answers, hanging calls, blind state file, failing paths, kills | holds: `TypeOK`, `NeverBothDown`, `WindowCovers`, `QuietMeansUntouched`, `RunEnds` |
| `hotspot` | any samples, crashes and failed saves | holds: `TypeOK`, `BudgetKept`, `GraceKept`, `KeepsTrying` |

A run ends by itself only in `sbfd_path` and `sbfd_restart`, whose packets are bounded: they say `CHECK_DEADLOCK FALSE`.
In all others TLC also checks that the system never stops.

### Bounds

* `SbfdSession`: `MaxInFlight = 1` lets at most one packet per direction be under way in order when an interval
  begins; more are reached through `late`, where a straggler waits while up to `MaxDelay` later packets
  overtake it. `MaxFaults` is 3 for safety, 2 for liveness: every property needs at most two faults to fail
  in the faulty variants, and a third gives an interaction of two with a stall or outage. `sbfd_path`
  and `sbfd_restart` stop each end after `MaxSeq` = 5 packets, which is enough for DOWN-INIT-UP-DOWN and
  back up. `sbfd_live` never stops: its sequence space has four values and wraps. `DetectMult`, `Rewind`, thresholds and
  intervals are the smallest values that leave every branch reachable; the code's own are 3, 64, 3 and so on.
  The client's first address is fixed: which one it is is a matter of naming, and it moves.
* `Failover`: two WANs (the product's deployment), `Hold = Dwell = 2` ticks so that a clock can start,
  be interrupted and run out, the relay fetched every second tick so that a view can be outdated, five
  local and three relay views that include a stale, an unreadable and an INIT one, four link qualities around
  the margins, one without a round-trip time, three settings that differ in policy, master and egress. `MaxEvents = 2` counts every change of input,
  fault and restart. Each faulty variant fails within it, and what it leaves to more events is
  covered by proof: `TypeOK` and four of the other five properties are theorems for all constants (`DwellHeld` for two WANs).
* `EgressObserver`: three modes, one of which needs no check. `RelayLag` is below `Settle` (the relay's tick is 10 s,
  the settle 15 s): that is what the settle is for, and the module assumes it. Two checks in a row make a mismatch or an
  error count (the code's defaults are larger); a fetch may outlast a change of mode, and an interval outlasts a settle. Four events (changes
  of mode, exit and page) are two changes of mode with a straying relay between them, or a mode that goes away and comes
  back during one fetch and settle, with one event to spare.
* `EgressRecord`: one mode that is checked, beside the one that is not: a second one multiplies the states and adds no case,
  since an operation is compared by its generation and its order, not by its mode. Three pages are an alert, its restore and a second alert;
  one change of mode within a run ends an alert without a page; one refusal of the disk puts one operation on a timer behind the others, and
  `Listed = 1` delay in the list lets it be taken from there at once and be retried after. Two runs are one restart; what a third could find is what the second found.
  `StopOutlasts = TRUE` is an assumption, see "Divergences".
* `Alerts`: two WANs, `WanHold = 2`, `SwitchHold = 3`. No bound on the run's length: ages are capped at the hold, beyond which the code tells none apart.
  The holds differ so that one runs out within the other, and both leave a tick between their start and their end.
* `FecEngine`: two WANs, one with a profile whose table is shorter than the default's and holds another ratio at each index; losses 0 and
  9 (the top rung of both); the modes `adaptive`, `min_adaptive` and `fixed`; ramps and dwell of one or two ticks, different in the two profiles, as is the ratio a weak signal asks for. No
  bound on the run's length, nor on restarts of udpspeeder. A configured floor that is the profile's top rung makes floor and level meet.
* `FecLink`: four settings: one that differs from the first in a loss that the client's table puts on the same level, one of an older client that sends no place, one whose profile
  the relay does not know; the profiles differ in their ramps, holds (one or two heartbeats; `Slowest = 2`) and in what a weak signal asks for. Two calls at once
  (symmetric: nothing tells one POST from another), so that one overtakes the other or is retried under it; one change of what is wanted, two faults (posts lost, delayed or
  retried, FIFO writes refused), one restart of either daemon. A unit of time is the heartbeat (30 s); the code's posts and handlers end
  well within it, except for the delayed one, which is a fault.
* `MaintenanceReboot`: time is counted in polls. A device takes up to `DropLag` to drop its link after a reboot, which
  has to be less than the recovery deadline (`TimeAssumption`; the code's own reason to wait for the drop); the drop is
  meant as `sbfd`'s file shows it, so the lag includes BFD's detection and the age of the file. It
  is longer than a settle and a one-shot, the order the code's comments give. `MaxEvents = 3` counts the beginnings of runs,
  kills and failures of the paths and of the file: a run, its kill and a second run that begins while the reboot of
  the first is under way are three.
* `HotspotWatchdog`: all 54 samples in every poll, no bound on crashes, saves that fail or the run's length: the state space is finite
  by itself. The times are two or three polls, ordered as the defaults are (a recovery and a holdoff take longer than a grace), a
  budget of two; the theorems are for all of them.

### Fairness, and urgency

* `SbfdSession`: `WF` on `Elapse` (time passes), on each `Tick` (the select loop's timeout is at most 100 ms
  and it runs every due session) and on each `Deliver` (a packet no fault removed arrives). Nothing is assumed of faults,
  nor that a cut path heals: `Recovers` has healing as its premise.
* `Failover`: `WF(Step)`. The loop is a thread of its own, each of its calls has a timeout, and a failing
  variant of a step costs an event, so it cannot fail for ever.
* `EgressObserver`: `WF` on the steps of each thread (they wait only on events with timeouts), on the relay's
  next tick and on time. `TellsTheTruth` has a premise, that nobody stops the observer; events are bounded, so the
  world comes to rest.
* `EgressRecord`: `WF` on the keeper's taking an operation and doing it, and on a retry's timer running out. Nothing is assumed of the worker: pages may wait for ever.
  Only that the disk's refusals are bounded makes `CatchesUp` come true; it gives up its claim when the run ends.
* `MaintenanceReboot`: `WF` on each run's steps, on time, and on the drop of a device that took a reboot. Nothing makes a device
  come back, a path mend or the file readable: a run has to end without.
* `HotspotWatchdog`: `WF` on the daemon's steps and on `Restart` (`Restart=always`). A save or a post may always be the failing one;
  `KeepsTrying` has as its premise that saves succeed.
* `FecEngine`, `FecLink` and `Alerts` need no fairness: what must come about there is stated with a deadline, as an invariant. `quiet`
  in the one and `steady` in the other counts the time since anything but the loop's own work last happened, and `ComesToWhatIsAsked` and
  `FollowsInTime` say what is true once it reaches `Patience` or `FollowTime`, which are made of the delays the code is configured
  with: a dwell and the longest of the profiles' ramps and holds; and `Slowest`, which is no less than any profile's ramp up and hold and the age at which a push
  is stale, and three heartbeats. In `FecLink` time is *urgent*: `Elapse` waits for what the code does without
  waiting (a due post, a handler, the control loop's tick), so that a deadline means something.

### What the violated runs show

1. **`sbfd_restart`.** After a demotion the watermark stays so that packets from before it "must not walk us
   back to UP". A restart of the peer is recognised by a large step back of its sequence number,
   which lowers the watermark; packets of the peer's previous life still under way then look new and take the session
   to UP. Without restarts the promise holds, and is proved (`WatermarkHolds`).
2. **`failover_nft`.** A failing `nft list` reads like an empty chain. The rule of the newly active link is not removed, the
   switch counts as done, and nothing compares again before the next switch.

### Divergences met on the way

Where a doc or comment says more than the code does and no run is spent on it, the model does what the code does, and the property next to it says
what remains true:

* *Failback hold on a dead backup* (`docs/architecture.md:51`, `sbfd_ctl.py:371-394`). While the hold runs, the backup is kept without a look at its
  state. If it goes DOWN then, traffic stays on it next to a master that is UP until the hold is over. `DeadLinkBounded` shows
  that the hold is the only cause and the longest such time.
* *Dwell with three WANs* (`sbfd_ctl.py:234-239`). Off the configured master, with two other WANs UP, a held bid of the configured master survives its own link being DOWN, so that it
  may be given traffic before it was UP for the dwell. `DwellHeld` is checked, and proved, for two.
* *A check without its settle* (`egress_observer.py:246-248` against `263-270`). `set_selected` changes the mode under the lock and sets the kick after releasing it;
  a check that starts between the two is about the new mode without a settle, and counts the old exit as one mismatch. `NoFalseAlarm` shows that with two checks
  to a mismatch this never becomes an alarm.
* *A forged receipt* (`maintenance_reboot.py:5-6` against `597`). For `await_up` any fresh reading of wan1 that is not UP is the receipt of its reboot. A flap after
  the request and before the drop forges it, and leg 2 may reboot wan2 while wan1 drops. `NeverBothDown` says when else that can happen, by naming what
  sets `misled`: a one-shot that hangs past its timeout after it posted the restart, a terminal that takes a reboot whose answer is lost, and a run
  that begins while the reboot of a killed one has not shown yet. Without those no order of two runs, lost requests, failing paths and
  unreadable files reboots both.
* *A page taken after the shutdown's wait* (`sbfd_ctl.py:4189-4192`). The comment says that it fails toward a repeated page, since its record is never trusted. A page
  accepted after `Notifier.stop` gave up may meet a record of an earlier page that is being marked at that moment; with `StopOutlasts = FALSE` TLC finds
  `TrustedMeansTold` violated. The run assumes `TRUE`.
* *What a seed takes over* (`notify.py:945-950`). What a run finds broken counts as announced, whether the last run told it or not. So an outage that began
  while the controller was down, or was still in its hold, is not paged; a WAN that was paged down and is UP at the seed stays down for the operator until its next page;
  a WAN that was paged down and is down under its window at the seed counts as not announced (`notify.py:952-954`), so that a recovery inside the window is withheld, although
  "whoever was paged must be told it is back" (`notify.py:1089-1092`); that all WANs are down is taken over likewise, and has no page for its end but those of the WANs, the first of which may be withheld by a window; and a switch that waits for its hold when a run ends, or that is
  made between two runs, is never told. `toldDown`, `toldOffline` and `toldActive` carry the operator's picture over the seed; `PagesTellTheTruth` and
  `SwitchesTold` except what the seed left apart (`amiss`, `offlineAmiss`, `missed`), each until its next page.
* *No round-trip time on either link* (`sbfd_ctl.py:235-236` against `260-272`). A time that is missing is infinite, and infinite plus a margin is no more than infinite: with both
  missing any challenger is faster than the configured master, and the master is not faster than what took its place. So the policy moves off
  the master after a dwell, and not back for its time.
* *udpspeeder's restart* (`sbfd_ctl.py:3887`). It comes back with the ratio of its unit, and nothing writes the FIFO before the wanted ratio changes next: until then the ratio shown is not the wire's.
  `CardTellsTheTruth` says nothing of the wire after one (`restarted`), and `ComesToWhatIsAsked` is about the ratio held, not the wire.
* *Spelling of a ratio* (`fec_control.py:155-159`). A row is looked up by its text, so that 8:2 and 4:1 are different rows. `FecControl` knows a ratio by its overhead: a configuration is taken to spell each overhead
  in one way.
* *A pending switch that the maintained WAN drops* (`notify.py:1173-1175`). The reboot's own switch is excused, and clears whatever switch of another WAN still
  waited for its hold, which is then never told. `SwitchesTold` excepts it as `missed`.
* *"Hold restarted from the window's close"* (`notify.py:1077-1082`). So it is for an outage that began under the window; a hold that had begun before it runs
  on through it, and the page comes as soon as the window closes. `PagesTellTheTruth` allows both.
* *The dot outside a pinned span* (`sbfd_ctl.py:2071-2078`). The engine ramps to the rung the backoff pins, down by one hold or up by its ticks; until it is there the
  dot is outside the span of one rung, above or below. `CardTellsTheTruth` excepts it as `settling`.

## 4. Proofs

`TLAPS` proves, for every value of the constants that satisfies the named assumptions:

| theorem | states |
|---|---|
| `SbfdSessionProofs!TypeCorrect` | `TypeOK`, with `tx_seq` inside its width |
| `SbfdSessionProofs!LossWindowIsSound` | `LossWindowSound`, all faults included |
| `SbfdSessionProofs!UpMeansHeard` | `UpIsBidirectional`, for instances without restarts |
| `SbfdSessionProofs!WatermarkHolds` | `NoStaleRevival`, without restarts and wrap, when the path reorders by no more than the rewind distance |
| `FailoverProofs!TypeCorrect` | `TypeOK`; in particular `active` is never empty |
| `FailoverProofs!DeadLinksEnd` | `DeadLinkBounded` |
| `FailoverProofs!HoldIsKept` | `FailbackHeld` |
| `FailoverProofs!ActuatorsInAgreement` | `ActuatorsAgree` |
| `FailoverProofs!DwellIsKept` | `DwellHeld`, for two WANs: the link moved to was UP for the dwell (not that it challenged throughout) |
| `EgressObserverProofs!TypeCorrect` | `TypeOK` |
| `EgressObserverProofs!AlarmsAreTrue` | `NoFalseAlarm`, with two checks or more to a mismatch |
| `EgressRecordProofs!TypeCorrect` | `TypeOK` |
| `EgressRecordProofs!RecordIsARegister` | `KeepsRegister`: the record implements `RecordRegister` |
| `EgressRecordProofs!TrustedIsTold` | `TrustedMeansTold`, when the shutdown's wait outlasts the worker (`StopOutlasts`) |
| `EgressRecordProofs!RestartIsSilent` | `RestartStaysSilent` |
| `FecProofs!TypeCorrect`, `FecProofs!LinkTypeCorrect` | `TypeOK` of `FecEngine`, `LinkTypeOK` of `FecLink`: a level is a rung of the table it is used with |
| `FecProofs!DwellIsEarned` | `DriverEarnsDwell` |
| `FecProofs!LossAsks` | `LossAskedForIt` |
| `FecProofs!CardIsTrue` | `CardTellsTheTruth`, for tables whose ratios rise; of the wire until udpspeeder restarts |
| `FecProofs!ComesToRest` | `ComesToWhatIsAsked` |
| `FecProofs!AckIsTrue` | `AckedMeansApplied` |
| `FecProofs!FollowsSoon` | `FollowsInTime`, for any times of each profile |
| `AlertsProofs!TypeCorrect` | `TypeOK`: an outage is announced or withheld, never both; a switch that waits is the last one |
| `AlertsProofs!PagesAreTrue` | `PagesTellTheTruth`, with its exception for what a seed took over |
| `AlertsProofs!SwitchesAreTold` | `SwitchesTold`, with its exceptions |
| `MaintenanceRebootProofs!TypeCorrect` | `TypeOK`: only the run that holds the lock is anywhere |
| `MaintenanceRebootProofs!OneStaysUp` | `NeverBothDown` |
| `MaintenanceRebootProofs!QuietIsTrue` | `QuietMeansUntouched` |
| `MaintenanceRebootProofs!WindowIsOpen` | `WindowCovers`, with a margin above zero |
| `HotspotWatchdogProofs!TypeCorrect` | `TypeOK` |
| `HotspotWatchdogProofs!BudgetIsKept` | `BudgetKept` |
| `HotspotWatchdogProofs!GraceIsKept` | `GraceKept`, when a recovery takes no less time than a grace |

Arguments. *UpMeansHeard*: UP needs a packet whose flag is set; a flag is set only by a peer that is INIT or UP and so
has accepted a packet of this life of ours; without restarts that remains true. The inductive invariant
(`Hearing`) says so of the sessions and of every packet in `net` and `late`. *WatermarkHolds*: what is filtered
is exactly what lies between the watermark and the rewind distance below it; the invariant (`Ordered`) says that
every packet under way is at most `MaxDelay` behind what its sender sent last, that the watermark is what was
accepted last, and that the packet that demoted a session is not above it, so an accepted packet
lies above both. The premise on restarts is needed, see `sbfd_restart`.

*Loop*: `LoopInv` has four parts: `HoldClock` (`master_up_since` never claims more than the master's observed time UP,
as long as the master has stayed the same), `PlanHeld` (a plan that keeps the backup on a dead link does so
inside the hold), `PlanTaken` (after a clean nft step the plan is what is active) and `DeadClock` (time spent on a dead
link is bounded by the hold clock). None of the two properties is inductive without them: the number of ticks on a dead
link is bounded only because it is tied to the hold's own clock. The lemmas before them establish that the `CHOOSE`s of
the policy (first listed, best link) have a value, by the least-number principle on `Rank`. `ActuatorInv` says of each actuator what is known of it between the
steps of a tick: the rules are those of `active` unless an nft call left one astray (`RulesSound`), the exclusions are the plan's once their step was clean (`ExclusionsTaken`), and the default that was decided on
is an UP link if there was one (`DefaultSound`). `DwellClock` says that a bid is never older than its link has been UP; with three WANs it is false, see "Divergences".

*Exit check*: an alarm needs two mismatches in a row. `AlarmInv` says that the relay applies a mode within the settle (`RelayInTime`), that a check under way
is either about a relay that has settled or precedes the settle that the pending kick brings (`SettleAhead`, `EarlyPage`), that there is at most one such early check to a mode
(`OneEarly`), and so that the count is explained by it and by a relay that strayed (`AlarmCounted`). With a single check to a mismatch the claim is false.

*Pages*: `LinkSound` relates, for each WAN, the code's three fields to how long it has really been out, and bare of an excuse, and to what the operator has read; `PagesTellTheTruth`
reads off it, for the WANs that the seed did not find in another state than the operator was told (`amiss`) or that were paged since. The same is done for the active set with `announced`, `pending` and the time it has been steady.

*Maintenance*: a run acts on what it read a step ago. `DevicesInv` says what it still knows (`LegSound`), unless `misled`: in leg 1 that wan2 runs and wan1's path works, in leg 2 that wan1 runs, before a request
that the device was not asked yet, and while it waits that a device on its way down drops before the deadline: `lag < left`, which the assumption that a lag is shorter than the recovery deadline starts and the
clock keeps. From it follows that the first down seen is the reboot's own, and so that leg 2 begins with wan1 back; that the lock makes the run the only one not idle is part of `TypeOK`. `QuietMeansUntouched` reads off the same
invariant. `WindowInv` bounds, for each place, what the leg may still take (`Remaining`, the fallback's second try included) by what is left of its window; no margin would be one unit too little.

*Watchdog*: the number of reboots posted is not inductive, since a policy that gave up counts from zero again. `BudgetInv` says, of the policy in
memory and of the one on disk alike, that it counts every reboot posted or is holding off since the last (`Credit`), that
a recovery counts no more time than went by without a saved bad poll (`Recovering`), and that an attempt that is still
to be posted is paid for (`Paid`), on disk when it goes out (`Saved`); that it holds of both copies is what makes crashes and failed
saves harmless. `GraceInv` has the same shape.

*Egress record*: the three claims rest on one invariant about the queue (`Queue`): no two operations waiting, on a timer or under way have the same number, none is of a generation yet
to come, a mark is the last operation of a run that closes. *RecordIsARegister* adds `LastTold`: while a run lasts, the operation with the highest number that still counts
writes what the record was last told, or nothing is outstanding and the record shows it. So a retry put back behind newer operations undoes none of them,
and each step is one of `RecordRegister` or a stutter. *TrustedIsTold* adds what the mark says (`Marked`: a run's mark is the last thing it does, on the record it was last told) and
how what the record was told relates to what the operator was told (`NewsRead`); it has a premise, that the worker sends what it has in the time the shutdown
waits (`StopOutlasts`), without which TLC refutes it, see "Divergences". *RestartIsSilent* follows the mark: in the queue, under way, or written (`MarkOnItsWay`).

*FEC, the client's leg*: `DriverEarnsDwell` is inductive with `Challenge`, that a challenge in flight is of the worst WAN and no older than that one's lead.
`LossAskedForIt` says nothing at the idle rung, from which a change of profile may start: `Claimed` drops that exception, and a step to another table keeps the ratio or falls to its lowest rung,
which holds no more than what is asked as ratios rise with the rungs. `CardTellsTheTruth` follows from the tick alone, by lemmas on the ladder:
positions on the scale rise with the ratio, the span of a set of ratios holds the position of each, and what a level can reach contains what the tick applies. For
`ComesToWhatIsAsked` the invariant (`Resting`) says where in its delays the leg is: either another WAN drives, and the worst one's challenge is as old as the quiet; or it drives, and
its clock (the run of higher targets, or the time the level has held) has run since no later than a dwell after things came to rest (`Nearing`).

*FEC, the relay's leg*: a call's handler has come to one of three places, and while no other call has touched the relay it holds what the handler has written up to there (`Acking`, with `Heard` per place); `AckedMeansApplied` is
its last place. `FollowsInTime` needs to know what each unit of steady time brings (`Following`): after one the heartbeat is due, under way alone, or handled in this unit (`Posted`); after
two the relay holds what is wanted and it is fresh (`Fresh`), and from its next tick on the loop reads it (`Reads`); after three the level is right, or its clock has kept up with the units
gone by (`Nears`), and each clock is shorter than `FollowTime` less three. Of a client that is gone, what it pushed is as old as the steady time (`Follows`).

Both legs' proofs cite one set of lemmas about `FecControl`: a level computed by any of its operators is a rung of the table, a change of profile keeps the ratio when the new table has it,
a step ends at its target or advances a clock. None needs induction over the table: `Min` and `Max` are `CHOOSE`s, which `Topmost` shows to have a value: the subsets of a finite set are well-founded. That the rows' ratios
rise (`Rising`) is assumed of the client's two tables only, by `TableAssumption`, and so by every theorem about `FecEngine`; it is so of the code's own, and nothing in the code checks an operator's:
with one that falls a place can be credited although the ratio would be no lower without it.

What the proofs found in the model. `FollowTime` was the longer of the hold and the staleness, and three: a ramp up of more ticks than that breaks the bound, which no run has; it now counts `UpTicks`, and by `Slowest` each profile's. `settling` was "above the pinned rung"; a pin may also
be reached from below.

Only model-checked, since out of the prover's reach: what is claimed under fairness (`Recovers`, `OneWayDemoted`, `Settles`, `TellsTheTruth`, `CatchesUp`, `RunEnds`, `KeepsTrying`). Every other property of a passing run is a theorem,
with the premises the table names. What the ladder's operators compute is stated for the model's definitions, by sets; that the code's loops over rows compute the same is read, not proved.

## 5. Plan

Written: the modules of section 2. To come, in this order:

1. The overlay's load-change-save by concurrent handlers; abstractly, a register per setting.
2. The environmental override's hysteresis per signal and the handoff window's rate limit, now inputs of `Failover` and `FecEngine`.
3. The watchdog's daemon next to a maintenance run, with which it shares no lock.
4. Proofs: the steps behind the liveness properties (what each fair step brings closer), as invariants; `DwellHeld` for what remains true with three WANs.

Runs stay few: a run that turns out to ask what another one does is merged with it, as those about the loop's safety and liveness were.

## 6. Not modelled

Parsing, state files' formats, logging, HTTP plumbing, TLS and authentication; the RTT estimate and the EWMA of the loss (numbers no
decision in a modelled module distinguishes beyond the margins); a wall clock that steps (all timestamps of
the loop are `time.time()`); three or more WANs in TLC's instances (the theorems cover them, but for `DwellHeld`); `_best_link`, which nothing
calls; the hour gate, dry run and notifications of the maintenance run; which alerts the
watchdog already sent, and a reboot of the box, which clears the watchdog's state in `/run`.

Of the notifications, the edges that are one comparison each (mode, environment, FEC, relay, the exit check's own state) and the wording. Of the
FEC, the operator's text entry of ratios, `GET` handlers, the wire report and its history, which are for display only. The place's
floor is an input: what is learned per map tile is numerical, and the station learner likewise.
`environ_ctl.py` and `cell_telemetry.py` are inputs that change at any time; their own hysteresis is in the plan. Concurrent requests to the UI server are in the plan
as well.

The shell scripts under `deploy/`, the installer, the UI's JavaScript and the development
tools hold no state that interacts with the parts above other than through the interfaces modelled.
