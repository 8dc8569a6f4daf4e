------------------------------ MODULE Failover ------------------------------
(***************************************************************************)
(* The controller loop of sbfd-ctl (run_controller) over the decisions of  *)
(* FailoverPolicy: what it reads each tick, what it remembers from tick to *)
(* tick, and the four actuators it drives one after the other -- the nft   *)
(* drop rules, engarde's runtime exclusions, the managed default route and *)
(* the default of the engarde table.  A tick is four steps, so that a      *)
(* restart of the controller or of engarde can fall between two actuators. *)
(***************************************************************************)
EXTENDS FailoverPolicy

CONSTANTS
  CellWan,               \* cell.wan, or NoWan without cell telemetry
  WgIface,               \* egress.wg_iface, the relay side of the PBR table
  LocalViews,            \* the snapshots the local sbfd's state file may give
  RelayViews,            \* the snapshots the relay's /state may give
  Qualities,             \* the round-trip times and losses there may be
  Overlays,              \* the settings the operator may apply
  FetchEvery,            \* relay.fetch_interval_s, in ticks
  Faults, MaxEvents      \* what may go wrong, and how many events in all

ASSUME SettingAssumption ==
  /\ CellWan \in Wans \cup {NoWan} /\ WgIface \notin Wans \cup {NoWan}
  /\ LocalViews \subseteq Snapshot /\ LocalViews # {}
  /\ RelayViews \subseteq {s \in Snapshot : ~s.stale} /\ RelayViews # {}
  /\ Qualities \subseteq [rtt: [Wans -> Nat \cup {NoRtt}], loss: [Wans -> Nat]]
  /\ Qualities # {} /\ Overlays # {}
  /\ Overlays \subseteq [mode: Modes, policy: Policies, master: Wans,
                         egress: {"relay", "local_direct"}]
  /\ FetchEvery \in Nat \ {0} /\ MaxEvents \in Nat
  /\ Faults \subseteq {"nft_batch", "nft_line", "nft_list", "admin_api",
                       "gateway", "engarde_restart", "restart"}

VARIABLES
  \* What a tick reads: the operator's overlay, whether a fresh and enabled
  \* hazard override and an open handoff window stand, the two views, quality.
  overlay, hazard, handoff, local, relay, quality,
  \* What the loop remembers: last_remote and when to fetch it again,
  \* currently_active, master_up_since and the dynamic_* fields.
  remote, fetchIn, active, upAge, dyn,
  \* Where the tick stands, what it merged and what it decided.
  pc, eff, plan,
  \* The actuators: drop rules per WAN (a rule can be added twice), engarde's
  \* exclusions, the managed default route and the engarde table's default.
  \* And the state file the UI reads: the WANs it shows DOWN at this end.
  rules, excluded, route, table, shown,
  \* History: whether the last tick ran through with nothing refused, whether
  \* no drop rule was left astray by a failing nft, for how many ticks each WAN
  \* was UP and the master was the same, and for how many traffic was on no UP
  \* WAN though there was one.  And the events so far.
  clean, sound, upFor, resolvedFor, deadFor, events

inputs  == <<overlay, hazard, handoff, local, relay, quality>>
memory  == <<remote, fetchIn, active, upAge, dyn>>
devices == <<rules, excluded, route, table, shown>>
history == <<upFor, resolvedFor, deadFor>>
vars == <<inputs, memory, pc, eff, plan, devices, clean, sound, history, events>>

Blocked(r) == {w \in Wans : r[w] > 0}
NotFetched == [ok |-> FALSE, stale |-> FALSE, state |-> [w \in Wans |-> "UNKNOWN"]]
Egress == Wans \cup {NoWan, WgIface}

\* Counts of the history stop just above what they are compared with.
Enough == IF Hold > Dwell THEN Hold + 1 ELSE Dwell + 1
More(n) == IF n = Enough THEN n ELSE n + 1

-----------------------------------------------------------------------------
EgressModes == {"relay", "local_direct"}
Plan == [mode: Modes, policy: Policies, master: Wans, egress: EgressModes,
         active: (SUBSET Wans) \ {{}}, default: Wans \cup {NoWan}]

InputTypes ==
  /\ overlay \in Overlays /\ hazard \in BOOLEAN /\ handoff \in BOOLEAN
  /\ local \in LocalViews /\ relay \in RelayViews /\ quality \in Qualities
MemoryTypes ==
  /\ remote \in RelayViews \cup {NotFetched} /\ fetchIn \in 0 .. FetchEvery
  /\ active \in (SUBSET Wans) \ {{}} /\ upAge \in {NoTime} \cup 0 .. Hold
  /\ dyn \in Pick
TickTypes ==
  /\ pc \in {"sense", "nft", "exclude", "route"}
  /\ eff \in [Wans -> EffState] /\ plan \in Plan
DeviceTypes ==
  /\ rules \in [Wans -> Nat] /\ excluded \in SUBSET Wans
  /\ route \in Wans \cup {NoWan} /\ table \in Egress /\ shown \in SUBSET Wans
HistoryTypes ==
  /\ clean \in BOOLEAN /\ sound \in BOOLEAN /\ upFor \in [Wans -> 0 .. Enough]
  /\ resolvedFor \in 0 .. Enough /\ deadFor \in 0 .. Enough
  /\ events \in 0 .. MaxEvents

\* Above all: some WAN is always to carry traffic.
TypeOK == InputTypes /\ MemoryTypes /\ TickTypes /\ DeviceTypes /\ HistoryTypes

\* What apply_nft_init leaves.
NoRules == [w \in Wans |-> 0]

Init ==
  /\ overlay \in Overlays /\ local \in LocalViews /\ relay \in RelayViews
  /\ quality \in Qualities /\ hazard = FALSE /\ handoff = FALSE
  /\ remote = NotFetched /\ fetchIn = 0
  /\ active = Wans /\ upAge = NoTime /\ dyn = NoPick /\ rules = NoRules
  /\ pc = "sense" /\ eff = [w \in Wans |-> "UNKNOWN"]
  /\ plan = [mode |-> "full", policy |-> "static_primary", master |-> DefaultMaster,
             egress |-> "relay", active |-> Wans, default |-> NoWan]
  /\ excluded = {} /\ route = NoWan /\ table = WgIface /\ shown = {}
  /\ clean = FALSE /\ sound = TRUE /\ upFor = [w \in Wans |-> 0]
  /\ resolvedFor = 0 /\ deadFor = 0 /\ events = 0

-----------------------------------------------------------------------------
(* What happens around the loop.  The inputs are read once, as a tick       *)
(* begins, so changing them between ticks is changing them at any time.     *)

Event == events < MaxEvents /\ events' = events + 1
InputEvent ==
  pc = "sense" /\ Event
  /\ UNCHANGED <<memory, pc, eff, plan, devices, clean, sound, history>>

LocalReport == \E s \in LocalViews \ {local} :
  local' = s /\ InputEvent /\ UNCHANGED <<overlay, hazard, handoff, relay, quality>>
RelayReport == \E s \in RelayViews \ {relay} :
  relay' = s /\ InputEvent /\ UNCHANGED <<overlay, hazard, handoff, local, quality>>
QualityShift == \E q \in Qualities \ {quality} :
  quality' = q /\ InputEvent /\ UNCHANGED <<overlay, hazard, handoff, local, relay>>

\* POST /api/runtime: the box's own exit is refused while the state file shows
\* the master to be used for it DOWN; a setting already made is not asked again.
Refused(o) == /\ o.egress = "local_direct" /\ overlay.egress # "local_direct"
              /\ o.master \in shown
OperatorApply == \E o \in Overlays \ {overlay} :
  /\ ~Refused(o)
  /\ overlay' = o /\ InputEvent /\ UNCHANGED <<hazard, handoff, local, relay, quality>>

HazardChange ==
  hazard' = ~hazard /\ InputEvent /\ UNCHANGED <<overlay, handoff, local, relay, quality>>
HandoffChange ==
  /\ CellWan # NoWan /\ handoff' = ~handoff /\ InputEvent
  /\ UNCHANGED <<overlay, hazard, local, relay, quality>>

\* engarde-client restarts and forgets its runtime exclusions.
EngardeRestart ==
  /\ "engarde_restart" \in Faults /\ Event
  /\ excluded' = {} /\ clean' = FALSE
  /\ UNCHANGED <<inputs, memory, pc, eff, plan, rules, route, table, shown, sound, history>>

\* The controller restarts, between any two of its steps; a clean stop takes
\* the managed default route along.
ControllerRestart ==
  /\ "restart" \in Faults /\ Event
  /\ remote' = NotFetched /\ fetchIn' = 0
  /\ active' = Wans /\ upAge' = NoTime /\ dyn' = NoPick /\ rules' = NoRules
  /\ pc' = "sense" /\ clean' = FALSE /\ sound' = TRUE
  /\ route' \in {route, NoWan}
  /\ upFor' = [w \in Wans |-> 0] /\ resolvedFor' = 0 /\ deadFor' = 0
  /\ UNCHANGED <<inputs, eff, plan, excluded, table, shown>>

-----------------------------------------------------------------------------
(* The tick.                                                               *)

\* apply_auto_override, then apply_handoff_window: either only raises to full.
EffectiveMode ==
  IF hazard \/ (handoff /\ CellWan \in active) THEN "full" ELSE overlay.mode

\* The view of the relay: fetched when its interval is over.
Fetched == IF fetchIn = 0 THEN relay ELSE remote

\* From load_runtime_overlay to pick_default_wan.
Sense ==
  \E seen \in {Merge(local, Fetched)} :
  \E out \in {Decide([mode |-> EffectiveMode, policy |-> overlay.policy,
                      configured |-> overlay.master, eff |-> seen, q |-> quality,
                      upAge |-> Later(upAge, Hold), active |-> active,
                      dyn |-> [dyn EXCEPT !.age = Later(@, Dwell)]])} :
      /\ pc = "sense" /\ pc' = "nft"
      /\ remote' = Fetched
      /\ fetchIn' = IF fetchIn = 0 THEN FetchEvery - 1 ELSE fetchIn - 1
      /\ eff' = seen /\ upAge' = out.upAge /\ dyn' = out.dyn
      /\ plan' = [mode |-> EffectiveMode, policy |-> overlay.policy,
                  master |-> out.master, egress |-> overlay.egress,
                  active |-> out.active, default |-> DefaultWan(seen, out)]
      /\ upFor' = [w \in Wans |-> IF seen[w] = "UP" THEN More(upFor[w]) ELSE 0]
      /\ resolvedFor' = IF out.master = plan.master THEN More(resolvedFor) ELSE 0
      /\ clean' = TRUE
      /\ UNCHANGED <<inputs, active, devices, sound, deadFor, events>>

\* compute_nft_diff against the rules listed, which is none when the listing
\* failed; a rule is deleted by its handle, and one not found counts as gone.
ToAdd(listed)    == (Wans \ plan.active) \ listed
ToRemove(listed) == listed \cap plan.active
Applied(added, removed) ==
  [w \in Wans |-> IF w \in added THEN rules[w] + 1
                  ELSE IF w \in removed THEN rules[w] - 1 ELSE rules[w]]

ToExclude == /\ pc = "nft" /\ pc' = "exclude"
             /\ UNCHANGED <<inputs, remote, fetchIn, upAge, dyn, eff, plan,
                            excluded, route, table, shown, history>>

SwitchNft ==
  /\ ToExclude
  /\ IF plan.active = active THEN UNCHANGED <<rules, sound>>
     ELSE /\ rules' = Applied(ToAdd(Blocked(rules)), ToRemove(Blocked(rules)))
          /\ sound' = (sound \/ \A w \in Wans : rules[w] < 2)
  /\ active' = plan.active
  /\ UNCHANGED <<clean, events>>

SwitchFault(fault) ==
  fault \in Faults /\ plan.active # active /\ Event /\ ToExclude

\* `nft list` fails, for the diff or for the handle of a rule to delete.
SwitchNftListFails ==
  /\ SwitchFault("nft_list")
  /\ \E listed \in {{}, Blocked(rules)} : \E found \in SUBSET ToRemove(listed) :
       /\ listed = {} \/ found # ToRemove(listed)
       /\ rules' = Applied(ToAdd(listed), found)
  /\ active' = plan.active /\ sound' = FALSE
  /\ UNCHANGED clean

\* `nft -f -` refuses the batch, which applies nothing.
SwitchNftRefused ==
  /\ SwitchFault("nft_batch")
  /\ clean' = FALSE
  /\ UNCHANGED <<active, rules, sound>>

\* The refusal reads like a rule not found: the batch is retried line by line,
\* additions before deletions, until a line cannot be applied.
SwitchNftHalfApplied ==
  /\ SwitchFault("nft_line")
  /\ LET add == ToAdd(Blocked(rules))  rem == ToRemove(Blocked(rules))
     IN  \E added \in SUBSET add, removed \in SUBSET rem :
           /\ added \cup removed # add \cup rem
           /\ removed = {} \/ added = add
           /\ rules' = Applied(added, removed)
  /\ clean' = FALSE /\ sound' = FALSE
  /\ UNCHANGED active

ToRoute == /\ pc = "exclude" /\ pc' = "route"
           /\ UNCHANGED <<inputs, memory, eff, plan, rules, route, table, shown, sound, history>>

\* Faulty variant: what is excluded is never included again.
SyncExclusionsAddOnly ==
  /\ ToRoute /\ excluded' = excluded \cup (Wans \ plan.active)
  /\ UNCHANGED <<clean, events>>

\* sync_engarde_exclusions, matched to the plan whether or not nft took it.
SyncExclusions ==
  /\ ToRoute /\ excluded' = Wans \ plan.active /\ UNCHANGED <<clean, events>>

\* The admin API refuses the listing or some of the exclusions it is sent.
SyncExclusionsFails ==
  /\ "admin_api" \in Faults /\ Event /\ ToRoute
  /\ LET want == Wans \ plan.active
     IN  /\ excluded # want
         /\ \E taken \in SUBSET ((want \ excluded) \cup (excluded \ want)) :
              /\ excluded' = (excluded \cup (taken \cap want)) \ (taken \ want)
              /\ excluded' # want
  /\ clean' = FALSE

\* Traffic is on a link that is not UP while another one is.
OnDeadLink == Ups(eff) # {} /\ active \cap Ups(eff) = {}

EndTick ==
  /\ pc = "route" /\ pc' = "sense"
  /\ shown' = IF local.ok THEN {w \in Wans : local.state[w] = "DOWN"} ELSE {}
  /\ deadFor' = IF OnDeadLink /\ clean THEN More(deadFor) ELSE 0
  /\ UNCHANGED <<inputs, memory, eff, plan, rules, excluded, sound, upFor, resolvedFor>>

\* compute_route_action and compute_engarde_table_action: no WAN to choose
\* leaves the route, and the table too unless it goes to the relay.
WantedRoute == IF plan.default = NoWan THEN route ELSE plan.default
WantedTable == IF plan.egress = "relay" THEN WgIface
               ELSE IF plan.default = NoWan THEN table ELSE plan.default

Reroute ==
  /\ EndTick
  /\ route' = WantedRoute /\ table' = WantedTable
  /\ UNCHANGED <<clean, events>>

\* A gateway cannot be read, or a replacement is refused: for the route, for
\* the table or for both, neither waits on the other.
RerouteFails ==
  /\ "gateway" \in Faults /\ Event /\ EndTick
  /\ route' \in {route, WantedRoute} /\ table' \in {table, WantedTable}
  /\ <<route', table'>> # <<WantedRoute, WantedTable>>
  /\ clean' = FALSE

Step == \/ Sense
        \/ SwitchNft \/ SwitchNftListFails
        \/ SwitchNftRefused \/ SwitchNftHalfApplied
        \/ SyncExclusions \/ SyncExclusionsFails
        \/ Reroute \/ RerouteFails

Next == \/ LocalReport \/ RelayReport \/ QualityShift \/ OperatorApply
        \/ HazardChange \/ HandoffChange \/ EngardeRestart \/ ControllerRestart
        \/ Step

Spec == Init /\ [][Next]_vars
\* The loop has a thread of its own and waits on nothing without a timeout.
FairSpec == Spec /\ WF_vars(Step)
-----------------------------------------------------------------------------
(* Properties.                                                             *)

Between == pc = "sense" /\ clean
Decided == pc = "sense" /\ pc' = "nft" /\ plan'.mode = "master_backup"

\* After a tick in which nothing was refused, nft and engarde block exactly
\* the WANs that are to carry nothing, and the box's own traffic leaves by a
\* link that is UP, one in use where one in use is UP (sync_engarde_exclusions,
\* pick_default_wan: "callers no-op rather than black-hole").
ActuatorsAgree ==
  Between => /\ excluded = Wans \ active
             /\ sound => Blocked(rules) = Wans \ active
             /\ Ups(eff) # {} =>
                  /\ route \in Ups(eff)
                  /\ active \cap Ups(eff) # {} => route \in active
                  /\ table \in Ups(eff) \cup {WgIface}

\* Under a static policy the loop goes back to the master only after the same
\* master was UP for failback_hold_s without a break, whatever the operator,
\* the overrides and failing actuators did meanwhile; a change of master
\* within that time is the one thing that shortens it (decide).
FailbackHeld ==
  [][/\ Decided /\ plan'.policy # "dynamic" /\ resolvedFor' > Hold
     /\ active = {Backup(plan'.master)} /\ plan'.active = {plan'.master}
     => upFor'[plan'.master] > Hold]_vars

\* The sticky master gives way to a link only once that link has been UP for
\* the dwell, unless it went down itself (_dynamic_pick, away from home "for
\* >= dwell_s" and back "after dwell_s").  So it is with two WANs; with three a
\* held bid of the configured master survives its being DOWN.
DwellHeld ==
  [][/\ Decided /\ plan'.policy = "dynamic"
     /\ dyn.master # NoWan /\ dyn'.master # dyn.master /\ eff'[dyn.master] = "UP"
     => upFor'[dyn'.master] > Dwell]_vars

\* Traffic sits on links none of which is UP, though another one is, for no
\* more ticks than the failback hold has: whatever is chosen, the hold is the
\* only reason not to use an UP link (decide).
DeadLinkBounded == deadFor <= Hold

\* Once nothing changes any more, the loop comes to rest with the actuators
\* in agreement, and in master_backup mode on one link that is UP.  The drop
\* rules are excepted when nft left one astray, see DropsConverge.
Settled ==
  /\ excluded = Wans \ active
  /\ sound => Blocked(rules) = Wans \ active
  /\ plan.mode = "full" => active = Wans
  /\ plan.mode = "master_backup" /\ Ups(eff) # {} => \E w \in Ups(eff) : active = {w}
  /\ Ups(eff) # {} => route \in Ups(eff)
Settles == <>[]Settled

\* compute_nft_diff's lines "converge to (all_wans - desired_active)": in the
\* end the drop rules are those of the active set, when nft fails now and
\* then.  Does not hold: nothing looks at the rules until the next switch.
DropsConverge == <>[](Blocked(rules) = Wans \ active)
=============================================================================
