----------------------------- MODULE FecEngine -----------------------------
(***************************************************************************)
(* The client's FEC leg (sbfd_ctl.py): on each tick of run_controller, the *)
(* choice of the WAN that drives it, of that WAN's profile, of the level,  *)
(* and the write of the ratio to udpspeeder's FIFO.                        *)
(*                                                                         *)
(* What a tick reads is its Situation, any at each tick: the WANs engarde  *)
(* sends on, the losses (relay's or local), the radio, the place's floor,  *)
(* the operator's mode.  Failover decides the first; here it is any, since *)
(* engarde may refuse.  A clock counts ticks.  udpspeeder is external: it  *)
(* may restart at any moment.                                              *)
(***************************************************************************)
EXTENDS FecControl

CONSTANTS
  WanNames,    \* the WANs, sorted by name
  CellWan,     \* the WAN with a profile and with radio telemetry
  Losses,      \* the losses a WAN may show
  Modes,       \* the FEC modes the operator uses
  BaseTable,   \* fec.loss_table
  CellTable,   \* the profile's
  BaseUp, CellUp,     \* ramp_up_ticks, of each
  BaseHold, CellHold, \* ramp_down_hold_s, of each, in ticks
  Dwell,       \* driver_dwell_s, in ticks
  FloorEntry, CellFloorEntry, RuntimeFloorEntry, \* floors: config, profile, overlay
  FixedEntry,  \* fixed_ratio: the overlay's or the config's
  BackoffRatio,\* full_mode_backoff_fec
  CellSignalFloor, \* the profile's signal_floor_fec
  PeerRatios   \* ratios the relay reports

Wans == ToSet(WanNames)
NoWan == "none"

ASSUME TableAssumption == \A t \in {BaseTable, CellTable} : IsTable(t) /\ Rising(t)
ASSUME ClockAssumption ==
  {BaseUp, CellUp, BaseHold, CellHold, Dwell} \subseteq Nat \ {0}
ASSUME InputAssumption ==
  /\ WanNames \in Seq(Wans) /\ CellWan \in Wans /\ NoWan \notin Wans
  /\ Losses # {} /\ Losses \subseteq Nat /\ Modes \subseteq FecModes
  /\ BackoffRatio \in Nat /\ PeerRatios \subseteq Nat /\ IsFiniteSet(PeerRatios)
  /\ {FloorEntry, CellFloorEntry, RuntimeFloorEntry, FixedEntry}
       \subseteq Nat \cup {Unusable, Unset}
  /\ CellSignalFloor \in Int

VARIABLES
  drive,      \* the driver, its candidate, and how long that has been one
  active,     \* fec_driver_active_prev
  profile,    \* fec_profile_active, whose table is fec_profile_table
  rt,         \* fec_rt
  engaged,    \* the signal floor's latch
  ratio,      \* fec_current_ratio
  wire,       \* what udpspeeder codes with
  shown,      \* what the tick published (see Shown)
  calm,       \* once nothing changes: the set of the one Situation; else Changing
  quiet,      \* ticks since then, up to Patience
  \* History: the worst WAN and for how many ticks it has been that; the most
  \* parity the losses asked for since the engine was last idle, and no less than
  \* it has then; whether udpspeeder restarted after the last write.
  lead, asked, restarted

engine == <<drive, active, profile, rt, engaged>>
history == <<lead, asked>>
vars == <<engine, ratio, wire, shown, calm, quiet, history, restarted>>

\* A challenge's dwell, then the slowest change of level.
Patience == Dwell + Max({BaseUp, CellUp, BaseHold, CellHold})

Changing == {}

\* The levels a place may ask for; a profile's table may be shorter.
Places == {0, TopLevel(BaseTable)}

\* The ratio udpspeeder's unit starts it with.
UnitRatio == Overhead(8, 4)

\* A tick reads no loss of a WAN that carries no traffic, and no radio of one that
\* cannot drive: there the situations leave them at rest.
Situation ==
  {s \in [active : (SUBSET Wans) \ {{}}, backoff : BOOLEAN, loss : [Wans -> Losses],
          reading : {"degraded", "between", "clear"},
          place : Places, mode : Modes] :
     /\ \A w \in Wans \ s.active : s.loss[w] = Min(Losses)
     /\ CellWan \notin s.active => s.reading = "clear"}

----------------------------------------------------------------------------
(* The driver *)

FecDriverWan(loss, among) ==
  LET worst == {w \in among : \A v \in among : loss[v] <= loss[w]}
  IN  WanNames[Min({i \in DOMAIN WanNames : WanNames[i] \in worst})]

Keep(w) == [driver |-> w, wan |-> NoWan, since |-> 0]

\* Faulty variant: an excursion of the incumbent does not end the challenge.
FecDriverPickSticky(worst, among) ==
  LET free    == drive.driver \notin among \/ (active # {} /\ worst \notin active)
      lasting == drive.wan = worst /\ drive.since + 1 >= Dwell
  IN  CASE worst = drive.driver /\ ~free -> drive
        [] free \/ lasting -> Keep(worst)
        [] OTHER -> IF drive.wan # worst THEN [drive EXCEPT !.wan = worst, !.since = 0]
                    ELSE [drive EXCEPT !.since = @ + 1]

\* Faulty variant: the challenge's clock restarts on every tick.
FecDriverPickRestarts(worst, among) ==
  IF drive.driver \notin among \/ worst = drive.driver \/ (active # {} /\ worst \notin active)
  THEN Keep(worst)
  ELSE [drive EXCEPT !.wan = worst, !.since = 0]

\* The worst WAN takes over when there is no incumbent, when it has just joined,
\* or when its challenge has lasted; a departure leaves a challenge in flight.
FecDriverPick(worst, among) ==
  LET free    == drive.driver \notin among \/ (active # {} /\ worst \notin active)
      lasting == drive.wan = worst /\ drive.since + 1 >= Dwell
  IN  CASE worst = drive.driver \/ free \/ lasting -> Keep(worst)
        [] ~free /\ worst # drive.driver /\ drive.wan # worst ->
             [drive EXCEPT !.wan = worst, !.since = 0]
        [] OTHER -> [drive EXCEPT !.since = @ + 1]

\* The overlay's floor, else the profile's, else the config's.
ConfigFloor == SafeRatio(FloorEntry, DefaultRatio)
Floor(own) == SafeRatio(RuntimeFloorEntry, SafeRatio(own, ConfigFloor))
Fixed == SafeRatio(FixedEntry, DefaultRatio)

Profiles ==
  [default |-> [table |-> BaseTable, up |-> BaseUp, hold |-> BaseHold,
                floor |-> Floor(Unset), signal |-> DefaultSignalFloor],
   cell |-> [table |-> CellTable, up |-> CellUp, hold |-> CellHold,
             floor |-> Floor(CellFloorEntry), signal |-> CellSignalFloor]]

ResolveFecProfile(w) == IF w = CellWan THEN "cell" ELSE "default"
TableOf(p) == Profiles[p].table
FloorOf(p) == Profiles[p].floor

----------------------------------------------------------------------------
(* The level *)

FecTarget(s, table) ==
  ModeAwareLevel(s.backoff, Max({s.loss[w] : w \in s.active}), table, BackoffRatio)

\* Faulty variant: a new profile starts from the ratio applied, floors and all.
AgedApplied(p) == IF p # profile
                  THEN Runtime(RatioToLevel(ratio, TableOf(p)), 0, 0)
                  ELSE [rt EXCEPT !.since = Min({@ + 1, Max({BaseHold, CellHold})})]

\* Faulty variant: a new profile keeps the level's index.
AgedIndex(p) == [rt EXCEPT !.since = Min({@ + 1, Max({BaseHold, CellHold})})]

\* The engine's runtime on the profile p, as the tick finds it: a clock that
\* runs, or a new profile's.
Aged(p) == IF p # profile
           THEN ReseedRuntime(rt, TableOf(profile), TableOf(p))
           ELSE [rt EXCEPT !.since = Min({@ + 1, Max({BaseHold, CellHold})})]

\* Only the telemetry's own WAN, and only as the driver, has a reading.
Reading(s, d) == IF d = CellWan THEN s.reading ELSE "clear"

SignalFloored(s, level, latch, p) ==
  ApplySignalFloor(level, latch /\ ~s.backoff, TableOf(p), Profiles[p].signal)

\* A level above the table's is taken as its top rung.
RatioAt ==
  [m \in Modes |-> [p \in DOMAIN Profiles |->
     [level \in AllLevels(BaseTable) \cup AllLevels(CellTable) |->
        ApplyMode(m, LevelToRatio(level, TableOf(p)), Fixed, FloorOf(p))]]]

\* Faulty variant: credits the place with a ratio the FIFO refused.
LocationFloorActiveWanted(held, with, without) == held # Unset /\ with # without

LocationFloorActive(held, with, without) ==
  held # Unset /\ with # without /\ held = with

----------------------------------------------------------------------------
(* What the tick publishes for the UI *)

ReachableLevels(backoff, place, table) ==
  IF backoff THEN {Max({RatioToLevel(BackoffRatio, table),
                        ApplyLocationFloor(0, place, table)})}
  ELSE AllLevels(table)

FecScale ==
  [m \in Modes |-> LadderScale({Profiles[p] : p \in DOMAIN Profiles}, m, Fixed, PeerRatios)]

FecSpan ==
  [m \in Modes |-> [p \in DOMAIN Profiles |-> [backoff \in BOOLEAN |-> [place \in Places |->
     Span(FecScale[m],
          ReachableRatios(m, TableOf(p), FloorOf(p), Fixed,
                          ReachableLevels(backoff, place, TableOf(p))))]]]]

(***************************************************************************)
(* What the operator reads on the card (ok: actuator_ok; located: the      *)
(* place is credited; onSpan: the dot lies in the shaded span), and, to    *)
(* judge it, whether the ratio held is above what there would be without   *)
(* the place, and whether the row is pinned to a rung the engine is not at.*)
(***************************************************************************)
Shown(s, p, level, held, with, without) ==
  [ok      |-> held = with,
   located |-> LocationFloorActive(held, with, without),
   onSpan  |-> OnSpan(FecScale[s.mode], FecSpan[s.mode][p][s.backoff][s.place], held),
   gains   |-> held > without,
   settling |-> s.backoff /\ level # RatioToLevel(BackoffRatio, TableOf(p))]

----------------------------------------------------------------------------
Init ==
  /\ drive = Keep(NoWan) /\ active = {}
  /\ profile = "default" /\ rt = Runtime(0, 0, 0) /\ engaged = FALSE
  /\ ratio = Unset /\ wire = UnitRatio
  /\ shown = [ok |-> TRUE, located |-> FALSE, onSpan |-> TRUE, gains |-> FALSE,
              settling |-> FALSE]
  /\ calm = Changing /\ quiet = 0
  /\ lead = [wan |-> NoWan, for |-> 0] /\ asked = LevelToRatio(0, BaseTable)
  /\ restarted = FALSE

\* The history: of the worst WAN, and of what the losses ask on the profile p.
Leading(worst) == IF worst = lead.wan THEN [lead EXCEPT !.for = Min({@ + 1, Dwell})]
                  ELSE [wan |-> worst, for |-> 0]
Asking(target, p, level) ==
  LET wanted == LevelToRatio(target, TableOf(p))
  IN  IF level = 0 THEN wanted ELSE Max({asked, wanted})

(***************************************************************************)
(* A tick in the situation s.  The FIFO takes the write, when there is     *)
(* one, or refuses it: the ratio held is then the one held before.  From   *)
(* some tick on nothing changes outside, and the FIFO refuses nothing.     *)
(***************************************************************************)
TickIn(s) ==
  /\ lead' = Leading(FecDriverWan(s.loss, s.active))
  /\ drive' = FecDriverPick(lead'.wan, s.active)
  /\ active' = s.active
  /\ profile' = ResolveFecProfile(drive'.driver)
  /\ engaged' = SignalUpdate(engaged, Reading(s, drive'.driver))
  /\ \E target \in {FecTarget(s, TableOf(profile'))} :
       /\ rt' = StepLevel(target, Aged(profile'), Profiles[profile'].up, Profiles[profile'].hold)
       /\ asked' = Asking(target, profile', rt'.level)
  /\ \E level \in {SignalFloored(s, rt'.level, engaged', profile')} :
     \E without \in {RatioAt[s.mode][profile'][level]},
        with \in {RatioAt[s.mode][profile'][
                          ApplyLocationFloor(level, s.place, TableOf(profile'))]} :
     \E held \in IF calm = Changing THEN {ratio, with} ELSE {with} :
       /\ ratio' = held
       /\ IF held # ratio
          THEN wire' = held /\ restarted' = FALSE
          ELSE UNCHANGED <<wire, restarted>>
       /\ shown' = Shown(s, profile', rt'.level, held, with, without)
       /\ calm' \in IF calm = Changing /\ held = with THEN {Changing, {s}} ELSE {calm}

Tick     == calm = Changing /\ (\E s \in Situation : TickIn(s)) /\ quiet' = 0
CalmTick == (\E s \in calm : TickIn(s)) /\ quiet' = Min({quiet + 1, Patience})

\* systemd restarts udpspeeder, with the ratio of its unit.
Restart ==
  /\ wire' = UnitRatio
  /\ restarted' = TRUE
  /\ UNCHANGED <<engine, ratio, shown, calm, quiet, history>>

Next == Tick \/ CalmTick \/ Restart

Spec == Init /\ [][Next]_vars

----------------------------------------------------------------------------
Ratios == Nat \cup {Unset}

TypeOK ==
  /\ active \in SUBSET Wans
  /\ drive \in [driver : Wans \cup {NoWan}, wan : Wans \cup {NoWan}, since : 0 .. Dwell - 1]
  /\ profile \in {"default", "cell"}
  /\ rt.level \in AllLevels(TableOf(profile)) /\ rt.streak < Profiles[profile].up
  /\ rt.since \in Nat /\ engaged \in BOOLEAN
  /\ ratio \in Ratios /\ wire \in Nat
  /\ (calm = Changing \/ \E s \in Situation : calm = {s}) /\ quiet \in 0 .. Patience
  /\ lead \in [wan : Wans \cup {NoWan}, for : 0 .. Dwell]
  /\ asked \in Nat /\ restarted \in BOOLEAN

\* A WAN that was already carrying traffic takes the drive from another that
\* still does only after Dwell ticks in a row as the worst of the field.
DriverEarnsDwell ==
  [][\A v, w \in Wans :
       drive.driver = v /\ drive'.driver = w /\ v # w /\ v \in active' /\ w \in active
         => lead' = [wan |-> w, for |-> Dwell]]_vars

\* The engine never holds more parity than a loss asked of it since it was last
\* idle: a change of profile must not read a floor's parity as its own choice.
LossAskedForIt == rt.level > 0 => LevelToRatio(rt.level, TableOf(profile)) <= asked

\* The card tells the truth about the wire.  A place is credited only when the
\* ratio held would be lower without it; the dot is inside the span when the
\* FIFO took the write, but for a pin whose engine is still ramping to it; and
\* the ratio shown is the wire's unless udpspeeder has restarted under it.
CardTellsTheTruth ==
  /\ shown.located => shown.gains
  /\ shown.ok /\ ~shown.settling => shown.onSpan
  /\ ratio # Unset /\ ~restarted => wire = ratio

\* Once nothing changes the leg comes, in Patience more ticks, to the ratio the
\* situation asks for, and stays: the worst WAN drives, its profile's target is
\* reached, lifted by what the radio and the place ask, in the mode set.
Asked(s) ==
  LET d == FecDriverWan(s.loss, s.active)
      p == ResolveFecProfile(d)
      lifts(latch) == SignalFloored(s, FecTarget(s, TableOf(p)), latch, p)
      latches == IF Reading(s, d) = "between" THEN BOOLEAN ELSE {Reading(s, d) = "degraded"}
  IN  {RatioAt[s.mode][p][ApplyLocationFloor(lifts(l), s.place, TableOf(p))] : l \in latches}
ComesToWhatIsAsked == quiet = Patience => \A s \in calm : ratio \in Asked(s)
============================================================================
