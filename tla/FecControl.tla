---------------------------- MODULE FecControl ----------------------------
(***************************************************************************)
(* The FEC decisions both legs share (fec_control.py): pure operators, no  *)
(* state.  A ratio x:y is the number Overhead(x, y), its parity in half    *)
(* percents of the data.  The code compares spellings, so that 8:2 and 4:1 *)
(* are two rows to it: each overhead is taken to be spelled in one way.    *)
(* A level is an index, from 0, into a loss table: a non-empty sequence of *)
(* rows [loss, fec], loss the most the row serves.                         *)
(***************************************************************************)
EXTENDS Integers, Sequences, FiniteSets, SequencesExt, FiniteSetsExt

\* A ratio that does not parse, or that validate_ratio refuses; None for unset.
Unusable == -1
Unset    == -2

Overhead(data, parity) == (200 * parity) \div data

OffRatio   == Overhead(8, 0)
\* DEFAULT_FLOOR_RATIO and DEFAULT_FIXED_RATIO.
DefaultRatio == Overhead(20, 1)
\* DEFAULT_SIGNAL_FLOOR_FEC
DefaultSignalFloor == Overhead(12, 1)

FecModes == {"off", "fixed", "adaptive", "min_adaptive"}

SafeRatio(value, fallback) == IF value < 0 THEN fallback ELSE value

----------------------------------------------------------------------------
(* Levels *)

\* A loss table, and one whose rungs have no less parity than those below them, as
\* fec_control's own have: nothing checks an operator's.
IsTable(t) == t # <<>> /\ t \in Seq([loss : Nat, fec : Nat])
Rising(t)  == \A i, j \in DOMAIN t : i < j => t[i].fec <= t[j].fec

TopLevel(table) == Len(table) - 1

LossToLevel(loss, table) ==
  Min({TopLevel(table)} \cup {i - 1 : i \in {j \in DOMAIN table : loss <= table[j].loss}})

Clamped(level, table) == Max({0, Min({level, TopLevel(table)})})

LevelToRatio(level, table) == table[Clamped(level, table) + 1].fec

\* 0 for a ratio the table has no row for.
RatioToLevel(ratio, table) ==
  IF \E i \in DOMAIN table : table[i].fec = ratio
  THEN Min({i \in DOMAIN table : table[i].fec = ratio}) - 1
  ELSE 0

\* Engarde duplicates over enough links: the loss-driven level backs off.
ModeAwareLevel(backoff, loss, table, backoffRatio) ==
  IF backoff THEN RatioToLevel(backoffRatio, table) ELSE LossToLevel(loss, table)

(***************************************************************************)
(* FecRuntime: the level, the run of higher targets, and how long ago the  *)
(* level last changed, up to `cap`.  The runtime is aged before the step.  *)
(***************************************************************************)
Runtime(level, streak, since) == [level |-> level, streak |-> streak, since |-> since]

StepLevel(target, rt, upTicks, downHold) ==
  CASE target > rt.level /\ rt.streak + 1 >= upTicks -> Runtime(target, 0, 0)
    [] target > rt.level /\ rt.streak + 1 < upTicks ->
         Runtime(rt.level, rt.streak + 1, rt.since)
    [] target < rt.level /\ rt.since >= downHold -> Runtime(target, 0, 0)
    [] OTHER -> Runtime(rt.level, 0, rt.since)

\* A change of profile carries the adaptive level's ratio, and restarts the clock.
ReseedRuntime(rt, old, new) ==
  Runtime(RatioToLevel(LevelToRatio(rt.level, old), new), 0, 0)

----------------------------------------------------------------------------
(* Floors and modes *)

\* What the latch makes of a reading: RSRQ, or RSRP where RSRQ is missing; a
\* stale sample is passed as no reading at all.
SignalUpdate(engaged, reading) ==
  \/ reading = "degraded"
  \/ reading = "between" /\ engaged

ApplySignalFloor(level, engaged, table, floorRatio) ==
  IF engaged THEN Max({level, RatioToLevel(floorRatio, table)}) ELSE level

\* An unreadable level is 0, like none: raise-only, clamped to the table.
ApplyLocationFloor(level, located, table) ==
  IF located <= 0 THEN level ELSE Max({level, Min({located, TopLevel(table)})})

ApplyMode(mode, adaptive, fixed, floor) ==
  CASE mode = "off"   -> OffRatio
    [] mode = "fixed" -> fixed
    [] mode = "min_adaptive" -> Max({adaptive, floor})
    [] OTHER -> adaptive

----------------------------------------------------------------------------
(* The ladder the UI draws: ratios are positions on one fixed scale *)

ReachableRatios(mode, table, floor, fixed, levels) ==
  CASE mode = "off"   -> {OffRatio}
    [] mode = "fixed" -> {fixed}
    [] OTHER -> {ApplyMode(mode, LevelToRatio(l, table), fixed, floor) : l \in levels}

AllLevels(table) == 0 .. TopLevel(table)

\* profiles: a set of records with the fields table and floor; extra: the ratios
\* a peer reports.
LadderScale(profiles, mode, fixed, extra) ==
  LET context == IF mode \in {"adaptive", "min_adaptive"} THEN mode ELSE "adaptive"
      reached(m) == UNION {ReachableRatios(m, p.table, p.floor, fixed, AllLevels(p.table)) :
                             p \in profiles}
  IN  reached(context) \cup reached(mode) \cup {r \in extra : r >= 0}

\* The position on the ascending scale, or the highest below it; -1 for none.
ScaleIndex(scale, ratio) == Cardinality({r \in scale : r <= ratio}) - 1

\* The positions of what the leg can reach: none, drawn unshaded, or a span.
Span(scale, reachable) ==
  LET places == {ScaleIndex(scale, r) : r \in reachable} \ {-1}
  IN  IF places = {} THEN {} ELSE Min(places) .. Max(places)

\* ladder_view's dot is where the applied ratio sits.
OnSpan(scale, span, applied) == applied >= 0 /\ ScaleIndex(scale, applied) \in span
============================================================================
