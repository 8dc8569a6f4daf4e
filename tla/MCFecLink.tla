----------------------------- MODULE MCFecLink -----------------------------
(* FecLink with two clients' builds, two profiles and one the relay lacks. *)
EXTENDS FecLink, TLC

Row(l, r) == [loss |-> l, fec |-> r]
MCTables ==
  [default |-> <<Row(0, Overhead(8, 0)), Row(5, Overhead(8, 2)), Row(9, Overhead(8, 8))>>,
   wan1 |-> <<Row(0, Overhead(8, 0)), Row(9, Overhead(12, 1))>>,
   wan2 |-> <<Row(9, Overhead(8, 0))>>]
\* The client's are coarser in the middle.
MCClientTables == [MCTables EXCEPT !.default = <<Row(0, Overhead(8, 0)), Row(9, Overhead(8, 8))>>]
MCUp     == [default |-> 2, wan1 |-> 1, wan2 |-> 1]
MCHold   == [default |-> 1, wan1 |-> 2, wan2 |-> 1]
MCSignal == [default |-> DefaultSignalFloor, wan1 |-> Overhead(12, 1), wan2 |-> Unusable]
MCKnown == {"default", "wan1"}

Policy(mode, floor) == [mode |-> mode, fixed |-> Unusable, floor |-> floor]
Link(profile, signal, place) == [profile |-> profile, signal |-> signal, place |-> place]

Lossy == [policy |-> Policy("min_adaptive", Overhead(8, 2)), loss |-> 9,
          link |-> Link("default", FALSE, 1)]
Milder == [Lossy EXCEPT !.loss = 5]
OldBuild == [policy |-> Policy("adaptive", OffRatio), loss |-> 0,
             link |-> Link("wan1", TRUE, Unset)]
Newer == [policy |-> Policy("fixed", OffRatio), loss |-> 0, link |-> Link("wan2", FALSE, 0)]
MCSettings == {Lossy, Milder, OldBuild, Newer}
MCLocal == {Unset, 9}
\* Nothing tells one POST from another.
MCSymmetry == Permutations(Calls)
============================================================================
