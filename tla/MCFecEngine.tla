---------------------------- MODULE MCFecEngine ----------------------------
(* FecEngine on two WANs, one of them profiled. *)
EXTENDS FecEngine

Row(loss, fec) == [loss |-> loss, fec |-> fec]
MCWanNames == <<"wan1", "wan2">>
\* The profile's table is the shorter; the configured floor, 8:1, is its top rung.
MCBase == <<Row(0, Overhead(8, 0)), Row(2, Overhead(8, 2)), Row(5, Overhead(8, 4)),
            Row(9, Overhead(8, 8))>>
MCCell == <<Row(0, Overhead(8, 0)), Row(3, Overhead(12, 1)), Row(9, Overhead(8, 1))>>
MCFloor == Overhead(8, 1)
MCCellFloor == Overhead(20, 1)
MCSignalFloor == Overhead(12, 1)
MCPeers == {Overhead(8, 4)}
============================================================================
