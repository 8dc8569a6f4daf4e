----------------------------- MODULE MCFailover -----------------------------
(* Two WANs, the first the configured master: the views, link qualities and *)
(* operator settings TLC explores.                                          *)
EXTENDS Failover, TLC

CONSTANTS star, cell

McRank == (star :> 1) @@ (cell :> 2)

\* A view of the two links, fresh, stale, or unreadable.
Says(a, b) == [ok |-> TRUE, stale |-> FALSE, state |-> (star :> a) @@ (cell :> b)]
Stale(a, b) == [Says(a, b) EXCEPT !.stale = TRUE]

McLocalViews == {Says("UP", "UP"), Says("DOWN", "UP"), Says("UP", "DOWN"),
                 Says("DOWN", "INIT"), Stale("DOWN", "DOWN")}
McRelayViews == {Says("UP", "UP"), Says("DOWN", "UP"), NotFetched}

\* Even links; the satellite slower; the satellite losing; its time missing.
McQualities ==
  {[rtt |-> (star :> r) @@ (cell :> 1), loss |-> (star :> l) @@ (cell :> 0)] :
     <<r, l>> \in {<<1, 0>>, <<3, 0>>, <<1, 2>>, <<NoRtt, 0>>}}

Setting(m, p, w, e) == [mode |-> m, policy |-> p, master |-> w, egress |-> e]
McOverlays == {Setting("master_backup", "static_configured", star, "local_direct"),
               Setting("master_backup", "static_configured", cell, "relay"),
               Setting("master_backup", "dynamic", star, "relay")}
=============================================================================
