------------------------- MODULE MCQuiescingManager -------------------------
(* The quiescing state machine off an edge proxy, started ACTIVE, fed by   *)
(* an operator and a connection tracker.                                   *)
EXTENDS QuiescingManager, TLC
=============================================================================
