--------------------------- MODULE MCOrderTracker ---------------------------
(***************************************************************************)
(* OrderTracker on a small instance: target 12 and stop 2 with a tolerance *)
(* of 1.  The entry fills where it should (6) or already within reach of   *)
(* the target (11); the exits fill with slippage.                          *)
(***************************************************************************)
EXTENDS OrderTracker

MCFills == [g \in Legs |-> CASE g = "ENTRY" -> {6, 11} [] g = "TARGET" -> {12} [] OTHER -> {1}]

\* The entry fills where it should.
MCPlainFills == [MCFills EXCEPT !["ENTRY"] = {6}]
=============================================================================
