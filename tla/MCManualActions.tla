-------------------------- MODULE MCManualActions --------------------------
(***************************************************************************)
(* ManualActions on a small instance: the prices of MCOrderTracker with    *)
(* one fill per leg, and a default quantity larger than the signal's.      *)
(***************************************************************************)
EXTENDS ManualActions

CONSTANTS r1, r2

MCFills == [g \in Legs |-> CASE g = "ENTRY" -> {6} [] g = "TARGET" -> {12} [] OTHER -> {1}]
=============================================================================
