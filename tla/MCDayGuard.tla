----------------------------- MODULE MCDayGuard -----------------------------
(***************************************************************************)
(* DayGuard with profits and losses around limits of 2 and 4.           *)
(***************************************************************************)
EXTENDS DayGuard

MCPnls == {-2, 4}
=============================================================================
