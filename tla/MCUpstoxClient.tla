--------------------------- MODULE MCUpstoxClient ---------------------------
(***************************************************************************)
(* UpstoxClient with the three tasks of the engine.                        *)
(***************************************************************************)
EXTENDS UpstoxClient

CONSTANTS main, sweep, capital
=============================================================================
