--------------------------- MODULE MCSignalLedger ---------------------------
(* The ledger of a signal with two targets, of which only the first is an  *)
(* exit, so that the fallback goes on watching a row it has closed.        *)
EXTENDS SignalLedger

MCGoals == {"t1", "t2"}
=============================================================================
