--------------------------- MODULE MCSignalStream ---------------------------
(***************************************************************************)
(* SignalStream with the hashes of three posts, of which the first and the *)
(* last carry one signal.                                                  *)
(***************************************************************************)
EXTENDS SignalStream

CONSTANTS h1, h2

MCHashOf == <<h1, h2, h1>>
=============================================================================
