-------------------------- MODULE MCSignalPipeline --------------------------
(***************************************************************************)
(* SignalPipeline with one signal, p1, whose mark may go once: m1 and m2   *)
(* are its entries.                                                        *)
(***************************************************************************)
EXTENDS SignalPipeline

CONSTANTS m1, m2, h1, p1

MCHashOf  == [m \in Msgs |-> h1]
MCPostOf  == [m \in Msgs |-> p1]
MCForgets == [p \in Posts |-> 1]
=============================================================================
