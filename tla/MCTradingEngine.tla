-------------------------- MODULE MCTradingEngine --------------------------
(***************************************************************************)
(* TradingEngine on small instances: m1 and m2 are one signal sent twice,  *)
(* m3 is another idea where the instance has one.                          *)
(***************************************************************************)
EXTENDS TradingEngine

CONSTANTS m1, m2, m3, h1, h2

MCHashOf == [m \in Msgs |-> IF m = m3 /\ h2 \in Hashes THEN h2 ELSE h1]
=============================================================================
