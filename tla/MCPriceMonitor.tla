--------------------------- MODULE MCPriceMonitor ---------------------------
(* Prices for model checking PriceMonitor: one inside the entry range, one   *)
(* between it and the first target, the target itself and one beyond it.     *)
EXTENDS PriceMonitor

MCPrices == {11, 15, 20, 21}
=============================================================================
