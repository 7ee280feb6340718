--------------------------- MODULE MCSignalRules ---------------------------
(***************************************************************************)
(* SignalRules around the edges of the buffer table: one entry in each     *)
(* row, one below the first and one on a boundary; ranges above and below  *)
(* it, an average level; stops and targets one point to twelve away.       *)
(***************************************************************************)
EXTENDS SignalRules

MCLows    == {Pts(20), Pts(100), Pts(250), Pts(399), Pts(500)}
MCRanges  == {0, Pts(4), Pts(-4)}
MCRisks   == {Pts(-1), Pts(1), Pts(3), Pts(6)}
MCRewards == {Pts(2), Pts(6), Pts(9), Pts(12)}

MCAction(action, side) ==
    {[action |-> action, low |-> low, high |-> IF range = 0 THEN 0 ELSE low + range,
      average |-> average, stop |-> low - side * risk, target |-> low + side * reward] :
        low \in MCLows, range \in MCRanges, average \in {0, Pts(10)},
        risk \in MCRisks, reward \in MCRewards}

\* A signal without a target.
MCBare ==
    {[action |-> "BUY", low |-> Pts(100), high |-> 0, average |-> 0,
      stop |-> Pts(90), target |-> 0]}

MCSignals == MCAction("BUY", 1) \cup MCAction("SELL", -1) \cup MCBare
=============================================================================
