-------------------------- MODULE SignalRulesProofs --------------------------
(***************************************************************************)
(* Theorems about SignalRules for every set of signals, either profile and *)
(* any number of moves of clock and price between two gates: what the      *)
(* gates have established of a signal when its order is placed.            *)
(***************************************************************************)
EXTENDS SignalRules, TLAPS

-----------------------------------------------------------------------------
(* The rules *)

Signal == [action : {"BUY", "SELL"}, low : Int, high : Int, average : Int,
           stop : Int, target : Int]

LEMMA SignalsTyped == \A s \in Signals : s \in Signal
  BY RuleAssumption DEF Signal

\* The target's buffer is between three and five points.
LEMMA BufferBounded ==
    ASSUME NEW price \in Int
    PROVE  TargetBuffer(price) \in Pts(3)..Pts(5)
<1>1. CASE price >= Pts(100) /\ price < Pts(200)
  BY <1>1 DEF TargetBuffer, Pts
<1>2. CASE price >= Pts(200) /\ price < Pts(300)
  BY <1>2 DEF TargetBuffer, Pts
<1>3. CASE price >= Pts(300)
  BY <1>3 DEF TargetBuffer, Pts
<1>4. CASE price < Pts(100)
  BY <1>4 DEF TargetBuffer, Pts
<1> QED BY <1>1, <1>2, <1>3, <1>4 DEF Pts

LEMMA AdjustedTyped ==
    ASSUME NEW s \in Signal
    PROVE  Adjusted(s) \in [entry : Int, target : Int, stop : Int]
<1>1. s.low \in Int /\ s.high \in Int /\ s.stop \in Int /\ s.target \in Int
  BY DEF Signal
<1>2. TargetBuffer(s.low) \in Int
  BY <1>1, BufferBounded DEF Pts
<1>3. Side(s) \in {-1, 1}
  BY DEF Side
<1>4. Adjusted(s).entry \in Int
  BY <1>1 DEF Adjusted
<1>5. s.target - Side(s) * TargetBuffer(s.low) \in Int
  BY <1>1, <1>2, <1>3
<1>6. s.stop - Side(s) * Pts(3) \in Int
  BY <1>1, <1>3 DEF Pts
<1> QED BY <1>4, <1>5, <1>6 DEF Adjusted

\* What a signal that the price gates let through promises of its order.
Sound(s) == Valid(s) /\ Worthwhile(s)

\* A valid signal puts something at risk, so that its ratio is looked at.
LEMMA RatioOfSound ==
    ASSUME NEW s \in Signal, Sound(s)
    PROVE  Risk(s) \in Int /\ Risk(s) > 0 /\ Reward(s) \in Int /\ Reward(s) >= 2 * Risk(s)
<1>1. s.low \in Int /\ s.stop \in Int /\ s.target \in Int /\ s.action \in {"BUY", "SELL"}
  BY DEF Signal
<1>2. Risk(s) \in Int /\ Reward(s) \in Int
  BY <1>1 DEF Risk, Reward, Side
<1>3. Risk(s) > 0
  BY <1>1 DEF Sound, Valid, Risk, Side
<1> QED BY <1>2, <1>3 DEF Sound, Worthwhile

\* The placed legs in terms of the raw prices.
LEMMA LegsOf ==
    ASSUME NEW s \in Signal, NEW o, o = Adjusted(s), NEW d, NEW b,
           d = Side(s) * (o.entry - s.low), b = TargetBuffer(s.low)
    PROVE  /\ d \in Int /\ b \in 6..10
           /\ Side(s) * (o.target - o.entry) = Reward(s) - b - d
           /\ Side(s) * (o.entry - o.stop) = Risk(s) + 6 + d
<1>1. s.low \in Int /\ s.stop \in Int /\ s.target \in Int
  BY DEF Signal
<1>2. o.entry \in Int
  BY AdjustedTyped
<1>3. b \in 6..10
  BY <1>1, BufferBounded DEF Pts
<1>4. o.target = s.target - Side(s) * b /\ o.stop = s.stop - Side(s) * 6
  BY <1>1 DEF Adjusted, Pts
<1>5. CASE Side(s) = 1
  BY <1>1, <1>2, <1>3, <1>4, <1>5 DEF Risk, Reward
<1>6. CASE Side(s) = -1
  BY <1>1, <1>2, <1>3, <1>4, <1>6 DEF Risk, Reward
<1> QED BY <1>3, <1>5, <1>6 DEF Side

-----------------------------------------------------------------------------
(* Types *)

LEMMA QuotesTyped == ASSUME NEW s \in Signal PROVE Quotes(s) \subseteq Int
  BY AdjustedTyped DEF Quotes, Signal

LEMMA HoursFollow == ASSUME NEW h \in Hours PROVE Follows(h) \subseteq Hours
  BY DEF Follows, Hours

LEMMA TypeNext ==
    ASSUME TypeOK, [Next]_vars
    PROVE  TypeOK'
<1> USE DEF TypeOK
<1>1. signal \in Signal
  BY SignalsTyped
<1>2. CASE UNCHANGED vars
  BY <1>2 DEF vars, engine, market
<1>3. CASE Gate \/ Refused
  BY <1>3 DEF Gate, Refused, Parse, TimingGate, PnlGate, TargetGate, RatioGate, LookUp,
     MissedGate, Passes, Stops, market
<1>4. CASE Place
  BY <1>1, <1>4, AdjustedTyped DEF Place, market
<1>5. ASSUME Moves PROVE moves' \in 0..MaxMoves
  BY <1>5, RuleAssumption DEF Moves
<1>6. CASE TimePasses
  BY <1>5, <1>6, HoursFollow DEF TimePasses, engine
<1>7. CASE PriceMoves
  <2>1. ltp' \in Int
    BY <1>1, <1>7, QuotesTyped DEF PriceMoves
  <2> QED BY <1>5, <1>7, <2>1 DEF PriceMoves, engine
<1> QED BY <1>2, <1>3, <1>4, <1>6, <1>7 DEF Next

\* Every variable keeps its type, for any signals, profile and number of moves.
THEOREM TypeCorrect == Spec => []TypeOK
<1>1. Init => TypeOK
  <2>1. \A s \in Signals : Quotes(s) \subseteq Int
    BY SignalsTyped, QuotesTyped
  <2> QED BY <2>1, RuleAssumption DEF Init, TypeOK, NoOrder
<1> QED BY <1>1, TypeNext, PTL DEF Spec

-----------------------------------------------------------------------------
(* What the gates have established *)

\* The hours were open at some time since the signal was taken.
Timely == DryRun \/ \E h \in hours : InHours(h)

\* The move was not over by some price cached since then.
Early == \E p \in prices : ~Moved(signal, p)

\* What a signal has behind it at each gate, and when its order is placed.
Passed ==
    /\ pc \notin {"parse", "done"} => Valid(signal)
    /\ pc \in {"pnl", "targets", "odds", "lookup", "missed", "place"} => Timely
    /\ pc \in {"lookup", "missed", "place"} => Worthwhile(signal)
    /\ pc = "place" => Early
    /\ pc # "done" => order = NoOrder
    /\ order # NoOrder => order = Adjusted(signal) /\ Sound(signal) /\ Timely /\ Early

\* An hour or a price that was seen stays seen.
LEMMA MovesKeep ==
    ASSUME TypeOK, TimePasses \/ PriceMoves
    PROVE  /\ UNCHANGED engine
           /\ Timely => Timely'
           /\ Early => Early'
  BY DEF TimePasses, PriceMoves, Timely, Early, engine

LEMMA PassedNext ==
    ASSUME TypeOK, Passed, [Next]_vars
    PROVE  Passed'
<1>1. CASE UNCHANGED vars
  BY <1>1 DEF vars, engine, market, Passed, Timely, Early
<1>2. CASE TimePasses \/ PriceMoves
  BY <1>2, MovesKeep DEF Passed, engine
<1>3. CASE Place
  BY <1>3 DEF Place, Passed, Sound, Timely, Early, market
<1>4. CASE TimingGate
  <2>1. (DryRun \/ InHours(hour)) => Timely
    BY DEF TypeOK, Timely
  <2> QED BY <1>4, <2>1 DEF TimingGate, Passes, Stops, Passed, Timely, Early, market
<1>5. CASE MissedGate
  <2>1. ~Moved(signal, ltp) => Early
    BY DEF TypeOK, Early
  <2> QED BY <1>5, <2>1 DEF MissedGate, Passes, Stops, Passed, Timely, Early, market
<1>6. CASE Parse \/ PnlGate \/ TargetGate \/ RatioGate \/ LookUp \/ Refused
  BY <1>6 DEF Parse, PnlGate, TargetGate, RatioGate, LookUp, Refused, Passes, Stops, Passed,
     Timely, Early, market
<1> QED BY <1>1, <1>2, <1>3, <1>4, <1>5, <1>6 DEF Next, Gate

LEMMA GatesPassed == Spec => []Passed
<1>1. Init => Passed
  BY DEF Init, Passed
<1> QED BY <1>1, PassedNext, TypeCorrect, PTL DEF Spec

-----------------------------------------------------------------------------
(* The orders *)

\* With an exact entry and three points at risk the buffers leave both legs on
\* their side of the entry, whatever row of the table applies.
THEOREM ExactEntriesAreBracketed == Spec => []ExactEntryIsBracketed
<1>1. ASSUME TypeOK, Passed PROVE ExactEntryIsBracketed
  <2> SUFFICES ASSUME order # NoOrder, Drift(signal) = 0, Risk(signal) >= Pts(3)
               PROVE  Gain(signal) > 0 /\ Loss(signal) > 0
    BY DEF ExactEntryIsBracketed
  <2>1. signal \in Signal /\ order = Adjusted(signal) /\ Sound(signal)
    BY <1>1, SignalsTyped DEF TypeOK, Passed
  <2> DEFINE b == TargetBuffer(signal.low)
  <2>2. /\ b \in 6..10
        /\ Gain(signal) = Reward(signal) - b - Drift(signal)
        /\ Loss(signal) = Risk(signal) + 6 + Drift(signal)
    BY <2>1, LegsOf DEF Gain, Loss, Drift
  <2>3. Risk(signal) \in Int /\ Reward(signal) \in Int /\ Reward(signal) >= 2 * Risk(signal)
    BY <2>1, RatioOfSound
  <2> HIDE DEF b
  <2> QED BY <2>2, <2>3 DEF Pts
<1> QED BY <1>1, TypeCorrect, GatesPassed, PTL

\* Of the 1:2 ratio of the raw prices the placed legs lose at most eleven points
\* and three times the drift of a range's midpoint.
THEOREM RatiosOutliveBuffers == Spec => []RatioOutlivesBuffers
<1>1. ASSUME TypeOK, Passed PROVE RatioOutlivesBuffers
  <2> SUFFICES ASSUME order # NoOrder
               PROVE  Gain(signal) + Pts(11) + 3 * Drift(signal) >= 2 * Loss(signal)
    BY DEF RatioOutlivesBuffers
  <2>1. signal \in Signal /\ order = Adjusted(signal) /\ Sound(signal)
    BY <1>1, SignalsTyped DEF TypeOK, Passed
  <2> DEFINE b == TargetBuffer(signal.low)
  <2>2. /\ b \in 6..10 /\ Drift(signal) \in Int
        /\ Gain(signal) = Reward(signal) - b - Drift(signal)
        /\ Loss(signal) = Risk(signal) + 6 + Drift(signal)
    BY <2>1, LegsOf DEF Gain, Loss, Drift
  <2>3. Risk(signal) \in Int /\ Reward(signal) \in Int /\ Reward(signal) >= 2 * Risk(signal)
    BY <2>1, RatioOfSound
  <2> HIDE DEF b
  <2> QED BY <2>2, <2>3 DEF Pts
<1> QED BY <1>1, TypeCorrect, GatesPassed, PTL

\* The order of a signal rests on an hour that was open and a price that had not
\* reached the target, both seen while the signal was on its way.
THEOREM EntriesAreInTime == Spec => []EnteredInTime
<1>1. ASSUME TypeOK, Passed PROVE EnteredInTime
  <2> SUFFICES ASSUME order # NoOrder
               PROVE  /\ \E p \in prices : p = 0 \/ Side(signal) * (order.target - p) > 0
                      /\ DryRun \/ \E h \in hours : h = "open" \/ (h = "opening" /\ Profile = "RISK")
    BY DEF EnteredInTime
  <2>1. order = Adjusted(signal) /\ Timely /\ Early
    BY <1>1 DEF Passed
  <2>2. PICK p \in prices : ~Moved(signal, p)
    BY <2>1 DEF Early
  <2>3. p \in Int /\ order.target \in Int /\ Side(signal) \in {-1, 1}
    BY <1>1 DEF TypeOK, Side
  <2>4. p = 0 \/ Side(signal) * (order.target - p) > 0
    BY <2>1, <2>2, <2>3 DEF Moved
  <2> QED BY <2>1, <2>4 DEF Timely, InHours
<1> QED BY <1>1, TypeCorrect, GatesPassed, PTL
=============================================================================
