----------------------------- MODULE SignalRules -----------------------------
(***************************************************************************)
(* The gates of process_signal in the order it passes them, with the       *)
(* prices they decide on: market hours, daily P&L, a target at all, the    *)
(* 1:2 risk-reward ratio of the raw prices, the instrument, the price      *)
(* cached at that moment; and the order that comes out, whose stop and     *)
(* targets carry the buffers of rules/buffer.py.  Time passes and the      *)
(* cached price moves between any two gates.  A behaviour is one signal.   *)
(*                                                                         *)
(* Prices count half points, so that the midpoint of a range is exact.     *)
(* 0 stands for an absent range, average, target or price, as it does for  *)
(* the truth tests of the code.  A signal's further targets are left out:  *)
(* only the first is ever looked at.                                       *)
(***************************************************************************)
EXTENDS Integers

CONSTANTS
    Signals,    \* the messages as parsed: records [action, low, high, average, stop, target]
    Profile,    \* trader_profile: "SAFE" or "RISK"
    DryRun,     \* settings.dry_run
    MaxMoves    \* bound: price and clock moves while one signal is processed

ASSUME RuleAssumption ==
    /\ \A s \in Signals :
         s \in [action : {"BUY", "SELL"}, low : Int, high : Int, average : Int,
               stop : Int, target : Int]
    /\ Profile \in {"SAFE", "RISK"}
    /\ DryRun \in BOOLEAN
    /\ MaxMoves \in Nat

VARIABLES
    pc,       \* the gate the signal stands at
    signal,   \* the signal in process_signal
    order,    \* the GTT placed for it, NoOrder before
    hour,     \* the part of the trading day
    ltp,      \* ltp:{instrument_key} in Redis, 0 when it is not cached
    hours,    \* history: parts of the day since the signal was taken
    prices,   \* history: cached prices since the signal was taken
    moves     \* history: number of moves since then

engine == <<pc, signal, order>>
market == <<hour, ltp, hours, prices, moves>>
vars   == <<engine, market>>

NoOrder == [entry |-> 0, target |-> 0, stop |-> 0]
Hours   == {"early", "opening", "open", "late", "weekend"}

\* A level given in points.
Pts(n) == 2 * n

-----------------------------------------------------------------------------
(* The rules *)

\* validate_prices: the stop lies on the losing side of the entry.
Valid(s) == IF s.action = "BUY" THEN s.low > s.stop ELSE s.low < s.stop

\* MarketTimingGate.check.
InHours(h) == h = "open" \/ (h = "opening" /\ Profile = "RISK")

TradeType(s) ==
    CASE s.average # 0                   -> "AVERAGE"
      [] s.average = 0 /\ s.high \notin {0, s.low} -> "RANGING"
      [] OTHER                           -> "BUY_ABOVE"

\* Mutant of TargetBuffer: the table of the client guide.
TargetBufferOfGuide(price) ==
    CASE price >= Pts(100) /\ price < Pts(200) -> Pts(3)
      [] price >= Pts(200) /\ price < Pts(300) -> Pts(5)
      [] price >= Pts(300) /\ price < Pts(400) -> Pts(7)
      [] OTHER                                 -> Pts(10)

\* get_target_buffer: what no row covers takes the last row's points, a
\* premium below 100 included.
TargetBuffer(price) ==
    CASE price >= Pts(100) /\ price < Pts(200) -> Pts(3)
      [] price >= Pts(200) /\ price < Pts(300) -> Pts(4)
      [] price >= Pts(300) /\ price < Pts(400) -> Pts(5)
      [] OTHER                                 -> Pts(5)

\* The direction in which the position earns.
Side(s) == IF s.action = "BUY" THEN 1 ELSE -1

\* apply_buffer and build_gtt_payload: the legs of the order.
Adjusted(s) ==
    [entry  |-> IF TradeType(s) = "RANGING" THEN (s.low + s.high) \div 2 ELSE s.low,
     target |-> s.target - Side(s) * TargetBuffer(s.low),
     stop   |-> s.stop - Side(s) * Pts(3)]

Risk(s)   == Side(s) * (s.low - s.stop)
Reward(s) == Side(s) * (s.target - s.low)

\* Mutant of Worthwhile: the ratio is compared with 1.
WorthwhileEven(s) == Risk(s) <= 0 \/ Reward(s) >= Risk(s)

\* The ratio check: not (reward / risk < 2).
Worthwhile(s) == Risk(s) <= 0 \/ Reward(s) >= 2 * Risk(s)

\* Mutant of Moved: the comparison of the BUY side for both.
MovedUp(s, price) == price # 0 /\ price >= Adjusted(s).target

\* check_missed_entry: the cached price has reached the adjusted target.
Moved(s, price) == price # 0 /\ Side(s) * (price - Adjusted(s).target) >= 0

\* Bound: the cached prices tried, one in each interval the rules tell apart.
Quotes(s) == {0, s.low} \cup {p \in {s.target, Adjusted(s).target} : p > 0}

-----------------------------------------------------------------------------
(* process_signal *)

TypeOK ==
    /\ pc \in {"parse", "timing", "pnl", "targets", "odds", "lookup", "missed", "place", "done"}
    /\ signal \in Signals
    /\ order \in [entry : Int, target : Int, stop : Int]
    /\ hour \in hours /\ hours \subseteq Hours
    /\ ltp \in prices /\ prices \subseteq Int
    /\ moves \in 0..MaxMoves

\* A signal is taken from the stream, at any hour and any cached price.
Init ==
    /\ pc = "parse" /\ signal \in Signals /\ order = NoOrder
    /\ hour \in Hours /\ hours = {hour}
    /\ ltp \in Quotes(signal) /\ prices = {ltp}
    /\ moves = 0

\* The signal passes a gate, or leaves process_signal there.
Passes(gate, next) == pc = gate /\ pc' = next /\ UNCHANGED <<signal, order, market>>
Stops(gate)        == Passes(gate, "done")

Parse ==
    \/ Valid(signal)  /\ Passes("parse", "timing")
    \/ ~Valid(signal) /\ Stops("parse")

TimingGate ==
    \/ (DryRun \/ InHours(hour))    /\ Passes("timing", "pnl")
    \/ ~DryRun /\ ~InHours(hour) /\ Stops("timing")

\* pnl_guard.allow, whose answer is the business of DayGuard.
PnlGate == Passes("pnl", "targets") \/ Stops("pnl")

TargetGate ==
    \/ signal.target # 0 /\ Passes("targets", "odds")
    \/ signal.target = 0 /\ Stops("targets")

RatioGate ==
    \/ Worthwhile(signal)  /\ Passes("odds", "lookup")
    \/ ~Worthwhile(signal) /\ Stops("odds")

\* instrument_cache.resolve finds the contract or raises InstrumentNotFound.
LookUp == Passes("lookup", "missed") \/ Stops("lookup")

MissedGate ==
    \/ ~Moved(signal, ltp) /\ Passes("missed", "place")
    \/ Moved(signal, ltp)  /\ Stops("missed")

\* The insert loses to an earlier row, the rate limit or the broker refuses.
Refused == Stops("place")

\* place_gtt with the payload of the adjusted prices.
Place ==
    /\ pc = "place"
    /\ order' = Adjusted(signal)
    /\ pc' = "done"
    /\ UNCHANGED <<signal, market>>

Gate == Parse \/ TimingGate \/ PnlGate \/ TargetGate \/ RatioGate \/ LookUp \/ MissedGate

-----------------------------------------------------------------------------
(* The market *)

Follows(h) ==
    CASE h = "early"   -> {"opening"}
      [] h = "opening" -> {"open"}
      [] h = "open"    -> {"late"}
      [] h = "late"    -> {"early", "weekend"}
      [] h = "weekend" -> {"early"}

\* A move that falls between two gates of the signal.
Moves == pc # "done" /\ moves < MaxMoves /\ moves' = moves + 1

TimePasses ==
    /\ Moves
    /\ hour' \in Follows(hour)
    /\ hours' = hours \cup {hour'}
    /\ UNCHANGED <<engine, ltp, prices>>

\* The market feed writes the cache, or the key's time to live ends.
PriceMoves ==
    /\ Moves
    /\ ltp' \in Quotes(signal) \ {ltp}
    /\ prices' = prices \cup {ltp'}
    /\ UNCHANGED <<engine, hour, hours>>

Next == Gate \/ Refused \/ Place \/ TimePasses \/ PriceMoves

Spec == Init /\ [][Next]_vars

-----------------------------------------------------------------------------
(* Properties *)

Drift(s) == Side(s) * (order.entry - s.low)
Gain(s)  == Side(s) * (order.target - order.entry)
Loss(s)  == Side(s) * (order.entry - order.stop)

\* An exact entry that risks at least three points is placed between its stop
\* and its target: the two buffers never push a leg across the entry that the
\* ratio gate let through.  (Below three points they do.)
ExactEntryIsBracketed ==
    order # NoOrder /\ Drift(signal) = 0 /\ Risk(signal) >= Pts(3)
        => Gain(signal) > 0 /\ Loss(signal) > 0

\* The gate weighs raw prices, the broker holds adjusted ones: of the 1:2 ratio
\* the placed legs lose at most eleven points, and three times the distance
\* between the midpoint and the low end of a range.
RatioOutlivesBuffers ==
    order # NoOrder
        => Gain(signal) + Pts(11) + 3 * Drift(signal) >= 2 * Loss(signal)

\* However long the gates take: no order is placed for a move that was over
\* from the moment the signal was taken, by any price the cache showed, or in
\* hours that were closed all along.
EnteredInTime ==
    order # NoOrder =>
        /\ \E p \in prices : p = 0 \/ Side(signal) * (order.target - p) > 0
        /\ DryRun \/ \E h \in hours : h = "open" \/ (h = "opening" /\ Profile = "RISK")
=============================================================================
