-------------------------- MODULE SignalLedgerProofs --------------------------
(***************************************************************************)
(* Theorems about SignalLedger for any targets, any length of the feed and *)
(* any number of faults.                                                   *)
(***************************************************************************)
EXTENDS SignalLedger, TLAPS

-----------------------------------------------------------------------------
(* Sequences and rules *)

LEMMA SeqWider ==
    ASSUME NEW S, NEW T, S \subseteq T, NEW s \in Seq(S)
    PROVE  s \in Seq(T)
OBVIOUS

LEMMA HeadTail ==
    ASSUME NEW S, NEW s \in Seq(S), s # <<>>
    PROVE  Head(s) \in S /\ Tail(s) \in Seq(S) /\ Len(Tail(s)) = Len(s) - 1
OBVIOUS

LEMMA Joined ==
    ASSUME NEW S, NEW s \in Seq(S), NEW t \in Seq(S)
    PROVE  s \o t \in Seq(S) /\ Len(s \o t) = Len(s) + Len(t)
OBVIOUS

LEMMA Single ==
    ASSUME NEW S, NEW x \in S
    PROVE  <<x>> \in Seq(S) /\ Len(<<x>>) = 1 /\ <<>> \in Seq(S)
OBVIOUS

\* The rules selected from a GTT carry its order ids and its entry's status.
RulesOf(legs, entry) ==
    {r \in Rule : (r.placed => r.leg \in legs) /\ r.rule \in {entry, "COMPLETED"}}

LEMMA Selected ==
    ASSUME NEW legs \in SUBSET Leg, NEW entry \in RuleState
    PROVE  Select(legs, entry) \in Seq(RulesOf(legs, entry))
<1> DEFINE S == RulesOf(legs, entry)
           none == <<>>
           first == IF Entry \in legs \/ entry \in {"FAILED", "CANCELLED"}
                      THEN <<[leg |-> Entry, rule |-> entry, placed |-> Entry \in legs]>> ELSE none
           second == IF "TARGET" \in legs
                       THEN <<[leg |-> "TARGET", rule |-> "COMPLETED", placed |-> TRUE]>> ELSE none
           third == IF "STOPLOSS" \in legs
                      THEN <<[leg |-> "STOPLOSS", rule |-> "COMPLETED", placed |-> TRUE]>> ELSE none
<1>1. [leg |-> Entry, rule |-> entry, placed |-> Entry \in legs] \in S
  <2> DEFINE r == [leg |-> Entry, rule |-> entry, placed |-> Entry \in legs]
  <2>1. r \in Rule
    BY DEF Rule, Leg, Entry
  <2>2. r.placed <=> Entry \in legs
    BY Zenon
  <2>3. r.leg = Entry /\ r.rule = entry
    OBVIOUS
  <2> HIDE DEF r
  <2>4. r \in S
    BY <2>1, <2>2, <2>3 DEF RulesOf
  <2> QED BY <2>4 DEF r
<1>2. "TARGET" \in legs => [leg |-> "TARGET", rule |-> "COMPLETED", placed |-> TRUE] \in S
  BY DEF RulesOf, Rule, Leg, RuleState
<1>3. "STOPLOSS" \in legs => [leg |-> "STOPLOSS", rule |-> "COMPLETED", placed |-> TRUE] \in S
  BY DEF RulesOf, Rule, Leg, RuleState
<1>4. none \in Seq(S)
  OBVIOUS
<1>5. first \in Seq(S)
  <2> HIDE DEF S
  <2> QED BY <1>1, <1>4, Single
<1>6. second \in Seq(S)
  <2> HIDE DEF S
  <2> QED BY <1>2, <1>4, Single
<1>7. third \in Seq(S)
  <2> HIDE DEF S
  <2> QED BY <1>3, <1>4, Single
<1>8. first \o second \o third \in Seq(S)
  <2> HIDE DEF S, first, second, third
  <2> QED BY <1>5, <1>6, <1>7, Joined
<1> QED BY <1>8 DEF Select

\* The actions of Next, one by one.
LEMMA NextSplit ==
    ASSUME Next
    PROVE  \/ \E l \in Leg : Trigger(l) \/ Fill(l) \/ Reject(l)
           \/ Ends \/ Insert \/ Connect \/ Reconcile \/ Ready \/ GttUpdate \/ LookUp
           \/ OrderUpdate \/ Apply \/ Disconnect \/ Abandon \/ Crash
           \/ StartFallback \/ Rebuild \/ TickStop \/ (\E x \in Level : Tick(x))
           \/ PollGtt \/ ApplyPoll
BY DEF Next, Broker, Tracker, Fallback

-----------------------------------------------------------------------------
(* Type correctness *)

\* What the broker's and the writers' building blocks are.
LEMMA BrokerTypes ==
    ASSUME NEW g \in {"live", "cancelled", "expired"}, NEW o \in [Leg -> OrderState], NEW l \in Leg
    PROVE  /\ EntryRule(g, o) \in RuleState
           /\ GttPayload(g, o) \in Payload /\ OrderPayload(o, l) \in Payload
           /\ ApiPrice(o[l]) \in Price
<1>1. EntryRule(g, o) \in RuleState
  BY DEF EntryRule, RuleState
<1>2. ApiPrice(o[l]) \in Price
  BY DEF ApiPrice, Price
<1>3. o[l] \in OrderState
  OBVIOUS
<1> QED BY <1>1, <1>2, <1>3 DEF GttPayload, OrderPayload, Payload

LEMMA RowTypes ==
    ASSUME NEW r \in Row, NEW p \in Price, NEW s \in Status, NEW pnl \in Price \X Price
    PROVE  /\ Filled(r, p) \in Row /\ Closed(r, s, p, pnl) \in Row
           /\ Basis(p) \in Price
           /\ [r EXCEPT !.status = s] \in Row
BY DEF Filled, Closed, Basis, Row, Status, Price, Watchable

LEMMA LegTypes == \A l \in Leg : HitOf(l) \in Exits
BY DEF HitOf, Exits

\* A broker's change of one leg.
LEMMA ChangeType ==
    ASSUME TypeOK, LedgerAssumption, NEW l \in Leg, NEW s \in OrderState, Changes(l, s)
    PROVE  TypeOK'
<1>1. order' \in [Leg -> OrderState]
  BY DEF Changes, TypeOK
<1>2. <<OrderPayload(order', l), GttPayload(gtt, order')>> \in Seq(Payload)
  BY <1>1, BrokerTypes DEF TypeOK
<1>3. feed' \in Seq(Payload) /\ Len(feed') <= QueueCap
  <2> DEFINE two == <<OrderPayload(order', l), GttPayload(gtt, order')>>
  <2>1. two \in Seq(Payload) /\ Len(two) = 2
    BY <1>2
  <2>2. feed' = IF connected THEN feed \o two ELSE feed
    BY DEF Changes, Send
  <2>3. Len(feed) + 2 <= QueueCap /\ feed \in Seq(Payload) /\ QueueCap \in Nat
    BY DEF Changes, Send, TypeOK, LedgerAssumption
  <2> HIDE DEF two
  <2>4. feed \o two \in Seq(Payload) /\ Len(feed \o two) = Len(feed) + 2
    BY <2>1, <2>3, Joined
  <2> QED BY <2>2, <2>3, <2>4
<1> QED BY <1>1, <1>3 DEF Changes, TypeOK, tracker, fallback

LEMMA EndsType ==
    ASSUME TypeOK, LedgerAssumption, Ends
    PROVE  TypeOK'
<1>1. gtt' \in {"live", "cancelled", "expired"}
  BY DEF Ends
<1>2. GttPayload(gtt', order) \in Payload
  BY <1>1, BrokerTypes DEF TypeOK, Leg
<1>3. feed' \in Seq(Payload) /\ Len(feed') <= QueueCap
  <2> DEFINE one == <<GttPayload(gtt', order)>>
  <2>1. one \in Seq(Payload) /\ Len(one) = 1
    BY <1>2
  <2>2. feed' = IF connected THEN feed \o one ELSE feed
    BY DEF Ends, Send
  <2>3. Len(feed) + 2 <= QueueCap /\ feed \in Seq(Payload) /\ QueueCap \in Nat
    BY DEF Ends, Send, TypeOK, LedgerAssumption
  <2> HIDE DEF one
  <2>4. feed \o one \in Seq(Payload) /\ Len(feed \o one) = Len(feed) + 1
    BY <2>1, <2>3, Joined
  <2> QED BY <2>2, <2>3, <2>4
<1> QED BY <1>1, <1>3 DEF Ends, TypeOK, tracker, fallback

LEMMA InsertType ==
    ASSUME TypeOK, Insert
    PROVE  TypeOK'
<1>1. row' \in Row
  BY DEF Insert, NoRow, NoPnl, Row, Status, Price, Watchable
<1> QED BY <1>1 DEF Insert, TypeOK, broker, tracker, fallback

\* The tracker's reading of rules and payloads.
LEMMA ReadType ==
    ASSUME TypeOK, LedgerAssumption, Connect \/ Reconcile \/ Ready \/ GttUpdate
    PROVE  TypeOK'
<1>1. CASE Connect
  BY <1>1 DEF Connect, TypeOK, broker, tracker, fallback
<1>2. CASE Reconcile
  <2>1. Placed \in SUBSET Leg /\ EntryRule(gtt, order) \in RuleState /\ "COMPLETED" \in RuleState
    BY BrokerTypes DEF Placed, TypeOK, RuleState, Leg
  <2>2. row.legs \in SUBSET Leg
    BY DEF TypeOK, Row
  <2>3. \A legs \in SUBSET Leg, e \in RuleState : Select(legs, e) \in Seq(Rule)
    BY Selected, SeqWider DEF RulesOf
  <2>4. /\ Select(Placed, EntryRule(gtt, order)) \in Seq(Rule)
        /\ Select(row.legs, "COMPLETED") \in Seq(Rule)
    BY <2>1, <2>2, <2>3
  <2>6. Select(Placed, EntryRule(gtt, order)) \o Select(row.legs, "COMPLETED") \in Seq(Rule)
    BY <2>4, Joined
  <2>7. todo' \in Seq(Rule)
    BY <1>2, <2>4, <2>6 DEF Reconcile, Pollable, FetchedRules
  <2>5. faults' \in 0..MaxFaults
    BY <1>2 DEF Reconcile, Pollable, FetchedRules, Fault, TypeOK, LedgerAssumption
  <2> QED BY <1>2, <2>5, <2>7 DEF Reconcile, Pollable, FetchedRules, TypeOK, broker, fallback
<1>3. CASE Ready
  BY <1>3 DEF Ready, Pollable, TypeOK, broker, fallback
<1>4. CASE GttUpdate
  <2>1. Head(feed) \in Payload /\ Tail(feed) \in Seq(Payload) /\ Len(Tail(feed)) <= QueueCap
    BY <1>4, HeadTail DEF GttUpdate, TypeOK, LedgerAssumption
  <2>2. Head(feed).legs \in SUBSET Leg /\ Head(feed).entry \in RuleState
    BY <1>4, <2>1 DEF GttUpdate, Payload
  <2>3. Select(Head(feed).legs, Head(feed).entry) \in Seq(Rule)
    <3>1. RulesOf(Head(feed).legs, Head(feed).entry) \subseteq Rule
      BY DEF RulesOf
    <3> QED BY <2>2, <3>1, Selected, SeqWider
  <2>4. todo' \in Seq(Rule)
    BY <1>4, <2>3 DEF GttUpdate
  <2> QED BY <1>4, <2>1, <2>4 DEF GttUpdate, TypeOK, broker, fallback
<1> QED BY <1>1, <1>2, <1>3, <1>4

LEMMA LookUpType ==
    ASSUME TypeOK, LedgerAssumption, LookUp
    PROVE  TypeOK'
<1>1. Head(todo) \in Rule /\ Tail(todo) \in Seq(Rule)
  BY HeadTail DEF LookUp, Quoted, TypeOK
<1>2. Head(todo).leg \in Leg /\ Head(todo).rule \in RuleState
  BY <1>1 DEF Rule
<1>3. row' \in Row
  <2>1. row \in Row /\ row.legs \in SUBSET Leg
    BY DEF TypeOK, Row
  <2> DEFINE known == IF Head(todo).placed THEN Stored(row, Head(todo).leg) ELSE row
  <2>2. known \in Row
    BY <1>2, <2>1 DEF Row, Stored
  <2>3. row' = IF Head(todo).leg = Entry /\ Head(todo).rule \in {"FAILED", "CANCELLED"}
                 THEN Marked(known, Head(todo).rule) ELSE known
    BY DEF LookUp, Ruled
  <2> HIDE DEF known
  <2>4. \A s \in {"FAILED", "CANCELLED"} : Marked(known, s) \in Row
    BY <2>2 DEF Row, Status, Marked
  <2> QED BY <2>2, <2>3, <2>4
<1>4. hold' \in Hold \cup {NoHold}
  <2>1. ApiPrice(order[Head(todo).leg]) \in Price /\ "none" \in Price
    BY <1>2, BrokerTypes DEF TypeOK, Price
  <2>2. row'.status \in Status /\ row'.entry \in Price
    BY <1>3 DEF Row
  <2>3. \A p \in Price : Holding(Head(todo).leg, p, row') \in Hold
    BY <1>2, <2>2 DEF Holding, Hold
  <2> QED BY <2>1, <2>3 DEF LookUp, Quoted, TypeOK
<1>5. faults' \in 0..MaxFaults
  BY DEF LookUp, Quoted, Fault, TypeOK, LedgerAssumption
<1> QED BY <1>1, <1>3, <1>4, <1>5 DEF LookUp, Quoted, TypeOK, broker, fallback

LEMMA OrderUpdateType ==
    ASSUME TypeOK, LedgerAssumption, OrderUpdate
    PROVE  TypeOK'
<1>1. Head(feed) \in Payload /\ Tail(feed) \in Seq(Payload) /\ Len(Tail(feed)) <= QueueCap
  BY HeadTail DEF OrderUpdate, Known, TypeOK, LedgerAssumption
<1>2. Head(feed).leg \in Leg /\ Head(feed).state \in OrderState
  BY <1>1 DEF OrderUpdate, Known, Payload
<1>3. order[Head(feed).leg] \in OrderState
  BY <1>2 DEF TypeOK
<1>4. \A s \in OrderState : ApiPrice(s) \in Price
  BY DEF ApiPrice, Price
<1>5. \A p \in Price \cup {"reject"} : Holding(Head(feed).leg, p, row) \in Hold
  BY <1>2 DEF Holding, Hold, TypeOK, Row
<1>6. hold' \in Hold \cup {NoHold}
  BY <1>2, <1>3, <1>4, <1>5 DEF OrderUpdate, Known
<1> QED BY <1>1, <1>6 DEF OrderUpdate, Known, TypeOK, broker, fallback

LEMMA ApplyType ==
    ASSUME TypeOK, Apply
    PROVE  TypeOK'
<1>1. hold \in Hold /\ row \in Row
  BY DEF Apply, TypeOK
<1>2. hold.leg \in Leg /\ hold.price \in Price \cup {"reject"} /\ hold.entry \in Price
  BY <1>1 DEF Hold
<1>3. Rejected(row, hold) \in Row
  BY <1>1 DEF Rejected, Marked, Row, Status
<1>4. hold.price # "reject" => EntryFill(row, hold) \in Row
  BY <1>1, <1>2 DEF EntryFill, Filled, Row, Status, Watchable
<1>5. hold.price # "reject" => ExitFill(row, hold) \in Row
  <2>1. Basis(hold.entry) \in Price /\ HitOf(hold.leg) \in Status
    BY <1>2, LegTypes DEF Basis, Price, Status
  <2> QED BY <1>1, <1>2, <2>1 DEF ExitFill, Closed, Row
<1>6. row' \in Row
  BY <1>3, <1>4, <1>5 DEF Apply
<1> QED BY <1>6 DEF Apply, TypeOK, broker, fallback

LEMMA StopType ==
    ASSUME TypeOK, LedgerAssumption, Disconnect \/ Abandon \/ Crash
    PROVE  TypeOK'
<1>1. faults' \in 0..MaxFaults
  BY DEF Disconnect, Abandon, Crash, Fault, TypeOK, LedgerAssumption
<1>2. Len(<<>>) <= QueueCap /\ <<>> \in Seq(Payload) /\ <<>> \in Seq(Rule)
  BY DEF LedgerAssumption
<1> QED BY <1>1, <1>2 DEF Disconnect, Abandon, Crash, TypeOK, broker, tracker, fallback

\* What the fallback fetches has its type.
LEMMA FetchedType ==
    ASSUME TypeOK, NEW f \in BOOLEAN
    PROVE  Fetched(f) \in Poll
<1>1. Report \in {"active", "cancelled", "expired", "triggered"}
  BY DEF Report, TypeOK
<1> QED BY <1>1 DEF Fetched, Poll, TypeOK

LEMMA WatchType ==
    ASSUME TypeOK, LedgerAssumption, StartFallback \/ Rebuild \/ PollGtt
    PROVE  TypeOK'
<1>1. CASE StartFallback
  <2>1. faults' \in 0..MaxFaults
    BY <1>1 DEF StartFallback, Unpriced, Fault, TypeOK, LedgerAssumption
  <2>2. Len(<<>>) <= QueueCap /\ <<>> \in Seq(Payload) /\ <<>> \in Seq(Rule)
    BY DEF LedgerAssumption
  <2>3. poll' \in Poll \cup {NoPoll}
    BY <1>1, FetchedType DEF StartFallback, Unpriced
  <2> QED BY <1>1, <2>1, <2>2, <2>3 DEF StartFallback, Unpriced, TypeOK, broker
<1>2. CASE Rebuild
  <2>1. cache' \in Cache \cup {NoCache}
    BY <1>2 DEF Rebuild, Cache, TypeOK, Row
  <2> QED BY <1>2, <2>1 DEF Rebuild, TypeOK, broker, tracker
<1>3. CASE PollGtt
  BY <1>3, FetchedType DEF PollGtt, Pollable, TypeOK, broker, tracker
<1> QED BY <1>1, <1>2, <1>3

LEMMA TickType ==
    ASSUME TypeOK, LedgerAssumption, TickStop \/ \E x \in Level : Tick(x)
    PROVE  TypeOK'
<1>1. CASE TickStop
  <2>1. cache \in Cache /\ row \in Row
    BY <1>1 DEF TickStop, TypeOK
  <2>2. cache.entry \in Price /\ Basis(cache.entry) \in Price
    BY <2>1 DEF Cache, Basis, Price
  <2>3. (IF cache.status = "PENDING" THEN <<"zero", "zero">> ELSE <<Basis(cache.entry), "tick">>)
           \in Price \X Price
    BY <2>2 DEF Price
  <2>4. "STOPLOSS_HIT" \in Status /\ "tick" \in Price
    BY DEF Status, Exits, Price
  <2>5. row' \in Row
    BY <1>1, <2>1, <2>3, <2>4, RowTypes DEF TickStop
  <2> QED BY <1>1, <2>5 DEF TickStop, TypeOK, broker, tracker
<1>2. ASSUME NEW x \in Level, Tick(x)
      PROVE  TypeOK'
  <2> DEFINE enters == cache.status = "PENDING"
             copy == IF enters THEN [cache EXCEPT !.status = "ACTIVE", !.entry = "tick"] ELSE cache
             opened == IF enters THEN Filled(row, "tick") ELSE row
             hits == cache.hits \cup Reached(x)
  <2>1. cache \in Cache /\ row \in Row
    BY <1>2 DEF Tick, TypeOK
  <2>2. copy \in Cache /\ opened \in Row
    BY <2>1 DEF Cache, Watchable, Price, Filled, Row, Status
  <2>3. hits \in SUBSET {"t1", "t2"}
    BY <2>1 DEF Cache, Reached, LedgerAssumption
  <2>4. /\ row' = IF "t1" \in hits \ cache.hits
                    THEN Closed(opened, "TARGET1_HIT", "tick", <<Basis(copy.entry), "tick">>)
                    ELSE opened
        /\ cache' = IF Goals \subseteq hits THEN NoCache ELSE [copy EXCEPT !.hits = hits]
    BY <1>2 DEF Tick
  <2> HIDE DEF enters, copy, opened, hits
  <2>5. Basis(copy.entry) \in Price
    BY <2>2 DEF Cache, Basis, Price
  <2>6. "TARGET1_HIT" \in Status /\ "tick" \in Price /\ <<Basis(copy.entry), "tick">> \in Price \X Price
    BY <2>5 DEF Status, Exits, Price
  <2>7. row' \in Row
    BY <2>2, <2>4, <2>6, RowTypes
  <2>8. cache' \in Cache \cup {NoCache}
    BY <2>2, <2>3, <2>4 DEF Cache
  <2> QED BY <1>2, <2>7, <2>8 DEF Tick, TypeOK, broker, tracker
<1> QED BY <1>1, <1>2

LEMMA ApplyPollType ==
    ASSUME TypeOK, ApplyPoll
    PROVE  TypeOK'
<1>1. poll \in Poll /\ row \in Row /\ row.entry \in Price /\ row.exit \in Price /\ row.pnl \in Price \X Price
  BY DEF ApplyPoll, TypeOK, Row
<1>2. poll.seen \in Row /\ poll.seen.entry \in Price
  BY <1>1 DEF Poll, Row
<1>3. {"zero", "limit", "none"} \subseteq Price /\ {"CANCELLED", "EXPIRED"} \cup Exits \subseteq Status
  BY DEF Price, Status
<1>4. CASE PolledEnd
  <2>1. row' \in Row /\ cache' \in Cache \cup {NoCache}
    BY <1>1, <1>3, <1>4, RowTypes DEF PolledEnd, TypeOK
  <2> QED BY <2>1 DEF ApplyPoll, TypeOK, broker, tracker
<1>5. CASE PolledPrices
  <2> DEFINE basis == IF Entry \in poll.legs THEN "limit" ELSE Basis(poll.seen.entry)
             exits == PollExit # "none" /\ poll.seen.exit = "none"
  <2>1. basis \in Price
    BY <1>2, <1>3 DEF Basis, Price
  <2>2. row' = Backfilled(row,
                 IF Entry \in poll.legs /\ poll.seen.entry = "none" THEN "limit" ELSE "none",
                 IF exits THEN "limit" ELSE "none",
                 IF exits /\ poll.seen.pnl = NoPnl THEN <<basis, "limit">> ELSE NoPnl)
    BY <1>5 DEF PolledPrices
  <2> HIDE DEF basis, exits
  <2>3. row' \in Row
    BY <1>1, <1>3, <2>1, <2>2 DEF Row, Backfilled
  <2> QED BY <1>5, <2>3 DEF PolledPrices, ApplyPoll, TypeOK, broker, tracker
<1>6. CASE PolledFills
  <2> DEFINE enters == Entry \in poll.legs /\ poll.seen.status = "PENDING"
             opened == IF enters THEN Filled(row, "limit") ELSE row
             exits == PollExit # "none" /\ poll.seen.status \notin PollTerminal
  <2>1. opened \in Row
    BY <1>1, <1>3 DEF Filled, Row, Status, Watchable
  <2>2. /\ row' = IF exits THEN Closed(opened, HitOf(PollExit), "limit", <<"limit", "limit">>)
                  ELSE opened
        /\ cache' = IF exits THEN NoCache
                    ELSE IF enters /\ cache # NoCache
                      THEN [cache EXCEPT !.status = "ACTIVE", !.entry = "limit"] ELSE cache
    BY <1>6 DEF PolledFills
  <2>3. HitOf(PollExit) \in Exits
    BY DEF HitOf, Exits
  <2> HIDE DEF enters, opened, exits
  <2>4. row' \in Row
    BY <1>3, <2>1, <2>2, <2>3, RowTypes
  <2>5. cache' \in Cache \cup {NoCache}
    BY <2>2, <1>3 DEF TypeOK, Cache, Watchable
  <2> QED BY <2>4, <2>5 DEF ApplyPoll, TypeOK, broker, tracker
<1> QED BY <1>4, <1>5, <1>6 DEF ApplyPoll

LEMMA InitType == LedgerAssumption /\ Init => TypeOK
<1> SUFFICES ASSUME LedgerAssumption, Init PROVE TypeOK
  OBVIOUS
<1>1. feed \in Seq(Payload) /\ Len(feed) <= QueueCap /\ todo \in Seq(Rule)
  BY DEF Init, LedgerAssumption
<1>2. row \in Row
  BY DEF Init, NoRow, NoPnl, Row, Status, Price
<1>3. order \in [Leg -> OrderState]
  BY DEF Init, OrderState
<1>4. faults \in 0..MaxFaults
  BY DEF Init, LedgerAssumption
<1> QED BY <1>1, <1>2, <1>3, <1>4 DEF Init, TypeOK

LEMMA NextType ==
    ASSUME TypeOK, LedgerAssumption, [Next]_vars
    PROVE  TypeOK'
<1>1. CASE UNCHANGED vars
  BY <1>1 DEF vars, broker, tracker, fallback, TypeOK
<1>2. ASSUME NEW l \in Leg, Trigger(l) \/ Fill(l) \/ Reject(l)
      PROVE  TypeOK'
  <2>1. \E s \in OrderState : Changes(l, s)
    BY <1>2 DEF Trigger, Fill, Reject, OrderState
  <2> QED BY <2>1, ChangeType
<1>3. CASE Next
  BY <1>2, <1>3, NextSplit, EndsType, InsertType, ReadType, LookUpType, OrderUpdateType,
     ApplyType, StopType, WatchType, TickType, ApplyPollType
<1> QED BY <1>1, <1>3

\* Types are kept, whatever the bounds: what the handlers decode, hold and
\* write is what the columns of the row take.
THEOREM TypeCorrect == Spec => []TypeOK
BY InitType, NextType, LedgerAssumption, PTL DEF Spec
-----------------------------------------------------------------------------
(* Who writes when: the tracker has nothing at hand while the fallback runs, *)
(* the fallback nothing before, and nobody anything before the row exists.   *)

Turns ==
    /\ FallbackRuns => todo = <<>> /\ hold = NoHold /\ feed = <<>> /\ ~connected
    /\ ~FallbackRuns => cache = NoCache /\ poll = NoPoll
    /\ row.status = "absent" =>
          row.legs = {} /\ todo = <<>> /\ hold = NoHold /\ cache = NoCache /\ poll = NoPoll

\* A writer never deletes the row.
LEMMA Stays ==
    ASSUME TypeOK, row.status # "absent",
           Apply \/ LookUp \/ TickStop \/ (\E x \in Level : Tick(x)) \/ ApplyPoll
    PROVE  row'.status # "absent"
<1>1. row \in Row
  BY DEF TypeOK
<1>2. \A p, pnl : /\ Filled(row, p).status = "ACTIVE"
                  /\ \A st \in Terminal : Closed(row, st, p, pnl).status = st
                  /\ \A st \in Terminal : Closed(Filled(row, "tick"), st, p, pnl).status = st
                  /\ \A st \in Terminal : Closed(Filled(row, "limit"), st, p, pnl).status = st
  BY <1>1 DEF Filled, Closed, Row
<1>3. \A l : HitOf(l) \in Terminal
  BY DEF HitOf, Terminal, Exits
<1>4. "absent" \notin Terminal /\ {"TARGET1_HIT", "STOPLOSS_HIT", "CANCELLED", "EXPIRED", "FAILED"} \subseteq Terminal
  BY DEF Terminal, Exits
<1>5. CASE Apply
  <2>1. Rejected(row, hold).status # "absent"
    BY <1>1 DEF Rejected, Marked, Row
  <2>2. EntryFill(row, hold).status # "absent"
    BY <1>2 DEF EntryFill
  <2>3. ExitFill(row, hold).status # "absent"
    BY <1>2, <1>3, <1>4 DEF ExitFill
  <2> QED BY <1>5, <2>1, <2>2, <2>3 DEF Apply
<1>6. CASE LookUp
  BY <1>1, <1>6 DEF LookUp, Quoted, Ruled, Stored, Marked, Row
<1>7. CASE TickStop
  BY <1>2, <1>4, <1>7 DEF TickStop
<1>8. ASSUME NEW x \in Level, Tick(x)
      PROVE  row'.status # "absent"
  BY <1>2, <1>4, <1>8 DEF Tick
<1>9. CASE ApplyPoll
  <2>1. CASE PolledEnd
    BY <1>2, <1>4, <2>1 DEF PolledEnd
  <2>2. CASE PolledPrices
    BY <1>1, <2>2 DEF PolledPrices, Backfilled, Row
  <2>3. CASE PolledFills
    BY <1>2, <1>3, <1>4, <2>3 DEF PolledFills
  <2> QED BY <1>9, <2>1, <2>2, <2>3 DEF ApplyPoll
<1> QED BY <1>5, <1>6, <1>7, <1>8, <1>9

LEMMA TurnsStep ==
    ASSUME TypeOK, Turns, [Next]_vars
    PROVE  Turns'
<1>1. CASE UNCHANGED vars
  BY <1>1 DEF vars, tracker, fallback, Turns, FallbackRuns
<1>2. ASSUME NEW l \in Leg, Trigger(l) \/ Fill(l) \/ Reject(l)
      PROVE  Turns'
  <2>1. \E s \in OrderState : Changes(l, s)
    BY <1>2 DEF Trigger, Fill, Reject, OrderState
  <2> QED BY <2>1 DEF Changes, Send, Turns, tracker, fallback, FallbackRuns
<1>3. CASE Ends
  BY <1>3 DEF Ends, Send, Turns, tracker, fallback, FallbackRuns
<1>4. CASE Insert
  <2>1. row'.status = "PENDING"
    BY <1>4 DEF Insert, NoRow
  <2> QED BY <1>4, <2>1 DEF Insert, Turns, tracker, fallback, FallbackRuns
<1>5. CASE Connect
  BY <1>5 DEF Connect, Turns, tracker, fallback, FallbackRuns, Idle
<1>6. CASE Reconcile
  BY <1>6 DEF Reconcile, Pollable, FetchedRules, Turns, fallback, FallbackRuns, Watchable
<1>7. CASE Ready
  BY <1>7 DEF Ready, Pollable, Turns, fallback, FallbackRuns, AtRest
<1>8. CASE GttUpdate
  BY <1>8 DEF GttUpdate, Turns, fallback, FallbackRuns, Idle
<1>9. CASE LookUp
  <2>1. row.status # "absent" /\ ~FallbackRuns
    BY <1>9 DEF LookUp, Quoted, Turns
  <2> QED BY <1>9, <2>1, Stays DEF LookUp, Quoted, Turns, fallback, FallbackRuns
<1>10. CASE OrderUpdate
  <2>1. row.status = "absent" => row.legs = {}
    BY DEF Turns
  <2>2. row.legs = {} => hold' = NoHold
    BY <1>10 DEF OrderUpdate, Known
  <2> QED BY <1>10, <2>1, <2>2 DEF OrderUpdate, Known, Turns, fallback, FallbackRuns, Idle
<1>11. CASE Apply
  <2>1. row.status # "absent" /\ ~FallbackRuns
    BY <1>11 DEF Apply, Turns
  <2> QED BY <1>11, <2>1, Stays DEF Apply, Turns, fallback, FallbackRuns
<1>12. CASE Disconnect \/ Abandon \/ Crash
  BY <1>12 DEF Disconnect, Abandon, Crash, Turns, tracker, fallback, FallbackRuns
<1>13. CASE StartFallback
  BY <1>13 DEF StartFallback, Unpriced, Turns, FallbackRuns
<1>14. CASE Rebuild
  BY <1>14 DEF Rebuild, Turns, FallbackRuns, tracker, Watchable
<1>15. CASE TickStop \/ \E x \in Level : Tick(x)
  <2>1. /\ cache # NoCache /\ FallbackRuns
        /\ UNCHANGED <<broker, feed, connected, tracker, poll, faults>>
    BY <1>15 DEF TickStop, Tick
  <2>2. row'.status # "absent"
    BY <1>15, <2>1, Stays DEF Turns
  <2> QED BY <2>1, <2>2 DEF Turns, FallbackRuns, tracker
<1>16. CASE PollGtt
  BY <1>16 DEF PollGtt, Pollable, Turns, FallbackRuns, tracker, Watchable
<1>17. CASE ApplyPoll
  <2>1. row.status # "absent" /\ FallbackRuns
    BY <1>17 DEF ApplyPoll, Turns
  <2>2. row'.status # "absent"
    BY <1>17, <2>1, Stays
  <2> QED BY <1>17, <2>1, <2>2 DEF ApplyPoll, Turns, FallbackRuns, tracker
<1> QED BY <1>1, <1>2, <1>3, <1>4, <1>5, <1>6, <1>7, <1>8, <1>9, <1>10, <1>11, <1>12, <1>13,
           <1>14, <1>15, <1>16, <1>17, NextSplit

-----------------------------------------------------------------------------
(* What payloads, rules and order ids say of the broker stays true of it. *)

\* A rule's status as a claim about the broker.
Claims(rule) ==
    /\ rule = "FAILED" => order[Entry] = "rejected"
    /\ rule = "CANCELLED" => gtt = "cancelled" /\ order[Entry] = "none"

TrueRule == {r \in Rule : (r.placed => r.leg \in Placed) /\ Claims(r.rule)}
TruePayload ==
    {p \in Payload :
        /\ p.kind = "order" =>
              p.leg \in Placed /\ (p.state = "rejected" => order[p.leg] = "rejected")
        /\ p.kind = "gtt_order" => p.legs \subseteq Placed /\ Claims(p.entry)}

Reports ==
    /\ \A l \in ExitLeg : order[l] # "none" => order[Entry] = "done"
    /\ feed \in Seq(TruePayload)
    /\ todo \in Seq(TrueRule)
    /\ row.legs \subseteq Placed
    /\ hold # NoHold =>
          hold.leg \in Placed /\ (hold.price = "reject" => order[hold.leg] = "rejected")

\* The broker's changes of an order: no claim is undone.
Advances(l, s) ==
    /\ order' = [order EXCEPT ![l] = s] /\ s \in OrderState \ {"none"}
    /\ order[l] \notin {"rejected", "done"} /\ UNCHANGED gtt
    /\ l = Entry /\ order[Entry] = "none" => gtt = "live"
    /\ l # Entry => order[Entry] = "done"

LEMMA Advancing ==
    ASSUME Reports, NEW l \in Leg, Trigger(l) \/ Fill(l) \/ Reject(l)
    PROVE  \E s \in OrderState : Changes(l, s) /\ Advances(l, s)
<1>1. l # Entry /\ order[l] # "none" => order[Entry] = "done"
  BY DEF Reports, ExitLeg
<1>2. CASE Trigger(l)
  BY <1>2 DEF Trigger, Changes, Advances, OrderState
<1>3. CASE Fill(l)
  BY <1>1, <1>3 DEF Fill, Changes, Advances, OrderState
<1>4. CASE Reject(l)
  BY <1>1, <1>4 DEF Reject, Changes, Advances, OrderState
<1> QED BY <1>2, <1>3, <1>4

LEMMA ClaimsKept ==
    ASSUME TypeOK, NEW l \in Leg, NEW s \in OrderState, Advances(l, s)
    PROVE  /\ Placed \subseteq Placed'
           /\ \A k \in Leg : order[k] = "rejected" => order'[k] = "rejected"
           /\ \A k \in RuleState : Claims(k) => Claims(k)'
           /\ TrueRule \subseteq TrueRule' /\ TruePayload \subseteq TruePayload'
<1>1. order \in [Leg -> OrderState] /\ Entry \in Leg
  BY DEF TypeOK, Leg
<1>2. Placed \subseteq Placed'
  BY <1>1 DEF Placed, Advances
<1>3. \A k \in Leg : order[k] = "rejected" => order'[k] = "rejected"
  BY <1>1 DEF Advances
<1>4. \A k \in RuleState : Claims(k) => Claims(k)'
  BY <1>1 DEF Advances, Claims
<1>5. TrueRule \subseteq TrueRule'
  BY <1>2, <1>4 DEF TrueRule, Rule
<1>6. TruePayload \subseteq TruePayload'
  BY <1>2, <1>3, <1>4 DEF TruePayload, Payload
<1> QED BY <1>2, <1>3, <1>4, <1>5, <1>6

\* What the broker reports is true when it is sent.
LEMMA SentTrue ==
    ASSUME TypeOK, LedgerAssumption, Reports
    PROVE  /\ \A l \in Placed : OrderPayload(order, l) \in TruePayload
           /\ GttPayload(gtt, order) \in TruePayload
           /\ Claims(EntryRule(gtt, order)) /\ Claims("COMPLETED")
<1>1. order \in [Leg -> OrderState] /\ Entry \in Leg
  BY DEF TypeOK, Leg
<1>2. Claims(EntryRule(gtt, order)) /\ Claims("COMPLETED")
  BY <1>1 DEF Claims, EntryRule, OrderState
<1>3. GttPayload(gtt, order) \in TruePayload
  BY <1>1, <1>2, BrokerTypes DEF TruePayload, GttPayload, Placed, TypeOK
<1>4. \A l \in Placed : OrderPayload(order, l) \in TruePayload
  BY <1>1, BrokerTypes DEF TruePayload, OrderPayload, Placed, TypeOK
<1> QED BY <1>2, <1>3, <1>4

\* A step that leaves the broker alone leaves the claims as they are.
LEMMA ClaimsQuiet ==
    ASSUME UNCHANGED broker
    PROVE  Placed' = Placed /\ TrueRule' = TrueRule /\ TruePayload' = TruePayload
BY DEF broker, Placed, TrueRule, TruePayload, Claims

LEMMA RulesTrue ==
    ASSUME NEW legs \in SUBSET Placed, NEW entry \in RuleState, Claims(entry), Claims("COMPLETED")
    PROVE  Select(legs, entry) \in Seq(TrueRule)
<1>1. RulesOf(legs, entry) \subseteq TrueRule
  BY DEF RulesOf, TrueRule
<1>2. legs \in SUBSET Leg
  BY DEF Placed
<1> QED BY <1>1, <1>2, Selected, SeqWider

LEMMA ReportsChange ==
    ASSUME TypeOK, LedgerAssumption, Turns, Reports, NEW l \in Leg, NEW s \in OrderState,
           Changes(l, s), Advances(l, s)
    PROVE  Reports'
<1>1. order \in [Leg -> OrderState] /\ Entry \in Leg /\ order' \in [Leg -> OrderState]
  BY DEF TypeOK, Leg, Advances
<1>2. \A k \in ExitLeg : order'[k] # "none" => order'[Entry] = "done"
  BY <1>1 DEF Reports, Advances, ExitLeg
<1>3. /\ Placed \subseteq Placed' /\ TrueRule \subseteq TrueRule' /\ TruePayload \subseteq TruePayload'
      /\ \A k \in Leg : order[k] = "rejected" => order'[k] = "rejected"
  BY ClaimsKept
<1>4. todo' \in Seq(TrueRule')
  BY <1>3, SeqWider DEF Reports, Changes, tracker
<1>5. OrderPayload(order', l) \in TruePayload' /\ GttPayload(gtt, order') \in TruePayload'
  <2>1. order'[l] = s /\ s # "none"
    BY <1>1 DEF Advances
  <2>2. EntryRule(gtt, order') \in RuleState /\ GttPayload(gtt, order') \in Payload
        /\ OrderPayload(order', l) \in Payload
    BY <1>1, BrokerTypes DEF TypeOK
  <2>3. /\ EntryRule(gtt, order') = "FAILED" => order'[Entry] = "rejected"
        /\ EntryRule(gtt, order') = "CANCELLED" => gtt' = "cancelled" /\ order'[Entry] = "none"
    BY <1>1 DEF EntryRule, Advances, OrderState
  <2>4. GttPayload(gtt, order') \in TruePayload'
    BY <2>2, <2>3 DEF TruePayload, GttPayload, Placed, Claims
  <2>5. OrderPayload(order', l) \in TruePayload'
    BY <2>1, <2>2 DEF TruePayload, OrderPayload, Placed
  <2> QED BY <2>4, <2>5
<1>6. feed' \in Seq(TruePayload')
  <2> DEFINE S == TruePayload'
             two == <<OrderPayload(order', l), GttPayload(gtt, order')>>
  <2>1. two \in Seq(S)
    BY <1>5
  <2>2. feed \in Seq(S)
    BY <1>3, SeqWider DEF Reports
  <2>3. feed' = IF connected THEN feed \o two ELSE feed
    BY DEF Changes, Send
  <2> HIDE DEF two, S
  <2>4. feed' \in Seq(S)
    BY <2>1, <2>2, <2>3, Joined
  <2> QED BY <2>4 DEF S
<1>7. UNCHANGED <<row, hold>>
  BY DEF Changes, tracker
<1>8. hold # NoHold => hold.leg \in Leg
  BY DEF TypeOK, Hold
<1> QED BY <1>2, <1>3, <1>4, <1>6, <1>7, <1>8 DEF Reports

LEMMA ReportsEnds ==
    ASSUME TypeOK, LedgerAssumption, Reports, Ends
    PROVE  Reports'
<1>1. /\ UNCHANGED <<order, row, todo, hold>> /\ gtt = "live" /\ order[Entry] = "none"
      /\ gtt' \in {"cancelled", "expired"}
  BY DEF Ends, tracker
<1>2. Placed' = Placed /\ \A k \in RuleState : Claims(k) => Claims(k)'
  BY <1>1 DEF Placed, Claims
<1>3. TrueRule \subseteq TrueRule' /\ TruePayload \subseteq TruePayload'
  BY <1>1, <1>2 DEF TrueRule, Rule, TruePayload, Payload
<1>4. todo' \in Seq(TrueRule')
  BY <1>1, <1>3, SeqWider DEF Reports
<1>5. GttPayload(gtt', order) \in TruePayload'
  <2>1. EntryRule(gtt', order) \in RuleState /\ GttPayload(gtt', order) \in Payload
    BY <1>1, BrokerTypes DEF TypeOK, Leg
  <2>2. EntryRule(gtt', order) # "FAILED" /\ (EntryRule(gtt', order) = "CANCELLED" => gtt' = "cancelled")
    BY <1>1 DEF EntryRule
  <2> QED BY <1>1, <2>1, <2>2 DEF TruePayload, GttPayload, Placed, Claims
<1>6. feed' \in Seq(TruePayload')
  <2> DEFINE S == TruePayload'
             one == <<GttPayload(gtt', order)>>
  <2>1. one \in Seq(S)
    BY <1>5
  <2>2. feed \in Seq(S)
    BY <1>3, SeqWider DEF Reports
  <2>3. feed' = IF connected THEN feed \o one ELSE feed
    BY DEF Ends, Send
  <2> HIDE DEF one, S
  <2>4. feed' \in Seq(S)
    BY <2>1, <2>2, <2>3, Joined
  <2> QED BY <2>4 DEF S
<1> QED BY <1>1, <1>2, <1>4, <1>6 DEF Reports

\* The steps of the tracker that read rules and payloads.
LEMMA ReportsRead ==
    ASSUME TypeOK, LedgerAssumption, Reports, Reconcile \/ GttUpdate
    PROVE  Reports'
<1>1. UNCHANGED <<broker, row, hold>>
  BY DEF Reconcile, Pollable, FetchedRules, GttUpdate
<1>2. Placed' = Placed /\ TrueRule' = TrueRule /\ TruePayload' = TruePayload
  BY <1>1, ClaimsQuiet
<1>3. Claims(EntryRule(gtt, order)) /\ Claims("COMPLETED") /\ "COMPLETED" \in RuleState
      /\ EntryRule(gtt, order) \in RuleState
  BY SentTrue, BrokerTypes DEF RuleState, TypeOK, Leg
<1>4. CASE Reconcile
  <2>1. /\ Select(Placed, EntryRule(gtt, order)) \in Seq(TrueRule)
        /\ Select(row.legs, "COMPLETED") \in Seq(TrueRule)
    BY <1>3, RulesTrue DEF Reports
  <2>2. Select(Placed, EntryRule(gtt, order)) \o Select(row.legs, "COMPLETED") \in Seq(TrueRule)
    BY <2>1, Joined
  <2>3. todo' \in Seq(TrueRule) /\ feed' = feed
    BY <1>4, <2>1, <2>2 DEF Reconcile, Pollable, FetchedRules
  <2> QED BY <1>1, <1>2, <2>3 DEF Reports, broker
<1>5. CASE GttUpdate
  <2>1. Head(feed) \in TruePayload /\ Tail(feed) \in Seq(TruePayload)
    BY <1>5, HeadTail DEF GttUpdate, Reports
  <2>2. /\ Head(feed).legs \in SUBSET Placed /\ Head(feed).entry \in RuleState
        /\ Claims(Head(feed).entry)
    BY <1>5, <2>1 DEF GttUpdate, TruePayload, Payload
  <2>3. Select(Head(feed).legs, Head(feed).entry) \in Seq(TrueRule)
    BY <1>3, <2>2, RulesTrue
  <2>4. todo' \in Seq(TrueRule) /\ feed' \in Seq(TruePayload)
    BY <1>5, <2>1, <2>3 DEF GttUpdate
  <2> QED BY <1>1, <1>2, <2>4 DEF Reports, broker
<1> QED BY <1>4, <1>5

LEMMA ReportsLookUp ==
    ASSUME TypeOK, Reports, LookUp
    PROVE  Reports'
<1>1. UNCHANGED <<broker, feed>> /\ todo # <<>>
  BY DEF LookUp, Quoted
<1>2. Placed' = Placed /\ TrueRule' = TrueRule /\ TruePayload' = TruePayload
  BY <1>1, ClaimsQuiet
<1>3. Head(todo) \in TrueRule /\ todo' \in Seq(TrueRule)
  BY <1>1, HeadTail DEF LookUp, Quoted, Reports
<1>4. row'.legs \subseteq Placed
  <2>1. row'.legs = IF Head(todo).placed THEN row.legs \cup {Head(todo).leg} ELSE row.legs
    BY DEF LookUp, Quoted, Ruled, Stored, Marked, TypeOK, Row
  <2> QED BY <1>3, <2>1 DEF TrueRule, Reports
<1>5. hold' # NoHold => hold'.leg \in Placed /\ hold'.price # "reject"
  <2>1. hold' # NoHold => /\ Head(todo).placed /\ hold'.leg = Head(todo).leg
                          /\ hold'.price \in {ApiPrice(order[Head(todo).leg]), "none"}
    BY DEF LookUp, Quoted, Holding
  <2>2. Head(todo).leg \in Leg
    BY <1>3 DEF TrueRule, Rule
  <2>3. ApiPrice(order[Head(todo).leg]) # "reject"
    BY <2>2, BrokerTypes DEF TypeOK, Price
  <2> QED BY <1>3, <2>1, <2>3 DEF TrueRule
<1> QED BY <1>1, <1>2, <1>3, <1>4, <1>5 DEF Reports, broker

LEMMA ReportsOrderUpdate ==
    ASSUME TypeOK, Reports, OrderUpdate
    PROVE  Reports'
<1>1. UNCHANGED <<broker, todo, row>> /\ feed # <<>> /\ Head(feed).kind = "order"
  BY DEF OrderUpdate, Known
<1>2. Placed' = Placed /\ TrueRule' = TrueRule /\ TruePayload' = TruePayload
  BY <1>1, ClaimsQuiet
<1>3. Head(feed) \in TruePayload /\ feed' \in Seq(TruePayload)
  BY <1>1, HeadTail DEF OrderUpdate, Known, Reports
<1>4. /\ Head(feed).leg \in Placed /\ Head(feed).state \in OrderState
      /\ Head(feed).state = "rejected" => order[Head(feed).leg] = "rejected"
  BY <1>1, <1>3 DEF TruePayload, Payload
<1>5. order[Head(feed).leg] \in OrderState
  BY <1>4 DEF TypeOK, Placed
<1>6. \A st \in OrderState : ApiPrice(st) # "reject"
  BY DEF ApiPrice
<1>7. hold' # NoHold => /\ hold'.leg = Head(feed).leg
                        /\ hold'.price = "reject" => Head(feed).state = "rejected"
  BY <1>4, <1>5, <1>6 DEF OrderUpdate, Known, Holding
<1> QED BY <1>1, <1>2, <1>3, <1>4, <1>7 DEF Reports, broker

\* Every other step brings no new report.
LEMMA ReportsQuiet ==
    ASSUME TypeOK, Reports,
           UNCHANGED broker, row'.legs = row.legs,
           feed' \in {feed, <<>>}, todo' \in {todo, <<>>}, hold' \in {hold, NoHold}
    PROVE  Reports'
<1>1. Placed' = Placed /\ TrueRule' = TrueRule /\ TruePayload' = TruePayload
  BY ClaimsQuiet
<1>2. <<>> \in Seq(TrueRule) /\ <<>> \in Seq(TruePayload)
  OBVIOUS
<1> QED BY <1>1, <1>2 DEF Reports, broker

\* The order ids of a row change in LookUp only.
LEMMA LegsKept ==
    ASSUME TypeOK, Insert \/ Apply \/ TickStop \/ (\E x \in Level : Tick(x)) \/ ApplyPoll,
           Turns
    PROVE  row'.legs = row.legs
<1>1. row \in Row
  BY DEF TypeOK
<1>2. CASE Insert
  BY <1>2 DEF Insert, NoRow, Turns
<1>3. CASE Apply
  BY <1>1, <1>3 DEF Apply, Rejected, Marked, EntryFill, ExitFill, Filled, Closed, Row
<1>4. CASE TickStop
  BY <1>1, <1>4 DEF TickStop, Closed, Row
<1>5. ASSUME NEW x \in Level, Tick(x)
      PROVE  row'.legs = row.legs
  BY <1>1, <1>5 DEF Tick, Closed, Filled, Row
<1>6. CASE ApplyPoll
  <2>1. CASE PolledEnd
    BY <1>1, <2>1 DEF PolledEnd, Closed, Row
  <2>2. CASE PolledPrices
    BY <1>1, <2>2 DEF PolledPrices, Backfilled, Row
  <2>3. CASE PolledFills
    BY <1>1, <2>3 DEF PolledFills, Closed, Filled, Row
  <2> QED BY <1>6, <2>1, <2>2, <2>3 DEF ApplyPoll
<1> QED BY <1>2, <1>3, <1>4, <1>5, <1>6

LEMMA ReportsStep ==
    ASSUME TypeOK, LedgerAssumption, Turns, Reports, [Next]_vars
    PROVE  Reports'
<1>1. CASE UNCHANGED vars
  BY <1>1, ReportsQuiet DEF vars, tracker
<1>2. ASSUME NEW l \in Leg, Trigger(l) \/ Fill(l) \/ Reject(l)
      PROVE  Reports'
  BY <1>2, Advancing, ReportsChange
<1>3. CASE Ends
  BY <1>3, ReportsEnds
<1>4. CASE Insert \/ Apply \/ TickStop \/ (\E x \in Level : Tick(x)) \/ ApplyPoll
  <2>1. row'.legs = row.legs
    BY <1>4, LegsKept
  <2>2. UNCHANGED broker /\ feed' = feed /\ todo' = todo /\ hold' \in {hold, NoHold}
    BY <1>4 DEF Insert, Apply, TickStop, Tick, ApplyPoll, tracker
  <2> QED BY <2>1, <2>2, ReportsQuiet
<1>5. CASE Connect \/ Ready \/ Disconnect \/ Abandon \/ Crash \/ StartFallback \/ Rebuild \/ PollGtt
  <2>1. /\ UNCHANGED <<broker, row>> /\ feed' \in {feed, <<>>} /\ todo' \in {todo, <<>>}
        /\ hold' \in {hold, NoHold}
    BY <1>5 DEF Connect, Ready, Pollable, Disconnect, Abandon, Crash, StartFallback,
     Rebuild, PollGtt, tracker
  <2> QED BY <2>1, ReportsQuiet
<1>6. CASE Reconcile \/ GttUpdate
  BY <1>6, ReportsRead
<1> QED BY <1>1, <1>2, <1>3, <1>4, <1>5, <1>6, ReportsLookUp, ReportsOrderUpdate, NextSplit

-----------------------------------------------------------------------------
(* What a writer read is still what the row says when it writes: nobody else *)
(* writes in between.                                                        *)

Copies ==
    /\ hold # NoHold => hold.status = row.status /\ hold.entry = row.entry
    /\ poll # NoPoll => poll.seen = row /\ (poll.forced => cache = NoCache)
    /\ CopyIsCurrent
    /\ cache # NoCache =>
          ~(Goals \subseteq cache.hits) /\ ("t1" \in cache.hits => cache.status = "ACTIVE")

LEMMA CopiesQuiet ==
    ASSUME Copies, UNCHANGED row, hold' \in {hold, NoHold}, UNCHANGED fallback
    PROVE  Copies'
BY DEF Copies, CopyIsCurrent, fallback

LEMMA CopiesTracker ==
    ASSUME TypeOK, Turns, Copies, Insert \/ LookUp \/ OrderUpdate \/ Apply
    PROVE  Copies'
<1>1. UNCHANGED fallback
  BY DEF Insert, LookUp, Quoted, OrderUpdate, Known, Apply
<1>2. CASE Insert
  <2>1. hold' = NoHold /\ cache' = NoCache /\ poll' = NoPoll
    BY <1>1, <1>2 DEF Insert, Turns, tracker, fallback
  <2> QED BY <2>1 DEF Copies, CopyIsCurrent
<1>3. CASE LookUp
  <2>1. cache' = NoCache /\ poll' = NoPoll
    BY <1>1, <1>3 DEF LookUp, Quoted, Turns, fallback
  <2>2. hold' # NoHold => hold'.status = row'.status /\ hold'.entry = row'.entry
    BY <1>3 DEF LookUp, Quoted, Holding
  <2> QED BY <2>1, <2>2 DEF Copies, CopyIsCurrent
<1>4. CASE OrderUpdate
  <2>1. cache' = NoCache /\ poll' = NoPoll
    BY <1>1, <1>4 DEF OrderUpdate, Known, Idle, FallbackRuns, Turns, fallback
  <2>2. hold' # NoHold => hold'.status = row.status /\ hold'.entry = row.entry
    BY <1>4 DEF OrderUpdate, Known, Holding
  <2>3. row' = row
    BY <1>4 DEF OrderUpdate, Known
  <2> QED BY <2>1, <2>2, <2>3 DEF Copies, CopyIsCurrent
<1>5. CASE Apply
  <2>1. cache' = NoCache /\ poll' = NoPoll /\ hold' = NoHold
    BY <1>1, <1>5 DEF Apply, Turns, fallback
  <2> QED BY <2>1 DEF Copies, CopyIsCurrent
<1> QED BY <1>2, <1>3, <1>4, <1>5

LEMMA CopiesWatch ==
    ASSUME TypeOK, LedgerAssumption, Turns, Copies, StartFallback \/ Rebuild \/ PollGtt
    PROVE  Copies'
<1>1. row' = row
  BY DEF StartFallback, Unpriced, Rebuild, PollGtt, Pollable
<1>2. CASE StartFallback
  <2>1. hold' = NoHold /\ cache' = NoCache /\ poll' \in {NoPoll, Fetched(TRUE)}
    BY <1>2 DEF StartFallback, Unpriced
  <2> QED BY <1>1, <2>1 DEF Copies, CopyIsCurrent, Fetched
<1>3. CASE Rebuild
  <2>1. hold' = NoHold /\ poll' = NoPoll
    BY <1>3 DEF Rebuild, Turns, tracker
  <2>2. cache' # NoCache => cache' = [status |-> row.status, entry |-> row.entry, hits |-> {}]
    BY <1>3 DEF Rebuild
  <2> QED BY <1>1, <2>1, <2>2 DEF Copies, CopyIsCurrent, LedgerAssumption
<1>4. CASE PollGtt
  <2>1. poll' = Fetched(FALSE) /\ cache' = cache /\ hold' = hold
    BY <1>4 DEF PollGtt, Pollable, tracker
  <2> QED BY <1>1, <2>1 DEF Copies, CopyIsCurrent, Fetched
<1> QED BY <1>2, <1>3, <1>4

LEMMA CopiesTick ==
    ASSUME TypeOK, LedgerAssumption, Turns, Copies, TickStop \/ \E x \in Level : Tick(x)
    PROVE  Copies'
<1>1. hold' = NoHold /\ poll' = NoPoll
  BY DEF TickStop, Tick, Turns, tracker
<1>2. CASE TickStop
  BY <1>1, <1>2 DEF TickStop, Copies, CopyIsCurrent
<1>3. ASSUME NEW x \in Level, Tick(x)
      PROVE  Copies'
  <2> DEFINE enters == cache.status = "PENDING"
             copy == IF enters THEN [cache EXCEPT !.status = "ACTIVE", !.entry = "tick"] ELSE cache
             opened == IF enters THEN Filled(row, "tick") ELSE row
             hits == cache.hits \cup Reached(x)
  <2>1. cache \in Cache /\ row \in Row /\ cache # NoCache
    BY <1>3 DEF Tick, TypeOK
  <2>2. /\ row' = IF "t1" \in hits \ cache.hits
                    THEN Closed(opened, "TARGET1_HIT", "tick", <<Basis(copy.entry), "tick">>)
                    ELSE opened
        /\ cache' = IF Goals \subseteq hits THEN NoCache ELSE [copy EXCEPT !.hits = hits]
    BY <1>3 DEF Tick
  <2>3. copy \in Cache /\ copy.status = "ACTIVE" /\ opened \in Row /\ copy.entry = opened.entry
    BY <2>1 DEF Copies, CopyIsCurrent, Cache, Watchable, Price, Filled, Row, Status
  <2>4. opened.status = IF "t1" \in cache.hits THEN "TARGET1_HIT" ELSE "ACTIVE"
    BY <2>1 DEF Copies, CopyIsCurrent, Cache, Watchable, Filled, Row
  <2>5. cache.hits \subseteq hits /\ hits \in SUBSET {"t1", "t2"}
    BY <2>1 DEF Cache, Reached, LedgerAssumption
  <2> HIDE DEF enters, copy, opened, hits
  <2>6. row'.entry = opened.entry /\
        row'.status = IF "t1" \in hits \ cache.hits THEN "TARGET1_HIT" ELSE opened.status
    BY <2>2, <2>3 DEF Closed, Row
  <2>7. cache' # NoCache => /\ cache'.status = "ACTIVE" /\ cache'.entry = copy.entry
                            /\ cache'.hits = hits /\ ~(Goals \subseteq hits)
    BY <2>2, <2>3 DEF Cache
  <2> QED BY <1>1, <2>3, <2>4, <2>5, <2>6, <2>7 DEF Copies, CopyIsCurrent
<1> QED BY <1>2, <1>3

LEMMA CopiesPoll ==
    ASSUME TypeOK, LedgerAssumption, Turns, Copies, ApplyPoll
    PROVE  Copies'
<1>1. hold' = NoHold /\ poll' = NoPoll /\ poll.seen = row /\ (poll.forced => cache = NoCache)
  BY DEF ApplyPoll, Turns, tracker, Copies
<1>2. row \in Row /\ poll \in Poll /\ (cache # NoCache => cache \in Cache)
  BY DEF ApplyPoll, TypeOK
<1>3. CASE PolledEnd
  BY <1>1, <1>3 DEF PolledEnd, Copies, CopyIsCurrent
<1>4. CASE PolledPrices
  BY <1>1, <1>4 DEF PolledPrices, Backfilled, Copies, CopyIsCurrent
<1>5. CASE PolledFills
  <2> DEFINE enters == Entry \in poll.legs /\ poll.seen.status = "PENDING"
             opened == IF enters THEN Filled(row, "limit") ELSE row
             exits == PollExit # "none" /\ poll.seen.status \notin PollTerminal
  <2>1. /\ row' = IF exits THEN Closed(opened, HitOf(PollExit), "limit", <<"limit", "limit">>)
                  ELSE opened
        /\ cache' = IF exits THEN NoCache
                    ELSE IF enters /\ cache # NoCache
                      THEN [cache EXCEPT !.status = "ACTIVE", !.entry = "limit"] ELSE cache
    BY <1>5 DEF PolledFills
  <2>2. CASE exits \/ cache = NoCache
    BY <1>1, <2>1, <2>2 DEF Copies, CopyIsCurrent
  <2>3. CASE ~exits /\ cache # NoCache /\ enters
    <3>1. row.status = "PENDING"
      BY <1>1, <2>3
    <3>2. "t1" \notin cache.hits
      BY <2>3, <3>1 DEF Copies, CopyIsCurrent
    <3>3. row'.status = "ACTIVE" /\ row'.entry = "limit"
      BY <1>2, <2>1, <2>3 DEF Filled, Row
    <3>4. cache'.status = "ACTIVE" /\ cache'.entry = "limit" /\ cache'.hits = cache.hits
      BY <1>2, <2>1, <2>3 DEF Cache
    <3> QED BY <1>1, <2>3, <3>2, <3>3, <3>4 DEF Copies, CopyIsCurrent
  <2>4. CASE ~exits /\ cache # NoCache /\ ~enters
    BY <1>1, <2>1, <2>4 DEF Copies, CopyIsCurrent
  <2> QED BY <2>2, <2>3, <2>4
<1> QED BY <1>3, <1>4, <1>5 DEF ApplyPoll

LEMMA CopiesStep ==
    ASSUME TypeOK, LedgerAssumption, Turns, Copies, [Next]_vars
    PROVE  Copies'
<1>1. CASE UNCHANGED vars
  BY <1>1, CopiesQuiet DEF vars, tracker
<1>2. ASSUME NEW l \in Leg, Trigger(l) \/ Fill(l) \/ Reject(l)
      PROVE  Copies'
  <2>1. \E s \in OrderState : Changes(l, s)
    BY <1>2 DEF Trigger, Fill, Reject, OrderState
  <2> QED BY <2>1, CopiesQuiet DEF Changes, tracker
<1>3. CASE Ends \/ Connect \/ Reconcile \/ Ready \/ GttUpdate \/ Disconnect \/ Abandon \/ Crash
  BY <1>3, CopiesQuiet
     DEF Ends, Connect, Reconcile, Ready, GttUpdate, Disconnect, Abandon, Crash, tracker
<1> QED BY <1>1, <1>2, <1>3, CopiesTracker, CopiesWatch, CopiesTick, CopiesPoll, NextSplit

-----------------------------------------------------------------------------
(* The invariant, and the properties that follow *)

Ledger == TypeOK /\ Turns /\ Reports /\ Copies

LEMMA InitLedger == LedgerAssumption /\ Init => Ledger
<1> SUFFICES ASSUME LedgerAssumption, Init PROVE Ledger
  OBVIOUS
<1>1. Turns
  BY DEF Init, Turns, FallbackRuns, NoRow
<1>2. Reports
  <2>1. feed \in Seq(TruePayload) /\ todo \in Seq(TrueRule)
    BY DEF Init
  <2> QED BY <2>1 DEF Init, Reports, NoRow, ExitLeg
<1>3. Copies
  BY DEF Init, Copies, CopyIsCurrent
<1> QED BY <1>1, <1>2, <1>3, InitType DEF Ledger

LEMMA LedgerStep ==
    ASSUME Ledger, LedgerAssumption, [Next]_vars
    PROVE  Ledger'
BY NextType, TurnsStep, ReportsStep, CopiesStep DEF Ledger

\* The fallback's copy of the row is never behind it, so what its ticks write
\* without reading is what the row allows.
THEOREM CopyStaysCurrent == Spec => []CopyIsCurrent
<1>1. Ledger => CopyIsCurrent
  BY DEF Ledger, Copies
<1> QED BY <1>1, InitLedger, LedgerStep, LedgerAssumption, PTL DEF Spec

\* The steps that write the row.
LEMMA RowStep ==
    ASSUME [Next]_vars, row' # row
    PROVE  Insert \/ LookUp \/ Apply \/ TickStop \/ (\E x \in Level : Tick(x)) \/ ApplyPoll
<1>1. Next
  BY DEF vars
<1>2. ASSUME NEW l \in Leg, Trigger(l) \/ Fill(l) \/ Reject(l)
      PROVE  FALSE
  <2>1. \E s : Changes(l, s)
    BY <1>2 DEF Trigger, Fill, Reject
  <2> QED BY <2>1 DEF Changes
<1>3. ~(Ends \/ Connect \/ Reconcile \/ Ready \/ GttUpdate \/ OrderUpdate)
  BY DEF Ends, Connect, Reconcile, Ready, GttUpdate, OrderUpdate, Known
<1>4. ~(Disconnect \/ Abandon \/ Crash \/ StartFallback \/ Rebuild \/ PollGtt)
  BY DEF Disconnect, Abandon, Crash, StartFallback, Unpriced, Rebuild, PollGtt, Pollable
<1> QED BY <1>1, <1>2, <1>3, <1>4, NextSplit

\* Nobody starts the tracker again once the fallback has taken over, and orders
\* stay placed.
LEMMA Onwards ==
    ASSUME Ledger, [Next]_vars
    PROVE  (FallbackRuns => FallbackRuns') /\ Placed \subseteq Placed'
<1>1. CASE UNCHANGED vars
  BY <1>1 DEF vars, tracker, broker, FallbackRuns, Placed
<1>2. ASSUME NEW l \in Leg, Trigger(l) \/ Fill(l) \/ Reject(l)
      PROVE  (FallbackRuns => FallbackRuns') /\ Placed \subseteq Placed'
  <2>1. PICK s \in OrderState : Changes(l, s) /\ Advances(l, s)
    BY <1>2, Advancing DEF Ledger
  <2>2. Placed \subseteq Placed'
    BY <2>1, ClaimsKept DEF Ledger
  <2>3. stage' = stage
    BY <2>1 DEF Changes, tracker
  <2> QED BY <2>2, <2>3 DEF FallbackRuns
<1>3. CASE Ends
  BY <1>3 DEF Ends, tracker, FallbackRuns, Placed
<1>4. CASE Insert \/ Connect \/ Reconcile \/ Ready \/ GttUpdate \/ LookUp \/ OrderUpdate \/ Apply
           \/ Disconnect \/ Abandon \/ Crash \/ StartFallback
  BY <1>4 DEF Insert, Connect, Reconcile, Ready, GttUpdate, LookUp, OrderUpdate, Apply,
     Disconnect, Abandon, Crash, StartFallback, Unpriced, broker, tracker, FallbackRuns, Placed
<1>5. CASE Rebuild \/ TickStop \/ (\E x \in Level : Tick(x)) \/ PollGtt \/ ApplyPoll
  BY <1>5 DEF Rebuild, TickStop, Tick, PollGtt, Pollable, ApplyPoll, broker, tracker, FallbackRuns, Placed
<1> QED BY <1>1, <1>2, <1>3, <1>4, <1>5, NextSplit

\* What the tracker writes into a row.
LEMMA TrackerWrites ==
    ASSUME Ledger, LookUp \/ Apply
    PROVE  \/ row'.status = row.status /\ row'.entry = row.entry /\ row'.exit = row.exit /\ row'.pnl = row.pnl
           \/ row'.status \in {"FAILED", "CANCELLED"} /\ order[Entry] \in {"none", "rejected"}
           \/ row'.status = "ACTIVE"
           \/ /\ row.status \notin Terminal
              /\ \E l \in Placed \cap ExitLeg : row'.status = HitOf(l)
              /\ row'.pnl = <<Basis(row'.entry), row'.exit>>
<1>1. row \in Row /\ TypeOK /\ Reports /\ Copies
  BY DEF Ledger, TypeOK
<1>2. CASE LookUp
  <2>1. Head(todo) \in TrueRule
    BY <1>1, <1>2, HeadTail DEF LookUp, Quoted, Reports
  <2>2. CASE Head(todo).leg = Entry /\ Head(todo).rule \in {"FAILED", "CANCELLED"}
    <3>1. row'.status = Head(todo).rule
      BY <1>1, <1>2, <2>2 DEF LookUp, Quoted, Ruled, Stored, Marked, Row
    <3> QED BY <2>1, <2>2, <3>1 DEF TrueRule, Claims
  <2>3. CASE ~(Head(todo).leg = Entry /\ Head(todo).rule \in {"FAILED", "CANCELLED"})
    BY <1>1, <1>2, <2>3 DEF LookUp, Quoted, Ruled, Stored, Marked, Row
  <2> QED BY <2>2, <2>3
<1>3. CASE Apply
  <2>1. /\ hold.status = row.status /\ hold.entry = row.entry /\ hold.leg \in Placed
        /\ hold.price = "reject" => order[hold.leg] = "rejected"
    BY <1>1, <1>3 DEF Apply, Reports, Copies
  <2>2. CASE hold.price = "reject"
    BY <1>1, <1>3, <2>1, <2>2 DEF Apply, Rejected, Marked, Row
  <2>3. CASE hold.price # "reject" /\ hold.leg = Entry
    BY <1>1, <1>3, <2>3 DEF Apply, EntryFill, Filled, Row
  <2>4. CASE hold.price # "reject" /\ hold.leg # Entry
    <3>1. row' = ExitFill(row, hold)
      BY <1>3, <2>4 DEF Apply
    <3>2. hold.leg \in Placed \cap ExitLeg
      BY <2>1, <2>4 DEF ExitLeg, Placed
    <3>3. CASE hold.price # "none" /\ hold.status \notin Terminal
      <4>1. row' = Closed(row, HitOf(hold.leg), hold.price, <<Basis(row.entry), hold.price>>)
        BY <2>1, <3>1, <3>3 DEF ExitFill
      <4>2. /\ row'.status = HitOf(hold.leg) /\ row'.exit = hold.price /\ row'.entry = row.entry
            /\ row'.pnl = <<Basis(row.entry), hold.price>>
        BY <1>1, <4>1 DEF Closed, Row
      <4> QED BY <2>1, <3>2, <3>3, <4>2
    <3>4. CASE ~(hold.price # "none" /\ hold.status \notin Terminal)
      BY <3>1, <3>4 DEF ExitFill
    <3> QED BY <3>3, <3>4
  <2> QED BY <2>2, <2>3, <2>4
<1> QED BY <1>2, <1>3

LEMMA HitStep ==
    ASSUME Ledger, HitIsPlaced, PnlIsOwn, [Next]_vars
    PROVE  HitIsPlaced' /\ PnlIsOwn'
<1> SUFFICES ASSUME ~FallbackRuns', row'.status \in Exits
             PROVE  /\ \E l \in Placed' \cap ExitLeg : row'.status = HitOf(l)
                    /\ row'.pnl = <<Basis(row'.entry), row'.exit>>
  BY DEF HitIsPlaced, PnlIsOwn, FallbackRuns, Placed, Basis, HitOf
<1>1. ~FallbackRuns /\ Placed \subseteq Placed'
  BY Onwards
<1>2. CASE row' = row
  BY <1>1, <1>2 DEF HitIsPlaced, PnlIsOwn
<1>3. CASE Insert
  BY <1>3 DEF Insert, NoRow, Exits
<1>4. CASE LookUp \/ Apply
  BY <1>1, <1>4, TrackerWrites DEF HitIsPlaced, PnlIsOwn, Exits
<1>5. CASE TickStop \/ (\E x \in Level : Tick(x)) \/ ApplyPoll
  BY <1>1, <1>5 DEF TickStop, Tick, ApplyPoll, Ledger, Turns
<1> QED BY <1>2, <1>3, <1>4, <1>5, RowStep

LEMMA InitHit == Init => HitIsPlaced /\ PnlIsOwn
BY DEF Init, NoRow, HitIsPlaced, PnlIsOwn, Exits

\* While the tracker writes, a row that names an exit names a leg whose order
\* was placed.
THEOREM HitsArePlaced == Spec => []HitIsPlaced
<1>1. LedgerAssumption /\ Init => Ledger /\ HitIsPlaced /\ PnlIsOwn
  BY InitLedger, InitHit
<1>2. Ledger /\ HitIsPlaced /\ PnlIsOwn /\ [Next]_vars => (Ledger /\ HitIsPlaced /\ PnlIsOwn)'
  BY LedgerStep, HitStep, LedgerAssumption
<1> QED BY <1>1, <1>2, LedgerAssumption, PTL DEF Spec

\* While the tracker writes, a closed row's P&L is that of its own prices.
THEOREM PnlsAreOwn == Spec => []PnlIsOwn
<1>1. LedgerAssumption /\ Init => Ledger /\ HitIsPlaced /\ PnlIsOwn
  BY InitLedger, InitHit
<1>2. Ledger /\ HitIsPlaced /\ PnlIsOwn /\ [Next]_vars => (Ledger /\ HitIsPlaced /\ PnlIsOwn)'
  BY LedgerStep, HitStep, LedgerAssumption
<1> QED BY <1>1, <1>2, LedgerAssumption, PTL DEF Spec

\* What one step may do to a row closed by an exit.
FinalStep ==
    row.status \in Exits /\ row'.status # row.status =>
        \/ ~FallbackRuns /\ row'.status = "ACTIVE"
        \/ FallbackRuns /\ Goals # {"t1"} /\ row'.status = "STOPLOSS_HIT"

LEMMA FinalKept ==
    ASSUME Ledger, HitIsPlaced, [Next]_vars
    PROVE  FinalStep
<1> SUFFICES ASSUME row.status \in Exits, row'.status # row.status
             PROVE  \/ ~FallbackRuns /\ row'.status = "ACTIVE"
                    \/ FallbackRuns /\ Goals # {"t1"} /\ row'.status = "STOPLOSS_HIT"
  BY DEF FinalStep
<1>1. row' # row /\ row \in Row /\ Exits \subseteq Terminal /\ Exits \cap Watchable = {}
  BY DEF Ledger, TypeOK, Terminal, Exits, Watchable
<1>2. CASE Insert
  BY <1>2 DEF Insert, Exits
<1>3. CASE LookUp \/ Apply
  <2>1. ~FallbackRuns
    BY <1>3 DEF LookUp, Quoted, Apply, Ledger, Turns
  <2>2. order[Entry] = "done"
    BY <2>1 DEF HitIsPlaced, Ledger, Reports, Placed
  <2>3. row'.status = "ACTIVE"
    BY <1>1, <1>3, <2>2, TrackerWrites
  <2> QED BY <2>1, <2>3
<1>4. CASE TickStop
  <2>1. FallbackRuns /\ cache \in Cache /\ cache # NoCache
    BY <1>4 DEF TickStop, Ledger, TypeOK
  <2>2. "t1" \in cache.hits /\ ~(Goals \subseteq cache.hits)
    BY <1>1, <2>1 DEF Ledger, Copies, CopyIsCurrent, Cache
  <2>3. row'.status = "STOPLOSS_HIT"
    BY <1>1, <1>4 DEF TickStop, Closed, Row
  <2> QED BY <2>1, <2>2, <2>3
<1>5. ASSUME NEW x \in Level, Tick(x)
      PROVE  FALSE
  <2>1. cache \in Cache /\ cache # NoCache
    BY <1>5 DEF Tick, Ledger, TypeOK
  <2>2. "t1" \in cache.hits /\ cache.status = "ACTIVE"
    BY <1>1, <2>1 DEF Ledger, Copies, CopyIsCurrent, Cache
  <2>3. row' = row
    BY <1>5, <2>2 DEF Tick
  <2> QED BY <1>1, <2>3
<1>6. CASE ApplyPoll
  <2>1. poll.seen = row
    BY <1>6 DEF ApplyPoll, Ledger, Copies
  <2>2. row.status \in PollTerminal /\ row.status # "PENDING"
    BY DEF PollTerminal, Terminal, Exits
  <2>3. CASE PolledEnd
    BY <1>1, <2>1, <2>2, <2>3 DEF PolledEnd
  <2>4. CASE PolledPrices
    BY <1>1, <2>4 DEF PolledPrices, Backfilled, Row
  <2>5. CASE PolledFills
    BY <1>1, <2>1, <2>2, <2>5 DEF PolledFills
  <2> QED BY <1>6, <2>3, <2>4, <2>5 DEF ApplyPoll
<1> QED BY <1>1, <1>2, <1>3, <1>4, <1>5, <1>6, RowStep

\* A booked exit changes in two ways only: the tracker reopens the row on a
\* late entry fill, and the fallback turns a first target into a stop-loss.
THEOREM ExitsAreFinal == Spec => ExitIsFinal
<1>1. LedgerAssumption /\ Init => Ledger /\ HitIsPlaced /\ PnlIsOwn
  BY InitLedger, InitHit
<1>2. Ledger /\ HitIsPlaced /\ PnlIsOwn /\ [Next]_vars => (Ledger /\ HitIsPlaced /\ PnlIsOwn)'
  BY LedgerStep, HitStep, LedgerAssumption
<1>3. Ledger /\ HitIsPlaced /\ PnlIsOwn /\ [Next]_vars => [FinalStep]_vars
  BY FinalKept
<1>4. ExitIsFinal <=> [][FinalStep]_vars
  BY PTL DEF ExitIsFinal, FinalStep
<1> QED BY <1>1, <1>2, <1>3, <1>4, LedgerAssumption, PTL DEF Spec
=============================================================================
