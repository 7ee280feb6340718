------------------------- MODULE OrderTrackerProofs -------------------------
(***************************************************************************)
(* Theorems about OrderTracker for every price, tolerance and bound: its   *)
(* type invariant, that every price it stores is a fill, and from these    *)
(* the invariant BookedOnce and what a closed row says; that the tracker   *)
(* implements TradeLife, and keeps to the TradeRow that the price monitor  *)
(* is built on.  Each of these is proved once more beside the requests of  *)
(* ManualActions, with what an answer and an exit of theirs are worth.     *)
(***************************************************************************)
EXTENDS ManualActions, TLAPS

-----------------------------------------------------------------------------
(* The helpers *)

\* The first leg of a set of legs is one of them.
LEMMA FirstIn ==
    ASSUME NEW S \in SUBSET Legs
    PROVE  First(S) \in Legs /\ (S # {} => First(S) \in S)
BY DEF First, Legs

\* An order is owned by a stored leg as soon as there is one.
LEMMA OwnerIn ==
    ASSUME TypeOK, legs # {}, NEW g \in Legs
    PROVE  Owner(g) \in legs /\ Owner(g) \in Legs
<1>1. legs \subseteq Legs
  BY DEF TypeOK
<1>2. First(legs) \in legs
  BY <1>1, FirstIn
<1>3. CASE \E l \in legs : link[l] = g
  BY <1>1, <1>3 DEF Owner
<1>4. CASE ~ \E l \in legs : link[l] = g
  BY <1>1, <1>2, <1>4 DEF Owner
<1> QED BY <1>3, <1>4

\* A profit is an integer.
LEMMA ProfitInt ==
    ASSUME NEW e \in Nat, NEW x \in Nat
    PROVE  Profit(e, x) \in Int
BY DEF Profit

\* What a returning _process_filled_order leaves to the task.
LEMMA NextOrderFacts ==
    ASSUME TypeOK, NEW t \in Tasks, NextOrder(t)
    PROVE  /\ pc' \in [Tasks -> Steps] /\ todo' \in [Tasks -> SUBSET Legs]
           /\ strategy' \in [Tasks -> Legs \cup {"none"}]
           /\ price' \in [Tasks -> Nat] /\ ref' \in [Tasks -> Nat]
           /\ pc'[t] \in {"idle", "trades"}
           /\ todo'[t] \subseteq todo[t]
           /\ pc'[t] = "trades" => todo'[t] # {}
           /\ price'[t] = None /\ ref'[t] = None
           /\ \A u \in Tasks \ {t} :
                /\ pc'[u] = pc[u] /\ todo'[u] = todo[u]
                /\ price'[u] = price[u] /\ ref'[u] = ref[u]
                /\ strategy'[u] = strategy[u]
BY DEF TypeOK, TaskTypeOK, NextOrder, Forget, Steps, None

\* What an abandoned task looks like.
LEMMA DropFacts ==
    ASSUME TypeOK, NEW t \in Tasks, Drop(t)
    PROVE  /\ pc' \in [Tasks -> Steps] /\ todo' \in [Tasks -> SUBSET Legs]
           /\ strategy' \in [Tasks -> Legs \cup {"none"}]
           /\ price' \in [Tasks -> Nat] /\ ref' \in [Tasks -> Nat]
           /\ pc'[t] = "idle" /\ todo'[t] = {}
           /\ price'[t] = None /\ ref'[t] = None
           /\ \A u \in Tasks \ {t} :
                /\ pc'[u] = pc[u] /\ todo'[u] = todo[u]
                /\ price'[u] = price[u] /\ ref'[u] = ref[u]
                /\ strategy'[u] = strategy[u]
BY DEF TypeOK, TaskTypeOK, Drop, Forget, Steps, None

\* The actions of Next, one by one.
LEMMA NextSplit ==
    ASSUME Next
    PROVE  \/ FillEntry \/ FillExit \/ EndGtt \/ Disconnect
           \/ EngineLeg \/ EngineRow \/ EngineLoses
           \/ WsOrder \/ WsGtt \/ WsGttUnknown \/ ReconSelects \/ ReconAnswered
           \/ Crash
           \/ \E t \in Tasks :
                \/ Upserts(t) \/ UpsertsNothing(t) \/ GetTrades(t) \/ NoRule(t)
                \/ ReadSkips(t) \/ ReadRow(t) \/ WriteEntry(t) \/ WriteActive(t)
                \/ ReadEntryPrice(t) \/ WritePnl(t) \/ WriteStatus(t) \/ Book(t)
                \/ TradesFail(t) \/ Raise(t)
<1>1. "ws" \in Tasks /\ "recon" \in Tasks
  BY DEF Tasks
<1> QED BY <1>1 DEF Next, Engine, Ws, Recon, Process, Faults

-----------------------------------------------------------------------------
(* Types *)

LEMMA InitType == Init => TypeOK
<1> SUFFICES ASSUME Init PROVE TypeOK
  OBVIOUS
<1>1. RowTypeOK
  BY DEF Init, RowTypeOK, Open, None
<1>2. TaskTypeOK
  BY DEF Init, TaskTypeOK, Steps, None
<1>3. inbox \in Seq(Update)
  BY DEF Init
<1>4. link \in [Legs -> Legs \cup {"none"}] /\ fills \in [Legs -> Nat]
  BY DEF Init, Unlinked, None
<1>5. /\ gtt \in {"pending", "triggered"} \cup Gone
      /\ unwritten \subseteq Legs \cup {"row"} /\ legs \subseteq Legs
      /\ ids \in BOOLEAN /\ raced \in BOOLEAN
  BY DEF Init
<1>6. day \in Int /\ booked \in Nat /\ faults \in Nat
  BY DEF Init
<1> QED BY <1>1, <1>2, <1>3, <1>4, <1>5, <1>6 DEF TypeOK

LEMMA NextType == ASSUME TypeOK, [Next]_vars PROVE TypeOK'
<1> USE PriceAssumption DEF None
<1>1. CASE FillEntry
  <2>1. PICK p \in Fills["ENTRY"] : fills' = [fills EXCEPT !["ENTRY"] = p]
    BY <1>1 DEF FillEntry
  <2>2. p \in Nat
    BY <2>1 DEF Legs
  <2>3. PICK S \in {{}, {"ENTRY"}} :
          inbox' = inbox \o <<OrderUpdate("ENTRY"), [gtt |-> "triggered", legs |-> S]>>
    BY <1>1 DEF FillEntry, Send
  <2>4. OrderUpdate("ENTRY") \in Update /\ [gtt |-> "triggered", legs |-> S] \in Update
    BY <2>3 DEF OrderUpdate, Update, Legs
  <2>5. inbox' \in Seq(Update)
    BY <2>3, <2>4 DEF TypeOK
  <2> QED BY <1>1, <2>1, <2>2, <2>5
          DEF FillEntry, TypeOK, rules, work, guard, RowTypeOK, TaskTypeOK
<1>2. CASE FillExit
  <2>0. PICK g \in Exits : \E p \in Fills[g] :
          fills' = [fills EXCEPT ![g] = p] /\ inbox' = inbox \o <<OrderUpdate(g)>>
    BY <1>2 DEF FillExit, Send
  <2>1. PICK p \in Fills[g] :
          fills' = [fills EXCEPT ![g] = p] /\ inbox' = inbox \o <<OrderUpdate(g)>>
    BY <2>0
  <2>2. p \in Nat /\ OrderUpdate(g) \in Update
    BY <2>1 DEF Exits, Legs, OrderUpdate, Update
  <2>3. inbox' \in Seq(Update)
    BY <2>1, <2>2 DEF TypeOK
  <2> QED BY <1>2, <2>1, <2>2, <2>3
          DEF FillExit, TypeOK, rules, work, guard, RowTypeOK, TaskTypeOK
<1>3. CASE EndGtt
  <2>1. PICK S \in {{}, Filled} : inbox' = inbox \o <<[gtt |-> gtt', legs |-> S]>>
    BY <1>3 DEF EndGtt, Send
  <2>2. gtt' \in Gone
    BY <1>3 DEF EndGtt, Gone
  <2>3. [gtt |-> gtt', legs |-> S] \in Update
    BY <2>1, <2>2 DEF Update, Filled
  <2>4. inbox' \in Seq(Update)
    BY <2>1, <2>3 DEF TypeOK
  <2> QED BY <1>3, <2>2, <2>4
          DEF EndGtt, TypeOK, rules, work, guard, RowTypeOK, TaskTypeOK
<1>4. CASE Disconnect
  BY <1>4 DEF Disconnect, TypeOK, broker, rules, work, guard, RowTypeOK, TaskTypeOK
<1>5. CASE EngineLeg
  <2>1. First(unwritten \cap Legs) \in Legs
    BY FirstIn
  <2> QED BY <1>5, <2>1
          DEF EngineLeg, TypeOK, broker, work, guard, RowTypeOK, TaskTypeOK
<1>6. CASE EngineRow
  BY <1>6 DEF EngineRow, TypeOK, broker, rules, work, guard, RowTypeOK, TaskTypeOK, Open
<1>7. CASE EngineLoses
  BY <1>7 DEF EngineLoses, Fault, TypeOK, broker, rules, work, guard, RowTypeOK, TaskTypeOK
<1>8. CASE WsOrder
  <2>1. Head(inbox) \in Update /\ Tail(inbox) \in Seq(Update)
    BY <1>8 DEF WsOrder, WsReady, TypeOK
  <2>2. First(Head(inbox).legs) \in Legs
    BY <2>1, FirstIn DEF Update
  <2> DEFINE g == First(Head(inbox).legs)
  <2>3. link' \in [Legs -> Legs \cup {"none"}]
    <3>1. CASE legs = {}
      BY <1>8, <3>1 DEF WsOrder, TypeOK
    <3>2. CASE legs # {}
      BY <1>8, <2>2, <3>2, OwnerIn DEF WsOrder, Linked, TypeOK
    <3> QED BY <3>1, <3>2
  <2> QED BY <1>8, <2>1, <2>2, <2>3
          DEF WsOrder, WsReady, TypeOK, broker, guard, RowTypeOK, TaskTypeOK, Steps, Tasks
<1>9. CASE WsGtt
  <2>1. Head(inbox) \in Update /\ Tail(inbox) \in Seq(Update)
    BY <1>9 DEF WsGtt, WsReady, TypeOK
  <2>2. row' \in [status : Open \cup Hit \cup {"CANCELLED", "EXPIRED"},
                  entry : Nat, exit : Nat, pnl : Int]
        /\ raced' \in BOOLEAN /\ fresh' \in [Tasks -> BOOLEAN]
    <3>1. CASE Head(inbox).gtt \in Gone
      <4> DEFINE s == IF Head(inbox).gtt = "cancelled" THEN "CANCELLED" ELSE "EXPIRED"
      <4>1. s \in {"CANCELLED", "EXPIRED"}
        OBVIOUS
      <4>2. /\ row' = [row EXCEPT !.status = s]
            /\ raced' = (raced \/ row.status \in Hit)
            /\ fresh' = [t \in Tasks |-> FALSE]
        BY <1>9, <3>1 DEF WsGtt
      <4> HIDE DEF s
      <4> QED BY <4>1, <4>2 DEF TypeOK, RowTypeOK
    <3>2. CASE Head(inbox).gtt \notin Gone
      BY <1>9, <3>2 DEF WsGtt, TypeOK, RowTypeOK, TaskTypeOK
    <3> QED BY <3>1, <3>2
  <2>3. link' \in [Legs -> Legs \cup {"none"}]
    BY <1>9 DEF WsGtt, Unlinked
  <2>4. todo' \in [Tasks -> SUBSET Legs] /\ pc' \in [Tasks -> Steps]
    BY <1>9, <2>1 DEF WsGtt, TypeOK, TaskTypeOK, Update, Steps
  <2> QED BY <1>9, <2>1, <2>2, <2>3, <2>4
          DEF WsGtt, WsReady, TypeOK, broker, guard, RowTypeOK, TaskTypeOK
<1>10. CASE WsGttUnknown
  BY <1>10 DEF WsGttUnknown, WsReady, TypeOK, broker, rules, work, guard, RowTypeOK, TaskTypeOK
<1>11. CASE ReconSelects
  BY <1>11 DEF ReconSelects, TypeOK, broker, rules, guard, RowTypeOK, TaskTypeOK, Steps
<1>12. CASE ReconAnswered
  BY <1>12 DEF ReconAnswered, Filled, TypeOK, broker, rules, guard, RowTypeOK, TaskTypeOK, Steps
<1>13. CASE Crash
  BY <1>13 DEF Crash, Fault, TypeOK, broker, rules, guard, RowTypeOK, TaskTypeOK, Steps
<1>14. ASSUME NEW t \in Tasks, Upserts(t) PROVE TypeOK'
  BY <1>14 DEF Upserts, TypeOK, broker, guard, RowTypeOK, TaskTypeOK, Steps
<1>15. ASSUME NEW t \in Tasks, UpsertsNothing(t) PROVE TypeOK'
  BY <1>15, DropFacts DEF UpsertsNothing, TypeOK, broker, rules, guard, RowTypeOK, TaskTypeOK
<1>16. ASSUME NEW t \in Tasks, GetTrades(t) PROVE TypeOK'
  <2>1. First(todo[t]) \in Legs
    BY FirstIn DEF TypeOK, TaskTypeOK
  <2>2. Owner(First(todo[t])) \in Legs
    BY <1>16, <2>1, OwnerIn DEF GetTrades
  <2>3. link' \in [Legs -> Legs \cup {"none"}]
    BY <1>16, <2>1, <2>2 DEF GetTrades, Linked, TypeOK
  <2>4. TaskTypeOK'
    BY <1>16, <2>1, <2>2 DEF GetTrades, TypeOK, TaskTypeOK, Steps
  <2> QED BY <1>16, <2>3, <2>4 DEF GetTrades, TypeOK, broker, guard, RowTypeOK
<1>17. ASSUME NEW t \in Tasks, NoRule(t) PROVE TypeOK'
  BY <1>17, NextOrderFacts DEF NoRule, TypeOK, broker, rules, guard, RowTypeOK, TaskTypeOK
<1>18. ASSUME NEW t \in Tasks, ReadSkips(t) PROVE TypeOK'
  BY <1>18, NextOrderFacts DEF ReadSkips, TypeOK, broker, rules, guard, RowTypeOK, TaskTypeOK
<1>19. ASSUME NEW t \in Tasks, ReadRow(t) PROVE TypeOK'
  BY <1>19 DEF ReadRow, TypeOK, broker, rules, guard, RowTypeOK, TaskTypeOK, Steps
<1>20. ASSUME NEW t \in Tasks, WriteEntry(t) PROVE TypeOK'
  <2>1. RowTypeOK' /\ TaskTypeOK' /\ raced' \in BOOLEAN
    BY <1>20 DEF WriteEntry, TaskWrites, TypeOK, RowTypeOK, TaskTypeOK, Steps
  <2> QED BY <1>20, <2>1 DEF WriteEntry, TypeOK, broker, rules, guard
<1>21. ASSUME NEW t \in Tasks, WriteActive(t) PROVE TypeOK'
  <2>1. RowTypeOK' /\ fresh' \in [Tasks -> BOOLEAN] /\ raced' \in BOOLEAN
    BY <1>21 DEF WriteActive, TaskWrites, TypeOK, RowTypeOK, TaskTypeOK, Open
  <2>2. TaskTypeOK'
    BY <1>21, <2>1, NextOrderFacts DEF WriteActive, TaskTypeOK
  <2> QED BY <1>21, <2>1, <2>2 DEF WriteActive, TypeOK, broker, rules, guard
<1>22. ASSUME NEW t \in Tasks, ReadEntryPrice(t) PROVE TypeOK'
  BY <1>22 DEF ReadEntryPrice, TypeOK, broker, rules, guard, RowTypeOK, TaskTypeOK, Steps
<1>23. ASSUME NEW t \in Tasks, WritePnl(t) PROVE TypeOK'
  <2>1. Profit(ref[t], price[t]) \in Int
    BY ProfitInt DEF TypeOK, TaskTypeOK
  <2>2. RowTypeOK' /\ TaskTypeOK' /\ raced' \in BOOLEAN
    BY <1>23, <2>1 DEF WritePnl, TaskWrites, TypeOK, RowTypeOK, TaskTypeOK, Steps
  <2> QED BY <1>23, <2>2 DEF WritePnl, TypeOK, broker, rules, guard
<1>24. ASSUME NEW t \in Tasks, WriteStatus(t) PROVE TypeOK'
  <2>1. RowTypeOK' /\ fresh' \in [Tasks -> BOOLEAN] /\ raced' \in BOOLEAN
    BY <1>24 DEF WriteStatus, TaskWrites, Outcome, TypeOK, RowTypeOK, TaskTypeOK, Hit
  <2>2. TaskTypeOK'
    <3>1. CASE Profit(ref[t], price[t]) # 0
      BY <1>24, <2>1, <3>1 DEF WriteStatus, TypeOK, TaskTypeOK, Steps
    <3>2. CASE Profit(ref[t], price[t]) = 0
      BY <1>24, <2>1, <3>2, NextOrderFacts DEF WriteStatus, TaskTypeOK
    <3> QED BY <3>1, <3>2
  <2> QED BY <1>24, <2>1, <2>2 DEF WriteStatus, TypeOK, broker, rules, guard
<1>25. ASSUME NEW t \in Tasks, Book(t) PROVE TypeOK'
  <2>1. Profit(ref[t], price[t]) \in Int
    BY ProfitInt DEF TypeOK, TaskTypeOK
  <2>2. TaskTypeOK'
    BY <1>25, NextOrderFacts DEF Book, TypeOK, TaskTypeOK
  <2>3. day' \in Int /\ booked' \in Nat
    BY <1>25, <2>1 DEF Book, TypeOK
  <2> QED BY <1>25, <2>2, <2>3 DEF Book, TypeOK, broker, rules, RowTypeOK
<1>26. ASSUME NEW t \in Tasks, TradesFail(t) PROVE TypeOK'
  BY <1>26, NextOrderFacts DEF TradesFail, Fault, TypeOK, broker, rules, guard, RowTypeOK, TaskTypeOK
<1>27. ASSUME NEW t \in Tasks, Raise(t) PROVE TypeOK'
  BY <1>27, DropFacts DEF Raise, Fault, TypeOK, broker, rules, guard, RowTypeOK, TaskTypeOK
<1>28. CASE UNCHANGED vars
  BY <1>28 DEF vars, TypeOK, broker, rules, work, guard, RowTypeOK, TaskTypeOK
<1> QED
  BY NextSplit, <1>1, <1>2, <1>3, <1>4, <1>5, <1>6, <1>7, <1>8, <1>9, <1>10, <1>11,
     <1>12, <1>13, <1>14, <1>15, <1>16, <1>17, <1>18, <1>19, <1>20, <1>21, <1>22,
     <1>23, <1>24, <1>25, <1>26, <1>27, <1>28

\* Every variable keeps its type, for every price and every number of faults.
THEOREM TypeCorrect == Spec => []TypeOK
<1>1. Init => TypeOK
  BY InitType
<1>2. TypeOK /\ [Next]_vars => TypeOK'
  BY NextType
<1> QED BY <1>1, <1>2, PTL DEF Spec

-----------------------------------------------------------------------------
(* Every price is the price of a fill *)

Working == {"read", "entry", "active", "price", "pnl", "close", "book"}

InboxFilled ==
    \A i \in 1..Len(inbox) :
      /\ inbox[i].legs \subseteq Filled
      /\ inbox[i].gtt = "none" => inbox[i].legs # {}

TaskFilled(t) ==
    /\ todo[t] \subseteq Filled
    /\ pc[t] \in Working \cup {"trades"} => todo[t] # {}
    /\ pc[t] \in Working => price[t] \in FillPrices /\ strategy[t] \in Legs
    /\ ref[t] \in FillPrices \cup {None}
    /\ pc[t] \in {"pnl", "close", "book"} => ref[t] \in FillPrices

RowFilled == {row.entry, row.exit} \subseteq FillPrices \cup {None}

\* Orders in flight are filled orders, and prices held by a task or stored in the
\* row are prices of fills.
PricesAreFills ==
    /\ gtt = "pending" => Filled = {}
    /\ InboxFilled
    /\ RowFilled
    /\ \A t \in Tasks : TaskFilled(t)

\* A fill never loses its price.
LEMMA FillsGrow ==
    ASSUME TypeOK, NEW g \in Legs, fills[g] = None, NEW p \in Nat \ {None},
           fills' = [fills EXCEPT ![g] = p]
    PROVE  Filled \subseteq Filled' /\ FillPrices \subseteq FillPrices' /\ g \in Filled'
<1>1. \A l \in Filled : l \in Filled' /\ fills'[l] = fills[l]
  BY DEF TypeOK, Filled, None
<1>2. g \in Filled'
  BY DEF TypeOK, Filled, None
<1> QED BY <1>1, <1>2 DEF FillPrices

\* With the row and the tasks untouched, more fills keep the invariant.
LEMMA GrowKeeps ==
    ASSUME PricesAreFills, Filled \subseteq Filled', FillPrices \subseteq FillPrices',
           UNCHANGED <<row, work>>, InboxFilled', gtt' = "pending" => Filled' = {}
    PROVE  PricesAreFills'
<1>1. RowFilled'
  BY DEF PricesAreFills, RowFilled
<1>2. ASSUME NEW t \in Tasks PROVE TaskFilled(t)'
  BY DEF PricesAreFills, TaskFilled, work
<1> QED BY <1>1, <1>2 DEF PricesAreFills

\* The updates already sent stay true, and the ones sent now are.
LEMMA SendKeeps ==
    ASSUME TypeOK, InboxFilled, Filled \subseteq Filled',
           NEW us \in Seq(Update), Send(us),
           \A i \in 1..Len(us) :
             us[i].legs \subseteq Filled' /\ (us[i].gtt = "none" => us[i].legs # {})
    PROVE  InboxFilled'
<1>1. inbox \in Seq(Update)
  BY DEF TypeOK
<1>2. inbox' = inbox \o us
  BY DEF Send
<1>3. ASSUME NEW i \in 1..Len(inbox')
      PROVE  inbox'[i].legs \subseteq Filled' /\ (inbox'[i].gtt = "none" => inbox'[i].legs # {})
  <2>1. Len(inbox') = Len(inbox) + Len(us)
    BY <1>1, <1>2
  <2>2. CASE i <= Len(inbox)
    <3>1. i \in 1..Len(inbox) /\ inbox'[i] = inbox[i]
      BY <1>1, <1>2, <2>1, <2>2
    <3> QED BY <3>1 DEF InboxFilled
  <2>3. CASE i > Len(inbox)
    <3>1. i - Len(inbox) \in 1..Len(us) /\ inbox'[i] = us[i - Len(inbox)]
      BY <1>1, <1>2, <2>1, <2>3
    <3> QED BY <3>1
  <2> QED BY <1>1, <2>1, <2>2, <2>3
<1> QED BY <1>3 DEF InboxFilled

\* Receiving an update leaves the rest.
LEMMA ReceiveKeeps ==
    ASSUME TypeOK, InboxFilled, WsReady, UNCHANGED fills
    PROVE  /\ InboxFilled'
           /\ Head(inbox).legs \subseteq Filled
           /\ Head(inbox).gtt = "none" => Head(inbox).legs # {}
<1>1. inbox \in Seq(Update) /\ inbox # <<>> /\ inbox' = Tail(inbox)
  BY DEF TypeOK, WsReady
<1>2. 1 \in 1..Len(inbox) /\ Head(inbox) = inbox[1]
  BY <1>1
<1>3. Len(inbox') = Len(inbox) - 1 /\ \A i \in 1..Len(inbox') : inbox'[i] = inbox[i + 1]
  BY <1>1
<1>4. \A i \in 1..Len(inbox') : i + 1 \in 1..Len(inbox)
  BY <1>1, <1>3
<1>5. Filled' = Filled
  BY DEF Filled
<1>6. InboxFilled'
  BY <1>3, <1>4, <1>5 DEF InboxFilled
<1> QED BY <1>2, <1>6 DEF InboxFilled

\* A step of task t that fills nothing, and disturbs no other task.
LEMMA StepKeeps ==
    ASSUME PricesAreFills, NEW t \in Tasks, UNCHANGED <<gtt, fills, inbox>>,
           RowFilled', TaskFilled(t)',
           \A u \in Tasks \ {t} : /\ pc'[u] = pc[u] /\ todo'[u] = todo[u]
                                  /\ price'[u] = price[u] /\ ref'[u] = ref[u]
                                  /\ strategy'[u] = strategy[u]
    PROVE  PricesAreFills'
<1>1. Filled' = Filled /\ FillPrices' = FillPrices
  BY DEF Filled, FillPrices
<1>2. InboxFilled'
  BY <1>1 DEF PricesAreFills, InboxFilled
<1>3. ASSUME NEW u \in Tasks \ {t} PROVE TaskFilled(u)'
  BY <1>1, <1>3 DEF PricesAreFills, TaskFilled
<1>4. gtt' = "pending" => Filled' = {}
  BY <1>1 DEF PricesAreFills
<1>5. ASSUME NEW u \in Tasks PROVE TaskFilled(u)'
  BY <1>3
<1> QED BY <1>2, <1>4, <1>5 DEF PricesAreFills

\* A task that returned or gave up holds no prices.
LEMMA ReturnKeeps ==
    ASSUME TypeOK, PricesAreFills, NEW t \in Tasks, NextOrder(t) \/ Drop(t),
           UNCHANGED <<gtt, fills, inbox>>, RowFilled'
    PROVE  PricesAreFills'
<1>1. Filled' = Filled /\ FillPrices' = FillPrices
  BY DEF Filled, FillPrices
<1>2. /\ \A u \in Tasks \ {t} : /\ pc'[u] = pc[u] /\ todo'[u] = todo[u]
                                /\ price'[u] = price[u] /\ ref'[u] = ref[u]
                                /\ strategy'[u] = strategy[u]
      /\ pc'[t] \in {"idle", "trades"} /\ todo'[t] \subseteq todo[t]
      /\ pc'[t] = "trades" => todo'[t] # {}
      /\ price'[t] = None /\ ref'[t] = None
  BY NextOrderFacts, DropFacts
<1>3. TaskFilled(t)'
  BY <1>1, <1>2 DEF PricesAreFills, TaskFilled, Working
<1> QED BY <1>2, <1>3, StepKeeps

LEMMA InitFilled == Init => PricesAreFills
BY DEF Init, PricesAreFills, InboxFilled, RowFilled, TaskFilled, Working, Tasks, Filled, None

LEMMA NextFilled ==
    ASSUME TypeOK, PricesAreFills, [Next]_vars
    PROVE  PricesAreFills'
<1> USE PriceAssumption
<1>u. UNCHANGED fills => Filled' = Filled /\ FillPrices' = FillPrices
  BY DEF Filled, FillPrices
<1>r. UNCHANGED <<fills, row>> => RowFilled'
  BY <1>u DEF PricesAreFills, RowFilled
<1>w. ASSUME UNCHANGED <<gtt, fills, inbox, row, work>> PROVE PricesAreFills'
  <2>1. InboxFilled'
    BY <1>w, <1>u DEF PricesAreFills, InboxFilled
  <2> QED BY <1>w, <1>u, <2>1, GrowKeeps DEF PricesAreFills
<1>1. CASE FillEntry
  <2>1. PICK p \in Fills["ENTRY"] : fills' = [fills EXCEPT !["ENTRY"] = p]
    BY <1>1 DEF FillEntry
  <2>2. PICK S \in {{}, {"ENTRY"}} :
          Send(<<OrderUpdate("ENTRY"), [gtt |-> "triggered", legs |-> S]>>)
    BY <1>1 DEF FillEntry
  <2>3. "ENTRY" \in Legs /\ p \in Nat \ {None} /\ fills["ENTRY"] = None
    BY <1>1, <2>1 DEF FillEntry, PricesAreFills, Filled, Legs
  <2>4. Filled \subseteq Filled' /\ FillPrices \subseteq FillPrices' /\ "ENTRY" \in Filled'
    BY <2>1, <2>3, FillsGrow
  <2> DEFINE us == <<OrderUpdate("ENTRY"), [gtt |-> "triggered", legs |-> S]>>
  <2>5. us \in Seq(Update)
    BY <2>2, <2>3 DEF OrderUpdate, Update
  <2>6. Len(us) = 2 /\ us[1] = OrderUpdate("ENTRY") /\ us[2] = [gtt |-> "triggered", legs |-> S]
    OBVIOUS
  <2>7. us[1].legs = {"ENTRY"} /\ us[2].legs = S /\ us[2].gtt # "none"
    BY <2>6 DEF OrderUpdate
  <2> HIDE DEF us
  <2>8. ASSUME NEW i \in 1..Len(us)
        PROVE  us[i].legs \subseteq Filled' /\ (us[i].gtt = "none" => us[i].legs # {})
    <3>1. i = 1 \/ i = 2
      BY <2>6
    <3> QED BY <2>2, <2>4, <2>7, <3>1
  <2>9. InboxFilled'
    <3>1. Send(us)
      BY <2>2 DEF us
    <3> QED BY <2>4, <2>5, <2>8, <3>1, SendKeeps DEF PricesAreFills
  <2> QED BY <1>1, <2>4, <2>9, GrowKeeps DEF FillEntry
<1>2. CASE FillExit
  <2>0. PICK g \in Exits : \E p \in Fills[g] :
          fills' = [fills EXCEPT ![g] = p] /\ Send(<<OrderUpdate(g)>>)
    BY <1>2 DEF FillExit
  <2>1. PICK p \in Fills[g] : fills' = [fills EXCEPT ![g] = p] /\ Send(<<OrderUpdate(g)>>)
    BY <2>0
  <2>2. g \in Legs /\ p \in Nat \ {None} /\ fills[g] = None
    BY <1>2, <2>1 DEF FillExit, Filled, Exits, Legs
  <2>3. Filled \subseteq Filled' /\ FillPrices \subseteq FillPrices' /\ g \in Filled'
    BY <2>1, <2>2, FillsGrow
  <2> DEFINE us == <<OrderUpdate(g)>>
  <2>4. us \in Seq(Update) /\ Len(us) = 1 /\ us[1].legs = {g}
    BY <2>2 DEF OrderUpdate, Update
  <2> HIDE DEF us
  <2>5. InboxFilled'
    <3>1. Send(us)
      BY <2>1 DEF us
    <3>2. \A i \in 1..Len(us) :
            us[i].legs \subseteq Filled' /\ (us[i].gtt = "none" => us[i].legs # {})
      <4>1. TAKE i \in 1..Len(us)
      <4>2. i = 1
        BY <2>4, <4>1
      <4>3. us[i].legs = {g}
        BY <2>4, <4>2
      <4>4. {g} \subseteq Filled' /\ {g} # {}
        BY <2>3
      <4> QED BY <4>3, <4>4
    <3> QED BY <2>3, <2>4, <3>1, <3>2, SendKeeps DEF PricesAreFills
  <2> QED BY <1>2, <2>3, <2>5, GrowKeeps DEF FillExit
<1>3. CASE EndGtt
  <2>1. PICK S \in {{}, Filled} : Send(<<[gtt |-> gtt', legs |-> S]>>)
    BY <1>3 DEF EndGtt
  <2>2. gtt' \in Gone /\ UNCHANGED <<fills, row, work>>
    BY <1>3 DEF EndGtt, Gone
  <2> DEFINE us == <<[gtt |-> gtt', legs |-> S]>>
  <2>3. us \in Seq(Update)
    BY <2>1, <2>2 DEF Update, Filled
  <2>4. Len(us) = 1 /\ us[1].legs = S /\ us[1].gtt # "none"
    BY <2>2 DEF Gone
  <2> HIDE DEF us
  <2>5. InboxFilled'
    <3>1. Send(us)
      BY <2>1 DEF us
    <3>2. \A i \in 1..Len(us) :
            us[i].legs \subseteq Filled' /\ (us[i].gtt = "none" => us[i].legs # {})
      BY <1>u, <2>1, <2>2, <2>4
    <3> QED BY <1>u, <2>2, <2>3, <3>1, <3>2, SendKeeps DEF PricesAreFills
  <2> QED BY <1>u, <2>2, <2>5, GrowKeeps DEF Gone
<1>4. CASE Disconnect
  <2>1. InboxFilled'
    BY <1>4 DEF Disconnect, InboxFilled
  <2> QED BY <1>4, <1>u, <2>1, GrowKeeps DEF Disconnect, broker, PricesAreFills
<1>5. CASE EngineLeg
  BY <1>5, <1>w DEF EngineLeg, broker
<1>6. CASE EngineRow
  <2>1. RowFilled'
    BY <1>6, <1>u DEF EngineRow, broker, PricesAreFills, RowFilled, TypeOK, RowTypeOK
  <2>2. InboxFilled'
    BY <1>6, <1>u DEF EngineRow, broker, PricesAreFills, InboxFilled
  <2>3. \A t \in Tasks : TaskFilled(t)'
    BY <1>6, <1>u DEF EngineRow, broker, work, PricesAreFills, TaskFilled
  <2> QED BY <1>6, <1>u, <2>1, <2>2, <2>3 DEF EngineRow, broker, PricesAreFills
<1>7. CASE EngineLoses
  BY <1>7, <1>w DEF EngineLoses, broker
<1>8. CASE WsOrder
  <2>1. WsReady /\ UNCHANGED <<gtt, fills, row>>
    BY <1>8 DEF WsOrder, broker
  <2>2. /\ InboxFilled' /\ Head(inbox).legs \subseteq Filled /\ Head(inbox).legs # {}
    BY <1>8, <2>1, ReceiveKeeps DEF WsOrder, PricesAreFills
  <2>3. First(Head(inbox).legs) \in Filled
    BY <2>2, FirstIn DEF Filled
  <2>4. ASSUME NEW t \in Tasks PROVE TaskFilled(t)'
    BY <1>8, <1>u, <2>1, <2>3 DEF WsOrder, TypeOK, TaskTypeOK, PricesAreFills, TaskFilled, Working
  <2> QED BY <1>u, <1>r, <2>1, <2>2, <2>4 DEF PricesAreFills
<1>9. CASE WsGtt
  <2>1. WsReady /\ UNCHANGED <<gtt, fills>>
    BY <1>9 DEF WsGtt, broker
  <2>2. InboxFilled' /\ Head(inbox).legs \subseteq Filled
    BY <2>1, ReceiveKeeps DEF PricesAreFills
  <2>3. row'.entry = row.entry /\ row'.exit = row.exit
    BY <1>9 DEF WsGtt, TypeOK, RowTypeOK
  <2>4. RowFilled'
    BY <1>u, <2>1, <2>3 DEF PricesAreFills, RowFilled
  <2>5. ASSUME NEW t \in Tasks PROVE TaskFilled(t)'
    BY <1>9, <1>u, <2>1, <2>2 DEF WsGtt, TypeOK, TaskTypeOK, PricesAreFills, TaskFilled, Working
  <2> QED BY <1>u, <2>1, <2>2, <2>4, <2>5 DEF PricesAreFills
<1>10. CASE WsGttUnknown
  <2>1. WsReady /\ UNCHANGED <<gtt, fills, row, work>>
    BY <1>10 DEF WsGttUnknown, broker
  <2>2. InboxFilled'
    BY <2>1, ReceiveKeeps DEF PricesAreFills
  <2> QED BY <1>u, <2>1, <2>2, GrowKeeps DEF PricesAreFills
<1>11. CASE ReconSelects
  <2>1. ASSUME NEW t \in Tasks PROVE TaskFilled(t)'
    BY <1>11, <1>u DEF ReconSelects, broker, TypeOK, TaskTypeOK, PricesAreFills, TaskFilled, Working
  <2>2. InboxFilled'
    BY <1>11, <1>u DEF ReconSelects, broker, PricesAreFills, InboxFilled
  <2> QED BY <1>11, <1>u, <1>r, <2>1, <2>2 DEF ReconSelects, broker, PricesAreFills
<1>12. CASE ReconAnswered
  <2>1. ASSUME NEW t \in Tasks PROVE TaskFilled(t)'
    BY <1>12, <1>u DEF ReconAnswered, broker, TypeOK, TaskTypeOK, PricesAreFills, TaskFilled, Working
  <2>2. InboxFilled'
    BY <1>12, <1>u DEF ReconAnswered, broker, PricesAreFills, InboxFilled
  <2> QED BY <1>12, <1>u, <1>r, <2>1, <2>2 DEF ReconAnswered, broker, PricesAreFills
<1>13. CASE Crash
  <2>1. ASSUME NEW t \in Tasks PROVE TaskFilled(t)'
    BY <1>13, <1>u DEF Crash, broker, TaskFilled, Working
  <2>2. InboxFilled'
    BY <1>13 DEF Crash, InboxFilled
  <2> QED BY <1>13, <1>u, <1>r, <2>1, <2>2 DEF Crash, broker, PricesAreFills
<1>14. ASSUME NEW t \in Tasks, Upserts(t) PROVE PricesAreFills'
  <2>1. TaskFilled(t)'
    BY <1>14, <1>u DEF Upserts, broker, TypeOK, TaskTypeOK, PricesAreFills, TaskFilled, Working
  <2> QED BY <1>14, <1>r, <2>1, StepKeeps DEF Upserts, broker, TypeOK, TaskTypeOK
<1>15. ASSUME NEW t \in Tasks, UpsertsNothing(t) PROVE PricesAreFills'
  BY <1>15, <1>r, ReturnKeeps DEF UpsertsNothing, broker
<1>16. ASSUME NEW t \in Tasks, GetTrades(t) PROVE PricesAreFills'
  <2>1. First(todo[t]) \in todo[t] /\ todo[t] \subseteq Filled
    BY <1>16, FirstIn DEF GetTrades, TypeOK, TaskTypeOK, PricesAreFills, TaskFilled
  <2>2. fills[First(todo[t])] \in FillPrices
    BY <2>1 DEF FillPrices
  <2>0. Owner(First(todo[t])) \in Legs
    BY <1>16, FirstIn, OwnerIn DEF GetTrades, TypeOK, TaskTypeOK
  <2>3. TaskFilled(t)'
    BY <1>16, <1>u, <2>0, <2>1, <2>2
       DEF GetTrades, broker, TypeOK, TaskTypeOK, PricesAreFills, TaskFilled, Working
  <2> QED BY <1>16, <1>r, <2>3, StepKeeps DEF GetTrades, broker, TypeOK, TaskTypeOK
<1>17. ASSUME NEW t \in Tasks, NoRule(t) PROVE PricesAreFills'
  BY <1>17, <1>r, ReturnKeeps DEF NoRule, broker
<1>18. ASSUME NEW t \in Tasks, ReadSkips(t) PROVE PricesAreFills'
  BY <1>18, <1>r, ReturnKeeps DEF ReadSkips, broker
<1>19. ASSUME NEW t \in Tasks, ReadRow(t) PROVE PricesAreFills'
  <2>1. pc' = [pc EXCEPT ![t] = IF IsEntry(t) THEN "entry" ELSE "price"]
        /\ ref' = [ref EXCEPT ![t] = row.entry] /\ UNCHANGED <<gtt, fills, inbox, row, todo, price, strategy>>
    BY <1>19 DEF ReadRow, broker
  <2>2. row.entry \in FillPrices \cup {None}
    BY DEF PricesAreFills, RowFilled
  <2>3. TaskFilled(t)'
    BY <1>19, <1>u, <2>1, <2>2 DEF ReadRow, TypeOK, TaskTypeOK, PricesAreFills, TaskFilled, Working
  <2> QED BY <1>r, <2>1, <2>3, StepKeeps DEF TypeOK, TaskTypeOK
<1>20. ASSUME NEW t \in Tasks, WriteEntry(t) PROVE PricesAreFills'
  <2>1. price[t] \in FillPrices
    BY <1>20 DEF WriteEntry, PricesAreFills, TaskFilled, Working
  <2>2. RowFilled'
    BY <1>20, <1>u, <2>1
       DEF WriteEntry, broker, PricesAreFills, RowFilled, TypeOK, RowTypeOK
  <2>3. TaskFilled(t)'
    BY <1>20, <1>u DEF WriteEntry, broker, TypeOK, TaskTypeOK, PricesAreFills, TaskFilled, Working
  <2> QED BY <1>20, <2>2, <2>3, StepKeeps DEF WriteEntry, broker, TypeOK, TaskTypeOK
<1>21. ASSUME NEW t \in Tasks, WriteActive(t) PROVE PricesAreFills'
  <2>1. RowFilled'
    BY <1>21, <1>u DEF WriteActive, broker, PricesAreFills, RowFilled, TypeOK, RowTypeOK
  <2> QED BY <1>21, <2>1, ReturnKeeps DEF WriteActive, broker
<1>22. ASSUME NEW t \in Tasks, ReadEntryPrice(t) PROVE PricesAreFills'
  <2> DEFINE e == IF row.entry # None THEN row.entry
                  ELSE IF ref[t] # None THEN ref[t] ELSE price[t]
  <2>1. e \in FillPrices
    BY <1>22 DEF ReadEntryPrice, PricesAreFills, RowFilled, TaskFilled, Working
  <2>2. ref' = [ref EXCEPT ![t] = e] /\ pc' = [pc EXCEPT ![t] = "pnl"]
        /\ UNCHANGED <<gtt, fills, inbox, row, todo, price, strategy>>
    BY <1>22 DEF ReadEntryPrice, broker
  <2> HIDE DEF e
  <2>3. TaskFilled(t)'
    BY <1>22, <1>u, <2>1, <2>2
       DEF ReadEntryPrice, TypeOK, TaskTypeOK, PricesAreFills, TaskFilled, Working
  <2> QED BY <1>r, <2>2, <2>3, StepKeeps DEF TypeOK, TaskTypeOK
<1>23. ASSUME NEW t \in Tasks, WritePnl(t) PROVE PricesAreFills'
  <2>1. price[t] \in FillPrices /\ ref[t] \in FillPrices
    BY <1>23 DEF WritePnl, PricesAreFills, TaskFilled, Working
  <2>2. row'.entry = ref[t] /\ row'.exit = price[t] /\ UNCHANGED fills
    BY <1>23 DEF WritePnl, broker, TypeOK, RowTypeOK
  <2>3. RowFilled'
    BY <1>u, <2>1, <2>2 DEF RowFilled
  <2>4. TaskFilled(t)'
    BY <1>23, <1>u DEF WritePnl, broker, TypeOK, TaskTypeOK, PricesAreFills, TaskFilled, Working
  <2> QED BY <1>23, <2>3, <2>4, StepKeeps DEF WritePnl, broker, TypeOK, TaskTypeOK
<1>24. ASSUME NEW t \in Tasks, WriteStatus(t) PROVE PricesAreFills'
  <2>1. row'.entry = row.entry /\ row'.exit = row.exit /\ UNCHANGED <<gtt, fills, inbox>>
    BY <1>24 DEF WriteStatus, broker, TypeOK, RowTypeOK
  <2>2. RowFilled'
    BY <1>u, <2>1 DEF PricesAreFills, RowFilled
  <2>3. CASE Profit(ref[t], price[t]) # 0
    <3>1. TaskFilled(t)'
      BY <1>24, <1>u, <2>1, <2>3
         DEF WriteStatus, TypeOK, TaskTypeOK, PricesAreFills, TaskFilled, Working
    <3> QED BY <1>24, <2>1, <2>2, <2>3, <3>1, StepKeeps DEF WriteStatus, TypeOK, TaskTypeOK
  <2>4. CASE Profit(ref[t], price[t]) = 0
    BY <1>24, <2>1, <2>2, <2>4, ReturnKeeps DEF WriteStatus
  <2> QED BY <2>3, <2>4
<1>25. ASSUME NEW t \in Tasks, Book(t) PROVE PricesAreFills'
  BY <1>25, <1>r, ReturnKeeps DEF Book, broker
<1>26. ASSUME NEW t \in Tasks, TradesFail(t) PROVE PricesAreFills'
  BY <1>26, <1>r, ReturnKeeps DEF TradesFail, broker
<1>27. ASSUME NEW t \in Tasks, Raise(t) PROVE PricesAreFills'
  BY <1>27, <1>r, ReturnKeeps DEF Raise, broker
<1>28. CASE UNCHANGED vars
  BY <1>28, <1>w DEF vars, broker
<1> QED
  BY NextSplit, <1>1, <1>2, <1>3, <1>4, <1>5, <1>6, <1>7, <1>8, <1>9, <1>10, <1>11,
     <1>12, <1>13, <1>14, <1>15, <1>16, <1>17, <1>18, <1>19, <1>20, <1>21, <1>22,
     <1>23, <1>24, <1>25, <1>26, <1>27, <1>28

\* Every price the tracker stores or computes with is the price of a fill.
THEOREM StoredPricesAreFills == Spec => []PricesAreFills
<1>1. Init => PricesAreFills
  BY InitFilled
<1>2. TypeOK /\ PricesAreFills /\ [Next]_vars => PricesAreFills'
  BY NextFilled
<1> QED BY <1>1, <1>2, TypeCorrect, PTL DEF Spec

-----------------------------------------------------------------------------
(* A signal is booked once *)

\* Nothing but the steps of tasks changed, nobody came to book, and whoever holds
\* a current view of the row found it not closed.
LEMMA QuietStep ==
    ASSUME BookedOnce, UNCHANGED <<row, booked, raced>>,
           \A u \in Tasks : pc'[u] = "book" => pc[u] = "book",
           ~raced => \A u \in Tasks : Holds(u)' =>
             /\ row.status \notin Hit
             /\ pc'[u] = "close" =>
                  Holds(u) /\ pc[u] = "close" /\ ref'[u] = ref[u] /\ price'[u] = price[u]
    PROVE  BookedOnce'
<1> SUFFICES ASSUME ~raced' PROVE BookedOnce'
  BY DEF BookedOnce
<1>1. ~raced
  OBVIOUS
<1>2. /\ booked' <= 1
      /\ booked' = 1 => row'.status \in Hit
      /\ row'.status \in Hit => Settled' /\ Consistent(row.entry, row.exit)'
  BY <1>1 DEF BookedOnce, Settled, Consistent
<1>3. ASSUME NEW t \in Tasks
      PROVE  /\ pc'[t] = "book" =>
                  /\ row'.status \in Hit /\ booked' = 0
                  /\ \A u \in Tasks \ {t} : pc'[u] # "book"
             /\ Holds(t)' => row'.status \notin Hit
             /\ Holds(t)' /\ pc'[t] = "close" => Consistent(ref[t], price[t])'
  BY <1>1 DEF BookedOnce, Consistent
<1> QED BY <1>2, <1>3 DEF BookedOnce

\* A task that returns, gives up or moves between two awaits.
LEMMA QuietTask ==
    ASSUME TypeOK, BookedOnce, NEW t \in Tasks, UNCHANGED <<row, booked, raced, fresh>>,
           pc'[t] \in {"idle", "asking", "payload", "trades", "read"},
           \A u \in Tasks \ {t} : /\ pc'[u] = pc[u]
                                  /\ price'[u] = price[u] /\ ref'[u] = ref[u]
    PROVE  BookedOnce'
<1>1. \A u \in Tasks : pc'[u] = "book" => pc[u] = "book"
  OBVIOUS
<1>2. ASSUME NEW u \in Tasks, Holds(u)'
      PROVE  u # t /\ Holds(u) /\ pc'[u] = pc[u] /\ price'[u] = price[u] /\ ref'[u] = ref[u]
  BY <1>2 DEF Holds
<1>3. ~raced => \A u \in Tasks : Holds(u) => row.status \notin Hit
  BY DEF BookedOnce
<1> QED BY <1>1, <1>2, <1>3, QuietStep

\* A task that writes an open row on which it has a current view: from now on no
\* task but itself has one.
LEMMA OpenWrite ==
    ASSUME TypeOK, BookedOnce, NEW t \in Tasks, TaskWrites(t), UNCHANGED booked,
           pc[t] \in {"entry", "active", "pnl"}, row'.status \notin Hit \/ ~Holds(t),
           pc'[t] # "book", \A u \in Tasks \ {t} : pc'[u] = pc[u],
           Holds(t)' /\ pc'[t] = "close" => Consistent(ref[t], price[t])'
    PROVE  BookedOnce'
<1> SUFFICES ASSUME ~raced' PROVE BookedOnce'
  BY DEF BookedOnce
<1>1. ~raced /\ fresh[t]
  BY DEF TaskWrites, TypeOK, TaskTypeOK
<1>2. Holds(t) /\ row.status \notin Hit /\ row'.status \notin Hit
  BY <1>1 DEF Holds, BookedOnce
<1>3. booked # 1 /\ booked <= 1 /\ \A u \in Tasks : pc[u] # "book"
  BY <1>1, <1>2 DEF BookedOnce
<1>4. \A u \in Tasks : Holds(u)' => u = t
  BY DEF Holds, TaskWrites
<1>5. \A u \in Tasks : pc'[u] # "book"
  BY <1>3
<1> QED BY <1>2, <1>3, <1>4, <1>5 DEF BookedOnce

LEMMA InitBooked == Init => BookedOnce
BY DEF Init, BookedOnce, Holds, Hit

LEMMA NextBooked ==
    ASSUME TypeOK, TypeOK', PricesAreFills, BookedOnce, [Next]_vars
    PROVE  BookedOnce'
<1> USE PriceAssumption
<1>f. ASSUME UNCHANGED <<row, booked, raced, fresh, pc, price, ref>> PROVE BookedOnce'
  BY <1>f, QuietStep DEF BookedOnce, Holds
<1>1. CASE FillEntry
  BY <1>1, <1>f DEF FillEntry, work, guard
<1>2. CASE FillExit
  BY <1>2, <1>f DEF FillExit, work, guard
<1>3. CASE EndGtt
  BY <1>3, <1>f DEF EndGtt, work, guard
<1>4. CASE Disconnect
  BY <1>4, <1>f DEF Disconnect, work, guard
<1>5. CASE EngineLeg
  BY <1>5, <1>f DEF EngineLeg, work, guard
<1>6. CASE EngineRow
  <2>1. CASE row.status = "PENDING"
    <3>1. row' = row
      BY <1>6, <2>1 DEF EngineRow, TypeOK, RowTypeOK
    <3>2. raced' = raced
      BY <1>6, <2>1 DEF EngineRow, TypeOK
    <3> QED BY <1>6, <1>f, <3>1, <3>2 DEF EngineRow, work, guard
  <2>2. CASE row.status # "PENDING"
    BY <1>6, <2>2 DEF EngineRow, BookedOnce
  <2> QED BY <2>1, <2>2
<1>7. CASE EngineLoses
  BY <1>7, <1>f DEF EngineLoses, work, guard
<1>8. CASE WsOrder
  <2>1. "ws" \in Tasks
    BY DEF Tasks
  <2> QED BY <1>8, <2>1, QuietTask DEF WsOrder, guard, TypeOK, TaskTypeOK
<1>9. CASE WsGtt
  <2>0. "ws" \in Tasks
    BY DEF Tasks
  <2>1. /\ pc'["ws"] \in {"idle", "payload"} /\ \A u \in Tasks \ {"ws"} : pc'[u] = pc[u]
        /\ UNCHANGED <<price, ref, booked>>
    BY <1>9, <2>0 DEF WsGtt, guard, TypeOK, TaskTypeOK
  <2>2. CASE Head(inbox).gtt \in Gone
    <3> SUFFICES ASSUME ~raced' PROVE BookedOnce'
      BY DEF BookedOnce
    <3>1. ~raced /\ row.status \notin Hit
      BY <1>9, <2>2 DEF WsGtt
    <3>2. row'.status \in {"CANCELLED", "EXPIRED"}
      <4> DEFINE s == IF Head(inbox).gtt = "cancelled" THEN "CANCELLED" ELSE "EXPIRED"
      <4>1. s \in {"CANCELLED", "EXPIRED"}
        OBVIOUS
      <4>2. row' = [row EXCEPT !.status = s]
        BY <1>9, <2>2 DEF WsGtt
      <4> HIDE DEF s
      <4> QED BY <4>1, <4>2 DEF TypeOK, RowTypeOK
    <3>3. \A u \in Tasks : ~Holds(u)'
      BY <1>9, <2>2 DEF WsGtt, Holds
    <3>4. booked' # 1 /\ booked' <= 1 /\ \A u \in Tasks : pc'[u] # "book"
      BY <2>1, <3>1 DEF BookedOnce
    <3> QED BY <3>2, <3>3, <3>4 DEF BookedOnce, Hit
  <2>3. CASE Head(inbox).gtt \notin Gone
    <3>1. UNCHANGED <<row, raced, fresh>>
      BY <1>9, <2>3 DEF WsGtt
    <3> QED BY <2>0, <2>1, <3>1, QuietTask
  <2> QED BY <2>2, <2>3
<1>10. CASE WsGttUnknown
  BY <1>10, <1>f DEF WsGttUnknown, work, guard
<1>11. CASE ReconSelects
  <2>1. "recon" \in Tasks
    BY DEF Tasks
  <2> QED BY <1>11, <2>1, QuietTask DEF ReconSelects, guard, TypeOK, TaskTypeOK
<1>12. CASE ReconAnswered
  <2>1. "recon" \in Tasks
    BY DEF Tasks
  <2> QED BY <1>12, <2>1, QuietTask DEF ReconAnswered, guard, TypeOK, TaskTypeOK
<1>13. CASE Crash
  BY <1>13, QuietStep DEF Crash, guard, Holds
<1>14. ASSUME NEW t \in Tasks, Upserts(t) PROVE BookedOnce'
  BY <1>14, QuietTask DEF Upserts, guard, TypeOK, TaskTypeOK
<1>15. ASSUME NEW t \in Tasks, UpsertsNothing(t) PROVE BookedOnce'
  BY <1>15, QuietTask, DropFacts DEF UpsertsNothing, guard
<1>16. ASSUME NEW t \in Tasks, GetTrades(t) PROVE BookedOnce'
  BY <1>16, QuietTask DEF GetTrades, guard, TypeOK, TaskTypeOK
<1>17. ASSUME NEW t \in Tasks, NoRule(t) PROVE BookedOnce'
  BY <1>17, QuietTask, NextOrderFacts DEF NoRule, guard
<1>18. ASSUME NEW t \in Tasks, ReadSkips(t) PROVE BookedOnce'
  BY <1>18, QuietTask, NextOrderFacts DEF ReadSkips, guard
<1>19. ASSUME NEW t \in Tasks, ReadRow(t) PROVE BookedOnce'
  <2>1. pc'[t] \in {"entry", "price"} /\ \A u \in Tasks \ {t} : pc'[u] = pc[u]
    BY <1>19 DEF ReadRow, TypeOK, TaskTypeOK
  <2>2. strategy[t] = "ENTRY" \/ strategy[t] \in Exits
    BY <1>19 DEF ReadRow, PricesAreFills, TaskFilled, Working, Legs, Exits
  <2>3. ~raced => row.status \notin Hit
    <3>1. ASSUME ~raced, row.status \in Hit PROVE FALSE
      <4>1. row.entry # None /\ row.exit # None /\ row.status # "PENDING"
        BY <3>1 DEF BookedOnce, Settled, Hit
      <4> QED BY <1>19, <2>2, <3>1, <4>1 DEF ReadRow, AlreadyApplied
    <3> QED BY <3>1
  <2>4. UNCHANGED <<row, booked, raced, price>>
        /\ \A u \in Tasks \ {t} : ref'[u] = ref[u] /\ fresh'[u] = fresh[u]
    BY <1>19 DEF ReadRow, guard, TypeOK, TaskTypeOK
  <2> QED BY <2>1, <2>3, <2>4, QuietStep DEF Holds
<1>20. ASSUME NEW t \in Tasks, WriteEntry(t) PROVE BookedOnce'
  <2>1. row'.status = row.status /\ pc'[t] = "active" /\ UNCHANGED booked
        /\ \A u \in Tasks \ {t} : pc'[u] = pc[u]
    BY <1>20 DEF WriteEntry, guard, TypeOK, RowTypeOK, TaskTypeOK
  <2>2. TaskWrites(t) /\ pc[t] = "entry"
    BY <1>20 DEF WriteEntry
  <2>3. CASE raced
    BY <2>2, <2>3 DEF TaskWrites, BookedOnce
  <2>4. CASE ~raced
    <3>1. row'.status \notin Hit \/ ~Holds(t)
      BY <2>1, <2>4 DEF BookedOnce
    <3> QED BY <2>1, <2>2, <3>1, OpenWrite
  <2> QED BY <2>3, <2>4
<1>21. ASSUME NEW t \in Tasks, WriteActive(t) PROVE BookedOnce'
  <2>1. row'.status \notin Hit /\ UNCHANGED booked
    BY <1>21 DEF WriteActive, guard, TypeOK, RowTypeOK, Hit
  <2>2. TaskWrites(t) /\ NextOrder(t) /\ pc[t] = "active"
    BY <1>21 DEF WriteActive
  <2>3. pc'[t] \in {"idle", "trades"} /\ \A u \in Tasks \ {t} : pc'[u] = pc[u]
    BY <2>2, NextOrderFacts
  <2> QED BY <2>1, <2>2, <2>3, OpenWrite
<1>22. ASSUME NEW t \in Tasks, ReadEntryPrice(t) PROVE BookedOnce'
  <2>1. pc[t] = "price" /\ pc'[t] = "pnl" /\ UNCHANGED <<row, booked, raced, fresh, price>>
        /\ \A u \in Tasks \ {t} : pc'[u] = pc[u] /\ ref'[u] = ref[u]
    BY <1>22 DEF ReadEntryPrice, guard, TypeOK, TaskTypeOK
  <2>2. ~raced => \A u \in Tasks : Holds(u) => row.status \notin Hit
    BY DEF BookedOnce
  <2> QED BY <2>1, <2>2, QuietStep DEF Holds
<1>23. ASSUME NEW t \in Tasks, WritePnl(t) PROVE BookedOnce'
  <2>1. row'.status = row.status /\ pc'[t] = "close" /\ UNCHANGED <<booked, ref, price>>
        /\ \A u \in Tasks \ {t} : pc'[u] = pc[u]
    BY <1>23 DEF WritePnl, guard, TypeOK, RowTypeOK, TaskTypeOK
  <2>2. TaskWrites(t) /\ pc[t] = "pnl"
    BY <1>23 DEF WritePnl
  <2>3. Consistent(ref[t], price[t])'
    BY <1>23, <2>1 DEF WritePnl, Consistent, Profit, TypeOK, RowTypeOK
  <2>4. CASE raced
    BY <2>2, <2>4 DEF TaskWrites, BookedOnce
  <2>5. CASE ~raced
    <3>1. row'.status \notin Hit \/ ~Holds(t)
      BY <2>1, <2>5 DEF BookedOnce
    <3> QED BY <2>1, <2>2, <2>3, <3>1, OpenWrite
  <2> QED BY <2>4, <2>5
<1>24. ASSUME NEW t \in Tasks, WriteStatus(t) PROVE BookedOnce'
  <2> SUFFICES ASSUME ~raced' PROVE BookedOnce'
    BY DEF BookedOnce
  <2>1. ~raced /\ fresh[t] /\ \A u \in Tasks \ {t} : ~fresh'[u]
    BY <1>24 DEF WriteStatus, TaskWrites, TypeOK, TaskTypeOK
  <2>2. Holds(t) /\ Consistent(ref[t], price[t]) /\ row.status \notin Hit
    BY <1>24, <2>1 DEF WriteStatus, Holds, BookedOnce
  <2>3. booked' = booked /\ booked = 0 /\ \A u \in Tasks : pc[u] # "book"
    <3>1. booked # 1 /\ booked <= 1 /\ \A u \in Tasks : pc[u] # "book"
      BY <2>1, <2>2 DEF BookedOnce
    <3> QED BY <1>24, <3>1 DEF WriteStatus, guard, TypeOK
  <2>4. Outcome(t) \in Hit
    BY DEF Outcome, Hit
  <2>5. row'.status \in Hit /\ row'.entry = row.entry /\ row'.exit = row.exit
        /\ row'.pnl = row.pnl
    BY <1>24, <2>4 DEF WriteStatus, TypeOK, RowTypeOK
  <2>6. ref[t] # None /\ price[t] # None
    BY <1>24 DEF WriteStatus, PricesAreFills, TaskFilled, Working, FillPrices, Filled
  <2>7. Settled' /\ Consistent(row.entry, row.exit)'
    BY <2>2, <2>5, <2>6 DEF Settled, Consistent
  <2>8. pc'[t] \in {"idle", "trades", "book"} /\ \A u \in Tasks \ {t} : pc'[u] = pc[u]
    <3>1. CASE Profit(ref[t], price[t]) # 0
      BY <1>24, <3>1 DEF WriteStatus, TypeOK, TaskTypeOK
    <3>2. CASE Profit(ref[t], price[t]) = 0
      BY <1>24, <3>2, NextOrderFacts DEF WriteStatus
    <3> QED BY <3>1, <3>2
  <2>9. \A u \in Tasks : ~Holds(u)'
    BY <2>1, <2>8 DEF Holds
  <2>10. \A u \in Tasks \ {t} : pc'[u] # "book"
    BY <2>3, <2>8
  <2> QED BY <2>3, <2>5, <2>7, <2>9, <2>10 DEF BookedOnce
<1>25. ASSUME NEW t \in Tasks, Book(t) PROVE BookedOnce'
  <2> SUFFICES ASSUME ~raced' PROVE BookedOnce'
    BY DEF BookedOnce
  <2>1. /\ ~raced /\ pc[t] = "book" /\ booked' = booked + 1 /\ NextOrder(t)
        /\ UNCHANGED <<row, fresh>>
    BY <1>25 DEF Book
  <2>2. /\ pc'[t] \in {"idle", "trades"}
        /\ \A u \in Tasks \ {t} : pc'[u] = pc[u] /\ price'[u] = price[u] /\ ref'[u] = ref[u]
    BY <2>1, NextOrderFacts
  <2>3. booked = 0 /\ row.status \in Hit /\ \A u \in Tasks \ {t} : pc[u] # "book"
    BY <2>1 DEF BookedOnce
  <2>4. \A u \in Tasks : ~Holds(u)
    BY <2>1, <2>3 DEF BookedOnce
  <2>5. \A u \in Tasks : ~Holds(u)' /\ pc'[u] # "book"
    BY <2>1, <2>2, <2>3, <2>4 DEF Holds
  <2>6. Settled' /\ Consistent(row.entry, row.exit)'
    BY <2>1, <2>3 DEF BookedOnce, Settled, Consistent
  <2> QED BY <2>1, <2>3, <2>5, <2>6 DEF BookedOnce
<1>26. ASSUME NEW t \in Tasks, TradesFail(t) PROVE BookedOnce'
  BY <1>26, QuietTask, NextOrderFacts DEF TradesFail, guard
<1>27. ASSUME NEW t \in Tasks, Raise(t) PROVE BookedOnce'
  BY <1>27, QuietTask, DropFacts DEF Raise, guard
<1>28. CASE UNCHANGED vars
  BY <1>28, <1>f DEF vars, work, guard
<1> QED
  BY NextSplit, <1>1, <1>2, <1>3, <1>4, <1>5, <1>6, <1>7, <1>8, <1>9, <1>10, <1>11,
     <1>12, <1>13, <1>14, <1>15, <1>16, <1>17, <1>18, <1>19, <1>20, <1>21, <1>22,
     <1>23, <1>24, <1>25, <1>26, <1>27, <1>28

\* A signal's P&L enters the day's total at most once unless a task or the engine
\* wrote the row from a stale view: replays, crashes and lost updates do not do it.
THEOREM SignalBookedOnce == Spec => []BookedOnce
<1>1. Init => BookedOnce
  BY InitBooked
<1>2. TypeOK /\ TypeOK' /\ PricesAreFills /\ BookedOnce /\ [Next]_vars => BookedOnce'
  BY NextBooked
<1> QED BY <1>1, <1>2, TypeCorrect, StoredPricesAreFills, PTL DEF Spec

\* A closed row holds the prices of two fills and the difference between them.
THEOREM ClosedRowsTellTheTruth == Spec => []HitTellsTheTruth
<1>1. TypeOK /\ PricesAreFills /\ BookedOnce => HitTellsTheTruth
  <2> SUFFICES ASSUME PricesAreFills, BookedOnce, ~raced, row.status \in Hit
               PROVE  /\ {row.entry, row.exit} \subseteq FillPrices
                      /\ row.pnl = Profit(row.entry, row.exit)
    BY DEF HitTellsTheTruth
  <2>1. row.entry # None /\ row.exit # None /\ Consistent(row.entry, row.exit)
    BY DEF BookedOnce, Settled
  <2> QED BY <2>1 DEF PricesAreFills, RowFilled, Consistent
<1> QED BY <1>1, TypeCorrect, StoredPricesAreFills, SignalBookedOnce, PTL

\* A step leaves a closed row alone, or rests on a stale view of it.
LEMMA ClosedStep ==
    ASSUME BookedOnce, row.status \in Hit, [Next]_vars
    PROVE  row' = row \/ raced'
<1> SUFFICES ASSUME ~raced', row' # row PROVE FALSE
  OBVIOUS
<1>1. ASSUME NEW t \in Tasks, TaskWrites(t),
             pc[t] \in {"entry", "active", "pnl", "close"}
      PROVE  FALSE
  <2>1. ~raced /\ fresh[t]
    BY <1>1 DEF TaskWrites
  <2> QED BY <1>1, <2>1 DEF BookedOnce, Holds
<1>2. \A t \in Tasks : ~(WriteEntry(t) \/ WriteActive(t) \/ WritePnl(t) \/ WriteStatus(t))
  BY <1>1 DEF WriteEntry, WriteActive, WritePnl, WriteStatus
<1>3. ~EngineRow
  BY DEF EngineRow, Hit
<1>4. ~WsGtt
  BY DEF WsGtt
<1>5. \A t \in Tasks :
        ~(\/ Upserts(t) \/ UpsertsNothing(t) \/ GetTrades(t) \/ NoRule(t)
          \/ ReadSkips(t) \/ ReadRow(t) \/ ReadEntryPrice(t) \/ Book(t)
          \/ TradesFail(t) \/ Raise(t))
  BY DEF Upserts, UpsertsNothing, GetTrades, NoRule, ReadSkips, ReadRow,
         ReadEntryPrice, Book, TradesFail, Raise
<1>6. ~(FillEntry \/ FillExit \/ EndGtt \/ Disconnect \/ EngineLeg \/ EngineLoses)
  BY DEF FillEntry, FillExit, EndGtt, Disconnect, EngineLeg, EngineLoses
<1>7. ~(WsOrder \/ WsGttUnknown \/ ReconSelects \/ ReconAnswered \/ Crash)
  BY DEF WsOrder, WsGttUnknown, ReconSelects, ReconAnswered, Crash
<1>8. ~ UNCHANGED vars
  BY DEF vars
<1> QED BY <1>2, <1>3, <1>4, <1>5, <1>6, <1>7, <1>8, NextSplit

\* A closed row changes only by a write that rests on a stale view of it.
THEOREM ClosedRowsStayClosed == Spec => ClosedStaysClosed
<1>1. BookedOnce /\ [Next]_vars => [Settled => row' = row \/ raced']_vars
  BY ClosedStep DEF Settled
<1> QED BY <1>1, SignalBookedOnce, PTL DEF Spec, ClosedStaysClosed

\* Whoever was about to book still is, or has booked.
LEMMA BookingKeeps ==
    ASSUME BookedOnce, FinishedIsBooked, UNCHANGED <<row, raced, booked>>, faults' \in Nat,
           faults \in Nat, faults' >= faults,
           faults' > 0 \/ \A t \in Tasks : pc[t] = "book" => pc'[t] = "book"
    PROVE  FinishedIsBooked'
BY DEF FinishedIsBooked

\* A write of an open row with a current view leaves it open, except the last.
LEMMA OpenKeeps ==
    ASSUME BookedOnce, NEW t \in Tasks, TaskWrites(t), pc[t] \in {"entry", "active", "pnl"},
           row'.status = row.status \/ row'.status \notin Hit
    PROVE  FinishedIsBooked'
<1> SUFFICES ASSUME ~raced' PROVE row'.status \notin Hit
  BY DEF FinishedIsBooked
<1>1. ~raced /\ Holds(t)
  BY DEF TaskWrites, Holds
<1> QED BY <1>1 DEF BookedOnce

\* A finished trade is missing from the day's total only after a fault: while none
\* has happened, whoever closed the row has booked it or is about to.
THEOREM FinishedTradesAreBooked == Spec => []FinishedIsBooked
<1>1. Init => FinishedIsBooked
  BY DEF Init, FinishedIsBooked, Hit
<1>2. ASSUME TypeOK, TypeOK', BookedOnce, BookedOnce', FinishedIsBooked, [Next]_vars
      PROVE  FinishedIsBooked'
  <2>0. faults \in Nat /\ faults' \in Nat
    BY <1>2 DEF TypeOK
  <2>1. CASE \/ FillEntry \/ FillExit \/ EndGtt \/ Disconnect \/ EngineLeg
             \/ UNCHANGED vars
    BY <1>2, <2>0, <2>1, BookingKeeps DEF FillEntry, FillExit, EndGtt, Disconnect, EngineLeg,
       vars, work, guard
  <2>2. CASE EngineLoses \/ Crash
    <3>1. faults' = faults + 1 /\ UNCHANGED <<row, raced, booked>>
      BY <2>2 DEF EngineLoses, Crash, Fault, guard
    <3> QED BY <1>2, <2>0, <3>1, BookingKeeps
  <2>3. CASE EngineRow
    <3>1. row'.status \notin Hit
      BY <1>2, <2>3 DEF EngineRow, TypeOK, RowTypeOK, Hit
    <3> QED BY <3>1 DEF FinishedIsBooked
  <2>4. CASE WsGtt
    <3>1. CASE Head(inbox).gtt \in Gone
      <4>1. raced' = (raced \/ row.status \in Hit) /\ row'.status \in {"CANCELLED", "EXPIRED"}
        BY <1>2, <2>4, <3>1 DEF WsGtt, TypeOK, RowTypeOK
      <4> QED BY <4>1 DEF FinishedIsBooked, Hit
    <3>2. CASE Head(inbox).gtt \notin Gone
      <4>1. "ws" \in Tasks /\ pc["ws"] = "idle"
        BY <2>4 DEF WsGtt, WsReady, Tasks
      <4>2. \A t \in Tasks : pc[t] = "book" => pc'[t] = "book"
        BY <1>2, <2>4, <4>1 DEF WsGtt, TypeOK, TaskTypeOK
      <4>3. UNCHANGED <<row, raced, booked, faults>>
        BY <2>4, <3>2 DEF WsGtt, guard
      <4> QED BY <1>2, <2>0, <4>2, <4>3, BookingKeeps
    <3> QED BY <3>1, <3>2
  <2>5. CASE WsOrder \/ WsGttUnknown \/ ReconSelects \/ ReconAnswered
    <3>1. \A t \in Tasks : pc[t] = "book" => pc'[t] = "book"
      BY <1>2, <2>5 DEF WsOrder, WsGttUnknown, ReconSelects, ReconAnswered, WsReady, work,
         TypeOK, TaskTypeOK
    <3>2. UNCHANGED <<row, raced, booked, faults>>
      BY <2>5 DEF WsOrder, WsGttUnknown, ReconSelects, ReconAnswered, guard
    <3> QED BY <1>2, <2>0, <3>1, <3>2, BookingKeeps
  <2>6. ASSUME NEW t \in Tasks,
               \/ Upserts(t) \/ UpsertsNothing(t) \/ GetTrades(t) \/ NoRule(t)
               \/ ReadSkips(t) \/ ReadRow(t) \/ ReadEntryPrice(t)
        PROVE  FinishedIsBooked'
    <3>1. \A u \in Tasks : pc[u] = "book" => pc'[u] = "book"
      <4>1. CASE UpsertsNothing(t) \/ NoRule(t) \/ ReadSkips(t)
        <5>1. pc[t] # "book" /\ \A u \in Tasks \ {t} : pc'[u] = pc[u]
          BY <1>2, <4>1, NextOrderFacts, DropFacts DEF UpsertsNothing, NoRule, ReadSkips
        <5> QED BY <5>1
      <4>2. CASE Upserts(t) \/ GetTrades(t) \/ ReadRow(t) \/ ReadEntryPrice(t)
        <5>1. pc[t] # "book" /\ \A u \in Tasks \ {t} : pc'[u] = pc[u]
          BY <1>2, <4>2 DEF Upserts, GetTrades, ReadRow, ReadEntryPrice, TypeOK, TaskTypeOK
        <5> QED BY <5>1
      <4> QED BY <2>6, <4>1, <4>2
    <3>2. UNCHANGED <<row, raced, booked, faults>>
      BY <2>6 DEF Upserts, UpsertsNothing, GetTrades, NoRule, ReadSkips, ReadRow,
         ReadEntryPrice, guard
    <3> QED BY <1>2, <2>0, <3>1, <3>2, BookingKeeps
  <2>7. ASSUME NEW t \in Tasks, WriteEntry(t) \/ WriteActive(t) \/ WritePnl(t)
        PROVE  FinishedIsBooked'
    <3>1. TaskWrites(t) /\ pc[t] \in {"entry", "active", "pnl"}
      BY <2>7 DEF WriteEntry, WriteActive, WritePnl
    <3>2. row'.status = row.status \/ row'.status \notin Hit
      BY <1>2, <2>7 DEF WriteEntry, WriteActive, WritePnl, TypeOK, RowTypeOK, Hit
    <3> QED BY <1>2, <3>1, <3>2, OpenKeeps
  <2>8. ASSUME NEW t \in Tasks, WriteStatus(t) PROVE FinishedIsBooked'
    <3> SUFFICES ASSUME ~raced', row'.pnl # 0 PROVE pc'[t] = "book"
      BY DEF FinishedIsBooked
    <3>1. ~raced /\ fresh[t] /\ pc[t] = "close"
      BY <2>8 DEF WriteStatus, TaskWrites
    <3>2. row.pnl = Profit(ref[t], price[t])
      BY <1>2, <3>1 DEF BookedOnce, Holds, Consistent
    <3>3. row'.pnl = row.pnl
      BY <1>2, <2>8 DEF WriteStatus, TypeOK, RowTypeOK
    <3>4. pc' = [pc EXCEPT ![t] = "book"]
      BY <2>8, <3>2, <3>3 DEF WriteStatus
    <3> QED BY <1>2, <3>4 DEF TypeOK, TaskTypeOK
  <2>9. ASSUME NEW t \in Tasks, Book(t) PROVE FinishedIsBooked'
    <3>1. booked' # 0
      BY <1>2, <2>9 DEF Book, TypeOK
    <3> QED BY <3>1 DEF FinishedIsBooked
  <2>10. ASSUME NEW t \in Tasks, TradesFail(t) \/ Raise(t) PROVE FinishedIsBooked'
    <3>1. faults' = faults + 1 /\ UNCHANGED <<row, raced, booked>>
      BY <2>10 DEF TradesFail, Raise, Fault, guard
    <3> QED BY <1>2, <2>0, <3>1, BookingKeeps
  <2> QED BY <1>2, <2>1, <2>2, <2>3, <2>4, <2>5, <2>6, <2>7, <2>8, <2>9, <2>10, NextSplit
<1>3. /\ TypeOK /\ TypeOK' /\ BookedOnce /\ BookedOnce' /\ FinishedIsBooked /\ [Next]_vars
      => FinishedIsBooked'
  BY <1>2
<1> QED BY <1>1, <1>3, TypeCorrect, SignalBookedOnce, PTL DEF Spec

-----------------------------------------------------------------------------
(* The life of a trade *)

\* The entry price of an open position stays: whoever goes on with a current view
\* of the row knows it, and an entry is written only where none is, or before the
\* row says that the position is open.
EntryIsKept ==
    /\ row.status = "ACTIVE" => row.entry # None
    /\ \A t \in Tasks :
         /\ pc[t] = "active" => row.entry # None
         /\ Holds(t) /\ pc[t] = "entry" => row.status = "PENDING" \/ row.entry = None
         /\ Holds(t) /\ pc[t] \in {"pnl", "close"} => row.entry \in {None, ref[t]}

\* What is about to be booked is not zero, and what the row says.
GainIsBooked ==
    /\ booked = 0 => day = 0
    /\ \A t \in Tasks : pc[t] = "book" =>
         /\ Profit(ref[t], price[t]) # 0
         /\ raced \/ row.pnl = Profit(ref[t], price[t])

\* A step that leaves the row alone, and brings nobody to a write.
LEMMA EntryUndisturbed ==
    ASSUME EntryIsKept, UNCHANGED row,
           \A u \in Tasks : pc'[u] \in {"entry", "active", "pnl", "close"} =>
             pc'[u] = pc[u] /\ ref'[u] = ref[u] /\ (fresh'[u] => fresh[u])
    PROVE  EntryIsKept'
BY DEF EntryIsKept, Holds

\* A task that returns, gives up or moves between two awaits.
LEMMA EntryMoves ==
    ASSUME EntryIsKept, NEW t \in Tasks, UNCHANGED <<row, fresh>>,
           pc'[t] \in {"idle", "asking", "payload", "trades", "read"},
           \A u \in Tasks \ {t} : pc'[u] = pc[u] /\ ref'[u] = ref[u]
    PROVE  EntryIsKept'
BY EntryUndisturbed

\* A write by t that leaves an entry price: nobody else has a current view then.
LEMMA EntryWritten ==
    ASSUME EntryIsKept, NEW t \in Tasks, TaskWrites(t), row'.entry # None,
           pc'[t] # "entry", pc'[t] \in {"pnl", "close"} => row'.entry = ref'[t]
    PROVE  EntryIsKept'
BY DEF EntryIsKept, Holds, TaskWrites

LEMMA EntryStep ==
    ASSUME TypeOK, PricesAreFills, EntryIsKept, [Next]_vars
    PROVE  EntryIsKept'
<1>f. ASSUME UNCHANGED <<row, pc, ref, fresh>> PROVE EntryIsKept'
  BY <1>f, EntryUndisturbed
<1>p. \A t \in Tasks : /\ pc[t] \in {"pnl", "close"} => ref[t] # None
                       /\ pc[t] \in Working => price[t] # None
  BY DEF PricesAreFills, TaskFilled, FillPrices, Filled, Working
<1>1. CASE FillEntry \/ FillExit \/ EndGtt \/ Disconnect \/ EngineLeg \/ EngineLoses
           \/ WsGttUnknown \/ UNCHANGED vars
  BY <1>1, <1>f DEF FillEntry, FillExit, EndGtt, Disconnect, EngineLeg, EngineLoses,
     WsGttUnknown, vars, work
<1>2. CASE EngineRow
  <2>1. row'.status = "PENDING" /\ row'.entry = row.entry /\ UNCHANGED <<pc, ref, fresh>>
    BY <1>2 DEF EngineRow, work, TypeOK, RowTypeOK
  <2> QED BY <2>1 DEF EntryIsKept, Holds
<1>3. CASE WsOrder
  <2>1. "ws" \in Tasks
    BY DEF Tasks
  <2> QED BY <1>3, <2>1, EntryMoves DEF WsOrder, TypeOK, TaskTypeOK
<1>4. CASE WsGtt
  <2>1. "ws" \in Tasks
    BY DEF Tasks
  <2>2. pc'["ws"] \in {"idle", "payload"} /\ UNCHANGED ref
        /\ \A u \in Tasks \ {"ws"} : pc'[u] = pc[u]
    BY <1>4, <2>1 DEF WsGtt, TypeOK, TaskTypeOK
  <2>3. CASE Head(inbox).gtt \in Gone
    <3> DEFINE s == IF Head(inbox).gtt = "cancelled" THEN "CANCELLED" ELSE "EXPIRED"
    <3>1. s \in {"CANCELLED", "EXPIRED"}
      OBVIOUS
    <3>2. row' = [row EXCEPT !.status = s] /\ \A u \in Tasks : ~fresh'[u]
      BY <1>4, <2>3 DEF WsGtt
    <3> HIDE DEF s
    <3>3. row'.status # "ACTIVE" /\ row'.entry = row.entry
      BY <3>1, <3>2 DEF TypeOK, RowTypeOK
    <3> QED BY <2>2, <3>2, <3>3 DEF EntryIsKept, Holds
  <2>4. CASE Head(inbox).gtt \notin Gone
    BY <1>4, <2>1, <2>2, <2>4, EntryMoves DEF WsGtt
  <2> QED BY <2>3, <2>4
<1>5. CASE ReconSelects \/ ReconAnswered
  <2>1. "recon" \in Tasks
    BY DEF Tasks
  <2> QED BY <1>5, <2>1, EntryMoves DEF ReconSelects, ReconAnswered, TypeOK, TaskTypeOK
<1>6. CASE Crash
  BY <1>6, EntryUndisturbed DEF Crash
<1>7. ASSUME NEW t \in Tasks, Upserts(t) \/ GetTrades(t)
      PROVE  EntryIsKept'
  BY <1>7, EntryMoves DEF Upserts, GetTrades, TypeOK, TaskTypeOK
<1>8. ASSUME NEW t \in Tasks,
             \/ NoRule(t) \/ ReadSkips(t) \/ TradesFail(t) \/ Book(t)
             \/ UpsertsNothing(t) \/ Raise(t)
      PROVE  EntryIsKept'
  <2>1. UNCHANGED <<row, fresh>> /\ (NextOrder(t) \/ Drop(t))
    BY <1>8 DEF NoRule, ReadSkips, TradesFail, Book, UpsertsNothing, Raise
  <2> QED BY <2>1, NextOrderFacts, DropFacts, EntryMoves
<1>9. ASSUME NEW t \in Tasks, ReadRow(t) PROVE EntryIsKept'
  <2>1. /\ pc'[t] = (IF IsEntry(t) THEN "entry" ELSE "price") /\ UNCHANGED row
        /\ ~AlreadyApplied(t)
        /\ \A u \in Tasks \ {t} : pc'[u] = pc[u] /\ ref'[u] = ref[u] /\ fresh'[u] = fresh[u]
    BY <1>9 DEF ReadRow, TypeOK, TaskTypeOK
  <2>2. pc'[t] = "entry" => row.status = "PENDING" \/ row.entry = None
    BY <2>1 DEF IsEntry, AlreadyApplied
  <2>3. pc'[t] \in {"entry", "price"}
    BY <2>1
  <2> QED BY <2>1, <2>2, <2>3 DEF EntryIsKept, Holds
<1>10. ASSUME NEW t \in Tasks, WriteEntry(t) PROVE EntryIsKept'
  <2>1. TaskWrites(t) /\ pc'[t] = "active" /\ row'.entry = price[t]
    BY <1>10 DEF WriteEntry, TypeOK, RowTypeOK, TaskTypeOK
  <2>2. price[t] # None
    BY <1>10, <1>p DEF WriteEntry, Working
  <2> QED BY <2>1, <2>2, EntryWritten
<1>11. ASSUME NEW t \in Tasks, WriteActive(t) PROVE EntryIsKept'
  <2>1. TaskWrites(t) /\ NextOrder(t) /\ row'.entry = row.entry /\ row.entry # None
    BY <1>11 DEF WriteActive, TypeOK, RowTypeOK, EntryIsKept
  <2>2. pc'[t] \in {"idle", "trades"}
    BY <2>1, NextOrderFacts
  <2> QED BY <2>1, <2>2, EntryWritten
<1>12. ASSUME NEW t \in Tasks, ReadEntryPrice(t) PROVE EntryIsKept'
  <2>1. /\ pc'[t] = "pnl" /\ UNCHANGED <<row, fresh>>
        /\ row.entry # None => ref'[t] = row.entry
        /\ \A u \in Tasks \ {t} : pc'[u] = pc[u] /\ ref'[u] = ref[u]
    BY <1>12 DEF ReadEntryPrice, TypeOK, TaskTypeOK
  <2> QED BY <2>1 DEF EntryIsKept, Holds
<1>13. ASSUME NEW t \in Tasks, WritePnl(t) PROVE EntryIsKept'
  <2>1. TaskWrites(t) /\ pc'[t] = "close" /\ row'.entry = ref[t] /\ UNCHANGED ref
    BY <1>13 DEF WritePnl, TypeOK, RowTypeOK, TaskTypeOK
  <2>2. ref[t] # None
    BY <1>13, <1>p DEF WritePnl
  <2> QED BY <2>1, <2>2, EntryWritten
<1>14. ASSUME NEW t \in Tasks, WriteStatus(t) PROVE EntryIsKept'
  <2>1. Outcome(t) \in Hit
    BY DEF Outcome, Hit
  <2>2. /\ TaskWrites(t) /\ row'.entry = row.entry /\ row'.status \in Hit
        /\ \A u \in Tasks \ {t} : pc'[u] = pc[u]
    <3>1. CASE Profit(ref[t], price[t]) # 0
      BY <1>14, <2>1, <3>1 DEF WriteStatus, TypeOK, RowTypeOK, TaskTypeOK
    <3>2. CASE Profit(ref[t], price[t]) = 0
      BY <1>14, <2>1, <3>2, NextOrderFacts DEF WriteStatus, TypeOK, RowTypeOK
    <3> QED BY <3>1, <3>2
  <2>3. pc'[t] \in {"idle", "trades", "book"}
    <3>1. CASE Profit(ref[t], price[t]) # 0
      BY <1>14, <3>1 DEF WriteStatus, TypeOK, TaskTypeOK
    <3>2. CASE Profit(ref[t], price[t]) = 0
      BY <1>14, <3>2, NextOrderFacts DEF WriteStatus
    <3> QED BY <3>1, <3>2
  <2> QED BY <2>2, <2>3 DEF EntryIsKept, Holds, TaskWrites, Hit
<1> QED
  BY NextSplit, <1>1, <1>2, <1>3, <1>4, <1>5, <1>6, <1>7, <1>8, <1>9, <1>10, <1>11,
     <1>12, <1>13, <1>14

\* Who is about to book was so before, or has just closed the row.
LEMMA BookingBegins ==
    ASSUME TypeOK, NEW u \in Tasks, [Next]_vars, pc'[u] = "book"
    PROVE  \/ pc[u] = "book" /\ ref'[u] = ref[u] /\ price'[u] = price[u]
           \/ WriteStatus(u)
<1> DEFINE Same == pc[u] = "book" /\ ref'[u] = ref[u] /\ price'[u] = price[u]
<1>1. CASE FillEntry \/ FillExit \/ EndGtt \/ Disconnect \/ EngineLeg \/ EngineRow
           \/ EngineLoses \/ WsGttUnknown \/ UNCHANGED vars
  BY <1>1 DEF FillEntry, FillExit, EndGtt, Disconnect, EngineLeg, EngineRow, EngineLoses,
     WsGttUnknown, vars, work
<1>2. CASE WsOrder \/ WsGtt \/ ReconSelects \/ ReconAnswered
  <2>1. UNCHANGED <<price, ref>>
        /\ (pc'[u] = pc[u] \/ pc'[u] \in {"idle", "asking", "payload", "trades"})
    BY <1>2 DEF WsOrder, WsGtt, ReconSelects, ReconAnswered, TypeOK, TaskTypeOK
  <2> QED BY <2>1
<1>3. ~Crash
  BY DEF Crash
<1>4. ASSUME NEW t \in Tasks, NextOrder(t) \/ Drop(t) PROVE Same
  BY <1>4, NextOrderFacts, DropFacts
<1>5. ASSUME NEW t \in Tasks,
             \/ UpsertsNothing(t) \/ NoRule(t) \/ ReadSkips(t) \/ WriteActive(t)
             \/ Book(t) \/ TradesFail(t) \/ Raise(t)
      PROVE  Same
  BY <1>4, <1>5 DEF UpsertsNothing, NoRule, ReadSkips, WriteActive, Book, TradesFail, Raise
<1>6. ASSUME NEW t \in Tasks, Upserts(t) \/ GetTrades(t) \/ ReadRow(t) PROVE Same
  <2>1. pc'[t] # "book" /\ \A v \in Tasks \ {t} :
          pc'[v] = pc[v] /\ ref'[v] = ref[v] /\ price'[v] = price[v]
    BY <1>6 DEF Upserts, GetTrades, ReadRow, TypeOK, TaskTypeOK
  <2> QED BY <2>1
<1>7. ASSUME NEW t \in Tasks, WriteEntry(t) \/ ReadEntryPrice(t) \/ WritePnl(t) PROVE Same
  <2>1. pc'[t] # "book" /\ \A v \in Tasks \ {t} :
          pc'[v] = pc[v] /\ ref'[v] = ref[v] /\ price'[v] = price[v]
    BY <1>7 DEF WriteEntry, ReadEntryPrice, WritePnl, TypeOK, TaskTypeOK
  <2> QED BY <2>1
<1>8. ASSUME NEW t \in Tasks, WriteStatus(t), t # u PROVE Same
  <2>1. CASE Profit(ref[t], price[t]) # 0
    BY <1>8, <2>1 DEF WriteStatus, TypeOK, TaskTypeOK
  <2>2. CASE Profit(ref[t], price[t]) = 0
    BY <1>4, <1>8, <2>2 DEF WriteStatus
  <2> QED BY <2>1, <2>2
<1> QED BY NextSplit, <1>1, <1>2, <1>3, <1>5, <1>6, <1>7, <1>8

\* The day's total and its count are Book's alone.
LEMMA TotalIsBooked ==
    ASSUME [Next]_vars
    PROVE  UNCHANGED <<day, booked>> \/ \E t \in Tasks : Book(t)
BY NextSplit DEF FillEntry, FillExit, EndGtt, Disconnect, EngineLeg, EngineRow, EngineLoses,
   WsOrder, WsGtt, WsGttUnknown, ReconSelects, ReconAnswered, Crash, Upserts,
   UpsertsNothing, GetTrades, NoRule, ReadSkips, ReadRow, WriteEntry, WriteActive,
   ReadEntryPrice, WritePnl, WriteStatus, TradesFail, Raise, vars, guard

LEMMA GainStep ==
    ASSUME TypeOK, BookedOnce, GainIsBooked, [Next]_vars, raced => raced'
    PROVE  GainIsBooked'
<1>1. booked' = 0 => day' = 0
  <2>1. CASE UNCHANGED <<day, booked>>
    BY <2>1 DEF GainIsBooked
  <2>2. CASE \E t \in Tasks : Book(t)
    BY <2>2 DEF Book, TypeOK
  <2> QED BY <2>1, <2>2, TotalIsBooked
<1>2. ASSUME NEW u \in Tasks, pc'[u] = "book"
      PROVE  /\ Profit(ref[u], price[u])' # 0
             /\ raced' \/ row'.pnl = Profit(ref[u], price[u])'
  <2>1. CASE pc[u] = "book" /\ ref'[u] = ref[u] /\ price'[u] = price[u]
    <3>1. Profit(ref[u], price[u])' = Profit(ref[u], price[u])
      BY <2>1 DEF Profit
    <3>2. raced' \/ row' = row
      BY <2>1, ClosedStep DEF BookedOnce
    <3> QED BY <2>1, <3>1, <3>2 DEF GainIsBooked
  <2>2. CASE WriteStatus(u)
    <3>1. Profit(ref[u], price[u]) # 0
      <4> SUFFICES ASSUME Profit(ref[u], price[u]) = 0 PROVE FALSE
        OBVIOUS
      <4>1. NextOrder(u)
        BY <2>2 DEF WriteStatus
      <4> QED BY <1>2, <4>1, NextOrderFacts
    <3>2. UNCHANGED <<ref, price>> /\ row'.pnl = row.pnl
      BY <2>2, <3>1 DEF WriteStatus, TypeOK, RowTypeOK
    <3>3. raced' \/ row.pnl = Profit(ref[u], price[u])
      BY <2>2 DEF WriteStatus, TaskWrites, BookedOnce, Holds, Consistent
    <3>4. Profit(ref[u], price[u])' = Profit(ref[u], price[u])
      BY <3>2 DEF Profit
    <3> QED BY <3>1, <3>2, <3>3, <3>4
  <2> QED BY <1>2, <2>1, <2>2, BookingBegins
<1> QED BY <1>1, <1>2 DEF GainIsBooked

\* Torn stays torn, and nobody but the broker changes the fills.
LEMMA RacedStays ==
    ASSUME [Next]_vars
    PROVE  raced => raced'
BY NextSplit DEF FillEntry, FillExit, EndGtt, Disconnect, EngineLeg, EngineRow, EngineLoses,
   WsOrder, WsGtt, WsGttUnknown, ReconSelects, ReconAnswered, Crash, Upserts,
   UpsertsNothing, GetTrades, NoRule, ReadSkips, ReadRow, WriteEntry, WriteActive,
   ReadEntryPrice, WritePnl, WriteStatus, Book, TradesFail, Raise, TaskWrites, vars

LEMMA FillsAreMade ==
    ASSUME [Next]_vars
    PROVE  UNCHANGED fills \/ FillEntry \/ FillExit
BY NextSplit DEF EndGtt, Disconnect, EngineLeg, EngineRow, EngineLoses, WsOrder, WsGtt,
   WsGttUnknown, ReconSelects, ReconAnswered, Crash, Upserts, UpsertsNothing, GetTrades,
   NoRule, ReadSkips, ReadRow, WriteEntry, WriteActive, ReadEntryPrice, WritePnl,
   WriteStatus, Book, TradesFail, Raise, vars, broker

\* What the life cycle sees is the row, the prices, the total and the tear.
LEMMA LifeUnseen ==
    ASSUME UNCHANGED <<fills, row, day, raced>>
    PROVE  UNCHANGED Life!lifeVars
BY DEF Life!lifeVars, Life!result, FillPrices, Filled, Recorded, Stage

\* Nothing more is claimed of a row that was written from an old view.
LEMMA LifeTorn ==
    ASSUME raced', UNCHANGED <<fills, day>>
    PROVE  Life!Tear
BY DEF Life!Tear, FillPrices, Filled

LEMMA LifeInit == Init => Life!Init
<1> SUFFICES ASSUME Init PROVE Life!Init
  OBVIOUS
<1>1. FillPrices = {}
  BY DEF Init, FillPrices, Filled
<1>2. Stage = "waiting"
  BY DEF Init, Stage, Hit
<1> QED BY <1>1, <1>2 DEF Init, Life!Init, Recorded

\* A fill adds its price.
LEMMA LifeFill ==
    ASSUME TypeOK, PricesAreFills, FillEntry \/ FillExit
    PROVE  Life!Fill
<1> USE PriceAssumption
<1>1. PICK g \in Legs, p \in Nat \ {None} :
        fills[g] = None /\ fills' = [fills EXCEPT ![g] = p]
  <2>1. CASE FillEntry
    <3>1. "ENTRY" \in Legs /\ fills["ENTRY"] = None
      BY <2>1 DEF FillEntry, PricesAreFills, Filled, Legs
    <3>2. Fills["ENTRY"] \subseteq Nat \ {None}
      BY <3>1
    <3> QED BY <2>1, <3>1, <3>2 DEF FillEntry
  <2>2. CASE FillExit
    <3>1. PICK g \in Exits : \E p \in Fills[g] : fills' = [fills EXCEPT ![g] = p]
      BY <2>2 DEF FillExit
    <3>2. g \in Legs /\ fills[g] = None
      BY <2>2, <3>1 DEF FillExit, Filled, Exits, Legs
    <3>3. Fills[g] \subseteq Nat \ {None}
      BY <3>2
    <3> QED BY <3>1, <3>2, <3>3
  <2> QED BY <2>1, <2>2
<1>2. FillPrices' = FillPrices \cup {p}
  <2>1. Filled' = Filled \cup {g} /\ fills'[g] = p /\ \A l \in Filled : fills'[l] = fills[l]
    BY <1>1 DEF TypeOK, Filled, None
  <2> QED BY <2>1 DEF FillPrices
<1>3. UNCHANGED <<row, day, raced>>
  BY DEF FillEntry, FillExit, guard
<1>4. UNCHANGED <<Stage, Recorded(row.entry, {"running", "closed", "ended"}),
                  Recorded(row.exit, {"closed"}), IF Stage = "closed" THEN {row.pnl} ELSE {}>>
  BY <1>3 DEF Stage, Recorded
<1> QED BY <1>2, <1>3, <1>4 DEF Life!Fill, Life!result

\* A write of an open row is a step of the life cycle, or none, if it keeps the
\* entry price of a position and leaves the prices that its status speaks of.
LEMMA LifeWrite ==
    ASSUME TypeOK, TypeOK', RowFilled', row.status \notin Hit,
           UNCHANGED <<fills, day, raced>>,
           row.status = "PENDING" \/ row.entry = None \/ row'.entry = row.entry,
           row.status = "ACTIVE" => row.entry # None,
           row'.status = "PENDING" => row.status = "PENDING",
           row'.status = "ACTIVE" => row'.entry # None,
           row'.status \in Hit =>
             /\ row'.entry # None /\ row'.exit # None
             /\ row'.pnl = Profit(row'.entry, row'.exit)
    PROVE  Life!Next \/ UNCHANGED Life!lifeVars
<1> DEFINE Shown == {"running", "closed", "ended"}
           entry == Recorded(row.entry, Shown)
           exit  == Recorded(row.exit, {"closed"})
           gain  == IF Stage = "closed" THEN {row.pnl} ELSE {}
<1>1. FillPrices' = FillPrices
  BY DEF FillPrices, Filled
<1>0. Stage \in {"waiting", "running", "ended"}
  BY DEF Stage, Hit
<1>2. Stage \in {"waiting", "running", "ended"} /\ exit = {} /\ gain = {}
  BY <1>0 DEF Recorded
<1>3. row'.entry # None => row'.entry \in FillPrices
  BY <1>1 DEF RowFilled
<1>4. ASSUME Stage' \in Shown, row'.entry # None
      PROVE  entry' = {row'.entry} /\ (row.entry # row'.entry => entry = {})
             /\ (row.entry = row'.entry => entry \in {{}, {row'.entry}})
  <2>1. row.status = "PENDING" => Stage = "waiting"
    BY DEF Stage
  <2> QED BY <1>4, <2>1 DEF Recorded
<1>5. CASE row'.status = "PENDING"
  <2>1. Stage = "waiting" /\ Stage' = "waiting"
    BY <1>5 DEF Stage
  <2>2. entry = {} /\ entry' = {} /\ exit' = {} /\ gain' = {}
    BY <2>1 DEF Recorded
  <2> QED BY <1>1, <1>2, <2>1, <2>2 DEF Life!lifeVars, Life!result
<1>6. CASE row'.status = "ACTIVE"
  <2>0. Stage' = "running"
    BY <1>6 DEF Stage, Hit
  <2>1. Stage' = "running" /\ exit' = {} /\ gain' = {}
    BY <2>0 DEF Recorded
  <2>2. entry' = {row'.entry} /\ entry \in {{}, {row'.entry}} /\ row'.entry \in FillPrices
    BY <1>3, <1>4, <1>6, <2>1
  <2>3. CASE row.status = "ACTIVE"
    <3>1. Stage = "running" /\ row'.entry = row.entry
      BY <2>3 DEF Stage
    <3>2. entry = {row.entry}
      BY <2>3, <3>1 DEF Recorded
    <3> QED BY <1>1, <1>2, <2>1, <2>2, <3>1, <3>2 DEF Life!lifeVars, Life!result
  <2>4. CASE row.status # "ACTIVE"
    <3>1. Stage \in {"waiting", "ended"}
      BY <1>2, <2>4 DEF Stage
    <3>2. Life!EntersAt(row'.entry)
      BY <2>2 DEF Life!EntersAt
    <3>3. Life!Run
      BY <1>1, <1>2, <2>1, <2>2, <3>1, <3>2 DEF Life!Run
    <3> QED BY <3>3 DEF Life!Next
  <2> QED BY <2>3, <2>4
<1>7. CASE row'.status \in Hit
  <2>1. Stage' = "closed"
    BY <1>7 DEF Stage, Hit
  <2>2. exit' = {row'.exit} /\ gain' = {row'.pnl} /\ row'.exit \in FillPrices
    BY <1>1, <1>7, <2>1 DEF Recorded, RowFilled
  <2>3. Life!EntersAt(row'.entry) /\ row'.entry \in FillPrices
    BY <1>3, <1>4, <1>7, <2>1 DEF Life!EntersAt
  <2>4. row'.pnl = Life!Difference(row'.entry, row'.exit)
    BY <1>7 DEF Life!Difference, Profit
  <2>5. Life!Close
    BY <1>1, <1>2, <2>1, <2>2, <2>3, <2>4 DEF Life!Close
  <2> QED BY <2>5 DEF Life!Next
<1>8. CASE row'.status \in {"CANCELLED", "EXPIRED"}
  <2>0. Stage' = "ended"
    BY <1>8 DEF Stage, Hit
  <2>1. Stage' = "ended" /\ exit' = {} /\ gain' = {}
    BY <2>0 DEF Recorded
  <2>2. CASE row'.entry = None
    <3>0. row.status = "PENDING" => Stage = "waiting"
      BY DEF Stage
    <3>1. entry' = {} /\ entry = {}
      BY <2>1, <2>2, <3>0 DEF Recorded
    <3>2. Life!End
      BY <1>1, <1>2, <2>1, <3>1 DEF Life!End
    <3> QED BY <3>2 DEF Life!Next
  <2>3. CASE row'.entry # None
    <3>1. Life!EntersAt(row'.entry) /\ row'.entry \in FillPrices
      BY <1>3, <1>4, <2>1, <2>3 DEF Life!EntersAt
    <3>2. Life!End
      BY <1>1, <1>2, <2>1, <3>1 DEF Life!End
    <3> QED BY <3>2 DEF Life!Next
  <2> QED BY <2>2, <2>3
<1> QED BY <1>5, <1>6, <1>7, <1>8 DEF TypeOK, RowTypeOK, Open

\* Who writes the row.
LEMMA RowIsWritten ==
    ASSUME [Next]_vars
    PROVE  UNCHANGED row \/ WsGtt \/ EngineRow
             \/ \E t \in Tasks : WriteEntry(t) \/ WriteActive(t) \/ WritePnl(t) \/ WriteStatus(t)
BY NextSplit DEF FillEntry, FillExit, EndGtt, Disconnect, EngineLeg, EngineLoses, WsOrder,
   WsGttUnknown, ReconSelects, ReconAnswered, Crash, Upserts, UpsertsNothing, GetTrades,
   NoRule, ReadSkips, ReadRow, ReadEntryPrice, Book, TradesFail, Raise, vars

\* Nobody makes a trade wait again but by a write from an old view.
LEMMA WaitsNoMore ==
    ASSUME TypeOK, [Next]_vars, ~raced', row'.status = "PENDING"
    PROVE  row.status = "PENDING"
<1> SUFFICES ASSUME row'.status # row.status PROVE FALSE
  OBVIOUS
<1>1. ASSUME NEW t \in Tasks, WriteEntry(t) \/ WritePnl(t) PROVE FALSE
  BY <1>1 DEF WriteEntry, WritePnl, TypeOK, RowTypeOK
<1>2. ASSUME NEW t \in Tasks, WriteActive(t) \/ WriteStatus(t) PROVE FALSE
  <2>1. Outcome(t) \in Hit
    BY DEF Outcome, Hit
  <2> QED BY <1>2, <2>1 DEF WriteActive, WriteStatus, TypeOK, RowTypeOK, Hit
<1>3. ~EngineRow
  BY DEF EngineRow
<1>4. ~WsGtt
  <2> SUFFICES ASSUME WsGtt PROVE FALSE
    OBVIOUS
  <2> DEFINE s == IF Head(inbox).gtt = "cancelled" THEN "CANCELLED" ELSE "EXPIRED"
  <2>1. s # "PENDING"
    OBVIOUS
  <2>2. row' = row \/ row' = [row EXCEPT !.status = s]
    BY DEF WsGtt
  <2> HIDE DEF s
  <2> QED BY <2>1, <2>2 DEF TypeOK, RowTypeOK
<1>5. UNCHANGED row \/ WsGtt \/ EngineRow
        \/ \E t \in Tasks : WriteEntry(t) \/ WriteActive(t) \/ WritePnl(t) \/ WriteStatus(t)
  BY RowIsWritten
<1> QED BY <1>1, <1>2, <1>3, <1>4, <1>5

\* A price once recorded for a trade that waits no more stays.
LEMMA EntryPriceStays ==
    ASSUME TypeOK, BookedOnce, EntryIsKept, [Next]_vars, ~raced', ~raced, row' # row
    PROVE  row.status = "PENDING" \/ row.entry = None \/ row'.entry = row.entry
<1>1. ASSUME NEW t \in Tasks, WriteActive(t) \/ WriteStatus(t) PROVE row'.entry = row.entry
  BY <1>1 DEF WriteActive, WriteStatus, TypeOK, RowTypeOK
<1>2. ASSUME NEW t \in Tasks, WriteEntry(t) PROVE row.status = "PENDING" \/ row.entry = None
  BY <1>2 DEF WriteEntry, TaskWrites, EntryIsKept, Holds
<1>3. ASSUME NEW t \in Tasks, WritePnl(t) PROVE row.entry = None \/ row'.entry = row.entry
  BY <1>3 DEF WritePnl, TaskWrites, EntryIsKept, Holds, TypeOK, RowTypeOK
<1>4. CASE EngineRow
  BY <1>4 DEF EngineRow
<1>5. CASE WsGtt
  <2> DEFINE s == IF Head(inbox).gtt = "cancelled" THEN "CANCELLED" ELSE "EXPIRED"
  <2>1. row' = row \/ row' = [row EXCEPT !.status = s]
    BY <1>5 DEF WsGtt
  <2> HIDE DEF s
  <2> QED BY <2>1 DEF TypeOK, RowTypeOK
<1> QED BY <1>1, <1>2, <1>3, <1>4, <1>5, RowIsWritten

\* Every step of the tracker is one step of the life cycle, or none.
LEMMA LifeStep ==
    ASSUME TypeOK, TypeOK', PricesAreFills, PricesAreFills', BookedOnce, BookedOnce',
           EntryIsKept, EntryIsKept', GainIsBooked, [Next]_vars
    PROVE  [Life!Next]_(Life!lifeVars)
<1> DEFINE Goal == Life!Next \/ UNCHANGED Life!lifeVars
<1> SUFFICES Goal
  OBVIOUS
<1>1. CASE FillEntry \/ FillExit
  BY <1>1, LifeFill DEF Life!Next
<1>2. ASSUME NEW t \in Tasks, Book(t) PROVE Goal
  <2>1. /\ day' = day + Profit(ref[t], price[t]) /\ pc[t] = "book"
        /\ UNCHANGED <<fills, row, raced>>
    BY <1>2 DEF Book, broker
  <2>2. UNCHANGED <<FillPrices, Stage, Recorded(row.entry, {"running", "closed", "ended"}),
                    Recorded(row.exit, {"closed"}),
                    IF Stage = "closed" THEN {row.pnl} ELSE {}>>
    BY <2>1 DEF FillPrices, Filled, Stage, Recorded
  <2>3. ref[t] \in FillPrices /\ price[t] \in FillPrices
    BY <2>1 DEF PricesAreFills, TaskFilled, Working
  <2>4. CASE raced
    <3>1. Life!Difference(ref[t], price[t]) = Profit(ref[t], price[t])
      BY DEF Life!Difference, Profit
    <3>2. Life!Tear
      BY <2>1, <2>2, <2>3, <2>4, <3>1 DEF Life!Tear
    <3> QED BY <3>2 DEF Life!Next
  <2>5. CASE ~raced
    <3>1. row.status \in Hit /\ day = 0
      BY <2>1, <2>5 DEF BookedOnce, GainIsBooked
    <3>2. row.pnl = Profit(ref[t], price[t]) /\ Profit(ref[t], price[t]) # 0
      BY <2>1, <2>5 DEF GainIsBooked
    <3>3. row.pnl \in Int
      BY DEF TypeOK, RowTypeOK
    <3>4. Stage = "closed"
      BY <3>1 DEF Stage, Hit
    <3>5. day' = row.pnl /\ day' # 0
      BY <2>1, <3>1, <3>2, <3>3
    <3>6. Life!Book
      BY <2>1, <2>2, <3>1, <3>4, <3>5 DEF Life!Book, Life!result
    <3> QED BY <3>6 DEF Life!Next
  <2> QED BY <2>4, <2>5
<1>3. CASE UNCHANGED <<fills, day>>
  <2>1. CASE raced'
    BY <1>3, <2>1, LifeTorn DEF Life!Next
  <2>2. CASE ~raced'
    <3>1. ~raced /\ raced' = raced
      BY <2>2, RacedStays DEF TypeOK
    <3>2. CASE row' = row
      BY <1>3, <3>1, <3>2, LifeUnseen
    <3>3. CASE row' # row
      <4>1. row.status \notin Hit
        BY <2>2, <3>3, ClosedStep
      <4>2. /\ row'.status \in Hit => /\ row'.entry # None /\ row'.exit # None
                                      /\ row'.pnl = Profit(row'.entry, row'.exit)
            /\ row'.status = "ACTIVE" => row'.entry # None
            /\ row.status = "ACTIVE" => row.entry # None
        BY <2>2 DEF BookedOnce, Settled, Consistent, Profit, EntryIsKept
      <4>3. row.status = "PENDING" \/ row.entry = None \/ row'.entry = row.entry
        BY <2>2, <3>1, <3>3, EntryPriceStays
      <4>4. row'.status = "PENDING" => row.status = "PENDING"
        BY <2>2, WaitsNoMore
      <4>5. RowFilled'
        BY DEF PricesAreFills
      <4> QED BY <1>3, <3>1, <4>1, <4>2, <4>3, <4>4, <4>5, LifeWrite
    <3> QED BY <3>2, <3>3
  <2> QED BY <2>1, <2>2 DEF TypeOK
<1> QED
  <2>1. UNCHANGED fills \/ FillEntry \/ FillExit
    BY FillsAreMade
  <2>2. UNCHANGED day \/ \E t \in Tasks : Book(t)
    BY TotalIsBooked
  <2> QED BY <1>1, <1>2, <1>3, <2>1, <2>2

\* The tracker implements the life cycle of a trade, for all prices, tolerances and
\* faults: a trade closes once, at the entry price it ran at and with the difference
\* of two fills, and what it adds to the day's total is what its row says, once.
THEOREM TrackerImplementsLife == Spec => ImplementsTradeLife
<1>1. Init => EntryIsKept /\ GainIsBooked
  BY DEF Init, EntryIsKept, GainIsBooked, Holds, Tasks
<1>2. /\ TypeOK /\ PricesAreFills /\ BookedOnce /\ EntryIsKept /\ GainIsBooked
      /\ [Next]_vars
      => EntryIsKept' /\ GainIsBooked'
  BY EntryStep, GainStep, RacedStays DEF vars
<1>3. /\ TypeOK /\ TypeOK' /\ PricesAreFills /\ PricesAreFills' /\ BookedOnce /\ BookedOnce'
      /\ EntryIsKept /\ EntryIsKept' /\ GainIsBooked /\ [Next]_vars
      => [Life!Next]_(Life!lifeVars)
  BY LifeStep
<1> QED
  BY <1>1, <1>2, <1>3, LifeInit, TypeCorrect, StoredPricesAreFills, SignalBookedOnce, PTL
     DEF Spec, ImplementsTradeLife, Life!Spec

-----------------------------------------------------------------------------
(* What the price monitor may assume of the row *)

\* An update that ends the GTT says what has become of it, and a task that has an
\* order's leg has a row for it, and an entry price before the status it goes with.
RowIsKept ==
    /\ Filled \cap Exits # {} => gtt = "triggered"
    /\ \A i \in 1..Len(inbox) : inbox[i].gtt \in Gone => gtt = inbox[i].gtt
    /\ \A t \in Tasks : /\ pc[t] \in Working => legs # {}
                        /\ pc[t] \in {"active", "close"} => row.entry # None

\* The broker's part of it.
LEMMA EndsAreSent ==
    ASSUME TypeOK, PricesAreFills, RowIsKept,
           \/ FillEntry \/ FillExit \/ EndGtt \/ Disconnect \/ (WsReady /\ UNCHANGED broker)
           \/ UNCHANGED <<broker, inbox>>
           \/ /\ Live /\ gtt' = "cancelled" /\ UNCHANGED fills
              /\ Send(<<[gtt |-> "cancelled", legs |-> {}]>>)
    PROVE  /\ (Filled \cap Exits # {} => gtt = "triggered")'
           /\ (\A i \in 1..Len(inbox) : inbox[i].gtt \in Gone => gtt = inbox[i].gtt)'
<1> DEFINE Told(b, g) == \A i \in 1..Len(b) : b[i].gtt \in Gone => g = b[i].gtt
<1>0. inbox \in Seq(Update) /\ Told(inbox, gtt)
  BY DEF TypeOK, RowIsKept
<1>1. ASSUME NEW us \in Seq(Update), NEW g, Told(us, g), inbox' = inbox \o us,
             Told(inbox, g)
      PROVE  Told(inbox', g)
  <2> SUFFICES ASSUME NEW i \in 1..Len(inbox'), inbox'[i].gtt \in Gone
               PROVE  g = inbox'[i].gtt
    OBVIOUS
  <2>1. Len(inbox') = Len(inbox) + Len(us)
    BY <1>0, <1>1
  <2>2. CASE i <= Len(inbox)
    <3>1. i \in 1..Len(inbox) /\ inbox'[i] = inbox[i]
      BY <1>0, <1>1, <2>1, <2>2
    <3> QED BY <1>1, <3>1
  <2>3. CASE i > Len(inbox)
    <3>1. i - Len(inbox) \in 1..Len(us) /\ inbox'[i] = us[i - Len(inbox)]
      BY <1>0, <1>1, <2>1, <2>3
    <3> QED BY <1>1, <3>1
  <2> QED BY <1>0, <2>1, <2>2, <2>3
<1>2. \A g \in {"pending", "triggered"} : gtt = g => \A i \in 1..Len(inbox) : inbox[i].gtt \notin Gone
  BY <1>0 DEF Gone
<1>3. CASE FillEntry
  <2>1. /\ gtt = "pending" /\ gtt' = "triggered" /\ Filled = {}
    BY <1>3 DEF FillEntry, PricesAreFills
  <2>2. PICK S \in SUBSET Legs :
          inbox' = inbox \o <<OrderUpdate("ENTRY"), [gtt |-> "triggered", legs |-> S]>>
    BY <1>3 DEF FillEntry, Send, Legs
  <2> DEFINE us == <<OrderUpdate("ENTRY"), [gtt |-> "triggered", legs |-> S]>>
  <2>3. us \in Seq(Update) /\ \A i \in 1..Len(us) : us[i].gtt \in {"none", "triggered"}
    BY DEF OrderUpdate, Update, Legs
  <2>4. Told(us, "triggered")
    <3> HIDE DEF us
    <3> QED BY <2>3 DEF Gone
  <2>5. Told(inbox, "triggered")
    BY <1>2, <2>1
  <2>6. Told(inbox', "triggered")
    <3> HIDE DEF us, Told
    <3>1. inbox' = inbox \o us
      BY <2>2 DEF us
    <3> QED BY <1>1, <2>3, <2>4, <2>5, <3>1
  <2> QED BY <2>1, <2>6
<1>4. CASE FillExit
  <2>1. gtt = "triggered" /\ gtt' = "triggered"
    BY <1>4 DEF FillExit
  <2>2. PICK g \in Legs : inbox' = inbox \o <<OrderUpdate(g)>>
    BY <1>4 DEF FillExit, Send, Legs, Exits
  <2> DEFINE us == <<OrderUpdate(g)>>
  <2>3. us \in Seq(Update) /\ \A i \in 1..Len(us) : us[i].gtt = "none"
    BY DEF OrderUpdate, Update
  <2>4. Told(us, gtt)
    <3> HIDE DEF us
    <3> QED BY <2>3 DEF Gone
  <2>5. Told(inbox', gtt)
    <3> HIDE DEF us, Told
    <3>1. inbox' = inbox \o us
      BY <2>2 DEF us
    <3> QED BY <1>0, <1>1, <2>3, <2>4, <3>1
  <2> QED BY <2>1, <2>5
<1>5. CASE \/ EndGtt
           \/ /\ Live /\ gtt' = "cancelled" /\ UNCHANGED fills
              /\ Send(<<[gtt |-> "cancelled", legs |-> {}]>>)
  <2>1. gtt \in {"pending", "triggered"} /\ gtt' \in Gone /\ Filled' = Filled
    BY <1>5 DEF EndGtt, Live, Gone, Filled
  <2>2. PICK S \in SUBSET Legs : inbox' = inbox \o <<[gtt |-> gtt', legs |-> S]>>
    BY <1>5 DEF EndGtt, Send, Legs, Filled
  <2> DEFINE us == <<[gtt |-> gtt', legs |-> S]>>
  <2>3. us \in Seq(Update) /\ \A i \in 1..Len(us) : us[i].gtt = gtt'
    BY <2>1 DEF Update
  <2>4. Told(us, gtt')
    <3> HIDE DEF us
    <3> QED BY <2>3
  <2>5. Told(inbox, gtt')
    BY <1>2, <2>1
  <2>6. Told(inbox', gtt')
    <3> HIDE DEF us, Told
    <3>1. inbox' = inbox \o us
      BY <2>2 DEF us
    <3> QED BY <1>1, <2>3, <2>4, <2>5, <3>1
  <2>7. Filled' \cap Exits = {}
    BY <1>5, <2>1 DEF EndGtt, Live, PricesAreFills, Exits
  <2> QED BY <2>6, <2>7
<1>6. CASE Disconnect
  <2>1. inbox' = <<>> /\ UNCHANGED <<gtt, fills>>
    BY <1>6 DEF Disconnect, broker
  <2> QED BY <2>1 DEF RowIsKept, Filled
<1>7. CASE WsReady /\ UNCHANGED broker
  <2>1. inbox # <<>> /\ inbox' = Tail(inbox) /\ UNCHANGED <<gtt, fills>>
    BY <1>7 DEF WsReady, broker
  <2>2. Len(inbox') = Len(inbox) - 1 /\ \A i \in 1..Len(inbox') : inbox'[i] = inbox[i + 1]
    BY <1>0, <2>1
  <2>3. \A i \in 1..Len(inbox') : i + 1 \in 1..Len(inbox)
    <3>1. Len(inbox) \in Nat
      BY <1>0
    <3> QED BY <2>2, <3>1
  <2> QED BY <2>1, <2>2, <2>3 DEF RowIsKept, Filled
<1>8. CASE UNCHANGED <<broker, inbox>>
  BY <1>8 DEF RowIsKept, Filled, broker
<1> QED BY <1>3, <1>4, <1>5, <1>6, <1>7, <1>8

\* Which steps bring a task to the handling of an order, and to a row's status.
LEMMA WorkBegins ==
    ASSUME TypeOK, NEW u \in Tasks, [Next]_vars
    PROVE  /\ pc'[u] \in Working => pc[u] \in Working \/ GetTrades(u)
           /\ pc'[u] \in {"active", "close"} => pc'[u] = pc[u] \/ WriteEntry(u) \/ WritePnl(u)
<1> DEFINE Goal == /\ pc'[u] \in Working => pc[u] \in Working \/ GetTrades(u)
                   /\ pc'[u] \in {"active", "close"} =>
                        pc'[u] = pc[u] \/ WriteEntry(u) \/ WritePnl(u)
<1> USE DEF Working
<1>1. ASSUME pc'[u] = pc[u] \/ pc'[u] \in {"idle", "asking", "payload", "trades"} PROVE Goal
  BY <1>1
<1>2. CASE FillEntry \/ FillExit \/ EndGtt \/ Disconnect \/ EngineLeg \/ EngineRow
           \/ EngineLoses \/ WsGttUnknown \/ UNCHANGED vars
  BY <1>2, <1>1 DEF FillEntry, FillExit, EndGtt, Disconnect, EngineLeg, EngineRow, EngineLoses,
     WsGttUnknown, vars, work
<1>3. CASE WsOrder \/ WsGtt \/ ReconSelects \/ ReconAnswered
  <2>1. pc'[u] = pc[u] \/ pc'[u] \in {"idle", "asking", "payload", "trades"}
    BY <1>3 DEF WsOrder, WsGtt, ReconSelects, ReconAnswered, TypeOK, TaskTypeOK
  <2> QED BY <1>1, <2>1
<1>4. CASE Crash
  BY <1>1, <1>4 DEF Crash
<1>5. ASSUME NEW t \in Tasks, NextOrder(t) \/ Drop(t) PROVE Goal
  BY <1>1, <1>5, NextOrderFacts, DropFacts
<1>6. ASSUME NEW t \in Tasks,
             \/ UpsertsNothing(t) \/ NoRule(t) \/ ReadSkips(t) \/ WriteActive(t)
             \/ Book(t) \/ TradesFail(t) \/ Raise(t)
      PROVE  Goal
  BY <1>5, <1>6 DEF UpsertsNothing, NoRule, ReadSkips, WriteActive, Book, TradesFail, Raise
<1>7. ASSUME NEW t \in Tasks, Upserts(t) PROVE Goal
  <2>1. pc'[t] \in {"idle", "trades"} /\ \A v \in Tasks \ {t} : pc'[v] = pc[v]
    BY <1>7 DEF Upserts, TypeOK, TaskTypeOK
  <2> QED BY <1>1, <2>1
<1>8. ASSUME NEW t \in Tasks,
             \/ GetTrades(t) \/ ReadRow(t) \/ WriteEntry(t) \/ ReadEntryPrice(t) \/ WritePnl(t)
      PROVE  Goal
  <2>1. \A v \in Tasks \ {t} : pc'[v] = pc[v]
    BY <1>8 DEF GetTrades, ReadRow, WriteEntry, ReadEntryPrice, WritePnl, TypeOK, TaskTypeOK
  <2>2. CASE t # u
    BY <1>1, <2>1, <2>2
  <2>3. CASE GetTrades(u)
    BY <2>3 DEF GetTrades, TypeOK, TaskTypeOK
  <2>4. CASE ReadRow(u)
    <3>1. pc[u] = "read" /\ pc'[u] \in {"entry", "price"}
      BY <2>4 DEF ReadRow, TypeOK, TaskTypeOK
    <3> QED BY <3>1
  <2>5. CASE ReadEntryPrice(u)
    BY <2>5 DEF ReadEntryPrice, TypeOK, TaskTypeOK
  <2>6. CASE WriteEntry(u) \/ WritePnl(u)
    BY <2>6 DEF WriteEntry, WritePnl
  <2> QED BY <1>8, <2>2, <2>3, <2>4, <2>5, <2>6
<1>9. ASSUME NEW t \in Tasks, WriteStatus(t) PROVE Goal
  <2>1. CASE Profit(ref[t], price[t]) # 0
    <3>1. pc' = [pc EXCEPT ![t] = "book"] /\ pc[t] = "close"
      BY <1>9, <2>1 DEF WriteStatus
    <3>2. t = u => pc'[u] = "book" /\ pc[u] = "close"
      BY <3>1 DEF TypeOK, TaskTypeOK
    <3>3. t # u => pc'[u] = pc[u]
      BY <3>1 DEF TypeOK, TaskTypeOK
    <3> QED BY <1>1, <3>2, <3>3
  <2>2. CASE Profit(ref[t], price[t]) = 0
    BY <1>5, <1>9, <2>2 DEF WriteStatus
  <2> QED BY <2>1, <2>2
<1> QED BY NextSplit, <1>2, <1>3, <1>4, <1>6, <1>7, <1>8, <1>9

\* A row once known keeps its rules, and an entry price once written stays one.
LEMMA RowIsKeptNext ==
    ASSUME TypeOK, PricesAreFills, RowIsKept, [Next]_vars
    PROVE  RowIsKept'
<1>1. /\ (Filled \cap Exits # {} => gtt = "triggered")'
      /\ (\A i \in 1..Len(inbox) : inbox[i].gtt \in Gone => gtt = inbox[i].gtt)'
  <2>1. \/ FillEntry \/ FillExit \/ EndGtt \/ Disconnect \/ (WsReady /\ UNCHANGED broker)
        \/ UNCHANGED <<broker, inbox>> \/ Crash
    BY NextSplit DEF EngineLeg, EngineRow, EngineLoses, WsOrder, WsGtt, WsGttUnknown,
       ReconSelects, ReconAnswered, Upserts, UpsertsNothing, GetTrades, NoRule, ReadSkips,
       ReadRow, WriteEntry, WriteActive, ReadEntryPrice, WritePnl, WriteStatus, Book,
       TradesFail, Raise, vars
  <2>2. CASE Crash
    <3>1. inbox' = <<>> /\ UNCHANGED <<gtt, fills>>
      BY <2>2 DEF Crash, broker
    <3> QED BY <3>1 DEF RowIsKept, Filled
  <2>3. CASE ~Crash
    BY <2>1, <2>3, EndsAreSent
  <2> QED BY <2>2, <2>3
<1>2. legs # {} => legs' # {}
  BY NextSplit DEF FillEntry, FillExit, EndGtt, Disconnect, EngineLeg, EngineRow, EngineLoses,
     WsOrder, WsGtt, WsGttUnknown, ReconSelects, ReconAnswered, Crash, Upserts,
     UpsertsNothing, GetTrades, NoRule, ReadSkips, ReadRow, WriteEntry, WriteActive,
     ReadEntryPrice, WritePnl, WriteStatus, Book, TradesFail, Raise, vars, rules, Legs
<1>3. \A t \in Tasks : /\ WriteEntry(t) => row'.entry # None
                       /\ WritePnl(t) => row'.entry # None
  <2>1. \A t \in Tasks : /\ pc[t] = "pnl" => ref[t] # None
                         /\ pc[t] = "entry" => price[t] # None
    BY DEF PricesAreFills, TaskFilled, FillPrices, Filled, Working
  <2>2. ASSUME NEW t \in Tasks, WriteEntry(t) PROVE row'.entry # None
    BY <2>1, <2>2 DEF WriteEntry, TypeOK, RowTypeOK
  <2>3. ASSUME NEW t \in Tasks, WritePnl(t) PROVE row'.entry # None
    BY <2>1, <2>3 DEF WritePnl, TypeOK, RowTypeOK
  <2> QED BY <2>2, <2>3
<1>4. row.entry # None => row'.entry # None
  <2>1. ASSUME NEW t \in Tasks, WriteActive(t) \/ WriteStatus(t) PROVE row'.entry = row.entry
    BY <2>1 DEF WriteActive, WriteStatus, TypeOK, RowTypeOK
  <2>2. CASE EngineRow
    BY <2>2 DEF EngineRow, TypeOK, RowTypeOK
  <2>3. CASE WsGtt
    <3> DEFINE s == IF Head(inbox).gtt = "cancelled" THEN "CANCELLED" ELSE "EXPIRED"
    <3>1. row' = row \/ row' = [row EXCEPT !.status = s]
      BY <2>3 DEF WsGtt
    <3> HIDE DEF s
    <3> QED BY <3>1 DEF TypeOK, RowTypeOK
  <2> QED BY <1>3, <2>1, <2>2, <2>3, RowIsWritten
<1>5. ASSUME NEW t \in Tasks
      PROVE  (/\ pc[t] \in Working => legs # {}
              /\ pc[t] \in {"active", "close"} => row.entry # None)'
  <2>1. GetTrades(t) => legs # {}
    BY DEF GetTrades
  <2> QED BY <1>2, <1>3, <1>4, <2>1, WorkBegins DEF RowIsKept
<1> QED BY <1>1, <1>5 DEF RowIsKept

\* The row as others see it, when only its status changes.
LEMMA SeenSays ==
    ASSUME NEW s, row'.entry = row.entry, ids' = ids,
           s = IF row'.status \in Hit THEN "HIT" ELSE row'.status
    PROVE  SeenRow' = [SeenRow EXCEPT !.status = s]
<1> DEFINE e  == row.entry # None
           s0 == IF row.status \in Hit THEN "HIT" ELSE row.status
<1>1. SeenRow = [status |-> s0, entry |-> e, ids |-> ids]
  BY DEF SeenRow
<1>2. SeenRow' = [status |-> s, entry |-> e, ids |-> ids]
  BY DEF SeenRow
<1> HIDE DEF e, s0
<1> QED BY <1>1, <1>2

\* When it gets an entry price.
LEMMA SeenEnters ==
    ASSUME row'.entry # None, row'.status = row.status, ids' = ids
    PROVE  SeenRow' = [SeenRow EXCEPT !.entry = TRUE]
<1> DEFINE e   == row.entry # None
           yes == row'.entry # None
           s0  == IF row.status \in Hit THEN "HIT" ELSE row.status
<1>1. SeenRow = [status |-> s0, entry |-> e, ids |-> ids]
  BY DEF SeenRow
<1>2. SeenRow' = [status |-> s0, entry |-> yes, ids |-> ids]
  BY DEF SeenRow
<1>3. yes = TRUE
  OBVIOUS
<1>4. SeenRow' = [SeenRow EXCEPT !.entry = yes]
  <2> HIDE DEF e, yes, s0
  <2> QED BY <1>1, <1>2
<1> QED BY <1>3, <1>4

\* When the engine stores the GTT's ids.
LEMMA SeenStored ==
    ASSUME row'.status = "PENDING", row'.entry = row.entry, ids' = TRUE
    PROVE  SeenRow' = [SeenRow EXCEPT !.status = "PENDING", !.ids = TRUE]
<1> DEFINE e  == row.entry # None
           s0 == IF row.status \in Hit THEN "HIT" ELSE row.status
           q  == [SeenRow EXCEPT !.status = "PENDING"]
           i  == TRUE
<1>1. SeenRow = [status |-> s0, entry |-> e, ids |-> ids]
  BY DEF SeenRow
<1>2. SeenRow' = [status |-> "PENDING", entry |-> e, ids |-> i]
  BY DEF SeenRow, Hit
<1>3. q = [status |-> "PENDING", entry |-> e, ids |-> ids]
  <2> HIDE DEF e, s0
  <2> QED BY <1>1
<1>4. SeenRow' = [q EXCEPT !.ids = i]
  <2> HIDE DEF e, q, i
  <2> QED BY <1>2, <1>3
<1> QED BY <1>4

\* A step that leaves the broker, the queue and what is stored of the GTT alone.
LEMMA SeenAlone ==
    /\ UNCHANGED broker => UNCHANGED Seen!broker
    /\ UNCHANGED unwritten => UNCHANGED Seen!writer
    /\ UNCHANGED <<row, ids>> => UNCHANGED SeenRow
BY DEF broker, Seen!broker, Seen!writer, SeenGtt, SeenQueue, SeenRow, Filled

\* The broker ends a GTT of which no exit has filled, whoever asked for it.
LEMMA SeenEnds ==
    ASSUME \/ gtt = "pending" /\ gtt' \in Gone
           \/ gtt \in {"pending", "triggered"} /\ gtt' = "cancelled",
           Filled \cap Exits = {}, UNCHANGED <<fills, unwritten, legs, row, ids>>
    PROVE  Seen!EndGtt
<1>1. Filled' = Filled
  BY DEF Filled
<1>2. SeenGtt = gtt /\ SeenGtt' = gtt'
  BY <1>1 DEF SeenGtt
<1> QED BY <1>1, <1>2, SeenAlone DEF Seen!EndGtt, Seen!Live, Seen!db, Gone

\* Every step of the tracker, the engine's queue and the broker is one of TradeRow's.
LEMMA RowStep ==
    ASSUME TypeOK, PricesAreFills, RowIsKept, [Next]_vars
    PROVE  Seen!RowNext \/ UNCHANGED Seen!rowVars
<1> DEFINE Goal == Seen!RowNext \/ UNCHANGED Seen!rowVars
<1>1. ASSUME UNCHANGED <<broker, unwritten, row, ids>>, (legs # {})' = (legs # {}) PROVE Goal
  BY <1>1, SeenAlone DEF Seen!rowVars, Seen!db
<1>2. CASE Disconnect \/ WsOrder \/ WsGttUnknown \/ ReconSelects \/ ReconAnswered \/ Crash
           \/ UNCHANGED vars
  BY <1>1, <1>2 DEF Disconnect, WsOrder, WsGttUnknown, ReconSelects, ReconAnswered, Crash,
     rules, vars
<1>3. ASSUME NEW t \in Tasks,
             \/ Upserts(t) \/ UpsertsNothing(t) \/ GetTrades(t) \/ NoRule(t) \/ ReadSkips(t)
             \/ ReadRow(t) \/ ReadEntryPrice(t) \/ Book(t) \/ TradesFail(t) \/ Raise(t)
      PROVE  Goal
  BY <1>1, <1>3 DEF Upserts, UpsertsNothing, GetTrades, NoRule, ReadSkips, ReadRow,
     ReadEntryPrice, Book, TradesFail, Raise, rules, Legs
<1>4. CASE FillEntry
  <2>1. /\ gtt = "pending" /\ gtt' = "triggered" /\ Filled = {}
        /\ UNCHANGED <<unwritten, legs, row, ids>>
    BY <1>4 DEF FillEntry, PricesAreFills, rules
  <2>2. PICK p \in Nat \ {None} : fills' = [fills EXCEPT !["ENTRY"] = p]
    BY <1>4, PriceAssumption DEF FillEntry, Legs
  <2>3. Filled' = {"ENTRY"}
    BY <2>1, <2>2 DEF Filled, TypeOK, Legs
  <2>4. SeenGtt = "pending" /\ SeenGtt' = "triggered"
    BY <2>1, <2>3 DEF SeenGtt, Exits
  <2>5. Seen!FillEntry
    BY <2>1, <2>3, <2>4, SeenAlone DEF Seen!FillEntry, Seen!db
  <2> QED BY <2>5 DEF Seen!RowNext, Seen!Others
<1>5. CASE FillExit
  <2>1. /\ gtt = "triggered" /\ gtt' = "triggered" /\ Filled = {"ENTRY"}
        /\ UNCHANGED <<unwritten, legs, row, ids>>
    BY <1>5 DEF FillExit, rules
  <2>2. PICK g \in Exits, p \in Nat \ {None} : fills' = [fills EXCEPT ![g] = p]
    BY <1>5, PriceAssumption DEF FillExit, Legs, Exits
  <2>3. "ENTRY" \in Filled' /\ g \in Filled'
    BY <2>1, <2>2 DEF Filled, TypeOK, Legs, Exits
  <2>4. SeenGtt = "triggered" /\ SeenGtt' = "closed"
    BY <2>1, <2>3 DEF SeenGtt, Exits
  <2>5. Seen!FillExit
    BY <2>1, <2>3, <2>4, SeenAlone DEF Seen!FillExit, Seen!db
  <2> QED BY <2>5 DEF Seen!RowNext, Seen!Others
<1>6. CASE EndGtt
  <2>1. /\ \/ gtt = "pending" /\ gtt' \in Gone
           \/ gtt = "triggered" /\ gtt' = "cancelled"
        /\ Filled \cap Exits = {} /\ UNCHANGED <<fills, unwritten, legs, row, ids>>
    BY <1>6 DEF EndGtt, PricesAreFills, Exits, rules
  <2> QED BY <2>1, SeenEnds DEF Seen!RowNext, Seen!Others
<1>7. CASE EngineLeg
  <2>1. /\ unwritten \cap Legs # {} /\ legs' # {} /\ UNCHANGED <<broker, row, ids>>
        /\ unwritten' = unwritten \ {First(unwritten \cap Legs)}
    BY <1>7 DEF EngineLeg
  <2>2. First(unwritten \cap Legs) \in Legs
    BY FirstIn
  <2>3. SeenQueue' = (IF unwritten' \cap Legs # {} THEN SeenQueue ELSE SeenQueue \ {"legs"})
    BY <2>1, <2>2 DEF SeenQueue, Legs
  <2>4. "legs" \in SeenQueue
    BY <2>1 DEF SeenQueue
  <2>5. Seen!WriteLeg
    BY <2>1, <2>3, <2>4, SeenAlone DEF Seen!WriteLeg
  <2> QED BY <2>5 DEF Seen!RowNext
<1>8. CASE EngineRow
  <2>1. /\ unwritten = {"row"} /\ unwritten' = {} /\ UNCHANGED <<broker, legs>>
        /\ row'.status = "PENDING" /\ row'.entry = row.entry /\ ids' = TRUE
    BY <1>8 DEF EngineRow, rules, TypeOK, RowTypeOK
  <2>2. SeenQueue = {"row"} /\ SeenQueue' = {}
    BY <2>1 DEF SeenQueue, Legs
  <2>3. SeenRow' = [SeenRow EXCEPT !.status = "PENDING", !.ids = TRUE]
    BY <2>1, SeenStored
  <2>4. Seen!WriteRow
    BY <2>1, <2>2, <2>3, SeenAlone DEF Seen!WriteRow
  <2> QED BY <2>4 DEF Seen!RowNext, Seen!Others
<1>9. CASE EngineLoses
  <2>1. unwritten' \subseteq unwritten /\ UNCHANGED <<broker, legs, row, ids>>
    BY <1>9 DEF EngineLoses, rules
  <2>2. SeenQueue' \subseteq SeenQueue
    BY <2>1 DEF SeenQueue
  <2>3. Seen!LoseWrites
    BY <2>1, <2>2, SeenAlone DEF Seen!LoseWrites, Seen!db
  <2> QED BY <2>3 DEF Seen!RowNext, Seen!Others
<1>10. CASE WsGtt
  <2> DEFINE u == Head(inbox)
             s == IF u.gtt = "cancelled" THEN "CANCELLED" ELSE "EXPIRED"
  <2>1. legs # {} /\ UNCHANGED <<broker, unwritten, legs, ids>>
    BY <1>10 DEF WsGtt
  <2>2. CASE u.gtt \in Gone
    <3>1. row' = [row EXCEPT !.status = s]
      BY <1>10, <2>2 DEF WsGtt
    <3>2. s \in {"CANCELLED", "EXPIRED"}
      OBVIOUS
    <3>3. row'.status = s /\ row'.entry = row.entry
      <4> HIDE DEF s
      <4> QED BY <3>1 DEF TypeOK, RowTypeOK
    <3>4. gtt = u.gtt
      <4>1. inbox \in Seq(Update) /\ inbox # <<>>
        BY <1>10 DEF WsGtt, WsReady, TypeOK
      <4>2. 1 \in 1..Len(inbox) /\ u = inbox[1]
        BY <4>1
      <4> QED BY <2>2, <4>2 DEF RowIsKept
    <3>5. SeenGtt = gtt /\ gtt \in Gone
      BY <2>2, <3>4 DEF SeenGtt, RowIsKept, Gone
    <3>6. SeenRow' = [SeenRow EXCEPT !.status = s]
      <4>1. s = IF row'.status \in Hit THEN "HIT" ELSE row'.status
        <5> HIDE DEF s
        <5> QED BY <3>2, <3>3 DEF Hit
      <4> HIDE DEF s
      <4> QED BY <2>1, <3>3, <4>1, SeenSays
    <3>7. Seen!TrackerEnds
      BY <2>1, <3>4, <3>5, <3>6, SeenAlone DEF Seen!TrackerEnds, Seen!Says, Seen!Gone, Gone
    <3> QED BY <3>7 DEF Seen!RowNext, Seen!Others
  <2>3. CASE u.gtt \notin Gone
    <3>1. UNCHANGED row
      BY <1>10, <2>3 DEF WsGtt
    <3> QED BY <1>1, <2>1, <3>1
  <2> QED BY <2>2, <2>3
<1>11. ASSUME NEW t \in Tasks, WriteEntry(t) \/ WriteActive(t) \/ WritePnl(t) \/ WriteStatus(t)
       PROVE  UNCHANGED <<broker, unwritten, legs, ids>> /\ legs # {}
  BY <1>11 DEF WriteEntry, WriteActive, WritePnl, WriteStatus, rules, RowIsKept, Working
<1>12. ASSUME NEW t \in Tasks, WriteEntry(t) \/ WritePnl(t) PROVE Goal
  <2>1. /\ WriteEntry(t) => price[t] \in FillPrices
        /\ WritePnl(t) => ref[t] \in FillPrices
    BY DEF WriteEntry, WritePnl, PricesAreFills, TaskFilled, Working
  <2>7. \A p \in FillPrices : p # None
    BY DEF FillPrices, Filled
  <2>2. row'.status = row.status
    BY <1>12 DEF WriteEntry, WritePnl, TypeOK, RowTypeOK
  <2>3. row'.entry # None
    <3>1. CASE WriteEntry(t)
      BY <2>1, <2>7, <3>1 DEF WriteEntry, TypeOK, RowTypeOK
    <3>2. CASE WritePnl(t)
      BY <2>1, <2>7, <3>2 DEF WritePnl, TypeOK, RowTypeOK
    <3> QED BY <1>12, <3>1, <3>2
  <2>4. Filled # {}
    BY <1>12, <2>1 DEF FillPrices
  <2>5. SeenRow' = [SeenRow EXCEPT !.entry = TRUE]
    BY <1>11, <1>12, <2>2, <2>3, SeenEnters
  <2>6. Seen!TrackerEnters
    BY <1>11, <1>12, <2>4, <2>5, SeenAlone DEF Seen!TrackerEnters
  <2> QED BY <2>6 DEF Seen!RowNext, Seen!Others
<1>13. ASSUME NEW t \in Tasks, WriteActive(t) PROVE Goal
  <2>1. row'.status = "ACTIVE" /\ row'.entry = row.entry /\ row.entry # None
    BY <1>13 DEF WriteActive, RowIsKept, TypeOK, RowTypeOK
  <2>2. SeenRow' = [SeenRow EXCEPT !.status = "ACTIVE"]
    BY <1>11, <1>13, <2>1, SeenSays DEF Hit
  <2>3. Seen!TrackerActivates
    BY <1>11, <1>13, <2>1, <2>2, SeenAlone DEF Seen!TrackerActivates, Seen!Says, SeenRow
  <2> QED BY <2>3 DEF Seen!RowNext, Seen!Others
<1>14. ASSUME NEW t \in Tasks, WriteStatus(t) PROVE Goal
  <2>1. Outcome(t) \in Hit
    BY DEF Outcome, Hit
  <2>2. row'.status \in Hit /\ row'.entry = row.entry /\ row.entry # None
    BY <1>14, <2>1 DEF WriteStatus, RowIsKept, TypeOK, RowTypeOK
  <2>3. SeenRow' = [SeenRow EXCEPT !.status = "HIT"]
    BY <1>11, <1>14, <2>2, SeenSays
  <2>4. Seen!TrackerCloses
    BY <1>11, <1>14, <2>2, <2>3, SeenAlone DEF Seen!TrackerCloses, Seen!Says, SeenRow
  <2> QED BY <2>4 DEF Seen!RowNext, Seen!Others
<1> QED
  BY NextSplit, <1>2, <1>3, <1>4, <1>5, <1>6, <1>7, <1>8, <1>9, <1>10, <1>12, <1>13, <1>14

LEMMA InitKeepsRow == Init => RowIsKept /\ Seen!HandedOver
<1> SUFFICES ASSUME Init PROVE RowIsKept /\ Seen!HandedOver
  OBVIOUS
<1>1. Filled = {} /\ SeenGtt = "pending"
  BY DEF Init, Filled, SeenGtt
<1>2. RowIsKept
  BY <1>1 DEF Init, RowIsKept, Working
<1>3. SeenRow = [status |-> "PENDING", entry |-> FALSE, ids |-> FALSE]
  <2>1. row.status = "PENDING" /\ ~(row.entry # None) /\ ids = FALSE
    BY DEF Init
  <2> QED BY <2>1 DEF SeenRow, Hit
<1>4. SeenQueue = {"legs", "row"} /\ legs = {}
  BY DEF Init, SeenQueue, Legs
<1> QED BY <1>1, <1>2, <1>3, <1>4 DEF Seen!HandedOver

\* The tracker keeps to what the price monitor assumes of it, for all prices,
\* tolerances and faults: reports that come late, twice or never, writes that overlap
\* and crashes between them do not let it say of a row what the GTT does not bear out.
THEOREM TrackerKeepsToRow == Spec => KeepsToTradeRow
<1>1. Init => RowIsKept /\ Seen!HandedOver
  BY InitKeepsRow
<1>2. TypeOK /\ PricesAreFills /\ RowIsKept /\ [Next]_vars => RowIsKept'
  BY RowIsKeptNext
<1>3. TypeOK /\ PricesAreFills /\ RowIsKept /\ [Next]_vars => [Seen!RowNext]_(Seen!rowVars)
  BY RowStep
<1> QED
  BY <1>1, <1>2, <1>3, TypeCorrect, StoredPricesAreFills, PTL DEF Spec, KeepsToTradeRow

-----------------------------------------------------------------------------
(* The requests of ManualActions *)

\* A failed call that leaves no trace but the fault.
Faulted == Fault /\ UNCHANGED <<broker, inbox, Apart>>

\* What a request does to the tracker's state: nothing, what the broker may do by
\* itself, a fault, a cancel that failed, or the mark.
LEMMA RequestEffects ==
    ASSUME NEW r \in Requests, Ask(r) \/ Handler(r)
    PROVE  [Next]_vars \/ Faulted \/ CancelFails(r) \/ Mark(r)
<1>1. CASE Ask(r)
  BY <1>1 DEF Ask, AskCancel, AskExit, AskPosition
<1>2. CASE LookUp(r) \/ Sell(r)
  BY <1>2 DEF LookUp, Sell
<1>3. CASE LookUpFails(r) \/ SellUnanswered(r) \/ SellFails(r) \/ RequestDies(r)
  BY <1>3 DEF LookUpFails, SellUnanswered, SellFails, RequestDies, Faulted
<1>4. CASE CancelGtt(r)
  BY <1>4 DEF CancelGtt, Next
<1>5. CASE CancelFails(r) \/ Mark(r)
  BY <1>5
<1> QED BY <1>1, <1>2, <1>3, <1>4, <1>5 DEF Handler

LEMMA FaultedKeeps ==
    ASSUME TypeOK, PricesAreFills, BookedOnce, Faulted
    PROVE  TypeOK' /\ PricesAreFills' /\ BookedOnce'
<1>1. TypeOK'
  BY DEF Faulted, Fault, Apart, broker, guard, work, TypeOK, RowTypeOK, TaskTypeOK
<1>2. UNCHANGED <<gtt, fills, inbox, row, work>>
  BY DEF Faulted, Apart, broker
<1>3. Filled' = Filled /\ FillPrices' = FillPrices
  BY <1>2 DEF Filled, FillPrices
<1>4. InboxFilled' /\ (gtt' = "pending" => Filled' = {})
  BY <1>2, <1>3 DEF PricesAreFills, InboxFilled
<1>5. PricesAreFills'
  BY <1>2, <1>3, <1>4, GrowKeeps
<1>6. BookedOnce'
  BY QuietStep DEF Faulted, Apart, guard, work, BookedOnce, Holds
<1> QED BY <1>1, <1>5, <1>6

LEMMA CancelFailsKeeps ==
    ASSUME TypeOK, PricesAreFills, BookedOnce, NEW r \in Requests, CancelFails(r)
    PROVE  TypeOK' /\ PricesAreFills' /\ BookedOnce'
<1> DEFINE u == [gtt |-> "cancelled", legs |-> {}]
<1>1. u \in Update /\ <<u>> \in Seq(Update) /\ "cancelled" \in Gone
  BY DEF Update, Gone
<1>2. UNCHANGED <<fills, row, work>>
  BY DEF CancelFails, Apart
<1>3. Filled' = Filled /\ FillPrices' = FillPrices
  BY <1>2 DEF Filled, FillPrices
<1>4. CASE UNCHANGED <<gtt, inbox>>
  BY <1>4, FaultedKeeps DEF CancelFails, Faulted, broker
<1>5. CASE gtt' = "cancelled" /\ Send(<<u>>)
  <2>1. inbox' \in Seq(Update)
    BY <1>1, <1>5 DEF TypeOK, Send
  <2>2. TypeOK'
    BY <1>1, <1>5, <2>1 DEF CancelFails, Fault, Apart, guard, work, TypeOK, RowTypeOK, TaskTypeOK
  <2>3. \A i \in 1..Len(<<u>>) :
          <<u>>[i].legs \subseteq Filled' /\ (<<u>>[i].gtt = "none" => <<u>>[i].legs # {})
    OBVIOUS
  <2>4. InboxFilled'
    <3> HIDE DEF u
    <3> QED BY <1>1, <1>3, <1>5, <2>3, SendKeeps DEF PricesAreFills
  <2>5. PricesAreFills'
    BY <1>2, <1>3, <1>5, <2>4, GrowKeeps
  <2>6. BookedOnce'
    BY QuietStep DEF CancelFails, Apart, guard, work, BookedOnce, Holds
  <2> QED BY <2>2, <2>5, <2>6
<1> QED BY <1>4, <1>5 DEF CancelFails

\* A request with a current view of the row found it open.
Viewed == \A r \in Requests : current[r] => row.status \in Open

LEMMA MarkKeeps ==
    ASSUME TypeOK, PricesAreFills, BookedOnce, Viewed, ManualTypeOK,
           NEW r \in Requests, Mark(r)
    PROVE  TypeOK' /\ PricesAreFills' /\ BookedOnce'
<1>1. row' = [row EXCEPT !.status = "CANCELLED"]
  BY DEF Mark
<1>2. RowTypeOK' /\ row'.status = "CANCELLED" /\ row'.entry = row.entry /\ row'.exit = row.exit
  BY <1>1 DEF TypeOK, RowTypeOK
<1>3. TypeOK'
  BY <1>2 DEF Mark, broker, rules, guard, work, TypeOK, TaskTypeOK
<1>4. UNCHANGED <<gtt, fills, inbox, work>>
  BY DEF Mark, broker
<1>5. Filled' = Filled /\ FillPrices' = FillPrices
  BY <1>4 DEF Filled, FillPrices
<1>6. PricesAreFills'
  BY <1>2, <1>4, <1>5 DEF PricesAreFills, InboxFilled, RowFilled, TaskFilled, work
<1>7. BookedOnce'
  <2> SUFFICES ASSUME ~raced' PROVE BookedOnce'
    BY DEF BookedOnce
  <2>1. ~raced /\ current[r]
    BY DEF Mark
  <2>2. row.status \notin Hit /\ row'.status \notin Hit
    BY <1>2, <2>1 DEF Viewed, Open, Hit
  <2>3. booked <= 1 /\ booked # 1 /\ \A t \in Tasks : pc[t] # "book"
    BY <2>1, <2>2 DEF BookedOnce
  <2>4. UNCHANGED <<booked, pc>> /\ \A t \in Tasks : ~Holds(t)'
    BY DEF Mark, guard, work, Holds
  <2> QED BY <2>2, <2>3, <2>4 DEF BookedOnce
<1> QED BY <1>3, <1>6, <1>7

LEMMA ManualInit == MInit => TypeOK /\ PricesAreFills /\ BookedOnce /\ ManualTypeOK /\ Viewed
<1> SUFFICES ASSUME MInit PROVE TypeOK /\ PricesAreFills /\ BookedOnce /\ ManualTypeOK /\ Viewed
  OBVIOUS
<1>1. TypeOK /\ PricesAreFills /\ BookedOnce
  BY InitType, InitFilled, InitBooked DEF MInit
<1>2. ManualTypeOK /\ Viewed
  BY RequestAssumption DEF MInit, ManualTypeOK, Endpoints, Viewed
<1> QED BY <1>1, <1>2

\* The tracker's invariants hold whatever the requests do.
LEMMA ManualNext ==
    ASSUME TypeOK, PricesAreFills, BookedOnce, ManualTypeOK, Viewed, [MNext]_mvars
    PROVE  TypeOK' /\ PricesAreFills' /\ BookedOnce'
<1>1. ASSUME [Next]_vars PROVE TypeOK' /\ PricesAreFills' /\ BookedOnce'
  <2>1. TypeOK' /\ PricesAreFills'
    BY <1>1, NextType, NextFilled
  <2> QED BY <1>1, <2>1, NextBooked
<1>2. CASE Others \/ UNCHANGED mvars
  BY <1>1, <1>2 DEF Others, Beside, mvars
<1>3. ASSUME NEW r \in Requests, Ask(r) \/ Handler(r)
      PROVE  TypeOK' /\ PricesAreFills' /\ BookedOnce'
  BY <1>1, <1>3, RequestEffects, FaultedKeeps, CancelFailsKeeps, MarkKeeps
<1> QED BY <1>2, <1>3 DEF MNext

\* Which endpoint leads to which step, with how many attempts behind it.
Routed ==
    \A r \in Requests :
      /\ step[r] = "idle" => asked[r] = "none" /\ sends[r] = 0
      /\ step[r] = "lookup" => asked[r] = "exit" /\ sends[r] = 0
      /\ step[r] = "market" => asked[r] \in {"exit", "position"} /\ sends[r] < MaxRetry
      /\ step[r] \in {"cancel", "mark"} => asked[r] \in {"cancel", "exit"}

LEMMA ManualTypes ==
    ASSUME TypeOK, ManualTypeOK, Routed, [MNext]_mvars
    PROVE  ManualTypeOK'
<1> USE RequestAssumption
<1>1. CASE Others \/ UNCHANGED mvars
  BY <1>1 DEF Others, Beside, mvars, request, ManualTypeOK
<1>2. ASSUME NEW r \in Requests, Ask(r) PROVE ManualTypeOK'
  <2>1. Position \in Int /\ ids \in BOOLEAN
    BY DEF Position, Opened, Closed, TypeOK, ManualTypeOK
  <2>2. CASE AskCancel(r) \/ AskExit(r)
    <3>1. /\ step' \in [Requests -> {"idle", "lookup", "market", "cancel", "mark", "done"}]
          /\ UNCHANGED <<qty, sends, errors, out>>
      BY <2>2 DEF AskCancel, AskExit, Goes, ManualTypeOK
    <3>2. asked' \in [Requests -> Endpoints]
      BY <2>2 DEF AskCancel, AskExit, ManualTypeOK, Endpoints
    <3>3. named' \in [Requests -> BOOLEAN] /\ current' \in [Requests -> BOOLEAN]
      BY <2>1, <2>2 DEF AskCancel, AskExit, ManualTypeOK
    <3> QED BY <3>1, <3>2, <3>3 DEF ManualTypeOK
  <2>3. CASE AskPosition(r)
    <3>1. qty' \in [Requests -> Int]
      BY <2>1, <2>3 DEF AskPosition, ManualTypeOK
    <3>2. /\ step' \in [Requests -> {"idle", "lookup", "market", "cancel", "mark", "done"}]
          /\ asked' \in [Requests -> Endpoints]
      BY <2>3 DEF AskPosition, Goes, ManualTypeOK, Endpoints
    <3> QED BY <2>3, <3>1, <3>2 DEF AskPosition, ManualTypeOK
  <2> QED BY <1>2, <2>2, <2>3 DEF Ask
<1>3. ASSUME NEW r \in Requests, LookUp(r) \/ LookUpFails(r) PROVE ManualTypeOK'
  <2>1. Position \in Int
    BY DEF Position, Opened, Closed, ManualTypeOK
  <2>2. PICK n \in Int : qty' = [qty EXCEPT ![r] = n]
    <3>1. CASE LookUpFails(r)
      <4>1. Default \in Int /\ qty' = [qty EXCEPT ![r] = Default]
        BY <3>1 DEF LookUpFails
      <4> QED BY <4>1
    <3>2. CASE LookUp(r)
      <4> DEFINE p == Position
             n == IF p = 0 THEN Default ELSE IF p > 0 THEN p ELSE -p
      <4>1. n \in Int
        <5> HIDE DEF p
        <5> QED BY <2>1 DEF p
      <4> QED BY <3>2, <4>1 DEF LookUp
    <3> QED BY <1>3, <3>1, <3>2
  <2>3. qty' \in [Requests -> Int]
    BY <2>2 DEF ManualTypeOK
  <2>4. step' = [step EXCEPT ![r] = "market"] /\ UNCHANGED <<asked, named, sends, current, out>>
    BY <1>3 DEF LookUp, LookUpFails, Goes
  <2>5. errors' \in [Requests -> BOOLEAN]
    BY <1>3 DEF LookUp, LookUpFails, Notes, ManualTypeOK
  <2> QED BY <2>3, <2>4, <2>5 DEF ManualTypeOK
<1>4. ASSUME NEW r \in Requests, Sell(r) PROVE ManualTypeOK'
  <2>1. qty[r] \in Int /\ sends[r] \in 0 .. MaxRetry /\ sends[r] < MaxRetry
    BY <1>4 DEF Routed, Sell, ManualTypeOK
  <2>2. out' \in Int /\ sends' \in [Requests -> 0 .. MaxRetry]
    BY <1>4, <2>1 DEF Sell, ManualTypeOK
  <2>3. step' \in [Requests -> {"idle", "lookup", "market", "cancel", "mark", "done"}]
    BY <1>4 DEF Sell, Goes, Onward, ManualTypeOK
  <2> QED BY <1>4, <2>2, <2>3 DEF Sell, ManualTypeOK
<1>5. ASSUME NEW r \in Requests, SellUnanswered(r) PROVE ManualTypeOK'
  <2>1. qty[r] \in Int /\ sends[r] \in 0 .. MaxRetry /\ sends[r] < MaxRetry
    BY <1>5 DEF Routed, SellUnanswered, ManualTypeOK
  <2>2. out' \in Int /\ sends' \in [Requests -> 0 .. MaxRetry]
    BY <1>5, <2>1 DEF SellUnanswered, ManualTypeOK
  <2>3. /\ step' \in [Requests -> {"idle", "lookup", "market", "cancel", "mark", "done"}]
        /\ errors' \in [Requests -> BOOLEAN]
    BY <1>5 DEF SellUnanswered, Goes, Notes, ManualTypeOK
  <2> QED BY <1>5, <2>2, <2>3 DEF SellUnanswered, ManualTypeOK
<1>6. ASSUME NEW r \in Requests, SellFails(r) \/ RequestDies(r) PROVE ManualTypeOK'
  BY <1>6 DEF SellFails, RequestDies, Goes, Notes, ManualTypeOK
<1>7. ASSUME NEW r \in Requests, CancelGtt(r) \/ CancelFails(r) PROVE ManualTypeOK'
  BY <1>7 DEF CancelGtt, CancelFails, Goes, Notes, ManualTypeOK
<1>8. ASSUME NEW r \in Requests, Mark(r) PROVE ManualTypeOK'
  BY <1>8 DEF Mark, Goes, ManualTypeOK
<1> QED BY <1>1, <1>2, <1>3, <1>4, <1>5, <1>6, <1>7, <1>8 DEF MNext, Handler

LEMMA RoutesKeep ==
    ASSUME ManualTypeOK, Routed, [MNext]_mvars
    PROVE  Routed'
<1> USE RequestAssumption
<1>1. CASE Others \/ UNCHANGED mvars
  BY <1>1 DEF Others, Beside, mvars, request, Routed
<1>2. ASSUME NEW r \in Requests, Ask(r) PROVE Routed'
  BY <1>2 DEF Ask, AskCancel, AskExit, AskPosition, Goes, ManualTypeOK, Routed
<1>3. ASSUME NEW r \in Requests, LookUp(r) \/ LookUpFails(r) \/ SellFails(r) \/ RequestDies(r)
      PROVE  Routed'
  BY <1>3 DEF LookUp, LookUpFails, SellFails, RequestDies, Goes, Notes, ManualTypeOK, Routed
<1>4. ASSUME NEW r \in Requests, Sell(r) PROVE Routed'
  BY <1>4 DEF Sell, Goes, Onward, ManualTypeOK, Routed
<1>5. ASSUME NEW r \in Requests, SellUnanswered(r) PROVE Routed'
  BY <1>5 DEF SellUnanswered, Goes, Notes, ManualTypeOK, Routed
<1>6. ASSUME NEW r \in Requests, CancelGtt(r) \/ CancelFails(r) \/ Mark(r) PROVE Routed'
  BY <1>6 DEF CancelGtt, CancelFails, Mark, Goes, Notes, ManualTypeOK, Routed
<1> QED BY <1>1, <1>2, <1>3, <1>4, <1>5, <1>6 DEF MNext, Handler

LEMMA ViewsKeep ==
    ASSUME ManualTypeOK, Viewed, [MNext]_mvars
    PROVE  Viewed'
<1>1. CASE Others \/ UNCHANGED mvars
  BY <1>1 DEF Others, Beside, mvars, vars, Viewed
<1>2. ASSUME NEW r \in Requests, Ask(r) PROVE Viewed'
  <2>1. UNCHANGED row
    BY <1>2 DEF Ask, AskCancel, AskExit, AskPosition, vars
  <2>2. \A q \in Requests : current'[q] => current[q] \/ row.status \in Open
    BY <1>2 DEF Ask, AskCancel, AskExit, AskPosition, ManualTypeOK, Open
  <2> QED BY <2>1, <2>2 DEF Viewed
<1>3. ASSUME NEW r \in Requests, Handler(r), ~Mark(r) PROVE Viewed'
  <2>1. UNCHANGED <<row, current>>
    BY <1>3 DEF Handler, LookUp, LookUpFails, Sell, SellUnanswered, SellFails, CancelGtt,
       CancelFails, RequestDies, EndGtt, vars, Apart
  <2> QED BY <2>1 DEF Viewed
<1>4. ASSUME NEW r \in Requests, Mark(r) PROVE Viewed'
  BY <1>4 DEF Mark, Viewed
<1> QED BY <1>1, <1>2, <1>3, <1>4 DEF MNext

ManualCore == /\ TypeOK /\ PricesAreFills /\ BookedOnce
              /\ ManualTypeOK /\ Viewed /\ Routed

\* The tracker's invariants, with the requests as further writers of the row: its
\* type, the origin of its prices, and that a trade is booked once.
THEOREM ManualTypeCorrect == MSafety => []ManualCore
<1>1. MInit => ManualCore
  BY ManualInit, RequestAssumption DEF ManualCore, MInit, Routed
<1>2. ManualCore /\ [MNext]_mvars => ManualCore'
  BY ManualNext, ManualTypes, RoutesKeep, ViewsKeep DEF ManualCore
<1> QED BY <1>1, <1>2, PTL DEF MSafety

\* A signal's P&L is booked at most once also when it is cancelled or exited by
\* hand: a request that has read an open row does not uncover a booked exit, and
\* one whose row has moved on is the stale write that BookedOnce excepts.
THEOREM ManualBookedOnce == MSafety => []BookedOnce
<1>1. ManualCore => BookedOnce
  BY DEF ManualCore
<1> QED BY <1>1, ManualTypeCorrect, PTL

\* The requests leave the entry price and what is about to be booked.
LEMMA RequestKeepsLife ==
    ASSUME TypeOK, EntryIsKept, GainIsBooked, NEW r \in Requests,
           Faulted \/ CancelFails(r) \/ Mark(r)
    PROVE  EntryIsKept' /\ GainIsBooked'
<1>1. CASE Faulted \/ CancelFails(r)
  <2>1. UNCHANGED <<row, work, fresh, raced, guard>>
    BY <1>1 DEF Faulted, CancelFails, Apart
  <2>2. GainIsBooked'
    BY <2>1 DEF GainIsBooked, Profit, work, guard
  <2> QED BY <2>1, <2>2 DEF EntryIsKept, Holds, work
<1>2. CASE Mark(r)
  <2>1. row' = [row EXCEPT !.status = "CANCELLED"]
    BY <1>2 DEF Mark
  <2>2. /\ row'.status = "CANCELLED" /\ row'.entry = row.entry /\ row'.pnl = row.pnl
        /\ UNCHANGED <<work, guard>> /\ (raced => raced') /\ \A t \in Tasks : ~fresh'[t]
    BY <1>2, <2>1 DEF Mark, TypeOK, RowTypeOK
  <2>3. GainIsBooked'
    BY <2>2 DEF GainIsBooked, Profit, work, guard
  <2> QED BY <2>2, <2>3 DEF EntryIsKept, Holds, work
<1> QED BY <1>1, <1>2

\* A mark ends an open trade, or tears the promise.
LEMMA MarkEnds ==
    ASSUME TypeOK, TypeOK', PricesAreFills', EntryIsKept, Viewed,
           NEW r \in Requests, Mark(r)
    PROVE  Life!Next \/ UNCHANGED Life!lifeVars
<1>1. row' = [row EXCEPT !.status = "CANCELLED"] /\ UNCHANGED <<fills, day>>
  BY DEF Mark, broker, guard
<1>2. row'.status = "CANCELLED" /\ row'.entry = row.entry
  BY <1>1 DEF TypeOK, RowTypeOK
<1>3. CASE raced'
  BY <1>1, <1>3, LifeTorn DEF Life!Next
<1>4. CASE ~raced'
  <2>1. current[r] /\ ~raced /\ raced' = raced
    BY <1>4 DEF Mark, TypeOK
  <2>2. row.status \notin Hit /\ row'.status \notin Hit
    BY <1>2, <2>1 DEF Viewed, Open, Hit
  <2>3. RowFilled' /\ (row.status = "ACTIVE" => row.entry # None)
    BY DEF PricesAreFills, EntryIsKept
  <2> QED BY <1>1, <1>2, <2>1, <2>2, <2>3, LifeWrite
<1> QED BY <1>3, <1>4 DEF TypeOK

\* The life cycle of a trade survives the requests: cancels and exits by hand end an
\* open trade or tear the promise, and never add to the day's total.
THEOREM ManualImplementsLife == MSafety => ImplementsTradeLife
<1> DEFINE I == ManualCore /\ EntryIsKept /\ GainIsBooked
<1>1. MInit => I /\ Life!Init
  <2>1. MInit => Init /\ ManualCore
    BY ManualInit, RequestAssumption DEF ManualCore, MInit, Routed
  <2>2. Init => EntryIsKept /\ GainIsBooked
    BY DEF Init, EntryIsKept, GainIsBooked, Holds, Tasks
  <2> QED BY <2>1, <2>2, LifeInit
<1>2. ASSUME ManualCore, ManualCore', EntryIsKept, GainIsBooked, [MNext]_mvars
      PROVE  EntryIsKept' /\ GainIsBooked' /\ [Life!Next]_(Life!lifeVars)
  <2>0. /\ TypeOK /\ PricesAreFills /\ BookedOnce /\ Viewed
        /\ TypeOK' /\ PricesAreFills' /\ BookedOnce'
    BY <1>2 DEF ManualCore
  <2>1. ASSUME [Next]_vars
        PROVE  EntryIsKept' /\ GainIsBooked' /\ [Life!Next]_(Life!lifeVars)
    <3>1. raced => raced'
      BY <2>1, RacedStays
    <3>2. EntryIsKept' /\ GainIsBooked'
      BY <1>2, <2>0, <2>1, <3>1, EntryStep, GainStep
    <3>3. [Life!Next]_(Life!lifeVars)
      BY <1>2, <2>0, <2>1, <3>2, LifeStep
    <3> QED BY <3>2, <3>3
  <2>2. ASSUME NEW r \in Requests, Faulted \/ CancelFails(r) \/ Mark(r)
        PROVE  EntryIsKept' /\ GainIsBooked' /\ [Life!Next]_(Life!lifeVars)
    <3>1. EntryIsKept' /\ GainIsBooked'
      BY <1>2, <2>0, <2>2, RequestKeepsLife
    <3>2. CASE Faulted \/ CancelFails(r)
      <4>1. UNCHANGED <<fills, row, day, raced>>
        BY <3>2 DEF Faulted, CancelFails, Apart, broker, guard
      <4> QED BY <3>1, <4>1, LifeUnseen
    <3>3. CASE Mark(r)
      BY <1>2, <2>0, <3>1, <3>3, MarkEnds
    <3> QED BY <2>2, <3>2, <3>3
  <2>3. CASE Others \/ UNCHANGED mvars
    BY <2>1, <2>3 DEF Others, Beside, mvars
  <2>4. CASE \E r \in Requests : Ask(r) \/ Handler(r)
    BY <2>1, <2>2, <2>4, RequestEffects
  <2> QED BY <1>2, <2>3, <2>4 DEF MNext
<1>3. /\ ManualCore /\ ManualCore' /\ EntryIsKept /\ GainIsBooked /\ [MNext]_mvars
      => EntryIsKept' /\ GainIsBooked' /\ [Life!Next]_(Life!lifeVars)
  BY <1>2
<1> QED
  BY <1>1, <1>3, ManualTypeCorrect, PTL DEF MSafety, ImplementsTradeLife, Life!Spec

\* What a request does to the row is a cancel of the GTT, a mark, or nothing.
LEMMA RequestKeepsRow ==
    ASSUME TypeOK, PricesAreFills, RowIsKept, NEW r \in Requests,
           Faulted \/ CancelFails(r) \/ Mark(r)
    PROVE  RowIsKept' /\ (Seen!RowNext \/ UNCHANGED Seen!rowVars)
<1>1. UNCHANGED <<unwritten, legs, ids, work>>
  BY DEF Faulted, CancelFails, Mark, Apart, rules
<1>2. row'.entry = row.entry
  <2>1. row' = row \/ row' = [row EXCEPT !.status = "CANCELLED"]
    BY DEF Faulted, CancelFails, Mark, Apart
  <2> QED BY <2>1 DEF TypeOK, RowTypeOK
<1>3. \/ UNCHANGED <<broker, inbox>>
      \/ /\ Live /\ gtt' = "cancelled" /\ UNCHANGED fills
         /\ Send(<<[gtt |-> "cancelled", legs |-> {}]>>)
  BY DEF Faulted, CancelFails, Mark, broker
<1>4. RowIsKept'
  BY <1>1, <1>2, <1>3, EndsAreSent DEF RowIsKept, work
<1>5. CASE UNCHANGED <<broker, row>>
  BY <1>1, <1>4, <1>5, SeenAlone DEF Seen!rowVars, Seen!db
<1>6. CASE Live /\ gtt' = "cancelled" /\ UNCHANGED <<fills, row>>
  <2>1. Filled \cap Exits = {} /\ gtt \in {"pending", "triggered"}
    BY <1>6 DEF Live, PricesAreFills, Exits
  <2> QED BY <1>1, <1>4, <1>6, <2>1, SeenEnds DEF Seen!RowNext, Seen!Others
<1>7. CASE Mark(r)
  <2>1. row'.status = "CANCELLED" /\ UNCHANGED broker
    BY <1>7 DEF Mark, TypeOK, RowTypeOK
  <2>2. SeenRow' = [SeenRow EXCEPT !.status = "CANCELLED"]
    BY <1>1, <1>2, <2>1, SeenSays DEF Hit
  <2>3. Seen!MarkedByHand
    BY <1>1, <2>1, <2>2, SeenAlone DEF Seen!MarkedByHand, Seen!Says
  <2> QED BY <1>4, <2>3 DEF Seen!RowNext, Seen!Others
<1>8. CASE Faulted
  BY <1>5, <1>8 DEF Faulted, Apart
<1>9. CASE CancelFails(r)
  BY <1>5, <1>6, <1>9 DEF CancelFails, Apart, broker
<1> QED BY <1>4, <1>7, <1>8, <1>9

\* Requests by hand keep to what the price monitor assumes as well: what they do to
\* a row is to mark it, and to the GTT, to cancel it while it is live.
THEOREM ManualKeepsToRow == MSafety => KeepsToTradeRow
<1>1. MInit => RowIsKept /\ Seen!HandedOver
  BY InitKeepsRow DEF MInit
<1>2. ASSUME ManualCore, RowIsKept, [MNext]_mvars
      PROVE  RowIsKept' /\ [Seen!RowNext]_(Seen!rowVars)
  <2>1. TypeOK /\ PricesAreFills
    BY <1>2 DEF ManualCore
  <2>2. ASSUME [Next]_vars PROVE RowIsKept' /\ [Seen!RowNext]_(Seen!rowVars)
    BY <1>2, <2>1, <2>2, RowIsKeptNext, RowStep
  <2>3. ASSUME NEW r \in Requests, Faulted \/ CancelFails(r) \/ Mark(r)
        PROVE  RowIsKept' /\ [Seen!RowNext]_(Seen!rowVars)
    BY <1>2, <2>1, <2>3, RequestKeepsRow
  <2>4. CASE Others \/ UNCHANGED mvars
    BY <2>2, <2>4 DEF Others, Beside, mvars
  <2>5. CASE \E r \in Requests : Ask(r) \/ Handler(r)
    BY <2>2, <2>3, <2>5, RequestEffects
  <2> QED BY <1>2, <2>4, <2>5 DEF MNext
<1>3. ManualCore /\ RowIsKept /\ [MNext]_mvars => RowIsKept' /\ [Seen!RowNext]_(Seen!rowVars)
  BY <1>2
<1> QED BY <1>1, <1>3, ManualTypeCorrect, PTL DEF MSafety, KeepsToTradeRow

\* A GTT that can trade no more stays so.
LEMMA DeadStays ==
    ASSUME ~Live, [MNext]_mvars
    PROVE  ~Live'
<1>0. UNCHANGED <<gtt, fills>> => ~Live'
  BY DEF Live, Filled
<1>1. ASSUME [Next]_vars PROVE ~Live'
  <2>1. CASE FillEntry \/ FillExit \/ EndGtt
    BY <2>1 DEF FillEntry, FillExit, EndGtt, Live
  <2>2. CASE Disconnect \/ EngineLeg \/ EngineRow \/ EngineLoses
    BY <1>0, <2>2 DEF Disconnect, EngineLeg, EngineRow, EngineLoses, broker
  <2>3. CASE WsOrder \/ WsGtt \/ WsGttUnknown \/ ReconSelects \/ ReconAnswered \/ Crash
    BY <1>0, <2>3 DEF WsOrder, WsGtt, WsGttUnknown, ReconSelects, ReconAnswered, Crash, broker
  <2>4. ASSUME NEW t \in Tasks,
               \/ Upserts(t) \/ UpsertsNothing(t) \/ GetTrades(t) \/ NoRule(t)
               \/ ReadSkips(t) \/ ReadRow(t) \/ WriteEntry(t) \/ WriteActive(t)
               \/ ReadEntryPrice(t) \/ WritePnl(t) \/ WriteStatus(t) \/ Book(t)
               \/ TradesFail(t) \/ Raise(t)
        PROVE  ~Live'
    BY <1>0, <2>4 DEF Upserts, UpsertsNothing, GetTrades, NoRule, ReadSkips, ReadRow,
       WriteEntry, WriteActive, ReadEntryPrice, WritePnl, WriteStatus, Book, TradesFail,
       Raise, broker
  <2>5. CASE UNCHANGED vars
    BY <1>0, <2>5 DEF vars, broker
  <2> QED BY <1>1, <2>1, <2>2, <2>3, <2>4, <2>5, NextSplit
<1>2. CASE Others \/ UNCHANGED mvars
  BY <1>1, <1>2 DEF Others, Beside, mvars
<1>3. ASSUME NEW r \in Requests, Ask(r) \/ Handler(r) PROVE ~Live'
  <2>1. CASE Faulted \/ Mark(r)
    BY <1>0, <2>1 DEF Faulted, Mark, broker
  <2>2. CASE CancelFails(r)
    <3>1. fills' = fills /\ gtt' = gtt
      BY <2>2 DEF CancelFails
    <3> QED BY <1>0, <3>1
  <2> QED BY <1>1, <1>3, <2>1, <2>2, RequestEffects
<1> QED BY <1>2, <1>3 DEF MNext

\* A request that has come to the mark without an error, with the ids at hand.
Cleared(r) == /\ asked[r] \in {"cancel", "exit"}
              /\ step[r] \in {"mark", "done"}
              /\ named[r] /\ ~errors[r]

\* Only the cancel of a GTT that was live, or already dead, brings a request there.
LEMMA ClearedStep ==
    ASSUME ManualTypeOK, Routed, [MNext]_mvars, NEW q \in Requests, Cleared(q)', ~Cleared(q)
    PROVE  ~Live'
<1>1. CASE Others \/ UNCHANGED mvars
  BY <1>1 DEF Others, Beside, mvars, request, Cleared
<1>2. ASSUME NEW r \in Requests, Ask(r) PROVE FALSE
  BY <1>2 DEF Ask, AskCancel, AskExit, AskPosition, Goes, ManualTypeOK, Cleared
<1>3. ASSUME NEW r \in Requests, LookUp(r) \/ LookUpFails(r) \/ SellFails(r) \/ RequestDies(r)
      PROVE  FALSE
  BY <1>3 DEF LookUp, LookUpFails, SellFails, RequestDies, Goes, Notes, ManualTypeOK, Cleared
<1>4. ASSUME NEW r \in Requests, Sell(r) \/ SellUnanswered(r) PROVE FALSE
  BY <1>4 DEF Sell, SellUnanswered, Goes, Notes, Onward, Routed, ManualTypeOK, Cleared
<1>5. ASSUME NEW r \in Requests, CancelFails(r) \/ Mark(r) PROVE FALSE
  BY <1>5 DEF CancelFails, Mark, Goes, Notes, Routed, ManualTypeOK, Cleared
<1>6. ASSUME NEW r \in Requests, CancelGtt(r) PROVE ~Live'
  <2>1. r = q /\ named[r] /\ ~errors'[r]
    BY <1>6 DEF CancelGtt, Goes, ManualTypeOK, Cleared, Notes
  <2>2. CASE Live
    <3>1. gtt' = "cancelled"
      BY <1>6, <2>1, <2>2 DEF CancelGtt
    <3> QED BY <3>1 DEF Live
  <2>3. CASE ~Live
    BY <1>6, <2>1, <2>3 DEF CancelGtt, Notes, ManualTypeOK
  <2> QED BY <2>2, <2>3
<1> QED BY <1>1, <1>2, <1>3, <1>4, <1>5, <1>6 DEF MNext, Handler

\* An answer without errors to a cancel or an exit whose row named its GTT means
\* that no leg of it can trade again.
THEOREM CleanAnswersMeanDead == MSafety => []CleanAnswerMeansDead
<1> DEFINE I == \A r \in Requests : Cleared(r) => ~Live
<1>1. MInit => I
  BY DEF MInit, Cleared
<1>2. ManualCore /\ I /\ [MNext]_mvars => I'
  <2> SUFFICES ASSUME ManualCore, I, [MNext]_mvars, NEW q \in Requests, Cleared(q)'
               PROVE  ~Live'
    OBVIOUS
  <2>1. CASE Cleared(q)
    BY <2>1, DeadStays
  <2>2. CASE ~Cleared(q)
    BY <2>2, ClearedStep DEF ManualCore
  <2> QED BY <2>1, <2>2
<1>3. I => CleanAnswerMeansDead
  BY DEF CleanAnswerMeansDead, Cleared
<1> QED BY <1>1, <1>2, <1>3, ManualTypeCorrect, PTL DEF MSafety

\* No exit leg fills before the entry, and an ACTIVE row has a filled order.
EntryFirst ==
    /\ Filled # {} => "ENTRY" \in Filled
    /\ row.status = "ACTIVE" => Filled # {}

LEMMA TrackerFills ==
    ASSUME TypeOK, PricesAreFills, EntryFirst, [Next]_vars
    PROVE  EntryFirst' /\ Filled \subseteq Filled'
<1> USE PriceAssumption
<1>0. UNCHANGED fills => Filled' = Filled
  BY DEF Filled
<1>1. CASE UNCHANGED <<fills, row>>
  BY <1>0, <1>1 DEF EntryFirst
<1>2. CASE FillEntry
  <2>1. PICK p \in Fills["ENTRY"] : fills' = [fills EXCEPT !["ENTRY"] = p]
    BY <1>2 DEF FillEntry
  <2>2. "ENTRY" \in Filled' /\ Filled \subseteq Filled'
    BY <2>1 DEF TypeOK, Filled, Legs
  <2> QED BY <2>2 DEF EntryFirst
<1>3. CASE FillExit
  <2>1. Filled = {"ENTRY"}
    BY <1>3 DEF FillExit
  <2>2. PICK g \in Exits : \E p \in Fills[g] : fills' = [fills EXCEPT ![g] = p]
    BY <1>3 DEF FillExit
  <2>3. Filled \subseteq Filled'
    BY <2>1, <2>2 DEF TypeOK, Filled, Legs, Exits
  <2> QED BY <2>1, <2>3 DEF EntryFirst
<1>4. ASSUME UNCHANGED fills, row'.status = "ACTIVE" => row.status = "ACTIVE" \/ Filled # {}
      PROVE  EntryFirst' /\ Filled \subseteq Filled'
  BY <1>0, <1>4 DEF EntryFirst
<1>5. CASE EngineRow \/ WsGtt
  <2>1. UNCHANGED fills
    BY <1>5 DEF EngineRow, WsGtt, broker
  <2>2. row'.status = "ACTIVE" => row.status = "ACTIVE"
    BY <1>5 DEF EngineRow, WsGtt, TypeOK, RowTypeOK
  <2> QED BY <1>4, <2>1, <2>2
<1>6. ASSUME NEW t \in Tasks, WriteEntry(t) \/ WritePnl(t) PROVE EntryFirst' /\ Filled \subseteq Filled'
  <2>1. UNCHANGED fills /\ row'.status = row.status
    BY <1>6 DEF WriteEntry, WritePnl, broker, TypeOK, RowTypeOK
  <2> QED BY <1>4, <2>1
<1>7. ASSUME NEW t \in Tasks, WriteActive(t) \/ WriteStatus(t)
      PROVE  EntryFirst' /\ Filled \subseteq Filled'
  <2>1. UNCHANGED fills
    BY <1>7 DEF WriteActive, WriteStatus, broker
  <2>2. todo[t] # {} /\ todo[t] \subseteq Filled
    BY <1>7 DEF WriteActive, WriteStatus, PricesAreFills, TaskFilled, Working
  <2> QED BY <1>4, <2>1, <2>2
<1>8. CASE EndGtt \/ Disconnect \/ EngineLeg \/ EngineLoses
  BY <1>1, <1>8 DEF EndGtt, Disconnect, EngineLeg, EngineLoses, broker
<1>9. CASE WsOrder \/ WsGttUnknown \/ ReconSelects \/ ReconAnswered \/ Crash
  BY <1>1, <1>9 DEF WsOrder, WsGttUnknown, ReconSelects, ReconAnswered, Crash, broker
<1>10. ASSUME NEW t \in Tasks,
              \/ Upserts(t) \/ UpsertsNothing(t) \/ GetTrades(t) \/ NoRule(t)
              \/ ReadSkips(t) \/ ReadRow(t) \/ ReadEntryPrice(t) \/ Book(t)
              \/ TradesFail(t) \/ Raise(t)
       PROVE  EntryFirst' /\ Filled \subseteq Filled'
  BY <1>1, <1>10 DEF Upserts, UpsertsNothing, GetTrades, NoRule, ReadSkips, ReadRow,
     ReadEntryPrice, Book, TradesFail, Raise, broker
<1>11. CASE UNCHANGED vars
  BY <1>1, <1>11 DEF vars, broker
<1> QED BY <1>2, <1>3, <1>5, <1>6, <1>7, <1>8, <1>9, <1>10, <1>11, NextSplit

LEMMA ManualFills ==
    ASSUME TypeOK, PricesAreFills, EntryFirst, [MNext]_mvars
    PROVE  EntryFirst' /\ Filled \subseteq Filled'
<1>1. CASE [Next]_vars
  BY <1>1, TrackerFills
<1>2. CASE Others \/ UNCHANGED mvars
  BY <1>1, <1>2 DEF Others, Beside, mvars
<1>3. ASSUME NEW r \in Requests, Ask(r) \/ Handler(r)
      PROVE  EntryFirst' /\ Filled \subseteq Filled'
  <2>1. CASE Faulted \/ CancelFails(r)
    BY <2>1 DEF Faulted, CancelFails, Apart, broker, EntryFirst, Filled
  <2>2. CASE Mark(r)
    <3>1. UNCHANGED fills /\ row'.status = "CANCELLED"
      BY <2>2 DEF Mark, broker, TypeOK, RowTypeOK
    <3> QED BY <3>1 DEF EntryFirst, Filled
  <2> QED BY <1>1, <1>3, <2>1, <2>2, RequestEffects
<1> QED BY <1>2, <1>3 DEF MNext

\* Nobody but r has sent a market order, and no exit leg has filled.
Alone(r) == (\A q \in Requests \ {r} : sends[q] = 0) /\ Closed = 0

\* What an exit knows and has traded as long as it is alone.
SoleExit(r) ==
    asked[r] = "exit" /\ ~errors[r] /\ Alone(r) =>
      /\ Opened = 1
      /\ step[r] # "lookup" => qty[r] = 1
      /\ sends[r] = 0 => out = 0
      /\ sends[r] = 1 => out \in {0, 1}

NoneSent == (\A q \in Requests : sends[q] = 0) => out = 0

Sold == EntryFirst /\ NoneSent /\ \A r \in Requests : SoleExit(r)

\* Steps of the others, and steps of a request that send nothing.
LEMMA UnsentKeeps ==
    ASSUME ManualTypeOK, Sold, EntryFirst', Filled \subseteq Filled', UNCHANGED <<sends, out>>,
           \A r \in Requests :
             asked'[r] = "exit" /\ ~errors'[r] =>
               \/ /\ asked[r] = "exit" /\ ~errors[r] /\ qty'[r] = qty[r]
                  /\ (step'[r] # "lookup" => step[r] # "lookup")
               \/ Alone(r)' => Opened' = 1 /\ step'[r] = "lookup" /\ sends[r] = 0
    PROVE  Sold'
<1>1. NoneSent'
  BY DEF Sold, NoneSent
<1>2. \A r \in Requests : Alone(r)' => Alone(r)
  BY DEF Alone, Closed
<1>3. Opened = 1 => Opened' = 1
  BY DEF Opened
<1>4. ASSUME NEW r \in Requests PROVE SoleExit(r)'
  <2> SUFFICES ASSUME asked'[r] = "exit", ~errors'[r], Alone(r)'
               PROVE  /\ Opened' = 1
                      /\ step'[r] # "lookup" => qty'[r] = 1
                      /\ sends'[r] = 0 => out' = 0
                      /\ sends'[r] = 1 => out' \in {0, 1}
    BY DEF SoleExit
  <2>1. CASE asked[r] = "exit" /\ ~errors[r] /\ qty'[r] = qty[r]
             /\ (step'[r] # "lookup" => step[r] # "lookup")
    <3>1. SoleExit(r) /\ Alone(r)
      BY <1>2 DEF Sold
    <3> QED BY <1>3, <2>1, <3>1 DEF SoleExit
  <2>2. CASE Opened' = 1 /\ step'[r] = "lookup" /\ sends[r] = 0
    <3>1. \A q \in Requests : sends[q] = 0
      BY <2>2 DEF Alone
    <3> QED BY <2>2, <3>1 DEF Sold, NoneSent
  <2> QED BY <2>1, <2>2
<1> QED BY <1>1, <1>4 DEF Sold

\* An exit that is alone sends the position it found, which was what the entry opened.
LEMMA SentKeeps ==
    ASSUME ManualTypeOK, Sold, EntryFirst', Filled \subseteq Filled', NEW r \in Requests,
           sends' = [sends EXCEPT ![r] = @ + 1], out' \in {out, out + qty[r]},
           UNCHANGED <<asked, qty>>, step[r] = "market",
           \A q \in Requests : ~errors'[q] => ~errors[q]
    PROVE  Sold'
<1>1. sends[r] \in Nat /\ sends'[r] = sends[r] + 1 /\ sends'[r] # 0
  BY DEF ManualTypeOK
<1>2. NoneSent'
  BY <1>1 DEF NoneSent
<1>3. Alone(r)' => Alone(r)
  BY DEF Alone, Closed, ManualTypeOK
<1>4. Opened = 1 => Opened' = 1
  BY DEF Opened
<1>5. SoleExit(r)'
  <2> SUFFICES ASSUME asked[r] = "exit", ~errors[r], Alone(r)
               PROVE  /\ Opened' = 1 /\ qty[r] = 1
                      /\ sends'[r] = 1 => out' \in {0, 1}
    BY <1>1, <1>3 DEF SoleExit
  <2>1. Opened = 1 /\ qty[r] = 1 /\ (sends[r] = 0 => out = 0)
    BY DEF Sold, SoleExit
  <2> QED BY <1>1, <1>4, <2>1
<1>6. ASSUME NEW q \in Requests \ {r} PROVE SoleExit(q)'
  <2>1. ~Alone(q)'
    BY <1>1 DEF Alone
  <2> QED BY <2>1 DEF SoleExit
<1>7. ASSUME NEW q \in Requests PROVE SoleExit(q)'
  BY <1>5, <1>6
<1> QED BY <1>2, <1>7 DEF Sold

LEMMA SoldKeeps ==
    ASSUME ManualCore, Sold, [MNext]_mvars
    PROVE  Sold'
<1>0. ManualTypeOK /\ Routed /\ EntryFirst' /\ Filled \subseteq Filled'
  BY ManualFills DEF ManualCore, Sold
<1>1. CASE Others \/ UNCHANGED mvars
  BY <1>0, <1>1, UnsentKeeps DEF Others, Beside, mvars, request
<1>2. ASSUME NEW r \in Requests, AskCancel(r) \/ AskPosition(r) PROVE Sold'
  <2>1. UNCHANGED <<sends, errors, out>>
    BY <1>2 DEF AskCancel, AskPosition
  <2>2. \A q \in Requests : asked'[q] = "exit" =>
          asked[q] = "exit" /\ qty'[q] = qty[q] /\ step'[q] = step[q]
    BY <1>0, <1>2 DEF AskCancel, AskPosition, Goes, ManualTypeOK
  <2> QED BY <1>0, <2>1, <2>2, UnsentKeeps
<1>3. ASSUME NEW r \in Requests, AskExit(r) PROVE Sold'
  <2>1. UNCHANGED <<sends, errors, out, qty, fills>> /\ row.status = "ACTIVE"
    BY <1>3 DEF AskExit, vars, broker
  <2>2. Opened' = 1
    BY <2>1 DEF Sold, EntryFirst, Opened, Filled
  <2>3. step'[r] = "lookup" /\ sends[r] = 0
    BY <1>0, <1>3 DEF AskExit, Goes, ManualTypeOK, Routed
  <2>4. \A q \in Requests \ {r} : asked'[q] = asked[q] /\ step'[q] = step[q]
    BY <1>0, <1>3 DEF AskExit, Goes, ManualTypeOK
  <2> QED BY <1>0, <2>1, <2>2, <2>3, <2>4, UnsentKeeps
<1>4. ASSUME NEW r \in Requests, LookUp(r) PROVE Sold'
  <2>1. UNCHANGED <<asked, sends, errors, out, fills>> /\ sends[r] = 0 /\ asked[r] = "exit"
    BY <1>0, <1>4 DEF LookUp, Routed, vars, broker
  <2>2. \A q \in Requests \ {r} : qty'[q] = qty[q] /\ step'[q] = step[q]
    BY <1>0, <1>4 DEF LookUp, Goes, ManualTypeOK
  <2>3. Opened' = Opened /\ \A q \in Requests : Alone(q)' <=> Alone(q)
    BY <2>1 DEF Opened, Alone, Closed, Filled
  <2>4. ASSUME NEW q \in Requests \ {r} PROVE SoleExit(q)'
    BY <2>1, <2>2, <2>3 DEF Sold, SoleExit
  <2>5. SoleExit(r)'
    <3> SUFFICES ASSUME asked[r] = "exit", ~errors[r], Alone(r) PROVE Opened = 1 /\ out = 0 /\ qty'[r] = 1
      BY <2>1, <2>3 DEF SoleExit
    <3>1. Opened = 1 /\ out = 0 /\ Closed = 0
      BY <2>1 DEF Sold, SoleExit, Alone
    <3>2. Position = 1
      BY <3>1 DEF Position
    <3> QED BY <1>0, <1>4, <3>1, <3>2 DEF LookUp, ManualTypeOK
  <2>6. NoneSent'
    BY <2>1 DEF Sold, NoneSent
  <2>7. ASSUME NEW q \in Requests PROVE SoleExit(q)'
    BY <2>4, <2>5
  <2> QED BY <1>0, <2>6, <2>7 DEF Sold
<1>5. ASSUME NEW r \in Requests, Sell(r) \/ SellUnanswered(r) PROVE Sold'
  <2>1. /\ sends' = [sends EXCEPT ![r] = @ + 1] /\ out' \in {out, out + qty[r]}
        /\ UNCHANGED <<asked, qty>> /\ step[r] = "market"
    BY <1>5 DEF Sell, SellUnanswered
  <2>2. \A q \in Requests : ~errors'[q] => ~errors[q]
    BY <1>0, <1>5 DEF Sell, SellUnanswered, Notes, ManualTypeOK
  <2> QED BY <1>0, <2>1, <2>2, SentKeeps
<1>6. ASSUME NEW r \in Requests, LookUpFails(r) \/ SellFails(r) \/ RequestDies(r) PROVE Sold'
  <2>1. UNCHANGED <<asked, sends, out>>
    BY <1>6 DEF LookUpFails, SellFails, RequestDies
  <2>2. \A q \in Requests : ~errors'[q] => q # r /\ ~errors[q] /\ qty'[q] = qty[q] /\ step'[q] = step[q]
    BY <1>0, <1>6 DEF LookUpFails, SellFails, RequestDies, Notes, Goes, ManualTypeOK
  <2> QED BY <1>0, <2>1, <2>2, UnsentKeeps
<1>7. ASSUME NEW r \in Requests, CancelGtt(r) \/ CancelFails(r) \/ Mark(r) PROVE Sold'
  <2>1. UNCHANGED <<asked, sends, qty, out>>
    BY <1>7 DEF CancelGtt, CancelFails, Mark
  <2>2. \A q \in Requests : ~errors'[q] => ~errors[q]
    BY <1>0, <1>7 DEF CancelGtt, CancelFails, Mark, Notes, ManualTypeOK
  <2>3. \A q \in Requests : step'[q] # "lookup" => step[q] # "lookup"
    BY <1>0, <1>7 DEF CancelGtt, CancelFails, Mark, Goes, ManualTypeOK
  <2> QED BY <1>0, <2>1, <2>2, <2>3, UnsentKeeps
<1> QED BY <1>1, <1>2, <1>3, <1>4, <1>5, <1>6, <1>7 DEF MNext, Ask, Handler

\* An exit whose market order left once, on a position it could look up, does not
\* reverse the position by itself, whatever the tracker and the engine do.
THEOREM SoleExitsNeverReverse == MSafety => []SoleExitNeverReverses
<1>1. MInit => Sold
  BY DEF MInit, Init, Sold, EntryFirst, NoneSent, SoleExit, Filled, None
<1>2. ManualCore /\ Sold /\ [MNext]_mvars => Sold'
  BY SoldKeeps
<1>3. ManualCore /\ Sold => SoleExitNeverReverses
  <2> SUFFICES ASSUME ManualCore, Sold, NEW r \in Requests, asked[r] = "exit", ~errors[r],
                      sends[r] <= 1, \A q \in Requests \ {r} : sends[q] = 0, Closed = 0
               PROVE  Position >= 0
    BY DEF SoleExitNeverReverses
  <2>1. sends[r] \in {0, 1}
    BY DEF ManualCore, ManualTypeOK
  <2>2. Opened = 1 /\ out \in {0, 1}
    BY <2>1 DEF Sold, SoleExit, Alone
  <2> QED BY <2>2 DEF Position
<1> QED BY <1>1, <1>2, <1>3, ManualTypeCorrect, PTL DEF MSafety
=============================================================================
