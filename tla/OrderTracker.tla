---------------------------- MODULE OrderTracker ----------------------------
(***************************************************************************)
(* The v2 order tracker and one signal whose GTT order stands at the       *)
(* broker.  Two asyncio tasks share one handler for a filled order,        *)
(* _process_filled_order: "ws" feeds it the portfolio WebSocket's updates  *)
(* in order, "recon" asks the broker for every open GTT (at startup and    *)
(* every 30 s) and feeds it what the answer shows.  Every await lets the   *)
(* other task run, and each SQL statement commits on its own.              *)
(*                                                                         *)
(* Beside them stand the broker, which fills the entry and then one exit   *)
(* leg and may cancel or expire the GTT, and the trading engine's write    *)
(* queue, which may still hold the leg rows and the row's PENDING update   *)
(* when the first fill arrives.  An order id is the leg it belongs to; a   *)
(* price is a number and None, zero, is no price, as in the code.          *)
(***************************************************************************)
EXTENDS Integers, Sequences

CONSTANTS
    Action,      \* signals.action
    Target,      \* targets_adj[0]
    Stop,        \* stoploss_adj
    Tol,         \* 0.75, the tolerance of a hit
    Fills,       \* Fills[g]: prices at which leg g may fill (volume-weighted)
    MaxFaults    \* bound: exceptions, failed calls and crashes together

None  == 0
Legs  == {"ENTRY", "TARGET", "STOPLOSS"}
Exits == {"TARGET", "STOPLOSS"}
Tasks == {"ws", "recon"}

ASSUME PriceAssumption ==
    /\ Action \in {"BUY", "SELL"}
    /\ Target \in Int /\ Stop \in Int /\ Tol \in Nat
    /\ Fills \in [Legs -> SUBSET (Nat \ {None})]
    /\ MaxFaults \in Nat

VARIABLES
    gtt,         \* the GTT at the broker
    fills,       \* fills[g]: the price leg g was filled at
    inbox,       \* updates on the WebSocket, not yet received
    unwritten,   \* the engine's queued writes for this signal
    legs,        \* legs with a gtt_rules row
    link,        \* link[g]: gtt_rules.order_id of leg g's row
    row,         \* the signal's row: status, entry_price, exit_price, pnl
    ids,         \* signals.gtt_order_ids is set
    pc,          \* where each task stands
    todo,        \* filled orders the task still has to process
    strategy,    \* the leg the order was attributed to
    price,       \* fill_price
    ref,         \* entry_price of the P&L computation
    fresh,       \* history: nobody wrote the row since the task read it
    raced,       \* history: some write rested on a row that had moved on
    day,         \* daily_pnl in Redis
    booked,      \* history: number of amounts this signal added to it
    faults       \* history: number of faults so far

broker == <<gtt, fills>>
rules  == <<legs, link>>
work   == <<pc, todo, strategy, price, ref>>
guard  == <<day, booked>>
vars   == <<broker, inbox, unwritten, rules, row, ids, work, fresh, raced,
            guard, faults>>

Hit    == {"TARGET1_HIT", "STOPLOSS_HIT"}
Open   == {"PENDING", "ACTIVE"}
Gone   == {"cancelled", "expired"}
Steps  == {"idle", "asking", "payload", "trades", "read", "entry", "active",
           "price", "pnl", "close", "book"}
Update == [gtt : {"none", "triggered"} \cup Gone, legs : SUBSET Legs]

RowTypeOK ==
    row \in [status : Open \cup Hit \cup {"CANCELLED", "EXPIRED"},
             entry : Nat, exit : Nat, pnl : Int]

TaskTypeOK ==
    /\ pc \in [Tasks -> Steps]
    /\ todo \in [Tasks -> SUBSET Legs]
    /\ strategy \in [Tasks -> Legs \cup {"none"}]
    /\ price \in [Tasks -> Nat]
    /\ ref \in [Tasks -> Nat]
    /\ fresh \in [Tasks -> BOOLEAN]

TypeOK ==
    /\ gtt \in {"pending", "triggered"} \cup Gone
    /\ fills \in [Legs -> Nat]
    /\ inbox \in Seq(Update)
    /\ unwritten \subseteq Legs \cup {"row"}
    /\ legs \subseteq Legs /\ link \in [Legs -> Legs \cup {"none"}]
    /\ RowTypeOK /\ ids \in BOOLEAN
    /\ TaskTypeOK
    /\ raced \in BOOLEAN
    /\ day \in Int /\ booked \in Nat /\ faults \in Nat

Unlinked == [g \in Legs |-> "none"]

Init ==
    /\ gtt = "pending" /\ fills = [g \in Legs |-> None] /\ inbox = <<>>
    /\ unwritten = Legs \cup {"row"} /\ legs = {} /\ link = Unlinked
    /\ row = [status |-> "PENDING", entry |-> None, exit |-> None, pnl |-> 0]
    /\ ids = FALSE
    /\ pc = [t \in Tasks |-> "idle"] /\ todo = [t \in Tasks |-> {}]
    /\ strategy = [t \in Tasks |-> "none"]
    /\ price = [t \in Tasks |-> None] /\ ref = [t \in Tasks |-> None]
    /\ fresh = [t \in Tasks |-> FALSE] /\ raced = FALSE
    /\ day = 0 /\ booked = 0 /\ faults = 0

-----------------------------------------------------------------------------
(* Helpers *)

Fault == faults < MaxFaults /\ faults' = faults + 1

Filled == {g \in Legs : fills[g] # None}
FillPrices == {fills[g] : g \in Filled}

\* Leg rows in the order of their ids, which is the order of the engine's writes.
First(S) ==
    IF "ENTRY" \in S THEN "ENTRY" ELSE IF "TARGET" \in S THEN "TARGET" ELSE "STOPLOSS"

Distance(p, q) == IF p > q THEN p - q ELSE q - p

TargetHit(p) == IF Action = "BUY" THEN p >= Target - Tol ELSE p <= Target + Tol
StopHit(p)   == IF Action = "BUY" THEN p <= Stop + Tol ELSE p >= Stop - Tol
Profit(e, x) == IF Action = "BUY" THEN x - e ELSE e - x

\* The leg that an order of leg g filled at p is taken for when no row names it:
\* by its direction, and for an exit by the nearer of the stored trigger prices.
DeriveStrategy(g, p) ==
    IF g = "ENTRY" THEN "ENTRY"
    ELSE IF Exits \subseteq legs
         THEN IF Distance(p, Target) <= Distance(p, Stop) THEN "TARGET" ELSE "STOPLOSS"
         ELSE IF "STOPLOSS" \in legs THEN "STOPLOSS" ELSE "TARGET"

\* The row that owns order g: the one that names it, else the derived leg's,
\* else the first row of the GTT.
Owner(g) ==
    IF \E l \in legs : link[l] = g
    THEN CHOOSE l \in legs : link[l] = g
    ELSE IF DeriveStrategy(g, fills[g]) \in legs
         THEN DeriveStrategy(g, fills[g]) ELSE First(legs)

Linked(g) == [link EXCEPT ![Owner(g)] = g]

\* A task that has read the row writes it.
TaskWrites(t) ==
    /\ raced' = (raced \/ ~fresh[t])
    /\ fresh' = [u \in Tasks |-> u = t /\ fresh[t]]

Forget(t) ==
    /\ strategy' = [strategy EXCEPT ![t] = "none"]
    /\ price' = [price EXCEPT ![t] = None]
    /\ ref' = [ref EXCEPT ![t] = None]

\* _process_filled_order returns; a reconciliation goes on with the next order.
NextOrder(t) ==
    /\ todo' = [todo EXCEPT ![t] = @ \ {First(@)}]
    /\ pc' = [pc EXCEPT ![t] = IF todo[t] \ {First(todo[t])} = {} THEN "idle" ELSE "trades"]
    /\ Forget(t)

Drop(t) ==
    /\ todo' = [todo EXCEPT ![t] = {}]
    /\ pc' = [pc EXCEPT ![t] = "idle"]
    /\ Forget(t)

-----------------------------------------------------------------------------
(* The broker (outside the code) *)

\* An update that reports the filled orders S, alone or in the GTT's payload.
Send(us) == inbox' = inbox \o us

OrderUpdate(g) == [gtt |-> "none", legs |-> {g}]

FillEntry ==
    /\ gtt = "pending"
    /\ \E p \in Fills["ENTRY"] : fills' = [fills EXCEPT !["ENTRY"] = p]
    /\ gtt' = "triggered"
    /\ \E S \in {{}, {"ENTRY"}} :
         Send(<<OrderUpdate("ENTRY"), [gtt |-> "triggered", legs |-> S]>>)
    /\ UNCHANGED <<unwritten, rules, row, ids, work, fresh, raced, guard, faults>>

FillExit ==
    /\ gtt = "triggered"
    /\ Filled = {"ENTRY"}
    /\ \E g \in Exits : \E p \in Fills[g] :
         fills' = [fills EXCEPT ![g] = p] /\ Send(<<OrderUpdate(g)>>)
    /\ UNCHANGED <<gtt, unwritten, rules, row, ids, work, fresh, raced, guard, faults>>

EndGtt ==
    /\ \/ gtt = "pending" /\ gtt' \in Gone
       \/ gtt = "triggered" /\ Filled = {"ENTRY"} /\ gtt' = "cancelled"
    /\ \E S \in {{}, Filled} : Send(<<[gtt |-> gtt', legs |-> S]>>)
    /\ UNCHANGED <<fills, unwritten, rules, row, ids, work, fresh, raced, guard, faults>>

\* What is sent while the WebSocket is down is never seen.
Disconnect ==
    /\ inbox # <<>>
    /\ inbox' = <<>>
    /\ UNCHANGED <<broker, unwritten, rules, row, ids, work, fresh, raced, guard, faults>>

-----------------------------------------------------------------------------
(* The trading engine's queue: three leg rows, then the row's ids *)

EngineLeg ==
    /\ unwritten \cap Legs # {}
    /\ LET g == First(unwritten \cap Legs) IN
         /\ unwritten' = unwritten \ {g}
         /\ legs' = legs \cup {g}
         /\ link' = [link EXCEPT ![g] = "none"]
    /\ UNCHANGED <<broker, inbox, row, ids, work, fresh, raced, guard, faults>>

EngineRow ==
    /\ unwritten = {"row"}
    /\ unwritten' = {}
    /\ row' = [row EXCEPT !.status = "PENDING"]
    /\ ids' = TRUE
    /\ raced' = (raced \/ row.status # "PENDING")
    /\ UNCHANGED <<broker, inbox, rules, work, fresh, guard, faults>>

\* A write fails and is logged, an outage takes all of the leg writes, or the
\* engine dies with the rest of its queue.
EngineLoses ==
    /\ unwritten # {} /\ Fault
    /\ \E S \in {{First(unwritten \cap Legs)}, Legs, unwritten} :
         S \cap unwritten # {} /\ unwritten' = unwritten \ S
    /\ UNCHANGED <<broker, inbox, rules, row, ids, work, fresh, raced, guard>>

-----------------------------------------------------------------------------
(* The WebSocket task *)

WsReady == pc["ws"] = "idle" /\ inbox # <<>> /\ inbox' = Tail(inbox)

WsOrder ==
    /\ WsReady
    /\ Head(inbox).gtt = "none"
    /\ LET g == First(Head(inbox).legs) IN
         /\ link' = IF legs = {} THEN link ELSE Linked(g)
         /\ todo' = [todo EXCEPT !["ws"] = {g}]
    /\ pc' = [pc EXCEPT !["ws"] = "trades"]
    /\ UNCHANGED <<broker, unwritten, legs, row, ids, strategy, price, ref,
                   fresh, raced, guard, faults>>

\* Every leg's row is upserted without an order id; a terminal GTT status goes to
\* the signal whatever it says; then the payload is reconciled if it has legs.
WsGtt ==
    /\ WsReady
    /\ LET u == Head(inbox) IN
         /\ u.gtt # "none"
         /\ legs # {}
         /\ link' = Unlinked
         /\ IF u.gtt \in Gone
            THEN /\ row' = [row EXCEPT !.status =
                              IF u.gtt = "cancelled" THEN "CANCELLED" ELSE "EXPIRED"]
                 /\ raced' = (raced \/ row.status \in Hit)
                 /\ fresh' = [t \in Tasks |-> FALSE]
            ELSE UNCHANGED <<row, raced, fresh>>
         /\ todo' = [todo EXCEPT !["ws"] = u.legs]
         /\ pc' = [pc EXCEPT !["ws"] = IF u.legs = {} THEN "idle" ELSE "payload"]
    /\ UNCHANGED <<broker, unwritten, legs, ids, strategy, price, ref, guard, faults>>

\* gtt_rules_not_found: the update is dropped.
WsGttUnknown ==
    /\ WsReady
    /\ Head(inbox).gtt # "none"
    /\ legs = {}
    /\ UNCHANGED <<broker, unwritten, rules, row, ids, work, fresh, raced, guard, faults>>

-----------------------------------------------------------------------------
(* The reconciliation task *)

\* Mutant of ReconSelects: only rows with an open position are reconciled.
ReconSelectsActive ==
    /\ pc["recon"] = "idle"
    /\ ids /\ row.status = "ACTIVE"
    /\ pc' = [pc EXCEPT !["recon"] = "asking"]
    /\ UNCHANGED <<broker, inbox, unwritten, rules, row, ids, todo, strategy, price,
                   ref, fresh, raced, guard, faults>>

\* Mutant of ReconSelects: only rows waiting for an entry are reconciled.
ReconSelectsPending ==
    /\ pc["recon"] = "idle"
    /\ ids /\ row.status = "PENDING"
    /\ pc' = [pc EXCEPT !["recon"] = "asking"]
    /\ UNCHANGED <<broker, inbox, unwritten, rules, row, ids, todo, strategy, price,
                   ref, fresh, raced, guard, faults>>

ReconSelects ==
    /\ pc["recon"] = "idle"
    /\ ids /\ row.status \in Open
    /\ pc' = [pc EXCEPT !["recon"] = "asking"]
    /\ UNCHANGED <<broker, inbox, unwritten, rules, row, ids, todo, strategy, price,
                   ref, fresh, raced, guard, faults>>

ReconAnswered ==
    /\ pc["recon"] = "asking"
    /\ pc' = [pc EXCEPT !["recon"] = "payload"]
    /\ todo' = [todo EXCEPT !["recon"] = Filled]
    /\ UNCHANGED <<broker, inbox, unwritten, rules, row, ids, strategy, price,
                   ref, fresh, raced, guard, faults>>

-----------------------------------------------------------------------------
(* What both tasks do *)

\* _reconcile_gtt_payload: all legs of the payload are upserted, and the rows
\* name the orders they were filled by; without any row nothing happens.
Upserts(t) ==
    /\ pc[t] = "payload"
    /\ legs # {}
    /\ legs' = Legs
    /\ link' = [g \in Legs |-> IF g \in todo[t] THEN g ELSE "none"]
    /\ pc' = [pc EXCEPT ![t] = IF todo[t] = {} THEN "idle" ELSE "trades"]
    /\ UNCHANGED <<broker, inbox, unwritten, row, ids, todo, strategy, price, ref,
                   fresh, raced, guard, faults>>

UpsertsNothing(t) ==
    /\ pc[t] = "payload"
    /\ legs = {}
    /\ Drop(t)
    /\ UNCHANGED <<broker, inbox, unwritten, rules, row, ids, fresh, raced, guard, faults>>

\* The trades of the order are fetched and stored, and its row is resolved.
GetTrades(t) ==
    /\ pc[t] = "trades"
    /\ legs # {}
    /\ LET g == First(todo[t]) IN
         /\ link' = Linked(g)
         /\ strategy' = [strategy EXCEPT ![t] = Owner(g)]
         /\ price' = [price EXCEPT ![t] = fills[g]]
    /\ pc' = [pc EXCEPT ![t] = "read"]
    /\ UNCHANGED <<broker, inbox, unwritten, legs, row, ids, todo, ref, fresh,
                   raced, guard, faults>>

\* gtt_rule_not_found_for_order
NoRule(t) ==
    /\ pc[t] = "trades"
    /\ legs = {}
    /\ NextOrder(t)
    /\ UNCHANGED <<broker, inbox, unwritten, rules, row, ids, fresh, raced, guard, faults>>

\* get_order_trades raises, or has no trades yet.
TradesFail(t) ==
    /\ pc[t] = "trades"
    /\ Fault
    /\ NextOrder(t)
    /\ UNCHANGED <<broker, inbox, unwritten, rules, row, ids, fresh, raced, guard>>

\* Mutant of AlreadyApplied: a replayed entry is not recognized.
AlreadyAppliedExits(t) ==
    strategy[t] \in Exits /\ row.status \in Hit /\ row.exit # None

AlreadyApplied(t) ==
    \/ strategy[t] = "ENTRY" /\ row.status # "PENDING" /\ row.entry # None
    \/ strategy[t] \in Exits /\ row.status \in Hit /\ row.exit # None

IsEntry(t) == strategy[t] = "ENTRY" /\ ~TargetHit(price[t]) /\ ~StopHit(price[t])

ReadSkips(t) ==
    /\ pc[t] = "read"
    /\ AlreadyApplied(t)
    /\ NextOrder(t)
    /\ UNCHANGED <<broker, inbox, unwritten, rules, row, ids, fresh, raced, guard, faults>>

ReadRow(t) ==
    /\ pc[t] = "read"
    /\ ~AlreadyApplied(t)
    /\ pc' = [pc EXCEPT ![t] = IF IsEntry(t) THEN "entry" ELSE "price"]
    /\ ref' = [ref EXCEPT ![t] = row.entry]
    /\ fresh' = [fresh EXCEPT ![t] = TRUE]
    /\ UNCHANGED <<broker, inbox, unwritten, rules, row, ids, todo, strategy, price,
                   raced, guard, faults>>

WriteEntry(t) ==
    /\ pc[t] = "entry"
    /\ row' = [row EXCEPT !.entry = price[t]]
    /\ TaskWrites(t)
    /\ pc' = [pc EXCEPT ![t] = "active"]
    /\ UNCHANGED <<broker, inbox, unwritten, rules, ids, todo, strategy, price, ref,
                   guard, faults>>

WriteActive(t) ==
    /\ pc[t] = "active"
    /\ row' = [row EXCEPT !.status = "ACTIVE"]
    /\ TaskWrites(t)
    /\ NextOrder(t)
    /\ UNCHANGED <<broker, inbox, unwritten, rules, ids, guard, faults>>

\* The entry price is read again; without any the P&L is computed as zero.
ReadEntryPrice(t) ==
    /\ pc[t] = "price"
    /\ ref' = [ref EXCEPT ![t] = IF row.entry # None THEN row.entry
                                 ELSE IF @ # None THEN @ ELSE price[t]]
    /\ pc' = [pc EXCEPT ![t] = "pnl"]
    /\ UNCHANGED <<broker, inbox, unwritten, rules, row, ids, todo, strategy, price,
                   fresh, raced, guard, faults>>

\* Mutant of WritePnl: update_signal_pnl leaves entry_price alone.
WritePnlExitOnly(t) ==
    /\ pc[t] = "pnl"
    /\ row' = [row EXCEPT !.exit = price[t], !.pnl = Profit(ref[t], price[t])]
    /\ TaskWrites(t)
    /\ pc' = [pc EXCEPT ![t] = "close"]
    /\ UNCHANGED <<broker, inbox, unwritten, rules, ids, todo, strategy, price, ref,
                   guard, faults>>

WritePnl(t) ==
    /\ pc[t] = "pnl"
    /\ row' = [row EXCEPT !.entry = ref[t], !.exit = price[t],
                          !.pnl = Profit(ref[t], price[t])]
    /\ TaskWrites(t)
    /\ pc' = [pc EXCEPT ![t] = "close"]
    /\ UNCHANGED <<broker, inbox, unwritten, rules, ids, todo, strategy, price, ref,
                   guard, faults>>

Outcome(t) ==
    IF TargetHit(price[t]) \/ strategy[t] = "TARGET" THEN "TARGET1_HIT" ELSE "STOPLOSS_HIT"

\* Mutant of WriteStatus: only profits are booked.
WriteStatusProfits(t) ==
    /\ pc[t] = "close"
    /\ row' = [row EXCEPT !.status = Outcome(t)]
    /\ TaskWrites(t)
    /\ IF Profit(ref[t], price[t]) > 0
       THEN pc' = [pc EXCEPT ![t] = "book"] /\ UNCHANGED <<todo, strategy, price, ref>>
       ELSE NextOrder(t)
    /\ UNCHANGED <<broker, inbox, unwritten, rules, ids, guard, faults>>

WriteStatus(t) ==
    /\ pc[t] = "close"
    /\ row' = [row EXCEPT !.status = Outcome(t)]
    /\ TaskWrites(t)
    /\ IF Profit(ref[t], price[t]) # 0
       THEN pc' = [pc EXCEPT ![t] = "book"] /\ UNCHANGED <<todo, strategy, price, ref>>
       ELSE NextOrder(t)
    /\ UNCHANGED <<broker, inbox, unwritten, rules, ids, guard, faults>>

\* DailyPnLGuard.record: incrbyfloat on the day's total.
Book(t) ==
    /\ pc[t] = "book"
    /\ day' = day + Profit(ref[t], price[t])
    /\ booked' = booked + 1
    /\ NextOrder(t)
    /\ UNCHANGED <<broker, inbox, unwritten, rules, row, ids, fresh, raced, faults>>

\* Any call or statement may raise: the loop that feeds the task logs and goes on.
Raise(t) ==
    /\ pc[t] # "idle"
    /\ Fault
    /\ Drop(t)
    /\ UNCHANGED <<broker, inbox, unwritten, rules, row, ids, fresh, raced, guard>>

\* The container dies and is started again.
Crash ==
    /\ \E t \in Tasks : pc[t] # "idle"
    /\ Fault
    /\ pc' = [t \in Tasks |-> "idle"] /\ todo' = [t \in Tasks |-> {}]
    /\ strategy' = [t \in Tasks |-> "none"]
    /\ price' = [t \in Tasks |-> None] /\ ref' = [t \in Tasks |-> None]
    /\ inbox' = <<>>
    /\ UNCHANGED <<broker, unwritten, rules, row, ids, fresh, raced, guard>>

-----------------------------------------------------------------------------

Process(t) ==
    \/ Upserts(t) \/ UpsertsNothing(t)
    \/ GetTrades(t) \/ NoRule(t)
    \/ ReadSkips(t) \/ ReadRow(t)
    \/ WriteEntry(t) \/ WriteActive(t)
    \/ ReadEntryPrice(t) \/ WritePnl(t) \/ WriteStatus(t) \/ Book(t)

Ws     == WsOrder \/ WsGtt \/ WsGttUnknown \/ Process("ws")
Recon  == ReconSelects \/ ReconAnswered \/ Process("recon")
Engine == EngineLeg \/ EngineRow
Faults == EngineLoses \/ Crash \/ \E t \in Tasks : TradesFail(t) \/ Raise(t)

Next ==
    \/ FillEntry \/ FillExit \/ EndGtt \/ Disconnect
    \/ Engine \/ Ws \/ Recon \/ Faults

\* The event loop runs both tasks, the engine's writer drains its queue; the
\* broker owes nothing.
Fairness == WF_vars(Ws) /\ WF_vars(Recon) /\ WF_vars(Engine)

Spec == Init /\ [][Next]_vars /\ Fairness
-----------------------------------------------------------------------------
(* Properties *)

Settled == row.status \in Hit /\ row.entry # None /\ row.exit # None

Holds(t) == fresh[t] /\ pc[t] \in {"entry", "active", "price", "pnl", "close"}

Consistent(e, x) == row.entry = e /\ row.exit = x /\ row.pnl = Profit(e, x)

\* The realized P&L of a signal enters the day's total, which blocks trading at
\* +-10% of the capital, at most once unless a write rested on a stale row.  A
\* task about to book has closed the row, and nobody holding a current view of
\* the row can still close it: the checks at main.py:278-286 are what a second
\* report of the same fill runs into, through replays, overlapping tasks, crashes
\* between the commits and lost updates.
BookedOnce ==
    ~raced =>
      /\ booked <= 1
      /\ booked = 1 => row.status \in Hit
      /\ row.status \in Hit => Settled /\ Consistent(row.entry, row.exit)
      /\ \A t \in Tasks :
           /\ pc[t] = "book" =>
                /\ row.status \in Hit /\ booked = 0
                /\ \A u \in Tasks \ {t} : pc[u] # "book"
           /\ Holds(t) => row.status \notin Hit
           /\ Holds(t) /\ pc[t] = "close" => Consistent(ref[t], price[t])

\* A row that says the trade is over tells a consistent story: its prices are fills
\* the broker made and its P&L is their difference.  update_signal_pnl and the
\* status that follows are separate commits, and only a stale write, not a crash
\* or a read between them, leaves a closed row with the parts of two outcomes.
HitTellsTheTruth ==
    ~raced /\ row.status \in Hit =>
      /\ {row.entry, row.exit} \subseteq FillPrices
      /\ row.pnl = Profit(row.entry, row.exit)

\* The other half: a finished trade with a profit or a loss is missing from the
\* day's total only after a fault, as the commits and record() are separate awaits
\* (main.py:320-332) and nothing looks at a closed row again; the order and the
\* number of the reports, and their overlap, do not lose it.
FinishedIsBooked ==
    ~raced /\ row.status \in Hit /\ row.pnl # 0 /\ booked = 0 =>
      faults > 0 \/ \E t \in Tasks : pc[t] = "book"

\* A closed row is not reopened, and its prices not changed, by replays of its own
\* fills: whatever order the two tasks see them in, only a stale write does that.
ClosedStaysClosed == [][Settled => row' = row \/ raced']_vars

\* The row, read as a stage of the trade.
Stage ==
    CASE row.status = "PENDING" -> "waiting"
      [] row.status = "ACTIVE"  -> "running"
      [] row.status \in Hit     -> "closed"
      [] OTHER                  -> "ended"

Recorded(p, stages) == IF Stage \in stages /\ p # None THEN {p} ELSE {}

Life == INSTANCE TradeLife
          WITH prices <- FillPrices, stage <- Stage,
               entry  <- Recorded(row.entry, {"running", "closed", "ended"}),
               exit   <- Recorded(row.exit, {"closed"}),
               gain   <- IF Stage = "closed" THEN {row.pnl} ELSE {},
               total  <- day, torn <- raced

\* The tracker implements the life cycle of a trade: seen from outside, the two
\* commits of an entry are one step, and so are the two of an exit; a trade closes
\* once, at the entry price it was running at and the price of a fill; and what it
\* adds to the day's total is what its row says, once.
ImplementsTradeLife == Life!Spec

\* The row, the GTT and the queue in the terms of TradeRow.
SeenGtt   == IF Filled \cap Exits # {} THEN "closed" ELSE gtt
SeenRow   == [status |-> IF row.status \in Hit THEN "HIT" ELSE row.status,
              entry  |-> row.entry # None, ids |-> ids]
SeenQueue == {q \in {"legs", "row"} :
                IF q = "row" THEN q \in unwritten ELSE unwritten \cap Legs # {}}

Seen == INSTANCE TradeRow
          WITH gtt <- SeenGtt, filled <- Filled # {}, row <- SeenRow,
               known <- legs # {}, engine <- "done", queued <- SeenQueue

\* What others see of the row is what the price monitor's model assumes of the
\* tracker: it writes nothing of a GTT without a gtt_rules row, an entry price only
\* when a leg has filled, a running or finished trade only with an entry price, and
\* CANCELLED or EXPIRED only when the broker has ended the GTT so.
KeepsToTradeRow == Seen!HandedOver /\ [][Seen!RowNext]_(Seen!rowVars)

\* When the entry leg fills, the row of a GTT that the database knows leaves
\* PENDING, though the WebSocket may have lost the update (reconcile_open_gtts).
EntryIsSeen == fills["ENTRY"] # None /\ ids /\ legs # {} ~> row.status # "PENDING"

\* When an exit leg fills, the row is closed and in the end stays closed, also
\* when a late writer reopened it: the reconciliation looks at every open row.
ExitIsSeen ==
    (\E g \in Exits : fills[g] # None) /\ ids /\ legs # {} ~> [](row.status \notin Open)

\* What the code is documented to do, and does not: the P&L of a finished trade
\* is computed from its fills and stored with the signal.
PnlIsStored ==
    row.status \in Hit /\ (\A t \in Tasks : pc[t] = "idle") =>
      \A g \in Exits : fills[g] # None => row.pnl = Profit(fills["ENTRY"], fills[g])
=============================================================================
