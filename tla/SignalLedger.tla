---------------------------- MODULE SignalLedger ----------------------------
(***************************************************************************)
(* One row of the v1 signals table (db.py) and the programs that write it: *)
(* the strategy's metadata thread inserts it, upstox_order_tracker.py      *)
(* brings it up to what the broker reports, and price_monitor.py, the      *)
(* fallback, writes the same columns from ticks and from polls of its own  *)
(* if it is started in the tracker's place.  The UPDATE statements carry   *)
(* no condition on the status: what a writer decided from an earlier       *)
(* SELECT, or from its cache, is written whatever the row has become.      *)
(*                                                                         *)
(* A price is the name of where it comes from: "limit" (the price of an    *)
(* order or rule, filled or not), "part" (the average of the first fills), *)
(* "full" (the average of all), "tick" (an LTP), "zero", or "base" for the *)
(* placement or entry price a P&L uses when the row has no entry price.    *)
(***************************************************************************)
EXTENDS Integers, Sequences, SequencesExt

CONSTANTS Goals,      \* the signal's targets: {"t1"} or {"t1", "t2"}
          QueueCap,   \* bound: payloads waiting in the portfolio feed
          MaxFaults   \* bound: failed fetches, lost connections, crashes

ASSUME LedgerAssumption ==
    /\ Goals = {"t1"} \/ Goals = {"t1", "t2"}
    /\ QueueCap \in Nat \ {0, 1}
    /\ MaxFaults \in Nat

Entry == "ENTRY"
Leg == {Entry, "TARGET", "STOPLOSS"}
ExitLeg == Leg \ {Entry}
Other(l) == IF l = "TARGET" THEN "STOPLOSS" ELSE "TARGET"

Exits == {"TARGET1_HIT", "STOPLOSS_HIT"}
Watchable == {"PENDING", "ACTIVE"}
Status == Watchable \cup Exits \cup {"absent", "FAILED", "CANCELLED", "EXPIRED"}

\* The statuses after which _apply_exit_fill, and the fallback's poll, leave
\* the row alone.
Terminal == Exits \cup {"FAILED", "CANCELLED", "EXPIRED"}
PollTerminal == Terminal \ {"FAILED"}

OrderState == {"none", "open", "part", "done", "rejected"}
RuleState == {"PENDING", "COMPLETED", "FAILED", "CANCELLED", "EXPIRED"}
Price == {"none", "limit", "part", "full", "tick", "zero", "base"}

VARIABLES
    gtt,        \* broker: "live", "cancelled" or "expired"
    order,      \* broker: the order of each leg
    feed,       \* payloads sent and not yet handled
    connected,  \* the portfolio WebSocket is up
    row,        \* the signals row
    stage,      \* the tracker: "start", "backfill" (at startup), "run" or, when
                \* the fallback has taken over, "off"
    todo,       \* the tracker's running handler: rules still to be looked at
    hold,       \* ... and the fill it has read and not yet written
    cache,      \* the fallback's copy of the row
    poll,       \* the fallback's SELECT and fetch, not yet applied
    faults      \* failures so far

broker == <<gtt, order>>
tracker == <<stage, todo, hold>>
fallback == <<cache, poll>>
vars == <<broker, feed, connected, row, tracker, fallback, faults>>

----------------------------------------------------------------------------
(* Payloads, rules and rows                                                *)

Placed == {l \in Leg : order[l] # "none"}

\* What the GTT's entry rule says.
EntryRule(g, o) ==
    CASE o[Entry] = "rejected" -> "FAILED"
      [] o[Entry] \in {"open", "part", "done"} -> "COMPLETED"
      [] o[Entry] = "none" /\ g = "cancelled" -> "CANCELLED"
      [] o[Entry] = "none" /\ g = "expired" -> "EXPIRED"
      [] OTHER -> "PENDING"

GttPayload(g, o) ==
    [kind |-> "gtt_order", entry |-> EntryRule(g, o), legs |-> {l \in Leg : o[l] # "none"}]
OrderPayload(o, l) == [kind |-> "order", leg |-> l, state |-> o[l]]

\* The rules of a GTT that change the row: those with an order id, and an
\* entry rule that has failed or was cancelled.
Rule == [leg : Leg, rule : RuleState, placed : BOOLEAN]
\* Mutant: the loop over the rules returns after the entry's.
SelectFirst(legs, entry) ==
    IF Entry \in legs
      THEN <<[leg |-> Entry, rule |-> entry, placed |-> TRUE]>>
      ELSE <<>>

Select(legs, entry) ==
    (IF Entry \in legs \/ entry \in {"FAILED", "CANCELLED"}
       THEN <<[leg |-> Entry, rule |-> entry, placed |-> Entry \in legs]>> ELSE <<>>)
    \o (IF "TARGET" \in legs
          THEN <<[leg |-> "TARGET", rule |-> "COMPLETED", placed |-> TRUE]>> ELSE <<>>)
    \o (IF "STOPLOSS" \in legs
          THEN <<[leg |-> "STOPLOSS", rule |-> "COMPLETED", placed |-> TRUE]>> ELSE <<>>)

Row == [status : Status, entry : Price, exit : Price, pnl : Price \X Price, legs : SUBSET Leg]
NoPnl == <<"none", "none">>
NoRow == [status |-> "absent", entry |-> "none", exit |-> "none", pnl |-> NoPnl, legs |-> {}]

\* The entry price a P&L is computed from.
Basis(entry) == IF entry = "none" THEN "base" ELSE entry

\* The UPDATE statements, each unconditional: an entry, an exit, a bare status,
\* a rule's order id, and the prices that are given ("none" keeps the column).
Filled(r, price) == [r EXCEPT !.status = "ACTIVE", !.entry = price]
Closed(r, status, price, pnl) == [r EXCEPT !.status = status, !.exit = price, !.pnl = pnl]
Marked(r, status) == [r EXCEPT !.status = status]
Stored(r, leg) == [r EXCEPT !.legs = @ \cup {leg}]
Backfilled(r, entry, exit, pnl) ==
    [r EXCEPT !.entry = IF entry = "none" THEN @ ELSE entry,
              !.exit = IF exit = "none" THEN @ ELSE exit,
              !.pnl = IF pnl = NoPnl THEN @ ELSE pnl]
HitOf(leg) == IF leg = "TARGET" THEN "TARGET1_HIT" ELSE "STOPLOSS_HIT"

NoHold == [leg |-> "none"]
Hold == [leg : Leg, price : Price \cup {"reject"}, status : Status, entry : Price]
Holding(l, price, r) == [leg |-> l, price |-> price, status |-> r.status, entry |-> r.entry]
NoCache == [status |-> "absent"]
Cache == [status : Watchable, entry : Price, hits : SUBSET {"t1", "t2"}]
NoPoll == [forced |-> FALSE, report |-> "none"]
Poll == [forced : BOOLEAN, report : {"active", "cancelled", "expired", "triggered"},
         legs : SUBSET Leg, seen : Row]

Init ==
    /\ gtt = "live" /\ order = [l \in Leg |-> "none"]
    /\ feed = <<>> /\ connected = FALSE
    /\ row = NoRow
    /\ stage = "start" /\ todo = <<>> /\ hold = NoHold
    /\ cache = NoCache /\ poll = NoPoll
    /\ faults = 0

\* A fault: one of the MaxFaults failures of a behaviour.
Fault == faults < MaxFaults /\ faults' = faults + 1

----------------------------------------------------------------------------
(* The broker, and the strategy's insert                                   *)

\* The payloads of a change reach the feed if it is connected.
Send(payloads) ==
    /\ Len(feed) + 2 <= QueueCap
    /\ feed' = IF connected THEN feed \o payloads ELSE feed

Changes(l, state) ==
    /\ order' = [order EXCEPT ![l] = state]
    /\ Send(<<OrderPayload(order', l), GttPayload(gtt, order')>>)
    /\ UNCHANGED <<gtt, connected, row, tracker, fallback, faults>>

\* The price reaches a leg's trigger.  The exit legs exclude each other.
Trigger(l) ==
    /\ order[l] = "none"
    /\ \/ l = Entry /\ gtt = "live"
       \/ l # Entry /\ order[Entry] = "done" /\ order[Other(l)] = "none"
    /\ Changes(l, "open")

\* The order of a leg fills, at once or in two steps.
Fill(l) ==
    \/ order[l] = "open" /\ \E s \in {"part", "done"} : Changes(l, s)
    \/ order[l] = "part" /\ Changes(l, "done")

Reject(l) == order[l] = "open" /\ Changes(l, "rejected")

\* The GTT is cancelled or expires before its entry triggers.
Ends ==
    /\ gtt = "live" /\ order[Entry] = "none"
    /\ gtt' \in {"cancelled", "expired"}
    /\ Send(<<GttPayload(gtt', order)>>)
    /\ UNCHANGED <<order, connected, row, tracker, fallback, faults>>

\* The metadata thread writes the row, some time after the GTT was placed.
Insert ==
    /\ row.status = "absent"
    /\ row' = [NoRow EXCEPT !.status = "PENDING"]
    /\ UNCHANGED <<broker, feed, connected, tracker, fallback, faults>>

----------------------------------------------------------------------------
(* The order tracker: one event loop, whose handlers call the API and the  *)
(* database synchronously and so exclude each other                        *)

FallbackRuns == stage = "off"
AtRest == todo = <<>> /\ hold = NoHold
Idle == stage = "run" /\ AtRest

Connect ==
    /\ Idle /\ ~connected /\ connected' = TRUE
    /\ UNCHANGED <<broker, feed, row, tracker, fallback, faults>>

\* What the broker's API answers: the rules of the GTT, and the price of an
\* order from its trades or, without them, its history.
FetchedRules == Select(Placed, EntryRule(gtt, order))
ApiPrice(state) ==
    CASE state = "done" -> "full"
      [] state = "part" -> "part"
      [] state \in {"open", "rejected"} -> "limit"
      [] OTHER -> "none"
Quoted(l) == ApiPrice(order[l])

\* Whether the reconciliations select the row, and the legs whose order id is known.
Pollable == row.status \in Watchable
Known(l) == l \in row.legs

\* The startup backfill, and the reconciliation every two minutes: the rules
\* of the open row's GTT, if they can be fetched, then the order ids the row
\* had when it was selected.
Reconcile ==
    /\ stage \in {"start", "run"} /\ AtRest
    /\ Pollable
    /\ \/ /\ todo' = FetchedRules \o Select(row.legs, "COMPLETED")
          /\ UNCHANGED faults
       \/ todo' = Select(row.legs, "COMPLETED") /\ Fault
    /\ stage' = IF stage = "start" THEN "backfill" ELSE stage
    /\ UNCHANGED <<broker, feed, connected, row, hold, fallback>>

\* The startup backfill is over, or found no open row.
Ready ==
    /\ AtRest
    /\ stage = "backfill" \/ (stage = "start" /\ ~Pollable)
    /\ stage' = "run"
    /\ UNCHANGED <<broker, feed, connected, row, todo, hold, fallback, faults>>

\* A GTT payload: dropped if the row is not there yet.
GttUpdate ==
    /\ Idle /\ feed # <<>> /\ Head(feed).kind = "gtt_order"
    /\ feed' = Tail(feed)
    /\ todo' = IF row.status = "absent" THEN <<>> ELSE Select(Head(feed).legs, Head(feed).entry)
    /\ UNCHANGED <<broker, connected, row, stage, hold, fallback, faults>>

\* Mutant: a dead entry rule is noted but decides no status.
RuledIdsOnly(r) ==
    IF Head(todo).placed THEN Stored(r, Head(todo).leg) ELSE r

\* The next rule: its order id is stored, a dead entry rule decides the
\* status, and the order is looked up for a fill.
Ruled(r) ==
    LET item == Head(todo)
        known == IF item.placed THEN Stored(r, item.leg) ELSE r
    IN  IF item.leg = Entry /\ item.rule \in {"FAILED", "CANCELLED"}
          THEN Marked(known, item.rule)
          ELSE known

LookUp ==
    /\ hold = NoHold /\ todo # <<>>
    /\ row' = Ruled(row)
    /\ todo' = Tail(todo)
    /\ \/ /\ ~Head(todo).placed
          /\ UNCHANGED <<hold, faults>>
       \/ /\ Head(todo).placed
          /\ hold' = Holding(Head(todo).leg, Quoted(Head(todo).leg), row')
          /\ UNCHANGED faults
       \/ /\ Head(todo).placed /\ Fault
          /\ hold' = Holding(Head(todo).leg, "none", row')
    /\ UNCHANGED <<broker, feed, connected, stage, fallback>>

\* An order payload: dropped unless a rule has brought the order's id.  A fill
\* is priced from the trades of this moment or, without them, the payload.
OrderUpdate ==
    /\ Idle /\ feed # <<>> /\ Head(feed).kind = "order"
    /\ feed' = Tail(feed)
    /\ LET l == Head(feed).leg
           state == Head(feed).state
       IN  hold' \in
             CASE ~Known(l) \/ state = "open" -> {NoHold}
               [] Known(l) /\ state = "rejected" -> {Holding(l, "reject", row)}
               [] OTHER -> {Holding(l, ApiPrice(s), row) : s \in {order[l], state}}
    /\ UNCHANGED <<broker, connected, row, stage, todo, fallback, faults>>

\* Mutant: an entry fill prices a closed row without reopening it.
EntryFillKeeps(r, h) ==
    IF h.price # "none" /\ h.status # "ACTIVE"
      THEN IF r.status \in Exits THEN [r EXCEPT !.entry = h.price] ELSE Filled(r, h.price)
      ELSE r

\* _apply_entry_fill, decided by the row as it was read.
EntryFill(r, h) ==
    IF h.price # "none" /\ h.status # "ACTIVE" THEN Filled(r, h.price) ELSE r

\* _apply_exit_fill.
ExitFill(r, h) ==
    IF h.price # "none" /\ h.status \notin Terminal
      THEN Closed(r, HitOf(h.leg), h.price, <<Basis(h.entry), h.price>>)
      ELSE r

\* Mutants: any rejected order fails the signal; an exit order's note is
\* written to the wrong column.
RejectedAlways(r, h) == Marked(r, "FAILED")

\* A rejected entry order fails the signal; an exit order only leaves a note.
Rejected(r, h) == IF h.leg = Entry THEN Marked(r, "FAILED") ELSE r

Apply ==
    /\ hold # NoHold
    /\ row' = IF hold.price = "reject" THEN Rejected(row, hold)
              ELSE IF hold.leg = Entry THEN EntryFill(row, hold) ELSE ExitFill(row, hold)
    /\ hold' = NoHold
    /\ UNCHANGED <<broker, feed, connected, stage, todo, fallback, faults>>

\* The WebSocket drops: what waited in it is lost.
Disconnect ==
    /\ connected /\ Fault
    /\ connected' = FALSE /\ feed' = <<>>
    /\ UNCHANGED <<broker, row, tracker, fallback>>

\* An exception (a locked database, say) ends the handler and, if it was a
\* payload's, the connection.
Abandon ==
    /\ stage = "run" /\ ~AtRest /\ Fault
    /\ todo' = <<>> /\ hold' = NoHold
    /\ \/ connected' = FALSE /\ feed' = <<>>
       \/ UNCHANGED <<connected, feed>>
    /\ UNCHANGED <<broker, row, stage, fallback>>

\* The tracker stops anywhere, or its startup backfill raises.
Crash ==
    /\ ~FallbackRuns /\ Fault
    /\ stage' = "start" /\ todo' = <<>> /\ hold' = NoHold
    /\ connected' = FALSE /\ feed' = <<>>
    /\ UNCHANGED <<broker, row, fallback>>

----------------------------------------------------------------------------
(* The fallback monitor, whose ticks and polls share one event loop        *)

Report ==
    IF order[Entry] # "none" THEN "triggered" ELSE IF gtt = "live" THEN "active" ELSE gtt
Fetched(forced) ==
    [forced |-> forced, report |-> Report, seen |-> row,
     legs |-> {l \in Leg : order[l] \in {"open", "part", "done"}}]

\* Rows that lack a price, which the startup backfill fetches.
Unpriced == row.status # "absent" /\ "none" \in {row.entry, row.exit}

\* Somebody stops the tracker and starts the fallback, or starts it again:
\* rows that lack a price are fetched first.
StartFallback ==
    /\ IF FallbackRuns THEN Fault ELSE UNCHANGED faults
    /\ stage' = "off" /\ todo' = <<>> /\ hold' = NoHold
    /\ connected' = FALSE /\ feed' = <<>>
    /\ cache' = NoCache
    /\ poll' \in IF Unpriced THEN {NoPoll, Fetched(TRUE)} ELSE {NoPoll}
    /\ UNCHANGED <<broker, row>>

Rebuild ==
    /\ FallbackRuns /\ poll = NoPoll
    /\ cache' = IF row.status \in Watchable
                  THEN [status |-> row.status, entry |-> row.entry, hits |-> {}] ELSE NoCache
    /\ UNCHANGED <<broker, feed, connected, row, tracker, poll, faults>>

\* A tick at or beyond the stop-loss (of a BUY; a SELL mirrors it) closes the
\* row, with no P&L if the copy says the entry is still to come.
TickStop ==
    /\ FallbackRuns /\ poll = NoPoll /\ cache # NoCache
    /\ row' = Closed(row, "STOPLOSS_HIT", "tick",
                     IF cache.status = "PENDING" THEN <<"zero", "zero">> ELSE <<Basis(cache.entry), "tick">>)
    /\ cache' = NoCache
    /\ UNCHANGED <<broker, feed, connected, tracker, poll, faults>>

\* A tick at the entry or beyond targets: it opens a pending row and, the first
\* time it is at the first target, closes it; the copy is watched until every
\* target was reached.
Reached(level) ==
    CASE level = "t1" -> {"t1"} [] level = "t2" -> Goals [] OTHER -> {}

Tick(level) ==
    LET enters == cache.status = "PENDING"
        copy == IF enters THEN [cache EXCEPT !.status = "ACTIVE", !.entry = "tick"] ELSE cache
        opened == IF enters THEN Filled(row, "tick") ELSE row
        hits == cache.hits \cup Reached(level)
    IN  /\ FallbackRuns /\ poll = NoPoll /\ cache # NoCache
        /\ row' = IF "t1" \in hits \ cache.hits
                    THEN Closed(opened, "TARGET1_HIT", "tick", <<Basis(copy.entry), "tick">>)
                    ELSE opened
        /\ cache' = IF Goals \subseteq hits THEN NoCache ELSE [copy EXCEPT !.hits = hits]
        /\ UNCHANGED <<broker, feed, connected, tracker, poll, faults>>

\* Every poll interval: an open row is selected and its GTT fetched (a fetch
\* that fails changes nothing).
PollGtt ==
    /\ FallbackRuns /\ poll = NoPoll /\ Pollable
    /\ poll' = Fetched(FALSE)
    /\ UNCHANGED <<broker, feed, connected, row, tracker, cache, faults>>

\* _process_gtt_reconciliation, decided by the row as it was selected.
PollExit == IF "STOPLOSS" \in poll.legs THEN "STOPLOSS"
            ELSE IF "TARGET" \in poll.legs THEN "TARGET" ELSE "none"

PolledEnd ==
    /\ poll.report \in {"cancelled", "expired"}
    /\ LET ended == IF poll.report = "cancelled" THEN "CANCELLED" ELSE "EXPIRED"
           open == poll.seen.status \notin PollTerminal
       IN  /\ row' = IF open THEN Closed(row, ended, "zero", <<"zero", "zero">>) ELSE row
           /\ cache' = IF open THEN NoCache ELSE cache

\* The startup backfill writes missing prices only.
PolledPrices ==
    /\ poll.report \in {"active", "triggered"} /\ poll.forced
    /\ LET lacks(p) == p = "none"
           basis == IF Entry \in poll.legs THEN "limit" ELSE Basis(poll.seen.entry)
           exits == PollExit # "none" /\ lacks(poll.seen.exit)
       IN  row' = Backfilled(row,
                    IF Entry \in poll.legs /\ lacks(poll.seen.entry) THEN "limit" ELSE "none",
                    IF exits THEN "limit" ELSE "none",
                    IF exits /\ poll.seen.pnl = NoPnl THEN <<basis, "limit">> ELSE NoPnl)
    /\ UNCHANGED cache

PolledFills ==
    /\ poll.report \in {"active", "triggered"} /\ ~poll.forced
    /\ LET enters == Entry \in poll.legs /\ poll.seen.status = "PENDING"
           opened == IF enters THEN Filled(row, "limit") ELSE row
           exits == PollExit # "none" /\ poll.seen.status \notin PollTerminal
       IN  /\ row' = IF exits
                       THEN Closed(opened, HitOf(PollExit), "limit", <<"limit", "limit">>)
                       ELSE opened
           /\ cache' = IF exits THEN NoCache
                       ELSE IF enters /\ cache # NoCache
                         THEN [cache EXCEPT !.status = "ACTIVE", !.entry = "limit"] ELSE cache

ApplyPoll ==
    /\ poll # NoPoll
    /\ PolledEnd \/ PolledPrices \/ PolledFills
    /\ poll' = NoPoll
    /\ UNCHANGED <<broker, feed, connected, tracker, faults>>

----------------------------------------------------------------------------
Level == {"entry"} \cup Goals

Broker == (\E l \in Leg : Trigger(l) \/ Fill(l) \/ Reject(l)) \/ Ends
Tracker == Connect \/ Reconcile \/ Ready \/ GttUpdate \/ LookUp \/ OrderUpdate \/ Apply
Fallback == StartFallback \/ Rebuild \/ TickStop \/ (\E x \in Level : Tick(x)) \/ PollGtt \/ ApplyPoll

Next == Broker \/ Insert \/ Tracker \/ Disconnect \/ Abandon \/ Crash \/ Fallback

\* Each event loop runs what it has begun to its end, and its timer (the
\* reconciliation, the poll) again and again.  Nothing is asked of the feed,
\* of the ticks or of the broker.
Fairness ==
    /\ WF_vars(LookUp \/ Apply)
    /\ WF_vars(Reconcile \/ Ready)
    /\ WF_vars(PollGtt \/ ApplyPoll)

Spec == Init /\ [][Next]_vars /\ Fairness
----------------------------------------------------------------------------
(* Properties                                                              *)

Payload ==
    [kind : {"gtt_order"}, entry : RuleState, legs : SUBSET Leg]
    \cup [kind : {"order"}, leg : Leg, state : OrderState]

\* Every variable keeps its type: what the broker, the tracker's handlers and
\* the fallback hold, and the row, is what the columns and dictionaries hold.
TypeOK ==
    /\ gtt \in {"live", "cancelled", "expired"}
    /\ order \in [Leg -> OrderState]
    /\ feed \in Seq(Payload) /\ Len(feed) <= QueueCap
    /\ connected \in BOOLEAN
    /\ row \in Row
    /\ stage \in {"start", "backfill", "run", "off"}
    /\ todo \in Seq(Rule)
    /\ hold \in Hold \cup {NoHold}
    /\ cache \in Cache \cup {NoCache}
    /\ poll \in Poll \cup {NoPoll}
    /\ faults \in 0 .. MaxFaults

\* While the tracker writes, the P&L of a closed row is the one of its own
\* entry and exit price, although the handlers compute it from a copy of the
\* row read before they write, and rows are reopened, priced again and closed
\* again (_compute_exit_pnl, _apply_entry_fill).
PnlIsOwn ==
    ~FallbackRuns /\ row.status \in Exits => row.pnl = <<Basis(row.entry), row.exit>>

\* While the tracker writes, a row that names an exit names the leg whose order
\* the broker placed, however late the payload that closed it
\* (_apply_exit_fill).
HitIsPlaced ==
    ~FallbackRuns /\ row.status \in Exits => \E l \in Placed \cap ExitLeg : row.status = HitOf(l)

\* The fallback's copy, from which its ticks write a minute later without
\* reading the row, is never behind the row: the polls that change the row
\* change or drop the copy (_check_thresholds, _process_gtt_reconciliation).
\* Only a row closed at the first target may still be watched as ACTIVE.
CopyIsCurrent ==
    cache # NoCache =>
        /\ cache.entry = row.entry
        /\ row.status = IF "t1" \in cache.hits THEN "TARGET1_HIT" ELSE cache.status

\* A booked exit is final but for two things: a late or repeated entry fill
\* makes the tracker reopen the row as ACTIVE, and the fallback, watching for
\* further targets, turns the first target's exit into a stop-loss.
ExitIsFinal ==
    [][row.status \in Exits /\ row'.status # row.status =>
          \/ ~FallbackRuns /\ row'.status = "ACTIVE"
          \/ FallbackRuns /\ Goals # {"t1"} /\ row'.status = "STOPLOSS_HIT"]_vars

\* A filled exit closes its row, and as the leg that filled if the tracker is
\* left to do it, though payloads are lost, arrive before the row exists or
\* reopen it, fetches fail and programs restart: the reconciliation and the
\* fallback's poll find every open row.
ExitReachesRow ==
    \A l \in ExitLeg :
        (order[l] = "done" /\ row.status # "absent")
            ~> (row.status = HitOf(l) \/ (FallbackRuns /\ row.status \in Terminal))

\* A rejected entry order is marked FAILED while the tracker runs (though the
\* lookup of its order may make the row ACTIVE again), and a cancelled GTT
\* CANCELLED; under the fallback a cancelled GTT's row is closed in some way.
DeadEntryIsSeen ==
    /\ (order[Entry] = "rejected" /\ row.status # "absent")
            ~> (row.status = "FAILED" \/ FallbackRuns)
    /\ (gtt = "cancelled" /\ row.status # "absent")
            ~> (row.status = "CANCELLED" \/ (FallbackRuns /\ row.status \in Terminal))
=============================================================================
