---------------------------- MODULE PriceMonitor ----------------------------
(***************************************************************************)
(* The v2 price monitor and one signal on one instrument.  The monitor     *)
(* keeps a copy of the open signals, refreshed at most once a minute and   *)
(* only when a tick arrives; a tick that touches the entry range is noted  *)
(* in the copy and queued for the database, and a tick beyond the first    *)
(* target after that cancels the GTT and expires the row, if the copy says *)
(* the entry is not filled.  The ticks of an instrument come only if the   *)
(* market WebSocket subscribed to it, at startup or on the engine's        *)
(* publish.                                                                *)
(*                                                                         *)
(* Beside it stand the trading engine, the broker, the order tracker and   *)
(* the admin API, as TradeRow has them.                                    *)
(***************************************************************************)
EXTENDS TradeRow

CONSTANTS
    Action,              \* signals.action
    EntryLow, EntryHigh, \* the entry range; EntryHigh = NoPrice for "BUY ABOVE"
    T1,                  \* targets_adj[0]
    Prices,              \* prices the instrument trades at
    Margin,              \* 5, the width of the range made up when there is none
    MaxFaults            \* bound: failed calls and crashes together

NoPrice == 0

ASSUME MonitorAssumption ==
    /\ Action \in {"BUY", "SELL"}
    /\ EntryLow \in Nat /\ EntryHigh \in Nat /\ T1 \in Nat /\ Margin \in Nat
    /\ Prices \subseteq Nat \ {NoPrice}
    /\ MaxFaults \in Nat

VARIABLES
    listed,    \* a leg row says PENDING, as the engine wrote it
    flag,      \* signals.entry_range_touched
    up,        \* the monitor's container
    streamed,  \* the market WebSocket is subscribed to the instrument
    sig,       \* the monitor's copy of the row (_thresholds)
    due,       \* 60 s have passed since the last refresh
    step,      \* where the handling of a tick stands
    tick,      \* the price of that tick
    touching,  \* a touch is queued for the database
    seen,      \* history: a tick touched the entry range of a known signal
    dropped,   \* history: a queued touch was lost
    settled,   \* history: the copy was last read from a row with its entry filled
    lost,      \* history: a cancel failed or found no order in the database
    faults     \* history: number of faults so far

copy    == <<sig, due, settled>>
handler == <<step, tick>>
history == <<seen, dropped, lost>>
own     == <<flag, up, streamed, copy, handler, touching, history, faults>>
vars    == <<rowVars, listed, own>>

Sig == [known : BOOLEAN, filled : BOOLEAN, touched : BOOLEAN, ids : BOOLEAN]
NoSig == [known |-> FALSE, filled |-> FALSE, touched |-> FALSE, ids |-> FALSE]

TypeOK ==
    /\ RowTypeOK /\ listed \in BOOLEAN /\ flag \in BOOLEAN
    /\ up \in {"down", "starting", "up"} /\ streamed \in BOOLEAN
    /\ sig \in Sig /\ due \in BOOLEAN
    /\ step \in {"idle", "cancel", "expire"} /\ tick \in Prices \cup {NoPrice}
    /\ touching \in BOOLEAN
    /\ seen \in BOOLEAN /\ dropped \in BOOLEAN /\ settled \in BOOLEAN /\ lost \in BOOLEAN
    /\ faults \in Nat

Init ==
    /\ RowInit
    /\ listed = FALSE /\ flag = FALSE
    /\ up = "down" /\ streamed = FALSE /\ sig = NoSig /\ due = TRUE
    /\ step = "idle" /\ tick = NoPrice /\ touching = FALSE
    /\ seen = FALSE /\ dropped = FALSE /\ settled = FALSE /\ lost = FALSE
    /\ faults = 0

-----------------------------------------------------------------------------
(* Decisions *)

Fault == faults < MaxFaults /\ faults' = faults + 1

Touches(p) ==
    IF EntryHigh = NoPrice THEN p <= EntryLow + Margin ELSE EntryLow <= p /\ p <= EntryHigh

Crosses(p) == IF Action = "SELL" THEN p < T1 ELSE p > T1

\* Mutant of Expires: the copy's entry_filled is not looked at.
ExpiresFilled(s, p) == s.known /\ s.touched /\ Crosses(p)

\* should_expire_trade, asked when the tick reached the first target.
Expires(s, p) == s.known /\ s.touched /\ ~s.filled /\ Crosses(p)

Touched(s, p) == [s EXCEPT !.touched = @ \/ (s.known /\ Touches(p))]

\* Mutant of NewTouch: the copy is compared with itself after the decision.
NewTouchLate(s, p) == s.known /\ ~Touched(s, p).touched /\ Touches(p)

\* A touch is queued for the database the first time the copy sees it.
NewTouch(s, p) == s.known /\ ~s.touched /\ Touches(p)

\* Mutant of RefreshedTouch: the persisted flag is not loaded.
RefreshedTouchMemory == sig.touched

\* The flag of the row, or the one the copy carried so far.
RefreshedTouch == flag \/ sig.touched

\* _refresh_thresholds: the open row, read again.
Refreshed ==
    IF row.status \in Open
    THEN [known |-> TRUE, filled |-> row.status # "PENDING",
          touched |-> RefreshedTouch, ids |-> row.ids]
    ELSE NoSig

-----------------------------------------------------------------------------
(* The others *)

Beside == Others /\ UNCHANGED <<listed, own>>

\* A leg row that the engine writes says PENDING, whatever was there.
Listing == WriteLeg /\ listed' = TRUE /\ UNCHANGED own

\* Redis pub/sub reaches the monitor only while it listens.
Notice ==
    /\ EngineNotifies
    /\ streamed' = (streamed \/ up = "up")
    /\ UNCHANGED <<listed, flag, up, copy, handler, touching, history, faults>>

\* The order tracker gives the leg rows the broker's words for their status.
TrackerUpserts ==
    /\ known
    /\ listed' \in BOOLEAN
    /\ UNCHANGED <<rowVars, own>>

-----------------------------------------------------------------------------
(* The monitor *)

\* load_initial_keys and the first subscription.
Start ==
    /\ up = "down"
    /\ up' = "starting"
    /\ streamed' = (row.status \in Open)
    /\ UNCHANGED <<rowVars, listed, flag, copy, handler, touching, history, faults>>

\* The pub/sub listener has subscribed to the engine's channel.
Listen ==
    /\ up = "starting"
    /\ up' = "up"
    /\ UNCHANGED <<rowVars, listed, flag, streamed, copy, handler, touching, history, faults>>

Timer ==
    /\ ~due
    /\ due' = TRUE
    /\ UNCHANGED <<rowVars, listed, flag, up, streamed, sig, settled, handler, touching,
                   history, faults>>

Running == up # "down" /\ step = "idle"

Refresh == due' = FALSE /\ settled' = IF due THEN row.status = "ACTIVE" ELSE settled

\* A tick of some other instrument refreshes the copy of this one; a key that is
\* new is tracked but not subscribed.
OtherTick ==
    /\ Running /\ due
    /\ Refresh
    /\ sig' = Refreshed
    /\ UNCHANGED <<rowVars, listed, flag, up, streamed, handler, touching, history, faults>>

\* A tick of the instrument: refresh if due, note a touch, decide.
Tick(p) ==
    /\ Running /\ streamed
    /\ Refresh
    /\ LET s == IF due THEN Refreshed ELSE sig IN
         /\ sig' = Touched(s, p)
         /\ touching' = (touching \/ NewTouch(s, p))
         /\ seen' = (seen \/ (s.known /\ Touches(p)))
         /\ IF Expires(sig', p) THEN step' = "cancel" /\ tick' = p
                                ELSE UNCHANGED handler
    /\ UNCHANGED <<rowVars, listed, flag, up, streamed, dropped, lost, faults>>

\* The refresh raises: the feed loop logs it and the tick is gone.
RefreshFails ==
    /\ Running /\ due /\ Fault
    /\ UNCHANGED <<rowVars, listed, flag, up, streamed, copy, handler, touching, history>>

\* Mutant of CancelTargets: no look into gtt_rules when the copy has no ids.
CancelTargetsCopied == sig.ids

\* _cancel_unfilled_gtts: the ids of the copy, or else of the PENDING leg rows.
CancelTargets == sig.ids \/ listed

CancelOrder ==
    /\ step = "cancel"
    /\ CancelTargets
    /\ step' = "expire"
    /\ IF gtt \in Live
       THEN gtt' = "cancelled"
       ELSE UNCHANGED gtt
    /\ UNCHANGED <<filled, db, writer, listed, flag, up, streamed, copy, tick, touching,
                   history, faults>>

\* A failed cancel is logged, and the row expires all the same.
CancelFails ==
    /\ step = "cancel"
    /\ CancelTargets /\ Fault
    /\ step' = "expire"
    /\ lost' = TRUE
    /\ UNCHANGED <<rowVars, listed, flag, up, streamed, copy, tick, touching, seen, dropped>>

NothingToCancel ==
    /\ step = "cancel"
    /\ ~CancelTargets
    /\ step' = "expire"
    /\ lost' = (lost \/ (~sig.ids /\ ~listed))
    /\ UNCHANGED <<rowVars, listed, flag, up, streamed, copy, tick, touching, seen,
                   dropped, faults>>

\* UPDATE signals ... WHERE status = 'PENDING'
ExpiredRow == IF row.status = "PENDING" THEN [row EXCEPT !.status = "EXPIRED"] ELSE row

\* The row expires if nobody moved it on, and the signal leaves the copy.
ExpireRow ==
    /\ step = "expire"
    /\ row' = ExpiredRow
    /\ sig' = NoSig
    /\ step' = "idle" /\ tick' = NoPrice
    /\ UNCHANGED <<broker, known, writer, listed, flag, up, streamed, due, settled, touching,
                   history, faults>>

ExpireFails ==
    /\ step = "expire" /\ Fault
    /\ step' = "idle" /\ tick' = NoPrice
    /\ UNCHANGED <<rowVars, listed, flag, up, streamed, copy, touching, history>>

WriteTouch ==
    /\ touching
    /\ touching' = FALSE
    /\ flag' = TRUE
    /\ UNCHANGED <<rowVars, listed, up, streamed, copy, handler, history, faults>>

WriteTouchFails ==
    /\ touching /\ Fault
    /\ touching' = FALSE /\ dropped' = TRUE
    /\ UNCHANGED <<rowVars, listed, flag, up, streamed, copy, handler, seen, lost>>

Crash ==
    /\ up # "down" /\ Fault
    /\ up' = "down" /\ streamed' = FALSE
    /\ sig' = NoSig /\ due' = TRUE /\ settled' = FALSE
    /\ step' = "idle" /\ tick' = NoPrice
    /\ touching' = FALSE /\ dropped' = (dropped \/ touching)
    /\ UNCHANGED <<rowVars, listed, flag, seen, lost>>

-----------------------------------------------------------------------------

Handle  == CancelOrder \/ NothingToCancel \/ ExpireRow
Monitor == Start \/ Listen \/ Timer \/ OtherTick \/ (\E p \in Prices : Tick(p))
           \/ Handle \/ WriteTouch
Faults  == RefreshFails \/ CancelFails \/ ExpireFails \/ WriteTouchFails \/ Crash

Next == Beside \/ Listing \/ Notice \/ TrackerUpserts \/ Monitor \/ Faults

\* The event loop goes on with a tick it has begun, and a minute passes.  No tick,
\* no restart, no write and no fill is promised.
Fairness == WF_vars(Handle) /\ WF_vars(Timer)

Spec == Init /\ [][Next]_vars /\ Fairness
-----------------------------------------------------------------------------
(* Properties *)

\* The rule of should_expire_trade and its unit tests, kept up to the write: the
\* monitor expires a row only after a tick touched the signal's entry range, on a
\* tick strictly beyond its first target, and never a row that the tracker or the
\* engine has moved on from PENDING while the cancel was under way: the flag comes
\* from memory or the database, through refreshes, evictions and restarts, and the
\* UPDATE runs two network calls after the decision.  The client guide has another
\* rule, which asks for no touch and counts the target itself: as this property
\* holds, a price that opens beyond the target never expires the row.
ExpiryWasMissed ==
    [][step = "expire" /\ row' # row /\ row'.status # row.status /\ step' = "idle" =>
         seen /\ Crosses(tick) /\ row.status = "PENDING"]_vars

\* A touch survives: what a tick showed is in the database or queued for it, unless
\* the queue was lost with the process or its write failed, whichever refreshes and
\* evictions came between.
TouchIsKept == seen /\ ~dropped => flag \/ touching

\* A GTT whose filled entry the last refresh read from the row is not cancelled by
\* the monitor: the window in which it may hit a running position ends with the
\* first refresh after the tracker's write.
KnownFillIsSpared ==
    [][step = "cancel" /\ step' = "expire" /\ gtt = "triggered" => ~settled]_vars

\* A row that says EXPIRED has no GTT waiting at the broker, unless a cancel failed
\* or the database did not have the order when the monitor looked for it (the
\* engine was still placing or writing, or the leg rows took the broker's words).
ExpiredMeansCancelled == row.status = "EXPIRED" /\ ~lost => gtt \notin {"none", "pending"}

CrossingTick == \E p \in Prices : Crosses(p) /\ Tick(p)

\* Once the touch is in the database, a row does not stay PENDING while ticks beyond
\* the first target keep coming, whatever crashed or was refreshed before.
MissedEntryExpires ==
    <>[]flag /\ []<><<CrossingTick>>_vars => <>[](row.status # "PENDING")

=============================================================================
