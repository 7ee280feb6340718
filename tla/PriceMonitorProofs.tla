------------------------- MODULE PriceMonitorProofs -------------------------
(***************************************************************************)
(* Theorems about PriceMonitor for every price, range and bound: its type  *)
(* invariant, what may lead to an expired row, that a touch is kept, and   *)
(* what an expired row says about the order at the broker.                 *)
(***************************************************************************)
EXTENDS PriceMonitor, TLAPS

-----------------------------------------------------------------------------
(* The copy *)

\* A refreshed copy holds what the row said.
LEMMA RefreshedFacts ==
    ASSUME TypeOK
    PROVE  /\ Refreshed \in Sig
           /\ Refreshed.known => row.status \in Open
           /\ Refreshed.filled => row.status = "ACTIVE"
           /\ Refreshed.known /\ ~Refreshed.filled => row.status = "PENDING"
           /\ Refreshed.touched => flag \/ sig.touched
           /\ Refreshed.touched => Refreshed.known
           /\ Refreshed.ids => row.ids
<1>1. flag \in BOOLEAN /\ row.ids \in BOOLEAN
  BY DEF TypeOK, RowTypeOK
<1>2. sig.touched \in BOOLEAN
  BY DEF TypeOK, Sig
<1>3. RefreshedTouch \in BOOLEAN /\ (RefreshedTouch => flag \/ sig.touched)
  BY <1>1, <1>2 DEF RefreshedTouch
<1>4. CASE row.status \in Open
  <2> DEFINE t == RefreshedTouch
             f == row.status # "PENDING"
             i == row.ids
  <2>1. t \in BOOLEAN /\ f \in BOOLEAN /\ i \in BOOLEAN
    BY <1>1, <1>3
  <2>2. Refreshed = [known |-> TRUE, filled |-> f, touched |-> t, ids |-> i]
    BY <1>4 DEF Refreshed
  <2> HIDE DEF t, f, i
  <2>3. /\ Refreshed \in Sig /\ Refreshed.known
        /\ Refreshed.filled = f /\ Refreshed.touched = t /\ Refreshed.ids = i
    BY <2>1, <2>2 DEF Sig
  <2> QED BY <1>3, <1>4, <2>3 DEF t, f, i, Open
<1>5. CASE row.status \notin Open
  <2>1. Refreshed = NoSig
    BY <1>5 DEF Refreshed
  <2> QED BY <2>1 DEF NoSig, Sig
<1> QED BY <1>4, <1>5

\* What the handling of one tick makes of the copy it works on.
LEMMA TouchedFacts ==
    ASSUME NEW s \in Sig, NEW p
    PROVE  /\ Touched(s, p) \in Sig
           /\ Touched(s, p).known = s.known /\ Touched(s, p).filled = s.filled
           /\ Touched(s, p).ids = s.ids
           /\ Touched(s, p).touched <=> s.touched \/ (s.known /\ Touches(p))
<1> DEFINE b == s.touched \/ (s.known /\ Touches(p))
<1>1. b \in BOOLEAN
  OBVIOUS
<1>2. Touched(s, p) = [s EXCEPT !.touched = b]
  BY DEF Touched
<1>3. b <=> s.touched \/ (s.known /\ Touches(p))
  OBVIOUS
<1> HIDE DEF b
<1> QED BY <1>1, <1>2, <1>3 DEF Sig

\* What a tick does: the copy it works on, what it notes and what it decides.
LEMMA TickFacts ==
    ASSUME TypeOK, NEW p \in Prices, Tick(p)
    PROVE  \E s \in Sig :
             /\ s = IF due THEN Refreshed ELSE sig
             /\ sig' \in Sig /\ sig'.known = s.known /\ sig'.filled = s.filled
             /\ sig'.ids = s.ids
             /\ sig'.touched <=> s.touched \/ (s.known /\ Touches(p))
             /\ touching' <=> touching \/ (s.known /\ ~s.touched /\ Touches(p))
             /\ seen' <=> seen \/ (s.known /\ Touches(p))
             /\ touching' \in BOOLEAN /\ seen' \in BOOLEAN
             /\ \/ /\ step' = "cancel" /\ tick' = p
                   /\ sig'.known /\ sig'.touched /\ ~sig'.filled /\ Crosses(p)
                \/ UNCHANGED handler
<1> DEFINE s == IF due THEN Refreshed ELSE sig
<1>1. s \in Sig
  BY RefreshedFacts DEF TypeOK
<1>2. sig' = Touched(s, p) /\ touching' = (touching \/ NewTouch(s, p))
      /\ seen' = (seen \/ (s.known /\ Touches(p)))
  BY DEF Tick
<1>3. (step' = "cancel" /\ tick' = p /\ Expires(sig', p)) \/ UNCHANGED handler
  BY DEF Tick
<1>4. touching' <=> touching \/ (s.known /\ ~s.touched /\ Touches(p))
  BY <1>2 DEF NewTouch
<1>5. seen' <=> seen \/ (s.known /\ Touches(p))
  BY <1>2
<1>6. touching' \in BOOLEAN /\ seen' \in BOOLEAN
  BY <1>2
<1>7. \/ /\ step' = "cancel" /\ tick' = p
         /\ sig'.known /\ sig'.touched /\ ~sig'.filled /\ Crosses(p)
      \/ UNCHANGED handler
  BY <1>3 DEF Expires
<1>8. /\ sig' \in Sig /\ sig'.known = s.known /\ sig'.filled = s.filled
      /\ sig'.ids = s.ids
      /\ sig'.touched <=> s.touched \/ (s.known /\ Touches(p))
  BY <1>1, <1>2, TouchedFacts
<1>9. s = IF due THEN Refreshed ELSE sig
  OBVIOUS
<1> HIDE DEF s
<1> QED BY <1>1, <1>4, <1>5, <1>6, <1>7, <1>8, <1>9

\* The actions of Next, one by one.
LEMMA NextSplit ==
    ASSUME Next
    PROVE  \/ Beside \/ Listing \/ Notice \/ TrackerUpserts
           \/ Start \/ Listen \/ Timer \/ OtherTick
           \/ (\E p \in Prices : Tick(p))
           \/ CancelOrder \/ NothingToCancel \/ ExpireRow \/ WriteTouch
           \/ RefreshFails \/ CancelFails \/ ExpireFails \/ WriteTouchFails \/ Crash
BY DEF Next, Monitor, Handle, Faults

-----------------------------------------------------------------------------
(* Types *)

LEMMA InitType == Init => TypeOK
<1> SUFFICES ASSUME Init PROVE TypeOK
  OBVIOUS
<1>1. RowTypeOK
  BY DEF Init, RowInit, RowTypeOK
<1>2. sig \in Sig
  BY DEF Init, NoSig, Sig
<1> QED BY <1>1, <1>2 DEF Init, TypeOK

\* The others keep the types of what the database and the broker hold.
LEMMA RowTypes == ASSUME RowTypeOK, RowNext PROVE RowTypeOK'
<1> USE DEF RowTypeOK
<1>1. CASE EngineInserts \/ EnginePlaces \/ EngineQueues \/ EngineNotifies
  BY <1>1 DEF EngineInserts, EnginePlaces, EngineQueues, EngineNotifies, Says, Open, Live, broker, db
<1>2. CASE WriteLeg \/ LoseWrites
  BY <1>2 DEF WriteLeg, LoseWrites, broker, db
<1>3. CASE WriteRow
  <2> DEFINE yes == TRUE
  <2>1. row' = [row EXCEPT !.status = "PENDING", !.ids = yes]
    BY <1>3 DEF WriteRow
  <2>2. yes \in BOOLEAN
    OBVIOUS
  <2> HIDE DEF yes
  <2>3. row' \in [status : Open \cup {"none", "EXPIRED", "CANCELLED", "HIT"},
                  entry : BOOLEAN, ids : BOOLEAN]
    BY <2>1, <2>2 DEF Open
  <2> QED BY <1>3, <2>3 DEF WriteRow, broker
<1>4. CASE FillEntry \/ FillExit \/ EndGtt
  BY <1>4 DEF FillEntry, FillExit, EndGtt, Live, Gone, db, writer
<1>5. CASE TrackerEnters
  <2> DEFINE yes == TRUE
  <2>1. row' = [row EXCEPT !.entry = yes]
    BY <1>5 DEF TrackerEnters
  <2>2. yes \in BOOLEAN
    OBVIOUS
  <2> HIDE DEF yes
  <2>3. row' \in [status : Open \cup {"none", "EXPIRED", "CANCELLED", "HIT"},
                  entry : BOOLEAN, ids : BOOLEAN]
    BY <2>1, <2>2
  <2> QED BY <1>5, <2>3 DEF TrackerEnters, broker, writer
<1>6. CASE TrackerActivates \/ TrackerCloses \/ TrackerEnds \/ MarkedByHand
  <2>1. \E s \in {"ACTIVE", "HIT", "CANCELLED", "EXPIRED"} : Says(s)
    BY <1>6 DEF TrackerActivates, TrackerCloses, TrackerEnds, MarkedByHand
  <2>2. UNCHANGED <<broker, known, writer>>
    BY <1>6 DEF TrackerActivates, TrackerCloses, TrackerEnds, MarkedByHand
  <2> QED BY <2>1, <2>2 DEF Says, Open, broker, writer
<1> QED BY <1>1, <1>2, <1>3, <1>4, <1>5, <1>6 DEF RowNext, Others

\* A step that leaves the others' part alone.
LEMMA RowKept == ASSUME RowTypeOK, UNCHANGED rowVars PROVE RowTypeOK'
BY DEF RowTypeOK, rowVars, broker, db, writer

LEMMA NextType == ASSUME TypeOK, [Next]_vars PROVE TypeOK'
<1> USE DEF TypeOK, copy, handler, history
<1>1. CASE Beside
  BY <1>1, RowTypes DEF Beside, RowNext, own
<1>2. CASE Listing
  BY <1>2, RowTypes DEF Listing, RowNext, own
<1>3. CASE Notice
  <2>1. streamed' \in BOOLEAN
    BY <1>3 DEF Notice
  <2> QED BY <1>3, <2>1, RowTypes DEF Notice, RowNext
<1>4. CASE TrackerUpserts
  BY <1>4, RowKept DEF TrackerUpserts, own
<1>5. CASE Start
  BY <1>5, RowKept DEF Start
<1>6. CASE Listen
  BY <1>6, RowKept DEF Listen
<1>7. CASE Timer
  BY <1>7, RowKept DEF Timer
<1>8. CASE OtherTick
  <2>1. sig' \in Sig
    BY <1>8, RefreshedFacts DEF OtherTick
  <2>2. due' \in BOOLEAN /\ settled' \in BOOLEAN
    BY <1>8 DEF OtherTick, Refresh
  <2> QED BY <1>8, <2>1, <2>2, RowKept DEF OtherTick
<1>9. ASSUME NEW p \in Prices, Tick(p) PROVE TypeOK'
  <2>1. sig' \in Sig /\ touching' \in BOOLEAN /\ seen' \in BOOLEAN
        /\ step' \in {"idle", "cancel", "expire"} /\ tick' \in Prices \cup {NoPrice}
    BY <1>9, TickFacts
  <2>2. due' \in BOOLEAN /\ settled' \in BOOLEAN
    BY <1>9 DEF Tick, Refresh
  <2> QED BY <1>9, <2>1, <2>2, RowKept DEF Tick
<1>10. CASE CancelOrder
  BY <1>10 DEF CancelOrder, RowTypeOK, Gone, db, writer
<1>11. CASE NothingToCancel
  <2>1. lost' \in BOOLEAN
    BY <1>11 DEF NothingToCancel
  <2> QED BY <1>11, <2>1, RowKept DEF NothingToCancel
<1>12. CASE ExpireRow
  <2>1. RowTypeOK'
    BY <1>12 DEF ExpireRow, ExpiredRow, RowTypeOK, Open, broker, writer
  <2> QED BY <1>12, <2>1 DEF ExpireRow, NoSig, Sig
<1>13. CASE WriteTouch
  BY <1>13, RowKept DEF WriteTouch
<1>14. CASE RefreshFails
  BY <1>14, RowKept DEF RefreshFails, Fault
<1>15. CASE CancelFails
  BY <1>15, RowKept DEF CancelFails, Fault
<1>16. CASE ExpireFails
  BY <1>16, RowKept DEF ExpireFails, Fault
<1>17. CASE WriteTouchFails
  <2>1. touching' \in BOOLEAN /\ dropped' \in BOOLEAN
    BY <1>17 DEF WriteTouchFails
  <2> QED BY <1>17, <2>1, RowKept DEF WriteTouchFails, Fault
<1>18. CASE Crash
  <2>1. sig' \in Sig
    BY <1>18 DEF Crash, NoSig, Sig
  <2>2. touching' \in BOOLEAN /\ dropped' \in BOOLEAN /\ settled' \in BOOLEAN
        /\ due' \in BOOLEAN /\ streamed' \in BOOLEAN
    BY <1>18 DEF Crash
  <2>3. up' = "down" /\ step' = "idle" /\ tick' = NoPrice /\ faults' \in Nat
    BY <1>18 DEF Crash, Fault
  <2> QED BY <1>18, <2>1, <2>2, <2>3, RowKept DEF Crash
<1>19. CASE UNCHANGED vars
  BY <1>19, RowKept DEF vars, own
<1> QED BY NextSplit, <1>1, <1>2, <1>3, <1>4, <1>5, <1>6, <1>7, <1>8, <1>9, <1>10,
           <1>11, <1>12, <1>13, <1>14, <1>15, <1>16, <1>17, <1>18, <1>19

\* Every variable of the price monitor keeps its type (price_monitor/main.py).
THEOREM TypeCorrect == Spec => []TypeOK
<1>1. Init => TypeOK
  BY InitType
<1>2. TypeOK /\ [Next]_vars => TypeOK'
  BY NextType
<1> QED BY <1>1, <1>2, PTL DEF Spec

-----------------------------------------------------------------------------
(* Touches and what may expire a row *)

\* A flag set anywhere was set by a tick, a set flag is in the database or on its
\* way unless it was dropped, and a tick being handled crossed the target.
TouchInv ==
    /\ sig.touched => seen
    /\ flag => seen
    /\ touching => seen
    /\ sig.touched => flag \/ touching \/ dropped
    /\ TouchIsKept
    /\ step # "idle" => seen /\ Crosses(tick)

LEMMA TouchKeeps ==
    ASSUME TouchInv, flag' = flag, sig'.touched = sig.touched,
           UNCHANGED <<touching, seen, dropped, handler>>
    PROVE  TouchInv'
BY DEF TouchInv, TouchIsKept, handler, Crosses

\* Nothing is seen or touched at the start.
LEMMA InitTouch == Init => TouchInv
<1> SUFFICES ASSUME Init PROVE TouchInv
  OBVIOUS
<1>1. ~sig.touched
  BY DEF Init, NoSig
<1>2. ~flag
  BY DEF Init
<1>3. ~touching /\ ~seen /\ step = "idle"
  BY DEF Init
<1> QED BY <1>1, <1>2, <1>3 DEF TouchInv, TouchIsKept

LEMMA NextTouch == ASSUME TypeOK, TouchInv, [Next]_vars PROVE TouchInv'
<1>1. CASE Beside \/ Listing \/ TrackerUpserts
  BY <1>1, TouchKeeps DEF Beside, Listing, TrackerUpserts, own, copy, handler, history
<1>2. CASE Notice
  BY <1>2, TouchKeeps DEF Notice, copy, handler, history
<1>3. CASE Start
  BY <1>3, TouchKeeps DEF Start, copy, handler, history
<1>4. CASE Listen
  BY <1>4, TouchKeeps DEF Listen, copy, handler, history
<1>5. CASE Timer
  BY <1>5, TouchKeeps DEF Timer, copy, handler, history
<1>6. CASE OtherTick
  <2>1. sig'.touched => flag \/ sig.touched
    BY <1>6, RefreshedFacts DEF OtherTick
  <2> QED BY <1>6, <2>1 DEF OtherTick, TouchInv, TouchIsKept, handler, history, Crosses
<1>7. ASSUME NEW p \in Prices, Tick(p) PROVE TouchInv'
  <2>1. PICK s \in Sig :
          /\ s = IF due THEN Refreshed ELSE sig
          /\ sig'.touched <=> s.touched \/ (s.known /\ Touches(p))
          /\ touching' <=> touching \/ (s.known /\ ~s.touched /\ Touches(p))
          /\ seen' <=> seen \/ (s.known /\ Touches(p))
          /\ \/ step' = "cancel" /\ tick' = p /\ sig'.touched /\ Crosses(p)
             \/ UNCHANGED handler
    BY <1>7, TickFacts
  <2>2. s.touched => flag \/ sig.touched
    BY <2>1, RefreshedFacts
  <2>3. UNCHANGED <<flag, dropped>>
    BY <1>7 DEF Tick
  <2>4. /\ sig'.touched => seen'
        /\ flag' => seen'
        /\ touching' => seen'
        /\ sig'.touched => flag' \/ touching' \/ dropped'
        /\ TouchIsKept'
    BY <2>1, <2>2, <2>3 DEF TouchInv, TouchIsKept
  <2>5. step' # "idle" => seen' /\ Crosses(tick')
    BY <2>1, <2>4 DEF TouchInv, handler
  <2>6. Crosses(tick)' = Crosses(tick')
    BY DEF Crosses
  <2> QED BY <2>4, <2>5, <2>6 DEF TouchInv
<1>8. CASE CancelOrder
  BY <1>8 DEF CancelOrder, TouchInv, TouchIsKept, copy, handler, history, Crosses
<1>9. CASE NothingToCancel
  BY <1>9 DEF NothingToCancel, TouchInv, TouchIsKept, copy, handler, history, Crosses
<1>10. CASE ExpireRow
  <2>1. flag' = flag
    BY <1>10 DEF ExpireRow
  <2>2. ~sig'.touched
    BY <1>10 DEF ExpireRow, NoSig
  <2>3. step' = "idle" /\ UNCHANGED <<touching, seen, dropped>>
    BY <1>10 DEF ExpireRow, history
  <2> QED BY <2>1, <2>2, <2>3 DEF TouchInv, TouchIsKept
<1>11. CASE WriteTouch
  <2>1. flag' /\ touching /\ ~touching' /\ UNCHANGED <<sig, seen, dropped, handler>>
    BY <1>11 DEF WriteTouch, copy, history
  <2> QED BY <2>1 DEF TouchInv, TouchIsKept, handler, Crosses
<1>12. CASE RefreshFails
  BY <1>12, TouchKeeps DEF RefreshFails, copy, handler, history
<1>13. CASE CancelFails
  BY <1>13 DEF CancelFails, TouchInv, TouchIsKept, copy, handler, history, Crosses
<1>14. CASE ExpireFails
  BY <1>14 DEF ExpireFails, TouchInv, TouchIsKept, copy, handler, history, Crosses
<1>15. CASE WriteTouchFails
  <2>1. dropped' /\ ~touching' /\ UNCHANGED <<flag, sig, seen, handler>>
    BY <1>15 DEF WriteTouchFails, copy
  <2> QED BY <2>1 DEF TouchInv, TouchIsKept, handler, Crosses
<1>16. CASE Crash
  <2>1. ~sig'.touched
    BY <1>16 DEF Crash, NoSig
  <2>2. /\ step' = "idle" /\ ~touching' /\ (dropped' <=> dropped \/ touching)
        /\ UNCHANGED <<flag, seen>>
    BY <1>16 DEF Crash
  <2> QED BY <2>1, <2>2 DEF TouchInv, TouchIsKept
<1>17. CASE UNCHANGED vars
  BY <1>17, TouchKeeps DEF vars, own, copy, handler, history
<1> QED BY NextSplit, <1>1, <1>2, <1>3, <1>4, <1>5, <1>6, <1>7, <1>8, <1>9, <1>10,
           <1>11, <1>12, <1>13, <1>14, <1>15, <1>16, <1>17

\* A tick's touch is in the database or queued for it (price_monitor/main.py:251-258)
\* unless the queued write was lost.
THEOREM TouchesAreKept == Spec => []TouchIsKept
<1>1. Init => TypeOK /\ TouchInv
  BY InitType, InitTouch
<1>2. TypeOK /\ TouchInv /\ [Next]_vars => (TypeOK /\ TouchInv)'
  BY NextType, NextTouch
<1>3. TouchInv => TouchIsKept
  BY DEF TouchInv
<1> QED BY <1>1, <1>2, <1>3, PTL DEF Spec

\* The step that ends the handling of a tick expires a row only under the rule.
LEMMA ExpiryStep ==
    ASSUME TypeOK, TouchInv, [Next]_vars, step = "expire", step' = "idle",
           row'.status # row.status
    PROVE  seen /\ Crosses(tick) /\ row.status = "PENDING"
<1>1. ExpireRow
  <2>1. row' # row /\ step' # step
    OBVIOUS
  <2> QED BY <2>1, NextSplit
          DEF vars, rowVars, broker, db, own, copy, handler, history, Running, Beside, Listing,
              Notice, TrackerUpserts, EngineNotifies, WriteLeg, Start, Listen, Timer, OtherTick,
              Tick, CancelOrder, NothingToCancel, WriteTouch, RefreshFails, CancelFails,
              ExpireFails, WriteTouchFails, Crash
<1>2. row' = ExpiredRow
  BY <1>1 DEF ExpireRow
<1>3. row.status = "PENDING"
  BY <1>2 DEF ExpiredRow
<1> QED BY <1>3 DEF TouchInv

\* The monitor expires only what was touched, then crossed, and is still PENDING
\* (price_monitor/main.py:107-120 and the guard of the UPDATE at 328-335).
THEOREM ExpiriesWereMissed == Spec => ExpiryWasMissed
<1>1. Init => TypeOK /\ TouchInv
  BY InitType, InitTouch
<1>2. TypeOK /\ TouchInv /\ [Next]_vars => (TypeOK /\ TouchInv)'
  BY NextType, NextTouch
<1>3. TypeOK /\ TouchInv /\ [Next]_vars =>
        [step = "expire" /\ row' # row /\ row'.status # row.status /\ step' = "idle" =>
           seen /\ Crosses(tick) /\ row.status = "PENDING"]_vars
  BY ExpiryStep
<1> QED BY <1>1, <1>2, <1>3, PTL DEF Spec, ExpiryWasMissed

-----------------------------------------------------------------------------
(* The order behind an expired row *)

\* Whatever names the order was written after it was placed.
Placed ==
    /\ gtt = "none" <=> engine \in {"new", "placing"}
    /\ queued # {} => gtt # "none"
    /\ row.ids => gtt # "none"
    /\ known => gtt # "none"

\* An order that was looked for and found is no longer waiting, and neither is an
\* expired row's.
OrderInv ==
    /\ Placed
    /\ sig.ids \/ listed => gtt # "none"
    /\ step = "expire" /\ ~lost => gtt \notin {"none", "pending"}
    /\ ExpiredMeansCancelled

\* What the others write of an order is so, and of them only the tracker lets a row
\* expire, when the GTT has gone.
LEMMA OthersKeepOrder ==
    ASSUME RowTypeOK, Placed, RowNext
    PROVE  /\ Placed'
           /\ gtt' = "none" => gtt = "none"
           /\ gtt' = "pending" => gtt \in {"none", "pending"}
           /\ row'.status = "EXPIRED" => row.status = "EXPIRED" \/ gtt' \in Gone
<1> USE DEF RowTypeOK, Placed
<1>1. CASE EngineInserts
  <2>1. row' = [row EXCEPT !.status = "PENDING"]
    BY <1>1 DEF EngineInserts, Says
  <2>2. row'.status = "PENDING" /\ row'.ids = row.ids
    BY <2>1
  <2> QED BY <1>1, <2>2 DEF EngineInserts, broker
<1>2. CASE EnginePlaces \/ EngineQueues \/ EngineNotifies
  BY <1>2 DEF EnginePlaces, EngineQueues, EngineNotifies, broker, db
<1>3. CASE WriteLeg \/ LoseWrites
  BY <1>3 DEF WriteLeg, LoseWrites, broker, db
<1>4. CASE WriteRow
  <2> DEFINE yes == TRUE
  <2>1. row' = [row EXCEPT !.status = "PENDING", !.ids = yes]
    BY <1>4 DEF WriteRow
  <2> HIDE DEF yes
  <2>2. row'.status = "PENDING"
    BY <2>1
  <2> QED BY <1>4, <2>2 DEF WriteRow, broker
<1>5. CASE FillEntry \/ FillExit \/ EndGtt
  BY <1>5 DEF FillEntry, FillExit, EndGtt, Live, db, writer
<1>6. CASE TrackerEnters
  <2> DEFINE yes == TRUE
  <2>1. row' = [row EXCEPT !.entry = yes]
    BY <1>6 DEF TrackerEnters
  <2> HIDE DEF yes
  <2>2. row'.status = row.status /\ row'.ids = row.ids
    BY <2>1
  <2> QED BY <1>6, <2>2 DEF TrackerEnters, broker, writer
<1>7. CASE TrackerActivates \/ TrackerCloses \/ MarkedByHand
  <2>1. \E s \in {"ACTIVE", "HIT", "CANCELLED"} : Says(s)
    BY <1>7 DEF TrackerActivates, TrackerCloses, MarkedByHand
  <2>2. row'.status # "EXPIRED" /\ row'.ids = row.ids
    BY <2>1 DEF Says
  <2> QED BY <1>7, <2>2 DEF TrackerActivates, TrackerCloses, MarkedByHand, broker, writer
<1>8. CASE TrackerEnds
  <2>1. \E s \in {"CANCELLED", "EXPIRED"} : Says(s)
    BY <1>8 DEF TrackerEnds
  <2>2. row'.ids = row.ids
    BY <2>1 DEF Says
  <2> QED BY <1>8, <2>2 DEF TrackerEnds, broker, writer
<1> QED BY <1>1, <1>2, <1>3, <1>4, <1>5, <1>6, <1>7, <1>8 DEF RowNext, Others

\* What an action that leaves the order alone has to keep.
LEMMA OrderKeeps ==
    ASSUME OrderInv, UNCHANGED <<rowVars, listed, lost>>,
           sig'.ids => gtt # "none",
           step' = "expire" => step = "expire"
    PROVE  OrderInv'
BY DEF OrderInv, ExpiredMeansCancelled, Placed, rowVars, broker, db, writer

\* What the others do to it.
LEMMA BesideKeepsOrder ==
    ASSUME TypeOK, OrderInv, RowNext, UNCHANGED <<sig, step, lost>>,
           listed' => listed \/ known'
    PROVE  OrderInv'
<1>1. /\ Placed'
      /\ gtt' = "none" => gtt = "none"
      /\ gtt' = "pending" => gtt \in {"none", "pending"}
      /\ row'.status = "EXPIRED" => row.status = "EXPIRED" \/ gtt' \in Gone
  BY OthersKeepOrder DEF TypeOK, OrderInv
<1>2. ExpiredMeansCancelled'
  BY <1>1 DEF OrderInv, ExpiredMeansCancelled, Gone
<1>3. sig'.ids \/ listed' => gtt' # "none"
  BY <1>1 DEF OrderInv, Placed
<1> QED BY <1>1, <1>2, <1>3 DEF OrderInv

LEMMA InitOrder == Init => OrderInv
<1> SUFFICES ASSUME Init PROVE OrderInv
  OBVIOUS
<1>1. ~sig.ids
  BY DEF Init, NoSig
<1>2. ~row.ids /\ row.status = "none"
  BY DEF Init, RowInit
<1> QED BY <1>1, <1>2 DEF Init, RowInit, OrderInv, Placed, ExpiredMeansCancelled

LEMMA NextOrder == ASSUME TypeOK, OrderInv, [Next]_vars PROVE OrderInv'
<1>1. CASE Beside
  BY <1>1, BesideKeepsOrder DEF Beside, RowNext, own, copy, handler, history
<1>2. CASE Listing
  <2>1. known'
    BY <1>2 DEF Listing, WriteLeg
  <2> QED BY <1>2, <2>1, BesideKeepsOrder DEF Listing, RowNext, own, copy, handler, history
<1>3. CASE Notice
  BY <1>3, BesideKeepsOrder DEF Notice, RowNext, copy, handler, history
<1>4. CASE TrackerUpserts
  BY <1>4 DEF TrackerUpserts, own, rowVars, broker, db, writer, copy, handler, history,
     OrderInv, ExpiredMeansCancelled, Placed
<1>5. CASE Start
  BY <1>5, OrderKeeps DEF Start, copy, handler, history, OrderInv
<1>6. CASE Listen
  BY <1>6, OrderKeeps DEF Listen, copy, handler, history, OrderInv
<1>7. CASE Timer
  BY <1>7, OrderKeeps DEF Timer, copy, handler, history, OrderInv
<1>8. CASE OtherTick
  <2>1. sig'.ids => row.ids
    BY <1>8, RefreshedFacts DEF OtherTick
  <2> QED BY <1>8, <2>1, OrderKeeps DEF OtherTick, OrderInv, Placed, handler, history
<1>9. ASSUME NEW p \in Prices, Tick(p) PROVE OrderInv'
  <2>1. PICK s \in Sig :
          /\ s = IF due THEN Refreshed ELSE sig
          /\ sig'.ids = s.ids
          /\ step' = "cancel" \/ UNCHANGED handler
    BY <1>9, TickFacts
  <2>2. sig'.ids => row.ids \/ sig.ids
    BY <2>1, RefreshedFacts
  <2>3. step' = "expire" => step = "expire"
    BY <2>1 DEF handler
  <2>4. UNCHANGED <<rowVars, listed, lost>>
    BY <1>9 DEF Tick
  <2> QED BY <2>2, <2>3, <2>4, OrderKeeps DEF OrderInv, Placed
<1>10. CASE CancelOrder
  <2>1. gtt # "none"
    BY <1>10 DEF CancelOrder, CancelTargets, OrderInv
  <2>2. gtt' = "cancelled" \/ (gtt' = gtt /\ gtt # "pending")
    BY <1>10 DEF CancelOrder, Live
  <2>3. UNCHANGED <<row, known, engine, queued, listed, sig, lost>>
    BY <1>10 DEF CancelOrder, db, writer, copy, history
  <2> QED BY <2>1, <2>2, <2>3 DEF OrderInv, Placed, ExpiredMeansCancelled
<1>11. CASE NothingToCancel
  <2>1. lost'
    BY <1>11 DEF NothingToCancel, CancelTargets
  <2>2. UNCHANGED <<gtt, row, known, engine, queued, listed, sig>>
    BY <1>11 DEF NothingToCancel, rowVars, broker, db, writer, copy
  <2> QED BY <2>1, <2>2 DEF OrderInv, Placed, ExpiredMeansCancelled
<1>12. CASE ExpireRow
  <2>1. row'.ids = row.ids
    BY <1>12 DEF ExpireRow, ExpiredRow, TypeOK, RowTypeOK
  <2>2. ~sig'.ids
    BY <1>12 DEF ExpireRow, NoSig
  <2>3. step = "expire" /\ step' = "idle"
        /\ UNCHANGED <<gtt, known, engine, queued, listed, lost>>
    BY <1>12 DEF ExpireRow, broker, writer, history
  <2> QED BY <2>1, <2>2, <2>3 DEF OrderInv, Placed, ExpiredMeansCancelled
<1>13. CASE WriteTouch
  BY <1>13, OrderKeeps DEF WriteTouch, copy, handler, history, OrderInv
<1>14. CASE RefreshFails
  BY <1>14, OrderKeeps DEF RefreshFails, copy, handler, history, OrderInv
<1>15. CASE CancelFails
  <2>1. lost' /\ UNCHANGED <<gtt, row, known, engine, queued, listed, sig>>
    BY <1>15 DEF CancelFails, rowVars, broker, db, writer, copy
  <2> QED BY <2>1 DEF OrderInv, Placed, ExpiredMeansCancelled
<1>16. CASE ExpireFails
  BY <1>16, OrderKeeps DEF ExpireFails, copy, handler, history, OrderInv
<1>17. CASE WriteTouchFails
  BY <1>17, OrderKeeps DEF WriteTouchFails, copy, handler, history, OrderInv
<1>18. CASE Crash
  <2>1. ~sig'.ids
    BY <1>18 DEF Crash, NoSig
  <2> QED BY <1>18, <2>1, OrderKeeps DEF Crash
<1>19. CASE UNCHANGED vars
  BY <1>19, OrderKeeps DEF vars, own, copy, handler, history, OrderInv
<1> QED BY NextSplit, <1>1, <1>2, <1>3, <1>4, <1>5, <1>6, <1>7, <1>8, <1>9, <1>10,
           <1>11, <1>12, <1>13, <1>14, <1>15, <1>16, <1>17, <1>18, <1>19

\* An expired row's GTT does not wait at the broker unless the cancel failed or
\* found no order (price_monitor/main.py:304-338).
THEOREM ExpiredRowsHaveNoOrder == Spec => []ExpiredMeansCancelled
<1>1. Init => TypeOK /\ OrderInv
  BY InitType, InitOrder
<1>2. TypeOK /\ OrderInv /\ [Next]_vars => (TypeOK /\ OrderInv)'
  BY NextType, NextOrder
<1>3. OrderInv => ExpiredMeansCancelled
  BY DEF OrderInv
<1> QED BY <1>1, <1>2, <1>3, PTL DEF Spec

-----------------------------------------------------------------------------
(* Fills the monitor knows of *)

\* A copy that says the entry is open was not read from a row that said it is filled,
\* and only such a copy leads to a cancel.
SettledInv ==
    /\ sig.known /\ ~sig.filled => ~settled
    /\ step # "idle" => ~settled

LEMMA InitSettled == Init => SettledInv
BY DEF Init, SettledInv

LEMMA NextSettled == ASSUME TypeOK, SettledInv, [Next]_vars PROVE SettledInv'
<1>1. CASE Beside \/ Listing \/ TrackerUpserts
  BY <1>1 DEF Beside, Listing, TrackerUpserts, own, SettledInv, copy, handler
<1>2. CASE Notice
  BY <1>2 DEF Notice, SettledInv, copy, handler
<1>3. CASE Start
  BY <1>3 DEF Start, SettledInv, copy, handler
<1>4. CASE Listen
  BY <1>4 DEF Listen, SettledInv, copy, handler
<1>5. CASE Timer
  BY <1>5 DEF Timer, SettledInv, copy, handler
<1>6. CASE OtherTick
  <2>1. sig'.known /\ ~sig'.filled => ~settled'
    BY <1>6, RefreshedFacts DEF OtherTick, Refresh
  <2>2. step' = "idle"
    BY <1>6 DEF OtherTick, Running, handler
  <2> QED BY <2>1, <2>2 DEF SettledInv
<1>7. ASSUME NEW p \in Prices, Tick(p) PROVE SettledInv'
  <2>1. PICK s \in Sig :
          /\ s = IF due THEN Refreshed ELSE sig
          /\ sig'.known = s.known /\ sig'.filled = s.filled
          /\ (step' = "cancel" /\ sig'.known /\ ~sig'.filled) \/ UNCHANGED handler
    BY <1>7, TickFacts
  <2>2. settled' = IF due THEN row.status = "ACTIVE" ELSE settled
    BY <1>7 DEF Tick, Refresh
  <2>3. s.known /\ ~s.filled => ~settled'
    BY <2>1, <2>2, RefreshedFacts DEF SettledInv
  <2>4. step = "idle"
    BY <1>7 DEF Tick, Running
  <2> QED BY <2>1, <2>3, <2>4 DEF SettledInv, handler
<1>8. CASE CancelOrder
  BY <1>8 DEF CancelOrder, SettledInv, copy, handler
<1>9. CASE NothingToCancel
  BY <1>9 DEF NothingToCancel, SettledInv, copy, handler
<1>10. CASE ExpireRow
  <2>1. ~sig'.known /\ step' = "idle"
    BY <1>10 DEF ExpireRow, NoSig
  <2> QED BY <2>1 DEF SettledInv
<1>11. CASE WriteTouch
  BY <1>11 DEF WriteTouch, SettledInv, copy, handler
<1>12. CASE RefreshFails
  BY <1>12 DEF RefreshFails, SettledInv, copy, handler
<1>13. CASE CancelFails
  BY <1>13 DEF CancelFails, SettledInv, copy, handler
<1>14. CASE ExpireFails
  BY <1>14 DEF ExpireFails, SettledInv, copy, handler
<1>15. CASE WriteTouchFails
  BY <1>15 DEF WriteTouchFails, SettledInv, copy, handler
<1>16. CASE Crash
  <2>1. ~sig'.known /\ step' = "idle"
    BY <1>16 DEF Crash, NoSig
  <2> QED BY <2>1 DEF SettledInv
<1>17. CASE UNCHANGED vars
  BY <1>17 DEF vars, own, SettledInv, copy, handler
<1> QED BY NextSplit, <1>1, <1>2, <1>3, <1>4, <1>5, <1>6, <1>7, <1>8, <1>9, <1>10,
           <1>11, <1>12, <1>13, <1>14, <1>15, <1>16, <1>17

\* The monitor does not cancel a GTT whose fill its last refresh read
\* (entry_filled, price_monitor/main.py:220 and 109-117).
THEOREM KnownFillsAreSpared == Spec => KnownFillIsSpared
<1>1. Init => TypeOK /\ SettledInv
  BY InitType, InitSettled
<1>2. TypeOK /\ SettledInv /\ [Next]_vars => (TypeOK /\ SettledInv)'
  BY NextType, NextSettled
<1>3. SettledInv => [step = "cancel" /\ step' = "expire" /\ gtt = "triggered" => ~settled]_vars
  BY DEF SettledInv
<1> QED BY <1>1, <1>2, <1>3, PTL DEF Spec, KnownFillIsSpared
=============================================================================
