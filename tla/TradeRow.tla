------------------------------ MODULE TradeRow ------------------------------
(***************************************************************************)
(* One signal's GTT and what the v2 database says of it, under everybody   *)
(* but the price monitor: the trading engine, which inserts the row,       *)
(* places the GTT and stores its legs and ids through a queue that may     *)
(* lose them; the broker; the order tracker, one commit a step; and the    *)
(* admin API.  PriceMonitor is built on this module, and OrderTracker and  *)
(* ManualActions, which have these parts in detail, keep to it: what the   *)
(* monitor assumes of the others is what they do.  The engine's sweep of   *)
(* stale rows is not among these steps.                                    *)
(***************************************************************************)
EXTENDS Integers

VARIABLES
    gtt,       \* the GTT at the broker
    filled,    \* its entry leg is filled
    row,       \* the signal's row: status, entry_price known, ids stored
    known,     \* gtt_rules has a row of the GTT
    engine,    \* where process_signal stands
    queued     \* the engine's queued writes: legs, row

broker  == <<gtt, filled>>
db      == <<row, known>>
writer  == <<engine, queued>>
rowVars == <<broker, db, writer>>

Live == {"pending", "triggered"}
Gone == {"cancelled", "expired"}
Open == {"PENDING", "ACTIVE"}

RowTypeOK ==
    /\ gtt \in Live \cup Gone \cup {"none", "closed"} /\ filled \in BOOLEAN
    /\ row \in [status : Open \cup {"none", "EXPIRED", "CANCELLED", "HIT"},
                entry : BOOLEAN, ids : BOOLEAN]
    /\ known \in BOOLEAN
    /\ engine \in {"new", "placing", "placed", "notifying", "done"}
    /\ queued \subseteq {"legs", "row"}

RowInit ==
    /\ gtt = "none" /\ filled = FALSE
    /\ row = [status |-> "none", entry |-> FALSE, ids |-> FALSE]
    /\ known = FALSE /\ engine = "new" /\ queued = {}

\* The engine is done with the signal, but for its queue.
HandedOver ==
    /\ gtt = "pending" /\ filled = FALSE
    /\ row = [status |-> "PENDING", entry |-> FALSE, ids |-> FALSE]
    /\ known = FALSE /\ engine = "done" /\ queued = {"legs", "row"}

Says(s) == row' = [row EXCEPT !.status = s]

-----------------------------------------------------------------------------
(* The trading engine: insert, place, queue the leg rows and the ids, publish *)

EngineInserts ==
    /\ engine = "new"
    /\ engine' = "placing"
    /\ Says("PENDING")
    /\ UNCHANGED <<broker, known, queued>>

EnginePlaces ==
    /\ engine = "placing"
    /\ engine' = "placed"
    /\ gtt' = "pending"
    /\ UNCHANGED <<filled, db, queued>>

EngineQueues ==
    /\ engine = "placed"
    /\ engine' = "notifying"
    /\ queued' = {"legs", "row"}
    /\ UNCHANGED <<broker, db>>

EngineNotifies ==
    /\ engine = "notifying"
    /\ engine' = "done"
    /\ UNCHANGED <<broker, db, queued>>

\* One of the three leg rows.
WriteLeg ==
    /\ "legs" \in queued
    /\ queued' \in {queued, queued \ {"legs"}}
    /\ known' = TRUE
    /\ UNCHANGED <<broker, row, engine>>

WriteRow ==
    /\ queued = {"row"}
    /\ queued' = {}
    /\ row' = [row EXCEPT !.status = "PENDING", !.ids = TRUE]
    /\ UNCHANGED <<broker, known, engine>>

\* A failed statement, or the end of the process that holds the queue.
LoseWrites ==
    /\ queued' \in SUBSET queued
    /\ UNCHANGED <<broker, db, engine>>

-----------------------------------------------------------------------------
(* The broker (outside the code) *)

FillEntry ==
    /\ gtt = "pending"
    /\ gtt' = "triggered" /\ filled' = TRUE
    /\ UNCHANGED <<db, writer>>

FillExit ==
    /\ gtt = "triggered"
    /\ gtt' = "closed"
    /\ UNCHANGED <<filled, db, writer>>

EndGtt ==
    /\ \/ gtt = "pending" /\ gtt' = "expired"
       \/ gtt \in Live /\ gtt' = "cancelled"
    /\ UNCHANGED <<filled, db, writer>>

-----------------------------------------------------------------------------
(* The order tracker, and the admin API *)

\* An order's trades give the row its entry price, and then, in a commit of its
\* own, the status of a running trade or of one that is over, whatever it said.
TrackerEnters ==
    /\ filled /\ known
    /\ row' = [row EXCEPT !.entry = TRUE]
    /\ UNCHANGED <<broker, known, writer>>

TrackerActivates ==
    /\ known /\ row.entry
    /\ Says("ACTIVE")
    /\ UNCHANGED <<broker, known, writer>>

TrackerCloses ==
    /\ known /\ row.entry
    /\ Says("HIT")
    /\ UNCHANGED <<broker, known, writer>>

\* A GTT update: the row takes its status, whatever it said.
TrackerEnds ==
    /\ gtt \in Gone /\ known
    /\ Says(IF gtt = "cancelled" THEN "CANCELLED" ELSE "EXPIRED")
    /\ UNCHANGED <<broker, known, writer>>

\* A cancel or an exit by hand marks the row at its end.
MarkedByHand ==
    /\ engine # "new"
    /\ Says("CANCELLED")
    /\ UNCHANGED <<broker, known, writer>>

-----------------------------------------------------------------------------

Others ==
    \/ EngineInserts \/ EnginePlaces \/ EngineQueues
    \/ WriteRow \/ LoseWrites
    \/ FillEntry \/ FillExit \/ EndGtt
    \/ TrackerEnters \/ TrackerActivates \/ TrackerCloses \/ TrackerEnds
    \/ MarkedByHand

RowNext == Others \/ WriteLeg \/ EngineNotifies
=============================================================================
