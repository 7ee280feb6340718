---------------------------- MODULE TradingEngine ----------------------------
(***************************************************************************)
(* The v2 trading engine: one consumer of the signal stream that turns a   *)
(* message into at most one GTT order (process_signal), the queue that     *)
(* writes its outcome to the database behind its back (AsyncDBWriter), the *)
(* two-minute sweep that expires stale rows (reconcile_stale), and what a  *)
(* crash leaves for the next start (stream_reclaim_pending).               *)
(*                                                                         *)
(* A message is a model value; HashOf[m] is the trade idea it carries, so  *)
(* two messages with one hash are a re-sent signal.  The validation gates  *)
(* before the insert only decide between blocking and going on, and are a  *)
(* choice here.  Prices, quantities and reasons are abstracted away.       *)
(***************************************************************************)
EXTENDS Naturals, Sequences, FiniteSets

CONSTANTS
    Msgs,        \* the stream entries that are ever published
    NoMsg,       \* not a message
    Hashes,      \* signal hashes: the trade ideas
    HashOf,      \* HashOf[m]: compute_signal_hash of the parsed message
    Malformed,   \* messages parse_message_to_signal answers None for
    MaxRetry,    \* MAX_RETRY of the Upstox client (3)
    QueueCap,    \* capacity of the write queue (10_000)
    BatchSize,   \* count of one stream_read_group (10)
    Raises,      \* exceptions that occur: subset of {"db_connection", "other"}
    MaxFaults    \* bound: crashes, exceptions and failed writes together

ASSUME MsgAssumption ==
    /\ NoMsg \notin Msgs
    /\ HashOf \in [Msgs -> Hashes]
    /\ Malformed \subseteq Msgs

ASSUME BoundAssumption ==
    /\ MaxRetry \in Nat \ {0}
    /\ QueueCap \in Nat
    /\ BatchSize \in Nat \ {0}
    /\ Raises \subseteq {"db_connection", "other"}
    /\ MaxFaults \in Nat

VARIABLES
    unread,      \* published, not yet delivered to the consumer group
    pel,         \* delivered, not acknowledged: the pending entries list
    acked,       \* acknowledged
    up,          \* the process is running
    batch,       \* entries of the last read that are still to be processed
    reclaim,     \* the batch came from stream_reclaim_pending
    pc,          \* where process_signal stands
    cur,         \* the message it works on
    attempt,     \* retries of the running HTTP request
    status,      \* signals.status per hash, "none" without a row
    hasIds,      \* signals.gtt_order_ids is set
    legs,        \* the legs of the order that have a gtt_rules row
    queue,       \* AsyncDBWriter._queue: jobs not yet applied
    recon,       \* rows read by reconcile_stale and not yet handled
    aged,        \* rows older than gtt_expiry_hours
    known,       \* the order whose ids place_gtt returned
    orphans,     \* orders the broker created and never told us the id of
    calls,       \* history: place_gtt invocations
    excused,     \* history: hashes hit by a fault the code only logs
    faults       \* history: number of faults so far

stream  == <<unread, pel, acked>>
engine  == <<up, batch, reclaim, pc, cur, attempt>>
db      == <<status, hasIds, legs>>
sweep   == <<recon, aged>>
broker  == <<known, orphans>>
history == <<calls, excused, faults>>
vars    == <<stream, engine, db, queue, sweep, broker, history>>

Legs     == {"ENTRY", "TARGET", "STOPLOSS"}
Statuses == {"none", "PENDING", "BLOCKED", "FAILED", "EXPIRED"}
Steps    == {"idle", "process", "rate", "place", "record", "notify", "ack"}
Job      == [op : {"block", "fail", "placed", "expire"} \cup Legs, hash : Hashes]

StreamTypeOK == unread \subseteq Msgs /\ pel \subseteq Msgs /\ acked \subseteq Msgs

EngineTypeOK ==
    /\ up \in BOOLEAN /\ reclaim \in BOOLEAN
    /\ batch \subseteq Msgs
    /\ pc \in Steps
    /\ cur \in Msgs \cup {NoMsg}
    /\ pc = "idle" <=> cur = NoMsg
    /\ attempt \in Nat

DbTypeOK ==
    /\ status \in [Hashes -> Statuses]
    /\ hasIds \in [Hashes -> BOOLEAN]
    /\ legs \in [Hashes -> SUBSET Legs]

SweepTypeOK == recon \subseteq Hashes /\ aged \subseteq Hashes

BrokerTypeOK ==
    /\ known \in [Hashes -> {"none", "live", "cancelled"}]
    /\ orphans \in [Hashes -> Nat]

HistoryTypeOK ==
    /\ calls \in [Hashes -> Nat]
    /\ excused \subseteq Hashes
    /\ faults \in Nat

TypeOK ==
    /\ StreamTypeOK
    /\ EngineTypeOK
    /\ DbTypeOK
    /\ queue \in Seq(Job)
    /\ SweepTypeOK
    /\ BrokerTypeOK
    /\ HistoryTypeOK

Init ==
    /\ unread = {} /\ pel = {} /\ acked = {}
    /\ up = TRUE /\ batch = {} /\ reclaim = FALSE
    /\ pc = "idle" /\ cur = NoMsg /\ attempt = 0
    /\ status = [h \in Hashes |-> "none"]
    /\ hasIds = [h \in Hashes |-> FALSE]
    /\ legs = [h \in Hashes |-> {}]
    /\ queue = <<>>
    /\ recon = {} /\ aged = {}
    /\ known = [h \in Hashes |-> "none"]
    /\ orphans = [h \in Hashes |-> 0]
    /\ calls = [h \in Hashes |-> 0]
    /\ excused = {}
    /\ faults = 0

-----------------------------------------------------------------------------
(* Helpers *)

H == HashOf[cur]

Fault == faults < MaxFaults /\ faults' = faults + 1

\* A job of operation op for h waits in the queue q.
Has(q, op, h) == \E i \in 1..Len(q) : q[i] = [op |-> op, hash |-> h]

Queued(op, h) == Has(queue, op, h)

\* put_nowait: a job that meets a full queue is dropped with a warning.
Put(q, op, h) ==
    IF Len(q) < QueueCap THEN Append(q, [op |-> op, hash |-> h]) ELSE q

\* Mutant of PutPlaced: the stop-loss leg is forgotten.
PutPlacedTwoLegs(q, h) == Put(Put(Put(q, "ENTRY", h), "TARGET", h), "placed", h)

\* The four writes after a placement, queued without an await in between.
PutPlaced(q, h) ==
    Put(Put(Put(Put(q, "ENTRY", h), "TARGET", h), "STOPLOSS", h), "placed", h)

\* n jobs for h that do not all fit lose part of h's outcome.
ExcuseOverflow(n, h) ==
    excused' = IF Len(queue) + n <= QueueCap THEN excused ELSE excused \cup {h}

\* process_signal works on h's row and has not queued the outcome yet.
Owns(h) == pc \in {"rate", "place", "record"} /\ H = h

\* Nothing that decides h's row is running or queued.
Quiet(h) == ~Owns(h) /\ ~Queued("fail", h) /\ ~Queued("placed", h)

-----------------------------------------------------------------------------
(* Stream *)

\* The ingestor appends an entry.
Publish(m) ==
    /\ m \notin unread \cup pel \cup acked
    /\ unread' = unread \cup {m}
    /\ UNCHANGED <<pel, acked, engine, db, queue, sweep, broker, history>>

\* One stream_read_group of the main loop: new entries only.
Deliver ==
    /\ up /\ pc = "idle" /\ batch = {}
    /\ \E read \in SUBSET unread :
        /\ Cardinality(read) \in 1..BatchSize
        /\ unread' = unread \ read
        /\ pel' = pel \cup read
        /\ batch' = read
    /\ reclaim' = FALSE
    /\ UNCHANGED <<acked, up, pc, cur, attempt, db, queue, sweep, broker, history>>

\* stream_ack, after process_signal returned or in the generic handler.
Ack ==
    /\ up /\ pc = "ack"
    /\ pel' = pel \ {cur}
    /\ acked' = acked \cup {cur}
    /\ pc' = "idle" /\ cur' = NoMsg
    /\ UNCHANGED <<unread, up, batch, reclaim, attempt, db, queue, sweep, broker, history>>

-----------------------------------------------------------------------------
(* process_signal *)

\* The loop body takes the next entry of its batch.
Begin ==
    /\ up /\ pc = "idle"
    /\ \E m \in batch :
        /\ cur' = m
        /\ batch' = batch \ {m}
    /\ pc' = "process"
    /\ UNCHANGED <<stream, up, reclaim, attempt, db, queue, sweep, broker, history>>

Goto(step) == pc' = step /\ UNCHANGED <<up, batch, reclaim, cur>>

\* An exception leaves process_signal: the main loop acknowledges the entry
\* all the same, the reclaim loop leaves it in the PEL.
Escape ==
    /\ pc' = IF reclaim THEN "idle" ELSE "ack"
    /\ cur' = IF reclaim THEN NoMsg ELSE cur
    /\ UNCHANGED <<up, batch, reclaim>>

\* The outcome of the signal is queued and the entry acknowledged.
Finish(op) ==
    /\ queue' = Put(queue, op, H)
    /\ ExcuseOverflow(1, H)
    /\ Goto("ack")

ParseFails ==
    /\ up /\ pc = "process" /\ cur \in Malformed
    /\ Goto("ack")
    /\ UNCHANGED <<stream, attempt, db, queue, sweep, broker, history>>

\* Mutant of GateBlocks: the entry is acknowledged and no row queued.
GateBlocksSilently ==
    /\ up /\ pc = "process" /\ cur \notin Malformed
    /\ Goto("ack")
    /\ UNCHANGED <<stream, attempt, db, queue, sweep, broker, history>>

\* A gate refuses: a BLOCKED row is queued, the entry acknowledged.
GateBlocks ==
    /\ up /\ pc = "process" /\ cur \notin Malformed
    /\ Finish("block")
    /\ UNCHANGED <<stream, attempt, db, sweep, broker, calls, faults>>

\* Mutant of InsertWins: the insert has no ON CONFLICT clause and no unique hash.
InsertAlways ==
    /\ up /\ pc = "process" /\ cur \notin Malformed
    /\ status' = [status EXCEPT ![H] = "PENDING"]
    /\ Goto("rate")
    /\ UNCHANGED <<stream, attempt, hasIds, legs, queue, sweep, broker, history>>

\* All gates pass and INSERT .. ON CONFLICT DO NOTHING wins the row.
InsertWins ==
    /\ up /\ pc = "process" /\ cur \notin Malformed
    /\ status[H] = "none"
    /\ status' = [status EXCEPT ![H] = "PENDING"]
    /\ Goto("rate")
    /\ UNCHANGED <<stream, attempt, hasIds, legs, queue, sweep, broker, history>>

\* A row with this hash exists, whatever its status: skipped as a duplicate.
InsertSkips ==
    /\ up /\ pc = "process" /\ cur \notin Malformed
    /\ status[H] # "none"
    /\ Goto("ack")
    /\ UNCHANGED <<stream, attempt, db, queue, sweep, broker, history>>

\* The connection dies in the INSERT, which may have been committed.  A
\* PostgresConnectionError is not acknowledged.
InsertBreaks ==
    /\ up /\ pc = "process" /\ cur \notin Malformed
    /\ "db_connection" \in Raises /\ Fault
    /\ \/ UNCHANGED status
       \/ /\ status[H] = "none"
          /\ status' = [status EXCEPT ![H] = "PENDING"]
    /\ excused' = excused \cup {H}
    /\ pc' = "idle" /\ cur' = NoMsg
    /\ UNCHANGED <<stream, up, batch, reclaim, attempt, hasIds, legs, queue, sweep,
                   broker, calls>>

\* Redis, the pool or a bug raises something else: before the insert the
\* signal is gone, after it the row stays PENDING without an order.
ProcessRaises ==
    /\ up /\ pc \in {"process", "rate"} /\ cur \notin Malformed
    /\ "other" \in Raises /\ Fault
    /\ excused' = excused \cup {H}
    /\ Escape
    /\ UNCHANGED <<stream, attempt, db, queue, sweep, broker, calls>>

\* Mutant of RateDenies: returns before the FAILED status is queued.
RateDeniesSilently ==
    /\ up /\ pc = "rate"
    /\ Goto("ack")
    /\ UNCHANGED <<stream, attempt, db, queue, sweep, broker, history>>

\* rate_acquire refuses: the claimed row is to become FAILED.
RateDenies ==
    /\ up /\ pc = "rate"
    /\ Finish("fail")
    /\ UNCHANGED <<stream, attempt, db, sweep, broker, calls, faults>>

\* rate_acquire allows: place_gtt is called.
RateAllows ==
    /\ up /\ pc = "rate"
    /\ calls' = [calls EXCEPT ![H] = @ + 1]
    /\ attempt' = 0
    /\ Goto("place")
    /\ UNCHANGED <<stream, db, queue, sweep, broker, excused, faults>>

\* One HTTP attempt may have created an order whose id is never seen.
MayCreate ==
    \/ UNCHANGED orphans
    \/ orphans' = [orphans EXCEPT ![H] = @ + 1]

Placing == up /\ pc = "place"

\* The broker answers with the ids of the order it created.
PlaceSucceeds ==
    /\ Placing
    /\ known' = [known EXCEPT ![H] = "live"]
    /\ Goto("record")
    /\ UNCHANGED <<stream, attempt, db, queue, sweep, orphans, history>>

\* Mutant of PlaceRetries: one attempt too many.
PlaceRetriesOnce ==
    /\ Placing /\ attempt < MaxRetry
    /\ MayCreate
    /\ attempt' = attempt + 1
    /\ Goto("place")
    /\ UNCHANGED <<stream, db, queue, sweep, known, history>>

\* A timeout or a 429/5xx before the last attempt: the POST is sent again.
PlaceRetries ==
    /\ Placing /\ attempt < MaxRetry - 1
    /\ MayCreate
    /\ attempt' = attempt + 1
    /\ Goto("place")
    /\ UNCHANGED <<stream, db, queue, sweep, known, history>>

\* Mutant of PlaceFails: MaxRetriesError is logged and nothing is queued.
PlaceFailsSilently ==
    /\ Placing
    /\ MayCreate
    /\ Goto("ack")
    /\ UNCHANGED <<stream, attempt, db, queue, sweep, known, history>>

\* The call fails for good: a soft rejection, an open circuit, an answer
\* without ids, the last timeout or the last 5xx.  All are caught and queue
\* FAILED; after an answer without ids, a timeout or a 5xx the order may exist.
PlaceFails ==
    /\ Placing
    /\ MayCreate
    /\ Finish("fail")
    /\ UNCHANGED <<stream, attempt, db, sweep, known, calls, faults>>

\* 4xx: raise_for_status leaves _request as an HTTPStatusError that
\* process_signal does not catch.  No fault: the broker's regular answer to an
\* expired token or a bad request.
PlaceDenied ==
    /\ Placing
    /\ Escape
    /\ excused' = excused \cup {H}
    /\ UNCHANGED <<stream, attempt, db, queue, sweep, broker, calls, faults>>

\* The connection is cut or the body is no JSON: not caught either, and the
\* order may exist.
PlaceBreaks ==
    /\ Placing
    /\ "other" \in Raises /\ Fault
    /\ MayCreate
    /\ Escape
    /\ excused' = excused \cup {H}
    /\ UNCHANGED <<stream, attempt, db, queue, sweep, known, calls>>

\* The three legs and the ids are queued in one go.
Record ==
    /\ up /\ pc = "record"
    /\ queue' = PutPlaced(queue, H)
    /\ ExcuseOverflow(4, H)
    /\ Goto("notify")
    /\ UNCHANGED <<stream, attempt, db, sweep, broker, calls, faults>>

\* notify_subscribe_instrument, the last call of process_signal.
Notify ==
    /\ up /\ pc = "notify"
    /\ Goto("ack")
    /\ UNCHANGED <<stream, attempt, db, queue, sweep, broker, history>>

NotifyRaises ==
    /\ up /\ pc = "notify"
    /\ "other" \in Raises /\ Fault
    /\ Escape
    /\ UNCHANGED <<stream, attempt, db, queue, sweep, broker, calls, excused>>

-----------------------------------------------------------------------------
(* AsyncDBWriter.run *)

\* What one queued job does to the database.
Apply(job) ==
    \/ /\ job.op = "block" /\ status[job.hash] = "none"
       /\ status' = [status EXCEPT ![job.hash] = "BLOCKED"]
       /\ UNCHANGED <<hasIds, legs>>
    \/ /\ job.op = "block" /\ status[job.hash] # "none"
       /\ UNCHANGED db
    \/ /\ job.op = "fail"
       /\ status' = [status EXCEPT ![job.hash] = "FAILED"]
       /\ UNCHANGED <<hasIds, legs>>
    \/ /\ job.op = "expire"
       /\ status' = [status EXCEPT ![job.hash] = "EXPIRED"]
       /\ UNCHANGED <<hasIds, legs>>
    \/ /\ job.op = "placed"
       /\ status' = [status EXCEPT ![job.hash] = "PENDING"]
       /\ hasIds' = [hasIds EXCEPT ![job.hash] = TRUE]
       /\ UNCHANGED legs
    \/ /\ job.op \in Legs
       /\ legs' = [legs EXCEPT ![job.hash] = @ \cup {job.op}]
       /\ UNCHANGED <<status, hasIds>>

WriterStep ==
    /\ up /\ queue # <<>>
    /\ Apply(Head(queue))
    /\ queue' = Tail(queue)
    /\ UNCHANGED <<stream, engine, sweep, broker, history>>

\* A failed write is logged and the job is gone.
WriterFails ==
    /\ up /\ queue # <<>>
    /\ Fault
    /\ excused' = IF Head(queue).op = "expire" THEN excused
                  ELSE excused \cup {Head(queue).hash}
    /\ queue' = Tail(queue)
    /\ UNCHANGED <<stream, engine, db, sweep, broker, calls>>

-----------------------------------------------------------------------------
(* reconcile_stale *)

\* A PENDING row passes gtt_expiry_hours.  Hours have gone by since it was
\* inserted: a call of at most MaxRetry timeouts and a queued job, which is
\* applied or dropped when its turn comes, are long over.
Age(h) ==
    /\ status[h] = "PENDING" /\ h \notin aged
    /\ Quiet(h)
    /\ aged' = aged \cup {h}
    /\ UNCHANGED <<stream, engine, db, queue, recon, broker, history>>

\* get_signals_older_than.
ReconStart ==
    /\ up /\ recon = {}
    /\ recon' = {h \in aged : status[h] = "PENDING"}
    /\ recon' # {}
    /\ UNCHANGED <<stream, engine, db, queue, aged, broker, history>>

\* Mutant of ReconOne: a failed cancel keeps the row from expiring.
ReconOneStrict ==
    /\ up
    /\ \E h \in recon :
        /\ recon' = recon \ {h}
        /\ \/ UNCHANGED <<known, queue>>
           \/ /\ known' = [known EXCEPT ![h] = IF hasIds[h] THEN "cancelled" ELSE @]
              /\ queue' = Put(queue, "expire", h)
    /\ UNCHANGED <<stream, engine, db, aged, orphans, history>>

\* cancel_gtt for the ids the row had, its failure swallowed; the expiry is
\* queued in any case.
ReconOne ==
    /\ up
    /\ \E h \in recon :
        /\ recon' = recon \ {h}
        /\ \/ UNCHANGED known
           \/ /\ hasIds[h] /\ known[h] = "live"
              /\ known' = [known EXCEPT ![h] = "cancelled"]
        /\ queue' = Put(queue, "expire", h)
    /\ UNCHANGED <<stream, engine, db, aged, orphans, history>>

-----------------------------------------------------------------------------
(* Crash and restart *)

\* The process dies: what it held in memory is gone, the request in flight may
\* have reached the broker.
Crash ==
    /\ up /\ Fault
    /\ up' = FALSE
    /\ IF pc = "place" THEN MayCreate ELSE UNCHANGED orphans
    /\ excused' = excused \cup {h \in Hashes :
           \/ Owns(h)
           \/ \E op \in Legs \cup {"block", "fail", "placed"} : Queued(op, h)}
    /\ batch' = {} /\ reclaim' = FALSE
    /\ pc' = "idle" /\ cur' = NoMsg
    /\ queue' = <<>> /\ recon' = {}
    /\ UNCHANGED <<stream, attempt, db, aged, known, calls>>

\* The container restarts.  stream_reclaim_pending claims the entries that have
\* been idle for a minute, any subset of the PEL.
Restart ==
    /\ ~up
    /\ up' = TRUE
    /\ \E claimed \in SUBSET pel :
        /\ batch' = claimed
        /\ reclaim' = (claimed # {})
    /\ UNCHANGED <<stream, pc, cur, attempt, db, queue, sweep, broker, history>>

-----------------------------------------------------------------------------

Validate == ParseFails \/ GateBlocks \/ InsertWins \/ InsertSkips
Place == PlaceSucceeds \/ PlaceRetries \/ PlaceFails \/ PlaceDenied
Process ==
    Deliver \/ Begin \/ Validate \/ RateDenies \/ RateAllows \/ Place \/ Record
        \/ Notify \/ Ack
Disturb == InsertBreaks \/ ProcessRaises \/ PlaceBreaks \/ NotifyRaises \/ WriterFails
             \/ Crash

Next ==
    \/ \E m \in Msgs : Publish(m)
    \/ Process
    \/ WriterStep
    \/ \E h \in Hashes : Age(h)
    \/ ReconStart
    \/ ReconOne
    \/ Disturb
    \/ Restart

\* Four tasks that the event loop and the container runtime keep running: the
\* message loop, the writer, the sweep and the restart policy.  Nothing is
\* assumed of the ingestor, of the broker or of faults.
Fairness ==
    /\ WF_vars(Process)
    /\ WF_vars(WriterStep)
    /\ WF_vars(ReconStart) /\ WF_vars(ReconOne)
    /\ WF_vars(Restart)

Safety == Init /\ [][Next]_vars
Spec == Safety /\ Fairness

-----------------------------------------------------------------------------
(* Properties *)

\* Who may decide a row.  The message that claimed it, until its outcome is
\* queued; then the one queued outcome; then, if it stayed PENDING for hours,
\* the sweep.  A call was made exactly when the claim came that far.
RowDiscipline(h) ==
    /\ Owns(h) =>
         /\ status[h] = "PENDING" /\ ~hasIds[h] /\ h \notin aged
         /\ ~Has(queue, "fail", h) /\ ~Has(queue, "placed", h)
         /\ calls[h] = IF pc = "rate" THEN 0 ELSE 1
    /\ Has(queue, "fail", h) \/ Has(queue, "placed", h) =>
         status[h] = "PENDING" /\ ~hasIds[h] /\ h \notin aged
    /\ Has(queue, "placed", h) \/ hasIds[h] => calls[h] = 1
    /\ Has(queue, "expire", h) \/ h \in recon => h \in aged
    /\ h \in aged => status[h] \in {"PENDING", "EXPIRED"}
    /\ status[h] \in {"none", "BLOCKED"} => calls[h] = 0 /\ ~hasIds[h]
    /\ calls[h] \in {0, 1}

\* No two queued outcomes for one row.
OneOutcome(q) ==
    \A i, j \in 1..Len(q) :
        /\ q[i].hash = q[j].hash
        /\ {q[i].op, q[j].op} \subseteq {"fail", "placed"}
        => i = j

\* A row is decided once, by one party at a time, although no write checks the
\* status it overwrites.
DecidedOnce == OneOutcome(queue) /\ \A h \in Hashes : RowDiscipline(h)

\* Whatever is lost is lost to a fault.  A claimed row is being worked on, has
\* its outcome queued, or is one whose processing a fault cut short; a
\* well-formed entry that was acknowledged has a row, or its block is queued.
NoSilentLoss ==
    /\ \A h \in Hashes \ excused :
         status[h] = "PENDING" /\ ~hasIds[h] => ~Quiet(h)
    /\ \A m \in acked \ Malformed :
         \/ status[HashOf[m]] # "none"
         \/ Queued("block", HashOf[m])
         \/ HashOf[m] \in excused

\* The tracker finds the legs of every order whose ids are recorded, and an
\* order whose ids came back is on its way to the row.
KnownOrderIsRecorded ==
    \A h \in Hashes \ excused :
        /\ hasIds[h] => legs[h] = Legs
        /\ known[h] # "none" => hasIds[h] \/ ~Quiet(h)

\* However a call is retried, crashed and re-sent, one idea never has more
\* orders at the broker than the attempts of one call.
OrdersBounded ==
    \A h \in Hashes :
        orphans[h] + (IF known[h] = "live" THEN 1 ELSE 0) <= MaxRetry

\* The row of a hash, read as a verdict.
Verdict(h) ==
    IF status[h] # "PENDING" THEN status[h]
    ELSE IF hasIds[h] THEN "PLACED" ELSE "CLAIMED"

Contract == INSTANCE SignalContract
              WITH verdict <- [h \in Hashes |-> Verdict(h)], calls <- calls

\* The engine implements the contract: one decision per hash, one call at most.
ImplementsContract == Contract!Spec

\* Left in the PEL of a running process, for the next start.
Parked(m) == m \in pel /\ m \notin batch /\ cur # m

\* Every placement call ends with recorded ids, a FAILED or an expired row, or
\* a fault.
CallIsSettled ==
    \A h \in Hashes :
        calls[h] > 0 ~> hasIds[h] \/ status[h] \in {"FAILED", "EXPIRED"} \/ h \in excused

\* The sweep gets rid of every row it finds stale, through failed cancels,
\* failed writes and crashes.
StaleIsExpired == \A h \in Hashes : h \in aged ~> status[h] = "EXPIRED"

\* CLIENT_GUIDE.md on the rate limit: "re-send the ones marked FAILED after a
\* minute."  A signal that comes again after its row FAILED without any call is
\* not acknowledged without being decided anew.
FailedIsRetried ==
    [][pc = "process" /\ cur \notin Malformed /\ status[H] = "FAILED" /\ calls[H] = 0
         /\ pc' = "ack" => queue' # queue]_vars
=============================================================================
