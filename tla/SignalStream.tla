---------------------------- MODULE SignalStream ----------------------------
(***************************************************************************)
(* The first-generation pipeline from a Telegram post to a GTT: the        *)
(* listener's deduplication in a capped Redis sorted set, the stream it    *)
(* appends to, the strategy that reads the stream from a position of its   *)
(* own, places each entry and remembers it in a second sorted set, and the *)
(* thread that writes the SQLite row afterwards.  app.py runs listener and *)
(* strategy together: when one exits, both go down.                        *)
(*                                                                         *)
(* A post is published at most once, so an entry is named by its post; its *)
(* id is its place in the stream.                                          *)
(***************************************************************************)
EXTENDS Integers, Sequences, SequencesExt

CONSTANTS
    NPosts,     \* number of Telegram messages
    Hashes,     \* signal hashes
    HashOf,     \* HashOf[p]: the hash of the signal the AI reads in p
    Malformed,  \* posts whose published fields do not parse
    SeenMax,    \* REDIS_MAX_DEDUPE
    BatchSize,  \* count of XREAD
    MaxRetry,   \* max_retries of the placement call
    QueueCap,   \* size of the metadata queue
    MaxFaults,  \* bound: failed calls
    MaxCrashes  \* bound: crashes

\* Posts are named by their order: handlers start in that order.
Posts == 1..NPosts

ASSUME StreamAssumption ==
    /\ NPosts \in Nat
    /\ HashOf \in [Posts -> Hashes] /\ Malformed \subseteq Posts
    /\ Posts \cap Hashes = {}
    /\ SeenMax \in Nat \ {0} /\ BatchSize \in Nat \ {0}
    /\ MaxRetry \in Nat \ {0} /\ QueueCap \in Nat
    /\ MaxFaults \in Nat /\ MaxCrashes \in Nat

VARIABLES
    up,       \* "up", "down", or "locked": down, with app.pid left behind
    post,     \* where the listener's handler of each post stands
    over,     \* members a handler found beyond SeenMax
    seen,     \* the listener's sorted set, oldest member first
    stream,   \* the stream
    zset,     \* PROCESSED_ZSET
    saved,    \* LAST_ID_KEY, 0 when it does not exist
    lastId,   \* last_id, the position in memory
    after,    \* the id after which the blocked XREAD reads
    step,     \* where the strategy's loop stands
    msg,      \* the id it works on
    upto,     \* the last id of the batch
    attempt,  \* POST attempts made for msg
    placed,   \* the placement of msg returned the ids of a GTT
    queue,    \* the metadata queue
    row,      \* the SQLite row of each entry
    made,     \* history: GTTs the broker created for an entry
    answered, \* history: entries whose ids came back
    handled,  \* history: entries the strategy is done with
    base,     \* history: where the last read from "$" began
    slips,    \* history: answers and marks of an entry that were lost
    excused,  \* history: entries a fault may have left without their row
    lapsed,   \* history: hashes evicted from seen, or never written to it
    faults    \* history: numbers of failed calls and of crashes so far

listener == <<post, over, seen, stream, lapsed>>
redis    == <<zset, saved>>
reader   == <<lastId, after, base>>
loop     == <<step, msg, upto>>
call     == <<attempt, placed>>
meta     == <<queue, row>>
broker   == <<made, answered>>
history  == <<handled, slips, excused>>
vars     == <<up, listener, redis, reader, loop, call, meta, broker, history, faults>>

Newest == -1    \* XREAD's "$"

Job == [entry : Posts, status : {"none", "PENDING", "FAILED"}]

ListenerTypeOK ==
    /\ post \in [Posts -> {"new", "parse", "count", "trim", "publish", "done"}]
    /\ over \in [Posts -> Nat]
    /\ seen \in Seq(Posts \cup Hashes)
    /\ stream \in Seq(Posts)
    /\ lapsed \subseteq Hashes

LoopTypeOK ==
    /\ up \in {"up", "down", "locked"}
    /\ saved \in Nat /\ lastId \in Nat \cup {Newest} /\ after \in Nat /\ base \in Nat
    /\ step \in {"idle", "wait", "next", "post", "store", "mark", "save"}
    /\ msg \in Nat /\ upto \in Nat /\ attempt \in Nat /\ placed \in BOOLEAN

StoreTypeOK ==
    /\ zset \subseteq Posts
    /\ queue \in Seq(Job) /\ row \in [Posts -> {"none", "PENDING", "FAILED"}]

HistoryTypeOK ==
    /\ made \in [Posts -> Nat] /\ slips \in [Posts -> Nat]
    /\ answered \subseteq Posts /\ handled \subseteq Posts /\ excused \subseteq Posts
    /\ faults \in [calls : Nat, crashes : Nat]

TypeOK == ListenerTypeOK /\ LoopTypeOK /\ StoreTypeOK /\ HistoryTypeOK

Init ==
    /\ up = "down"
    /\ post = [p \in Posts |-> "new"] /\ over = [p \in Posts |-> 0]
    /\ seen = <<>> /\ stream = <<>> /\ lapsed = {}
    /\ zset = {} /\ saved = 0
    /\ lastId = Newest /\ after = 0 /\ base = 0
    /\ step = "idle" /\ msg = 0 /\ upto = 0 /\ attempt = 0 /\ placed = FALSE
    /\ queue = <<>> /\ row = [p \in Posts |-> "none"]
    /\ made = [p \in Posts |-> 0] /\ answered = {}
    /\ handled = {} /\ slips = [p \in Posts |-> 0] /\ excused = {}
    /\ faults = [calls |-> 0, crashes |-> 0]

Fault == faults.calls < MaxFaults /\ faults' = [faults EXCEPT !.calls = @ + 1]

Dies == faults.crashes < MaxCrashes /\ faults' = [faults EXCEPT !.crashes = @ + 1]

-----------------------------------------------------------------------------
(* telegram_ai_listener: one handler per post, interleaved at its awaits *)

Listening(p, state) == up = "up" /\ post[p] = state

Move(p, state) == post' = [post EXCEPT ![p] = state]

\* The post passes the pre-filter and its own key enters the set, unless Redis
\* fails: then the post counts as new.
Receive(p) ==
    /\ Listening(p, "new") /\ \A q \in Posts : q < p => post[q] # "new"
    /\ Move(p, "parse")
    /\ \/ seen' = Append(seen, p) /\ UNCHANGED faults
       \/ Fault /\ UNCHANGED seen
    /\ UNCHANGED <<up, over, stream, lapsed, redis, reader, loop, call, meta, broker, history>>

\* The AI reads no signal, or fails.
NoSignal(p) ==
    /\ Listening(p, "parse")
    /\ Move(p, "done")
    /\ UNCHANGED <<up, over, seen, stream, lapsed, redis, reader, loop, call, meta, broker,
                   history, faults>>

\* The hash is in the set: the post is dropped.
DuplicateHash(p) ==
    /\ Listening(p, "parse") /\ HashOf[p] \in ToSet(seen)
    /\ Move(p, "done")
    /\ UNCHANGED <<up, over, seen, stream, lapsed, redis, reader, loop, call, meta, broker,
                   history, faults>>

\* Mutant of AddHash: a full set takes no new member.
AddHashIfRoom(p) ==
    /\ Listening(p, "parse") /\ HashOf[p] \notin ToSet(seen)
    /\ Move(p, "count")
    /\ seen' = IF Len(seen) < SeenMax THEN Append(seen, HashOf[p]) ELSE seen
    /\ UNCHANGED <<up, over, stream, lapsed, redis, reader, loop, call, meta, broker,
                   history, faults>>

\* ZADD NX of the hash wins.
AddHash(p) ==
    /\ Listening(p, "parse") /\ HashOf[p] \notin ToSet(seen)
    /\ Move(p, "count")
    /\ seen' = Append(seen, HashOf[p])
    /\ UNCHANGED <<up, over, stream, lapsed, redis, reader, loop, call, meta, broker,
                   history, faults>>

\* Redis fails in the ZADD: the signal counts as new.
AddHashFails(p) ==
    /\ Listening(p, "parse") /\ Fault
    /\ Move(p, "count")
    /\ lapsed' = lapsed \cup {HashOf[p]}
    /\ UNCHANGED <<up, over, seen, stream, redis, reader, loop, call, meta, broker, history>>

\* ZCARD.
Count(p) ==
    /\ Listening(p, "count")
    /\ Move(p, IF Len(seen) > SeenMax THEN "trim" ELSE "publish")
    /\ over' = [over EXCEPT ![p] = IF Len(seen) > SeenMax THEN Len(seen) - SeenMax ELSE 0]
    /\ UNCHANGED <<up, seen, stream, lapsed, redis, reader, loop, call, meta, broker,
                   history, faults>>

\* ZREMRANGEBYRANK of as many of the oldest members as ZCARD found too many,
\* whatever another handler has removed since.
Trim(p) ==
    /\ Listening(p, "trim")
    /\ Move(p, "publish")
    /\ seen' = SubSeq(seen, over[p] + 1, Len(seen))
    /\ lapsed' = lapsed \cup ((Hashes \cap ToSet(seen)) \ ToSet(seen'))
    /\ over' = [over EXCEPT ![p] = 0]
    /\ UNCHANGED <<up, stream, redis, reader, loop, call, meta, broker, history, faults>>

\* Redis fails in the ZCARD or the ZREMRANGEBYRANK: passed over.
TrimFails(p) ==
    /\ Listening(p, "count") \/ Listening(p, "trim")
    /\ Fault
    /\ Move(p, "publish")
    /\ over' = [over EXCEPT ![p] = 0]
    /\ UNCHANGED <<up, seen, stream, lapsed, redis, reader, loop, call, meta, broker, history>>

\* XADD.  When it fails the signal is lost, and its hash stays in the set.
Publish(p) ==
    /\ Listening(p, "publish")
    /\ Move(p, "done")
    /\ \/ stream' = Append(stream, p) /\ UNCHANGED faults
       \/ Fault /\ UNCHANGED stream
    /\ UNCHANGED <<up, over, seen, lapsed, redis, reader, loop, call, meta, broker, history>>

-----------------------------------------------------------------------------
(* gtt_strategy: reading *)

At(s) == up = "up" /\ step = s

Entry == stream[msg]

\* XREAD blocks: "$" stands for the end of the stream at this moment.
Block ==
    /\ At("idle")
    /\ after' = IF lastId = Newest THEN Len(stream) ELSE lastId
    /\ step' = "wait"
    /\ UNCHANGED <<up, listener, redis, lastId, base, msg, upto, call, meta, broker,
                   history, faults>>

\* Nothing arrived in 5 s.
BlockEnds ==
    /\ At("wait") /\ Len(stream) <= after
    /\ step' = "idle" /\ after' = 0
    /\ UNCHANGED <<up, listener, redis, lastId, base, msg, upto, call, meta, broker, history, faults>>

\* XREAD returns up to BatchSize entries.
Read ==
    /\ At("wait") /\ Len(stream) > after
    /\ msg' = after + 1
    /\ upto' = IF Len(stream) - after > BatchSize THEN after + BatchSize ELSE Len(stream)
    /\ base' = IF lastId = Newest THEN after ELSE base
    /\ step' = "next" /\ after' = 0
    /\ UNCHANGED <<up, listener, redis, lastId, call, meta, broker, history, faults>>

\* Redis fails: the loop sleeps and reads again.
ReadFails ==
    /\ At("wait") /\ Fault
    /\ step' = "idle" /\ after' = 0
    /\ UNCHANGED <<up, listener, redis, lastId, base, msg, upto, call, meta, broker, history>>

\* The next entry of the batch, or the next XREAD.
NextEntry ==
    /\ step' = IF msg < upto THEN "next" ELSE "idle"
    /\ msg' = IF msg < upto THEN msg + 1 ELSE 0
    /\ upto' = IF msg < upto THEN upto ELSE 0

\* The entry is in PROCESSED_ZSET.
SkipMarked ==
    /\ At("next") /\ Entry \in zset
    /\ lastId' = msg
    /\ NextEntry
    /\ UNCHANGED <<up, listener, redis, after, base, call, meta, broker, history, faults>>

\* INSERT OR IGNORE: a row that exists keeps its status and its GTT.
Inserted(r, job) ==
    IF r[job.entry] = "none" THEN [r EXCEPT ![job.entry] = job.status] ELSE r

\* The job is queued for the metadata thread, or done at once when the queue is
\* full.
Record(job) ==
    IF Len(queue) < QueueCap
    THEN queue' = Append(queue, job) /\ UNCHANGED row
    ELSE row' = Inserted(row, job) /\ UNCHANGED queue

\* The entry does not parse, which gets no row; the position moves in memory only.
ParseFails ==
    /\ At("next") /\ Entry \in Malformed \ zset
    /\ Record([entry |-> Entry, status |-> "none"])
    /\ handled' = handled \cup {Entry}
    /\ lastId' = msg
    /\ NextEntry
    /\ UNCHANGED <<up, listener, redis, after, base, call, broker, slips, excused, faults>>

StartCall ==
    /\ step' = "post" /\ attempt' = 0 /\ placed' = FALSE
    /\ UNCHANGED <<msg, upto>>

\* The entry is new to this run and to PROCESSED_ZSET.
Begin ==
    /\ At("next") /\ Entry \notin zset \cup Malformed
    /\ StartCall
    /\ UNCHANGED <<up, listener, redis, reader, meta, broker, history, faults>>

\* ZSCORE fails: the entry is placed although it is in PROCESSED_ZSET.
BeginUnchecked ==
    /\ At("next") /\ Entry \in zset \ Malformed /\ Fault
    /\ slips' = [slips EXCEPT ![Entry] = @ + 1]
    /\ excused' = excused \cup {Entry}
    /\ StartCall
    /\ UNCHANGED <<up, listener, redis, reader, meta, broker, handled>>

-----------------------------------------------------------------------------
(* gtt_strategy: placing *)

Answer(ok) ==
    /\ step' = "store" /\ placed' = ok
    /\ UNCHANGED <<msg, upto>>

\* The broker may have created an order whose answer is lost.
MayMake ==
    /\ \/ made' = [made EXCEPT ![Entry] = @ + 1]
       \/ UNCHANGED made
    /\ slips' = [slips EXCEPT ![Entry] = @ + 1]
    /\ UNCHANGED <<answered, handled, excused>>

\* The POST is answered with the ids of the GTT.
PostPlaces ==
    /\ At("post")
    /\ made' = [made EXCEPT ![Entry] = @ + 1]
    /\ answered' = answered \cup {Entry}
    /\ Answer(TRUE)
    /\ UNCHANGED <<up, listener, redis, reader, attempt, meta, history, faults>>

\* A field is missing, the instrument is unknown, or the broker refuses.
PostRefused ==
    /\ At("post")
    /\ Answer(FALSE)
    /\ UNCHANGED <<up, listener, redis, reader, attempt, meta, broker, history, faults>>

\* A 5xx, a broken connection or an answer that cannot be read: no retry.
PostUnclear ==
    /\ At("post") /\ Fault
    /\ MayMake
    /\ Answer(FALSE)
    /\ UNCHANGED <<up, listener, redis, reader, attempt, meta>>

\* A timeout: the POST is sent again until the attempts are used up.  The
\* timeouts of one placement count as one fault.
PostTimesOut ==
    /\ At("post")
    /\ IF attempt = 0 THEN Fault ELSE UNCHANGED faults
    /\ MayMake
    /\ attempt' = attempt + 1
    /\ IF attempt + 1 < MaxRetry
       THEN UNCHANGED <<loop, placed>>
       ELSE Answer(FALSE)
    /\ UNCHANGED <<up, listener, redis, reader, meta>>

-----------------------------------------------------------------------------
(* gtt_strategy: recording *)

NewJob == [entry |-> Entry, status |-> IF placed THEN "PENDING" ELSE "FAILED"]

\* Mutant of Store: a full queue drops the job.
StoreIfRoom ==
    /\ At("store")
    /\ queue' = IF Len(queue) < QueueCap THEN Append(queue, NewJob) ELSE queue
    /\ handled' = handled \cup {Entry}
    /\ lastId' = msg
    /\ step' = "mark" /\ attempt' = 0 /\ placed' = FALSE
    /\ UNCHANGED <<up, listener, redis, after, base, msg, upto, row, broker, slips,
                   excused, faults>>

\* The outcome is recorded, and the position moves in memory.
Store ==
    /\ At("store")
    /\ Record(NewJob)
    /\ handled' = handled \cup {Entry}
    /\ lastId' = msg
    /\ step' = "mark" /\ attempt' = 0 /\ placed' = FALSE
    /\ UNCHANGED <<up, listener, redis, after, base, msg, upto, broker, slips,
                   excused, faults>>

\* The queue is full and SQLite refuses the INSERT: logged, and no row.
StoreFails ==
    /\ At("store") /\ Len(queue) >= QueueCap /\ Fault
    /\ handled' = handled \cup {Entry}
    /\ excused' = excused \cup {Entry}
    /\ lastId' = msg
    /\ step' = "mark" /\ attempt' = 0 /\ placed' = FALSE
    /\ UNCHANGED <<up, listener, redis, after, base, msg, upto, meta, broker, slips>>

\* Mutant of Mark: the entry is not added to PROCESSED_ZSET.
MarkNothing ==
    /\ At("mark")
    /\ step' = "save"
    /\ UNCHANGED <<up, listener, redis, reader, msg, upto, call, meta, broker,
                   history, faults>>

\* ZADD to PROCESSED_ZSET.
Mark ==
    /\ At("mark")
    /\ zset' = zset \cup {Entry}
    /\ step' = "save"
    /\ UNCHANGED <<up, listener, saved, reader, msg, upto, call, meta, broker,
                   history, faults>>

\* The ZADD fails; the exception is swallowed, the position is not saved.
MarkFails ==
    /\ At("mark") /\ Fault
    /\ slips' = [slips EXCEPT ![Entry] = @ + 1]
    /\ excused' = excused \cup {Entry}
    /\ NextEntry
    /\ UNCHANGED <<up, listener, redis, reader, call, meta, broker, handled>>

\* Mutant of Save: the end of the batch is saved.
SaveBatch ==
    /\ At("save")
    /\ saved' = upto
    /\ NextEntry
    /\ UNCHANGED <<up, listener, zset, reader, call, meta, broker, history, faults>>

\* SET of LAST_ID_KEY.
Save ==
    /\ At("save")
    /\ saved' = msg
    /\ NextEntry
    /\ UNCHANGED <<up, listener, zset, reader, call, meta, broker, history, faults>>

\* The SET fails; the exception is swallowed.
SaveFails ==
    /\ At("save") /\ Fault
    /\ NextEntry
    /\ UNCHANGED <<up, listener, redis, reader, call, meta, broker, history>>

\* store_signal_metadata in the metadata thread.
WriteRow ==
    /\ up = "up" /\ queue # <<>>
    /\ row' = Inserted(row, Head(queue))
    /\ queue' = Tail(queue)
    /\ UNCHANGED <<up, listener, redis, reader, loop, call, broker, history, faults>>

\* SQLite refuses the INSERT: logged, and the row is never written.
WriteRowFails ==
    /\ up = "up" /\ queue # <<>> /\ Fault
    /\ queue' = Tail(queue)
    /\ excused' = excused \cup {Head(queue).entry}
    /\ UNCHANGED <<up, listener, redis, reader, loop, call, row, broker, handled, slips>>

-----------------------------------------------------------------------------
(* app.py *)

\* One process dies and app.py stops the others, or the container is killed
\* and app.pid stays behind.  The handlers, the queue and the position are gone.
Crash ==
    /\ up = "up" /\ Dies
    /\ up' \in {"down", "locked"}
    /\ post' = [p \in Posts |-> IF post[p] = "new" THEN "new" ELSE "done"]
    /\ over' = [p \in Posts |-> 0]
    /\ queue' = <<>>
    /\ excused' = excused \cup {job.entry : job \in ToSet(queue)}
                          \cup (IF step \in {"store", "mark"} THEN {Entry} ELSE {})
    /\ slips' = IF step \in {"store", "mark"} THEN [slips EXCEPT ![Entry] = @ + 1] ELSE slips
    /\ step' = "idle" /\ after' = 0 /\ msg' = 0 /\ upto' = 0
    /\ attempt' = 0 /\ placed' = FALSE
    /\ UNCHANGED <<seen, stream, lapsed, redis, lastId, base, row, broker, handled>>

\* The operator removes the app.pid that keeps app.py from starting.
Unlock ==
    /\ up = "locked"
    /\ up' = "down"
    /\ UNCHANGED <<listener, redis, reader, loop, call, meta, broker, history, faults>>

\* Mutant of Start: every start reads from "$".
StartNewest ==
    /\ up = "down"
    /\ up' = "up"
    /\ lastId' = Newest
    /\ UNCHANGED <<listener, redis, after, base, loop, call, meta, broker, history, faults>>

\* REDIS_START_FROM=resume: from LAST_ID_KEY, or from "$" when it is missing.
Start ==
    /\ up = "down"
    /\ up' = "up"
    /\ lastId' = IF saved = 0 THEN Newest ELSE saved
    /\ UNCHANGED <<listener, redis, after, base, loop, call, meta, broker, history, faults>>

-----------------------------------------------------------------------------
(* Specification *)

Reading == Block \/ BlockEnds \/ Read \/ SkipMarked \/ ParseFails \/ Begin
Placing == PostPlaces \/ PostRefused \/ PostUnclear \/ PostTimesOut
Recording == Store \/ Mark \/ Save

Strategy == Reading \/ Placing \/ Recording

Next ==
    \/ \E p \in Posts :
        \/ Receive(p) \/ NoSignal(p) \/ DuplicateHash(p) \/ AddHash(p) \/ AddHashFails(p)
        \/ Count(p) \/ Trim(p) \/ TrimFails(p) \/ Publish(p)
    \/ Strategy
    \/ ReadFails \/ BeginUnchecked \/ StoreFails \/ MarkFails \/ SaveFails
    \/ WriteRow \/ WriteRowFails
    \/ Crash \/ Unlock \/ Start

\* The strategy's thread and the metadata thread run, and the container is
\* restarted.  Nothing is assumed of the posts or of the operator.
Fairness == WF_vars(Strategy) /\ WF_vars(WriteRow) /\ WF_vars(Start)

Spec == Init /\ [][Next]_vars /\ Fairness

-----------------------------------------------------------------------------
(* Properties *)

\* The listener publishes a signal once: two entries share a hash only if the
\* hash had been evicted from the capped set or Redis failed to take it.
PublishedOnce ==
    \A i, j \in 1..Len(stream) :
        i # j /\ HashOf[stream[i]] = HashOf[stream[j]] => HashOf[stream[i]] \in lapsed

\* The broker creates one GTT for an entry, and one more for every placement
\* whose answer, or whose mark in PROCESSED_ZSET, was lost.
OneOrder == \A p \in Posts : made[p] <= slips[p] + 1

\* The position a restart resumes from never passes an entry that was not
\* handled, but for those published before the last read from "$".
NothingSkipped == \A i \in 1..Len(stream) : base < i /\ i <= saved => stream[i] \in handled

\* A GTT whose ids came back has its row, or the row is on its way, unless a
\* crash, a failed write or a failed mark concerned the entry.
OrderIsBooked ==
    \A p \in answered \ excused :
        \/ row[p] = "PENDING"
        \/ [entry |-> p, status |-> "PENDING"] \in ToSet(queue)
        \/ step = "store" /\ placed /\ Entry = p

Log == INSTANCE EntryLog WITH log <- stream, done <- handled, pos <- saved, lost <- slips

\* The pipeline implements the log: whatever is read twice, retried, lost or crashed,
\* the entries are taken in turn, and a saved position stays behind what is done.
ImplementsEntryLog == Log!Spec

Backlog == saved # 0 /\ \E i \in saved + 1..Len(stream) : stream[i] \notin handled

\* Once a position has been saved, the entries behind it are handled in the end,
\* unless a leftover app.pid keeps the program from starting.
BacklogIsHandled == []<>(~Backlog \/ up = "locked")
=============================================================================
