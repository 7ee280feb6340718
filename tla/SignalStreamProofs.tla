------------------------- MODULE SignalStreamProofs -------------------------
(***************************************************************************)
(* Theorems about SignalStream for every number of posts, every capacity   *)
(* and every bound on faults: its invariants, and that it implements       *)
(* EntryLog.                                                               *)
(***************************************************************************)
EXTENDS SignalStream, TLAPS

-----------------------------------------------------------------------------
(* Steps and sequences *)

Working == {"next", "post", "store", "mark", "save"}

\* The entry at hand lies in the batch, and the batch in the stream.
InBatch == step \in Working => msg \in 1..upto /\ upto <= Len(stream)

\* The actions of Next, one by one.
LEMMA NextSplit ==
    ASSUME Next
    PROVE  \/ \E p \in Posts :
                \/ Receive(p) \/ NoSignal(p) \/ DuplicateHash(p) \/ AddHash(p)
                \/ AddHashFails(p) \/ Count(p) \/ Trim(p) \/ TrimFails(p) \/ Publish(p)
           \/ Block \/ BlockEnds \/ Read \/ ReadFails
           \/ SkipMarked \/ ParseFails \/ Begin \/ BeginUnchecked
           \/ PostPlaces \/ PostRefused \/ PostUnclear \/ PostTimesOut
           \/ Store \/ StoreFails \/ Mark \/ MarkFails \/ Save \/ SaveFails
           \/ WriteRow \/ WriteRowFails \/ Crash \/ Unlock \/ Start
BY DEF Next, Strategy, Reading, Placing, Recording

\* The entry the strategy works on is a post.
LEMMA EntryIn ==
    ASSUME TypeOK, InBatch, step \in Working
    PROVE  Entry \in Posts /\ msg \in 1..Len(stream)
BY DEF TypeOK, ListenerTypeOK, LoopTypeOK, InBatch, Entry

\* What appending does to the members and the length of a sequence.
LEMMA AppendFacts ==
    ASSUME NEW S, NEW s \in Seq(S), NEW x \in S
    PROVE  /\ Append(s, x) \in Seq(S) /\ Len(Append(s, x)) = Len(s) + 1
           /\ \A i \in 1..Len(s) : Append(s, x)[i] = s[i]
           /\ Append(s, x)[Len(s) + 1] = x
           /\ ToSet(Append(s, x)) = ToSet(s) \cup {x}
<1>1. /\ Append(s, x) \in Seq(S) /\ Len(Append(s, x)) = Len(s) + 1
      /\ DOMAIN Append(s, x) = 1..Len(s) + 1 /\ DOMAIN s = 1..Len(s)
      /\ Append(s, x)[Len(s) + 1] = x
  OBVIOUS
<1>2. \A i \in 1..Len(s) : Append(s, x)[i] = s[i]
  OBVIOUS
<1>3. ToSet(Append(s, x)) \subseteq ToSet(s) \cup {x}
  BY <1>1, <1>2 DEF ToSet
<1>4. ToSet(s) \cup {x} \subseteq ToSet(Append(s, x))
  <2>1. Len(s) + 1 \in DOMAIN Append(s, x) /\ \A i \in DOMAIN s : i \in DOMAIN Append(s, x)
    BY <1>1
  <2> QED BY <1>1, <1>2, <2>1 DEF ToSet
<1> QED BY <1>1, <1>2, <1>3, <1>4

\* What taking the head does to the members of a sequence.
LEMMA TailFacts ==
    ASSUME NEW S, NEW s \in Seq(S), s # <<>>
    PROVE  /\ Head(s) \in S /\ Head(s) \in ToSet(s)
           /\ \A x \in ToSet(Tail(s)) : x \in ToSet(s)
           /\ \A x \in ToSet(s) : x = Head(s) \/ x \in ToSet(Tail(s))
<1>1. /\ Head(s) \in S /\ Head(s) = s[1] /\ Tail(s) \in Seq(S)
      /\ Len(s) \in Nat \ {0} /\ Len(Tail(s)) = Len(s) - 1
      /\ \A i \in 1..Len(s) - 1 : Tail(s)[i] = s[i + 1]
  OBVIOUS
<1>2. DOMAIN s = 1..Len(s) /\ DOMAIN Tail(s) = 1..Len(s) - 1
  BY <1>1
<1>3. Head(s) \in ToSet(s)
  BY <1>1, <1>2 DEF ToSet
<1>4. ASSUME NEW i \in 1..Len(s) PROVE s[i] = Head(s) \/ s[i] \in ToSet(Tail(s))
  <2>1. CASE i = 1
    BY <1>1, <2>1
  <2>2. CASE i # 1
    <3>1. i - 1 \in 1..Len(s) - 1 /\ Tail(s)[i - 1] = s[i]
      BY <1>1, <2>2
    <3> QED BY <1>2, <3>1 DEF ToSet
  <2> QED BY <2>1, <2>2
<1>5. ASSUME NEW i \in 1..Len(s) - 1 PROVE Tail(s)[i] \in ToSet(s)
  <2>1. i + 1 \in 1..Len(s) /\ Tail(s)[i] = s[i + 1]
    BY <1>1
  <2> QED BY <1>2, <2>1 DEF ToSet
<1> QED BY <1>1, <1>2, <1>3, <1>4, <1>5 DEF ToSet

-----------------------------------------------------------------------------
(* Types *)

Typed == TypeOK /\ InBatch

LEMMA InitType == Init => Typed
<1> SUFFICES ASSUME Init PROVE Typed
  OBVIOUS
<1>1. ListenerTypeOK
  BY DEF Init, ListenerTypeOK
<1>2. LoopTypeOK
  BY DEF Init, LoopTypeOK, Newest
<1>3. StoreTypeOK
  BY DEF Init, StoreTypeOK
<1>4. HistoryTypeOK
  BY DEF Init, HistoryTypeOK
<1>5. InBatch
  BY DEF Init, InBatch, Working
<1> QED BY <1>1, <1>2, <1>3, <1>4, <1>5 DEF Typed, TypeOK

\* A counted fault keeps the type of the counters.
LEMMA FaultType ==
    ASSUME TypeOK, Fault \/ Dies \/ UNCHANGED faults
    PROVE  faults' \in [calls : Nat, crashes : Nat]
BY DEF TypeOK, HistoryTypeOK, Fault, Dies

\* The listener's actions leave the strategy alone, and the stream grows.
LEMMA ListenerStep ==
    ASSUME Typed, NEW p \in Posts,
           \/ Receive(p) \/ NoSignal(p) \/ DuplicateHash(p) \/ AddHash(p)
           \/ AddHashFails(p) \/ Count(p) \/ Trim(p) \/ TrimFails(p) \/ Publish(p)
    PROVE  /\ ListenerTypeOK' /\ faults' \in [calls : Nat, crashes : Nat]
           /\ UNCHANGED <<up, redis, reader, loop, call, meta, broker, history>>
           /\ stream' = stream \/ stream' = Append(stream, p)
<1> USE StreamAssumption
<1>t. /\ post \in [Posts -> {"new", "parse", "count", "trim", "publish", "done"}]
      /\ over \in [Posts -> Nat] /\ seen \in Seq(Posts \cup Hashes)
      /\ stream \in Seq(Posts) /\ lapsed \subseteq Hashes /\ HashOf[p] \in Hashes
  BY DEF Typed, TypeOK, ListenerTypeOK, Posts
<1>f. Fault \/ UNCHANGED faults => faults' \in [calls : Nat, crashes : Nat]
  BY FaultType DEF Typed
<1>a. \A x \in Posts \cup Hashes : Append(seen, x) \in Seq(Posts \cup Hashes)
  BY <1>t
<1>1. CASE Receive(p)
  <2>1. seen' \in Seq(Posts \cup Hashes)
    BY <1>1, <1>t, <1>a DEF Receive
  <2>2. Fault \/ UNCHANGED faults
    BY <1>1 DEF Receive
  <2> QED BY <1>1, <1>t, <1>f, <2>1, <2>2 DEF Receive, Move, ListenerTypeOK
<1>2. CASE NoSignal(p)
  BY <1>2, <1>t, <1>f DEF NoSignal, Move, ListenerTypeOK
<1>3. CASE DuplicateHash(p)
  BY <1>3, <1>t, <1>f DEF DuplicateHash, Move, ListenerTypeOK
<1>4. CASE AddHash(p)
  BY <1>4, <1>t, <1>f, <1>a DEF AddHash, Move, ListenerTypeOK
<1>5. CASE AddHashFails(p)
  BY <1>5, <1>t, <1>f DEF AddHashFails, Move, ListenerTypeOK
<1>6. CASE Count(p)
  <2>1. (IF Len(seen) > SeenMax THEN Len(seen) - SeenMax ELSE 0) \in Nat
    BY <1>t
  <2> QED BY <1>6, <1>t, <1>f, <2>1 DEF Count, Move, ListenerTypeOK
<1>7. CASE Trim(p)
  <2>1. over[p] \in Nat
    BY <1>t
  <2>2. SubSeq(seen, over[p] + 1, Len(seen)) \in Seq(Posts \cup Hashes)
    BY <1>t, <2>1
  <2> QED BY <1>7, <1>t, <1>f, <2>2 DEF Trim, Move, ListenerTypeOK
<1>8. CASE TrimFails(p)
  BY <1>8, <1>t, <1>f DEF TrimFails, Move, ListenerTypeOK
<1>9. CASE Publish(p)
  <2>1. stream' = stream \/ stream' = Append(stream, p)
    BY <1>9 DEF Publish
  <2>a. Append(stream, p) \in Seq(Posts)
    BY <1>t
  <2>2. stream' \in Seq(Posts)
    BY <1>t, <2>1, <2>a
  <2>3. Fault \/ UNCHANGED faults
    BY <1>9 DEF Publish
  <2> QED BY <1>9, <1>t, <1>f, <2>1, <2>2, <2>3 DEF Publish, Move, ListenerTypeOK
<1> QED BY <1>1, <1>2, <1>3, <1>4, <1>5, <1>6, <1>7, <1>8, <1>9

\* Where the loop goes after an entry.
LEMMA NextEntryFacts ==
    ASSUME Typed, step \in Working, NextEntry, stream' = stream
    PROVE  /\ step' \in {"next", "idle"} /\ msg' \in Nat /\ upto' \in Nat
           /\ InBatch' /\ (step' = "next" => msg' = msg + 1)
<1>1. msg \in 1..upto /\ upto \in Nat /\ upto <= Len(stream)
  BY DEF Typed, InBatch, TypeOK, LoopTypeOK
<1>2. CASE msg < upto
  <2>1. step' = "next" /\ msg' = msg + 1 /\ upto' = upto
    BY <1>2 DEF NextEntry
  <2>2. msg' \in 1..upto'
    BY <1>1, <1>2, <2>1
  <2> QED BY <1>1, <2>1, <2>2 DEF InBatch
<1>3. CASE ~(msg < upto)
  <2>1. step' = "idle" /\ msg' = 0 /\ upto' = 0
    BY <1>3 DEF NextEntry
  <2> QED BY <2>1 DEF InBatch, Working
<1> QED BY <1>2, <1>3

\* What recording a job leaves behind.
LEMMA RecordType ==
    ASSUME Typed, NEW job \in Job, Record(job)
    PROVE  queue' \in Seq(Job) /\ row' \in [Posts -> {"none", "PENDING", "FAILED"}]
<1>1. queue \in Seq(Job) /\ row \in [Posts -> {"none", "PENDING", "FAILED"}]
  BY DEF Typed, TypeOK, StoreTypeOK
<1>2. Append(queue, job) \in Seq(Job)
  BY <1>1
<1>3. Inserted(row, job) \in [Posts -> {"none", "PENDING", "FAILED"}]
  BY <1>1 DEF Inserted, Job
<1> QED BY <1>1, <1>2, <1>3 DEF Record

\* The job a placement leads to.
LEMMA NewJobIn == ASSUME Typed, step \in Working PROVE NewJob \in Job
<1>1. Entry \in Posts
  BY EntryIn DEF Typed
<1> QED BY <1>1 DEF NewJob, Job

\* The reader's actions.
LEMMA ReadingType ==
    ASSUME Typed,
           \/ Block \/ BlockEnds \/ Read \/ ReadFails
           \/ SkipMarked \/ ParseFails \/ Begin \/ BeginUnchecked
    PROVE  Typed'
<1>t. ListenerTypeOK /\ LoopTypeOK /\ StoreTypeOK /\ HistoryTypeOK /\ InBatch
  BY DEF Typed, TypeOK
<1>f. Fault \/ UNCHANGED faults => faults' \in [calls : Nat, crashes : Nat]
  BY FaultType DEF Typed
<1>l. UNCHANGED listener
  BY DEF Block, BlockEnds, Read, ReadFails, SkipMarked, ParseFails, Begin, BeginUnchecked
<1>m. ListenerTypeOK' /\ Len(stream) \in Nat /\ stream' = stream
  BY <1>t, <1>l DEF listener, ListenerTypeOK
<1>e. step \in Working => Entry \in Posts
  BY EntryIn DEF Typed
<1>1. CASE Block
  <2>1. UNCHANGED <<redis, call, meta, broker, history, faults, up, lastId, base, msg, upto>>
    BY <1>1 DEF Block
  <2>2. after' \in Nat /\ step' = "wait"
    BY <1>1, <1>t, <1>m DEF Block, LoopTypeOK
  <2>3. LoopTypeOK'
    BY <1>t, <2>1, <2>2 DEF LoopTypeOK, redis, call
  <2>4. StoreTypeOK' /\ HistoryTypeOK'
    BY <1>t, <2>1 DEF StoreTypeOK, HistoryTypeOK, redis, meta, broker, history
  <2>5. InBatch'
    BY <2>2 DEF InBatch, Working
  <2> QED BY <1>m, <2>3, <2>4, <2>5 DEF Typed, TypeOK
<1>2. CASE BlockEnds
  <2>1. UNCHANGED <<redis, call, meta, broker, history, faults, up, lastId, base, msg, upto>>
    BY <1>2 DEF BlockEnds
  <2>2. after' = 0 /\ step' = "idle"
    BY <1>2 DEF BlockEnds
  <2>3. LoopTypeOK'
    BY <1>t, <2>1, <2>2 DEF LoopTypeOK, redis, call
  <2>4. StoreTypeOK' /\ HistoryTypeOK'
    BY <1>t, <2>1 DEF StoreTypeOK, HistoryTypeOK, redis, meta, broker, history
  <2>5. InBatch'
    BY <2>2 DEF InBatch, Working
  <2> QED BY <1>m, <2>3, <2>4, <2>5 DEF Typed, TypeOK
<1>3. CASE Read
  <2>1. UNCHANGED <<redis, call, meta, broker, history, faults, up, lastId>>
    BY <1>3 DEF Read
  <2>2. /\ after' = 0 /\ step' = "next" /\ base' \in Nat
        /\ msg' = after + 1 /\ after \in Nat /\ after < Len(stream)
        /\ upto' \in {after + BatchSize, Len(stream)}
        /\ upto' = after + BatchSize => after + BatchSize <= Len(stream)
    BY <1>3, <1>t, <1>m, StreamAssumption DEF Read, LoopTypeOK
  <2>3. msg' \in 1..upto' /\ upto' <= Len(stream) /\ upto' \in Nat /\ msg' \in Nat
    BY <2>2, <1>m, StreamAssumption
  <2>4. LoopTypeOK'
    BY <1>t, <2>1, <2>2, <2>3 DEF LoopTypeOK, redis, call
  <2>5. StoreTypeOK' /\ HistoryTypeOK'
    BY <1>t, <2>1 DEF StoreTypeOK, HistoryTypeOK, redis, meta, broker, history
  <2>6. InBatch'
    BY <2>3, <1>m DEF InBatch
  <2> QED BY <1>m, <2>4, <2>5, <2>6 DEF Typed, TypeOK
<1>4. CASE ReadFails
  <2>1. UNCHANGED <<redis, call, meta, broker, history, up, lastId, base, msg, upto>>
    BY <1>4 DEF ReadFails
  <2>2. after' = 0 /\ step' = "idle" /\ Fault
    BY <1>4 DEF ReadFails
  <2>3. LoopTypeOK'
    BY <1>t, <2>1, <2>2 DEF LoopTypeOK, redis, call
  <2>4. StoreTypeOK' /\ HistoryTypeOK'
    BY <1>t, <1>f, <2>1, <2>2 DEF StoreTypeOK, HistoryTypeOK, redis, meta, broker, history
  <2>5. InBatch'
    BY <2>2 DEF InBatch, Working
  <2> QED BY <1>m, <2>3, <2>4, <2>5 DEF Typed, TypeOK
<1>5. CASE SkipMarked
  <2>1. UNCHANGED <<up, redis, after, base, call, meta, broker, history, faults>>
    BY <1>5 DEF SkipMarked
  <2>2. lastId' = msg /\ NextEntry /\ step \in Working
    BY <1>5 DEF SkipMarked, At, Working
  <2>3. /\ step' \in {"next", "idle"} /\ msg' \in Nat /\ upto' \in Nat /\ InBatch'
    BY <2>2, <1>m, NextEntryFacts
  <2>4. LoopTypeOK'
    BY <1>t, <2>1, <2>2, <2>3 DEF LoopTypeOK, redis, call
  <2>5. StoreTypeOK' /\ HistoryTypeOK'
    BY <1>t, <2>1 DEF StoreTypeOK, HistoryTypeOK, redis, meta, broker, history
  <2> QED BY <1>m, <2>3, <2>4, <2>5 DEF Typed, TypeOK
<1>6. CASE ParseFails
  <2>1. UNCHANGED <<up, redis, after, base, call, broker, slips, excused, faults>>
    BY <1>6 DEF ParseFails
  <2>2. lastId' = msg /\ NextEntry /\ step \in Working
    BY <1>6 DEF ParseFails, At, Working
  <2>3. /\ step' \in {"next", "idle"} /\ msg' \in Nat /\ upto' \in Nat /\ InBatch'
    BY <2>2, <1>m, NextEntryFacts
  <2>4. [entry |-> Entry, status |-> "none"] \in Job
    BY <1>e, <2>2 DEF Job
  <2>5. queue' \in Seq(Job) /\ row' \in [Posts -> {"none", "PENDING", "FAILED"}]
    BY <1>6, <2>4, RecordType DEF ParseFails
  <2>6. handled' \subseteq Posts
    BY <1>6, <1>e, <1>t, <2>2 DEF ParseFails, HistoryTypeOK
  <2>7. LoopTypeOK'
    BY <1>t, <2>1, <2>2, <2>3 DEF LoopTypeOK, redis, call
  <2>8. StoreTypeOK' /\ HistoryTypeOK'
    BY <1>t, <2>1, <2>5, <2>6 DEF StoreTypeOK, HistoryTypeOK, redis, broker
  <2> QED BY <1>m, <2>3, <2>7, <2>8 DEF Typed, TypeOK
<1>7. CASE Begin
  <2>1. UNCHANGED <<up, redis, reader, meta, broker, history, faults, msg, upto>>
    BY <1>7 DEF Begin, StartCall
  <2>2. step' = "post" /\ attempt' = 0 /\ placed' = FALSE /\ step \in Working
    BY <1>7 DEF Begin, StartCall, At, Working
  <2>3. LoopTypeOK'
    BY <1>t, <2>1, <2>2 DEF LoopTypeOK, redis, reader
  <2>4. StoreTypeOK' /\ HistoryTypeOK'
    BY <1>t, <2>1 DEF StoreTypeOK, HistoryTypeOK, redis, meta, broker, history
  <2>5. InBatch'
    BY <1>t, <1>m, <2>1, <2>2 DEF InBatch
  <2> QED BY <1>m, <2>3, <2>4, <2>5 DEF Typed, TypeOK
<1>8. CASE BeginUnchecked
  <2>1. UNCHANGED <<up, redis, reader, meta, broker, handled, msg, upto>>
    BY <1>8 DEF BeginUnchecked, StartCall
  <2>2. step' = "post" /\ attempt' = 0 /\ placed' = FALSE /\ step \in Working /\ Fault
    BY <1>8 DEF BeginUnchecked, StartCall, At, Working
  <2>3. LoopTypeOK'
    BY <1>t, <2>1, <2>2 DEF LoopTypeOK, redis, reader
  <2>6. slips' \in [Posts -> Nat] /\ excused' \subseteq Posts
    BY <1>8, <1>e, <1>t, <2>2 DEF BeginUnchecked, HistoryTypeOK
  <2>4. StoreTypeOK' /\ HistoryTypeOK'
    BY <1>t, <1>f, <2>1, <2>2, <2>6 DEF StoreTypeOK, HistoryTypeOK, redis, meta, broker
  <2>5. InBatch'
    BY <1>t, <1>m, <2>1, <2>2 DEF InBatch
  <2> QED BY <1>m, <2>3, <2>4, <2>5 DEF Typed, TypeOK
<1> QED BY <1>1, <1>2, <1>3, <1>4, <1>5, <1>6, <1>7, <1>8

\* The placement's actions.
LEMMA PlacingType ==
    ASSUME Typed, PostPlaces \/ PostRefused \/ PostUnclear \/ PostTimesOut
    PROVE  Typed'
<1>t. ListenerTypeOK /\ LoopTypeOK /\ StoreTypeOK /\ HistoryTypeOK /\ InBatch
  BY DEF Typed, TypeOK
<1>f. Fault \/ UNCHANGED faults => faults' \in [calls : Nat, crashes : Nat]
  BY FaultType DEF Typed
<1>1. /\ UNCHANGED <<up, listener, redis, reader, meta, msg, upto, handled, excused>>
      /\ step = "post" /\ step' \in {"post", "store"}
  BY DEF PostPlaces, PostRefused, PostUnclear, PostTimesOut, Answer, MayMake, At, loop, history
<1>2. Entry \in Posts
  BY <1>1, EntryIn DEF Typed, Working
<1>3. attempt' \in Nat /\ placed' \in BOOLEAN
  <2>1. CASE PostTimesOut
    <3>1. attempt' = attempt + 1 /\ placed' \in {placed, FALSE}
      BY <2>1 DEF PostTimesOut, Answer
    <3>2. attempt \in Nat /\ placed \in BOOLEAN
      BY <1>t DEF LoopTypeOK
    <3>3. attempt' \in Nat
      BY <3>1, <3>2
    <3>4. placed' \in BOOLEAN
      BY <3>1, <3>2, Zenon
    <3> QED BY <3>3, <3>4
  <2>2. CASE PostPlaces \/ PostRefused \/ PostUnclear
    BY <2>2, <1>t DEF PostPlaces, PostRefused, PostUnclear, Answer, LoopTypeOK
  <2> QED BY <2>1, <2>2
<1>4. /\ made' \in [Posts -> Nat] /\ slips' \in [Posts -> Nat]
      /\ answered' \subseteq Posts
  <2>t. made \in [Posts -> Nat] /\ slips \in [Posts -> Nat] /\ answered \subseteq Posts
    BY <1>t DEF HistoryTypeOK
  <2>1. CASE PostPlaces
    BY <2>1, <2>t, <1>2 DEF PostPlaces, history
  <2>2. CASE PostRefused
    BY <2>2, <2>t DEF PostRefused, history, broker
  <2>3. CASE PostUnclear \/ PostTimesOut
    <3>1. /\ made' \in {made, [made EXCEPT ![Entry] = @ + 1]}
          /\ slips' = [slips EXCEPT ![Entry] = @ + 1] /\ answered' = answered
      BY <2>3 DEF PostUnclear, PostTimesOut, MayMake
    <3>2. [made EXCEPT ![Entry] = @ + 1] \in [Posts -> Nat]
      BY <2>t, <1>2
    <3>3. slips' \in [Posts -> Nat]
      BY <2>t, <1>2, <3>1
    <3> QED BY <2>t, <3>1, <3>2, <3>3
  <2> QED BY <2>1, <2>2, <2>3
<1>5. Fault \/ UNCHANGED faults
  BY DEF PostPlaces, PostRefused, PostUnclear, PostTimesOut
<1>6. ListenerTypeOK' /\ stream' = stream
  BY <1>t, <1>1 DEF listener, ListenerTypeOK
<1>7. LoopTypeOK'
  BY <1>t, <1>1, <1>3 DEF LoopTypeOK, redis, reader
<1>8. StoreTypeOK' /\ HistoryTypeOK'
  BY <1>t, <1>f, <1>1, <1>4, <1>5 DEF StoreTypeOK, HistoryTypeOK, redis, meta
<1>9. InBatch'
  BY <1>t, <1>1, <1>6 DEF InBatch, Working
<1> QED BY <1>6, <1>7, <1>8, <1>9 DEF Typed, TypeOK

\* The actions that record an outcome.
LEMMA RecordingType ==
    ASSUME Typed, Store \/ StoreFails \/ Mark \/ MarkFails \/ Save \/ SaveFails
    PROVE  Typed'
<1>t. ListenerTypeOK /\ LoopTypeOK /\ StoreTypeOK /\ HistoryTypeOK /\ InBatch
  BY DEF Typed, TypeOK
<1>f. Fault \/ UNCHANGED faults => faults' \in [calls : Nat, crashes : Nat]
  BY FaultType DEF Typed
<1>1. UNCHANGED <<up, listener, after, base, broker>> /\ step \in Working
  BY DEF Store, StoreFails, Mark, MarkFails, Save, SaveFails, reader, At, Working
<1>2. Entry \in Posts /\ msg \in 1..Len(stream)
  BY <1>1, EntryIn DEF Typed
<1>3. ListenerTypeOK' /\ stream' = stream /\ Len(stream) \in Nat
  BY <1>t, <1>1 DEF listener, ListenerTypeOK
<1>n. NextEntry => step' \in {"next", "idle"} /\ msg' \in Nat /\ upto' \in Nat /\ InBatch'
  BY <1>1, <1>3, NextEntryFacts
<1>s. UNCHANGED <<msg, upto>> /\ step' \in {"mark", "save"} => InBatch'
  BY <1>t, <1>1, <1>3 DEF InBatch, Working
<1>4. InBatch' /\ LoopTypeOK'
  <2>1. CASE Store \/ StoreFails
    <3>1. UNCHANGED <<redis, msg, upto>> /\ step' = "mark" /\ lastId' = msg
          /\ attempt' = 0 /\ placed' = FALSE
      BY <2>1 DEF Store, StoreFails
    <3> QED BY <1>t, <1>1, <1>s, <3>1 DEF LoopTypeOK, redis
  <2>2. CASE Mark
    <3>1. UNCHANGED <<saved, msg, upto, lastId, call>> /\ step' = "save"
      BY <2>2 DEF Mark, reader
    <3> QED BY <1>t, <1>1, <1>s, <3>1 DEF LoopTypeOK, call
  <2>3. CASE MarkFails \/ Save \/ SaveFails
    <3>1. UNCHANGED <<lastId, call>> /\ NextEntry /\ saved' \in {saved, msg}
      BY <2>3 DEF MarkFails, Save, SaveFails, reader, redis
    <3> QED BY <1>t, <1>1, <1>n, <3>1 DEF LoopTypeOK, call
  <2> QED BY <2>1, <2>2, <2>3
<1>5. StoreTypeOK' /\ HistoryTypeOK'
  <2>1. CASE Store
    <3>1. queue' \in Seq(Job) /\ row' \in [Posts -> {"none", "PENDING", "FAILED"}]
      BY <2>1, <1>1, NewJobIn, RecordType DEF Store
    <3>2. UNCHANGED <<redis, slips, excused, faults>> /\ handled' = handled \cup {Entry}
      BY <2>1 DEF Store
    <3> QED BY <1>t, <1>1, <1>2, <3>1, <3>2 DEF StoreTypeOK, HistoryTypeOK, redis, broker
  <2>2. CASE StoreFails
    <3>1. /\ UNCHANGED <<redis, slips, meta>> /\ Fault
          /\ handled' = handled \cup {Entry} /\ excused' = excused \cup {Entry}
      BY <2>2 DEF StoreFails
    <3> QED BY <1>t, <1>f, <1>1, <1>2, <3>1
            DEF StoreTypeOK, HistoryTypeOK, redis, broker, meta
  <2>3. CASE Mark
    <3>1. zset' = zset \cup {Entry} /\ UNCHANGED <<meta, history, faults>>
      BY <2>3 DEF Mark
    <3> QED BY <1>t, <1>1, <1>2, <3>1
            DEF StoreTypeOK, HistoryTypeOK, broker, meta, history
  <2>4. CASE MarkFails
    <3>1. /\ UNCHANGED <<redis, meta, handled>> /\ Fault
          /\ slips' = [slips EXCEPT ![Entry] = @ + 1] /\ excused' = excused \cup {Entry}
      BY <2>4 DEF MarkFails
    <3>2. slips' \in [Posts -> Nat]
      BY <1>t, <1>2, <3>1 DEF HistoryTypeOK
    <3> QED BY <1>t, <1>f, <1>1, <1>2, <3>1, <3>2
            DEF StoreTypeOK, HistoryTypeOK, redis, broker, meta
  <2>5. CASE Save \/ SaveFails
    <3>1. UNCHANGED <<zset, meta, history>> /\ (Fault \/ UNCHANGED faults)
      BY <2>5 DEF Save, SaveFails, redis
    <3> QED BY <1>t, <1>f, <1>1, <3>1
            DEF StoreTypeOK, HistoryTypeOK, broker, meta, history
  <2> QED BY <2>1, <2>2, <2>3, <2>4, <2>5
<1> QED BY <1>3, <1>4, <1>5 DEF Typed, TypeOK

\* The metadata thread and the supervisor.
LEMMA OtherType ==
    ASSUME Typed, WriteRow \/ WriteRowFails \/ Crash \/ Unlock \/ Start
    PROVE  Typed'
<1>t. ListenerTypeOK /\ LoopTypeOK /\ StoreTypeOK /\ HistoryTypeOK /\ InBatch
  BY DEF Typed, TypeOK
<1>f. Fault \/ Dies \/ UNCHANGED faults => faults' \in [calls : Nat, crashes : Nat]
  BY FaultType DEF Typed
<1>1. CASE WriteRow \/ WriteRowFails
  <2>1. /\ UNCHANGED <<up, listener, redis, reader, loop, call, broker, handled, slips>>
        /\ queue # <<>> /\ queue' = Tail(queue)
        /\ row' \in {row, Inserted(row, Head(queue))}
        /\ excused' \in {excused, excused \cup {Head(queue).entry}}
        /\ Fault \/ UNCHANGED faults
    BY <1>1 DEF WriteRow, WriteRowFails, history
  <2>2. queue' \in Seq(Job) /\ Head(queue) \in Job
    BY <1>t, <2>1 DEF StoreTypeOK
  <2>3. Head(queue).entry \in Posts /\ row' \in [Posts -> {"none", "PENDING", "FAILED"}]
    BY <1>t, <2>1, <2>2 DEF StoreTypeOK, Inserted, Job
  <2>4. ListenerTypeOK' /\ LoopTypeOK' /\ InBatch'
    BY <1>t, <2>1 DEF ListenerTypeOK, LoopTypeOK, InBatch, listener, redis, reader, loop, call
  <2>5. StoreTypeOK' /\ HistoryTypeOK'
    BY <1>t, <1>f, <2>1, <2>2, <2>3 DEF StoreTypeOK, HistoryTypeOK, redis, broker
  <2> QED BY <2>4, <2>5 DEF Typed, TypeOK
<1>2. CASE Crash
  <2>1. step \in Working => Entry \in Posts
    BY EntryIn DEF Typed
  <2>2. /\ UNCHANGED <<seen, stream, lapsed, redis, lastId, base, row, broker, handled>>
        /\ Dies /\ up' \in {"down", "locked"} /\ queue' = <<>>
        /\ step' = "idle" /\ after' = 0 /\ msg' = 0 /\ upto' = 0
        /\ attempt' = 0 /\ placed' = FALSE
    BY <1>2 DEF Crash
  <2>3. \A job \in ToSet(queue) : job.entry \in Posts
    <3>1. queue \in Seq(Job)
      BY <1>t DEF StoreTypeOK
    <3>2. \A i \in DOMAIN queue : queue[i] \in Job
      BY <3>1
    <3> QED BY <3>2 DEF ToSet, Job
  <2>4. slips' \in [Posts -> Nat] /\ excused' \subseteq Posts
    <3>1. CASE step \in {"store", "mark"}
      BY <1>2, <1>t, <2>1, <2>3, <3>1 DEF Crash, HistoryTypeOK, Working
    <3>2. CASE step \notin {"store", "mark"}
      BY <1>2, <1>t, <2>3, <3>2 DEF Crash, HistoryTypeOK
    <3> QED BY <3>1, <3>2
  <2>5. ListenerTypeOK'
    BY <1>2, <1>t, <2>2 DEF Crash, ListenerTypeOK
  <2>6. LoopTypeOK' /\ InBatch'
    BY <1>t, <2>2 DEF LoopTypeOK, InBatch, Working, redis
  <2>7. StoreTypeOK' /\ HistoryTypeOK'
    BY <1>t, <1>f, <2>2, <2>4 DEF StoreTypeOK, HistoryTypeOK, redis, broker
  <2> QED BY <2>5, <2>6, <2>7 DEF Typed, TypeOK
<1>3. CASE Unlock \/ Start
  <2>1. /\ UNCHANGED <<listener, redis, after, base, loop, call, meta, broker, history, faults>>
        /\ up' \in {"up", "down"} /\ lastId' \in {lastId, Newest, saved}
    BY <1>3 DEF Unlock, Start, reader
  <2>2. ListenerTypeOK' /\ LoopTypeOK' /\ InBatch'
    BY <1>t, <2>1 DEF ListenerTypeOK, LoopTypeOK, InBatch, listener, redis, loop, call
  <2>3. StoreTypeOK' /\ HistoryTypeOK'
    BY <1>t, <2>1 DEF StoreTypeOK, HistoryTypeOK, redis, meta, broker, history
  <2> QED BY <2>2, <2>3 DEF Typed, TypeOK
<1> QED BY <1>1, <1>2, <1>3

LEMMA NextType == Typed /\ [Next]_vars => Typed'
<1> SUFFICES ASSUME Typed, [Next]_vars PROVE Typed'
  OBVIOUS
<1>t. ListenerTypeOK /\ LoopTypeOK /\ StoreTypeOK /\ HistoryTypeOK /\ InBatch
  BY DEF Typed, TypeOK
<1>1. ASSUME NEW p \in Posts,
             \/ Receive(p) \/ NoSignal(p) \/ DuplicateHash(p) \/ AddHash(p)
             \/ AddHashFails(p) \/ Count(p) \/ Trim(p) \/ TrimFails(p) \/ Publish(p)
      PROVE  Typed'
  <2>1. /\ ListenerTypeOK' /\ faults' \in [calls : Nat, crashes : Nat]
        /\ UNCHANGED <<up, redis, reader, loop, call, meta, broker, history>>
        /\ stream' = stream \/ stream' = Append(stream, p)
    BY <1>1, ListenerStep
  <2>2. stream \in Seq(Posts) /\ Len(stream') >= Len(stream)
    BY <1>1, <1>t, <2>1 DEF ListenerTypeOK
  <2>3. LoopTypeOK'
    BY <1>t, <2>1 DEF LoopTypeOK, redis, reader, loop, call
  <2>4. StoreTypeOK' /\ HistoryTypeOK'
    BY <1>t, <2>1 DEF StoreTypeOK, HistoryTypeOK, redis, meta, broker, history
  <2>5. InBatch'
    <3>1. stream' \in Seq(Posts) /\ UNCHANGED <<step, msg, upto>> /\ upto \in Nat
      BY <1>t, <2>1 DEF ListenerTypeOK, LoopTypeOK, loop
    <3>2. Len(stream) \in Nat /\ Len(stream') \in Nat
      BY <2>2, <3>1
    <3> QED BY <1>t, <2>2, <3>1, <3>2 DEF InBatch
  <2> QED BY <2>1, <2>3, <2>4, <2>5 DEF Typed, TypeOK
<1>2. CASE UNCHANGED vars
  BY <1>2, <1>t DEF vars, listener, redis, reader, loop, call, meta, broker, history, Typed,
     TypeOK, ListenerTypeOK, LoopTypeOK, StoreTypeOK, HistoryTypeOK, InBatch
<1> QED BY <1>1, <1>2, NextSplit, ReadingType, PlacingType, RecordingType, OtherType

\* Every variable keeps its type, whatever fails.
THEOREM TypeCorrect == Spec => []TypeOK
<1>1. Typed => TypeOK
  BY DEF Typed
<1> QED BY <1>1, InitType, NextType, PTL DEF Spec

-----------------------------------------------------------------------------
(* Orders *)

\* The entry may be placed, or is being placed, without a further slip.
Open(p) ==
    \/ step = "post" /\ p = Entry
    \/ p \notin zset /\ ~(step \in {"store", "mark"} /\ p = Entry)

\* An open entry has no order the strategy knows of.
OrdersCounted ==
    \A p \in Posts :
        /\ made[p] <= slips[p] + 1
        /\ Open(p) => made[p] <= slips[p]

\* The steps that neither place nor lose anything open no entry.
LEMMA QuietOrders ==
    ASSUME Typed, OrdersCounted, UNCHANGED <<made, slips>>, zset \subseteq zset',
           \A p \in Posts : Open(p)' => Open(p)
    PROVE  OrdersCounted'
BY DEF OrdersCounted

\* The entry at hand stays the same while the stream grows.
LEMMA EntryStays ==
    ASSUME Typed, NEW p \in Posts, UNCHANGED <<step, msg>>,
           stream' = stream \/ stream' = Append(stream, p)
    PROVE  step \in Working => Entry' = Entry
<1> SUFFICES ASSUME step \in Working PROVE Entry' = Entry
  OBVIOUS
<1>1. msg \in 1..Len(stream) /\ stream \in Seq(Posts)
  BY EntryIn DEF Typed, TypeOK, ListenerTypeOK
<1>2. Append(stream, p)[msg] = stream[msg]
  BY <1>1
<1> QED BY <1>2 DEF Entry

LEMMA OrdersStep == Typed /\ OrdersCounted /\ [Next]_vars => OrdersCounted'
<1> SUFFICES ASSUME Typed, OrdersCounted, [Next]_vars PROVE OrdersCounted'
  OBVIOUS
<1>t. /\ made \in [Posts -> Nat] /\ slips \in [Posts -> Nat]
  BY DEF Typed, TypeOK, HistoryTypeOK
<1>e. step \in Working => Entry \in Posts
  BY EntryIn DEF Typed
<1>1. ASSUME NEW p \in Posts,
             \/ Receive(p) \/ NoSignal(p) \/ DuplicateHash(p) \/ AddHash(p)
             \/ AddHashFails(p) \/ Count(p) \/ Trim(p) \/ TrimFails(p) \/ Publish(p)
      PROVE  OrdersCounted'
  <2>1. /\ UNCHANGED <<redis, loop, broker, history>>
        /\ stream' = stream \/ stream' = Append(stream, p)
    BY <1>1, ListenerStep
  <2>2. UNCHANGED <<zset, step, msg, made, slips>>
    BY <2>1 DEF redis, loop, broker, history
  <2>3. step \in Working => Entry' = Entry
    BY <2>1, <2>2, EntryStays
  <2>4. \A q \in Posts : Open(q)' => Open(q)
    BY <2>2, <2>3 DEF Open, Working
  <2> QED BY <2>2, <2>4, QuietOrders
<1>2. CASE \/ Block \/ BlockEnds \/ Read \/ ReadFails \/ SkipMarked \/ ParseFails
           \/ Save \/ SaveFails
  <2>1. /\ UNCHANGED <<zset, made, slips>>
        /\ step \in {"idle", "wait", "next", "save"} /\ step' \in {"idle", "wait", "next"}
    BY <1>2 DEF Block, BlockEnds, Read, ReadFails, SkipMarked, ParseFails, Save, SaveFails,
       NextEntry, At, redis, broker, history
  <2>2. \A q \in Posts : Open(q)' => Open(q)
    BY <2>1 DEF Open
  <2> QED BY <2>1, <2>2, QuietOrders
<1>3. CASE Begin
  <2>1. /\ UNCHANGED <<zset, made, slips, msg, stream>>
        /\ step = "next" /\ step' = "post" /\ Entry \notin zset
    BY <1>3 DEF Begin, StartCall, At, listener, redis, broker, history
  <2>2. \A q \in Posts : Open(q)' => Open(q)
    BY <2>1 DEF Open, Entry
  <2> QED BY <2>1, <2>2, QuietOrders
<1>4. CASE BeginUnchecked
  <2>1. /\ UNCHANGED <<zset, made, msg, stream>> /\ step = "next" /\ step' = "post"
        /\ slips' = [slips EXCEPT ![Entry] = @ + 1]
    BY <1>4 DEF BeginUnchecked, StartCall, At, listener, redis, broker
  <2>2. Entry' = Entry /\ Entry \in Posts
    BY <1>e, <2>1 DEF Entry, Working
  <2>3. slips'[Entry] = slips[Entry] + 1 /\ \A q \in Posts \ {Entry} : slips'[q] = slips[q]
    BY <1>t, <2>1, <2>2
  <2>4. \A q \in Posts \ {Entry} : Open(q)' => Open(q)
    BY <2>1, <2>2 DEF Open
  <2> QED BY <1>t, <2>1, <2>2, <2>3, <2>4 DEF OrdersCounted
<1>5. CASE PostPlaces
  <2>1. /\ UNCHANGED <<zset, slips, msg, stream>> /\ step = "post" /\ step' = "store"
        /\ made' = [made EXCEPT ![Entry] = @ + 1]
    BY <1>5 DEF PostPlaces, Answer, At, listener, redis, history
  <2>2. Entry' = Entry /\ Entry \in Posts
    BY <1>e, <2>1 DEF Entry, Working
  <2>3. made'[Entry] = made[Entry] + 1 /\ \A q \in Posts \ {Entry} : made'[q] = made[q]
    BY <1>t, <2>1, <2>2
  <2>4. ~Open(Entry)' /\ Open(Entry) /\ \A q \in Posts \ {Entry} : Open(q)' => Open(q)
    BY <2>1, <2>2 DEF Open
  <2>5. made[Entry] <= slips[Entry]
    BY <2>2, <2>4 DEF OrdersCounted
  <2>6. made'[Entry] <= slips'[Entry] + 1
    BY <1>t, <2>1, <2>2, <2>3, <2>5
  <2>7. \A q \in Posts \ {Entry} :
          made'[q] <= slips'[q] + 1 /\ (Open(q)' => made'[q] <= slips'[q])
    BY <2>1, <2>3, <2>4 DEF OrdersCounted
  <2> QED BY <2>2, <2>4, <2>6, <2>7 DEF OrdersCounted
<1>6. CASE PostRefused
  <2>1. /\ UNCHANGED <<zset, slips, made, msg, stream>> /\ step = "post" /\ step' = "store"
    BY <1>6 DEF PostRefused, Answer, At, listener, redis, history, broker
  <2>2. \A q \in Posts : Open(q)' => Open(q)
    BY <2>1 DEF Open, Entry
  <2> QED BY <2>1, <2>2, QuietOrders
<1>7. CASE PostUnclear \/ PostTimesOut
  <2>1. /\ UNCHANGED <<zset, msg, stream>> /\ step = "post" /\ step' \in {"post", "store"}
        /\ made' \in {made, [made EXCEPT ![Entry] = @ + 1]}
        /\ slips' = [slips EXCEPT ![Entry] = @ + 1]
    BY <1>7 DEF PostUnclear, PostTimesOut, MayMake, Answer, At, listener, redis, loop
  <2>2. Entry' = Entry /\ Entry \in Posts
    BY <1>e, <2>1 DEF Entry, Working
  <2>3. /\ made'[Entry] \in {made[Entry], made[Entry] + 1}
        /\ \A q \in Posts \ {Entry} : made'[q] = made[q]
    BY <1>t, <2>1, <2>2
  <2>4. slips'[Entry] = slips[Entry] + 1 /\ \A q \in Posts \ {Entry} : slips'[q] = slips[q]
    BY <1>t, <2>1, <2>2
  <2>5. Open(Entry) /\ \A q \in Posts \ {Entry} : Open(q)' => Open(q)
    BY <2>1, <2>2 DEF Open
  <2>6. made[Entry] <= slips[Entry]
    BY <2>2, <2>5 DEF OrdersCounted
  <2>7. made'[Entry] <= slips'[Entry] /\ made'[Entry] <= slips'[Entry] + 1
    BY <1>t, <2>2, <2>3, <2>4, <2>6
  <2>8. \A q \in Posts \ {Entry} :
          made'[q] <= slips'[q] + 1 /\ (Open(q)' => made'[q] <= slips'[q])
    BY <2>3, <2>4, <2>5 DEF OrdersCounted
  <2> QED BY <2>2, <2>7, <2>8 DEF OrdersCounted
<1>8. CASE Store \/ StoreFails
  <2>1. /\ UNCHANGED <<zset, slips, made, msg, stream>> /\ step = "store" /\ step' = "mark"
    BY <1>8 DEF Store, StoreFails, At, listener, redis, broker
  <2>2. \A q \in Posts : Open(q)' => Open(q)
    BY <2>1 DEF Open, Entry
  <2> QED BY <2>1, <2>2, QuietOrders
<1>9. CASE Mark
  <2>1. /\ UNCHANGED <<slips, made, msg, stream>> /\ step = "mark" /\ step' = "save"
        /\ zset' = zset \cup {Entry}
    BY <1>9 DEF Mark, At, listener, broker, history
  <2>2. \A q \in Posts : Open(q)' => Open(q)
    BY <2>1 DEF Open, Entry
  <2> QED BY <2>1, <2>2, QuietOrders
<1>10. CASE MarkFails \/ (Crash /\ step \in {"store", "mark"})
  <2>1. /\ UNCHANGED <<zset, made>> /\ step \in {"store", "mark"} /\ step' \in {"idle", "next"}
        /\ slips' = [slips EXCEPT ![Entry] = @ + 1]
    BY <1>10 DEF MarkFails, Crash, NextEntry, At, redis, broker
  <2>2. Entry \in Posts
    BY <1>e, <2>1 DEF Working
  <2>3. slips'[Entry] = slips[Entry] + 1 /\ \A q \in Posts \ {Entry} : slips'[q] = slips[q]
    BY <1>t, <2>1, <2>2
  <2>4. \A q \in Posts \ {Entry} : Open(q)' => Open(q)
    BY <2>1 DEF Open
  <2>5. \A q \in Posts : made'[q] = made[q]
    BY <2>1
  <2>6. made'[Entry] <= slips'[Entry] /\ made'[Entry] <= slips'[Entry] + 1
    BY <1>t, <2>2, <2>3, <2>5 DEF OrdersCounted
  <2>7. \A q \in Posts \ {Entry} :
          made'[q] <= slips'[q] + 1 /\ (Open(q)' => made'[q] <= slips'[q])
    BY <2>3, <2>4, <2>5 DEF OrdersCounted
  <2> QED BY <2>6, <2>7 DEF OrdersCounted
<1>11. CASE Crash /\ step \notin {"store", "mark"}
  <2>1. UNCHANGED <<zset, made, slips>> /\ step' = "idle"
    BY <1>11 DEF Crash, redis, broker
  <2>2. \A q \in Posts : Open(q)' => Open(q)
    BY <1>11, <2>1 DEF Open
  <2> QED BY <2>1, <2>2, QuietOrders
<1>12. CASE WriteRow \/ WriteRowFails \/ Unlock \/ Start \/ UNCHANGED vars
  <2>1. UNCHANGED <<zset, made, slips, step, msg, stream>>
    BY <1>12 DEF WriteRow, WriteRowFails, Unlock, Start, vars, listener, redis, loop, broker, history
  <2>2. \A q \in Posts : Open(q)' => Open(q)
    BY <2>1 DEF Open, Entry
  <2> QED BY <2>1, <2>2, QuietOrders
<1> QED BY <1>1, <1>2, <1>3, <1>4, <1>5, <1>6, <1>7, <1>8, <1>9, <1>10, <1>11, <1>12, NextSplit

\* One GTT for an entry, and one more for each answer or mark that was lost:
\* retries, restarts and re-read batches place no other.
THEOREM OrdersAreCounted == Spec => []OneOrder
<1>1. Init => OrdersCounted
  BY DEF Init, OrdersCounted
<1>2. OrdersCounted => OneOrder
  BY DEF OrdersCounted, OneOrder
<1> QED BY <1>1, <1>2, InitType, NextType, OrdersStep, PTL DEF Spec

-----------------------------------------------------------------------------
(* Positions *)

\* Every entry between the last read from "$" and position n is handled.
Reached(n) == \A i \in 1..Len(stream) : base < i /\ i <= n => stream[i] \in handled

\* What each position stands for: the saved one, the one in memory and the
\* strategy's place in its batch.
Positions ==
    /\ zset \subseteq handled
    /\ saved <= Len(stream) /\ lastId <= Len(stream)
    /\ Reached(saved) /\ Reached(lastId)
    /\ lastId = Newest => saved = 0
    /\ step = "wait" /\ lastId # Newest => after = lastId
    /\ step \in Working => Reached(msg - 1)
    /\ step \in {"mark", "save"} => lastId = msg
    /\ step = "mark" => Entry \in handled

\* The loop runs only while the program is up.
Idle == up # "up" => step = "idle"

LEMMA IdleStep == Typed /\ Idle /\ [Next]_vars => Idle'
<1> SUFFICES ASSUME Typed, Idle, [Next]_vars PROVE Idle'
  OBVIOUS
<1>1. ASSUME NEW p \in Posts,
             \/ Receive(p) \/ NoSignal(p) \/ DuplicateHash(p) \/ AddHash(p)
             \/ AddHashFails(p) \/ Count(p) \/ Trim(p) \/ TrimFails(p) \/ Publish(p)
      PROVE  Idle'
  BY <1>1, ListenerStep DEF Idle, loop
<1>2. CASE \/ Block \/ BlockEnds \/ Read \/ ReadFails \/ SkipMarked \/ ParseFails \/ Begin
           \/ BeginUnchecked \/ PostPlaces \/ PostRefused \/ PostUnclear \/ PostTimesOut
           \/ Store \/ StoreFails \/ Mark \/ MarkFails \/ Save \/ SaveFails
  <2>1. up = "up" /\ up' = up
    BY <1>2 DEF Block, BlockEnds, Read, ReadFails, SkipMarked, ParseFails, Begin,
       BeginUnchecked, PostPlaces, PostRefused, PostUnclear, PostTimesOut, Store,
       StoreFails, Mark, MarkFails, Save, SaveFails, At
  <2> QED BY <2>1 DEF Idle
<1>3. CASE \/ WriteRow \/ WriteRowFails \/ Crash \/ Unlock \/ Start \/ UNCHANGED vars
  BY <1>3 DEF WriteRow, WriteRowFails, Crash, Unlock, Start, vars, loop, Idle
<1> QED BY <1>1, <1>2, <1>3, NextSplit

\* The actions of the strategy that move no position.
LEMMA QuietPositions ==
    ASSUME Typed, Positions, UNCHANGED <<zset, stream, saved, lastId, base, handled>>,
           step' = "wait" => after' = after /\ step = "wait",
           step' \in Working => step \in Working /\ msg' = msg,
           step' \in {"mark", "save"} => step' = step
    PROVE  Positions'
<1>1. zset' \subseteq handled' /\ saved' <= Len(stream') /\ lastId' <= Len(stream')
  BY DEF Positions
<1>2. Reached(saved)' /\ Reached(lastId)'
  BY DEF Positions, Reached
<1>3. lastId' = Newest => saved' = 0
  BY DEF Positions
<1>4. step' = "wait" /\ lastId' # Newest => after' = lastId'
  BY DEF Positions
<1>5. step' \in Working => Reached(msg - 1)'
  BY DEF Positions, Reached
<1>6. step' \in {"mark", "save"} => lastId' = msg'
  BY DEF Positions, Working
<1>7. step' = "mark" => Entry' \in handled'
  BY DEF Positions, Working, Entry
<1> QED BY <1>1, <1>2, <1>3, <1>4, <1>5, <1>6, <1>7 DEF Positions, Newest

LEMMA PositionsStep == Typed /\ Idle /\ Positions /\ [Next]_vars => Positions'
<1> SUFFICES ASSUME Typed, Idle, Positions, [Next]_vars PROVE Positions'
  OBVIOUS
<1>t. /\ stream \in Seq(Posts) /\ Len(stream) \in Nat
      /\ saved \in Nat /\ lastId \in Nat \cup {Newest} /\ after \in Nat /\ base \in Nat
      /\ Newest = -1 /\ handled \subseteq Posts
  BY DEF Typed, TypeOK, ListenerTypeOK, LoopTypeOK, HistoryTypeOK, Newest
<1>e. step \in Working => Entry \in Posts /\ msg \in 1..Len(stream) /\ Entry = stream[msg]
  BY EntryIn DEF Typed, Entry
<1>1. ASSUME NEW p \in Posts,
             \/ Receive(p) \/ NoSignal(p) \/ DuplicateHash(p) \/ AddHash(p)
             \/ AddHashFails(p) \/ Count(p) \/ Trim(p) \/ TrimFails(p) \/ Publish(p)
      PROVE  Positions'
  <2>1. /\ UNCHANGED <<redis, reader, loop, history>>
        /\ stream' = stream \/ stream' = Append(stream, p)
    BY <1>1, ListenerStep
  <2>2. UNCHANGED <<zset, saved, lastId, after, base, step, msg, handled>>
    BY <2>1 DEF redis, reader, loop, history
  <2>3. CASE stream' = stream
    BY <2>2, <2>3, QuietPositions
  <2>4. CASE stream' = Append(stream, p)
    <3>1. Len(stream') = Len(stream) + 1 /\ \A i \in 1..Len(stream) : stream'[i] = stream[i]
      BY <1>t, <2>4
    <3>2. ASSUME NEW n \in Int, n <= Len(stream), Reached(n)
          PROVE  \A i \in 1..Len(stream') : base' < i /\ i <= n => stream'[i] \in handled'
      BY <1>t, <2>2, <3>1, <3>2 DEF Reached
    <3>3. Reached(saved)' /\ Reached(lastId)'
      BY <1>t, <2>2, <3>2 DEF Positions, Reached
    <3>4. step \in Working => Reached(msg - 1)'
      BY <1>t, <1>e, <2>2, <3>2 DEF Positions, Reached
    <3>5. step = "mark" => Entry' \in handled'
      BY <1>e, <2>1, <2>2, EntryStays DEF Positions, Working
    <3> QED BY <1>t, <2>2, <3>1, <3>3, <3>4, <3>5 DEF Positions, Newest
  <2> QED BY <2>1, <2>3, <2>4
<1>2. CASE Block
  <2>1. /\ UNCHANGED <<zset, stream, saved, lastId, base, handled>>
        /\ step' = "wait" /\ (lastId # Newest => after' = lastId)
    BY <1>2 DEF Block, listener, redis, history
  <2> QED BY <2>1 DEF Positions, Reached, Working, Newest
<1>3. CASE Read
  <2>1. /\ UNCHANGED <<zset, stream, saved, lastId, handled>>
        /\ step = "wait" /\ step' = "next" /\ msg' = after + 1 /\ after < Len(stream)
    BY <1>3 DEF Read, At, listener, redis, history
  <2>2. CASE lastId = Newest
    <3>1. base' = after /\ saved = 0 /\ after' = 0
      BY <1>3, <2>2 DEF Read, Positions
    <3>2. Reached(saved)' /\ Reached(lastId)' /\ Reached(msg - 1)'
      BY <1>t, <2>1, <2>2, <3>1 DEF Reached
    <3> QED BY <1>t, <2>1, <2>2, <3>1, <3>2 DEF Positions, Newest
  <2>3. CASE lastId # Newest
    <3>1. base' = base /\ after = lastId
      BY <1>3, <2>1, <2>3 DEF Read, Positions
    <3>2. Reached(saved)' /\ Reached(lastId)' /\ Reached(msg - 1)'
      BY <1>t, <2>1, <3>1 DEF Reached, Positions
    <3> QED BY <1>t, <2>1, <2>3, <3>1, <3>2 DEF Positions, Newest
  <2> QED BY <2>2, <2>3
<1>4. CASE BlockEnds \/ ReadFails
  <2>1. UNCHANGED <<zset, stream, saved, lastId, base, handled>> /\ step' = "idle"
    BY <1>4 DEF BlockEnds, ReadFails, listener, redis, history
  <2> QED BY <2>1, QuietPositions DEF Working
<1>5. CASE SkipMarked \/ ParseFails
  <2>1. /\ UNCHANGED <<zset, stream, saved, base>> /\ step = "next"
        /\ lastId' = msg /\ NextEntry
        /\ handled \subseteq handled' /\ Entry \in handled'
    BY <1>5 DEF SkipMarked, ParseFails, At, listener, redis, history, Positions
  <2>2. step' \in {"next", "idle"} /\ (step' = "next" => msg' = msg + 1)
    BY <2>1, NextEntryFacts DEF Working
  <2>3. msg \in 1..Len(stream) /\ Entry = stream[msg] /\ Reached(msg - 1)
    BY <1>e, <2>1 DEF Positions, Working
  <2>4. \A i \in 1..Len(stream) : base < i /\ i <= msg => stream[i] \in handled'
    BY <2>1, <2>3 DEF Reached
  <2>5. Reached(saved)' /\ Reached(lastId)' /\ (step' = "next" => Reached(msg - 1)')
    BY <1>t, <2>1, <2>2, <2>3, <2>4 DEF Reached, Positions
  <2> QED BY <1>t, <2>1, <2>2, <2>3, <2>5 DEF Positions, Newest, Working
<1>6. CASE \/ Begin \/ BeginUnchecked
           \/ PostPlaces \/ PostRefused \/ PostUnclear \/ PostTimesOut
  <2>1. /\ UNCHANGED <<zset, stream, saved, lastId, base, handled, msg>>
        /\ step \in Working /\ step' \in {"post", "store"}
    BY <1>6 DEF Begin, BeginUnchecked, StartCall, PostPlaces, PostRefused, PostUnclear,
       PostTimesOut, MayMake, Answer, At, Working, listener, redis, reader, loop, history
  <2> QED BY <2>1, QuietPositions DEF Working
<1>7. CASE Store \/ StoreFails
  <2>1. /\ UNCHANGED <<zset, stream, saved, base, msg>> /\ step = "store" /\ step' = "mark"
        /\ lastId' = msg /\ handled' = handled \cup {Entry}
    BY <1>7 DEF Store, StoreFails, At, listener, redis
  <2>2. msg \in 1..Len(stream) /\ Entry = stream[msg] /\ Reached(msg - 1)
    BY <1>e, <2>1 DEF Positions, Working
  <2>3. \A i \in 1..Len(stream) : base < i /\ i <= msg => stream[i] \in handled'
    BY <2>1, <2>2 DEF Reached
  <2>4. Reached(saved)' /\ Reached(lastId)' /\ Reached(msg - 1)'
    BY <1>t, <2>1, <2>2, <2>3 DEF Reached, Positions
  <2>5. Entry' \in handled'
    BY <2>1 DEF Entry
  <2> QED BY <1>t, <2>1, <2>2, <2>4, <2>5 DEF Positions, Newest, Working
<1>8. CASE Mark
  <2>1. /\ UNCHANGED <<stream, saved, lastId, base, handled, msg>>
        /\ step = "mark" /\ step' = "save" /\ zset' = zset \cup {Entry}
    BY <1>8 DEF Mark, At, listener, reader, history
  <2>2. Entry \in handled
    BY <2>1 DEF Positions
  <2> QED BY <2>1, <2>2 DEF Positions, Reached, Working, Newest
<1>9. CASE MarkFails \/ Save \/ SaveFails
  <2>1. /\ UNCHANGED <<zset, stream, lastId, base, handled>>
        /\ step \in {"mark", "save"} /\ NextEntry /\ saved' \in {saved, msg}
    BY <1>9 DEF MarkFails, Save, SaveFails, At, listener, redis, reader, history
  <2>2. step' \in {"next", "idle"} /\ (step' = "next" => msg' = msg + 1)
    BY <2>1, NextEntryFacts DEF Working
  <2>3. msg \in 1..Len(stream) /\ lastId = msg /\ Reached(lastId) /\ Reached(saved)
    BY <1>e, <2>1 DEF Positions, Working
  <2>4. Reached(saved)' /\ Reached(lastId)' /\ (step' = "next" => Reached(msg - 1)')
    BY <1>t, <2>1, <2>2, <2>3 DEF Reached
  <2> QED BY <1>t, <2>1, <2>2, <2>3, <2>4 DEF Positions, Newest, Working
<1>10. CASE WriteRow \/ WriteRowFails \/ Unlock \/ UNCHANGED vars
  <2>1. UNCHANGED <<zset, stream, saved, lastId, base, handled, after, step, msg>>
    BY <1>10 DEF WriteRow, WriteRowFails, Unlock, vars, listener, redis, reader, loop, history
  <2> QED BY <2>1, QuietPositions
<1>11. CASE Crash
  <2>1. UNCHANGED <<zset, stream, saved, lastId, base, handled>> /\ step' = "idle"
    BY <1>11 DEF Crash, redis
  <2> QED BY <2>1, QuietPositions DEF Working
<1>12. CASE Start
  <2>1. /\ UNCHANGED <<zset, stream, saved, base, handled, after, step, msg>>
        /\ lastId' = IF saved = 0 THEN Newest ELSE saved
        /\ step = "idle"
    BY <1>12 DEF Start, Idle, listener, redis, loop, history
  <2>2. CASE saved = 0
    BY <1>t, <2>1, <2>2 DEF Positions, Reached, Working, Newest
  <2>3. CASE saved # 0
    BY <1>t, <2>1, <2>3 DEF Positions, Reached, Working, Newest
  <2> QED BY <2>2, <2>3
<1> QED BY <1>1, <1>2, <1>3, <1>4, <1>5, <1>6, <1>7, <1>8, <1>9, <1>10, <1>11, <1>12, NextSplit

\* A restart resumes behind no entry that was not handled, except those
\* published before a read from "$".
THEOREM NoEntryIsSkipped == Spec => []NothingSkipped
<1>1. Init => Positions
  BY DEF Init, Positions, Reached, Newest, Working
<1>3. Init => Idle
  BY DEF Init, Idle
<1>2. Positions => NothingSkipped
  BY DEF Positions, Reached, NothingSkipped
<1> QED BY <1>1, <1>2, <1>3, InitType, NextType, IdleStep, PositionsStep, PTL DEF Spec

-----------------------------------------------------------------------------
(* Hashes *)

\* The posts whose hash passed the check.
Passed(p) == post[p] \in {"count", "trim", "publish"} \/ p \in ToSet(stream)

\* A hash that passed is in the set or has lapsed, two posts with one hash pass
\* only if it has, and a handler that published is over.
HashesKept ==
    /\ \A p \in Posts : Passed(p) => HashOf[p] \in ToSet(seen) \cup lapsed
    /\ \A p, q \in Posts :
         p # q /\ Passed(p) /\ Passed(q) /\ HashOf[p] = HashOf[q] => HashOf[p] \in lapsed
    /\ \A i \in 1..Len(stream) : post[stream[i]] = "done"
    /\ \A i, j \in 1..Len(stream) : i # j => stream[i] # stream[j]

\* Steps that pass no post and lose no hash unnoticed.
LEMMA QuietHashes ==
    ASSUME Typed, HashesKept, stream' = stream, lapsed \subseteq lapsed',
           \A h \in Hashes : h \in ToSet(seen) => h \in ToSet(seen') \cup lapsed',
           \A p \in Posts : post[p] = "done" => post'[p] = "done",
           \A p \in Posts : Passed(p)' => Passed(p)
    PROVE  HashesKept'
<1>1. \A p \in Posts : HashOf[p] \in Hashes
  BY StreamAssumption DEF Posts
<1>2. \A p \in Posts : Passed(p)' => HashOf[p] \in ToSet(seen') \cup lapsed'
  BY <1>1 DEF HashesKept
<1>3. \A p, q \in Posts :
        p # q /\ Passed(p)' /\ Passed(q)' /\ HashOf[p] = HashOf[q] => HashOf[p] \in lapsed'
  BY DEF HashesKept
<1>4. \A i \in 1..Len(stream) : post'[stream[i]] = "done"
  <2>1. \A i \in 1..Len(stream) : stream[i] \in Posts
    BY DEF Typed, TypeOK, ListenerTypeOK
  <2> QED BY <2>1 DEF HashesKept
<1> QED BY <1>2, <1>3, <1>4 DEF HashesKept

\* A post whose hash is new, or thought new, passes.
LEMMA PassHashes ==
    ASSUME Typed, HashesKept, NEW p \in Posts, stream' = stream,
           post[p] = "parse", post' = [post EXCEPT ![p] = "count"],
           HashOf[p] \notin ToSet(seen) \/ HashOf[p] \in lapsed',
           lapsed \subseteq lapsed', HashOf[p] \in ToSet(seen') \cup lapsed',
           ToSet(seen) \subseteq ToSet(seen')
    PROVE  HashesKept'
<1>1. post \in [Posts -> {"new", "parse", "count", "trim", "publish", "done"}]
  BY DEF Typed, TypeOK, ListenerTypeOK
<1>2. post'[p] = "count" /\ \A q \in Posts \ {p} : post'[q] = post[q]
  BY <1>1
<1>3. \A q \in Posts \ {p} : Passed(q)' <=> Passed(q)
  BY <1>2 DEF Passed
<1>4. \A q \in Posts : Passed(q)' => HashOf[q] \in ToSet(seen') \cup lapsed'
  BY <1>3 DEF HashesKept
<1>5. \A q \in Posts \ {p} : Passed(q)' /\ HashOf[q] = HashOf[p] => HashOf[p] \in lapsed'
  BY <1>3 DEF HashesKept
<1>6. \A q, r \in Posts :
        q # r /\ Passed(q)' /\ Passed(r)' /\ HashOf[q] = HashOf[r] => HashOf[q] \in lapsed'
  BY <1>3, <1>5 DEF HashesKept
<1>7. \A i \in 1..Len(stream) : stream[i] \in Posts \ {p}
  <2>1. \A i \in 1..Len(stream) : stream[i] \in Posts
    BY DEF Typed, TypeOK, ListenerTypeOK
  <2> QED BY <2>1 DEF HashesKept
<1>8. \A i \in 1..Len(stream) : post'[stream[i]] = "done"
  BY <1>2, <1>7 DEF HashesKept
<1> QED BY <1>4, <1>6, <1>8 DEF HashesKept

LEMMA HashesStep == Typed /\ HashesKept /\ [Next]_vars => HashesKept'
<1> SUFFICES ASSUME Typed, HashesKept, [Next]_vars PROVE HashesKept'
  OBVIOUS
<1>t. /\ post \in [Posts -> {"new", "parse", "count", "trim", "publish", "done"}]
      /\ seen \in Seq(Posts \cup Hashes) /\ stream \in Seq(Posts)
      /\ \A p \in Posts : HashOf[p] \in Hashes
  BY StreamAssumption DEF Typed, TypeOK, ListenerTypeOK, Posts
<1>a. ASSUME NEW x \in Posts \cup Hashes PROVE ToSet(Append(seen, x)) = ToSet(seen) \cup {x}
  BY <1>t, <1>a, AppendFacts
<1>1. ASSUME NEW p \in Posts, Receive(p) \/ NoSignal(p) \/ DuplicateHash(p)
      PROVE  HashesKept'
  <2>1. /\ UNCHANGED <<stream, lapsed>> /\ post[p] \in {"new", "parse"}
        /\ \E s \in {"parse", "done"} : post' = [post EXCEPT ![p] = s]
        /\ seen' \in {seen, Append(seen, p)}
    BY <1>1 DEF Receive, NoSignal, DuplicateHash, Move, Listening
  <2>2. ToSet(seen) \subseteq ToSet(seen')
    BY <1>a, <2>1
  <2>3. \A q \in Posts : (post[q] = "done" => post'[q] = "done") /\ (Passed(q)' => Passed(q))
    BY <1>t, <2>1 DEF Passed
  <2> QED BY <2>1, <2>2, <2>3, QuietHashes
<1>2. ASSUME NEW p \in Posts, AddHash(p) PROVE HashesKept'
  <2>1. /\ UNCHANGED <<stream, lapsed>> /\ post[p] = "parse"
        /\ post' = [post EXCEPT ![p] = "count"]
        /\ seen' = Append(seen, HashOf[p]) /\ HashOf[p] \notin ToSet(seen)
    BY <1>2 DEF AddHash, Move, Listening
  <2>2. ToSet(seen') = ToSet(seen) \cup {HashOf[p]}
    BY <1>a, <1>t, <2>1
  <2> QED BY <2>1, <2>2, PassHashes
<1>3. ASSUME NEW p \in Posts, AddHashFails(p) PROVE HashesKept'
  <2>1. /\ UNCHANGED <<stream, seen>> /\ post[p] = "parse"
        /\ post' = [post EXCEPT ![p] = "count"] /\ lapsed' = lapsed \cup {HashOf[p]}
    BY <1>3 DEF AddHashFails, Move, Listening
  <2> QED BY <2>1, PassHashes
<1>4. ASSUME NEW p \in Posts, Count(p) \/ Trim(p) \/ TrimFails(p) PROVE HashesKept'
  <2>1. /\ stream' = stream /\ post[p] \in {"count", "trim"}
        /\ \E s \in {"trim", "publish"} : post' = [post EXCEPT ![p] = s]
    BY <1>4 DEF Count, Trim, TrimFails, Move, Listening
  <2>2. lapsed \subseteq lapsed'
        /\ \A h \in Hashes : h \in ToSet(seen) => h \in ToSet(seen') \cup lapsed'
    BY <1>4 DEF Count, Trim, TrimFails
  <2>3. \A q \in Posts : (post[q] = "done" => post'[q] = "done") /\ (Passed(q)' => Passed(q))
    BY <1>t, <2>1 DEF Passed
  <2> QED BY <2>1, <2>2, <2>3, QuietHashes
<1>5. ASSUME NEW p \in Posts, Publish(p) PROVE HashesKept'
  <2>1. /\ UNCHANGED <<seen, lapsed>> /\ post[p] = "publish"
        /\ post' = [post EXCEPT ![p] = "done"]
        /\ stream' = stream \/ stream' = Append(stream, p)
    BY <1>5 DEF Publish, Move, Listening
  <2>2. post'[p] = "done" /\ \A q \in Posts \ {p} : post'[q] = post[q]
    BY <1>t, <2>1
  <2>3. CASE stream' = stream
    <3>1. \A q \in Posts : (post[q] = "done" => post'[q] = "done") /\ (Passed(q)' => Passed(q))
      BY <2>2, <2>3 DEF Passed
    <3> QED BY <2>1, <2>3, <3>1, QuietHashes
  <2>4. CASE stream' = Append(stream, p)
    <3>1. /\ Len(stream') = Len(stream) + 1 /\ stream'[Len(stream) + 1] = p
          /\ \A i \in 1..Len(stream) : stream'[i] = stream[i]
      BY <1>t, <2>4
    <3>2. ToSet(stream') = ToSet(stream) \cup {p}
      BY <1>t, <2>4, AppendFacts
    <3>3. \A i \in 1..Len(stream) : stream[i] \in Posts \ {p}
      BY <1>t, <2>1 DEF HashesKept
    <3>4. \A q \in Posts : Passed(q)' => Passed(q)
      BY <2>1, <2>2, <3>2 DEF Passed
    <3>5. \A q \in Posts : Passed(q)' => HashOf[q] \in ToSet(seen') \cup lapsed'
      BY <2>1, <3>4 DEF HashesKept
    <3>6. \A q, r \in Posts :
            q # r /\ Passed(q)' /\ Passed(r)' /\ HashOf[q] = HashOf[r] => HashOf[q] \in lapsed'
      BY <2>1, <3>4 DEF HashesKept
    <3>7. \A i \in 1..Len(stream') : post'[stream'[i]] = "done"
      <4>1. \A i \in 1..Len(stream) : post'[stream'[i]] = "done"
        BY <2>2, <3>1, <3>3 DEF HashesKept
      <4> QED BY <1>t, <2>2, <3>1, <4>1
    <3>8. \A i, j \in 1..Len(stream') : i # j => stream'[i] # stream'[j]
      <4>1. \A i, j \in 1..Len(stream) : i # j => stream'[i] # stream'[j]
        BY <3>1 DEF HashesKept
      <4>2. \A i \in 1..Len(stream) : stream'[i] # stream'[Len(stream) + 1]
        BY <3>1, <3>3
      <4> QED BY <1>t, <3>1, <4>1, <4>2
    <3> QED BY <3>5, <3>6, <3>7, <3>8 DEF HashesKept
  <2> QED BY <2>1, <2>3, <2>4
<1>6. CASE Crash
  <2>1. UNCHANGED <<stream, seen, lapsed>>
        /\ post' = [p \in Posts |-> IF post[p] = "new" THEN "new" ELSE "done"]
    BY <1>6 DEF Crash
  <2>2. \A q \in Posts : (post[q] = "done" => post'[q] = "done") /\ (Passed(q)' => Passed(q))
    BY <2>1 DEF Passed
  <2> QED BY <2>1, <2>2, QuietHashes
<1>7. CASE \/ Block \/ BlockEnds \/ Read \/ ReadFails \/ SkipMarked \/ ParseFails \/ Begin
           \/ BeginUnchecked \/ PostPlaces \/ PostRefused \/ PostUnclear \/ PostTimesOut
           \/ Store \/ StoreFails \/ Mark \/ MarkFails \/ Save \/ SaveFails
           \/ WriteRow \/ WriteRowFails \/ Unlock \/ Start \/ UNCHANGED vars
  <2>1. UNCHANGED listener
    BY <1>7 DEF Block, BlockEnds, Read, ReadFails, SkipMarked, ParseFails, Begin,
       BeginUnchecked, PostPlaces, PostRefused, PostUnclear, PostTimesOut, Store,
       StoreFails, Mark, MarkFails, Save, SaveFails, WriteRow, WriteRowFails, Unlock,
       Start, vars
  <2>2. UNCHANGED <<post, seen, stream, lapsed>>
    BY <2>1 DEF listener
  <2> QED BY <2>2 DEF HashesKept, Passed
<1> QED BY <1>1, <1>2, <1>3, <1>4, <1>5, <1>6, <1>7, NextSplit

\* A signal is published once, however the handlers interleave, unless its hash
\* was evicted or never stored.
THEOREM SignalsPublishedOnce == Spec => []PublishedOnce
<1>1. Init => HashesKept
  BY DEF Init, HashesKept, Passed, ToSet
<1>2. Typed /\ HashesKept => PublishedOnce
  <2> SUFFICES ASSUME Typed, HashesKept PROVE PublishedOnce
    OBVIOUS
  <2>1. \A i \in 1..Len(stream) : stream[i] \in Posts /\ Passed(stream[i])
    BY DEF Typed, TypeOK, ListenerTypeOK, Passed, ToSet
  <2> QED BY <2>1 DEF HashesKept, PublishedOnce
<1> QED BY <1>1, <1>2, InitType, NextType, HashesStep, PTL DEF Spec

-----------------------------------------------------------------------------
(* Rows *)

\* The strategy has not recorded the entry for good.
Unplaced(p) == p \notin zset /\ ~(step = "mark" /\ p = Entry)

InFlight(p) == step = "store" /\ placed /\ Entry = p

\* What the rows and the queue say of an entry no fault concerned.
Books(p) ==
    /\ Unplaced(p) => /\ row[p] = "none" /\ (p \in answered => InFlight(p))
                      /\ \A job \in ToSet(queue) : job.entry = p => job.status = "none"
    /\ p \in answered =>
         /\ row[p] # "FAILED"
         /\ \A job \in ToSet(queue) : job.entry = p => job.status # "FAILED"
         /\ \/ row[p] = "PENDING"
            \/ [entry |-> p, status |-> "PENDING"] \in ToSet(queue)
            \/ InFlight(p)

Booked ==
    /\ \A p \in Posts \ excused : Books(p)
    /\ step \in {"post", "store"} => Entry \notin zset \ excused

\* An entry whose row, jobs and answer a step leaves alone.
LEMMA QuietBooks ==
    ASSUME NEW p \in Posts, Books(p), row'[p] = row[p], p \in answered' => p \in answered,
           \A job \in ToSet(queue) : job.entry = p => job \in ToSet(queue'),
           \A job \in ToSet(queue') : job.entry = p => job \in ToSet(queue),
           Unplaced(p)' => Unplaced(p), InFlight(p) => InFlight(p)'
    PROVE  Books(p)'
<1>1. Unplaced(p)' =>
        /\ row'[p] = "none" /\ (p \in answered' => InFlight(p)')
        /\ \A job \in ToSet(queue') : job.entry = p => job.status = "none"
  BY DEF Books
<1>2. p \in answered' =>
        /\ row'[p] # "FAILED"
        /\ \A job \in ToSet(queue') : job.entry = p => job.status # "FAILED"
  BY DEF Books
<1>3. [entry |-> p, status |-> "PENDING"].entry = p
  OBVIOUS
<1>4. p \in answered' =>
        \/ row'[p] = "PENDING"
        \/ [entry |-> p, status |-> "PENDING"] \in ToSet(queue')
        \/ InFlight(p)'
  BY <1>3 DEF Books
<1> QED BY <1>1, <1>2, <1>4 DEF Books

\* What recording a job does to the rows and the queue.
LEMMA RecordFacts ==
    ASSUME Typed, NEW job \in Job, Record(job)
    PROVE  /\ \A p \in Posts : p # job.entry => row'[p] = row[p]
           /\ \A j \in ToSet(queue) : j \in ToSet(queue')
           /\ \A j \in ToSet(queue') : j \in ToSet(queue) \/ j = job
           /\ \/ row' = row /\ job \in ToSet(queue')
              \/ row[job.entry] = "none" /\ row'[job.entry] = job.status
              \/ row[job.entry] # "none" /\ row'[job.entry] = row[job.entry]
<1>1. queue \in Seq(Job) /\ row \in [Posts -> {"none", "PENDING", "FAILED"}]
  BY DEF Typed, TypeOK, StoreTypeOK
<1>2. ToSet(Append(queue, job)) = ToSet(queue) \cup {job}
  BY <1>1, AppendFacts
<1>3. job.entry \in Posts
  BY DEF Job
<1>4. CASE queue' = Append(queue, job) /\ row' = row
  BY <1>2, <1>4
<1>5. CASE queue' = queue /\ row' = Inserted(row, job)
  BY <1>1, <1>3, <1>5 DEF Inserted
<1> QED BY <1>4, <1>5 DEF Record

LEMMA BookedStep == Typed /\ Idle /\ Booked /\ [Next]_vars => Booked'
<1> SUFFICES ASSUME Typed, Idle, Booked, [Next]_vars PROVE Booked'
  OBVIOUS
<1>t. /\ queue \in Seq(Job) /\ row \in [Posts -> {"none", "PENDING", "FAILED"}]
      /\ answered \subseteq Posts
  BY DEF Typed, TypeOK, StoreTypeOK, HistoryTypeOK
<1>e. step \in Working => Entry \in Posts
  BY EntryIn DEF Typed
<1>1. ASSUME NEW p \in Posts,
             \/ Receive(p) \/ NoSignal(p) \/ DuplicateHash(p) \/ AddHash(p)
             \/ AddHashFails(p) \/ Count(p) \/ Trim(p) \/ TrimFails(p) \/ Publish(p)
      PROVE  Booked'
  <2>1. /\ UNCHANGED <<redis, loop, call, meta, broker, history>>
        /\ stream' = stream \/ stream' = Append(stream, p)
    BY <1>1, ListenerStep
  <2>2. UNCHANGED <<zset, step, msg, placed, queue, row, answered, excused>>
    BY <2>1 DEF redis, loop, call, meta, broker, history
  <2>3. step \in Working => Entry' = Entry
    BY <2>1, <2>2, EntryStays
  <2>4. \A q \in Posts : (Unplaced(q)' => Unplaced(q)) /\ (InFlight(q) => InFlight(q)')
    BY <2>2, <2>3 DEF Unplaced, InFlight, Working
  <2>5. \A q \in Posts \ excused : Books(q)'
    BY <2>2, <2>4, QuietBooks DEF Booked
  <2> QED BY <2>2, <2>3, <2>5 DEF Booked, Working
<1>2. CASE \/ Block \/ BlockEnds \/ Read \/ ReadFails \/ SkipMarked \/ Save \/ SaveFails
           \/ Unlock \/ Start
  <2>1. /\ UNCHANGED <<zset, queue, row, answered, excused>>
        /\ step \in {"idle", "wait", "next", "save"} /\ step' \in {"idle", "wait", "next"}
    BY <1>2 DEF Block, BlockEnds, Read, ReadFails, SkipMarked, Save, SaveFails,
       Unlock, Start, NextEntry, At, Idle, redis, loop, meta, broker, history
  <2>2. \A q \in Posts : (Unplaced(q)' => Unplaced(q)) /\ (InFlight(q) => InFlight(q)')
    BY <2>1 DEF Unplaced, InFlight
  <2>3. \A q \in Posts \ excused : Books(q)'
    BY <2>1, <2>2, QuietBooks DEF Booked
  <2> QED BY <2>1, <2>3 DEF Booked
<1>3. CASE ParseFails
  <2>1. /\ UNCHANGED <<zset, answered, excused>> /\ step = "next" /\ step' \in {"idle", "next"}
        /\ Record([entry |-> Entry, status |-> "none"])
    BY <1>3 DEF ParseFails, NextEntry, At, redis, broker
  <2> DEFINE job == [entry |-> Entry, status |-> "none"]
  <2>2. job \in Job /\ job.entry = Entry /\ job.status = "none" /\ Entry \in Posts
    BY <1>e, <2>1 DEF Job, Working
  <2>f. /\ \A p \in Posts : p # job.entry => row'[p] = row[p]
        /\ \A j \in ToSet(queue) : j \in ToSet(queue')
        /\ \A j \in ToSet(queue') : j \in ToSet(queue) \/ j = job
        /\ \/ row' = row
           \/ row[job.entry] = "none" /\ row'[job.entry] = job.status
           \/ row[job.entry] # "none" /\ row'[job.entry] = row[job.entry]
    BY <2>1, <2>2, RecordFacts
  <2> HIDE DEF job
  <2>3. \A q \in Posts : row'[q] = row[q]
    BY <2>2, <2>f
  <2>4. \A q \in Posts : (Unplaced(q)' => Unplaced(q)) /\ ~InFlight(q) /\ ~InFlight(q)'
    BY <2>1 DEF Unplaced, InFlight
  <2>5. ASSUME NEW q \in Posts \ excused PROVE Books(q)'
    <3>1. Books(q)
      BY <2>5 DEF Booked
    <3>2. \A j \in ToSet(queue') : j.entry = q => j \in ToSet(queue) \/ j.status = "none"
      BY <2>2, <2>f
    <3>3. Unplaced(q)' =>
            /\ row'[q] = "none" /\ (q \in answered' => InFlight(q)')
            /\ \A j \in ToSet(queue') : j.entry = q => j.status = "none"
      BY <2>1, <2>3, <2>4, <3>1, <3>2 DEF Books
    <3>4. q \in answered' =>
            /\ row'[q] # "FAILED"
            /\ \A j \in ToSet(queue') : j.entry = q => j.status # "FAILED"
            /\ \/ row'[q] = "PENDING"
               \/ [entry |-> q, status |-> "PENDING"] \in ToSet(queue')
               \/ InFlight(q)'
      BY <2>1, <2>3, <2>4, <2>f, <3>1, <3>2 DEF Books
    <3> QED BY <3>3, <3>4 DEF Books
  <2> QED BY <2>1, <2>5 DEF Booked
<1>4. CASE Begin \/ BeginUnchecked
  <2>1. /\ UNCHANGED <<zset, answered, queue, row, msg, stream>>
        /\ step = "next" /\ step' = "post"
        /\ \/ excused' = excused /\ Entry \notin zset
           \/ excused' = excused \cup {Entry}
    BY <1>4 DEF Begin, BeginUnchecked, StartCall, At, listener, redis, broker, meta, history
  <2>2. \A q \in Posts : (Unplaced(q)' => Unplaced(q)) /\ (InFlight(q) => InFlight(q)')
    BY <2>1 DEF Unplaced, InFlight
  <2>3. \A q \in Posts \ excused' : Books(q)'
    BY <2>1, <2>2, QuietBooks DEF Booked
  <2> QED BY <2>1, <2>3 DEF Booked, Entry
<1>5. CASE PostPlaces
  <2>1. /\ UNCHANGED <<zset, queue, row, msg, stream, excused>>
        /\ step = "post" /\ step' = "store" /\ placed' = TRUE
        /\ answered' = answered \cup {Entry}
    BY <1>5 DEF PostPlaces, Answer, At, listener, redis, meta, history
  <2>2. Entry' = Entry /\ Entry \in Posts
    BY <1>e, <2>1 DEF Entry, Working
  <2>3. \A q \in Posts \ {Entry} : (Unplaced(q)' => Unplaced(q)) /\ (InFlight(q) => InFlight(q)')
    BY <2>1, <2>2 DEF Unplaced, InFlight
  <2>4. \A q \in Posts \ (excused \cup {Entry}) : Books(q)'
    BY <2>1, <2>3, QuietBooks DEF Booked
  <2>5. ASSUME Entry \notin excused PROVE Books(Entry)'
    <3>1. Books(Entry) /\ Unplaced(Entry) /\ InFlight(Entry)'
      BY <2>1, <2>2, <2>5 DEF Booked, Unplaced, InFlight
    <3> QED BY <2>1, <2>2, <3>1 DEF Books
  <2> QED BY <2>1, <2>2, <2>4, <2>5 DEF Booked
<1>6. CASE PostRefused \/ PostUnclear \/ PostTimesOut
  <2>1. /\ UNCHANGED <<zset, queue, row, msg, stream, excused, answered>>
        /\ step = "post" /\ step' \in {"post", "store"}
    BY <1>6 DEF PostRefused, PostUnclear, PostTimesOut, MayMake, Answer, At, listener, redis,
       meta, loop, broker, history
  <2>2. \A q \in Posts : (Unplaced(q)' => Unplaced(q)) /\ (InFlight(q) => InFlight(q)')
    BY <2>1 DEF Unplaced, InFlight
  <2>3. \A q \in Posts \ excused : Books(q)'
    BY <2>1, <2>2, QuietBooks DEF Booked
  <2> QED BY <2>1, <2>3 DEF Booked, Entry
<1>7. CASE Store
  <2>1. /\ UNCHANGED <<zset, msg, stream, excused, answered>>
        /\ step = "store" /\ step' = "mark" /\ Record(NewJob)
    BY <1>7 DEF Store, At, listener, redis, broker
  <2>2. Entry' = Entry /\ Entry \in Posts
    BY <1>e, <2>1 DEF Entry, Working
  <2>3. /\ NewJob \in Job /\ NewJob.entry = Entry
        /\ NewJob.status = IF placed THEN "PENDING" ELSE "FAILED"
        /\ placed => NewJob = [entry |-> Entry, status |-> "PENDING"]
    BY <2>1, NewJobIn DEF NewJob, Working
  <2>f. /\ \A p \in Posts : p # Entry => row'[p] = row[p]
        /\ \A j \in ToSet(queue) : j \in ToSet(queue')
        /\ \A j \in ToSet(queue') : j \in ToSet(queue) \/ j = NewJob
        /\ \/ row' = row /\ NewJob \in ToSet(queue')
           \/ row[Entry] = "none" /\ row'[Entry] = NewJob.status
           \/ row[Entry] # "none" /\ row'[Entry] = row[Entry]
    BY <2>1, <2>3, RecordFacts
  <2>4. \A q \in Posts \ {Entry} : (Unplaced(q)' => Unplaced(q)) /\ (InFlight(q) => InFlight(q)')
    BY <2>1, <2>2 DEF Unplaced, InFlight
  <2>5. ASSUME NEW q \in Posts \ (excused \cup {Entry}) PROVE Books(q)'
    <3>1. \A j \in ToSet(queue') : j.entry = q => j \in ToSet(queue)
      BY <2>3, <2>f
    <3> QED BY <2>1, <2>4, <2>5, <2>f, <3>1, QuietBooks DEF Booked
  <2>6. ASSUME Entry \notin excused PROVE Books(Entry)'
    <3>1. Books(Entry) /\ Unplaced(Entry) /\ ~Unplaced(Entry)'
      BY <2>1, <2>2, <2>6 DEF Booked, Unplaced
    <3>2. /\ row[Entry] = "none" /\ (Entry \in answered => placed)
          /\ \A j \in ToSet(queue) : j.entry = Entry => j.status = "none"
      BY <3>1 DEF Books, InFlight
    <3>3. SUFFICES ASSUME Entry \in answered
                   PROVE  /\ row'[Entry] # "FAILED"
                          /\ \A j \in ToSet(queue') : j.entry = Entry => j.status # "FAILED"
                          /\ \/ row'[Entry] = "PENDING"
                             \/ [entry |-> Entry, status |-> "PENDING"] \in ToSet(queue')
      BY <2>1, <2>2, <3>1 DEF Books
    <3>4. NewJob.status = "PENDING" /\ NewJob = [entry |-> Entry, status |-> "PENDING"]
      BY <2>3, <3>2, <3>3
    <3> QED BY <2>f, <3>2, <3>4
  <2> QED BY <2>1, <2>2, <2>5, <2>6 DEF Booked
<1>8. CASE Mark
  <2>1. /\ UNCHANGED <<queue, row, msg, stream, excused, answered>>
        /\ step = "mark" /\ step' = "save" /\ zset' = zset \cup {Entry}
    BY <1>8 DEF Mark, At, listener, meta, broker, history
  <2>2. \A q \in Posts : (Unplaced(q)' => Unplaced(q)) /\ (InFlight(q) => InFlight(q)')
    BY <2>1 DEF Unplaced, InFlight
  <2>3. \A q \in Posts \ excused : Books(q)'
    BY <2>1, <2>2, QuietBooks DEF Booked
  <2> QED BY <2>1, <2>3 DEF Booked
<1>9. CASE StoreFails \/ MarkFails
  <2>1. /\ UNCHANGED <<zset, queue, row, answered>> /\ excused' = excused \cup {Entry}
        /\ step \in {"store", "mark"} /\ step' \in {"mark", "next", "idle"}
        /\ step' = "mark" => step = "store" /\ UNCHANGED <<msg, stream>>
    BY <1>9 DEF StoreFails, MarkFails, NextEntry, At, redis, meta, broker, listener
  <2>2. \A q \in Posts \ {Entry} : (Unplaced(q)' => Unplaced(q)) /\ ~InFlight(q)
    BY <2>1 DEF Unplaced, InFlight
  <2>3. \A q \in Posts \ excused' : Books(q)'
    BY <2>1, <2>2, QuietBooks DEF Booked
  <2> QED BY <2>1, <2>3 DEF Booked
<1>10. CASE WriteRow
  <2>1. /\ UNCHANGED <<zset, step, msg, stream, placed, excused, answered>> /\ queue # <<>>
        /\ row' = Inserted(row, Head(queue)) /\ queue' = Tail(queue)
    BY <1>10 DEF WriteRow, listener, redis, loop, call, broker, history
  <2>2. /\ Head(queue) \in Job /\ Head(queue) \in ToSet(queue)
        /\ \A j \in ToSet(queue') : j \in ToSet(queue)
        /\ \A j \in ToSet(queue) : j = Head(queue) \/ j \in ToSet(queue')
    BY <1>t, <2>1, TailFacts
  <2>3. /\ Head(queue).entry \in Posts
        /\ \A q \in Posts : q # Head(queue).entry => row'[q] = row[q]
        /\ \A q \in Posts : q = Head(queue).entry =>
             row'[q] = IF row[q] = "none" THEN Head(queue).status ELSE row[q]
    BY <1>t, <2>1, <2>2 DEF Inserted, Job
  <2>4. \A q \in Posts : (Unplaced(q)' <=> Unplaced(q)) /\ (InFlight(q) <=> InFlight(q)')
    BY <2>1 DEF Unplaced, InFlight, Entry
  <2>5. ASSUME NEW q \in Posts \ excused PROVE Books(q)'
    <3>1. Books(q)
      BY <2>5 DEF Booked
    <3>2. CASE q # Head(queue).entry
      BY <2>1, <2>2, <2>3, <2>4, <3>1, <3>2, QuietBooks
    <3>3. CASE q = Head(queue).entry
      <4>1. Unplaced(q)' =>
              /\ row'[q] = "none" /\ (q \in answered' => InFlight(q)')
              /\ \A j \in ToSet(queue') : j.entry = q => j.status = "none"
        BY <2>1, <2>2, <2>3, <2>4, <3>1, <3>3 DEF Books
      <4>2. ASSUME q \in answered
            PROVE  /\ row'[q] # "FAILED"
                   /\ \A j \in ToSet(queue') : j.entry = q => j.status # "FAILED"
        BY <2>1, <2>2, <2>3, <3>1, <3>3, <4>2 DEF Books
      <4>3. ASSUME q \in answered
            PROVE  \/ row'[q] = "PENDING"
                   \/ [entry |-> q, status |-> "PENDING"] \in ToSet(queue')
                   \/ InFlight(q)'
        <5>1. CASE row[q] = "PENDING" \/ InFlight(q)
          BY <2>3, <2>4, <3>3, <5>1
        <5>2. CASE [entry |-> q, status |-> "PENDING"] \in ToSet(queue)
          <6>1. CASE [entry |-> q, status |-> "PENDING"] \in ToSet(queue')
            BY <6>1
          <6>2. CASE Head(queue) = [entry |-> q, status |-> "PENDING"]
            <7>1. Head(queue).status = "PENDING"
              BY <6>2
            <7>2. row[q] \in {"none", "PENDING"}
              BY <1>t, <3>1, <4>3 DEF Books
            <7> QED BY <2>3, <3>3, <7>1, <7>2
          <6> QED BY <2>2, <5>2, <6>1, <6>2
        <5> QED BY <3>1, <4>3, <5>1, <5>2 DEF Books
      <4> QED BY <2>1, <4>1, <4>2, <4>3 DEF Books
    <3> QED BY <3>2, <3>3
  <2> QED BY <2>1, <2>5 DEF Booked, Entry
<1>11. CASE WriteRowFails
  <2>1. /\ UNCHANGED <<zset, step, msg, stream, placed, row, answered>> /\ queue # <<>>
        /\ queue' = Tail(queue) /\ excused' = excused \cup {Head(queue).entry}
    BY <1>11 DEF WriteRowFails, listener, redis, loop, call, broker
  <2>2. /\ \A j \in ToSet(queue') : j \in ToSet(queue)
        /\ \A j \in ToSet(queue) : j = Head(queue) \/ j \in ToSet(queue')
    BY <1>t, <2>1, TailFacts
  <2>3. \A q \in Posts : (Unplaced(q)' => Unplaced(q)) /\ (InFlight(q) => InFlight(q)')
    BY <2>1 DEF Unplaced, InFlight, Entry
  <2>4. \A q \in Posts \ excused' : Books(q)'
    BY <2>1, <2>2, <2>3, QuietBooks DEF Booked
  <2> QED BY <2>1, <2>4 DEF Booked, Entry
<1>12. CASE Crash
  <2>1. /\ UNCHANGED <<zset, row, answered>> /\ step' = "idle" /\ queue' = <<>>
        /\ excused \subseteq excused'
        /\ \A j \in ToSet(queue) : j.entry \in excused'
        /\ step \in {"store", "mark"} => Entry \in excused'
    BY <1>12 DEF Crash, redis, broker
  <2>2. \A q \in Posts \ excused' : (Unplaced(q)' => Unplaced(q)) /\ ~InFlight(q)
    BY <2>1 DEF Unplaced, InFlight
  <2>3. ToSet(queue') = {}
    BY <2>1 DEF ToSet
  <2>4. \A q \in Posts \ excused' : Books(q)'
    BY <2>1, <2>2, <2>3, QuietBooks DEF Booked
  <2> QED BY <2>1, <2>4 DEF Booked
<1>13. CASE UNCHANGED vars
  BY <1>13 DEF vars, listener, redis, loop, call, meta, broker, history, Booked, Books,
     Unplaced, InFlight, Entry
<1> QED BY <1>1, <1>2, <1>3, <1>4, <1>5, <1>6, <1>7, <1>8, <1>9, <1>10, <1>11, <1>12, <1>13,
           NextSplit

\* A GTT the broker confirmed has its row or will have it, although the row is
\* written by another thread and a restart may read the entry again.
THEOREM OrdersAreBooked == Spec => []OrderIsBooked
<1>1. Init => Booked
  BY DEF Init, Booked, Books, Unplaced, InFlight, ToSet
<1>2. Init => Idle
  BY DEF Init, Idle
<1>3. Typed /\ Booked => OrderIsBooked
  <2> SUFFICES ASSUME Typed, Booked, NEW p \in answered \ excused
               PROVE  \/ row[p] = "PENDING"
                      \/ [entry |-> p, status |-> "PENDING"] \in ToSet(queue)
                      \/ InFlight(p)
    BY DEF OrderIsBooked, InFlight
  <2>1. p \in Posts
    BY DEF Typed, TypeOK, HistoryTypeOK
  <2> QED BY <2>1 DEF Booked, Books
<1> QED BY <1>1, <1>2, <1>3, InitType, NextType, IdleStep, BookedStep, PTL DEF Spec

-----------------------------------------------------------------------------
(* The abstract log *)

\* Where the reader began, what is saved, what is in memory and what is at hand
\* lie in this order.
Ahead ==
    /\ base <= Len(stream)
    /\ saved # 0 => base <= saved
    /\ lastId # Newest => base <= lastId /\ saved <= lastId
    /\ step = "wait" /\ lastId = Newest => base <= after /\ after <= Len(stream)
    /\ step \in Working => base < msg /\ saved < msg

\* The actions that move none of the five.
LEMMA QuietAhead ==
    ASSUME Typed, Ahead, UNCHANGED <<stream, saved, lastId, base>>,
           step' = "wait" => after' = after /\ step = "wait",
           step' \in Working => step \in Working /\ msg' = msg
    PROVE  Ahead'
BY DEF Ahead, Newest

LEMMA AheadStep == Typed /\ Idle /\ Positions /\ Ahead /\ [Next]_vars => Ahead'
<1> SUFFICES ASSUME Typed, Idle, Positions, Ahead, [Next]_vars PROVE Ahead'
  OBVIOUS
<1>t. /\ stream \in Seq(Posts) /\ Len(stream) \in Nat
      /\ saved \in Nat /\ lastId \in Nat \cup {Newest} /\ after \in Nat /\ base \in Nat
      /\ msg \in Nat /\ Newest = -1
  BY DEF Typed, TypeOK, ListenerTypeOK, LoopTypeOK, Newest
<1>1. ASSUME NEW p \in Posts,
             \/ Receive(p) \/ NoSignal(p) \/ DuplicateHash(p) \/ AddHash(p)
             \/ AddHashFails(p) \/ Count(p) \/ Trim(p) \/ TrimFails(p) \/ Publish(p)
      PROVE  Ahead'
  <2>1. /\ UNCHANGED <<redis, reader, loop>>
        /\ stream' = stream \/ stream' = Append(stream, p)
    BY <1>1, ListenerStep
  <2>2. Len(stream) <= Len(stream') /\ Len(stream') \in Nat
    BY <1>t, <2>1
  <2>3. UNCHANGED <<saved, lastId, after, base, step, msg>>
    BY <2>1 DEF redis, reader, loop
  <2> QED BY <1>t, <2>2, <2>3 DEF Ahead
<1>2. CASE Block
  <2>1. /\ UNCHANGED <<stream, saved, lastId, base>> /\ step' = "wait"
        /\ lastId = Newest => after' = Len(stream)
    BY <1>2 DEF Block, listener, redis
  <2> QED BY <1>t, <2>1 DEF Ahead, Working
<1>3. CASE Read
  <2>1. /\ UNCHANGED <<stream, saved, lastId>> /\ step = "wait" /\ step' = "next"
        /\ msg' = after + 1 /\ after < Len(stream)
        /\ base' = IF lastId = Newest THEN after ELSE base
    BY <1>3 DEF Read, At, listener, redis
  <2>2. IF lastId = Newest THEN saved = 0 ELSE after = lastId
    BY <2>1 DEF Positions
  <2> QED BY <1>t, <2>1, <2>2 DEF Ahead
<1>4. CASE BlockEnds \/ ReadFails
  <2>1. UNCHANGED <<stream, saved, lastId, base>> /\ step' = "idle"
    BY <1>4 DEF BlockEnds, ReadFails, listener, redis
  <2> QED BY <2>1, QuietAhead DEF Working
<1>5. CASE SkipMarked \/ ParseFails
  <2>1. UNCHANGED <<stream, saved, base>> /\ step = "next" /\ lastId' = msg /\ NextEntry
    BY <1>5 DEF SkipMarked, ParseFails, At, listener, redis
  <2>2. step' \in {"next", "idle"} /\ (step' = "next" => msg' = msg + 1)
    BY <2>1, NextEntryFacts DEF Working
  <2> QED BY <1>t, <2>1, <2>2 DEF Ahead, Working
<1>6. CASE \/ Begin \/ BeginUnchecked
           \/ PostPlaces \/ PostRefused \/ PostUnclear \/ PostTimesOut
  <2>1. /\ UNCHANGED <<stream, saved, lastId, base, msg>>
        /\ step \in Working /\ step' \in {"post", "store"}
    BY <1>6 DEF Begin, BeginUnchecked, StartCall, PostPlaces, PostRefused, PostUnclear,
       PostTimesOut, Answer, At, Working, listener, redis, reader, loop
  <2> QED BY <2>1, QuietAhead DEF Working
<1>7. CASE Store \/ StoreFails
  <2>1. UNCHANGED <<stream, saved, base, msg>> /\ step = "store" /\ step' = "mark" /\ lastId' = msg
    BY <1>7 DEF Store, StoreFails, At, listener, redis
  <2> QED BY <1>t, <2>1 DEF Ahead, Working
<1>8. CASE Mark
  <2>1. UNCHANGED <<stream, saved, lastId, base, msg>> /\ step = "mark" /\ step' = "save"
    BY <1>8 DEF Mark, At, listener, reader
  <2> QED BY <2>1, QuietAhead DEF Working
<1>9. CASE MarkFails \/ Save \/ SaveFails
  <2>1. /\ UNCHANGED <<stream, lastId, base>> /\ step \in {"mark", "save"} /\ NextEntry
        /\ saved' \in {saved, msg} /\ lastId = msg
    BY <1>9 DEF MarkFails, Save, SaveFails, At, listener, redis, reader, Positions
  <2>2. step' \in {"next", "idle"} /\ (step' = "next" => msg' = msg + 1)
    BY <2>1, NextEntryFacts DEF Working
  <2> QED BY <1>t, <2>1, <2>2 DEF Ahead, Working
<1>10. CASE WriteRow \/ WriteRowFails \/ Unlock \/ UNCHANGED vars
  <2>1. UNCHANGED <<stream, saved, lastId, base, after, step, msg>>
    BY <1>10 DEF WriteRow, WriteRowFails, Unlock, vars, listener, redis, reader, loop
  <2> QED BY <2>1, QuietAhead
<1>11. CASE Crash
  <2>1. UNCHANGED <<stream, saved, lastId, base>> /\ step' = "idle"
    BY <1>11 DEF Crash, redis
  <2> QED BY <2>1, QuietAhead DEF Working
<1>12. CASE Start
  <2>1. /\ UNCHANGED <<stream, saved, base>> /\ step' = "idle"
        /\ lastId' = IF saved = 0 THEN Newest ELSE saved
    BY <1>12 DEF Start, Idle, listener, redis, loop
  <2> QED BY <1>t, <2>1 DEF Ahead, Working
<1> QED BY <1>1, <1>2, <1>3, <1>4, <1>5, <1>6, <1>7, <1>8, <1>9, <1>10, <1>11, <1>12, NextSplit

\* The entry at hand is the one whose turn it is.
LEMMA AtTurn ==
    ASSUME Typed, Positions, Ahead, step \in Working
    PROVE  /\ msg \in Log!Indices /\ Log!Turn(msg) /\ stream[msg] = Entry
           /\ Entry \in Posts
BY EntryIn DEF Positions, Ahead, Reached, Typed, Entry, Log!Indices, Log!Turn, Log!DoneUpTo

\* A step of a handler publishes its post, or lets hashes lapse.
LEMMA LogPublish ==
    ASSUME Typed, Typed', HashesKept, NEW p \in Posts,
           \/ Receive(p) \/ NoSignal(p) \/ DuplicateHash(p) \/ AddHash(p)
           \/ AddHashFails(p) \/ Count(p) \/ Trim(p) \/ TrimFails(p) \/ Publish(p)
    PROVE  [Log!Next]_(Log!logVars)
<1>1. UNCHANGED <<base, handled, saved, made, slips>>
  BY ListenerStep DEF reader, redis, broker, history
<1>2. CASE stream' = stream
  <2>1. lapsed \subseteq lapsed'
    BY <1>2 DEF Receive, NoSignal, DuplicateHash, AddHash, AddHashFails, Count, Trim, TrimFails,
       Publish
  <2>2. lapsed' \subseteq Hashes
    BY DEF Typed, TypeOK, ListenerTypeOK
  <2> QED BY <1>1, <1>2, <2>1, <2>2 DEF Log!Next, Log!Lapse
<1>3. CASE stream' # stream
  <2>1. Publish(p) /\ stream' = Append(stream, p) /\ lapsed' = lapsed /\ post[p] = "publish"
    BY <1>3 DEF Receive, NoSignal, DuplicateHash, AddHash, AddHashFails, Count, Trim, TrimFails,
       Publish, Listening
  <2>2. ASSUME NEW i \in Log!Indices
        PROVE  /\ stream[i] # p
               /\ HashOf[stream[i]] = HashOf[p] => HashOf[p] \in lapsed
    <3>1. i \in 1..Len(stream) /\ stream \in Seq(Posts)
      BY DEF Log!Indices, Typed, TypeOK, ListenerTypeOK
    <3>2. stream[i] \in Posts /\ stream[i] \in ToSet(stream)
      BY <3>1 DEF ToSet
    <3>3. stream[i] # p
      BY <2>1, <3>1 DEF HashesKept
    <3>4. Passed(stream[i]) /\ Passed(p)
      BY <2>1, <3>2 DEF Passed
    <3> QED BY <3>2, <3>3, <3>4 DEF HashesKept
  <2>3. Log!Publish(p)
    BY <1>1, <2>1, <2>2 DEF Log!Publish
  <2> QED BY <2>3 DEF Log!Next
<1> QED BY <1>2, <1>3

\* Every step is one of the log, or one that the log does not see.
LEMMA LogStep ==
    Typed /\ Typed' /\ OrdersCounted /\ Positions /\ HashesKept /\ Ahead /\ [Next]_vars
      => [Log!Next]_(Log!logVars)
<1> SUFFICES ASSUME Typed, Typed', OrdersCounted, Positions, HashesKept, Ahead, [Next]_vars
             PROVE  [Log!Next]_(Log!logVars)
  OBVIOUS
<1> DEFINE Seen == <<stream, lapsed, base, handled, saved, made, slips>>
<1>v. UNCHANGED Seen => [Log!Next]_(Log!logVars)
  BY DEF Log!logVars
<1>w. step \in Working =>
        /\ msg \in Log!Indices /\ Log!Turn(msg) /\ stream[msg] = Entry /\ Entry \in Posts
  BY AtTurn
<1>1. ASSUME NEW p \in Posts,
             \/ Receive(p) \/ NoSignal(p) \/ DuplicateHash(p) \/ AddHash(p)
             \/ AddHashFails(p) \/ Count(p) \/ Trim(p) \/ TrimFails(p) \/ Publish(p)
      PROVE  [Log!Next]_(Log!logVars)
  BY <1>1, LogPublish
<1>2. CASE \/ Block \/ BlockEnds \/ ReadFails \/ SkipMarked \/ Begin \/ PostRefused
           \/ Mark \/ SaveFails \/ WriteRow \/ WriteRowFails \/ Unlock \/ Start
           \/ UNCHANGED vars
  <2>1. UNCHANGED Seen
    BY <1>2 DEF Block, BlockEnds, ReadFails, SkipMarked, Begin, PostRefused, Mark, SaveFails,
       WriteRow, WriteRowFails, Unlock, Start, vars, listener, redis, reader, broker, history
  <2> QED BY <1>v, <2>1
<1>3. CASE Read
  <2>1. /\ UNCHANGED <<stream, lapsed, handled, saved, made, slips>> /\ step = "wait"
        /\ base' = IF lastId = Newest THEN after ELSE base
    BY <1>3 DEF Read, At, listener, redis, broker, history
  <2>2. CASE lastId = Newest
    <3>1. saved = 0 /\ base <= after /\ after <= Len(stream)
      BY <2>1, <2>2 DEF Positions, Ahead
    <3>2. after \in base..Len(stream)
      BY <3>1 DEF Typed, TypeOK, ListenerTypeOK, LoopTypeOK
    <3> QED BY <2>1, <2>2, <3>1, <3>2 DEF Log!Next, Log!Begin
  <2>3. CASE lastId # Newest
    BY <1>v, <2>1, <2>3
  <2> QED BY <2>2, <2>3
<1>4. CASE ParseFails \/ Store \/ StoreFails
  <2>1. /\ UNCHANGED <<stream, lapsed, base, saved, made, slips>>
        /\ step \in Working /\ handled' = handled \cup {Entry}
    BY <1>4 DEF ParseFails, Store, StoreFails, At, Working, listener, redis, broker
  <2>2. Log!Finish(msg)
    BY <1>w, <2>1 DEF Log!Finish
  <2> QED BY <1>w, <2>1, <2>2 DEF Log!Next
<1>5. CASE PostPlaces
  <2>1. /\ UNCHANGED <<stream, lapsed, base, handled, saved, slips>>
        /\ step = "post" /\ made' = [made EXCEPT ![Entry] = @ + 1]
    BY <1>5 DEF PostPlaces, At, listener, redis, reader, history
  <2>2. made[Entry] <= slips[Entry]
    BY <1>w, <2>1 DEF OrdersCounted, Open, Working
  <2>3. Log!Place(msg)
    BY <1>w, <2>1, <2>2 DEF Log!Place, Log!OneMore, Working
  <2> QED BY <1>w, <2>1, <2>3 DEF Log!Next, Working
<1>6. CASE PostUnclear \/ PostTimesOut
  <2>1. /\ UNCHANGED <<stream, lapsed, base, handled, saved>> /\ step = "post"
        /\ made' \in {made, [made EXCEPT ![Entry] = @ + 1]}
        /\ slips' = [slips EXCEPT ![Entry] = @ + 1]
    BY <1>6 DEF PostUnclear, PostTimesOut, MayMake, At, listener, redis, reader
  <2>2. made[Entry] <= slips[Entry]
    BY <1>w, <2>1 DEF OrdersCounted, Open, Working
  <2>3. Log!Lose(msg)
    BY <1>w, <2>1, <2>2 DEF Log!Lose, Log!OneMore, Working
  <2> QED BY <1>w, <2>1, <2>3 DEF Log!Next, Working
<1>7. CASE BeginUnchecked \/ MarkFails \/ (Crash /\ step \in {"store", "mark"})
  <2>1. /\ UNCHANGED <<stream, lapsed, base, handled, saved, made>> /\ step \in Working
        /\ slips' = [slips EXCEPT ![Entry] = @ + 1]
    BY <1>7 DEF BeginUnchecked, MarkFails, Crash, At, Working, listener, redis, reader, broker
  <2>2. Log!Lose(msg)
    BY <1>w, <2>1 DEF Log!Lose, Log!OneMore
  <2> QED BY <1>w, <2>1, <2>2 DEF Log!Next
<1>8. CASE Crash /\ step \notin {"store", "mark"}
  <2>1. UNCHANGED Seen
    BY <1>8 DEF Crash, redis, broker
  <2> QED BY <1>v, <2>1
<1>9. CASE Save
  <2>1. /\ UNCHANGED <<stream, lapsed, base, handled, made, slips>>
        /\ step = "save" /\ saved' = msg
    BY <1>9 DEF Save, At, listener, reader, broker, history
  <2>2. saved < msg /\ Reached(msg)
    BY <2>1 DEF Ahead, Positions, Working
  <2>3. Log!Save(msg)
    BY <2>1, <2>2 DEF Log!Save, Log!DoneUpTo, Log!Indices, Reached
  <2> QED BY <1>w, <2>1, <2>3 DEF Log!Next, Working
<1> QED BY <1>1, <1>2, <1>3, <1>4, <1>5, <1>6, <1>7, <1>8, <1>9, NextSplit

\* The pipeline implements the log, for any number of posts, handlers that overlap,
\* capacities and faults: the entries are taken in turn, none is passed over, an
\* entry has no more orders than losses and one, and a saved position only moves
\* forward over entries that are done with.
THEOREM StreamImplementsLog == Spec => ImplementsEntryLog
<1>1. Init => Log!Init
  BY DEF Init, Log!Init
<1>2. Init => Idle /\ Ahead /\ OrdersCounted
  BY DEF Init, Idle, Ahead, OrdersCounted, Newest, Working
<1>3. Init => Positions
  BY DEF Init, Positions, Reached, Newest, Working
<1>4. Init => HashesKept
  BY DEF Init, HashesKept, Passed, ToSet
<1> QED
  BY <1>1, <1>2, <1>3, <1>4, InitType, NextType, IdleStep, PositionsStep, AheadStep, OrdersStep, HashesStep,
     LogStep, PTL DEF Spec, ImplementsEntryLog, Log!Spec
=============================================================================
