------------------------ MODULE TradingEngineProofs ------------------------
(***************************************************************************)
(* Theorems about TradingEngine for every set of messages and hashes and   *)
(* every bound: its type invariant, the inductive invariant DecidedOnce,   *)
(* and what follows from it, the order of its queued writes among that.    *)
(* Then about SignalPipeline: fed by the                                   *)
(* ingestor, the engine keeps every promise it makes for arbitrary input,  *)
(* and what the ingestor promises of itself holds for any number of posts. *)
(***************************************************************************)
EXTENDS SignalPipeline, TLAPS, FiniteSetTheorems

Ops == {"block", "fail", "placed", "expire"} \cup Legs

-----------------------------------------------------------------------------
(* The write queue *)

\* put_nowait keeps the jobs already queued, in place, and adds at most its own
\* at the end; it adds it whenever there is room.
LEMMA PutFacts ==
    ASSUME NEW q \in Seq(Job), NEW op \in Ops, NEW h \in Hashes
    PROVE  /\ Put(q, op, h) \in Seq(Job)
           /\ \A i \in 1..Len(q) : i \in 1..Len(Put(q, op, h)) /\ Put(q, op, h)[i] = q[i]
           /\ Len(q) < QueueCap =>
                /\ Len(Put(q, op, h)) = Len(q) + 1
                /\ Put(q, op, h)[Len(q) + 1] = [op |-> op, hash |-> h]
           /\ ~ Len(q) < QueueCap => Put(q, op, h) = q
<1>1. [op |-> op, hash |-> h] \in Job
  BY DEF Job, Ops
<1>2. CASE Len(q) < QueueCap
  BY <1>1, <1>2 DEF Put
<1>3. CASE ~ Len(q) < QueueCap
  BY <1>3 DEF Put
<1> QED BY <1>2, <1>3

\* What the queue holds after a put.
LEMMA PutHas ==
    ASSUME NEW q \in Seq(Job), NEW op \in Ops, NEW h \in Hashes, NEW o, NEW k
    PROVE  /\ Has(q, o, k) => Has(Put(q, op, h), o, k)
           /\ Has(Put(q, op, h), o, k) => Has(q, o, k) \/ (o = op /\ k = h)
           /\ Len(q) < QueueCap => Has(Put(q, op, h), op, h)
<1> DEFINE p == Put(q, op, h)
<1>1. /\ p \in Seq(Job)
      /\ \A i \in 1..Len(q) : i \in 1..Len(p) /\ p[i] = q[i]
      /\ Len(q) < QueueCap =>
           Len(p) = Len(q) + 1 /\ p[Len(q) + 1] = [op |-> op, hash |-> h]
      /\ ~ Len(q) < QueueCap => p = q
  BY PutFacts
<1> HIDE DEF p
<1>2. Has(q, o, k) => Has(p, o, k)
  BY <1>1 DEF Has
<1>3. Len(q) < QueueCap => Has(p, op, h)
  BY <1>1 DEF Has
<1>4. ASSUME Has(p, o, k) PROVE Has(q, o, k) \/ (o = op /\ k = h)
  BY <1>1, <1>4 DEF Has
<1> QED BY <1>2, <1>3, <1>4 DEF p

\* What the writer takes is the head; the rest stays.
LEMMA TailHas ==
    ASSUME NEW q \in Seq(Job), q # <<>>, NEW o, NEW k
    PROVE  /\ Tail(q) \in Seq(Job)
           /\ Head(q) \in Job
           /\ Has(q, Head(q).op, Head(q).hash)
           /\ Has(Tail(q), o, k) => Has(q, o, k)
           /\ Has(q, o, k) => Has(Tail(q), o, k) \/ Head(q) = [op |-> o, hash |-> k]
<1>1. /\ Len(q) \in Nat \ {0} /\ Head(q) = q[1] /\ Head(q) \in Job
      /\ Tail(q) \in Seq(Job) /\ Len(Tail(q)) = Len(q) - 1
      /\ \A i \in 1..Len(Tail(q)) : Tail(q)[i] = q[i + 1]
  OBVIOUS
<1>2. Head(q) = [op |-> Head(q).op, hash |-> Head(q).hash]
  BY <1>1 DEF Job
<1>3. Has(q, Head(q).op, Head(q).hash)
  BY <1>1, <1>2 DEF Has
<1>4. Has(Tail(q), o, k) => Has(q, o, k)
  BY <1>1 DEF Has
<1>5. ASSUME Has(q, o, k) PROVE Has(Tail(q), o, k) \/ Head(q) = [op |-> o, hash |-> k]
  <2>1. PICK i \in 1..Len(q) : q[i] = [op |-> o, hash |-> k]
    BY <1>5 DEF Has
  <2>2. CASE i = 1
    BY <1>1, <2>1, <2>2
  <2>3. CASE i # 1
    <3>1. i - 1 \in 1..Len(Tail(q)) /\ Tail(q)[i - 1] = q[(i - 1) + 1] /\ (i - 1) + 1 = i
      BY <1>1, <2>3
    <3> QED BY <3>1, <2>1 DEF Has
  <2> QED BY <2>2, <2>3
<1> QED BY <1>1, <1>3, <1>4, <1>5

\* An outcome is queued once if none was queued before.
LEMMA PutOnce ==
    ASSUME NEW q \in Seq(Job), NEW op \in Ops, NEW h \in Hashes,
           OneOutcome(q),
           op \in {"fail", "placed"} => ~Has(q, "fail", h) /\ ~Has(q, "placed", h)
    PROVE  OneOutcome(Put(q, op, h))
<1> DEFINE p == Put(q, op, h)
           Outcome(job) == job.op \in {"fail", "placed"}
<1>1. /\ p \in Seq(Job)
      /\ \A i \in 1..Len(q) : i \in 1..Len(p) /\ p[i] = q[i]
      /\ Len(q) < QueueCap =>
           Len(p) = Len(q) + 1 /\ p[Len(q) + 1] = [op |-> op, hash |-> h]
      /\ ~ Len(q) < QueueCap => p = q
  BY PutFacts
<1>2. \A i \in 1..Len(q) : Outcome(q[i]) /\ q[i].hash = h => ~(op \in {"fail", "placed"})
  <2> SUFFICES ASSUME NEW i \in 1..Len(q), Outcome(q[i]), q[i].hash = h, op \in {"fail", "placed"}
               PROVE  FALSE
    OBVIOUS
  <2>0. q[i] \in Job
    OBVIOUS
  <2>1. q[i] = [op |-> q[i].op, hash |-> h] /\ q[i].op \in {"fail", "placed"}
    BY <2>0 DEF Job
  <2> QED BY <2>1 DEF Has
<1>3. CASE ~ Len(q) < QueueCap
  BY <1>1, <1>3
<1>4. CASE Len(q) < QueueCap
  <2> SUFFICES ASSUME NEW i \in 1..Len(p), NEW j \in 1..Len(p), p[i].hash = p[j].hash,
                      Outcome(p[i]), Outcome(p[j])
               PROVE  i = j
    BY DEF OneOutcome
  <2>1. CASE i \in 1..Len(q) /\ j \in 1..Len(q)
    BY <1>1, <2>1 DEF OneOutcome
  <2>2. CASE i = Len(q) + 1 /\ j \in 1..Len(q)
    BY <1>1, <1>2, <1>4, <2>2
  <2>3. CASE j = Len(q) + 1 /\ i \in 1..Len(q)
    BY <1>1, <1>2, <1>4, <2>3
  <2>4. CASE i = Len(q) + 1 /\ j = Len(q) + 1
    BY <2>4
  <2> QED BY <1>1, <1>4, <2>1, <2>2, <2>3, <2>4
<1> QED BY <1>3, <1>4

\* When the writer takes an outcome no other one for its row is queued.
LEMMA TailOnce ==
    ASSUME NEW q \in Seq(Job), q # <<>>, OneOutcome(q)
    PROVE  /\ OneOutcome(Tail(q))
           /\ Head(q).op \in {"fail", "placed"} =>
                /\ ~Has(Tail(q), "fail", Head(q).hash)
                /\ ~Has(Tail(q), "placed", Head(q).hash)
<1>1. /\ Len(q) \in Nat \ {0} /\ Head(q) = q[1]
      /\ Tail(q) \in Seq(Job) /\ Len(Tail(q)) = Len(q) - 1
      /\ \A i \in 1..Len(Tail(q)) : Tail(q)[i] = q[i + 1]
  OBVIOUS
<1>2. OneOutcome(Tail(q))
  BY <1>1 DEF OneOutcome
<1>3. ASSUME Head(q).op \in {"fail", "placed"}, NEW o \in {"fail", "placed"},
             Has(Tail(q), o, Head(q).hash)
      PROVE  FALSE
  <2>1. PICK i \in 1..Len(Tail(q)) : Tail(q)[i] = [op |-> o, hash |-> Head(q).hash]
    BY <1>3 DEF Has
  <2>2. i + 1 \in 1..Len(q) /\ 1 \in 1..Len(q) /\ q[i + 1] = [op |-> o, hash |-> q[1].hash]
    BY <1>1, <2>1
  <2>3. q[i + 1].hash = q[1].hash /\ {q[i + 1].op, q[1].op} \subseteq {"fail", "placed"}
    BY <1>1, <1>3, <2>2
  <2>4. i + 1 = 1
    BY <2>2, <2>3 DEF OneOutcome
  <2> QED BY <2>4
<1> QED BY <1>2, <1>3

\* The four writes after a placement, one put after the other.
LEMMA PutPlacedFacts ==
    ASSUME NEW q \in Seq(Job), NEW h \in Hashes
    PROVE  /\ PutPlaced(q, h) \in Seq(Job)
           /\ \A o, k : Has(q, o, k) => Has(PutPlaced(q, h), o, k)
           /\ \A o, k : Has(PutPlaced(q, h), o, k) =>
                Has(q, o, k) \/ (o \in Legs \cup {"placed"} /\ k = h)
           /\ Len(q) + 4 <= QueueCap =>
                \A o \in Legs \cup {"placed"} : Has(PutPlaced(q, h), o, h)
           /\ OneOutcome(q) /\ ~Has(q, "fail", h) /\ ~Has(q, "placed", h) =>
                OneOutcome(PutPlaced(q, h))
<1> DEFINE q1 == Put(q, "ENTRY", h)
           q2 == Put(q1, "TARGET", h)
           q3 == Put(q2, "STOPLOSS", h)
           q4 == Put(q3, "placed", h)
           Clear(s) == OneOutcome(s) /\ ~Has(s, "fail", h) /\ ~Has(s, "placed", h)
<1>0. {"ENTRY", "TARGET", "STOPLOSS", "placed"} \subseteq Ops
  BY DEF Ops, Legs
<1>put. ASSUME NEW s \in Seq(Job), NEW op \in {"ENTRY", "TARGET", "STOPLOSS", "placed"}
        PROVE  /\ Put(s, op, h) \in Seq(Job)
               /\ Len(s) < QueueCap => Len(Put(s, op, h)) = Len(s) + 1 /\ Has(Put(s, op, h), op, h)
               /\ \A o, k : Has(s, o, k) => Has(Put(s, op, h), o, k)
               /\ \A o, k : Has(Put(s, op, h), o, k) => Has(s, o, k) \/ (o = op /\ k = h)
               /\ Clear(s) => OneOutcome(Put(s, op, h))
               /\ Clear(s) /\ op # "placed" => Clear(Put(s, op, h))
  <2>1. /\ Put(s, op, h) \in Seq(Job)
        /\ Len(s) < QueueCap => Len(Put(s, op, h)) = Len(s) + 1
    BY <1>0, PutFacts
  <2>2. /\ Len(s) < QueueCap => Has(Put(s, op, h), op, h)
        /\ \A o, k : Has(s, o, k) => Has(Put(s, op, h), o, k)
        /\ \A o, k : Has(Put(s, op, h), o, k) => Has(s, o, k) \/ (o = op /\ k = h)
    BY <1>0, PutHas
  <2>3. Clear(s) => OneOutcome(Put(s, op, h))
    BY <1>0, PutOnce
  <2>4. ASSUME Clear(s), op # "placed" PROVE Clear(Put(s, op, h))
    <3>1. op # "fail"
      OBVIOUS
    <3>2. ~Has(Put(s, op, h), "fail", h)
      BY <2>2, <2>4, <3>1
    <3>3. ~Has(Put(s, op, h), "placed", h)
      BY <2>2, <2>4
    <3> QED BY <2>3, <2>4, <3>2, <3>3
  <2> QED BY <2>1, <2>2, <2>3, <2>4
<1> HIDE DEF Clear
<1>1. /\ q1 \in Seq(Job)
      /\ Len(q) < QueueCap => Len(q1) = Len(q) + 1 /\ Has(q1, "ENTRY", h)
      /\ \A o, k : Has(q, o, k) => Has(q1, o, k)
      /\ \A o, k : Has(q1, o, k) => Has(q, o, k) \/ (o = "ENTRY" /\ k = h)
      /\ Clear(q) => Clear(q1)
  BY <1>put
<1> HIDE DEF q1
<1>2. /\ q2 \in Seq(Job)
      /\ Len(q1) < QueueCap => Len(q2) = Len(q1) + 1 /\ Has(q2, "TARGET", h)
      /\ \A o, k : Has(q1, o, k) => Has(q2, o, k)
      /\ \A o, k : Has(q2, o, k) => Has(q1, o, k) \/ (o = "TARGET" /\ k = h)
      /\ Clear(q1) => Clear(q2)
  BY <1>put, <1>1
<1> HIDE DEF q2
<1>3. /\ q3 \in Seq(Job)
      /\ Len(q2) < QueueCap => Len(q3) = Len(q2) + 1 /\ Has(q3, "STOPLOSS", h)
      /\ \A o, k : Has(q2, o, k) => Has(q3, o, k)
      /\ \A o, k : Has(q3, o, k) => Has(q2, o, k) \/ (o = "STOPLOSS" /\ k = h)
      /\ Clear(q2) => Clear(q3)
  BY <1>put, <1>2
<1> HIDE DEF q3
<1>4. /\ q4 \in Seq(Job)
      /\ Len(q3) < QueueCap => Has(q4, "placed", h)
      /\ \A o, k : Has(q3, o, k) => Has(q4, o, k)
      /\ \A o, k : Has(q4, o, k) => Has(q3, o, k) \/ (o = "placed" /\ k = h)
      /\ Clear(q3) => OneOutcome(q4)
  BY <1>put, <1>3
<1>5. PutPlaced(q, h) = q4
  BY DEF PutPlaced, q1, q2, q3
<1> HIDE DEF q4
<1>6. \A o, k : Has(q, o, k) => Has(q4, o, k)
  BY <1>1, <1>2, <1>3, <1>4
<1>7. \A o, k : Has(q4, o, k) => Has(q, o, k) \/ (o \in Legs \cup {"placed"} /\ k = h)
  BY <1>1, <1>2, <1>3, <1>4 DEF Legs
<1>8. ASSUME Len(q) + 4 <= QueueCap, NEW o \in Legs \cup {"placed"} PROVE Has(q4, o, h)
  <2>1. Len(q) < QueueCap /\ Len(q) \in Nat
    BY <1>8, BoundAssumption
  <2>2. Len(q1) = Len(q) + 1 /\ Len(q1) < QueueCap
    BY <1>1, <1>8, <2>1, BoundAssumption
  <2>3. Len(q2) = Len(q) + 2 /\ Len(q2) < QueueCap
    BY <1>2, <1>8, <2>1, <2>2, BoundAssumption
  <2>4. Len(q3) = Len(q) + 3 /\ Len(q3) < QueueCap
    BY <1>3, <1>8, <2>1, <2>3, BoundAssumption
  <2> QED BY <1>1, <1>2, <1>3, <1>4, <2>1, <2>2, <2>3, <2>4 DEF Legs
<1>9. Clear(q) => OneOutcome(q4)
  BY <1>1, <1>2, <1>3, <1>4
<1> QED BY <1>4, <1>5, <1>6, <1>7, <1>8, <1>9 DEF Clear

-----------------------------------------------------------------------------
(* Types *)

\* An action of the engine other than Publish and Age, which take a parameter.
\* Each type is checked where an action changes a variable of its part.
LEMMA TypeStep == TypeOK /\ [Next]_vars => TypeOK'
<1> SUFFICES ASSUME TypeOK, [Next]_vars PROVE TypeOK'
  OBVIOUS
<1> USE DEF TypeOK, stream, engine, db, sweep, broker, history
<1>cur. pc # "idle" => cur \in Msgs /\ H \in Hashes
  BY MsgAssumption DEF EngineTypeOK, H
<1>put. \A op \in Ops, h \in Hashes : Put(queue, op, h) \in Seq(Job)
  BY PutFacts
<1>0. CASE UNCHANGED vars
  BY <1>0 DEF vars, StreamTypeOK, EngineTypeOK, DbTypeOK, SweepTypeOK, BrokerTypeOK, HistoryTypeOK
<1>1. ASSUME NEW m \in Msgs, Publish(m) PROVE TypeOK'
  BY <1>1 DEF Publish, StreamTypeOK, EngineTypeOK, DbTypeOK, SweepTypeOK, BrokerTypeOK, HistoryTypeOK
<1>2. ASSUME NEW h \in Hashes, Age(h) PROVE TypeOK'
  BY <1>2 DEF Age, StreamTypeOK, EngineTypeOK, DbTypeOK, SweepTypeOK, BrokerTypeOK, HistoryTypeOK
<1>3. CASE Deliver
  BY <1>3, <1>cur DEF Deliver, StreamTypeOK, EngineTypeOK, DbTypeOK, SweepTypeOK, BrokerTypeOK, HistoryTypeOK, Steps
<1>4. CASE Ack
  BY <1>4, <1>cur DEF Ack, StreamTypeOK, EngineTypeOK, DbTypeOK, SweepTypeOK, BrokerTypeOK, HistoryTypeOK, Steps
<1>5. CASE Begin
  BY <1>5, MsgAssumption DEF Begin, StreamTypeOK, EngineTypeOK, DbTypeOK, SweepTypeOK, BrokerTypeOK, HistoryTypeOK, Steps
<1>6. CASE ParseFails
  BY <1>6, <1>cur DEF ParseFails, Goto, StreamTypeOK, EngineTypeOK, DbTypeOK, SweepTypeOK, BrokerTypeOK, HistoryTypeOK, Steps
<1>7. CASE GateBlocks
  BY <1>7, <1>cur, <1>put DEF GateBlocks, Finish, Goto, ExcuseOverflow, StreamTypeOK, EngineTypeOK, DbTypeOK, SweepTypeOK, BrokerTypeOK, HistoryTypeOK, Steps, Ops
<1>8. CASE InsertWins
  BY <1>8, <1>cur DEF InsertWins, Goto, Statuses, StreamTypeOK, EngineTypeOK, DbTypeOK, SweepTypeOK, BrokerTypeOK, HistoryTypeOK, Steps
<1>9. CASE InsertSkips
  BY <1>9, <1>cur DEF InsertSkips, Goto, StreamTypeOK, EngineTypeOK, DbTypeOK, SweepTypeOK, BrokerTypeOK, HistoryTypeOK, Steps
<1>10. CASE InsertBreaks
  BY <1>10, <1>cur DEF InsertBreaks, Fault, Statuses, StreamTypeOK, EngineTypeOK, DbTypeOK, SweepTypeOK, BrokerTypeOK, HistoryTypeOK, Steps
<1>11. CASE ProcessRaises
  BY <1>11, <1>cur DEF ProcessRaises, Escape, Fault, StreamTypeOK, EngineTypeOK, DbTypeOK, SweepTypeOK, BrokerTypeOK, HistoryTypeOK, Steps
<1>12. CASE RateDenies
  BY <1>12, <1>cur, <1>put DEF RateDenies, Finish, Goto, ExcuseOverflow, StreamTypeOK, EngineTypeOK, DbTypeOK, SweepTypeOK, BrokerTypeOK, HistoryTypeOK, Steps, Ops
<1>13. CASE RateAllows
  BY <1>13, <1>cur DEF RateAllows, Goto, StreamTypeOK, EngineTypeOK, DbTypeOK, SweepTypeOK, BrokerTypeOK, HistoryTypeOK, Steps
<1>14. CASE PlaceSucceeds
  BY <1>14, <1>cur DEF PlaceSucceeds, Goto, Placing, StreamTypeOK, EngineTypeOK, DbTypeOK, SweepTypeOK, BrokerTypeOK, HistoryTypeOK, Steps
<1>15. CASE PlaceRetries
  BY <1>15, <1>cur DEF PlaceRetries, Goto, Placing, MayCreate, StreamTypeOK, EngineTypeOK, DbTypeOK, SweepTypeOK, BrokerTypeOK, HistoryTypeOK, Steps
<1>16. CASE PlaceFails
  BY <1>16, <1>cur, <1>put DEF PlaceFails, Finish, Goto, ExcuseOverflow, Placing, MayCreate, StreamTypeOK, EngineTypeOK, DbTypeOK, SweepTypeOK, BrokerTypeOK, HistoryTypeOK, Steps, Ops
<1>17. CASE PlaceDenied
  BY <1>17, <1>cur DEF PlaceDenied, Placing, Escape, StreamTypeOK, EngineTypeOK, DbTypeOK, SweepTypeOK, BrokerTypeOK, HistoryTypeOK, Steps
<1>18. CASE PlaceBreaks
  <2>1. EngineTypeOK'
    BY <1>18, <1>cur DEF PlaceBreaks, Placing, Escape, EngineTypeOK, Steps
  <2>2. BrokerTypeOK'
    BY <1>18, <1>cur DEF PlaceBreaks, Placing, MayCreate, BrokerTypeOK
  <2>3. HistoryTypeOK'
    BY <1>18, <1>cur DEF PlaceBreaks, Placing, Fault, HistoryTypeOK
  <2> QED BY <1>18, <2>1, <2>2, <2>3 DEF PlaceBreaks, StreamTypeOK, DbTypeOK, SweepTypeOK
<1>19. CASE Record
  <2>1. PutPlaced(queue, H) \in Seq(Job)
    BY <1>19, <1>cur, PutPlacedFacts DEF Record
  <2> QED
    BY <1>19, <1>cur, <2>1 DEF Record, Goto, ExcuseOverflow, StreamTypeOK, EngineTypeOK, DbTypeOK, SweepTypeOK, BrokerTypeOK, HistoryTypeOK, Steps
<1>20. CASE Notify
  BY <1>20, <1>cur DEF Notify, Goto, StreamTypeOK, EngineTypeOK, DbTypeOK, SweepTypeOK, BrokerTypeOK, HistoryTypeOK, Steps
<1>21. CASE NotifyRaises
  BY <1>21, <1>cur DEF NotifyRaises, Escape, Fault, StreamTypeOK, EngineTypeOK, DbTypeOK, SweepTypeOK, BrokerTypeOK, HistoryTypeOK, Steps
<1>22. CASE WriterStep
  <2>1. Tail(queue) \in Seq(Job) /\ Head(queue) \in Job
    BY <1>22, TailHas DEF WriterStep
  <2>2. DbTypeOK'
    <3> DEFINE job == Head(queue)
    <3>1. job.hash \in Hashes /\ Apply(job)
      BY <1>22, <2>1 DEF WriterStep, Job
    <3> HIDE DEF job
    <3>2. status' \in [Hashes -> Statuses]
      BY <3>1 DEF Apply, DbTypeOK, Statuses
    <3>3. hasIds' \in [Hashes -> BOOLEAN]
      BY <3>1 DEF Apply, DbTypeOK
    <3>4. legs' \in [Hashes -> SUBSET Legs]
      BY <3>1 DEF Apply, DbTypeOK
    <3> QED BY <3>2, <3>3, <3>4 DEF DbTypeOK
  <2> QED
    BY <1>22, <2>1, <2>2 DEF WriterStep, StreamTypeOK, EngineTypeOK, SweepTypeOK, BrokerTypeOK,
                             HistoryTypeOK
<1>23. CASE WriterFails
  <2>1. Tail(queue) \in Seq(Job) /\ Head(queue).hash \in Hashes
    BY <1>23, TailHas DEF WriterFails, Job
  <2> QED
    BY <1>23, <2>1 DEF WriterFails, Fault, StreamTypeOK, EngineTypeOK, DbTypeOK, SweepTypeOK, BrokerTypeOK, HistoryTypeOK
<1>24. CASE ReconStart
  BY <1>24, <1>cur DEF ReconStart, StreamTypeOK, EngineTypeOK, DbTypeOK, SweepTypeOK, BrokerTypeOK, HistoryTypeOK, Steps
<1>25. CASE ReconOne
  <2>1. PICK h \in recon : /\ recon' = recon \ {h}
                          /\ known' \in {known, [known EXCEPT ![h] = "cancelled"]}
                          /\ queue' = Put(queue, "expire", h)
    BY <1>25 DEF ReconOne
  <2>2. queue' \in Seq(Job)
    BY <2>1, <1>put DEF Ops, SweepTypeOK
  <2>3. BrokerTypeOK'
    BY <1>25, <2>1 DEF ReconOne, BrokerTypeOK
  <2> QED
    BY <1>25, <2>1, <2>2, <2>3 DEF ReconOne, StreamTypeOK, EngineTypeOK, DbTypeOK, SweepTypeOK,
                                   HistoryTypeOK
<1>26. CASE Crash
  <2>1. BrokerTypeOK'
    BY <1>26, <1>cur DEF Crash, MayCreate, BrokerTypeOK
  <2>2. HistoryTypeOK'
    BY <1>26 DEF Crash, Fault, HistoryTypeOK
  <2>3. queue' \in Seq(Job)
    BY <1>26 DEF Crash
  <2> QED
    BY <1>26, <2>1, <2>2, <2>3 DEF Crash, StreamTypeOK, EngineTypeOK, DbTypeOK, SweepTypeOK, Steps
<1>27. CASE Restart
  BY <1>27, <1>cur DEF Restart, StreamTypeOK, EngineTypeOK, DbTypeOK, SweepTypeOK, BrokerTypeOK, HistoryTypeOK, Steps
<1> QED
  BY <1>0, <1>1, <1>2, <1>3, <1>4, <1>5, <1>6, <1>7, <1>8, <1>9, <1>10, <1>11, <1>12, <1>13, <1>14, <1>15, <1>16, <1>17, <1>18, <1>19, <1>20, <1>21, <1>22, <1>23, <1>24, <1>25, <1>26, <1>27 DEF Next, Process, Validate, Place, Disturb

\* Every variable keeps its type, for every instance.
THEOREM TypeCorrect == Safety => []TypeOK
<1>1. Init => TypeOK
  <2> SUFFICES ASSUME Init PROVE TypeOK
    OBVIOUS
  <2> USE DEF Init
  <2>1. StreamTypeOK /\ EngineTypeOK
    BY DEF StreamTypeOK, EngineTypeOK, Steps
  <2>2. DbTypeOK
    BY DEF DbTypeOK, Statuses
  <2>3. queue \in Seq(Job) /\ SweepTypeOK
    BY DEF SweepTypeOK
  <2>4. BrokerTypeOK /\ HistoryTypeOK
    BY DEF BrokerTypeOK, HistoryTypeOK
  <2> QED BY <2>1, <2>2, <2>3, <2>4 DEF TypeOK
<1> QED BY <1>1, TypeStep, PTL DEF Safety
-----------------------------------------------------------------------------
(* A row is decided once *)

\* The inductive step of DecidedOnce.  A row passes from the message that claimed
\* it to its one queued outcome, to the database, and perhaps to the sweep; each
\* action moves at most one row one stage further.
LEMMA DecidedStep == TypeOK /\ DecidedOnce /\ [Next]_vars => DecidedOnce'
<1> SUFFICES ASSUME TypeOK, DecidedOnce, [Next]_vars PROVE DecidedOnce'
  OBVIOUS
<1> USE DEF stream, engine, db, sweep, broker, history
<1>t. /\ queue \in Seq(Job)
      /\ pc # "idle" => cur \in Msgs /\ H \in Hashes
      /\ status \in [Hashes -> Statuses] /\ hasIds \in [Hashes -> BOOLEAN]
      /\ calls \in [Hashes -> Nat]
      /\ recon \subseteq Hashes /\ aged \subseteq Hashes
  BY MsgAssumption DEF TypeOK, EngineTypeOK, DbTypeOK, SweepTypeOK, HistoryTypeOK, H
<1>d. OneOutcome(queue) /\ \A h \in Hashes : RowDiscipline(h)
  BY DEF DecidedOnce
<1>h. \A o, g : \A op \in Ops, k \in Hashes :
         Has(Put(queue, op, k), o, g) => Has(queue, o, g) \/ (o = op /\ g = k)
  BY <1>t, PutHas
\* Steps that leave alone everything the discipline speaks of.
<1>f. ASSUME UNCHANGED <<queue, status, hasIds, calls, recon, aged>>,
             \A h \in Hashes : Owns(h)' => Owns(h) /\ (pc' = "rate" <=> pc = "rate")
      PROVE  DecidedOnce'
  BY <1>d, <1>f DEF DecidedOnce, RowDiscipline
<1>0. CASE UNCHANGED vars
  BY <1>0, <1>f DEF vars, Owns, H
<1>1. ASSUME NEW m \in Msgs, Publish(m) PROVE DecidedOnce'
  BY <1>1, <1>f DEF Publish, Owns, H
<1>2. CASE Deliver
  BY <1>2, <1>f DEF Deliver, Owns, H
<1>3. CASE Ack
  BY <1>3, <1>f DEF Ack, Owns, H
<1>4. CASE Begin
  BY <1>4, <1>f DEF Begin, Owns, H
<1>5. CASE ParseFails
  BY <1>5, <1>f DEF ParseFails, Owns, H, Goto
<1>6. CASE InsertSkips
  BY <1>6, <1>f DEF InsertSkips, Owns, H, Goto
<1>7. CASE ProcessRaises
  BY <1>7, <1>f DEF ProcessRaises, Owns, H, Escape
<1>8. CASE PlaceSucceeds
  BY <1>8, <1>f DEF PlaceSucceeds, Owns, H, Goto, Placing
<1>9. CASE PlaceRetries
  BY <1>9, <1>f DEF PlaceRetries, Owns, H, Goto, Placing
<1>10. CASE PlaceDenied
  BY <1>10, <1>f DEF PlaceDenied, Owns, H, Escape, Placing
<1>11. CASE PlaceBreaks
  BY <1>11, <1>f DEF PlaceBreaks, Owns, H, Escape, Placing
<1>12. CASE Notify
  BY <1>12, <1>f DEF Notify, Owns, H, Goto
<1>13. CASE NotifyRaises
  BY <1>13, <1>f DEF NotifyRaises, Owns, H, Escape
<1>14. CASE Restart
  BY <1>14, <1>f DEF Restart, Owns, H
<1>15. CASE GateBlocks
  <2>1. OneOutcome(queue')
    BY <1>15, <1>t, <1>d, PutOnce DEF GateBlocks, Finish, Ops
  <2>2. \A o, h : Has(queue', o, h) => Has(queue, o, h) \/ o = "block"
    BY <1>15, <1>t, <1>h DEF GateBlocks, Finish, Ops
  <2>3. \A h \in Hashes : ~Owns(h)'
    BY <1>15 DEF GateBlocks, Finish, Goto, Owns
  <2> QED
    BY <1>15, <1>d, <2>1, <2>2, <2>3 DEF GateBlocks, DecidedOnce, RowDiscipline
<1>16. CASE RateDenies
  <2>1. Owns(H) /\ H \in Hashes
    BY <1>16, <1>t DEF RateDenies, Owns
  <2>2. OneOutcome(queue')
    BY <1>16, <1>t, <1>d, <2>1, PutOnce DEF RateDenies, Finish, Ops, RowDiscipline
  <2>3. \A o, h : Has(queue', o, h) => Has(queue, o, h) \/ (o = "fail" /\ h = H)
    BY <1>16, <1>h, <2>1 DEF RateDenies, Finish, Ops
  <2>4. \A h \in Hashes : ~Owns(h)'
    BY <1>16 DEF RateDenies, Finish, Goto, Owns
  <2> QED
    BY <1>16, <1>d, <2>1, <2>2, <2>3, <2>4 DEF RateDenies, DecidedOnce, RowDiscipline
<1>17. CASE PlaceFails
  <2>1. Owns(H) /\ H \in Hashes
    BY <1>17, <1>t DEF PlaceFails, Owns, Placing
  <2>2. OneOutcome(queue')
    BY <1>17, <1>t, <1>d, <2>1, PutOnce DEF PlaceFails, Finish, Ops, RowDiscipline
  <2>3. \A o, h : Has(queue', o, h) => Has(queue, o, h) \/ (o = "fail" /\ h = H)
    BY <1>17, <1>h, <2>1 DEF PlaceFails, Finish, Ops
  <2>4. \A h \in Hashes : ~Owns(h)'
    BY <1>17 DEF PlaceFails, Finish, Goto, Owns
  <2> QED
    BY <1>17, <1>d, <2>1, <2>2, <2>3, <2>4 DEF PlaceFails, DecidedOnce, RowDiscipline
<1>18. CASE InsertWins
  <2>1. H \in Hashes
    BY <1>18, <1>t DEF InsertWins
  <2>2. ASSUME NEW h \in Hashes PROVE RowDiscipline(h)'
    <3>1. CASE h = H
      BY <1>18, <1>d, <1>t, <2>1, <3>1 DEF InsertWins, Goto, Owns, H, RowDiscipline
    <3>2. CASE h # H
      BY <1>18, <1>d, <1>t, <3>2 DEF InsertWins, Goto, Owns, H, RowDiscipline
    <3> QED BY <3>1, <3>2
  <2> QED
    BY <1>18, <1>d, <2>2 DEF InsertWins, DecidedOnce
<1>19. CASE InsertBreaks
  <2>1. H \in Hashes
    BY <1>19, <1>t DEF InsertBreaks
  <2>2. ASSUME NEW h \in Hashes PROVE RowDiscipline(h)'
    <3>1. CASE status' = status
      BY <1>19, <1>d, <3>1 DEF InsertBreaks, Owns, RowDiscipline
    <3>2. CASE status[H] = "none" /\ status' = [status EXCEPT ![H] = "PENDING"]
      BY <1>19, <1>d, <1>t, <2>1, <3>2 DEF InsertBreaks, Owns, RowDiscipline
    <3> QED BY <1>19, <3>1, <3>2 DEF InsertBreaks
  <2> QED
    BY <1>19, <1>d, <2>2 DEF InsertBreaks, DecidedOnce
<1>20. CASE RateAllows
  <2>1. Owns(H) /\ H \in Hashes
    BY <1>20, <1>t DEF RateAllows, Owns
  <2>2. ASSUME NEW h \in Hashes PROVE RowDiscipline(h)'
    <3>1. CASE h = H
      BY <1>20, <1>d, <1>t, <2>1, <3>1 DEF RateAllows, Goto, Owns, H, RowDiscipline
    <3>2. CASE h # H
      BY <1>20, <1>d, <1>t, <3>2 DEF RateAllows, Goto, Owns, H, RowDiscipline
    <3> QED BY <3>1, <3>2
  <2> QED
    BY <1>20, <1>d, <2>2 DEF RateAllows, DecidedOnce
<1>21. CASE Record
  <2>1. Owns(H) /\ H \in Hashes
    BY <1>21, <1>t DEF Record, Owns
  <2>2. /\ OneOutcome(queue')
        /\ \A o, h : Has(queue', o, h) => Has(queue, o, h) \/ (o \in Legs \cup {"placed"} /\ h = H)
    BY <1>21, <1>t, <1>d, <2>1, PutPlacedFacts DEF Record, RowDiscipline
  <2>3. \A h \in Hashes : ~Owns(h)'
    BY <1>21 DEF Record, Goto, Owns
  <2>4. calls[H] = 1
    BY <1>21, <1>d, <2>1 DEF Record, RowDiscipline
  <2> QED
    BY <1>21, <1>d, <2>1, <2>2, <2>3, <2>4 DEF Record, DecidedOnce, RowDiscipline, Legs
<1>22. CASE WriterStep
  <2> DEFINE job == Head(queue)
  <2>1. /\ job.hash \in Hashes /\ Has(queue, job.op, job.hash)
        /\ OneOutcome(queue')
        /\ job.op \in {"fail", "placed"} =>
             ~Has(queue', "fail", job.hash) /\ ~Has(queue', "placed", job.hash)
    BY <1>22, <1>t, <1>d, TailHas, TailOnce DEF WriterStep, Job
  <2>2. \A o, h : Has(queue', o, h) => Has(queue, o, h)
    BY <1>22, <1>t, TailHas DEF WriterStep
  <2>3. Apply(job) /\ UNCHANGED <<calls, recon, aged>> /\ \A h \in Hashes : Owns(h)' <=> Owns(h)
    BY <1>22 DEF WriterStep, Owns, H
  <2>4. pc' = pc
    BY <1>22 DEF WriterStep
  <2> HIDE DEF job
  <2>5. ASSUME NEW h \in Hashes PROVE RowDiscipline(h)'
    <3>1. CASE h # job.hash \/ job.op \in Legs
      <4>1. status'[h] = status[h] /\ hasIds'[h] = hasIds[h]
        BY <1>t, <2>1, <2>3, <3>1 DEF Apply, Legs
      <4> QED BY <1>d, <2>2, <2>3, <2>4, <4>1 DEF RowDiscipline
    <3>2. CASE h = job.hash /\ job.op = "block"
      BY <1>d, <1>t, <2>1, <2>2, <2>3, <2>4, <3>2 DEF Apply, Legs, RowDiscipline
    <3>3. CASE h = job.hash /\ job.op = "fail"
      BY <1>d, <1>t, <2>1, <2>2, <2>3, <2>4, <3>3 DEF Apply, Legs, RowDiscipline
    <3>4. CASE h = job.hash /\ job.op = "placed"
      BY <1>d, <1>t, <2>1, <2>2, <2>3, <2>4, <3>4 DEF Apply, Legs, RowDiscipline
    <3>5. CASE h = job.hash /\ job.op = "expire"
      BY <1>d, <1>t, <2>1, <2>2, <2>3, <2>4, <3>5 DEF Apply, Legs, RowDiscipline
    <3> QED BY <2>3, <3>1, <3>2, <3>3, <3>4, <3>5 DEF Apply
  <2> QED BY <2>1, <2>5 DEF DecidedOnce
<1>23. CASE WriterFails
  <2>1. OneOutcome(queue') /\ \A o, h : Has(queue', o, h) => Has(queue, o, h)
    BY <1>23, <1>t, <1>d, TailHas, TailOnce DEF WriterFails
  <2>2. \A h \in Hashes : Owns(h)' <=> Owns(h)
    BY <1>23 DEF WriterFails, Owns, H
  <2> QED BY <1>23, <1>d, <2>1, <2>2 DEF WriterFails, DecidedOnce, RowDiscipline
<1>24. ASSUME NEW h \in Hashes, Age(h) PROVE DecidedOnce'
  <2>1. \A k \in Hashes : Owns(k)' <=> Owns(k)
    BY <1>24 DEF Age, Owns, H
  <2> QED BY <1>24, <1>d, <2>1 DEF Age, Quiet, Queued, DecidedOnce, RowDiscipline
<1>25. CASE ReconStart
  <2>1. \A h \in Hashes : Owns(h)' <=> Owns(h)
    BY <1>25 DEF ReconStart, Owns, H
  <2> QED BY <1>25, <1>d, <2>1 DEF ReconStart, DecidedOnce, RowDiscipline
<1>26. CASE ReconOne
  <2>1. PICK k \in recon : recon' = recon \ {k} /\ queue' = Put(queue, "expire", k)
    BY <1>26 DEF ReconOne
  <2>2. k \in Hashes /\ k \in aged
    BY <1>d, <1>t, <2>1 DEF RowDiscipline
  <2>3. OneOutcome(queue')
    BY <1>t, <1>d, <2>1, <2>2, PutOnce DEF Ops
  <2>4. \A o, h : Has(queue', o, h) => Has(queue, o, h) \/ (o = "expire" /\ h = k)
    BY <1>h, <2>1, <2>2 DEF Ops
  <2>5. \A h \in Hashes : Owns(h)' <=> Owns(h)
    BY <1>26 DEF ReconOne, Owns, H
  <2> QED
    BY <1>26, <1>d, <2>1, <2>2, <2>3, <2>4, <2>5 DEF ReconOne, DecidedOnce, RowDiscipline
<1>27. CASE Crash
  <2>1. OneOutcome(queue') /\ \A o, h : ~Has(queue', o, h)
    BY <1>27 DEF Crash, OneOutcome, Has
  <2>2. \A h \in Hashes : ~Owns(h)'
    BY <1>27 DEF Crash, Owns
  <2> QED BY <1>27, <1>d, <2>1, <2>2 DEF Crash, DecidedOnce, RowDiscipline
<1> QED
  BY <1>0, <1>1, <1>2, <1>3, <1>4, <1>5, <1>6, <1>7, <1>8, <1>9, <1>10, <1>11, <1>12, <1>13, <1>14, <1>15, <1>16, <1>17, <1>18, <1>19, <1>20, <1>21, <1>22, <1>23, <1>24, <1>25, <1>26, <1>27
     DEF Next, Process, Validate, Place, Disturb

\* Although no write of the engine checks the status it overwrites, a row is
\* decided by one party at a time: the message that claimed it, its one queued
\* outcome, the sweep.
THEOREM RowsDecidedOnce == Safety => []DecidedOnce
<1>1. Init => DecidedOnce
  BY DEF Init, DecidedOnce, OneOutcome, RowDiscipline, Owns, Has
<1>2. TypeOK /\ DecidedOnce /\ [Next]_vars => TypeOK' /\ DecidedOnce'
  BY TypeStep, DecidedStep
<1> QED BY <1>1, <1>2, TypeCorrect, PTL DEF Safety
-----------------------------------------------------------------------------
(* The contract *)

\* Initially nothing is decided and nothing was called.
LEMMA ContractInit == Init => Contract!Init
BY DEF Init, Contract!Init, Verdict

\* Every step of the engine is one step of the contract, or none.
LEMMA ContractStep ==
    TypeOK /\ DecidedOnce /\ [Next]_vars => [Contract!Next]_(Contract!contractVars)
<1> SUFFICES ASSUME TypeOK, DecidedOnce, [Next]_vars
             PROVE  Contract!Next \/ UNCHANGED Contract!contractVars
  OBVIOUS
<1> USE DEF stream, engine, db, sweep, broker, history
<1> DEFINE v == [h \in Hashes |-> Verdict(h)]
<1>t. /\ queue \in Seq(Job)
      /\ pc # "idle" => cur \in Msgs /\ H \in Hashes
      /\ status \in [Hashes -> Statuses] /\ hasIds \in [Hashes -> BOOLEAN]
      /\ calls \in [Hashes -> Nat]
  BY MsgAssumption DEF TypeOK, EngineTypeOK, DbTypeOK, HistoryTypeOK, H
<1>d. \A h \in Hashes : RowDiscipline(h)
  BY DEF DecidedOnce
\* A step that touches neither row nor count is invisible.
<1>s. ASSUME UNCHANGED <<status, hasIds, calls>> PROVE UNCHANGED Contract!contractVars
  BY <1>s DEF Contract!contractVars, Verdict
\* A step that changes the row of one hash only changes its verdict only.
<1>w. ASSUME NEW h \in Hashes, NEW to,
             \A k \in Hashes \ {h} : status'[k] = status[k] /\ hasIds'[k] = hasIds[k],
             Verdict(h)' = to
      PROVE  v' = [v EXCEPT ![h] = to]
  BY <1>w DEF Verdict
<1>0. CASE UNCHANGED vars
  BY <1>0, <1>s DEF vars
<1>1. ASSUME NEW m \in Msgs, Publish(m) PROVE UNCHANGED Contract!contractVars
  BY <1>1, <1>s DEF Publish
<1>2. ASSUME NEW h \in Hashes, Age(h) PROVE UNCHANGED Contract!contractVars
  BY <1>2, <1>s DEF Age
<1>3. CASE Deliver
  BY <1>3, <1>s DEF Deliver
<1>4. CASE Ack
  BY <1>4, <1>s DEF Ack
<1>5. CASE Begin
  BY <1>5, <1>s DEF Begin
<1>6. CASE ParseFails
  BY <1>6, <1>s DEF ParseFails
<1>7. CASE GateBlocks
  BY <1>7, <1>s DEF GateBlocks
<1>8. CASE InsertSkips
  BY <1>8, <1>s DEF InsertSkips
<1>9. CASE ProcessRaises
  BY <1>9, <1>s DEF ProcessRaises
<1>10. CASE RateDenies
  BY <1>10, <1>s DEF RateDenies
<1>11. CASE PlaceSucceeds
  BY <1>11, <1>s DEF PlaceSucceeds
<1>12. CASE PlaceRetries
  BY <1>12, <1>s DEF PlaceRetries
<1>13. CASE PlaceFails
  BY <1>13, <1>s DEF PlaceFails
<1>14. CASE PlaceDenied
  BY <1>14, <1>s DEF PlaceDenied
<1>15. CASE PlaceBreaks
  BY <1>15, <1>s DEF PlaceBreaks
<1>16. CASE Record
  BY <1>16, <1>s DEF Record
<1>17. CASE Notify
  BY <1>17, <1>s DEF Notify
<1>18. CASE NotifyRaises
  BY <1>18, <1>s DEF NotifyRaises
<1>19. CASE WriterFails
  BY <1>19, <1>s DEF WriterFails
<1>20. CASE ReconStart
  BY <1>20, <1>s DEF ReconStart
<1>21. CASE ReconOne
  BY <1>21, <1>s DEF ReconOne
<1>22. CASE Crash
  BY <1>22, <1>s DEF Crash
<1>23. CASE Restart
  BY <1>23, <1>s DEF Restart
<1>24. CASE InsertWins
  <2>0. PICK h \in Hashes : h = H
    BY <1>24, <1>t DEF InsertWins
  <2>1. Verdict(h) = "none" /\ Verdict(h)' = "CLAIMED"
    BY <1>24, <1>t, <1>d, <2>0 DEF InsertWins, Verdict, RowDiscipline
  <2>2. v' = [v EXCEPT ![h] = "CLAIMED"] /\ calls' = calls
    BY <1>24, <1>t, <1>w, <2>0, <2>1 DEF InsertWins
  <2>3. Contract!Claim(h)
    BY <2>1, <2>2 DEF Contract!Claim, Contract!Decide
  <2> QED BY <2>3 DEF Contract!Next
<1>25. CASE InsertBreaks
  <2>1. CASE UNCHANGED status
    BY <1>25, <1>s, <2>1 DEF InsertBreaks
  <2>2. CASE status[H] = "none" /\ status' = [status EXCEPT ![H] = "PENDING"]
    <3>0. PICK h \in Hashes : h = H
      BY <1>25, <1>t DEF InsertBreaks
    <3>1. Verdict(h) = "none" /\ Verdict(h)' = "CLAIMED"
      BY <1>25, <1>t, <1>d, <2>2, <3>0 DEF InsertBreaks, Verdict, RowDiscipline
    <3>2. v' = [v EXCEPT ![h] = "CLAIMED"] /\ calls' = calls
      BY <1>25, <1>t, <1>w, <2>2, <3>0, <3>1 DEF InsertBreaks
    <3>3. Contract!Claim(h)
      BY <3>1, <3>2 DEF Contract!Claim, Contract!Decide
    <3> QED BY <3>3 DEF Contract!Next
  <2> QED BY <1>25, <2>1, <2>2 DEF InsertBreaks
<1>26. CASE RateAllows
  <2>0. PICK h \in Hashes : h = H
    BY <1>26, <1>t DEF RateAllows
  <2>1. Verdict(h) = "CLAIMED" /\ calls[h] = 0
    BY <1>26, <1>t, <1>d, <2>0 DEF RateAllows, Owns, Verdict, RowDiscipline
  <2>2. v' = v /\ calls' = [calls EXCEPT ![h] = 1]
    BY <1>26, <2>0, <2>1 DEF RateAllows, Verdict
  <2>3. Contract!Call(h)
    BY <2>1, <2>2 DEF Contract!Call
  <2> QED BY <2>3 DEF Contract!Next
<1>27. CASE WriterStep
  <2>0. PICK job \in Job : job = Head(queue)
    BY <1>27, <1>t, TailHas DEF WriterStep
  <2> DEFINE h == job.hash
  <2>1. h \in Hashes /\ Has(queue, job.op, h) /\ Apply(job) /\ calls' = calls
    BY <1>27, <1>t, <2>0, TailHas DEF WriterStep, Job
  <2>2. RowDiscipline(h)
    BY <1>d, <2>1
  <2>w. ASSUME NEW to, Verdict(h)' = to PROVE v' = [v EXCEPT ![h] = to]
    <3>1. \A k \in Hashes \ {h} : status'[k] = status[k] /\ hasIds'[k] = hasIds[k]
      BY <1>t, <2>1 DEF Apply
    <3> QED BY <1>w, <2>1, <2>w, <3>1
  <2>3. CASE job.op \in Legs \/ (job.op = "block" /\ status[h] # "none")
    BY <1>s, <2>1, <2>3 DEF Apply, Legs
  <2>4. CASE job.op = "block" /\ status[h] = "none"
    <3>1. Verdict(h) = "none" /\ Verdict(h)' = "BLOCKED"
      BY <1>t, <2>1, <2>4 DEF Apply, Verdict, Legs
    <3>2. Contract!Block(h)
      BY <2>1, <2>w, <3>1 DEF Contract!Block, Contract!Decide
    <3> QED BY <2>1, <3>2 DEF Contract!Next
  <2>5. CASE job.op = "fail"
    <3>1. Verdict(h) = "CLAIMED" /\ Verdict(h)' = "FAILED"
      BY <1>t, <2>1, <2>2, <2>5 DEF Apply, Verdict, Legs, RowDiscipline
    <3>2. Contract!Fail(h)
      BY <2>1, <2>w, <3>1 DEF Contract!Fail, Contract!Decide
    <3> QED BY <2>1, <3>2 DEF Contract!Next
  <2>6. CASE job.op = "placed"
    <3>1. Verdict(h) = "CLAIMED" /\ Verdict(h)' = "PLACED" /\ calls[h] = 1
      BY <1>t, <2>1, <2>2, <2>6 DEF Apply, Verdict, Legs, RowDiscipline
    <3>2. Contract!Record(h)
      BY <2>1, <2>w, <3>1 DEF Contract!Record, Contract!Decide
    <3> QED BY <2>1, <3>2 DEF Contract!Next
  <2>7. CASE job.op = "expire"
    <3>1. Verdict(h) \in {"CLAIMED", "PLACED", "EXPIRED"} /\ Verdict(h)' = "EXPIRED"
      BY <1>t, <2>1, <2>2, <2>7 DEF Apply, Verdict, Legs, RowDiscipline
    <3>2. v' = [v EXCEPT ![h] = "EXPIRED"]
      BY <2>w, <3>1
    <3>3. CASE Verdict(h) = "EXPIRED"
      <4>1. v' = v
        BY <2>1, <3>2, <3>3
      <4> QED BY <2>1, <4>1 DEF Contract!contractVars
    <3>4. CASE Verdict(h) \in {"CLAIMED", "PLACED"}
      <4>1. Contract!Expire(h)
        BY <2>1, <3>2, <3>4 DEF Contract!Expire, Contract!Decide
      <4> QED BY <2>1, <4>1 DEF Contract!Next
    <3> QED BY <3>1, <3>3, <3>4
  <2> QED BY <2>1, <2>3, <2>4, <2>5, <2>6, <2>7 DEF Apply
<1> QED
  BY <1>0, <1>1, <1>2, <1>3, <1>4, <1>5, <1>6, <1>7, <1>8, <1>9, <1>10, <1>11, <1>12, <1>13, <1>14, <1>15, <1>16, <1>17, <1>18, <1>19, <1>20, <1>21, <1>22, <1>23, <1>24, <1>25, <1>26, <1>27
     DEF Next, Process, Validate, Place, Disturb

\* The engine implements the contract, for every number of messages, hashes and
\* faults: one decision and at most one placement call per trade idea.
THEOREM EngineImplementsContract == Safety => ImplementsContract
<1>1. TypeOK /\ DecidedOnce /\ [Next]_vars => [Contract!Next]_(Contract!contractVars)
  BY ContractStep
<1> QED
  BY <1>1, ContractInit, TypeCorrect, RowsDecidedOnce, PTL
     DEF Safety, ImplementsContract, Contract!Spec

-----------------------------------------------------------------------------
(* Orders at the broker *)

\* While attempt n of the call is out, the earlier attempts have left at most n
\* orders and no id is known.
OrderCount(h) == orphans[h] + (IF known[h] = "live" THEN 1 ELSE 0)

OrdersCounted ==
    /\ attempt <= MaxRetry - 1
    /\ \A h \in Hashes :
         /\ calls[h] = 0 => orphans[h] = 0 /\ known[h] = "none"
         /\ pc = "place" /\ H = h => known[h] = "none" /\ orphans[h] <= attempt
         /\ OrderCount(h) <= MaxRetry

LEMMA OrdersStep == TypeOK /\ DecidedOnce /\ OrdersCounted /\ [Next]_vars => OrdersCounted'
<1> SUFFICES ASSUME TypeOK, DecidedOnce, OrdersCounted, [Next]_vars PROVE OrdersCounted'
  OBVIOUS
<1> USE DEF stream, engine, db, sweep, broker, history
<1>t. /\ pc # "idle" => cur \in Msgs /\ H \in Hashes
      /\ known \in [Hashes -> {"none", "live", "cancelled"}] /\ orphans \in [Hashes -> Nat]
      /\ calls \in [Hashes -> Nat] /\ attempt \in Nat /\ MaxRetry \in Nat /\ MaxRetry >= 1
      /\ recon \subseteq Hashes
  BY MsgAssumption, BoundAssumption
     DEF TypeOK, EngineTypeOK, BrokerTypeOK, HistoryTypeOK, SweepTypeOK, H
<1>d. \A h \in Hashes : RowDiscipline(h)
  BY DEF DecidedOnce
\* Steps that do not touch the broker, the count or the attempt.
<1>f. ASSUME UNCHANGED <<attempt, known, orphans, calls>>,
             pc' = "place" => pc = "place" /\ cur' = cur
      PROVE  OrdersCounted'
  BY <1>f DEF OrdersCounted, OrderCount, H
\* Steps that may leave an order behind while no id is known.
<1>m. ASSUME pc = "place", MayCreate, UNCHANGED <<known, calls>>,
             attempt' \in Nat, attempt' <= MaxRetry - 1,
             pc' = "place" => cur' = cur /\ attempt' = attempt + 1
      PROVE  OrdersCounted'
  <2>1. calls[H] = 1 /\ known[H] = "none" /\ orphans[H] <= attempt /\ attempt <= MaxRetry - 1
    BY <1>t, <1>d, <1>m DEF OrdersCounted, RowDiscipline, Owns
  <2>2. \A h \in Hashes \ {H} : orphans'[h] = orphans[h]
    BY <1>t, <1>m DEF MayCreate
  <2>3. orphans'[H] \in Nat /\ orphans'[H] <= attempt + 1
    BY <1>t, <1>m, <2>1 DEF MayCreate
  <2>4. ASSUME NEW h \in Hashes
        PROVE  /\ calls'[h] = 0 => orphans'[h] = 0 /\ known'[h] = "none"
               /\ pc' = "place" /\ H' = h => known'[h] = "none" /\ orphans'[h] <= attempt'
               /\ OrderCount(h)' <= MaxRetry
    <3>1. CASE h = H
      BY <1>t, <1>m, <2>1, <2>3, <3>1 DEF OrderCount, H
    <3>2. CASE h # H
      BY <1>t, <1>m, <2>2, <3>2 DEF OrdersCounted, OrderCount, H
    <3> QED BY <3>1, <3>2
  <2> QED BY <1>m, <2>4 DEF OrdersCounted
<1>0. CASE UNCHANGED vars
  BY <1>0, <1>f DEF vars
<1>1. ASSUME NEW m \in Msgs, Publish(m) PROVE OrdersCounted'
  BY <1>1, <1>f DEF Publish
<1>2. ASSUME NEW h \in Hashes, Age(h) PROVE OrdersCounted'
  BY <1>2, <1>f DEF Age
<1>3. CASE Deliver
  BY <1>3, <1>f DEF Deliver
<1>4. CASE Ack
  BY <1>4, <1>f DEF Ack
<1>5. CASE Begin
  BY <1>5, <1>f DEF Begin
<1>6. CASE ParseFails
  BY <1>6, <1>f DEF ParseFails, Goto
<1>7. CASE GateBlocks
  BY <1>7, <1>f DEF GateBlocks, Finish, Goto
<1>8. CASE InsertWins
  BY <1>8, <1>f DEF InsertWins, Goto
<1>9. CASE InsertSkips
  BY <1>9, <1>f DEF InsertSkips, Goto
<1>10. CASE InsertBreaks
  BY <1>10, <1>f DEF InsertBreaks
<1>11. CASE ProcessRaises
  BY <1>11, <1>f DEF ProcessRaises, Escape
<1>12. CASE RateDenies
  BY <1>12, <1>f DEF RateDenies, Finish, Goto
<1>13. CASE PlaceDenied
  BY <1>13, <1>f DEF PlaceDenied, Escape, Placing
<1>14. CASE Record
  BY <1>14, <1>f DEF Record, Goto
<1>15. CASE Notify
  BY <1>15, <1>f DEF Notify, Goto
<1>16. CASE NotifyRaises
  BY <1>16, <1>f DEF NotifyRaises, Escape
<1>17. CASE WriterStep
  BY <1>17, <1>f DEF WriterStep
<1>18. CASE WriterFails
  BY <1>18, <1>f DEF WriterFails
<1>19. CASE ReconStart
  BY <1>19, <1>f DEF ReconStart
<1>20. CASE Restart
  BY <1>20, <1>f DEF Restart
<1>21. CASE RateAllows
  <2>1. H \in Hashes /\ calls[H] = 0
    BY <1>21, <1>t, <1>d DEF RateAllows, Owns, RowDiscipline
  <2>2. known[H] = "none" /\ orphans[H] = 0
    BY <2>1 DEF OrdersCounted
  <2> QED
    BY <1>21, <1>t, <2>1, <2>2 DEF RateAllows, Goto, OrdersCounted, OrderCount, H
<1>22. CASE PlaceSucceeds
  <2>1. /\ H \in Hashes /\ calls[H] = 1
        /\ known[H] = "none" /\ orphans[H] <= attempt /\ attempt <= MaxRetry - 1
    BY <1>22, <1>t, <1>d DEF PlaceSucceeds, Placing, OrdersCounted, RowDiscipline, Owns
  <2>2. /\ pc' = "record" /\ known' = [known EXCEPT ![H] = "live"]
        /\ UNCHANGED <<attempt, orphans, calls>>
    BY <1>22 DEF PlaceSucceeds, Goto
  <2>3. ASSUME NEW h \in Hashes
        PROVE  /\ calls'[h] = 0 => orphans'[h] = 0 /\ known'[h] = "none"
               /\ OrderCount(h)' <= MaxRetry
    <3>1. CASE h = H
      BY <1>t, <2>1, <2>2, <3>1 DEF OrderCount
    <3>2. CASE h # H
      BY <1>t, <2>2, <3>2 DEF OrdersCounted, OrderCount
    <3> QED BY <3>1, <3>2
  <2> QED BY <2>2, <2>3 DEF OrdersCounted
<1>23. CASE PlaceRetries
  BY <1>23, <1>t, <1>m DEF PlaceRetries, Placing, Goto
<1>24. CASE PlaceFails
  BY <1>24, <1>t, <1>m DEF PlaceFails, Placing, Finish, Goto, OrdersCounted
<1>25. CASE PlaceBreaks
  BY <1>25, <1>t, <1>m DEF PlaceBreaks, Placing, Escape, OrdersCounted
<1>26. CASE ReconOne
  <2>1. CASE UNCHANGED known
    BY <1>26, <1>f, <2>1 DEF ReconOne
  <2>2. ASSUME NEW k \in recon, hasIds[k], known[k] = "live",
               known' = [known EXCEPT ![k] = "cancelled"]
        PROVE  OrdersCounted'
    <3>1. k \in Hashes /\ calls[k] = 1 /\ ~(pc = "place" /\ H = k)
      BY <1>t, <1>d, <2>2 DEF OrdersCounted, RowDiscipline
    <3>2. UNCHANGED <<pc, cur, attempt, orphans, calls>>
      BY <1>26 DEF ReconOne
    <3>3. ASSUME NEW h \in Hashes
          PROVE  /\ calls'[h] = 0 => orphans'[h] = 0 /\ known'[h] = "none"
                 /\ pc' = "place" /\ H' = h => known'[h] = "none" /\ orphans'[h] <= attempt'
                 /\ OrderCount(h)' <= MaxRetry
      <4>1. CASE h = k
        BY <1>t, <2>2, <3>1, <3>2, <4>1 DEF OrdersCounted, OrderCount, H
      <4>2. CASE h # k
        BY <1>t, <2>2, <3>2, <4>2 DEF OrdersCounted, OrderCount, H
      <4> QED BY <4>1, <4>2
    <3> QED BY <3>2, <3>3 DEF OrdersCounted
  <2> QED BY <1>26, <2>1, <2>2 DEF ReconOne
<1>27. CASE Crash
  <2>1. CASE pc = "place"
    BY <1>27, <1>t, <1>m, <2>1 DEF Crash, OrdersCounted
  <2>2. CASE pc # "place"
    BY <1>27, <1>f, <2>2 DEF Crash
  <2> QED BY <2>1, <2>2
<1> QED
  BY <1>0, <1>1, <1>2, <1>3, <1>4, <1>5, <1>6, <1>7, <1>8, <1>9, <1>10, <1>11, <1>12, <1>13, <1>14, <1>15, <1>16, <1>17, <1>18, <1>19, <1>20, <1>21, <1>22, <1>23, <1>24, <1>25, <1>26, <1>27
     DEF Next, Process, Validate, Place, Disturb

\* Whatever is retried, crashed and re-sent, a trade idea never has more orders
\* at the broker than one call has attempts.
THEOREM OrdersAreBounded == Safety => []OrdersBounded
<1>1. Init => OrdersCounted
  BY BoundAssumption DEF Init, OrdersCounted, OrderCount
<1>2. TypeOK /\ DecidedOnce /\ OrdersCounted /\ [Next]_vars => OrdersCounted'
  BY OrdersStep
<1>3. OrdersCounted => OrdersBounded
  BY DEF OrdersCounted, OrderCount, OrdersBounded
<1> QED BY <1>1, <1>2, <1>3, TypeCorrect, RowsDecidedOnce, PTL DEF Safety

-----------------------------------------------------------------------------
(* Nothing is lost silently *)

\* The signal of h left a row, will leave one, or fell to a fault.
Settled(h) == status[h] # "none" \/ Has(queue, "block", h) \/ h \in excused

\* Once settled, always settled.
LEMMA SettledStep ==
    TypeOK /\ [Next]_vars => \A h \in Hashes : Settled(h) => Settled(h)'
<1> SUFFICES ASSUME TypeOK, [Next]_vars, NEW h \in Hashes, Settled(h) PROVE Settled(h)'
  OBVIOUS
<1> USE DEF stream, engine, db, sweep, broker, history
<1>t. /\ queue \in Seq(Job)
      /\ pc # "idle" => cur \in Msgs /\ H \in Hashes
      /\ status \in [Hashes -> Statuses] /\ hasIds \in [Hashes -> BOOLEAN]
      /\ recon \subseteq Hashes /\ excused \subseteq Hashes
  BY MsgAssumption DEF TypeOK, EngineTypeOK, DbTypeOK, SweepTypeOK, HistoryTypeOK, H
<1>h. \A o, g : \A op \in Ops, k \in Hashes : Has(queue, o, g) => Has(Put(queue, op, k), o, g)
  BY <1>t, PutHas
<1>x. \A op \in Ops, k \in Hashes :
         ExcuseOverflow(1, k) => k \in excused' \/ Has(Put(queue, op, k), op, k)
  BY <1>t, PutHas, BoundAssumption DEF ExcuseOverflow
<1>e. \A n \in Nat, k \in Hashes : ExcuseOverflow(n, k) => excused \subseteq excused'
  BY DEF ExcuseOverflow
\* Steps that only add to the queue, the rows and the excuses.
<1>f. ASSUME status'[h] = "none" => status[h] = "none",
             \A o : Has(queue, o, h) => Has(queue', o, h),
             excused \subseteq excused'
      PROVE  Settled(h)'
  BY <1>f DEF Settled
<1>0. CASE UNCHANGED vars
  BY <1>0, <1>f DEF vars
<1>1. ASSUME NEW m \in Msgs, Publish(m) PROVE Settled(h)'
  BY <1>1, <1>f DEF Publish
<1>2. ASSUME NEW k \in Hashes, Age(k) PROVE Settled(h)'
  BY <1>2, <1>f DEF Age
<1>3. CASE Deliver
  BY <1>3, <1>f DEF Deliver
<1>4. CASE Ack
  BY <1>4, <1>f DEF Ack
<1>5. CASE Begin
  BY <1>5, <1>f DEF Begin
<1>6. CASE ParseFails
  BY <1>6, <1>f DEF ParseFails
<1>7. CASE GateBlocks
  BY <1>7, <1>f, <1>t, <1>h, <1>e DEF GateBlocks, Finish, Ops
<1>8. CASE InsertWins
  BY <1>8, <1>f, <1>t DEF InsertWins
<1>9. CASE InsertSkips
  BY <1>9, <1>f DEF InsertSkips
<1>10. CASE InsertBreaks
  BY <1>10, <1>f, <1>t DEF InsertBreaks
<1>11. CASE ProcessRaises
  BY <1>11, <1>f DEF ProcessRaises
<1>12. CASE RateDenies
  BY <1>12, <1>f, <1>t, <1>h, <1>e DEF RateDenies, Finish, Ops
<1>13. CASE RateAllows
  BY <1>13, <1>f DEF RateAllows
<1>14. CASE PlaceSucceeds
  BY <1>14, <1>f DEF PlaceSucceeds
<1>15. CASE PlaceRetries
  BY <1>15, <1>f DEF PlaceRetries
<1>16. CASE PlaceFails
  BY <1>16, <1>f, <1>t, <1>h, <1>e DEF PlaceFails, Finish, Ops, Placing
<1>17. CASE PlaceDenied
  BY <1>17, <1>f DEF PlaceDenied
<1>18. CASE PlaceBreaks
  BY <1>18, <1>f DEF PlaceBreaks
<1>19. CASE Record
  BY <1>19, <1>f, <1>t, <1>e, PutPlacedFacts DEF Record
<1>20. CASE Notify
  BY <1>20, <1>f DEF Notify
<1>21. CASE NotifyRaises
  BY <1>21, <1>f DEF NotifyRaises
<1>22. CASE WriterStep
  <2>0. PICK job \in Job : job = Head(queue)
    BY <1>22, <1>t, TailHas DEF WriterStep
  <2>1. Apply(job) /\ excused' = excused /\ job.hash \in Hashes
    BY <1>22, <2>0 DEF WriterStep, Job
  <2>2. status'[h] = "none" => status[h] = "none"
    BY <1>t, <2>1 DEF Apply
  <2>3. Has(queue, "block", h) => Has(queue', "block", h) \/ job = [op |-> "block", hash |-> h]
    BY <1>22, <1>t, <2>0, TailHas DEF WriterStep
  <2>4. job = [op |-> "block", hash |-> h] => status'[h] # "none"
    BY <1>t, <2>1 DEF Apply, Legs
  <2> QED BY <2>1, <2>2, <2>3, <2>4 DEF Settled
<1>23. CASE WriterFails
  <2>1. Has(queue, "block", h) =>
          Has(queue', "block", h) \/ Head(queue) = [op |-> "block", hash |-> h]
    BY <1>23, <1>t, TailHas DEF WriterFails
  <2>2. Head(queue) = [op |-> "block", hash |-> h] => h \in excused'
    BY <1>23 DEF WriterFails
  <2>3. status' = status /\ excused \subseteq excused'
    BY <1>23 DEF WriterFails
  <2> QED BY <2>1, <2>2, <2>3 DEF Settled
<1>24. CASE ReconStart
  BY <1>24, <1>f DEF ReconStart
<1>25. CASE ReconOne
  BY <1>25, <1>f, <1>t, <1>h DEF ReconOne, Ops
<1>26. CASE Crash
  <2>1. Has(queue, "block", h) => h \in excused'
    BY <1>26 DEF Crash, Queued
  <2>2. status' = status /\ excused \subseteq excused'
    BY <1>26 DEF Crash
  <2> QED BY <2>1, <2>2 DEF Settled
<1>27. CASE Restart
  BY <1>27, <1>f DEF Restart
<1> QED
  BY <1>0, <1>1, <1>2, <1>3, <1>4, <1>5, <1>6, <1>7, <1>8, <1>9, <1>10, <1>11, <1>12, <1>13, <1>14, <1>15, <1>16, <1>17, <1>18, <1>19, <1>20, <1>21, <1>22, <1>23, <1>24, <1>25, <1>26, <1>27
     DEF Next, Process, Validate, Place, Disturb

\* Which entries must be settled: those acknowledged, and the one whose
\* processing is over.
AcksSettled ==
    /\ \A m \in acked \ Malformed : Settled(HashOf[m])
    /\ pc \in {"notify", "ack"} /\ cur \notin Malformed => Settled(H)

LEMMA AcksStep == TypeOK /\ DecidedOnce /\ AcksSettled /\ [Next]_vars => AcksSettled'
<1> SUFFICES ASSUME TypeOK, DecidedOnce, AcksSettled, [Next]_vars PROVE AcksSettled'
  OBVIOUS
<1> USE DEF stream, engine, db, sweep, broker, history
<1>t. /\ queue \in Seq(Job)
      /\ pc # "idle" => cur \in Msgs /\ H \in Hashes
      /\ status \in [Hashes -> Statuses] /\ hasIds \in [Hashes -> BOOLEAN]
      /\ recon \subseteq Hashes /\ excused \subseteq Hashes
  BY MsgAssumption DEF TypeOK, EngineTypeOK, DbTypeOK, SweepTypeOK, HistoryTypeOK, H
<1>h. \A o, g : \A op \in Ops, k \in Hashes : Has(queue, o, g) => Has(Put(queue, op, k), o, g)
  BY <1>t, PutHas
<1>x. \A op \in Ops, k \in Hashes :
         ExcuseOverflow(1, k) => k \in excused' \/ Has(Put(queue, op, k), op, k)
  BY <1>t, PutHas, BoundAssumption DEF ExcuseOverflow
<1>e. \A n \in Nat, k \in Hashes : ExcuseOverflow(n, k) => excused \subseteq excused'
  BY DEF ExcuseOverflow
<1>s. \A h \in Hashes : Settled(h) => Settled(h)'
  BY SettledStep
<1>d. \A h \in Hashes : RowDiscipline(h)
  BY DEF DecidedOnce
<1>a. \A m \in acked : m \in Msgs /\ HashOf[m] \in Hashes
  BY MsgAssumption DEF TypeOK, StreamTypeOK
\* Steps that acknowledge nothing and finish, if at all, a settled signal.
<1>f. ASSUME acked' = acked,
             pc' \in {"notify", "ack"} =>
               \/ cur' = cur /\ pc \in {"notify", "ack"}
               \/ cur' = cur /\ H \in Hashes /\ (cur \in Malformed \/ Settled(H) \/ Settled(H)')
      PROVE  AcksSettled'
  <2>1. \A m \in acked' \ Malformed : Settled(HashOf[m])'
    BY <1>a, <1>f, <1>s DEF AcksSettled
  <2>2. pc' \in {"notify", "ack"} /\ cur' \notin Malformed => Settled(H)'
    <3>1. SUFFICES ASSUME pc' \in {"notify", "ack"}, cur' \notin Malformed PROVE Settled(H)'
      OBVIOUS
    <3>2. cur' = cur
      BY <1>f, <3>1
    <3>3. H \in Hashes /\ H' = H
      BY <1>f, <1>t, <3>1, <3>2 DEF H
    <3>4. PICK h \in Hashes : h = H
      BY <3>3
    <3>5. Settled(h) \/ Settled(H)'
      BY <1>f, <3>1, <3>2, <3>4 DEF AcksSettled
    <3> QED BY <1>s, <3>3, <3>4, <3>5 DEF Settled
  <2> QED BY <2>1, <2>2 DEF AcksSettled
<1>0. CASE UNCHANGED vars
  BY <1>0, <1>f DEF vars
<1>1. ASSUME NEW m \in Msgs, Publish(m) PROVE AcksSettled'
  BY <1>1, <1>f DEF Publish
<1>2. ASSUME NEW k \in Hashes, Age(k) PROVE AcksSettled'
  BY <1>2, <1>f DEF Age
<1>3. CASE Deliver
  BY <1>3, <1>f, <1>t DEF Deliver
<1>4. CASE Ack
  <2>1. cur \in Msgs /\ acked' = acked \cup {cur} /\ pc' = "idle"
    BY <1>4, <1>t DEF Ack
  <2>2. \A m \in acked' \ Malformed : HashOf[m] \in Hashes /\ Settled(HashOf[m])
    BY <1>4, <1>a, <1>t, <2>1 DEF Ack, AcksSettled, H
  <2> QED BY <1>s, <2>1, <2>2 DEF AcksSettled
<1>5. CASE Begin
  BY <1>5, <1>f, <1>t DEF Begin
<1>6. CASE ParseFails
  BY <1>6, <1>f, <1>t DEF ParseFails, Goto
<1>7. CASE GateBlocks
  <2>1. H' = H /\ H \in Hashes /\ (H \in excused' \/ Has(queue', "block", H))
    BY <1>7, <1>t, <1>x DEF GateBlocks, Finish, Goto, Ops, H
  <2> QED BY <1>7, <1>f, <2>1 DEF GateBlocks, Finish, Goto, Settled
<1>8. CASE InsertWins
  BY <1>8, <1>f, <1>t DEF InsertWins, Goto
<1>9. CASE InsertSkips
  BY <1>9, <1>t, <1>f DEF InsertSkips, Goto, Settled
<1>10. CASE InsertBreaks
  BY <1>10, <1>f, <1>t DEF InsertBreaks
<1>11. CASE ProcessRaises
  <2>1. H \in Hashes /\ H \in excused' /\ acked' = acked
    BY <1>11, <1>t DEF ProcessRaises
  <2>2. pc' \in {"notify", "ack"} => cur' = cur
    BY <1>11 DEF ProcessRaises, Escape
  <2>3. pc' \in {"notify", "ack"} => Settled(H)'
    BY <2>1, <2>2 DEF Settled, H
  <2> QED BY <1>f, <2>1, <2>2, <2>3
<1>12. CASE RateDenies
  <2>1. H \in Hashes /\ Settled(H)
    BY <1>12, <1>t, <1>d DEF RateDenies, Owns, RowDiscipline, Settled
  <2> QED BY <1>12, <1>f, <2>1 DEF RateDenies, Finish, Goto
<1>13. CASE RateAllows
  BY <1>13, <1>f, <1>t DEF RateAllows, Goto
<1>14. CASE PlaceSucceeds
  BY <1>14, <1>f, <1>t DEF PlaceSucceeds, Goto, Placing
<1>15. CASE PlaceRetries
  BY <1>15, <1>f, <1>t DEF PlaceRetries, Goto, Placing
<1>16. CASE PlaceFails
  <2>1. H \in Hashes /\ Settled(H)
    BY <1>16, <1>t, <1>d DEF PlaceFails, Placing, Owns, RowDiscipline, Settled
  <2> QED BY <1>16, <1>f, <2>1 DEF PlaceFails, Finish, Goto, Placing
<1>17. CASE PlaceDenied
  <2>1. H \in Hashes /\ H \in excused' /\ acked' = acked
    BY <1>17, <1>t DEF PlaceDenied, Placing
  <2>2. pc' \in {"notify", "ack"} => cur' = cur
    BY <1>17 DEF PlaceDenied, Escape
  <2>3. pc' \in {"notify", "ack"} => Settled(H)'
    BY <2>1, <2>2 DEF Settled, H
  <2> QED BY <1>f, <2>1, <2>2, <2>3
<1>18. CASE PlaceBreaks
  <2>1. H \in Hashes /\ H \in excused' /\ acked' = acked
    BY <1>18, <1>t DEF PlaceBreaks, Placing
  <2>2. pc' \in {"notify", "ack"} => cur' = cur
    BY <1>18 DEF PlaceBreaks, Escape
  <2>3. pc' \in {"notify", "ack"} => Settled(H)'
    BY <2>1, <2>2 DEF Settled, H
  <2> QED BY <1>f, <2>1, <2>2, <2>3
<1>19. CASE Record
  <2>1. H \in Hashes /\ Settled(H)
    BY <1>19, <1>t, <1>d DEF Record, Owns, RowDiscipline, Settled
  <2> QED BY <1>19, <1>f, <2>1 DEF Record, Goto
<1>20. CASE Notify
  BY <1>20, <1>f, <1>t DEF Notify, Goto
<1>21. CASE NotifyRaises
  BY <1>21, <1>f, <1>t DEF NotifyRaises, Escape
<1>22. CASE WriterStep
  BY <1>22, <1>f, <1>t DEF WriterStep
<1>23. CASE WriterFails
  BY <1>23, <1>f, <1>t DEF WriterFails
<1>24. CASE ReconStart
  BY <1>24, <1>f, <1>t DEF ReconStart
<1>25. CASE ReconOne
  BY <1>25, <1>f, <1>t DEF ReconOne
<1>26. CASE Crash
  BY <1>26, <1>f, <1>t DEF Crash
<1>27. CASE Restart
  BY <1>27, <1>f, <1>t DEF Restart
<1> QED
  BY <1>0, <1>1, <1>2, <1>3, <1>4, <1>5, <1>6, <1>7, <1>8, <1>9, <1>10, <1>11, <1>12, <1>13, <1>14, <1>15, <1>16, <1>17, <1>18, <1>19, <1>20, <1>21, <1>22, <1>23, <1>24, <1>25, <1>26, <1>27
     DEF Next, Process, Validate, Place, Disturb

\* A claimed row that no fault hit is tended: its message works on it or its
\* outcome is queued.
Tended(h) == Owns(h) \/ Has(queue, "fail", h) \/ Has(queue, "placed", h)

ClaimsTended ==
    \A h \in Hashes \ excused : status[h] = "PENDING" /\ ~hasIds[h] => Tended(h)

LEMMA ClaimsStep == TypeOK /\ ClaimsTended /\ [Next]_vars => ClaimsTended'
<1> SUFFICES ASSUME TypeOK, ClaimsTended, [Next]_vars, NEW h \in Hashes, h \notin excused',
                    status'[h] = "PENDING", ~hasIds'[h]
             PROVE  Tended(h)'
  BY DEF ClaimsTended
<1> USE DEF stream, engine, db, sweep, broker, history
<1>t. /\ queue \in Seq(Job)
      /\ pc # "idle" => cur \in Msgs /\ H \in Hashes
      /\ status \in [Hashes -> Statuses] /\ hasIds \in [Hashes -> BOOLEAN]
      /\ recon \subseteq Hashes /\ excused \subseteq Hashes
  BY MsgAssumption DEF TypeOK, EngineTypeOK, DbTypeOK, SweepTypeOK, HistoryTypeOK, H
<1>h. \A o, g : \A op \in Ops, k \in Hashes : Has(queue, o, g) => Has(Put(queue, op, k), o, g)
  BY <1>t, PutHas
<1>x. \A op \in Ops, k \in Hashes :
         ExcuseOverflow(1, k) => k \in excused' \/ Has(Put(queue, op, k), op, k)
  BY <1>t, PutHas, BoundAssumption DEF ExcuseOverflow
<1>e. \A n \in Nat, k \in Hashes : ExcuseOverflow(n, k) => excused \subseteq excused'
  BY DEF ExcuseOverflow
\* Steps that keep the row and do not let go of it.
<1>f. ASSUME excused \subseteq excused', status'[h] = status[h], hasIds'[h] = hasIds[h],
             \A o : Has(queue, o, h) => Has(queue', o, h),
             Owns(h) => Tended(h)'
      PROVE  Tended(h)'
  BY <1>f DEF ClaimsTended, Tended
<1>0. CASE UNCHANGED vars
  BY <1>0, <1>f DEF vars, Tended, Owns, H
<1>1. ASSUME NEW m \in Msgs, Publish(m) PROVE Tended(h)'
  BY <1>1, <1>f DEF Publish, Tended, Owns, H
<1>2. ASSUME NEW k \in Hashes, Age(k) PROVE Tended(h)'
  BY <1>2, <1>f DEF Age, Tended, Owns, H
<1>3. CASE Deliver
  BY <1>3, <1>f DEF Deliver, Tended, Owns, H
<1>4. CASE Ack
  BY <1>4, <1>f DEF Ack, Tended, Owns, H
<1>5. CASE Begin
  BY <1>5, <1>f DEF Begin, Tended, Owns, H
<1>6. CASE ParseFails
  BY <1>6, <1>f DEF ParseFails, Goto, Tended, Owns, H
<1>7. CASE GateBlocks
  <2>1. H \in Hashes /\ queue' = Put(queue, "block", H) /\ ExcuseOverflow(1, H)
    BY <1>7, <1>t DEF GateBlocks, Finish
  <2>2. excused \subseteq excused' /\ \A o : Has(queue, o, h) => Has(queue', o, h)
    BY <1>h, <1>e, <2>1 DEF Ops
  <2>3. Owns(h) => Tended(h)'
    BY <1>7, <1>x, <2>1 DEF GateBlocks, Ops, Owns, Tended
  <2> QED BY <1>7, <1>f, <2>2, <2>3 DEF GateBlocks
<1>8. CASE InsertWins
  <2>1. CASE h = H
    BY <1>8, <2>1 DEF InsertWins, Goto, Tended, Owns, H
  <2>2. CASE h # H
    BY <1>8, <1>t, <1>f, <2>2 DEF InsertWins, Goto, Tended, Owns
  <2> QED BY <2>1, <2>2
<1>9. CASE InsertSkips
  BY <1>9, <1>f DEF InsertSkips, Goto, Tended, Owns, H
<1>10. CASE InsertBreaks
  <2>1. h # H /\ excused \subseteq excused'
    BY <1>10 DEF InsertBreaks
  <2>2. status'[h] = status[h] /\ hasIds' = hasIds /\ queue' = queue /\ ~Owns(h)
    BY <1>10, <1>t, <2>1 DEF InsertBreaks, Owns
  <2> QED BY <1>f, <2>1, <2>2
<1>11. CASE ProcessRaises
  <2>1. h # H /\ excused \subseteq excused'
    BY <1>11 DEF ProcessRaises
  <2> QED BY <1>11, <1>f, <2>1 DEF ProcessRaises, Owns
<1>12. CASE RateDenies
  <2>1. H \in Hashes /\ queue' = Put(queue, "fail", H) /\ ExcuseOverflow(1, H)
    BY <1>12, <1>t DEF RateDenies, Finish
  <2>2. excused \subseteq excused' /\ \A o : Has(queue, o, h) => Has(queue', o, h)
    BY <1>h, <1>e, <2>1 DEF Ops
  <2>3. Owns(h) => Tended(h)'
    BY <1>12, <1>x, <2>1 DEF RateDenies, Ops, Owns, Tended
  <2> QED BY <1>12, <1>f, <2>2, <2>3 DEF RateDenies
<1>13. CASE RateAllows
  BY <1>13, <1>f DEF RateAllows, Goto, Tended, Owns, H
<1>14. CASE PlaceSucceeds
  BY <1>14, <1>f DEF PlaceSucceeds, Goto, Placing, Tended, Owns, H
<1>15. CASE PlaceRetries
  BY <1>15, <1>f DEF PlaceRetries, Goto, Placing, Tended, Owns, H
<1>16. CASE PlaceFails
  <2>1. H \in Hashes /\ queue' = Put(queue, "fail", H) /\ ExcuseOverflow(1, H)
    BY <1>16, <1>t DEF PlaceFails, Finish, Placing
  <2>2. excused \subseteq excused' /\ \A o : Has(queue, o, h) => Has(queue', o, h)
    BY <1>h, <1>e, <2>1 DEF Ops
  <2>3. Owns(h) => Tended(h)'
    BY <1>16, <1>x, <2>1 DEF PlaceFails, Ops, Owns, Tended
  <2> QED BY <1>16, <1>f, <2>2, <2>3 DEF PlaceFails
<1>17. CASE PlaceDenied
  <2>1. h # H /\ excused \subseteq excused'
    BY <1>17 DEF PlaceDenied
  <2> QED BY <1>17, <1>f, <2>1 DEF PlaceDenied, Owns
<1>18. CASE PlaceBreaks
  <2>1. h # H /\ excused \subseteq excused'
    BY <1>18 DEF PlaceBreaks
  <2> QED BY <1>18, <1>f, <2>1 DEF PlaceBreaks, Owns
<1>19. CASE Record
  <2>1. H \in Hashes /\ queue' = PutPlaced(queue, H) /\ ExcuseOverflow(4, H)
    BY <1>19, <1>t DEF Record
  <2>2. \A o : Has(queue, o, h) => Has(queue', o, h)
    BY <1>t, <2>1, PutPlacedFacts
  <2>3. Len(queue) + 4 <= QueueCap => Has(queue', "placed", H)
    BY <1>t, <2>1, PutPlacedFacts
  <2>4. Owns(h) => Tended(h)'
    BY <2>1, <2>3 DEF ExcuseOverflow, Owns, Tended
  <2>5. excused \subseteq excused'
    BY <1>e, <2>1
  <2> QED BY <1>19, <1>f, <2>2, <2>4, <2>5 DEF Record
<1>20. CASE Notify
  BY <1>20, <1>f DEF Notify, Goto, Tended, Owns, H
<1>21. CASE NotifyRaises
  BY <1>21, <1>f DEF NotifyRaises, Escape, Tended, Owns, H
<1>22. CASE WriterStep
  <2>0. PICK job \in Job : job = Head(queue)
    BY <1>22, <1>t, TailHas DEF WriterStep
  <2>1. /\ Apply(job) /\ job.hash \in Hashes
        /\ UNCHANGED <<excused, pc, cur>> /\ (Owns(h) => Owns(h)')
    BY <1>22, <2>0 DEF WriterStep, Job, Owns, H
  <2>2. \A o : Has(queue, o, h) => Has(queue', o, h) \/ job = [op |-> o, hash |-> h]
    BY <1>22, <1>t, <2>0, TailHas DEF WriterStep
  <2>3. ~(job.hash = h /\ job.op \in {"fail", "placed", "expire"})
    BY <1>t, <2>1 DEF Apply, Legs
  <2>4. status[h] = "PENDING" /\ ~hasIds[h]
    BY <1>t, <2>1, <2>3 DEF Apply, Legs
  <2>5. Tended(h)
    BY <2>1, <2>4 DEF ClaimsTended
  <2> QED BY <2>1, <2>2, <2>3, <2>5 DEF Tended
<1>23. CASE WriterFails
  <2>1. \A o : Has(queue, o, h) => Has(queue', o, h) \/ Head(queue) = [op |-> o, hash |-> h]
    BY <1>23, <1>t, TailHas DEF WriterFails
  <2>2. Head(queue).hash = h => Head(queue).op = "expire"
    BY <1>23 DEF WriterFails
  <2>3. /\ excused \subseteq excused' /\ UNCHANGED <<status, hasIds>>
        /\ (Owns(h) => Owns(h)')
    BY <1>23 DEF WriterFails, Owns, H
  <2>4. Tended(h)
    BY <2>3 DEF ClaimsTended
  <2> QED BY <2>1, <2>2, <2>3, <2>4 DEF Tended
<1>24. CASE ReconStart
  BY <1>24, <1>f DEF ReconStart, Tended, Owns, H
<1>25. CASE ReconOne
  <2>1. \A o : Has(queue, o, h) => Has(queue', o, h)
    BY <1>25, <1>t, <1>h DEF ReconOne, Ops
  <2> QED BY <1>25, <1>f, <2>1 DEF ReconOne, Tended, Owns, H
<1>26. CASE Crash
  <2>1. ~Tended(h)
    BY <1>26 DEF Crash, Tended, Queued, Legs
  <2>2. h \notin excused /\ UNCHANGED <<status, hasIds>>
    BY <1>26 DEF Crash
  <2> QED BY <2>1, <2>2 DEF ClaimsTended
<1>27. CASE Restart
  BY <1>27, <1>f DEF Restart, Tended, Owns, H
<1> QED
  BY <1>0, <1>1, <1>2, <1>3, <1>4, <1>5, <1>6, <1>7, <1>8, <1>9, <1>10, <1>11, <1>12, <1>13, <1>14, <1>15, <1>16, <1>17, <1>18, <1>19, <1>20, <1>21, <1>22, <1>23, <1>24, <1>25, <1>26, <1>27
     DEF Next, Process, Validate, Place, Disturb

\* Whatever the engine loses it loses to a fault: no claimed row is left without
\* its message or its outcome, and no acknowledged signal without a row.
THEOREM LossIsExcused == Safety => []NoSilentLoss
<1>1. Init => ClaimsTended /\ AcksSettled
  BY DEF Init, ClaimsTended, AcksSettled
<1>2. TypeOK /\ DecidedOnce /\ ClaimsTended /\ AcksSettled /\ [Next]_vars
        => ClaimsTended' /\ AcksSettled'
  BY ClaimsStep, AcksStep
<1>3. ClaimsTended /\ AcksSettled => NoSilentLoss
  BY DEF ClaimsTended, AcksSettled, Tended, Settled, NoSilentLoss, Quiet, Queued
<1> QED BY <1>1, <1>2, <1>3, TypeCorrect, RowsDecidedOnce, PTL DEF Safety

-----------------------------------------------------------------------------
(* An order whose ids came back is recorded, legs first *)

\* The legs of h are in lg or queued before the job that stores its ids.
LegsAhead(q, lg, h) ==
    \A i \in 1..Len(q) :
        q[i] = [op |-> "placed", hash |-> h] =>
            \A o \in Legs : o \in lg \/ \E j \in 1..Len(q) : j < i /\ q[j] = [op |-> o, hash |-> h]

LEMMA PutAhead ==
    ASSUME NEW q \in Seq(Job), NEW op \in Ops, NEW k \in Hashes, NEW h \in Hashes, NEW lg,
           LegsAhead(q, lg, h),
           op = "placed" /\ k = h => \A o \in Legs : o \in lg \/ Has(q, o, h)
    PROVE  LegsAhead(Put(q, op, k), lg, h)
<1> DEFINE p == Put(q, op, k)
<1>1. /\ p \in Seq(Job) /\ Len(q) \in Nat /\ Len(p) \in Nat
      /\ \A i \in 1..Len(q) : i \in 1..Len(p) /\ p[i] = q[i]
      /\ Len(q) < QueueCap =>
           Len(p) = Len(q) + 1 /\ p[Len(q) + 1] = [op |-> op, hash |-> k]
      /\ ~ Len(q) < QueueCap => p = q
  BY PutFacts
<1> HIDE DEF p
<1> SUFFICES ASSUME NEW i \in 1..Len(p), p[i] = [op |-> "placed", hash |-> h], NEW o \in Legs,
                    o \notin lg
             PROVE  \E j \in 1..Len(p) : j < i /\ p[j] = [op |-> o, hash |-> h]
  BY DEF LegsAhead, p
<1>2. CASE i \in 1..Len(q)
  <2>1. PICK j \in 1..Len(q) : j < i /\ q[j] = [op |-> o, hash |-> h]
    BY <1>1, <1>2 DEF LegsAhead
  <2> QED BY <1>1, <2>1
<1>3. CASE i \notin 1..Len(q)
  <2>1. Len(q) < QueueCap /\ i = Len(q) + 1
    BY <1>1, <1>3, BoundAssumption
  <2>2. op = "placed" /\ k = h
    BY <1>1, <2>1
  <2>3. PICK j \in 1..Len(q) : q[j] = [op |-> o, hash |-> h]
    BY <2>2 DEF Has
  <2> QED BY <1>1, <2>1, <2>3
<1> QED BY <1>2, <1>3

LEMMA TailAhead ==
    ASSUME NEW q \in Seq(Job), q # <<>>, NEW h \in Hashes, NEW lg, NEW lgn, lg \subseteq lgn,
           LegsAhead(q, lg, h),
           Head(q).hash = h /\ Head(q).op \in Legs => Head(q).op \in lgn
    PROVE  /\ LegsAhead(Tail(q), lgn, h)
           /\ Head(q) = [op |-> "placed", hash |-> h] => Legs \subseteq lg
<1>1. /\ Len(q) \in Nat \ {0} /\ Head(q) = q[1] /\ Len(Tail(q)) = Len(q) - 1
      /\ \A i \in 1..Len(Tail(q)) : Tail(q)[i] = q[i + 1]
  OBVIOUS
<1>2. ASSUME NEW i \in 1..Len(Tail(q)), Tail(q)[i] = [op |-> "placed", hash |-> h],
             NEW o \in Legs, o \notin lgn
      PROVE  \E j \in 1..Len(Tail(q)) : j < i /\ Tail(q)[j] = [op |-> o, hash |-> h]
  <2>1. i + 1 \in 1..Len(q) /\ q[i + 1] = [op |-> "placed", hash |-> h] /\ o \notin lg
    BY <1>1, <1>2
  <2>2. PICK j \in 1..Len(q) : j < i + 1 /\ q[j] = [op |-> o, hash |-> h]
    BY <2>1 DEF LegsAhead
  <2>3. j # 1
    BY <1>1, <1>2, <2>2
  <2>4. j - 1 \in 1..Len(Tail(q)) /\ j - 1 < i /\ (j - 1) + 1 = j
    BY <1>1, <2>2, <2>3
  <2>5. Tail(q)[j - 1] = q[j]
    BY <1>1, <2>4
  <2> QED BY <2>2, <2>4, <2>5
<1>3. ASSUME Head(q) = [op |-> "placed", hash |-> h], NEW o \in Legs, o \notin lg
      PROVE  FALSE
  <2>1. 1 \in 1..Len(q) /\ q[1] = [op |-> "placed", hash |-> h]
    BY <1>1, <1>3
  <2>2. \E j \in 1..Len(q) : j < 1
    BY <1>3, <2>1 DEF LegsAhead
  <2> QED BY <1>1, <2>2
<1> QED BY <1>2, <1>3 DEF LegsAhead

\* The four puts after a placement keep every order's legs ahead of its ids;
\* those of k itself need the room the four take.
LEMMA PlacedAhead ==
    ASSUME NEW q \in Seq(Job), NEW k \in Hashes, NEW h \in Hashes, NEW lg,
           LegsAhead(q, lg, h), h # k \/ Len(q) + 4 <= QueueCap
    PROVE  LegsAhead(PutPlaced(q, k), lg, h)
<1> DEFINE q1 == Put(q, "ENTRY", k)
           q2 == Put(q1, "TARGET", k)
           q3 == Put(q2, "STOPLOSS", k)
<1>0. {"ENTRY", "TARGET", "STOPLOSS", "placed"} \subseteq Ops /\ Len(q) \in Nat /\ QueueCap \in Nat
  BY BoundAssumption DEF Ops, Legs
<1>1. /\ q1 \in Seq(Job) /\ LegsAhead(q1, lg, h)
      /\ Len(q) < QueueCap => Len(q1) = Len(q) + 1 /\ Has(q1, "ENTRY", k)
  BY <1>0, PutFacts, PutHas, PutAhead
<1> HIDE DEF q1
<1>2. /\ q2 \in Seq(Job) /\ LegsAhead(q2, lg, h)
      /\ Len(q1) < QueueCap => Len(q2) = Len(q1) + 1 /\ Has(q2, "TARGET", k)
      /\ Has(q1, "ENTRY", k) => Has(q2, "ENTRY", k)
  BY <1>0, <1>1, PutFacts, PutHas, PutAhead
<1> HIDE DEF q2
<1>3. /\ q3 \in Seq(Job) /\ LegsAhead(q3, lg, h)
      /\ Len(q2) < QueueCap => Has(q3, "STOPLOSS", k)
      /\ \A o \in {"ENTRY", "TARGET"} : Has(q2, o, k) => Has(q3, o, k)
  BY <1>0, <1>2, PutFacts, PutHas, PutAhead
<1> HIDE DEF q3
<1>4. h = k => \A o \in Legs : Has(q3, o, h)
  BY <1>0, <1>1, <1>2, <1>3 DEF Legs
<1>5. LegsAhead(Put(q3, "placed", k), lg, h)
  BY <1>0, <1>3, <1>4, PutAhead
<1> QED BY <1>5 DEF PutPlaced, q1, q2, q3

Recorded(h) ==
    /\ hasIds[h] => legs[h] = Legs
    /\ LegsAhead(queue, legs[h], h)
    /\ known[h] # "none" => hasIds[h] \/ (pc = "record" /\ H = h) \/ Has(queue, "placed", h)

OrdersRecorded == \A h \in Hashes \ excused : Recorded(h)

LEMMA RecordedStep == TypeOK /\ OrdersRecorded /\ [Next]_vars => OrdersRecorded'
<1> SUFFICES ASSUME TypeOK, OrdersRecorded, [Next]_vars, NEW h \in Hashes, h \notin excused'
             PROVE  Recorded(h)'
  BY DEF OrdersRecorded
<1> USE DEF stream, engine, db, sweep, broker, history
<1>t. /\ queue \in Seq(Job)
      /\ pc # "idle" => cur \in Msgs /\ H \in Hashes
      /\ hasIds \in [Hashes -> BOOLEAN] /\ legs \in [Hashes -> SUBSET Legs]
      /\ known \in [Hashes -> {"none", "live", "cancelled"}]
      /\ recon \subseteq Hashes /\ excused \subseteq Hashes
  BY MsgAssumption DEF TypeOK, EngineTypeOK, DbTypeOK, BrokerTypeOK, SweepTypeOK, HistoryTypeOK, H
<1>r. excused \subseteq excused' => Recorded(h)
  BY DEF OrdersRecorded
<1>e. \A n \in Nat, k \in Hashes : ExcuseOverflow(n, k) => excused \subseteq excused'
  BY DEF ExcuseOverflow
\* Steps that touch neither the queue nor the row nor the order.
<1>f. ASSUME excused \subseteq excused', UNCHANGED <<queue, hasIds, legs, known>>,
             pc = "record" /\ H = h => pc' = "record" /\ H' = h
      PROVE  Recorded(h)'
  BY <1>f, <1>r DEF Recorded
\* Steps that queue one job other than the ids.
<1>p. ASSUME excused \subseteq excused', UNCHANGED <<hasIds, legs, known>>,
             pc = "record" /\ H = h => pc' = "record" /\ H' = h,
             NEW op \in Ops \ {"placed"}, NEW k \in Hashes, queue' = Put(queue, op, k)
      PROVE  Recorded(h)'
  <2>1. LegsAhead(queue', legs[h], h)
    BY <1>p, <1>r, <1>t, PutAhead DEF Recorded
  <2>2. Has(queue, "placed", h) => Has(queue', "placed", h)
    BY <1>p, <1>t, PutHas
  <2> QED BY <1>p, <1>r, <2>1, <2>2 DEF Recorded
<1>o. {"block", "fail", "expire"} \subseteq Ops \ {"placed"}
  BY DEF Ops
<1>0. CASE UNCHANGED vars
  BY <1>0, <1>f DEF vars, H
<1>1. ASSUME NEW m \in Msgs, Publish(m) PROVE Recorded(h)'
  BY <1>1, <1>f DEF Publish, H
<1>2. ASSUME NEW k \in Hashes, Age(k) PROVE Recorded(h)'
  BY <1>2, <1>f DEF Age, H
<1>3. CASE Deliver \/ Begin \/ Ack \/ ReconStart \/ Restart
  BY <1>3, <1>f DEF Deliver, Begin, Ack, ReconStart, Restart, H
<1>4. CASE ParseFails \/ InsertWins \/ InsertSkips \/ RateAllows \/ PlaceRetries \/ Notify
  BY <1>4, <1>f DEF ParseFails, InsertWins, InsertSkips, RateAllows, PlaceRetries, Placing,
                    Notify, Goto, H
<1>5. CASE InsertBreaks \/ ProcessRaises \/ PlaceDenied \/ PlaceBreaks \/ NotifyRaises
  BY <1>5, <1>f DEF InsertBreaks, ProcessRaises, PlaceDenied, PlaceBreaks, Placing,
                    NotifyRaises, Escape, H
<1>6. CASE GateBlocks
  <2>1. H \in Hashes /\ queue' = Put(queue, "block", H) /\ excused \subseteq excused'
    BY <1>6, <1>t, <1>e DEF GateBlocks, Finish
  <2> QED BY <1>6, <1>p, <1>o, <2>1 DEF GateBlocks
<1>7. CASE RateDenies
  <2>1. H \in Hashes /\ queue' = Put(queue, "fail", H) /\ excused \subseteq excused'
    BY <1>7, <1>t, <1>e DEF RateDenies, Finish
  <2> QED BY <1>7, <1>p, <1>o, <2>1 DEF RateDenies
<1>8. CASE PlaceFails
  <2>1. H \in Hashes /\ queue' = Put(queue, "fail", H) /\ excused \subseteq excused'
    BY <1>8, <1>t, <1>e DEF PlaceFails, Finish, Placing
  <2> QED BY <1>8, <1>p, <1>o, <2>1 DEF PlaceFails, Placing
<1>9. CASE PlaceSucceeds
  <2>1. /\ pc' = "record" /\ H' = H /\ known' = [known EXCEPT ![H] = "live"]
        /\ UNCHANGED <<queue, hasIds, legs, excused>> /\ H \in Hashes /\ pc = "place"
    BY <1>9, <1>t DEF PlaceSucceeds, Placing, Goto, H
  <2> QED BY <1>r, <1>t, <2>1 DEF Recorded
<1>10. CASE Record
  <2>1. /\ H \in Hashes /\ queue' = PutPlaced(queue, H) /\ ExcuseOverflow(4, H)
        /\ UNCHANGED <<hasIds, legs, known>> /\ excused \subseteq excused'
    BY <1>10, <1>t, <1>e DEF Record
  <2>2. h # H \/ Len(queue) + 4 <= QueueCap
    BY <2>1 DEF ExcuseOverflow
  <2>3. LegsAhead(queue', legs[h], h)
    BY <1>r, <1>t, <2>1, <2>2, PlacedAhead DEF Recorded
  <2>4. Has(queue, "placed", h) => Has(queue', "placed", h)
    BY <1>t, <2>1, PutPlacedFacts
  <2>5. h = H => Has(queue', "placed", h)
    BY <1>t, <2>1, <2>2, PutPlacedFacts
  <2> QED BY <1>r, <2>1, <2>3, <2>4, <2>5 DEF Recorded
<1>11. CASE WriterStep
  <2>1. PICK job \in Job : job = Head(queue) /\ job.hash \in Hashes
    BY <1>11, <1>t, TailHas DEF WriterStep, Job
  <2>2. /\ Apply(job) /\ queue # <<>> /\ queue' = Tail(queue)
        /\ UNCHANGED <<pc, cur, known, excused>>
    BY <1>11, <2>1 DEF WriterStep
  <2>3. /\ legs[h] \subseteq legs'[h] /\ legs'[h] \subseteq Legs
        /\ job.hash = h /\ job.op \in Legs => job.op \in legs'[h]
    BY <1>t, <2>1, <2>2 DEF Apply, Legs
  <2>4. hasIds'[h] <=> hasIds[h] \/ (job.op = "placed" /\ job.hash = h)
    BY <1>t, <2>1, <2>2 DEF Apply, Legs
  <2>5. job.op = "placed" /\ job.hash = h => job = [op |-> "placed", hash |-> h]
    BY <2>1 DEF Job
  <2>6. /\ LegsAhead(queue', legs'[h], h)
        /\ job = [op |-> "placed", hash |-> h] => Legs \subseteq legs[h]
    BY <1>r, <1>t, <2>1, <2>2, <2>3, TailAhead DEF Recorded
  <2>7. Has(queue, "placed", h) => Has(queue', "placed", h) \/ job = [op |-> "placed", hash |-> h]
    BY <1>t, <2>1, <2>2, TailHas
  <2>8. hasIds'[h] => legs'[h] = Legs
    BY <1>r, <2>2, <2>3, <2>4, <2>5, <2>6 DEF Recorded
  <2>9. known'[h] # "none" =>
          hasIds'[h] \/ (pc' = "record" /\ H' = h) \/ Has(queue', "placed", h)
    BY <1>r, <2>2, <2>4, <2>7 DEF Recorded, H
  <2> QED BY <2>6, <2>8, <2>9 DEF Recorded
<1>12. CASE WriterFails
  <2>1. /\ queue # <<>> /\ queue' = Tail(queue) /\ excused \subseteq excused'
        /\ UNCHANGED <<pc, cur, hasIds, legs, known>>
        /\ Head(queue).hash = h => Head(queue).op = "expire"
    BY <1>12 DEF WriterFails
  <2>2. LegsAhead(queue', legs[h], h)
    BY <1>r, <1>t, <2>1, TailAhead DEF Recorded, Legs
  <2>3. Has(queue, "placed", h) => Has(queue', "placed", h)
    BY <1>t, <2>1, TailHas
  <2> QED BY <1>r, <2>1, <2>2, <2>3 DEF Recorded, H
<1>13. CASE ReconOne
  <2>1. PICK k \in recon : /\ UNCHANGED known \/ known' = [known EXCEPT ![k] = "cancelled"]
                           /\ UNCHANGED known \/ known[k] = "live"
                           /\ queue' = Put(queue, "expire", k)
    BY <1>13 DEF ReconOne
  <2>2. UNCHANGED <<pc, cur, hasIds, legs, excused>> /\ k \in Hashes
    BY <1>13, <1>t DEF ReconOne
  <2>3. known'[h] # "none" => known[h] # "none"
    BY <1>t, <2>1
  <2>4. LegsAhead(queue', legs[h], h)
    BY <1>o, <1>r, <1>t, <2>1, <2>2, PutAhead DEF Recorded
  <2>5. Has(queue, "placed", h) => Has(queue', "placed", h)
    BY <1>o, <1>t, <2>1, <2>2, PutHas
  <2> QED BY <1>r, <2>2, <2>3, <2>4, <2>5 DEF Recorded, H
<1>14. CASE Crash
  <2>1. /\ ~Owns(h) /\ ~Has(queue, "placed", h) /\ excused \subseteq excused' /\ queue' = <<>>
        /\ UNCHANGED <<hasIds, legs, known>>
    BY <1>14 DEF Crash, Queued
  <2>2. LegsAhead(queue', legs[h], h)
    BY <2>1 DEF LegsAhead
  <2> QED BY <1>r, <2>1, <2>2 DEF Recorded, Owns
<1> QED
  BY <1>0, <1>1, <1>2, <1>3, <1>4, <1>5, <1>6, <1>7, <1>8, <1>9, <1>10, <1>11, <1>12, <1>13, <1>14
     DEF Next, Process, Validate, Place, Disturb

\* The tracker finds every leg of an order whose ids are recorded, because the
\* queue is first in, first out; and an order whose ids came back is on its way
\* to the row, whatever crashes, fails or overflows elsewhere.
THEOREM OrdersAreRecorded == Safety => []KnownOrderIsRecorded
<1>1. Init => OrdersRecorded
  BY DEF Init, OrdersRecorded, Recorded, LegsAhead
<1>2. OrdersRecorded => KnownOrderIsRecorded
  BY DEF OrdersRecorded, Recorded, KnownOrderIsRecorded, Quiet, Queued, Owns
<1> QED BY <1>1, <1>2, RecordedStep, TypeCorrect, PTL DEF Safety

-----------------------------------------------------------------------------
(* What the tracker may expect of the engine *)

\* OrderTracker lets the engine's four writes for a signal arrive late, but in the
\* order in which they were queued and no write twice: a leg written again would
\* unlink the tracker's order from it, and the ids written again would reopen the
\* row.  Rank is that order, and IsNext says that op comes after all that is written.
Outcomes == Legs \cup {"placed"}

Rank(op) == CASE op = "ENTRY" -> 1 [] op = "TARGET" -> 2 [] op = "STOPLOSS" -> 3 [] OTHER -> 4

IsNext(op, lg, got) == ~got /\ \A g \in lg : Rank(g) < Rank(op)

\* The queued writes for h come after the written ones, and each after the one
\* before it.
Ranked(q, lg, got, h) ==
    \A i \in 1..Len(q) :
        q[i].op \in Outcomes /\ q[i].hash = h =>
            /\ IsNext(q[i].op, lg, got)
            /\ \A j \in 1..Len(q) :
                 j < i /\ q[j].op \in Outcomes /\ q[j].hash = h => Rank(q[j].op) < Rank(q[i].op)

\* Nothing is written for h, nor queued, before the message that claimed it has
\* the broker's answer.
Untouched(h) ==
    status[h] = "none" \/ Owns(h) =>
      legs[h] = {} /\ ~hasIds[h] /\ \A op \in Outcomes : ~Has(queue, op, h)

InOrder(h) == Ranked(queue, legs[h], hasIds[h], h) /\ Untouched(h)

WritesInOrder == \A h \in Hashes : InOrder(h)

\* Ranks tell the writes apart, and the ids are the last one.
LEMMA RankFacts ==
    /\ \A o \in Outcomes : Rank(o) \in 1..4
    /\ \A o \in Legs : Rank(o) < Rank("placed")
    /\ Rank("ENTRY") < Rank("TARGET") /\ Rank("ENTRY") < Rank("STOPLOSS")
    /\ Rank("TARGET") < Rank("STOPLOSS")
<1>1. Rank("ENTRY") = 1 /\ Rank("TARGET") = 2 /\ Rank("STOPLOSS") = 3 /\ Rank("placed") = 4
  BY DEF Rank
<1> QED BY <1>1 DEF Outcomes, Legs

\* A job may be queued for h if it is another one, or comes after all that is
\* written and queued.
LEMMA PutRanked ==
    ASSUME NEW q \in Seq(Job), NEW op \in Ops, NEW k \in Hashes, NEW h \in Hashes,
           NEW lg, NEW got, Ranked(q, lg, got, h),
           op \in Outcomes /\ k = h =>
             IsNext(op, lg, got) /\ \A o \in Outcomes : Has(q, o, h) => Rank(o) < Rank(op)
    PROVE  Ranked(Put(q, op, k), lg, got, h)
<1> DEFINE p == Put(q, op, k)
<1>1. /\ p \in Seq(Job) /\ Len(q) \in Nat /\ Len(p) \in Nat
      /\ \A i \in 1..Len(q) : i \in 1..Len(p) /\ p[i] = q[i]
      /\ Len(q) < QueueCap =>
           Len(p) = Len(q) + 1 /\ p[Len(q) + 1] = [op |-> op, hash |-> k]
      /\ ~ Len(q) < QueueCap => p = q
  BY PutFacts
<1> HIDE DEF p
<1>2. CASE ~ Len(q) < QueueCap
  BY <1>1, <1>2 DEF p
<1>3. CASE Len(q) < QueueCap
  <2> SUFFICES ASSUME NEW i \in 1..Len(p), p[i].op \in Outcomes, p[i].hash = h
               PROVE  /\ IsNext(p[i].op, lg, got)
                      /\ \A j \in 1..Len(p) :
                           j < i /\ p[j].op \in Outcomes /\ p[j].hash = h =>
                             Rank(p[j].op) < Rank(p[i].op)
    BY DEF Ranked, p
  <2>1. \A j \in 1..Len(p) : j < i => j \in 1..Len(q) /\ p[j] = q[j]
    BY <1>1, <1>3
  <2>2. CASE i \in 1..Len(q)
    BY <1>1, <2>1, <2>2 DEF Ranked
  <2>3. CASE i \notin 1..Len(q)
    <3>1. p[i].op = op /\ k = h
      BY <1>1, <1>3, <2>3
    <3>2. ASSUME NEW j \in 1..Len(q), q[j].op \in Outcomes, q[j].hash = h
          PROVE  Has(q, q[j].op, h)
      <4>1. q[j] \in Job
        OBVIOUS
      <4>2. q[j] = [op |-> q[j].op, hash |-> h]
        BY <3>2, <4>1 DEF Job
      <4> QED BY <4>2 DEF Has
    <3> QED BY <2>1, <3>1, <3>2
  <2> QED BY <2>2, <2>3
<1> QED BY <1>2, <1>3

\* The writer takes the next write of its order, and what stays comes after it.
LEMMA TailRanked ==
    ASSUME NEW q \in Seq(Job), q # <<>>, NEW h \in Hashes, NEW lg, NEW got,
           Ranked(q, lg, got, h)
    PROVE  /\ Ranked(Tail(q), lg, got, h)
           /\ Head(q).op \in Outcomes /\ Head(q).hash = h =>
                /\ IsNext(Head(q).op, lg, got)
                /\ Head(q).op \in Legs => Ranked(Tail(q), lg \cup {Head(q).op}, got, h)
                /\ Head(q).op = "placed" => Ranked(Tail(q), lg, TRUE, h)
<1> DEFINE p == Tail(q)
<1>1. /\ Len(q) \in Nat \ {0} /\ Head(q) = q[1] /\ Len(p) = Len(q) - 1
      /\ \A i \in 1..Len(p) : i + 1 \in 1..Len(q) /\ p[i] = q[i + 1]
  OBVIOUS
<1> HIDE DEF p
<1>2. ASSUME NEW i \in 1..Len(p), p[i].op \in Outcomes, p[i].hash = h
      PROVE  /\ IsNext(p[i].op, lg, got)
             /\ \A j \in 1..Len(p) :
                  j < i /\ p[j].op \in Outcomes /\ p[j].hash = h =>
                    Rank(p[j].op) < Rank(p[i].op)
             /\ Head(q).op \in Outcomes /\ Head(q).hash = h =>
                  Rank(Head(q).op) < Rank(p[i].op)
  <2>1. \A j \in 1..Len(p) : j < i => j + 1 < i + 1
    OBVIOUS
  <2>2. 1 \in 1..Len(q) /\ 1 < i + 1
    BY <1>1
  <2> QED BY <1>1, <1>2, <2>1, <2>2 DEF Ranked
<1>3. Ranked(p, lg, got, h)
  BY <1>2 DEF Ranked
<1>4. ASSUME Head(q).op \in Outcomes, Head(q).hash = h PROVE IsNext(Head(q).op, lg, got)
  BY <1>1, <1>4 DEF Ranked
<1>5. ASSUME Head(q).op \in Legs, Head(q).hash = h
      PROVE  Ranked(p, lg \cup {Head(q).op}, got, h)
  BY <1>2, <1>5 DEF Ranked, IsNext, Outcomes
<1>6. ASSUME Head(q).op = "placed", Head(q).hash = h PROVE Ranked(p, lg, TRUE, h)
  <2>1. ASSUME NEW i \in 1..Len(p), p[i].op \in Outcomes, p[i].hash = h PROVE FALSE
    <3>1. Rank("placed") < Rank(p[i].op)
      BY <1>2, <1>6, <2>1 DEF Outcomes
    <3>2. Rank("placed") = 4 /\ Rank(p[i].op) \in 1..4
      BY <2>1, RankFacts DEF Rank
    <3> QED BY <3>1, <3>2
  <2> QED BY <2>1 DEF Ranked
<1> QED BY <1>3, <1>4, <1>5, <1>6 DEF p

\* The four puts after a placement are in order if they are the first for k.
LEMMA PlacedRanked ==
    ASSUME NEW q \in Seq(Job), NEW k \in Hashes, NEW h \in Hashes, NEW lg, NEW got,
           Ranked(q, lg, got, h),
           k = h => lg = {} /\ ~got /\ \A o \in Outcomes : ~Has(q, o, h)
    PROVE  Ranked(PutPlaced(q, k), lg, got, h)
<1> DEFINE q1 == Put(q, "ENTRY", k)
           q2 == Put(q1, "TARGET", k)
           q3 == Put(q2, "STOPLOSS", k)
<1>0. {"ENTRY", "TARGET", "STOPLOSS", "placed"} \subseteq Ops
  BY DEF Ops, Legs
<1>n. k = h => \A o \in Outcomes : IsNext(o, lg, got)
  BY DEF IsNext
<1>1. /\ q1 \in Seq(Job) /\ Ranked(q1, lg, got, h)
      /\ k = h => \A o \in Outcomes : Has(q1, o, h) => o = "ENTRY"
  BY <1>0, <1>n, PutFacts, PutHas, PutRanked
<1> HIDE DEF q1
<1>2. /\ q2 \in Seq(Job) /\ Ranked(q2, lg, got, h)
      /\ k = h => \A o \in Outcomes : Has(q2, o, h) => o \in {"ENTRY", "TARGET"}
  <2>1. q2 \in Seq(Job)
    BY <1>0, <1>1, PutFacts
  <2>2. Ranked(q2, lg, got, h)
    BY <1>0, <1>1, <1>n, RankFacts, PutRanked
  <2>3. \A o : Has(q2, o, h) => Has(q1, o, h) \/ o = "TARGET"
    BY <1>0, <1>1, PutHas
  <2> QED BY <1>1, <2>1, <2>2, <2>3
<1> HIDE DEF q2
<1>3. /\ q3 \in Seq(Job) /\ Ranked(q3, lg, got, h)
      /\ k = h => \A o \in Outcomes : Has(q3, o, h) => o \in Legs
  <2>1. q3 \in Seq(Job)
    BY <1>0, <1>2, PutFacts
  <2>2. k = h => \A o \in Outcomes : Has(q2, o, h) => Rank(o) < Rank("STOPLOSS")
    BY <1>2, RankFacts
  <2>3. Ranked(q3, lg, got, h)
    BY <1>0, <1>2, <1>n, <2>2, PutRanked
  <2>4. \A o : Has(q3, o, h) => Has(q2, o, h) \/ o = "STOPLOSS"
    BY <1>0, <1>2, PutHas
  <2> QED BY <1>2, <2>1, <2>3, <2>4 DEF Legs
<1> HIDE DEF q3
<1>4. Ranked(Put(q3, "placed", k), lg, got, h)
  BY <1>0, <1>3, <1>n, RankFacts, PutRanked
<1> QED BY <1>4 DEF PutPlaced, q1, q2, q3

LEMMA WritesStep == TypeOK /\ DecidedOnce /\ WritesInOrder /\ [Next]_vars => WritesInOrder'
<1> SUFFICES ASSUME TypeOK, DecidedOnce, WritesInOrder, [Next]_vars, NEW h \in Hashes
             PROVE  InOrder(h)'
  BY DEF WritesInOrder
<1> USE DEF stream, engine, db, sweep, broker, history
<1>t. /\ queue \in Seq(Job)
      /\ pc # "idle" => cur \in Msgs /\ H \in Hashes
      /\ status \in [Hashes -> Statuses] /\ hasIds \in [Hashes -> BOOLEAN]
      /\ legs \in [Hashes -> SUBSET Legs] /\ recon \subseteq Hashes
  BY MsgAssumption DEF TypeOK, EngineTypeOK, DbTypeOK, SweepTypeOK, H
<1>r. Ranked(queue, legs[h], hasIds[h], h) /\ Untouched(h)
  BY DEF WritesInOrder, InOrder
<1> DEFINE Later == /\ status'[h] = "none" => status[h] = "none"
                    /\ Owns(h)' => Owns(h) \/ status[h] = "none"
\* Steps that touch neither the queue nor what is written.
<1>f. ASSUME UNCHANGED <<queue, hasIds, legs>>, Later PROVE InOrder(h)'
  BY <1>f, <1>r DEF InOrder, Untouched
\* Steps that queue a job other than the four writes.
<1>p. ASSUME UNCHANGED <<hasIds, legs>>, Later,
             NEW op \in Ops \ Outcomes, NEW k \in Hashes, queue' = Put(queue, op, k)
      PROVE  InOrder(h)'
  <2>1. Ranked(queue', legs[h], hasIds[h], h)
    BY <1>p, <1>r, <1>t, PutRanked
  <2>2. \A o \in Outcomes : Has(queue', o, h) => Has(queue, o, h)
    BY <1>p, <1>t, PutHas
  <2> QED BY <1>p, <1>r, <2>1, <2>2 DEF InOrder, Untouched
<1>o. {"block", "fail", "expire"} \subseteq Ops \ Outcomes
  BY DEF Ops, Outcomes, Legs
<1>0. CASE UNCHANGED vars
  BY <1>0, <1>f DEF vars, Owns, H
<1>1. ASSUME NEW m \in Msgs, Publish(m) PROVE InOrder(h)'
  BY <1>1, <1>f DEF Publish, Owns, H
<1>2. ASSUME NEW k \in Hashes, Age(k) PROVE InOrder(h)'
  BY <1>2, <1>f DEF Age, Owns, H
<1>3. CASE Deliver \/ Begin \/ Ack \/ ReconStart \/ Restart
  BY <1>3, <1>f DEF Deliver, Begin, Ack, ReconStart, Restart, Owns, H
<1>4. CASE ParseFails \/ InsertSkips \/ RateAllows \/ PlaceSucceeds \/ PlaceRetries \/ Notify
  BY <1>4, <1>f DEF ParseFails, InsertSkips, RateAllows, PlaceSucceeds, PlaceRetries, Placing,
                    Notify, Goto, Owns, H
<1>5. CASE ProcessRaises \/ PlaceDenied \/ PlaceBreaks \/ NotifyRaises
  BY <1>5, <1>f DEF ProcessRaises, PlaceDenied, PlaceBreaks, Placing, NotifyRaises, Escape,
                    Owns, H
<1>6. CASE InsertWins
  BY <1>6, <1>f, <1>t DEF InsertWins, Goto, Owns, H
<1>7. CASE InsertBreaks
  BY <1>7, <1>f, <1>t DEF InsertBreaks, Owns, H
<1>8. CASE GateBlocks
  <2>1. H \in Hashes /\ queue' = Put(queue, "block", H) /\ pc' = "ack" /\ UNCHANGED db
    BY <1>8, <1>t DEF GateBlocks, Finish, Goto
  <2> QED BY <1>p, <1>o, <2>1 DEF Owns
<1>9. CASE RateDenies \/ PlaceFails
  <2>1. H \in Hashes /\ queue' = Put(queue, "fail", H) /\ pc' = "ack" /\ UNCHANGED db
    BY <1>9, <1>t DEF RateDenies, PlaceFails, Placing, Finish, Goto
  <2> QED BY <1>p, <1>o, <2>1 DEF Owns
<1>10. CASE ReconOne
  <2>1. PICK k \in recon : queue' = Put(queue, "expire", k)
    BY <1>10 DEF ReconOne
  <2>2. UNCHANGED <<pc, cur, db>> /\ k \in Hashes
    BY <1>10, <1>t DEF ReconOne
  <2> QED BY <1>p, <1>o, <2>1, <2>2 DEF Owns, H
<1>11. CASE Record
  <2>1. H \in Hashes /\ queue' = PutPlaced(queue, H) /\ pc = "record" /\ pc' = "notify"
        /\ UNCHANGED db
    BY <1>11, <1>t DEF Record, Goto
  <2>2. h = H => Owns(h) /\ status[h] # "none"
    BY <2>1 DEF Owns, DecidedOnce, RowDiscipline
  <2>3. Ranked(queue', legs[h], hasIds[h], h)
    BY <1>r, <1>t, <2>1, <2>2, PlacedRanked DEF Untouched
  <2>4. h # H => \A o \in Outcomes : Has(queue', o, h) => Has(queue, o, h)
    BY <1>t, <2>1, PutPlacedFacts
  <2>5. ~Owns(h)'
    BY <2>1 DEF Owns
  <2> QED BY <1>r, <2>1, <2>2, <2>3, <2>4, <2>5 DEF InOrder, Untouched
<1>12. CASE WriterStep
  <2>1. PICK job \in Job : job = Head(queue) /\ job.hash \in Hashes /\ job.op \in Ops
    BY <1>12, <1>t, TailHas DEF WriterStep, Job, Ops
  <2>2. Apply(job) /\ queue # <<>> /\ queue' = Tail(queue) /\ UNCHANGED <<pc, cur>>
    BY <1>12, <2>1 DEF WriterStep
  <2>3. status'[h] = "none" => status[h] = "none"
    BY <1>t, <2>1, <2>2 DEF Apply, Legs
  <2>4. (Owns(h)' <=> Owns(h)) /\ \A o \in Outcomes : Has(queue', o, h) => Has(queue, o, h)
    BY <1>t, <2>2, TailHas DEF Owns, H
  <2>5. CASE job.op \in Legs /\ job.hash = h
    <3>1. legs'[h] = legs[h] \cup {job.op} /\ hasIds' = hasIds
      BY <1>t, <2>1, <2>2, <2>5 DEF Apply, Legs
    <3>2. Ranked(queue', legs[h] \cup {job.op}, hasIds[h], h)
      BY <1>r, <1>t, <2>1, <2>2, <2>5, TailRanked DEF Outcomes
    <3>3. ~(status[h] = "none" \/ Owns(h))
      BY <1>r, <1>t, <2>1, <2>2, <2>5, TailHas DEF Untouched, Outcomes
    <3> QED BY <2>3, <2>4, <3>1, <3>2, <3>3 DEF InOrder, Untouched
  <2>6. CASE job.op = "placed" /\ job.hash = h
    <3>1. hasIds'[h] = TRUE /\ legs' = legs
      BY <1>t, <2>1, <2>2, <2>6 DEF Apply, Legs
    <3>2. Ranked(queue', legs[h], TRUE, h)
      BY <1>r, <1>t, <2>1, <2>2, <2>6, TailRanked DEF Outcomes
    <3>3. ~(status[h] = "none" \/ Owns(h))
      BY <1>r, <1>t, <2>1, <2>2, <2>6, TailHas DEF Untouched, Outcomes
    <3> QED BY <2>3, <2>4, <3>1, <3>2, <3>3 DEF InOrder, Untouched
  <2>7. CASE ~(job.op \in Outcomes /\ job.hash = h)
    <3>1. legs'[h] = legs[h] /\ hasIds'[h] = hasIds[h]
      BY <1>t, <2>1, <2>2, <2>7 DEF Apply, Legs, Outcomes
    <3>2. Ranked(queue', legs[h], hasIds[h], h)
      BY <1>r, <1>t, <2>2, TailRanked
    <3> QED BY <1>r, <2>3, <2>4, <3>1, <3>2 DEF InOrder, Untouched
  <2> QED BY <2>5, <2>6, <2>7 DEF Outcomes
<1>13. CASE WriterFails
  <2>1. queue # <<>> /\ queue' = Tail(queue) /\ UNCHANGED <<pc, cur, db>>
    BY <1>13 DEF WriterFails
  <2>2. Ranked(queue', legs[h], hasIds[h], h)
    BY <1>r, <1>t, <2>1, TailRanked
  <2>3. \A o \in Outcomes : Has(queue', o, h) => Has(queue, o, h)
    BY <1>t, <2>1, TailHas
  <2> QED BY <1>r, <2>1, <2>2, <2>3 DEF InOrder, Untouched, Owns, H
<1>14. CASE Crash
  <2>1. queue' = <<>> /\ pc' = "idle" /\ UNCHANGED db
    BY <1>14 DEF Crash
  <2>2. Ranked(queue', legs[h], hasIds[h], h) /\ \A o \in Outcomes : ~Has(queue', o, h)
    BY <2>1 DEF Ranked, Has
  <2> QED BY <1>r, <2>1, <2>2 DEF InOrder, Untouched, Owns
<1> QED
  BY <1>0, <1>1, <1>2, <1>3, <1>4, <1>5, <1>6, <1>7, <1>8, <1>9, <1>10, <1>11, <1>12, <1>13, <1>14
     DEF Next, Process, Validate, Place, Disturb

\* For every hash the four writes reach the database at most once and in the order
\* of PutPlaced, whatever is dropped, fails or dies between them and however often
\* the idea is sent again.
THEOREM WritesAreInOrder == Safety => []WritesInOrder
<1>1. Init => WritesInOrder
  <2> SUFFICES ASSUME Init, NEW h \in Hashes PROVE InOrder(h)
    BY DEF WritesInOrder
  <2> QED BY DEF Init, InOrder, Ranked, Untouched, Has
<1> QED BY <1>1, WritesStep, TypeCorrect, RowsDecidedOnce, PTL DEF Safety

\* The writer only takes jobs for a hash that come after all it has written for it.
HandedOver ==
    [][\A h \in Hashes :
         WriterStep /\ Head(queue).op \in Outcomes /\ Head(queue).hash = h
           => IsNext(Head(queue).op, legs[h], hasIds[h])]_vars

\* What OrderTracker takes for granted of the engine (EngineLeg, EngineRow,
\* EngineLoses) is what the engine does: of the writes ENTRY, TARGET, STOPLOSS and
\* ids it applies some, each once and none after a later one.
THEOREM EngineHandsOver == Safety => HandedOver
<1>1. TypeOK /\ WritesInOrder =>
        \A h \in Hashes :
          WriterStep /\ Head(queue).op \in Outcomes /\ Head(queue).hash = h
            => IsNext(Head(queue).op, legs[h], hasIds[h])
  BY TailRanked DEF TypeOK, WritesInOrder, InOrder, WriterStep
<1>2. TypeOK /\ WritesInOrder =>
        [\A h \in Hashes :
           WriterStep /\ Head(queue).op \in Outcomes /\ Head(queue).hash = h
             => IsNext(Head(queue).op, legs[h], hasIds[h])]_vars
  BY <1>1
<1> QED BY <1>2, TypeCorrect, WritesAreInOrder, PTL DEF HandedOver

-----------------------------------------------------------------------------
(* The pipeline implements the engine *)

\* AddEntry is the engine's Publish; the other steps of the ingestor leave the
\* engine alone, whose own steps leave the ingestor alone.
LEMMA EngineStep == [PNext]_pvars => [Next]_vars
<1>1. ASSUME NEW p \in Posts, AddEntry(p) PROVE \E m \in Msgs : Publish(m)
  BY <1>1 DEF AddEntry, Made
<1>2. ASSUME NEW p \in Posts, Handle(p) PROVE UNCHANGED vars \/ \E m \in Msgs : Publish(m)
  BY <1>1, <1>2 DEF Handle, Mark, Skip, Parsed, NoSignal
<1>3. ASSUME NEW p \in Posts, Receive(p) \/ HandlerFails(p) \/ Forget(p)
      PROVE  UNCHANGED vars
  BY <1>3 DEF Receive, HandlerFails, Forget
<1>4. IngestorDies => UNCHANGED vars
  BY DEF IngestorDies
<1>5. EngineNext => Next
  BY DEF EngineNext, Next
<1>6. (\E m \in Msgs : Publish(m)) => Next
  BY DEF Next
<1>7. UNCHANGED pvars => UNCHANGED vars
  BY DEF pvars
<1> QED BY <1>2, <1>3, <1>4, <1>5, <1>6, <1>7 DEF PNext

\* Whatever the engine guarantees of arbitrary input it guarantees of the input
\* the ingestor gives it: every theorem about Safety holds of PSafety.
THEOREM PipelineImplementsEngine == PSafety => Safety
<1>1. PInit => Init
  BY DEF PInit
<1> QED BY <1>1, EngineStep, PTL DEF PSafety, Safety

\* However often a post is delivered, its handlers interleave, its mark is lost,
\* and engine and ingestor die: one decision and at most one placement call for
\* each trade idea.
THEOREM PipelineImplementsContract == PSafety => ImplementsContract
  BY PipelineImplementsEngine, EngineImplementsContract

-----------------------------------------------------------------------------
(* The ingestor *)

\* What the engine works on came from the stream.
InHand == batch \subseteq Published /\ (cur # NoMsg => cur \in Published)

\* Only Publish adds an entry to the stream.
LEMMA PublishedKept ==
    ASSUME TypeOK, InHand, EngineNext
    PROVE  Published' = Published /\ InHand'
<1> USE DEF Published, InHand
<1>1. CASE Deliver
  BY <1>1 DEF Deliver, TypeOK, StreamTypeOK
<1>2. CASE Ack
  <2>1. cur # NoMsg
    BY <1>2, MsgAssumption DEF Ack, TypeOK, EngineTypeOK
  <2> QED BY <1>2, <2>1 DEF Ack
<1>3. CASE Begin
  BY <1>3 DEF Begin, stream
<1>4. CASE Validate \/ RateDenies \/ RateAllows \/ Place \/ Record \/ Notify
  BY <1>4 DEF Validate, ParseFails, GateBlocks, InsertWins, InsertSkips, RateDenies, RateAllows,
     Place, PlaceSucceeds, PlaceRetries, PlaceFails, PlaceDenied, Record, Notify, Finish, Goto,
     Escape, stream
<1>5. CASE WriterStep \/ (\E h \in Hashes : Age(h)) \/ ReconStart \/ ReconOne
  BY <1>5 DEF WriterStep, Age, ReconStart, ReconOne, stream, engine
<1>6. CASE Disturb
  BY <1>6 DEF Disturb, InsertBreaks, ProcessRaises, PlaceBreaks, NotifyRaises, WriterFails,
     Crash, Escape, stream, engine
<1>7. CASE Restart
  BY <1>7 DEF Restart, stream
<1> QED BY <1>1, <1>2, <1>3, <1>4, <1>5, <1>6, <1>7 DEF EngineNext, Process

\* Publish adds the entry it publishes.
LEMMA PublishedGrows ==
    ASSUME NEW m \in Msgs, Publish(m)
    PROVE  Published' = Published \cup {m} /\ m \notin Published /\ UNCHANGED <<batch, cur>>
  BY DEF Publish, Published, engine

\* A handler beyond the mark belongs to a marked post, and is at one step.
HandlersMarked == parsing \cup sending \subseteq marked /\ parsing \cap sending = {}

Ingestor == IngestorTypeOK /\ InHand /\ HandlersMarked

LEMMA IngestorStep == TypeOK /\ Ingestor /\ [PNext]_pvars => Ingestor'
<1> SUFFICES ASSUME TypeOK, Ingestor, [PNext]_pvars PROVE Ingestor'
  OBVIOUS
<1> USE DEF Ingestor, IngestorTypeOK, HandlersMarked
<1>1. CASE EngineNext /\ UNCHANGED ingestor
  BY <1>1, PublishedKept DEF ingestor, handlers
<1>2. ASSUME NEW p \in Posts, Receive(p) \/ Mark(p) \/ Skip(p) \/ Parsed(p) \/ NoSignal(p)
                 \/ HandlerFails(p)
      PROVE  Ingestor'
  BY <1>2 DEF Receive, Mark, Skip, Parsed, NoSignal, HandlerFails, InHand, Published, vars,
              stream, engine
<1>3. ASSUME NEW p \in Posts, Forget(p) PROVE Ingestor'
  BY <1>3 DEF Forget, InHand, Published, vars, stream, engine
<1>4. ASSUME NEW p \in Posts, AddEntry(p) PROVE Ingestor'
  <2>1. PICK m \in Made(p) : Publish(m)
    BY <1>4 DEF AddEntry
  <2>2. InHand'
    BY <2>1, PublishedGrows DEF InHand, Made
  <2> QED BY <1>4, <2>2 DEF AddEntry
<1>5. CASE IngestorDies
  BY <1>5 DEF IngestorDies, InHand, Published, vars, stream, engine
<1>6. CASE UNCHANGED pvars
  BY <1>6 DEF pvars, ingestor, handlers, InHand, Published, vars, stream, engine
<1> QED BY <1>1, <1>2, <1>3, <1>4, <1>5, <1>6 DEF PNext, Handle

\* Every variable of the ingestor keeps its type, and a handler that may publish
\* has its mark.
THEOREM IngestorCorrect == PSafety => [](TypeOK /\ Ingestor)
<1>1. PInit => Ingestor
  BY DEF PInit, Init, Ingestor, IngestorTypeOK, InHand, HandlersMarked
<1>2. PSafety => []TypeOK
  BY PipelineImplementsEngine, TypeCorrect
<1> QED BY <1>1, <1>2, IngestorStep, PTL DEF PSafety

-----------------------------------------------------------------------------
(* One entry for each mark *)

Entries(p) == Cardinality(Made(p) \cap Published)

LEMMA One ==
    ASSUME NEW p, NEW S
    PROVE  Cardinality({p} \cap S) = IF p \in S THEN 1 ELSE 0
<1>1. CASE p \in S
  <2>1. {p} \cap S = {p}
    BY <1>1
  <2> QED BY <1>1, <2>1, FS_Singleton
<1>2. CASE p \notin S
  <2>1. {p} \cap S = {}
    BY <1>2
  <2> QED BY <1>2, <2>1, FS_EmptySet
<1> QED BY <1>1, <1>2

LEMMA EntriesCount ==
    ASSUME NEW p
    PROVE  /\ IsFiniteSet(Made(p) \cap Published) /\ Entries(p) \in Nat
           /\ \A m : m \notin Published =>
                Cardinality(Made(p) \cap (Published \cup {m}))
                    = IF m \in Made(p) THEN Entries(p) + 1 ELSE Entries(p)
<1>1. IsFiniteSet(Made(p) \cap Published)
  <2>1. Made(p) \cap Published \subseteq Msgs
    BY DEF Made
  <2> QED BY <2>1, PostAssumption, FS_Subset
<1>2. Entries(p) \in Nat
  BY <1>1, FS_CardinalityType DEF Entries
<1>3. ASSUME NEW m, m \notin Published, m \in Made(p)
      PROVE  Cardinality(Made(p) \cap (Published \cup {m})) = Entries(p) + 1
  <2>1. Made(p) \cap (Published \cup {m}) = (Made(p) \cap Published) \cup {m}
    BY <1>3
  <2> QED BY <1>1, <1>3, <2>1, FS_AddElement DEF Entries
<1>4. ASSUME NEW m, m \notin Made(p)
      PROVE  Cardinality(Made(p) \cap (Published \cup {m})) = Entries(p)
  <2>1. Made(p) \cap (Published \cup {m}) = Made(p) \cap Published
    BY <1>4
  <2> QED BY <2>1 DEF Entries
<1> QED BY <1>1, <1>2, <1>3, <1>4

\* OncePerMark without cardinalities of singletons.
CountedFor(p) ==
    Entries(p) + (IF p \in parsing \cup sending THEN 1 ELSE 0)
        <= forgotten[p] + (IF p \in marked THEN 1 ELSE 0)
Counted == \A p \in Posts : CountedFor(p)

LEMMA CountedStep == TypeOK /\ Ingestor /\ Counted /\ [PNext]_pvars => Counted'
<1> SUFFICES ASSUME TypeOK, Ingestor, Counted, [PNext]_pvars, NEW q \in Posts
             PROVE  CountedFor(q)'
  BY DEF Counted
<1> USE DEF Ingestor, IngestorTypeOK, HandlersMarked, Counted, CountedFor
<1>0. Entries(q) \in Nat
  BY EntriesCount
<1>a. UNCHANGED Published => Entries(q)' = Entries(q)
  BY DEF Entries, Made
<1>1. CASE EngineNext /\ UNCHANGED ingestor
  BY <1>0, <1>a, <1>1, PublishedKept DEF ingestor, handlers
<1>2. ASSUME UNCHANGED vars PROVE Entries(q)' = Entries(q)
  BY <1>2, <1>a DEF Published, vars, stream
<1>3. ASSUME NEW p \in Posts, Receive(p) \/ Mark(p) \/ Skip(p) \/ Parsed(p) \/ NoSignal(p)
                 \/ HandlerFails(p)
      PROVE  CountedFor(q)'
  BY <1>0, <1>2, <1>3 DEF Receive, Mark, Skip, Parsed, NoSignal, HandlerFails
<1>4. ASSUME NEW p \in Posts, Forget(p) PROVE CountedFor(q)'
  BY <1>0, <1>2, <1>4 DEF Forget
<1>5. ASSUME NEW p \in Posts, AddEntry(p) PROVE CountedFor(q)'
  <2>1. PICK m \in Made(p) : Publish(m)
    BY <1>5 DEF AddEntry
  <2>2. Published' = Published \cup {m} /\ m \notin Published
    BY <2>1, PublishedGrows DEF Made
  <2>3. Entries(q)' = IF m \in Made(q) THEN Entries(q) + 1 ELSE Entries(q)
    BY <2>2, EntriesCount DEF Entries, Made
  <2>4. m \in Made(q) => q = p
    BY DEF Made
  <2>5. /\ p \in sending /\ p \notin parsing
        /\ sending' = sending \ {p} /\ UNCHANGED <<marked, parsing, forgotten>>
    BY <1>5 DEF AddEntry
  <2> QED BY <1>0, <2>3, <2>4, <2>5
<1>6. CASE IngestorDies
  BY <1>0, <1>2, <1>6 DEF IngestorDies
<1>7. CASE UNCHANGED pvars
  BY <1>0, <1>2, <1>7 DEF pvars, ingestor, handlers
<1> QED BY <1>1, <1>3, <1>4, <1>5, <1>6, <1>7 DEF PNext, Handle

\* A post enters the stream at most once for each time it was marked, for any
\* number of posts, entries and lost marks.
THEOREM PostsEnterOnce == PSafety => []OncePerMark
<1>1. PInit => Counted
  <2>1. ASSUME PInit, NEW p \in Posts PROVE Entries(p) = 0
    <3>1. Made(p) \cap Published = {}
      BY <2>1 DEF PInit, Init, Published
    <3> QED BY <3>1, FS_EmptySet DEF Entries
  <2> QED BY <2>1 DEF PInit, Counted, CountedFor
<1>2. Counted => OncePerMark
  BY One DEF Counted, CountedFor, OncePerMark, Entries
<1>3. PSafety => [](TypeOK /\ Ingestor)
  BY IngestorCorrect
<1> QED BY <1>1, <1>2, <1>3, CountedStep, PTL DEF PSafety

-----------------------------------------------------------------------------
(* The mark swallows no signal *)

LEMMA KeptStep == TypeOK /\ Ingestor /\ SignalIsKept /\ [PNext]_pvars => SignalIsKept'
<1> SUFFICES ASSUME TypeOK, Ingestor, SignalIsKept, [PNext]_pvars PROVE SignalIsKept'
  OBVIOUS
<1> USE DEF SignalIsKept, Ingestor, IngestorTypeOK, HandlersMarked
<1>1. CASE EngineNext /\ UNCHANGED ingestor
  BY <1>1, PublishedKept DEF ingestor, handlers, Made
<1>2. UNCHANGED vars => UNCHANGED Published
  BY DEF Published, vars, stream
<1>3. ASSUME NEW p \in Posts, Receive(p) \/ Mark(p) \/ Skip(p) \/ Parsed(p) \/ NoSignal(p)
                 \/ HandlerFails(p) \/ Forget(p)
      PROVE  SignalIsKept'
  BY <1>2, <1>3 DEF Receive, Mark, Skip, Parsed, NoSignal, HandlerFails, Forget, Made
<1>4. ASSUME NEW p \in Posts, AddEntry(p) PROVE SignalIsKept'
  <2>1. PICK m \in Made(p) : Publish(m)
    BY <1>4 DEF AddEntry
  <2>2. Published' = Published \cup {m}
    BY <2>1, PublishedGrows DEF Made
  <2> QED BY <1>4, <2>1, <2>2 DEF AddEntry, Made
<1>5. CASE IngestorDies
  BY <1>2, <1>5 DEF IngestorDies, Made
<1>6. CASE UNCHANGED pvars
  BY <1>2, <1>6 DEF pvars, ingestor, handlers, Made
<1> QED BY <1>1, <1>3, <1>4, <1>5, <1>6 DEF PNext, Handle

\* A marked signal is in the stream, in the hands of a handler, or was lost to a
\* fault: setting the mark first costs nothing but what the faults cost.
THEOREM SignalsAreKept == PSafety => []SignalIsKept
<1>1. PInit => SignalIsKept
  BY DEF PInit, SignalIsKept
<1>2. PSafety => [](TypeOK /\ Ingestor)
  BY IngestorCorrect
<1> QED BY <1>1, <1>2, KeptStep, PTL DEF PSafety
=============================================================================
