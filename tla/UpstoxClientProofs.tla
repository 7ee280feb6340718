-------------------------- MODULE UpstoxClientProofs --------------------------
(***************************************************************************)
(* Theorems about UpstoxClient for every number of tasks, retries, failure *)
(* threshold, recovery time and bucket size.                               *)
(***************************************************************************)
EXTENDS UpstoxClient, TLAPS

USE BucketAssumption, ClientAssumption

\* The ends of the ranges.
LEMMA Ends ==
    /\ 0 \in 0..Threshold /\ Threshold \in 0..Threshold
    /\ \A n \in 0..Threshold : n + 1 < Threshold => n + 1 \in 0..Threshold
    /\ 0 \in 0..Recovery /\ 0 \in 0..MaxRetry - 1 /\ 0 \in 0..MaxRestarts
    /\ \A n \in 0..MaxRestarts : n < MaxRestarts => n + 1 \in 0..MaxRestarts
    /\ 0 \in 0..Ttl - 1 /\ Full \in Int
OBVIOUS

\* The types are kept by the script, by its refusals and by the passing of time.
LEMMA BucketTypes ==
    ASSUME BucketTypeOK,
           Admits \/ Refuses \/ NoScript \/ Elapses \/ RedisRestarts \/ UNCHANGED bucketVars
    PROVE  BucketTypeOK'
<1>1. CASE Admits
  BY <1>1 DEF Admits, Loaded, Refilled, Capped, BucketTypeOK
<1>2. CASE Refuses
  BY <1>2 DEF Refuses, Loaded, Refilled, Capped, BucketTypeOK
<1>3. CASE NoScript \/ UNCHANGED bucketVars
  BY <1>3 DEF NoScript, bucketVars, BucketTypeOK
<1>4. CASE Elapses
  BY <1>4 DEF Elapses, Capped, BucketTypeOK
<1>5. CASE RedisRestarts
  <2>1. CASE UNCHANGED <<tokens, idle, level>>
    BY <1>5, <2>1 DEF RedisRestarts, BucketTypeOK
  <2>2. CASE tokens' = Missing /\ idle' = 0 /\ level' = Full
    BY <1>5, <2>2, Ends DEF RedisRestarts, BucketTypeOK
  <2> QED
    BY <1>5, <2>1, <2>2 DEF RedisRestarts
<1> QED
  BY <1>1, <1>2, <1>3, <1>4, <1>5

\* Each step of the bucket keeps the lazy and the ideal bucket together.
LEMMA BucketStep ==
    ASSUME BucketTypeOK, BurstBounded,
           Admits \/ Refuses \/ NoScript \/ Elapses \/ RedisRestarts \/ UNCHANGED bucketVars
    PROVE  BurstBounded'
<1>1. CASE Admits
  BY <1>1 DEF Admits, Loaded, Refilled, Capped, BucketTypeOK, BurstBounded
<1>2. CASE Refuses
  BY <1>2 DEF Refuses, Loaded, Refilled, Capped, BucketTypeOK, BurstBounded
<1>3. CASE NoScript \/ UNCHANGED bucketVars
  BY <1>3 DEF NoScript, bucketVars, Refilled, Capped, BurstBounded
<1>4. CASE Elapses
  <2>1. CASE tokens # Missing /\ idle + 1 < Ttl
    BY <1>4, <2>1 DEF Elapses, Refilled, Capped, BucketTypeOK, BurstBounded
  <2>2. CASE tokens = Missing
    BY <1>4, <2>2 DEF Elapses, Refilled, Capped, BucketTypeOK, BurstBounded
  <2>3. CASE tokens # Missing /\ idle + 1 >= Ttl
    <3>1. level' = Full
      BY <1>4, <2>3 DEF Elapses, Refilled, Capped, BucketTypeOK, BurstBounded
    <3> QED
      BY <1>4, <2>3, <3>1 DEF Elapses, Refilled, BucketTypeOK, BurstBounded
  <2> QED
    BY <2>1, <2>2, <2>3 DEF BucketTypeOK
<1>5. CASE RedisRestarts
  BY <1>5 DEF RedisRestarts, Refilled, Capped, BucketTypeOK, BurstBounded
<1> QED
  BY <1>1, <1>2, <1>3, <1>4, <1>5

\* Which part of the bucket a step of the client moves.
LEMMA BucketMoves ==
    ASSUME BucketTypeOK, [Next]_vars
    PROVE  \/ Admits \/ Refuses \/ NoScript \/ Elapses \/ RedisRestarts \/ UNCHANGED bucketVars
           \/ EngineRestart
BY DEF Next, vars, Acquire, Call, Wake, Attempt, Answer, Answered, Busy, TimesOut, Breaks,
       Tick, Turn, RedisRestart

LEMMA RestartKeepsBucket ==
    ASSUME BucketTypeOK, EngineRestart
    PROVE  BucketTypeOK' /\ (BurstBounded => BurstBounded')
BY DEF EngineRestart, BucketTypeOK, BurstBounded, Refilled, Capped

-----------------------------------------------------------------------------

ClientTypeOK ==
    /\ failures \in 0..Threshold /\ opened \in BOOLEAN /\ age \in 0..Recovery
    /\ pc \in [Tasks -> Steps] /\ attempt \in [Tasks -> 0..MaxRetry - 1]
    /\ broker \in Brokers /\ early \subseteq Tasks
    /\ restarts \in 0..MaxRestarts

\* A call is asleep only between two attempts.
Sleeping == \A t \in Tasks : pc[t] = "sleep" => attempt[t] + 1 < MaxRetry

LEMMA AttemptTypes ==
    ASSUME ClientTypeOK, Sleeping, NEW t \in Tasks, NEW n \in 0..MaxRetry - 1, Attempt(t, n)
    PROVE  ClientTypeOK' /\ Sleeping'
<1>1. CASE Send(t, n)
  BY <1>1 DEF ClientTypeOK, Sleeping, Attempt, Send, Steps, breaker
<1>2. CASE Leave(t)
  BY <1>2 DEF ClientTypeOK, Sleeping, Attempt, Leave, Steps, breaker
<1> QED
  BY <1>1, <1>2 DEF Attempt

LEMMA AnswerTypes ==
    ASSUME ClientTypeOK, Sleeping, NEW t \in Tasks, Answer(t)
    PROVE  ClientTypeOK' /\ Sleeping'
<1>1. /\ failures' \in 0..Threshold /\ opened' \in BOOLEAN /\ age' \in 0..Recovery
      /\ early' \subseteq Tasks /\ broker' = broker /\ restarts' = restarts
  <2>1. CASE RecordSuccess /\ broker' = broker /\ restarts' = restarts
    BY <2>1, Ends DEF RecordSuccess, ClientTypeOK
  <2>2. CASE RecordFailure(t) /\ broker' = broker /\ restarts' = restarts
    BY <2>2, Ends DEF RecordFailure, ClientTypeOK
  <2>3. CASE UNCHANGED <<breaker, broker, early, restarts>>
    BY <2>3 DEF breaker, ClientTypeOK
  <2> QED
    BY <2>1, <2>2, <2>3 DEF Answer, Answered, Busy, TimesOut, Breaks
<1>2. Leave(t) \/ (Goto(t, "sleep") /\ ~Last(t))
  BY DEF Answer, Answered, Busy, TimesOut, Breaks
<1>3. CASE Leave(t)
  BY <1>1, <1>3 DEF Leave, ClientTypeOK, Sleeping, Steps
<1>4. CASE Goto(t, "sleep") /\ ~Last(t)
  BY <1>1, <1>4 DEF Goto, Last, ClientTypeOK, Sleeping, Steps
<1> QED
  BY <1>2, <1>3, <1>4

\* Every step keeps the types.
LEMMA TypeStep ==
    ASSUME BucketTypeOK, ClientTypeOK, Sleeping, [Next]_vars
    PROVE  (BucketTypeOK /\ ClientTypeOK /\ Sleeping)'
<1>1. BucketTypeOK'
  BY BucketMoves, BucketTypes, RestartKeepsBucket
<1>2. ClientTypeOK' /\ Sleeping'
  <2>1. CASE Acquire
    BY <2>1 DEF Acquire, ClientTypeOK, Sleeping, Steps, breaker
  <2>2. ASSUME NEW t \in Tasks, Call(t)
        PROVE  ClientTypeOK' /\ Sleeping'
    BY <2>2, AttemptTypes DEF Call
  <2>3. ASSUME NEW t \in Tasks, Wake(t)
        PROVE  ClientTypeOK' /\ Sleeping'
    <3>1. attempt[t] + 1 \in 0..MaxRetry - 1
      BY <2>3 DEF Wake, Sleeping, ClientTypeOK
    <3> QED
      BY <2>3, <3>1, AttemptTypes DEF Wake
  <2>4. ASSUME NEW t \in Tasks, Answer(t)
        PROVE  ClientTypeOK' /\ Sleeping'
    BY <2>4, AnswerTypes
  <2>5. CASE Tick
    BY <2>5 DEF Tick, ClientTypeOK, Sleeping, tasks
  <2>6. CASE Turn
    BY <2>6 DEF Turn, ClientTypeOK, Sleeping, tasks, breaker
  <2>7. CASE RedisRestart
    BY <2>7 DEF RedisRestart, Restarts, ClientTypeOK, Sleeping, tasks, breaker
  <2>8. CASE EngineRestart
    BY <2>8, Ends DEF EngineRestart, Restarts, ClientTypeOK, Sleeping, Steps
  <2>9. CASE UNCHANGED vars
    BY <2>9 DEF vars, ClientTypeOK, Sleeping, tasks, breaker
  <2> QED
    BY <2>1, <2>2, <2>3, <2>4, <2>5, <2>6, <2>7, <2>8, <2>9 DEF Next
<1> QED
  BY <1>1, <1>2

\* The variables keep their types, and no call sleeps after its last attempt.
THEOREM TypeCorrect == Spec => []TypeOK
<1>1. Init => BucketTypeOK /\ ClientTypeOK /\ Sleeping
  BY Ends DEF Init, BucketInit, BucketTypeOK, ClientTypeOK, Sleeping, Steps, Brokers
<1>2. BucketTypeOK /\ ClientTypeOK /\ Sleeping /\ [Next]_vars
        => (BucketTypeOK /\ ClientTypeOK /\ Sleeping)'
  BY TypeStep
<1>3. BucketTypeOK /\ ClientTypeOK /\ Sleeping => TypeOK
  BY DEF TypeOK, ClientTypeOK
<1> QED
  BY <1>1, <1>2, <1>3, PTL DEF Spec

\* The script's lazy refill, with the key's expiry, is an eager token bucket:
\* rate_acquire never admits more than its rate and its burst allow.
THEOREM BurstsAreBounded == Spec => []BurstBounded
<1>1. Init => BurstBounded
  BY DEF Init, BucketInit, BurstBounded, Refilled
<1>2. TypeOK /\ BurstBounded /\ [Next]_vars => BurstBounded'
  BY BucketMoves, BucketStep, RestartKeepsBucket DEF TypeOK
<1> QED
  BY <1>1, <1>2, TypeCorrect, PTL DEF Spec

-----------------------------------------------------------------------------

\* A failure leaves the other requests early if it stamps the opening.
LEMMA FailureShields ==
    ASSUME TypeOK, OpenShields, NEW t \in Tasks, pc[t] = "flight", RecordFailure(t),
           Leave(t) \/ Goto(t, "sleep")
    PROVE  OpenShields'
<1>1. \A u \in Tasks : pc'[u] = "flight" => u # t /\ pc[u] = "flight"
  BY DEF Leave, Goto, TypeOK
<1>2. CASE failures + 1 < Threshold
  BY <1>1, <1>2 DEF RecordFailure, OpenShields
<1>3. CASE ~(failures + 1 < Threshold)
  BY <1>1, <1>3 DEF RecordFailure, OpenShields
<1> QED
  BY <1>2, <1>3

\* What an open circuit lets through was sent before it opened.
LEMMA ShieldStep ==
    ASSUME TypeOK, OpenShields, [Next]_vars
    PROVE  OpenShields'
<1>1. CASE Acquire
  <2>1. \A u \in Tasks : pc'[u] = "flight" => pc[u] = "flight"
    BY <1>1 DEF Acquire, TypeOK
  <2> QED
    BY <1>1, <2>1 DEF Acquire, OpenShields, breaker
<1>2. ASSUME NEW t \in Tasks, NEW n, Attempt(t, n)
      PROVE  OpenShields'
  <2>1. CASE Send(t, n) /\ CanAttempt
    BY <1>2, <2>1 DEF Attempt, CanAttempt, OpenShields, TypeOK, breaker
  <2>2. CASE Leave(t)
    <3>1. \A u \in Tasks : pc'[u] = "flight" => pc[u] = "flight"
      BY <2>2 DEF Leave, TypeOK
    <3> QED
      BY <1>2, <3>1 DEF Attempt, OpenShields, breaker
  <2> QED
    BY <1>2, <2>1, <2>2 DEF Attempt
<1>3. ASSUME NEW t \in Tasks, Answer(t)
      PROVE  OpenShields'
  <2>1. CASE Answered(t) \/ (Busy(t) /\ Last(t))
    BY <2>1 DEF Answered, Busy, RecordSuccess, OpenShields
  <2>2. CASE (Busy(t) /\ ~Last(t)) \/ TimesOut(t)
    BY <2>2, FailureShields DEF Busy, TimesOut
  <2>3. CASE Breaks(t)
    <3>1. \A u \in Tasks : pc'[u] = "flight" => pc[u] = "flight"
      BY <2>3 DEF Breaks, Leave, TypeOK
    <3> QED
      BY <2>3, <3>1 DEF Breaks, OpenShields, breaker
  <2> QED
    BY <1>3, <2>1, <2>2, <2>3 DEF Answer
<1>4. CASE Tick
  BY <1>4 DEF Tick, OpenShields, tasks, TypeOK
<1>5. CASE Turn \/ RedisRestart \/ UNCHANGED vars
  BY <1>5 DEF Turn, RedisRestart, vars, OpenShields, tasks, breaker
<1>6. CASE EngineRestart
  BY <1>6 DEF EngineRestart, OpenShields
<1> QED
  BY <1>1, <1>2, <1>3, <1>4, <1>5, <1>6 DEF Next, Call, Wake

\* An open circuit keeps back every request, of whatever task and attempt,
\* until its recovery time is over.
THEOREM OpenCircuitShields == Spec => []OpenShields
<1>1. Init => OpenShields
  BY DEF Init, OpenShields
<1>2. TypeOK /\ OpenShields /\ [Next]_vars => OpenShields'
  BY ShieldStep
<1> QED
  BY <1>1, <1>2, TypeCorrect, PTL DEF Spec

\* It is closed before then only by an answer to a request sent before.
THEOREM OpenCircuitLasts == Spec => OpenLasts
<1> DEFINE A == ClosedEarly /\ UNCHANGED restarts
                  => \E t \in early : pc[t] = "flight" /\ pc'[t] = "idle"
<1>1. ASSUME TypeOK, OpenShields, Next, ClosedEarly, UNCHANGED restarts
      PROVE  \E t \in early : pc[t] = "flight" /\ pc'[t] = "idle"
  <2>0. ~UNCHANGED opened /\ ~Restarts
    <3>1. ~UNCHANGED opened
      BY <1>1 DEF ClosedEarly, TypeOK
    <3>2. restarts + 1 # restarts
      BY <1>1 DEF TypeOK
    <3> QED
      BY <1>1, <3>1, <3>2 DEF Restarts
  <2>1. PICK t \in Tasks : Answer(t)
    BY <1>1, <2>0 DEF Next, Acquire, Call, Wake, Attempt, Tick, Turn, RedisRestart,
                      EngineRestart, breaker
  <2>2. pc[t] = "flight"
    BY <2>1 DEF Answer, Answered, Busy, TimesOut, Breaks
  <2>3. t \in early
    BY <1>1, <2>2 DEF OpenShields, ClosedEarly
  <2>4. Leave(t)
    BY <1>1, <2>1 DEF ClosedEarly, Answer, Answered, Busy, TimesOut, Breaks, RecordFailure,
                      breaker, TypeOK
  <2>5. pc'[t] = "idle"
    BY <1>1, <2>4 DEF Leave, TypeOK
  <2> QED
    BY <2>2, <2>3, <2>5
<1>2. TypeOK /\ OpenShields /\ [Next]_vars => [A]_vars
  BY <1>1
<1> QED
  BY <1>2, TypeCorrect, OpenCircuitShields, PTL DEF Spec, OpenLasts
=============================================================================
