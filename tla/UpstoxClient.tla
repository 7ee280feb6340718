---------------------------- MODULE UpstoxClient ----------------------------
(***************************************************************************)
(* The Upstox client of the trading engine: one circuit breaker and one    *)
(* retry loop (_request) shared by the message loop, the stale sweep and   *)
(* the daily capital refresh, and the token bucket before a placement.     *)
(*                                                                         *)
(* A task runs _request from one await to the next: from the check of the  *)
(* breaker to the request, from the answer to the sleep or the return.     *)
(* The tasks' requests interleave; an answer may come long after it was    *)
(* asked for.  What is asked and answered is abstracted to what the        *)
(* breaker makes of it.                                                    *)
(***************************************************************************)
EXTENDS TokenBucket

CONSTANTS
    Tasks,       \* the tasks that share the client
    Placer,      \* the message loop, which acquires a token first
    Daily,       \* the capital refresh, which calls day after day
    MaxRetry,    \* MAX_RETRY
    Threshold,   \* FAILURE_THRESHOLD
    Recovery,    \* RECOVERY_SECONDS, in ticks
    MaxRestarts  \* bound: restarts of the engine or of Redis

ASSUME ClientAssumption ==
    /\ Placer \in Tasks /\ Daily \in Tasks /\ Placer # Daily
    /\ MaxRetry \in Nat \ {0}
    /\ Threshold \in Nat \ {0} /\ Recovery \in Nat \ {0}
    /\ MaxRestarts \in Nat

VARIABLES
    failures,  \* _failures, counted up to Threshold: it is only compared with it
    opened,    \* _opened_at is not None
    age,       \* ticks since _opened_at, counted up to Recovery
    pc,        \* where each task stands
    attempt,   \* its loop variable in _request
    broker,    \* how the broker behaves now
    early,     \* history: requests sent before the circuit opened
    restarts   \* history: restarts so far

breaker == <<failures, opened, age>>
tasks   == <<pc, attempt>>
vars    == <<bucketVars, breaker, tasks, broker, early, restarts>>

Steps   == {"idle", "admitted", "flight", "sleep"}
Brokers == {"well", "busy", "silent", "cutting"}

TypeOK ==
    /\ BucketTypeOK
    /\ failures \in 0..Threshold /\ opened \in BOOLEAN /\ age \in 0..Recovery
    /\ pc \in [Tasks -> Steps] /\ attempt \in [Tasks -> 0..MaxRetry - 1]
    /\ broker \in Brokers /\ early \subseteq Tasks
    /\ restarts \in 0..MaxRestarts

Init ==
    /\ BucketInit
    /\ failures = 0 /\ opened = FALSE /\ age = 0
    /\ pc = [t \in Tasks |-> "idle"] /\ attempt = [t \in Tasks |-> 0]
    /\ broker = "well" /\ early = {} /\ restarts = 0

-----------------------------------------------------------------------------
(* _CircuitBreaker *)

\* Mutant of CanAttempt: an open circuit stays open.
CanAttemptClosed == ~opened

\* Mutant of CanAttempt: the circuit lets go a tick too soon.
CanAttemptSoon == ~opened \/ age >= Recovery - 1

CanAttempt == ~opened \/ age = Recovery

RecordSuccess ==
    /\ failures' = 0 /\ opened' = FALSE /\ age' = 0
    /\ early' = {}

\* The failure of t's request.  From the threshold on every failure stamps the
\* opening anew.
RecordFailure(t) ==
    IF failures + 1 < Threshold
      THEN failures' = failures + 1 /\ UNCHANGED <<opened, age, early>>
      ELSE /\ failures' = Threshold /\ opened' = TRUE /\ age' = 0
           /\ early' = {u \in Tasks \ {t} : pc[u] = "flight"}

-----------------------------------------------------------------------------
(* rate_acquire, called by the message loop before place_gtt *)

Acquire ==
    /\ pc[Placer] = "idle"
    /\ \/ Admits /\ pc' = [pc EXCEPT ![Placer] = "admitted"]
       \/ (Refuses \/ NoScript) /\ UNCHANGED pc
    /\ UNCHANGED <<breaker, attempt, broker, early, restarts>>

-----------------------------------------------------------------------------
(* _request *)

Goto(t, step) == pc' = [pc EXCEPT ![t] = step] /\ UNCHANGED attempt

\* The call returns or raises.
Leave(t) ==
    /\ pc' = [pc EXCEPT ![t] = "idle"]
    /\ attempt' = [attempt EXCEPT ![t] = 0]

Send(t, n) ==
    /\ pc' = [pc EXCEPT ![t] = "flight"]
    /\ attempt' = [attempt EXCEPT ![t] = n]

\* Mutant of Attempt: the breaker is asked once per call, not once per attempt.
AttemptOnce(t, n) ==
    /\ IF n > 0 \/ CanAttempt THEN Send(t, n) ELSE Leave(t)
    /\ UNCHANGED <<bucketVars, breaker, broker, early, restarts>>

\* The head of the loop: the n-th request is sent, or CircuitOpenError ends the
\* call, also one whose earlier attempts have reached the broker.
Attempt(t, n) ==
    /\ IF CanAttempt THEN Send(t, n) ELSE Leave(t)
    /\ UNCHANGED <<bucketVars, breaker, broker, early, restarts>>

Call(t) ==
    /\ pc[t] = IF t = Placer THEN "admitted" ELSE "idle"
    /\ Attempt(t, 0)

\* The back-off is over.
Wake(t) == pc[t] = "sleep" /\ Attempt(t, attempt[t] + 1)

Last(t) == attempt[t] = MaxRetry - 1

\* A 200 answer, a soft rejection or a 4xx: a success for the breaker.
Answered(t) ==
    /\ pc[t] = "flight" /\ broker = "well"
    /\ RecordSuccess
    /\ Leave(t)
    /\ UNCHANGED <<bucketVars, broker, restarts>>

\* 429 or 5xx.  The last one is not retried, and counts as a success.
Busy(t) ==
    /\ pc[t] = "flight" /\ broker = "busy"
    /\ IF Last(t) THEN RecordSuccess /\ Leave(t)
                  ELSE RecordFailure(t) /\ Goto(t, "sleep")
    /\ UNCHANGED <<bucketVars, broker, restarts>>

\* TimeoutException or ConnectError; after the last one MaxRetriesError.
TimesOut(t) ==
    /\ pc[t] = "flight" /\ broker = "silent"
    /\ RecordFailure(t)
    /\ IF Last(t) THEN Leave(t) ELSE Goto(t, "sleep")
    /\ UNCHANGED <<bucketVars, broker, restarts>>

\* Another transport error leaves _request without telling the breaker.
Breaks(t) ==
    /\ pc[t] = "flight" /\ broker = "cutting"
    /\ Leave(t)
    /\ UNCHANGED <<bucketVars, breaker, broker, early, restarts>>

Answer(t) == Answered(t) \/ Busy(t) \/ TimesOut(t) \/ Breaks(t)

-----------------------------------------------------------------------------
(* Time and the surroundings *)

\* Monotonic time, for the breaker and the bucket.
Tick ==
    /\ Elapses
    /\ age' = IF opened /\ age < Recovery THEN age + 1 ELSE age
    /\ UNCHANGED <<failures, opened, tasks, broker, early, restarts>>

\* The broker gets better or worse.
Turn ==
    /\ \E b \in Brokers \ {broker} : broker' = b
    /\ UNCHANGED <<bucketVars, breaker, tasks, early, restarts>>

Restarts == restarts < MaxRestarts /\ restarts' = restarts + 1

RedisRestart ==
    /\ Restarts /\ RedisRestarts
    /\ UNCHANGED <<breaker, tasks, broker, early>>

\* The engine dies and starts anew, with a new client.
EngineRestart ==
    /\ Restarts
    /\ sha' = FALSE
    /\ failures' = 0 /\ opened' = FALSE /\ age' = 0 /\ early' = {}
    /\ pc' = [t \in Tasks |-> "idle"] /\ attempt' = [t \in Tasks |-> 0]
    /\ UNCHANGED <<tokens, idle, script, level, broker>>

Next ==
    \/ Acquire
    \/ \E t \in Tasks : Call(t) \/ Wake(t) \/ Answer(t)
    \/ Tick
    \/ Turn
    \/ RedisRestart \/ EngineRestart

\* A request is answered or times out, a sleep ends, time passes, and the
\* refresh calls once a day.  Placements and sweeps need not come.
Fairness ==
    /\ \A t \in Tasks : WF_vars(Wake(t)) /\ WF_vars(Answer(t))
    /\ WF_vars(Call(Daily))
    /\ WF_vars(Tick)

Spec == Init /\ [][Next]_vars /\ Fairness

-----------------------------------------------------------------------------
(* Properties *)

\* From its opening until the recovery time is over, the circuit keeps every
\* request back, also the retries of calls that began before: what is under
\* way then was sent before.
OpenShields ==
    opened /\ age < Recovery => \A t \in Tasks : pc[t] = "flight" => t \in early

\* Only an answer to such an early request closes the circuit before the
\* recovery time is over: a late success of one task lets all the others go on.
ClosedEarly == opened /\ age < Recovery /\ ~opened'
OpenLasts ==
    [][ClosedEarly /\ UNCHANGED restarts
         => \E t \in early : pc[t] = "flight" /\ pc'[t] = "idle"]_vars

\* A broker that is well again gets the circuit closed, for good.
RecoveryCloses == <>[](broker = "well") => <>[]~opened

=============================================================================
