----------------------------- MODULE TokenBucket -----------------------------
(***************************************************************************)
(* The rate limiter of gtt_place: a token bucket kept in one Redis hash    *)
(* and advanced by a Lua script when somebody asks, whose SHA the engine   *)
(* caches for the life of its process (rate_limiter.py).                   *)
(*                                                                         *)
(* Time passes in ticks.  A tick refills one unit, a token is Cost units,  *)
(* so that a token may be there in part, as in the script.  The caller's   *)
(* clock is taken to be monotone.  The module has no next-state relation   *)
(* of its own: UpstoxClient takes its actions into the engine's.           *)
(***************************************************************************)
EXTENDS Integers

CONSTANTS
    Full,    \* max_tokens, in units
    Cost,    \* units of one token
    Ttl,     \* PEXPIRE of the key, in ticks
    Missing  \* the key does not exist

\* Every entry of RATE_LIMITS is full again before its key expires: the slowest
\* takes 3 / 0.1 = 30 of the 60 seconds.
ASSUME BucketAssumption ==
    /\ Full \in Nat /\ Cost \in Nat \ {0} /\ Ttl \in Nat \ {0}
    /\ Full <= Ttl
    /\ Missing \notin Int

VARIABLES
    tokens,   \* field tokens of the hash, in units
    idle,     \* ticks since last_refill
    sha,      \* _script_sha holds the script's hash
    script,   \* Redis holds the script
    level     \* history: the bucket as if refilled at every tick

bucketVars == <<tokens, idle, sha, script, level>>

BucketTypeOK ==
    /\ tokens \in 0..Full \cup {Missing}
    /\ idle \in 0..Ttl - 1
    /\ sha \in BOOLEAN /\ script \in BOOLEAN
    /\ level \in Int

BucketInit ==
    /\ tokens = Missing /\ idle = 0
    /\ sha = FALSE /\ script = FALSE
    /\ level = Full

Capped(n) == IF n > Full THEN Full ELSE n

\* Mutant of Refilled: the refill may exceed the bucket.
RefilledUncapped == IF tokens = Missing THEN Full ELSE tokens + idle

\* What the script computes before it looks whether a token is there.
Refilled == IF tokens = Missing THEN Full ELSE Capped(tokens + idle)

\* _load_script asks Redis once per process; EVALSHA finds the script then.
Loaded ==
    /\ ~sha \/ script
    /\ sha' = TRUE /\ script' = TRUE

\* The script answers 1 and takes a token.
Admits ==
    /\ Loaded
    /\ Refilled >= Cost
    /\ tokens' = Refilled - Cost /\ idle' = 0
    /\ level' = level - Cost

\* The script answers 0 and stores what it has refilled.
Refuses ==
    /\ Loaded
    /\ Refilled < Cost
    /\ tokens' = Refilled /\ idle' = 0
    /\ UNCHANGED level

\* Redis forgot the script since this process loaded it: NoScriptError.
NoScript ==
    /\ sha /\ ~script
    /\ UNCHANGED bucketVars

\* A tick passes: the key may expire.
Elapses ==
    /\ level' = Capped(level + 1)
    /\ IF tokens # Missing /\ idle + 1 < Ttl
         THEN idle' = idle + 1 /\ UNCHANGED tokens
         ELSE idle' = 0 /\ tokens' = Missing
    /\ UNCHANGED <<sha, script>>

\* Redis restarts from its append-only file.  Loaded scripts are not in it; the
\* key is, unless its last writes had not been flushed.
RedisRestarts ==
    /\ script' = FALSE
    /\ \/ UNCHANGED <<tokens, idle, level>>
       \/ tokens' = Missing /\ idle' = 0 /\ level' = Full
    /\ UNCHANGED sha

-----------------------------------------------------------------------------

\* The lazily refilled bucket is the one a clock would refill: between two
\* losses of the key, n ticks never admit more than (Full + n) / Cost calls,
\* although the script sees only the time since its last run and forgets the
\* bucket when the key expires.
BurstBounded == level >= 0 /\ Refilled = level
=============================================================================
