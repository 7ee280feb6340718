------------------------------ MODULE DayGuard ------------------------------
(***************************************************************************)
(* The daily P&L guard: the order tracker's two tasks record() the P&L of  *)
(* closed trades, in Redis and then in the table daily_pnl; the engine     *)
(* asks allow() before it takes a signal, and refreshes the capital the    *)
(* limit is a share of.                                                    *)
(*                                                                         *)
(* Redis keys carry the date record() and allow() compute from the clock,  *)
(* table rows the date of the database; midnight may fall between any two  *)
(* awaits.  A capital is represented by the limit it gives (capital times  *)
(* DAILY_PNL_LIMIT_PCT).  The keys live for 25 hours, so for their day.    *)
(***************************************************************************)
EXTENDS Integers

CONSTANTS
    LastDay,     \* bound: the days are 1..LastDay
    Pnls,        \* the P&L a trade may have
    EnvLimit,    \* limit by ACCOUNT_CAPITAL
    LiveLimits,  \* limits by the margin Upstox may report
    Highest,     \* no limit is higher
    NoLimit,     \* no daily_capital key
    MaxTrades,   \* bound: trades recorded
    MaxFaults    \* bound: crashes and failed calls

ASSUME GuardAssumption ==
    /\ LastDay \in Nat \ {0}
    /\ Pnls \subseteq Int
    /\ EnvLimit \in Nat /\ LiveLimits \subseteq Nat
    /\ Highest \in Nat
    /\ \A l \in LiveLimits \cup {EnvLimit} : l <= Highest
    /\ NoLimit \notin Int
    /\ MaxTrades \in Nat /\ MaxFaults \in Nat

VARIABLES
    today,    \* the date, in India and in the database
    morning,  \* it is not 9:15 yet
    total,    \* Redis daily_pnl:{date}
    flag,     \* Redis pnl_limit:{date}
    capital,  \* Redis daily_capital:{date}
    table,    \* daily_pnl.realized_pnl per trading_date
    rows,     \* trading dates with a row
    marked,   \* daily_pnl.pnl_limit_hit per trading_date
    rec,      \* where each task stands in record()
    gate,     \* history: the last answer of allow() on each day
    peak,     \* history: days whose total has reached every possible limit
    cut,      \* history: days with a record() that did not come to its end
    split,    \* history: days that share a record() with another day
    trades,   \* history: trades recorded
    faults    \* history: faults so far

redis   == <<total, flag, capital>>
db      == <<table, rows, marked>>
clock   == <<today, morning>>
history == <<gate, peak, cut, split, trades, faults>>
vars    == <<clock, redis, db, rec, history>>

Days      == 1..LastDay
Recorders == {"ws", "recon"}
Steps     == {"idle", "look", "flag", "upsert", "mark"}
Record    == [step : Steps, date : Days, pnl : Int, new : Int, hit : BOOLEAN]
NoRecord  == [step |-> "idle", date |-> 1, pnl |-> 0, new |-> 0, hit |-> FALSE]

TypeOK ==
    /\ today \in Days /\ morning \in BOOLEAN
    /\ total \in [Days -> Int] /\ flag \in [Days -> BOOLEAN]
    /\ capital \in [Days -> LiveLimits \cup {NoLimit}]
    /\ table \in [Days -> Int] /\ rows \subseteq Days /\ marked \in [Days -> BOOLEAN]
    /\ rec \in [Recorders -> Record]
    /\ gate \in [Days -> {"unasked", "open", "shut"}]
    /\ peak \subseteq Days /\ cut \subseteq Days /\ split \subseteq Days
    /\ trades \in Nat /\ faults \in Nat

Init ==
    /\ today = 1 /\ morning = TRUE
    /\ total = [d \in Days |-> 0] /\ flag = [d \in Days |-> FALSE]
    /\ capital = [d \in Days |-> NoLimit]
    /\ table = [d \in Days |-> 0] /\ rows = {} /\ marked = [d \in Days |-> FALSE]
    /\ rec = [r \in Recorders |-> NoRecord]
    /\ gate = [d \in Days |-> "unasked"]
    /\ peak = {} /\ cut = {} /\ split = {} /\ trades = 0 /\ faults = 0

Fault == faults < MaxFaults /\ faults' = faults + 1

-----------------------------------------------------------------------------
(* The limit *)

\* The live capital of the day, else the one of the environment.
Limit(d) == IF capital[d] = NoLimit THEN EnvLimit ELSE capital[d]

\* A profit or a loss that reaches the limit.
Reaches(pnl, limit) == pnl >= limit \/ pnl <= -limit

-----------------------------------------------------------------------------
(* allow() *)

\* Mutant of Ask: the script refuses without setting the flag.
AskOnly ==
    /\ gate' = [gate EXCEPT ![today] =
           IF flag[today] \/ Reaches(total[today], Limit(today)) THEN "shut" ELSE "open"]
    /\ UNCHANGED <<clock, redis, db, rec, peak, cut, split, trades, faults>>

\* One script: a refusal sets the flag.
Ask ==
    /\ \/ /\ flag[today] \/ Reaches(total[today], Limit(today))
          /\ flag' = [flag EXCEPT ![today] = TRUE]
          /\ gate' = [gate EXCEPT ![today] = "shut"]
       \/ /\ ~flag[today] /\ ~Reaches(total[today], Limit(today))
          /\ gate' = [gate EXCEPT ![today] = "open"]
          /\ UNCHANGED flag
    /\ UNCHANGED <<clock, total, capital, db, rec, peak, cut, split, trades, faults>>

-----------------------------------------------------------------------------
(* record() *)

Goto(r, step) == rec' = [rec EXCEPT ![r].step = step]

\* record() is over.
Done(r) == rec' = [rec EXCEPT ![r] = NoRecord]

\* INCRBYFLOAT under today's key; new is the total it returns.
Add(r) ==
    /\ rec[r].step = "idle" /\ trades < MaxTrades
    /\ \E x \in Pnls :
        LET new == total[today] + x IN
        /\ total' = [total EXCEPT ![today] = new]
        /\ rec' = [rec EXCEPT ![r] = [step |-> "look", date |-> today, pnl |-> x,
                                      new |-> new, hit |-> FALSE]]
        /\ peak' = IF Reaches(new, Highest) THEN peak \cup {today} ELSE peak
    /\ trades' = trades + 1
    /\ UNCHANGED <<clock, flag, capital, db, gate, cut, split, faults>>

\* Mutant of Look: the total is read again.
LookAgain(r) ==
    /\ rec[r].step = "look"
    /\ LET hit == Reaches(total[rec[r].date], Limit(rec[r].date)) IN
         rec' = [rec EXCEPT ![r].hit = hit, ![r].step = IF hit THEN "flag" ELSE "upsert"]
    /\ UNCHANGED <<clock, redis, db, history>>

\* GET of the capital; the total compared with the limit is the one Add got.
Look(r) ==
    /\ rec[r].step = "look"
    /\ LET hit == Reaches(rec[r].new, Limit(rec[r].date)) IN
         rec' = [rec EXCEPT ![r].hit = hit, ![r].step = IF hit THEN "flag" ELSE "upsert"]
    /\ UNCHANGED <<clock, redis, db, history>>

SetFlag(r) ==
    /\ rec[r].step = "flag"
    /\ flag' = [flag EXCEPT ![rec[r].date] = TRUE]
    /\ Goto(r, "upsert")
    /\ UNCHANGED <<clock, total, capital, db, history>>

\* A statement that falls on another day than the record began on.
Splits(r) == split' = IF today = rec[r].date THEN split ELSE split \cup {today, rec[r].date}

\* Mutant of Upsert: a conflict overwrites the day's P&L.
UpsertLast(r) ==
    /\ rec[r].step = "upsert"
    /\ table' = [table EXCEPT ![today] = rec[r].pnl]
    /\ rows' = rows \cup {today}
    /\ Splits(r)
    /\ IF rec[r].hit THEN Goto(r, "mark") ELSE Done(r)
    /\ UNCHANGED <<clock, redis, marked, gate, peak, cut, trades, faults>>

\* upsert_daily_pnl, under the database's date.
Upsert(r) ==
    /\ rec[r].step = "upsert"
    /\ table' = [table EXCEPT ![today] = @ + rec[r].pnl]
    /\ rows' = rows \cup {today}
    /\ Splits(r)
    /\ IF rec[r].hit THEN Goto(r, "mark") ELSE Done(r)
    /\ UNCHANGED <<clock, redis, marked, gate, peak, cut, trades, faults>>

\* mark_pnl_limit_hit: an UPDATE of the row there is.
Mark(r) ==
    /\ rec[r].step = "mark"
    /\ marked' = [marked EXCEPT ![today] = (today \in rows) \/ @]
    /\ Splits(r)
    /\ Done(r)
    /\ UNCHANGED <<clock, redis, table, rows, gate, peak, cut, trades, faults>>

\* Redis or the database raises: the rest of record() is not done.
Raise(r) ==
    /\ rec[r].step # "idle" /\ Fault
    /\ Done(r)
    /\ cut' = cut \cup {rec[r].date}
    /\ UNCHANGED <<clock, redis, db, gate, peak, split, trades>>

\* The tracker dies with both tasks.
Crash ==
    /\ Fault
    /\ rec' = [r \in Recorders |-> NoRecord]
    /\ cut' = cut \cup {rec[r].date : r \in {q \in Recorders : rec[q].step # "idle"}}
    /\ UNCHANGED <<clock, redis, db, gate, peak, split, trades>>

-----------------------------------------------------------------------------
(* The capital and the clock *)

\* _fetch_and_cache_capital, for the date at its end.
Fetch ==
    /\ \E l \in LiveLimits : capital' = [capital EXCEPT ![today] = l]
    /\ UNCHANGED <<total, flag>>

\* The engine starts on a day without a cached capital.
FetchAtStart ==
    /\ capital[today] = NoLimit
    /\ Fetch
    /\ UNCHANGED <<clock, db, rec, history>>

\* 9:15:05.  The fetch may fail, or the engine not be running.
FetchAtOpen ==
    /\ morning /\ morning' = FALSE
    /\ Fetch \/ UNCHANGED redis
    /\ UNCHANGED <<today, db, rec, history>>

Midnight ==
    /\ today < LastDay
    /\ today' = today + 1 /\ morning' = TRUE
    /\ UNCHANGED <<redis, db, rec, history>>

Next ==
    \/ Ask
    \/ \E r \in Recorders :
         Add(r) \/ Look(r) \/ SetFlag(r) \/ Upsert(r) \/ Mark(r) \/ Raise(r)
    \/ Crash
    \/ FetchAtStart \/ FetchAtOpen \/ Midnight

Spec == Init /\ [][Next]_vars

-----------------------------------------------------------------------------
(* Properties *)

\* Some record() of day d is at one of these steps.
Under(d, steps) == \E r \in Recorders : rec[r].date = d /\ rec[r].step \in steps

\* A day on which allow() has refused stays shut to its end, though the total
\* moves back and the capital is refreshed.
BlockedStaysBlocked == [][\A d \in Days : gate[d] = "shut" => gate'[d] = "shut"]_vars

\* A total that reaches the limit for a moment shuts the day, although the
\* tasks add to it between each other's reads and writes; the row says so
\* unless midnight fell into a record().
PeakIsNoticed ==
    \A d \in peak \ cut :
        /\ ~Under(d, {"look", "flag"}) => flag[d]
        /\ ~Under(d, Steps \ {"idle"}) => marked[d] \/ d \in split

\* Redis and the table agree on the P&L of a day, once its records are done.
BooksAgree ==
    \A d \in Days \ (cut \cup split) :
        ~Under(d, {"look", "flag", "upsert"}) => total[d] = table[d]

\* A row marked as limit hit tells of a day that is shut.
MarkIsTrue == \A d \in Days \ split : marked[d] => flag[d]
=============================================================================
