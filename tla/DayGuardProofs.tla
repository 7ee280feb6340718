---------------------------- MODULE DayGuardProofs ----------------------------
(***************************************************************************)
(* Theorems about DayGuard for every number of days, every P&L, every      *)
(* limit and any number of trades and faults.                              *)
(***************************************************************************)
EXTENDS DayGuard, TLAPS

\* The limit of any day lies below the highest one.
LEMMA LimitBounded ==
    ASSUME GuardAssumption, TypeOK, NEW d \in Days, NEW n \in Int, Reaches(n, Highest)
    PROVE  Reaches(n, Limit(d))
<1>1. Limit(d) \in LiveLimits \cup {EnvLimit}
  BY DEF Limit, TypeOK
<1>2. Limit(d) \in Nat /\ Highest \in Nat
  BY <1>1 DEF GuardAssumption
<1>3. Limit(d) <= Highest
  BY <1>1 DEF GuardAssumption
<1> QED
  BY <1>2, <1>3 DEF Reaches

-----------------------------------------------------------------------------
(* Types *)

\* A step of record() writes one task's record and nobody else's.
LEMMA TypeStep ==
    ASSUME GuardAssumption, TypeOK, [Next]_vars
    PROVE  TypeOK'
<1> USE DEF TypeOK, clock, redis, db, history
<1>0. NoRecord \in Record
  BY DEF GuardAssumption, NoRecord, Record, Steps, Days
<1>1. CASE Ask
  BY <1>1 DEF Ask
<1>2. ASSUME NEW r \in Recorders, Add(r)
      PROVE  TypeOK'
  <2>1. PICK x \in Pnls :
          LET new == total[today] + x IN
          /\ total' = [total EXCEPT ![today] = new]
          /\ rec' = [rec EXCEPT ![r] = [step |-> "look", date |-> today, pnl |-> x,
                                        new |-> new, hit |-> FALSE]]
          /\ peak' = IF Reaches(new, Highest) THEN peak \cup {today} ELSE peak
    BY <1>2 DEF Add
  <2>2. x \in Int /\ total[today] + x \in Int
    BY <1>2 DEF GuardAssumption
  <2>3. [step |-> "look", date |-> today, pnl |-> x, new |-> total[today] + x,
         hit |-> FALSE] \in Record
    BY <2>2 DEF Record, Steps
  <2>4. rec' \in [Recorders -> Record] /\ total' \in [Days -> Int] /\ peak' \subseteq Days
    BY <2>1, <2>2, <2>3
  <2> QED
    BY <1>2, <2>4 DEF Add
<1>3. ASSUME NEW r \in Recorders, Look(r)
      PROVE  TypeOK'
  <2>1. rec' \in [Recorders -> Record]
    BY <1>3 DEF Look, Record, Steps, Reaches
  <2> QED
    BY <1>3, <2>1 DEF Look
<1>4. ASSUME NEW r \in Recorders, SetFlag(r)
      PROVE  TypeOK'
  <2>1. rec' \in [Recorders -> Record]
    BY <1>4 DEF SetFlag, Goto, Record, Steps
  <2> QED
    BY <1>4, <2>1 DEF SetFlag
<1>5. ASSUME NEW r \in Recorders, Upsert(r)
      PROVE  TypeOK'
  <2>1. rec' \in [Recorders -> Record]
    BY <1>0, <1>5 DEF Upsert, Goto, Done, Record, Steps
  <2>2. rec[r] \in Record /\ rec[r].pnl \in Int /\ rec[r].date \in Days
    BY DEF Record
  <2>3. table' \in [Days -> Int] /\ rows' \subseteq Days /\ split' \subseteq Days
    BY <1>5, <2>2 DEF Upsert, Splits
  <2> QED
    BY <1>5, <2>1, <2>3 DEF Upsert
<1>6. ASSUME NEW r \in Recorders, Mark(r)
      PROVE  TypeOK'
  <2>1. rec' \in [Recorders -> Record]
    BY <1>0, <1>6 DEF Mark, Done
  <2>2. rec[r].date \in Days
    BY DEF Record
  <2>3. marked' \in [Days -> BOOLEAN] /\ split' \subseteq Days
    BY <1>6, <2>2 DEF Mark, Splits
  <2> QED
    BY <1>6, <2>1, <2>3 DEF Mark
<1>7. ASSUME NEW r \in Recorders, Raise(r)
      PROVE  TypeOK'
  <2>1. rec' \in [Recorders -> Record]
    BY <1>0, <1>7 DEF Raise, Done
  <2>2. rec[r].date \in Days
    BY DEF Record
  <2> QED
    BY <1>7, <2>1, <2>2 DEF Raise, Fault
<1>8. CASE Crash
  <2>1. \A r \in Recorders : rec[r].date \in Days
    BY DEF Record
  <2> QED
    BY <1>0, <1>8, <2>1 DEF Crash, Fault
<1>9. CASE FetchAtStart \/ FetchAtOpen
  <2>1. CASE Fetch
    BY <1>9, <2>1 DEF Fetch, FetchAtStart, FetchAtOpen
  <2>2. CASE UNCHANGED redis
    BY <1>9, <2>2 DEF FetchAtStart, FetchAtOpen
  <2> QED
    BY <1>9, <2>1, <2>2 DEF FetchAtStart, FetchAtOpen
<1>10. CASE Midnight
  BY <1>10 DEF Midnight, GuardAssumption, Days
<1>11. CASE UNCHANGED vars
  BY <1>11 DEF vars
<1> QED
  BY <1>1, <1>2, <1>3, <1>4, <1>5, <1>6, <1>7, <1>8, <1>9, <1>10, <1>11 DEF Next

LEMMA InitTypes ==
    ASSUME GuardAssumption, Init
    PROVE  TypeOK
BY DEF GuardAssumption, Init, TypeOK, NoRecord, Record, Steps, Days

\* The variables keep their types.
THEOREM TypeCorrect == Spec => []TypeOK
<1>1. Init => TypeOK
  BY InitTypes, GuardAssumption
<1>2. TypeOK /\ [Next]_vars => TypeOK'
  BY TypeStep, GuardAssumption
<1> QED
  BY <1>1, <1>2, PTL DEF Spec

-----------------------------------------------------------------------------
(* The flag *)

\* A refusal has set the flag, and no step takes it back.
ShutIsFlagged == \A d \in Days : gate[d] = "shut" => flag[d]

LEMMA FlagStays ==
    ASSUME TypeOK, [Next]_vars, NEW d \in Days, flag[d]
    PROVE  flag'[d]
<1> USE DEF TypeOK, redis, db, clock, history
<1>1. CASE Ask
  BY <1>1 DEF Ask
<1>2. ASSUME NEW r \in Recorders, Add(r) \/ Look(r) \/ Upsert(r) \/ Mark(r) \/ Raise(r)
      PROVE  flag' = flag
  BY <1>2 DEF Add, Look, Upsert, Mark, Raise
<1>3. ASSUME NEW r \in Recorders, SetFlag(r)
      PROVE  flag'[d]
  BY <1>3 DEF SetFlag
<1>4. CASE Crash \/ FetchAtStart \/ FetchAtOpen \/ Midnight \/ UNCHANGED vars
  BY <1>4 DEF Crash, FetchAtStart, FetchAtOpen, Fetch, Midnight, vars
<1> QED
  BY <1>1, <1>2, <1>3, <1>4 DEF Next

\* Only allow() moves the gate.
LEMMA GateMoves ==
    ASSUME [Next]_vars
    PROVE  Ask \/ UNCHANGED gate
BY DEF Next, vars, history, Add, Look, SetFlag, Upsert, Mark, Raise, Crash, FetchAtStart,
       FetchAtOpen, Midnight

LEMMA ShutStep ==
    ASSUME TypeOK, ShutIsFlagged, [Next]_vars
    PROVE  ShutIsFlagged' /\ \A d \in Days : gate[d] = "shut" => gate'[d] = "shut"
<1>1. CASE Ask
  BY <1>1 DEF Ask, ShutIsFlagged, TypeOK
<1>2. CASE UNCHANGED gate
  BY <1>2, FlagStays DEF ShutIsFlagged
<1> QED
  BY <1>1, <1>2, GateMoves

\* Once allow() has refused for the day's P&L it refuses to the end of the day,
\* through every later record() and every refresh of the capital.
THEOREM DaysStayBlocked == Spec => BlockedStaysBlocked
<1>1. Init => ShutIsFlagged
  BY DEF Init, ShutIsFlagged
<1>2. TypeOK /\ ShutIsFlagged /\ [Next]_vars
        => ShutIsFlagged' /\ [\A d \in Days : gate[d] = "shut" => gate'[d] = "shut"]_vars
  BY ShutStep
<1> QED
  BY <1>1, <1>2, TypeCorrect, PTL DEF Spec, BlockedStaysBlocked

-----------------------------------------------------------------------------
(* The two books *)

\* What a record() of day d has added in Redis and not yet in the table.
Due(r, d) ==
    IF rec[r].date = d /\ rec[r].step \in {"look", "flag", "upsert"} THEN rec[r].pnl ELSE 0

BooksBalance ==
    \A d \in Days \ (cut \cup split) : total[d] = table[d] + Due("ws", d) + Due("recon", d)

LEMMA DueType ==
    ASSUME TypeOK
    PROVE  \A r \in Recorders, d \in Days : Due(r, d) \in Int
BY DEF Due, TypeOK, Record

\* The other task's amount stays.
LEMMA OtherDue ==
    ASSUME TypeOK, NEW r \in Recorders, NEW v, rec' = [rec EXCEPT ![r] = v]
    PROVE  \A q \in Recorders \ {r}, d \in Days : Due(q, d)' = Due(q, d)
BY DEF Due, TypeOK

\* A step that moves x from one summand to another keeps the balance.
LEMMA Balance ==
    ASSUME TypeOK, TypeOK', NEW r \in Recorders, NEW d \in Days,
           \A q \in Recorders \ {r} : Due(q, d)' = Due(q, d),
           total[d] = table[d] + Due("ws", d) + Due("recon", d),
           total'[d] - total[d] = (table'[d] - table[d]) + (Due(r, d)' - Due(r, d))
    PROVE  total'[d] = table'[d] + Due("ws", d)' + Due("recon", d)'
<1>1. /\ total[d] \in Int /\ total'[d] \in Int /\ table[d] \in Int /\ table'[d] \in Int
      /\ \A q \in Recorders : Due(q, d) \in Int /\ Due(q, d)' \in Int
  BY DEF TypeOK, Due, Record
<1>2. CASE r = "ws"
  <2>1. Due("recon", d)' = Due("recon", d)
    BY <1>2 DEF Recorders
  <2>2. /\ Due("ws", d) \in Int /\ Due("ws", d)' \in Int
        /\ Due("recon", d) \in Int /\ Due("recon", d)' \in Int
    BY <1>1 DEF Recorders
  <2>3. Due(r, d) = Due("ws", d) /\ Due(r, d)' = Due("ws", d)'
    BY <1>2
  <2> QED
    BY <1>1, <2>1, <2>2, <2>3 DEF Due
<1>3. CASE r = "recon"
  <2>1. Due("ws", d)' = Due("ws", d)
    BY <1>3 DEF Recorders
  <2>2. /\ Due("ws", d) \in Int /\ Due("ws", d)' \in Int
        /\ Due("recon", d) \in Int /\ Due("recon", d)' \in Int
    BY <1>1 DEF Recorders
  <2>3. Due(r, d) = Due("recon", d) /\ Due(r, d)' = Due("recon", d)'
    BY <1>3
  <2> QED
    BY <1>1, <2>1, <2>2, <2>3 DEF Due
<1> QED
  BY <1>2, <1>3 DEF Recorders

LEMMA BooksStep ==
    ASSUME GuardAssumption, TypeOK, BooksBalance, [Next]_vars
    PROVE  BooksBalance'
<1>0. TypeOK'
  BY TypeStep
<1> SUFFICES ASSUME NEW d \in Days, d \notin cut', d \notin split'
             PROVE  total'[d] = table'[d] + Due("ws", d)' + Due("recon", d)'
  BY DEF BooksBalance
<1> USE DEF redis, db, clock, history
<1>1. ASSUME d \notin cut, d \notin split
      PROVE  total[d] = table[d] + Due("ws", d) + Due("recon", d)
  BY <1>1 DEF BooksBalance
<1>2. ASSUME NEW r \in Recorders, Add(r)
      PROVE  total'[d] = table'[d] + Due("ws", d)' + Due("recon", d)'
  <2>1. PICK x \in Pnls :
          /\ total' = [total EXCEPT ![today] = total[today] + x]
          /\ rec' = [rec EXCEPT ![r] = [step |-> "look", date |-> today, pnl |-> x,
                                        new |-> total[today] + x, hit |-> FALSE]]
    BY <1>2 DEF Add
  <2>2. x \in Int /\ today \in Days /\ total[d] \in Int /\ total[today] \in Int
    BY DEF GuardAssumption, TypeOK
  <2>3. Due(r, d) = 0
    BY <1>2 DEF Add, Due
  <2>4. Due(r, d)' = IF d = today THEN x ELSE 0
    BY <2>1 DEF Due, TypeOK
  <2>5. total'[d] = IF d = today THEN total[d] + x ELSE total[d]
    BY <2>1 DEF TypeOK
  <2>6. table' = table /\ cut' = cut /\ split' = split
    BY <1>2 DEF Add
  <2>7. total'[d] - total[d] = (table'[d] - table[d]) + (Due(r, d)' - Due(r, d))
    BY <2>2, <2>3, <2>4, <2>5, <2>6 DEF TypeOK
  <2> QED
    BY <1>0, <1>1, <2>1, <2>6, <2>7, OtherDue, Balance
<1>3. ASSUME NEW r \in Recorders, Look(r) \/ SetFlag(r)
      PROVE  total'[d] = table'[d] + Due("ws", d)' + Due("recon", d)'
  <2>1. \A q \in Recorders : Due(q, d)' = Due(q, d)
    BY <1>3 DEF Look, SetFlag, Goto, Due, TypeOK, Record
  <2>2. total' = total /\ table' = table /\ cut' = cut /\ split' = split
    BY <1>3 DEF Look, SetFlag
  <2> QED
    BY <1>1, <2>1, <2>2 DEF Recorders
<1>4. ASSUME NEW r \in Recorders, Upsert(r)
      PROVE  total'[d] = table'[d] + Due("ws", d)' + Due("recon", d)'
  <2>1. \A q \in Recorders \ {r} : Due(q, d)' = Due(q, d)
    BY <1>4 DEF Upsert, Goto, Done, Due, TypeOK
  <2>2. Due(r, d)' = 0
    <3>1. CASE Goto(r, "mark")
      BY <3>1 DEF Goto, Due, TypeOK
    <3>2. CASE Done(r)
      BY <3>2 DEF Done, Due, TypeOK, NoRecord
    <3> QED
      BY <1>4, <3>1, <3>2 DEF Upsert
  <2>3. total' = total /\ cut' = cut /\ split \subseteq split'
    BY <1>4 DEF Upsert, Splits
  <2>4. rec[r].pnl \in Int /\ table[d] \in Int
    BY DEF TypeOK, Record
  <2>5. CASE d = today
    <3>1. rec[r].date = today
      BY <1>4, <2>5 DEF Upsert, Splits
    <3>2. Due(r, d) = rec[r].pnl /\ table'[d] = table[d] + rec[r].pnl
      BY <1>4, <2>5, <3>1 DEF Upsert, Due, TypeOK
    <3> QED
      BY <1>0, <1>1, <2>1, <2>2, <2>3, <2>4, <3>2, Balance DEF TypeOK
  <2>6. CASE d # today
    <3>1. rec[r].date # d
      BY <1>4, <2>6 DEF Upsert, Splits
    <3>2. Due(r, d) = 0 /\ table'[d] = table[d]
      BY <1>4, <2>6, <3>1 DEF Upsert, Due, TypeOK
    <3> QED
      BY <1>0, <1>1, <2>1, <2>2, <2>3, <2>4, <3>2, Balance DEF TypeOK
  <2> QED
    BY <2>5, <2>6
<1>5. ASSUME NEW r \in Recorders, Mark(r) \/ Raise(r)
      PROVE  total'[d] = table'[d] + Due("ws", d)' + Due("recon", d)'
  <2>1. \A q \in Recorders \ {r} : Due(q, d)' = Due(q, d)
    BY <1>5 DEF Mark, Raise, Done, Due, TypeOK
  <2>2. Due(r, d)' = 0
    BY <1>5 DEF Mark, Raise, Done, Due, TypeOK, NoRecord
  <2>3. Due(r, d) = 0
    BY <1>5 DEF Mark, Raise, Due
  <2>4. total' = total /\ table' = table /\ cut \subseteq cut' /\ split \subseteq split'
    BY <1>5 DEF Mark, Raise, Splits
  <2> QED
    BY <1>1, <2>1, <2>2, <2>3, <2>4 DEF Recorders
<1>6. CASE Crash
  <2>1. \A q \in Recorders : Due(q, d) = 0 /\ Due(q, d)' = 0
    BY <1>6 DEF Crash, Due, NoRecord
  <2> QED
    BY <1>1, <1>6, <2>1 DEF Crash, Recorders
<1>7. CASE Ask \/ FetchAtStart \/ FetchAtOpen \/ Midnight \/ UNCHANGED vars
  <2>1. UNCHANGED <<total, table, rec, cut, split>>
    BY <1>7 DEF Ask, FetchAtStart, FetchAtOpen, Fetch, Midnight, vars
  <2> QED
    BY <1>1, <2>1 DEF Due
<1> QED
  BY <1>2, <1>3, <1>4, <1>5, <1>6, <1>7 DEF Next

\* Redis and daily_pnl hold the same P&L for a day whose records are done,
\* unless one was cut short or met midnight.
THEOREM BooksDoAgree == Spec => []BooksAgree
<1>1. Init => BooksBalance
  BY DEF Init, BooksBalance, Due, NoRecord, Recorders
<1>2. TypeOK /\ BooksBalance /\ [Next]_vars => BooksBalance'
  BY BooksStep, GuardAssumption
<1>3. TypeOK /\ BooksBalance => BooksAgree
  <2> SUFFICES ASSUME TypeOK, BooksBalance, NEW d \in Days \ (cut \cup split),
                      ~Under(d, {"look", "flag", "upsert"})
               PROVE  total[d] = table[d]
    BY DEF BooksAgree
  <2>1. Due("ws", d) = 0 /\ Due("recon", d) = 0
    BY DEF Under, Due, Recorders
  <2> QED
    BY <2>1 DEF BooksBalance, TypeOK
<1> QED
  BY <1>1, <1>2, <1>3, TypeCorrect, PTL DEF Spec
-----------------------------------------------------------------------------
(* The limit is noticed *)

\* Task r carries the news that day d has reached its limit.
Brings(r, d) ==
    /\ rec[r].date = d
    /\ \/ rec[r].step = "look" /\ Reaches(rec[r].new, Highest)
       \/ rec[r].step \in {"flag", "upsert", "mark"} /\ rec[r].hit

\* A hit is flagged before the table is written, and a row is there to mark.
RecordOrder ==
    \A r \in Recorders :
        /\ rec[r].step \in {"flag", "mark"} => rec[r].hit
        /\ rec[r].step \in {"upsert", "mark"} /\ rec[r].hit => flag[rec[r].date]
        /\ rec[r].step = "mark" /\ rec[r].date \notin split => rec[r].date \in rows

\* The news reaches the flag, and then the table, unless its bearer is lost.
NewsTravels ==
    \A d \in peak \ cut :
        /\ flag[d] \/ \E r \in Recorders : Brings(r, d) /\ rec[r].step \in {"look", "flag"}
        /\ d \in split \/ marked[d] \/ \E r \in Recorders : Brings(r, d)

NoticeInv == RecordOrder /\ NewsTravels /\ MarkIsTrue

LEMMA NoticeAdd ==
    ASSUME TypeOK, NoticeInv, NEW r \in Recorders, Add(r)
    PROVE  NoticeInv'
<1> USE DEF redis, db, clock, history
<1>1. PICK x \in Pnls :
        /\ rec' = [rec EXCEPT ![r] = [step |-> "look", date |-> today, pnl |-> x,
                                      new |-> total[today] + x, hit |-> FALSE]]
        /\ peak' = IF Reaches(total[today] + x, Highest) THEN peak \cup {today} ELSE peak
  BY DEF Add
<1>2. UNCHANGED <<flag, rows, marked, cut, split>>
  BY DEF Add
<1>3. RecordOrder' /\ MarkIsTrue'
  BY <1>1, <1>2 DEF NoticeInv, RecordOrder, MarkIsTrue, TypeOK
<1>4. \A q \in Recorders, d \in Days :
        Brings(q, d) => Brings(q, d)' /\ rec'[q] = rec[q]
  BY <1>1 DEF Brings, Add, TypeOK
<1>5. ASSUME NEW d \in peak' \ peak
      PROVE  Brings(r, d)' /\ rec'[r].step = "look"
  <2>1. d = today /\ Reaches(total[today] + x, Highest)
    BY <1>1, <1>5
  <2>2. rec'[r] = [step |-> "look", date |-> today, pnl |-> x, new |-> total[today] + x,
                   hit |-> FALSE]
    BY <1>1 DEF TypeOK
  <2>3. rec'[r].step = "look" /\ rec'[r].date = today /\ rec'[r].new = total[today] + x
    BY <2>2
  <2>4. Reaches(rec'[r].new, Highest)
    BY <2>1, <2>3
  <2> QED
    BY <2>1, <2>3, <2>4 DEF Brings, Reaches
<1>6. NewsTravels'
  <2> SUFFICES ASSUME NEW d \in peak' \ cut'
               PROVE  /\ \/ flag'[d]
                         \/ \E q \in Recorders : Brings(q, d)' /\ rec'[q].step \in {"look", "flag"}
                      /\ d \in split' \/ marked'[d] \/ \E q \in Recorders : Brings(q, d)'
    BY DEF NewsTravels
  <2>1. CASE d \in peak
    BY <1>2, <1>4, <2>1 DEF NoticeInv, NewsTravels, TypeOK
  <2>2. CASE d \notin peak
    BY <1>5, <2>2
  <2> QED
    BY <2>1, <2>2
<1> QED
  BY <1>3, <1>6 DEF NoticeInv

LEMMA NoticeLook ==
    ASSUME GuardAssumption, TypeOK, NoticeInv, NEW r \in Recorders, Look(r)
    PROVE  NoticeInv'
<1> USE DEF redis, db, clock, history
<1>1. UNCHANGED <<flag, rows, marked, cut, split, peak>>
  BY DEF Look
<1>2. PICK hit \in BOOLEAN :
        /\ hit = Reaches(rec[r].new, Limit(rec[r].date))
        /\ rec' = [rec EXCEPT ![r].hit = hit, ![r].step = IF hit THEN "flag" ELSE "upsert"]
  BY DEF Look, Reaches
<1>3. RecordOrder' /\ MarkIsTrue'
  BY <1>1, <1>2 DEF NoticeInv, RecordOrder, MarkIsTrue, TypeOK, Record
<1>4. \A q \in Recorders \ {r}, d \in Days : Brings(q, d) => Brings(q, d)' /\ rec'[q] = rec[q]
  BY <1>2 DEF Brings, TypeOK
<1>5. ASSUME NEW d \in Days, Brings(r, d)
      PROVE  Brings(r, d)' /\ rec'[r].step = "flag"
  <2>1. rec[r].date = d /\ rec[r].new \in Int /\ Reaches(rec[r].new, Highest)
    BY <1>5 DEF Brings, Look, TypeOK, Record
  <2>2. hit
    BY <1>2, <2>1, LimitBounded
  <2> QED
    BY <1>2, <2>1, <2>2 DEF Brings, TypeOK, Record
<1>6. NewsTravels'
  BY <1>1, <1>4, <1>5 DEF NoticeInv, NewsTravels, TypeOK
<1> QED
  BY <1>3, <1>6 DEF NoticeInv

LEMMA NoticeFlag ==
    ASSUME TypeOK, NoticeInv, NEW r \in Recorders, SetFlag(r)
    PROVE  NoticeInv'
<1> USE DEF redis, db, clock, history
<1>1. UNCHANGED <<rows, marked, cut, split, peak>>
  BY DEF SetFlag
<1>2. rec' = [rec EXCEPT ![r].step = "upsert"] /\ rec[r].step = "flag" /\ rec[r].hit
  BY DEF SetFlag, Goto, NoticeInv, RecordOrder
<1>3. \A d \in Days : flag[d] \/ d = rec[r].date => flag'[d]
  BY DEF SetFlag, TypeOK
<1>4. \A q \in Recorders : rec[q].date \in Days /\ rec'[q].date = rec[q].date
  BY <1>2 DEF TypeOK, Record
<1>5. RecordOrder' /\ MarkIsTrue'
  BY <1>1, <1>2, <1>3, <1>4 DEF NoticeInv, RecordOrder, MarkIsTrue, TypeOK, Record
<1>6. \A q \in Recorders, d \in Days : Brings(q, d) => Brings(q, d)'
  BY <1>2 DEF Brings, TypeOK, Record
<1>7. \A q \in Recorders \ {r} : rec'[q] = rec[q]
  BY <1>2 DEF TypeOK
<1>8. NewsTravels'
  BY <1>1, <1>3, <1>6, <1>7 DEF NoticeInv, NewsTravels, TypeOK, Brings
<1> QED
  BY <1>5, <1>8 DEF NoticeInv

LEMMA NoticeUpsert ==
    ASSUME TypeOK, NoticeInv, NEW r \in Recorders, Upsert(r)
    PROVE  NoticeInv'
<1> USE DEF redis, db, clock, history
<1>1. UNCHANGED <<flag, marked, cut, peak>> /\ split \subseteq split' /\ rows' = rows \cup {today}
  BY DEF Upsert, Splits
<1>2. rec[r].step = "upsert" /\ (rec[r].date \notin split' => rec[r].date = today)
  BY DEF Upsert, Splits
<1>3. CASE rec[r].hit
  <2>1. rec' = [rec EXCEPT ![r].step = "mark"]
    BY <1>3 DEF Upsert, Goto
  <2>2. rec'[r].date = rec[r].date /\ rec'[r].hit = rec[r].hit /\ rec'[r].step = "mark"
        /\ \A q \in Recorders \ {r} : rec'[q] = rec[q]
    BY <2>1 DEF TypeOK, Record
  <2>3. RecordOrder' /\ MarkIsTrue'
    BY <1>1, <1>2, <1>3, <2>2 DEF NoticeInv, RecordOrder, MarkIsTrue, TypeOK
  <2>4. \A q \in Recorders, d \in Days : Brings(q, d) => Brings(q, d)'
    BY <1>2, <1>3, <2>2 DEF Brings
  <2>5. NewsTravels'
    BY <1>1, <1>2, <2>2, <2>4 DEF NoticeInv, NewsTravels, TypeOK
  <2> QED
    BY <2>3, <2>5 DEF NoticeInv
<1>4. CASE ~rec[r].hit
  <2>1. rec' = [rec EXCEPT ![r] = NoRecord]
    BY <1>4 DEF Upsert, Done
  <2>2. rec'[r].step = "idle" /\ \A q \in Recorders \ {r} : rec'[q] = rec[q]
    BY <2>1 DEF TypeOK, NoRecord
  <2>3. RecordOrder' /\ MarkIsTrue'
    BY <1>1, <2>2 DEF NoticeInv, RecordOrder, MarkIsTrue, TypeOK
  <2>4. \A q \in Recorders, d \in Days : Brings(q, d) => q # r /\ Brings(q, d)'
    BY <1>2, <1>4, <2>2 DEF Brings
  <2>5. NewsTravels'
    BY <1>1, <2>2, <2>4 DEF NoticeInv, NewsTravels, TypeOK
  <2> QED
    BY <2>3, <2>5 DEF NoticeInv
<1> QED
  BY <1>3, <1>4

LEMMA NoticeMark ==
    ASSUME TypeOK, NoticeInv, NEW r \in Recorders, Mark(r)
    PROVE  NoticeInv'
<1> USE DEF redis, db, clock, history
<1>1. UNCHANGED <<flag, rows, cut, peak>> /\ split \subseteq split'
  BY DEF Mark, Splits
<1>2. rec[r].step = "mark" /\ (today \notin split' \/ rec[r].date \notin split' => rec[r].date = today)
  BY DEF Mark, Splits
<1>3. rec'[r].step = "idle" /\ \A q \in Recorders \ {r} : rec'[q] = rec[q]
  BY DEF Mark, Done, TypeOK, NoRecord
<1>4. \A d \in Days : marked'[d] = (marked[d] \/ (d = today /\ today \in rows))
  BY DEF Mark, TypeOK
<1>5. RecordOrder'
  BY <1>1, <1>3 DEF NoticeInv, RecordOrder, TypeOK
<1>6. MarkIsTrue'
  BY <1>1, <1>2, <1>4 DEF NoticeInv, RecordOrder, MarkIsTrue, TypeOK
<1>7. \A q \in Recorders, d \in Days :
        Brings(q, d) => (Brings(q, d)' /\ rec'[q] = rec[q]) \/ d \in split' \/ marked'[d]
  BY <1>1, <1>2, <1>3, <1>4 DEF Brings, NoticeInv, RecordOrder, TypeOK
<1>8. \A q \in Recorders, d \in Days :
        Brings(q, d) /\ rec[q].step \in {"look", "flag"} => Brings(q, d)' /\ rec'[q] = rec[q]
  BY <1>2, <1>3 DEF Brings
<1>9. NewsTravels'
  BY <1>1, <1>4, <1>7, <1>8 DEF NoticeInv, NewsTravels, TypeOK
<1> QED
  BY <1>5, <1>6, <1>9 DEF NoticeInv

LEMMA NoticeLost ==
    ASSUME TypeOK, NoticeInv, Crash \/ \E r \in Recorders : Raise(r)
    PROVE  NoticeInv'
<1> USE DEF redis, db, clock, history
<1>1. UNCHANGED <<flag, rows, marked, split, peak>> /\ cut \subseteq cut'
  BY DEF Crash, Raise
<1>2. \A q \in Recorders : rec'[q] = rec[q] \/ (rec'[q].step = "idle" /\ rec[q].step = "idle")
                              \/ (rec'[q].step = "idle" /\ rec[q].date \in cut')
  BY DEF Crash, Raise, Done, NoRecord, TypeOK
<1>3. RecordOrder' /\ MarkIsTrue'
  BY <1>1, <1>2 DEF NoticeInv, RecordOrder, MarkIsTrue, TypeOK
<1>4. \A q \in Recorders, d \in Days \ cut' : Brings(q, d) => Brings(q, d)' /\ rec'[q] = rec[q]
  BY <1>2 DEF Brings
<1>5. NewsTravels'
  BY <1>1, <1>4 DEF NoticeInv, NewsTravels, TypeOK
<1> QED
  BY <1>3, <1>5 DEF NoticeInv

LEMMA NoticeStep ==
    ASSUME GuardAssumption, TypeOK, NoticeInv, [Next]_vars
    PROVE  NoticeInv'
<1>1. CASE Ask \/ FetchAtStart \/ FetchAtOpen \/ Midnight \/ UNCHANGED vars
  <2>1. UNCHANGED <<rec, rows, marked, split, peak, cut>>
    BY <1>1 DEF Ask, FetchAtStart, FetchAtOpen, Midnight, vars, db, history
  <2>2. \A q \in Recorders, d \in Days : Brings(q, d)' = Brings(q, d)
    BY <2>1 DEF Brings
  <2>3. RecordOrder'
    <3>1. \A q \in Recorders : rec[q].date \in Days
      BY DEF TypeOK, Record
    <3> QED
      BY <2>1, <3>1, FlagStays DEF NoticeInv, RecordOrder
  <2>4. MarkIsTrue'
    BY <2>1, FlagStays DEF NoticeInv, MarkIsTrue
  <2>5. NewsTravels'
    BY <2>1, <2>2, FlagStays DEF NoticeInv, NewsTravels, TypeOK
  <2> QED
    BY <2>3, <2>4, <2>5 DEF NoticeInv
<1> QED
  BY <1>1, NoticeAdd, NoticeLook, NoticeFlag, NoticeUpsert, NoticeMark, NoticeLost DEF Next

LEMMA NoticeHolds == Spec => []NoticeInv
<1>1. Init => NoticeInv
  BY DEF Init, NoticeInv, RecordOrder, NewsTravels, MarkIsTrue, NoRecord
<1>2. TypeOK /\ NoticeInv /\ [Next]_vars => NoticeInv'
  BY NoticeStep, GuardAssumption
<1> QED
  BY <1>1, <1>2, TypeCorrect, PTL DEF Spec

\* A day whose total once reached the limit is shut when its records are done,
\* although the two tasks read and write between each other's steps.
THEOREM PeaksAreNoticed == Spec => []PeakIsNoticed
<1>1. NoticeInv => PeakIsNoticed
  <2> SUFFICES ASSUME NoticeInv, NEW d \in peak \ cut
               PROVE  /\ ~Under(d, {"look", "flag"}) => flag[d]
                      /\ ~Under(d, Steps \ {"idle"}) => marked[d] \/ d \in split
    BY DEF PeakIsNoticed
  <2>1. \A r \in Recorders : Brings(r, d) => Under(d, Steps \ {"idle"})
    BY DEF Brings, Under, Steps
  <2>2. \A r \in Recorders :
          Brings(r, d) /\ rec[r].step \in {"look", "flag"} => Under(d, {"look", "flag"})
    BY DEF Brings, Under
  <2> QED
    BY <2>1, <2>2 DEF NoticeInv, NewsTravels
<1> QED
  BY <1>1, NoticeHolds, PTL

\* The table never marks a day whose flag Redis does not hold, unless midnight
\* fell into a record().
THEOREM MarksAreTrue == Spec => []MarkIsTrue
<1>1. NoticeInv => MarkIsTrue
  BY DEF NoticeInv
<1> QED
  BY <1>1, NoticeHolds, PTL
=============================================================================
