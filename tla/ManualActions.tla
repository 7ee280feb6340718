---------------------------- MODULE ManualActions ----------------------------
(***************************************************************************)
(* The admin API's endpoints that trade, as further writers of the row     *)
(* that OrderTracker describes: cancel a signal, exit a signal, and exit a *)
(* position.  A request reads the row, talks to the broker over several    *)
(* awaits and then marks the row CANCELLED, whatever has become of it; the *)
(* tracker's two tasks, the engine's queue and the GTT's own legs go on    *)
(* meanwhile, and so do other requests.                                    *)
(*                                                                         *)
(* A quantity is counted in what the GTT buys or sells, in the direction   *)
(* of the trade: its entry opens 1, its exit legs close 1.                 *)
(***************************************************************************)
EXTENDS OrderTracker

CONSTANTS
    Requests,    \* HTTP requests
    MaxRetry,    \* MAX_RETRY of the Upstox client
    Default      \* default_quantity * lot_size

ASSUME RequestAssumption ==
    /\ MaxRetry \in Nat \ {0}
    /\ Default \in Nat \ {0}

VARIABLES
    asked,       \* asked[r]: the endpoint that request r called
    step,        \* where its handler stands
    named,       \* the row it read had gtt_order_ids
    qty,         \* quantity of its market order
    sends,       \* attempts at its market order so far
    errors,      \* something it collected as an error, or raised
    current,     \* history: nobody wrote the row since it was read
    out          \* net quantity traded by market orders

request == <<asked, step, named, qty, sends, errors>>
mvars   == <<vars, request, current, out>>

Endpoints == {"none", "cancel", "exit", "position"}

ManualTypeOK ==
    /\ asked \in [Requests -> Endpoints]
    /\ step \in [Requests -> {"idle", "lookup", "market", "cancel", "mark", "done"}]
    /\ named \in [Requests -> BOOLEAN] /\ errors \in [Requests -> BOOLEAN]
    /\ qty \in [Requests -> Int] /\ sends \in [Requests -> 0 .. MaxRetry]
    /\ current \in [Requests -> BOOLEAN]
    /\ out \in Int

MInit ==
    /\ Init
    /\ asked = [r \in Requests |-> "none"] /\ step = [r \in Requests |-> "idle"]
    /\ named = [r \in Requests |-> FALSE] /\ errors = [r \in Requests |-> FALSE]
    /\ qty = [r \in Requests |-> 0] /\ sends = [r \in Requests |-> 0]
    /\ current = [r \in Requests |-> FALSE]
    /\ out = 0

-----------------------------------------------------------------------------
(* Helpers *)

\* What the GTT has bought and sold; at most one of its exit legs fills.
Opened   == IF "ENTRY" \in Filled THEN 1 ELSE 0
Closed   == IF Exits \cap Filled # {} THEN 1 ELSE 0
Position == Opened - Closed - out

Live == gtt = "pending" \/ (gtt = "triggered" /\ Filled = {"ENTRY"})

\* What a request leaves alone while it talks to the broker.
Apart == <<legs, link, row, ids, work, fresh, raced, guard, unwritten>>

Goes(r, s) == step' = [step EXCEPT ![r] = s]
Notes(r)   == errors' = [errors EXCEPT ![r] = TRUE]

\* After the market order: the signal's GTT, or nothing more for a bare position.
Onward(r) == IF asked[r] = "exit" THEN "cancel" ELSE "done"

-----------------------------------------------------------------------------
(* The requests *)

\* Mutant of AskCancel: any signal can be cancelled.
AskCancelAny(r) ==
    /\ step[r] = "idle"
    /\ asked' = [asked EXCEPT ![r] = "cancel"]
    /\ named' = [named EXCEPT ![r] = ids]
    /\ current' = [current EXCEPT ![r] = TRUE]
    /\ Goes(r, "cancel")
    /\ UNCHANGED <<vars, qty, sends, errors, out>>

\* POST /signals/{id}/cancel; a signal that is over is refused.
AskCancel(r) ==
    /\ step[r] = "idle"
    /\ row.status \in Open
    /\ asked' = [asked EXCEPT ![r] = "cancel"]
    /\ named' = [named EXCEPT ![r] = ids]
    /\ current' = [current EXCEPT ![r] = TRUE]
    /\ Goes(r, "cancel")
    /\ UNCHANGED <<vars, qty, sends, errors, out>>

\* POST /signals/{id}/exit
AskExit(r) ==
    /\ step[r] = "idle"
    /\ row.status = "ACTIVE"
    /\ asked' = [asked EXCEPT ![r] = "exit"]
    /\ named' = [named EXCEPT ![r] = ids]
    /\ current' = [current EXCEPT ![r] = TRUE]
    /\ Goes(r, "lookup")
    /\ UNCHANGED <<vars, qty, sends, errors, out>>

\* POST /accounts/positions/exit: the position on the screen, its side and quantity.
AskPosition(r) ==
    /\ step[r] = "idle"
    /\ Position # 0
    /\ asked' = [asked EXCEPT ![r] = "position"]
    /\ qty' = [qty EXCEPT ![r] = Position]
    /\ Goes(r, "market")
    /\ UNCHANGED <<vars, named, sends, errors, current, out>>

\* Mutant of LookUp: the position is looked up under a key it is not listed by.
LookUpMisses(r) ==
    /\ step[r] = "lookup"
    /\ qty' = [qty EXCEPT ![r] = Default]
    /\ Goes(r, "market")
    /\ UNCHANGED <<vars, asked, named, sends, errors, current, out>>

\* The quantity of the position without its sign; of none, the default quantity.
LookUp(r) ==
    /\ step[r] = "lookup"
    /\ qty' = [qty EXCEPT ![r] = IF Position = 0 THEN Default
                                 ELSE IF Position > 0 THEN Position ELSE -Position]
    /\ Goes(r, "market")
    /\ UNCHANGED <<vars, asked, named, sends, errors, current, out>>

LookUpFails(r) ==
    /\ step[r] = "lookup"
    /\ Fault
    /\ qty' = [qty EXCEPT ![r] = Default]
    /\ Notes(r) /\ Goes(r, "market")
    /\ UNCHANGED <<broker, inbox, Apart, asked, named, sends, current, out>>

\* The market order is accepted, and fills.
Sell(r) ==
    /\ step[r] = "market"
    /\ out' = out + qty[r]
    /\ sends' = [sends EXCEPT ![r] = @ + 1]
    /\ Goes(r, Onward(r))
    /\ UNCHANGED <<vars, asked, named, qty, errors, current>>

\* No answer, or a 5xx: the order may have been executed, and is sent again; after
\* the last attempt the request ends with 502 and the row as it was.
SellUnanswered(r) ==
    /\ step[r] = "market"
    /\ Fault
    /\ out' \in {out, out + qty[r]}
    /\ sends' = [sends EXCEPT ![r] = @ + 1]
    /\ IF sends[r] + 1 < MaxRetry
       THEN UNCHANGED <<step, errors>>
       ELSE Goes(r, "done") /\ Notes(r)
    /\ UNCHANGED <<broker, inbox, Apart, asked, named, qty, current>>

\* A 4xx answer, a rejection, a broken connection: 502 at once.
SellFails(r) ==
    /\ step[r] = "market"
    /\ Fault
    /\ Goes(r, "done") /\ Notes(r)
    /\ UNCHANGED <<broker, inbox, Apart, asked, named, qty, sends, current, out>>

\* Every id in the row is cancelled; the broker refuses what is over.
CancelGtt(r) ==
    /\ step[r] = "cancel"
    /\ IF named[r] /\ Live
       THEN EndGtt /\ gtt' = "cancelled" /\ UNCHANGED errors
       ELSE /\ IF named[r] THEN Notes(r) ELSE UNCHANGED errors
            /\ UNCHANGED vars
    /\ Goes(r, "mark")
    /\ UNCHANGED <<asked, named, qty, sends, current, out>>

\* Mutant of CancelFails: the error is logged, but not collected.
CancelFailsQuietly(r) ==
    /\ step[r] = "cancel" /\ named[r]
    /\ Fault
    /\ \/ UNCHANGED <<gtt, inbox>>
       \/ Live /\ gtt' = "cancelled" /\ Send(<<[gtt |-> "cancelled", legs |-> {}]>>)
    /\ Goes(r, "mark")
    /\ UNCHANGED <<fills, Apart, asked, named, qty, sends, errors, current, out>>

\* The attempts go unanswered, though one of them may have cancelled the GTT.
CancelFails(r) ==
    /\ step[r] = "cancel" /\ named[r]
    /\ Fault
    /\ \/ UNCHANGED <<gtt, inbox>>
       \/ Live /\ gtt' = "cancelled" /\ Send(<<[gtt |-> "cancelled", legs |-> {}]>>)
    /\ Notes(r) /\ Goes(r, "mark")
    /\ UNCHANGED <<fills, Apart, asked, named, qty, sends, current, out>>

\* update_signal_status, without a condition on the status it overwrites.
Mark(r) ==
    /\ step[r] = "mark"
    /\ row' = [row EXCEPT !.status = "CANCELLED"]
    /\ raced' = (raced \/ ~current[r])
    /\ fresh' = [t \in Tasks |-> FALSE]
    /\ current' = [q \in Requests |-> FALSE]
    /\ Goes(r, "done")
    /\ UNCHANGED <<broker, inbox, unwritten, rules, ids, work, guard, faults,
                   asked, named, qty, sends, errors, out>>

\* The database is gone, or the admin API dies: the client sees an error.
RequestDies(r) ==
    /\ step[r] \in {"lookup", "market", "cancel", "mark"}
    /\ Fault
    /\ Goes(r, "done") /\ Notes(r)
    /\ UNCHANGED <<broker, inbox, Apart, asked, named, qty, sends, current, out>>

-----------------------------------------------------------------------------

Handler(r) ==
    \/ LookUp(r) \/ LookUpFails(r)
    \/ Sell(r) \/ SellUnanswered(r) \/ SellFails(r)
    \/ CancelGtt(r) \/ CancelFails(r) \/ Mark(r) \/ RequestDies(r)

Ask(r) == AskCancel(r) \/ AskExit(r) \/ AskPosition(r)

\* The others' steps; what they write makes the requests' view of the row old.
Beside(Part) ==
    /\ Part
    /\ current' = IF row' = row THEN current ELSE [r \in Requests |-> FALSE]
    /\ UNCHANGED <<request, out>>

Others == Beside(Next)

MNext == Others \/ \E r \in Requests : Ask(r) \/ Handler(r)

\* The tracker's and the engine's loops go on, and a handler runs to its end.
MFairness ==
    /\ WF_mvars(Beside(Ws)) /\ WF_mvars(Beside(Recon)) /\ WF_mvars(Beside(Engine))
    /\ \A r \in Requests : WF_mvars(Handler(r))

MSafety == MInit /\ [][MNext]_mvars
MSpec   == MSafety /\ MFairness
-----------------------------------------------------------------------------
(* Properties *)

\* An answer of cancel or exit without errors means that no leg of the GTT can
\* trade any more, unless the engine had not yet stored its ids when the row was
\* read: the loop of signals.py:62 then runs over nothing and the answer is clean.
CleanAnswerMeansDead ==
    \A r \in Requests :
      asked[r] \in {"cancel", "exit"} /\ step[r] = "done" /\ named[r] /\ ~errors[r] => ~Live

\* The market order of an exit does not turn the position around by itself: for
\* that an exit leg must have filled, or another request traded, or the position
\* not have been known, or the order have been sent more than once.
SoleExitNeverReverses ==
    \A r \in Requests :
      /\ asked[r] = "exit" /\ ~errors[r] /\ sends[r] <= 1
      /\ \A q \in Requests \ {r} : sends[q] = 0
      /\ Closed = 0
      => Position >= 0
=============================================================================
