------------------------------ MODULE TradeLife ------------------------------
(***************************************************************************)
(* What the tracker promises about one trade: it waits for its entry, runs *)
(* at one entry price, and is closed once, with two prices that the broker *)
(* filled and the difference of them; that difference enters the day's     *)
(* total once, later or never.  Tasks, messages, polls, crashes and the    *)
(* commits a step is made of do not appear here.  OrderTracker implements  *)
(* this specification, alone and with the requests of ManualActions.       *)
(*                                                                         *)
(* The promise is torn when somebody writes the row from an old view of    *)
(* it; even then only differences of fills reach the total.  A price or a  *)
(* gain that may be missing is a set of at most one number.                *)
(***************************************************************************)
EXTENDS Integers

CONSTANT Action    \* "BUY" or "SELL"

VARIABLES prices,  \* the prices the broker filled at
          stage,   \* what has become of the trade
          entry,   \* its entry price, from the moment the trade is running
          exit,    \* its exit price, once it is closed
          gain,    \* its profit or loss, once it is closed
          total,   \* what it added to the day's profit or loss
          torn     \* a write has rested on an old view

result   == <<entry, exit, gain>>
lifeVars == <<prices, stage, result, total, torn>>

Init ==
    /\ prices = {} /\ stage = "waiting"
    /\ entry = {} /\ exit = {} /\ gain = {}
    /\ total = 0 /\ torn = FALSE

Difference(e, x) == IF Action = "BUY" THEN x - e ELSE e - x

\* An entry price stays the one it was first taken for.
EntersAt(e) == entry \in {{}, {e}} /\ entry' = {e}

\* The broker fills an order.
Fill ==
    /\ \E p \in prices' : prices' = prices \cup {p}
    /\ UNCHANGED <<stage, result, total, torn>>

\* The position is open; also one whose order was reported as over before.
Run ==
    /\ stage \in {"waiting", "ended"} /\ stage' = "running"
    /\ \E e \in prices : EntersAt(e)
    /\ UNCHANGED <<prices, exit, gain, total, torn>>

\* The order was cancelled or has expired, whatever it had filled before.
End ==
    /\ stage # "closed" /\ stage' = "ended"
    /\ entry' = entry \/ \E e \in prices : EntersAt(e)
    /\ UNCHANGED <<prices, exit, gain, total, torn>>

Close ==
    /\ stage # "closed" /\ stage' = "closed"
    /\ \E e, x \in prices :
         EntersAt(e) /\ exit' = {x} /\ gain' = {Difference(e, x)}
    /\ UNCHANGED <<prices, total, torn>>

\* The gain of a closed trade is booked, unless it has been, or there is none.
Book ==
    /\ stage = "closed" /\ total = 0
    /\ total' # 0 /\ gain = {total'}
    /\ UNCHANGED <<prices, stage, result, torn>>

\* Somebody writes from an old view, or has done so.
Tear ==
    /\ torn'
    /\ \/ UNCHANGED total
       \/ torn /\ \E e, x \in prices : total' = total + Difference(e, x)
    /\ UNCHANGED prices

Next == Fill \/ Run \/ End \/ Close \/ Book \/ Tear

Spec == Init /\ [][Next]_lifeVars
=============================================================================
