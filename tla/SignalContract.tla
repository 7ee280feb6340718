--------------------------- MODULE SignalContract ---------------------------
(***************************************************************************)
(* What the trading engine promises about one trade idea, identified by    *)
(* its signal hash, whatever happens to the messages that carry it: a hash *)
(* is decided once, and only a claimed hash may be sent to the broker, at  *)
(* most once.  Stream, consumer group, crashes, write queue and retries do *)
(* not appear here; TradingEngine implements this specification.           *)
(***************************************************************************)

CONSTANT Hashes

VARIABLES verdict,   \* verdict[h]: what the signals table says about h
          calls      \* calls[h]: how many times place_gtt was invoked for h

contractVars == <<verdict, calls>>

Verdicts == {"none", "BLOCKED", "CLAIMED", "PLACED", "FAILED", "EXPIRED"}

ContractTypeOK ==
    /\ verdict \in [Hashes -> Verdicts]
    /\ calls \in [Hashes -> {0, 1}]

Init ==
    /\ verdict = [h \in Hashes |-> "none"]
    /\ calls = [h \in Hashes |-> 0]

Decide(h, from, to) ==
    /\ verdict[h] \in from
    /\ verdict' = [verdict EXCEPT ![h] = to]

\* A validation gate refuses the signal before anything was claimed.
Block(h) == Decide(h, {"none"}, "BLOCKED") /\ UNCHANGED calls

\* One message wins the row for its hash.
Claim(h) == Decide(h, {"none"}, "CLAIMED") /\ UNCHANGED calls

\* The winner sends its only placement call.
Call(h) ==
    /\ verdict[h] = "CLAIMED"
    /\ calls[h] = 0
    /\ calls' = [calls EXCEPT ![h] = 1]
    /\ UNCHANGED verdict

\* The broker's ids are recorded: only after the call was made.
Record(h) ==
    /\ calls[h] = 1
    /\ Decide(h, {"CLAIMED"}, "PLACED")
    /\ UNCHANGED calls

Fail(h) == Decide(h, {"CLAIMED"}, "FAILED") /\ UNCHANGED calls

Expire(h) == Decide(h, {"CLAIMED", "PLACED"}, "EXPIRED") /\ UNCHANGED calls

Next ==
    \E h \in Hashes :
        Block(h) \/ Claim(h) \/ Call(h) \/ Record(h) \/ Fail(h) \/ Expire(h)

Spec == Init /\ [][Next]_contractVars
=============================================================================
