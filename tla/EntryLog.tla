------------------------------- MODULE EntryLog -------------------------------
(***************************************************************************)
(* What the first-generation pipeline promises about the entries of its    *)
(* stream: they are taken in turn, one after the other from where the      *)
(* reader began, none is passed over, and the position that a restart      *)
(* resumes from only moves forward, over entries that are done with.       *)
(* Delivery is at least once: an entry may be placed again, but only as    *)
(* often as an answer or a mark of it was lost.  Handlers, batches, the    *)
(* two sorted sets, retries, threads and crashes do not appear here;       *)
(* SignalStream implements this specification.                             *)
(***************************************************************************)
EXTENDS Integers, Sequences

CONSTANTS Posts, Hashes, HashOf

VARIABLES log,     \* the entries, each named by its post
          lapsed,  \* hashes that may appear again
          base,    \* the reader began behind this position
          done,    \* the entries it is done with
          pos,     \* the saved position
          made,    \* made[p]: orders created for p
          lost     \* lost[p]: answers and marks of p that were lost

logVars == <<log, lapsed, base, done, pos, made, lost>>

Init ==
    /\ log = <<>> /\ lapsed = {}
    /\ base = 0 /\ done = {} /\ pos = 0
    /\ made = [p \in Posts |-> 0] /\ lost = [p \in Posts |-> 0]

Indices == 1..Len(log)

\* All entries between the base and i, i included, are done with.
DoneUpTo(i) == \A j \in Indices : base < j /\ j <= i => log[j] \in done

\* Entry i is the next one, or one that is taken again.
Turn(i) == base < i /\ DoneUpTo(i - 1)

\* A post is published once, and a hash again only if it lapsed.
Publish(p) ==
    /\ \A i \in Indices :
         log[i] # p /\ (HashOf[log[i]] = HashOf[p] => HashOf[p] \in lapsed)
    /\ log' = Append(log, p)
    /\ UNCHANGED <<lapsed, base, done, pos, made, lost>>

Lapse ==
    /\ lapsed \subseteq lapsed' /\ lapsed' \subseteq Hashes
    /\ UNCHANGED <<log, base, done, pos, made, lost>>

\* Without a saved position the reader begins with what is published from now on.
Begin ==
    /\ pos = 0
    /\ base' \in base..Len(log)
    /\ UNCHANGED <<log, lapsed, done, pos, made, lost>>

OneMore(f, p) == [f EXCEPT ![p] = @ + 1]

\* An order for every loss, and one.
Place(i) ==
    /\ Turn(i)
    /\ made[log[i]] <= lost[log[i]]
    /\ made' = OneMore(made, log[i])
    /\ UNCHANGED <<log, lapsed, base, done, pos, lost>>

Lose(i) ==
    /\ Turn(i)
    /\ lost' = OneMore(lost, log[i])
    /\ \/ UNCHANGED made
       \/ made[log[i]] <= lost[log[i]] /\ made' = OneMore(made, log[i])
    /\ UNCHANGED <<log, lapsed, base, done, pos>>

Finish(i) ==
    /\ Turn(i)
    /\ done' = done \cup {log[i]}
    /\ UNCHANGED <<log, lapsed, base, pos, made, lost>>

Save(i) ==
    /\ pos < i /\ DoneUpTo(i)
    /\ pos' = i
    /\ UNCHANGED <<log, lapsed, base, done, made, lost>>

Next ==
    \/ \E p \in Posts : Publish(p)
    \/ Lapse
    \/ Begin
    \/ \E i \in Indices : Place(i) \/ Lose(i) \/ Finish(i) \/ Save(i)

Spec == Init /\ [][Next]_logVars
=============================================================================
