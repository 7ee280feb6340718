--------------------------- MODULE SignalPipeline ---------------------------
(***************************************************************************)
(* The way of a trade idea from Telegram to its row: the signal ingestor   *)
(* (SignalIngestor.handle_message) composed with the trading engine that   *)
(* reads the stream it writes.                                             *)
(*                                                                         *)
(* Every delivery of a post runs its own handle_message; the handlers      *)
(* interleave at their awaits.  The handlers of one post that wait for the *)
(* mark are kept as one: all but the first find the mark and return.  A    *)
(* post has one entry for each time its mark was set, so PostOf gives it   *)
(* as many possible entries as its mark may be forgotten, and one.         *)
(* Whether a post is noise or a signal is its text's affair, a choice here.*)
(***************************************************************************)
EXTENDS TradingEngine

CONSTANTS
    Posts,     \* (chat_id, msg_id) of the Telegram posts
    PostOf,    \* PostOf[m]: the post stream entry m was made from
    Forgets    \* bound: how often the mark of a post may go

Made(p) == {m \in Msgs : PostOf[m] = p}

ASSUME PostAssumption ==
    /\ PostOf \in [Msgs -> Posts]
    /\ Forgets \in [Posts -> Nat]
    /\ IsFiniteSet(Msgs)
    /\ \A p \in Posts : Cardinality(Made(p)) = Forgets[p] + 1

VARIABLES
    arrived,   \* posts with a handler before the mark
    marked,    \* posts with a key signal_msg:{chat_id}:{msg_id}
    parsing,   \* posts with a handler between the mark and the AI's answer
    sending,   \* posts with a handler before XADD
    forgotten, \* history: how often the mark of a post went
    declined,  \* history: posts taken for noise or for no signal
    lost       \* history: posts with a handler that a fault cut short

handlers == <<arrived, marked, parsing, sending>>
ingestor == <<handlers, forgotten, declined, lost>>
pvars    == <<vars, ingestor>>

IngestorTypeOK ==
    /\ arrived \subseteq Posts /\ marked \subseteq Posts
    /\ parsing \subseteq Posts /\ sending \subseteq Posts
    /\ forgotten \in [Posts -> Nat]
    /\ declined \subseteq Posts /\ lost \subseteq Posts

PInit ==
    /\ Init
    /\ arrived = {} /\ marked = {} /\ parsing = {} /\ sending = {}
    /\ forgotten = [p \in Posts |-> 0] /\ declined = {} /\ lost = {}

-----------------------------------------------------------------------------
(* SignalIngestor.handle_message *)

\* Telegram delivers the post, perhaps not for the first time.
Receive(p) ==
    /\ arrived' = arrived \cup {p}
    /\ UNCHANGED <<vars, marked, parsing, sending, forgotten, declined, lost>>

\* Mutant of Mark: SET without NX.
MarkAgain(p) ==
    /\ p \in arrived
    /\ arrived' = arrived \ {p}
    /\ marked' = marked \cup {p}
    /\ \/ parsing' = parsing \cup {p} /\ UNCHANGED declined
       \/ declined' = declined \cup {p} /\ UNCHANGED parsing
    /\ UNCHANGED <<vars, sending, forgotten, lost>>

\* SET NX wins; a post that matches the pre-filter ends there.
Mark(p) ==
    /\ p \in arrived /\ p \notin marked
    /\ arrived' = arrived \ {p}
    /\ marked' = marked \cup {p}
    /\ \/ parsing' = parsing \cup {p} /\ UNCHANGED declined
       \/ declined' = declined \cup {p} /\ UNCHANGED parsing
    /\ UNCHANGED <<vars, sending, forgotten, lost>>

\* A duplicate delivery.
Skip(p) ==
    /\ p \in arrived /\ p \in marked
    /\ arrived' = arrived \ {p}
    /\ UNCHANGED <<vars, marked, parsing, sending, forgotten, declined, lost>>

\* Mutant of Parsed: a post that was delivered again is left to its new handler.
ParsedLast(p) ==
    /\ p \in parsing
    /\ parsing' = parsing \ {p}
    /\ sending' = IF p \in arrived THEN sending ELSE sending \cup {p}
    /\ UNCHANGED <<vars, arrived, marked, forgotten, declined, lost>>

\* The AI found a signal.
Parsed(p) ==
    /\ p \in parsing
    /\ parsing' = parsing \ {p}
    /\ sending' = sending \cup {p}
    /\ UNCHANGED <<vars, arrived, marked, forgotten, declined, lost>>

\* parse() answers None: no signal, or its provider failed, which it does not
\* tell apart.
NoSignal(p) ==
    /\ p \in parsing
    /\ parsing' = parsing \ {p}
    /\ declined' = declined \cup {p}
    /\ UNCHANGED <<vars, arrived, marked, sending, forgotten, lost>>

\* The context window, the parser or XADD raises: logged, and the mark stays.
HandlerFails(p) ==
    /\ p \in parsing \cup sending
    /\ parsing' = parsing \ {p} /\ sending' = sending \ {p}
    /\ lost' = lost \cup {p}
    /\ UNCHANGED <<vars, arrived, marked, forgotten, declined>>

\* stream_add.
AddEntry(p) ==
    /\ p \in sending
    /\ \E m \in Made(p) : Publish(m)
    /\ sending' = sending \ {p}
    /\ UNCHANGED <<arrived, marked, parsing, forgotten, declined, lost>>

\* The ingestor dies and is restarted; Telegram does not deliver again what the
\* old process had received.
IngestorDies ==
    /\ arrived \cup parsing \cup sending # {}
    /\ arrived' = {} /\ parsing' = {} /\ sending' = {}
    /\ lost' = lost \cup (arrived \ marked) \cup parsing \cup sending
    /\ UNCHANGED <<vars, marked, forgotten, declined>>

\* The key expires after a day, or Redis evicts it (volatile-lru); the handler
\* that set it is long done.
Forget(p) ==
    /\ p \in marked /\ p \notin parsing \cup sending
    /\ forgotten[p] < Forgets[p]
    /\ marked' = marked \ {p}
    /\ forgotten' = [forgotten EXCEPT ![p] = @ + 1]
    /\ UNCHANGED <<vars, arrived, parsing, sending, declined, lost>>

Handle(p) == Mark(p) \/ Skip(p) \/ Parsed(p) \/ NoSignal(p) \/ AddEntry(p)

-----------------------------------------------------------------------------

\* The engine without Publish, which is now AddEntry.
EngineNext ==
    \/ Process
    \/ WriterStep
    \/ \E h \in Hashes : Age(h)
    \/ ReconStart
    \/ ReconOne
    \/ Disturb
    \/ Restart

PNext ==
    \/ EngineNext /\ UNCHANGED ingestor
    \/ \E p \in Posts : Receive(p) \/ Handle(p) \/ HandlerFails(p) \/ Forget(p)
    \/ IngestorDies

\* The handlers run on as asyncio tasks and the AI call returns; nothing is
\* assumed of Telegram.
PFairness ==
    /\ \A p \in Posts : WF_pvars(Mark(p) \/ Skip(p))
    /\ \A p \in Posts : WF_pvars(Parsed(p) \/ NoSignal(p)) /\ WF_pvars(AddEntry(p))
    /\ WF_pvars(Process /\ UNCHANGED ingestor)
    /\ WF_pvars(WriterStep /\ UNCHANGED ingestor)
    /\ WF_pvars(ReconStart /\ UNCHANGED ingestor) /\ WF_pvars(ReconOne /\ UNCHANGED ingestor)
    /\ WF_pvars(Restart /\ UNCHANGED ingestor)

PSafety == PInit /\ [][PNext]_pvars
PSpec == PSafety /\ PFairness

-----------------------------------------------------------------------------
(* Properties *)

Published == unread \cup pel \cup acked

\* A post enters the stream at most once for each time it was marked, however
\* often it is delivered and however its handlers interleave, fail and die.
OncePerMark ==
    \A p \in Posts :
        Cardinality(Made(p) \cap Published) + Cardinality({p} \cap (parsing \cup sending))
            <= forgotten[p] + Cardinality({p} \cap marked)

\* A signal whose post was marked is in the stream or on its way there, unless
\* a fault cut its handler short: the mark alone never swallows one.
SignalIsKept ==
    \A p \in marked \ (declined \cup lost) :
        p \in parsing \cup sending \/ Made(p) \cap Published # {}

\* Every signal that is received ends as a row, whatever it says, as an entry
\* the engine cannot parse, as one left for the engine's next start, or in a
\* fault that is logged.
Decided(m) ==
    \/ status[HashOf[m]] # "none" \/ HashOf[m] \in excused
    \/ m \in Malformed /\ m \in acked
    \/ Parked(m)
SignalIsDecided ==
    \A p \in Posts :
        p \in arrived ~> p \in declined \cup lost \/ \E m \in Made(p) : Decided(m)
=============================================================================
