--------------------------- MODULE FeishuChannel ---------------------------
(***************************************************************************)
(* How a Feishu message becomes one piece of work.  Feishu delivers an     *)
(* event until it is acknowledged, more than once and at the same time;    *)
(* the bot writes the event's id to a database before it acknowledges, and *)
(* leaves the work to a thread of its own, which waits for its chat's      *)
(* turn.  The bot may die at any time; the database stays.                 *)
(*                                                                         *)
(* What the work is belongs to the module that extends this one.  Events   *)
(* without an id, messages that are not text and senders that are not      *)
(* allowed end without work and are left out.                              *)
(***************************************************************************)
EXTENDS Naturals, FiniteSets

CONSTANTS
    Message,
    ChatOf,             \* the chat of a message
    MaxDeliveries       \* bound: deliveries of each event

Delivery == UNION {{m} \X (1 .. MaxDeliveries[m]) : m \in Message}

VARIABLES
    thread,     \* where the handling of a delivery is
    seen,       \* feishu_dedup.db
    acked,      \* what Feishu has an answer for
    answered,   \* a card or a cross for the message
    dropped     \* recorded, and its work was ended by the bot's death

channelVars == <<thread, seen, acked, answered, dropped>>

Stage == {"none", "look", "record", "accept", "wait", "work", "answer", "done"}

ChannelTypeOK ==
    /\ thread \in [Delivery -> Stage]
    /\ seen \subseteq Message /\ acked \subseteq Message
    /\ answered \subseteq Message /\ dropped \subseteq Message

ChannelInit ==
    /\ thread = [d \in Delivery |-> "none"]
    /\ seen = {} /\ acked = {} /\ answered = {} /\ dropped = {}

ThreadGoes(d, at) == thread' = [thread EXCEPT ![d] = at]
ThreadsAt(m, stages) == {d \in Delivery : d[1] = m /\ thread[d] \in stages}

\* Mutant: the lock is not given back by work that raised.
WorkingOrRaised(chat) ==
    {d \in Delivery : /\ ChatOf[d[1]] = chat
                      /\ \/ thread[d] \in {"work", "answer"}
                         \/ thread[d] = "done" /\ d[1] \in answered}

\* The chat's lock is held from the first step of the work to the last.
Working(chat) == {d \in Delivery : ChatOf[d[1]] = chat /\ thread[d] \in {"work", "answer"}}
-----------------------------------------------------------------------------
\* Feishu sends what is new, or what has no acknowledgement yet.
Deliver(d) ==
    /\ thread[d] = "none" /\ d[1] \notin acked
    /\ \A n \in 1 .. d[2] - 1 : thread[<<d[1], n>>] # "none"
    /\ ThreadGoes(d, "look")
    /\ UNCHANGED <<seen, acked, answered, dropped>>

\* is_duplicate_event: an id that is there is acknowledged and no more.
LookUp(d) ==
    /\ thread[d] = "look"
    /\ IF d[1] \in seen
       THEN ThreadGoes(d, "done") /\ acked' = acked \cup {d[1]}
       ELSE ThreadGoes(d, "record") /\ UNCHANGED acked
    /\ UNCHANGED <<seen, answered, dropped>>

\* Mutant: INSERT OR REPLACE.
RecordAnyway(d) ==
    /\ thread[d] = "record"
    /\ seen' = seen \cup {d[1]} /\ ThreadGoes(d, "accept")
    /\ UNCHANGED <<acked, answered, dropped>>

\* The id is the table's primary key: the second of two inserts raises, and
\* its delivery ends without an acknowledgement.
Record(d) ==
    /\ thread[d] = "record"
    /\ IF d[1] \in seen
       THEN ThreadGoes(d, "done") /\ UNCHANGED seen
       ELSE seen' = seen \cup {d[1]} /\ ThreadGoes(d, "accept")
    /\ UNCHANGED <<acked, answered, dropped>>

\* A database that is locked or gone raises before anything is recorded.
LookUpFails(d) ==
    /\ thread[d] \in {"look", "record"} /\ ThreadGoes(d, "done")
    /\ UNCHANGED <<seen, acked, answered, dropped>>

\* The thread is started, then Feishu is told.
Accept(d) ==
    /\ thread[d] = "accept"
    /\ ThreadGoes(d, "wait") /\ acked' = acked \cup {d[1]}
    /\ UNCHANGED <<seen, answered, dropped>>

TakeTurn(d) ==
    /\ thread[d] = "wait" /\ Working(ChatOf[d[1]]) = {}
    /\ ThreadGoes(d, "work")
    /\ UNCHANGED <<seen, acked, answered, dropped>>

WorkEnds(d) ==
    /\ thread[d] = "work" /\ ThreadGoes(d, "answer")
    /\ UNCHANGED <<seen, acked, answered, dropped>>

\* A card, or a cross for work that raised.
Answer(d) ==
    /\ thread[d] = "answer" /\ ThreadGoes(d, "done")
    /\ answered' = answered \cup {d[1]}
    /\ UNCHANGED <<seen, acked, dropped>>

\* All threads of the bot end; what was recorded stays recorded.
BotDies ==
    /\ \E d \in Delivery : thread[d] \notin {"none", "done"}
    /\ thread' = [d \in Delivery |-> IF thread[d] = "none" THEN "none" ELSE "done"]
    /\ dropped' = dropped \cup {m \in seen : ThreadsAt(m, {"accept", "wait", "work", "answer"}) # {}}
    /\ UNCHANGED <<seen, acked, answered>>

Accepting(d) == LookUp(d) \/ Record(d) \/ Accept(d) \/ Answer(d)
=============================================================================
