-------------------------- MODULE ChatConversation --------------------------
(***************************************************************************)
(* The tool loop of the chat agent, handle_user_message in                 *)
(* channels/core/agent.py: hops with calls, and the replies it forces when *)
(* the model fell silent, ran out of hops or described a change without    *)
(* proposing it.  On the terminal the list is the channel's history        *)
(* (prior) and goes on with the next message; a Feishu message has a list  *)
(* of its own.                                                             *)
(*                                                                         *)
(* attempt counts the user's messages, turn the hops.  What makes a reply  *)
(* a claim without a proposal is a choice, and so are the modes (eval,     *)
(* ROBORSI_DIRECT_3ROLE) in which the loop or its forcing runs at all.     *)
(***************************************************************************)
EXTENDS RolloutConversation

CONSTANT MaxHops  \* max_hops

ASSUME HopsAssumption == MaxHops \in Nat \ {0}

VARIABLES
    said,      \* final_text is not empty
    proposed   \* a propose_ call follows the last user message

chatRest == <<nudges, ids, crashed, abandoned>>

ChatTypeOK == said \in BOOLEAN /\ proposed \in BOOLEAN

ChatInit == said = FALSE /\ proposed = FALSE
-----------------------------------------------------------------------------
UserMessage ==
    /\ at = "idle" /\ attempt < RetryCap
    /\ attempt' = attempt + 1
    /\ convo' = IF prior = <<>> THEN <<Say("system"), Say("user")>>
                ELSE Append(prior, Say("user"))
    /\ at' = "turn" /\ turn' = 0 /\ said' = FALSE /\ proposed' = FALSE
    /\ UNCHANGED <<prior, todo, chatRest>>

Hop ==
    /\ at = "turn"
    /\ at' = "asked"
    /\ UNCHANGED <<convo, prior, turn, todo, attempt, said, proposed, chatRest>>

\* Mutant: forced calls are run and answered, their message is not kept.
ForcedCallsUnkept ==
    \E n \in 1 .. CallsPerTurn, proposes \in BOOLEAN :
        /\ \/ at = "asked" /\ at' = "calls" /\ said' \in {said, TRUE}
              /\ convo' = Append(convo, Calls([k \in 1 .. n |-> ids + k]))
           \/ at = "propose" /\ at' = "proposeCalls" /\ UNCHANGED <<said, convo>>
           \/ at = "latePropose" /\ at' = "lateCalls" /\ UNCHANGED <<said, convo>>
        /\ ids' = ids + n
        /\ todo' = [k \in 1 .. n |-> ids + k]
        /\ proposed' = (proposed \/ proposes)
        /\ UNCHANGED <<prior, turn, nudges, attempt, crashed, abandoned>>

\* The model calls tools, in a hop or where a proposal is demanded of it.
ChatCalls ==
    \E n \in 1 .. CallsPerTurn, proposes \in BOOLEAN :
        /\ \/ at = "asked" /\ at' = "calls" /\ said' \in {said, TRUE}
           \/ at = "propose" /\ at' = "proposeCalls" /\ UNCHANGED said
           \/ at = "latePropose" /\ at' = "lateCalls" /\ UNCHANGED said
        /\ ids' = ids + n
        /\ todo' = [k \in 1 .. n |-> ids + k]
        /\ convo' = Append(convo, Calls([k \in 1 .. n |-> ids + k]))
        /\ proposed' = (proposed \/ proposes)
        /\ UNCHANGED <<prior, turn, nudges, attempt, crashed, abandoned>>

CallIsAnswered ==
    /\ at \in {"calls", "proposeCalls", "lateCalls"} /\ todo # <<>>
    /\ convo' = Append(convo, Answer(Head(todo)))
    /\ todo' = Tail(todo)
    /\ UNCHANGED <<prior, at, turn, attempt, said, proposed, chatRest>>

\* The user's side of the conversation: a demand of the harness.
Demand(stage) ==
    /\ convo' = Append(convo, Say("user"))
    /\ proposed' = FALSE
    /\ at' = stage

\* The next hop; after the last one a reply is demanded if there is none.
\* Forced calls are followed by one call for the text that sums them up.
CallsAreDone ==
    /\ at \in {"calls", "proposeCalls", "lateCalls"} /\ todo = <<>>
    /\ IF at = "calls"
       THEN /\ turn' = turn + 1
            /\ IF turn + 1 < MaxHops THEN at' = "turn" /\ UNCHANGED <<convo, proposed>>
               ELSE IF said THEN at' = "over" /\ UNCHANGED <<convo, proposed>>
               ELSE Demand("lastReply")
       ELSE /\ at' = IF at = "proposeCalls" THEN "synthesis" ELSE "lateSynthesis"
            /\ UNCHANGED <<turn, convo, proposed>>
    /\ UNCHANGED <<prior, todo, attempt, said, chatRest>>

\* A reply without calls ends the hops; one that names a change and proposed
\* nothing is sent back.
Reply ==
    /\ at = "asked"
    /\ said' = TRUE
    /\ \/ /\ convo' = Append(convo, Calls(<<>>))
          /\ at' = "over" /\ UNCHANGED proposed
       \/ /\ ~proposed
          /\ convo' = convo \o <<Calls(<<>>), Say("user")>>
          /\ at' = "propose" /\ proposed' = FALSE
    /\ UNCHANGED <<prior, turn, todo, attempt, chatRest>>

Silence ==
    /\ at = "asked"
    /\ Demand("synthesis")
    /\ UNCHANGED <<prior, turn, todo, attempt, said, chatRest>>

\* The text that was demanded, if it comes: what replies to the demand behind
\* the last hop is shown to the user and not kept in the list.
DemandedText ==
    /\ at \in {"propose", "synthesis", "lastReply"}
    /\ at' = "over"
    /\ \/ UNCHANGED <<convo, said>>
       \/ /\ said' = TRUE
          /\ convo' = IF at = "lastReply" THEN convo ELSE Append(convo, Calls(<<>>))
    /\ UNCHANGED <<prior, turn, todo, attempt, proposed, chatRest>>

\* The check behind the loop.
LateDemand ==
    /\ at = "over" /\ said /\ ~proposed
    /\ Demand("latePropose")
    /\ UNCHANGED <<prior, turn, todo, attempt, said, chatRest>>

\* The terminal keeps the list, a Feishu message does not.
MessageIsHandled(keepsHistory) ==
    /\ at \in {"over", "latePropose", "lateSynthesis"}
    /\ Leave(IF keepsHistory THEN convo ELSE <<>>)
    /\ UNCHANGED <<attempt, ids, crashed, abandoned, said, proposed>>

\* INTERRUPT is looked for before a hop and before each of its calls.  It
\* reaches the sessions of the process that serves the monitor, which is the
\* Feishu bot's.
Interrupted ==
    /\ \/ at = "turn"
       \/ at = "calls" /\ todo # <<>>
    /\ Leave(<<>>)
    /\ UNCHANGED <<attempt, ids, crashed, abandoned, said, proposed>>

ChatStep ==
    \/ UserMessage \/ Hop \/ ChatCalls \/ CallIsAnswered \/ CallsAreDone
    \/ Reply \/ Silence \/ DemandedText \/ LateDemand
=============================================================================
