------------------------- MODULE ModelConversations -------------------------
(***************************************************************************)
(* Every conversation the program holds with a model that calls tools: the *)
(* rollout's and its continuation over the attempts of an atomic, those of *)
(* the baseline agents openeta and capx, and the chat agent's on the       *)
(* terminal and on Feishu.  They share the list's format, its conversion   *)
(* and what they owe the model's API: an answer behind its call, for each  *)
(* call.  kind says which of them a behaviour is; no step changes it.      *)
(***************************************************************************)
EXTENDS BaselineConversation, ChatConversation

VARIABLE kind

vars == <<convVars, said, proposed, kind>>

chat == {"terminal", "feishu"}

TypeOK ==
    /\ kind \in {"rollout", "openeta", "capx"} \cup chat
    /\ convo \in Seq(Message) /\ prior \in Seq(Message)
    /\ at \in {"idle", "turn", "asked", "calls", "left",
               "propose", "proposeCalls", "synthesis", "lastReply",
               "over", "latePropose", "lateCalls", "lateSynthesis"}
    /\ {turn, nudges, attempt, ids} \subseteq Nat
    /\ todo \in Seq(Nat) /\ crashed \in BOOLEAN /\ abandoned \in SUBSET (1 .. ids)
    /\ ChatTypeOK

Init ==
    /\ kind \in {"rollout", "openeta", "capx"} \cup chat
    /\ ConvInit /\ ChatInit

\* The episode or the session is over, at its end or by an error nobody on its
\* way catches.  The next one begins from nothing.
ConversationEnds ==
    /\ at # "idle" \/ attempt > 0
    /\ Leave(<<>>)
    /\ attempt' = 0 /\ ids' = 0
    /\ said' = FALSE /\ proposed' = FALSE
    /\ UNCHANGED <<crashed, abandoned>>

RolloutStep == kind = "rollout" /\ ConvNext /\ UNCHANGED <<said, proposed>>

BaselineStep ==
    /\ \/ kind = "openeta" /\ EtaNext
       \/ kind = "capx" /\ CapxNext
    /\ UNCHANGED <<said, proposed>>

ChatAgentStep ==
    /\ kind \in chat
    /\ \/ ChatStep
       \/ MessageIsHandled(kind = "terminal")
       \/ kind = "feishu" /\ Interrupted

Next ==
    /\ \/ RolloutStep \/ BaselineStep \/ ChatAgentStep
       \/ kind # "rollout" /\ ConversationEnds
    /\ UNCHANGED kind

Spec == Init /\ [][Next]_vars
-----------------------------------------------------------------------------
\* The model's answer is awaited: what is in convo has been sent.
Asking == at \in {"asked", "propose", "synthesis", "lastReply",
                  "latePropose", "lateSynthesis"}

\* The answers c[i..j] in a row stand right behind the message that calls them.
CallerOf(c, i) == CHOOSE k \in 1 .. i - 1 :
                    /\ c[k].role # "tool"
                    /\ \A j \in k + 1 .. i - 1 : c[j].role = "tool"

AnswersInPlace ==
    \A i \in DOMAIN convo : convo[i].role = "tool" =>
        /\ \E k \in 1 .. i - 1 : convo[k].role # "tool"
        /\ Head(convo[i].calls) \in CalledBy(convo[CallerOf(convo, i)])

(***************************************************************************)
(* Whatever was shortened, retried, forced or crashed, an answer in the    *)
(* list sent to the model stands behind the assistant message whose call   *)
(* it answers (the OpenAI path sends the list as it is and an orphan is    *)
(* refused), so that the sanitizer in front of Anthropic, which drops the  *)
(* orphans, has nothing to drop: the model sees every result of its tools. *)
(***************************************************************************)
AnswersFollowTheirCalls == Asking => AnswersInPlace /\ Sent = Converted(convo)

AnswersOf(c, k) == {Head(c[j].calls) : j \in
                    {j \in k + 1 .. Len(c) :
                        \A l \in k + 1 .. j : c[l].role = "tool"}}

(***************************************************************************)
(* Before the model is asked, every call in the conversation has its       *)
(* answer in the row behind it, except calls of a rollout that stood       *)
(* behind a done in their turn: those alone are carried unanswered into    *)
(* the next attempt, shortened or not.  openeta keeps one call of several, *)
(* the terminal's list outlives the message, and the calls a chat reply is *)
(* forced into are answered like the others.                               *)
(***************************************************************************)
OnlyAbandonedCallsHang ==
    Asking =>
        \A k \in DOMAIN convo :
            CalledBy(convo[k]) \subseteq AnswersOf(convo, k) \cup abandoned

\* The most messages a conversation may have when the model is asked: a limit
\* with the reflection of the turn, or what the budget pays for.  Nothing
\* shortens the list of the terminal.
SentAtMost ==
    CASE kind = "rollout" -> SummarizeAt + 1 + 2 * nudges
      [] kind = "openeta" -> 3 + 5 * ((ToolBudget - 2) \div 2) + 2 * nudges
      [] kind = "capx"    -> 2 + 2 * MaxRepairs
      [] OTHER            -> Len(convo)

(***************************************************************************)
(* However many attempts a conversation has lived through, what is sent is *)
(* bounded where the code means to bound it, and it still starts with the  *)
(* system prompt and the goal it began with: a retry does not build them   *)
(* again (rollout.py:242), so a summary that cuts them loses the task.     *)
(* The exception is an atomic whose first attempt ended in an error.       *)
(***************************************************************************)
SentIsUsable ==
    Asking =>
        /\ Len(convo) <= SentAtMost
        /\ ~crashed => convo[1] = Say("system") /\ convo[2] = Say("user")
=============================================================================
