------------------------- MODULE RolloutConversation -------------------------
(***************************************************************************)
(* The conversation with the model in agent_loop/rollout.py (run_rollout), *)
(* its shortening and its conversion in agent_loop/messages.py, and its    *)
(* life over the attempts of one atomic in long_horizon/lh_executor.py:    *)
(* the list a rollout returns is the list the next attempt continues.      *)
(*                                                                         *)
(* A message is its role and the tool calls it makes or answers: an        *)
(* assistant message holds the ids of its calls, a tool message the id it  *)
(* answers.  Texts, images and arguments are left out, and so is what the  *)
(* tools do (LongHorizon).  The model is external: it answers with calls,  *)
(* with text, or not at all (an error raised to the caller).               *)
(***************************************************************************)
EXTENDS Naturals, Sequences, FiniteSets, SequencesExt

CONSTANTS
    ToolBudget,    \* tool_budget: turns of a rollout
    CallsPerTurn,  \* bound: calls the model makes in one turn
    SummarizeAt,   \* SUMMARIZE_AT_MSGS
    KeepRecent,    \* keep_recent
    ReflectEvery,  \* REFLECT_EVERY
    RetryCap       \* retry_cap: attempts of one atomic

ASSUME ConversationAssumption ==
    /\ {ToolBudget, CallsPerTurn, ReflectEvery, RetryCap} \subseteq Nat \ {0}
    /\ SummarizeAt \in Nat /\ KeepRecent \in Nat

\* A list that is shortened gets shorter: 30 and 12 in the code.
ASSUME SummaryAssumption == KeepRecent + 3 <= SummarizeAt

VARIABLES
    convo,     \* the rollout's conversation
    prior,     \* engineer_messages: what the next attempt continues; <<>> if None
    at,        \* where the executor or the rollout stands
    turn,      \* step_idx
    todo,      \* calls of this turn still to be dispatched
    nudges,    \* how often the model was told to call a tool
    attempt,   \* attempt_n, 0 before the first
    ids,       \* tool-call ids given out in this atomic
    crashed,   \* the atomic's first attempt returned no conversation
    abandoned  \* history: calls that stood behind a done in their turn

convVars == <<convo, prior, at, turn, todo, nudges, attempt, ids, crashed, abandoned>>

Say(role) == [role |-> role, calls |-> <<>>]
Calls(cs) == [role |-> "assistant", calls |-> cs]
Answer(c) == [role |-> "tool", calls |-> <<c>>]
Message == [role : {"system", "user"}, calls : {<<>>}]
      \cup [role : {"assistant"}, calls : Seq(Nat)]
      \cup [role : {"tool"}, calls : {cs \in Seq(Nat) : Len(cs) = 1}]

-----------------------------------------------------------------------------
(***************************************************************************)
(* _summarize_old_trace: the first two messages, one message that stands   *)
(* for the middle, and the recent ones without the answers they begin with.*)
(***************************************************************************)
\* Mutant: the recent part begins where it begins, answers or not.
SplitAnywhere(c) == Len(c) - KeepRecent + 1

SplitAt(c) ==
    LET first == Len(c) - KeepRecent + 1
    IN  CHOOSE k \in first .. Len(c) + 1 :
            /\ k = Len(c) + 1 \/ c[k].role # "tool"
            /\ \A j \in first .. k - 1 : c[j].role = "tool"

\* Mutant: the head is not kept.
SummaryOnly(c) ==
    IF Len(c) <= KeepRecent + 2 THEN c
    ELSE <<Say("user")>> \o SubSeq(c, SplitAt(c), Len(c))

Summarized(c) ==
    IF Len(c) <= KeepRecent + 2 THEN c
    ELSE SubSeq(c, 1, 2) \o <<Say("user")>> \o SubSeq(c, SplitAt(c), Len(c))

(***************************************************************************)
(* _convert_messages_to_anthropic: answers in a row become one user        *)
(* message; _sanitize_tool_pairing then drops the answers whose call is    *)
(* not in the message before.  The system text goes elsewhere.             *)
(***************************************************************************)
InResults(out) == out # <<>> /\ Last(out).role = "user" /\ Last(out).calls # <<>>

Merge(out, m) ==
    CASE m.role = "system" -> out
      [] m.role \in {"user", "assistant"} -> Append(out, m)
      [] m.role = "tool" /\ InResults(out) ->
            Append(Front(out), [role |-> "user", calls |-> Last(out).calls \o m.calls])
      [] m.role = "tool" /\ ~InResults(out) ->
            Append(out, [role |-> "user", calls |-> m.calls])

Converted(c) == FoldLeft(Merge, <<>>, c)

CalledBy(m) == IF m.role = "assistant" THEN ToSet(m.calls) ELSE {}

\* The results among these whose call is in called.
Called(results, called) ==
    FoldLeft(LAMBDA kept, c : IF c \in called THEN Append(kept, c) ELSE kept,
             <<>>, results)

Sanitized(ms) ==
    [i \in DOMAIN ms |->
        IF ms[i].role = "user" /\ ms[i].calls # <<>>
        THEN [ms[i] EXCEPT !.calls = Called(@, IF i > 1 THEN CalledBy(ms[i - 1]) ELSE {})]
        ELSE ms[i]]

\* What _anthropic_call_with_tools sends.
Sent == Sanitized(Converted(convo))
-----------------------------------------------------------------------------
ConvInit ==
    /\ convo = <<>> /\ prior = <<>> /\ at = "idle"
    /\ turn = 0 /\ todo = <<>> /\ nudges = 0
    /\ attempt = 0 /\ ids = 0 /\ crashed = FALSE /\ abandoned = {}

\* An attempt begins: a fresh conversation, or one more turn of the old one.
StartAttempt ==
    /\ at = "idle" /\ attempt < RetryCap
    /\ attempt' = attempt + 1
    /\ convo' = IF prior = <<>> THEN <<Say("system"), Say("user")>>
                ELSE Append(prior, Say("user"))
    /\ at' = "turn" /\ turn' = 0
    /\ UNCHANGED <<prior, todo, nudges, ids, crashed, abandoned>>

\* The checkpoint message of every ReflectEvery-th turn.
Reflected(c) ==
    IF turn > 0 /\ turn % ReflectEvery = 0 THEN Append(c, Say("user")) ELSE c

\* Mutant: a conversation taken over from an attempt is not shortened again.
AskFreshOnly ==
    /\ at = "turn" /\ turn < ToolBudget
    /\ convo' = Reflected(IF Len(convo) > SummarizeAt /\ attempt = 1
                          THEN Summarized(convo) ELSE convo)
    /\ at' = "asked" /\ nudges' = 0
    /\ UNCHANGED <<prior, turn, todo, attempt, ids, crashed, abandoned>>

\* A turn begins: shorten, reflect, call the model.
Ask ==
    /\ at = "turn" /\ turn < ToolBudget
    /\ convo' = Reflected(IF Len(convo) > SummarizeAt THEN Summarized(convo) ELSE convo)
    /\ at' = "asked" /\ nudges' = 0
    /\ UNCHANGED <<prior, turn, todo, attempt, ids, crashed, abandoned>>

ModelCalls ==
    /\ at = "asked"
    /\ \E n \in 1 .. CallsPerTurn :
        /\ todo' = [k \in 1 .. n |-> ids + k]
        /\ ids' = ids + n
        /\ convo' = Append(convo, Calls([k \in 1 .. n |-> ids + k]))
    /\ at' = "calls"
    /\ UNCHANGED <<prior, turn, nudges, attempt, crashed, abandoned>>

\* Text and no call: twice the model is told to call a tool, then given up.
ModelTalks ==
    /\ at = "asked"
    /\ \/ /\ nudges < 2
          /\ nudges' = nudges + 1
          /\ convo' = convo \o <<Calls(<<>>), Say("user")>>
          /\ UNCHANGED at
       \/ /\ nudges = 2
          /\ convo' = Append(convo, Calls(<<>>))
          /\ at' = "left"
          /\ UNCHANGED nudges
    /\ UNCHANGED <<prior, turn, todo, attempt, ids, crashed, abandoned>>

\* Mutant: arguments that are no JSON are reported in the trace only.
DispatchBadSilently ==
    /\ at = "calls" /\ todo # <<>>
    /\ convo' \in {convo, Append(convo, Answer(Head(todo)))}
    /\ todo' = Tail(todo)
    /\ UNCHANGED <<prior, at, turn, nudges, attempt, ids, crashed, abandoned>>

\* A tool runs, is refused (contaminated environment) or is not run for its
\* arguments: in each case the call is answered.
Dispatch ==
    /\ at = "calls" /\ todo # <<>>
    /\ convo' = Append(convo, Answer(Head(todo)))
    /\ todo' = Tail(todo)
    /\ UNCHANGED <<prior, at, turn, nudges, attempt, ids, crashed, abandoned>>

\* The call is done: it is answered, and the loop is left with the rest of
\* the turn's calls.
DispatchDone ==
    /\ at = "calls" /\ todo # <<>>
    /\ convo' = Append(convo, Answer(Head(todo)))
    /\ at' = "left" /\ todo' = <<>>
    /\ abandoned' = abandoned \cup ToSet(Tail(todo))
    /\ UNCHANGED <<prior, turn, nudges, attempt, ids, crashed>>

\* After the calls: a status check if one of them acted and a turn is left.
TurnEnds ==
    /\ at = "calls" /\ todo = <<>>
    /\ \/ UNCHANGED convo
       \/ turn < ToolBudget - 1 /\ convo' = Append(convo, Say("user"))
    /\ turn' = turn + 1
    /\ at' = IF turn + 1 = ToolBudget THEN "left" ELSE "turn"
    /\ UNCHANGED <<prior, todo, nudges, attempt, ids, crashed, abandoned>>
-----------------------------------------------------------------------------
(***************************************************************************)
(* LHExecutor.execute, after the rollout.                                  *)
(***************************************************************************)
Leave(messages) ==
    /\ prior' = messages
    /\ at' = "idle" /\ convo' = <<>> /\ turn' = 0 /\ todo' = <<>> /\ nudges' = 0

\* The Reviewer says retry: its feedback is added to the conversation.
Rejected ==
    /\ at = "left"
    /\ Leave(Append(convo, Say("user")))
    /\ UNCHANGED <<attempt, ids, crashed, abandoned>>

\* An error left the rollout (the model, a tool, a contaminated environment):
\* the conversation of the attempt before goes on, or one made for the note.
AttemptCrashes ==
    /\ at \in {"asked", "calls", "left"}
    /\ Leave(Append(IF prior = <<>> THEN <<Say("user")>> ELSE prior, Say("user")))
    /\ crashed' = (crashed \/ prior = <<>>)
    /\ UNCHANGED <<attempt, ids, abandoned>>

\* The atomic is accepted, or its attempts are used up: the next atomic, or the
\* same one after a rollback, has a conversation of its own.
NextAtomic ==
    /\ \/ at = "left"
       \/ at = "idle" /\ attempt = RetryCap
    /\ Leave(<<>>)
    /\ attempt' = 0 /\ ids' = 0 /\ crashed' = FALSE /\ abandoned' = {}

ConvNext ==
    \/ StartAttempt \/ Ask \/ ModelCalls \/ ModelTalks
    \/ Dispatch \/ DispatchDone \/ TurnEnds
    \/ Rejected \/ AttemptCrashes \/ NextAtomic

=============================================================================
