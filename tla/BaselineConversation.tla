------------------------ MODULE BaselineConversation ------------------------
(***************************************************************************)
(* The conversations of the baseline agents (agents/baselines.py) that do  *)
(* not go through run_rollout: openeta looks before every single action,   *)
(* capx writes code and repairs it.  (maestro is one rollout.)             *)
(*                                                                         *)
(* They use the variables of RolloutConversation: turn counts what is      *)
(* charged to the budget for openeta (len(trace)) and the rounds of code   *)
(* for capx, whose skill calls (calls["n"]) are counted by ids.            *)
(***************************************************************************)
EXTENDS RolloutConversation

CONSTANT MaxRepairs  \* max_repairs of _run_capx

ASSUME RepairsAssumption == MaxRepairs \in Nat

baselineRest == <<prior, crashed, abandoned>>
-----------------------------------------------------------------------------
EtaStart ==
    /\ at = "idle" /\ attempt = 0
    /\ convo' = <<Say("system"), Say("user")>>
    /\ attempt' = 1 /\ at' = "turn" /\ turn' = 0
    /\ UNCHANGED <<todo, nudges, ids, baselineRest>>

\* Mutant: the look the harness makes is not charged.
LookIsFree ==
    /\ at = "turn"
    /\ convo' = Append(convo, Say("user"))
    /\ at' = "asked" /\ nudges' = 0
    /\ UNCHANGED <<turn, todo, attempt, ids, baselineRest>>

\* The harness looks and charges it; a budget used up by a look ends the loop.
EtaObserve ==
    /\ at = "turn"
    /\ turn' = turn + 1
    /\ convo' = Append(convo, Say("user"))
    /\ at' = IF turn + 1 >= ToolBudget THEN "left" ELSE "asked"
    /\ nudges' = 0
    /\ UNCHANGED <<todo, attempt, ids, baselineRest>>

\* Mutant: every call of the answer is kept in the conversation, one is made.
KeepEveryCall ==
    /\ at = "asked"
    /\ \E n \in 1 .. CallsPerTurn :
        /\ ids' = ids + n
        /\ convo' = Append(convo, Calls([k \in 1 .. n |-> ids + k]))
        /\ todo' = <<ids + 1>>
    /\ at' = "calls"
    /\ UNCHANGED <<turn, nudges, attempt, baselineRest>>

\* Of the calls in an answer the first is made, and it alone is kept.
EtaCalls ==
    /\ at = "asked"
    /\ \E n \in 1 .. CallsPerTurn : ids' = ids + n
    /\ convo' = Append(convo, Calls(<<ids + 1>>))
    /\ todo' = <<ids + 1>>
    /\ at' = "calls"
    /\ UNCHANGED <<turn, nudges, attempt, baselineRest>>

\* No call: told once, then given up.
EtaTalks ==
    /\ at = "asked"
    /\ \/ /\ nudges = 0
          /\ nudges' = 1
          /\ convo' = convo \o <<Calls(<<>>), Say("user")>>
          /\ UNCHANGED at
       \/ /\ nudges = 1
          /\ at' = "left"
          /\ UNCHANGED <<convo, nudges>>
    /\ UNCHANGED <<turn, todo, attempt, ids, baselineRest>>

\* The action is dispatched, or it is done: charged and answered.
EtaActs ==
    /\ at = "calls"
    /\ turn' = turn + 1
    /\ convo' = Append(convo, Answer(Head(todo)))
    /\ todo' = <<>>
    /\ \/ at' = "left"
       \/ at' = "turn" /\ turn + 1 < ToolBudget
    /\ UNCHANGED <<nudges, attempt, ids, baselineRest>>

EtaNext == EtaStart \/ EtaObserve \/ EtaCalls \/ EtaTalks \/ EtaActs
-----------------------------------------------------------------------------
\* The first look is charged, if there is such a skill.
CapxStart ==
    /\ at = "idle" /\ attempt = 0
    /\ convo' = <<Say("system"), Say("user")>>
    /\ ids' \in 0 .. 1
    /\ attempt' = 1 /\ at' = "asked" /\ turn' = 0
    /\ UNCHANGED <<todo, nudges, baselineRest>>

\* Another round, if there is one left, after a message that says why.
NextRound ==
    /\ convo' = convo \o <<Calls(<<>>), Say("user")>>
    /\ turn' = turn + 1
    /\ at' = IF turn = MaxRepairs THEN "left" ELSE "asked"

CapxHasNoCode ==
    /\ at = "asked"
    /\ NextRound
    /\ UNCHANGED <<todo, nudges, attempt, ids, baselineRest>>

\* The code runs to its end, raises, or is stopped by the spent budget: only
\* code that raised with calls left is repaired.
CapxRuns ==
    /\ at = "asked"
    /\ ids' \in ids .. ToolBudget
    /\ \/ ids' < ToolBudget /\ NextRound
       \/ /\ convo' = Append(convo, Calls(<<>>))
          /\ at' = "left"
          /\ UNCHANGED turn
    /\ UNCHANGED <<todo, nudges, attempt, baselineRest>>

CapxNext == CapxStart \/ CapxHasNoCode \/ CapxRuns
=============================================================================
