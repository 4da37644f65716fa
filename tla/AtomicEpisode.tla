--------------------------- MODULE AtomicEpisode ---------------------------
(***************************************************************************)
(* channels/core/agent.py (run_atomic_episode) for several episodes of one *)
(* task at a time, each in a worker process of the suite, over the memory  *)
(* of the task (TaskMemory) that they share with the Manager.              *)
(*                                                                         *)
(* An episode plans, executes and is reviewed in rounds that share one     *)
(* budget of tool calls and one scene; then the simulator judges it once,  *)
(* the final review is written, and what was learned goes to the memory.   *)
(* The models behind the roles and the scene are external: any claim, any  *)
(* verdict, any number of calls in a turn up to a bound.                   *)
(***************************************************************************)
EXTENDS TaskMemory

CONSTANTS
    MaxRounds,     \* ROBORSI_EPISODE_MAX_ROUNDS
    ToolBudget,    \* tool_budget
    RoundBudget,   \* ROBORSI_ROUND_TOOL_BUDGET
    ContinueAt,    \* the 10 calls another round needs
    CallsPerTurn,  \* bound: trace entries of one turn of the Engineer
    MaxKills       \* bound: processes killed at work on the memory

ASSUME AtomicEpisodeAssumption ==
    /\ {MaxRounds, ToolBudget, RoundBudget, ContinueAt, CallsPerTurn} \subseteq Nat \ {0}
    /\ MaxKills \in Nat

VARIABLES
    evolves,    \* evolution_enabled(): one mode for the campaign
    simulated,  \* the backend has a success predicate
    stage,      \* where an episode, or the Manager, stands
    rnd,        \* _round
    left,       \* budget_left
    calls,      \* total_tool_calls
    claim,      \* vlm_declared of the last round
    result,     \* eng_result["success"] with "verified" after the rounds
    row,        \* the episode's row of trace.db
    lead,       \* the hypothesis the Manager has before it
    kills       \* history: processes killed at work on the memory

epVars == <<stage, rnd, left, calls, claim, result, row, lead, kills>>
episodeVars == <<evolves, simulated, memVars, epVars>>

Ended == {"done", "lost"}
Result == {"none", "success", "failure", "claimed", "unclaimed"}

EpTypeOK ==
    /\ MemTypeOK
    /\ evolves \in BOOLEAN /\ simulated \in BOOLEAN
    /\ stage \in [Writer -> Ended \cup {"plan", "template", "engineer", "review",
           "adjudicate", "record", "archive", "insert", "update", "final", "learn",
           "read", "cap", "empty", "write", "promote", "idle", "resolve", "settle"}]
    /\ rnd \in [Episode -> 1 .. MaxRounds]
    /\ left \in [Episode -> Int] /\ calls \in [Episode -> Nat]
    /\ claim \in [Episode -> BOOLEAN]
    /\ result \in [Episode -> Result]
    /\ row \in [Episode -> {"none", "running", "success", "failed"}]
    /\ lead \in Run /\ kills \in 0 .. MaxKills

EpisodeInit ==
    /\ MemInit
    /\ evolves \in BOOLEAN /\ simulated \in BOOLEAN
    /\ stage = [w \in Writer |-> IF w = Manager THEN "idle" ELSE "plan"]
    /\ rnd = [e \in Episode |-> 1]
    /\ left = [e \in Episode |-> ToolBudget] /\ calls = [e \in Episode |-> 0]
    /\ claim = [e \in Episode |-> FALSE]
    /\ result = [e \in Episode |-> "none"] /\ row = [e \in Episode |-> "none"]
    /\ lead = Old /\ kills = 0

Goes(w, from, to) == stage[w] = from /\ stage' = [stage EXCEPT ![w] = to]
modeVars == <<evolves, simulated>>
roundVars == <<rnd, left, calls, claim>>
outcomeVars == <<result, row, lead, kills>>
-----------------------------------------------------------------------------
(***************************************************************************)
(* The rounds.                                                             *)
(***************************************************************************)
\* Mutant: whoever reads a missing wiki makes it.
PlanReadsOrMakes(e) ==
    /\ \/ Goes(e, "plan", "template") /\ wiki = Missing
       \/ Goes(e, "plan", "engineer") /\ wiki # Missing
    /\ UNCHANGED <<modeVars, memVars, roundVars, outcomeVars>>

\* The Planner reads the wiki; it makes a missing one, while memory is kept.
PlanReadsWiki(e) ==
    /\ \/ Goes(e, "plan", "template") /\ wiki = Missing /\ evolves
       \/ Goes(e, "plan", "engineer") /\ ~(wiki = Missing /\ evolves)
    /\ UNCHANGED <<modeVars, memVars, roundVars, outcomeVars>>

PlanMakesWiki(e) ==
    /\ Goes(e, "template", "engineer")
    /\ WriteTemplate
    /\ UNCHANGED <<modeVars, roundVars, outcomeVars>>

Least(a, b) == IF a < b THEN a ELSE b

\* Mutant: every round gets its own budget.
TurnsOfRound(e) == RoundBudget

\* The turns of this round.
Turns(e) == Least(left[e], RoundBudget)

\* A turn of the Engineer may leave several entries in the trace; the entries
\* are what is taken from the budget, at least one.
Execute(e) ==
    /\ Goes(e, "engineer", "review")
    /\ \E n \in 0 .. CallsPerTurn * Turns(e), said \in BOOLEAN :
          /\ calls' = [calls EXCEPT ![e] = @ + n]
          /\ left' = [left EXCEPT ![e] = @ - (IF n = 0 THEN 1 ELSE n)]
          /\ claim' = [claim EXCEPT ![e] = said]
    /\ UNCHANGED <<modeVars, memVars, rnd, outcomeVars>>

\* can_continue
CanContinue(e) == rnd[e] < MaxRounds /\ left[e] >= ContinueAt

\* The review asks for more, and there is more.
NextRound(e) ==
    /\ Goes(e, "review", "plan") /\ CanContinue(e)
    /\ rnd' = [rnd EXCEPT ![e] = @ + 1]
    /\ UNCHANGED <<modeVars, memVars, left, calls, claim, outcomeVars>>

\* The review ends the episode, asks for more where nothing is left, or fails.
LastRound(e) ==
    /\ Goes(e, "review", "adjudicate")
    /\ UNCHANGED <<modeVars, memVars, roundVars, outcomeVars>>

\* A role, the simulator or a write raises, or the process is killed: the
\* episode is the suite's again.
Raises(e) ==
    /\ stage[e] \in {"plan", "template", "engineer", "adjudicate", "record",
                     "archive", "insert", "update", "final"}
    /\ stage' = [stage EXCEPT ![e] = "lost"]
    /\ UNCHANGED <<modeVars, memVars, roundVars, outcomeVars>>
-----------------------------------------------------------------------------
(***************************************************************************)
(* The verdict of the simulator, and what is recorded of it.               *)
(***************************************************************************)
\* Without a predicate the claim is kept, unverified.  The other variables of
\* the rounds are only reported from here on, and left out.
Adjudicate(e) ==
    /\ Goes(e, "adjudicate", "record")
    /\ \E holds \in BOOLEAN : result' = [result EXCEPT ![e] =
          CASE simulated /\ holds   -> "success"
            [] simulated /\ ~holds  -> "failure"
            [] ~simulated /\ claim[e]  -> "claimed"
            [] ~simulated /\ ~claim[e] -> "unclaimed"]
    /\ left' = [left EXCEPT ![e] = ToolBudget] /\ calls' = [calls EXCEPT ![e] = 0]
    /\ claim' = [claim EXCEPT ![e] = FALSE]
    /\ UNCHANGED <<modeVars, memVars, rnd, row, lead, kills>>

\* Mutant: eng_result["success"] is all that is asked.
Succeeded(e) == result[e] \in {"success", "claimed"}

\* eng_result["success"] and eng_result.get("verified", True)
Confirmed(e) == result[e] = "success"

RecordSuccess(e) ==
    /\ \/ /\ evolves /\ Confirmed(e)
          /\ Goes(e, "record", "archive") /\ RecordSkills(e)
       \/ /\ ~(evolves /\ Confirmed(e))
          /\ Goes(e, "record", "insert") /\ UNCHANGED memVars
    /\ UNCHANGED <<modeVars, roundVars, outcomeVars>>

RecordPlan(e) ==
    /\ Goes(e, "archive", "insert")
    /\ ArchivePlan(e, rnd[e])
    /\ UNCHANGED <<modeVars, roundVars, outcomeVars>>

InsertRow(e) ==
    /\ Goes(e, "insert", "update")
    /\ row' = [row EXCEPT ![e] = "running"]
    /\ UNCHANGED <<modeVars, memVars, roundVars, result, lead, kills>>

UpdateRow(e) ==
    /\ Goes(e, "update", "final")
    /\ row' = [row EXCEPT ![e] =
          IF result[e] \in {"success", "claimed"} THEN "success" ELSE "failed"]
    /\ UNCHANGED <<modeVars, memVars, roundVars, result, lead, kills>>

\* The review of the last round stands where memory is frozen; else the attempt
\* is reviewed again, now with its outcome.  Whatever it says, and if it fails,
\* the row is completed and the episode goes on.
FinalReview(e) ==
    /\ Goes(e, "final", IF evolves THEN "learn" ELSE "done")
    /\ UNCHANGED <<modeVars, memVars, roundVars, outcomeVars>>
-----------------------------------------------------------------------------
(***************************************************************************)
(* The lesson: append_success_trace, append_failure_trace and the          *)
(* promotion of the plan.                                                  *)
(***************************************************************************)
SectionOf(e) == IF Confirmed(e) THEN "success" ELSE "failure"

\* The lock; under it a failure's hypothesis is queued first.
BeginLesson(e) ==
    /\ Goes(e, "learn", "read")
    /\ TakeLock(e)
    /\ queue' = IF Confirmed(e) THEN queue ELSE queue \cup {Hypothesis(e)}
    /\ UNCHANGED <<modeVars, wiki, archived, md, seed, recorded, plans, wiped,
                   roundVars, outcomeVars>>

ReadForLesson(e) ==
    /\ Goes(e, "read", "cap")
    /\ wiki' = Text
    /\ md' = [md EXCEPT ![e] = Prepended(Text, SectionOf(e), e)]
    /\ UNCHANGED <<modeVars, archived, wikiLock, queue, seed, recorded, plans, wiped,
                   roundVars, outcomeVars>>

CapLesson(e) ==
    /\ Goes(e, "cap", "empty")
    /\ ArchiveOverflow(e, SectionOf(e))
    /\ UNCHANGED <<modeVars, roundVars, outcomeVars>>

Empties(w) ==
    /\ Goes(w, "empty", "write")
    /\ EmptyWiki
    /\ UNCHANGED <<modeVars, roundVars, outcomeVars>>

WriteLesson(e) ==
    /\ Goes(e, "write", IF Confirmed(e) THEN "promote" ELSE "done")
    /\ WriteWiki(e)
    /\ UNCHANGED <<modeVars, roundVars, outcomeVars>>

ProposePlan(e) ==
    /\ Goes(e, "promote", "done")
    /\ QueuePromotion(e, IF rnd[e] = 1 THEN "plan" ELSE "record")
    /\ UNCHANGED <<modeVars, roundVars, outcomeVars>>
-----------------------------------------------------------------------------
(***************************************************************************)
(* The Manager, where memory is kept: resolve_wiki_hypothesis and          *)
(* resolve_plan_promotion.                                                 *)
(***************************************************************************)
\* Its _ensure_wiki finds the wiki there: the episode that left the hypothesis
\* planned over one, and nothing deletes it.
TakeHypothesis(e) ==
    /\ stage[Manager] = "idle" /\ Hypothesis(e) \in queue
    /\ stage' = [stage EXCEPT ![Manager] = "resolve"]
    /\ lead' = e
    /\ UNCHANGED <<modeVars, memVars, roundVars, result, row, kills>>

RejectLead ==
    /\ Goes(Manager, "resolve", "idle")
    /\ queue' = Resolved(Hypothesis(lead), "rejected") /\ lead' = Old
    /\ UNCHANGED <<modeVars, wiki, archived, wikiLock, md, seed, recorded, plans, wiped,
                   roundVars, result, row, kills>>

\* An approved hypothesis, or the lead the Manager puts in its place.
ApproveLead ==
    /\ Goes(Manager, "resolve", "empty")
    /\ TakeLock(Manager)
    /\ md' = [md EXCEPT ![Manager] = [Text EXCEPT !.leads = @ \cup {lead}]]
    /\ UNCHANGED <<modeVars, wiki, archived, queue, seed, recorded, plans, wiped,
                   roundVars, outcomeVars>>

WriteLead ==
    /\ Goes(Manager, "write", "settle")
    /\ WriteWiki(Manager)
    /\ UNCHANGED <<modeVars, roundVars, outcomeVars>>

SettleLead ==
    /\ Goes(Manager, "settle", "idle")
    /\ queue' = Resolved(Hypothesis(lead), "approved") /\ lead' = Old
    /\ UNCHANGED <<modeVars, wiki, archived, wikiLock, md, seed, recorded, plans, wiped,
                   roundVars, result, row, kills>>

ResolvePlan ==
    /\ stage[Manager] = "idle"
    /\ \E p \in queue : ResolvePromotion(p)
    /\ UNCHANGED <<modeVars, stage, roundVars, outcomeVars>>

\* A worker is killed on its lesson, or the Manager on a lead; the Manager is
\* started again.
Killed(w) ==
    /\ stage[w] \in {"learn", "read", "cap", "empty", "write", "promote", "resolve", "settle"}
    /\ kills < MaxKills
    /\ kills' = kills + 1
    /\ DieWithLock(w, stage[w] = "write")
    /\ stage' = [stage EXCEPT ![w] = IF w = Manager THEN "idle" ELSE "lost"]
    /\ lead' = IF w = Manager THEN Old ELSE lead
    /\ UNCHANGED <<modeVars, roundVars, result, row>>

EpisodeSteps(e) ==
    \/ PlanReadsWiki(e) \/ PlanMakesWiki(e) \/ Execute(e)
    \/ NextRound(e) \/ LastRound(e) \/ Raises(e)
    \/ Adjudicate(e) \/ RecordSuccess(e) \/ RecordPlan(e)
    \/ InsertRow(e) \/ UpdateRow(e) \/ FinalReview(e)
    \/ BeginLesson(e) \/ ReadForLesson(e) \/ CapLesson(e) \/ Empties(e)
    \/ WriteLesson(e) \/ ProposePlan(e)

ManagerSteps ==
    \/ \E e \in Episode : TakeHypothesis(e)
    \/ RejectLead \/ ApproveLead \/ Empties(Manager)
    \/ WriteLead \/ SettleLead \/ ResolvePlan

EpisodeNext ==
    \/ \E e \in Episode : EpisodeSteps(e)
    \/ ManagerSteps
    \/ \E w \in Writer : Killed(w)

EpisodeSpec == EpisodeInit /\ [][EpisodeNext]_episodeVars

\* Every process is scheduled.  An episode can be held up only where it waits
\* for the lock, and the kernel serves the waiters of a flock: strong fairness.
EpisodeFairSpec ==
    /\ EpisodeSpec
    /\ \A e \in Episode : SF_episodeVars(EpisodeSteps(e))
    /\ WF_episodeVars(ManagerSteps)
-----------------------------------------------------------------------------
(***************************************************************************)
(* What must hold.                                                         *)
(***************************************************************************)
\* The rounds share one budget: what an episode has spent exceeds it by no more
\* than the last round's turns can with several calls in a turn.
BudgetIsShared == \A e \in Episode :
    calls[e] <= ToolBudget + (CallsPerTurn - 1) * RoundBudget

\* Where a run's success is taken for granted by later runs.
TakenForSuccess == recorded \cup plans
    \cup {e \in Episode : \E p \in queue : p.of = e /\ p.kind \in {"plan", "record"}}
    \cup {e \in Episode : seed = e}
    \cup {e \in Episode : wiki # Missing /\ \E k \in DOMAIN wiki.success : wiki.success[k] = e}

\* Where it is taken for a failure.
TakenForFailure ==
    {e \in Episode : \E p \in queue : p.of = e /\ p.kind = "hypothesis"}
    \cup {e \in Episode : wiki # Missing /\
             (e \in wiki.leads \/ \E k \in DOMAIN wiki.failure : wiki.failure[k] = e)}

\* Journals, queues, seed and wiki agree on what each run was: only a success
\* the simulator confirmed is passed on as one, only the plan of an only round
\* as a whole plan, and nothing learned from a failure comes from such a run.
LessonsFitTheOutcome == \A e \in Episode :
    /\ e \in TakenForSuccess => result[e] = "success"
    /\ e \in TakenForFailure => result[e] \in Result \ {"none", "success"}
    /\ e \in plans \/ (\E p \in queue : p.of = e /\ p.kind = "plan") => rnd[e] = 1

\* The trace of a run that ended well stays in the wiki, in its archive or in
\* the text somebody is about to write, however appends, approvals and the
\* making of the wiki interleave: unless a death or a template removed it.
TracesAreKept == \A r \in Run :
    \/ r \in Episode /\ (stage[r] \notin {"done", "promote"} \/ ~evolves)
    \/ r \in Shown \cup archived \cup wiped
    \/ \E w \in Writer : stage[w] = "write" /\ r \in OnPage(md[w])

\* With memory frozen nothing a run could learn is written: not even the wiki a
\* reader misses.
FrozenMemoryIsUntouched == [][~evolves => UNCHANGED memVars]_episodeVars

\* Every episode ends, whoever else dies, holds the lock or is served first.
EpisodesEnd == \A e \in Episode : <>(stage[e] \in Ended)
=============================================================================
