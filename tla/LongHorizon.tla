---------------------------- MODULE LongHorizon ----------------------------
(***************************************************************************)
(* long_horizon/lh_executor.py (LHExecutor.execute) with the scene         *)
(* snapshots of lh_sim_state.py, over the rollouts of                      *)
(* agent_loop/rollout.py (run_rollout, _dispatch_with_timeout).            *)
(*                                                                         *)
(* A long-horizon task is a list of atomics done one after the other in    *)
(* one simulator scene.  Each atomic has a few attempts; an attempt starts *)
(* from the scene the atomics before it left, restored or regenerated; an  *)
(* atomic that fails for good sends the executor back two atomics.  A tool *)
(* call that runs out of time leaves its worker thread behind, which goes  *)
(* on working on the scene until it returns by itself.                     *)
(*                                                                         *)
(* A scene is told apart by what the executor's decisions rest on: the     *)
(* atomics whose accepted result it is built on, who has acted on it       *)
(* since, and whether the task's predicate holds.  Physics and the         *)
(* Reviewer are external: any verdict, any value of the predicate after an *)
(* act.  The conversation is in RolloutConversation.                       *)
(***************************************************************************)
EXTENDS Naturals, FiniteSets

CONSTANTS
    Atomics,       \* len(ordered)
    RetryCap,      \* retry_cap
    MaxRollbacks,  \* MAX_ROLLBACKS
    ToolBudget,    \* tool_budget: calls of a rollout
    MaxLeaks       \* bound: workers left behind

ASSUME LongHorizonAssumption ==
    /\ Atomics \in Nat \ {0} /\ RetryCap \in Nat \ {0}
    /\ {MaxRollbacks, ToolBudget, MaxLeaks} \subseteq Nat

VARIABLES
    \* the executor
    ex,         \* where execute stands
    i,          \* the atomic at work, counted from 1
    attempt,    \* attempt_n
    completed,  \* result.completed_atomics
    rollbacks,  \* rollbacks_used
    pre,        \* pre_atomic_snapshot
    post,       \* post_atomic_snapshots
    verdict,    \* review["verdict"]
    \* the rollout
    turn,       \* calls so far
    contaminated,  \* _sim_contaminated
    declared,   \* what done said, "none" without it
    \* the environment
    scene,      \* the simulator's scene
    workers,    \* worker threads left behind and still at work
    recorders,  \* tick recorders hooked into the scene's step
    \* history
    leaks,      \* workers left behind so far
    mine,       \* of these by the attempt at work
    raised,     \* attempts that left run_rollout by an error of their own in this scene
    grounds     \* per atomic, what its acceptance rested on

exVars == <<ex, i, attempt, completed, rollbacks, pre, post, verdict>>
rollVars == <<turn, contaminated, declared>>
envVars == <<scene, workers, recorders>>
pastVars == <<leaks, mine, raised, grounds>>
lhVars == <<exVars, rollVars, envVars, pastVars>>

Index == 1 .. Atomics
Scene == [base : 0 .. Atomics, hands : SUBSET {"attempt", "leaked"}, goal : BOOLEAN]
NoScene == [base |-> 0, hands |-> {"attempt", "leaked"}, goal |-> TRUE]  \* no snapshot under this index
Ground == [done : BOOLEAN, said : {"none", "success", "failure"}, sim : BOOLEAN]
NoGround == [done |-> FALSE, said |-> "none", sim |-> FALSE]

LhTypeOK ==
    /\ ex \in {"atomic", "attempt", "turn", "look", "unhook", "review", "decide",
               "accept", "failed", "ended", "died"}
    /\ i \in 1 .. Atomics + 1 /\ attempt \in 0 .. RetryCap
    /\ completed \in 0 .. Atomics /\ rollbacks \in 0 .. MaxRollbacks
    /\ pre \in Scene /\ post \in [Index -> Scene]
    /\ verdict \in {"none", "done", "retry"}
    /\ turn \in 0 .. ToolBudget /\ contaminated \in BOOLEAN
    /\ declared \in {"none", "success", "failure"}
    /\ scene \in Scene /\ workers \in 0 .. MaxLeaks /\ recorders \in Nat
    /\ leaks \in 0 .. MaxLeaks /\ mine \in Nat /\ raised \in Nat
    /\ grounds \in [Index -> Ground]

\* env.reset(seed): the scene as the task begins.
Fresh == [base |-> 0, hands |-> {}, goal |-> FALSE]

LhInit ==
    /\ ex = "atomic" /\ i = 1 /\ attempt = 0 /\ completed = 0 /\ rollbacks = 0
    /\ pre = NoScene /\ post = [k \in Index |-> NoScene] /\ verdict = "none"
    /\ turn = 0 /\ contaminated = FALSE /\ declared = "none"
    /\ scene = Fresh /\ workers = 0 /\ recorders = 0
    /\ leaks = 0 /\ mine = 0 /\ raised = 0
    /\ grounds = [k \in Index |-> NoGround]
-----------------------------------------------------------------------------
(***************************************************************************)
(* The executor, up to the rollout.                                        *)
(***************************************************************************)
\* The atomic's snapshot, before its first attempt; attempt_n and the snapshot
\* are cleared where the atomic before is left.
BeginAtomic ==
    /\ ex = "atomic"
    /\ ex' = "attempt" /\ pre' = scene
    /\ UNCHANGED <<i, attempt, completed, rollbacks, post, verdict, rollVars, envVars, pastVars>>

\* The rollout is entered with a fresh context and a recorder of its own; what
\* it counts is its own, and gone with it.
EnterRollout ==
    /\ ex' = "turn" /\ turn' = 0 /\ contaminated' = FALSE /\ declared' = "none"
    /\ mine' = 0

LeaveRollout ==
    /\ ex' = "attempt" /\ turn' = 0 /\ contaminated' = FALSE /\ declared' = "none"
    /\ mine' = 0

FirstAttempt ==
    /\ ex = "attempt" /\ attempt = 0
    /\ attempt' = 1
    /\ EnterRollout /\ recorders' = recorders + 1
    /\ UNCHANGED <<i, completed, rollbacks, pre, post, verdict, scene, workers,
                   leaks, raised, grounds>>

\* Mutant: a retry goes on from where the attempt before stopped.
RetryFromSnapshotUnrestored ==
    /\ ex = "attempt" /\ attempt \in 1 .. RetryCap - 1 /\ i > 1
    /\ attempt' = attempt + 1
    /\ EnterRollout /\ recorders' = recorders + 1
    /\ UNCHANGED <<i, completed, rollbacks, pre, post, verdict, scene, workers,
                   leaks, raised, grounds>>

\* A retry of a later atomic: the scene before its first attempt.
RetryFromSnapshot ==
    /\ ex = "attempt" /\ attempt \in 1 .. RetryCap - 1 /\ i > 1
    /\ attempt' = attempt + 1
    /\ scene' = pre
    /\ EnterRollout /\ recorders' = recorders + 1
    /\ UNCHANGED <<i, completed, rollbacks, pre, post, verdict, workers,
                   leaks, raised, grounds>>

\* A retry of the first atomic: a new scene from the seed, and its snapshot.
\* The recorders of errors hung on the old one.
RetryFromSeed ==
    /\ ex = "attempt" /\ attempt \in 1 .. RetryCap - 1 /\ i = 1
    /\ attempt' = attempt + 1
    /\ scene' = Fresh /\ pre' = Fresh
    /\ EnterRollout /\ recorders' = 1 /\ raised' = 0
    /\ UNCHANGED <<i, completed, rollbacks, post, verdict, workers, leaks, grounds>>

\* The reset finds no stable scene; nothing around it catches the error.
ResetRaises ==
    /\ ex = "attempt" /\ attempt \in 1 .. RetryCap - 1 /\ i = 1
    /\ ex' = "died"
    /\ UNCHANGED <<i, attempt, completed, rollbacks, pre, post, verdict,
                   rollVars, envVars, pastVars>>

OutOfAttempts ==
    /\ ex = "attempt" /\ attempt = RetryCap
    /\ ex' = "failed"
    /\ UNCHANGED <<i, attempt, completed, rollbacks, pre, post, verdict,
                   rollVars, envVars, pastVars>>
-----------------------------------------------------------------------------
(***************************************************************************)
(* The rollout, call by call; done ends it, whatever follows in its turn.  *)
(***************************************************************************)
\* Somebody acts on the scene.
Acts(who) == \E g \in BOOLEAN :
    scene' = [scene EXCEPT !.hands = @ \cup {who}, !.goal = g]

\* A tool runs to its end.  One that leaves no new frame, and every refused
\* one, is followed by a look at the scene.
CallTool ==
    /\ ex = "turn" /\ turn < ToolBudget /\ ~contaminated
    /\ Acts("attempt")
    /\ turn' = turn + 1
    /\ ex' \in {"turn", "look"}
    /\ UNCHANGED <<i, attempt, completed, rollbacks, pre, post, verdict,
                   contaminated, declared, workers, recorders, pastVars>>

\* Mutant: the guard on contaminated calls is gone.
CallTimesOutAgain ==
    /\ ex = "turn" /\ turn < ToolBudget
    /\ Acts("attempt")
    /\ \/ /\ leaks < MaxLeaks
          /\ leaks' = leaks + 1 /\ workers' = workers + 1 /\ mine' = mine + 1
       \/ UNCHANGED <<leaks, workers, mine>>
    /\ turn' = turn + 1 /\ contaminated' = TRUE /\ ex' = "look"
    /\ UNCHANGED <<i, attempt, completed, rollbacks, pre, post, verdict, declared,
                   recorders, raised, grounds>>

\* A tool runs out of time: its worker stays.  A TimeoutError of the tool itself
\* is taken for the same, though nothing stays.
CallTimesOut ==
    /\ ex = "turn" /\ turn < ToolBudget /\ ~contaminated
    /\ Acts("attempt")
    /\ \/ /\ leaks < MaxLeaks
          /\ leaks' = leaks + 1 /\ workers' = workers + 1 /\ mine' = mine + 1
       \/ UNCHANGED <<leaks, workers, mine>>
    /\ turn' = turn + 1 /\ contaminated' = TRUE /\ ex' = "look"
    /\ UNCHANGED <<i, attempt, completed, rollbacks, pre, post, verdict, declared,
                   recorders, raised, grounds>>

CallRefused ==
    /\ ex = "turn" /\ turn < ToolBudget /\ contaminated
    /\ turn' = turn + 1 /\ ex' = "look"
    /\ UNCHANGED <<i, attempt, completed, rollbacks, pre, post, verdict,
                   contaminated, declared, envVars, pastVars>>

\* _refresh_head_view's take_snapshot returns.  While a worker holds the
\* simulator it may return or wait.
LookReturns ==
    /\ ex = "look"
    /\ ex' = "turn"
    /\ UNCHANGED <<i, attempt, completed, rollbacks, pre, post, verdict,
                   rollVars, envVars, pastVars>>

\* done, the model's silence, or the end of the budget.
LoopEnds ==
    /\ ex = "turn"
    /\ \/ turn < ToolBudget /\ declared' \in {"success", "failure"}
       \/ UNCHANGED declared
    /\ ex' = "unhook"
    /\ UNCHANGED <<i, attempt, completed, rollbacks, pre, post, verdict,
                   turn, contaminated, envVars, pastVars>>

\* The model or a tool raises: the recorder stays, the executor notes a
\* crash and goes on with the next attempt.
RolloutRaises ==
    /\ ex = "turn"
    /\ LeaveRollout
    /\ raised' = raised + 1
    /\ UNCHANGED <<i, attempt, completed, rollbacks, pre, post, verdict,
                   envVars, leaks, grounds>>

\* Mutant: a contaminated rollout returns its outcome like any other.
ReturnContaminated ==
    /\ ex = "unhook"
    /\ recorders' = recorders - 1
    /\ ex' = "review" /\ turn' = 0
    /\ UNCHANGED <<i, attempt, completed, rollbacks, pre, post, verdict,
                   contaminated, declared, scene, workers, pastVars>>

\* The recorder comes off; a contaminated rollout raises, which is a crashed
\* attempt, any other returns to be reviewed.
RolloutEnds ==
    /\ ex = "unhook"
    /\ recorders' = recorders - 1
    /\ \/ contaminated /\ LeaveRollout
       \/ ~contaminated /\ ex' = "review" /\ turn' = 0
          /\ UNCHANGED <<contaminated, declared, mine>>
    /\ UNCHANGED <<i, attempt, completed, rollbacks, pre, post, verdict,
                   scene, workers, leaks, raised, grounds>>
-----------------------------------------------------------------------------
(***************************************************************************)
(* The executor, after the rollout.                                        *)
(***************************************************************************)
\* review_sub_atomic answers, or its error ends the execution.
Review ==
    /\ ex = "review"
    /\ \/ ex' = "decide" /\ verdict' \in {"done", "retry"}
       \/ ex' = "died" /\ UNCHANGED verdict
    /\ UNCHANGED <<i, attempt, completed, rollbacks, pre, post,
                   rollVars, envVars, pastVars>>

IsLast == i = Atomics

\* Mutant: the predicate is asked of the atomic after the last.
AcceptedButLast(sim) ==
    /\ verdict = "done"
    /\ declared = "failure" => sim
    /\ i > Atomics => sim

\* The Reviewer's done, and the two backstops.
Accepted(sim) ==
    /\ verdict = "done"
    /\ declared = "failure" => sim
    /\ IsLast => sim

\* sim_check_success, behind some steps of physics on the last atomic, and
\* the verdict on the attempt.
Decide ==
    /\ ex = "decide"
    /\ \E sim \in BOOLEAN :
        /\ IsLast \/ sim = scene.goal
        /\ scene' = [scene EXCEPT !.goal = sim]
        /\ ex' = IF Accepted(sim) THEN "accept" ELSE "attempt"
        /\ grounds' = IF Accepted(sim)
                      THEN [grounds EXCEPT ![i] = [done |-> verdict = "done",
                                                   said |-> declared, sim |-> sim]]
                      ELSE grounds
    /\ verdict' = "none" /\ declared' = "none"
    /\ UNCHANGED <<i, attempt, completed, rollbacks, pre, post,
                   turn, contaminated, workers, recorders, leaks, mine, raised>>

\* Traces and plan are recorded, the scene is kept for rollbacks, the next
\* atomic is up; after the last one the task is complete.
Accept ==
    /\ ex = "accept"
    /\ scene' = [scene EXCEPT !.base = i, !.hands = {}]
    /\ post' = [post EXCEPT ![i] = scene']
    /\ completed' = i /\ i' = i + 1
    /\ ex' = IF IsLast THEN "ended" ELSE "atomic"
    /\ attempt' = 0 /\ pre' = NoScene
    /\ UNCHANGED <<rollbacks, verdict, rollVars, workers, recorders, pastVars>>

CanRollBack == rollbacks < MaxRollbacks /\ i > 2 /\ post[i - 2] # NoScene

\* Mutant: the rollbacks used are not counted.
RollBackUncounted ==
    /\ ex = "failed" /\ CanRollBack
    /\ scene' = post[i - 2]
    /\ post' = [k \in Index |-> IF k > i - 2 THEN NoScene ELSE post[k]]
    /\ completed' = i - 2 /\ i' = i - 1
    /\ attempt' = 0 /\ pre' = NoScene
    /\ grounds' = [k \in Index |-> IF k > i - 2 THEN NoGround ELSE grounds[k]]
    /\ ex' = "atomic"
    /\ UNCHANGED <<rollbacks, verdict, rollVars, workers, recorders, leaks, mine, raised>>

\* Back to the end of the atomic before the last accepted one.
RollBack ==
    /\ ex = "failed" /\ CanRollBack
    /\ rollbacks' = rollbacks + 1
    /\ scene' = post[i - 2]
    /\ post' = [k \in Index |-> IF k > i - 2 THEN NoScene ELSE post[k]]
    /\ completed' = i - 2 /\ i' = i - 1
    /\ attempt' = 0 /\ pre' = NoScene
    /\ grounds' = [k \in Index |-> IF k > i - 2 THEN NoGround ELSE grounds[k]]
    /\ ex' = "atomic"
    /\ UNCHANGED <<verdict, rollVars, workers, recorders, leaks, mine, raised>>

GiveUp ==
    /\ ex = "failed" /\ ~CanRollBack
    /\ ex' = "ended"
    /\ UNCHANGED <<i, attempt, completed, rollbacks, pre, post, verdict,
                   rollVars, envVars, pastVars>>
-----------------------------------------------------------------------------
(***************************************************************************)
(* A worker left behind: it acts, through the tool it still runs, and      *)
(* comes to its end some time.                                             *)
(***************************************************************************)
WorkerActs ==
    /\ workers > 0
    /\ Acts("leaked")
    /\ UNCHANGED <<exVars, rollVars, workers, recorders, pastVars>>

WorkerReturns ==
    /\ workers > 0
    /\ workers' = workers - 1
    /\ UNCHANGED <<exVars, rollVars, scene, recorders, pastVars>>

Execute ==
    \/ BeginAtomic \/ FirstAttempt \/ RetryFromSnapshot \/ RetryFromSeed \/ ResetRaises
    \/ OutOfAttempts
    \/ CallTool \/ CallTimesOut \/ CallRefused \/ LoopEnds \/ RolloutRaises \/ RolloutEnds
    \/ Review \/ Decide \/ Accept \/ RollBack \/ GiveUp

LhNext == Execute \/ LookReturns \/ WorkerActs \/ WorkerReturns

LhSpec == LhInit /\ [][LhNext]_lhVars

(***************************************************************************)
(* The executor's thread runs; a worker comes to its end; a look returns   *)
(* once no worker holds the simulator, and perhaps before.                 *)
(***************************************************************************)
LhFairness ==
    /\ WF_lhVars(Execute)
    /\ WF_lhVars(WorkerReturns)
    /\ WF_lhVars(LookReturns /\ workers = 0)

LhFairSpec == LhSpec /\ LhFairness

Success == ex = "ended" /\ completed = Atomics
-----------------------------------------------------------------------------
AttemptStarts == ex = "turn" /\ turn = 0

(***************************************************************************)
(* Over retries, crashes and rollbacks, an attempt starts on the accepted  *)
(* results of exactly the atomics before its own, and nothing of an        *)
(* earlier attempt's acts is in the scene - but for a worker left behind.  *)
(***************************************************************************)
AttemptsStartOnTheirBase ==
    AttemptStarts =>
        /\ scene.base = i - 1
        /\ scene.hands = {} \/ (leaks > 0 /\ scene.hands = {"leaked"})

(***************************************************************************)
(* The count of completed atomics, the atomic at work and the snapshots    *)
(* kept for rollbacks tell of the same scenes: what a rollback restores is *)
(* the end of the atomic it is kept for, and none is kept of work undone.  *)
(***************************************************************************)
SnapshotsMatchProgress ==
    /\ completed = i - 1
    /\ \A k \in Index :
        /\ post[k] # NoScene <=> k < i
        /\ k < i => post[k].base = k /\ post[k].hands = {}

(***************************************************************************)
(* A task is reported complete only if the Reviewer accepted each atomic,  *)
(* the predicate held when the last was accepted, and where the Engineer   *)
(* had declared failure the predicate contradicted it - in the lineage of  *)
(* atomics that was not rolled back.                                       *)
(***************************************************************************)
SuccessIsConfirmed ==
    Success => /\ grounds[Atomics].sim
               /\ \A k \in Index : grounds[k].done /\
                                   (grounds[k].said = "failure" => grounds[k].sim)

(***************************************************************************)
(* An attempt leaves at most one worker behind, and is neither reviewed nor*)
(* accepted then (rollout.py:502: never call the final adjudicator).       *)
(***************************************************************************)
TimedOutAttemptIsNotJudged ==
    /\ mine <= 1
    /\ ex \in {"review", "decide", "accept"} => mine = 0

(***************************************************************************)
(* Between attempts only those that left by an error have a recorder in    *)
(* the scene: an attempt that times out takes its own off.                 *)
(***************************************************************************)
RecordersAreOfErrors ==
    recorders = raised + (IF ex \in {"turn", "look", "unhook"} THEN 1 ELSE 0)

(***************************************************************************)
(* Retries and rollbacks are bounded: an execution comes to its end.       *)
(***************************************************************************)
ExecutionEnds == <>(ex \in {"ended", "died"})
=============================================================================
