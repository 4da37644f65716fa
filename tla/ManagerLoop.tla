----------------------------- MODULE ManagerLoop -----------------------------
(***************************************************************************)
(* roborsi/evaluation/suite.py: _ManagerLoop, the thread that runs a       *)
(* Manager cycle whenever the queues hold work, beside the suite's main    *)
(* thread, which wakes it after every episode, waits for it between two    *)
(* seeds (wait_idle) and stops it at the end (stop).                       *)
(*                                                                         *)
(* The cycle is ManagerReview's, run as a child process; a kill is the     *)
(* caller's timeout.  The attributes _busy and _stopping, the event and    *)
(* the proposal files are all the two threads share, and nothing locks     *)
(* them: wait_idle reads _busy first and the files after it.  Episodes     *)
(* file proposals while the main thread runs a seed.                       *)
(***************************************************************************)
EXTENDS ManagerReview

CONSTANT MaxSeeds   \* bound: seeds the main thread runs

ASSUME LoopAssumption == MaxSeeds \in Nat \ {0}

VARIABLES
    loop,      \* where _run stands
    event,     \* _event is set
    stopping,  \* _stopping
    busy,      \* _busy
    main,      \* where the suite's main thread stands
    seeds      \* seeds begun

loopVars == <<loop, event, stopping, busy>>
mainVars == <<main, seeds>>
allVars == <<vars, loopVars, mainVars>>

LoopTypeOK ==
    /\ TypeOK
    /\ loop \in {"wait", "check", "cycle", "backoff", "end", "gone"}
    /\ event \in BOOLEAN /\ stopping \in BOOLEAN /\ busy \in BOOLEAN
    /\ main \in {"seed", "read_busy", "read_queues", "idle", "join",
                 "last_check", "last_cycle", "stopped"}
    /\ seeds \in 1 .. MaxSeeds

LoopInit ==
    /\ Init
    /\ loop = "wait" /\ event = FALSE /\ stopping = FALSE /\ busy = FALSE
    /\ main = "seed" /\ seeds = 1

\* _pending_reviews
PendingReviews ==
    \/ \E p \in Proposal : Eligible(p)
    \/ \E p \in Proposal : job[p] = "requested"
-----------------------------------------------------------------------------
(***************************************************************************)
(* The thread: _run.                                                       *)
(***************************************************************************)
\* The event is set, or the poll interval is over.
WaitReturns ==
    /\ loop = "wait"
    /\ event' = FALSE
    /\ loop' = IF stopping THEN "gone" ELSE "check"
    /\ UNCHANGED <<vars, stopping, busy, mainVars>>

\* Mutant: the inner loop does not look at _stopping.
RunCycleWhileStopping ==
    /\ loop = "check" /\ PendingReviews
    /\ CycleBegins
    /\ busy' = TRUE
    /\ loop' = "cycle"
    /\ UNCHANGED <<event, stopping, mainVars>>

\* _pending_reviews has found work; _busy is set and the cycle started.
RunCycle ==
    /\ loop = "check" /\ PendingReviews /\ ~stopping
    /\ CycleBegins
    /\ busy' = TRUE
    /\ loop' = "cycle"
    /\ UNCHANGED <<event, stopping, mainVars>>

NothingPending ==
    /\ loop = "check" /\ ~(PendingReviews /\ ~stopping)
    /\ loop' = "end"
    /\ UNCHANGED <<vars, event, stopping, busy, mainVars>>

\* Mutant: a cycle that fails ends the thread.
CycleReturnsOrRaises ==
    /\ loop = "cycle" /\ pc = "off"
    /\ loop' = IF exit = "ok" THEN "check" ELSE "gone"
    /\ UNCHANGED <<vars, event, stopping, busy, mainVars>>

CycleReturns ==
    /\ loop = "cycle" /\ pc = "off"
    /\ loop' = IF exit = "ok" THEN "check" ELSE "backoff"
    /\ UNCHANGED <<vars, event, stopping, busy, mainVars>>

\* The event is set, or the back-off is over; the event stays as it is.
BackoffReturns ==
    /\ loop = "backoff"
    /\ loop' = "end"
    /\ UNCHANGED <<vars, event, stopping, busy, mainVars>>

\* finally: _busy = False; while not _stopping.
EndRound ==
    /\ loop = "end"
    /\ busy' = FALSE
    /\ loop' = IF stopping THEN "gone" ELSE "wait"
    /\ UNCHANGED <<vars, event, stopping, mainVars>>

LoopStep == WaitReturns \/ RunCycle \/ NothingPending \/ CycleReturns
            \/ BackoffReturns \/ EndRound
-----------------------------------------------------------------------------
(***************************************************************************)
(* The suite's main thread.                                                *)
(***************************************************************************)
\* _record wakes the Manager.
EpisodeRecorded ==
    /\ main = "seed"
    /\ event' = TRUE
    /\ UNCHANGED <<vars, loop, stopping, busy, mainVars>>

\* wait_idle before the next seed
SeedEnds ==
    /\ main = "seed" /\ seeds < MaxSeeds
    /\ event' = TRUE
    /\ main' = "read_busy"
    /\ UNCHANGED <<vars, loop, stopping, busy, seeds>>

ReadBusy ==
    /\ main = "read_busy" /\ ~busy
    /\ main' = "read_queues"
    /\ UNCHANGED <<vars, loopVars, seeds>>

ReadQueues ==
    /\ main = "read_queues"
    /\ main' = IF PendingReviews THEN "read_busy" ELSE "idle"
    /\ UNCHANGED <<vars, loopVars, seeds>>

\* wait_idle has returned True ("idle"), or False at its deadline.
NextSeed ==
    /\ main \in {"idle", "read_busy"}
    /\ main' = "seed" /\ seeds' = seeds + 1
    /\ UNCHANGED <<vars, loopVars>>

Stop ==
    /\ main = "seed"
    /\ stopping' = TRUE /\ event' = TRUE
    /\ main' = "join"
    /\ UNCHANGED <<vars, loop, busy, seeds>>

Joined ==
    /\ main = "join" /\ loop = "gone"
    /\ main' = "last_check"
    /\ UNCHANGED <<vars, loopVars, seeds>>

LastCycle ==
    /\ main = "last_check" /\ PendingReviews
    /\ CycleBegins
    /\ main' = "last_cycle"
    /\ UNCHANGED <<loopVars, seeds>>

NoLastCycle ==
    /\ main = "last_check" /\ ~PendingReviews
    /\ main' = "stopped"
    /\ UNCHANGED <<vars, loopVars, seeds>>

LastCycleReturns ==
    /\ main = "last_cycle" /\ pc = "off"
    /\ main' = "stopped"
    /\ UNCHANGED <<vars, loopVars, seeds>>

MainStep == EpisodeRecorded \/ SeedEnds \/ ReadBusy \/ ReadQueues \/ NextSeed
            \/ Stop \/ Joined \/ LastCycle \/ NoLastCycle \/ LastCycleReturns
-----------------------------------------------------------------------------
Files ==
    /\ main = "seed" /\ \E p \in Proposal \ Candidate : FileProposal(p)
    /\ UNCHANGED <<loopVars, mainVars>>

Timer == (\E p \in Proposal : RetryDue(p)) /\ UNCHANGED <<loopVars, mainVars>>

\* The cycle's process, or the apply process it has started.
CycleGoesOn == (CycleStep \/ ApplyStep) /\ UNCHANGED <<loopVars, mainVars>>

\* A cycle exceeds ROBORSI_MANAGER_TIMEOUT_S or dies.
CycleDies == Kill /\ UNCHANGED <<loopVars, mainVars>>

LoopNext == LoopStep \/ MainStep \/ Files \/ Timer \/ CycleGoesOn \/ CycleDies

LoopSpec == LoopInit /\ [][LoopNext]_allVars
-----------------------------------------------------------------------------
(***************************************************************************)
(* Properties.                                                             *)
(***************************************************************************)
\* stop() returns only when no cycle runs and the thread is gone: what the
\* suite sums up after it, no Manager changes any more.
StoppedIsQuiet == main = "stopped" => pc = "off" /\ loop = "gone"

\* A wake-up, the poll interval or the end of the back-off brings every
\* proposal before the Manager, unless the suite stops first.
EveryProposalIsTakenUp ==
    \A p \in Proposal : Awaits(p) ~> (~Awaits(p) \/ stopping)

\* stop() returns: a thread in its wait, its back-off or a cycle sees
\* _stopping, even when the queue never becomes empty.
StopReturns == main = "join" ~> main = "stopped"

\* Threads are scheduled, a cycle and its apply process go on, timers run out.
LoopFairSpec ==
    /\ LoopSpec
    /\ WF_allVars(LoopStep)
    /\ WF_allVars(CycleGoesOn)
    /\ WF_allVars(Joined \/ LastCycle \/ NoLastCycle \/ LastCycleReturns)
    /\ WF_allVars(Timer)
=============================================================================
