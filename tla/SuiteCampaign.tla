--------------------------- MODULE SuiteCampaign ---------------------------
(***************************************************************************)
(* roborsi/evaluation/suite.py: the resumable short-suite runner.          *)
(*                                                                         *)
(* One process at a time works on a campaign directory (campaign.json,     *)
(* episodes.jsonl, summary.json).  It loads the journal, walks the seeds   *)
(* in order, hands the tasks still open on a seed to a pool of worker      *)
(* processes in batches, and journals every result as it arrives.  A       *)
(* worker's native crash breaks the pool; a journal write may fail; the    *)
(* process may die at any step and be started again on the same directory. *)
(*                                                                         *)
(* Abstractions.  The task panel is a set without repetitions, so the      *)
(* order in which the tasks of one seed are batched and submitted is any   *)
(* order.  The worker limit inside concurrent.futures is external: any     *)
(* submitted episode may finish next.  A start that is refused leaves the  *)
(* directory as it was and is a stuttering step.  The Manager that runs    *)
(* beside an evolving campaign is in ManagerLoop.                          *)
(***************************************************************************)
EXTENDS SuiteAudit

CONSTANTS
    NoManifest,        \* there is no campaign.json
    TornManifest,      \* campaign.json is not valid JSON
    RunMode,           \* "frozen" or "evolve" (run_mode)
    Workers,           \* size of the process pool (workers)
    TasksPerProcess,   \* _TASKS_PER_PROCESS
    InfraRetries,      \* infra_retries
    MaxPoolRebuilds,   \* _MAX_POOL_REBUILDS
    RunAllModes,       \* the values --run-all-seeds may take on a start
    MaxStarts,         \* bound: how often the suite is started
    MaxAppendErrors    \* bound: how many journal writes fail

ASSUME SuiteAssumption ==
    /\ NoManifest \notin Config /\ TornManifest \notin Config
    /\ NoManifest # TornManifest
    /\ RunMode \in {"frozen", "evolve"}
    /\ Workers \in Nat \ {0}
    /\ TasksPerProcess \in Nat \ {0}
    /\ InfraRetries \in Nat
    /\ MaxPoolRebuilds \in Nat
    /\ RunAllModes \subseteq BOOLEAN
    /\ MaxStarts \in Nat
    /\ MaxAppendErrors \in Nat

VARIABLES
    \* the campaign directory
    manifest,         \* campaign.json: a Config, NoManifest or TornManifest
    journal,          \* the rows of episodes.jsonl that parse
    torn,             \* "none"; "open": the file ends in a partial line;
                      \* "closed": an unparsable line has rows after it
    summary,          \* summary.json
    \* the suite process
    pc,               \* where run_libero_short_suite stands
    cfg,              \* what this process was started with
    run_all_seeds,
    seed,
    rows,             \* every row this process knows of, for the summary
    terminal_by_key,  \* keys with a terminal verdict
    attempts_by_key,  \* highest attempt number per key
    solved,           \* tasks with a success
    \* the batch being run
    stage,            \* per task: where its payload of this seed stands
    attempt_start,    \* per task: payload["attempt_start"]
    poolBroken,       \* the current executor is unusable
    rebuilds,
    toRecord,         \* rows of the result _record is working through
    \* bounds
    starts, appendErrors

disk == <<manifest, journal, torn, summary>>
memory == <<rows, terminal_by_key, attempts_by_key, solved>>
pool == <<poolBroken, rebuilds>>
bounds == <<starts, appendErrors>>
vars == <<disk, pc, cfg, run_all_seeds, seed, memory, stage, attempt_start,
          pool, toRecord, bounds>>

Stages ==
    {"none",      \* not pending on this seed
     "waiting",   \* pending, in no batch yet
     "payload",   \* in the batch, to be handed to an executor
     "inflight",  \* submitted
     "done",      \* the future has a result or the worker's exception
     "broken",    \* the future has BrokenProcessPool
     "requeue",   \* to be retried on the next executor
     "recording", \* its rows are being recorded
     "finished"}

\* A payload in one of these stages has yet to produce its rows.
Outstanding == {"waiting", "payload", "inflight", "done", "broken", "requeue"}

TypeOK ==
    /\ manifest \in Config \cup {NoManifest, TornManifest}
    /\ journal \in Seq(Row)
    /\ torn \in {"none", "open", "closed"}
    /\ summary \in Summary \cup {NoSummary}
    /\ pc \in {"idle", "seed", "batch", "submit", "collect", "record"}
    /\ cfg \in Config
    /\ run_all_seeds \in BOOLEAN
    /\ seed \in 0 .. PassAt
    /\ rows \in Seq(Row)
    /\ terminal_by_key \subseteq Key
    /\ attempts_by_key \in [Key -> Nat]
    /\ solved \subseteq Task
    /\ stage \in [Task -> Stages]
    /\ attempt_start \in [Task -> Nat]
    /\ poolBroken \in BOOLEAN
    /\ rebuilds \in 0 .. MaxPoolRebuilds
    /\ toRecord \in Seq(Row)
    /\ starts \in 0 .. MaxStarts
    /\ appendErrors \in 0 .. MaxAppendErrors
-----------------------------------------------------------------------------
(***************************************************************************)
(* What a process that is not running leaves in memory: nothing.           *)
(***************************************************************************)
NoStage == [t \in Task |-> "none"]
NoStart == [t \in Task |-> 0]

Init ==
    /\ manifest = NoManifest
    /\ journal = << >>
    /\ torn = "none"
    /\ summary = NoSummary
    /\ pc = "idle"
    /\ cfg \in Config
    /\ run_all_seeds \in RunAllModes
    /\ seed = 0
    /\ rows = << >>
    /\ terminal_by_key = {}
    /\ attempts_by_key = [k \in Key |-> 0]
    /\ solved = {}
    /\ stage = NoStage
    /\ attempt_start = NoStart
    /\ poolBroken = FALSE
    /\ rebuilds = 0
    /\ toRecord = << >>
    /\ starts = 0
    /\ appendErrors = 0

\* The process is gone; what it was started with is kept as it was.
ProcessEnds ==
    /\ pc' = "idle"
    /\ seed' = 0
    /\ rows' = << >>
    /\ terminal_by_key' = {}
    /\ attempts_by_key' = [k \in Key |-> 0]
    /\ solved' = {}
    /\ stage' = NoStage
    /\ attempt_start' = NoStart
    /\ poolBroken' = FALSE
    /\ rebuilds' = 0
    /\ toRecord' = << >>
    /\ UNCHANGED <<cfg, run_all_seeds, bounds>>

-----------------------------------------------------------------------------
(***************************************************************************)
(* Starting the suite: _load_or_create_campaign, then _load_journal.       *)
(***************************************************************************)

\* Mutant: a resume compares the settings only.
CompatibleOnAnyRuntime(c) ==
    /\ manifest \in Config
    /\ manifest.settings = c.settings

\* A frozen campaign is pinned to its runtime, an evolving one is not.
Compatible(c) ==
    /\ manifest \in Config
    /\ manifest.settings = c.settings
    /\ RunMode = "frozen" => manifest.runtime = c.runtime

\* _load_journal accepts the file: every line parses and no two terminal
\* rows of a key disagree.
JournalLoads ==
    /\ torn = "none"
    /\ \A i, j \in DOMAIN journal :
           /\ IsTerminal(journal[i]) /\ IsTerminal(journal[j])
           /\ KeyOf(journal[i]) = KeyOf(journal[j])
           => journal[i].verdict = journal[j].verdict

\* Mutants: failures are forgotten on a resume; the summary covers this process
\* only.
LoadJournalSuccessesOnly ==
    /\ rows' = journal
    /\ terminal_by_key' = {k \in TerminalKeys(journal) : k[1] \in SolvedTasks(journal)}
    /\ attempts_by_key' = [k \in Key |-> Max({0} \cup AttemptsOf(journal, k))]
    /\ solved' = SolvedTasks(journal)

LoadJournalFreshRows ==
    /\ rows' = << >>
    /\ terminal_by_key' = TerminalKeys(journal)
    /\ attempts_by_key' = [k \in Key |-> Max({0} \cup AttemptsOf(journal, k))]
    /\ solved' = SolvedTasks(journal)

LoadJournal ==
    /\ rows' = journal
    /\ terminal_by_key' = TerminalKeys(journal)
    /\ attempts_by_key' = [k \in Key |-> Max({0} \cup AttemptsOf(journal, k))]
    /\ solved' = SolvedTasks(journal)

Launch(c, all) ==
    /\ pc = "idle"
    /\ starts < MaxStarts
    /\ starts' = starts + 1
    /\ cfg' = c
    /\ run_all_seeds' = all
    /\ pc' = "seed"
    /\ seed' = 0
    /\ LoadJournal
    /\ UNCHANGED <<journal, torn, summary, stage, attempt_start, pool, toRecord,
                   appendErrors>>

Create(c, all) ==
    /\ manifest = NoManifest
    /\ journal = << >> /\ torn = "none"
    /\ manifest' = c
    /\ Launch(c, all)

Resume(c, all) ==
    /\ Compatible(c)
    /\ JournalLoads
    /\ UNCHANGED manifest
    /\ Launch(c, all)

\* The process dies while it writes campaign.json in place.
CrashWhileCreating ==
    /\ pc = "idle"
    /\ starts < MaxStarts
    /\ manifest = NoManifest
    /\ journal = << >> /\ torn = "none"
    /\ manifest' = TornManifest
    /\ starts' = starts + 1
    /\ UNCHANGED <<journal, torn, summary, pc, cfg, run_all_seeds, seed, memory,
                   stage, attempt_start, pool, toRecord, appendErrors>>

Start ==
    \/ \E c \in Config, all \in RunAllModes : Create(c, all) \/ Resume(c, all)
    \/ CrashWhileCreating

-----------------------------------------------------------------------------
(***************************************************************************)
(* The seed loop.                                                          *)
(***************************************************************************)
Sequential == Workers = 1 /\ RunMode # "evolve"

BatchSize(n) == IF RunMode = "evolve" THEN n ELSE Workers * TasksPerProcess

StageOf(S) == {t \in Task : stage[t] \in S}

\* Mutants: a judged seed is scheduled again; a solved task is scheduled on.
PendingIgnoresVerdicts == {t \in Task : run_all_seeds \/ t \notin solved}
PendingIgnoresSolved == {t \in Task : <<t, seed>> \notin terminal_by_key}

Pending ==
    {t \in Task : /\ run_all_seeds \/ t \notin solved
                  /\ <<t, seed>> \notin terminal_by_key}

BeginSeed ==
    /\ pc = "seed"
    /\ seed < PassAt
    /\ stage' = [t \in Task |-> IF t \in Pending THEN "waiting" ELSE "none"]
    /\ pc' = "batch"
    /\ UNCHANGED <<disk, cfg, run_all_seeds, seed, memory, attempt_start, pool,
                   toRecord, bounds>>

\* The next batch_size pending tasks become payloads of one pool run.
FormBatch ==
    /\ pc = "batch"
    /\ LET waiting == StageOf({"waiting"})
           size == BatchSize(Cardinality(waiting))
       IN  \E B \in SUBSET waiting :
              /\ B # {}
              /\ Cardinality(B) = size \/ (B = waiting /\ Cardinality(B) < size)
              /\ stage' = [t \in Task |-> IF t \in B THEN "payload" ELSE stage[t]]
              /\ attempt_start' =
                     [t \in Task |-> IF t \in B THEN attempts_by_key[<<t, seed>>] + 1
                                                ELSE attempt_start[t]]
    /\ poolBroken' = FALSE
    /\ rebuilds' = 0
    /\ pc' = "submit"
    /\ UNCHANGED <<disk, cfg, run_all_seeds, seed, memory, toRecord, bounds>>

EndSeed ==
    /\ pc = "batch"
    /\ StageOf({"waiting"}) = {}
    /\ seed' = seed + 1
    /\ pc' = "seed"
    /\ stage' = NoStage
    /\ attempt_start' = NoStart
    /\ UNCHANGED <<disk, cfg, run_all_seeds, memory, pool, toRecord, bounds>>

-----------------------------------------------------------------------------
(***************************************************************************)
(* What a payload yields.  _run_suite_attempt repeats an episode while its *)
(* verdict is infra, at most InfraRetries times, and returns all rows at   *)
(* its end; an exception gives one row under the payload's first attempt.  *)
(***************************************************************************)
EpisodeRow(t, n, v) ==
    [task |-> t, seed |-> seed, attempt |-> n, verdict |-> v, cfg |-> cfg]

AttemptRows(t) ==
    {[i \in 1 .. p[1] |-> EpisodeRow(t, attempt_start[t] + i - 1,
                                     IF i < p[1] THEN "infra" ELSE p[2])] :
        p \in {q \in (1 .. InfraRetries + 1) \X Verdict :
                   q[2] = "infra" => q[1] = InfraRetries + 1}}

\* _parent_worker_error: classify_attempt_exception sees a broken pool as
\* an implementation error, and any other exception as one or the other.
ParentWorkerError(t, v) == << EpisodeRow(t, attempt_start[t], v) >>

BrokenPoolError(t) == ParentWorkerError(t, "implementation_error")
OtherErrors(t) == {ParentWorkerError(t, v) : v \in Nonterminal}

\* results.append((payload, rs)) calls on_result, which is _record.
RecordResult(t, rs) ==
    /\ stage' = [stage EXCEPT ![t] = "recording"]
    /\ toRecord' = rs
    /\ pc' = "record"

-----------------------------------------------------------------------------
(***************************************************************************)
(* _run_payload_batch.                                                     *)
(***************************************************************************)

\* One worker, frozen: the episodes run in the suite process, one by one.
RunInProcess(t) ==
    /\ pc = "submit" /\ Sequential
    /\ stage[t] = "payload"
    /\ \E rs \in AttemptRows(t) \cup OtherErrors(t) : RecordResult(t, rs)
    /\ UNCHANGED <<disk, cfg, run_all_seeds, seed, memory, attempt_start, pool, bounds>>

Submit(t) ==
    /\ pc = "submit" /\ ~Sequential
    /\ stage[t] = "payload"
    /\ ~poolBroken
    /\ stage' = [stage EXCEPT ![t] = "inflight"]
    /\ UNCHANGED <<disk, pc, cfg, run_all_seeds, seed, memory, attempt_start, pool,
                   toRecord, bounds>>

\* submit raises: the pool broke while the batch was being handed over, or
\* a process could not be spawned.
SubmitRaises(t) ==
    /\ pc = "submit" /\ ~Sequential
    /\ stage[t] = "payload"
    /\ \E rs \in (IF poolBroken THEN {BrokenPoolError(t)} ELSE OtherErrors(t)) :
           RecordResult(t, rs)
    /\ UNCHANGED <<disk, cfg, run_all_seeds, seed, memory, attempt_start, pool, bounds>>

AllSubmitted ==
    /\ pc = "submit"
    /\ StageOf({"payload"}) = {}
    /\ pc' = "collect"
    /\ UNCHANGED <<disk, cfg, run_all_seeds, seed, memory, stage, attempt_start, pool,
                   toRecord, bounds>>

\* A worker returns the rows of its payload, or its exception.
WorkerFinishes(t) ==
    /\ stage[t] = "inflight"
    /\ stage' = [stage EXCEPT ![t] = "done"]
    /\ UNCHANGED <<disk, pc, cfg, run_all_seeds, seed, memory, attempt_start, pool,
                   toRecord, bounds>>

\* A worker process dies: every unfinished future of the executor breaks.
PoolBreaks ==
    /\ StageOf({"inflight"}) # {}
    /\ stage' = [t \in Task |-> IF stage[t] = "inflight" THEN "broken" ELSE stage[t]]
    /\ poolBroken' = TRUE
    /\ UNCHANGED <<disk, pc, cfg, run_all_seeds, seed, memory, attempt_start, rebuilds,
                   toRecord, bounds>>

Collect(t) ==
    /\ pc = "collect"
    /\ stage[t] = "done"
    /\ \E rs \in AttemptRows(t) \cup OtherErrors(t) : RecordResult(t, rs)
    /\ UNCHANGED <<disk, cfg, run_all_seeds, seed, memory, attempt_start, pool, bounds>>

CollectBroken(t) ==
    /\ pc = "collect"
    /\ stage[t] = "broken"
    /\ IF rebuilds < MaxPoolRebuilds
       THEN /\ stage' = [stage EXCEPT ![t] = "requeue"]
            /\ UNCHANGED <<pc, toRecord>>
       ELSE RecordResult(t, BrokenPoolError(t))
    /\ UNCHANGED <<disk, cfg, run_all_seeds, seed, memory, attempt_start, pool, bounds>>

\* Mutants: what must be retried is forgotten; rebuilds are not counted.
RoundEndsForgetful ==
    /\ pc = "collect"
    /\ StageOf({"inflight", "done", "broken"}) = {}
    /\ pc' = "batch"
    /\ UNCHANGED <<disk, cfg, run_all_seeds, seed, memory, stage, attempt_start, pool,
                   toRecord, bounds>>

RoundEndsUncounted ==
    /\ pc = "collect"
    /\ StageOf({"inflight", "done", "broken"}) = {}
    /\ IF StageOf({"requeue"}) # {}
       THEN /\ stage' = [t \in Task |-> IF stage[t] = "requeue" THEN "payload" ELSE stage[t]]
            /\ poolBroken' = FALSE
            /\ pc' = "submit"
       ELSE /\ pc' = "batch"
            /\ UNCHANGED <<stage, poolBroken>>
    /\ UNCHANGED <<disk, cfg, run_all_seeds, seed, memory, attempt_start, rebuilds,
                   toRecord, bounds>>

\* The executor is shut down; what must be retried goes to a new one.
RoundEnds ==
    /\ pc = "collect"
    /\ StageOf({"inflight", "done", "broken"}) = {}
    /\ IF StageOf({"requeue"}) # {}
       THEN /\ rebuilds' = rebuilds + 1
            /\ stage' = [t \in Task |-> IF stage[t] = "requeue" THEN "payload" ELSE stage[t]]
            /\ poolBroken' = FALSE
            /\ pc' = "submit"
       ELSE /\ pc' = "batch"
            /\ UNCHANGED <<stage, pool>>
    /\ UNCHANGED <<disk, cfg, run_all_seeds, seed, memory, attempt_start, toRecord, bounds>>

-----------------------------------------------------------------------------
(***************************************************************************)
(* _record: for each row, remember it, journal it, update the indexes.     *)
(***************************************************************************)

\* Past the last row the runner goes on with the batch.
RecordingOf(t) == stage[t] = "recording"

AfterRecording ==
    /\ stage' = [t \in Task |-> IF RecordingOf(t) THEN "finished" ELSE stage[t]]
    /\ pc' = IF StageOf({"payload"}) # {} THEN "submit" ELSE "collect"

\* The row is journaled; a row that meets a partial line is lost in it.
RecordRow ==
    /\ pc = "record"
    /\ LET r == Head(toRecord)
           k == KeyOf(r)
       IN  /\ rows' = Append(rows, r)
           /\ IF torn = "open"
              THEN torn' = "closed" /\ UNCHANGED journal
              ELSE journal' = Append(journal, r) /\ UNCHANGED torn
           /\ attempts_by_key' =
                  [attempts_by_key EXCEPT ![k] = IF @ < r.attempt THEN r.attempt ELSE @]
           /\ terminal_by_key' = IF IsTerminal(r) THEN terminal_by_key \cup {k}
                                                  ELSE terminal_by_key
           /\ solved' = IF r.verdict = "success" THEN solved \cup {r.task} ELSE solved
    /\ toRecord' = Tail(toRecord)
    /\ IF Tail(toRecord) = << >> THEN AfterRecording ELSE UNCHANGED <<stage, pc>>
    /\ UNCHANGED <<manifest, summary, cfg, run_all_seeds, seed, attempt_start, pool, bounds>>

\* A write stops short: nothing, or a part of the line, reaches the file.
AppendStops ==
    \/ UNCHANGED torn
    \/ torn' = "open"

\* _append_journal raises; the handler is abandoned and the error swallowed.
RecordRaises ==
    /\ pc = "record"
    /\ appendErrors < MaxAppendErrors
    /\ appendErrors' = appendErrors + 1
    /\ rows' = Append(rows, Head(toRecord))
    /\ AppendStops
    /\ toRecord' = << >>
    /\ AfterRecording
    /\ UNCHANGED <<manifest, journal, summary, cfg, run_all_seeds, seed, terminal_by_key,
                   attempts_by_key, solved, attempt_start, pool, starts>>

-----------------------------------------------------------------------------
(***************************************************************************)
(* The summary, from the rows this process knows of.                       *)
(***************************************************************************)
TerminalIn(rs, k) == {i \in DOMAIN rs : KeyOf(rs[i]) = k /\ IsTerminal(rs[i])}

\* terminal[key] and latest_by_key[key], both overwritten by later rows
FinalVerdict(rs, k) == rs[Max(TerminalIn(rs, k))].verdict
LatestVerdict(rs, k) == rs[Max(RowsOf(rs, k))].verdict

SucceededSeeds(rs, t) ==
    {s \in Seed : TerminalIn(rs, <<t, s>>) # {} /\ FinalVerdict(rs, <<t, s>>) = "success"}

CompleteTask(rs, t, all) ==
    \/ \A s \in Seed : TerminalIn(rs, <<t, s>>) # {}
    \/ SucceededSeeds(rs, t) # {} /\ ~all

SummarizeSuite(rs, all) ==
    LET closed == TerminalKeys(rs)
        incomplete == {t \in Task : ~CompleteTask(rs, t, all)}
    IN [status |-> IF incomplete = {} THEN "complete" ELSE "incomplete",
        solved_tasks |-> {t \in Task : SucceededSeeds(rs, t) # {}},
        incomplete_tasks |-> Cardinality(incomplete),
        episode_successes |-> Cardinality({k \in closed : FinalVerdict(rs, k) = "success"}),
        episode_failures |-> Cardinality({k \in closed : FinalVerdict(rs, k) = "failure"}),
        infra_count |-> CountVerdict(rs, "infra"),
        implementation_error_count |-> CountVerdict(rs, "implementation_error"),
        unresolved_implementation_error_count |->
            Cardinality({k \in {KeyOf(rs[i]) : i \in DOMAIN rs} \ closed :
                            LatestVerdict(rs, k) = "implementation_error"})]

Finish ==
    /\ pc = "seed"
    /\ seed = PassAt
    /\ summary' = SummarizeSuite(rows, run_all_seeds)
    /\ ProcessEnds
    /\ UNCHANGED <<manifest, journal, torn>>

-----------------------------------------------------------------------------
(***************************************************************************)
(* The suite process dies, possibly in the middle of a journal write.      *)
(***************************************************************************)
Crash ==
    /\ pc # "idle"
    /\ IF pc = "record" THEN AppendStops ELSE UNCHANGED torn
    /\ ProcessEnds
    /\ UNCHANGED <<manifest, journal, summary>>

Step ==
    \/ BeginSeed \/ FormBatch \/ EndSeed
    \/ AllSubmitted \/ RoundEnds
    \/ \E t \in Task : \/ RunInProcess(t) \/ Submit(t) \/ SubmitRaises(t)
                       \/ WorkerFinishes(t) \/ Collect(t) \/ CollectBroken(t)
    \/ RecordRow
    \/ Finish

Next == Start \/ Step \/ PoolBreaks \/ RecordRaises \/ Crash

Spec == Init /\ [][Next]_vars

\* The suite's own steps and its workers keep going; nothing obliges a pool
\* to break, a write to fail, the process to die or anyone to start it.
FairSpec == Spec /\ WF_vars(Step)

-----------------------------------------------------------------------------
(***************************************************************************)
(* Properties.                                                             *)
(***************************************************************************)
Ledger == INSTANCE EpisodeLedger WITH ledger <- journal

(* Whatever breaks and restarts, the journal behaves as the abstract        *)
(* ledger: append-only, no row for an episode that already has its          *)
(* verdict, and a fresh, higher attempt number for a repeated episode.      *)
ImplementsLedger == Ledger!LedgerSpec

(* An episode's verdict is the last row of its (task, seed): a resume, a    *)
(* pool rebuild or a retry never runs a judged episode for the record       *)
(* again, so the rates computed from the rows count it once.                *)
EpisodesRecordedOnce == Ledger!VerdictIsLast

(* (task, seed, attempt) names one row: the attempts of an episode are      *)
(* numbered upwards over all processes that ever worked on the campaign.    *)
AttemptsNumberedUpwards == Ledger!AttemptsIncrease

(* While a process works, its indexes answer for every journaled row, those *)
(* of earlier processes included: what the seed loop skips and how it       *)
(* numbers attempts is decided from them alone.                             *)
IndexesCoverJournal ==
    pc # "idle" =>
        \A i \in DOMAIN journal :
            LET r == journal[i]
            IN  /\ IsTerminal(r) => KeyOf(r) \in terminal_by_key
                /\ r.verdict = "success" => r.task \in solved
                /\ r.attempt <= attempts_by_key[KeyOf(r)]

(* A task with a journaled success is given no further episode, by this     *)
(* process or a later one, unless the suite was started to run all seeds.   *)
SolvedTasksRest ==
    \A t \in StageOf(Outstanding) :
        ~run_all_seeds => t \notin SolvedTasks(journal)

(* When a seed is over, every task of the panel was either done with it     *)
(* beforehand or has a new row under at least the attempt its payload was   *)
(* given: no broken pool, failed submission or failed journal write makes   *)
(* an episode vanish from the process's record.                             *)
NoEpisodeVanishes ==
    pc = "batch" /\ StageOf({"waiting"}) = {} =>
        \A t \in Task :
            IF attempt_start[t] = 0
            THEN \/ <<t, seed>> \in terminal_by_key
                 \/ ~run_all_seeds /\ t \in solved
            ELSE \E n \in AttemptsOf(rows, <<t, seed>>) : n >= attempt_start[t]

(* All rows of a campaign were produced under the settings campaign.json    *)
(* pins and, in a frozen campaign, on the one runtime it pins.              *)
OneConfiguration ==
    \A i \in DOMAIN journal :
        /\ manifest \in Config
        /\ journal[i].cfg.settings = manifest.settings
        /\ RunMode = "frozen" => journal[i].cfg.runtime = manifest.runtime

(* docs/EVALUATION.md: the audit recomputes every figure from the journal.  *)
(* It has no objection to a pass@K campaign that just ran to its end: each  *)
(* summary the runner wrote from memory, over restarts, is the journal's,   *)
(* and no verdict is doubled or contradicted.  The success-lock is left     *)
(* out: the audit goes by seed numbers, the runner by time, and a seed that *)
(* is solved on a resume after a later one failed makes them disagree.      *)
FinishedRunAudits ==
    [][pc = "seed" /\ pc' = "idle" /\ summary' # summary /\ ~run_all_seeds =>
           audit_errors(journal', torn' # "none", summary', RunMode)
               \subseteq {"success-lock violation"}]_vars

(* Once summary.json calls a campaign complete, starting the suite again    *)
(* on it runs no episode and adds no row.                                   *)
CompleteIsFinal ==
    [][/\ summary # NoSummary
       /\ summary.status = "complete"
       => journal' = journal /\ StageOf(Outstanding)' = {}]_vars

(* Every started suite comes to its end: pools that keep breaking are       *)
(* rebuilt a bounded number of times and their payloads then given up.      *)
SuiteTerminates == pc = "seed" ~> pc = "idle"
=============================================================================
