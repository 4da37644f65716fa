----------------------------- MODULE SuiteAudit -----------------------------
(***************************************************************************)
(* roborsi/evaluation/audit.py: the independent audit of a campaign        *)
(* directory.  It sees only what is on disk (campaign.json, episodes.jsonl *)
(* and summary.json), recomputes the summary from the rows and lists what  *)
(* it objects to.  The errors are named by kind; which row or field they   *)
(* are about is wording.                                                   *)
(*                                                                         *)
(* tasks_solved, subset and suite are three breakdowns of one set, the     *)
(* solved tasks, which stands for them here.                               *)
(***************************************************************************)
EXTENDS EpisodeRows, FiniteSetsExt

CONSTANT NoSummary    \* there is no summary.json

Summary ==
    [status : {"complete", "incomplete"}, solved_tasks : SUBSET Task,
     incomplete_tasks : Nat, episode_successes : Nat, episode_failures : Nat,
     infra_count : Nat, implementation_error_count : Nat,
     unresolved_implementation_error_count : Nat]

ASSUME NoSummaryAssumption == NoSummary \notin Summary

-----------------------------------------------------------------------------
(***************************************************************************)
(* The three dictionaries the audit builds in one pass over the rows.      *)
(***************************************************************************)
TerminalRowsOf(rs, k) == {i \in RowsOf(rs, k) : IsTerminal(rs[i])}

\* terminal_by_pair: the last terminal row of a pair
terminal_by_pair(rs) ==
    [k \in {x \in Key : TerminalRowsOf(rs, x) # {}} |-> rs[Max(TerminalRowsOf(rs, k))]]

\* latest_by_pair: the last row of a pair, whatever its verdict
latest_by_pair(rs) ==
    [k \in {x \in Key : RowsOf(rs, x) # {}} |-> rs[Max(RowsOf(rs, k))]]

\* success_seed_by_task: the first seed on which a task succeeded
SuccessSeeds(rs, t) ==
    {s \in Seed : /\ <<t, s>> \in DOMAIN terminal_by_pair(rs)
                  /\ terminal_by_pair(rs)[<<t, s>>].verdict = "success"}

success_seed_by_task(rs) ==
    [t \in {x \in Task : SuccessSeeds(rs, x) # {}} |-> Min(SuccessSeeds(rs, t))]

-----------------------------------------------------------------------------
(***************************************************************************)
(* The summary as recomputed from the rows.                                *)
(***************************************************************************)
TaskComplete(rs, t) ==
    \/ t \in DOMAIN success_seed_by_task(rs)
    \/ Cardinality({s \in Seed : <<t, s>> \in DOMAIN terminal_by_pair(rs)}) = PassAt

Unresolved(rs) ==
    {k \in DOMAIN latest_by_pair(rs) :
        /\ k \notin DOMAIN terminal_by_pair(rs)
        /\ latest_by_pair(rs)[k].verdict = "implementation_error"}

PairsWith(rs, v) ==
    {k \in DOMAIN terminal_by_pair(rs) : terminal_by_pair(rs)[k].verdict = v}

recomputed(rs) ==
    [status |-> IF \A t \in Task : TaskComplete(rs, t) THEN "complete" ELSE "incomplete",
     solved_tasks |-> DOMAIN success_seed_by_task(rs),
     incomplete_tasks |-> Cardinality({t \in Task : ~TaskComplete(rs, t)}),
     episode_successes |-> Cardinality(PairsWith(rs, "success")),
     episode_failures |-> Cardinality(PairsWith(rs, "failure")),
     infra_count |-> CountVerdict(rs, "infra"),
     implementation_error_count |-> CountVerdict(rs, "implementation_error"),
     unresolved_implementation_error_count |-> Cardinality(Unresolved(rs))]

-----------------------------------------------------------------------------
(***************************************************************************)
(* The objections.                                                         *)
(***************************************************************************)
ConflictingVerdicts(rs) ==
    \E k \in Key : \E i, j \in TerminalRowsOf(rs, k) : rs[i].verdict # rs[j].verdict

DuplicateVerdicts(rs) ==
    \E k \in Key : Cardinality(TerminalRowsOf(rs, k)) > 1

\* Rows exist for a seed after the task's first successful seed.
SuccessLockViolated(rs) ==
    \E k \in DOMAIN latest_by_pair(rs) :
        /\ k[1] \in DOMAIN success_seed_by_task(rs)
        /\ k[2] > success_seed_by_task(rs)[k[1]]

NotFrozen(rs, run_mode) == rs # << >> /\ run_mode # "frozen"

SummaryDiffers(rs, summary) ==
    summary # NoSummary /\ summary # recomputed(rs)

\* unparsable: a line of the journal is not valid JSON.
audit_errors(rs, unparsable, summary, run_mode) ==
    {e \in {"invalid journal line", "conflicting terminal verdicts",
            "duplicate terminal verdicts", "success-lock violation",
            "not frozen eval mode", "summary field differs from journal"} :
        \/ e = "invalid journal line" /\ unparsable
        \/ e = "conflicting terminal verdicts" /\ ConflictingVerdicts(rs)
        \/ e = "duplicate terminal verdicts" /\ DuplicateVerdicts(rs)
        \/ e = "success-lock violation" /\ SuccessLockViolated(rs)
        \/ e = "not frozen eval mode" /\ NotFrozen(rs, run_mode)
        \/ e = "summary field differs from journal" /\ SummaryDiffers(rs, summary)}
=============================================================================
