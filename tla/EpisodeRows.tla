---------------------------- MODULE EpisodeRows ----------------------------
(***************************************************************************)
(* The rows of a campaign's episodes.jsonl and the facts about a list of   *)
(* rows that the suite runner, the audit and the abstract ledger share.    *)
(*                                                                         *)
(* Of a row the model keeps what any of them branches on: the task and     *)
(* seed that key it, the attempt number, the verdict, and the              *)
(* configuration of the process that produced it (backend, run mode,       *)
(* models, ... and the runtime fingerprint).  Timings, traces and texts    *)
(* are left out.                                                           *)
(***************************************************************************)
EXTENDS Integers, Sequences, FiniteSets

CONSTANTS
    Task,        \* the campaign's task panel (task_keys)
    PassAt,      \* number of seeds per task (pass_at); seeds are 0 .. PassAt-1
    Settings,    \* values of everything campaign.json pins but the runtime
    Runtime      \* runtime fingerprints: code revision and assets

ASSUME TaskAssumption == Task # {} /\ IsFiniteSet(Task)
ASSUME PassAtAssumption == PassAt \in Nat \ {0}

Seed == 0 .. PassAt - 1
Key == Task \X Seed

Config == [settings : Settings, runtime : Runtime]

Terminal == {"success", "failure"}
Nonterminal == {"infra", "implementation_error"}
Verdict == Terminal \cup Nonterminal

Row == [task : Task, seed : Seed, attempt : Nat \ {0},
        verdict : Verdict, cfg : Config]

KeyOf(r) == <<r.task, r.seed>>
IsTerminal(r) == r.verdict \in Terminal

(***************************************************************************)
(* Indexed views of a list of rows.                                        *)
(***************************************************************************)
RowsOf(rs, k) == {i \in DOMAIN rs : KeyOf(rs[i]) = k}
TerminalKeys(rs) == {KeyOf(rs[i]) : i \in {j \in DOMAIN rs : IsTerminal(rs[j])}}
SolvedTasks(rs) == {rs[i].task : i \in {j \in DOMAIN rs : rs[j].verdict = "success"}}
AttemptsOf(rs, k) == {rs[i].attempt : i \in RowsOf(rs, k)}

\* How many rows carry verdict v.
CountVerdict(rs, v) == Cardinality({i \in DOMAIN rs : rs[i].verdict = v})
=============================================================================
