----------------------------- MODULE TaskMemory -----------------------------
(***************************************************************************)
(* What the episodes of one task leave for the next ones:                  *)
(* memory/task_wiki.py (the wiki, its archive, the review queues and the   *)
(* seed plan), memory/plan_archive.py and memory/skill_history.py.  The    *)
(* operators here are the effects; AtomicEpisode says who takes them when. *)
(*                                                                         *)
(* A trace, a lead and a plan are told apart by the run they come from.    *)
(* The wiki is rewritten as a whole: read, changed, emptied (write_text    *)
(* opens for writing) and written.  Appends and approvals do so under one  *)
(* lock; making a missing wiki (_ensure_wiki) is a check and a write that  *)
(* readers and the Manager do without it.                                  *)
(***************************************************************************)
EXTENDS Integers, Sequences, FiniteSets

CONSTANTS
    Episode,    \* the runs of the task, each of a process of its own
    Manager,    \* the Manager's process
    Old,        \* a run of an earlier campaign
    Missing,    \* no wiki.md
    Free,       \* nobody holds task_wiki.lock
    MaxTraces   \* MAX_SUCCESS_TRACES = MAX_FAILURE_TRACES

Run == Episode \cup {Old}
Writer == Episode \cup {Manager}
Section == {"success", "failure"}
Page == [success : Seq(Run), failure : Seq(Run), leads : SUBSET Run]

\* The template; also what a file holds that was just emptied.
Blank == [success |-> <<>>, failure |-> <<>>, leads |-> {}]

ASSUME TaskMemoryAssumption ==
    /\ MaxTraces \in Nat \ {0}
    /\ Manager \notin Episode /\ Old \notin Episode /\ Free \notin Writer
    /\ Missing \notin Page

VARIABLES
    wiki,       \* <task>/wiki.md
    archived,   \* the runs whose trace is in wiki_archive.md
    wikiLock,   \* who holds task_wiki.lock
    md,         \* per writer, the text it is about to write
    queue,      \* the hypotheses in wiki_review, the promotions in plan_review
    seed,       \* the run the task's seed plan.md comes from
    recorded,   \* the runs in skill_success.jsonl
    plans,      \* the runs in successful_plans.jsonl
    wiped       \* history: the runs whose trace a template or a death may have removed

memVars == <<wiki, archived, wikiLock, md, queue, seed, recorded, plans, wiped>>

\* A hypothesis, the plan of the only round, or the record of several rounds;
\* a promotion keeps the seed it was compared with.
Proposal == [kind : {"hypothesis", "plan", "record"}, of : Run, prior : Run,
             status : {"pending", "approved", "rejected"}]

MemTypeOK ==
    /\ wiki \in Page \cup {Missing}
    /\ wiki # Missing => \A s \in Section : Len(wiki[s]) <= MaxTraces
    /\ archived \subseteq Run /\ wikiLock \in Writer \cup {Free}
    /\ md \in [Writer -> Page]
    /\ queue \subseteq Proposal
    /\ seed \in Run /\ recorded \subseteq Episode /\ plans \subseteq Episode
    /\ wiped \subseteq Run

\* A task without memory, or one whose failures filled their section before.
MemInit ==
    /\ wiki \in {Missing, [Blank EXCEPT !.failure = [k \in 1 .. MaxTraces |-> Old]]}
    /\ archived = {} /\ wikiLock = Free /\ md = [w \in Writer |-> Blank]
    /\ queue = {} /\ seed = Old /\ recorded = {} /\ plans = {}
    /\ wiped = IF wiki = Missing THEN {Old} ELSE {}
-----------------------------------------------------------------------------
(***************************************************************************)
(* The wiki.                                                               *)
(***************************************************************************)
OnPage(pg) == {r \in Run : \E s \in Section : \E k \in DOMAIN pg[s] : pg[s][k] = r}

\* The runs whose trace the wiki shows now.
Shown == IF wiki = Missing THEN {} ELSE OnPage(wiki)

\* The text a reader finds under the lock; a missing wiki is made first.
Text == IF wiki = Missing THEN Blank ELSE wiki

\* The template, over whatever is there by now.
WriteTemplate ==
    /\ wiki' = Blank /\ wiped' = wiped \cup Shown
    /\ UNCHANGED <<archived, wikiLock, md, queue, seed, recorded, plans>>

\* Mutant: the lock is opened, never taken.
OpenLock(w) == wikiLock' = w

TakeLock(w) == wikiLock = Free /\ wikiLock' = w

Prepended(pg, s, r) == [pg EXCEPT ![s] = <<r>> \o @]

\* What a section keeps: its newest entries, which are its first.
Capped(pg, s) == [pg EXCEPT ![s] =
    SubSeq(@, 1, IF Len(@) < MaxTraces THEN Len(@) ELSE MaxTraces)]

\* Mutant: what is cut off is dropped.
CutOverflow(w, s) ==
    /\ md' = [md EXCEPT ![w] = Capped(@, s)]
    /\ UNCHANGED <<wiki, archived, wikiLock, queue, seed, recorded, plans, wiped>>

\* What is cut off goes to the archive, before the wiki is written.
ArchiveOverflow(w, s) ==
    /\ archived' = archived \cup (OnPage(md[w]) \ OnPage(Capped(md[w], s)))
    /\ md' = [md EXCEPT ![w] = Capped(@, s)]
    /\ UNCHANGED <<wiki, wikiLock, queue, seed, recorded, plans, wiped>>

\* The file is opened for writing, and closed.
EmptyWiki ==
    /\ wiki' = Blank
    /\ UNCHANGED <<archived, wikiLock, md, queue, seed, recorded, plans, wiped>>

WriteWiki(w) ==
    /\ wiki' = md[w] /\ md' = [md EXCEPT ![w] = Blank] /\ wikiLock' = Free
    /\ UNCHANGED <<archived, queue, seed, recorded, plans, wiped>>

\* Mutant: a lock file outlives its owner.
DieWithoutLock(w, emptied) ==
    /\ wiped' = IF emptied THEN wiped \cup OnPage(md[w]) ELSE wiped
    /\ md' = [md EXCEPT ![w] = Blank]
    /\ UNCHANGED <<wiki, archived, wikiLock, queue, seed, recorded, plans>>

\* A process dies: the lock goes with it, and so does a text that was about to
\* be written to the file it has emptied.
DieWithLock(w, emptied) ==
    /\ wikiLock' = IF wikiLock = w THEN Free ELSE wikiLock
    /\ wiped' = IF emptied THEN wiped \cup OnPage(md[w]) ELSE wiped
    /\ md' = [md EXCEPT ![w] = Blank]
    /\ UNCHANGED <<wiki, archived, queue, seed, recorded, plans>>
-----------------------------------------------------------------------------
(***************************************************************************)
(* The queues, the seed plan and the journals.                             *)
(***************************************************************************)
Hypothesis(e) == [kind |-> "hypothesis", of |-> e, prior |-> Old, status |-> "pending"]

\* A plan that reads like the seed is not queued; a record of rounds never does.
QueuePromotion(e, k) ==
    /\ \/ queue' = queue \cup {[kind |-> k, of |-> e, prior |-> seed, status |-> "pending"]}
       \/ k = "plan" /\ UNCHANGED queue
    /\ UNCHANGED <<wiki, archived, wikiLock, md, seed, recorded, plans, wiped>>

Resolved(p, verdict) == (queue \ {p}) \cup {[p EXCEPT !.status = verdict]}

\* The Manager's verdict on a promotion.  A rejected one may be replaced by a
\* plan the Manager wrote; the record of several rounds only is.
ResolvePromotion(p) ==
    /\ p \in queue /\ p.kind \in {"plan", "record"} /\ p.status = "pending"
    /\ \/ queue' = Resolved(p, "approved") /\ seed' = p.of
       \/ queue' = Resolved(p, "rejected") /\ UNCHANGED seed
    /\ UNCHANGED <<wiki, archived, wikiLock, md, recorded, plans, wiped>>

\* record_episode_success: the journal of skills, then that of plans, which
\* takes the plan of a single round only.
RecordSkills(e) ==
    /\ recorded' = recorded \cup {e}
    /\ UNCHANGED <<wiki, archived, wikiLock, md, queue, seed, plans, wiped>>

\* Mutant: the first plan is archived whatever followed it.
ArchiveFirstPlan(e, rounds) ==
    /\ plans' = plans \cup {e}
    /\ UNCHANGED <<wiki, archived, wikiLock, md, queue, seed, recorded, wiped>>

ArchivePlan(e, rounds) ==
    /\ plans' = IF rounds = 1 THEN plans \cup {e} ELSE plans
    /\ UNCHANGED <<wiki, archived, wikiLock, md, queue, seed, recorded, wiped>>
=============================================================================
