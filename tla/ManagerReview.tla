---------------------------- MODULE ManagerReview ----------------------------
(***************************************************************************)
(* roborsi/agents/roles/manager/cycle.py: one Manager cycle over the four  *)
(* review queues, with the memory (task_wiki.py), the apply subprocess     *)
(* (apply_proposal.py) and the compound tests (compound_validation.py) it  *)
(* drives.                                                                 *)
(*                                                                         *)
(* Every proposal is a JSON file that the cycle reads, and rewrites after  *)
(* each decision.  The cycle may be killed between any two writes (the     *)
(* caller's timeout, a crash); a file it has moved on stays as it is.      *)
(*                                                                         *)
(* Abstractions.  A proposal is its position in the sorted listing of its  *)
(* folder.  Its text, the evidence shown to the Manager and the Manager's  *)
(* reasons are left out: any answer may come.  flock lets one cycle run at *)
(* a time.  An apply process that outlives its cycle has ended when the    *)
(* next cycle begins (that one starts after a back-off of a minute).  A    *)
(* promotion to the shared skill and what git holds is in SkillPublication.*)
(***************************************************************************)
EXTENDS Integers, FiniteSets

CONSTANTS
    Proposal,     \* the proposals, numbered in listing order
    Candidate,    \* those that only the Manager itself may file
    FolderOf,     \* the queue each is filed in
    ReviewModes,  \* the values of ROBORSI_REVIEW_MODE cycles are started with
    MaxFaults     \* bound: cycles killed and exceptions raised, together

Queues == <<"wiki", "plan", "skill", "policy">>

ASSUME ReviewAssumption ==
    /\ Proposal \subseteq Nat /\ IsFiniteSet(Proposal)
    /\ Candidate \subseteq Proposal
    /\ FolderOf \in [Proposal -> {"wiki", "plan", "skill", "policy"}]
    /\ \A c \in Candidate : FolderOf[c] = "skill"
    /\ ReviewModes \subseteq {"manager", "human"}
    /\ MaxFaults \in Nat

VARIABLES
    \* files
    proposal,   \* the fields of each proposal file the cycle acts on
    job,        \* compound-gates/<id>: which of its files exist
    \* the library, and what was tried (history)
    writes,     \* how many times a proposal's content stands in the library
    head,       \* the code proposals whose content is committed
    gate,       \* "passed" once a simulator gate of the proposal has passed
    tests,      \* how many functional tests a compound had
    \* processes
    apply,      \* the apply_proposal process of a proposal
    pc,         \* where cycle() stands
    folder,     \* the queue it is in
    todo,       \* the listed files of this queue it has not finished
    answer,     \* d, the decision it acts on
    exit,       \* how the last cycle ended
    \* bound
    faults

queue == <<proposal, job>>
library == <<writes, head>>
history == <<gate, tests>>
at == <<folder, todo>>
vars == <<queue, library, history, apply, pc, at, answer, exit, faults>>

Status ==
    {"absent", "pending", "approved", "rejected", "blocked",
     "source_validation_blocked", "gate_blocked", "gate_failed",
     "awaiting_human", "apply_failed", "applied", "validation_blocked",
     "validation_failed", "validation_error"}

File == [status : Status, manager_reviewed_at : BOOLEAN,
         manager_decision : {"none", "approve", "reject", "defer"},
         review_attempts : 0 .. 3,
         retry_after : BOOLEAN]   \* it lies in the future

\* corrected: a corrected_lead or corrected_plan came with the answer.
\* code: a code_proposal came with it.
Answer == [decision : {"none", "approve", "reject", "defer"},
           corrected : BOOLEAN, code : BOOLEAN]
NoAnswer == [decision |-> "none", corrected |-> FALSE, code |-> FALSE]

TypeOK ==
    /\ proposal \in [Proposal -> File]
    /\ job \in [Proposal -> {"none", "requested", "started", "ended"}]
    /\ writes \in [Proposal -> Nat]
    /\ head \subseteq Proposal
    /\ gate \in [Proposal -> {"none", "passed", "failed"}]
    /\ tests \in [Proposal -> Nat]
    /\ apply \in [Proposal -> {"idle", "started", "written", "rewritten", "committed"}]
    /\ pc \in {"off", "items", "act", "write", "mark", "apply", "after",
               "commit", "jobs", "test", "publish", "publish_commit", "result"}
    /\ folder \in 1 .. 4
    /\ todo \subseteq Proposal
    /\ answer \in Answer
    /\ exit \in {"none", "ok", "failed"}
    /\ faults \in 0 .. MaxFaults

Init ==
    /\ proposal = [p \in Proposal |->
                     [status |-> "absent", manager_reviewed_at |-> FALSE,
                      manager_decision |-> "none", review_attempts |-> 0,
                      retry_after |-> FALSE]]
    /\ job = [p \in Proposal |-> "none"]
    /\ writes = [p \in Proposal |-> 0]
    /\ head = {}
    /\ gate = [p \in Proposal |-> "none"]
    /\ tests = [p \in Proposal |-> 0]
    /\ apply = [p \in Proposal |-> "idle"]
    /\ pc = "off" /\ folder = 1 /\ todo = {}
    /\ answer = NoAnswer /\ exit = "none"
    /\ faults = 0
-----------------------------------------------------------------------------
Least(S) == CHOOSE p \in S : \A r \in S : p <= r

\* The proposal the cycle is working on.
item == Least(todo)
q == proposal[item]

Set(p, field, value) == [proposal EXCEPT ![p][field] = value]
SetStatus(status) == proposal' = Set(item, "status", status)

\* Mutant: regate does not ask for the approval.
RegateAnyReviewed(p) ==
    /\ FolderOf[p] = "skill"
    /\ proposal[p].status = "pending"
    /\ proposal[p].manager_reviewed_at

\* Approved code whose gate did not lead to an end.
Regate(p) ==
    /\ FolderOf[p] = "skill"
    /\ proposal[p].status = "pending"
    /\ proposal[p].manager_decision = "approve"
    /\ proposal[p].manager_reviewed_at

\* Mutant: a killed cycle's decided items are taken up again.
EligibleAnyway(p) ==
    /\ proposal[p].status = "pending"
    /\ ~proposal[p].retry_after

\* The item is due: it is not skipped by the two `continue's.
Eligible(p) ==
    /\ proposal[p].status = "pending"
    /\ proposal[p].manager_reviewed_at => Regate(p)
    /\ ~proposal[p].retry_after

\* sorted((home()/folder).glob('*.json')): an applied file has left the folder.
Listing(f) == {p \in Proposal : /\ FolderOf[p] = Queues[f]
                                /\ proposal[p].status \notin {"absent", "applied"}}

CycleBegins ==
    /\ pc = "off"
    /\ \A p \in Proposal : apply[p] = "idle"
    /\ pc' = "items" /\ folder' = 1 /\ todo' = Listing(1) /\ exit' = "none"
    /\ UNCHANGED <<queue, library, history, apply, answer, faults>>

\* The cycle process is over and its memory with it.
Over(result) ==
    /\ pc' = "off" /\ exit' = result
    /\ folder' = 1 /\ todo' = {} /\ answer' = NoAnswer

NextFolder ==
    /\ pc = "items" /\ todo = {}
    /\ IF folder < 4
       THEN /\ folder' = folder + 1 /\ todo' = Listing(folder + 1)
            /\ pc' = pc
       ELSE pc' = "commit" /\ UNCHANGED at
    /\ UNCHANGED <<queue, library, history, apply, answer, exit, faults>>

Continue == pc' = "items" /\ todo' = todo \ {item} /\ answer' = NoAnswer
                          /\ UNCHANGED folder

AtItem == pc = "items" /\ todo # {} /\ Eligible(item)

SkipItem ==
    /\ pc = "items" /\ todo # {} /\ ~Eligible(item)
    /\ Continue
    /\ UNCHANGED <<queue, library, history, apply, exit, faults>>

\* The proposal's text holds what the firewall does not let through.
FirewallDefers ==
    /\ AtItem
    /\ proposal' = [proposal EXCEPT ![item].manager_reviewed_at = TRUE,
                                    ![item].manager_decision = "defer"]
    /\ Continue
    /\ UNCHANGED <<job, library, history, apply, exit, faults>>

SourceBlocked ==
    /\ AtItem /\ FolderOf[item] = "policy"
    /\ SetStatus("source_validation_blocked")
    /\ Continue
    /\ UNCHANGED <<job, library, history, apply, exit, faults>>

UnusableAnswer ==
    /\ AtItem /\ ~Regate(item)
    /\ proposal' = [proposal EXCEPT
            ![item].review_attempts = @ + 1,
            ![item].manager_decision = "defer",
            ![item].manager_reviewed_at = @ \/ q.review_attempts + 1 >= 3]
    /\ Continue
    /\ UNCHANGED <<job, library, history, apply, exit, faults>>

\* What the cycle writes for decision d: a deferred proposal counts the review
\* and keeps manager_reviewed_at only from the third one on.
AfterReview(d) ==
    LET attempts == IF d = "defer" THEN q.review_attempts + 1
                                   ELSE q.review_attempts
    IN  [proposal EXCEPT ![item].manager_decision = d,
                         ![item].review_attempts = attempts,
                         ![item].manager_reviewed_at = d = "defer" => attempts >= 3]

\* d is the decision after a code rejection with every check passed has been
\* turned into an approval; a correction is read only with a rejection or an
\* approval of a lead or a plan.  A code proposal comes only where the bounds
\* leave room for one.
ManagerDecides ==
    /\ AtItem /\ ~Regate(item)
    /\ \E d \in {"approve", "reject", "defer"}, corrected, code \in BOOLEAN :
         /\ corrected => d = "reject" /\ FolderOf[item] \in {"wiki", "plan"}
         /\ code => Candidate # {}
         /\ proposal' = AfterReview(d)
         /\ answer' = [decision |-> d, corrected |-> corrected, code |-> code]
    /\ pc' = "act"
    /\ UNCHANGED <<job, library, history, apply, at, exit, faults>>

GateAgain ==
    /\ AtItem /\ Regate(item)
    /\ answer' = [decision |-> "approve", corrected |-> FALSE, code |-> FALSE]
    /\ pc' = "act"
    /\ UNCHANGED <<queue, library, history, apply, at, exit, faults>>
-----------------------------------------------------------------------------
Acting(decision) == pc = "act" /\ answer.decision = decision

ActReject ==
    /\ Acting("reject")
    /\ SetStatus("rejected")
    /\ pc' = IF answer.corrected THEN "write" ELSE "after"
    /\ UNCHANGED <<job, library, history, apply, at, answer, exit, faults>>

ActDefer ==
    /\ Acting("defer")
    /\ pc' = "after"
    /\ UNCHANGED <<queue, library, history, apply, at, answer, exit, faults>>

\* resolve_wiki_hypothesis, resolve_plan_promotion: first the wiki or the plan,
ResolveWrites ==
    /\ \/ pc = "write"
       \/ Acting("approve") /\ FolderOf[item] \in {"wiki", "plan"}
    /\ writes' = [writes EXCEPT ![item] = @ + 1]
    /\ pc' = "mark"
    /\ UNCHANGED <<queue, head, history, apply, at, answer, exit, faults>>

\* then the proposal.
ResolveMarks ==
    /\ pc = "mark"
    /\ SetStatus("approved")
    /\ pc' = "after"
    /\ UNCHANGED <<job, library, history, apply, at, answer, exit, faults>>

Gating == Acting("approve") /\ FolderOf[item] = "skill"

GateRaises ==
    /\ Gating
    /\ SetStatus("gate_blocked")
    /\ pc' = "after"
    /\ UNCHANGED <<job, library, history, apply, at, answer, exit, faults>>

\* Mutant: a gate that ran is taken for a gate that passed.
GateFailsApplied ==
    /\ Gating
    /\ gate' = [gate EXCEPT ![item] = IF @ = "passed" THEN @ ELSE "failed"]
    /\ apply' = [apply EXCEPT ![item] = "started"]
    /\ pc' = "apply"
    /\ UNCHANGED <<queue, library, tests, at, answer, exit, faults>>

GateFails ==
    /\ Gating
    /\ SetStatus("gate_failed")
    /\ gate' = [gate EXCEPT ![item] = IF @ = "passed" THEN @ ELSE "failed"]
    /\ pc' = "after"
    /\ UNCHANGED <<job, library, tests, apply, at, answer, exit, faults>>

GatePasses ==
    /\ Gating
    /\ gate' = [gate EXCEPT ![item] = "passed"]
    /\ \/ /\ "human" \in ReviewModes
          /\ SetStatus("awaiting_human")
          /\ pc' = "after" /\ UNCHANGED apply
       \/ /\ "manager" \in ReviewModes
          /\ apply' = [apply EXCEPT ![item] = "started"]
          /\ pc' = "apply" /\ UNCHANGED proposal
    /\ UNCHANGED <<job, library, tests, at, answer, exit, faults>>
-----------------------------------------------------------------------------
(***************************************************************************)
(* The apply_proposal process: write, commit, archive.  A commit that      *)
(* fails puts the text back that was there; text that is committed already *)
(* leaves git nothing to commit, which is a failure.                       *)
(***************************************************************************)
ApplyWrites(p) ==
    /\ apply[p] = "started"
    /\ writes' = [writes EXCEPT ![p] = 1]
    /\ apply' = [apply EXCEPT ![p] = IF writes[p] = 0 THEN "written" ELSE "rewritten"]
    /\ UNCHANGED <<queue, head, history, pc, at, answer, exit, faults>>

ApplyCommits(p) ==
    /\ apply[p] \in {"written", "rewritten"} /\ p \notin head
    /\ head' = head \cup {p}
    /\ apply' = [apply EXCEPT ![p] = "committed"]
    /\ UNCHANGED <<queue, writes, history, pc, at, answer, exit, faults>>

ApplyArchives(p) ==
    /\ apply[p] = "committed"
    /\ proposal' = Set(p, "status", "applied")
    /\ apply' = [apply EXCEPT ![p] = "idle"]
    /\ UNCHANGED <<job, library, history, pc, at, answer, exit, faults>>

ApplyFails(p) ==
    /\ apply[p] \in {"started", "written", "rewritten"}
    /\ writes' = [writes EXCEPT ![p] = IF apply[p] = "written" THEN 0 ELSE @]
    /\ apply' = [apply EXCEPT ![p] = "idle"]
    /\ UNCHANGED <<queue, head, history, pc, at, answer, exit, faults>>

ApplyReturns ==
    /\ pc = "apply" /\ apply[item] = "idle"
    /\ proposal' = IF q.status = "applied" THEN proposal
                   ELSE Set(item, "status", "apply_failed")
    /\ pc' = "after"
    /\ UNCHANGED <<job, library, history, apply, at, answer, exit, faults>>

\* The handler for an exception reads the file again; an archived file is gone
\* and nothing is written.
Reread(file) == IF q.status = "applied" THEN proposal
                ELSE [proposal EXCEPT ![item] = file]

RetryLater == Reread([q EXCEPT !.retry_after = TRUE])

\* subprocess.run kills the process, and its TimeoutExpired counts as transient.
ApplyTimesOut ==
    /\ pc = "apply" /\ apply[item] # "idle" /\ faults < MaxFaults
    /\ apply' = [apply EXCEPT ![item] = "idle"]
    /\ proposal' = RetryLater
    /\ Continue
    /\ faults' = faults + 1
    /\ UNCHANGED <<job, library, history, exit>>

\* A rate limit or a dropped connection, in the review or in the second call
\* that asks the Manager to correct the harness of its code proposal.
TransientError ==
    /\ faults < MaxFaults
    /\ AtItem \/ (pc = "after" /\ answer.code)
    /\ proposal' = RetryLater
    /\ Continue
    /\ faults' = faults + 1
    /\ UNCHANGED <<job, library, history, apply, exit>>

\* Any other exception while the item is read, reviewed, resolved or followed up.
PermanentError ==
    /\ faults < MaxFaults
    /\ AtItem \/ pc \in {"write", "mark", "after"}
    /\ proposal' = Reread([q EXCEPT !.status = "blocked",
                                    !.manager_reviewed_at = TRUE,
                                    !.manager_decision = "defer"])
    /\ Continue
    /\ faults' = faults + 1
    /\ UNCHANGED <<job, library, history, apply, exit>>

\* enqueue: compound-gates/<id>/request.json, once.
Enqueue ==
    /\ Acting("approve") /\ FolderOf[item] = "policy"
    /\ job' = [job EXCEPT ![item] = IF @ = "none" THEN "requested" ELSE @]
    /\ pc' = "after"
    /\ UNCHANGED <<proposal, library, history, apply, at, answer, exit, faults>>

EnqueueRefused ==
    /\ Acting("approve") /\ FolderOf[item] = "policy"
    /\ SetStatus("validation_blocked")
    /\ pc' = "after"
    /\ UNCHANGED <<job, library, history, apply, at, answer, exit, faults>>

\* The Manager's own code goes into the queue as a proposal to be reviewed.
FileCandidate(c) ==
    /\ pc = "after" /\ answer.code
    /\ proposal[c].status = "absent"
    /\ proposal' = Set(c, "status", "pending")
    /\ Continue
    /\ UNCHANGED <<job, library, history, apply, exit, faults>>

\* There is no code proposal, or it is not well formed.
ItemDone ==
    /\ pc = "after"
    /\ Continue
    /\ UNCHANGED <<queue, library, history, apply, exit, faults>>
-----------------------------------------------------------------------------
\* git add roborsi/embodied/skills; git commit: whatever code stands there.
CommitTree ==
    /\ pc = "commit"
    /\ head' = {p \in Proposal : /\ FolderOf[p] \in {"skill", "policy"}
                                 /\ writes[p] > 0}
    /\ pc' = "jobs"
    /\ UNCHANGED <<queue, writes, history, apply, at, answer, exit, faults>>

CommitFails ==
    /\ pc = "commit" /\ faults < MaxFaults
    /\ Over("failed")
    /\ faults' = faults + 1
    /\ UNCHANGED <<queue, library, history, apply>>

(***************************************************************************)
(* run_pending: at most one compound test, the first of the open jobs.     *)
(***************************************************************************)
OpenJobs == {p \in Proposal : job[p] \in {"requested", "started"}}
first == Least(OpenJobs)

NoJob ==
    /\ pc = "jobs" /\ OpenJobs = {}
    /\ Over("ok")
    /\ UNCHANGED <<queue, library, history, apply, faults>>

\* The slot check declines, or the runtime has uncommitted changes.
JobDeferred ==
    /\ pc = "jobs" /\ OpenJobs # {}
    /\ Over("ok")
    /\ UNCHANGED <<queue, library, history, apply, faults>>

\* Mutant: an interrupted test is run again.
StaleUnlessStarted(p) == \/ proposal[p].manager_decision # "approve"
                         \/ proposal[p].status # "pending"

Stale(p) == \/ proposal[p].manager_decision # "approve"
            \/ proposal[p].status # "pending"
            \/ job[p] = "started"

CloseJob ==
    /\ pc = "jobs" /\ OpenJobs # {} /\ Stale(first)
    /\ job' = [job EXCEPT ![first] = "ended"]
    /\ Over("ok")
    /\ UNCHANGED <<proposal, library, history, apply, faults>>

StartJob ==
    /\ pc = "jobs" /\ OpenJobs # {} /\ ~Stale(first)
    /\ job' = [job EXCEPT ![first] = "started"]
    /\ tests' = [tests EXCEPT ![first] = @ + 1]
    /\ pc' = "test"
    /\ UNCHANGED <<proposal, library, gate, apply, at, answer, exit, faults>>

\* While a test runs, the started job is the first open one.
SetJobStatus(status) == proposal' = Set(first, "status", status)

TestFails ==
    /\ pc = "test"
    /\ SetJobStatus("validation_failed")
    /\ pc' = "result"
    /\ UNCHANGED <<job, library, history, apply, at, answer, exit, faults>>

\* resolve_policy_proposal writes the files,
PublishWrites ==
    /\ pc = "test"
    /\ writes' = [writes EXCEPT ![first] = @ + 1]
    /\ gate' = [gate EXCEPT ![first] = "passed"]
    /\ pc' = "publish"
    /\ UNCHANGED <<queue, head, tests, apply, at, answer, exit, faults>>

\* then the proposal,
PublishMarks ==
    /\ pc = "publish"
    /\ SetJobStatus("approved")
    /\ pc' = "publish_commit"
    /\ UNCHANGED <<job, library, history, apply, at, answer, exit, faults>>

\* and the files are committed.
PublishCommits ==
    /\ pc = "publish_commit"
    /\ head' = head \cup {first}
    /\ pc' = "result"
    /\ UNCHANGED <<queue, writes, history, apply, at, answer, exit, faults>>

\* A test that could not run, or a publication that failed and is taken back.
JobError ==
    /\ pc \in {"test", "publish", "publish_commit"}
    /\ writes' = [writes EXCEPT ![first] = IF pc = "test" THEN @ ELSE @ - 1]
    /\ SetJobStatus("validation_error")
    /\ pc' = "result"
    /\ UNCHANGED <<job, head, history, apply, at, answer, exit, faults>>

JobEnds ==
    /\ pc = "result"
    /\ job' = [job EXCEPT ![first] = "ended"]
    /\ Over("ok")
    /\ UNCHANGED <<proposal, library, history, apply, faults>>
-----------------------------------------------------------------------------
\* The caller kills the cycle's process, and its apply process lives on; or
\* the machine goes down with both.
Kill ==
    /\ pc # "off" /\ faults < MaxFaults
    /\ Over("failed")
    /\ apply' \in {apply, [p \in Proposal |-> "idle"]}
    /\ faults' = faults + 1
    /\ UNCHANGED <<queue, library, history>>

\* An episode files a lead, a plan, a skill change or a compound.
FileProposal(p) ==
    /\ proposal[p].status = "absent"
    /\ proposal' = Set(p, "status", "pending")
    /\ UNCHANGED <<job, library, history, apply, pc, at, answer, exit, faults>>

\* Five minutes have passed.
RetryDue(p) ==
    /\ proposal[p].retry_after
    /\ proposal' = Set(p, "retry_after", FALSE)
    /\ UNCHANGED <<job, library, history, apply, pc, at, answer, exit, faults>>

ReviewStep ==
    \/ NextFolder \/ SkipItem
    \/ FirewallDefers \/ SourceBlocked \/ UnusableAnswer \/ ManagerDecides
    \/ GateAgain
    \/ ActReject \/ ActDefer \/ ResolveWrites \/ ResolveMarks
    \/ GateRaises \/ GateFails \/ GatePasses \/ ApplyReturns \/ ApplyTimesOut
    \/ Enqueue \/ EnqueueRefused
    \/ TransientError \/ PermanentError
    \/ ItemDone \/ \E c \in Candidate : FileCandidate(c)

JobStep ==
    \/ CommitTree \/ CommitFails
    \/ NoJob \/ JobDeferred \/ CloseJob \/ StartJob
    \/ TestFails \/ PublishWrites \/ PublishMarks \/ PublishCommits
    \/ JobError \/ JobEnds

CycleStep == ReviewStep \/ JobStep

ApplyStep == \E p \in Proposal : ApplyWrites(p) \/ ApplyCommits(p) \/ ApplyArchives(p) \/ ApplyFails(p)

Environment ==
    \/ \E p \in Proposal \ Candidate : FileProposal(p)
    \/ \E p \in Proposal : RetryDue(p)

Next == CycleBegins \/ CycleStep \/ ApplyStep \/ Kill \/ Environment

Spec == Init /\ [][Next]_vars
-----------------------------------------------------------------------------
(***************************************************************************)
(* Properties.                                                             *)
(***************************************************************************)
\* A lead enters the wiki, a plan replaces the seed plan and a compound is
\* published at most once, whatever the cycle is killed between and however
\* often it runs (manager_reviewed_at is written before the resolution); and an
\* interrupted test of a compound is closed and not run again, though its
\* request stays in the queue.
AppliedAtMostOnce == \A p \in Proposal : writes[p] <= 1 /\ tests[p] <= 1

\* No code stands in the library whose simulator gate never passed: not after
\* a kill, not through the commit of the whole tree that ends a cycle, and not
\* when the Manager authored it (FileCandidate only queues).
InstalledCodePassedItsGate ==
    \A p \in Proposal :
        FolderOf[p] \in {"skill", "policy"} /\ writes[p] > 0 => gate[p] = "passed"

\* Code the Manager rejected or never approved is not gated or installed;
\* approval is that of the proposal itself.
OnlyApprovedCodeIsApplied ==
    [][\A p \in Proposal :
          apply[p] = "idle" /\ apply'[p] # "idle" =>
              /\ proposal[p].manager_decision = "approve"
              /\ proposal[p].manager_reviewed_at
              /\ proposal[p].status = "pending"]_vars

\* What _pending_reviews counts, timers aside: a later cycle will take p up.
Awaits(p) == /\ proposal[p].status = "pending"
             /\ proposal[p].manager_reviewed_at => Regate(p)
=============================================================================
