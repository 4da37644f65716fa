----------------------------- MODULE ReviewDesk -----------------------------
(***************************************************************************)
(* The desk where people decide on proposed skills: one JSON file for each *)
(* proposal in ~/.roborsi/skill_review, and its archives applied/ and      *)
(* rejected/.  The web page, the command line and the chat bot flip a      *)
(* status, add an audit, apply or reject.  Every one of them is a read of  *)
(* the file, something that takes its time, and a write of the whole file: *)
(* nothing locks it.                                                       *)
(*                                                                         *)
(* A draft is written by register_skill, which waits for a status; it has  *)
(* no kind, and apply_proposal refuses it.  A candidate is a change of the *)
(* skill tree, for apply_proposal.  The text that apply_proposal writes is *)
(* SkillPublication's.  A file cut by a kill amid its write is left out.   *)
(***************************************************************************)
EXTENDS Naturals, FiniteSets

CONSTANTS
    Draft, Candidate,       \* proposals
    Clerk                   \* who may have a command running

ASSUME DraftAssumption == Draft \cap Candidate = {} /\ Draft \cup Candidate # {}

VARIABLES
    queue,          \* the file in skill_review/: NoFile, or its status
    archive,        \* the archives that hold the proposal
    committed,      \* candidates that git has
    job,            \* the command each clerk runs
    waiter,         \* register_skill, for each draft
    said,           \* what an operator said last of a draft
    overwritten     \* ... until a stale copy was written over it

deskVars == <<queue, archive, committed, job, waiter, said, overwritten>>

Submission == Draft \cup Candidate
NoFile   == "no file"
Status   == {"pending", "approved", "rejected"}

Idle == [op |-> "none", p |-> CHOOSE p \in Submission : TRUE, at |-> "done", read |-> NoFile]

DeskTypeOK ==
    /\ queue \in [Submission -> Status \cup {NoFile}]
    /\ archive \in [Submission -> SUBSET {"applied", "rejected"}]
    /\ committed \subseteq Candidate
    /\ job \in [Clerk -> [op : {"none", "approve", "reject", "annotate", "apply", "archive"},
                          p : Submission, read : Status \cup {NoFile, "applied"},
                          at : {"begin", "write", "commit", "file", "unlink", "done"}]]
    /\ waiter \in [Draft -> {"unborn", "waiting", "activated", "refused"}]
    /\ said \in [Draft -> Status] /\ overwritten \in [Draft -> BOOLEAN]

DeskInit ==
    /\ queue = [p \in Submission |-> NoFile] /\ archive = [p \in Submission |-> {}]
    /\ committed = {} /\ job = [c \in Clerk |-> Idle]
    /\ waiter = [d \in Draft |-> "unborn"]
    /\ said = [d \in Draft |-> "pending"] /\ overwritten = [d \in Draft |-> FALSE]

Submitted(p) == queue[p] # NoFile \/ archive[p] # {}
-----------------------------------------------------------------------------
(***************************************************************************)
(* Those who propose.                                                      *)
(***************************************************************************)
\* The Engineer, the Reviewer or the chat agent: a new id each time.
Propose(p) ==
    /\ p \in Candidate /\ ~Submitted(p)
    /\ queue' = [queue EXCEPT ![p] = "pending"]
    /\ UNCHANGED <<archive, committed, job, waiter, said, overwritten>>

AskForReview(d) ==
    /\ waiter[d] = "unborn"
    /\ queue' = [queue EXCEPT ![d] = "pending"]
    /\ waiter' = [waiter EXCEPT ![d] = "waiting"]
    /\ UNCHANGED <<archive, committed, job, said, overwritten>>

\* A file that is gone or half written is read again later.
Poll(d) ==
    /\ waiter[d] = "waiting" /\ queue[d] \in {"approved", "rejected"}
    /\ waiter' = [waiter EXCEPT ![d] = IF queue[d] = "approved" THEN "activated" ELSE "refused"]
    /\ UNCHANGED <<queue, archive, committed, job, said, overwritten>>

\* Mutant: nobody objected in time.
PollEndsApproved(d) ==
    /\ waiter[d] = "waiting"
    /\ waiter' = [waiter EXCEPT ![d] = "activated"]
    /\ UNCHANGED <<queue, archive, committed, job, said, overwritten>>

PollTimesOut(d) ==
    /\ waiter[d] = "waiting"
    /\ waiter' = [waiter EXCEPT ![d] = "refused"]
    /\ UNCHANGED <<queue, archive, committed, job, said, overwritten>>
-----------------------------------------------------------------------------
(***************************************************************************)
(* Those who decide.                                                       *)
(***************************************************************************)
Runs(c, ops, at) == job[c].op \in ops /\ job[c].at = at
Going(j, at) == IF at = "done" THEN Idle ELSE [j EXCEPT !.at = at]
JobGoes(c, at) == job' = [job EXCEPT ![c] = Going(@, at)]
JobReads(c, what, at) == job' = [job EXCEPT ![c] = Going([@ EXCEPT !.read = what], at)]

Start(c, op, p) == job' = [job EXCEPT ![c] = [op |-> op, p |-> p, at |-> "begin", read |-> NoFile]]

\* approve, reject, audit and the validator's report: the file of the queue.
ReadFile(c) ==
    /\ Runs(c, {"approve", "reject", "annotate"}, "begin")
    /\ LET found == queue[job[c].p]
       IN  JobReads(c, found, IF found = NoFile THEN "done" ELSE "write")
    /\ UNCHANGED <<queue, archive, committed, waiter, said, overwritten>>

\* The whole file is written, there or not by now.
FlipStatus(c) ==
    /\ Runs(c, {"approve", "reject"}, "write")
    /\ LET p == job[c].p
           s == IF job[c].op = "approve" THEN "approved" ELSE "rejected"
       IN  /\ queue' = [queue EXCEPT ![p] = s]
           /\ said' = [d \in Draft |-> IF d = p THEN s ELSE said[d]]
           /\ overwritten' = [d \in Draft |-> d # p /\ overwritten[d]]
    /\ JobGoes(c, "done")
    /\ UNCHANGED <<archive, committed, waiter>>

\* An audit takes a model's answer long: what was read is written back.
WriteBack(c) ==
    /\ Runs(c, {"annotate"}, "write")
    /\ LET p == job[c].p
       IN  /\ queue' = [queue EXCEPT ![p] = job[c].read]
           /\ overwritten' = [d \in Draft |-> overwritten[d] \/ (d = p /\ queue[p] # job[c].read)]
    /\ JobGoes(c, "done")
    /\ UNCHANGED <<archive, committed, waiter, said>>

\* apply_proposal: the file of the queue, else that of the applied archive.
FindFile(c) ==
    /\ Runs(c, {"apply", "archive"}, "begin")
    /\ LET p == job[c].p
           found == IF queue[p] # NoFile THEN queue[p]
                    ELSE IF "applied" \in archive[p] THEN "applied" ELSE NoFile
       IN  JobReads(c, found, CASE found = NoFile -> "done"
                                [] job[c].op = "archive" -> "file"
                                [] p \in Draft -> "done"
                                [] OTHER -> "commit")
    /\ UNCHANGED <<queue, archive, committed, waiter, said, overwritten>>

\* Checks, the gate or git may refuse.
Commit(c) ==
    /\ Runs(c, {"apply"}, "commit")
    /\ \/ committed' = committed \cup {job[c].p} /\ JobGoes(c, "file")
       \/ UNCHANGED committed /\ JobGoes(c, "done")
    /\ UNCHANGED <<queue, archive, waiter, said, overwritten>>

Verdict(c) == IF job[c].op = "apply" THEN "applied" ELSE "rejected"

\* Mutant: the file it was found in is unlinked, also when that is the one
\* just written.
FileAwayAndUnlink(c) ==
    /\ Runs(c, {"apply", "archive"}, "file")
    /\ archive' = [archive EXCEPT ![job[c].p] = @ \cup {Verdict(c)}]
    /\ JobGoes(c, "unlink")
    /\ UNCHANGED <<queue, committed, waiter, said, overwritten>>

\* Written to the archive first, then taken from where it was found.
FileAway(c) ==
    /\ Runs(c, {"apply", "archive"}, "file")
    /\ archive' = [archive EXCEPT ![job[c].p] = @ \cup {Verdict(c)}]
    /\ JobGoes(c, IF job[c].read = Verdict(c) THEN "done" ELSE "unlink")
    /\ UNCHANGED <<queue, committed, waiter, said, overwritten>>

\* A file that another has moved meanwhile raises, and nothing follows.
Unlink(c) ==
    /\ Runs(c, {"apply", "archive"}, "unlink")
    /\ IF job[c].read = "applied"
       THEN archive' = [archive EXCEPT ![job[c].p] = @ \ {"applied"}] /\ UNCHANGED queue
       ELSE queue' = [queue EXCEPT ![job[c].p] = NoFile] /\ UNCHANGED archive
    /\ JobGoes(c, "done")
    /\ UNCHANGED <<committed, waiter, said, overwritten>>

\* Killed by hand or by the bot's time-out, or raised.
Killed(c) ==
    /\ job[c].at # "done" /\ JobGoes(c, "done")
    /\ UNCHANGED <<queue, archive, committed, waiter, said, overwritten>>

JobStep(c) ==
    \/ ReadFile(c) \/ FlipStatus(c) \/ WriteBack(c)
    \/ FindFile(c) \/ Commit(c) \/ FileAway(c) \/ Unlink(c)
=============================================================================
