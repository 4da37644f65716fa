-------------------------- MODULE ManagerLoopProofs --------------------------
(***************************************************************************)
(* Theorems about ManagerReview and ManagerLoop, for every set of          *)
(* proposals, every split over the four queues and every number of kills   *)
(* and exceptions: what enters the library was approved, passed its gate   *)
(* and entered once; the suite's loop runs its cycles as ManagerReview has *)
(* them, and leaves none behind; a cycle, and a stop of the loop, have a   *)
(* well founded amount of steps left.                                      *)
(***************************************************************************)
EXTENDS ManagerLoop, FiniteSetTheorems, WellFoundedInduction, TLAPS

-----------------------------------------------------------------------------
(***************************************************************************)
(* The inductive invariant.  That a resolution happens once rests on the   *)
(* proposal's own file: manager_reviewed_at is written before the          *)
(* resolution and nothing takes it back.  That installed code has passed   *)
(* its gate rests on which process may be applying what: an apply process  *)
(* outlives its cycle only while no other cycle runs.                      *)
(***************************************************************************)
Texts == {"wiki", "plan"}

\* The cycle has a proposal in its hands.
InHand == {"act", "write", "mark", "apply", "after"}

\* The cycle has a compound test in its hands.
Testing == {"test", "publish", "publish_commit", "result"}

\* A third deferral keeps manager_reviewed_at.
CountInv == \A p \in Proposal :
    proposal[p].review_attempts >= 3 => proposal[p].manager_reviewed_at

\* A lead or a plan is written once, and only after its file says that it was
\* reviewed.
TextInv == \A p \in Proposal : FolderOf[p] \in Texts =>
    /\ writes[p] <= 1
    /\ writes[p] > 0 => proposal[p].manager_reviewed_at

\* What the cycle knows of the proposal in its hands.
ItemInv ==
    /\ pc \in InHand => todo # {}
    /\ pc = "act" =>
           /\ q.status = "pending"
           /\ q.manager_decision = answer.decision
           /\ answer.decision \in {"approve", "reject"} => q.manager_reviewed_at
           /\ answer.corrected => answer.decision = "reject" /\ FolderOf[item] \in Texts
           /\ FolderOf[item] \in Texts => writes[item] = 0
    /\ pc = "write" =>
           /\ FolderOf[item] \in Texts
           /\ q.manager_reviewed_at
           /\ writes[item] = 0

\* Whose apply process may be alive, and that its proposal may be applied.
ApplyInv == \A p \in Proposal :
    /\ apply[p] # "idle" => /\ FolderOf[p] = "skill" /\ gate[p] = "passed"
                            /\ pc = "off" \/ (pc = "apply" /\ p = item)
    /\ FolderOf[p] = "skill" => /\ writes[p] <= 1
                                /\ writes[p] > 0 => gate[p] = "passed"

\* A compound's files follow its one test.
JobInv ==
    /\ \A p \in Proposal :
           /\ job[p] # "none" => FolderOf[p] = "policy"
           /\ tests[p] <= 1
           /\ job[p] \in {"none", "requested"} =>
                  tests[p] = 0 /\ (FolderOf[p] = "policy" => writes[p] = 0)
           /\ FolderOf[p] = "policy" => /\ writes[p] <= 1
                                        /\ writes[p] > 0 => gate[p] = "passed"
    /\ pc \in Testing =>
           /\ OpenJobs # {} /\ job[first] = "started"
           /\ pc = "test" => writes[first] = 0
           /\ pc \in {"publish", "publish_commit"} => writes[first] = 1

IInv ==
    /\ TypeOK
    /\ CountInv
    /\ TextInv
    /\ ItemInv
    /\ ApplyInv
    /\ JobInv

-----------------------------------------------------------------------------
(* The first of a nonempty list of proposals is one of them. *)
LEMMA LeastIsMember ==
    ASSUME NEW S \in SUBSET Proposal, S # {}
    PROVE  Least(S) \in S
<1>1. S \in SUBSET Nat
  BY ReviewAssumption
<1>2. PICK m \in S : \A n \in S : ~ (<<n, m>> \in OpToRel(<, Nat))
  BY <1>1, NatLessThanWellFounded, WFMin
<1>3. ASSUME NEW n \in S PROVE m <= n
  <2>1. m \in Nat /\ n \in Nat
    BY <1>1
  <2>2. n < m => <<n, m>> \in OpToRel(<, Nat)
    BY <2>1 DEF OpToRel
  <2>3. ~(n < m)
    BY <2>2, <1>2
  <2> QED BY <2>1, <2>3
<1> QED BY <1>3 DEF Least

(* The proposal in the cycle's hands, and its file. *)
LEMMA InHandFacts ==
    ASSUME TypeOK, todo # {}
    PROVE  /\ item \in todo /\ item \in Proposal
           /\ q \in File /\ proposal \in [Proposal -> File]
<1>1. item \in todo
  BY LeastIsMember DEF TypeOK, item
<1> QED BY <1>1 DEF TypeOK, q

(* The compound whose test the cycle runs. *)
LEMMA FirstFacts ==
    ASSUME TypeOK, OpenJobs # {}
    PROVE  first \in Proposal /\ job[first] \in {"requested", "started"}
<1>1. first \in OpenJobs
  BY LeastIsMember DEF OpenJobs, first
<1> QED BY <1>1 DEF OpenJobs

LEMMA Idle ==
    ASSUME IInv, pc # "off", NEW p \in Proposal, pc = "apply" => p # item \/ apply[item] = "idle"
    PROVE  apply[p] = "idle"
BY DEF IInv, ApplyInv

(* A file moves on: the fields the cycle does not name are kept. *)
FileMoves == \A p \in Proposal :
    /\ proposal[p].manager_reviewed_at => proposal'[p].manager_reviewed_at
    /\ proposal'[p].review_attempts >= 3 => proposal'[p].manager_reviewed_at

LEMMA ItemRefiled ==
    ASSUME IInv, todo # {}, NEW STATE f, f \in File,
           proposal' = [proposal EXCEPT ![item] = f],
           q.manager_reviewed_at => f.manager_reviewed_at,
           f.review_attempts >= 3 => f.manager_reviewed_at
    PROVE  proposal' \in [Proposal -> File] /\ FileMoves
<1>1. item \in Proposal /\ q = proposal[item] /\ proposal \in [Proposal -> File]
  BY InHandFacts DEF IInv, q
<1>2. proposal' \in [Proposal -> File]
  BY <1>1
<1>3. ASSUME NEW p \in Proposal
      PROVE  /\ proposal[p].manager_reviewed_at => proposal'[p].manager_reviewed_at
             /\ proposal'[p].review_attempts >= 3 => proposal'[p].manager_reviewed_at
  <2>1. CASE p = item
    BY <1>1, <2>1
  <2>2. CASE p # item
    BY <2>2 DEF IInv, CountInv
  <2> QED BY <2>1, <2>2
<1> QED BY <1>2, <1>3 DEF FileMoves

LEMMA FilesStay ==
    ASSUME IInv, UNCHANGED proposal PROVE FileMoves
BY DEF IInv, CountInv, FileMoves

(* A step that leaves the library, the gates, the tests and the jobs alone  *)
(* and hands the cycle nothing to act on.                                   *)
LEMMA QuietPreserves ==
    ASSUME IInv, TypeOK', FileMoves,
           UNCHANGED <<job, writes, history>>,
           \A p \in Proposal : apply'[p] # "idle" => apply[p] # "idle" /\ pc' = "off",
           pc' \in {"off", "items", "mark", "after", "commit", "jobs"},
           pc' \in InHand => todo' # {}
    PROVE  IInv'
<1> USE DEF IInv, history
<1>1. CountInv' /\ TextInv'
  BY DEF CountInv, TextInv, FileMoves
<1>2. ItemInv'
  BY DEF ItemInv
<1>3. ApplyInv'
  BY DEF ApplyInv
<1>4. JobInv'
  BY DEF JobInv, Testing
<1> QED BY <1>1, <1>2, <1>3, <1>4

-----------------------------------------------------------------------------
(***************************************************************************)
(* The review of one proposal.                                             *)
(***************************************************************************)
LEMMA NoAnswerType == NoAnswer \in Answer
BY DEF NoAnswer, Answer

(* The cycle is through with the proposal. *)
LEMMA ContinuePreserves ==
    ASSUME IInv, Continue, pc # "off",
           proposal' \in [Proposal -> File], FileMoves,
           UNCHANGED <<job, library, history, exit>>, faults' \in 0 .. MaxFaults,
           \/ apply' = [apply EXCEPT ![item] = "idle"] /\ pc = "apply"
           \/ apply' = apply /\ (pc # "apply" \/ apply[item] = "idle"),
           todo # {}
    PROVE  IInv'
<1>1. \A p \in Proposal : apply'[p] = "idle"
  <2>1. apply \in [Proposal -> {"idle", "started", "written", "rewritten", "committed"}]
    BY DEF IInv, TypeOK
  <2> QED BY <2>1, Idle
<1>2. TypeOK'
  <2>1. apply' \in [Proposal -> {"idle", "started", "written", "rewritten", "committed"}]
    BY DEF IInv, TypeOK
  <2> QED BY <2>1, NoAnswerType DEF IInv, TypeOK, Continue, library, history
<1> QED BY <1>1, <1>2, QuietPreserves DEF Continue, library, InHand

(* A new status leaves the rest of the file, and every other file.          *)
LEMMA StatusMoves ==
    ASSUME IInv, NEW p \in Proposal, NEW s \in Status, proposal' = Set(p, "status", s)
    PROVE  /\ proposal' \in [Proposal -> File] /\ FileMoves
           /\ proposal'[p].status = s
           /\ \A r \in Proposal : r # p => proposal'[r] = proposal[r]
<1>1. proposal \in [Proposal -> File]
  BY DEF IInv, TypeOK
<1>2. /\ proposal' \in [Proposal -> File] /\ proposal'[p].status = s
      /\ \A r \in Proposal : r # p => proposal'[r] = proposal[r]
  BY <1>1 DEF Set, File
<1>3. proposal'[p].manager_reviewed_at = proposal[p].manager_reviewed_at
      /\ proposal'[p].review_attempts = proposal[p].review_attempts
  BY DEF Set
<1>4. FileMoves
  BY <1>2, <1>3 DEF IInv, CountInv, FileMoves
<1> QED BY <1>2, <1>4

(* The handler of an exception writes a file that is still in its folder.   *)
LEMMA RereadMoves ==
    ASSUME IInv, todo # {}, NEW STATE f, f \in File, proposal' = Reread(f),
           q.manager_reviewed_at => f.manager_reviewed_at,
           f.review_attempts >= 3 => f.manager_reviewed_at
    PROVE  proposal' \in [Proposal -> File] /\ FileMoves
<1>1. CASE q.status = "applied"
  BY <1>1, FilesStay DEF Reread, IInv, TypeOK
<1>2. CASE q.status # "applied"
  BY <1>2, ItemRefiled DEF Reread
<1> QED BY <1>1, <1>2

(* A reviewed proposal of another queue than the skills' is not due; one    *)
(* that was not reviewed has been deferred less than three times.           *)
LEMMA DueFacts ==
    ASSUME IInv, AtItem
    PROVE  /\ todo # {} /\ pc = "items" /\ item \in Proposal /\ q \in File
           /\ proposal \in [Proposal -> File]
           /\ q.status = "pending"
           /\ ~Regate(item) => ~q.manager_reviewed_at /\ q.review_attempts \in 0 .. 2
<1>1. todo # {} /\ pc = "items" /\ Eligible(item)
  BY DEF AtItem
<1>2. item \in Proposal /\ q \in File /\ q = proposal[item] /\ proposal \in [Proposal -> File]
  BY <1>1, InHandFacts DEF IInv, q
<1>3. q.status = "pending" /\ (~Regate(item) => ~q.manager_reviewed_at)
  BY <1>1, <1>2 DEF Eligible
<1>4. q.review_attempts \in 0 .. 3 /\ (q.review_attempts >= 3 => q.manager_reviewed_at)
  BY <1>2 DEF IInv, CountInv, File
<1> QED BY <1>1, <1>2, <1>3, <1>4

\* The steps that end with the proposal.
LeavesItem ==
    \/ SkipItem \/ FirewallDefers \/ SourceBlocked \/ UnusableAnswer
    \/ TransientError \/ PermanentError \/ ApplyTimesOut
    \/ ItemDone \/ \E c \in Candidate : FileCandidate(c)

LEMMA LeavesItemPreserves == ASSUME IInv, LeavesItem PROVE IInv'
<1> USE DEF history, library
<1>0. /\ faults \in 0 .. MaxFaults /\ MaxFaults \in Nat
      /\ pc \in InHand => todo # {}
      /\ proposal \in [Proposal -> File]
  BY ReviewAssumption DEF IInv, TypeOK, ItemInv
<1>1. CASE SkipItem
  BY <1>0, <1>1, FilesStay, ContinuePreserves DEF SkipItem, queue
<1>2. CASE FirewallDefers
  <2> DEFINE f == [q EXCEPT !.manager_reviewed_at = TRUE, !.manager_decision = "defer"]
  <2>1. AtItem /\ Continue /\ UNCHANGED <<job, library, history, apply, exit, faults>>
    BY <1>2 DEF FirewallDefers
  <2>2. todo # {} /\ pc = "items" /\ q \in File
    BY <2>1, DueFacts
  <2>3. proposal' = [proposal EXCEPT ![item] = f]
    BY <1>2 DEF FirewallDefers, q
  <2>4. f \in File /\ f.manager_reviewed_at
    BY <2>2 DEF File
  <2>5. proposal' \in [Proposal -> File] /\ FileMoves
    BY <2>2, <2>3, <2>4, ItemRefiled
  <2> QED BY <1>0, <2>1, <2>2, <2>5, ContinuePreserves
<1>3. CASE SourceBlocked
  <2>1. AtItem /\ Continue /\ UNCHANGED <<job, library, history, apply, exit, faults>>
        /\ proposal' = Set(item, "status", "source_validation_blocked")
    BY <1>3 DEF SourceBlocked, SetStatus
  <2>2. todo # {} /\ pc = "items" /\ item \in Proposal
    BY <2>1, DueFacts
  <2>3. proposal' \in [Proposal -> File] /\ FileMoves
    BY <2>1, <2>2, StatusMoves DEF Status
  <2> QED BY <1>0, <2>1, <2>2, <2>3, ContinuePreserves
<1>4. CASE UnusableAnswer
  <2> DEFINE n == q.review_attempts + 1
             f(b) == [q EXCEPT !.review_attempts = n, !.manager_decision = "defer",
                               !.manager_reviewed_at = b]
  <2>1. AtItem /\ ~Regate(item) /\ Continue
        /\ UNCHANGED <<job, library, history, apply, exit, faults>>
    BY <1>4 DEF UnusableAnswer
  <2>2. /\ todo # {} /\ pc = "items" /\ q \in File /\ item \in Proposal
        /\ ~q.manager_reviewed_at /\ n \in 1 .. 3
    BY <2>1, DueFacts
  <2>3. PICK b \in BOOLEAN : proposal' = [proposal EXCEPT ![item] = f(b)] /\ (n >= 3 => b)
    <3>1. CASE n >= 3
      <4>1. proposal' = [proposal EXCEPT ![item] = f(TRUE)]
        BY <1>4, <3>1 DEF UnusableAnswer, q
      <4> QED BY <4>1
    <3>2. CASE ~(n >= 3)
      <4>1. proposal' = [proposal EXCEPT ![item] = f(FALSE)]
        BY <1>4, <2>2, <3>2 DEF UnusableAnswer, q
      <4> QED BY <3>2, <4>1
    <3> QED BY <3>1, <3>2
  <2>4. f(b) \in File /\ (f(b).review_attempts >= 3 => f(b).manager_reviewed_at)
    <3>1. f(b).review_attempts = n /\ f(b).manager_reviewed_at = b
      BY <2>2
    <3>2. f(b) \in File
      <4>1. q \in File /\ n \in 0 .. 3 /\ b \in BOOLEAN
        BY <2>2
      <4> QED BY <4>1 DEF File
    <3> QED BY <2>3, <3>1, <3>2
  <2>5. proposal' \in [Proposal -> File] /\ FileMoves
    <3> HIDE DEF f
    <3> QED BY <2>2, <2>3, <2>4, ItemRefiled
  <2> QED BY <1>0, <2>1, <2>2, <2>5, ContinuePreserves
<1>5. CASE TransientError \/ ApplyTimesOut
  <2> DEFINE f == [q EXCEPT !.retry_after = TRUE]
  <2>1. /\ proposal' = Reread(f) /\ Continue /\ faults < MaxFaults /\ faults' = faults + 1
        /\ todo # {} /\ pc \in {"items", "after", "apply"}
        /\ UNCHANGED <<job, library, history, exit>>
        /\ \/ apply' = [apply EXCEPT ![item] = "idle"] /\ pc = "apply"
           \/ apply' = apply /\ pc # "apply"
    BY <1>0, <1>5 DEF TransientError, ApplyTimesOut, RetryLater, AtItem, InHand
  <2>2. q \in File /\ (q.review_attempts >= 3 => q.manager_reviewed_at)
    BY <2>1, InHandFacts DEF IInv, CountInv, q
  <2>3. f \in File /\ f.manager_reviewed_at = q.manager_reviewed_at
        /\ f.review_attempts = q.review_attempts
    BY <2>2 DEF File
  <2>4. proposal' \in [Proposal -> File] /\ FileMoves
    BY <2>1, <2>2, <2>3, RereadMoves
  <2>5. faults' \in 0 .. MaxFaults
    BY <1>0, <2>1
  <2> QED BY <2>1, <2>4, <2>5, ContinuePreserves
<1>6. CASE PermanentError
  <2> DEFINE f == [q EXCEPT !.status = "blocked", !.manager_reviewed_at = TRUE,
                            !.manager_decision = "defer"]
  <2>1. /\ proposal' = Reread(f) /\ Continue /\ faults < MaxFaults /\ faults' = faults + 1
        /\ todo # {} /\ pc \in {"items", "write", "mark", "after"}
        /\ UNCHANGED <<job, library, history, apply, exit>>
    BY <1>0, <1>6 DEF PermanentError, AtItem, InHand
  <2>2. q \in File
    BY <2>1, InHandFacts DEF IInv
  <2>3. f \in File /\ f.manager_reviewed_at
    BY <2>2 DEF File, Status
  <2>4. proposal' \in [Proposal -> File] /\ FileMoves
    BY <2>1, <2>3, RereadMoves
  <2>5. faults' \in 0 .. MaxFaults
    BY <1>0, <2>1
  <2> QED BY <2>1, <2>4, <2>5, ContinuePreserves
<1>7. CASE ItemDone
  BY <1>0, <1>7, FilesStay, ContinuePreserves DEF ItemDone, queue, InHand
<1>8. ASSUME NEW c \in Candidate, FileCandidate(c) PROVE IInv'
  <2>1. c \in Proposal
    BY ReviewAssumption
  <2>2. proposal' \in [Proposal -> File] /\ FileMoves
    BY <1>8, <2>1, StatusMoves DEF FileCandidate, Status
  <2> QED BY <1>0, <1>8, <2>2, ContinuePreserves DEF FileCandidate, InHand
<1> QED BY <1>1, <1>2, <1>3, <1>4, <1>5, <1>6, <1>7, <1>8 DEF LeavesItem

-----------------------------------------------------------------------------
(* Steps of the cycle that move a file at most and leave the proposal in    *)
(* hand, if there is one, done with.                                        *)
LEMMA StatusStepPreserves ==
    ASSUME IInv, pc \in InHand, pc # "write",
           \/ UNCHANGED proposal
           \/ \E s \in Status : SetStatus(s),
           pc' \in {"mark", "after"},
           pc = "apply" => apply[item] = "idle",
           UNCHANGED <<job, library, history, apply, at, answer, exit, faults>>
    PROVE  IInv'
<1>1. todo # {} /\ item \in Proposal
  BY InHandFacts DEF IInv, ItemInv
<1>2. proposal' \in [Proposal -> File] /\ FileMoves
  <2>1. CASE UNCHANGED proposal
    BY <2>1, FilesStay DEF IInv, TypeOK
  <2>2. CASE \E s \in Status : SetStatus(s)
    BY <1>1, <2>2, StatusMoves DEF SetStatus
  <2> QED BY <2>1, <2>2
<1>3. TypeOK'
  BY <1>2 DEF IInv, TypeOK, library, history, at
<1>4. \A p \in Proposal : apply'[p] = "idle"
  BY Idle DEF InHand
<1> QED BY <1>1, <1>2, <1>3, <1>4, QuietPreserves DEF library, at

LEMMA StatusStepsPreserve ==
    ASSUME IInv,
           \/ (ActReject /\ ~answer.corrected) \/ ActDefer \/ ResolveMarks
           \/ GateRaises \/ ApplyReturns \/ EnqueueRefused
    PROVE  IInv'
<1>1. CASE ActReject /\ ~answer.corrected
  <2>1. pc' = "after" /\ pc = "act" /\ SetStatus("rejected")
        /\ UNCHANGED <<job, library, history, apply, at, answer, exit, faults>>
    BY <1>1 DEF ActReject, Acting
  <2> QED BY <2>1, StatusStepPreserves DEF Status, InHand
<1>2. CASE ActDefer
  BY <1>2, StatusStepPreserves DEF ActDefer, Acting, InHand, queue
<1>3. CASE ResolveMarks
  BY <1>3, StatusStepPreserves DEF ResolveMarks, InHand, Status
<1>4. CASE GateRaises
  BY <1>4, StatusStepPreserves DEF GateRaises, Gating, Acting, InHand, Status
<1>5. CASE ApplyReturns
  BY <1>5, StatusStepPreserves DEF ApplyReturns, SetStatus, InHand, Status
<1>6. CASE EnqueueRefused
  BY <1>6, StatusStepPreserves DEF EnqueueRefused, Acting, InHand, Status
<1> QED BY <1>1, <1>2, <1>3, <1>4, <1>5, <1>6

(* The cycle begins, goes from queue to queue, and ends. *)
LEMMA CycleMovesPreserve ==
    ASSUME IInv,
           \/ CycleBegins \/ NextFolder \/ CommitTree \/ CommitFails
           \/ NoJob \/ JobDeferred \/ Kill
    PROVE  IInv'
<1>1. UNCHANGED <<queue, writes, history>> /\ FileMoves
  <2>1. UNCHANGED <<queue, writes, history>>
    BY DEF CycleBegins, NextFolder, CommitTree, CommitFails, NoJob, JobDeferred, Kill, library
  <2> QED BY <2>1, FilesStay DEF queue
<1>2. pc' \in {"off", "items", "commit", "jobs"}
  BY DEF CycleBegins, NextFolder, CommitTree, CommitFails, NoJob, JobDeferred, Kill, Over
<1>3. \A p \in Proposal : apply'[p] # "idle" => apply[p] # "idle" /\ pc' = "off"
  <2>1. CASE CycleBegins
    BY <2>1 DEF CycleBegins
  <2>2. CASE Kill
    <3>1. \A p \in Proposal : apply'[p] # "idle" => apply[p] # "idle"
      BY <2>2 DEF Kill
    <3> QED BY <2>2, <3>1 DEF Kill, Over
  <2>3. CASE NextFolder \/ CommitTree \/ CommitFails \/ NoJob \/ JobDeferred
    <3>1. apply' = apply /\ pc # "off" /\ pc # "apply"
      BY <2>3 DEF NextFolder, CommitTree, CommitFails, NoJob, JobDeferred
    <3> QED BY <3>1, Idle
  <2> QED BY <2>1, <2>2, <2>3
<1>4. TypeOK'
  <2>1. apply' \in [Proposal -> {"idle", "started", "written", "rewritten", "committed"}]
    BY DEF IInv, TypeOK, CycleBegins, NextFolder, CommitTree, CommitFails, NoJob,
           JobDeferred, Kill
  <2>2. head' \subseteq Proposal
    BY DEF IInv, TypeOK, CycleBegins, NextFolder, CommitTree, CommitFails, NoJob,
           JobDeferred, Kill, library
  <2>3. faults' \in 0 .. MaxFaults
    BY ReviewAssumption
       DEF IInv, TypeOK, CycleBegins, NextFolder, CommitTree, CommitFails, NoJob,
           JobDeferred, Kill
  <2>4. folder' \in 1 .. 4 /\ todo' \subseteq Proposal
    BY DEF IInv, TypeOK, CycleBegins, NextFolder, CommitTree, CommitFails, NoJob,
           JobDeferred, Kill, Over, Listing, at
  <2>5. answer' \in Answer /\ exit' \in {"none", "ok", "failed"}
    BY NoAnswerType
       DEF IInv, TypeOK, CycleBegins, NextFolder, CommitTree, CommitFails, NoJob,
           JobDeferred, Kill, Over
  <2> QED BY <1>1, <1>2, <2>1, <2>2, <2>3, <2>4, <2>5 DEF IInv, TypeOK, queue, history
<1> QED BY <1>1, <1>2, <1>3, <1>4, QuietPreserves DEF queue, InHand

-----------------------------------------------------------------------------
(* The Manager's decision is in the file before anything acts on it. *)
LEMMA ManagerDecidesPreserves == ASSUME IInv, ManagerDecides PROVE IInv'
<1>1. PICK d \in {"approve", "reject", "defer"}, corrected \in BOOLEAN, code \in BOOLEAN :
          /\ corrected => d = "reject" /\ FolderOf[item] \in {"wiki", "plan"}
          /\ proposal' = AfterReview(d)
          /\ answer' = [decision |-> d, corrected |-> corrected, code |-> code]
  BY DEF ManagerDecides
<1>2. /\ AtItem /\ ~Regate(item) /\ pc' = "act"
      /\ UNCHANGED <<job, library, history, apply, at, exit, faults>>
  BY DEF ManagerDecides
<1>3. /\ todo # {} /\ pc = "items" /\ item \in Proposal /\ q \in File
      /\ proposal \in [Proposal -> File] /\ q = proposal[item]
      /\ q.status = "pending" /\ ~q.manager_reviewed_at /\ q.review_attempts \in 0 .. 2
  BY <1>2, DueFacts DEF q
<1> DEFINE f(n, b) == [q EXCEPT !.manager_decision = d, !.review_attempts = n,
                                !.manager_reviewed_at = b]
<1>4. PICK n \in 0 .. 3, b \in BOOLEAN :
          /\ proposal' = [proposal EXCEPT ![item] = f(n, b)]
          /\ n >= 3 => b
          /\ d # "defer" => b
  <2>1. CASE d # "defer"
    <3>1. proposal' = [proposal EXCEPT ![item] = f(q.review_attempts, TRUE)]
      BY <1>1, <1>3, <2>1 DEF AfterReview
    <3>2. q.review_attempts \in 0 .. 3 /\ ~(q.review_attempts >= 3)
      BY <1>3
    <3> HIDE DEF f
    <3> QED BY <2>1, <3>1, <3>2
  <2>2. CASE d = "defer"
    <3>0. q.review_attempts + 1 \in 0 .. 3
      BY <1>3
    <3>1. CASE q.review_attempts + 1 >= 3
      <4>1. proposal' = [proposal EXCEPT ![item] = f(q.review_attempts + 1, TRUE)]
        BY <1>1, <1>3, <2>2, <3>1 DEF AfterReview
      <4> HIDE DEF f
      <4> QED BY <3>0, <4>1
    <3>2. CASE ~(q.review_attempts + 1 >= 3)
      <4>1. proposal' = [proposal EXCEPT ![item] = f(q.review_attempts + 1, FALSE)]
        BY <1>1, <1>3, <2>2, <3>2 DEF AfterReview
      <4> HIDE DEF f
      <4> QED BY <2>2, <3>0, <3>2, <4>1
    <3> QED BY <3>1, <3>2
  <2> QED BY <2>1, <2>2
<1>5. /\ f(n, b) \in File /\ f(n, b).review_attempts = n /\ f(n, b).manager_reviewed_at = b
      /\ f(n, b).manager_decision = d /\ f(n, b).status = "pending"
  <2>1. n \in 0 .. 3 /\ b \in BOOLEAN /\ d \in {"none", "approve", "reject", "defer"}
    BY <1>4
  <2> QED BY <1>3, <2>1 DEF File
<1> HIDE DEF f
<1>6. proposal' \in [Proposal -> File] /\ FileMoves /\ q' = f(n, b) /\ item' = item
  <2>1. proposal' \in [Proposal -> File] /\ FileMoves
    BY <1>3, <1>4, <1>5, ItemRefiled
  <2>2. item' = item
    BY <1>2 DEF at, item
  <2> QED BY <1>3, <1>4, <2>1, <2>2 DEF q
<1>7. TypeOK'
  <2>1. answer' \in Answer
    BY <1>1 DEF Answer
  <2> QED BY <1>2, <1>6, <2>1 DEF IInv, TypeOK, library, history, at
<1>8. CountInv' /\ TextInv'
  BY <1>2, <1>6 DEF IInv, CountInv, TextInv, FileMoves, library
<1>9. ItemInv'
  <2>1. FolderOf[item] \in Texts => writes[item] = 0
    <3>1. FolderOf[item] \in Texts => ~(writes[item] > 0) /\ writes[item] \in Nat
      BY <1>3 DEF IInv, TypeOK, TextInv
    <3> QED BY <3>1
  <2>2. /\ q'.status = "pending" /\ q'.manager_decision = answer'.decision
        /\ answer'.decision \in {"approve", "reject"} => q'.manager_reviewed_at
        /\ answer'.corrected => answer'.decision = "reject" /\ FolderOf[item] \in Texts
    BY <1>1, <1>4, <1>5, <1>6 DEF Texts
  <2> QED BY <1>2, <1>3, <1>6, <2>1, <2>2 DEF ItemInv, library, at
<1>10. ApplyInv'
  <2>1. \A p \in Proposal : apply'[p] = "idle"
    BY <1>2, <1>3, Idle
  <2> QED BY <1>2, <2>1 DEF IInv, ApplyInv, library, history
<1>11. JobInv'
  BY <1>2 DEF IInv, JobInv, Testing, library, history
<1> QED BY <1>7, <1>8, <1>9, <1>10, <1>11 DEF IInv

LEMMA GateAgainPreserves == ASSUME IInv, GateAgain PROVE IInv'
<1>1. /\ AtItem /\ Regate(item) /\ pc' = "act"
      /\ answer' = [decision |-> "approve", corrected |-> FALSE, code |-> FALSE]
      /\ UNCHANGED <<queue, library, history, apply, at, exit, faults>>
  BY DEF GateAgain
<1>2. /\ todo # {} /\ pc = "items" /\ item \in Proposal /\ q = proposal[item]
      /\ q.status = "pending"
  BY <1>1, DueFacts DEF q
<1>3. q' = q /\ item' = item
  BY <1>1 DEF queue, at, item, q
<1>4. TypeOK'
  <2>1. answer' \in Answer
    BY <1>1 DEF Answer
  <2> QED BY <1>1, <2>1 DEF IInv, TypeOK, queue, library, history, at
<1>5. CountInv' /\ TextInv'
  BY <1>1 DEF IInv, CountInv, TextInv, queue, library
<1>6. ItemInv'
  <2>1. q.manager_decision = "approve" /\ q.manager_reviewed_at
        /\ FolderOf[item] = "skill"
    BY <1>1, <1>2 DEF Regate
  <2> QED BY <1>1, <1>2, <1>3, <2>1 DEF ItemInv, Texts, at
<1>7. ApplyInv'
  <2>1. \A p \in Proposal : apply'[p] = "idle"
    BY <1>1, <1>2, Idle
  <2> QED BY <1>1, <2>1 DEF IInv, ApplyInv, library, history
<1>8. JobInv'
  BY <1>1 DEF IInv, JobInv, Testing, library, history, queue
<1> QED BY <1>4, <1>5, <1>6, <1>7, <1>8 DEF IInv

(* A corrected lead or plan goes into the memory in the place of the        *)
(* proposal's, which is marked rejected first.                              *)
LEMMA RejectCorrectedPreserves ==
    ASSUME IInv, ActReject, answer.corrected
    PROVE  IInv'
<1>1. /\ pc = "act" /\ pc' = "write" /\ proposal' = Set(item, "status", "rejected")
      /\ UNCHANGED <<job, library, history, apply, at, answer, exit, faults>>
  BY DEF ActReject, Acting, SetStatus
<1>2. todo # {} /\ item \in Proposal /\ item' = item
  BY <1>1, InHandFacts DEF IInv, ItemInv, InHand, at, item
<1>3. proposal' \in [Proposal -> File] /\ FileMoves
  BY <1>1, <1>2, StatusMoves DEF Status
<1>4. TypeOK'
  BY <1>1, <1>3 DEF IInv, TypeOK, library, history, at
<1>5. CountInv' /\ TextInv'
  BY <1>1, <1>3 DEF IInv, CountInv, TextInv, FileMoves, library
<1>6. ItemInv'
  <2>1. FolderOf[item] \in Texts /\ writes[item] = 0 /\ q.manager_reviewed_at
    BY <1>1 DEF IInv, ItemInv
  <2>2. q'.manager_reviewed_at
    BY <1>2, <1>3, <2>1 DEF FileMoves, q
  <2> QED BY <1>1, <1>2, <2>1, <2>2 DEF ItemInv, library, at
<1>7. ApplyInv'
  <2>1. \A p \in Proposal : apply'[p] = "idle"
    BY <1>1, Idle
  <2> QED BY <1>1, <2>1 DEF IInv, ApplyInv, library, history
<1>8. JobInv'
  BY <1>1 DEF IInv, JobInv, Testing, library, history
<1> QED BY <1>4, <1>5, <1>6, <1>7, <1>8 DEF IInv

(* The one write of a lead or a plan. *)
LEMMA ResolveWritesPreserves == ASSUME IInv, ResolveWrites PROVE IInv'
<1>1. /\ pc \in {"act", "write"} /\ pc' = "mark"
      /\ writes' = [writes EXCEPT ![item] = @ + 1]
      /\ UNCHANGED <<queue, head, history, apply, at, answer, exit, faults>>
  BY DEF ResolveWrites, Acting
<1>2. todo # {} /\ item \in Proposal
  BY <1>1, InHandFacts DEF IInv, ItemInv, InHand
<1>3. FolderOf[item] \in Texts /\ writes[item] = 0 /\ proposal[item].manager_reviewed_at
  BY DEF IInv, ItemInv, ResolveWrites, Acting, Texts, q
<1>4. /\ writes' \in [Proposal -> Nat] /\ writes'[item] = 1
      /\ \A p \in Proposal : p # item => writes'[p] = writes[p]
  BY <1>1, <1>2, <1>3 DEF IInv, TypeOK
<1>5. TypeOK'
  BY <1>1, <1>4 DEF IInv, TypeOK, queue, history, at
<1>6. CountInv' /\ TextInv'
  BY <1>1, <1>3 DEF IInv, CountInv, TextInv, queue
<1>7. ItemInv'
  BY <1>1, <1>2 DEF ItemInv, at
<1>8. ApplyInv'
  <2>1. \A p \in Proposal : apply'[p] = "idle"
    BY <1>1, Idle
  <2> QED BY <1>1, <1>3, <1>4, <2>1 DEF IInv, ApplyInv, Texts, history
<1>9. JobInv'
  BY <1>1, <1>3 DEF IInv, JobInv, Testing, Texts, history, queue
<1> QED BY <1>5, <1>6, <1>7, <1>8, <1>9 DEF IInv

(* A gate's outcome: it is never taken back, and starts the apply process   *)
(* of this proposal only.                                                   *)
LEMMA GatePreserves == ASSUME IInv, GateFails \/ GatePasses PROVE IInv'
<1>1. /\ pc = "act" /\ FolderOf[item] = "skill"
      /\ gate' = [gate EXCEPT ![item] = "passed"]
         \/ gate' = [gate EXCEPT ![item] = IF @ = "passed" THEN @ ELSE "failed"]
      /\ UNCHANGED <<job, library, tests, at, answer, exit, faults>>
  BY DEF GateFails, GatePasses, Gating, Acting
<1>2. todo # {} /\ item \in Proposal /\ item' = item
  BY <1>1, InHandFacts DEF IInv, ItemInv, InHand, at, item
<1>3. /\ gate' \in [Proposal -> {"none", "passed", "failed"}]
      /\ \A p \in Proposal : gate[p] = "passed" => gate'[p] = "passed"
  BY <1>1 DEF IInv, TypeOK
<1>4. proposal' \in [Proposal -> File] /\ FileMoves
  <2>1. CASE UNCHANGED proposal
    BY <2>1, FilesStay DEF IInv, TypeOK
  <2>2. CASE \E s \in Status : SetStatus(s)
    BY <1>2, <2>2, StatusMoves DEF SetStatus
  <2>3. UNCHANGED proposal \/ SetStatus("gate_failed") \/ SetStatus("awaiting_human")
    BY DEF GateFails, GatePasses
  <2> QED BY <2>1, <2>2, <2>3 DEF Status
<1>5. \/ apply' = apply /\ pc' = "after"
      \/ apply' = [apply EXCEPT ![item] = "started"] /\ pc' = "apply"
         /\ gate' = [gate EXCEPT ![item] = "passed"]
  BY DEF GateFails, GatePasses
<1>6. TypeOK'
  <2>1. apply' \in [Proposal -> {"idle", "started", "written", "rewritten", "committed"}]
        /\ pc' \in {"after", "apply"}
    BY <1>5 DEF IInv, TypeOK
  <2> QED BY <1>1, <1>3, <1>4, <2>1 DEF IInv, TypeOK, library, at
<1>7. CountInv' /\ TextInv'
  BY <1>1, <1>4 DEF IInv, CountInv, TextInv, FileMoves, library
<1>8. ItemInv'
  BY <1>1, <1>2, <1>5 DEF ItemInv, at
<1>9. ApplyInv'
  <2>1. \A p \in Proposal : apply[p] = "idle"
    BY <1>1, Idle
  <2>2. \A p \in Proposal : apply'[p] # "idle" =>
            p = item /\ pc' = "apply" /\ gate'[p] = "passed"
    BY <1>5, <2>1 DEF IInv, TypeOK
  <2> QED BY <1>1, <1>2, <1>3, <2>2 DEF IInv, ApplyInv, library
<1>10. JobInv'
  BY <1>1, <1>3, <1>5 DEF IInv, JobInv, Testing, library
<1> QED BY <1>6, <1>7, <1>8, <1>9, <1>10 DEF IInv

(* A compound's request; the job of a compound that was tested stays ended. *)
LEMMA EnqueuePreserves == ASSUME IInv, Enqueue PROVE IInv'
<1>1. /\ pc = "act" /\ pc' = "after" /\ FolderOf[item] = "policy"
      /\ job' = [job EXCEPT ![item] = IF @ = "none" THEN "requested" ELSE @]
      /\ UNCHANGED <<proposal, library, history, apply, at, answer, exit, faults>>
  BY DEF Enqueue, Acting
<1>2. todo # {} /\ item \in Proposal
  BY <1>1, InHandFacts DEF IInv, ItemInv, InHand
<1>3. /\ job' \in [Proposal -> {"none", "requested", "started", "ended"}]
      /\ \A p \in Proposal : p # item => job'[p] = job[p]
      /\ job'[item] = (IF job[item] = "none" THEN "requested" ELSE job[item])
  BY <1>1, <1>2 DEF IInv, TypeOK
<1>4. TypeOK'
  BY <1>1 DEF IInv, TypeOK, library, history, at
<1>5. CountInv' /\ TextInv'
  BY <1>1 DEF IInv, CountInv, TextInv, library
<1>6. ItemInv'
  BY <1>1, <1>2 DEF ItemInv, at
<1>7. ApplyInv'
  <2>1. \A p \in Proposal : apply'[p] = "idle"
    BY <1>1, Idle
  <2> QED BY <1>1, <2>1 DEF IInv, ApplyInv, library, history
<1>8. JobInv'
  BY <1>1 DEF IInv, JobInv, Testing, library, history
<1> QED BY <1>4, <1>5, <1>6, <1>7, <1>8 DEF IInv

-----------------------------------------------------------------------------
(* The apply process of a proposal, alone or under its cycle. *)
LEMMA ApplyPreserves ==
    ASSUME IInv, NEW p \in Proposal,
           ApplyWrites(p) \/ ApplyCommits(p) \/ ApplyArchives(p) \/ ApplyFails(p)
    PROVE  IInv'
<1>1. /\ FolderOf[p] = "skill" /\ gate[p] = "passed"
      /\ pc \in {"off", "apply"}
      /\ apply[p] # "idle"
      /\ UNCHANGED <<job, history, pc, at, answer, exit, faults>>
  BY DEF ApplyWrites, ApplyCommits, ApplyArchives, ApplyFails, IInv, ApplyInv, queue
<1>2. item' = item
  BY <1>1 DEF at, item
<1>3. proposal' \in [Proposal -> File] /\ FileMoves
  <2>1. CASE ApplyArchives(p)
    BY <2>1, StatusMoves DEF ApplyArchives, Status
  <2>2. CASE ApplyWrites(p) \/ ApplyCommits(p) \/ ApplyFails(p)
    BY <2>2, FilesStay DEF ApplyWrites, ApplyCommits, ApplyFails, IInv, TypeOK, queue
  <2> QED BY <2>1, <2>2
<1>4. /\ writes' \in [Proposal -> Nat] /\ writes'[p] <= 1
      /\ \A r \in Proposal : r # p => writes'[r] = writes[r]
  <2>1. writes \in [Proposal -> Nat] /\ writes[p] <= 1
    BY <1>1 DEF IInv, TypeOK, ApplyInv
  <2>2. \/ writes' = writes
        \/ writes' = [writes EXCEPT ![p] = 1]
        \/ writes' = [writes EXCEPT ![p] = 0]
    BY <2>1 DEF ApplyWrites, ApplyCommits, ApplyArchives, ApplyFails, library
  <2> QED BY <2>1, <2>2
<1>5. /\ apply' \in [Proposal -> {"idle", "started", "written", "rewritten", "committed"}]
      /\ \A r \in Proposal : r # p => apply'[r] = apply[r]
  BY DEF ApplyWrites, ApplyCommits, ApplyArchives, ApplyFails, IInv, TypeOK
<1>6. head' \subseteq Proposal
  BY DEF ApplyWrites, ApplyCommits, ApplyArchives, ApplyFails, IInv, TypeOK, library
<1>7. TypeOK'
  BY <1>1, <1>3, <1>4, <1>5, <1>6 DEF IInv, TypeOK, history, at
<1>8. CountInv' /\ TextInv'
  BY <1>1, <1>3, <1>4 DEF IInv, CountInv, TextInv, FileMoves, Texts
<1>9. ItemInv'
  BY <1>1 DEF IInv, ItemInv, at
<1>10. ApplyInv'
  BY <1>1, <1>2, <1>4, <1>5 DEF IInv, ApplyInv, history
<1>11. JobInv'
  BY <1>1, <1>4 DEF IInv, JobInv, Testing, history
<1> QED BY <1>7, <1>8, <1>9, <1>10, <1>11 DEF IInv

-----------------------------------------------------------------------------
(***************************************************************************)
(* The one compound test of a cycle.                                       *)
(***************************************************************************)
LEMMA JobChosenPreserves == ASSUME IInv, CloseJob \/ StartJob PROVE IInv'
<1>1. /\ pc = "jobs" /\ OpenJobs # {}
      /\ UNCHANGED <<proposal, library, gate, apply, faults>>
  BY DEF CloseJob, StartJob, history
<1>2. /\ first \in Proposal /\ job[first] \in {"requested", "started"}
      /\ FolderOf[first] = "policy"
  BY <1>1, FirstFacts DEF IInv, JobInv
<1>3. \A p \in Proposal : apply'[p] = "idle"
  BY <1>1, Idle
<1>4. CountInv' /\ TextInv'
  BY <1>1 DEF IInv, CountInv, TextInv, library
<1>5. ApplyInv'
  BY <1>1 DEF IInv, ApplyInv, library
<1>6. CASE CloseJob
  <2>1. /\ job' = [job EXCEPT ![first] = "ended"] /\ Over("ok") /\ UNCHANGED history
    BY <1>6 DEF CloseJob
  <2>2. /\ job' \in [Proposal -> {"none", "requested", "started", "ended"}]
        /\ job'[first] = "ended"
        /\ \A p \in Proposal : p # first => job'[p] = job[p]
    BY <1>2, <2>1 DEF IInv, TypeOK
  <2>3. TypeOK'
    BY <1>1, <2>1, <2>2, NoAnswerType DEF IInv, TypeOK, Over, library, history
  <2>4. ItemInv'
    BY <2>1 DEF ItemInv, Over, InHand
  <2>5. JobInv'
    BY <1>1, <1>2, <2>1 DEF IInv, JobInv, Testing, Over, library, history
  <2> QED BY <1>4, <1>5, <2>3, <2>4, <2>5 DEF IInv
<1>7. CASE StartJob
  <2>1. /\ job' = [job EXCEPT ![first] = "started"]
        /\ tests' = [tests EXCEPT ![first] = @ + 1]
        /\ pc' = "test" /\ job[first] # "started"
        /\ UNCHANGED <<at, answer, exit>>
    BY <1>7 DEF StartJob, Stale
  <2>2. /\ job' \in [Proposal -> {"none", "requested", "started", "ended"}]
        /\ job'[first] = "started"
        /\ \A p \in Proposal : p # first => job'[p] = job[p]
    BY <1>2, <2>1 DEF IInv, TypeOK
  <2>3. tests[first] = 0 /\ writes[first] = 0
    BY <1>2, <2>1 DEF IInv, JobInv
  <2>4. /\ tests' \in [Proposal -> Nat] /\ tests'[first] = 1
        /\ \A p \in Proposal : p # first => tests'[p] = tests[p]
    BY <1>2, <2>1, <2>3 DEF IInv, TypeOK
  <2>5. OpenJobs' = OpenJobs /\ first' = first
    <3>1. OpenJobs' = OpenJobs
      BY <1>2, <2>2 DEF OpenJobs
    <3> QED BY <3>1 DEF first
  <2>6. TypeOK'
    BY <1>1, <2>1, <2>4 DEF IInv, TypeOK, library, at
  <2>7. ItemInv'
    BY <2>1 DEF ItemInv, InHand
  <2>8. JobInv'
    <3>1. ASSUME NEW p \in Proposal
          PROVE  /\ job'[p] # "none" => FolderOf[p] = "policy"
                 /\ tests'[p] <= 1
                 /\ job'[p] \in {"none", "requested"} =>
                        tests'[p] = 0 /\ (FolderOf[p] = "policy" => writes'[p] = 0)
                 /\ FolderOf[p] = "policy" => /\ writes'[p] <= 1
                                              /\ writes'[p] > 0 => gate'[p] = "passed"
      <4>1. CASE p = first
        BY <1>1, <1>2, <2>2, <2>3, <2>4, <4>1 DEF library
      <4>2. CASE p # first
        BY <1>1, <2>2, <2>4, <4>2 DEF IInv, JobInv, library
      <4> QED BY <4>1, <4>2
    <3> QED BY <1>1, <2>1, <2>2, <2>3, <2>5, <3>1 DEF JobInv, library
  <2> QED BY <1>4, <1>5, <2>6, <2>7, <2>8 DEF IInv
<1> QED BY <1>6, <1>7

(* The test's outcome and the publication of the compound's files.          *)
LEMMA TestPreserves ==
    ASSUME IInv,
           TestFails \/ PublishWrites \/ PublishMarks \/ PublishCommits \/ JobError
    PROVE  IInv'
<1>1. /\ pc \in Testing /\ pc # "result" /\ pc' \in Testing /\ pc' # "test"
      /\ UNCHANGED <<job, tests, apply, at, answer, exit, faults>>
  BY DEF TestFails, PublishWrites, PublishMarks, PublishCommits, JobError, Testing, queue,
         history
<1>2. OpenJobs # {} /\ job[first] = "started" /\ OpenJobs' = OpenJobs /\ first' = first
  BY <1>1 DEF IInv, JobInv, OpenJobs, first
<1>3. first \in Proposal /\ FolderOf[first] = "policy"
  BY <1>2, FirstFacts DEF IInv, JobInv
<1>4. proposal' \in [Proposal -> File] /\ FileMoves
  <2>1. CASE UNCHANGED proposal
    BY <2>1, FilesStay DEF IInv, TypeOK
  <2>2. CASE \E s \in Status : SetJobStatus(s)
    BY <1>3, <2>2, StatusMoves DEF SetJobStatus
  <2>3. UNCHANGED proposal \/ \E s \in Status : SetJobStatus(s)
    BY DEF TestFails, PublishWrites, PublishMarks, PublishCommits, JobError, queue, Status
  <2> QED BY <2>1, <2>2, <2>3
<1>5. /\ writes' \in [Proposal -> Nat]
      /\ \A p \in Proposal : p # first => writes'[p] = writes[p]
      /\ writes'[first] <= 1
      /\ pc' \in {"publish", "publish_commit"} => writes'[first] = 1
      /\ \/ writes'[first] = writes[first] \/ writes'[first] = 0
         \/ gate'[first] = "passed"
  <2>1. /\ writes \in [Proposal -> Nat]
        /\ writes[first] <= 1
        /\ pc = "test" => writes[first] = 0
        /\ pc \in {"publish", "publish_commit"} => writes[first] = 1
    BY <1>1, <1>3 DEF IInv, TypeOK, JobInv
  <2>2. CASE PublishWrites
    <3>1. writes' = [writes EXCEPT ![first] = 1] /\ gate'[first] = "passed"
          /\ pc' = "publish"
      BY <1>3, <2>1, <2>2 DEF PublishWrites, IInv, TypeOK
    <3> QED BY <1>3, <2>1, <3>1
  <2>3. CASE JobError
    <3>1. pc' = "result" /\ (writes' = writes \/ writes' = [writes EXCEPT ![first] = 0])
      <4>1. CASE pc = "test"
        BY <2>1, <2>3, <4>1 DEF JobError
      <4>2. CASE pc # "test"
        <5>1. writes[first] = 1 /\ pc' = "result"
              /\ writes' = [writes EXCEPT ![first] = writes[first] - 1]
          BY <2>1, <2>3, <4>2 DEF JobError
        <5>2. writes[first] - 1 = 0
          BY <5>1
        <5> QED BY <5>1, <5>2
      <4> QED BY <2>3, <4>1, <4>2
    <3> QED BY <1>3, <2>1, <3>1
  <2>4. CASE TestFails \/ PublishMarks \/ PublishCommits
    <3>1. writes' = writes /\ pc' \in {"result", "publish_commit"}
          /\ (pc' = "publish_commit" => pc = "publish")
      BY <2>4 DEF TestFails, PublishMarks, PublishCommits, library
    <3> QED BY <2>1, <3>1
  <2> QED BY <2>2, <2>3, <2>4
<1>6. /\ gate' \in [Proposal -> {"none", "passed", "failed"}]
      /\ \A p \in Proposal : gate[p] = "passed" => gate'[p] = "passed"
  <2>1. gate' = gate \/ gate' = [gate EXCEPT ![first] = "passed"]
    BY DEF TestFails, PublishWrites, PublishMarks, PublishCommits, JobError, history
  <2> QED BY <2>1 DEF IInv, TypeOK
<1>7. head' \subseteq Proposal
  BY <1>3 DEF TestFails, PublishWrites, PublishMarks, PublishCommits, JobError, IInv, TypeOK,
              library
<1>8. TypeOK'
  BY <1>1, <1>4, <1>5, <1>6, <1>7 DEF IInv, TypeOK, Testing, at
<1>9. CountInv' /\ TextInv'
  BY <1>3, <1>4, <1>5 DEF IInv, CountInv, TextInv, FileMoves, Texts
<1>10. ItemInv'
  BY <1>1 DEF ItemInv, Testing, InHand
<1>11. ApplyInv'
  <2>1. \A p \in Proposal : apply'[p] = "idle"
    BY <1>1, Idle DEF Testing
  <2> QED BY <1>3, <1>5, <1>6, <2>1 DEF IInv, ApplyInv
<1>12. JobInv'
  <2>1. ASSUME NEW p \in Proposal
        PROVE  /\ job'[p] # "none" => FolderOf[p] = "policy"
               /\ tests'[p] <= 1
               /\ job'[p] \in {"none", "requested"} =>
                      tests'[p] = 0 /\ (FolderOf[p] = "policy" => writes'[p] = 0)
               /\ FolderOf[p] = "policy" => /\ writes'[p] <= 1
                                            /\ writes'[p] > 0 => gate'[p] = "passed"
    <3>1. CASE p = first
      BY <1>1, <1>5, <1>6 DEF IInv, JobInv
    <3>2. CASE p # first
      BY <1>1, <1>5, <1>6 DEF IInv, JobInv
    <3> QED BY <3>1, <3>2
  <2> QED BY <1>1, <1>2, <1>5, <2>1 DEF JobInv
<1> QED BY <1>8, <1>9, <1>10, <1>11, <1>12 DEF IInv

LEMMA JobEndsPreserves == ASSUME IInv, JobEnds PROVE IInv'
<1>1. /\ pc = "result" /\ job' = [job EXCEPT ![first] = "ended"] /\ Over("ok")
      /\ UNCHANGED <<proposal, library, history, apply, faults>>
  BY DEF JobEnds
<1>2. first \in Proposal /\ FolderOf[first] = "policy"
  BY <1>1, FirstFacts DEF IInv, JobInv, Testing
<1>3. /\ job' \in [Proposal -> {"none", "requested", "started", "ended"}]
      /\ job'[first] = "ended"
      /\ \A p \in Proposal : p # first => job'[p] = job[p]
  BY <1>1, <1>2 DEF IInv, TypeOK
<1>4. TypeOK'
  BY <1>1, <1>3, NoAnswerType DEF IInv, TypeOK, Over, library, history
<1>5. CountInv' /\ TextInv'
  BY <1>1 DEF IInv, CountInv, TextInv, library
<1>6. ItemInv'
  BY <1>1 DEF ItemInv, Over, InHand
<1>7. ApplyInv'
  <2>1. \A p \in Proposal : apply'[p] = "idle"
    BY <1>1, Idle
  <2> QED BY <1>1, <2>1 DEF IInv, ApplyInv, library, history
<1>8. JobInv'
  BY <1>1 DEF IInv, JobInv, Testing, Over, library, history
<1> QED BY <1>4, <1>5, <1>6, <1>7, <1>8 DEF IInv

-----------------------------------------------------------------------------
(* Episodes file proposals and the back-off of a proposal runs out while    *)
(* the cycle stands anywhere.                                               *)
LEMMA EnvironmentPreserves == ASSUME IInv, Environment PROVE IInv'
<1> DEFINE Pending(p) == /\ proposal'[p].status = "pending"
                         /\ proposal'[p].manager_decision = proposal[p].manager_decision
<1>1. UNCHANGED <<job, library, history, apply, pc, at, answer, exit, faults>>
  BY DEF Environment, FileProposal, RetryDue
<1>2. /\ proposal' \in [Proposal -> File] /\ FileMoves
      /\ \A p \in Proposal : proposal[p].status = "pending" => Pending(p)
  <2>1. ASSUME NEW r \in Proposal, FileProposal(r)
        PROVE  /\ proposal' \in [Proposal -> File] /\ FileMoves
               /\ \A p \in Proposal : proposal[p].status = "pending" => Pending(p)
    <3>1. /\ proposal' \in [Proposal -> File] /\ FileMoves
          /\ \A p \in Proposal : p # r => proposal'[p] = proposal[p]
      BY <2>1, StatusMoves DEF FileProposal, Status
    <3>2. proposal[r].status = "absent"
      BY <2>1 DEF FileProposal
    <3> QED BY <3>1, <3>2
  <2>2. ASSUME NEW r \in Proposal, RetryDue(r)
        PROVE  /\ proposal' \in [Proposal -> File] /\ FileMoves
               /\ \A p \in Proposal : proposal[p].status = "pending" => Pending(p)
    <3>1. proposal \in [Proposal -> File]
      BY DEF IInv, TypeOK
    <3>2. /\ proposal' \in [Proposal -> File]
          /\ \A p \in Proposal : p # r => proposal'[p] = proposal[p]
          /\ proposal'[r].status = proposal[r].status
          /\ proposal'[r].manager_decision = proposal[r].manager_decision
          /\ proposal'[r].manager_reviewed_at = proposal[r].manager_reviewed_at
          /\ proposal'[r].review_attempts = proposal[r].review_attempts
      BY <2>2, <3>1 DEF RetryDue, Set, File
    <3> QED BY <3>2 DEF FileMoves, IInv, CountInv
  <2> QED BY <2>1, <2>2 DEF Environment
<1>3. TypeOK'
  BY <1>1, <1>2 DEF IInv, TypeOK, library, history, at
<1>4. CountInv' /\ TextInv'
  BY <1>1, <1>2 DEF IInv, CountInv, TextInv, FileMoves, library
<1>5. item' = item
  BY <1>1 DEF at, item
<1>6. ItemInv'
  <2>1. pc \in InHand => item \in Proposal
    BY InHandFacts DEF IInv, ItemInv
  <2>2. pc \in {"act", "write"} /\ q.manager_reviewed_at => q'.manager_reviewed_at
    BY <1>2, <1>5, <2>1 DEF q, FileMoves, InHand
  <2>3. pc = "act" => /\ q'.status = "pending"
                      /\ q'.manager_decision = q.manager_decision
    BY <1>2, <1>5, <2>1 DEF q, IInv, ItemInv, InHand
  <2> QED BY <1>1, <1>5, <2>2, <2>3 DEF IInv, ItemInv, library, at
<1>7. ApplyInv'
  BY <1>1, <1>5 DEF IInv, ApplyInv, library, history
<1>8. JobInv'
  BY <1>1 DEF IInv, JobInv, OpenJobs, first, library, history
<1> QED BY <1>3, <1>4, <1>6, <1>7, <1>8 DEF IInv

LEMMA StutterPreserves == ASSUME IInv, UNCHANGED vars PROVE IInv'
<1> USE DEF vars, queue, library, history, at
<1>1. TypeOK' /\ CountInv' /\ TextInv'
  BY DEF IInv, TypeOK, CountInv, TextInv
<1>2. ItemInv' /\ ApplyInv' /\ JobInv'
  BY DEF IInv, ItemInv, ApplyInv, JobInv, OpenJobs, first, item, q
<1> QED BY <1>1, <1>2 DEF IInv

LEMMA InitEstablishes == Init => IInv
<1> SUFFICES ASSUME Init PROVE IInv
  OBVIOUS
<1>1. TypeOK
  BY ReviewAssumption, NoAnswerType DEF Init, TypeOK, File, Status
<1>2. CountInv /\ TextInv /\ ItemInv /\ ApplyInv /\ JobInv
  BY DEF Init, CountInv, TextInv, ItemInv, InHand, ApplyInv, JobInv, Testing
<1> QED BY <1>1, <1>2 DEF IInv

LEMMA NextPreserves == ASSUME IInv, [Next]_vars PROVE IInv'
<1>1. CASE ReviewStep
  <2>1. CASE LeavesItem
    BY <2>1, LeavesItemPreserves
  <2>2. CASE ~LeavesItem
    BY <1>1, <2>2, CycleMovesPreserve, StatusStepsPreserve, ManagerDecidesPreserves,
       GateAgainPreserves, RejectCorrectedPreserves, ResolveWritesPreserves, GatePreserves,
       EnqueuePreserves
       DEF ReviewStep, LeavesItem
  <2> QED BY <2>1, <2>2
<1>2. CASE JobStep
  BY <1>2, CycleMovesPreserve, JobChosenPreserves, TestPreserves, JobEndsPreserves
     DEF JobStep
<1>3. CASE CycleBegins \/ Kill
  BY <1>3, CycleMovesPreserve
<1>4. CASE ApplyStep
  BY <1>4, ApplyPreserves DEF ApplyStep
<1>5. CASE Environment \/ UNCHANGED vars
  BY <1>5, EnvironmentPreserves, StutterPreserves
<1> QED BY <1>1, <1>2, <1>3, <1>4, <1>5 DEF Next, CycleStep

-----------------------------------------------------------------------------
(***************************************************************************)
(* The theorems about a cycle, whoever starts it.                          *)
(***************************************************************************)
(* The invariant holds in every reachable state. *)
THEOREM InvariantHolds == Spec => []IInv
BY InitEstablishes, NextPreserves, PTL DEF Spec

(* Every field of a proposal's file, and every count, keeps its type; a     *)
(* proposal is reviewed at most three times without an end.                 *)
THEOREM TypeCorrect == Spec => []TypeOK
<1>1. IInv => TypeOK
  BY DEF IInv
<1> QED BY InvariantHolds, <1>1, PTL

(* A lead, a plan or a compound enters the library at most once and a       *)
(* compound is tested at most once, whatever the cycle is killed between.   *)
THEOREM ResolutionsHappenOnce == Spec => []AppliedAtMostOnce
<1>1. IInv => AppliedAtMostOnce
  <2> SUFFICES ASSUME IInv, NEW p \in Proposal PROVE writes[p] <= 1 /\ tests[p] <= 1
    BY DEF AppliedAtMostOnce
  <2>1. FolderOf[p] \in {"wiki", "plan", "skill", "policy"}
    BY ReviewAssumption
  <2> QED BY <2>1 DEF IInv, TextInv, Texts, ApplyInv, JobInv
<1> QED BY InvariantHolds, <1>1, PTL

(* No code stands in the library whose simulator gate never passed, not     *)
(* even through the commit of the whole tree that ends a cycle.             *)
THEOREM GatesHold == Spec => []InstalledCodePassedItsGate
<1>1. IInv => InstalledCodePassedItsGate
  BY DEF IInv, ApplyInv, JobInv, InstalledCodePassedItsGate
<1> QED BY InvariantHolds, <1>1, PTL

(* An apply process starts for a pending proposal only whose file says that *)
(* the Manager approved it.                                                 *)
THEOREM ApprovalPrecedesApply == Spec => OnlyApprovedCodeIsApplied
<1> DEFINE Approved == \A p \in Proposal :
               apply[p] = "idle" /\ apply'[p] # "idle" =>
                   /\ proposal[p].manager_decision = "approve"
                   /\ proposal[p].manager_reviewed_at
                   /\ proposal[p].status = "pending"
<1>1. IInv /\ [Next]_vars => Approved
  <2> SUFFICES ASSUME IInv, [Next]_vars, NEW p \in Proposal,
                      apply[p] = "idle", apply'[p] # "idle"
               PROVE  /\ proposal[p].manager_decision = "approve"
                      /\ proposal[p].manager_reviewed_at
                      /\ proposal[p].status = "pending"
    OBVIOUS
  <2>1. CASE GatePasses
    <3>1. Gating /\ apply' = [apply EXCEPT ![item] = "started"]
      BY <2>1 DEF GatePasses
    <3>2. p = item
      BY <3>1
    <3> QED BY <3>1, <3>2 DEF IInv, ItemInv, Gating, Acting, q
  <2>2. CASE ApplyStep
    <3>1. PICK r \in Proposal :
              ApplyWrites(r) \/ ApplyCommits(r) \/ ApplyArchives(r) \/ ApplyFails(r)
      BY <2>2 DEF ApplyStep
    <3>2. apply[r] # "idle" /\ \A x \in Proposal : x # r => apply'[x] = apply[x]
      BY <3>1 DEF ApplyWrites, ApplyCommits, ApplyArchives, ApplyFails, IInv, TypeOK
    <3> QED BY <3>2
  <2>3. CASE Kill
    BY <2>3 DEF Kill
  <2>4. CASE ApplyTimesOut
    BY <2>4 DEF ApplyTimesOut
  <2>5. CASE ~(GatePasses \/ ApplyStep \/ Kill \/ ApplyTimesOut)
    <3>1. apply' = apply
      <4>1. CASE ReviewStep
        BY <2>5, <4>1 DEF ReviewStep, NextFolder, SkipItem, FirewallDefers, SourceBlocked,
           UnusableAnswer, ManagerDecides, GateAgain, ActReject, ActDefer, ResolveWrites,
           ResolveMarks, GateRaises, GateFails, ApplyReturns, Enqueue, EnqueueRefused,
           TransientError, PermanentError, ItemDone, FileCandidate
      <4>2. CASE JobStep
        BY <4>2 DEF JobStep, CommitTree, CommitFails, NoJob, JobDeferred, CloseJob, StartJob,
           TestFails, PublishWrites, PublishMarks, PublishCommits, JobError, JobEnds
      <4>3. CASE CycleBegins \/ Environment \/ UNCHANGED vars
        BY <4>3 DEF CycleBegins, Environment, FileProposal, RetryDue, vars
      <4> QED BY <2>5, <4>1, <4>2, <4>3 DEF Next, CycleStep
    <3> QED BY <3>1
  <2> QED BY <2>1, <2>2, <2>3, <2>4, <2>5
<1>2. IInv /\ [Next]_vars => [Approved]_vars
  BY <1>1
<1> QED BY InvariantHolds, <1>2, PTL DEF Spec, OnlyApprovedCodeIsApplied

-----------------------------------------------------------------------------
(***************************************************************************)
(* How long a cycle may take, and how long stop(): what is left of them,   *)
(* counted in a way that no step of theirs can leave as it was.  A queue   *)
(* is listed once (Listing), so proposals filed meanwhile, the Manager's   *)
(* own among them, do not keep a cycle going.                              *)
(***************************************************************************)
Reviewing == {"items"} \cup InHand

\* The proposals whose apply process is alive: one at most.
AtWork == {p \in Proposal : apply[p] # "idle"}
OneApply == \A p, r \in AtWork : p = r

\* Queues and what follows them, then files listed, then what is done with one,
\* then what its apply process does.
Phases == [commit |-> 6, jobs |-> 5, test |-> 4, publish |-> 3, publish_commit |-> 2,
           result |-> 1, off |-> 0]
ItemSteps == [items |-> 6, act |-> 5, write |-> 4, mark |-> 3, apply |-> 2, after |-> 1]
Writing == [started |-> 3, written |-> 2, rewritten |-> 2, committed |-> 1, idle |-> 0]

PhaseLeft == IF pc \in Reviewing THEN 11 - folder ELSE Phases[pc]
FilesLeft == IF pc \in Reviewing THEN Cardinality(todo) ELSE 0
ItemLeft == IF pc \in Reviewing THEN ItemSteps[pc] ELSE 0
ApplyLeft == IF AtWork = {} THEN 0 ELSE Writing[apply[CHOOSE p \in AtWork : TRUE]]

Left == <<PhaseLeft, FilesLeft, ItemLeft, ApplyLeft>>

Nearer ==
    \/ PhaseLeft' < PhaseLeft
    \/ PhaseLeft' = PhaseLeft /\ FilesLeft' < FilesLeft
    \/ PhaseLeft' = PhaseLeft /\ FilesLeft' = FilesLeft /\ ItemLeft' < ItemLeft
    \/ /\ PhaseLeft' = PhaseLeft /\ FilesLeft' = FilesLeft /\ ItemLeft' = ItemLeft
       /\ ApplyLeft' < ApplyLeft

Less == {ss \in Nat \X Nat : ss[1] < ss[2]}
Counted(n) == [1 .. n -> Nat]
Below(n) == LexProductOrdering(Less, Nat, n)
CycleSpends == <<Left', Left>> \in Below(4)

EachStepCounts ==
    /\ CycleStep \/ ApplyStep \/ Kill => CycleSpends
    /\ Environment => Left' = Left

LEMMA BelowIsWellFounded ==
    ASSUME NEW n \in Nat PROVE IsWellFoundedOn(Below(n), Counted(n))
<1>1. IsWellFoundedOn(Less, Nat)
  BY NatLessThanWellFounded DEF OpToRel, Less
<1> QED BY <1>1, WFLexProductOrdering DEF Below, Counted

LEMMA Falls ==
    ASSUME NEW n \in Nat, NEW f \in Counted(n), NEW g \in Counted(n), NEW j \in 1 .. n,
           g[j] < f[j], \A k \in 1 .. j - 1 : g[k] = f[k]
    PROVE  <<g, f>> \in Below(n)
<1>1. <<g[j], f[j]>> \in Less
  BY DEF Less, Counted
<1> QED BY <1>1 DEF Below, LexProductOrdering, Counted

LEMMA FilesAreFinite ==
    ASSUME IInv
    PROVE  IsFiniteSet(todo) /\ Cardinality(todo) \in Nat
BY ReviewAssumption, FS_Subset, FS_CardinalityType DEF IInv, TypeOK

LEMMA ApplyCounted == IInv => ApplyLeft \in Nat
<1>1. SUFFICES ASSUME IInv PROVE ApplyLeft \in Nat
  OBVIOUS
<1>2. CASE AtWork # {}
  <2>1. (CHOOSE p \in AtWork : TRUE) \in AtWork
    BY <1>2
  <2>2. apply[CHOOSE p \in AtWork : TRUE] \in DOMAIN Writing
    BY <1>1, <2>1 DEF AtWork, IInv, TypeOK, Writing
  <2> QED BY <1>2, <2>2 DEF ApplyLeft, Writing
<1> QED BY <1>2 DEF ApplyLeft

LEMMA LeftIsCounted ==
    IInv => /\ PhaseLeft \in Nat /\ FilesLeft \in Nat /\ ItemLeft \in Nat /\ ApplyLeft \in Nat
            /\ Left \in Counted(4)
<1>1. SUFFICES ASSUME IInv
               PROVE  /\ PhaseLeft \in Nat /\ FilesLeft \in Nat /\ ItemLeft \in Nat
                      /\ ApplyLeft \in Nat
  BY DEF Left, Counted
<1>2. PhaseLeft \in Nat
  BY <1>1 DEF IInv, TypeOK, PhaseLeft, Phases, Reviewing, InHand
<1>3. FilesLeft \in Nat
  BY <1>1, FilesAreFinite DEF FilesLeft
<1>4. ItemLeft \in Nat
  BY DEF ItemLeft, ItemSteps, Reviewing, InHand
<1> QED BY <1>1, <1>2, <1>3, <1>4, ApplyCounted

LEMMA NearerSpends ==
    ASSUME IInv, IInv', Nearer
    PROVE  CycleSpends
<1> DEFINE f == Left  g == Left'
<1>1. f \in Counted(4) /\ g \in Counted(4)
  <2>1. (Left \in Counted(4))'
    BY LeftIsCounted, PTL
  <2> QED BY <2>1, LeftIsCounted
<1>2. \E j \in 1 .. 4 : g[j] < f[j] /\ \A k \in 1 .. j - 1 : g[k] = f[k]
  BY DEF Left, Nearer
<1> HIDE DEF f, g
<1>3. <<g, f>> \in Below(4)
  BY <1>1, <1>2, Falls
<1> QED BY <1>3 DEF CycleSpends, f, g

\* The next of the files that were listed; the next thing done with a file.
LEMMA FileSpends ==
    ASSUME IInv, pc \in Reviewing, todo # {}, Continue
    PROVE  Nearer
<1>1. /\ item \in todo /\ Cardinality(todo) \in Nat
      /\ Cardinality(todo \ {item}) = Cardinality(todo) - 1
  BY FilesAreFinite, InHandFacts, FS_RemoveElement DEF IInv
<1>2. FilesLeft' < FilesLeft
  BY <1>1 DEF Continue, FilesLeft, Reviewing
<1> QED BY <1>2 DEF Continue, PhaseLeft, Reviewing, Nearer

LEMMA ItemSpends ==
    ASSUME IInv, pc \in Reviewing, pc' \in Reviewing, UNCHANGED at,
           ItemSteps[pc'] < ItemSteps[pc]
    PROVE  Nearer
BY DEF at, PhaseLeft, FilesLeft, ItemLeft, Nearer

LEMMA ReviewSpends == ASSUME IInv, ReviewStep PROVE Nearer
<1>1. CASE NextFolder
  <2>1. folder \in 1 .. 4
    BY DEF IInv, TypeOK
  <2>2. pc = "items" /\ \/ folder' = folder + 1 /\ pc' = "items"
                        \/ pc' = "commit"
    BY <1>1 DEF NextFolder
  <2> QED BY <2>1, <2>2 DEF PhaseLeft, Phases, Reviewing, InHand, Nearer
<1>2. CASE LeavesItem
  <2>1. Continue /\ pc \in Reviewing /\ todo # {}
    BY <1>2 DEF LeavesItem, SkipItem, FirewallDefers, SourceBlocked, UnusableAnswer,
       TransientError, PermanentError, ApplyTimesOut, ItemDone, FileCandidate, AtItem, Reviewing,
       InHand, IInv, ItemInv
  <2> QED BY <2>1, FileSpends
<1>3. CASE ~NextFolder /\ ~LeavesItem
  <2>1. /\ UNCHANGED at
        /\ \/ pc \in {"items"} /\ pc' = "act"
           \/ pc \in {"act"} /\ pc' \in {"write", "mark", "apply", "after"}
           \/ pc \in {"write"} /\ pc' = "mark"
           \/ pc \in {"mark", "apply"} /\ pc' = "after"
    BY <1>3 DEF ReviewStep, LeavesItem, ManagerDecides, GateAgain, AtItem, ActReject, ActDefer,
       Acting, ResolveWrites, ResolveMarks, GateRaises, GateFails, GatePasses, Gating,
       ApplyReturns, Enqueue, EnqueueRefused
  <2>2. pc \in Reviewing /\ pc' \in Reviewing /\ ItemSteps[pc'] < ItemSteps[pc]
    BY <2>1 DEF Reviewing, InHand, ItemSteps
  <2> QED BY <2>1, <2>2, ItemSpends
<1> QED BY <1>1, <1>2, <1>3

LEMMA JobSpends == ASSUME IInv, JobStep PROVE Nearer
<1>1. PhaseLeft' < PhaseLeft
  BY DEF JobStep, CommitTree, CommitFails, NoJob, JobDeferred, CloseJob, StartJob, TestFails,
     PublishWrites, PublishMarks, PublishCommits, JobError, JobEnds, Over, PhaseLeft, Phases,
     Reviewing, InHand
<1> QED BY <1>1 DEF Nearer

LEMMA KillSpends == ASSUME IInv, Kill PROVE Nearer
<1>1. PhaseLeft' = 0
  BY DEF Kill, Over, PhaseLeft, Phases, Reviewing, InHand
<1>2. PhaseLeft > 0
  BY DEF Kill, PhaseLeft, Phases, Reviewing, InHand, IInv, TypeOK
<1> QED BY <1>1, <1>2 DEF Nearer

\* What is left of the one apply process that is alive.
LEMMA WritingLeft ==
    \A p \in Proposal : OneApply /\ p \in AtWork => ApplyLeft = Writing[apply[p]]
BY DEF OneApply, ApplyLeft

LEMMA ApplySpends == ASSUME IInv, OneApply, ApplyStep PROVE OneApply' /\ Nearer
<1>1. PICK p \in Proposal :
          ApplyWrites(p) \/ ApplyCommits(p) \/ ApplyArchives(p) \/ ApplyFails(p)
  BY DEF ApplyStep
<1>2. /\ apply \in [Proposal -> {"idle", "started", "written", "rewritten", "committed"}]
      /\ UNCHANGED <<pc, at>>
  BY <1>1 DEF IInv, TypeOK, ApplyWrites, ApplyCommits, ApplyArchives, ApplyFails
<1>3. PICK to \in {"idle", "written", "rewritten", "committed"} :
          /\ apply' = [apply EXCEPT ![p] = to]
          /\ apply[p] # "idle" /\ Writing[to] < Writing[apply[p]]
  BY <1>1, <1>2 DEF ApplyWrites, ApplyCommits, ApplyArchives, ApplyFails, Writing
<1>4. AtWork = {p} /\ AtWork' \subseteq {p} /\ apply'[p] = to
  BY <1>2, <1>3 DEF OneApply, AtWork
<1>5. OneApply'
  BY <1>4 DEF OneApply
<1>6. ApplyLeft' < ApplyLeft
  <2>1. ApplyLeft = Writing[apply[p]]
    BY <1>4, WritingLeft
  <2>2. CASE to = "idle"
    <3>1. AtWork' = {}
      BY <1>3, <1>4, <2>2 DEF AtWork
    <3> QED BY <1>3, <2>1, <2>2, <3>1 DEF ApplyLeft, Writing
  <2>3. CASE to # "idle"
    <3>1. p \in AtWork'
      BY <1>4, <2>3 DEF AtWork
    <3>2. ApplyLeft' = Writing[apply'[p]]
      BY <1>5, <3>1 DEF OneApply, ApplyLeft
    <3> QED BY <1>3, <1>4, <2>1, <3>2
  <2> QED BY <2>2, <2>3
<1>7. PhaseLeft' = PhaseLeft /\ FilesLeft' = FilesLeft /\ ItemLeft' = ItemLeft
  BY <1>2 DEF at, PhaseLeft, FilesLeft, ItemLeft
<1> QED BY <1>5, <1>6, <1>7 DEF Nearer

\* A gate that passes starts an apply process when none is alive.
LEMMA OneApplyKept == ASSUME IInv, OneApply, [Next]_vars PROVE OneApply'
<1>1. CASE ApplyStep
  BY <1>1, ApplySpends
<1>2. CASE GatePasses
  <2>1. \A p \in Proposal : apply[p] = "idle"
    BY <1>2, Idle DEF GatePasses, Gating, Acting
  <2>2. \A p \in Proposal : apply'[p] # "idle" => p = item
    BY <1>2, <2>1 DEF GatePasses, IInv, TypeOK
  <2> QED BY <2>2 DEF OneApply, AtWork
<1>3. CASE ~ApplyStep /\ ~GatePasses
  <2>1. \A p \in Proposal : apply'[p] # "idle" => apply[p] # "idle"
    <3>1. CASE ApplyTimesOut \/ Kill
      BY <3>1 DEF ApplyTimesOut, Kill, IInv, TypeOK
    <3>2. CASE ReviewStep /\ ~ApplyTimesOut
      BY <1>3, <3>2 DEF ReviewStep, NextFolder, SkipItem, FirewallDefers, SourceBlocked,
         UnusableAnswer, ManagerDecides, GateAgain, ActReject, ActDefer, ResolveWrites,
         ResolveMarks, GateRaises, GateFails, ApplyReturns, Enqueue, EnqueueRefused,
         TransientError, PermanentError, ItemDone, FileCandidate
    <3>3. CASE JobStep
      BY <3>3 DEF JobStep, CommitTree, CommitFails, NoJob, JobDeferred, CloseJob, StartJob,
         TestFails, PublishWrites, PublishMarks, PublishCommits, JobError, JobEnds
    <3>4. CASE CycleBegins \/ Environment \/ UNCHANGED vars
      BY <3>4 DEF CycleBegins, Environment, FileProposal, RetryDue, vars
    <3> QED BY <1>3, <3>1, <3>2, <3>3, <3>4 DEF Next, CycleStep
  <2> QED BY <2>1 DEF OneApply, AtWork
<1> QED BY <1>1, <1>2, <1>3

LEMMA EnvironmentLeaves == ASSUME Environment PROVE Left' = Left
<1>1. UNCHANGED <<pc, at, apply>>
  BY DEF Environment, FileProposal, RetryDue
<1> QED BY <1>1 DEF at, Left, PhaseLeft, FilesLeft, ItemLeft, ApplyLeft, AtWork

LEMMA OneApplyAlways == Spec => []OneApply
<1>1. Init => OneApply
  BY DEF Init, OneApply, AtWork
<1>2. IInv /\ OneApply /\ [Next]_vars => OneApply'
  BY OneApplyKept
<1> QED BY <1>1, <1>2, InvariantHolds, PTL DEF Spec

LEMMA CycleNearer ==
    ASSUME IInv, OneApply, CycleStep \/ ApplyStep \/ Kill PROVE Nearer
BY ReviewSpends, JobSpends, KillSpends, ApplySpends DEF CycleStep

\* cycle(): every step of a cycle, of the apply process it started or of what
\* befalls them spends something of a well founded amount, and neither proposals
\* that are filed nor timers that run out restore it: a cycle ends, whatever the
\* Manager answers and however often it files code of its own.
THEOREM CyclesAreBounded ==
    /\ IsWellFoundedOn(Below(4), Counted(4))
    /\ Spec => [](Left \in Counted(4))
    /\ Spec => [][EachStepCounts]_vars
<1>1. IInv /\ IInv' /\ OneApply => EachStepCounts
  BY CycleNearer, NearerSpends, EnvironmentLeaves DEF EachStepCounts
<1>2. IInv /\ IInv' /\ OneApply /\ [Next]_vars => [EachStepCounts]_vars
  BY <1>1
<1>3. Spec => [][EachStepCounts]_vars
  BY <1>2, InvariantHolds, OneApplyAlways, PTL DEF Spec
<1>4. IInv => Left \in Counted(4)
  BY LeftIsCounted
<1>5. Spec => [](Left \in Counted(4))
  BY <1>4, InvariantHolds, PTL
<1> QED BY <1>3, <1>5, BelowIsWellFounded

-----------------------------------------------------------------------------
(***************************************************************************)
(* The loop of the suite.  Its thread, and the suite's main thread at the  *)
(* end, only start cycles, look at their end and read the queues: every    *)
(* step of the loop is a step of ManagerReview or leaves it alone, so what *)
(* holds of any sequence of cycles holds of those the suite runs.          *)
(***************************************************************************)
THEOREM LoopImplementsReview == LoopSpec => Spec
<1>1. LoopInit => Init
  BY DEF LoopInit
<1>2. [LoopNext]_allVars => [Next]_vars
  BY DEF LoopNext, allVars, LoopStep, WaitReturns, RunCycle, NothingPending, CycleReturns,
     BackoffReturns, EndRound, MainStep, EpisodeRecorded, SeedEnds, ReadBusy, ReadQueues,
     NextSeed, Stop, Joined, LastCycle, NoLastCycle, LastCycleReturns, Files, Timer,
     CycleGoesOn, CycleDies, Next, Environment
<1> QED BY <1>1, <1>2, PTL DEF LoopSpec, Spec

(* The library stays gated and written once while the suite drives the      *)
(* cycles, kills those that take too long and starts others.                *)
THEOREM LoopKeepsGates ==
    LoopSpec => [](InstalledCodePassedItsGate /\ AppliedAtMostOnce)
BY LoopImplementsReview, GatesHold, ResolutionsHappenOnce, PTL

\* A cycle runs for whoever started it, who waits for its end; the thread is
\* gone before the main thread takes its turn.
LoopInv ==
    /\ pc # "off" => loop = "cycle" \/ main = "last_cycle"
    /\ main \in {"last_check", "last_cycle", "stopped"} => loop = "gone"

(* stop() returns only when no cycle runs and the thread is gone: what the  *)
(* suite sums up after it, no Manager changes any more.                     *)
THEOREM StopLeavesQuiet == LoopSpec => []StoppedIsQuiet
<1>1. LoopInit => LoopInv
  BY DEF LoopInit, Init, LoopInv
<1>2. LoopInv /\ [LoopNext]_allVars => LoopInv'
  <2> SUFFICES ASSUME LoopInv, [LoopNext]_allVars PROVE LoopInv'
    OBVIOUS
  <2>1. CASE LoopStep
    BY <2>1 DEF LoopStep, LoopInv, WaitReturns, RunCycle, NothingPending, CycleReturns,
       BackoffReturns, EndRound, vars, mainVars
  <2>2. CASE MainStep
    <3>1. CASE Joined \/ LastCycle \/ NoLastCycle \/ LastCycleReturns
      BY <3>1 DEF Joined, LastCycle, NoLastCycle, LastCycleReturns, vars, loopVars, LoopInv
    <3>2. CASE EpisodeRecorded \/ SeedEnds \/ ReadBusy \/ ReadQueues \/ NextSeed \/ Stop
      <4>1. /\ pc' = pc /\ loop' = loop
            /\ main \notin {"last_cycle"}
            /\ main' \notin {"last_check", "last_cycle", "stopped"}
        BY <3>2 DEF EpisodeRecorded, SeedEnds, ReadBusy, ReadQueues, NextSeed, Stop,
           vars, loopVars, mainVars
      <4> QED BY <4>1 DEF LoopInv
    <3> QED BY <2>2, <3>1, <3>2 DEF MainStep
  <2>3. CASE CycleGoesOn \/ CycleDies
    <3>1. pc # "off" \/ pc' = pc
      <4>1. CASE ReviewStep
        BY <4>1 DEF ReviewStep, NextFolder, SkipItem, FirewallDefers, SourceBlocked, AtItem,
           UnusableAnswer, ManagerDecides, GateAgain, ActReject, ActDefer, ResolveWrites,
           ResolveMarks, GateRaises, GateFails, GatePasses, Gating, Acting, ApplyReturns,
           ApplyTimesOut, Enqueue, EnqueueRefused, TransientError, PermanentError, ItemDone,
           FileCandidate
      <4>2. CASE JobStep
        BY <4>2 DEF JobStep, CommitTree, CommitFails, NoJob, JobDeferred, CloseJob, StartJob,
           TestFails, PublishWrites, PublishMarks, PublishCommits, JobError, JobEnds
      <4>3. CASE ApplyStep \/ Kill
        BY <4>3 DEF ApplyStep, ApplyWrites, ApplyCommits, ApplyArchives, ApplyFails, Kill
      <4> QED BY <2>3, <4>1, <4>2, <4>3 DEF CycleGoesOn, CycleDies, CycleStep
    <3> QED BY <2>3, <3>1 DEF CycleGoesOn, CycleDies, LoopInv, loopVars, mainVars
  <2>4. CASE Files \/ Timer \/ UNCHANGED allVars
    BY <2>4 DEF Files, FileProposal, Timer, RetryDue, allVars, vars, loopVars, mainVars, LoopInv
  <2> QED BY <2>1, <2>2, <2>3, <2>4 DEF LoopNext
<1>3. LoopInv => StoppedIsQuiet
  BY DEF LoopInv, StoppedIsQuiet
<1> QED BY <1>1, <1>2, <1>3, PTL DEF LoopSpec

\* stop(): the main thread waits for the other, starts a last cycle and waits.
Stops == [join |-> 3, last_check |-> 2, last_cycle |-> 1, stopped |-> 0]
Rounds == [cycle |-> 3, check |-> 2, backoff |-> 2, end |-> 1, wait |-> 1, gone |-> 0]
StopLeft == <<Stops[main], Rounds[loop], PhaseLeft, FilesLeft, ItemLeft, ApplyLeft>>
StopSpends == <<StopLeft', StopLeft>> \in Below(6)

StopCounts == main \in DOMAIN Stops =>
    /\ main' \in DOMAIN Stops
    /\ StopSpends \/ (Timer /\ StopLeft' = StopLeft)

StopInv ==
    /\ main \in DOMAIN Stops \cup {"seed", "read_busy", "read_queues", "idle"}
    /\ loop \in DOMAIN Rounds
    /\ main \in DOMAIN Stops => stopping

StopNearer ==
    \/ Stops[main'] < Stops[main]
    \/ main' = main /\ Rounds[loop'] < Rounds[loop]
    \/ main' = main /\ loop' = loop /\ Nearer

LEMMA StopKept == ASSUME StopInv, [LoopNext]_allVars PROVE StopInv'
<1> USE DEF StopInv, Stops, Rounds
<1>1. CASE LoopStep
  BY <1>1 DEF LoopStep, WaitReturns, RunCycle, NothingPending, CycleReturns, BackoffReturns,
     EndRound, mainVars
<1>2. CASE MainStep
  BY <1>2 DEF MainStep, EpisodeRecorded, SeedEnds, ReadBusy, ReadQueues, NextSeed, Stop, Joined,
     LastCycle, NoLastCycle, LastCycleReturns, loopVars, mainVars
<1>3. CASE CycleGoesOn \/ CycleDies \/ Files \/ Timer \/ UNCHANGED allVars
  BY <1>3 DEF CycleGoesOn, CycleDies, Files, Timer, allVars, loopVars, mainVars
<1> QED BY <1>1, <1>2, <1>3 DEF LoopNext

LEMMA StopsNearer ==
    ASSUME IInv, OneApply, StopInv, LoopNext, main \in DOMAIN Stops
    PROVE  /\ main' \in DOMAIN Stops
           /\ Timer \/ StopNearer
<1> USE DEF StopInv, Stops, Rounds
<1>1. CASE LoopStep
  BY <1>1 DEF LoopStep, WaitReturns, RunCycle, NothingPending, CycleReturns, BackoffReturns,
     EndRound, mainVars, StopNearer
<1>2. CASE MainStep
  BY <1>2 DEF MainStep, EpisodeRecorded, SeedEnds, ReadBusy, ReadQueues, NextSeed, Stop, Joined,
     LastCycle, NoLastCycle, LastCycleReturns, StopNearer
<1>3. CASE CycleGoesOn \/ CycleDies
  <2>1. CycleStep \/ ApplyStep \/ Kill
    BY <1>3 DEF CycleGoesOn, CycleDies
  <2>2. main' = main /\ loop' = loop
    BY <1>3 DEF CycleGoesOn, CycleDies, loopVars, mainVars
  <2> QED BY <2>1, <2>2, CycleNearer DEF StopNearer
<1>4. CASE Files
  BY <1>4 DEF Files
<1>5. CASE Timer
  BY <1>5 DEF Timer, mainVars
<1> QED BY <1>1, <1>2, <1>3, <1>4, <1>5 DEF LoopNext

LEMMA StopIsCounted == IInv /\ StopInv /\ main \in DOMAIN Stops => StopLeft \in Counted(6)
<1>1. SUFFICES ASSUME IInv, StopInv, main \in DOMAIN Stops
               PROVE  StopLeft \in Counted(6)
  OBVIOUS
<1>2. Stops[main] \in Nat /\ Rounds[loop] \in Nat
  BY <1>1 DEF StopInv, Stops, Rounds
<1>3. PhaseLeft \in Nat /\ FilesLeft \in Nat /\ ItemLeft \in Nat /\ ApplyLeft \in Nat
  BY <1>1, LeftIsCounted
<1> QED BY <1>2, <1>3 DEF StopLeft, Counted

LEMMA StopNearerSpends ==
    ASSUME IInv, IInv', StopInv, StopInv', main \in DOMAIN Stops, main' \in DOMAIN Stops,
           StopNearer
    PROVE  StopSpends
<1> DEFINE f == StopLeft  g == StopLeft'
<1>1. f \in Counted(6) /\ g \in Counted(6)
  <2>1. (IInv /\ StopInv /\ main \in DOMAIN Stops => StopLeft \in Counted(6))'
    BY StopIsCounted, PTL
  <2> QED BY <2>1, StopIsCounted
<1>2. \E j \in 1 .. 6 : g[j] < f[j] /\ \A k \in 1 .. j - 1 : g[k] = f[k]
  BY DEF StopLeft, StopNearer, Nearer
<1> HIDE DEF f, g
<1>3. <<g, f>> \in Below(6)
  BY <1>1, <1>2, Falls
<1> QED BY <1>3 DEF StopSpends, f, g

LEMMA TimerLeaves == ASSUME Timer PROVE StopLeft' = StopLeft
<1>1. Environment /\ UNCHANGED <<main, loop>>
  BY DEF Timer, Environment, mainVars, loopVars
<1>2. UNCHANGED <<PhaseLeft, FilesLeft, ItemLeft, ApplyLeft>>
  BY <1>1, EnvironmentLeaves DEF Left
<1> QED BY <1>1, <1>2 DEF StopLeft

(* stop(): once it has begun, every step of either thread, of the cycle at  *)
(* work, of its apply process or of a kill spends something of a well       *)
(* founded amount, and a timer that runs out does not restore it: stop()    *)
(* returns, even when the queue never becomes empty.                        *)
THEOREM StopIsBounded ==
    /\ IsWellFoundedOn(Below(6), Counted(6))
    /\ LoopSpec => [](main \in DOMAIN Stops => StopLeft \in Counted(6))
    /\ LoopSpec => [][StopCounts]_allVars
<1>1. LoopInit => StopInv
  BY DEF LoopInit, StopInv, Stops, Rounds
<1>2. StopInv /\ [LoopNext]_allVars => StopInv'
  BY StopKept
<1>3. LoopSpec => []StopInv
  BY <1>1, <1>2, PTL DEF LoopSpec
<1>4. IInv /\ IInv' /\ OneApply /\ StopInv /\ StopInv' /\ [LoopNext]_allVars => [StopCounts]_allVars
  <2>1. ASSUME IInv, IInv', OneApply, StopInv, StopInv', LoopNext
        PROVE  StopCounts
    BY <2>1, StopsNearer, StopNearerSpends, TimerLeaves DEF StopCounts
  <2> QED BY <2>1
<1>5. LoopSpec => [](IInv /\ OneApply)
  BY LoopImplementsReview, InvariantHolds, OneApplyAlways, PTL
<1>6. LoopSpec => [][StopCounts]_allVars
  BY <1>3, <1>4, <1>5, PTL DEF LoopSpec
<1>7. LoopSpec => [](main \in DOMAIN Stops => StopLeft \in Counted(6))
  BY <1>3, <1>5, StopIsCounted, PTL
<1> QED BY <1>6, <1>7, BelowIsWellFounded
=============================================================================
