--------------------------- MODULE SkillPublication ---------------------------
(***************************************************************************)
(* The way of a skill change into the library: the Manager cycle's gate on *)
(* the source task and its task-scoped apply (manager/cycle.py), the       *)
(* background promotion (promote.py) with its gate on other tasks          *)
(* (episode_gate.py), and apply_proposal.py, which both run.               *)
(*                                                                         *)
(* One skill: a shared text and, for a task that has a revision of its     *)
(* own, a task-local text that shadows it.  Each exists three times: in    *)
(* the working tree, which episodes and apply read and write, in git's     *)
(* index, and in HEAD, which gates check out.  The cycle works under its   *)
(* lock, one proposal at a time; a promotion is a process of its own and   *)
(* takes no lock, so its steps fall between any two of the cycle's and of  *)
(* other promotions'.                                                      *)
(*                                                                         *)
(* Abstractions.  A text is named after the proposal that brought it.      *)
(* policy.py and SKILL.md of one skill count as one file.  A gate is one   *)
(* step with any outcome.  Processes do not die here (ManagerReview).      *)
(***************************************************************************)
EXTENDS Naturals, FiniteSets

CONSTANTS
    Task,        \* concrete simulator tasks
    Proposal,    \* proposals for this skill
    SourceOf,    \* the task each proposal comes from
    New,         \* the proposals of kind "new"; the others are updates
    Shared,      \* the place of the shared text, beside the task-local ones
    NoText,      \* there is no file
    Shipped,     \* the text a skill was shipped with
    GitMayFail   \* a git call may fail for reasons of its own (index.lock)

Place == Task \cup {Shared}
Text == Proposal \cup {Shipped, NoText}

ASSUME PublicationAssumption ==
    /\ SourceOf \in [Proposal -> Task]
    /\ New \subseteq Proposal
    /\ Shared \notin Task
    /\ NoText \notin Proposal /\ Shipped \notin Proposal
    /\ GitMayFail \in BOOLEAN

VARIABLES
    tree, index, head,  \* the texts, per place
    at,                 \* where each proposal stands
    scope,              \* --scope of its apply: "task" by the cycle, "global"
                        \* by its promotion
    place,              \* the file its apply writes
    backup,             \* what that file held before (_BACKUPS)
    passed              \* the gates it has passed (history)

git == <<index, head>>
files == <<tree, git>>
vars == <<files, at, scope, place, backup, passed>>

\* The stages of an apply, of the cycle's work and of a promotion's.
InApply == {"write", "add", "commit"}
Stages(sc) ==
    InApply \cup IF sc = "task"
                 THEN {"queued", "rejected", "failed", "installed"}
                 ELSE {"gate", "remove", "record", "not_promoted", "promoted"}

TypeOK ==
    /\ tree \in [Place -> Text] /\ index \in [Place -> Text] /\ head \in [Place -> Text]
    /\ scope \in [Proposal -> {"task", "global"}]
    /\ at \in [Proposal -> Stages("task") \cup Stages("global")]
    /\ \A p \in Proposal : at[p] \in Stages(scope[p])
    /\ place \in [Proposal -> Place]
    /\ backup \in [Proposal -> Text]
    /\ passed \in [Proposal -> SUBSET {"source", "cross"}]

Init ==
    /\ \E text \in {Shipped, NoText} :
           tree = [w \in Place |-> IF w = Shared THEN text ELSE NoText]
    /\ index = tree /\ head = tree
    /\ at = [p \in Proposal |-> "queued"]
    /\ scope = [p \in Proposal |-> "task"]
    /\ place = [p \in Proposal |-> Shared]
    /\ backup = [p \in Proposal |-> NoText]
    /\ passed = [p \in Proposal |-> {}]

\* An apply process that runs, as seen from outside.
Applying(p) == at[p] \in InApply

\* The cycle has no proposal in hand: it holds manager.lock for one at a time.
CycleFree == \A p \in Proposal : ~(Applying(p) /\ scope[p] = "task")

\* What an episode of task t loads: discover_ns.
View(t) == IF tree[t] # NoText THEN tree[t] ELSE tree[Shared]
-----------------------------------------------------------------------------
SourceGatePasses(p) ==
    /\ at[p] = "queued" /\ CycleFree
    /\ passed' = [passed EXCEPT ![p] = @ \cup {"source"}]
    /\ at' = [at EXCEPT ![p] = "write"]
    /\ UNCHANGED <<files, scope, place, backup>>

\* Mutant: a failed gate does not keep the change off its task.
SourceGateIgnored(p) ==
    /\ at[p] = "queued" /\ CycleFree
    /\ at' = [at EXCEPT ![p] = "write"]
    /\ UNCHANGED <<files, scope, place, backup, passed>>

SourceGateFails(p) ==
    /\ at[p] = "queued" /\ CycleFree
    /\ at' = [at EXCEPT ![p] = "rejected"]
    /\ UNCHANGED <<files, scope, place, backup, passed>>

\* Mutant: the cycle's apply resolves the shared skill, as it did before there
\* were task-local revisions.
TargetShared(p) ==
    IF scope[p] = "task" /\ tree[SourceOf[p]] = NoText THEN Shared ELSE SourceOf[p]

\* Where apply installs p.  An update is written where get_ns finds the skill,
\* and the promotion inherits ROBORSI_CURRENT_SIM_TASK, which the cycle has set
\* to the source task: a task-local copy comes first.
Target(p) ==
    CASE scope[p] = "task"                      -> SourceOf[p]
      [] scope[p] = "global" /\ p \in New       -> Shared
      [] scope[p] = "global" /\ p \notin New    ->
             IF tree[SourceOf[p]] # NoText THEN SourceOf[p] ELSE Shared

\* get_ns finds no skill of this name to update, with or without the task.
Unregistered(p) ==
    /\ scope[p] = "global" /\ p \notin New
    /\ tree[SourceOf[p]] = NoText /\ tree[Shared] = NoText

ApplyRefuses(p) ==
    /\ at[p] = "write" /\ Unregistered(p)
    /\ at' = [at EXCEPT ![p] = "not_promoted"]
    /\ UNCHANGED <<files, scope, place, backup, passed>>

ApplyWrites(p) ==
    /\ at[p] = "write" /\ ~Unregistered(p)
    /\ place' = [place EXCEPT ![p] = Target(p)]
    /\ backup' = [backup EXCEPT ![p] = tree[Target(p)]]
    /\ tree' = [tree EXCEPT ![Target(p)] = p]
    /\ at' = [at EXCEPT ![p] = "add"]
    /\ UNCHANGED <<git, scope, passed>>

\* git add; its exit status is not looked at.
ApplyAdds(p) ==
    /\ at[p] = "add"
    /\ \/ index' = [index EXCEPT ![place[p]] = tree[place[p]]]
       \/ GitMayFail /\ UNCHANGED index
    /\ at' = [at EXCEPT ![p] = "commit"]
    /\ UNCHANGED <<tree, head, scope, place, backup, passed>>

\* git has something to commit, of a path it knows.
CanCommit(p) == tree[place[p]] # head[place[p]] /\ index[place[p]] # NoText

\* git commit --only: the file as it stands in the tree by now.  A proposal
\* applied to its task is promoted if the Manager's scope was "global".
ApplyCommits(p) ==
    /\ at[p] = "commit"
    /\ CanCommit(p)
    /\ head' = [head EXCEPT ![place[p]] = tree[place[p]]]
    /\ index' = [index EXCEPT ![place[p]] = tree[place[p]]]
    /\ IF scope[p] = "global"
       THEN at' = [at EXCEPT ![p] = "remove"] /\ UNCHANGED scope
       ELSE \/ at' = [at EXCEPT ![p] = "installed"] /\ UNCHANGED scope
            \/ /\ at' = [at EXCEPT ![p] = "gate"]
               /\ scope' = [scope EXCEPT ![p] = "global"]
    /\ UNCHANGED <<tree, place, backup, passed>>

\* The commit failed: git reset, and put the old text back.
ApplyFails(p) ==
    /\ at[p] = "commit"
    /\ ~CanCommit(p) \/ GitMayFail
    /\ \/ index' = [index EXCEPT ![place[p]] = head[place[p]]]
       \/ GitMayFail /\ UNCHANGED index
    /\ tree' = [tree EXCEPT ![place[p]] = backup[p]]
    /\ at' = [at EXCEPT ![p] = IF scope[p] = "global" THEN "not_promoted"
                                                      ELSE "failed"]
    /\ UNCHANGED <<head, scope, place, backup, passed>>

\* The cycle ends: git add roborsi/embodied/skills, and a commit of the index.
CycleCommits ==
    /\ CycleFree
    /\ tree # head
    /\ index' = tree /\ head' = tree
    /\ UNCHANGED <<tree, at, scope, place, backup, passed>>
-----------------------------------------------------------------------------
\* cross_task_gate passes, or is not run: a new skill needs no gate but that on
\* its source task.
CrossGatePasses(p) ==
    /\ at[p] = "gate"
    /\ passed' = [passed EXCEPT ![p] = @ \cup {"cross"}]
    /\ at' = [at EXCEPT ![p] = "write"]
    /\ UNCHANGED <<files, scope, place, backup>>

CrossGateFails(p) ==
    /\ at[p] = "gate" /\ p \notin New
    /\ at' = [at EXCEPT ![p] = "not_promoted"]
    /\ UNCHANGED <<files, scope, place, backup, passed>>

\* shutil.rmtree(local)
RemoveLocal(p) ==
    /\ at[p] = "remove" /\ tree[SourceOf[p]] # NoText
    /\ tree' = [tree EXCEPT ![SourceOf[p]] = NoText]
    /\ at' = [at EXCEPT ![p] = "record"]
    /\ UNCHANGED <<git, scope, place, backup, passed>>

NothingToRemove(p) ==
    /\ at[p] = "remove" /\ tree[SourceOf[p]] = NoText
    /\ at' = [at EXCEPT ![p] = "promoted"]
    /\ UNCHANGED <<files, scope, place, backup, passed>>

\* git add -A of the task's directory, and a commit of the whole index; neither
\* exit status is looked at.
RecordRemoval(p) ==
    /\ at[p] = "record"
    /\ \/ index' = [index EXCEPT ![SourceOf[p]] = tree[SourceOf[p]]]
       \/ GitMayFail /\ UNCHANGED index
    /\ \/ head' = index'
       \/ GitMayFail /\ UNCHANGED head
    /\ at' = [at EXCEPT ![p] = "promoted"]
    /\ UNCHANGED <<tree, scope, place, backup, passed>>

Step(p) ==
    \/ SourceGatePasses(p) \/ SourceGateFails(p)
    \/ ApplyRefuses(p) \/ ApplyWrites(p) \/ ApplyAdds(p)
    \/ ApplyCommits(p) \/ ApplyFails(p)
    \/ CrossGatePasses(p) \/ CrossGateFails(p)
    \/ RemoveLocal(p) \/ NothingToRemove(p) \/ RecordRemoval(p)

Next == CycleCommits \/ \E p \in Proposal : Step(p)

Spec == Init /\ [][Next]_vars
-----------------------------------------------------------------------------
(***************************************************************************)
(* Properties.                                                             *)
(***************************************************************************)
\* A text may stand in a place: as the shared text once it passed the gate on
\* its source task and the one on other tasks, as a task's own once it passed
\* the gate on that very task.
MayStandIn(text, w) ==
    text \in Proposal =>
        IF w = Shared THEN passed[text] = {"source", "cross"}
                      ELSE SourceOf[text] = w /\ "source" \in passed[text]

\* The shared text was shipped or passed both gates (a new skill the only one
\* that is asked of it) before it was published, in the tree, in the index
\* and in HEAD, whichever process writes, commits or restores what.
SharedTextPassedBothGates ==
    \A area \in {tree, index, head} : MayStandIn(area[Shared], Shared)

\* A task's own text was validated on that very task.
LocalTextPassedItsGate ==
    \A area \in {tree, index, head}, t \in Task : MayStandIn(area[t], t)

\* What an apply would put back, should its commit fail, was validated for the
\* place it would be put, though the place has other writers by then.
RestoreIsSafe ==
    \A p \in Proposal :
        at[p] \in {"add", "commit"} => MayStandIn(backup[p], place[p])

=============================================================================
