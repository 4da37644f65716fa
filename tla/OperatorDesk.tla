---------------------------- MODULE OperatorDesk ----------------------------
(***************************************************************************)
(* The desk and the chat together.  A chat message is a command for the    *)
(* desk (/approve, /reject, /audit) and is a clerk while it works; others  *)
(* are at the desk at the same time, with the web page or the command      *)
(* line.  /approve applies; /reject archives: in the chat neither flips a  *)
(* status.                                                                 *)
(***************************************************************************)
EXTENDS ReviewDesk, FeishuChannel

CONSTANTS
    Walker,         \* clerks that are not messages
    Command,        \* of each message: its operation and proposal
    MaxCommands     \* bound: commands of all walkers

ASSUME ClerkAssumption == Clerk = Message \cup Walker /\ Message \cap Walker = {}

ASSUME BoundAssumption == MaxCommands \in Nat

VARIABLE commands       \* commands that walkers have given

operatorVars == <<deskVars, channelVars, commands>>

ChatOps   == {"apply", "archive", "annotate"}
WalkerOps == {"approve", "reject", "annotate", "apply", "archive"}

ASSUME CommandAssumption == \A m \in Message :
    Command[m].op \in ChatOps /\ Command[m].p \in Submission

OperatorTypeOK == DeskTypeOK /\ ChannelTypeOK /\ commands \in 0 .. MaxCommands

OperatorInit == DeskInit /\ ChannelInit /\ commands = 0

Walk(w) ==
    /\ job[w].at = "done" /\ commands < MaxCommands
    /\ \E op \in WalkerOps, p \in Submission : Start(w, op, p)
    /\ commands' = commands + 1
    /\ UNCHANGED <<queue, archive, committed, waiter, said, overwritten, channelVars>>

\* handle_command, once the chat's turn has come.  What is not on the desk is
\* not applied; the gate and apply_proposal follow.
BeginWork(d) ==
    /\ TakeTurn(d)
    /\ LET c == Command[d[1]]
       IN  IF c.op = "apply" /\ queue[c.p] = NoFile THEN UNCHANGED job
           ELSE Start(d[1], c.op, c.p)
    /\ UNCHANGED <<queue, archive, committed, waiter, said, overwritten, commands>>

\* The command has ended, in whatever way; the card says how.
EndWork(d) ==
    /\ job[d[1]].at = "done" /\ WorkEnds(d)
    /\ UNCHANGED <<deskVars, commands>>

\* The bot's commands end with it; apply_proposal may run on as an orphan.
Crash ==
    /\ BotDies
    /\ job' = [c \in Clerk |->
                 IF c \in Message /\ job[c].op = "annotate" THEN Idle ELSE job[c]]
    /\ UNCHANGED <<queue, archive, committed, waiter, said, overwritten, commands>>

Desk == (\E p \in Candidate : Propose(p))
        \/ (\E d \in Draft : AskForReview(d) \/ Poll(d) \/ PollTimesOut(d))
        \/ (\E c \in Clerk : JobStep(c) \/ Killed(c))

OperatorNext ==
    \/ Desk /\ UNCHANGED <<channelVars, commands>>
    \/ \E w \in Walker : Walk(w)
    \/ \E d \in Delivery : (Deliver(d) \/ LookUpFails(d) \/ Accepting(d)) /\ UNCHANGED <<deskVars, commands>>
    \/ \E d \in Delivery : BeginWork(d) \/ EndWork(d)
    \/ Crash

OperatorSpec == OperatorInit /\ [][OperatorNext]_operatorVars

\* Every thread goes on, with its command while it works; a lock that is free
\* again and again is got some day.
ThreadGoesOn(d) ==
    \/ Accepting(d) /\ UNCHANGED <<deskVars, commands>>
    \/ thread[d] = "work" /\ JobStep(d[1]) /\ UNCHANGED <<channelVars, commands>>
    \/ EndWork(d)

Fairness == \A d \in Delivery : WF_operatorVars(ThreadGoesOn(d)) /\ SF_operatorVars(BeginWork(d))

OperatorFairSpec == OperatorSpec /\ Fairness
-----------------------------------------------------------------------------
\* A message is worked on at most once, however often and at whatever times
\* Feishu delivers it, over the death of the bot too (bot_server.py:141-149).
HandledAtMostOnce ==
    [][\A m \in Message :
          m \in answered \cup dropped \/ ThreadsAt(m, {"work", "answer"}) # {} =>
              \A n \in 1 .. MaxDeliveries[m] :
                  thread'[<<m, n>>] = "work" => thread[<<m, n>>] = "work"]_operatorVars

\* A message whose id was recorded gets its answer, unless the bot died since:
\* no wait for the chat's turn is for ever (bot_server.py:197).
MessagesAreAnswered ==
    \A m \in Message : m \in seen ~> m \in answered \cup dropped

\* A proposal that was made stays on the desk or in an archive, whoever
\* decides, audits or is killed at the same time (apply_proposal.py:294, 366).
NoProposalIsLost == [][\A p \in Submission : Submitted(p) => Submitted(p)']_operatorVars

\* register_skill activates a draft only on an approval which is the last word
\* said of it; a rejection is passed over only where a stale copy of the file
\* was written over it meanwhile (skill_review.py:150-160).
ActivatedOnApproval ==
    [][\A d \in Draft : waiter[d] # "activated" /\ waiter'[d] = "activated"
          => said[d] = "approved" \/ overwritten[d]]_operatorVars
=============================================================================
