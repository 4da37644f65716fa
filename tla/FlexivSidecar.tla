---------------------------- MODULE FlexivSidecar ----------------------------
(***************************************************************************)
(* embodiment/arm/flexiv: the sidecar process that owns the connection to  *)
(* one Flexiv arm, the operators that start and end it, and its clients.   *)
(*                                                                         *)
(* An operator starts a sidecar when the pid file names no live process,   *)
(* and waits for its socket; it ends one by SIGTERM and, after a grace     *)
(* period, SIGKILL.  A sidecar takes the arm, writes its pid file, binds   *)
(* its socket and serves; its handlers run one at a time, in the order in  *)
(* which they asked for the request lock, whether or not the client still  *)
(* waits.  Asked to end, it stops accepting, lets its connections finish   *)
(* (Python 3.12's wait_closed), stops the arm and removes its files.       *)
(*                                                                         *)
(* The arm is external: it moves until it reaches the last target it was   *)
(* sent, is stopped, or never arrives.  Poses are not modelled, only whose *)
(* target the arm follows.  A pid is not reused, and a dead child is       *)
(* reaped.  Requests that move nothing (state, gripper, lists) are "read"; *)
(* ping and unknown actions, answered without the lock, are left out.      *)
(***************************************************************************)
EXTENDS Naturals, Sequences, FiniteSets

CONSTANTS
    Operator,   \* who runs connect and disconnect
    Client,     \* who calls
    Action,     \* the actions clients call for
    SlowBoots,  \* a sidecar may take longer to start than the 5 s it is given
    MaxPids,    \* bound: sidecars started
    MaxCalls,   \* bound: calls of a client
    MaxCrashes  \* bound: sidecars that die by themselves

ASSUME FlexivAssumption ==
    /\ Action \subseteq {"move", "descend", "grasp", "stop", "read", "shutdown"}
    /\ SlowBoots \in BOOLEAN
    /\ {MaxPids, MaxCalls} \subseteq Nat \ {0} /\ MaxCrashes \in Nat

Pid == 1 .. MaxPids
NoPid == 0
Request == Client \X (1 .. MaxCalls)
NoRequest == <<>>

VARIABLES
    sockFile,  \* <alias>.sock: whose listener the path leads to
    pidFile,   \* <alias>.pid
    opc,       \* where an operator stands in spawn_sidecar, terminate_sidecar
    child,     \* the process it started or signalled
    stage,     \* per pid, where the sidecar stands
    asked,     \* per pid, _shutdown
    waiters,   \* per pid, the requests that hold or await _request_lock
    status,    \* per request, how far it got
    action,    \* req.action
    at,        \* the sidecar it was sent to
    legs,      \* the motions its handler has still to command
    calls,     \* calls of a client so far
    calling,   \* the client still waits for its last call's answer
    arm,       \* whose target the arm follows, and whether it moves
    crashes    \* history: sidecars that died by themselves

fileVars == <<sockFile, pidFile>>
operatorVars == <<opc, child>>
requestVars == <<status, action, at, legs>>
clientVars == <<calls, calling>>
flexVars == <<fileVars, operatorVars, stage, asked, waiters, requestVars,
              clientVars, arm, crashes>>

Alive(p) == p # NoPid /\ stage[p] \notin {"unborn", "exited", "killed"}
Owns(p) == stage[p] \in {"owns", "named", "serving", "closing"}
Legs(a) == CASE a \in {"move", "descend"} -> 1 [] a = "grasp" -> 2 [] OTHER -> 0

\* Who waits for the lock was received by that sidecar, and waits there once.
QueueOK == \A p \in Pid : \A i \in DOMAIN waiters[p] :
    /\ at[waiters[p][i]] = p /\ status[waiters[p][i]] \in {"ready", "moving"}
    /\ \A j \in DOMAIN waiters[p] : waiters[p][i] = waiters[p][j] => i = j

FlexTypes ==
    /\ {sockFile, pidFile} \subseteq Pid \cup {NoPid}
    /\ opc \in [Operator -> {"idle", "spawn", "await", "grace", "cleanup"}]
    /\ child \in [Operator -> Pid \cup {NoPid}]
    /\ stage \in [Pid -> {"unborn", "booting", "owns", "named", "serving", "closing",
                          "freed", "unlinking", "exited", "killed"}]
    /\ asked \in [Pid -> BOOLEAN] /\ waiters \in [Pid -> Seq(Request)]
    /\ status \in [Request -> {"none", "sent", "ready", "moving", "ok", "error", "lost"}]
    /\ action \in [Request -> Action \cup {"none"}]
    /\ at \in [Request -> Pid \cup {NoPid}] /\ legs \in [Request -> 0 .. 2]
    /\ calls \in [Client -> 0 .. MaxCalls] /\ calling \in [Client -> BOOLEAN]
    /\ arm \in [by : Request \cup {NoRequest}, moves : BOOLEAN]
    /\ crashes \in 0 .. MaxCrashes

FlexTypeOK == FlexTypes /\ QueueOK

FlexInit ==
    /\ sockFile = NoPid /\ pidFile = NoPid
    /\ opc = [o \in Operator |-> "idle"] /\ child = [o \in Operator |-> NoPid]
    /\ stage = [p \in Pid |-> "unborn"] /\ asked = [p \in Pid |-> FALSE]
    /\ waiters = [p \in Pid |-> <<>>]
    /\ status = [r \in Request |-> "none"] /\ action = [r \in Request |-> "none"]
    /\ at = [r \in Request |-> NoPid] /\ legs = [r \in Request |-> 0]
    /\ calls = [c \in Client |-> 0] /\ calling = [c \in Client |-> FALSE]
    /\ arm = [by |-> NoRequest, moves |-> FALSE] /\ crashes = 0

Goes(o, from, to) == opc[o] = from /\ opc' = [opc EXCEPT ![o] = to]
Becomes(p, from, to) == stage[p] = from /\ stage' = [stage EXCEPT ![p] = to]
Last(c) == <<c, calls[c]>>
-----------------------------------------------------------------------------
(***************************************************************************)
(* Operators: lifecycle.py.                                                *)
(***************************************************************************)
SidecarRunning == Alive(pidFile)

\* The check of a connect; a sidecar that runs is an error.
SpawnChecks(o) ==
    /\ ~SidecarRunning
    /\ \E p \in Pid : stage[p] = "unborn"
    /\ Goes(o, "idle", "spawn")
    /\ UNCHANGED <<fileVars, child, stage, asked, waiters, requestVars, clientVars, arm, crashes>>

\* The rest of it: stale files go, and a sidecar is launched.
SpawnLaunches(o) ==
    /\ Goes(o, "spawn", "await")
    /\ \E p \in Pid :
          /\ \A q \in Pid : stage[q] = "unborn" => p <= q
          /\ Becomes(p, "unborn", "booting")
          /\ child' = [child EXCEPT ![o] = p]
    /\ sockFile' = NoPid /\ pidFile' = NoPid
    /\ UNCHANGED <<asked, waiters, requestVars, clientVars, arm, crashes>>

WaitForSocket(o) ==
    /\ Goes(o, "await", "idle")
    /\ sockFile # NoPid
    /\ child' = [child EXCEPT ![o] = NoPid]
    /\ UNCHANGED <<fileVars, stage, asked, waiters, requestVars, clientVars, arm, crashes>>

WaitForSocketTimesOut(o) ==
    /\ Goes(o, "await", "idle")
    /\ sockFile = NoPid
    /\ SlowBoots \/ ~Alive(child[o])
    /\ child' = [child EXCEPT ![o] = NoPid]
    /\ UNCHANGED <<fileVars, stage, asked, waiters, requestVars, clientVars, arm, crashes>>

\* terminate_sidecar finds nothing that runs.
TerminateNothing(o) ==
    /\ opc[o] = "idle" /\ ~SidecarRunning
    /\ <<sockFile, pidFile>> # <<NoPid, NoPid>>
    /\ sockFile' = NoPid /\ pidFile' = NoPid
    /\ UNCHANGED <<operatorVars, stage, asked, waiters, requestVars, clientVars, arm, crashes>>

TerminateAsks(o) ==
    /\ SidecarRunning
    /\ Goes(o, "idle", "grace")
    /\ child' = [child EXCEPT ![o] = pidFile]
    /\ asked' = [asked EXCEPT ![pidFile] = TRUE]
    /\ UNCHANGED <<fileVars, stage, waiters, requestVars, clientVars, arm, crashes>>

\* A process that dies loses its requests, and no one stops the arm.
Dies(p) ==
    /\ stage' = [stage EXCEPT ![p] = "killed"]
    /\ waiters' = [waiters EXCEPT ![p] = <<>>]
    /\ status' = [r \in Request |->
                     IF at[r] = p /\ status[r] \in {"sent", "ready", "moving"}
                     THEN "lost" ELSE status[r]]
    /\ action' = [r \in Request |-> IF at[r] = p THEN "none" ELSE action[r]]
    /\ legs' = [r \in Request |-> IF at[r] = p THEN 0 ELSE legs[r]]

TerminateKills(o) ==
    /\ Goes(o, "grace", "cleanup")
    /\ Alive(child[o])
    /\ Dies(child[o])
    /\ UNCHANGED <<fileVars, child, asked, at, clientVars, arm, crashes>>

TerminateSeesItGone(o) ==
    /\ Goes(o, "grace", "cleanup")
    /\ ~Alive(child[o])
    /\ UNCHANGED <<fileVars, child, stage, asked, waiters, requestVars, clientVars, arm, crashes>>

CleanupFiles(o) ==
    /\ Goes(o, "cleanup", "idle")
    /\ sockFile' = NoPid /\ pidFile' = NoPid
    /\ child' = [child EXCEPT ![o] = NoPid]
    /\ UNCHANGED <<stage, asked, waiters, requestVars, clientVars, arm, crashes>>
-----------------------------------------------------------------------------
(***************************************************************************)
(* The sidecar's life: session/server.py.                                  *)
(***************************************************************************)
sidecarKeeps == <<operatorVars, clientVars, action, at, legs, crashes>>

\* RdkAdapter enables the arm and binds the gripper.
TakeArm(p) ==
    /\ Becomes(p, "booting", "owns")
    /\ UNCHANGED <<fileVars, asked, waiters, status, arm, sidecarKeeps>>

WritePid(p) ==
    /\ Becomes(p, "owns", "named")
    /\ pidFile' = p
    /\ UNCHANGED <<sockFile, asked, waiters, status, arm, sidecarKeeps>>

Bind(p) ==
    /\ Becomes(p, "named", "serving")
    /\ sockFile' = p
    /\ UNCHANGED <<pidFile, asked, waiters, status, arm, sidecarKeeps>>

\* Mutant: a sidecar that is to end takes its name off first.
StopAcceptingUnnamed(p) ==
    /\ asked[p]
    /\ Becomes(p, "serving", "closing")
    /\ pidFile' = NoPid
    /\ UNCHANGED <<sockFile, asked, waiters, status, arm, sidecarKeeps>>

StopAccepting(p) ==
    /\ asked[p]
    /\ Becomes(p, "serving", "closing")
    /\ UNCHANGED <<fileVars, asked, waiters, status, arm, sidecarKeeps>>

\* wait_closed: every connection has ended.
Quiet(p) ==
    /\ \A r \in Request : at[r] = p => status[r] \notin {"sent", "ready", "moving"}
    /\ \A c \in Client : calling[c] => at[Last(c)] # p

\* Mutant: the arm is let go as it is.
LetGo(p) ==
    /\ Quiet(p)
    /\ Becomes(p, "closing", "freed")
    /\ UNCHANGED <<fileVars, asked, waiters, status, arm, sidecarKeeps>>

StopArm(p) ==
    /\ Quiet(p)
    /\ Becomes(p, "closing", "freed")
    /\ arm' = [arm EXCEPT !.moves = FALSE]
    /\ UNCHANGED <<fileVars, asked, waiters, status, sidecarKeeps>>

\* Mutant: the pid file goes first.
UnlinkPidFirst(p) ==
    /\ \/ Becomes(p, "freed", "unlinking") /\ pidFile' = NoPid /\ UNCHANGED sockFile
       \/ Becomes(p, "unlinking", "exited") /\ sockFile' = NoPid /\ UNCHANGED pidFile
    /\ UNCHANGED <<asked, waiters, status, arm, sidecarKeeps>>

\* The socket goes first.
UnlinkFiles(p) ==
    /\ \/ Becomes(p, "freed", "unlinking") /\ sockFile' = NoPid /\ UNCHANGED pidFile
       \/ Becomes(p, "unlinking", "exited") /\ pidFile' = NoPid /\ UNCHANGED sockFile
    /\ UNCHANGED <<asked, waiters, status, arm, sidecarKeeps>>

Crash(p) ==
    /\ crashes < MaxCrashes
    /\ Alive(p) /\ Dies(p)
    /\ crashes' = crashes + 1
    /\ UNCHANGED <<fileVars, operatorVars, asked, at, clientVars, arm>>
-----------------------------------------------------------------------------
(***************************************************************************)
(* Clients and handlers: client.py, session/server.py, session/handlers.py.*)
(***************************************************************************)
handlerKeeps == <<fileVars, operatorVars, stage, crashes>>

\* A connection is made and the request is written to it.
Call(c) ==
    /\ ~calling[c] /\ calls[c] < MaxCalls
    /\ SidecarRunning
    /\ sockFile # NoPid /\ stage[sockFile] = "serving"
    /\ calls' = [calls EXCEPT ![c] = @ + 1]
    /\ calling' = [calling EXCEPT ![c] = TRUE]
    /\ LET r == <<c, calls[c] + 1>> IN
          \E a \in Action :
             /\ action' = [action EXCEPT ![r] = a]
             /\ at' = [at EXCEPT ![r] = sockFile]
             /\ status' = [status EXCEPT ![r] = "sent"]
    /\ UNCHANGED <<handlerKeeps, asked, waiters, legs, arm>>

\* The answer is read, or the end of the connection.
Answered(c) ==
    /\ calling[c]
    /\ status[Last(c)] \in {"ok", "error", "lost"}
    /\ calling' = [calling EXCEPT ![c] = FALSE]
    /\ UNCHANGED <<handlerKeeps, asked, waiters, requestVars, calls, arm>>

\* 60 s have passed; what was asked for goes on.
CallTimesOut(c) ==
    /\ calling[c]
    /\ status[Last(c)] \in {"sent", "ready", "moving"}
    /\ calling' = [calling EXCEPT ![c] = FALSE]
    /\ UNCHANGED <<handlerKeeps, asked, waiters, requestVars, calls, arm>>

Forget(r) ==
    /\ action' = [action EXCEPT ![r] = "none"]
    /\ legs' = [legs EXCEPT ![r] = 0]

\* A line is read: a shutdown is answered, any other action asks for the lock.
Receive(r) ==
    /\ status[r] = "sent" /\ stage[at[r]] \in {"serving", "closing"}
    /\ IF action[r] = "shutdown"
       THEN /\ status' = [status EXCEPT ![r] = "ok"]
            /\ asked' = [asked EXCEPT ![at[r]] = TRUE]
            /\ Forget(r) /\ UNCHANGED waiters
       ELSE /\ status' = [status EXCEPT ![r] = "ready"]
            /\ waiters' = [waiters EXCEPT ![at[r]] = Append(@, r)]
            /\ legs' = [legs EXCEPT ![r] = Legs(action[r])]
            /\ UNCHANGED <<asked, action>>
    /\ UNCHANGED <<handlerKeeps, at, clientVars, arm>>

\* The listener closes before the connection was accepted.
Reset(r) ==
    /\ status[r] = "sent" /\ stage[at[r]] = "closing"
    /\ status' = [status EXCEPT ![r] = "lost"] /\ Forget(r)
    /\ UNCHANGED <<handlerKeeps, asked, waiters, at, clientVars, arm>>

Holds(r) == at[r] # NoPid /\ waiters[at[r]] # <<>> /\ Head(waiters[at[r]]) = r
Handler(r, from) == Holds(r) /\ status[r] = from

\* The handler returns or raises, and the lock is free for the next.
Ends(r, how) ==
    /\ status' = [status EXCEPT ![r] = how]
    /\ waiters' = [waiters EXCEPT ![at[r]] = Tail(@)]
    /\ Forget(r)

\* adapter.move_joint, move_tcp, run_primitive
Command(r) ==
    /\ Handler(r, "ready") /\ legs[r] > 0
    /\ status' = [status EXCEPT ![r] = "moving"]
    /\ legs' = [legs EXCEPT ![r] = @ - 1]
    /\ arm' = [by |-> r, moves |-> TRUE]
    /\ UNCHANGED <<handlerKeeps, asked, waiters, action, at, clientVars>>

\* An action without a motion; a stop stops the arm.
Act(r) ==
    /\ Handler(r, "ready") /\ legs[r] = 0
    /\ Ends(r, "ok")
    /\ arm' = [arm EXCEPT !.moves = @ /\ action[r] # "stop"]
    /\ UNCHANGED <<handlerKeeps, asked, at, clientVars>>

\* The pose asked for is reached; a grasp has a second motion.
Reached(r) ==
    /\ Handler(r, "moving")
    /\ arm = [by |-> r, moves |-> FALSE]
    /\ IF legs[r] > 0
       THEN status' = [status EXCEPT ![r] = "ready"] /\ UNCHANGED <<waiters, action, legs>>
       ELSE Ends(r, "ok")
    /\ UNCHANGED <<handlerKeeps, asked, at, clientVars, arm>>

\* A descent feels the table.
Contact(r) ==
    /\ Handler(r, "moving") /\ action[r] = "descend"
    /\ Ends(r, "ok")
    /\ arm' = [arm EXCEPT !.moves = FALSE]
    /\ UNCHANGED <<handlerKeeps, asked, at, clientVars>>

\* Mutant: no deadline.
WaitsForEver(r) == FALSE /\ UNCHANGED flexVars

\* The deadline of a motion: only a descent stops the arm.
MotionTimesOut(r) ==
    /\ Handler(r, "moving")
    /\ Ends(r, "error")
    /\ arm' = [arm EXCEPT !.moves = @ /\ action[r] # "descend"]
    /\ UNCHANGED <<handlerKeeps, asked, at, clientVars>>

\* Bad parameters, or an error of the arm's library, which ends the connection.
Raises(r) ==
    /\ Handler(r, "ready")
    /\ Ends(r, "error")
    /\ UNCHANGED <<handlerKeeps, asked, at, clientVars, arm>>

ArmArrives ==
    /\ arm.moves
    /\ arm' = [arm EXCEPT !.moves = FALSE]
    /\ UNCHANGED <<handlerKeeps, asked, waiters, requestVars, clientVars>>
-----------------------------------------------------------------------------
OperatorStep(o) ==
    \/ SpawnChecks(o) \/ SpawnLaunches(o) \/ WaitForSocket(o) \/ WaitForSocketTimesOut(o)
    \/ TerminateNothing(o) \/ TerminateAsks(o) \/ TerminateKills(o)
    \/ TerminateSeesItGone(o) \/ CleanupFiles(o)
SidecarStep(p) ==
    \/ TakeArm(p) \/ WritePid(p) \/ Bind(p) \/ StopAccepting(p)
    \/ StopArm(p) \/ UnlinkFiles(p)
RequestStep(r) ==
    \/ Receive(r) \/ Reset(r) \/ Command(r) \/ Act(r) \/ Reached(r)
    \/ Contact(r) \/ MotionTimesOut(r) \/ Raises(r)
ClientStep(c) == Answered(c) \/ CallTimesOut(c)

FlexNext ==
    \/ \E o \in Operator : OperatorStep(o)
    \/ \E p \in Pid : SidecarStep(p) \/ Crash(p)
    \/ \E r \in Request : RequestStep(r)
    \/ \E c \in Client : Call(c) \/ ClientStep(c)
    \/ ArmArrives

FlexSpec == FlexInit /\ [][FlexNext]_flexVars

\* A sidecar and its handlers, which poll against a deadline, run; a client's
\* call ends by its answer or its timeout.  The arm need not arrive.
FlexFairSpec ==
    /\ FlexSpec
    /\ \A p \in Pid : WF_flexVars(SidecarStep(p))
    /\ \A r \in Request : WF_flexVars(RequestStep(r))
    /\ \A c \in Client : WF_flexVars(ClientStep(c))
-----------------------------------------------------------------------------
\* One process at a time owns the arm (server.py:1, a single adapter): the check
\* of the pid file, the wait for the socket and the order in which a sidecar
\* gives up arm, socket and pid file keep a new one out, also after a crash.
OneOwner == \A p, q \in Pid : Owns(p) /\ Owns(q) => p = q

\* Actions are serialized (server.py:8): while a handler waits for its motion the
\* arm follows the target that handler sent, whatever the other clients, those
\* that gave up waiting and other sidecars do.
ActionsAreSerialized == \A r \in Request : status[r] = "moving" => arm.by = r

\* A sidecar that serves and was not asked to end can be reached: both files are
\* its own, whatever an earlier sidecar and its operator still clean up.
ServingIsReachable ==
    \A p \in Pid : stage[p] = "serving" => sockFile = p /\ (pidFile = p)

\* An arm that moves has the sidecar that moved it, or had one that was killed:
\* a sidecar that ends by itself leaves the arm at rest, after a handler that
\* timed out on a motion too.
MovingArmIsOwned ==
    arm.moves => Owns(at[arm.by]) \/ stage[at[arm.by]] = "killed"

\* A request that was received is answered or its sidecar dies, though the arm may
\* never arrive: no handler keeps the lock for ever.  A sidecar that was asked to
\* end does, by itself or killed.
NothingHangs ==
    /\ \A r \in Request : status[r] = "ready" ~> status[r] \in {"ok", "error", "lost"}
    /\ \A p \in Pid : asked[p] ~> stage[p] \in {"exited", "killed"}

=============================================================================
