------------------------- MODULE FlexivSidecarProofs -------------------------
(***************************************************************************)
(* For any number of operators, clients, calls, sidecars and crashes, and  *)
(* sidecars however slow to start: no sidecar ends by itself with the arm  *)
(* in motion, and requests and sidecars come to their ends.  With one      *)
(* operator whose sidecars start within the time they are given: one       *)
(* process owns the arm, a sidecar that serves can be reached, and the arm *)
(* follows the one handler that waits for it.                              *)
(*                                                                         *)
(* None of it is inductive alone.  That a new sidecar finds the arm free   *)
(* rests on what the files say of the live one at every point of its life, *)
(* and on where the operator stands meanwhile (FileInv); that a handler is *)
(* alone rests on the order in the queue of the lock (QueueInv).           *)
(***************************************************************************)
EXTENDS FlexivSidecar, TLAPS

Starting == {"booting", "owns", "named"}
Ending == {"closing", "freed", "unlinking"}

\* One sidecar is alive, and the files and the operator know of it.
FileInv ==
    /\ \A p, q \in Pid : Alive(p) /\ Alive(q) => p = q
    /\ \A p \in Pid :
          /\ stage[p] \in {"named", "serving"} \cup Ending => pidFile = p
          /\ stage[p] = "serving" => sockFile = p
          /\ stage[p] \in Starting => sockFile = NoPid
    /\ \A o \in Operator, p \in Pid :
          /\ stage[p] \in Starting => opc[o] = "await" /\ child[o] = p
          /\ opc[o] \in {"spawn", "cleanup"} => ~Alive(p)
          /\ opc[o] = "grace" /\ Alive(p) => child[o] = p

\* Who was received waits in the queue of a live sidecar, who waits for a motion
\* at its head.
QueueInv ==
    /\ QueueOK
    /\ \A r \in Request :
          /\ status[r] \in {"sent", "ready", "moving"} =>
                at[r] \in Pid /\ stage[at[r]] \in {"serving", "closing"}
          /\ status[r] \in {"ready", "moving"} =>
                \E i \in DOMAIN waiters[at[r]] : waiters[at[r]][i] = r
          /\ status[r] = "moving" => Holds(r)
          /\ status[r] = "none" <=> r[2] > calls[r[1]]

\* The arm follows a request that was made.
ArmInv ==
    /\ arm.moves => arm.by \in Request /\ status[arm.by] # "none"
    /\ MovingArmIsOwned

\* What holds for any number of operators, and what rests on there being one.
SInv == FlexTypes /\ QueueInv /\ ArmInv
FInv == SInv /\ FileInv /\ ActionsAreSerialized
-----------------------------------------------------------------------------
OneOperator == ~SlowBoots /\ \A o, q \in Operator : o = q

LEMMA Bounds ==
    ASSUME FlexivAssumption
    PROVE  /\ MaxPids \in Nat /\ MaxCalls \in Nat /\ MaxCrashes \in Nat
           /\ NoPid \notin Pid /\ Pid \subseteq Nat /\ NoRequest \notin Request
BY DEF FlexivAssumption, Pid, NoPid, Request, NoRequest

LEMMA LegsBound == ASSUME NEW a PROVE Legs(a) \in 0 .. 2
<1>1. CASE a \in {"move", "descend"}
  BY <1>1 DEF Legs
<1>2. CASE a = "grasp"
  BY <1>2 DEF Legs
<1>3. CASE a \notin {"move", "descend", "grasp"}
  BY <1>3 DEF Legs
<1> QED  BY <1>1, <1>2, <1>3

\* A handler's end, and a process's, keep the types of what they touch.
LEMMA EndsTypes ==
    ASSUME FlexTypes, NEW r \in Request, Holds(r), NEW how \in {"ok", "error"}, Ends(r, how)
    PROVE  /\ status' \in [Request -> {"none", "sent", "ready", "moving", "ok", "error", "lost"}]
           /\ waiters' \in [Pid -> Seq(Request)]
           /\ action' \in [Request -> Action \cup {"none"}]
           /\ legs' \in [Request -> 0 .. 2]
<1>1. Tail(waiters[at[r]]) \in Seq(Request)
  <2>1. at[r] \in Pid /\ waiters[at[r]] \in Seq(Request) /\ waiters[at[r]] # <<>>
    BY DEF FlexTypes, Holds
  <2> QED  BY <2>1
<1>2. waiters' \in [Pid -> Seq(Request)]
  BY <1>1 DEF FlexTypes, Ends
<1> QED  BY <1>2 DEF FlexTypes, Ends, Forget

LEMMA DiesTypes ==
    ASSUME FlexTypes, NEW p \in Pid, Dies(p)
    PROVE  /\ stage' = [stage EXCEPT ![p] = "killed"]
           /\ status' \in [Request -> {"none", "sent", "ready", "moving", "ok", "error", "lost"}]
           /\ waiters' \in [Pid -> Seq(Request)]
           /\ action' \in [Request -> Action \cup {"none"}]
           /\ legs' \in [Request -> 0 .. 2]
<1>1. <<>> \in Seq(Request)
  OBVIOUS
<1>2. waiters' \in [Pid -> Seq(Request)]
  BY <1>1 DEF FlexTypes, Dies
<1> QED  BY <1>2 DEF FlexTypes, Dies

\* The types, over the steps of an operator, a sidecar, a request, a client.
LEMMA OperatorTypes ==
    ASSUME FlexivAssumption, SInv,
           NEW o \in Operator, OperatorStep(o)
    PROVE  FlexTypes'
<1> USE Bounds DEF SInv, FlexTypes, Goes, Becomes, fileVars, operatorVars, requestVars, clientVars
<1>1. CASE SpawnChecks(o)
  BY <1>1 DEF SpawnChecks
<1>2. CASE SpawnLaunches(o)
  BY <1>2 DEF SpawnLaunches
<1>3. CASE WaitForSocket(o)
  BY <1>3 DEF WaitForSocket
<1>4. CASE WaitForSocketTimesOut(o)
  BY <1>4 DEF WaitForSocketTimesOut
<1>5. CASE TerminateNothing(o)
  BY <1>5 DEF TerminateNothing
<1>6. CASE TerminateAsks(o)
  BY <1>6 DEF TerminateAsks
<1>7. CASE TerminateKills(o)
  <2>1. child[o] \in Pid
    BY <1>7 DEF TerminateKills, Alive
  <2>2. Dies(child[o])
    BY <1>7 DEF TerminateKills
  <2>3. /\ stage' = [stage EXCEPT ![child[o]] = "killed"]
        /\ status' \in [Request -> {"none", "sent", "ready", "moving", "ok", "error", "lost"}]
        /\ waiters' \in [Pid -> Seq(Request)]
        /\ action' \in [Request -> Action \cup {"none"}]
        /\ legs' \in [Request -> 0 .. 2]
    BY <2>1, <2>2, DiesTypes
  <2> QED  BY <1>7, <2>1, <2>3 DEF TerminateKills
<1>8. CASE TerminateSeesItGone(o)
  BY <1>8 DEF TerminateSeesItGone
<1>9. CASE CleanupFiles(o)
  BY <1>9 DEF CleanupFiles
<1> QED  BY <1>1, <1>2, <1>3, <1>4, <1>5, <1>6, <1>7, <1>8, <1>9 DEF OperatorStep

LEMMA SidecarTypes ==
    ASSUME FlexivAssumption, SInv,
           NEW p \in Pid, SidecarStep(p) \/ Crash(p)
    PROVE  FlexTypes'
<1> USE Bounds DEF SInv, FlexTypes, Goes, Becomes, fileVars, operatorVars, requestVars,
        clientVars, sidecarKeeps
<1>1. CASE TakeArm(p)
  BY <1>1 DEF TakeArm
<1>2. CASE WritePid(p)
  BY <1>2 DEF WritePid
<1>3. CASE Bind(p)
  BY <1>3 DEF Bind
<1>4. CASE StopAccepting(p)
  BY <1>4 DEF StopAccepting
<1>5. CASE StopArm(p)
  BY <1>5 DEF StopArm
<1>6. CASE UnlinkFiles(p)
  <2>1. {sockFile', pidFile'} \subseteq Pid \cup {NoPid}
    BY <1>6 DEF UnlinkFiles
  <2>2. \E to \in {"unlinking", "exited"} : stage' = [stage EXCEPT ![p] = to]
    BY <1>6 DEF UnlinkFiles
  <2> QED  BY <1>6, <2>1, <2>2 DEF UnlinkFiles
<1>7. CASE Crash(p)
  <2>1. /\ stage' = [stage EXCEPT ![p] = "killed"]
        /\ status' \in [Request -> {"none", "sent", "ready", "moving", "ok", "error", "lost"}]
        /\ waiters' \in [Pid -> Seq(Request)]
        /\ action' \in [Request -> Action \cup {"none"}]
        /\ legs' \in [Request -> 0 .. 2]
    BY <1>7, DiesTypes DEF Crash
  <2> QED  BY <1>7, <2>1 DEF Crash
<1> QED  BY <1>1, <1>2, <1>3, <1>4, <1>5, <1>6, <1>7 DEF SidecarStep

LEMMA RequestTypes ==
    ASSUME FlexivAssumption, SInv,
           NEW r \in Request, RequestStep(r)
    PROVE  FlexTypes'
<1> USE Bounds DEF SInv, FlexTypes, Goes, Becomes, fileVars, operatorVars, requestVars,
        clientVars, handlerKeeps
<1>1. CASE Receive(r)
  <2>1. at[r] \in Pid /\ Legs(action[r]) \in 0 .. 2
    BY <1>1, LegsBound DEF Receive, QueueInv
  <2>2. Append(waiters[at[r]], r) \in Seq(Request)
    BY <2>1
  <2>3. waiters' \in [Pid -> Seq(Request)]
    <3>1. waiters' = waiters \/ waiters' = [waiters EXCEPT ![at[r]] = Append(waiters[at[r]], r)]
      BY <1>1 DEF Receive
    <3> HIDE DEF SInv, Goes, Becomes
    <3>2. waiters \in [Pid -> Seq(Request)]
      BY DEF SInv
    <3> QED BY <2>1, <2>2, <3>1, <3>2
  <2>4. \E n \in 0 .. 2 : legs' = [legs EXCEPT ![r] = n]
    BY <1>1, <2>1 DEF Receive, Forget
  <2>5. action' \in {action, [action EXCEPT ![r] = "none"]}
    BY <1>1 DEF Receive, Forget
  <2>6. \E to \in {"ready", "ok"} : status' = [status EXCEPT ![r] = to]
    BY <1>1 DEF Receive
  <2>7. asked' \in [Pid -> BOOLEAN]
    <3>1. asked' \in {asked, [asked EXCEPT ![at[r]] = TRUE]}
      BY <1>1 DEF Receive
    <3>2. asked \in [Pid -> BOOLEAN]
      OBVIOUS
    <3> HIDE DEF SInv, FlexTypes
    <3> QED BY <2>1, <3>1, <3>2
  <2>8. legs' \in [Request -> 0 .. 2]
    BY <2>4
  <2>9. action' \in [Request -> Action \cup {"none"}]
    BY <2>5
  <2>10. status' \in [Request -> {"none", "sent", "ready", "moving", "ok", "error", "lost"}]
    BY <2>6
  <2> QED  BY <1>1, <2>3, <2>7, <2>8, <2>9, <2>10 DEF Receive
<1>2. CASE Reset(r)
  BY <1>2 DEF Reset, Forget
<1>3. CASE Command(r)
  <2>1. legs[r] - 1 \in 0 .. 2
    BY <1>3 DEF Command
  <2>2. legs' \in [Request -> 0 .. 2]
    BY <1>3, <2>1 DEF Command
  <2>3. arm' \in [by : Request \cup {NoRequest}, moves : BOOLEAN]
    BY <1>3 DEF Command
  <2> QED  BY <1>3, <2>2, <2>3 DEF Command
<1>4. CASE Act(r)
  <2>1. arm' \in [by : Request \cup {NoRequest}, moves : BOOLEAN]
    BY <1>4 DEF Act
  <2> QED  BY <1>4, <2>1, EndsTypes DEF Act, Handler
<1>5. CASE Reached(r)
  <2>1. CASE legs[r] > 0
    <3>1. /\ status' = [status EXCEPT ![r] = "ready"]
          /\ UNCHANGED <<waiters, action, legs, asked, at, clientVars, arm, handlerKeeps>>
      BY <1>5, <2>1 DEF Reached
    <3> QED  BY <3>1
  <2>2. CASE ~(legs[r] > 0)
    BY <1>5, <2>2, EndsTypes DEF Reached, Handler
  <2> QED  BY <2>1, <2>2
<1>6. CASE Contact(r)
  <2>1. arm' \in [by : Request \cup {NoRequest}, moves : BOOLEAN]
    BY <1>6 DEF Contact
  <2> QED  BY <1>6, <2>1, EndsTypes DEF Contact, Handler
<1>7. CASE MotionTimesOut(r)
  <2>1. arm' \in [by : Request \cup {NoRequest}, moves : BOOLEAN]
    BY <1>7 DEF MotionTimesOut
  <2> QED  BY <1>7, <2>1, EndsTypes DEF MotionTimesOut, Handler
<1>8. CASE Raises(r)
  <2>1. arm' \in [by : Request \cup {NoRequest}, moves : BOOLEAN]
    BY <1>8 DEF Raises
  <2> QED  BY <1>8, <2>1, EndsTypes DEF Raises, Handler
<1> QED  BY <1>1, <1>2, <1>3, <1>4, <1>5, <1>6, <1>7, <1>8 DEF RequestStep

LEMMA ClientTypes ==
    ASSUME FlexivAssumption, SInv,
           NEW c \in Client, Call(c) \/ ClientStep(c)
    PROVE  FlexTypes'
<1> USE Bounds DEF SInv, FlexTypes, Goes, Becomes, fileVars, operatorVars, requestVars,
        clientVars, handlerKeeps
<1>1. CASE Call(c)
  <2> DEFINE r == <<c, calls[c] + 1>>
  <2>1. r \in Request /\ sockFile \in Pid
    BY <1>1 DEF Call, Request
  <2>2. /\ status' \in [Request -> {"none", "sent", "ready", "moving", "ok", "error", "lost"}]
        /\ action' \in [Request -> Action \cup {"none"}]
        /\ at' \in [Request -> Pid \cup {NoPid}]
    BY <1>1, <2>1 DEF Call
  <2>3. calls' \in [Client -> 0 .. MaxCalls] /\ calling' \in [Client -> BOOLEAN]
    BY <1>1 DEF Call
  <2> QED  BY <1>1, <2>2, <2>3 DEF Call
<1>2. CASE Answered(c)
  BY <1>2 DEF Answered
<1>3. CASE CallTimesOut(c)
  BY <1>3 DEF CallTimesOut
<1> QED  BY <1>1, <1>2, <1>3 DEF ClientStep

-----------------------------------------------------------------------------
\* Beside a live sidecar there is none.
LEMMA NoOther ==
    ASSUME FlexivAssumption, FInv, NEW p \in Pid, NEW q \in Pid, q # p,
           stage[p] \notin {"unborn", "exited", "killed"}
    PROVE  stage[q] \in {"unborn", "exited", "killed"}
<1>1. Alive(p)
  BY Bounds DEF Alive
<1>2. ~Alive(q)
  BY <1>1 DEF FInv, FileInv
<1> QED  BY <1>2, Bounds DEF Alive

\* A pid file that names no live process, to an operator at rest, says that
\* there is none.
LEMMA NoneRuns ==
    ASSUME FInv, NEW o \in Operator, opc[o] = "idle", ~SidecarRunning, NEW p \in Pid
    PROVE  ~Alive(p)
<1>1. stage[p] \notin Starting
  BY DEF FInv, SInv, FileInv
<1>2. stage[p] \in {"named", "serving"} \cup Ending => ~Alive(p)
  BY DEF FInv, SInv, FileInv, SidecarRunning
<1> QED  BY <1>1, <1>2 DEF FInv, SInv, FlexTypes, Alive, Starting, Ending

\* What the files say, over the steps of an operator and of a sidecar.
LEMMA OperatorFiles ==
    ASSUME FlexivAssumption, OneOperator, FInv,
           NEW o \in Operator, OperatorStep(o)
    PROVE  FileInv'
<1> USE Bounds DEF FInv, SInv, FlexTypes, FileInv, OneOperator, Alive, Starting, Ending, Goes,
        Becomes, fileVars, operatorVars, requestVars, clientVars, SidecarRunning
<1>1. CASE SpawnChecks(o)
  BY <1>1, NoneRuns DEF SpawnChecks
<1>2. CASE SpawnLaunches(o)
  <2>1. PICK p \in Pid : /\ stage' = [stage EXCEPT ![p] = "booting"]
                         /\ child' = [child EXCEPT ![o] = p]
    BY <1>2 DEF SpawnLaunches
  <2>2. opc' = [opc EXCEPT ![o] = "await"] /\ sockFile' = NoPid
    BY <1>2 DEF SpawnLaunches
  <2>3. \A q \in Pid : q # p => stage'[q] \in {"unborn", "exited", "killed"}
    BY <1>2, <2>1 DEF SpawnLaunches
  <2>4. stage'[p] = "booting" /\ child'[o] = p /\ opc'[o] = "await"
    BY <2>1, <2>2
  <2>5. \A q \in Operator : q = o
    OBVIOUS
  <2>6. \A q \in Pid : Alive(q)' => q = p
    BY <2>3
  <2> HIDE DEF FInv
  <2> QED  BY <2>2, <2>3, <2>4, <2>5, <2>6
<1>3. CASE WaitForSocket(o)
  BY <1>3 DEF WaitForSocket
<1>4. CASE WaitForSocketTimesOut(o)
  BY <1>4 DEF WaitForSocketTimesOut
<1>5. CASE TerminateNothing(o)
  BY <1>5 DEF TerminateNothing
<1>6. CASE TerminateAsks(o)
  BY <1>6 DEF TerminateAsks
<1>7. CASE TerminateKills(o)
  BY <1>7 DEF TerminateKills, Dies
<1>8. CASE TerminateSeesItGone(o)
  BY <1>8 DEF TerminateSeesItGone
<1>9. CASE CleanupFiles(o)
  BY <1>9 DEF CleanupFiles
<1> QED  BY <1>1, <1>2, <1>3, <1>4, <1>5, <1>6, <1>7, <1>8, <1>9 DEF OperatorStep

LEMMA SidecarFiles ==
    ASSUME FlexivAssumption, OneOperator, FInv,
           NEW p \in Pid, SidecarStep(p) \/ Crash(p)
    PROVE  FileInv'
<1> USE Bounds DEF FInv, SInv, FlexTypes, FileInv, OneOperator, Alive, Starting, Ending, Goes,
        Becomes, fileVars, operatorVars, requestVars, clientVars, sidecarKeeps
<1>1. CASE TakeArm(p)
  BY <1>1 DEF TakeArm
<1>2. CASE WritePid(p)
  <2>1. \A q \in Pid : q # p => stage[q] \in {"unborn", "exited", "killed"}
    BY <1>2, NoOther DEF WritePid
  <2>2. stage' = [stage EXCEPT ![p] = "named"]
    BY <1>2 DEF WritePid
  <2>3. stage'[p] = "named" /\ \A q \in Pid : q # p => stage'[q] \in {"unborn", "exited", "killed"}
    BY <2>1, <2>2
  <2>4. pidFile' = p /\ UNCHANGED <<sockFile, opc, child>>
    BY <1>2 DEF WritePid
  <2>5. /\ sockFile = NoPid
        /\ stage[p] = "named" => pidFile = p
        /\ \A o \in Operator : opc[o] = "await" /\ child[o] = p
    BY <1>2 DEF WritePid
  <2> HIDE DEF FInv, FlexTypes
  <2> QED  BY <1>2, <2>3, <2>4, <2>5 DEF WritePid
<1>3. CASE Bind(p)
  <2>1. \A q \in Pid : q # p => stage[q] \in {"unborn", "exited", "killed"}
    BY <1>3, NoOther DEF Bind
  <2>2. stage' = [stage EXCEPT ![p] = "serving"]
    BY <1>3 DEF Bind
  <2>3. stage'[p] = "serving" /\ \A q \in Pid : q # p => stage'[q] \in {"unborn", "exited", "killed"}
    BY <2>1, <2>2
  <2>4. sockFile' = p /\ UNCHANGED <<pidFile, opc, child>>
    BY <1>3 DEF Bind
  <2>5. /\ sockFile = NoPid
        /\ stage[p] = "named" => pidFile = p
        /\ \A o \in Operator : opc[o] = "await" /\ child[o] = p
    BY <1>3 DEF Bind
  <2> HIDE DEF FInv, FlexTypes
  <2> QED  BY <1>3, <2>3, <2>4, <2>5 DEF Bind
<1>4. CASE StopAccepting(p)
  BY <1>4 DEF StopAccepting
<1>5. CASE StopArm(p)
  BY <1>5 DEF StopArm
<1>6. CASE UnlinkFiles(p)
  <2>1. \A q \in Pid : q # p => stage[q] \in {"unborn", "exited", "killed"}
    BY <1>6, NoOther DEF UnlinkFiles
  <2>2. CASE Becomes(p, "freed", "unlinking") /\ UNCHANGED pidFile
    BY <1>6, <2>1, <2>2 DEF UnlinkFiles
  <2>3. CASE Becomes(p, "unlinking", "exited")
    BY <1>6, <2>1, <2>3 DEF UnlinkFiles
  <2> QED  BY <1>6, <2>2, <2>3 DEF UnlinkFiles
<1>7. CASE Crash(p)
  BY <1>7 DEF Crash, Dies
<1> QED  BY <1>1, <1>2, <1>3, <1>4, <1>5, <1>6, <1>7 DEF SidecarStep

-----------------------------------------------------------------------------
\* A process that dies leaves no one waiting.
LEMMA DiesQueue ==
    ASSUME FlexivAssumption, SInv, NEW p \in Pid, Dies(p), UNCHANGED <<at, calls, arm>>
    PROVE  QueueInv' /\ ArmInv'
<1>1. QueueOK'
  BY DEF SInv, FlexTypes, QueueInv, QueueOK, Dies
<1>2. \A r \in Request :
         /\ status'[r] \in {"sent", "ready", "moving"} =>
               at'[r] \in Pid /\ stage'[at'[r]] \in {"serving", "closing"}
         /\ status'[r] \in {"ready", "moving"} =>
               \E i \in DOMAIN waiters'[at'[r]] : waiters'[at'[r]][i] = r
         /\ status'[r] = "moving" => Holds(r)'
         /\ status'[r] = "none" <=> r[2] > calls'[r[1]]
  BY DEF SInv, FlexTypes, QueueInv, Holds, Dies
<1>3. ArmInv'
  BY Bounds DEF SInv, FlexTypes, ArmInv, MovingArmIsOwned, Owns, Dies
<1> QED  BY <1>1, <1>2, <1>3 DEF QueueInv

\* The end of the handler at the head of the queue.
LEMMA EndsQueue ==
    ASSUME FlexivAssumption, SInv, NEW r \in Request, Holds(r), status[r] \in {"ready", "moving"},
           NEW how \in {"ok", "error"}, Ends(r, how),
           UNCHANGED <<stage, at, calls>>, arm'.by = arm.by, arm'.moves => arm.moves
    PROVE  QueueInv' /\ ArmInv'
<1> DEFINE p == at[r]
           w == waiters[p]
<1>1. p \in Pid /\ w \in Seq(Request) /\ w # <<>> /\ w[1] = r
  BY DEF SInv, FlexTypes, QueueInv, Holds
<1>2. /\ waiters' = [waiters EXCEPT ![p] = Tail(w)]
      /\ status' = [status EXCEPT ![r] = how]
  BY DEF Ends
<1>3. \A i \in DOMAIN Tail(w) : Tail(w)[i] = w[i + 1] /\ i + 1 \in DOMAIN w /\ i + 1 # 1
  BY <1>1
<1>4. \A i \in DOMAIN w : i # 1 => w[i] # r
  <2>1. 1 \in DOMAIN w
    BY <1>1
  <2> QED  BY <1>1, <2>1 DEF SInv, QueueInv, QueueOK
<1>5. QueueOK'
  <2>1. SUFFICES ASSUME NEW q \in Pid, NEW i \in DOMAIN waiters'[q]
                 PROVE  /\ at'[waiters'[q][i]] = q /\ status'[waiters'[q][i]] \in {"ready", "moving"}
                        /\ \A j \in DOMAIN waiters'[q] :
                              waiters'[q][i] = waiters'[q][j] => i = j
    BY DEF QueueOK
  <2>2. CASE q = p
    <3>1. waiters'[q] = Tail(w)
      BY <1>1, <1>2, <2>2 DEF SInv, FlexTypes
    <3>2. /\ at[w[i + 1]] = p /\ status[w[i + 1]] \in {"ready", "moving"}
          /\ \A k \in DOMAIN w : w[i + 1] = w[k] => i + 1 = k
      BY <1>1, <1>3, <2>1, <3>1 DEF SInv, QueueInv, QueueOK
    <3>3. w[i + 1] # r /\ w[i + 1] \in Request
      BY <1>1, <1>3, <1>4, <2>1, <3>1
    <3>4. \A j \in DOMAIN Tail(w) : Tail(w)[i] = Tail(w)[j] => i + 1 = j + 1
      BY <1>3, <2>1, <3>1, <3>2
    <3>5. \A j \in DOMAIN Tail(w) : i \in Nat /\ j \in Nat
      BY <1>1, <2>1, <3>1
    <3> QED  BY <1>2, <1>3, <2>1, <2>2, <3>1, <3>2, <3>3, <3>4, <3>5 DEF SInv, FlexTypes
  <2>3. CASE q # p
    <3>1. waiters'[q] = waiters[q]
      BY <1>2, <2>3 DEF SInv, FlexTypes
    <3>2. /\ at[waiters[q][i]] = q /\ status[waiters[q][i]] \in {"ready", "moving"}
          /\ \A j \in DOMAIN waiters[q] : waiters[q][i] = waiters[q][j] => i = j
      BY <3>1 DEF SInv, QueueInv, QueueOK
    <3>3. waiters[q][i] # r
      BY <2>3, <3>2
    <3> QED  BY <1>2, <3>1, <3>2, <3>3 DEF SInv, FlexTypes
  <2> QED  BY <2>2, <2>3
<1>6. \A q \in Request :
         /\ status'[q] \in {"sent", "ready", "moving"} =>
               at'[q] \in Pid /\ stage'[at'[q]] \in {"serving", "closing"}
         /\ status'[q] = "none" <=> q[2] > calls'[q[1]]
  BY <1>2 DEF SInv, FlexTypes, QueueInv
<1>7. ASSUME NEW q \in Request, status'[q] = "moving"
      PROVE  Holds(q)'
  <2>1. q # r /\ status[q] = "moving" /\ Holds(q)
    BY <1>2, <1>7 DEF SInv, FlexTypes, QueueInv
  <2>2. at[q] # p
    BY <2>1 DEF Holds
  <2> QED  BY <1>2, <2>1, <2>2 DEF Holds, SInv, FlexTypes
<1>9. ASSUME NEW q \in Request, status'[q] \in {"ready", "moving"}
      PROVE  \E i \in DOMAIN waiters'[at'[q]] : waiters'[at'[q]][i] = q
  <2>1. q # r /\ status[q] \in {"ready", "moving"}
    BY <1>2, <1>9 DEF SInv, FlexTypes
  <2>2. PICK i \in DOMAIN waiters[at[q]] : waiters[at[q]][i] = q
    BY <2>1 DEF SInv, QueueInv
  <2>3. CASE at[q] # p
    BY <1>2, <2>2, <2>3 DEF SInv, FlexTypes
  <2>4. CASE at[q] = p
    <3>1. i # 1 /\ i \in DOMAIN w
      BY <1>1, <2>1, <2>2, <2>4
    <3>2. i - 1 \in DOMAIN Tail(w) /\ Tail(w)[i - 1] = w[i]
      BY <1>1, <3>1
    <3>3. waiters'[p] = Tail(w)
      BY <1>1, <1>2 DEF SInv, FlexTypes
    <3> QED  BY <2>2, <2>4, <3>2, <3>3
  <2> QED  BY <2>3, <2>4
<1>8. ArmInv'
  BY <1>2 DEF SInv, FlexTypes, ArmInv, MovingArmIsOwned, Owns
<1> QED  BY <1>5, <1>6, <1>7, <1>8, <1>9 DEF QueueInv

\* The queues and the arm, over the steps of an operator and of a sidecar.
LEMMA OperatorQueue ==
    ASSUME FlexivAssumption, SInv, NEW o \in Operator, OperatorStep(o)
    PROVE  QueueInv' /\ ArmInv'
<1> DEFINE Same == UNCHANGED <<waiters, requestVars, clientVars, arm>>
<1>1. CASE TerminateKills(o)
  BY <1>1, DiesQueue DEF TerminateKills, Alive, SInv, FlexTypes, clientVars
<1>2. CASE Same /\ stage' = stage
  BY <1>2 DEF SInv, FlexTypes, QueueInv, QueueOK, Holds, ArmInv, MovingArmIsOwned, Owns,
              requestVars, clientVars
<1>3. CASE SpawnLaunches(o)
  <2>1. PICK p \in Pid : stage[p] = "unborn" /\ stage' = [stage EXCEPT ![p] = "booting"]
    BY <1>3 DEF SpawnLaunches, Becomes
  <2>2. Same
    BY <1>3 DEF SpawnLaunches
  <2>3. QueueInv'
    BY <2>1, <2>2 DEF SInv, FlexTypes, QueueInv, QueueOK, Holds, requestVars, clientVars
  <2>4. ArmInv'
    BY <2>1, <2>2 DEF SInv, FlexTypes, ArmInv, MovingArmIsOwned, Owns, requestVars
  <2> QED  BY <2>3, <2>4
<1>4. TerminateKills(o) \/ SpawnLaunches(o) \/ (Same /\ stage' = stage)
  BY DEF OperatorStep, SpawnChecks, WaitForSocket, WaitForSocketTimesOut, TerminateNothing,
         TerminateAsks, TerminateSeesItGone, CleanupFiles
<1> QED  BY <1>1, <1>2, <1>3, <1>4

LEMMA SidecarQueue ==
    ASSUME FlexivAssumption, SInv, NEW p \in Pid, SidecarStep(p) \/ Crash(p)
    PROVE  QueueInv' /\ ArmInv'
<1>1. CASE Crash(p)
  BY <1>1, DiesQueue DEF Crash, clientVars
<1>2. CASE SidecarStep(p)
  <2>1. PICK to \in {"owns", "named", "serving", "closing", "freed", "unlinking", "exited"} :
            /\ stage' = [stage EXCEPT ![p] = to]
            /\ stage[p] \in {"serving", "closing"} /\ to # "closing" => Quiet(p) /\ ~arm'.moves
            /\ to \in {"unlinking", "exited"} => stage[p] \in {"freed", "unlinking"}
            /\ to = "freed" => Quiet(p) /\ ~arm'.moves
    BY <1>2 DEF SidecarStep, TakeArm, WritePid, Bind, StopAccepting, StopArm, UnlinkFiles,
                Becomes, SInv, FlexTypes
  <2>2. UNCHANGED <<waiters, status, at, calls>> /\ arm'.by = arm.by /\ (arm'.moves => arm.moves)
    BY <1>2 DEF SidecarStep, TakeArm, WritePid, Bind, StopAccepting, StopArm, UnlinkFiles,
                sidecarKeeps, clientVars, SInv, FlexTypes
  <2>3. QueueInv'
    BY <2>1, <2>2 DEF SInv, FlexTypes, QueueInv, QueueOK, Holds, Quiet
  <2>4. ArmInv'
    BY <2>1, <2>2 DEF SInv, FlexTypes, ArmInv, MovingArmIsOwned, Owns
  <2> QED  BY <2>3, <2>4
<1> QED  BY <1>1, <1>2

\* The queues and the arm, over the steps of a request: its line is read ...
LEMMA ReceiveQueue ==
    ASSUME FlexivAssumption, SInv, NEW r \in Request, Receive(r)
    PROVE  QueueInv' /\ ArmInv'
<1> DEFINE p == at[r]
           w == waiters[p]
<1>1. p \in Pid /\ w \in Seq(Request) /\ status[r] = "sent" /\ stage[p] \in {"serving", "closing"}
  BY DEF SInv, FlexTypes, QueueInv, Receive
<1>2. UNCHANGED <<stage, at, calls, arm>>
  BY DEF Receive, handlerKeeps, clientVars
<1>3. \A q \in Pid : \A i \in DOMAIN waiters[q] : waiters[q][i] # r
  BY <1>1 DEF SInv, QueueInv, QueueOK
<1>4. CASE action[r] = "shutdown"
  <2>1. waiters' = waiters /\ status' = [status EXCEPT ![r] = "ok"]
    BY <1>4 DEF Receive
  <2>2. QueueOK'
    BY <1>2, <1>3, <2>1 DEF SInv, FlexTypes, QueueInv, QueueOK
  <2> QED  BY <1>1, <1>2, <2>1, <2>2 DEF SInv, FlexTypes, QueueInv, Holds, ArmInv,
            MovingArmIsOwned, Owns
<1>5. CASE action[r] # "shutdown"
  <2>1. waiters' = [waiters EXCEPT ![p] = Append(w, r)] /\ status' = [status EXCEPT ![r] = "ready"]
    BY <1>5 DEF Receive
  <2>2. QueueOK'
    <3>1. SUFFICES ASSUME NEW q \in Pid, NEW i \in DOMAIN waiters'[q]
                   PROVE  /\ at'[waiters'[q][i]] = q /\ status'[waiters'[q][i]] \in {"ready", "moving"}
                          /\ \A j \in DOMAIN waiters'[q] :
                                waiters'[q][i] = waiters'[q][j] => i = j
      BY DEF QueueOK
    <3>2. CASE q # p
      <4>1. waiters'[q] = waiters[q] /\ waiters[q] \in Seq(Request)
        BY <2>1, <3>2 DEF SInv, FlexTypes
      <4>2. /\ at[waiters[q][i]] = q /\ status[waiters[q][i]] \in {"ready", "moving"}
            /\ \A j \in DOMAIN waiters[q] : waiters[q][i] = waiters[q][j] => i = j
        BY <4>1 DEF SInv, QueueInv, QueueOK
      <4> QED  BY <1>2, <1>3, <2>1, <4>1, <4>2 DEF SInv, FlexTypes
    <3>3. CASE q = p
      <4>1. waiters'[q] = Append(w, r)
        BY <1>1, <2>1, <3>3 DEF SInv, FlexTypes
      <4>2. \A k \in DOMAIN Append(w, r) : \/ k \in DOMAIN w /\ Append(w, r)[k] = w[k]
                                           \/ k = Len(w) + 1 /\ Append(w, r)[k] = r
        BY <1>1
      <4>3. \A k \in DOMAIN w : /\ at[w[k]] = p /\ status[w[k]] \in {"ready", "moving"}
                                /\ w[k] # r /\ w[k] \in Request
                                /\ \A j \in DOMAIN w : w[k] = w[j] => k = j
        BY <1>1, <1>3 DEF SInv, QueueInv, QueueOK
      <4>4. status'[r] = "ready" /\ \A q2 \in Request : q2 # r => status'[q2] = status[q2]
        BY <2>1 DEF SInv, FlexTypes
      <4> QED  BY <1>2, <3>1, <3>3, <4>1, <4>2, <4>3, <4>4
    <3> QED  BY <3>2, <3>3
  <2>3. ASSUME NEW q \in Request, status'[q] = "moving"
        PROVE  Holds(q)'
    <3>1. status[q] = "moving" /\ Holds(q)
      BY <2>1, <2>3 DEF SInv, FlexTypes, QueueInv
    <3>2. at[q] = p => Append(w, r) # <<>> /\ Head(Append(w, r)) = Head(w)
      BY <1>1, <3>1 DEF Holds
    <3> QED  BY <1>1, <1>2, <2>1, <3>1, <3>2 DEF Holds, SInv, FlexTypes
  <2>4. \A q \in Request :
          /\ status'[q] \in {"sent", "ready", "moving"} =>
                at'[q] \in Pid /\ stage'[at'[q]] \in {"serving", "closing"}
          /\ status'[q] = "none" <=> q[2] > calls'[q[1]]
    BY <1>1, <1>2, <2>1 DEF SInv, FlexTypes, QueueInv
  <2>5. ArmInv'
    BY <1>2, <2>1 DEF SInv, FlexTypes, ArmInv, MovingArmIsOwned, Owns
  <2>6. ASSUME NEW q \in Request, status'[q] \in {"ready", "moving"}
        PROVE  \E i \in DOMAIN waiters'[at'[q]] : waiters'[at'[q]][i] = q
    <3>1. waiters'[p] = Append(w, r)
      BY <1>1, <2>1 DEF SInv, FlexTypes
    <3>2. CASE q = r
      <4>1. Len(w) + 1 \in DOMAIN Append(w, r) /\ Append(w, r)[Len(w) + 1] = r
        BY <1>1
      <4> QED  BY <1>2, <3>1, <3>2, <4>1
    <3>3. CASE q # r
      <4>1. status[q] \in {"ready", "moving"}
        BY <2>1, <2>6, <3>3 DEF SInv, FlexTypes
      <4>2. PICK i \in DOMAIN waiters[at[q]] : waiters[at[q]][i] = q
        BY <4>1 DEF SInv, QueueInv
      <4>3. CASE at[q] = p
        <5>1. i \in DOMAIN Append(w, r) /\ Append(w, r)[i] = w[i]
          BY <1>1, <4>2, <4>3
        <5> QED  BY <1>2, <3>1, <4>2, <4>3, <5>1
      <4>4. CASE at[q] # p
        BY <1>2, <2>1, <4>2, <4>4 DEF SInv, FlexTypes
      <4> QED  BY <4>3, <4>4
    <3> QED  BY <3>2, <3>3
  <2> QED  BY <2>2, <2>3, <2>4, <2>5, <2>6 DEF QueueInv
<1> QED  BY <1>4, <1>5

\* ... and its handler sends the arm somewhere.
LEMMA CommandQueue ==
    ASSUME FlexivAssumption, SInv, NEW r \in Request, Command(r)
    PROVE  QueueInv' /\ ArmInv'
<1>1. /\ Holds(r) /\ status[r] = "ready"
      /\ status' = [status EXCEPT ![r] = "moving"]
      /\ arm' = [by |-> r, moves |-> TRUE]
      /\ UNCHANGED <<stage, waiters, at, calls>>
  BY DEF Command, Handler, handlerKeeps, clientVars
<1>2. at[r] \in Pid /\ stage[at[r]] \in {"serving", "closing"}
  BY <1>1 DEF SInv, QueueInv
<1>4. QueueOK'
  BY <1>1 DEF SInv, FlexTypes, QueueInv, QueueOK
<1>5. QueueInv'
  BY <1>1, <1>2, <1>4 DEF SInv, FlexTypes, QueueInv, Holds
<1>6. ArmInv'
  BY <1>1, <1>2 DEF SInv, FlexTypes, ArmInv, MovingArmIsOwned, Owns
<1> QED  BY <1>5, <1>6

LEMMA RequestQueue ==
    ASSUME FlexivAssumption, SInv, NEW r \in Request, RequestStep(r)
    PROVE  QueueInv' /\ ArmInv'
<1> DEFINE Same == UNCHANGED <<stage, at, calls>> /\ arm'.by = arm.by /\ (arm'.moves => arm.moves)
<1>1. CASE Receive(r)
  BY <1>1, ReceiveQueue
<1>2. CASE Command(r)
  BY <1>2, CommandQueue
<1>3. CASE Reset(r)
  <2>1. /\ status[r] = "sent" /\ status' = [status EXCEPT ![r] = "lost"]
        /\ UNCHANGED <<stage, at, calls, waiters, arm>>
    BY <1>3 DEF Reset, handlerKeeps, clientVars
  <2>2. QueueOK'
    BY <2>1 DEF SInv, FlexTypes, QueueInv, QueueOK
  <2> QED  BY <2>1, <2>2 DEF SInv, FlexTypes, QueueInv, Holds, ArmInv, MovingArmIsOwned, Owns
<1>4. CASE Reached(r) /\ legs[r] > 0
  <2>1. /\ status[r] = "moving" /\ status' = [status EXCEPT ![r] = "ready"]
        /\ UNCHANGED <<stage, at, calls, waiters, arm>>
    BY <1>4 DEF Reached, Handler, handlerKeeps, clientVars
  <2>2. QueueOK'
    BY <2>1 DEF SInv, FlexTypes, QueueInv, QueueOK
  <2> QED  BY <2>1, <2>2 DEF SInv, FlexTypes, QueueInv, Holds, ArmInv, MovingArmIsOwned, Owns
<1>5. CASE Act(r) \/ (Reached(r) /\ ~(legs[r] > 0)) \/ Contact(r) \/ MotionTimesOut(r) \/ Raises(r)
  <2>1. Same
    BY <1>5 DEF Act, Reached, Contact, MotionTimesOut, Raises, handlerKeeps, clientVars, SInv,
       FlexTypes
  <2>2. Holds(r) /\ status[r] \in {"ready", "moving"} /\ \E how \in {"ok", "error"} : Ends(r, how)
    BY <1>5 DEF Act, Reached, Contact, MotionTimesOut, Raises, Handler
  <2> QED  BY <2>1, <2>2, EndsQueue
<1> QED  BY <1>1, <1>2, <1>3, <1>4, <1>5 DEF RequestStep

\* Over the steps of a client, and the arm's.
LEMMA ClientQueue ==
    ASSUME FlexivAssumption, SInv, NEW c \in Client, Call(c) \/ ClientStep(c)
    PROVE  QueueInv' /\ ArmInv'
<1>1. CASE ClientStep(c)
  BY <1>1 DEF ClientStep, Answered, CallTimesOut, handlerKeeps, requestVars, SInv, FlexTypes,
              QueueInv, QueueOK, Holds, ArmInv, MovingArmIsOwned, Owns
<1>2. CASE Call(c)
  <2> DEFINE r == <<c, calls[c] + 1>>
  <2>1. /\ r \in Request /\ sockFile \in Pid /\ stage[sockFile] = "serving"
        /\ calls' = [calls EXCEPT ![c] = @ + 1]
        /\ at' = [at EXCEPT ![r] = sockFile] /\ status' = [status EXCEPT ![r] = "sent"]
        /\ UNCHANGED <<stage, waiters, arm>>
    BY <1>2, Bounds DEF Call, handlerKeeps, SInv, FlexTypes, Request
  <2>2. status[r] = "none"
    <3>1. r[2] > calls[r[1]]
      BY <2>1 DEF SInv, FlexTypes
    <3> QED  BY <2>1, <3>1 DEF SInv, QueueInv
  <2>3. QueueOK'
    BY <2>1, <2>2 DEF SInv, FlexTypes, QueueInv, QueueOK
  <2>4. \A q \in Request : q # r => status'[q] = status[q] /\ at'[q] = at[q]
    BY <2>1 DEF SInv, FlexTypes
  <2>5. \A q \in Request : status'[q] = "none" <=> q[2] > calls'[q[1]]
    <3>1. SUFFICES ASSUME NEW d \in Client, NEW n \in 1 .. MaxCalls
                   PROVE  status'[<<d, n>>] = "none" <=> n > calls'[d]
      BY DEF Request
    <3>2. status[<<d, n>>] = "none" <=> n > calls[d]
      BY DEF SInv, QueueInv, Request
    <3>3. calls[d] \in Nat /\ n \in Nat /\ calls[c] \in Nat
      BY Bounds DEF SInv, FlexTypes
    <3>4. CASE d = c
      BY <2>1, <2>2, <2>4, <3>2, <3>3, <3>4 DEF SInv, FlexTypes, Request
    <3>5. CASE d # c
      BY <2>1, <2>4, <3>2, <3>3, <3>5 DEF SInv, FlexTypes, Request
    <3> QED  BY <3>4, <3>5
  <2>6. \A q \in Request :
          /\ status'[q] \in {"sent", "ready", "moving"} =>
                at'[q] \in Pid /\ stage'[at'[q]] \in {"serving", "closing"}
          /\ status'[q] \in {"ready", "moving"} =>
                \E i \in DOMAIN waiters'[at'[q]] : waiters'[at'[q]][i] = q
          /\ status'[q] = "moving" => Holds(q)'
    BY <2>1, <2>2, <2>4 DEF SInv, FlexTypes, QueueInv, Holds
  <2>7. ArmInv'
    BY <2>1, <2>2, <2>4 DEF SInv, FlexTypes, ArmInv, MovingArmIsOwned, Owns
  <2> QED  BY <2>3, <2>5, <2>6, <2>7 DEF QueueInv
<1> QED  BY <1>1, <1>2

LEMMA ArmStep ==
    ASSUME SInv, ArmArrives
    PROVE  FlexTypes' /\ QueueInv' /\ ArmInv'
<1>1. /\ arm'.by = arm.by /\ ~arm'.moves
      /\ arm' \in [by : Request \cup {NoRequest}, moves : BOOLEAN]
      /\ UNCHANGED <<handlerKeeps, asked, waiters, requestVars, clientVars>>
  BY DEF ArmArrives, SInv, FlexTypes
<1> QED  BY <1>1 DEF SInv, FlexTypes, QueueInv, QueueOK, Holds, ArmInv, MovingArmIsOwned,
                     handlerKeeps, requestVars, clientVars, fileVars, operatorVars

\* Handlers, clients and the arm leave processes, files and operators alone.
LEMMA OthersFiles ==
    ASSUME FInv, UNCHANGED <<fileVars, operatorVars, stage>>
    PROVE  FileInv'
BY DEF FInv, SInv, FileInv, fileVars, operatorVars, Alive

LEMMA HandlersKeep ==
    ASSUME NEW r \in Request, NEW c \in Client,
           RequestStep(r) \/ Call(c) \/ ClientStep(c) \/ ArmArrives
    PROVE  UNCHANGED <<fileVars, operatorVars, stage>>
BY DEF RequestStep, Receive, Reset, Command, Act, Reached, Contact, MotionTimesOut, Raises,
       Call, ClientStep, Answered, CallTimesOut, ArmArrives, handlerKeeps
-----------------------------------------------------------------------------
LEMMA InitInv == ASSUME FlexivAssumption, FlexInit PROVE FInv
<1>1. FlexTypes
  <2>1. <<>> \in Seq(Request)
    OBVIOUS
  <2> QED  BY <2>1, Bounds DEF FlexInit, FlexTypes
<1>2. FileInv
  BY Bounds DEF FlexInit, FileInv, Alive, Starting, Ending
<1>3. QueueOK
  BY DEF FlexInit, QueueOK
<1>4. QueueInv
  BY <1>3, Bounds DEF FlexInit, QueueInv, Request
<1>5. ArmInv
  BY DEF FlexInit, ArmInv, MovingArmIsOwned
<1>6. ActionsAreSerialized
  BY DEF FlexInit, ActionsAreSerialized
<1> QED  BY <1>1, <1>2, <1>4, <1>5, <1>6 DEF FInv, SInv

LEMMA NextShared ==
    ASSUME FlexivAssumption, SInv, [FlexNext]_flexVars
    PROVE  SInv'
<1>1. CASE UNCHANGED flexVars
  BY <1>1 DEF flexVars, fileVars, operatorVars, requestVars, clientVars, SInv, FlexTypes,
              QueueInv, QueueOK, Holds, ArmInv, MovingArmIsOwned, Owns
<1>2. ASSUME NEW o \in Operator, OperatorStep(o) PROVE SInv'
  BY <1>2, OperatorTypes, OperatorQueue DEF SInv
<1>3. ASSUME NEW p \in Pid, SidecarStep(p) \/ Crash(p) PROVE SInv'
  BY <1>3, SidecarTypes, SidecarQueue DEF SInv
<1>4. ASSUME NEW r \in Request, RequestStep(r) PROVE SInv'
  BY <1>4, RequestTypes, RequestQueue DEF SInv
<1>5. ASSUME NEW c \in Client, Call(c) \/ ClientStep(c) PROVE SInv'
  BY <1>5, ClientTypes, ClientQueue DEF SInv
<1>6. CASE ArmArrives
  BY <1>6, ArmStep DEF SInv
<1> QED  BY <1>1, <1>2, <1>3, <1>4, <1>5, <1>6 DEF FlexNext

LEMMA SharedInv == FlexSpec => []SInv
<1>1. FlexInit => SInv
  BY FlexivAssumption, InitInv DEF FInv
<1>2. SInv /\ [FlexNext]_flexVars => SInv'
  BY FlexivAssumption, NextShared
<1> QED  BY <1>1, <1>2, PTL DEF FlexSpec

\* One owner, one lock: a handler commands the arm while no other waits for it.
LEMMA CommandsAlone ==
    ASSUME FlexivAssumption, FInv, NEW r \in Request, Command(r)
    PROVE  \A q \in Request : status[q] # "moving"
<1>1. SUFFICES ASSUME NEW q \in Request, status[q] = "moving"
               PROVE  FALSE
  OBVIOUS
<1>2. \A x \in {q, r} : Holds(x) /\ at[x] \in Pid /\ stage[at[x]] \in {"serving", "closing"}
  BY <1>1 DEF FInv, SInv, QueueInv, Command, Handler
<1>3. at[q] = at[r]
  BY <1>2, Bounds DEF FInv, FileInv, Alive
<1> QED  BY <1>1, <1>2, <1>3 DEF Holds, Command, Handler

LEMMA ActionsFollow ==
    ASSUME FlexivAssumption, FInv, [FlexNext]_flexVars
    PROVE  ActionsAreSerialized'
<1> DEFINE Follows == /\ arm'.by = arm.by
                      /\ \A r \in Request : status'[r] = "moving" => status[r] = "moving"
<1>1. ASSUME Follows PROVE ActionsAreSerialized'
  BY <1>1 DEF FInv, ActionsAreSerialized
<1>2. CASE UNCHANGED flexVars
  BY <1>1, <1>2 DEF flexVars, requestVars
<1>3. ASSUME NEW o \in Operator, OperatorStep(o) PROVE Follows
  BY <1>3 DEF OperatorStep, SpawnChecks, SpawnLaunches, WaitForSocket, WaitForSocketTimesOut,
     TerminateNothing, TerminateAsks, TerminateKills, Dies, TerminateSeesItGone, CleanupFiles,
     requestVars
<1>4. ASSUME NEW p \in Pid, SidecarStep(p) \/ Crash(p) PROVE Follows
  BY <1>4 DEF SidecarStep, TakeArm, WritePid, Bind, StopAccepting, StopArm, UnlinkFiles, Crash,
     Dies, FInv, SInv, FlexTypes
<1>5. ASSUME NEW r \in Request, RequestStep(r), ~Command(r) PROVE Follows
  <2>1. arm'.by = arm.by
    BY <1>5 DEF RequestStep, Receive, Reset, Act, Reached, Contact, MotionTimesOut, Raises, FInv,
       SInv, FlexTypes
  <2>2. \E how \in {"ready", "ok", "error", "lost"} : status' = [status EXCEPT ![r] = how]
    BY <1>5 DEF RequestStep, Receive, Reset, Act, Reached, Contact, MotionTimesOut, Raises, Ends
  <2> QED  BY <2>1, <2>2 DEF FInv, SInv, FlexTypes
<1>6. ASSUME NEW r \in Request, Command(r) PROVE ActionsAreSerialized'
  <2>1. \A q \in Request : status[q] # "moving"
    BY <1>6, CommandsAlone
  <2>2. status' = [status EXCEPT ![r] = "moving"] /\ arm' = [by |-> r, moves |-> TRUE]
    BY <1>6 DEF Command
  <2>3. \A q \in Request : status'[q] = "moving" => q = r
    BY <2>1, <2>2 DEF FInv, SInv, FlexTypes
  <2> QED BY <2>2, <2>3 DEF ActionsAreSerialized
<1>7. ASSUME NEW c \in Client, Call(c) \/ ClientStep(c) PROVE Follows
  BY <1>7 DEF Call, ClientStep, Answered, CallTimesOut, requestVars, FInv, SInv, FlexTypes
<1>8. CASE ArmArrives
  BY <1>1, <1>8 DEF ArmArrives, requestVars, FInv, SInv, FlexTypes
<1> QED  BY <1>1, <1>2, <1>3, <1>4, <1>5, <1>6, <1>7, <1>8 DEF FlexNext

LEMMA FilesFollow ==
    ASSUME FlexivAssumption, OneOperator, FInv, [FlexNext]_flexVars
    PROVE  FileInv'
<1>1. CASE UNCHANGED flexVars
  BY <1>1, OthersFiles DEF flexVars
<1>2. ASSUME NEW o \in Operator, OperatorStep(o) PROVE FileInv'
  BY <1>2, OperatorFiles
<1>3. ASSUME NEW p \in Pid, SidecarStep(p) \/ Crash(p) PROVE FileInv'
  BY <1>3, SidecarFiles
<1>4. ASSUME NEW r \in Request, RequestStep(r) PROVE FileInv'
  <2>1. PICK c \in Client : TRUE
    BY DEF Request
  <2> QED  BY <1>4, <2>1, HandlersKeep, OthersFiles
<1>5. ASSUME NEW c \in Client, Call(c) \/ ClientStep(c) PROVE FileInv'
  <2>1. UNCHANGED <<fileVars, operatorVars, stage>>
    BY <1>5 DEF Call, ClientStep, Answered, CallTimesOut, handlerKeeps
  <2> QED  BY <2>1, OthersFiles
<1>6. CASE ArmArrives
  <2>1. UNCHANGED <<fileVars, operatorVars, stage>>
    BY <1>6 DEF ArmArrives, handlerKeeps
  <2> QED  BY <2>1, OthersFiles
<1> QED  BY <1>1, <1>2, <1>3, <1>4, <1>5, <1>6 DEF FlexNext

LEMMA AlwaysInv == ASSUME OneOperator PROVE FlexSpec => []FInv
<1>1. FlexInit => FInv
  BY FlexivAssumption, InitInv
<1>2. FInv /\ [FlexNext]_flexVars => FInv'
  BY FlexivAssumption, NextShared, ActionsFollow, FilesFollow DEF FInv
<1> QED  BY <1>1, <1>2, PTL DEF FlexSpec

\* Every reachable state has the types, and a request waits for the lock once,
\* however many operators there are.
THEOREM FlexTypeCorrect == FlexSpec => []FlexTypeOK
<1>1. SInv => FlexTypeOK
  BY DEF SInv, QueueInv, FlexTypeOK
<1> QED  BY <1>1, SharedInv, PTL

\* The pid file and the wait for the socket keep a second sidecar from the arm,
\* for any number of starts, ends and crashes.
THEOREM ArmHasOneOwner == ASSUME OneOperator PROVE FlexSpec => []OneOwner
<1>1. FInv => OneOwner
  BY DEF FInv, FileInv, OneOwner, Owns, Alive, NoPid, Pid
<1> QED  BY <1>1, AlwaysInv, PTL

\* The request lock serializes the actions of any number of clients.
THEOREM LockSerializesActions == ASSUME OneOperator PROVE FlexSpec => []ActionsAreSerialized
<1>1. FInv => ActionsAreSerialized
  BY DEF FInv
<1> QED  BY <1>1, AlwaysInv, PTL

\* Nobody removes the files of a sidecar that serves.
THEOREM ServersAreReachable == ASSUME OneOperator PROVE FlexSpec => []ServingIsReachable
<1>1. FInv => ServingIsReachable
  BY DEF FInv, FileInv, ServingIsReachable
<1> QED  BY <1>1, AlwaysInv, PTL

\* A sidecar that ends by itself has stopped its arm, also where another one
\* took the arm beside it.
THEOREM EndedSidecarsStopped == FlexSpec => []MovingArmIsOwned
<1>1. SInv => MovingArmIsOwned
  BY DEF SInv, ArmInv
<1> QED  BY <1>1, SharedInv, PTL
-----------------------------------------------------------------------------
(***************************************************************************)
(* What NothingHangs rests on: a request has a bounded number of steps of  *)
(* its own, and the lock is handed on in the order in which it was asked   *)
(* for, by handlers at work.                                               *)
(***************************************************************************)
Underway(r) == status[r] \in {"sent", "ready", "moving"}
Waits(r) == status[r] \in {"ready", "moving"}

\* The steps a request has before it at most: to be read, and two a motion.
StepsLeft(r) == CASE status[r] = "sent" -> 6
                  [] status[r] = "ready" -> 2 * legs[r] + 1
                  [] status[r] = "moving" -> 2 * legs[r] + 2
                  [] OTHER -> 0

\* Who has the lock, or asked for it, before r.
InFront(r) == {q \in Request : \E i, j \in DOMAIN waiters[at[r]] :
                  i < j /\ waiters[at[r]][i] = q /\ waiters[at[r]][j] = r}

RequestsAreShort == \A r \in Request :
    StepsLeft(r) \in 0 .. 6 /\ (StepsLeft(r) = 0 <=> ~Underway(r))

WaitsForAHandler == \A r \in Request : Waits(r) =>
    \/ Holds(r)
    \/ \E q \in InFront(r) : Holds(q) /\ Waits(q) /\ at[q] = at[r]

EachRequestCounts == \A r \in Request :
    /\ RequestStep(r) => StepsLeft(r)' < StepsLeft(r)
    /\ status[r] # "none" => StepsLeft(r)' <= StepsLeft(r)
    /\ Waits(r) => InFront(r)' \subseteq InFront(r)

LEMMA ShortRequests == ASSUME SInv PROVE RequestsAreShort
<1>1. ASSUME NEW r \in Request
      PROVE  StepsLeft(r) \in 0 .. 6 /\ (StepsLeft(r) = 0 <=> ~Underway(r))
  <2>1. legs[r] \in 0 .. 2
    BY DEF SInv, FlexTypes
  <2>2. CASE Underway(r)
    BY <2>1, <2>2 DEF StepsLeft, Underway
  <2>3. CASE ~Underway(r)
    BY <2>3 DEF StepsLeft, Underway
  <2> QED BY <2>2, <2>3
<1> QED BY <1>1 DEF RequestsAreShort

LEMMA HandlersWork == ASSUME SInv PROVE WaitsForAHandler
<1>1. SUFFICES ASSUME NEW r \in Request, Waits(r), ~Holds(r)
               PROVE  \E q \in InFront(r) : Holds(q) /\ Waits(q) /\ at[q] = at[r]
  BY DEF WaitsForAHandler
<1> DEFINE w == waiters[at[r]]
<1>2. at[r] \in Pid /\ w \in Seq(Request) /\ \E i \in DOMAIN w : w[i] = r
  BY <1>1 DEF SInv, FlexTypes, QueueInv, Waits
<1>3. PICK i \in DOMAIN w : w[i] = r
  BY <1>2
<1>4. w # <<>> /\ 1 \in DOMAIN w /\ Head(w) = w[1] /\ w[1] \in Request
  BY <1>2, <1>3
<1>5. w[1] # r /\ 1 < i
  <2>1. w[1] # r
    BY <1>1, <1>2, <1>4, Bounds, FlexivAssumption DEF Holds
  <2> QED BY <1>2, <1>3, <1>4, <2>1
<1>6. at[w[1]] = at[r] /\ status[w[1]] \in {"ready", "moving"}
  BY <1>2, <1>4 DEF SInv, QueueInv, QueueOK
<1>7. w[1] \in InFront(r)
  BY <1>3, <1>4, <1>5 DEF InFront
<1> QED BY <1>4, <1>6, <1>7, <1>2, Bounds, FlexivAssumption DEF Holds, Waits

\* A step of a request brings it nearer to its end.
LEMMA RequestCounts ==
    ASSUME FlexivAssumption, SInv, NEW r \in Request, RequestStep(r)
    PROVE  StepsLeft(r)' < StepsLeft(r)
<1>1. legs[r] \in 0 .. 2 /\ Legs(action[r]) \in 0 .. 2
  BY LegsBound DEF SInv, FlexTypes
<1> USE <1>1 DEF SInv, FlexTypes
<1>2. CASE Receive(r)
  <2>1. \/ status'[r] = "ok"
        \/ status'[r] = "ready" /\ legs'[r] = Legs(action[r])
    BY <1>2 DEF Receive
  <2> QED BY <1>2, <2>1 DEF Receive, StepsLeft
<1>3. CASE Reset(r)
  BY <1>3 DEF Reset, StepsLeft
<1>4. CASE Command(r)
  <2>1. status[r] = "ready" /\ status'[r] = "moving" /\ legs'[r] = legs[r] - 1
    BY <1>4 DEF Command, Handler
  <2> QED BY <2>1 DEF StepsLeft
<1>5. CASE Reached(r) /\ legs[r] > 0
  BY <1>5 DEF Reached, Handler, StepsLeft
<1>6. CASE Act(r) \/ (Reached(r) /\ ~(legs[r] > 0)) \/ Contact(r) \/ MotionTimesOut(r) \/ Raises(r)
  <2>1. Waits(r) /\ status'[r] \in {"ok", "error"}
    BY <1>6 DEF Act, Reached, Contact, MotionTimesOut, Raises, Handler, Ends, Waits
  <2> QED BY <2>1 DEF StepsLeft, Waits
<1> QED BY <1>2, <1>3, <1>4, <1>5, <1>6 DEF RequestStep

\* A request that was made is where it was or at its end after what others do.
LEMMA OthersKeepRequest ==
    ASSUME FlexivAssumption, SInv, FlexNext, NEW r \in Request, status[r] # "none",
           ~RequestStep(r)
    PROVE  StepsLeft(r)' = StepsLeft(r) \/ StepsLeft(r)' = 0
<1> DEFINE Kept == status'[r] = status[r] /\ legs'[r] = legs[r]
<1>1. ASSUME NEW p \in Pid, Dies(p) PROVE Kept \/ status'[r] = "lost" \/ ~Underway(r)
  BY <1>1 DEF Dies, SInv, FlexTypes, QueueInv, Underway
<1>2. ASSUME NEW p \in Pid, Dies(p), ~Underway(r) PROVE status'[r] = status[r]
  BY <1>2 DEF Dies, SInv, FlexTypes, Underway
<1>3. ASSUME NEW p \in Pid, Dies(p) PROVE StepsLeft(r)' = StepsLeft(r) \/ StepsLeft(r)' = 0
  BY <1>1, <1>2, <1>3 DEF StepsLeft, Underway
<1>4. ASSUME NEW o \in Operator, OperatorStep(o)
      PROVE  Kept \/ \E p \in Pid : Dies(p)
  BY <1>4 DEF OperatorStep, SpawnChecks, SpawnLaunches, WaitForSocket, WaitForSocketTimesOut,
     TerminateNothing, TerminateAsks, TerminateKills, TerminateSeesItGone, CleanupFiles,
     requestVars, SInv, FlexTypes, Alive
<1>5. ASSUME NEW p \in Pid, SidecarStep(p) \/ Crash(p)
      PROVE  Kept \/ Dies(p)
  BY <1>5 DEF SidecarStep, TakeArm, WritePid, Bind, StopAccepting, StopArm, UnlinkFiles, Crash,
     sidecarKeeps
<1>6. ASSUME NEW x \in Request, RequestStep(x) PROVE Kept
  <2>1. x # r
    BY <1>6
  <2>2. status \in [Request -> {"none", "sent", "ready", "moving", "ok", "error", "lost"}]
        /\ legs \in [Request -> 0 .. 2]
    BY DEF SInv, FlexTypes
  <2>3. CASE Receive(x)
    BY <2>1, <2>2, <2>3 DEF Receive, Forget
  <2>4. CASE Reset(x) \/ Command(x)
    BY <2>1, <2>2, <2>4 DEF Reset, Command, Forget
  <2>5. CASE Reached(x) /\ legs[x] > 0
    BY <2>1, <2>2, <2>5 DEF Reached
  <2>6. CASE Act(x) \/ (Reached(x) /\ ~(legs[x] > 0)) \/ Contact(x) \/ MotionTimesOut(x) \/ Raises(x)
    <3>1. PICK how : Ends(x, how)
      BY <2>6 DEF Act, Reached, Contact, MotionTimesOut, Raises
    <3> QED BY <2>1, <2>2, <3>1 DEF Ends, Forget
  <2> QED BY <1>6, <2>3, <2>4, <2>5, <2>6 DEF RequestStep
<1>7. ASSUME NEW c \in Client, Call(c) \/ ClientStep(c) PROVE Kept
  <2>1. CASE Call(c)
    <3>1. calls[c] \in 0 .. MaxCalls /\ calls[c] < MaxCalls
      BY <2>1 DEF Call, SInv, FlexTypes
    <3>2. <<c, calls[c] + 1>> \in Request
      BY <3>1, Bounds DEF Request
    <3>3. status[<<c, calls[c] + 1>>] = "none"
      <4>1. <<c, calls[c] + 1>>[2] > calls[<<c, calls[c] + 1>>[1]]
        BY <3>1, Bounds
      <4> QED BY <3>2, <4>1 DEF SInv, QueueInv
    <3> QED BY <2>1, <3>2, <3>3 DEF Call, SInv, FlexTypes
  <2>2. CASE ClientStep(c)
    BY <2>2 DEF ClientStep, Answered, CallTimesOut, requestVars
  <2> QED BY <1>7, <2>1, <2>2
<1>8. CASE ArmArrives
  BY <1>8 DEF ArmArrives, requestVars, StepsLeft
<1> QED BY <1>3, <1>4, <1>5, <1>6, <1>7, <1>8 DEF FlexNext, StepsLeft

\* What becomes of the queue of a lock.
LEMMA QueueMoves ==
    ASSUME FlexivAssumption, SInv, FlexNext, NEW p \in Pid
    PROVE  \/ waiters'[p] \in {waiters[p], <<>>}
           \/ waiters[p] # <<>> /\ waiters'[p] = Tail(waiters[p])
           \/ \E r \in Request : status[r] = "sent" /\ waiters'[p] = Append(waiters[p], r)
<1>1. waiters \in [Pid -> Seq(Request)]
  BY DEF SInv, FlexTypes
<1>2. ASSUME NEW o \in Operator, OperatorStep(o)
      PROVE  waiters'[p] \in {waiters[p], <<>>}
  BY <1>1, <1>2 DEF OperatorStep, SpawnChecks, SpawnLaunches, WaitForSocket,
     WaitForSocketTimesOut, TerminateNothing, TerminateAsks, TerminateKills, Dies,
     TerminateSeesItGone, CleanupFiles
<1>3. ASSUME NEW q \in Pid, SidecarStep(q) \/ Crash(q)
      PROVE  waiters'[p] \in {waiters[p], <<>>}
  BY <1>1, <1>3 DEF SidecarStep, TakeArm, WritePid, Bind, StopAccepting, StopArm, UnlinkFiles,
     Crash, Dies
<1>4. ASSUME NEW r \in Request, RequestStep(r)
      PROVE  \/ waiters'[p] = waiters[p]
             \/ waiters[p] # <<>> /\ waiters'[p] = Tail(waiters[p])
             \/ status[r] = "sent" /\ waiters'[p] = Append(waiters[p], r)
  <2>1. CASE Receive(r)
    BY <1>1, <2>1 DEF Receive
  <2>2. CASE Reset(r) \/ Command(r)
    BY <2>2 DEF Reset, Command
  <2>3. CASE Act(r) \/ Reached(r) \/ Contact(r) \/ MotionTimesOut(r) \/ Raises(r)
    BY <1>1, <2>3 DEF Act, Reached, Contact, MotionTimesOut, Raises, Handler, Holds, Ends
  <2> QED BY <1>4, <2>1, <2>2, <2>3 DEF RequestStep
<1>5. ASSUME NEW c \in Client, Call(c) \/ ClientStep(c)
      PROVE  waiters' = waiters
  BY <1>5 DEF Call, ClientStep, Answered, CallTimesOut
<1>6. CASE ArmArrives
  BY <1>6 DEF ArmArrives
<1> QED BY <1>2, <1>3, <1>4, <1>5, <1>6 DEF FlexNext

\* A request that was made stays with the sidecar it was sent to.
LEMMA StaysThere ==
    ASSUME FlexivAssumption, SInv, FlexNext, NEW r \in Request, status[r] # "none"
    PROVE  at'[r] = at[r]
<1>1. ASSUME NEW o \in Operator, OperatorStep(o) PROVE at' = at
  BY <1>1 DEF OperatorStep, SpawnChecks, SpawnLaunches, WaitForSocket, WaitForSocketTimesOut,
     TerminateNothing, TerminateAsks, TerminateKills, TerminateSeesItGone, CleanupFiles,
     requestVars
<1>2. ASSUME NEW p \in Pid, SidecarStep(p) \/ Crash(p) PROVE at' = at
  BY <1>2 DEF SidecarStep, TakeArm, WritePid, Bind, StopAccepting, StopArm, UnlinkFiles, Crash,
     sidecarKeeps
<1>3. ASSUME NEW x \in Request, RequestStep(x) PROVE at' = at
  BY <1>3 DEF RequestStep, Receive, Reset, Command, Act, Reached, Contact, MotionTimesOut, Raises
<1>4. ASSUME NEW c \in Client, Call(c) PROVE at'[r] = at[r]
  <2>1. calls[c] \in 0 .. MaxCalls /\ calls[c] < MaxCalls
    BY <1>4 DEF Call, SInv, FlexTypes
  <2>2. <<c, calls[c] + 1>> \in Request
    BY <2>1, Bounds DEF Request
  <2>3. status[<<c, calls[c] + 1>>] = "none"
    <3>1. <<c, calls[c] + 1>>[2] > calls[<<c, calls[c] + 1>>[1]]
      BY <2>1, Bounds
    <3> QED BY <2>2, <3>1 DEF SInv, QueueInv
  <2>4. at' = [at EXCEPT ![<<c, calls[c] + 1>>] = sockFile]
    BY <1>4 DEF Call
  <2>5. at \in [Request -> Pid \cup {NoPid}] /\ r # <<c, calls[c] + 1>>
    BY <2>3 DEF SInv, FlexTypes
  <2> QED BY <2>4, <2>5
<1>5. ASSUME NEW c \in Client, ClientStep(c) PROVE at' = at
  BY <1>5 DEF ClientStep, Answered, CallTimesOut, requestVars
<1>6. CASE ArmArrives
  BY <1>6 DEF ArmArrives, requestVars
<1> QED BY <1>1, <1>2, <1>3, <1>4, <1>5, <1>6 DEF FlexNext

\* Nobody is let in front of a handler that waits.
LEMMA NobodyOvertakes ==
    ASSUME FlexivAssumption, SInv, FlexNext, NEW r \in Request, Waits(r)
    PROVE  InFront(r)' \subseteq InFront(r)
<1> DEFINE w == waiters[at[r]]
           v == waiters'[at[r]]
<1>1. /\ at[r] \in Pid /\ w \in Seq(Request) /\ at'[r] = at[r]
  BY StaysThere DEF SInv, FlexTypes, QueueInv, Waits
<1>2. SUFFICES ASSUME NEW q \in Request, NEW i \in DOMAIN v, NEW j \in DOMAIN v,
                      i < j, v[i] = q, v[j] = r
               PROVE  \E k, l \in DOMAIN w : k < l /\ w[k] = q /\ w[l] = r
  BY <1>1 DEF InFront
<1>3. CASE v = w
  BY <1>2, <1>3
<1>4. CASE v = <<>>
  BY <1>2, <1>4
<1>5. CASE w # <<>> /\ v = Tail(w)
  <2>1. \A k \in DOMAIN v : k \in Nat /\ k + 1 \in DOMAIN w /\ v[k] = w[k + 1]
    BY <1>1, <1>5
  <2>2. i + 1 < j + 1
    BY <1>2, <2>1
  <2> QED BY <1>2, <2>1, <2>2
<1>6. CASE \E x \in Request : status[x] = "sent" /\ v = Append(w, x)
  <2>1. PICK x \in Request : status[x] = "sent" /\ v = Append(w, x)
    BY <1>6
  <2>2. x # r
    BY <2>1 DEF Waits
  <2>3. \A k \in DOMAIN v : k \in Nat /\ k <= Len(w) + 1 /\ (k <= Len(w) => k \in DOMAIN w /\ v[k] = w[k])
    BY <1>1, <2>1
  <2>4. v[Len(w) + 1] = x /\ Len(w) \in Nat
    BY <1>1, <2>1
  <2>5. j <= Len(w) /\ i <= Len(w)
    BY <1>2, <2>2, <2>3, <2>4
  <2> QED BY <1>2, <2>3, <2>5
<1> QED BY <1>1, <1>3, <1>4, <1>5, <1>6, QueueMoves

LEMMA RequestsCount == ASSUME FlexivAssumption, SInv, FlexNext PROVE EachRequestCounts
<1>1. ASSUME NEW r \in Request, status[r] # "none" PROVE StepsLeft(r)' <= StepsLeft(r)
  <2>1. StepsLeft(r) \in Nat /\ StepsLeft(r)' \in Nat
    <3>1. SInv'
      BY NextShared
    <3>2. (SInv => RequestsAreShort)'
      BY ShortRequests, PTL
    <3> QED BY <3>1, <3>2, ShortRequests DEF RequestsAreShort
  <2> QED BY <1>1, <2>1, RequestCounts, OthersKeepRequest
<1> QED BY <1>1, RequestCounts, NobodyOvertakes DEF EachRequestCounts

\* server.py: a request ends within six steps of its own, nothing sets it back, a
\* handler that waits for the lock waits for one that is at work in the same
\* sidecar, and none is let in front of it: what NothingHangs rests on, for any
\* number of operators, clients, calls and crashes and sidecars however slow.
THEOREM RequestsAreBounded ==
    /\ FlexSpec => [](RequestsAreShort /\ WaitsForAHandler)
    /\ FlexSpec => [][EachRequestCounts]_flexVars
<1>1. SInv => RequestsAreShort /\ WaitsForAHandler
  BY ShortRequests, HandlersWork
<1>2. SInv /\ [FlexNext]_flexVars => [EachRequestCounts]_flexVars
  BY FlexivAssumption, RequestsCount
<1>3. FlexSpec => [][EachRequestCounts]_flexVars
  BY <1>2, SharedInv, PTL DEF FlexSpec
<1>4. FlexSpec => [](RequestsAreShort /\ WaitsForAHandler)
  BY <1>1, SharedInv, PTL
<1> QED BY <1>3, <1>4

(***************************************************************************)
(* The other half: a sidecar goes through its stages once, and one that is *)
(* closing waits for calls that only get fewer (it is Quiet when none is   *)
(* outstanding or connected).                                              *)
(***************************************************************************)
Life == [unborn |-> 8, booting |-> 7, owns |-> 6, named |-> 5, serving |-> 4, closing |-> 3,
         freed |-> 2, unlinking |-> 1, exited |-> 0, killed |-> 0]

Outstanding(p) == {r \in Request : at[r] = p /\ Underway(r)}
Connected(p) == {c \in Client : calling[c] /\ at[Last(c)] = p}

EachSidecarCounts == \A p \in Pid :
    /\ asked[p] => asked'[p]
    /\ Life[stage'[p]] <= Life[stage[p]]
    /\ SidecarStep(p) => Life[stage'[p]] < Life[stage[p]]
    /\ stage[p] = "closing" => /\ Outstanding(p)' \subseteq Outstanding(p)
                               /\ Connected(p)' \subseteq Connected(p)

\* A client that waits has called.
CallingInv == \A c \in Client : calling[c] => calls[c] > 0

LEMMA LifeFalls ==
    /\ Life["unborn"] = 8 /\ Life["booting"] = 7 /\ Life["owns"] = 6 /\ Life["named"] = 5
    /\ Life["serving"] = 4 /\ Life["closing"] = 3 /\ Life["freed"] = 2
    /\ Life["unlinking"] = 1 /\ Life["exited"] = 0 /\ Life["killed"] = 0
BY DEF Life

LEMMA SidecarGoesOn ==
    ASSUME NEW p \in Pid, SidecarStep(p)
    PROVE  \E to \in DOMAIN Life :
               stage' = [stage EXCEPT ![p] = to] /\ Life[to] < Life[stage[p]]
<1>1. CASE TakeArm(p) \/ WritePid(p) \/ Bind(p)
  BY <1>1, LifeFalls DEF TakeArm, WritePid, Bind, Becomes, Life
<1>2. CASE StopAccepting(p) \/ StopArm(p) \/ UnlinkFiles(p)
  BY <1>2, LifeFalls DEF StopAccepting, StopArm, UnlinkFiles, Becomes, Life
<1> QED BY <1>1, <1>2 DEF SidecarStep

LEMMA SidecarsGoOn ==
    ASSUME FlexivAssumption, SInv, FlexNext, NEW p \in Pid
    PROVE  /\ asked[p] => asked'[p]
           /\ Life[stage'[p]] <= Life[stage[p]]
           /\ SidecarStep(p) => Life[stage'[p]] < Life[stage[p]]
<1>1. stage[p] \in DOMAIN Life /\ stage \in [Pid -> DOMAIN Life] /\ asked \in [Pid -> BOOLEAN]
  BY DEF SInv, FlexTypes, Life
<1>2. \A at1 \in DOMAIN Life : Life[at1] \in Nat /\ Life["killed"] <= Life[at1]
  BY LifeFalls DEF Life
<1>3. SidecarStep(p) => Life[stage'[p]] < Life[stage[p]]
  BY <1>1, SidecarGoesOn
<1>4. ASSUME NEW q \in Pid, Dies(q) PROVE Life[stage'[p]] <= Life[stage[p]]
  BY <1>1, <1>2, <1>4 DEF Dies
<1>5. ASSUME NEW o \in Operator, OperatorStep(o)
      PROVE  (asked[p] => asked'[p]) /\ Life[stage'[p]] <= Life[stage[p]]
  <2>1. asked' = asked \/ \E q : asked' = [asked EXCEPT ![q] = TRUE]
    BY <1>5 DEF OperatorStep, SpawnChecks, SpawnLaunches, WaitForSocket, WaitForSocketTimesOut,
       TerminateNothing, TerminateAsks, TerminateKills, TerminateSeesItGone, CleanupFiles
  <2>2. CASE SpawnLaunches(o)
    <3>1. PICK q \in Pid : Becomes(q, "unborn", "booting")
      BY <2>2 DEF SpawnLaunches
    <3>2. stage'[p] = stage[p] \/ (stage[p] = "unborn" /\ stage'[p] = "booting")
      BY <1>1, <3>1 DEF Becomes
    <3> QED BY <1>1, <1>2, <2>1, <3>2, LifeFalls
  <2>3. CASE TerminateKills(o)
    <3>1. child[o] \in Pid /\ Dies(child[o])
      BY <2>3 DEF TerminateKills, Alive, SInv, FlexTypes
    <3> QED BY <1>1, <1>4, <2>1, <3>1
  <2>4. CASE ~SpawnLaunches(o) /\ ~TerminateKills(o)
    <3>1. stage' = stage
      BY <1>5, <2>4 DEF OperatorStep, SpawnChecks, WaitForSocket, WaitForSocketTimesOut,
         TerminateNothing, TerminateAsks, TerminateSeesItGone, CleanupFiles
    <3> QED BY <1>1, <1>2, <2>1, <3>1
  <2> QED BY <2>2, <2>3, <2>4
<1>6. ASSUME NEW q \in Pid, SidecarStep(q) \/ Crash(q)
      PROVE  (asked[p] => asked'[p]) /\ Life[stage'[p]] <= Life[stage[p]]
  <2>1. asked' = asked
    BY <1>6 DEF SidecarStep, TakeArm, WritePid, Bind, StopAccepting, StopArm, UnlinkFiles, Crash
  <2>2. CASE SidecarStep(q)
    <3>1. PICK to \in DOMAIN Life :
              stage' = [stage EXCEPT ![q] = to] /\ Life[to] < Life[stage[q]]
      BY <2>2, SidecarGoesOn
    <3> QED BY <1>1, <1>2, <2>1, <3>1
  <2>3. CASE Crash(q)
    BY <1>4, <2>1, <2>3 DEF Crash
  <2> QED BY <1>6, <2>2, <2>3
<1>7. ASSUME NEW r \in Request, RequestStep(r)
      PROVE  (asked[p] => asked'[p]) /\ Life[stage'[p]] <= Life[stage[p]]
  <2>1. stage' = stage
    BY <1>7 DEF RequestStep, Receive, Reset, Command, Act, Reached, Contact, MotionTimesOut,
       Raises, handlerKeeps
  <2>2. asked' = asked \/ \E q : asked' = [asked EXCEPT ![q] = TRUE]
    BY <1>7 DEF RequestStep, Receive, Reset, Command, Act, Reached, Contact, MotionTimesOut,
       Raises
  <2> QED BY <1>1, <1>2, <2>1, <2>2
<1>8. ASSUME NEW c \in Client, Call(c) \/ ClientStep(c) \/ ArmArrives
      PROVE  (asked[p] => asked'[p]) /\ Life[stage'[p]] <= Life[stage[p]]
  <2>1. stage' = stage /\ asked' = asked
    BY <1>8 DEF Call, ClientStep, Answered, CallTimesOut, ArmArrives, handlerKeeps
  <2> QED BY <1>1, <1>2, <2>1
<1>9. CASE ArmArrives
  <2>1. stage' = stage /\ asked' = asked
    BY <1>9 DEF ArmArrives, handlerKeeps
  <2> QED BY <1>1, <1>2, <2>1, <1>3
<1> QED BY <1>3, <1>5, <1>6, <1>7, <1>8, <1>9 DEF FlexNext

\* Only a call makes a client wait for a request, a new one.
LEMMA OnlyCallsConnect ==
    ASSUME FlexivAssumption, SInv, FlexNext
    PROVE  \/ UNCHANGED <<at, calls>> /\ \A c \in Client : calling'[c] => calling[c]
           \/ \E c \in Client : Call(c)
<1>1. ASSUME NEW o \in Operator, OperatorStep(o) PROVE UNCHANGED <<at, calls, calling>>
  BY <1>1 DEF OperatorStep, SpawnChecks, SpawnLaunches, WaitForSocket, WaitForSocketTimesOut,
     TerminateNothing, TerminateAsks, TerminateKills, TerminateSeesItGone, CleanupFiles,
     requestVars, clientVars
<1>2. ASSUME NEW p \in Pid, SidecarStep(p) \/ Crash(p) PROVE UNCHANGED <<at, calls, calling>>
  BY <1>2 DEF SidecarStep, TakeArm, WritePid, Bind, StopAccepting, StopArm, UnlinkFiles, Crash,
     sidecarKeeps, clientVars
<1>3. ASSUME NEW r \in Request, RequestStep(r) PROVE UNCHANGED <<at, calls, calling>>
  BY <1>3 DEF RequestStep, Receive, Reset, Command, Act, Reached, Contact, MotionTimesOut, Raises,
     clientVars
<1>4. ASSUME NEW c \in Client, ClientStep(c)
      PROVE  UNCHANGED <<at, calls>> /\ calling' = [calling EXCEPT ![c] = FALSE]
  BY <1>4 DEF ClientStep, Answered, CallTimesOut, requestVars
<1>5. ArmArrives => UNCHANGED <<at, calls, calling>>
  BY DEF ArmArrives, requestVars, clientVars
<1>6. calling \in [Client -> BOOLEAN]
  BY DEF SInv, FlexTypes
<1> QED BY <1>1, <1>2, <1>3, <1>4, <1>5, <1>6 DEF FlexNext

LEMMA CallingKept ==
    ASSUME FlexivAssumption, SInv, CallingInv, [FlexNext]_flexVars
    PROVE  CallingInv'
<1>1. CASE UNCHANGED flexVars
  BY <1>1 DEF flexVars, clientVars, CallingInv
<1>2. CASE UNCHANGED <<at, calls>> /\ \A c \in Client : calling'[c] => calling[c]
  BY <1>2 DEF CallingInv
<1>3. ASSUME NEW c \in Client, Call(c) PROVE CallingInv'
  BY <1>3, Bounds DEF Call, SInv, FlexTypes, CallingInv
<1> QED BY <1>1, <1>2, <1>3, OnlyCallsConnect

\* Nobody calls a sidecar that is closing.
LEMMA ClosingGetsQuiet ==
    ASSUME FlexivAssumption, SInv, CallingInv, FlexNext, NEW p \in Pid, stage[p] = "closing"
    PROVE  /\ Outstanding(p)' \subseteq Outstanding(p)
           /\ Connected(p)' \subseteq Connected(p)
<1>1. SInv'
  BY NextShared
<1>2. \A r \in Request :
          /\ status[r] = "none" <=> r[2] > calls[r[1]]
          /\ status'[r] = "none" <=> r[2] > calls'[r[1]]
  BY <1>1 DEF SInv, QueueInv
<1>3. ASSUME NEW c \in Client, Call(c)
      PROVE  /\ <<c, calls[c] + 1>> \in Request /\ calls' = [calls EXCEPT ![c] = @ + 1]
             /\ calling' = [calling EXCEPT ![c] = TRUE]
             /\ at' = [at EXCEPT ![<<c, calls[c] + 1>>] = sockFile]
             /\ status' = [status EXCEPT ![<<c, calls[c] + 1>>] = "sent"]
             /\ sockFile # p
  <2>1. calls[c] \in 0 .. MaxCalls /\ calls[c] < MaxCalls
    BY <1>3 DEF Call, SInv, FlexTypes
  <2> QED BY <1>3, <2>1, Bounds DEF Call, Request
<1>4. ASSUME NEW r \in Request, at'[r] = p, Underway(r)'
      PROVE  at[r] = p /\ Underway(r)
  <2>1. CASE status[r] # "none"
    <3>1. at[r] = p
      BY <1>4, <2>1, StaysThere
    <3>2. RequestsAreShort /\ RequestsAreShort'
      <4>1. (SInv => RequestsAreShort)'
        BY ShortRequests, PTL
      <4> QED BY <1>1, <4>1, ShortRequests
    <3>3. StepsLeft(r)' <= StepsLeft(r)
      BY <2>1, RequestsCount DEF EachRequestCounts
    <3>4. StepsLeft(r) # 0
      BY <1>4, <3>2, <3>3 DEF RequestsAreShort
    <3> QED BY <3>1, <3>2, <3>4 DEF RequestsAreShort
  <2>2. CASE status[r] = "none"
    <3>1. ~(UNCHANGED calls)
      BY <1>2, <1>4, <2>2 DEF Underway
    <3>2. PICK c \in Client : Call(c)
      BY <3>1, OnlyCallsConnect
    <3>3. status \in [Request -> {"none", "sent", "ready", "moving", "ok", "error", "lost"}]
          /\ at \in [Request -> Pid \cup {NoPid}]
      BY DEF SInv, FlexTypes
    <3>4. r = <<c, calls[c] + 1>>
      BY <1>3, <1>4, <2>2, <3>2, <3>3 DEF Underway
    <3> QED BY <1>3, <1>4, <3>2, <3>3, <3>4
  <2> QED BY <2>1, <2>2
<1>5. ASSUME NEW c \in Client, calling'[c], at'[Last(c)'] = p
      PROVE  calling[c] /\ at[Last(c)] = p
  <2>1. CASE UNCHANGED <<at, calls>> /\ (calling'[c] => calling[c])
    BY <1>5, <2>1 DEF Last
  <2>2. ASSUME NEW d \in Client, Call(d) PROVE calling[c] /\ at[Last(c)] = p
    <3> DEFINE r == <<d, calls[d] + 1>>
    <3>1. /\ calls \in [Client -> 0 .. MaxCalls] /\ calling \in [Client -> BOOLEAN]
          /\ at \in [Request -> Pid \cup {NoPid}]
      BY DEF SInv, FlexTypes
    <3>2. CASE c = d
      <4>1. Last(c)' = r
        BY <1>3, <2>2, <3>1, <3>2 DEF Last
      <4>2. at'[r] = sockFile
        BY <1>3, <2>2, <3>1
      <4> QED BY <1>3, <1>5, <2>2, <4>1, <4>2
    <3>3. CASE c # d
      <4>1. Last(c)' = Last(c) /\ calling[c] /\ Last(c) # r
        BY <1>3, <1>5, <2>2, <3>1, <3>3 DEF Last
      <4>2. Last(c) \in Request
        BY <3>1, <4>1, Bounds DEF CallingInv, Last, Request
      <4>3. at'[Last(c)] = at[Last(c)]
        BY <1>3, <2>2, <3>1, <4>1, <4>2
      <4> QED BY <1>5, <4>1, <4>3
    <3> QED BY <3>2, <3>3
  <2> QED BY <2>1, <2>2, OnlyCallsConnect
<1> QED BY <1>4, <1>5 DEF Outstanding, Connected, Underway, Last

\* server.py, lifecycle.py: who was told to end stays told, no step takes a sidecar
\* back, its own take it on, and while it closes nothing comes in that it would
\* have to wait for: the half of NothingHangs about sidecars, for any number of
\* operators and clients and sidecars however slow.
THEOREM SidecarsAreBounded == FlexSpec => [][EachSidecarCounts]_flexVars
<1>1. FlexInit => CallingInv
  BY DEF FlexInit, CallingInv
<1>2. SInv /\ CallingInv /\ [FlexNext]_flexVars => CallingInv'
  BY FlexivAssumption, CallingKept
<1>3. SInv /\ CallingInv /\ [FlexNext]_flexVars => [EachSidecarCounts]_flexVars
  BY FlexivAssumption, SidecarsGoOn, ClosingGetsQuiet DEF EachSidecarCounts
<1> QED BY <1>1, <1>2, <1>3, SharedInv, PTL DEF FlexSpec
=============================================================================
