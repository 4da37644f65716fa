------------------------ MODULE ConversationProofs ------------------------
(***************************************************************************)
(* The conversations with models, whatever their bounds: the sessions that *)
(* several processes share (RoleSessions) and the lists of messages of an  *)
(* agent with tools (ModelConversations).                                  *)
(*                                                                         *)
(* Of the sessions: the turns of a role session are taken one at a time, a *)
(* session nobody has rolled is shared without loss, and a single process  *)
(* loses nothing by rolls, failed turns and kills either.  The lock gives  *)
(* the first (LockInv).  For the other two, what the live session or the   *)
(* memory file knows is not enough: the invariant follows the answers      *)
(* through a turn, from the id and the seeds its process read, over the    *)
(* session it ran on and the summary it got, back to both.  A turn has a   *)
(* bounded number of steps, and waits for nobody but who is at a turn.     *)
(*                                                                         *)
(* Of the lists: what is sent is only looked at when a model is asked, so  *)
(* the invariant says what is true of the list while its calls are being   *)
(* answered (Paired, with the calls that are open), of the list kept for   *)
(* the next attempt, and of its length between the turns (SizeInv).  What  *)
(* is sent is a fold over the list: an invariant of its prefixes says that *)
(* every answer in it has its call in the message before.                  *)
(***************************************************************************)
EXTENDS RoleSessions, ModelConversations,
        FiniteSetTheorems, SequenceTheorems, WellFoundedInduction, TLAPS

InTurn == {"run", "save", "fail"}

\* Who takes a turn holds the lock.
LockInv == \A p \in Process : pc[p] \in InTurn => holder = p

\* Only the processes there are do anything.
CrowdInv == \A p \in Process : pc[p] # "idle" => p \in crowd

\* The session a turn ran on knows every answer, and the turn's own.
RanOnAll(p) ==
    /\ tid[p] # NoThread
    /\ answered \subseteq knows[tid[p]]
    /\ pc[p] = "save" /\ ~rolling[p] => <<p, nth[p]>> \in knows[tid[p]]

\* A session nobody has rolled.
UnrolledInv == clears = 0 =>
    /\ live = NoThread => answered = {}
    /\ live # NoThread => answered \subseteq knows[live]
    /\ \A p \in Process :
          /\ live = NoThread /\ pc[p] = "wait" => tid[p] = NoThread
          /\ pc[p] = "run" => tid[p] = live
          /\ pc[p] \in {"save", "fail"} => RanOnAll(p)

\* A process alone.
LoneAt(p) ==
    /\ live = NoThread => answered \subseteq memory
    /\ live # NoThread => answered \subseteq knows[live]
    /\ pc[p] \in {"wait", "run"} =>
          tid[p] = live /\ (live = NoThread => answered \subseteq seeds[p])
    /\ pc[p] \in {"save", "fail"} => RanOnAll(p)
    /\ pc[p] \in {"save", "grow", "memo"} /\ rolling[p] => answered \subseteq summary[p]
    /\ pc[p] = "memo" => rolling[p]
    /\ pc[p] \in {"grow", "memo"} => live # NoThread
    /\ pc[p] = "clear" => answered \subseteq memory
LoneInv == \A p \in Process : crowd = {p} => LoneAt(p)

\* A turn that is no summary has its number.
NumberInv == \A p \in Process : pc[p] # "idle" /\ ~rolling[p] => nth[p] \in 1 .. MaxTurns

SInv == SessionTypeOK /\ NumberInv /\ LockInv /\ CrowdInv /\ UnrolledInv /\ LoneInv
-----------------------------------------------------------------------------
\* The bounds, one by one.
LEMMA Bounds ==
    ASSUME RoleSessionsAssumption
    PROVE  /\ RollAt \in Nat /\ MaxTurns \in Nat /\ MaxThreads \in Nat
           /\ MaxSetbacks \in Nat /\ Nobody \notin Process /\ IsFiniteSet(Process)
BY DEF RoleSessionsAssumption

\* The answer of a turn is one of the turns there are.
LEMMA OwnTurn ==
    ASSUME SInv, NEW p \in Process, pc[p] # "idle", ~rolling[p]
    PROVE  <<p, nth[p]>> \in Turn
BY DEF SInv, NumberInv, Turn

\* Every step keeps the types.
LEMMA TypeStep ==
    ASSUME RoleSessionsAssumption, SInv, NEW p \in Process,
           BeginTurn(p) \/ TurnSteps(p) \/ OperatorRolls(p) \/ Killed(p)
    PROVE  SessionTypeOK'
<1>0. /\ live \in 0 .. threads /\ threads \in Nat /\ NoThread \in 0 .. threads
      /\ MaxTurns \in Nat /\ MaxThreads \in Nat /\ MaxSetbacks \in Nat
  BY DEF SInv, SessionTypeOK, Thread, NoThread
<1> USE <1>0 DEF SInv, SessionTypeOK, Goes, diskVars, procVars, pastVars
<1>1. CASE BeginTurn(p)
  BY <1>1 DEF BeginTurn, Load
<1>2. CASE TakeSession(p)
  BY <1>2 DEF TakeSession, LoadAgain
<1>3. CASE RunTurn(p)
  <2>1. PICK t \in Thread : RunOn(p, t) /\ threads' \in {threads, t} /\ t <= threads'
    BY <1>3 DEF RunTurn, Thread, NoThread
  <2>2. knows' \in [Thread -> SUBSET Turn]
    BY <1>3, OwnTurn DEF RunTurn, RunOn
  <2>3. seeds' \in [Process -> SUBSET Turn] /\ summary' \in [Process -> SUBSET Turn]
    BY <2>1 DEF RunOn
  <2>4. threads' \in 0 .. MaxThreads /\ threads <= threads' /\ tid' \in [Process -> 0 .. threads']
    BY <1>3, <2>1 DEF RunTurn, RunOn, Thread
  <2>5. pc' \in [Process -> {"idle", "wait", "run", "save", "fail", "grow",
                           "memo", "clear", "pop"}]
    BY <1>3 DEF RunTurn
  <2>6. setbacks' \in 0 .. MaxSetbacks
    BY <1>3 DEF RunTurn
  <2> QED  BY <1>3, <2>2, <2>3, <2>4, <2>5, <2>6 DEF RunTurn
<1>4. CASE SaveSession(p)
  <2>1. live' \in Thread \cup {NoThread} /\ live' <= threads
    BY <1>4 DEF SaveSession, Thread, NoThread
  <2>2. answered' \subseteq Turn
    BY <1>4, OwnTurn DEF SaveSession
  <2>3. holder' \in Process \cup {Nobody} /\ tid' \in [Process -> 0 .. threads]
    BY <1>4 DEF SaveSession
  <2> QED  BY <1>4, <2>1, <2>2, <2>3 DEF SaveSession
<1>5. CASE FailTurn(p)
  <2>1. live' \in Thread \cup {NoThread} /\ live' <= threads
    BY <1>5 DEF FailTurn, Thread, NoThread
  <2>2. holder' \in Process \cup {Nobody} /\ tid' \in [Process -> 0 .. threads]
    BY <1>5 DEF FailTurn
  <2>3. pc' \in [Process -> {"idle", "wait", "run", "save", "fail", "grow",
                           "memo", "clear", "pop"}]
    BY <1>5 DEF FailTurn
  <2> QED  BY <1>5, <2>1, <2>2, <2>3 DEF FailTurn
<1>6. CASE Grow(p)
  BY <1>6 DEF Grow
<1>7. CASE GrowTooLong(p)
  BY <1>7 DEF GrowTooLong, Load
<1>8. CASE WriteMemory(p)
  BY <1>8 DEF WriteMemory
<1>9. CASE Clear(p)
  BY <1>9 DEF Clear
<1>10. CASE PopUsage(p)
  BY <1>10 DEF PopUsage
<1>11. CASE OperatorRolls(p)
  BY <1>11 DEF OperatorRolls, Load
<1>12. CASE Killed(p)
  BY <1>12 DEF Killed
<1> QED
  BY <1>1, <1>2, <1>3, <1>4, <1>5, <1>6, <1>7, <1>8, <1>9, <1>10, <1>11, <1>12 DEF TurnSteps
\* Every step keeps the numbers of the turns.
LEMMA NumberStep ==
    ASSUME RoleSessionsAssumption, SInv, NEW p \in Process,
           BeginTurn(p) \/ TurnSteps(p) \/ OperatorRolls(p) \/ Killed(p)
    PROVE  NumberInv'
<1> USE Bounds DEF SInv, SessionTypeOK, NumberInv, Goes, diskVars, procVars, pastVars
<1>1. CASE BeginTurn(p)
  BY <1>1 DEF BeginTurn
<1>2. CASE TakeSession(p)
  BY <1>2 DEF TakeSession
<1>3. CASE RunTurn(p)
  BY <1>3 DEF RunTurn
<1>4. CASE SaveSession(p)
  BY <1>4 DEF SaveSession
<1>5. CASE FailTurn(p)
  BY <1>5 DEF FailTurn
<1>6. CASE Grow(p)
  BY <1>6 DEF Grow
<1>7. CASE GrowTooLong(p)
  BY <1>7 DEF GrowTooLong
<1>8. CASE WriteMemory(p)
  BY <1>8 DEF WriteMemory
<1>9. CASE Clear(p)
  BY <1>9 DEF Clear
<1>10. CASE PopUsage(p)
  BY <1>10 DEF PopUsage
<1>11. CASE OperatorRolls(p)
  BY <1>11 DEF OperatorRolls
<1>12. CASE Killed(p)
  BY <1>12 DEF Killed
<1> QED
  BY <1>1, <1>2, <1>3, <1>4, <1>5, <1>6, <1>7, <1>8, <1>9, <1>10, <1>11, <1>12 DEF TurnSteps

\* Every step keeps the lock with whoever takes a turn.
LEMMA LockStep ==
    ASSUME RoleSessionsAssumption, SInv, NEW p \in Process,
           BeginTurn(p) \/ TurnSteps(p) \/ OperatorRolls(p) \/ Killed(p)
    PROVE  LockInv' /\ CrowdInv'
<1> USE Bounds DEF SInv, SessionTypeOK, Goes, diskVars, procVars,
        pastVars, LockInv, CrowdInv, InTurn, NoThread
<1>1. CASE BeginTurn(p)
  BY <1>1 DEF BeginTurn
<1>2. CASE TakeSession(p)
  BY <1>2 DEF TakeSession
<1>3. CASE RunTurn(p)
  BY <1>3 DEF RunTurn
<1>4. CASE SaveSession(p)
  BY <1>4 DEF SaveSession
<1>5. CASE FailTurn(p)
  BY <1>5 DEF FailTurn
<1>6. CASE Grow(p)
  BY <1>6 DEF Grow
<1>7. CASE GrowTooLong(p)
  BY <1>7 DEF GrowTooLong
<1>8. CASE WriteMemory(p)
  BY <1>8 DEF WriteMemory
<1>9. CASE Clear(p)
  BY <1>9 DEF Clear
<1>10. CASE PopUsage(p)
  BY <1>10 DEF PopUsage
<1>11. CASE OperatorRolls(p)
  BY <1>11 DEF OperatorRolls
<1>12. CASE Killed(p)
  BY <1>12 DEF Killed
<1> QED
  BY <1>1, <1>2, <1>3, <1>4, <1>5, <1>6, <1>7, <1>8, <1>9, <1>10, <1>11, <1>12 DEF TurnSteps
-----------------------------------------------------------------------------
\* A turn runs on a session there is, or on a new one, which it makes it know
\* its seeds and, unless it is a summary, the turn itself.
LEMMA RunsOn ==
    ASSUME RoleSessionsAssumption, SInv, NEW p \in Process, RunTurn(p)
    PROVE  \E t \in Thread :
              /\ RunOn(p, t) /\ t # NoThread
              /\ tid[p] # NoThread => t = tid[p]
              /\ tid'[p] = t /\ knows'[t] = knows[t] \cup seeds[p] \cup
                                   IF rolling[p] THEN {} ELSE {<<p, nth[p]>>}
              /\ \A u \in Thread : knows[u] \subseteq knows'[u]
<1>1. PICK t \in Thread : RunOn(p, t) /\ (tid[p] # NoThread => t = tid[p])
  <2>1. threads \in Nat /\ MaxThreads \in Nat /\ threads < MaxThreads => threads + 1 \in Thread
    BY DEF Thread
  <2>2. threads \in 0 .. MaxThreads /\ tid[p] \in 0 .. threads
    BY DEF SInv, SessionTypeOK
  <2>3. tid[p] # NoThread => tid[p] \in Thread
    BY <2>2 DEF Thread, NoThread
  <2>4. CASE tid[p] # NoThread /\ RunOn(p, tid[p])
    BY <2>3, <2>4
  <2>5. CASE tid[p] = NoThread /\ threads < MaxThreads /\ RunOn(p, threads + 1)
    BY <2>1, <2>2, <2>5
  <2> QED  BY <2>4, <2>5 DEF RunTurn
<1>2. t # NoThread
  BY DEF Thread, NoThread
<1>3. /\ tid'[p] = t
      /\ knows' = [knows EXCEPT ![t] = @ \cup seeds[p] \cup
                      IF rolling[p] THEN {} ELSE {<<p, nth[p]>>}]
  BY <1>1 DEF RunOn, SInv, SessionTypeOK
<1>4. knows'[t] = knows[t] \cup seeds[p] \cup IF rolling[p] THEN {} ELSE {<<p, nth[p]>>}
  BY <1>3 DEF SInv, SessionTypeOK
<1>5. \A u \in Thread : knows[u] \subseteq knows'[u]
  BY <1>3
<1> QED  BY <1>1, <1>2, <1>3, <1>4, <1>5

\* Who takes a turn takes it alone.
LEMMA Alone ==
    ASSUME SInv, NEW p \in Process, NEW q \in Process, pc[p] \in InTurn, pc[q] \in InTurn
    PROVE  p = q
BY DEF SInv, LockInv

LEMMA UnrolledStep ==
    ASSUME RoleSessionsAssumption, SInv, NEW p \in Process,
           BeginTurn(p) \/ TurnSteps(p) \/ OperatorRolls(p) \/ Killed(p)
    PROVE  UnrolledInv'
<1>0. live = NoThread \/ live \in Thread
  BY DEF SInv, SessionTypeOK
<1> USE <1>0 DEF SInv, SessionTypeOK, Goes, diskVars, procVars,
        pastVars, UnrolledInv, RanOnAll, InTurn
<1>1. CASE BeginTurn(p)
  BY <1>1 DEF BeginTurn, Load
<1>2. CASE TakeSession(p)
  BY <1>2 DEF TakeSession, LoadAgain
<1>3. CASE RunTurn(p)
  BY <1>3, Alone, RunsOn DEF RunTurn, RunOn
<1>4. CASE SaveSession(p)
  <2>1. SUFFICES ASSUME clears = 0
                 PROVE  UnrolledInv'
    BY <1>4 DEF SaveSession
  <2>2. /\ live' = tid[p] /\ live' # NoThread /\ knows' = knows
        /\ answered \subseteq knows[tid[p]]
        /\ ~rolling[p] => <<p, nth[p]>> \in knows[tid[p]]
    BY <1>4, <2>1 DEF SaveSession
  <2>3. answered' \subseteq knows'[live']
    BY <1>4, <2>2 DEF SaveSession
  <2>4. \A q \in Process : pc'[q] \notin InTurn
    BY <1>4, Alone DEF SaveSession
  <2> QED  BY <2>2, <2>3, <2>4
<1>5. CASE FailTurn(p)
  BY <1>5, Alone, RunsOn DEF FailTurn
<1>6. CASE Grow(p)
  BY <1>6 DEF Grow
<1>7. CASE GrowTooLong(p)
  BY <1>7 DEF GrowTooLong, Load
<1>8. CASE WriteMemory(p)
  BY <1>8 DEF WriteMemory
<1>9. CASE Clear(p)
  BY <1>9 DEF Clear
<1>10. CASE PopUsage(p)
  BY <1>10 DEF PopUsage
<1>11. CASE OperatorRolls(p)
  BY <1>11 DEF OperatorRolls, Load
<1>12. CASE Killed(p)
  BY <1>12 DEF Killed
<1> QED
  BY <1>1, <1>2, <1>3, <1>4, <1>5, <1>6, <1>7, <1>8, <1>9, <1>10, <1>11, <1>12 DEF TurnSteps

LEMMA LoneStep ==
    ASSUME RoleSessionsAssumption, SInv, NEW p \in Process,
           BeginTurn(p) \/ TurnSteps(p) \/ OperatorRolls(p) \/ Killed(p)
    PROVE  LoneInv'
<1>0. SUFFICES ASSUME crowd = {p}, LoneAt(p)
               PROVE  crowd' = crowd /\ LoneAt(p)'
  <2>1. p \in crowd
    BY DEF SInv, CrowdInv, TurnSteps, BeginTurn, OperatorRolls, Killed, TakeSession, RunTurn,
           SaveSession, FailTurn, Grow, GrowTooLong, WriteMemory, Clear, PopUsage, Goes
  <2>2. crowd' = crowd
    BY DEF TurnSteps, BeginTurn, OperatorRolls, Killed, TakeSession, RunTurn, SaveSession, FailTurn,
       Grow, GrowTooLong, WriteMemory, Clear, PopUsage
  <2> QED  BY <2>1, <2>2 DEF SInv, LoneInv
<1> USE <1>0 DEF SInv, SessionTypeOK, Goes, diskVars, procVars, pastVars, LoneAt, RanOnAll
<1>1. CASE BeginTurn(p)
  BY <1>1 DEF BeginTurn, Load
<1>2. CASE TakeSession(p)
  BY <1>2 DEF TakeSession, LoadAgain
<1>3. CASE RunTurn(p)
  <2>1. PICK t \in Thread :
            /\ RunOn(p, t) /\ t # NoThread
            /\ tid[p] # NoThread => t = tid[p]
            /\ tid'[p] = t /\ knows'[t] = knows[t] \cup seeds[p] \cup
                                 IF rolling[p] THEN {} ELSE {<<p, nth[p]>>}
            /\ \A u \in Thread : knows[u] \subseteq knows'[u]
    BY <1>3, RunsOn
  <2>2. answered \subseteq knows[t] \cup seeds[p] /\ answered \subseteq knows'[t]
    BY <1>3, <2>1 DEF RunTurn
  <2>3. RanOnAll(p)'
    BY <1>3, <2>1 DEF RunTurn
  <2>4. rolling[p] => answered \subseteq summary'[p]
    BY <2>1, <2>2 DEF RunOn
  <2>5. /\ live = NoThread => answered \subseteq memory
        /\ live # NoThread => answered \subseteq knows'[live]
    BY <2>1
  <2>6. pc'[p] \in {"save", "fail"} /\ UNCHANGED <<live, memory, rolling, crowd, answered>>
    BY <1>3 DEF RunTurn
  <2> QED  BY <2>3, <2>4, <2>5, <2>6
<1>4. CASE SaveSession(p)
  BY <1>4 DEF SaveSession
<1>5. CASE FailTurn(p)
  BY <1>5 DEF FailTurn
<1>6. CASE Grow(p)
  BY <1>6 DEF Grow
<1>7. CASE GrowTooLong(p)
  BY <1>7 DEF GrowTooLong, Load
<1>8. CASE WriteMemory(p)
  BY <1>8 DEF WriteMemory
<1>9. CASE Clear(p)
  BY <1>9 DEF Clear
<1>10. CASE PopUsage(p)
  BY <1>10 DEF PopUsage
<1>11. CASE OperatorRolls(p)
  BY <1>11 DEF OperatorRolls, Load
<1>12. CASE Killed(p)
  <2>1. /\ pc'[p] = "idle" /\ UNCHANGED <<live, knows, answered, crowd>>
        /\ live = NoThread => answered \subseteq memory'
    BY <1>12 DEF Killed
  <2> QED  BY <2>1
<1> QED
  BY <1>1, <1>2, <1>3, <1>4, <1>5, <1>6, <1>7, <1>8, <1>9, <1>10, <1>11, <1>12 DEF TurnSteps
-----------------------------------------------------------------------------
LEMMA InitInv == ASSUME RoleSessionsAssumption, SessionInit PROVE SInv
<1>1. SessionTypeOK
  BY DEF SessionInit, SessionTypeOK, NoThread
<1>2. NumberInv /\ LockInv /\ CrowdInv /\ UnrolledInv /\ LoneInv
  BY DEF SessionInit, NumberInv, LockInv, InTurn, CrowdInv, UnrolledInv, LoneInv, LoneAt
<1> QED  BY <1>1, <1>2 DEF SInv

LEMMA NextInv == ASSUME RoleSessionsAssumption, SInv, [SessionNext]_sessionVars PROVE SInv'
<1>1. CASE UNCHANGED sessionVars
  BY <1>1 DEF sessionVars, diskVars, procVars, pastVars, SInv, SessionTypeOK, NumberInv,
              LockInv, CrowdInv, UnrolledInv, LoneInv, LoneAt, RanOnAll
<1>2. CASE SessionNext
  <2>1. PICK p \in Process : BeginTurn(p) \/ TurnSteps(p) \/ OperatorRolls(p) \/ Killed(p)
    BY <1>2 DEF SessionNext
  <2> QED  BY <2>1, TypeStep, NumberStep, LockStep, UnrolledStep, LoneStep DEF SInv
<1> QED  BY <1>1, <1>2

\* What the properties say, in any state of the invariant.
LEMMA InvSays ==
    ASSUME RoleSessionsAssumption, SInv
    PROVE  OneTurnAtATime /\ SharedSessionForgetsNothing /\ LoneProcessForgetsNothing
<1>1. OneTurnAtATime
  BY Alone DEF OneTurnAtATime, InTurn
<1>2. SharedSessionForgetsNothing
  BY DEF SInv, UnrolledInv, SharedSessionForgetsNothing, Remembered
<1>3. LoneProcessForgetsNothing
  <2>1. SUFFICES ASSUME Cardinality(crowd) = 1
                 PROVE  answered \subseteq Remembered
    BY DEF LoneProcessForgetsNothing
  <2>2. IsFiniteSet(crowd)
    BY FS_Subset DEF SInv, SessionTypeOK
  <2>3. PICK p : crowd = {p}
    BY <2>1, <2>2, FS_Singleton
  <2>4. p \in Process
    BY <2>3 DEF SInv, SessionTypeOK
  <2>5. LoneAt(p)
    BY <2>3, <2>4 DEF SInv, LoneInv
  <2> QED  BY <2>5 DEF LoneAt, Remembered
<1> QED  BY <1>1, <1>2, <1>3

LEMMA AlwaysInv == SessionSpec => []SInv
<1>1. SessionInit => SInv
  BY RoleSessionsAssumption, InitInv
<1>2. SInv /\ [SessionNext]_sessionVars => SInv'
  BY RoleSessionsAssumption, NextInv
<1> QED  BY <1>1, <1>2, PTL DEF SessionSpec

\* Every reachable state has the types, for any number of processes, turns and
\* sessions.
THEOREM SessionTypeCorrect == SessionSpec => []SessionTypeOK
<1>1. SInv => SessionTypeOK
  BY DEF SInv
<1> QED  BY <1>1, AlwaysInv, PTL

\* The lock that persistent_agent.run takes keeps two processes from taking turns
\* of one session at a time, summaries and killed processes included.
THEOREM TurnsAreExclusive == SessionSpec => []OneTurnAtATime
<1>1. SInv => OneTurnAtATime
  BY RoleSessionsAssumption, InvSays
<1> QED  BY <1>1, AlwaysInv, PTL

\* The second read of the id, under the lock, is enough for processes that share
\* a session: until somebody rolls it, it knows every answer.
THEOREM SharingForgetsNothing == SessionSpec => []SharedSessionForgetsNothing
<1>1. SInv => SharedSessionForgetsNothing
  BY RoleSessionsAssumption, InvSays
<1> QED  BY <1>1, AlwaysInv, PTL

\* A process alone never loses an answer to a roll, a failed turn or a kill.
THEOREM LoneForgetsNothing == SessionSpec => []LoneProcessForgetsNothing
<1>1. SInv => LoneProcessForgetsNothing
  BY RoleSessionsAssumption, InvSays
<1> QED  BY <1>1, AlwaysInv, PTL
-----------------------------------------------------------------------------
(***************************************************************************)
(* How long a turn may take, and whom it may wait for.                     *)
(***************************************************************************)
StepsLeft == [wait |-> 7, run |-> 6, save |-> 5, fail |-> 5, grow |-> 4, memo |-> 3,
              clear |-> 2, pop |-> 1, idle |-> 0]

\* The steps a process has before it, to the end of its turn and of the roll this
\* may go on to.
TurnLeft(p) ==
    StepsLeft[pc[p]] + IF rolling[p] \/ pc[p] \in {"memo", "clear", "pop", "idle"} THEN 0 ELSE 4

\* Who holds the lock takes a turn.
HolderInv == holder # Nobody => pc[holder] \in InTurn

TurnIsShort == \A p \in Process :
    /\ TurnLeft(p) \in 0 .. 11
    /\ TurnLeft(p) = 0 <=> pc[p] = "idle"

\* A waiter is kept by another process, which is at its turn.
WaitsForATurn == \A p \in Process :
    pc[p] = "wait" /\ holder # Nobody => holder # p /\ TurnLeft(holder) > 0

\* What a process does brings the end of its turn nearer, what others do leaves
\* it where it is.
EachStepCounts == \A p \in Process :
    /\ TurnSteps(p) => TurnLeft(p)' < TurnLeft(p)
    /\ pc[p] # "idle" => TurnLeft(p)' < TurnLeft(p) \/ TurnLeft(p)' = TurnLeft(p)

LEMMA TurnStepCounts ==
    ASSUME RoleSessionsAssumption, SInv, NEW p \in Process, TurnSteps(p)
    PROVE  TurnLeft(p)' < TurnLeft(p)
<1> USE DEF SInv, SessionTypeOK, Goes, TurnLeft, StepsLeft
<1>1. CASE TakeSession(p) \/ SaveSession(p) \/ FailTurn(p)
  BY <1>1 DEF TakeSession, SaveSession, FailTurn
<1>2. CASE RunTurn(p)
  BY <1>2 DEF RunTurn
<1>3. CASE Grow(p) \/ GrowTooLong(p)
  BY <1>3 DEF Grow, GrowTooLong
<1>4. CASE WriteMemory(p) \/ Clear(p) \/ PopUsage(p)
  BY <1>4 DEF WriteMemory, Clear, PopUsage
<1> QED  BY <1>1, <1>2, <1>3, <1>4 DEF TurnSteps

\* A step of a process leaves where another one stands.
LEMMA OthersStay ==
    ASSUME SInv, NEW p \in Process, NEW q \in Process, p # q,
           BeginTurn(p) \/ TurnSteps(p) \/ OperatorRolls(p) \/ Killed(p)
    PROVE  pc'[q] = pc[q] /\ rolling'[q] = rolling[q]
<1> USE DEF SInv, SessionTypeOK, Goes
<1>1. CASE BeginTurn(p) \/ OperatorRolls(p) \/ Killed(p)
  BY <1>1 DEF BeginTurn, OperatorRolls, Killed
<1>2. CASE TakeSession(p) \/ RunTurn(p) \/ SaveSession(p) \/ FailTurn(p)
  BY <1>2 DEF TakeSession, RunTurn, SaveSession, FailTurn
<1>3. CASE Grow(p) \/ GrowTooLong(p) \/ WriteMemory(p) \/ Clear(p) \/ PopUsage(p)
  BY <1>3 DEF Grow, GrowTooLong, WriteMemory, Clear, PopUsage
<1> QED  BY <1>1, <1>2, <1>3 DEF TurnSteps

LEMMA StepsCount ==
    ASSUME RoleSessionsAssumption, SInv, SessionNext
    PROVE  EachStepCounts
<1>1. PICK p \in Process : BeginTurn(p) \/ TurnSteps(p) \/ OperatorRolls(p) \/ Killed(p)
  BY DEF SessionNext
<1>2. ASSUME NEW q \in Process
      PROVE  /\ TurnSteps(q) => TurnLeft(q)' < TurnLeft(q)
             /\ pc[q] # "idle" => TurnLeft(q)' < TurnLeft(q) \/ TurnLeft(q)' = TurnLeft(q)
  <2>1. TurnSteps(q) => TurnLeft(q)' < TurnLeft(q)
    BY TurnStepCounts
  <2>2. CASE p # q
    BY <1>1, <2>1, <2>2, OthersStay DEF TurnLeft
  <2>3. CASE p = q /\ (BeginTurn(p) \/ OperatorRolls(p))
    BY <2>1, <2>3 DEF BeginTurn, OperatorRolls, Goes
  <2>4. CASE p = q /\ Killed(p)
    BY <2>1, <2>4 DEF Killed, TurnLeft, StepsLeft, SInv, SessionTypeOK
  <2> QED  BY <1>1, <2>1, <2>2, <2>3, <2>4
<1> QED  BY <1>2 DEF EachStepCounts

LEMMA HolderStep ==
    ASSUME RoleSessionsAssumption, SInv, HolderInv, [SessionNext]_sessionVars
    PROVE  HolderInv'
<1>1. CASE UNCHANGED sessionVars
  BY <1>1 DEF sessionVars, diskVars, procVars, HolderInv
<1>2. CASE SessionNext
  <2>1. PICK p \in Process : BeginTurn(p) \/ TurnSteps(p) \/ OperatorRolls(p) \/ Killed(p)
    BY <1>2 DEF SessionNext
  <2> USE Bounds DEF SInv, SessionTypeOK, Goes, HolderInv, InTurn
  <2>2. CASE BeginTurn(p) \/ OperatorRolls(p) \/ Killed(p)
    BY <2>2 DEF BeginTurn, OperatorRolls, Killed, diskVars
  <2>3. CASE TakeSession(p) \/ SaveSession(p) \/ FailTurn(p)
    BY <2>3 DEF TakeSession, SaveSession, FailTurn
  <2>4. CASE RunTurn(p)
    BY <2>4 DEF RunTurn
  <2>5. CASE Grow(p) \/ GrowTooLong(p) \/ WriteMemory(p) \/ Clear(p) \/ PopUsage(p)
    BY <2>5 DEF Grow, GrowTooLong, WriteMemory, Clear, PopUsage
  <2> QED  BY <2>1, <2>2, <2>3, <2>4, <2>5 DEF TurnSteps
<1> QED  BY <1>1, <1>2

\* A turn and the roll it may go on to take a process at most eleven steps of its
\* own, no step of another process sets it back, and while it waits for the
\* session the one that keeps it waiting is at its own turn: what TurnsEnd rests
\* on, for any number of processes.
THEOREM TurnsAreShort ==
    /\ SessionSpec => [](TurnIsShort /\ WaitsForATurn)
    /\ SessionSpec => [][EachStepCounts]_sessionVars
<1>1. SessionInit => HolderInv
  BY DEF SessionInit, HolderInv
<1>2. SInv /\ HolderInv /\ [SessionNext]_sessionVars => HolderInv'
  BY RoleSessionsAssumption, HolderStep
<1>3. SInv /\ HolderInv => TurnIsShort /\ WaitsForATurn
  <2>1. SUFFICES ASSUME SInv, HolderInv
                 PROVE  TurnIsShort /\ WaitsForATurn
    OBVIOUS
  <2>2. TurnIsShort
    <3>1. ASSUME NEW p \in Process
          PROVE  TurnLeft(p) \in 0 .. 11 /\ (TurnLeft(p) = 0 <=> pc[p] = "idle")
      <4>1. pc[p] \in {"idle", "wait", "run", "save", "fail", "grow", "memo", "clear", "pop"}
        BY <2>1 DEF SInv, SessionTypeOK
      <4>2. /\ StepsLeft[pc[p]] \in 0 .. 7
            /\ StepsLeft[pc[p]] = 0 <=> pc[p] = "idle"
        BY <4>1 DEF StepsLeft
      <4> QED  BY <4>1, <4>2 DEF TurnLeft
    <3> QED  BY <3>1 DEF TurnIsShort
  <2>3. WaitsForATurn
    BY <2>1, RoleSessionsAssumption, Bounds
    DEF SInv, SessionTypeOK, HolderInv, WaitsForATurn, InTurn, TurnLeft, StepsLeft
  <2> QED  BY <2>2, <2>3
<1>4. SInv /\ [SessionNext]_sessionVars => [EachStepCounts]_sessionVars
  BY RoleSessionsAssumption, StepsCount
<1>5. SessionSpec => [][EachStepCounts]_sessionVars
  BY <1>4, AlwaysInv, PTL DEF SessionSpec
<1>6. SessionSpec => [](TurnIsShort /\ WaitsForATurn)
  BY <1>1, <1>2, <1>3, AlwaysInv, PTL DEF SessionSpec
<1> QED  BY <1>5, <1>6

-----------------------------------------------------------------------------
(***************************************************************************)
(* The lists of messages.                                                  *)
(***************************************************************************)
\* Behind k there are only answers, up to i.
Answers(c, k, i) == \A j \in k + 1 .. i : c[j].role = "tool"

\* An answer stands in the row behind the message with its call, and a call has
\* its answer in that row; except calls that are lost, and open calls of the
\* last message that makes any.
Paired(c, open, lost) ==
    /\ \A i \in 1 .. Len(c) : c[i].role = "tool" =>
           \E k \in 1 .. i - 1 : /\ c[k].role = "assistant" /\ Answers(c, k, i)
                                 /\ Head(c[i].calls) \in ToSet(c[k].calls)
    /\ \A k \in 1 .. Len(c) : \A x \in CalledBy(c[k]) :
           \/ x \in lost
           \/ \E j \in k + 1 .. Len(c) : Head(c[j].calls) = x /\ Answers(c, k, j)
           \/ x \in open /\ Answers(c, k, Len(c))

\* A conversation begins with its two prompts.
Kept(c, open, lost) ==
    /\ c \in Seq(Message) /\ Len(c) >= 2
    /\ c[1].role \in {"system", "user"} /\ c[2].role = "user"
    /\ Paired(c, open, lost)

Starts(c) == c[1] = Say("system") /\ c[2] = Say("user")

\* The last message that is no answer makes these calls.
Pending(c, open) ==
    \E k \in 1 .. Len(c) : /\ c[k].role = "assistant" /\ Answers(c, k, Len(c))
                           /\ open \subseteq ToSet(c[k].calls)

CallStage == {"calls", "proposeCalls", "lateCalls"}

\* The lists, the current one and the one kept; calls are open only while they
\* are worked through.
RowInv ==
    /\ at # "idle" => Kept(convo, ToSet(todo), abandoned)
    /\ prior # <<>> => Kept(prior, {}, abandoned)
    /\ todo # <<>> => at \in CallStage /\ Pending(convo, ToSet(todo))
    /\ ToSet(todo) \subseteq 1 .. ids

\* A crash of the first attempt is what takes the prompts away; only a rollout
\* loses calls or crashes so.
HeadInv ==
    /\ ~crashed => (at # "idle" => Starts(convo)) /\ (prior # <<>> => Starts(prior))
    /\ kind # "rollout" => abandoned = {} /\ ~crashed

\* How long the list is where the model is asked, and between the turns.
SizeInv ==
    /\ kind = "rollout" =>
           /\ at \in {"idle", "turn", "asked", "calls", "left"}
           /\ at = "asked" => Len(convo) <= SummarizeAt + 1 + 2 * nudges
    /\ kind = "openeta" =>
           /\ at \in {"idle", "turn", "asked", "calls", "left"}
           /\ at = "calls" => Len(todo) = 1
           /\ at = "turn" => \E m \in Nat : turn = 2 * m /\ Len(convo) <= 2 + 5 * m
           /\ at = "asked" => \E m \in Nat : /\ turn = 2 * m + 1 /\ turn < ToolBudget
                                             /\ Len(convo) <= 3 + 5 * m + 2 * nudges
           /\ at = "asked" => nudges \in {0, 1}
           /\ at = "calls" => \E m \in Nat : turn = 2 * m + 1 /\ Len(convo) <= 6 + 5 * m
    /\ kind = "capx" =>
           /\ at \in {"idle", "asked", "left"}
           /\ at = "asked" => turn <= MaxRepairs /\ Len(convo) = 2 + 2 * turn

ConversationInv == TypeOK /\ RowInv /\ HeadInv /\ SizeInv
-----------------------------------------------------------------------------
(* Every nonempty set of naturals has a least element. *)
LEMMA LeastOf ==
    ASSUME NEW S \in SUBSET Nat, S # {}
    PROVE  \E m \in S : \A n \in S : m <= n
<1>1. \E m \in S : \A n \in S : ~ (<<n, m>> \in OpToRel(<, Nat))
  BY NatLessThanWellFounded, WFMin
<1>2. PICK m \in S : \A n \in S : ~ (<<n, m>> \in OpToRel(<, Nat))
  BY <1>1
<1>3. ASSUME NEW n \in S PROVE m <= n
  <2>1. m \in Nat /\ n \in Nat
    OBVIOUS
  <2>2. n < m => <<n, m>> \in OpToRel(<, Nat)
    BY DEF OpToRel
  <2>3. ~(n < m)
    BY <2>2, <1>2
  <2> QED BY <2>1, <2>3
<1> QED BY <1>3

(* The messages, and what they call. *)
LEMMA Messages ==
    /\ Say("system") \in Message /\ Say("user") \in Message /\ Calls(<<>>) \in Message
    /\ Say("user").role = "user" /\ Say("system").role = "system"
    /\ CalledBy(Say("user")) = {} /\ CalledBy(Say("system")) = {} /\ CalledBy(Calls(<<>>)) = {}
    /\ ToSet(<<>>) = {} /\ Calls(<<>>).role = "assistant"
    /\ \A x \in Nat : /\ Answer(x) \in Message /\ Answer(x).role = "tool"
                      /\ Head(Answer(x).calls) = x /\ CalledBy(Answer(x)) = {}
    /\ \A cs \in Seq(Nat) : /\ Calls(cs) \in Message /\ Calls(cs).role = "assistant"
                            /\ CalledBy(Calls(cs)) = ToSet(cs)
BY DEF Say, Calls, Answer, Message, CalledBy, ToSet

(* What is lost more, or open more, is paired still. *)
LEMMA PairedMore ==
    ASSUME NEW c, NEW open, NEW lost, NEW open2, NEW lost2, Paired(c, open, lost),
           open \subseteq open2 \cup lost2, lost \subseteq lost2
    PROVE  Paired(c, open2, lost2)
BY DEF Paired

(* A message that is no answer is appended where no call is open. *)
LEMMA SayKeeps ==
    ASSUME NEW c, NEW lost, NEW m \in Message, Kept(c, {}, lost), m.role # "tool"
    PROVE  /\ Kept(Append(c, m), CalledBy(m), lost)
           /\ Len(Append(c, m)) = Len(c) + 1
           /\ Starts(c) => Starts(Append(c, m))
           /\ m.role = "assistant" => Pending(Append(c, m), CalledBy(m))
<1> DEFINE d == Append(c, m)
           n == Len(c)
<1>1. /\ c \in Seq(Message) /\ n \in Nat /\ n >= 2
      /\ c[1].role \in {"system", "user"} /\ c[2].role = "user"
      /\ Paired(c, {}, lost)
  BY DEF Kept
<1>2. /\ d \in Seq(Message) /\ Len(d) = n + 1 /\ d[n + 1] = m
      /\ \A i \in 1 .. n : d[i] = c[i]
  BY <1>1
<1> HIDE DEF d, n
<1>3. \A k \in 1 .. n : \A i \in 1 .. n : Answers(c, k, i) => Answers(d, k, i)
  BY <1>1, <1>2 DEF Answers
<1>4. ASSUME NEW i \in 1 .. Len(d), d[i].role = "tool"
      PROVE  \E k \in 1 .. i - 1 : /\ d[k].role = "assistant" /\ Answers(d, k, i)
                                   /\ Head(d[i].calls) \in ToSet(d[k].calls)
  <2>1. i \in 1 .. n /\ d[i] = c[i]
    BY <1>1, <1>2, <1>4
  <2>2. PICK k \in 1 .. i - 1 : /\ c[k].role = "assistant" /\ Answers(c, k, i)
                                /\ Head(c[i].calls) \in ToSet(c[k].calls)
    BY <1>1, <1>4, <2>1 DEF Paired, n
  <2>3. k \in 1 .. n /\ d[k] = c[k] /\ Answers(d, k, i)
    BY <1>1, <1>2, <1>3, <2>1, <2>2
  <2> QED BY <2>1, <2>2, <2>3
<1>5. ASSUME NEW k \in 1 .. Len(d), NEW x \in CalledBy(d[k])
      PROVE  \/ x \in lost
             \/ \E j \in k + 1 .. Len(d) : Head(d[j].calls) = x /\ Answers(d, k, j)
             \/ x \in CalledBy(m) /\ Answers(d, k, Len(d))
  <2>1. CASE k \in 1 .. n
    <3>1. x \in CalledBy(c[k])
      BY <1>2, <2>1
    <3>2. x \in lost \/ \E j \in k + 1 .. n : Head(c[j].calls) = x /\ Answers(c, k, j)
      BY <1>1, <2>1, <3>1 DEF Paired, n
    <3>3. ASSUME NEW j \in k + 1 .. n, Head(c[j].calls) = x, Answers(c, k, j)
          PROVE  j \in k + 1 .. Len(d) /\ Head(d[j].calls) = x /\ Answers(d, k, j)
      BY <1>1, <1>2, <1>3, <3>3
    <3> QED BY <3>2, <3>3
  <2>2. CASE k = n + 1
    BY <1>2, <2>2 DEF Answers
  <2> QED BY <1>1, <1>2, <2>1, <2>2
<1>6. Kept(d, CalledBy(m), lost)
  <2>1. Paired(d, CalledBy(m), lost)
    BY <1>4, <1>5 DEF Paired
  <2>2. d[1] = c[1] /\ d[2] = c[2]
    BY <1>1, <1>2
  <2> QED BY <1>1, <1>2, <2>1, <2>2 DEF Kept
<1>7. Starts(c) => Starts(d)
  BY <1>1, <1>2 DEF Starts
<1>8. m.role = "assistant" => Pending(d, CalledBy(m))
  BY <1>1, <1>2 DEF Pending, Answers, CalledBy
<1> QED BY <1>2, <1>6, <1>7, <1>8 DEF d

(* An open call is answered. *)
LEMMA AnswerKeeps ==
    ASSUME NEW c, NEW open, NEW lost, NEW x \in open, x \in Nat, NEW rest,
           Kept(c, open, lost), Pending(c, open), rest \subseteq open, open \subseteq rest \cup {x}
    PROVE  /\ Kept(Append(c, Answer(x)), rest, lost)
           /\ Len(Append(c, Answer(x))) = Len(c) + 1
           /\ Starts(c) => Starts(Append(c, Answer(x)))
           /\ Pending(Append(c, Answer(x)), rest)
<1> DEFINE m == Answer(x)
           d == Append(c, m)
           n == Len(c)
<1>1. /\ c \in Seq(Message) /\ n \in Nat /\ n >= 2
      /\ c[1].role \in {"system", "user"} /\ c[2].role = "user"
      /\ Paired(c, open, lost)
  BY DEF Kept
<1>2. m \in Message /\ m.role = "tool" /\ Head(m.calls) = x /\ CalledBy(m) = {}
  BY Messages
<1> HIDE DEF m
<1>3. /\ d \in Seq(Message) /\ Len(d) = n + 1 /\ d[n + 1] = m
      /\ \A i \in 1 .. n : d[i] = c[i]
  BY <1>1, <1>2
<1>4. PICK k0 \in 1 .. n : /\ c[k0].role = "assistant" /\ Answers(c, k0, n)
                           /\ open \subseteq ToSet(c[k0].calls)
  BY DEF Pending
<1> HIDE DEF d, n
<1>5. \A k \in 1 .. n : /\ \A i \in 1 .. n : Answers(c, k, i) => Answers(d, k, i)
                        /\ Answers(c, k, n) => Answers(d, k, n + 1)
  BY <1>1, <1>2, <1>3 DEF Answers
<1>6. k0 \in 1 .. n /\ d[k0] = c[k0] /\ Answers(d, k0, n + 1)
  BY <1>3, <1>4, <1>5
<1>7. ASSUME NEW i \in 1 .. Len(d), d[i].role = "tool"
      PROVE  \E k \in 1 .. i - 1 : /\ d[k].role = "assistant" /\ Answers(d, k, i)
                                   /\ Head(d[i].calls) \in ToSet(d[k].calls)
  <2>1. CASE i \in 1 .. n
    <3>1. PICK k \in 1 .. i - 1 : /\ c[k].role = "assistant" /\ Answers(c, k, i)
                                  /\ Head(c[i].calls) \in ToSet(c[k].calls)
      BY <1>1, <1>3, <1>7, <2>1 DEF Paired, n
    <3>2. k \in 1 .. n /\ d[k] = c[k] /\ Answers(d, k, i) /\ d[i] = c[i]
      BY <1>1, <1>3, <1>5, <2>1, <3>1
    <3> QED BY <3>1, <3>2
  <2>2. CASE i = n + 1
    <3>1. k0 \in 1 .. i - 1
      BY <1>1, <2>2
    <3> QED BY <1>2, <1>3, <1>4, <1>6, <2>2, <3>1
  <2> QED BY <1>1, <1>3, <2>1, <2>2
<1>8. ASSUME NEW k \in 1 .. Len(d), NEW y \in CalledBy(d[k])
      PROVE  \/ y \in lost
             \/ \E j \in k + 1 .. Len(d) : Head(d[j].calls) = y /\ Answers(d, k, j)
             \/ y \in rest /\ Answers(d, k, Len(d))
  <2>1. k \in 1 .. n /\ y \in CalledBy(c[k])
    BY <1>1, <1>2, <1>3
  <2>2. \/ y \in lost
        \/ \E j \in k + 1 .. n : Head(c[j].calls) = y /\ Answers(c, k, j)
        \/ y \in open /\ Answers(c, k, n)
    BY <1>1, <2>1 DEF Paired, n
  <2>3. ASSUME NEW j \in k + 1 .. n, Head(c[j].calls) = y, Answers(c, k, j)
        PROVE  j \in k + 1 .. Len(d) /\ Head(d[j].calls) = y /\ Answers(d, k, j)
    BY <1>1, <1>3, <1>5, <2>3
  <2>4. CASE y \in open /\ Answers(c, k, n)
    <3>1. Answers(d, k, Len(d)) /\ (y \in rest \/ y = x)
      BY <1>3, <1>5, <2>1, <2>4
    <3>2. n + 1 \in k + 1 .. Len(d) /\ Head(d[n + 1].calls) = x
      BY <1>2, <1>3
    <3> QED BY <1>3, <3>1, <3>2
  <2> QED BY <2>2, <2>3, <2>4
<1>9. Kept(d, rest, lost)
  <2>1. Paired(d, rest, lost)
    BY <1>7, <1>8 DEF Paired
  <2>2. d[1] = c[1] /\ d[2] = c[2]
    BY <1>1, <1>3
  <2> QED BY <1>1, <1>3, <2>1, <2>2 DEF Kept
<1>10. Starts(c) => Starts(d)
  BY <1>1, <1>3 DEF Starts
<1>11. Pending(d, rest)
  <2>1. k0 \in 1 .. Len(d)
    BY <1>1, <1>3
  <2> QED BY <1>3, <1>4, <1>6, <2>1 DEF Pending
<1> QED BY <1>3, <1>9, <1>10, <1>11 DEF d, m
(* Where the recent part begins: behind the answers its window begins with. *)
LEMMA SplitIs ==
    ASSUME NEW c \in Seq(Message), Len(c) > KeepRecent + 2
    PROVE  /\ SplitAt(c) \in Len(c) - KeepRecent + 1 .. Len(c) + 1
           /\ SplitAt(c) # Len(c) + 1 => c[SplitAt(c)].role # "tool"
<1> DEFINE first == Len(c) - KeepRecent + 1
           Ends == {k \in first .. Len(c) + 1 : k = Len(c) + 1 \/ c[k].role # "tool"}
           IsSplit(k) == /\ k = Len(c) + 1 \/ c[k].role # "tool"
                         /\ \A j \in first .. k - 1 : c[j].role = "tool"
<1>1. Len(c) \in Nat /\ KeepRecent \in Nat /\ first \in Nat /\ first <= Len(c) + 1
  BY ConversationAssumption
<1>2. PICK m \in Ends : \A n \in Ends : m <= n
  <2>1. Ends \in SUBSET Nat /\ Len(c) + 1 \in Ends
    BY <1>1
  <2> HIDE DEF Ends
  <2> QED BY <2>1, LeastOf
<1>3. m \in first .. Len(c) + 1 /\ IsSplit(m)
  BY <1>1, <1>2
<1>4. SplitAt(c) = CHOOSE k \in first .. Len(c) + 1 : IsSplit(k)
  BY DEF SplitAt
<1> HIDE DEF first, IsSplit
<1>5. SplitAt(c) \in first .. Len(c) + 1 /\ IsSplit(SplitAt(c))
  BY <1>3, <1>4
<1> QED BY <1>5 DEF first, IsSplit

(* A list that is shortened keeps its head and no answer without its call. *)
LEMMA ShortKeeps ==
    ASSUME NEW c, NEW lost, Kept(c, {}, lost), Len(c) > SummarizeAt
    PROVE  /\ Kept(Summarized(c), {}, lost)
           /\ Len(Summarized(c)) <= SummarizeAt
           /\ Starts(c) => Starts(Summarized(c))
<1> DEFINE d == Summarized(c)
           n == Len(c)
           s == SplitAt(c)
           tail == SubSeq(c, s, n)
           head == SubSeq(c, 1, 2)
           by == s - 4
<1>1. /\ c \in Seq(Message) /\ n \in Nat /\ n >= 2
      /\ c[1].role \in {"system", "user"} /\ c[2].role = "user"
      /\ Paired(c, {}, lost)
  BY DEF Kept
<1>2. KeepRecent \in Nat /\ SummarizeAt \in Nat /\ n > KeepRecent + 2
  BY ConversationAssumption, SummaryAssumption
<1>3. s \in n - KeepRecent + 1 .. n + 1 /\ (s # n + 1 => c[s].role # "tool")
  BY <1>1, <1>2, SplitIs
<1>4. d = head \o <<Say("user")>> \o tail
  <2>1. ~(Len(c) <= KeepRecent + 2)
    BY <1>2
  <2> QED BY <2>1, Zenon DEF Summarized
<1> HIDE DEF s, d
<1>5. /\ head \in Seq(Message) /\ Len(head) = 2
      /\ head[1] = c[1] /\ head[2] = c[2]
  BY <1>1
<1>6. /\ tail \in Seq(Message) /\ Len(tail) = n + 1 - s
      /\ \A i \in 1 .. n + 1 - s : tail[i] = c[s + i - 1]
  <2>1. s \in 1 .. n + 1 /\ n \in s - 1 .. n
    BY <1>2, <1>3
  <2>2. IF s <= n THEN n - s + 1 = n + 1 - s ELSE 0 = n + 1 - s
    BY <2>1
  <2> QED BY <1>1, <2>1, <2>2, SubSeqProperties
<1> HIDE DEF head, tail
<1>7. /\ d \in Seq(Message) /\ Len(d) = n + 4 - s
      /\ d[1] = c[1] /\ d[2] = c[2] /\ d[3] = Say("user")
      /\ \A i \in 4 .. n + 4 - s : d[i] = c[i + by]
  <2> DEFINE h3 == head \o <<Say("user")>>
  <2>1. /\ h3 \in Seq(Message) /\ Len(h3) = 3
        /\ h3[1] = c[1] /\ h3[2] = c[2] /\ h3[3] = Say("user")
    <3>1. /\ <<Say("user")>> \in Seq(Message) /\ Len(<<Say("user")>>) = 1
          /\ <<Say("user")>>[1] = Say("user")
      BY Messages
    <3> DEFINE one == <<Say("user")>>
    <3> HIDE DEF one
    <3>2. /\ head \o one \in Seq(Message) /\ Len(head \o one) = Len(head) + Len(one)
          /\ \A i \in 1 .. Len(head) + Len(one) :
                (head \o one)[i] = IF i <= Len(head) THEN head[i] ELSE one[i - Len(head)]
      BY <1>5, <3>1, ConcatProperties DEF one
    <3>3. Len(head) = 2 /\ Len(one) = 1 /\ one[1] = Say("user") /\ h3 = head \o one
      BY <1>5 DEF one
    <3> HIDE DEF h3
    <3> QED BY <1>5, <3>2, <3>3
  <2>2. d = h3 \o tail
    BY <1>4
  <2> HIDE DEF h3
  <2>3. /\ d \in Seq(Message) /\ Len(d) = 3 + (n + 1 - s)
        /\ d[1] = h3[1] /\ d[2] = h3[2] /\ d[3] = h3[3]
        /\ \A i \in 4 .. 3 + (n + 1 - s) : d[i] = tail[i - 3]
    <3>1. /\ h3 \o tail \in Seq(Message) /\ Len(h3 \o tail) = Len(h3) + Len(tail)
          /\ \A i \in 1 .. Len(h3) + Len(tail) :
                (h3 \o tail)[i] = IF i <= Len(h3) THEN h3[i] ELSE tail[i - Len(h3)]
      BY <1>6, <2>1, ConcatProperties
    <3>2. Len(h3) = 3 /\ Len(tail) = n + 1 - s /\ n + 1 - s \in Nat
      BY <1>6, <2>1
    <3>3. \A i \in 1 .. 3 : d[i] = h3[i]
      BY <2>2, <3>1, <3>2
    <3>4. ASSUME NEW i \in 4 .. 3 + (n + 1 - s) PROVE d[i] = tail[i - 3]
      BY <2>2, <3>1, <3>2
    <3> QED BY <2>2, <3>1, <3>2, <3>3, <3>4
  <2>4. ASSUME NEW i \in 4 .. n + 4 - s PROVE d[i] = c[i + by]
    <3>1. i - 3 \in 1 .. n + 1 - s /\ i \in 4 .. 3 + (n + 1 - s)
      BY <1>3
    <3>2. d[i] = tail[i - 3] /\ tail[i - 3] = c[s + (i - 3) - 1]
      BY <1>6, <2>3, <3>1
    <3>3. s + (i - 3) - 1 = i + by
      BY <1>3
    <3> QED BY <3>2, <3>3
  <2> QED BY <1>1, <1>2, <1>3, <2>1, <2>3, <2>4
<1>8. by \in Nat /\ Len(d) = n - by
  BY <1>2, <1>3, <1>7
<1>9. \A i \in 4 .. n - by : d[i] = c[i + by] /\ i + by \in 1 .. n
  BY <1>1, <1>7, <1>8
<1>10. n - by >= 4 => c[4 + by].role # "tool"
  BY <1>3
<1>11. n - by \in Nat /\ n - by >= 3
  BY <1>3
<1> HIDE DEF by, n
<1>12. \A i \in 1 .. 3 : d[i].role # "tool" /\ CalledBy(d[i]) = {}
  BY <1>1, <1>7, Messages DEF CalledBy
<1>13. \A k, i \in 4 .. n - by : Answers(c, k + by, i + by) => Answers(d, k, i)
  <2> SUFFICES ASSUME NEW k \in 4 .. n - by, NEW i \in 4 .. n - by,
                      Answers(c, k + by, i + by), NEW j \in k + 1 .. i
               PROVE  d[j].role = "tool"
    BY DEF Answers
  <2>1. j \in 4 .. n - by /\ j + by \in k + by + 1 .. i + by
    BY <1>8, <1>11
  <2> QED BY <1>9, <2>1 DEF Answers
<1>14. ASSUME NEW i \in 1 .. Len(d), d[i].role = "tool"
       PROVE  \E k \in 1 .. i - 1 : /\ d[k].role = "assistant" /\ Answers(d, k, i)
                                    /\ Head(d[i].calls) \in ToSet(d[k].calls)
  <2>1. i \in 4 .. n - by
    BY <1>8, <1>12, <1>14
  <2>2. PICK q \in 1 .. Len(c) : q = i + by /\ d[i] = c[q]
    BY <1>9, <2>1 DEF n
  <2>3. PICK k \in 1 .. q - 1 : /\ c[k].role = "assistant" /\ Answers(c, k, q)
                               /\ Head(c[q].calls) \in ToSet(c[k].calls)
    BY <1>1, <1>14, <2>2 DEF Paired
  <2>4. k >= 4 + by
    <3> SUFFICES ASSUME k < 4 + by PROVE FALSE
      BY <1>8
    <3>1. 4 + by \in k + 1 .. q
      BY <1>8, <2>1, <2>2
    <3> QED BY <1>10, <1>11, <2>1, <2>3, <3>1 DEF Answers
  <2>5. k - by \in 4 .. n - by /\ k - by \in 1 .. i - 1 /\ (k - by) + by = k
    BY <1>8, <2>2, <2>4
  <2>6. Answers(d, k - by, i) /\ d[k - by] = c[k]
    BY <1>9, <1>13, <2>1, <2>2, <2>3, <2>5
  <2> QED BY <2>2, <2>3, <2>5, <2>6
<1>15. ASSUME NEW k \in 1 .. Len(d), NEW x \in CalledBy(d[k])
       PROVE  x \in lost \/ \E j \in k + 1 .. Len(d) : Head(d[j].calls) = x /\ Answers(d, k, j)
  <2>1. k \in 4 .. n - by
    BY <1>8, <1>11, <1>12, <1>15
  <2>2. x \in CalledBy(c[k + by]) /\ k + by \in 1 .. n
    BY <1>9, <2>1
  <2>3. \/ x \in lost
        \/ \E j \in k + by + 1 .. n : Head(c[j].calls) = x /\ Answers(c, k + by, j)
    BY <1>1, <2>2 DEF Paired, n
  <2>4. ASSUME NEW j \in k + by + 1 .. n, Head(c[j].calls) = x, Answers(c, k + by, j)
        PROVE  \E i \in k + 1 .. Len(d) : Head(d[i].calls) = x /\ Answers(d, k, i)
    <3>1. j - by \in k + 1 .. Len(d) /\ j - by \in 4 .. n - by /\ (j - by) + by = j
      BY <1>1, <1>8, <2>1
    <3>2. d[j - by] = c[j] /\ Answers(d, k, j - by)
      BY <1>9, <1>13, <2>1, <2>4, <3>1
    <3> QED BY <2>4, <3>1, <3>2
  <2> QED BY <2>3, <2>4
<1>16. Kept(d, {}, lost)
  <2>1. Paired(d, {}, lost)
    BY <1>14, <1>15 DEF Paired
  <2> QED BY <1>1, <1>7, <1>8, <1>11, <2>1 DEF Kept
<1>17. Len(d) <= SummarizeAt
  BY <1>1, <1>2, <1>3, <1>7, SummaryAssumption
<1>18. Starts(c) => Starts(d)
  BY <1>7 DEF Starts
<1> QED BY <1>16, <1>17, <1>18 DEF d
-----------------------------------------------------------------------------
(***************************************************************************)
(* What the steps do to the lists.                                         *)
(***************************************************************************)
At == {"idle", "turn", "asked", "calls", "left",
       "propose", "proposeCalls", "synthesis", "lastReply",
       "over", "latePropose", "lateCalls", "lateSynthesis"}

Prompts == <<Say("system"), Say("user")>>

LEMMA FreshKept ==
    ASSUME NEW lost
    PROVE  Kept(Prompts, {}, lost) /\ Starts(Prompts) /\ Prompts # <<>> /\ Len(Prompts) = 2
<1> DEFINE c == Prompts
<1>1. /\ c \in Seq(Message) /\ Len(c) = 2 /\ c[1] = Say("system") /\ c[2] = Say("user")
  BY Messages DEF Prompts
<1>2. Say("system").role = "system" /\ Say("user").role = "user"
  BY Messages
<1> HIDE DEF c
<1>3. \A i \in 1 .. Len(c) : c[i].role # "tool" /\ CalledBy(c[i]) = {}
  BY <1>1, Messages
<1>4. Paired(c, {}, lost)
  BY <1>3 DEF Paired
<1>5. c # <<>>
  BY <1>1, EmptySeq
<1>6. Starts(c)
  BY <1>1, <1>2 DEF Starts
<1>7. Kept(c, {}, lost)
  BY <1>1, <1>2, <1>4, SMTT(30) DEF Kept
<1> QED BY <1>1, <1>5, <1>6, <1>7 DEF c

\* What is said without a call.
Noted(c) == {c, Append(c, Say("user")), Append(c, Calls(<<>>)),
             c \o <<Calls(<<>>), Say("user")>>}

LEMMA TwoAppended ==
    ASSUME NEW c \in Seq(Message), NEW a \in Message, NEW b \in Message
    PROVE  /\ c \o <<a, b>> = Append(Append(c, a), b)
           /\ Len(c \o <<a, b>>) = Len(c) + 2
OBVIOUS

LEMMA NotedKeeps ==
    ASSUME NEW c, NEW lost, Kept(c, {}, lost), NEW d \in Noted(c)
    PROVE  /\ Kept(d, {}, lost) /\ (Starts(c) => Starts(d))
           /\ d # <<>> /\ Len(d) \in Len(c) .. Len(c) + 2
<1>1. ASSUME NEW e, Kept(e, {}, lost), NEW m \in {Say("user"), Calls(<<>>)}
      PROVE  /\ Kept(Append(e, m), {}, lost) /\ (Starts(e) => Starts(Append(e, m)))
             /\ Len(Append(e, m)) = Len(e) + 1
  <2>1. m \in Message /\ m.role # "tool" /\ CalledBy(m) = {}
    BY Messages
  <2> QED BY <1>1, <2>1, SayKeeps
<1>2. c \in Seq(Message) /\ Len(c) \in Nat /\ Len(c) >= 2
  BY DEF Kept
<1>3. CASE d = c
  BY <1>2, <1>3
<1>4. ASSUME NEW m \in {Say("user"), Calls(<<>>)}, d = Append(c, m)
      PROVE  /\ Kept(d, {}, lost) /\ (Starts(c) => Starts(d))
             /\ d # <<>> /\ Len(d) \in Len(c) .. Len(c) + 2
  <2>1. Kept(d, {}, lost) /\ (Starts(c) => Starts(d)) /\ Len(d) = Len(c) + 1
    BY <1>1, <1>4
  <2>2. d # <<>>
    BY <2>1
  <2> QED BY <1>2, <2>1, <2>2
<1>5. CASE d = c \o <<Calls(<<>>), Say("user")>>
  <2> DEFINE e == Append(c, Calls(<<>>))
  <2>1. d = Append(e, Say("user")) /\ Len(d) = Len(c) + 2
    BY <1>5
  <2>2. Kept(e, {}, lost) /\ (Starts(c) => Starts(e))
    BY <1>1
  <2> HIDE DEF e
  <2>3. Kept(d, {}, lost) /\ (Starts(c) => Starts(d))
    BY <1>1, <2>1, <2>2
  <2>4. d # <<>>
    BY <2>1
  <2> QED BY <1>2, <2>1, <2>3, <2>4
<1> QED BY <1>3, <1>4, <1>5 DEF Noted

(* A step inside a conversation. *)
LEMMA ListMoves ==
    ASSUME TypeOK, RowInv, HeadInv, UNCHANGED <<kind, prior, crashed>>,
           at' \in At \ {"idle"}, {turn', nudges', attempt', ids'} \subseteq Nat,
           said' \in BOOLEAN, proposed' \in BOOLEAN,
           abandoned \subseteq abandoned', abandoned' \subseteq 1 .. ids',
           kind # "rollout" => abandoned' = abandoned,
           todo' \in Seq(Nat), ToSet(todo') \subseteq 1 .. ids',
           Kept(convo', ToSet(todo'), abandoned'), ~crashed => Starts(convo'),
           todo' # <<>> => at' \in CallStage /\ Pending(convo', ToSet(todo'))
    PROVE  TypeOK' /\ RowInv' /\ HeadInv'
<1>1. TypeOK'
  BY DEF TypeOK, ChatTypeOK, Kept, At
<1>2. prior # <<>> => Kept(prior, {}, abandoned')
  BY PairedMore DEF RowInv, Kept
<1>3. RowInv'
  BY <1>2 DEF RowInv
<1>4. HeadInv'
  BY DEF HeadInv
<1> QED BY <1>1, <1>3, <1>4

(* A conversation is left, and something or nothing of it kept. *)
LEMMA ListLeft ==
    ASSUME TypeOK, RowInv, HeadInv, UNCHANGED kind, NEW messages, Leave(messages),
           attempt' \in Nat, ids' \in Nat, said' \in BOOLEAN, proposed' \in BOOLEAN,
           crashed' \in BOOLEAN, abandoned' \subseteq 1 .. ids',
           kind # "rollout" => abandoned' = {} /\ ~crashed',
           messages # <<>> => Kept(messages, {}, abandoned'),
           messages # <<>> /\ ~crashed' => Starts(messages)
    PROVE  TypeOK' /\ RowInv' /\ HeadInv'
<1>1. /\ prior' = messages /\ at' = "idle" /\ convo' = <<>>
      /\ turn' = 0 /\ todo' = <<>> /\ nudges' = 0
  BY DEF Leave
<1>2. messages \in Seq(Message)
  <2>1. <<>> \in Seq(Message)
    OBVIOUS
  <2> QED BY <2>1 DEF Kept
<1>3. TypeOK'
  BY <1>1, <1>2 DEF TypeOK, ChatTypeOK
<1>4. RowInv'
  BY <1>1, Messages DEF RowInv
<1>5. HeadInv'
  BY <1>1 DEF HeadInv
<1> QED BY <1>3, <1>4, <1>5

(* Where no call is open. *)
LEMMA Quiet ==
    ASSUME TypeOK, RowInv, HeadInv, at \notin CallStage \/ todo = <<>>
    PROVE  /\ todo = <<>> /\ ToSet(todo) = {}
           /\ at # "idle" => /\ Kept(convo, {}, abandoned) /\ (~crashed => Starts(convo))
                             /\ convo # <<>>
<1>1. todo = <<>>
  BY DEF RowInv
<1>2. ToSet(todo) = {}
  BY <1>1, Messages
<1>3. at # "idle" => Kept(convo, {}, abandoned) /\ (~crashed => Starts(convo))
  BY <1>2 DEF RowInv, HeadInv
<1>4. Kept(convo, {}, abandoned) => convo # <<>>
  BY DEF Kept
<1> QED BY <1>1, <1>2, <1>3, <1>4

LEMMA NoteStep ==
    ASSUME TypeOK, RowInv, HeadInv, at # "idle", at \notin CallStage \/ todo = <<>>,
           UNCHANGED <<kind, prior, crashed, abandoned, todo>>, convo' \in Noted(convo),
           at' \in At \ {"idle"}, {turn', nudges', attempt', ids'} \subseteq Nat, ids <= ids',
           said' \in BOOLEAN, proposed' \in BOOLEAN
    PROVE  TypeOK' /\ RowInv' /\ HeadInv'
<1>1. /\ todo = <<>> /\ ToSet(todo) = {}
      /\ Kept(convo, {}, abandoned) /\ (~crashed => Starts(convo))
  BY Quiet
<1>2. Kept(convo', {}, abandoned) /\ (~crashed => Starts(convo'))
  BY <1>1, NotedKeeps
<1>3. abandoned \subseteq 1 .. ids' /\ todo \in Seq(Nat)
  BY DEF TypeOK
<1> QED BY <1>1, <1>2, <1>3, ListMoves

LEMMA CallStep ==
    ASSUME TypeOK, RowInv, HeadInv, at \in At \ {"idle"}, at \notin CallStage,
           UNCHANGED <<kind, prior, crashed, abandoned>>,
           NEW cs \in Seq(Nat), ToSet(cs) \subseteq 1 .. ids',
           todo' = cs, convo' = Append(convo, Calls(cs)),
           at' \in CallStage, {turn', nudges', attempt', ids'} \subseteq Nat, ids <= ids',
           said' \in BOOLEAN, proposed' \in BOOLEAN
    PROVE  TypeOK' /\ RowInv' /\ HeadInv'
<1>1. /\ Kept(convo, {}, abandoned) /\ (~crashed => Starts(convo))
  BY Quiet
<1>2. /\ Calls(cs) \in Message /\ Calls(cs).role = "assistant" /\ CalledBy(Calls(cs)) = ToSet(cs)
  BY Messages
<1>3. /\ Kept(convo', ToSet(cs), abandoned) /\ (~crashed => Starts(convo'))
      /\ Pending(convo', ToSet(cs))
  BY <1>1, <1>2, SayKeeps
<1>4. abandoned \subseteq 1 .. ids'
  BY DEF TypeOK
<1>5. at' \in At \ {"idle"}
  BY DEF At, CallStage
<1> QED BY <1>3, <1>4, <1>5, ListMoves

(* The first of the calls that are open, and the others. *)
LEMMA HeadAndRest ==
    ASSUME NEW cs \in Seq(Nat), cs # <<>>
    PROVE  /\ Head(cs) \in Nat /\ Head(cs) \in ToSet(cs) /\ Tail(cs) \in Seq(Nat)
           /\ ToSet(Tail(cs)) \subseteq ToSet(cs)
           /\ ToSet(cs) \subseteq ToSet(Tail(cs)) \cup {Head(cs)}
<1>1. Len(cs) \in Nat /\ Len(cs) >= 1 /\ Head(cs) = cs[1]
  BY EmptySeq
<1>2. /\ Tail(cs) \in Seq(Nat) /\ Len(Tail(cs)) = Len(cs) - 1
      /\ \A i \in 1 .. Len(cs) - 1 : Tail(cs)[i] = cs[i + 1]
  BY <1>1
<1>3. ASSUME NEW i \in 1 .. Len(cs) PROVE cs[i] = Head(cs) \/ cs[i] \in ToSet(Tail(cs))
  <2>1. CASE i = 1
    BY <2>1
  <2>2. CASE i # 1
    <3>1. i - 1 \in 1 .. Len(cs) - 1 /\ (i - 1) + 1 = i
      BY <2>2
    <3>2. i - 1 \in DOMAIN Tail(cs) /\ Tail(cs)[i - 1] = cs[i]
      BY <3>1
    <3> QED BY <3>2 DEF ToSet
  <2> QED BY <2>1, <2>2
<1>4. ASSUME NEW i \in DOMAIN Tail(cs) PROVE Tail(cs)[i] \in ToSet(cs)
  <2>1. i + 1 \in DOMAIN cs /\ Tail(cs)[i] = cs[i + 1]
    BY <1>1
  <2> QED BY <2>1 DEF ToSet
<1>5. 1 \in DOMAIN cs /\ DOMAIN cs = 1 .. Len(cs)
  BY <1>1
<1>6. Head(cs) \in ToSet(cs) /\ Head(cs) \in Nat
  BY DEF ToSet
<1>7. ToSet(Tail(cs)) \subseteq ToSet(cs)
  BY DEF ToSet
<1>8. ToSet(cs) \subseteq ToSet(Tail(cs)) \cup {Head(cs)}
  <2>1. \A y \in ToSet(cs) : \E i \in 1 .. Len(cs) : y = cs[i]
    BY DEF ToSet
  <2> QED BY <1>3, <2>1
<1> QED BY <1>2, <1>6, <1>7, <1>8

LEMMA AnswerStep ==
    ASSUME TypeOK, RowInv, HeadInv, at \in CallStage, todo # <<>>,
           UNCHANGED <<kind, prior, crashed, ids>>,
           NEW rest \in {Tail(todo), <<>>}, todo' = rest,
           \/ rest = Tail(todo) /\ abandoned' = abandoned
           \/ kind = "rollout" /\ abandoned' = abandoned \cup ToSet(Tail(todo)),
           convo' = Append(convo, Answer(Head(todo))),
           at' \in At \ {"idle"}, rest # <<>> => at' \in CallStage,
           {turn', nudges', attempt'} \subseteq Nat,
           said' \in BOOLEAN, proposed' \in BOOLEAN
    PROVE  TypeOK' /\ RowInv' /\ HeadInv'
<1> DEFINE x == Head(todo)
           others == ToSet(Tail(todo))
<1>1. /\ x \in Nat /\ x \in ToSet(todo) /\ Tail(todo) \in Seq(Nat)
      /\ others \subseteq ToSet(todo) /\ ToSet(todo) \subseteq others \cup {x}
  BY HeadAndRest DEF TypeOK
<1>2. /\ Kept(convo, ToSet(todo), abandoned) /\ Pending(convo, ToSet(todo))
      /\ ~crashed => Starts(convo)
  BY DEF RowInv, HeadInv, CallStage
<1>3. /\ ids \in Nat /\ ToSet(todo) \subseteq 1 .. ids /\ abandoned \subseteq 1 .. ids
  BY DEF TypeOK, RowInv
<1> HIDE DEF x, others
<1>4. /\ Kept(convo', others, abandoned) /\ (~crashed => Starts(convo'))
      /\ Pending(convo', others)
  BY <1>1, <1>2, AnswerKeeps DEF x
<1>5. /\ abandoned \subseteq abandoned' /\ abandoned' \subseteq 1 .. ids'
      /\ kind # "rollout" => abandoned' = abandoned
      /\ others \subseteq ToSet(rest) \cup abandoned'
  BY <1>1, <1>3 DEF others
<1>6. /\ rest \in Seq(Nat) /\ ToSet(rest) \subseteq 1 .. ids'
      /\ rest # <<>> => ToSet(rest) = others
  <2>1. CASE rest = <<>>
    BY <2>1, Messages
  <2>2. CASE rest = Tail(todo)
    BY <1>1, <1>3, <2>2 DEF others
  <2> QED BY <2>1, <2>2
<1>7. Kept(convo', ToSet(rest), abandoned')
  BY <1>4, <1>5, PairedMore DEF Kept
<1>8. {turn', nudges', attempt', ids'} \subseteq Nat
  BY <1>3
<1> QED BY <1>4, <1>5, <1>6, <1>7, <1>8, ListMoves

(* A conversation begins, or goes on with one more message. *)
LEMMA StartStep ==
    ASSUME TypeOK, RowInv, HeadInv, at = "idle",
           UNCHANGED <<kind, prior, crashed, abandoned, todo>>,
           convo' = Prompts \/ (prior # <<>> /\ convo' = Append(prior, Say("user"))),
           at' \in At \ {"idle"}, {turn', nudges', attempt', ids'} \subseteq Nat,
           abandoned = {} \/ ids <= ids',
           said' \in BOOLEAN, proposed' \in BOOLEAN
    PROVE  TypeOK' /\ RowInv' /\ HeadInv'
<1>1. todo = <<>> /\ ToSet(todo) = {}
  BY Quiet DEF CallStage
<1>2. CASE convo' = Prompts
  <2>1. Kept(convo', {}, abandoned) /\ Starts(convo')
    BY <1>2, FreshKept
  <2>2. abandoned \subseteq 1 .. ids' /\ todo \in Seq(Nat)
    BY DEF TypeOK
  <2> QED BY <1>1, <2>1, <2>2, ListMoves
<1>3. CASE prior # <<>> /\ convo' = Append(prior, Say("user"))
  <2>1. Kept(prior, {}, abandoned) /\ (~crashed => Starts(prior))
    BY <1>3 DEF RowInv, HeadInv
  <2>2. Kept(convo', {}, abandoned) /\ (~crashed => Starts(convo'))
    BY <1>3, <2>1, NotedKeeps DEF Noted
  <2>3. abandoned \subseteq 1 .. ids' /\ todo \in Seq(Nat)
    BY DEF TypeOK
  <2> QED BY <1>1, <2>2, <2>3, ListMoves
<1> QED BY <1>2, <1>3
LEMMA LeaveStep ==
    ASSUME TypeOK, RowInv, HeadInv, UNCHANGED kind, NEW messages, Leave(messages),
           UNCHANGED <<ids, abandoned>>, attempt' \in Nat,
           said' \in BOOLEAN, proposed' \in BOOLEAN, crashed' \in BOOLEAN,
           kind # "rollout" => ~crashed',
           messages # <<>> => Kept(messages, {}, abandoned),
           messages # <<>> /\ ~crashed' => Starts(messages)
    PROVE  TypeOK' /\ RowInv' /\ HeadInv'
<1>1. ids' \in Nat /\ abandoned' \subseteq 1 .. ids'
  BY DEF TypeOK
<1>2. kind # "rollout" => abandoned' = {}
  BY DEF HeadInv
<1> QED BY <1>1, <1>2, ListLeft

(* The calls of a message are new. *)
LEMMA BatchIs ==
    ASSUME ids \in Nat, NEW n \in Nat \ {0}
    PROVE  /\ [k \in 1 .. n |-> ids + k] \in Seq(Nat)
           /\ ToSet([k \in 1 .. n |-> ids + k]) \subseteq 1 .. ids + n
BY DEF ToSet

LEMMA Numbers ==
    ASSUME TypeOK
    PROVE  /\ turn \in Nat /\ nudges \in Nat /\ attempt \in Nat /\ ids \in Nat
           /\ said \in BOOLEAN /\ proposed \in BOOLEAN /\ crashed \in BOOLEAN
           /\ at \in At /\ todo \in Seq(Nat) /\ convo \in Seq(Message)
           /\ abandoned \subseteq 1 .. ids /\ ToolBudget \in Nat \ {0}
           /\ CallsPerTurn \in Nat \ {0} /\ MaxHops \in Nat \ {0} /\ MaxRepairs \in Nat
           /\ SummarizeAt \in Nat
BY ConversationAssumption, RepairsAssumption, HopsAssumption DEF TypeOK, ChatTypeOK, At

LEMMA RolloutKept ==
    ASSUME TypeOK, RowInv, HeadInv, kind = "rollout", ConvNext,
           UNCHANGED <<said, proposed, kind>>
    PROVE  TypeOK' /\ RowInv' /\ HeadInv'
<1>1. CASE StartAttempt
  <2>1. convo' = Prompts \/ (prior # <<>> /\ convo' = Append(prior, Say("user")))
    BY <1>1 DEF StartAttempt, Prompts
  <2> QED BY <1>1, <2>1, Numbers, StartStep DEF StartAttempt, At
<1>2. CASE Ask
  <2> DEFINE short == IF Len(convo) > SummarizeAt THEN Summarized(convo) ELSE convo
  <2>1. /\ convo' = Reflected(short) /\ at = "turn" /\ at' = "asked" /\ nudges' = 0
        /\ UNCHANGED <<prior, turn, todo, attempt, ids, crashed, abandoned>>
    BY <1>2 DEF Ask
  <2>2. /\ todo = <<>> /\ ToSet(todo) = {}
        /\ Kept(convo, {}, abandoned) /\ (~crashed => Starts(convo))
    BY <2>1, Quiet DEF CallStage
  <2>3. Kept(short, {}, abandoned) /\ (~crashed => Starts(short))
    BY <2>2, ShortKeeps
  <2>4. Reflected(short) \in Noted(short)
    BY DEF Reflected, Noted
  <2> HIDE DEF short
  <2>5. Kept(convo', {}, abandoned') /\ (~crashed => Starts(convo'))
    BY <2>1, <2>3, <2>4, NotedKeeps
  <2>6. /\ {turn', nudges', attempt', ids'} \subseteq Nat /\ at' \in At \ {"idle"}
        /\ abandoned' \subseteq 1 .. ids' /\ todo' \in Seq(Nat)
        /\ said' \in BOOLEAN /\ proposed' \in BOOLEAN
    BY <2>1, Numbers DEF At
  <2> QED BY <2>1, <2>2, <2>5, <2>6, ListMoves
<1>3. CASE ModelCalls
  <2>1. PICK n \in 1 .. CallsPerTurn :
            /\ todo' = [k \in 1 .. n |-> ids + k] /\ ids' = ids + n
            /\ convo' = Append(convo, Calls([k \in 1 .. n |-> ids + k]))
    BY <1>3 DEF ModelCalls
  <2>2. n \in Nat \ {0} /\ ids <= ids' /\ {turn', nudges', attempt', ids'} \subseteq Nat
    BY <1>3, <2>1, Numbers DEF ModelCalls
  <2>3. /\ [k \in 1 .. n |-> ids + k] \in Seq(Nat)
        /\ ToSet([k \in 1 .. n |-> ids + k]) \subseteq 1 .. ids'
    BY <2>1, <2>2, BatchIs, Numbers
  <2> QED BY <1>3, <2>1, <2>2, <2>3, Numbers, CallStep DEF ModelCalls, CallStage
<1>4. CASE ModelTalks
  <2>1. convo' \in Noted(convo) /\ at = "asked" /\ at' \in {"asked", "left"}
    BY <1>4 DEF ModelTalks, Noted
  <2>2. {turn', nudges', attempt', ids'} \subseteq Nat /\ ids <= ids'
    BY <1>4, Numbers DEF ModelTalks
  <2> QED BY <1>4, <2>1, <2>2, Numbers, NoteStep DEF ModelTalks, At, CallStage
<1>5. CASE Dispatch
  BY <1>5, Numbers, AnswerStep DEF Dispatch, CallStage
<1>6. CASE DispatchDone
  BY <1>6, Numbers, AnswerStep DEF DispatchDone, At, CallStage
<1>7. CASE TurnEnds
  <2>1. convo' \in Noted(convo) /\ at = "calls" /\ at' \in {"turn", "left"}
    BY <1>7 DEF TurnEnds, Noted
  <2>2. {turn', nudges', attempt', ids'} \subseteq Nat /\ ids <= ids'
    BY <1>7, Numbers DEF TurnEnds
  <2> QED BY <1>7, <2>1, <2>2, Numbers, NoteStep DEF TurnEnds, At
<1>8. CASE Rejected
  <2> DEFINE c == Append(convo, Say("user"))
  <2>1. Kept(convo, {}, abandoned) /\ (~crashed => Starts(convo))
    BY <1>8, Quiet DEF Rejected, CallStage
  <2>2. Kept(c, {}, abandoned) /\ (~crashed => Starts(c))
    BY <2>1, NotedKeeps DEF Noted
  <2> HIDE DEF c
  <2>3. Leave(c) /\ UNCHANGED <<attempt, ids, crashed, abandoned>>
    BY <1>8 DEF Rejected, c
  <2> QED BY <2>2, <2>3, Numbers, LeaveStep
<1>9. CASE AttemptCrashes
  <2> DEFINE old == IF prior = <<>> THEN <<Say("user")>> ELSE prior
             c == Append(old, Say("user"))
  <2>1. /\ Leave(c) /\ crashed' = (crashed \/ prior = <<>>)
        /\ UNCHANGED <<attempt, ids, abandoned>>
    BY <1>9 DEF AttemptCrashes
  <2>2. crashed' \in BOOLEAN
    BY <2>1
  <2>3. CASE prior = <<>>
    <3>1. c = Append(<<Say("user")>>, Say("user"))
      BY <2>3
    <3>2. Say("user") \in Message /\ Say("user").role = "user" /\ CalledBy(Say("user")) = {}
      BY Messages
    <3> HIDE DEF c
    <3>3. /\ c \in Seq(Message) /\ Len(c) = 2
          /\ \A i \in 1 .. Len(c) : c[i] = Say("user")
      BY <3>1, <3>2
    <3>4. Paired(c, {}, abandoned)
      BY <3>2, <3>3 DEF Paired
    <3>5. Kept(c, {}, abandoned)
      BY <3>2, <3>3, <3>4 DEF Kept
    <3>6. crashed'
      BY <2>1, <2>3
    <3> QED BY <2>1, <2>2, <3>5, <3>6, Numbers, LeaveStep
  <2>4. CASE prior # <<>>
    <3>1. Kept(prior, {}, abandoned) /\ (~crashed => Starts(prior)) /\ old = prior
      BY <2>4 DEF RowInv, HeadInv
    <3>2. Kept(c, {}, abandoned) /\ (~crashed => Starts(c))
      BY <3>1, NotedKeeps DEF Noted
    <3> HIDE DEF c
    <3> QED BY <2>1, <2>2, <2>4, <3>2, Numbers, LeaveStep
  <2> QED BY <2>3, <2>4
<1>10. CASE NextAtomic
  BY <1>10, Numbers, ListLeft DEF NextAtomic
<1> QED
  BY <1>1, <1>2, <1>3, <1>4, <1>5, <1>6, <1>7, <1>8, <1>9, <1>10 DEF ConvNext

LEMMA BaselineKept ==
    ASSUME TypeOK, RowInv, HeadInv, SizeInv, kind # "rollout", BaselineStep,
           UNCHANGED <<said, proposed, kind>>
    PROVE  TypeOK' /\ RowInv' /\ HeadInv'
<1>1. CASE EtaStart
  <2>1. abandoned = {} /\ {turn', nudges', attempt', ids'} \subseteq Nat
    BY <1>1, Numbers DEF EtaStart, HeadInv
  <2> QED BY <1>1, <2>1, Numbers, StartStep DEF EtaStart, At, Prompts, baselineRest
<1>2. CASE EtaObserve
  <2>1. convo' \in Noted(convo) /\ at = "turn" /\ at' \in {"left", "asked"}
    BY <1>2 DEF EtaObserve, Noted
  <2>2. {turn', nudges', attempt', ids'} \subseteq Nat /\ ids <= ids'
    BY <1>2, Numbers DEF EtaObserve
  <2> QED BY <1>2, <2>1, <2>2, Numbers, NoteStep DEF EtaObserve, At, CallStage, baselineRest
<1>3. CASE EtaCalls
  <2> DEFINE cs == <<ids + 1>>
  <2>1. PICK n \in 1 .. CallsPerTurn : ids' = ids + n
    BY <1>3 DEF EtaCalls
  <2>2. ids <= ids' /\ ids + 1 \in 1 .. ids' /\ {turn', nudges', attempt', ids'} \subseteq Nat
    <3>1. ids \in Nat /\ n \in Nat /\ n >= 1
      BY Numbers
    <3>2. turn' \in Nat /\ nudges' \in Nat /\ attempt' \in Nat
      BY <1>3, Numbers DEF EtaCalls
    <3>3. ids' \in Nat /\ ids <= ids' /\ ids + 1 \in 1 .. ids'
      BY <2>1, <3>1
    <3> QED BY <3>2, <3>3
  <2>3. cs \in Seq(Nat) /\ ToSet(cs) \subseteq 1 .. ids'
    <3>1. ids + 1 \in Nat
      BY Numbers
    <3>2. cs \in Seq(Nat) /\ Len(cs) = 1 /\ cs[1] = ids + 1
      BY <3>1
    <3> HIDE DEF cs
    <3> QED BY <2>2, <3>2, SMTT(30) DEF ToSet
  <2>4. /\ todo' = cs /\ convo' = Append(convo, Calls(cs)) /\ at = "asked" /\ at' = "calls"
        /\ UNCHANGED <<prior, crashed, abandoned>>
    BY <1>3 DEF EtaCalls, baselineRest
  <2> HIDE DEF cs
  <2> QED BY <2>2, <2>3, <2>4, Numbers, CallStep DEF CallStage
<1>4. CASE EtaTalks
  <2>1. convo' \in Noted(convo) /\ at = "asked" /\ at' \in {"left", "asked"}
    BY <1>4 DEF EtaTalks, Noted
  <2>2. {turn', nudges', attempt', ids'} \subseteq Nat /\ ids <= ids'
    BY <1>4, Numbers DEF EtaTalks
  <2> QED BY <1>4, <2>1, <2>2, Numbers, NoteStep DEF EtaTalks, At, CallStage, baselineRest
<1>5. CASE kind = "openeta" /\ EtaActs
  <2>1. Len(todo) = 1 /\ todo # <<>> /\ Tail(todo) = <<>>
    <3>1. todo \in Seq(Nat) /\ Len(todo) = 1
      BY <1>5, Numbers DEF SizeInv, EtaActs
    <3>2. todo # <<>>
      BY <3>1, EmptySeq
    <3>3. Tail(todo) \in Seq(Nat) /\ Len(Tail(todo)) = 0
      BY <3>1
    <3> QED BY <3>1, <3>2, <3>3, EmptySeq
  <2>2. /\ at = "calls" /\ at' \in {"left", "turn"} /\ todo' = <<>>
        /\ convo' = Append(convo, Answer(Head(todo)))
        /\ UNCHANGED <<ids, nudges, attempt, prior, crashed, abandoned>>
        /\ turn' \in Nat
    BY <1>5, <2>1, Numbers, SMTT(30) DEF EtaActs, baselineRest
  <2> QED BY <2>1, <2>2, Numbers, AnswerStep DEF At, CallStage
<1>6. CASE CapxStart
  <2>1. abandoned = {} /\ {turn', nudges', attempt', ids'} \subseteq Nat
    BY <1>6, Numbers DEF CapxStart, HeadInv
  <2> QED BY <1>6, <2>1, Numbers, StartStep DEF CapxStart, At, Prompts, baselineRest
<1>7. CASE CapxHasNoCode \/ CapxRuns
  <2>1. convo' \in Noted(convo) /\ at = "asked" /\ at' \in {"left", "asked"}
    BY <1>7 DEF CapxHasNoCode, CapxRuns, NextRound, Noted
  <2>2. {turn', nudges', attempt', ids'} \subseteq Nat /\ ids <= ids'
    <3>1. turn' \in {turn, turn + 1} /\ UNCHANGED <<nudges, attempt>>
      BY <1>7 DEF CapxHasNoCode, CapxRuns, NextRound
    <3>2. ids' = ids \/ ids' \in ids .. ToolBudget
      BY <1>7 DEF CapxHasNoCode, CapxRuns
    <3>3. ids' \in Nat /\ ids <= ids'
      BY <3>2, Numbers
    <3> QED BY <3>1, <3>3, Numbers
  <2> QED
    BY <1>7, <2>1, <2>2, Numbers, NoteStep
       DEF CapxHasNoCode, CapxRuns, At, CallStage, baselineRest
<1> QED
  BY <1>1, <1>2, <1>3, <1>4, <1>5, <1>6, <1>7 DEF BaselineStep, EtaNext, CapxNext

LEMMA ChatKept ==
    ASSUME TypeOK, RowInv, HeadInv, kind # "rollout", ChatAgentStep, UNCHANGED kind
    PROVE  TypeOK' /\ RowInv' /\ HeadInv'
<1>1. CASE UserMessage
  <2>1. convo' = Prompts \/ (prior # <<>> /\ convo' = Append(prior, Say("user")))
    BY <1>1 DEF UserMessage, Prompts
  <2>2. said' \in BOOLEAN /\ proposed' \in BOOLEAN
    BY <1>1 DEF UserMessage
  <2> QED BY <1>1, <2>1, <2>2, Numbers, StartStep DEF UserMessage, At, chatRest
<1>2. CASE ChatCalls
  <2>1. PICK n \in 1 .. CallsPerTurn, proposes \in BOOLEAN :
            /\ ids' = ids + n
            /\ todo' = [k \in 1 .. n |-> ids + k]
            /\ convo' = Append(convo, Calls([k \in 1 .. n |-> ids + k]))
            /\ proposed' = (proposed \/ proposes)
            /\ at \in {"asked", "propose", "latePropose"} /\ at' \in CallStage
            /\ said' \in {said, TRUE}
            /\ UNCHANGED <<prior, turn, nudges, attempt, crashed, abandoned>>
    BY <1>2 DEF ChatCalls, CallStage
  <2>2. n \in Nat \ {0} /\ ids <= ids' /\ {turn', nudges', attempt', ids'} \subseteq Nat
    BY <2>1, Numbers, SMTT(30)
  <2>5. said' \in BOOLEAN /\ proposed' \in BOOLEAN
    <3>1. said \in BOOLEAN /\ said' \in {said, TRUE}
      BY <2>1, Numbers
    <3>2. proposed' = TRUE \/ proposed' = FALSE
      BY <2>1
    <3> QED BY <3>1, <3>2, Zenon
  <2>3. /\ [k \in 1 .. n |-> ids + k] \in Seq(Nat)
        /\ ToSet([k \in 1 .. n |-> ids + k]) \subseteq 1 .. ids'
    BY <2>1, <2>2, BatchIs, Numbers
  <2>4. at \in At \ {"idle"} /\ at \notin CallStage
    BY <2>1 DEF At, CallStage
  <2> QED BY <2>1, <2>2, <2>3, <2>4, <2>5, CallStep
<1>3. CASE CallIsAnswered
  BY <1>3, Numbers, AnswerStep DEF CallIsAnswered, CallStage, chatRest
<1>4. CASE Hop \/ CallsAreDone \/ Reply \/ Silence \/ DemandedText \/ LateDemand
  <2>1. convo' \in Noted(convo)
    BY <1>4 DEF Hop, CallsAreDone, Reply, Silence, DemandedText, LateDemand, Demand, Noted
  <2>2. /\ at # "idle" /\ (at \notin CallStage \/ todo = <<>>) /\ at' \in At \ {"idle"}
        /\ UNCHANGED <<prior, todo, nudges, ids, attempt, crashed, abandoned>>
    BY <1>4
       DEF Hop, CallsAreDone, Reply, Silence, DemandedText, LateDemand, Demand, At, CallStage,
           chatRest
  <2>3. turn' \in Nat /\ said' \in BOOLEAN /\ proposed' \in BOOLEAN
    <3>1. turn' \in {turn, turn + 1}
      BY <1>4 DEF Hop, CallsAreDone, Reply, Silence, DemandedText, LateDemand
    <3>2. said' \in {said, TRUE} /\ proposed' \in {proposed, FALSE}
      BY <1>4 DEF Hop, CallsAreDone, Reply, Silence, DemandedText, LateDemand, Demand
    <3>3. said \in BOOLEAN /\ proposed \in BOOLEAN /\ turn \in Nat
      BY Numbers
    <3>4. said' \in BOOLEAN /\ proposed' \in BOOLEAN
      BY <3>2, <3>3
    <3> QED BY <3>1, <3>3, <3>4
  <2>4. {turn', nudges', attempt', ids'} \subseteq Nat /\ ids <= ids'
    BY <2>2, <2>3, Numbers
  <2> QED BY <2>1, <2>2, <2>3, <2>4, NoteStep
<1>5. ASSUME NEW keeps, MessageIsHandled(keeps) PROVE TypeOK' /\ RowInv' /\ HeadInv'
  <2>1. Kept(convo, {}, abandoned) /\ (~crashed => Starts(convo)) /\ ~crashed
    BY <1>5, Quiet DEF MessageIsHandled, CallStage, HeadInv
  <2>2. PICK messages \in {convo, <<>>} : Leave(messages)
    BY <1>5 DEF MessageIsHandled
  <2> QED BY <1>5, <2>1, <2>2, Numbers, LeaveStep DEF MessageIsHandled
<1>6. CASE Interrupted
  BY <1>6, Numbers, LeaveStep DEF Interrupted, HeadInv
<1> QED BY <1>1, <1>2, <1>3, <1>4, <1>5, <1>6 DEF ChatAgentStep, ChatStep

LEMMA EndKept ==
    ASSUME TypeOK, RowInv, HeadInv, kind # "rollout", ConversationEnds, UNCHANGED kind
    PROVE  TypeOK' /\ RowInv' /\ HeadInv'
<1>1. /\ Leave(<<>>) /\ attempt' = 0 /\ ids' = 0 /\ said' = FALSE /\ proposed' = FALSE
      /\ UNCHANGED <<crashed, abandoned>>
  BY DEF ConversationEnds
<1>2. abandoned = {} /\ ~crashed /\ crashed \in BOOLEAN
  BY Numbers DEF HeadInv
<1> QED BY <1>1, <1>2, ListLeft
-----------------------------------------------------------------------------
(* The length of the list, in the conversations that bound it. *)
LEMMA SizeKept ==
    ASSUME ConversationInv, Next
    PROVE  SizeInv'
<1>1. TypeOK /\ RowInv /\ HeadInv /\ SizeInv /\ UNCHANGED kind
  BY DEF ConversationInv, Next
<1>2. /\ Len(convo) \in Nat /\ convo \in Seq(Message)
      /\ ToolBudget \in Nat /\ turn \in Nat /\ nudges \in Nat /\ MaxRepairs \in Nat
      /\ SummarizeAt \in Nat
  BY <1>1, Numbers
<1>3. \A m \in Message : Len(Append(convo, m)) = Len(convo) + 1
  BY <1>2
<1>4. Len(convo \o <<Calls(<<>>), Say("user")>>) = Len(convo) + 2
  BY TwoAppended
<1>5. /\ Say("user") \in Message /\ Calls(<<>>) \in Message
      /\ \A x \in Nat : Answer(x) \in Message /\ Calls(<<x>>) \in Message
  <2>1. \A x \in Nat : <<x>> \in Seq(Nat)
    OBVIOUS
  <2> QED BY <2>1, Messages
<1>6. CASE at' = "idle"
  BY <1>6 DEF SizeInv
<1>7. CASE kind = "rollout" /\ RolloutStep
  <2>4. at' \in {"idle", "turn", "asked", "calls", "left"}
    BY <1>7 DEF RolloutStep, ConvNext, StartAttempt, Ask, ModelCalls, ModelTalks, Dispatch,
       DispatchDone, TurnEnds, Rejected, AttemptCrashes, NextAtomic, Leave
  <2> SUFFICES ASSUME at' = "asked" PROVE Len(convo') <= SummarizeAt + 1 + 2 * nudges'
    BY <1>1, <1>7, <2>4 DEF SizeInv
  <2>1. Ask \/ ModelTalks
    BY <1>7
       DEF RolloutStep, ConvNext, StartAttempt, ModelCalls, Dispatch, DispatchDone, TurnEnds,
           Rejected, AttemptCrashes, NextAtomic, Leave
  <2>2. CASE Ask
    <3> DEFINE short == IF Len(convo) > SummarizeAt THEN Summarized(convo) ELSE convo
    <3>1. convo' = Reflected(short) /\ nudges' = 0 /\ at = "turn"
      BY <2>2 DEF Ask
    <3>2. Kept(convo, {}, abandoned)
      BY <1>1, <3>1, Quiet DEF CallStage
    <3>3. Kept(short, {}, abandoned) /\ Len(short) <= SummarizeAt
      BY <1>2, <3>2, ShortKeeps
    <3> HIDE DEF short
    <3>4. Len(Reflected(short)) <= Len(short) + 1 /\ Len(short) \in Nat
      BY DEF Reflected
    <3>5. Len(Reflected(short)) \in Nat
      BY <3>3
    <3> QED BY <1>2, <3>1, <3>3, <3>4, <3>5
  <2>3. CASE ModelTalks
    <3>1. /\ at = "asked" /\ nudges' = nudges + 1
          /\ convo' = convo \o <<Calls(<<>>), Say("user")>>
      BY <2>3 DEF ModelTalks
    <3>2. Len(convo) <= SummarizeAt + 1 + 2 * nudges
      BY <1>1, <1>7, <3>1 DEF SizeInv
    <3> QED BY <1>2, <1>4, <3>1, <3>2
  <2> QED BY <2>1, <2>2, <2>3
<1>8. CASE kind = "openeta" /\ EtaNext
  <2>1. CASE EtaStart
    <3>1. /\ turn' = 0 /\ at' = "turn" /\ convo' = Prompts
      BY <2>1 DEF EtaStart, Prompts
    <3>2. Len(convo') = 2
      BY <3>1, FreshKept
    <3>3. \E m \in Nat : turn' = 2 * m /\ Len(convo') <= 2 + 5 * m
      <4>1. turn' = 2 * 0 /\ Len(convo') <= 2 + 5 * 0
        BY <3>1, <3>2
      <4> QED BY <4>1
    <3> QED BY <1>1, <1>8, <3>1, <3>3 DEF SizeInv
  <2>2. CASE EtaObserve
    <3>1. /\ at = "turn" /\ turn' = turn + 1 /\ convo' = Append(convo, Say("user"))
          /\ at' = IF turn + 1 >= ToolBudget THEN "left" ELSE "asked"
          /\ nudges' = 0
      BY <2>2 DEF EtaObserve
    <3>2. PICK m \in Nat : turn = 2 * m /\ Len(convo) <= 2 + 5 * m
      BY <1>1, <1>8, <3>1 DEF SizeInv
    <3>3. /\ turn' = 2 * m + 1 /\ Len(convo') <= 3 + 5 * m + 2 * nudges'
          /\ at' \in {"left", "asked"} /\ (at' = "asked" => turn' < ToolBudget)
      BY <1>2, <3>1, <3>2
    <3> QED BY <1>1, <1>8, <3>1, <3>3 DEF SizeInv
  <2>3. CASE EtaCalls
    <3>1. /\ at = "asked" /\ turn' = turn /\ at' = "calls" /\ todo' = <<ids + 1>>
          /\ convo' = Append(convo, Calls(<<ids + 1>>))
      BY <2>3 DEF EtaCalls
    <3>2. PICK m \in Nat : turn = 2 * m + 1 /\ Len(convo) <= 3 + 5 * m + 2 * nudges
      BY <1>1, <1>8, <3>1 DEF SizeInv
    <3>3. nudges \in {0, 1} /\ ids + 1 \in Nat
      <4>1. nudges \in {0, 1}
        BY <1>1, <1>8, <3>1 DEF SizeInv
      <4>2. ids \in Nat
        BY <1>1, Numbers
      <4> QED BY <4>1, <4>2
    <3>4. turn' = 2 * m + 1 /\ Len(convo') <= 6 + 5 * m /\ Len(todo') = 1
      BY <3>1, <3>2, <3>3
    <3> QED BY <1>1, <1>8, <3>1, <3>4 DEF SizeInv
  <2>4. CASE EtaTalks
    <3>1. at = "asked" /\ turn' = turn
      BY <2>4 DEF EtaTalks
    <3>2. CASE at' = "left"
      BY <3>2 DEF SizeInv
    <3>3. CASE at' # "left"
      <4>1. /\ at' = "asked" /\ nudges = 0 /\ nudges' = 1
            /\ convo' = convo \o <<Calls(<<>>), Say("user")>>
        BY <2>4, <3>3 DEF EtaTalks
      <4>2. PICK m \in Nat : /\ turn = 2 * m + 1 /\ turn < ToolBudget
                             /\ Len(convo) <= 3 + 5 * m + 2 * nudges
        BY <1>1, <1>8, <3>1 DEF SizeInv
      <4>3. Len(convo') <= 3 + 5 * m + 2 * nudges'
        BY <4>1, <4>2
      <4> QED BY <1>1, <1>8, <3>1, <4>1, <4>2, <4>3 DEF SizeInv
    <3> QED BY <3>2, <3>3
  <2>5. CASE EtaActs
    <3>1. /\ at = "calls" /\ turn' = turn + 1 /\ at' \in {"left", "turn"}
          /\ convo' = Append(convo, Answer(Head(todo)))
      BY <2>5 DEF EtaActs
    <3>2. /\ todo \in Seq(Nat) /\ Len(todo) = 1
      BY <1>1, <1>8, <3>1, Numbers DEF SizeInv
    <3>3. PICK m \in Nat : turn = 2 * m + 1 /\ Len(convo) <= 6 + 5 * m
      BY <1>1, <1>8, <3>1 DEF SizeInv
    <3>4. Head(todo) \in Nat
      BY <3>2, SMTT(30)
    <3>5. /\ m + 1 \in Nat /\ turn' = 2 * (m + 1) /\ Len(convo') <= 2 + 5 * (m + 1)
      BY <3>1, <3>3
    <3> QED BY <1>1, <1>8, <3>1, <3>5 DEF SizeInv
  <2> QED BY <1>8, <2>1, <2>2, <2>3, <2>4, <2>5 DEF EtaNext
<1>9. CASE kind = "capx" /\ CapxNext
  <2>1. CASE CapxStart
    <3>1. turn' = 0 /\ at' = "asked" /\ convo' = Prompts
      BY <2>1 DEF CapxStart, Prompts
    <3>2. Len(convo') = 2
      BY <3>1, FreshKept
    <3> QED BY <1>1, <1>2, <1>9, <3>1, <3>2 DEF SizeInv
  <2>2. CASE CapxHasNoCode \/ CapxRuns
    <3>1. /\ at = "asked" /\ turn <= MaxRepairs /\ Len(convo) = 2 + 2 * turn
      BY <1>1, <1>9, <2>2 DEF SizeInv, CapxHasNoCode, CapxRuns
    <3>2. CASE NextRound
      <4>1. /\ convo' = convo \o <<Calls(<<>>), Say("user")>> /\ turn' = turn + 1
            /\ at' = IF turn = MaxRepairs THEN "left" ELSE "asked"
        BY <3>2 DEF NextRound
      <4>2. /\ at' \in {"left", "asked"} /\ Len(convo') = 2 + 2 * turn'
            /\ at' = "asked" => turn' <= MaxRepairs
        BY <1>2, <1>4, <3>1, <4>1
      <4> QED BY <1>1, <1>9, <4>2 DEF SizeInv
    <3>3. CASE at' = "left"
      BY <3>3 DEF SizeInv
    <3> QED BY <2>2, <3>2, <3>3 DEF CapxHasNoCode, CapxRuns
  <2> QED BY <1>9, <2>1, <2>2 DEF CapxNext
<1>10. CASE kind \in chat
  <2>1. kind' \in {"terminal", "feishu"}
    BY <1>1, <1>10 DEF chat
  <2> QED BY <2>1 DEF SizeInv
<1>11. ConversationEnds => at' = "idle"
  BY DEF ConversationEnds, Leave
<1> QED
  BY <1>6, <1>7, <1>8, <1>9, <1>10, <1>11 DEF Next, RolloutStep, BaselineStep, ChatAgentStep

(* The invariant of all conversations. *)
THEOREM ConversationInvHolds == Spec => []ConversationInv
<1>1. Init => ConversationInv
  <2> SUFFICES ASSUME Init PROVE ConversationInv
    OBVIOUS
  <2>1. /\ convo = <<>> /\ prior = <<>> /\ at = "idle"
        /\ turn = 0 /\ todo = <<>> /\ nudges = 0
        /\ attempt = 0 /\ ids = 0 /\ crashed = FALSE /\ abandoned = {}
        /\ said = FALSE /\ proposed = FALSE
    BY DEF Init, ConvInit, ChatInit
  <2>2. kind \in {"rollout", "openeta", "capx"} \cup chat
    BY DEF Init
  <2>3. TypeOK
    <3>1. said \in BOOLEAN /\ proposed \in BOOLEAN /\ crashed \in BOOLEAN
      BY <2>1
    <3> QED BY <2>1, <2>2, <3>1 DEF TypeOK, ChatTypeOK
  <2>4. RowInv
    BY <2>1, Messages DEF RowInv
  <2>5. HeadInv /\ SizeInv
    BY <2>1 DEF HeadInv, SizeInv
  <2> QED BY <2>3, <2>4, <2>5 DEF ConversationInv
<1>2. ConversationInv /\ [Next]_vars => ConversationInv'
  <2>1. ASSUME ConversationInv, Next PROVE ConversationInv'
    <3>1. TypeOK /\ RowInv /\ HeadInv /\ SizeInv /\ UNCHANGED kind
      BY <2>1 DEF ConversationInv, Next
    <3>2. TypeOK' /\ RowInv' /\ HeadInv'
      <4>1. CASE RolloutStep
        BY <3>1, <4>1, RolloutKept DEF RolloutStep
      <4>2. CASE BaselineStep
        <5>1. kind # "rollout" /\ UNCHANGED <<said, proposed>>
          BY <4>2 DEF BaselineStep
        <5> QED BY <3>1, <4>2, <5>1, BaselineKept
      <4>3. CASE ChatAgentStep
        BY <3>1, <4>3, ChatKept DEF ChatAgentStep, chat
      <4>4. CASE kind # "rollout" /\ ConversationEnds
        BY <3>1, <4>4, EndKept
      <4> QED BY <2>1, <4>1, <4>2, <4>3, <4>4 DEF Next
    <3> QED BY <2>1, <3>2, SizeKept DEF ConversationInv
  <2>2. ASSUME ConversationInv, UNCHANGED vars PROVE ConversationInv'
    BY <2>2
       DEF ConversationInv, TypeOK, ChatTypeOK, RowInv, HeadInv, SizeInv, vars, convVars
  <2> QED BY <2>1, <2>2
<1> QED BY <1>1, <1>2, PTL DEF Spec

\* The lists are lists of messages, whichever of the conversations it is.
THEOREM ConversationTypeCorrect == Spec => []TypeOK
<1>1. ConversationInv => TypeOK
  BY DEF ConversationInv
<1> QED BY <1>1, ConversationInvHolds, PTL

(* The caller of an answer is the message before its row. *)
LEMMA CallerIs ==
    ASSUME NEW c, NEW i \in Nat, NEW k \in 1 .. i - 1, c[k].role # "tool",
           \A j \in k + 1 .. i - 1 : c[j].role = "tool"
    PROVE  CallerOf(c, i) = k
<1> DEFINE IsCaller(p) == c[p].role # "tool" /\ \A j \in p + 1 .. i - 1 : c[j].role = "tool"
<1>1. IsCaller(k)
  OBVIOUS
<1>2. ASSUME NEW p \in 1 .. i - 1, IsCaller(p) PROVE p = k
  <2>1. ~(p < k)
    <3> SUFFICES ASSUME p < k PROVE FALSE
      OBVIOUS
    <3>1. k \in p + 1 .. i - 1
      OBVIOUS
    <3> QED BY <1>2, <3>1
  <2>2. ~(k < p)
    <3> SUFFICES ASSUME k < p PROVE FALSE
      OBVIOUS
    <3>1. p \in k + 1 .. i - 1
      OBVIOUS
    <3> QED BY <1>2, <3>1
  <2> QED BY <2>1, <2>2
<1>3. CallerOf(c, i) = CHOOSE p \in 1 .. i - 1 : IsCaller(p)
  BY DEF CallerOf
<1> HIDE DEF IsCaller
<1> QED BY <1>1, <1>2, <1>3

(* What the invariant says of a list that is sent. *)
LEMMA PairedSays ==
    ASSUME NEW c, NEW lost, Kept(c, {}, lost)
    PROVE  /\ \A i \in DOMAIN c : c[i].role = "tool" =>
                  /\ \E k \in 1 .. i - 1 : c[k].role # "tool"
                  /\ Head(c[i].calls) \in CalledBy(c[CallerOf(c, i)])
           /\ \A k \in DOMAIN c : CalledBy(c[k]) \subseteq AnswersOf(c, k) \cup lost
<1>1. c \in Seq(Message) /\ DOMAIN c = 1 .. Len(c) /\ Len(c) \in Nat /\ Paired(c, {}, lost)
  BY DEF Kept
<1>2. ASSUME NEW i \in 1 .. Len(c), c[i].role = "tool"
      PROVE  /\ \E k \in 1 .. i - 1 : c[k].role # "tool"
             /\ Head(c[i].calls) \in CalledBy(c[CallerOf(c, i)])
  <2>1. PICK k \in 1 .. i - 1 : /\ c[k].role = "assistant" /\ Answers(c, k, i)
                                /\ Head(c[i].calls) \in ToSet(c[k].calls)
    BY <1>1, <1>2 DEF Paired
  <2>2. \A j \in k + 1 .. i - 1 : c[j].role = "tool"
    BY <2>1 DEF Answers
  <2>3. CallerOf(c, i) = k
    BY <2>1, <2>2, CallerIs
  <2> QED BY <2>1, <2>3 DEF CalledBy
<1>3. ASSUME NEW k \in 1 .. Len(c), NEW x \in CalledBy(c[k]), x \notin lost
      PROVE  x \in AnswersOf(c, k)
  <2>1. PICK j \in k + 1 .. Len(c) : Head(c[j].calls) = x /\ Answers(c, k, j)
    BY <1>1, <1>3 DEF Paired
  <2> QED BY <2>1 DEF AnswersOf, Answers
<1> QED BY <1>1, <1>2, <1>3

-----------------------------------------------------------------------------
(***************************************************************************)
(* The conversion.  A fold is a function on sets of positions, chosen among*)
(* those that satisfy its recursion: that there is one is shown by least   *)
(* counterexample over the length of the list, once for every step.        *)
(***************************************************************************)
\* A set that has 0 and, with a number below n, the next, has the numbers to n.
LEMMA UpTo ==
    ASSUME NEW n \in Nat, NEW S, 0 \in S, \A k \in 1 .. n : k - 1 \in S => k \in S
    PROVE  \A k \in 0 .. n : k \in S
<1> DEFINE Bad == {k \in 0 .. n : k \notin S}
<1> SUFFICES ASSUME Bad # {} PROVE FALSE
  OBVIOUS
<1>1. PICK m \in Bad : \A k \in Bad : m <= k
  <2>1. Bad \in SUBSET Nat
    OBVIOUS
  <2> HIDE DEF Bad
  <2> QED BY <2>1, LeastOf
<1>2. m \in 1 .. n /\ m - 1 \in 0 .. n
  OBVIOUS
<1>3. m - 1 \in S
  BY <1>1, <1>2
<1> QED BY <1>2, <1>3

LEMMA MaxIs ==
    ASSUME NEW n \in Nat, NEW t \in SUBSET (1 .. n), t # {}
    PROVE  /\ Max(t) \in t
           /\ \A y \in t : y <= Max(t)
<1> DEFINE S == {n - x : x \in t}
<1>1. \A x \in t : x \in Nat /\ n - x \in Nat
  OBVIOUS
<1>2. S \in SUBSET Nat /\ S # {}
  BY <1>1
<1>3. PICK m \in S : \A k \in S : m <= k
  BY <1>2, LeastOf
<1>4. PICK x \in t : m = n - x
  OBVIOUS
<1>5. \A y \in t : x >= y
  <2> SUFFICES ASSUME NEW y \in t PROVE x >= y
    OBVIOUS
  <2>1. m <= n - y
    BY <1>3
  <2>2. x \in Nat /\ y \in Nat
    BY <1>1
  <2> QED BY <1>4, <2>1, <2>2
<1>6. Max(t) \in t /\ \A y \in t : Max(t) >= y
  BY <1>5 DEF Max
<1> QED BY <1>1, <1>6

\* g folds the first n members of q from base by step.
FoldsBy(g, n, base, step, q) ==
    \A t \in SUBSET (1 .. n) :
        g[t] = IF t = {} THEN base ELSE step[<<g[t \ {Max(t)}], q[Max(t)]>>]

LEMMA FoldExists ==
    ASSUME NEW A, NEW B, NEW base \in A, NEW step \in [A \X B -> A], NEW q \in Seq(B)
    PROVE  \E g \in [SUBSET (1 .. Len(q)) -> A] : FoldsBy(g, Len(q), base, step, q)
<1> DEFINE Good(n) == \E g \in [SUBSET (1 .. n) -> A] : FoldsBy(g, n, base, step, q)
<1>1. Good(0)
  <2> DEFINE g == [t \in SUBSET (1 .. 0) |-> base]
  <2>1. \A t \in SUBSET (1 .. 0) : t = {}
    OBVIOUS
  <2>2. g \in [SUBSET (1 .. 0) -> A] /\ FoldsBy(g, 0, base, step, q)
    BY <2>1 DEF FoldsBy
  <2> QED BY <2>2
<1>2. ASSUME NEW n \in Nat, n < Len(q), Good(n) PROVE Good(n + 1)
  <2>1. PICK g \in [SUBSET (1 .. n) -> A] : FoldsBy(g, n, base, step, q)
    BY <1>2
  <2> DEFINE h == [t \in SUBSET (1 .. n + 1) |->
                      IF n + 1 \in t THEN step[<<g[t \ {n + 1}], q[n + 1]>>] ELSE g[t]]
  <2>2. q[n + 1] \in B
    BY <1>2
  <2>3. \A t \in SUBSET (1 .. n + 1) : t \ {n + 1} \in SUBSET (1 .. n)
    BY <1>2
  <2>4. \A t \in SUBSET (1 .. n + 1) : n + 1 \notin t => t \in SUBSET (1 .. n)
    BY <2>3, Zenon
  <2>5. h \in [SUBSET (1 .. n + 1) -> A]
    BY <2>2, <2>3, <2>4
  <2>6. ASSUME NEW t \in SUBSET (1 .. n + 1)
        PROVE  h[t] = IF t = {} THEN base ELSE step[<<h[t \ {Max(t)}], q[Max(t)]>>]
    <3>1. CASE n + 1 \in t
      <4>1. n + 1 \in Nat /\ t # {}
        BY <3>1
      <4>2. Max(t) \in t /\ n + 1 <= Max(t)
        BY <3>1, <4>1, MaxIs
      <4>3. Max(t) \in 1 .. n + 1
        BY <4>2
      <4>4. Max(t) = n + 1
        BY <4>2, <4>3
      <4>5. t \ {n + 1} \in SUBSET (1 .. n + 1) /\ n + 1 \notin t \ {n + 1}
        OBVIOUS
      <4>6. h[t \ {n + 1}] = g[t \ {n + 1}]
        BY <4>5
      <4>7. h[t] = step[<<g[t \ {n + 1}], q[n + 1]>>]
        BY <3>1
      <4> HIDE DEF h
      <4> QED BY <4>1, <4>4, <4>6, <4>7
    <3>2. CASE n + 1 \notin t
      <4>1. t \in SUBSET (1 .. n) /\ h[t] = g[t]
        BY <3>2, <2>4
      <4>2. g[t] = IF t = {} THEN base ELSE step[<<g[t \ {Max(t)}], q[Max(t)]>>]
        BY <2>1, <4>1 DEF FoldsBy
      <4>3. t \ {Max(t)} \in SUBSET (1 .. n + 1) /\ n + 1 \notin t \ {Max(t)}
        BY <3>2
      <4>4. h[t \ {Max(t)}] = g[t \ {Max(t)}]
        BY <4>3
      <4> HIDE DEF h
      <4> QED BY <4>1, <4>2, <4>4
    <3> QED BY <3>1, <3>2
  <2>7. FoldsBy(h, n + 1, base, step, q)
    BY <2>6 DEF FoldsBy
  <2> HIDE DEF h
  <2> QED BY <2>5, <2>7
<1> DEFINE S == {n \in Nat : Good(n)}
<1> HIDE DEF Good
<1>3. Len(q) \in Nat /\ 0 \in S /\ \A k \in 1 .. Len(q) : k - 1 \in S => k \in S
  <2>1. Len(q) \in Nat
    OBVIOUS
  <2>2. ASSUME NEW k \in 1 .. Len(q), Good(k - 1) PROVE k \in Nat /\ Good(k)
    <3>1. k - 1 \in Nat /\ k - 1 < Len(q) /\ k \in Nat /\ (k - 1) + 1 = k
      BY <2>1
    <3> QED BY <1>2, <2>2, <3>1
  <2> QED BY <1>1, <2>1, <2>2
<1>4. Good(Len(q))
  <2> HIDE DEF S
  <2>1. Len(q) \in S
    <3>1. Len(q) \in 0 .. Len(q)
      BY <1>3
    <3> QED BY <1>3, <3>1, UpTo
  <2> QED BY <2>1 DEF S
<1> QED BY <1>4 DEF Good

(* Over the positions 1 .. k in turn. *)
LEMMA Initial ==
    ASSUME NEW n \in Nat, NEW k \in 1 .. n
    PROVE  /\ Max(1 .. k) = k
           /\ (1 .. k) \ {k} = 1 .. k - 1 /\ 1 .. k # {} /\ 1 .. k \in SUBSET (1 .. n)
<1>1. k \in Nat /\ k \in 1 .. k
  OBVIOUS
<1>2. 1 .. k \in SUBSET (1 .. k) /\ 1 .. k # {}
  BY <1>1
<1>3. Max(1 .. k) \in 1 .. k /\ k <= Max(1 .. k)
  BY <1>1, <1>2, MaxIs
<1>4. \A x : x \in (1 .. k) \ {k} <=> x \in 1 .. k - 1
  BY <1>1
<1>5. \A x \in 1 .. k : x \in 1 .. n
  OBVIOUS
<1> QED BY <1>1, <1>2, <1>3, <1>4, <1>5

\* What a converted list is made of.
Block == [role : {"system", "user", "assistant", "tool"}, calls : Seq(Nat)]

LEMMA MessageIsBlock ==
    ASSUME NEW m \in Message
    PROVE  /\ m \in Block /\ m.role \in {"system", "user", "assistant", "tool"}
           /\ m.role = "user" => m.calls = <<>>
           /\ m.role = "tool" => Len(m.calls) = 1
<1>1. m.calls \in Seq(Nat) /\ m = [role |-> m.role, calls |-> m.calls]
  <2>1. CASE m \in [role : {"system", "user"}, calls : {<<>>}]
    <3>1. m.calls = <<>> /\ m = [role |-> m.role, calls |-> m.calls]
      BY <2>1
    <3> QED BY <3>1, EmptySeq
  <2>2. CASE m \in [role : {"assistant"}, calls : Seq(Nat)]
    BY <2>2
  <2>3. CASE m \in [role : {"tool"}, calls : {cs \in Seq(Nat) : Len(cs) = 1}]
    BY <2>3
  <2> QED BY <2>1, <2>2, <2>3 DEF Message
<1>2. /\ m.role \in {"system", "user", "assistant", "tool"}
      /\ m.role = "user" => m.calls = <<>>
      /\ m.role = "tool" => Len(m.calls) = 1
  BY DEF Message
<1> QED BY <1>1, <1>2 DEF Block

LEMMA MergeType ==
    ASSUME NEW out \in Seq(Block), NEW m \in Message
    PROVE  Merge(out, m) \in Seq(Block)
<1>1. m \in Block /\ m.role \in {"system", "user", "assistant", "tool"}
  BY MessageIsBlock
<1>2. [role |-> "user", calls |-> m.calls] \in Block
  BY <1>1 DEF Block
<1>3. ASSUME InResults(out)
      PROVE  /\ Front(out) \in Seq(Block)
             /\ [role |-> "user", calls |-> Last(out).calls \o m.calls] \in Block
  <2>1. out # <<>> /\ Len(out) \in Nat /\ Len(out) >= 1
    BY <1>3, EmptySeq DEF InResults
  <2>2. Last(out) \in Block
    BY <2>1 DEF Last
  <2>3. Front(out) \in Seq(Block)
    BY <2>1 DEF Front
  <2> QED BY <1>1, <2>2, <2>3 DEF Block
<1> QED BY <1>1, <1>2, <1>3 DEF Merge

(* The conversion, message by message. *)
LEMMA ConvertedIs ==
    ASSUME NEW q \in Seq(Message)
    PROVE  \E out \in [0 .. Len(q) -> Seq(Block)] :
              /\ out[0] = <<>> /\ out[Len(q)] = Converted(q)
              /\ \A k \in 1 .. Len(q) : out[k] = Merge(out[k - 1], q[k])
<1> DEFINE A == Seq(Block)
           step == [p \in A \X Message |-> Merge(p[1], p[2])]
           n == Len(q)
           Is(g) == g = [t \in SUBSET DOMAIN q |->
                          IF t = {} THEN <<>> ELSE Merge(g[t \ {Max(t)}], q[Max(t)])]
           it == CHOOSE g : Is(g)
<1>1. step \in [A \X Message -> A] /\ <<>> \in A
  BY MergeType
<1> HIDE DEF step
<1>2. PICK g \in [SUBSET (1 .. n) -> A] : FoldsBy(g, n, <<>>, step, q)
  BY <1>1, FoldExists
<1>3. DOMAIN q = 1 .. n /\ n \in Nat
  OBVIOUS
<1>4. ASSUME NEW t \in SUBSET (1 .. n), t # {}, NEW f \in [SUBSET (1 .. n) -> A]
      PROVE  /\ f[t \ {Max(t)}] \in A /\ q[Max(t)] \in Message
             /\ step[<<f[t \ {Max(t)}], q[Max(t)]>>] = Merge(f[t \ {Max(t)}], q[Max(t)])
  <2>1. Max(t) \in t
    BY <1>3, <1>4, MaxIs
  <2>2. q[Max(t)] \in Message /\ f[t \ {Max(t)}] \in A
    <3>1. Max(t) \in 1 .. n /\ t \ {Max(t)} \in SUBSET (1 .. n)
      BY <2>1
    <3> QED BY <3>1
  <2> QED BY <2>2 DEF step
<1>5. Is(g)
  BY <1>2, <1>3, <1>4 DEF FoldsBy
<1>6. Is(it)
  BY <1>5
<1>7. Converted(q) = it[1 .. n]
  BY <1>3, Zenon DEF Converted, FoldLeft, MapThenFoldSet
<1> HIDE DEF it
<1> DEFINE out == [k \in 0 .. n |-> it[1 .. k]]
<1>8. out[0] = <<>>
  <2>1. 1 .. 0 = {} /\ 0 \in 0 .. n
    BY <1>3
  <2> QED BY <1>3, <1>6, <2>1
<1>9. ASSUME NEW k \in 1 .. n PROVE out[k] = Merge(out[k - 1], q[k])
  <2>1. /\ Max(1 .. k) = k
        /\ (1 .. k) \ {k} = 1 .. k - 1 /\ 1 .. k # {} /\ 1 .. k \in SUBSET (1 .. n)
    BY <1>3, Initial
  <2>2. it[1 .. k] = Merge(it[1 .. k - 1], q[k])
    BY <1>3, <1>6, <2>1
  <2> QED BY <1>3, <2>2
<1>10. out \in [0 .. n -> A]
  <2> HIDE DEF out
  <2> DEFINE S == {k \in 0 .. n : out[k] \in A}
  <2>1. \A k \in 0 .. n : k \in S
    <3>1. 0 \in S
      <4>1. 0 \in 0 .. n
        BY <1>3
      <4> HIDE DEF A
      <4> QED BY <1>1, <1>8, <4>1
    <3>2. ASSUME NEW k \in 1 .. n, k - 1 \in S PROVE k \in S
      <4>1. out[k - 1] \in A /\ q[k] \in Message /\ k \in 0 .. n
        BY <1>3, <3>2
      <4> QED BY <1>9, <4>1, MergeType
    <3> HIDE DEF S
    <3> QED BY <1>3, <3>1, <3>2, UpTo
  <2>2. DOMAIN out = 0 .. n /\ out = [k \in DOMAIN out |-> out[k]]
    BY DEF out
  <2> QED BY <2>1, <2>2
<1>11. out[n] = Converted(q)
  BY <1>3, <1>7
<1> HIDE DEF out
<1> QED BY <1>8, <1>9, <1>10, <1>11

\* The results in a converted list are those of calls in the message before.
Fits(out) ==
    \A i \in 1 .. Len(out) : out[i].role = "user" /\ out[i].calls # <<>> =>
        i > 1 /\ ToSet(out[i].calls) \subseteq CalledBy(out[i - 1])

\* What the list converted so far ends with, by the last message of c[1..n].
Ends(out, c, n) ==
    /\ c[n].role \in {"user", "assistant"} => out # <<>> /\ out[Len(out)] = c[n]
    /\ c[n].role = "tool" =>
          /\ InResults(out) /\ Len(out) > 1
          /\ \A k \in 1 .. n - 1 : c[k].role = "assistant" /\ Answers(c, k, n) =>
                 out[Len(out) - 1] = c[k]

LEMMA Joined ==
    ASSUME NEW a \in Seq(Nat), NEW b \in Seq(Nat), b # <<>>
    PROVE  /\ a \o b \in Seq(Nat) /\ a \o b # <<>>
           /\ ToSet(a \o b) \subseteq ToSet(a) \cup ToSet(b)
<1>1. /\ a \o b \in Seq(Nat) /\ Len(a \o b) = Len(a) + Len(b)
      /\ Len(a) \in Nat /\ Len(b) \in Nat /\ Len(b) # 0
  BY EmptySeq
<1>2. a \o b # <<>>
  BY <1>1, EmptySeq
<1>3. ASSUME NEW i \in 1 .. Len(a) + Len(b)
      PROVE  (a \o b)[i] \in ToSet(a) \cup ToSet(b)
  <2>1. CASE i <= Len(a)
    <3>1. (a \o b)[i] = a[i] /\ i \in 1 .. Len(a)
      BY <1>1, <2>1
    <3> QED BY <3>1 DEF ToSet
  <2>2. CASE i > Len(a)
    <3>1. (a \o b)[i] = b[i - Len(a)] /\ i - Len(a) \in 1 .. Len(b)
      BY <1>1, <2>2
    <3> QED BY <3>1 DEF ToSet
  <2> QED BY <1>1, <2>1, <2>2
<1> QED BY <1>1, <1>2, <1>3 DEF ToSet

(* What is put behind a list that fits. *)
LEMMA FitsMore ==
    ASSUME NEW out, Fits(out), NEW p \in Nat, Len(out) \in Nat, p <= Len(out),
           NEW new, Len(new) = p + 1, \A i \in 1 .. p : new[i] = out[i],
           new[p + 1].role = "user" /\ new[p + 1].calls # <<>> =>
               p > 0 /\ ToSet(new[p + 1].calls) \subseteq CalledBy(out[p])
    PROVE  Fits(new)
<1>1. ASSUME NEW i \in 1 .. p + 1, new[i].role = "user", new[i].calls # <<>>
      PROVE  i > 1 /\ ToSet(new[i].calls) \subseteq CalledBy(new[i - 1])
  <2>1. CASE i = p + 1
    <3>1. p > 0 /\ ToSet(new[i].calls) \subseteq CalledBy(out[p]) /\ new[p] = out[p]
      BY <1>1, <2>1
    <3> QED BY <2>1, <3>1
  <2>2. CASE i # p + 1
    <3>1. i \in 1 .. p /\ i \in 1 .. Len(out) /\ new[i] = out[i]
      BY <2>2
    <3>2. i > 1 /\ ToSet(out[i].calls) \subseteq CalledBy(out[i - 1])
      BY <1>1, <3>1 DEF Fits
    <3>3. i - 1 \in 1 .. p
      BY <3>1, <3>2
    <3> QED BY <3>1, <3>2, <3>3
  <2> QED BY <2>1, <2>2
<1> QED BY <1>1 DEF Fits

(* One message more. *)
LEMMA MergeFits ==
    ASSUME NEW c, NEW lost, Kept(c, {}, lost), NEW n \in 1 .. Len(c),
           NEW out \in Seq(Block), Fits(out), n > 1 => Ends(out, c, n - 1)
    PROVE  Fits(Merge(out, c[n])) /\ Ends(Merge(out, c[n]), c, n)
<1> DEFINE m == c[n]
           new == Merge(out, m)
<1>1. c \in Seq(Message) /\ m \in Message /\ Paired(c, {}, lost) /\ n \in Nat /\ Len(out) \in Nat
  BY DEF Kept
<1>2. CASE m.role = "system"
  BY <1>2 DEF Merge, Ends
<1>3. CASE m.role \in {"user", "assistant"}
  <2>1. new = Append(out, m)
    BY <1>3 DEF Merge
  <2>2. m.role = "user" => m.calls = <<>>
    BY <1>1, MessageIsBlock
  <2>3. m \in Block
    BY <1>1, MessageIsBlock
  <2>4. /\ Len(new) = Len(out) + 1 /\ new[Len(out) + 1] = m
        /\ \A i \in 1 .. Len(out) : new[i] = out[i]
    BY <2>1, <2>3
  <2> HIDE DEF new
  <2>5. Fits(new)
    BY <1>1, <2>2, <2>4, FitsMore
  <2>6. new # <<>> /\ new[Len(new)] = m
    BY <1>1, <2>4
  <2> QED BY <1>3, <2>5, <2>6 DEF Ends, new
<1>4. CASE m.role = "tool"
  <2>1. PICK k \in 1 .. n - 1 : /\ c[k].role = "assistant" /\ Answers(c, k, n)
                                /\ Head(m.calls) \in ToSet(c[k].calls)
    BY <1>1, <1>4 DEF Paired
  <2>2. m.calls \in Seq(Nat) /\ Len(m.calls) = 1
    BY <1>1, <1>4, MessageIsBlock DEF Block
  <2>3. ToSet(m.calls) \subseteq CalledBy(c[k]) /\ m.calls # <<>>
    BY <2>1, <2>2 DEF ToSet, CalledBy
  <2>4. ASSUME NEW l \in 1 .. n - 1, c[l].role = "assistant", Answers(c, l, n) PROVE l = k
    <3>1. ~(l < k) /\ ~(k < l)
      BY <1>1, <2>1, <2>4 DEF Answers
    <3> QED BY <1>1, <3>1
  <2>5. CASE k = n - 1
    <3>1. out # <<>> /\ out[Len(out)] = c[k]
      BY <1>1, <2>1, <2>5 DEF Ends
    <3>2. ~InResults(out)
      BY <2>1, <3>1 DEF InResults, Last
    <3> DEFINE u == [role |-> "user", calls |-> m.calls]
    <3>3. new = Append(out, u)
      BY <1>4, <3>2 DEF Merge
    <3>4. u \in Block /\ u.calls = m.calls /\ u.role = "user"
      BY <2>2 DEF Block
    <3>5. /\ new \in Seq(Block) /\ Len(new) = Len(out) + 1 /\ new[Len(out) + 1] = u
          /\ \A i \in 1 .. Len(out) : new[i] = out[i]
      BY <3>3, <3>4
    <3>6. Len(out) >= 1
      BY <1>1, <3>1, EmptySeq
    <3> HIDE DEF new, u
    <3>7. Fits(new)
      <4>1. /\ Len(out) > 0 /\ Len(out) <= Len(out) /\ Len(new) = Len(out) + 1
            /\ ToSet(new[Len(out) + 1].calls) \subseteq CalledBy(out[Len(out)])
        BY <1>1, <2>3, <3>1, <3>4, <3>5, <3>6
      <4> QED BY <1>1, <3>5, <4>1, FitsMore
    <3>8. InResults(new) /\ Len(new) > 1 /\ new[Len(new) - 1] = c[k]
      BY <1>1, <2>3, <3>1, <3>4, <3>5, <3>6 DEF InResults, Last
    <3> QED BY <1>4, <2>4, <3>7, <3>8 DEF Ends, new
  <2>6. CASE k < n - 1
    <3>1. c[n - 1].role = "tool" /\ Answers(c, k, n - 1)
      BY <1>1, <2>1, <2>6 DEF Answers
    <3>2. InResults(out) /\ Len(out) > 1 /\ out[Len(out) - 1] = c[k]
      BY <1>1, <2>1, <2>6, <3>1 DEF Ends
    <3> DEFINE u == [role |-> "user", calls |-> Last(out).calls \o m.calls]
    <3>3. new = Append(Front(out), u)
      BY <1>4, <3>2 DEF Merge
    <3>4. /\ Last(out) = out[Len(out)] /\ Len(out) \in 1 .. Len(out)
          /\ Last(out).role = "user" /\ Last(out).calls # <<>>
      BY <1>1, <3>2 DEF Last, InResults
    <3>11. Last(out).calls \in Seq(Nat)
      <4>1. out[Len(out)] \in Block
        BY <3>4
      <4> QED BY <3>4, <4>1 DEF Block
    <3>5. /\ u \in Block /\ u.role = "user" /\ u.calls # <<>>
          /\ ToSet(u.calls) \subseteq ToSet(Last(out).calls) \cup ToSet(m.calls)
      <4>1. u.calls = Last(out).calls \o m.calls /\ u.role = "user"
        OBVIOUS
      <4>2. /\ u.calls \in Seq(Nat) /\ u.calls # <<>>
            /\ ToSet(u.calls) \subseteq ToSet(Last(out).calls) \cup ToSet(m.calls)
        BY <2>2, <2>3, <3>11, <4>1, Joined
      <4> QED BY <4>1, <4>2 DEF Block
    <3>6. /\ Front(out) \in Seq(Block) /\ Len(Front(out)) = Len(out) - 1
          /\ \A i \in 1 .. Len(out) - 1 : Front(out)[i] = out[i]
      BY <1>1, <3>2 DEF Front
    <3>7. /\ new \in Seq(Block) /\ Len(new) = Len(out) /\ new[Len(out)] = u
          /\ \A i \in 1 .. Len(out) - 1 : new[i] = out[i]
      BY <1>1, <3>2, <3>3, <3>5, <3>6
    <3>8. ToSet(u.calls) \subseteq CalledBy(c[k])
      <4>1. ToSet(Last(out).calls) \subseteq CalledBy(out[Len(out) - 1])
        BY <3>4 DEF Fits
      <4> QED BY <2>3, <3>2, <3>5, <4>1
    <3> HIDE DEF new, u
    <3>9. Fits(new)
      <4> DEFINE l == Len(out) - 1
      <4>1. /\ l \in Nat /\ l > 0 /\ l <= Len(out) /\ Len(new) = l + 1 /\ new[l + 1] = u
            /\ \A i \in 1 .. l : new[i] = out[i]
            /\ ToSet(u.calls) \subseteq CalledBy(out[l])
        BY <1>1, <3>2, <3>7, <3>8
      <4> HIDE DEF l
      <4> QED BY <1>1, <4>1, FitsMore
    <3>10. InResults(new) /\ Len(new) > 1 /\ new[Len(new) - 1] = c[k]
      BY <1>1, <3>2, <3>5, <3>7 DEF InResults, Last
    <3> QED BY <1>4, <2>4, <3>9, <3>10 DEF Ends, new
  <2> QED BY <1>1, <2>5, <2>6
<1>5. m.role \in {"system", "user", "assistant", "tool"}
  BY <1>1 DEF Message
<1> QED BY <1>2, <1>3, <1>4, <1>5

(* So a list with its answers in place fits when it is converted. *)
LEMMA ConvertedFits ==
    ASSUME NEW c, NEW lost, Kept(c, {}, lost)
    PROVE  Converted(c) \in Seq(Block) /\ Fits(Converted(c))
<1>1. c \in Seq(Message) /\ Len(c) \in Nat
  BY DEF Kept
<1>2. PICK out \in [0 .. Len(c) -> Seq(Block)] :
              /\ out[0] = <<>> /\ out[Len(c)] = Converted(c)
              /\ \A k \in 1 .. Len(c) : out[k] = Merge(out[k - 1], c[k])
  BY <1>1, ConvertedIs
<1> DEFINE S == {k \in 0 .. Len(c) : Fits(out[k]) /\ (k > 0 => Ends(out[k], c, k))}
<1>3. 0 \in S
  <2>1. Fits(<<>>)
    BY EmptySeq DEF Fits
  <2> QED BY <1>1, <1>2, <2>1
<1>4. ASSUME NEW k \in 1 .. Len(c), k - 1 \in S PROVE k \in S
  <2>1. /\ k - 1 \in 0 .. Len(c) /\ Fits(out[k - 1])
        /\ k > 1 => Ends(out[k - 1], c, k - 1)
    BY <1>1, <1>4
  <2>2. out[k - 1] \in Seq(Block) /\ out[k] = Merge(out[k - 1], c[k])
    BY <1>2, <2>1
  <2>3. Fits(out[k]) /\ Ends(out[k], c, k)
    BY <2>1, <2>2, MergeFits
  <2> QED BY <1>1, <2>3
<1>5. Len(c) \in S
  <2>1. Len(c) \in 0 .. Len(c)
    BY <1>1
  <2> HIDE DEF S
  <2> QED BY <1>1, <1>3, <1>4, <2>1, UpTo
<1> QED BY <1>2, <1>5

(* The sanitizer leaves results alone whose calls are all there. *)
LEMMA CalledIsAll ==
    ASSUME NEW q \in Seq(Nat), NEW called, ToSet(q) \subseteq called
    PROVE  Called(q, called) = q
<1> DEFINE A == Seq(Nat)
           Keep(kept, c) == IF c \in called THEN Append(kept, c) ELSE kept
           step == [p \in A \X Nat |-> Keep(p[1], p[2])]
           n == Len(q)
           Is(g) == g = [t \in SUBSET DOMAIN q |->
                          IF t = {} THEN <<>> ELSE Keep(g[t \ {Max(t)}], q[Max(t)])]
           it == CHOOSE g : Is(g)
<1>1. step \in [A \X Nat -> A] /\ <<>> \in A
  OBVIOUS
<1> HIDE DEF step
<1>2. PICK g \in [SUBSET (1 .. n) -> A] : FoldsBy(g, n, <<>>, step, q)
  BY <1>1, FoldExists
<1>3. DOMAIN q = 1 .. n /\ n \in Nat
  OBVIOUS
<1>4. ASSUME NEW t \in SUBSET (1 .. n), t # {}
      PROVE  step[<<g[t \ {Max(t)}], q[Max(t)]>>] = Keep(g[t \ {Max(t)}], q[Max(t)])
  <2>1. Max(t) \in t
    BY <1>3, <1>4, MaxIs
  <2>2. q[Max(t)] \in Nat /\ g[t \ {Max(t)}] \in A
    <3>1. Max(t) \in 1 .. n /\ t \ {Max(t)} \in SUBSET (1 .. n)
      BY <2>1
    <3> QED BY <3>1
  <2> HIDE DEF Keep
  <2> QED BY <2>2 DEF step
<1>5. Is(g)
  <2> HIDE DEF Keep
  <2> QED BY <1>2, <1>3, <1>4 DEF FoldsBy
<1>6. Is(it)
  BY <1>5
<1>7. Called(q, called) = it[1 .. n]
  BY <1>3, Zenon DEF Called, FoldLeft, MapThenFoldSet
<1> HIDE DEF it
<1> DEFINE S == {k \in 0 .. n : it[1 .. k] = SubSeq(q, 1, k)}
<1>8. 0 \in S
  <2>1. 1 .. 0 = {} /\ 0 \in 0 .. n /\ SubSeq(q, 1, 0) = <<>>
    BY <1>3
  <2> QED BY <1>3, <1>6, <2>1
<1>9. ASSUME NEW k \in 1 .. n, k - 1 \in S PROVE k \in S
  <2>1. /\ Max(1 .. k) = k
        /\ (1 .. k) \ {k} = 1 .. k - 1 /\ 1 .. k # {} /\ 1 .. k \in SUBSET (1 .. n)
    BY <1>3, Initial
  <2>2. it[1 .. k] = Keep(it[1 .. k - 1], q[k])
    BY <1>3, <1>6, <2>1
  <2>3. q[k] \in called
    BY <1>3 DEF ToSet
  <2>4. it[1 .. k] = Append(SubSeq(q, 1, k - 1), q[k])
    BY <1>9, <2>2, <2>3
  <2>5. Append(SubSeq(q, 1, k - 1), q[k]) = SubSeq(q, 1, k)
    BY <1>3
  <2>6. k \in 0 .. n /\ it[1 .. k] = SubSeq(q, 1, k)
    BY <1>3, <2>4, <2>5
  <2> HIDE DEF n
  <2> QED BY <2>6
<1>10. n \in S
  <2>1. n \in 0 .. n
    BY <1>3
  <2> HIDE DEF S, n
  <2> QED BY <1>3, <1>8, <1>9, <2>1, UpTo
<1>11. SubSeq(q, 1, n) = q
  BY <1>3
<1> QED BY <1>7, <1>10, <1>11

LEMMA SanitizedIsSame ==
    ASSUME NEW out \in Seq(Block), Fits(out)
    PROVE  Sanitized(out) = out
<1>1. ASSUME NEW i \in 1 .. Len(out), out[i].role = "user", out[i].calls # <<>>
      PROVE  [out[i] EXCEPT !.calls =
                Called(@, IF i > 1 THEN CalledBy(out[i - 1]) ELSE {})] = out[i]
  <2>1. i > 1 /\ ToSet(out[i].calls) \subseteq CalledBy(out[i - 1])
    BY <1>1 DEF Fits
  <2>2. out[i] \in Block /\ out[i].calls \in Seq(Nat)
    <3>1. out[i] \in Block
      OBVIOUS
    <3> QED BY <3>1 DEF Block
  <2>3. Called(out[i].calls, CalledBy(out[i - 1])) = out[i].calls
    BY <2>1, <2>2, CalledIsAll
  <2> QED BY <2>1, <2>2, <2>3 DEF Block
<1>2. DOMAIN out = 1 .. Len(out) /\ out = [i \in DOMAIN out |-> out[i]]
  OBVIOUS
<1> QED BY <1>1, <1>2 DEF Sanitized

\* messages.py: in every list sent to a model, shortened, retried or taken over,
\* an answer stands in the row behind the message that makes its call, and the
\* conversion for Anthropic, sanitizer and all, drops no result of a tool.
THEOREM AnswersReachTheModel == Spec => []AnswersFollowTheirCalls
<1>1. ConversationInv /\ Asking => Kept(convo, {}, abandoned)
  BY Quiet DEF ConversationInv, Asking, CallStage
<1>2. ConversationInv /\ Asking => AnswersInPlace
  BY <1>1, PairedSays DEF AnswersInPlace
<1>3. ConversationInv /\ Asking => Sent = Converted(convo)
  BY <1>1, ConvertedFits, SanitizedIsSame DEF Sent
<1>4. ConversationInv => AnswersFollowTheirCalls
  BY <1>2, <1>3 DEF AnswersFollowTheirCalls
<1> QED BY <1>4, ConversationInvHolds, PTL

\* rollout.py, baselines.py, agent.py: no list is sent with a call that has no
\* answer, except those a done cut off in their turn.
THEOREM CallsAreAnswered == Spec => []OnlyAbandonedCallsHang
<1>1. ConversationInv /\ Asking => Kept(convo, {}, abandoned)
  BY Quiet DEF ConversationInv, Asking, CallStage
<1>2. ConversationInv => OnlyAbandonedCallsHang
  BY <1>1, PairedSays DEF OnlyAbandonedCallsHang
<1> QED BY <1>2, ConversationInvHolds, PTL

\* rollout.py:242, 271: what is sent begins with its two prompts and is not
\* longer than the code means, whatever is continued and shortened.
THEOREM SentStaysUsable == Spec => []SentIsUsable
<1>1. ASSUME ConversationInv, Asking
      PROVE  /\ Len(convo) <= SentAtMost
             /\ ~crashed => convo[1] = Say("system") /\ convo[2] = Say("user")
  <2>1. TypeOK /\ RowInv /\ HeadInv /\ SizeInv /\ at # "idle" /\ at \notin CallStage
    BY <1>1 DEF ConversationInv, Asking, CallStage
  <2>2. Kept(convo, {}, abandoned) /\ (~crashed => Starts(convo))
    BY <2>1, Quiet
  <2>3. /\ Len(convo) \in Nat /\ ToolBudget \in Nat /\ turn \in Nat /\ nudges \in Nat
        /\ MaxRepairs \in Nat
    BY <2>1, Numbers
  <2>4. kind \in {"rollout", "openeta", "capx"} \cup chat
    BY <2>1 DEF TypeOK
  <2>5. Len(convo) <= SentAtMost
    <3>1. CASE kind = "rollout"
      <4>1. at = "asked"
        BY <1>1, <2>1, <3>1 DEF SizeInv, Asking
      <4> QED BY <2>1, <3>1, <4>1 DEF SizeInv, SentAtMost
    <3>2. CASE kind = "openeta"
      <4>1. at = "asked"
        BY <1>1, <2>1, <3>2 DEF SizeInv, Asking
      <4>2. PICK m \in Nat : /\ turn = 2 * m + 1 /\ turn < ToolBudget
                             /\ Len(convo) <= 3 + 5 * m + 2 * nudges
        BY <2>1, <3>2, <4>1 DEF SizeInv
      <4>3. m <= (ToolBudget - 2) \div 2
        BY <2>3, <4>2
      <4>4. SentAtMost = 3 + 5 * ((ToolBudget - 2) \div 2) + 2 * nudges
        BY <3>2 DEF SentAtMost
      <4> QED BY <2>3, <4>2, <4>3, <4>4
    <3>3. CASE kind = "capx"
      <4>1. at = "asked"
        BY <1>1, <2>1, <3>3 DEF SizeInv, Asking
      <4> QED BY <2>1, <2>3, <3>3, <4>1 DEF SizeInv, SentAtMost
    <3>4. CASE kind \in chat
      BY <3>4 DEF SentAtMost, chat
    <3> QED BY <2>4, <3>1, <3>2, <3>3, <3>4
  <2> QED BY <2>2, <2>5 DEF Starts
<1>2. ConversationInv => SentIsUsable
  BY <1>1 DEF SentIsUsable
<1> QED BY <1>2, ConversationInvHolds, PTL
=============================================================================
