---------------------------- MODULE RoleSessions ----------------------------
(***************************************************************************)
(* sessions/persistent_agent.py and sessions/roll.py: the session of one   *)
(* role on one task, shared by the processes that run the task's episodes. *)
(*                                                                         *)
(* A process reads the live session id without a lock, waits for the       *)
(* session, reads the id again and runs its turn; the id it ends with      *)
(* becomes the live one.  A session that has grown too long is rolled: it  *)
(* summarises itself in one more turn, the summary becomes the memory file *)
(* and the id is forgotten, so that the next turn starts a fresh session   *)
(* seeded with that file.                                                  *)
(*                                                                         *)
(* What a session and the memory file hold is told apart by the turns they *)
(* know of.  The agent CLI is external: a turn is answered, fails or dies. *)
(* The session table is rewritten by os.replace under a lock of its own,   *)
(* which makes each update of it one step.                                 *)
(***************************************************************************)
EXTENDS Naturals, FiniteSets

CONSTANTS
    Process,     \* the processes that run turns of this session
    Nobody,      \* the session is free
    RollAt,      \* ROBORSI_SESSION_ROLL_CHARS, in turns
    MaxTurns,    \* bound: turns of a process
    MaxThreads,  \* bound: sessions started
    MaxSetbacks, \* bound: turns that fail, processes killed
    MaxByHand    \* bound: the operator rolls before that many ids are forgotten

ASSUME RoleSessionsAssumption ==
    /\ IsFiniteSet(Process) /\ Nobody \notin Process
    /\ {RollAt, MaxTurns, MaxThreads} \subseteq Nat \ {0} /\ {MaxSetbacks, MaxByHand} \subseteq Nat

NoThread == 0
Thread == 1 .. MaxThreads
Turn == Process \X (1 .. MaxTurns)

VARIABLES
    live,       \* the id in agent_sessions.json
    knows,      \* per session, the turns it knows of
    memory,     \* the turns the memory file knows of
    usage,      \* agent_session_usage.json
    holder,     \* who holds the session's lock
    pc,         \* where a process stands in run and _roll
    rolling,    \* _ROLL_STATE.active: its turn is a summary
    tid,        \* thread_id
    seeds,      \* the memory its prompt was seeded with
    summary,    \* what the summary it got knows of
    nth,        \* turns it has begun
    crowd,      \* the processes there are
    threads,    \* history: sessions started
    clears,     \* history: times the id was forgotten
    answered,   \* history: the turns that got their answer
    setbacks    \* history: turns failed and processes killed

diskVars == <<live, knows, memory, usage, holder>>
procVars == <<pc, rolling, tid, seeds, summary, nth>>
pastVars == <<threads, clears, answered, setbacks>>
sessionVars == <<diskVars, procVars, crowd, pastVars>>

SessionTypeOK ==
    /\ live \in Thread \cup {NoThread} /\ live <= threads
    /\ knows \in [Thread -> SUBSET Turn] /\ memory \subseteq Turn
    /\ usage \in Nat /\ holder \in Process \cup {Nobody}
    /\ pc \in [Process -> {"idle", "wait", "run", "save", "fail", "grow",
                           "memo", "clear", "pop"}]
    /\ rolling \in [Process -> BOOLEAN]
    /\ tid \in [Process -> 0 .. threads]
    /\ seeds \in [Process -> SUBSET Turn] /\ summary \in [Process -> SUBSET Turn]
    /\ nth \in [Process -> 0 .. MaxTurns] /\ crowd \subseteq Process
    /\ threads \in 0 .. MaxThreads /\ clears \in Nat
    /\ answered \subseteq Turn /\ setbacks \in 0 .. MaxSetbacks

SessionInit ==
    /\ live = NoThread /\ knows = [t \in Thread |-> {}] /\ memory = {}
    /\ usage = 0 /\ holder = Nobody
    /\ pc = [p \in Process |-> "idle"] /\ rolling = [p \in Process |-> FALSE]
    /\ tid = [p \in Process |-> NoThread]
    /\ seeds = [p \in Process |-> {}] /\ summary = [p \in Process |-> {}]
    /\ nth = [p \in Process |-> 0]
    /\ crowd \in (SUBSET Process) \ {{}}
    /\ threads = 0 /\ clears = 0 /\ answered = {} /\ setbacks = 0

Goes(p, from, to) == pc[p] = from /\ pc' = [pc EXCEPT ![p] = to]
-----------------------------------------------------------------------------
(***************************************************************************)
(* A turn: run.                                                            *)
(***************************************************************************)
\* Mutant: a fresh session starts cold.
LoadColdly(p) ==
    /\ tid' = [tid EXCEPT ![p] = live]
    /\ UNCHANGED seeds

\* The id is read; without one the prompt is seeded with the memory file.
Load(p) ==
    /\ tid' = [tid EXCEPT ![p] = live]
    /\ seeds' = [seeds EXCEPT ![p] = IF live = NoThread THEN memory ELSE {}]

BeginTurn(p) ==
    /\ p \in crowd /\ nth[p] < MaxTurns
    /\ Goes(p, "idle", "wait")
    /\ nth' = [nth EXCEPT ![p] = @ + 1]
    /\ Load(p)
    /\ UNCHANGED <<diskVars, rolling, summary, crowd, pastVars>>

\* Mutant: the id read before the wait is the one to resume.
ResumeWhatWasLoaded(p) == UNCHANGED tid

\* The id may be there by now.
LoadAgain(p) == tid' = [tid EXCEPT ![p] = IF live = NoThread THEN @ ELSE live]

TakeSession(p) ==
    /\ Goes(p, "wait", "run")
    /\ holder = Nobody /\ holder' = p
    /\ LoadAgain(p)
    /\ UNCHANGED <<live, knows, memory, usage, rolling, seeds, summary, nth, crowd, pastVars>>

\* The turn on the session `t`: a summary tells what the session knows.
RunOn(p, t) ==
    /\ tid' = [tid EXCEPT ![p] = t]
    /\ knows' = [knows EXCEPT ![t] = @ \cup seeds[p] \cup
                    IF rolling[p] THEN {} ELSE {<<p, nth[p]>>}]
    /\ summary' = IF rolling[p] THEN [summary EXCEPT ![p] = knows[t] \cup seeds[p]] ELSE summary
    /\ seeds' = [seeds EXCEPT ![p] = {}]

\* The CLI resumes the session, or starts one; its turn may fail.
RunTurn(p) ==
    /\ pc[p] = "run"
    /\ \/ tid[p] # NoThread /\ RunOn(p, tid[p]) /\ UNCHANGED threads
       \/ tid[p] = NoThread /\ threads < MaxThreads
          /\ threads' = threads + 1 /\ RunOn(p, threads + 1)
    /\ \/ pc' = [pc EXCEPT ![p] = "save"] /\ UNCHANGED setbacks
       \/ /\ setbacks < MaxSetbacks /\ setbacks' = setbacks + 1
          /\ pc' = [pc EXCEPT ![p] = "fail"]
    /\ UNCHANGED <<live, memory, usage, holder, rolling, nth, crowd, clears, answered>>

\* Mutant: the lock is kept for the roll.
SaveAndHold(p) ==
    /\ Goes(p, "save", "grow")
    /\ live' = tid[p] /\ tid' = [tid EXCEPT ![p] = NoThread]
    /\ answered' = IF rolling[p] THEN answered ELSE answered \cup {<<p, nth[p]>>}
    /\ holder' = IF usage + 1 >= RollAt /\ ~rolling[p] THEN holder ELSE Nobody
    /\ UNCHANGED <<knows, memory, usage, rolling, seeds, summary, nth, crowd,
                   threads, clears, setbacks>>

\* The id becomes the live one, and the session is free.
SaveSession(p) ==
    /\ Goes(p, "save", "grow")
    /\ live' = tid[p] /\ tid' = [tid EXCEPT ![p] = NoThread]
    /\ answered' = IF rolling[p] THEN answered ELSE answered \cup {<<p, nth[p]>>}
    /\ holder' = Nobody
    /\ UNCHANGED <<knows, memory, usage, rolling, seeds, summary, nth, crowd,
                   threads, clears, setbacks>>

\* A failed turn saves its id too, when it has one; then run raises, and a roll
\* gives up.
FailTurn(p) ==
    /\ Goes(p, "fail", IF rolling[p] THEN "pop" ELSE "idle")
    /\ live' \in {tid[p], live} /\ tid' = [tid EXCEPT ![p] = NoThread]
    /\ holder' = Nobody
    /\ UNCHANGED <<knows, memory, usage, rolling, seeds, summary, nth, crowd, pastVars>>

\* _grow, and the return: a summary goes to the memory file and never rolls
\* again.
Grow(p) ==
    /\ pc[p] = "grow" /\ (rolling[p] \/ usage + 1 < RollAt)
    /\ usage' = usage + 1
    /\ Goes(p, "grow", IF rolling[p] THEN "memo" ELSE "idle")
    /\ UNCHANGED <<live, knows, memory, holder, rolling, tid, seeds, summary, nth,
                   crowd, pastVars>>
-----------------------------------------------------------------------------
(***************************************************************************)
(* The roll: _roll, from a turn or from the operator's roll.py.            *)
(***************************************************************************)
\* The turn that reaches the limit goes on to ask for the summary.
GrowTooLong(p) ==
    /\ Goes(p, "grow", "wait") /\ ~rolling[p] /\ usage + 1 >= RollAt
    /\ usage' = usage + 1
    /\ rolling' = [rolling EXCEPT ![p] = TRUE]
    /\ Load(p)
    /\ UNCHANGED <<live, knows, memory, holder, summary, nth, crowd, pastVars>>

\* roll.py asks whether there is a session at all.
OperatorRolls(p) ==
    /\ p \in crowd /\ live # NoThread /\ clears < MaxByHand
    /\ Goes(p, "idle", "wait")
    /\ rolling' = [rolling EXCEPT ![p] = TRUE]
    /\ Load(p)
    /\ UNCHANGED <<diskVars, summary, nth, crowd, pastVars>>

WriteMemory(p) ==
    /\ Goes(p, "memo", "clear")
    /\ memory' = summary[p] /\ summary' = [summary EXCEPT ![p] = {}]
    /\ UNCHANGED <<live, knows, usage, holder, rolling, tid, seeds, nth, crowd, pastVars>>

Clear(p) ==
    /\ Goes(p, "clear", "pop")
    /\ live' = NoThread /\ clears' = clears + 1
    /\ UNCHANGED <<knows, memory, usage, holder, rolling, tid, seeds, summary, nth,
                   crowd, threads, answered, setbacks>>

\* The counter starts again, rolled or not.
PopUsage(p) ==
    /\ Goes(p, "pop", "idle")
    /\ usage' = 0 /\ rolling' = [rolling EXCEPT ![p] = FALSE]
    /\ UNCHANGED <<live, knows, memory, holder, tid, seeds, summary, nth, crowd, pastVars>>

\* A process is killed and started again; the lock goes with it, and a memory
\* file it was about to write may be left empty.
Killed(p) ==
    /\ pc[p] # "idle" /\ setbacks < MaxSetbacks
    /\ setbacks' = setbacks + 1
    /\ memory' \in {memory} \cup IF pc[p] = "memo" THEN {{}} ELSE {}
    /\ holder' = IF holder = p THEN Nobody ELSE holder
    /\ pc' = [pc EXCEPT ![p] = "idle"] /\ rolling' = [rolling EXCEPT ![p] = FALSE]
    /\ tid' = [tid EXCEPT ![p] = NoThread]
    /\ seeds' = [seeds EXCEPT ![p] = {}] /\ summary' = [summary EXCEPT ![p] = {}]
    /\ UNCHANGED <<live, knows, usage, nth, crowd, threads, clears, answered>>

TurnSteps(p) ==
    \/ TakeSession(p) \/ RunTurn(p) \/ SaveSession(p) \/ FailTurn(p) \/ Grow(p)
    \/ GrowTooLong(p) \/ WriteMemory(p) \/ Clear(p) \/ PopUsage(p)

SessionNext == \E p \in Process :
    BeginTurn(p) \/ TurnSteps(p) \/ OperatorRolls(p) \/ Killed(p)

SessionSpec == SessionInit /\ [][SessionNext]_sessionVars

\* A process goes on with its turn; the waiters of the lock are served.
SessionFairSpec == SessionSpec /\ \A p \in Process : SF_sessionVars(TurnSteps(p))
-----------------------------------------------------------------------------
(***************************************************************************)
(* What must hold.                                                         *)
(***************************************************************************)
Remembered == memory \cup IF live = NoThread THEN {} ELSE knows[live]

\* A single process forgets no answer, whatever is rolled, fails or is killed:
\* its next turn finds every one in the session or in the memory it is seeded
\* with.
LoneProcessForgetsNothing ==
    Cardinality(crowd) = 1 => answered \subseteq Remembered

\* Processes that share a session find each other's turns in it, first turns
\* that begin together included, as long as nobody has rolled it.
SharedSessionForgetsNothing ==
    clears = 0 => answered \subseteq Remembered

\* The turns of a session are taken one at a time.
OneTurnAtATime == \A p, q \in Process :
    pc[p] \in {"run", "save", "fail"} /\ pc[q] \in {"run", "save", "fail"} => p = q

\* Every turn ends, and every roll with it.
TurnsEnd == \A p \in Process : (pc[p] # "idle") ~> (pc[p] = "idle")
=============================================================================
