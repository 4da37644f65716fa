------------------------- MODULE LongHorizonProofs -------------------------
(***************************************************************************)
(* Theorems about LongHorizon for any number of atomics, attempts,         *)
(* rollbacks, calls and workers left behind: what an attempt starts on,    *)
(* what a success rests on, and that an execution is bounded.              *)
(***************************************************************************)
EXTENDS LongHorizon, WellFoundedInduction, TLAPS

InRollout == {"turn", "look", "unhook"}

\* From an atomic's snapshot to the end of its attempts.
Trying == InRollout \cup {"attempt", "review", "decide"}

\* Nothing of an attempt is in the scene.
Clean(s) == s.hands = {} \/ (leaks > 0 /\ s.hands = {"leaked"})

\* The scene and its snapshots are built on the atomics accepted before.
Lineage ==
    /\ scene.base = i - 1 /\ (ex # "ended" => i <= Atomics)
    /\ SnapshotsMatchProgress
    /\ ex \in Trying => pre.base = i - 1 /\ Clean(pre)

\* Where a first attempt is to come, or an attempt has just begun, the scene is
\* as the atomic before left it.
CleanStart ==
    /\ ex = "atomic" \/ (ex = "attempt" /\ attempt = 0) \/ AttemptStarts => Clean(scene)
    /\ ex \in Trying \ {"attempt"} => attempt > 0
    /\ ex = "atomic" => attempt = 0
    /\ ex = "look" => turn > 0

\* What an accepted atomic rests on.
Confirmed == \A k \in Index : k < i \/ (k = i /\ ex = "accept") =>
    /\ grounds[k].done
    /\ grounds[k].said = "failure" => grounds[k].sim
    /\ k = Atomics => grounds[k].sim

\* An attempt that left a worker is contaminated, and one that is does not leave
\* the rollout.
Leaks ==
    /\ workers <= leaks /\ mine <= 1
    /\ mine > 0 => contaminated
    /\ contaminated => ex \in InRollout

IInv == /\ LhTypeOK /\ Lineage /\ CleanStart /\ Confirmed /\ Leaks /\ RecordersAreOfErrors
-----------------------------------------------------------------------------
LEMMA Bounds ==
    /\ Atomics \in Nat /\ Atomics > 0 /\ RetryCap \in Nat /\ RetryCap > 0
    /\ MaxRollbacks \in Nat /\ ToolBudget \in Nat /\ MaxLeaks \in Nat
BY LongHorizonAssumption

LEMMA Scenes ==
    /\ NoScene \in Scene /\ NoScene.base = 0 /\ NoScene.hands # {}
    /\ Fresh \in Scene /\ Fresh.base = 0 /\ Fresh.hands = {}
    /\ Fresh # NoScene
BY Bounds DEF Scene, NoScene, Fresh

LEMMA NoGrounds == NoGround \in Ground
BY DEF NoGround, Ground

LEMMA ActsLeaves ==
    ASSUME scene \in Scene, NEW who \in {"attempt", "leaked"}, Acts(who)
    PROVE  scene' \in Scene /\ scene'.base = scene.base /\ scene'.hands = scene.hands \cup {who}
BY DEF Acts, Scene

LEMMA BuiltOn ==
    ASSUME NEW s \in Scene, NEW k \in 0 .. Atomics
    PROVE  LET t == [s EXCEPT !.base = k, !.hands = {}]
           IN  t \in Scene /\ t.base = k /\ t.hands = {}
BY DEF Scene

LEMMA InitHolds == LhInit => IInv
<1> SUFFICES ASSUME LhInit
             PROVE  IInv
  OBVIOUS
<1>1. LhTypeOK
  <2>1. contaminated \in BOOLEAN
    BY DEF LhInit
  <2>2. grounds \in [Index -> Ground] /\ post \in [Index -> Scene]
    BY NoGrounds, Scenes DEF LhInit
  <2> QED BY <2>1, <2>2, Bounds, Scenes DEF LhInit, LhTypeOK
<1>2. Lineage /\ CleanStart
  BY Bounds, Scenes DEF LhInit, Lineage, CleanStart, SnapshotsMatchProgress, Index, Clean, Trying,
     InRollout
<1>3. Confirmed /\ Leaks /\ RecordersAreOfErrors
  BY DEF LhInit, Confirmed, Leaks, RecordersAreOfErrors, Index
<1> QED BY <1>1, <1>2, <1>3 DEF IInv

\* The executor, up to the rollout.
LEMMA BeforeRolloutKeeps ==
    ASSUME IInv,
           BeginAtomic \/ FirstAttempt \/ RetryFromSnapshot \/ RetryFromSeed \/ ResetRaises
             \/ OutOfAttempts
    PROVE  IInv'
<1> USE Bounds DEF IInv, exVars, rollVars, envVars, pastVars, EnterRollout
<1>1. CASE BeginAtomic
  <2>1. LhTypeOK'
    BY <1>1 DEF BeginAtomic, LhTypeOK
  <2>2. Lineage'
    BY <1>1 DEF BeginAtomic, Lineage, CleanStart, SnapshotsMatchProgress, Clean
  <2>3. CleanStart'
    BY <1>1 DEF BeginAtomic, CleanStart, Clean
  <2>4. Confirmed'
    BY <1>1 DEF BeginAtomic, Confirmed
  <2>5. Leaks' /\ RecordersAreOfErrors'
    BY <1>1 DEF BeginAtomic, Leaks, RecordersAreOfErrors, InRollout
  <2> QED BY <2>1, <2>2, <2>3, <2>4, <2>5
<1>2. CASE FirstAttempt
  <2>1. contaminated' \in BOOLEAN
    BY <1>2 DEF FirstAttempt
  <2>2. LhTypeOK'
    BY <1>2, <2>1 DEF FirstAttempt, LhTypeOK
  <2>3. Lineage'
    BY <1>2 DEF FirstAttempt, Lineage, SnapshotsMatchProgress, Clean, Trying
  <2>4. CleanStart'
    BY <1>2 DEF FirstAttempt, CleanStart, Clean
  <2>5. Confirmed'
    BY <1>2 DEF FirstAttempt, Confirmed
  <2>6. Leaks' /\ RecordersAreOfErrors'
    BY <1>2 DEF FirstAttempt, LhTypeOK, Leaks, RecordersAreOfErrors
  <2> QED BY <2>2, <2>3, <2>4, <2>5, <2>6
<1>3. CASE RetryFromSnapshot
  <2>1. contaminated' \in BOOLEAN
    BY <1>3 DEF RetryFromSnapshot
  <2>2. LhTypeOK'
    BY <1>3, <2>1 DEF RetryFromSnapshot, LhTypeOK
  <2>3. Lineage'
    BY <1>3 DEF RetryFromSnapshot, Lineage, SnapshotsMatchProgress, Clean, Trying
  <2>4. CleanStart'
    BY <1>3 DEF RetryFromSnapshot, CleanStart, Lineage, Clean, Trying
  <2>5. Confirmed'
    BY <1>3 DEF RetryFromSnapshot, Confirmed
  <2>6. Leaks' /\ RecordersAreOfErrors'
    BY <1>3 DEF RetryFromSnapshot, LhTypeOK, Leaks, RecordersAreOfErrors
  <2> QED BY <2>2, <2>3, <2>4, <2>5, <2>6
<1>4. CASE RetryFromSeed
  <2>1. contaminated' \in BOOLEAN
    BY <1>4 DEF RetryFromSeed
  <2>2. LhTypeOK'
    BY <1>4, <2>1, Scenes DEF RetryFromSeed, LhTypeOK
  <2>3. Lineage'
    BY <1>4, Scenes DEF RetryFromSeed, Lineage, SnapshotsMatchProgress, Clean
  <2>4. CleanStart'
    BY <1>4, Scenes DEF RetryFromSeed, CleanStart, Clean
  <2>5. Confirmed'
    BY <1>4 DEF RetryFromSeed, Confirmed
  <2>6. Leaks' /\ RecordersAreOfErrors'
    BY <1>4 DEF RetryFromSeed, Leaks, RecordersAreOfErrors
  <2> QED BY <2>2, <2>3, <2>4, <2>5, <2>6
<1>5. CASE ResetRaises
  <2>1. LhTypeOK'
    BY <1>5 DEF ResetRaises, LhTypeOK
  <2>2. Lineage'
    BY <1>5 DEF ResetRaises, Lineage, SnapshotsMatchProgress, Trying, InRollout
  <2>3. CleanStart'
    BY <1>5 DEF ResetRaises, CleanStart, AttemptStarts
  <2>4. Confirmed'
    BY <1>5 DEF ResetRaises, Confirmed
  <2>5. Leaks' /\ RecordersAreOfErrors'
    BY <1>5 DEF ResetRaises, Leaks, RecordersAreOfErrors, InRollout
  <2> QED BY <2>1, <2>2, <2>3, <2>4, <2>5
<1>6. CASE OutOfAttempts
  <2>1. LhTypeOK'
    BY <1>6 DEF OutOfAttempts, LhTypeOK
  <2>2. Lineage'
    BY <1>6 DEF OutOfAttempts, Lineage, SnapshotsMatchProgress, Trying, InRollout
  <2>3. CleanStart'
    BY <1>6 DEF OutOfAttempts, CleanStart, AttemptStarts
  <2>4. Confirmed'
    BY <1>6 DEF OutOfAttempts, Confirmed
  <2>5. Leaks' /\ RecordersAreOfErrors'
    BY <1>6 DEF OutOfAttempts, Leaks, RecordersAreOfErrors, InRollout
  <2> QED BY <2>1, <2>2, <2>3, <2>4, <2>5
<1> QED BY <1>1, <1>2, <1>3, <1>4, <1>5, <1>6

\* The rollout.
LEMMA RolloutKeeps ==
    ASSUME IInv,
           CallTool \/ CallTimesOut \/ CallRefused \/ LookReturns \/ LoopEnds \/ RolloutRaises
             \/ RolloutEnds
    PROVE  IInv'
<1> USE Bounds DEF IInv, exVars, rollVars, envVars, pastVars, LeaveRollout
<1>1. CASE CallTool
  <2>1. scene' \in Scene /\ scene'.base = scene.base /\ scene'.hands = scene.hands \cup {"attempt"}
    BY <1>1, ActsLeaves DEF CallTool, LhTypeOK
  <2>2. LhTypeOK'
    BY <1>1, <2>1 DEF CallTool, LhTypeOK
  <2>3. Lineage'
    BY <1>1, <2>1 DEF CallTool, Lineage, SnapshotsMatchProgress, Clean, Trying, InRollout
  <2>4. CleanStart'
    BY <1>1 DEF CallTool, LhTypeOK, CleanStart, AttemptStarts, Trying, InRollout
  <2>5. Confirmed'
    BY <1>1 DEF CallTool, Confirmed
  <2>6. Leaks' /\ RecordersAreOfErrors'
    BY <1>1 DEF CallTool, Leaks, RecordersAreOfErrors
  <2> QED BY <2>2, <2>3, <2>4, <2>5, <2>6
<1>2. CASE CallTimesOut
  <2>1. scene' \in Scene /\ scene'.base = scene.base /\ scene'.hands = scene.hands \cup {"attempt"}
    BY <1>2, ActsLeaves DEF CallTimesOut, LhTypeOK
  <2>2. LhTypeOK'
    BY <1>2, <2>1 DEF CallTimesOut, LhTypeOK, Leaks
  <2>3. Lineage'
    BY <1>2, <2>1 DEF CallTimesOut, LhTypeOK, Lineage, SnapshotsMatchProgress, Clean, Trying,
       InRollout
  <2>4. CleanStart'
    BY <1>2 DEF CallTimesOut, LhTypeOK, CleanStart, AttemptStarts, Trying, InRollout
  <2>5. Confirmed'
    BY <1>2 DEF CallTimesOut, Confirmed
  <2>6. Leaks' /\ RecordersAreOfErrors'
    BY <1>2 DEF CallTimesOut, LhTypeOK, Leaks, RecordersAreOfErrors, InRollout
  <2> QED BY <2>2, <2>3, <2>4, <2>5, <2>6
<1>3. CASE CallRefused
  <2>1. LhTypeOK'
    BY <1>3 DEF CallRefused, LhTypeOK
  <2>2. Lineage'
    BY <1>3 DEF CallRefused, Lineage, SnapshotsMatchProgress, Clean, Trying, InRollout
  <2>3. CleanStart'
    BY <1>3 DEF CallRefused, LhTypeOK, CleanStart, AttemptStarts, Trying, InRollout
  <2>4. Confirmed'
    BY <1>3 DEF CallRefused, Confirmed
  <2>5. Leaks' /\ RecordersAreOfErrors'
    BY <1>3 DEF CallRefused, Leaks, RecordersAreOfErrors, InRollout
  <2> QED BY <2>1, <2>2, <2>3, <2>4, <2>5
<1>4. CASE LookReturns
  <2>1. LhTypeOK'
    BY <1>4 DEF LookReturns, LhTypeOK
  <2>2. Lineage'
    BY <1>4 DEF LookReturns, Lineage, SnapshotsMatchProgress, Clean, Trying, InRollout
  <2>3. CleanStart'
    BY <1>4 DEF LookReturns, CleanStart, AttemptStarts, Trying, InRollout
  <2>4. Confirmed'
    BY <1>4 DEF LookReturns, Confirmed
  <2>5. Leaks' /\ RecordersAreOfErrors'
    BY <1>4 DEF LookReturns, Leaks, RecordersAreOfErrors, InRollout
  <2> QED BY <2>1, <2>2, <2>3, <2>4, <2>5
<1>5. CASE LoopEnds
  <2>1. LhTypeOK'
    BY <1>5 DEF LoopEnds, LhTypeOK
  <2>2. Lineage'
    BY <1>5 DEF LoopEnds, Lineage, SnapshotsMatchProgress, Clean, Trying, InRollout
  <2>3. CleanStart'
    BY <1>5 DEF LoopEnds, CleanStart, AttemptStarts, Trying, InRollout
  <2>4. Confirmed'
    BY <1>5 DEF LoopEnds, Confirmed
  <2>5. Leaks' /\ RecordersAreOfErrors'
    BY <1>5 DEF LoopEnds, Leaks, RecordersAreOfErrors, InRollout
  <2> QED BY <2>1, <2>2, <2>3, <2>4, <2>5
<1>6. CASE RolloutRaises
  <2>1. contaminated' \in BOOLEAN
    BY <1>6 DEF RolloutRaises
  <2>2. LhTypeOK'
    BY <1>6, <2>1 DEF RolloutRaises, LhTypeOK
  <2>3. Lineage'
    BY <1>6 DEF RolloutRaises, Lineage, SnapshotsMatchProgress, Clean, Trying, InRollout
  <2>4. CleanStart'
    BY <1>6 DEF RolloutRaises, CleanStart, AttemptStarts, Trying, InRollout
  <2>5. Confirmed'
    BY <1>6 DEF RolloutRaises, Confirmed
  <2>6. Leaks' /\ RecordersAreOfErrors'
    BY <1>6 DEF RolloutRaises, Leaks, RecordersAreOfErrors
  <2> QED BY <2>2, <2>3, <2>4, <2>5, <2>6
<1>7. CASE RolloutEnds
  <2>1. contaminated' \in BOOLEAN
    BY <1>7 DEF RolloutEnds, LhTypeOK
  <2>2. LhTypeOK'
    BY <1>7, <2>1 DEF RolloutEnds, LhTypeOK, RecordersAreOfErrors
  <2>3. Lineage'
    BY <1>7 DEF RolloutEnds, Lineage, SnapshotsMatchProgress, Clean, Trying, InRollout
  <2>4. CleanStart'
    BY <1>7 DEF RolloutEnds, CleanStart, AttemptStarts, Trying, InRollout
  <2>5. Confirmed'
    BY <1>7 DEF RolloutEnds, Confirmed
  <2>6. Leaks' /\ RecordersAreOfErrors'
    BY <1>7 DEF RolloutEnds, LhTypeOK, Leaks, RecordersAreOfErrors
  <2> QED BY <2>2, <2>3, <2>4, <2>5, <2>6
<1> QED BY <1>1, <1>2, <1>3, <1>4, <1>5, <1>6, <1>7

\* The executor, after the rollout.
LEMMA AfterRolloutKeeps ==
    ASSUME IInv, Review \/ Decide \/ Accept \/ RollBack \/ GiveUp
    PROVE  IInv'
<1> USE Bounds DEF IInv, exVars, rollVars, envVars, pastVars, Accepted, IsLast, CanRollBack
<1>1. CASE Review
  <2>1. LhTypeOK'
    BY <1>1 DEF Review, LhTypeOK
  <2>2. Lineage'
    BY <1>1 DEF Review, Lineage, SnapshotsMatchProgress, Clean, Trying
  <2>3. CleanStart'
    BY <1>1 DEF Review, CleanStart, AttemptStarts, Trying
  <2>4. Confirmed'
    BY <1>1 DEF Review, Confirmed
  <2>5. Leaks' /\ RecordersAreOfErrors'
    BY <1>1 DEF Review, Leaks, RecordersAreOfErrors, InRollout
  <2> QED BY <2>1, <2>2, <2>3, <2>4, <2>5
<1>2. CASE Decide
  <2>1. PICK sim \in BOOLEAN :
          /\ scene' = [scene EXCEPT !.goal = sim]
          /\ ex' = IF Accepted(sim) THEN "accept" ELSE "attempt"
          /\ grounds' = IF Accepted(sim)
                        THEN [grounds EXCEPT ![i] = [done |-> verdict = "done",
                                                     said |-> declared, sim |-> sim]]
                        ELSE grounds
    BY <1>2 DEF Decide
  <2>2. scene' \in Scene /\ scene'.base = scene.base /\ scene'.hands = scene.hands
    BY <2>1 DEF LhTypeOK, Scene
  <2>3. [done |-> verdict = "done", said |-> declared, sim |-> sim] \in Ground
    BY DEF Ground, LhTypeOK
  <2>4. grounds' \in [Index -> Ground]
    BY <2>1, <2>3 DEF LhTypeOK
  <2>5. LhTypeOK'
    BY <1>2, <2>2, <2>4 DEF Decide, LhTypeOK
  <2>6. Lineage'
    BY <1>2 DEF Decide, Lineage, SnapshotsMatchProgress, Clean, Trying
  <2>7. CleanStart'
    BY <1>2 DEF Decide, CleanStart, AttemptStarts, Trying
  <2>8. Confirmed'
    BY <1>2, <2>1, <2>4 DEF Decide, Confirmed
  <2>9. Leaks' /\ RecordersAreOfErrors'
    BY <1>2 DEF Decide, Leaks, RecordersAreOfErrors, InRollout
  <2> QED BY <2>5, <2>6, <2>7, <2>8, <2>9
<1>3. CASE Accept
  <2>1. i \in Index /\ i \in 0 .. Atomics /\ ex = "accept" /\ completed = i - 1
    BY <1>3 DEF Accept, Lineage, SnapshotsMatchProgress, LhTypeOK, Index
  <2>2. /\ scene' = [scene EXCEPT !.base = i, !.hands = {}] /\ scene \in Scene
        /\ post' = [post EXCEPT ![i] = scene'] /\ post \in [Index -> Scene]
        /\ completed' = i /\ i' = i + 1 /\ pre' = NoScene /\ attempt' = 0
        /\ ex' = IF i = Atomics THEN "ended" ELSE "atomic"
    BY <1>3 DEF Accept, LhTypeOK
  <2>3. scene' \in Scene /\ scene'.base = i /\ scene'.hands = {} /\ scene' # NoScene
    BY <2>1, <2>2, BuiltOn, Scenes
  <2>4. /\ post' \in [Index -> Scene]
        /\ \A k \in Index : post'[k] = IF k = i THEN scene' ELSE post[k]
    BY <2>2, <2>3
  <2>5. i' \in 1 .. Atomics + 1 /\ completed' \in 0 .. Atomics /\ attempt' \in 0 .. RetryCap
    BY <2>1, <2>2 DEF Index
  <2>6. LhTypeOK'
    BY <1>3, <2>4, <2>5, Scenes DEF Accept, LhTypeOK
  <2>7. Lineage'
    <3>1. scene'.base = i' - 1 /\ (ex' # "ended" => i' <= Atomics) /\ ex' \notin Trying
      BY <2>1, <2>2 DEF Trying, InRollout
    <3>2. ASSUME NEW k \in Index
          PROVE  /\ post'[k] # NoScene <=> k < i'
                 /\ k < i' => post'[k].base = k /\ post'[k].hands = {}
      <4>1. /\ post[k] # NoScene <=> k < i
            /\ k < i => post[k].base = k /\ post[k].hands = {}
        BY DEF Lineage, SnapshotsMatchProgress
      <4>2. k < i' <=> k < i \/ k = i
        BY <2>1, <2>2 DEF Index
      <4> QED BY <2>1, <2>3, <2>4, <4>1, <4>2
    <3>3. completed' = i' - 1
      BY <2>1, <2>2
    <3> QED BY <3>1, <3>2, <3>3 DEF Lineage, SnapshotsMatchProgress
  <2>8. CleanStart'
    BY <2>2 DEF CleanStart, Clean, Trying, InRollout
  <2>9. Confirmed'
    <3>1. grounds' = grounds /\ ex' # "accept"
      BY <1>3 DEF Accept
    <3>2. \A k \in Index : k < i' => k < i \/ k = i
      BY <2>1, <2>2 DEF Index
    <3> QED BY <2>1, <3>1, <3>2 DEF Confirmed
  <2>10. Leaks' /\ RecordersAreOfErrors'
    BY <1>3 DEF Accept, Leaks, RecordersAreOfErrors, InRollout
  <2> QED BY <2>6, <2>7, <2>8, <2>9, <2>10
<1>4. CASE RollBack
  <2>1. i \in Index /\ i > 2 /\ i - 2 \in Index
    BY <1>4 DEF RollBack, Lineage, LhTypeOK, Index
  <2>2. post' \in [Index -> Scene] /\ scene' \in Scene
    BY <1>4, <2>1, Scenes DEF RollBack, LhTypeOK
  <2>3. post[i - 2].base = i - 2 /\ post[i - 2].hands = {}
    BY <2>1 DEF Lineage, SnapshotsMatchProgress, Index
  <2>4. grounds' \in [Index -> Ground]
    BY <1>4, NoGrounds DEF RollBack, LhTypeOK
  <2>5. LhTypeOK'
    BY <1>4, <2>2, <2>4, Scenes DEF RollBack, LhTypeOK
  <2>6. Lineage'
    BY <1>4, <2>1 DEF RollBack, Lineage, SnapshotsMatchProgress, Index, Trying, InRollout
  <2>7. CleanStart'
    BY <1>4, <2>3 DEF RollBack, CleanStart, Clean, Trying, InRollout
  <2>8. Confirmed'
    BY <1>4, <2>1 DEF RollBack, Confirmed, Index
  <2>9. Leaks' /\ RecordersAreOfErrors'
    BY <1>4 DEF RollBack, Leaks, RecordersAreOfErrors, InRollout
  <2> QED BY <2>5, <2>6, <2>7, <2>8, <2>9
<1>5. CASE GiveUp
  <2>1. LhTypeOK'
    BY <1>5 DEF GiveUp, LhTypeOK
  <2>2. Lineage'
    BY <1>5 DEF GiveUp, Lineage, SnapshotsMatchProgress, Trying, InRollout
  <2>3. CleanStart'
    BY <1>5 DEF GiveUp, CleanStart, AttemptStarts, Trying, InRollout
  <2>4. Confirmed'
    BY <1>5 DEF GiveUp, Confirmed
  <2>5. Leaks' /\ RecordersAreOfErrors'
    BY <1>5 DEF GiveUp, Leaks, RecordersAreOfErrors, InRollout
  <2> QED BY <2>1, <2>2, <2>3, <2>4, <2>5
<1> QED BY <1>1, <1>2, <1>3, <1>4, <1>5

\* The workers left behind.
LEMMA WorkersKeeps ==
    ASSUME IInv, WorkerActs \/ WorkerReturns
    PROVE  IInv'
<1> USE Bounds DEF IInv, exVars, rollVars, envVars, pastVars
<1>1. CASE WorkerActs
  <2>1. scene' \in Scene /\ scene'.base = scene.base /\ scene'.hands = scene.hands \cup {"leaked"}
    BY <1>1, ActsLeaves DEF WorkerActs, LhTypeOK
  <2>2. LhTypeOK'
    BY <1>1, <2>1 DEF WorkerActs, LhTypeOK
  <2>3. Lineage'
    BY <1>1, <2>1 DEF WorkerActs, Lineage, SnapshotsMatchProgress, Clean
  <2>4. CleanStart'
    BY <1>1, <2>1 DEF WorkerActs, LhTypeOK, CleanStart, Leaks, AttemptStarts, Clean
  <2>5. Confirmed'
    BY <1>1 DEF WorkerActs, Confirmed
  <2>6. Leaks' /\ RecordersAreOfErrors'
    BY <1>1 DEF WorkerActs, Leaks, RecordersAreOfErrors
  <2> QED BY <2>2, <2>3, <2>4, <2>5, <2>6
<1>2. CASE WorkerReturns
  <2>1. LhTypeOK'
    BY <1>2 DEF WorkerReturns, LhTypeOK
  <2>2. Lineage'
    BY <1>2 DEF WorkerReturns, Lineage, SnapshotsMatchProgress, Clean
  <2>3. CleanStart'
    BY <1>2 DEF WorkerReturns, CleanStart, AttemptStarts, Clean
  <2>4. Confirmed'
    BY <1>2 DEF WorkerReturns, Confirmed
  <2>5. Leaks' /\ RecordersAreOfErrors'
    BY <1>2 DEF WorkerReturns, LhTypeOK, Leaks, RecordersAreOfErrors
  <2> QED BY <2>1, <2>2, <2>3, <2>4, <2>5
<1> QED BY <1>1, <1>2
-----------------------------------------------------------------------------
(***************************************************************************)
(* Theorems.                                                               *)
(***************************************************************************)
LEMMA Inductive == IInv /\ [LhNext]_lhVars => IInv'
<1> SUFFICES ASSUME IInv, [LhNext]_lhVars
             PROVE  IInv'
  OBVIOUS
<1>1. CASE UNCHANGED lhVars
  BY <1>1 DEF lhVars, exVars, rollVars, envVars, pastVars, IInv, LhTypeOK, Lineage,
              SnapshotsMatchProgress, Clean, CleanStart, AttemptStarts, Confirmed, Leaks,
              RecordersAreOfErrors
<1>2. CASE LhNext
  BY <1>2, BeforeRolloutKeeps, RolloutKeeps, AfterRolloutKeeps, WorkersKeeps DEF LhNext, Execute
<1> QED BY <1>1, <1>2

THEOREM InvariantHolds == LhSpec => []IInv
BY InitHolds, Inductive, PTL DEF LhSpec

\* The executor, the rollout, the scene and the snapshots have their types, for
\* any number of atomics and whatever happens to their attempts.
THEOREM TypeCorrect == LhSpec => []LhTypeOK
<1>1. IInv => LhTypeOK
  BY DEF IInv
<1> QED BY <1>1, InvariantHolds, PTL

\* Through any retries, crashes, rollbacks and workers left behind an attempt
\* starts on the accepted results of the atomics before its own.
THEOREM AttemptsStartCorrectly == LhSpec => []AttemptsStartOnTheirBase
<1>1. IInv => AttemptsStartOnTheirBase
  BY DEF IInv, Lineage, CleanStart, Clean, AttemptsStartOnTheirBase
<1> QED BY <1>1, InvariantHolds, PTL

\* What a rollback restores is the end of the atomic it is kept for, and no
\* snapshot is kept of work undone.
THEOREM SnapshotsCorrect == LhSpec => []SnapshotsMatchProgress
<1>1. IInv => SnapshotsMatchProgress
  BY DEF IInv, Lineage
<1> QED BY <1>1, InvariantHolds, PTL

\* A reported success rests, for every atomic of the lineage that was kept, on
\* the Reviewer and on the predicate where they are asked.
THEOREM SuccessCorrect == LhSpec => []SuccessIsConfirmed
<1>1. IInv => SuccessIsConfirmed
  <2>1. SUFFICES ASSUME IInv, Success
                 PROVE  SuccessIsConfirmed
    BY DEF SuccessIsConfirmed
  <2>2. i = Atomics + 1
    BY <2>1 DEF IInv, LhTypeOK, Lineage, SnapshotsMatchProgress, Success
  <2>3. \A k \in Index : k < i
    BY <2>2, Bounds DEF Index
  <2>4. Atomics \in Index
    BY Bounds DEF Index
  <2> QED BY <2>1, <2>3, <2>4 DEF IInv, Confirmed, SuccessIsConfirmed
<1> QED BY <1>1, InvariantHolds, PTL

\* An attempt leaves at most one worker behind and is not judged then, however
\* long its budget and however many workers there already are.
THEOREM TimedOutCorrect == LhSpec => []TimedOutAttemptIsNotJudged
<1>1. IInv => TimedOutAttemptIsNotJudged
  BY DEF IInv, LhTypeOK, Leaks, InRollout, TimedOutAttemptIsNotJudged
<1> QED BY <1>1, InvariantHolds, PTL

\* The recorders left in the scene are those of attempts that ended by an error
\* of their own.
THEOREM RecordersCorrect == LhSpec => []RecordersAreOfErrors
<1>1. IInv => RecordersAreOfErrors
  BY DEF IInv
<1> QED BY <1>1, InvariantHolds, PTL
-----------------------------------------------------------------------------
(***************************************************************************)
(* How long an execution may take: what is left of it, counted in a way    *)
(* that no step of the executor or of its rollout can leave as it was.     *)
(***************************************************************************)
\* How far the executor is from its next attempt, atomic or end.
Stages == [atomic |-> 7, unhook |-> 6, review |-> 5, decide |-> 4, accept |-> 3,
           attempt |-> 2, failed |-> 1, look |-> 1, turn |-> 0, ended |-> 0, died |-> 0]

CallsLeft == IF ex \in {"turn", "look"} THEN ToolBudget - turn + 1 ELSE 0

\* Rollbacks, then atomics, then attempts, then calls, then stages.
Left == <<MaxRollbacks - rollbacks, Atomics + 1 - i, RetryCap - attempt, CallsLeft, Stages[ex]>>

Counted == [1 .. 5 -> Nat]
Less == {ss \in Nat \X Nat : ss[1] < ss[2]}
Below == LexProductOrdering(Less, Nat, 5)

LEMMA BelowIsWellFounded == IsWellFoundedOn(Below, Counted)
<1>1. IsWellFoundedOn(Less, Nat)
  BY NatLessThanWellFounded DEF OpToRel, Less
<1> QED BY <1>1, WFLexProductOrdering DEF Below, Counted

\* What is left of a bound falls as what was used of it grows.
LEMMA Remainder ==
    ASSUME NEW m \in Nat, NEW x \in 0 .. m
    PROVE  /\ m - x \in Nat /\ m - x + 1 \in Nat
           /\ \A y \in 0 .. m : y > x => m - y < m - x
OBVIOUS

\* Five counts fall as soon as one of them does and none before it rises.
LEMMA CountsFall ==
    ASSUME NEW a \in Nat, NEW b \in Nat, NEW c \in Nat, NEW d \in Nat, NEW e \in Nat,
           NEW a1 \in Nat, NEW b1 \in Nat, NEW c1 \in Nat, NEW d1 \in Nat, NEW e1 \in Nat,
           \/ a1 < a
           \/ a1 = a /\ b1 < b
           \/ a1 = a /\ b1 = b /\ c1 < c
           \/ a1 = a /\ b1 = b /\ c1 = c /\ d1 < d
           \/ a1 = a /\ b1 = b /\ c1 = c /\ d1 = d /\ e1 < e
    PROVE  <<<<a1, b1, c1, d1, e1>>, <<a, b, c, d, e>>>> \in Below
<1> DEFINE f == <<a, b, c, d, e>>  f1 == <<a1, b1, c1, d1, e1>>
<1>1. f \in Counted /\ f1 \in Counted
  BY DEF Counted
<1>2. PICK j \in 1 .. 5 : f1[j] < f[j] /\ \A k \in 1 .. j - 1 : f1[k] = f[k]
  OBVIOUS
<1>3. <<f1[j], f[j]>> \in Less
  BY <1>1, <1>2 DEF Less, Counted
<1> QED BY <1>1, <1>2, <1>3 DEF Below, LexProductOrdering, Counted

LEMMA Counts == ASSUME IInv PROVE
    /\ rollbacks \in 0 .. MaxRollbacks /\ i \in 0 .. Atomics + 1 /\ attempt \in 0 .. RetryCap
    /\ turn \in 0 .. ToolBudget /\ Stages[ex] \in Nat
<1>1. i \in 1 .. Atomics + 1 => i \in 0 .. Atomics + 1
  OBVIOUS
<1> QED BY <1>1 DEF IInv, LhTypeOK, Stages

LEMMA LeftIsCounted == IInv => Left \in Counted
<1> SUFFICES ASSUME IInv
             PROVE  Left \in Counted
  OBVIOUS
<1>1. /\ MaxRollbacks - rollbacks \in Nat /\ Atomics + 1 - i \in Nat
      /\ RetryCap - attempt \in Nat /\ CallsLeft \in Nat
  BY Counts, Bounds, Remainder DEF CallsLeft
<1> QED BY <1>1, Counts DEF Left, Counted

LEMMA LeftFalls ==
    ASSUME IInv, IInv',
           \/ rollbacks' > rollbacks
           \/ rollbacks' = rollbacks /\ i' > i
           \/ rollbacks' = rollbacks /\ i' = i /\ attempt' > attempt
           \/ rollbacks' = rollbacks /\ i' = i /\ attempt' = attempt /\ CallsLeft' < CallsLeft
           \/ /\ rollbacks' = rollbacks /\ i' = i /\ attempt' = attempt
              /\ CallsLeft' = CallsLeft /\ Stages[ex'] < Stages[ex]
    PROVE  <<Left', Left>> \in Below
<1>1. (Left \in Counted)'
  BY LeftIsCounted, PTL
<1>2. /\ MaxRollbacks - rollbacks' \in Nat /\ Atomics + 1 - i' \in Nat
      /\ RetryCap - attempt' \in Nat /\ CallsLeft' \in Nat /\ Stages[ex'] \in Nat
  BY <1>1 DEF Left, Counted
<1>3. /\ MaxRollbacks - rollbacks \in Nat /\ Atomics + 1 - i \in Nat
      /\ RetryCap - attempt \in Nat /\ CallsLeft \in Nat /\ Stages[ex] \in Nat
  BY LeftIsCounted DEF Left, Counted
<1>4. /\ rollbacks' \in 0 .. MaxRollbacks /\ i' \in 0 .. Atomics + 1 /\ attempt' \in 0 .. RetryCap
  BY DEF IInv, LhTypeOK
<1>5. Atomics + 1 \in Nat
  BY Bounds
<1>6. /\ rollbacks' > rollbacks => MaxRollbacks - rollbacks' < MaxRollbacks - rollbacks
      /\ i' > i => Atomics + 1 - i' < Atomics + 1 - i
      /\ attempt' > attempt => RetryCap - attempt' < RetryCap - attempt
  BY <1>4, <1>5, Counts, Bounds, Remainder
<1>7. \/ MaxRollbacks - rollbacks' < MaxRollbacks - rollbacks
      \/ /\ MaxRollbacks - rollbacks' = MaxRollbacks - rollbacks
         /\ Atomics + 1 - i' < Atomics + 1 - i
      \/ /\ MaxRollbacks - rollbacks' = MaxRollbacks - rollbacks
         /\ Atomics + 1 - i' = Atomics + 1 - i /\ RetryCap - attempt' < RetryCap - attempt
      \/ /\ MaxRollbacks - rollbacks' = MaxRollbacks - rollbacks
         /\ Atomics + 1 - i' = Atomics + 1 - i /\ RetryCap - attempt' = RetryCap - attempt
         /\ CallsLeft' < CallsLeft
      \/ /\ MaxRollbacks - rollbacks' = MaxRollbacks - rollbacks
         /\ Atomics + 1 - i' = Atomics + 1 - i /\ RetryCap - attempt' = RetryCap - attempt
         /\ CallsLeft' = CallsLeft /\ Stages[ex'] < Stages[ex]
  BY <1>6
<1> QED BY <1>2, <1>3, <1>7, CountsFall DEF Left

Spends == <<Left', Left>> \in Below

LEMMA ExecutorSpends ==
    ASSUME IInv, IInv', Execute \/ LookReturns
    PROVE  Spends
<1> USE Bounds, Counts, LeftFalls DEF Spends, CallsLeft, Stages
<1>1. CASE BeginAtomic \/ OutOfAttempts \/ ResetRaises \/ Review \/ Decide \/ GiveUp
  BY <1>1 DEF BeginAtomic, OutOfAttempts, ResetRaises, Review, Decide, GiveUp,
              rollVars
<1>2. CASE FirstAttempt \/ RetryFromSnapshot \/ RetryFromSeed
  BY <1>2 DEF FirstAttempt, RetryFromSnapshot, RetryFromSeed
<1>3. CASE CallTool \/ CallTimesOut \/ CallRefused \/ LookReturns
  BY <1>3 DEF CallTool, CallTimesOut, CallRefused, LookReturns, rollVars
<1>4. CASE LoopEnds \/ RolloutRaises \/ RolloutEnds
  BY <1>4 DEF LoopEnds, RolloutRaises, RolloutEnds, LeaveRollout
<1>5. CASE Accept \/ RollBack
  BY <1>5 DEF Accept, RollBack
<1> QED BY <1>1, <1>2, <1>3, <1>4, <1>5 DEF Execute

\* Every step of the executor and of its rollouts spends something of a well
\* founded amount, which nothing else touches: however atomics fail, attempts
\* crash, calls run out of time and rollbacks undo work, an execution takes
\* finitely many steps of its own.
THEOREM ExecutionIsBounded ==
    /\ IsWellFoundedOn(Below, Counted)
    /\ LhSpec => [](Left \in Counted)
    /\ LhSpec => [][Spends \/ UNCHANGED <<exVars, rollVars>>]_lhVars
<1>1. IInv /\ IInv' /\ [LhNext]_lhVars =>
        [Spends \/ UNCHANGED <<exVars, rollVars>>]_lhVars
  BY ExecutorSpends DEF LhNext, WorkerActs, WorkerReturns
<1>2. LhSpec => [][Spends \/ UNCHANGED <<exVars, rollVars>>]_lhVars
  BY <1>1, InvariantHolds, PTL DEF LhSpec
<1>3. LhSpec => [](Left \in Counted)
  <2>1. IInv => Left \in Counted
    BY LeftIsCounted
  <2> QED BY <2>1, InvariantHolds, PTL
<1> QED BY <1>2, <1>3, BelowIsWellFounded
=============================================================================
