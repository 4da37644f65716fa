------------------------ MODULE SuiteCampaignProofs ------------------------
(***************************************************************************)
(* Theorems about SuiteCampaign for every panel, number of seeds, pool     *)
(* size, retry and rebuild budget, number of starts and of failed writes:  *)
(* the types, what the indexes and the batch of a running process promise, *)
(* that no episode vanishes and no configuration is mixed, that the        *)
(* journal implements the abstract ledger, what the audit and a later      *)
(* start find at the end of a campaign, and that a started suite has a     *)
(* well founded amount of steps left.                                      *)
(***************************************************************************)
EXTENDS SuiteCampaign, SequenceTheorems, FiniteSetTheorems, TLAPS

-----------------------------------------------------------------------------
(***************************************************************************)
(* The operators SuiteCampaign is built from: the highest attempt number   *)
(* of a list of rows, the rows a payload yields, and the counts of the     *)
(* summary.  The two inductions below are over the natural numbers and are *)
(* made by taking a least counterexample.                                  *)
(***************************************************************************)
(* Every nonempty set of naturals has a least element. *)
LEMMA LeastNat ==
    ASSUME NEW S \in SUBSET Nat, S # {}
    PROVE  \E m \in S : \A n \in S : m <= n
<1>1. \E m \in S : \A n \in S : ~ (<<n, m>> \in OpToRel(<, Nat))
  BY NatLessThanWellFounded, WFMin
<1>2. PICK m \in S : \A n \in S : ~ (<<n, m>> \in OpToRel(<, Nat))
  BY <1>1
<1>3. ASSUME NEW n \in S PROVE m <= n
  <2>1. m \in Nat /\ n \in Nat
    OBVIOUS
  <2>2. n < m => <<n, m>> \in OpToRel(<, Nat)
    BY <2>1 DEF OpToRel
  <2>3. ~(n < m)
    BY <2>2, <1>2
  <2> QED BY <2>1, <2>3
<1> QED BY <1>3

(* A finite sequence of naturals has an upper bound. *)
LEMMA NatSeqBounded ==
    ASSUME NEW n \in Nat, NEW f \in [1 .. n -> Nat]
    PROVE  \E b \in Nat : \A i \in 1 .. n : f[i] <= b
<1> DEFINE Bounded(m) == \E b \in Nat : \A i \in 1 .. m : f[i] <= b
           Bad == {m \in 0 .. n : ~Bounded(m)}
<1>1. SUFFICES ASSUME Bad # {} PROVE FALSE
  <2>1. n \notin Bad => Bounded(n)
    OBVIOUS
  <2> QED BY <2>1
<1>2. PICK m \in Bad : \A k \in Bad : m <= k
  <2>1. Bad \in SUBSET Nat
    OBVIOUS
  <2> HIDE DEF Bad
  <2> QED BY <1>1, <2>1, LeastNat
<1>3. Bounded(0)
  <2>1. 0 \in Nat /\ \A i \in 1 .. 0 : f[i] <= 0
    OBVIOUS
  <2> QED BY <2>1
<1>4. m # 0 /\ m \in 1 .. n
  BY <1>2, <1>3
<1>5. Bounded(m - 1)
  <2>1. m \in Nat /\ m - 1 \in 0 .. n /\ ~(m <= m - 1)
    BY <1>4
  <2>2. m - 1 \notin Bad
    <3> HIDE DEF Bad
    <3> QED BY <2>1, <1>2
  <2> QED BY <2>1, <2>2
<1>6. PICK b \in Nat : \A i \in 1 .. m - 1 : f[i] <= b
  BY <1>5
<1>7. f[m] \in Nat
  BY <1>4
<1>8. ASSUME NEW i \in 1 .. m PROVE f[i] <= b + f[m]
  <2>1. f[i] \in Nat /\ (i = m \/ i \in 1 .. m - 1)
    BY <1>4
  <2> QED BY <2>1, <1>6, <1>7
<1>9. Bounded(m)
  <2>1. b + f[m] \in Nat
    BY <1>7
  <2> QED BY <2>1, <1>8
<1> QED BY <1>2, <1>9

(* The maximum of a nonempty bounded set of naturals. *)
LEMMA MaxOfBounded ==
    ASSUME NEW S \in SUBSET Nat, S # {},
           NEW b \in Nat, \A x \in S : x <= b
    PROVE  Max(S) \in S /\ \A x \in S : x <= Max(S)
<1> DEFINE Bounds == {m \in Nat : \A x \in S : x <= m}
<1>1. PICK m \in Bounds : \A k \in Bounds : m <= k
  <2>1. Bounds \in SUBSET Nat /\ b \in Bounds
    OBVIOUS
  <2> HIDE DEF Bounds
  <2> QED BY <2>1, LeastNat
<1>2. m \in S
  <2>1. SUFFICES ASSUME m \notin S PROVE FALSE
    OBVIOUS
  <2>2. \A x \in S : x < m
    BY <2>1, <1>1
  <2>3. m # 0
    <3>1. PICK x \in S : x < m
      BY <2>2
    <3> QED BY <3>1
  <2>4. m - 1 \in Bounds
    BY <2>2, <2>3, <1>1
  <2> QED BY <2>4, <1>1
<1>3. \A x \in S : m >= x
  BY <1>1
<1>4. \E x \in S : \A y \in S : x >= y
  BY <1>2, <1>3
<1>5. Max(S) \in S /\ \A y \in S : Max(S) >= y
  BY <1>4 DEF Max
<1> QED BY <1>5

(* attempts_by_key as _load_journal's caller builds it: a natural that      *)
(* bounds the attempt numbers of all rows of the key.                       *)
LEMMA HighestAttempt ==
    ASSUME NEW rs \in Seq(Row), NEW k
    PROVE  /\ Max({0} \cup AttemptsOf(rs, k)) \in Nat
           /\ \A i \in DOMAIN rs :
                 KeyOf(rs[i]) = k => rs[i].attempt <= Max({0} \cup AttemptsOf(rs, k))
<1> DEFINE S == {0} \cup AttemptsOf(rs, k)
           f == [i \in 1 .. Len(rs) |-> rs[i].attempt]
<1>1. Len(rs) \in Nat /\ DOMAIN rs = 1 .. Len(rs)
  BY LenProperties
<1>2. \A i \in 1 .. Len(rs) : rs[i] \in Row
  BY ElementOfSeq
<1>3. \A i \in 1 .. Len(rs) : rs[i].attempt \in Nat
  BY <1>2 DEF Row
<1>4. f \in [1 .. Len(rs) -> Nat]
  BY <1>3
<1>5. PICK b \in Nat : \A i \in 1 .. Len(rs) : f[i] <= b
  <2> HIDE DEF f
  <2> QED BY <1>1, <1>4, NatSeqBounded
<1>6. S \in SUBSET Nat /\ S # {} /\ \A x \in S : x <= b
  BY <1>1, <1>3, <1>5 DEF AttemptsOf, RowsOf
<1>7. Max(S) \in S /\ \A x \in S : x <= Max(S)
  <2> HIDE DEF S
  <2> QED BY <1>6, MaxOfBounded
<1>8. \A i \in DOMAIN rs : KeyOf(rs[i]) = k => rs[i].attempt \in S
  BY <1>1 DEF AttemptsOf, RowsOf
<1> QED BY <1>6, <1>7, <1>8

-----------------------------------------------------------------------------
(* What a payload yields: rows of its task and of this seed, numbered from  *)
(* the payload's first attempt, of which only the last may be a verdict.    *)
LEMMA AttemptRowsShape ==
    ASSUME TypeOK, seed \in Seed, NEW t \in Task, attempt_start[t] \in Nat \ {0},
           NEW rs \in AttemptRows(t) \cup OtherErrors(t) \cup {BrokenPoolError(t)}
    PROVE  /\ rs \in Seq(Row) /\ Len(rs) \in Nat \ {0} /\ rs # << >>
           /\ \A i \in 1 .. Len(rs) :
                 /\ rs[i].task = t /\ rs[i].seed = seed
                 /\ rs[i].attempt = attempt_start[t] + i - 1
                 /\ i < Len(rs) => ~IsTerminal(rs[i])
<1> DEFINE n0 == attempt_start[t]
<1>1. ASSUME NEW n \in Nat \ {0}, NEW v \in Verdict
      PROVE  EpisodeRow(t, n, v) \in Row
  BY SuiteAssumption DEF EpisodeRow, Row, TypeOK
<1>2. CASE rs \in AttemptRows(t)
  <2>1. PICK p \in (1 .. InfraRetries + 1) \X Verdict :
            rs = [i \in 1 .. p[1] |-> EpisodeRow(t, n0 + i - 1,
                                        IF i < p[1] THEN "infra" ELSE p[2])]
    BY <1>2 DEF AttemptRows
  <2>2. p[1] \in Nat \ {0} /\ p[2] \in Verdict
    BY <2>1, SuiteAssumption
  <2>3. \A i \in 1 .. p[1] : rs[i] \in Row
    <3> TAKE i \in 1 .. p[1]
    <3>1. n0 + i - 1 \in Nat \ {0}
      BY <2>2
    <3>2. (IF i < p[1] THEN "infra" ELSE p[2]) \in Verdict
      BY <2>2 DEF Verdict, Nonterminal
    <3> QED BY <2>1, <3>1, <3>2, <1>1
  <2>4. rs \in Seq(Row) /\ Len(rs) = p[1]
    <3>1. rs \in [1 .. p[1] -> Row]
      BY <2>1, <2>3
    <3> QED BY <3>1, <2>2, SeqDef, LenProperties
  <2>5. \A i \in 1 .. Len(rs) :
            /\ rs[i].task = t /\ rs[i].seed = seed
            /\ rs[i].attempt = n0 + i - 1
            /\ i < Len(rs) => ~IsTerminal(rs[i])
    BY <2>1, <2>4 DEF EpisodeRow, IsTerminal, Terminal
  <2>6. rs # << >>
    BY <2>2, <2>4, EmptySeq
  <2> QED BY <2>2, <2>4, <2>5, <2>6
<1>3. CASE rs \in OtherErrors(t) \cup {BrokenPoolError(t)}
  <2>1. PICK v \in Nonterminal : rs = << EpisodeRow(t, n0, v) >>
    BY <1>3 DEF OtherErrors, BrokenPoolError, ParentWorkerError, Nonterminal
  <2>2. EpisodeRow(t, n0, v) \in Row
    BY <1>1 DEF Verdict
  <2>3. rs \in Seq(Row) /\ Len(rs) = 1 /\ rs[1] = EpisodeRow(t, n0, v) /\ rs # << >>
    BY <2>1, <2>2
  <2> QED BY <2>3 DEF EpisodeRow
<1> QED BY <1>2, <1>3

-----------------------------------------------------------------------------
(* The keys of the rows of a list that satisfy a condition are finitely     *)
(* many; the condition is given by the positions it selects.                *)
LEMMA KeysFinite ==
    ASSUME NEW rs \in Seq(Row), NEW D \in SUBSET (DOMAIN rs)
    PROVE  IsFiniteSet({KeyOf(rs[i]) : i \in D})
<1> DEFINE T == {KeyOf(rs[i]) : i \in D}
           f == [i \in D |-> KeyOf(rs[i])]
<1>1. IsFiniteSet(DOMAIN rs)
  <2>1. Len(rs) \in Nat /\ DOMAIN rs = 1 .. Len(rs)
    BY LenProperties
  <2> QED BY <2>1, FS_Interval
<1>2. IsFiniteSet(D)
  BY <1>1, FS_Subset
<1>3. f \in Surjection(D, T)
  BY DEF Surjection
<1> QED
  <2> HIDE DEF f, T
  <2>1. IsFiniteSet(T)
    BY <1>2, <1>3, FS_Surjection
  <2> QED BY <2>1 DEF T

LEMMA RowCount ==
    ASSUME NEW rs \in Seq(Row), NEW v
    PROVE  CountVerdict(rs, v) \in Nat
<1> DEFINE D == {i \in DOMAIN rs : rs[i].verdict = v}
<1>1. Len(rs) \in Nat /\ DOMAIN rs = 1 .. Len(rs)
  BY LenProperties
<1>2. IsFiniteSet(DOMAIN rs)
  BY <1>1, FS_Interval
<1>3. IsFiniteSet(D)
  BY <1>2, FS_Subset
<1>4. Cardinality(D) \in Nat
  <2> HIDE DEF D
  <2> QED BY <1>3, FS_CardinalityType
<1> QED BY <1>4 DEF CountVerdict

(* The summary of any list of rows is a summary. *)
LEMMA SummaryType ==
    ASSUME NEW rs \in Seq(Row), NEW all \in BOOLEAN
    PROVE  SummarizeSuite(rs, all) \in Summary
<1> DEFINE closed == TerminalKeys(rs)
           incomplete == {t \in Task : ~CompleteTask(rs, t, all)}
           known == {KeyOf(rs[i]) : i \in DOMAIN rs}
<1>1. Cardinality(incomplete) \in Nat
  <2>1. IsFiniteSet(incomplete)
    BY TaskAssumption, FS_Subset
  <2> HIDE DEF incomplete
  <2> QED BY <2>1, FS_CardinalityType
<1>2. IsFiniteSet(closed)
  <2> DEFINE D == {j \in DOMAIN rs : IsTerminal(rs[j])}
  <2>1. D \in SUBSET (DOMAIN rs) /\ closed = {KeyOf(rs[i]) : i \in D}
    BY DEF TerminalKeys
  <2> HIDE DEF D, closed
  <2> QED BY <2>1, KeysFinite
<1>3. IsFiniteSet(known \ closed)
  <2>1. IsFiniteSet(known)
    BY KeysFinite
  <2> HIDE DEF known, closed
  <2> QED BY <2>1, FS_Difference
<1>4. ASSUME NEW v PROVE Cardinality({k \in closed : FinalVerdict(rs, k) = v}) \in Nat
  <2> DEFINE C == {k \in closed : FinalVerdict(rs, k) = v}
  <2>1. C \in SUBSET closed
    OBVIOUS
  <2> HIDE DEF C, closed
  <2>2. IsFiniteSet(C)
    BY <2>1, <1>2, FS_Subset
  <2>3. Cardinality(C) \in Nat
    BY <2>2, FS_CardinalityType
  <2> QED BY <2>3 DEF C
<1>5. Cardinality({k \in known \ closed :
                      LatestVerdict(rs, k) = "implementation_error"}) \in Nat
  <2> DEFINE C == {k \in known \ closed : LatestVerdict(rs, k) = "implementation_error"}
  <2>1. C \in SUBSET (known \ closed)
    OBVIOUS
  <2> HIDE DEF C, known, closed
  <2>2. IsFiniteSet(C)
    BY <2>1, <1>3, FS_Subset
  <2>3. Cardinality(C) \in Nat
    BY <2>2, FS_CardinalityType
  <2> QED BY <2>3 DEF C
<1>6. /\ CountVerdict(rs, "infra") \in Nat
      /\ CountVerdict(rs, "implementation_error") \in Nat
  BY RowCount
<1> QED BY <1>1, <1>4, <1>5, <1>6 DEF SummarizeSuite, Summary

-----------------------------------------------------------------------------
(***************************************************************************)
(* The inductive invariant.  IndexesCoverJournal alone is not inductive:   *)
(* that a journaled row is fresh depends on the payload it came from.      *)
(***************************************************************************)

\* Payloads exist between BeginSeed and EndSeed only, on a seed of the panel.
PhaseInv ==
    /\ pc \in {"idle", "seed"} => stage = NoStage
    /\ pc \notin {"idle", "seed"} => seed \in Seed

\* What is scheduled on this seed is open as far as the process knows.
OpenInv ==
    \A t \in Task : stage[t] \in Outstanding \cup {"recording"} =>
        /\ <<t, seed>> \notin terminal_by_key
        /\ ~run_all_seeds => t \notin solved

\* A payload numbers its attempts from the first one not used.
NumberInv ==
    \A t \in Task : stage[t] \in Outstanding \ {"waiting"} =>
        attempt_start[t] = attempts_by_key[<<t, seed>>] + 1

RebuildInv == \A t \in Task : stage[t] = "requeue" => rebuilds < MaxPoolRebuilds

\* The rows still to be recorded continue the numbering of one episode.
RecordInv ==
    /\ toRecord # << >> <=> pc = "record"
    /\ \A t \in Task : stage[t] = "recording" =>
           /\ pc = "record"
           /\ t = toRecord[1].task
    /\ \A i \in 1 .. Len(toRecord) :
           LET r == toRecord[i]
           IN  /\ stage[r.task] = "recording"
               /\ r.seed = seed
               /\ r.attempt = attempts_by_key[<<r.task, seed>>] + i
               /\ i < Len(toRecord) => ~IsTerminal(r)

IInv ==
    /\ TypeOK
    /\ PhaseInv
    /\ OpenInv
    /\ NumberInv
    /\ RebuildInv
    /\ RecordInv
    /\ IndexesCoverJournal

-----------------------------------------------------------------------------
(* The values a process starts from and leaves behind. *)
LEMMA EmptyMemory ==
    /\ << >> \in Seq(Row) /\ Len(<< >>) = 0 /\ DOMAIN << >> = {}
    /\ NoStage \in [Task -> Stages]
    /\ NoStart \in [Task -> Nat]
    /\ [k \in Key |-> 0] \in [Key -> Nat]
    /\ 0 \in 0 .. PassAt /\ 0 \in 0 .. MaxPoolRebuilds
<1>1. << >> \in Seq(Row) /\ Len(<< >>) = 0 /\ DOMAIN << >> = {}
  BY EmptySeq, LenProperties
<1>2. NoStage \in [Task -> Stages] /\ NoStart \in [Task -> Nat]
  BY DEF NoStage, NoStart, Stages
<1>3. 0 \in 0 .. PassAt /\ 0 \in 0 .. MaxPoolRebuilds
  BY SuiteAssumption, PassAtAssumption
<1> QED BY <1>1, <1>2, <1>3

LEMMA InitEstablishes == Init => IInv
<1> SUFFICES ASSUME Init PROVE IInv
  OBVIOUS
<1>1. << >> \in Seq(Row) /\ Len(<< >>) = 0 /\ DOMAIN << >> = {}
  BY EmptyMemory
<1>2. TypeOK
  <2>1. run_all_seeds \in BOOLEAN /\ starts \in 0 .. MaxStarts
        /\ appendErrors \in 0 .. MaxAppendErrors
    BY SuiteAssumption DEF Init
  <2> QED BY <2>1, EmptyMemory DEF Init, TypeOK
<1>3. PhaseInv /\ OpenInv /\ NumberInv /\ RebuildInv
  BY DEF Init, PhaseInv, OpenInv, NumberInv, RebuildInv, NoStage, Outstanding
<1>4. RecordInv
  BY <1>1 DEF Init, RecordInv, NoStage
<1>5. IndexesCoverJournal
  BY DEF Init, IndexesCoverJournal
<1> QED BY <1>2, <1>3, <1>4, <1>5 DEF IInv

(* A process that is gone leaves nothing to be wrong about. *)
LEMMA ProcessEndsPreserves ==
    ASSUME IInv, ProcessEnds, UNCHANGED <<manifest, journal>>,
           torn' \in {"none", "open", "closed"}, summary' \in Summary \cup {NoSummary}
    PROVE  IInv'
<1>1. << >> \in Seq(Row) /\ Len(<< >>) = 0 /\ DOMAIN << >> = {}
  BY EmptyMemory
<1>2. TypeOK'
  BY EmptyMemory DEF IInv, ProcessEnds, TypeOK, bounds
<1>3. PhaseInv' /\ OpenInv' /\ NumberInv' /\ RebuildInv'
  BY DEF ProcessEnds, PhaseInv, OpenInv, NumberInv, RebuildInv, NoStage, Outstanding
<1>4. RecordInv'
  BY <1>1 DEF ProcessEnds, RecordInv, NoStage
<1>5. IndexesCoverJournal'
  BY DEF ProcessEnds, IndexesCoverJournal
<1> QED BY <1>2, <1>3, <1>4, <1>5 DEF IInv

(* A start reads its indexes from the whole journal. *)
LEMMA LaunchPreserves ==
    ASSUME IInv, NEW c \in Config, NEW all \in RunAllModes, Launch(c, all),
           manifest' \in Config
    PROVE  IInv'
<1> USE DEF IInv
<1>1. journal \in Seq(Row) /\ journal' = journal
  BY DEF TypeOK, Launch
<1>2. ASSUME NEW k
      PROVE  /\ Max({0} \cup AttemptsOf(journal, k)) \in Nat
             /\ \A i \in DOMAIN journal : KeyOf(journal[i]) = k =>
                   journal[i].attempt <= Max({0} \cup AttemptsOf(journal, k))
  BY <1>1, HighestAttempt
<1>3. \A i \in DOMAIN journal : journal[i] \in Row /\ KeyOf(journal[i]) \in Key
                                 /\ journal[i].task \in Task
  <2>1. DOMAIN journal = 1 .. Len(journal)
    BY <1>1, LenProperties
  <2>2. \A i \in DOMAIN journal : journal[i] \in Row
    BY <1>1, <2>1, ElementOfSeq
  <2> QED BY <2>2 DEF Row, KeyOf, Key
<1>4. terminal_by_key' \subseteq Key /\ solved' \subseteq Task
  BY <1>3 DEF Launch, LoadJournal, TerminalKeys, SolvedTasks
<1>5. attempts_by_key' \in [Key -> Nat]
  BY <1>2 DEF Launch, LoadJournal
<1>6. TypeOK'
  BY <1>1, <1>4, <1>5, SuiteAssumption, PassAtAssumption
     DEF TypeOK, Launch, LoadJournal, pool
<1>7. PhaseInv' /\ OpenInv' /\ NumberInv' /\ RebuildInv'
  BY DEF Launch, PhaseInv, OpenInv, NumberInv, RebuildInv, NoStage, Outstanding
<1>8. RecordInv'
  BY DEF Launch, PhaseInv, RecordInv, NoStage
<1>9. IndexesCoverJournal'
  <2> SUFFICES ASSUME NEW i \in DOMAIN journal
               PROVE  /\ IsTerminal(journal[i]) => KeyOf(journal[i]) \in terminal_by_key'
                      /\ journal[i].verdict = "success" => journal[i].task \in solved'
                      /\ journal[i].attempt <= attempts_by_key'[KeyOf(journal[i])]
    BY <1>1 DEF IndexesCoverJournal
  <2>1. attempts_by_key'[KeyOf(journal[i])] =
            Max({0} \cup AttemptsOf(journal, KeyOf(journal[i])))
    BY <1>3 DEF Launch, LoadJournal
  <2> QED BY <2>1, <1>2 DEF Launch, LoadJournal, TerminalKeys, SolvedTasks
<1> QED BY <1>6, <1>7, <1>8, <1>9

LEMMA StartPreserves == ASSUME IInv, Start PROVE IInv'
<1>1. CASE \E c \in Config, all \in RunAllModes : Create(c, all) \/ Resume(c, all)
  <2>1. PICK c \in Config, all \in RunAllModes : Create(c, all) \/ Resume(c, all)
    BY <1>1
  <2>2. Launch(c, all) /\ manifest' \in Config
    BY <2>1 DEF Create, Resume, Compatible
  <2> QED BY <2>2, LaunchPreserves
<1>2. CASE CrashWhileCreating
  <2>1. TypeOK'
    BY <1>2, SuiteAssumption DEF IInv, TypeOK, CrashWhileCreating, memory, pool
  <2>2. PhaseInv' /\ OpenInv' /\ NumberInv' /\ RebuildInv' /\ RecordInv'
    BY <1>2 DEF IInv, CrashWhileCreating, PhaseInv, OpenInv, NumberInv, RebuildInv,
                RecordInv, IsTerminal, memory, pool
  <2>3. IndexesCoverJournal'
    BY <1>2 DEF IInv, CrashWhileCreating, IndexesCoverJournal, KeyOf, IsTerminal
  <2> QED BY <2>1, <2>2, <2>3 DEF IInv
<1> QED BY <1>1, <1>2 DEF Start

-----------------------------------------------------------------------------
(* The seed loop: what becomes a payload was pending, and pending means     *)
(* open on this seed.                                                       *)
LEMMA BeginSeedPreserves == ASSUME IInv, BeginSeed PROVE IInv'
<1> USE DEF IInv, BeginSeed
<1>1. TypeOK'
  <2>1. stage' \in [Task -> Stages]
    BY DEF Stages
  <2> QED BY <2>1 DEF TypeOK, disk, memory, pool, bounds
<1>2. seed \in Seed
  BY PassAtAssumption DEF TypeOK, Seed
<1>3. PhaseInv' /\ NumberInv' /\ RebuildInv'
  BY <1>2 DEF PhaseInv, NumberInv, RebuildInv, Outstanding
<1>4. OpenInv'
  BY DEF OpenInv, Pending, Outstanding, memory
<1>5. RecordInv'
  BY DEF RecordInv
<1>6. IndexesCoverJournal'
  BY DEF IndexesCoverJournal, disk, memory, KeyOf, IsTerminal
<1> QED BY <1>1, <1>3, <1>4, <1>5, <1>6

LEMMA FormBatchPreserves == ASSUME IInv, FormBatch PROVE IInv'
<1> USE DEF IInv
<1>1. PICK B \in SUBSET StageOf({"waiting"}) :
          /\ stage' = [t \in Task |-> IF t \in B THEN "payload" ELSE stage[t]]
          /\ attempt_start' =
                 [t \in Task |-> IF t \in B THEN attempts_by_key[<<t, seed>>] + 1
                                            ELSE attempt_start[t]]
  BY DEF FormBatch
<1>2. /\ pc = "batch" /\ pc' = "submit" /\ poolBroken' = FALSE /\ rebuilds' = 0
      /\ UNCHANGED <<disk, cfg, run_all_seeds, seed, memory, toRecord, bounds>>
  BY DEF FormBatch
<1>3. seed \in Seed
  BY <1>2 DEF PhaseInv
<1>4. \A t \in B : t \in Task /\ stage[t] = "waiting"
  BY DEF StageOf
<1>5. TypeOK'
  <2>1. stage' \in [Task -> Stages]
    BY <1>1 DEF TypeOK, Stages
  <2>2. \A t \in Task : attempts_by_key[<<t, seed>>] + 1 \in Nat
    BY <1>3 DEF TypeOK, Key
  <2>3. attempt_start' \in [Task -> Nat]
    BY <1>1, <2>2 DEF TypeOK
  <2> QED BY <1>2, <2>1, <2>3, EmptyMemory DEF TypeOK, disk, memory, bounds
<1>6. PhaseInv'
  BY <1>2, <1>3 DEF PhaseInv
<1>7. OpenInv'
  BY <1>1, <1>2, <1>4 DEF OpenInv, Outstanding, memory
<1>8. NumberInv'
  BY <1>1, <1>2 DEF NumberInv, Outstanding, memory, TypeOK
<1>9. RebuildInv'
  <2> SUFFICES ASSUME NEW t \in Task, stage'[t] = "requeue" PROVE 0 < MaxPoolRebuilds
    BY <1>2 DEF RebuildInv
  <2>1. stage[t] = "requeue"
    BY <1>1
  <2> QED BY <2>1, SuiteAssumption DEF RebuildInv, TypeOK
<1>10. RecordInv'
  BY <1>1, <1>2 DEF RecordInv
<1>11. IndexesCoverJournal'
  BY <1>2 DEF IndexesCoverJournal, disk, memory, KeyOf, IsTerminal
<1> QED BY <1>5, <1>6, <1>7, <1>8, <1>9, <1>10, <1>11

LEMMA EndSeedPreserves == ASSUME IInv, EndSeed PROVE IInv'
<1> USE DEF IInv, EndSeed
<1>1. TypeOK'
  <2>1. seed + 1 \in 0 .. PassAt
    BY PassAtAssumption DEF PhaseInv, Seed
  <2> QED BY <2>1, EmptyMemory DEF TypeOK, disk, memory, pool, bounds
<1>2. PhaseInv' /\ OpenInv' /\ NumberInv' /\ RebuildInv'
  BY DEF PhaseInv, OpenInv, NumberInv, RebuildInv, Outstanding, NoStage
<1>3. RecordInv'
  BY DEF RecordInv, NoStage
<1>4. IndexesCoverJournal'
  BY DEF IndexesCoverJournal, disk, memory, KeyOf, IsTerminal
<1> QED BY <1>1, <1>2, <1>3, <1>4

-----------------------------------------------------------------------------
(* The pool.  Its steps move payloads between stages that all mean "has yet *)
(* to produce its rows", and leave the indexes and the journal alone.       *)
LEMMA PayloadsMove ==
    ASSUME IInv, UNCHANGED <<disk, cfg, run_all_seeds, seed, memory, attempt_start,
                             toRecord, bounds>>,
           stage' \in [Task -> Stages],
           \A t \in Task : stage'[t] # stage[t] =>
               stage'[t] \in Outstanding \ {"waiting"}
               /\ stage[t] \in Outstanding \ {"waiting"},
           poolBroken' \in BOOLEAN, rebuilds' \in 0 .. MaxPoolRebuilds,
           RebuildInv',
           \/ pc' = pc /\ pc \notin {"idle", "seed"}
           \/ pc' # "record" /\ pc \in {"submit", "collect"}
              /\ pc' \in {"batch", "submit", "collect"}
    PROVE  IInv'
<1> USE DEF IInv
<1>1. TypeOK'
  BY DEF TypeOK, disk, memory, bounds
<1>2. PhaseInv'
  BY DEF PhaseInv
<1>3. OpenInv'
  BY DEF OpenInv, Outstanding, memory
<1>4. NumberInv'
  BY DEF NumberInv, memory
<1>5. RecordInv'
  <2>1. \A t \in Task : stage'[t] = "recording" <=> stage[t] = "recording"
    BY DEF Outstanding
  <2>2. ASSUME NEW i \in 1 .. Len(toRecord) PROVE toRecord[i].task \in Task
    <3>1. toRecord[i] \in Row
      BY ElementOfSeq DEF TypeOK
    <3> QED BY <3>1 DEF Row
  <2>3. toRecord' = toRecord /\ seed' = seed /\ attempts_by_key' = attempts_by_key
    BY DEF memory
  <2>4. toRecord # << >> <=> pc' = "record"
    BY DEF RecordInv
  <2>5. \A t \in Task : stage'[t] = "recording" => pc' = "record" /\ t = toRecord[1].task
    BY <2>1, <2>4 DEF RecordInv
  <2>6. \A i \in 1 .. Len(toRecord) : stage'[toRecord[i].task] = "recording"
    BY <2>1, <2>2 DEF RecordInv
  <2> QED BY <2>3, <2>4, <2>5, <2>6 DEF RecordInv, IsTerminal
<1>6. IndexesCoverJournal'
  BY DEF IndexesCoverJournal, disk, memory, KeyOf, IsTerminal
<1> QED BY <1>1, <1>2, <1>3, <1>4, <1>5, <1>6

(* A payload's rows are handed to _record: they continue the numbering of   *)
(* its episode, and nothing else is being recorded.                         *)
LEMMA RecordResultPreserves ==
    ASSUME IInv, NEW t \in Task, stage[t] \in {"payload", "done", "broken"},
           pc \in {"submit", "collect"},
           NEW rs \in AttemptRows(t) \cup OtherErrors(t) \cup {BrokenPoolError(t)},
           RecordResult(t, rs),
           UNCHANGED <<disk, cfg, run_all_seeds, seed, memory, attempt_start, pool, bounds>>
    PROVE  IInv'
<1> USE DEF IInv
<1>1. /\ pc' = "record" /\ toRecord' = rs
      /\ stage' = [stage EXCEPT ![t] = "recording"]
  BY DEF RecordResult
<1>2. seed \in Seed
  BY DEF PhaseInv
<1>3. attempt_start[t] = attempts_by_key[<<t, seed>>] + 1
  BY DEF NumberInv, Outstanding
<1>4. attempts_by_key[<<t, seed>>] \in Nat
  BY <1>2 DEF TypeOK, Key
<1>5. /\ rs \in Seq(Row) /\ Len(rs) \in Nat \ {0} /\ rs # << >>
      /\ \A i \in 1 .. Len(rs) :
            /\ rs[i].task = t /\ rs[i].seed = seed
            /\ rs[i].attempt = attempt_start[t] + i - 1
            /\ i < Len(rs) => ~IsTerminal(rs[i])
  <2>1. attempt_start[t] \in Nat \ {0}
    BY <1>3, <1>4
  <2> QED BY <1>2, <2>1, AttemptRowsShape
<1>6. TypeOK'
  <2>1. stage' \in [Task -> Stages]
    BY <1>1 DEF TypeOK, Stages
  <2> QED BY <1>1, <1>5, <2>1 DEF TypeOK, disk, memory, pool, bounds
<1>7. PhaseInv'
  BY <1>1, <1>2 DEF PhaseInv
<1>8. OpenInv'
  BY <1>1 DEF OpenInv, Outstanding, memory, TypeOK
<1>9. NumberInv' /\ RebuildInv'
  BY <1>1 DEF NumberInv, RebuildInv, Outstanding, memory, pool, TypeOK
<1>10. RecordInv'
  <2>1. stage'[t] = "recording"
    BY <1>1 DEF TypeOK
  <2>2. ASSUME NEW x \in Task, stage'[x] = "recording" PROVE x = t
    BY <1>1, <2>2 DEF RecordInv, TypeOK
  <2>3. rs[1].task = t
    BY <1>5
  <2>4. attempts_by_key' = attempts_by_key /\ seed' = seed
    BY DEF memory
  <2>5. ASSUME NEW i \in 1 .. Len(rs)
        PROVE  /\ stage'[rs[i].task] = "recording" /\ rs[i].seed = seed
               /\ rs[i].attempt = attempts_by_key[<<rs[i].task, seed>>] + i
               /\ i < Len(rs) => ~IsTerminal(rs[i])
    <3>1. rs[i].attempt = attempts_by_key[<<t, seed>>] + 1 + i - 1
      BY <1>3, <1>5
    <3>2. rs[i].attempt = attempts_by_key[<<t, seed>>] + i
      BY <3>1, <1>4
    <3> QED BY <3>2, <2>1, <1>5
  <2> QED BY <1>1, <1>5, <2>2, <2>3, <2>4, <2>5 DEF RecordInv, IsTerminal
<1>11. IndexesCoverJournal'
  BY <1>1 DEF IndexesCoverJournal, disk, memory, KeyOf, IsTerminal
<1> QED BY <1>6, <1>7, <1>8, <1>9, <1>10, <1>11

LEMMA PoolPreserves ==
    ASSUME IInv,
           \/ AllSubmitted \/ RoundEnds \/ PoolBreaks
           \/ \E t \in Task : \/ RunInProcess(t) \/ Submit(t) \/ SubmitRaises(t)
                              \/ WorkerFinishes(t) \/ Collect(t) \/ CollectBroken(t)
    PROVE  IInv'
<1>0. /\ stage \in [Task -> Stages] /\ poolBroken \in BOOLEAN
      /\ rebuilds \in 0 .. MaxPoolRebuilds /\ RebuildInv
      /\ MaxPoolRebuilds \in Nat
      /\ \A t \in Task : stage[t] # "none" => pc \notin {"idle", "seed"}
  BY SuiteAssumption DEF IInv, TypeOK, PhaseInv, NoStage
<1>1. CASE AllSubmitted
  BY <1>0, <1>1, PayloadsMove DEF AllSubmitted, pool, RebuildInv
<1>2. CASE RoundEnds
  <2>1. CASE StageOf({"requeue"}) # {}
    <3>1. /\ rebuilds' = rebuilds + 1 /\ poolBroken' = FALSE /\ pc' = "submit"
          /\ stage' = [t \in Task |-> IF stage[t] = "requeue" THEN "payload" ELSE stage[t]]
          /\ pc = "collect"
          /\ UNCHANGED <<disk, cfg, run_all_seeds, seed, memory, attempt_start,
                         toRecord, bounds>>
      BY <1>2, <2>1 DEF RoundEnds
    <3>2. rebuilds < MaxPoolRebuilds
      BY <1>0, <2>1 DEF StageOf, RebuildInv
    <3>3. stage' \in [Task -> Stages] /\ rebuilds' \in 0 .. MaxPoolRebuilds
      BY <1>0, <3>1, <3>2 DEF Stages
    <3>4. RebuildInv'
      BY <3>1 DEF RebuildInv
    <3>5. \A t \in Task : stage'[t] # stage[t] =>
              stage'[t] \in Outstanding \ {"waiting"}
              /\ stage[t] \in Outstanding \ {"waiting"}
      BY <1>0, <3>1 DEF Outstanding
    <3> QED BY <3>1, <3>3, <3>4, <3>5, PayloadsMove
  <2>2. CASE ~(StageOf({"requeue"}) # {})
    BY <1>0, <1>2, <2>2, PayloadsMove DEF RoundEnds, pool, RebuildInv
  <2> QED BY <2>1, <2>2
<1>3. CASE PoolBreaks
  <2>1. pc' = pc /\ pc \notin {"idle", "seed"} /\ poolBroken' \in BOOLEAN
    BY <1>0, <1>3 DEF PoolBreaks, StageOf
  <2>2. /\ stage' \in [Task -> Stages]
        /\ \A t \in Task : stage'[t] # stage[t] =>
               stage'[t] \in Outstanding \ {"waiting"}
               /\ stage[t] \in Outstanding \ {"waiting"}
        /\ \A t \in Task : stage'[t] = "requeue" => stage[t] = "requeue"
    BY <1>0, <1>3 DEF PoolBreaks, Outstanding, Stages
  <2>3. /\ rebuilds' = rebuilds
        /\ UNCHANGED <<disk, cfg, run_all_seeds, seed, memory, attempt_start,
                       toRecord, bounds>>
    BY <1>3 DEF PoolBreaks
  <2>4. RebuildInv'
    BY <1>0, <2>2, <2>3 DEF RebuildInv
  <2> QED BY <1>0, <2>1, <2>2, <2>3, <2>4, PayloadsMove
<1>4. ASSUME NEW t \in Task, Submit(t) \/ WorkerFinishes(t) PROVE IInv'
  <2>1. /\ pc' = pc /\ pc \notin {"idle", "seed"}
        /\ UNCHANGED <<disk, cfg, run_all_seeds, seed, memory, attempt_start, pool,
                       toRecord, bounds>>
    BY <1>0, <1>4 DEF Submit, WorkerFinishes
  <2>2. /\ stage' \in [Task -> Stages]
        /\ \A x \in Task : stage'[x] # stage[x] =>
               stage'[x] \in Outstanding \ {"waiting"}
               /\ stage[x] \in Outstanding \ {"waiting"}
        /\ \A x \in Task : stage'[x] = "requeue" => stage[x] = "requeue"
    BY <1>0, <1>4 DEF Submit, WorkerFinishes, Outstanding, Stages
  <2>3. RebuildInv'
    BY <1>0, <2>1, <2>2 DEF RebuildInv, pool
  <2> QED BY <1>0, <2>1, <2>2, <2>3, PayloadsMove DEF pool
<1>5. ASSUME NEW t \in Task, RunInProcess(t) \/ SubmitRaises(t) \/ Collect(t) PROVE IInv'
  <2>1. PICK rs \in AttemptRows(t) \cup OtherErrors(t) \cup {BrokenPoolError(t)} :
            RecordResult(t, rs)
    BY <1>5 DEF RunInProcess, SubmitRaises, Collect
  <2>2. /\ stage[t] \in {"payload", "done", "broken"} /\ pc \in {"submit", "collect"}
        /\ UNCHANGED <<disk, cfg, run_all_seeds, seed, memory, attempt_start, pool, bounds>>
    BY <1>5 DEF RunInProcess, SubmitRaises, Collect
  <2> QED BY <2>1, <2>2, RecordResultPreserves
<1>6. ASSUME NEW t \in Task, CollectBroken(t) PROVE IInv'
  <2>1. /\ stage[t] = "broken" /\ pc = "collect"
        /\ UNCHANGED <<disk, cfg, run_all_seeds, seed, memory, attempt_start, pool, bounds>>
    BY <1>6 DEF CollectBroken
  <2>2. CASE rebuilds < MaxPoolRebuilds
    <3>1. stage' = [stage EXCEPT ![t] = "requeue"] /\ UNCHANGED <<pc, toRecord>>
      BY <1>6, <2>2 DEF CollectBroken
    <3>2. /\ stage' \in [Task -> Stages]
          /\ \A x \in Task : stage'[x] # stage[x] =>
                 stage'[x] \in Outstanding \ {"waiting"}
                 /\ stage[x] \in Outstanding \ {"waiting"}
      BY <1>0, <2>1, <3>1 DEF Outstanding, Stages
    <3>3. RebuildInv'
      BY <2>1, <2>2 DEF RebuildInv, pool
    <3> QED BY <1>0, <2>1, <3>1, <3>2, <3>3, PayloadsMove DEF pool
  <2>3. CASE ~(rebuilds < MaxPoolRebuilds)
    <3>1. RecordResult(t, BrokenPoolError(t))
      BY <1>6, <2>3 DEF CollectBroken
    <3> QED BY <2>1, <3>1, RecordResultPreserves
  <2> QED BY <2>2, <2>3
<1> QED BY <1>1, <1>2, <1>3, <1>4, <1>5, <1>6

-----------------------------------------------------------------------------
(* What _record finds at the head of its list: a row of an open episode,    *)
(* under the number after the highest known.                                *)
LEMMA RowToRecord ==
    ASSUME IInv, pc = "record"
    PROVE  LET r == Head(toRecord)
               k == KeyOf(r)
           IN  /\ r \in Row /\ r = toRecord[1] /\ Len(toRecord) \in Nat \ {0}
               /\ r.task \in Task /\ stage[r.task] = "recording" /\ r.seed = seed
               /\ k = <<r.task, seed>> /\ k \in Key
               /\ attempts_by_key[k] \in Nat
               /\ r.attempt = attempts_by_key[k] + 1
               /\ Len(toRecord) > 1 => ~IsTerminal(r)
               /\ k \notin terminal_by_key
               /\ ~run_all_seeds => r.task \notin solved
               /\ Tail(toRecord) \in Seq(Row) /\ Len(Tail(toRecord)) = Len(toRecord) - 1
               /\ \A i \in 1 .. Len(toRecord) - 1 : Tail(toRecord)[i] = toRecord[i + 1]
<1> DEFINE r == toRecord[1]
<1> USE DEF IInv
<1>1. toRecord \in Seq(Row) /\ toRecord # << >>
  BY DEF TypeOK, RecordInv
<1>2. Len(toRecord) \in Nat \ {0}
  BY <1>1, EmptySeq
<1>3. Head(toRecord) = r
  BY <1>1
<1>4. r \in Row
  BY <1>1, <1>2, ElementOfSeq
<1>5. r.task \in Task
  BY <1>4 DEF Row
<1>6. /\ stage[r.task] = "recording" /\ r.seed = seed
      /\ r.attempt = attempts_by_key[<<r.task, seed>>] + 1
      /\ Len(toRecord) > 1 => ~IsTerminal(r)
  BY <1>2 DEF RecordInv
<1>7. <<r.task, seed>> \in Key /\ KeyOf(r) = <<r.task, seed>>
  BY <1>5, <1>6 DEF PhaseInv, Key, KeyOf
<1>8. attempts_by_key[<<r.task, seed>>] \in Nat
  BY <1>7 DEF TypeOK
<1>9. <<r.task, seed>> \notin terminal_by_key /\ (~run_all_seeds => r.task \notin solved)
  BY <1>5, <1>6 DEF OpenInv
<1>10. /\ Tail(toRecord) \in Seq(Row) /\ Len(Tail(toRecord)) = Len(toRecord) - 1
       /\ \A i \in 1 .. Len(toRecord) - 1 : Tail(toRecord)[i] = toRecord[i + 1]
  BY <1>1, HeadTailProperties
<1> HIDE DEF r
<1> QED BY <1>2, <1>3, <1>4, <1>5, <1>6, <1>7, <1>8, <1>9, <1>10 DEF r

(* Past the last row only "recording" becomes "finished". *)
LEMMA AfterRecordingMoves ==
    ASSUME IInv, AfterRecording
    PROVE  /\ stage' \in [Task -> Stages]
           /\ \A t \in Task : stage'[t] # "recording"
           /\ \A t \in Task : 
                 \/ stage'[t] = stage[t]
                 \/ stage[t] = "recording" /\ stage'[t] = "finished"
           /\ pc' \in {"submit", "collect"}
<1>1. stage \in [Task -> Stages]
  BY DEF IInv, TypeOK
<1>2. stage' = [t \in Task |-> IF stage[t] = "recording" THEN "finished" ELSE stage[t]]
  BY DEF AfterRecording, RecordingOf
<1>3. stage' \in [Task -> Stages]
  BY <1>1, <1>2 DEF Stages
<1>4. \A t \in Task :
         /\ stage'[t] # "recording"
         /\ \/ stage'[t] = stage[t]
            \/ stage[t] = "recording" /\ stage'[t] = "finished"
  <2>1. \A t \in Task : stage'[t] = IF stage[t] = "recording" THEN "finished" ELSE stage[t]
    BY <1>2
  <2> QED BY <2>1
<1>5. pc' \in {"submit", "collect"}
  BY DEF AfterRecording
<1> QED BY <1>3, <1>4, <1>5

LEMMA RecordRaisesPreserves == ASSUME IInv, RecordRaises PROVE IInv'
<1> USE DEF IInv
<1>1. /\ pc = "record" /\ AfterRecording /\ toRecord' = << >>
      /\ appendErrors < MaxAppendErrors /\ appendErrors' = appendErrors + 1
      /\ rows' = Append(rows, Head(toRecord)) /\ AppendStops
      /\ UNCHANGED <<manifest, journal, summary, cfg, run_all_seeds, seed, terminal_by_key,
                     attempts_by_key, solved, attempt_start, pool, starts>>
  BY DEF RecordRaises
<1>2. /\ stage' \in [Task -> Stages]
      /\ \A t \in Task : stage'[t] # "recording"
      /\ \A t \in Task : 
            \/ stage'[t] = stage[t]
            \/ stage[t] = "recording" /\ stage'[t] = "finished"
      /\ pc' \in {"submit", "collect"}
  BY <1>1, AfterRecordingMoves
<1>3. TypeOK'
  <2>1. rows' \in Seq(Row)
    <3>1. Head(toRecord) \in Row /\ rows \in Seq(Row)
      BY <1>1, RowToRecord DEF TypeOK
    <3> QED BY <1>1, <3>1, AppendProperties
  <2>2. appendErrors' \in 0 .. MaxAppendErrors
    BY <1>1, SuiteAssumption DEF TypeOK
  <2>3. torn' \in {"none", "open", "closed"}
    BY <1>1 DEF AppendStops, TypeOK
  <2> QED BY <1>1, <1>2, <2>1, <2>2, <2>3, EmptyMemory DEF TypeOK, pool
<1>4. PhaseInv' /\ OpenInv' /\ NumberInv' /\ RebuildInv'
  BY <1>1, <1>2 DEF PhaseInv, OpenInv, NumberInv, RebuildInv, Outstanding, pool
<1>5. RecordInv'
  BY <1>1, <1>2, EmptyMemory DEF RecordInv
<1>6. IndexesCoverJournal'
  BY <1>1 DEF IndexesCoverJournal, KeyOf, IsTerminal
<1> QED BY <1>3, <1>4, <1>5, <1>6

LEMMA RecordRowPreserves == ASSUME IInv, RecordRow PROVE IInv'
<1> DEFINE r == Head(toRecord)
           k == KeyOf(r)
<1> USE DEF IInv
<1>1. /\ pc = "record"
      /\ rows' = Append(rows, r)
      /\ IF torn = "open" THEN torn' = "closed" /\ UNCHANGED journal
                          ELSE journal' = Append(journal, r) /\ UNCHANGED torn
      /\ attempts_by_key' =
             [attempts_by_key EXCEPT ![k] = IF @ < r.attempt THEN r.attempt ELSE @]
      /\ terminal_by_key' = IF IsTerminal(r) THEN terminal_by_key \cup {k}
                                             ELSE terminal_by_key
      /\ solved' = IF r.verdict = "success" THEN solved \cup {r.task} ELSE solved
      /\ toRecord' = Tail(toRecord)
      /\ IF Tail(toRecord) = << >> THEN AfterRecording ELSE UNCHANGED <<stage, pc>>
      /\ UNCHANGED <<manifest, summary, cfg, run_all_seeds, seed, attempt_start, pool,
                     bounds>>
  BY DEF RecordRow
<1>2. /\ r \in Row /\ r = toRecord[1] /\ Len(toRecord) \in Nat \ {0}
      /\ r.task \in Task /\ stage[r.task] = "recording" /\ r.seed = seed
      /\ k = <<r.task, seed>> /\ k \in Key
      /\ attempts_by_key[k] \in Nat
      /\ r.attempt = attempts_by_key[k] + 1
      /\ Len(toRecord) > 1 => ~IsTerminal(r)
      /\ Tail(toRecord) \in Seq(Row) /\ Len(Tail(toRecord)) = Len(toRecord) - 1
      /\ \A i \in 1 .. Len(toRecord) - 1 : Tail(toRecord)[i] = toRecord[i + 1]
  BY <1>1, RowToRecord
<1> HIDE DEF r, k
<1>3. Tail(toRecord) = << >> <=> Len(toRecord) = 1
  <2>1. ASSUME NEW q \in Seq(Row) PROVE q = << >> <=> Len(q) = 0
    BY EmptySeq
  <2>2. Tail(toRecord) = << >> <=> Len(Tail(toRecord)) = 0
    BY <1>2, <2>1
  <2> QED BY <1>2, <2>2
\* The batch moves on or stays with this row's episode.
<1>4. /\ stage' \in [Task -> Stages]
      /\ \A t \in Task : 
            \/ stage'[t] = stage[t]
            \/ stage[t] = "recording" /\ stage'[t] = "finished"
      /\ pc' \in {"submit", "collect", "record"}
      /\ Len(toRecord) = 1 => pc' # "record" /\ \A t \in Task : stage'[t] # "recording"
      /\ Len(toRecord) # 1 => pc' = "record" /\ stage' = stage
  <2>1. CASE Len(toRecord) = 1
    BY <1>1, <1>3, <2>1, AfterRecordingMoves
  <2>2. CASE Len(toRecord) # 1
    <3>1. stage' = stage /\ pc' = pc
      BY <1>1, <1>3, <2>2
    <3>2. stage \in [Task -> Stages]
      BY DEF TypeOK
    <3> QED BY <1>1, <2>2, <3>1, <3>2
  <2> QED BY <2>1, <2>2
\* Only this episode's index entries move, and only upwards.
<1>5. /\ attempts_by_key' \in [Key -> Nat]
      /\ attempts_by_key'[k] = r.attempt
      /\ \A x \in Key : x # k => attempts_by_key'[x] = attempts_by_key[x]
      /\ \A x \in Key : attempts_by_key[x] <= attempts_by_key'[x]
  <2>1. r.attempt \in Nat /\ attempts_by_key[k] < r.attempt
    BY <1>2
  <2>2. attempts_by_key' = [attempts_by_key EXCEPT ![k] = r.attempt]
    BY <1>1, <1>2, <2>1 DEF TypeOK
  <2>3. attempts_by_key \in [Key -> Nat]
    BY DEF TypeOK
  <2>4. attempts_by_key' \in [Key -> Nat] /\ attempts_by_key'[k] = r.attempt
    BY <1>2, <2>1, <2>2, <2>3
  <2>5. \A x \in Key : x # k => attempts_by_key'[x] = attempts_by_key[x]
    BY <2>2, <2>3
  <2>6. ASSUME NEW x \in Key PROVE attempts_by_key[x] <= attempts_by_key'[x]
    <3>1. attempts_by_key[x] \in Nat
      BY <2>3
    <3>2. CASE x = k
      BY <2>1, <2>4, <3>1, <3>2
    <3>3. CASE x # k
      BY <2>5, <3>1, <3>3
    <3> QED BY <3>2, <3>3
  <2> QED BY <2>4, <2>5, <2>6
<1>6. TypeOK'
  <2>1. rows' \in Seq(Row) /\ journal' \in Seq(Row)
    <3>1. rows \in Seq(Row) /\ journal \in Seq(Row)
      BY DEF TypeOK
    <3>2. Append(rows, r) \in Seq(Row) /\ Append(journal, r) \in Seq(Row)
      BY <1>2, <3>1, AppendProperties
    <3> QED BY <1>1, <3>1, <3>2
  <2>2. terminal_by_key' \subseteq Key /\ solved' \subseteq Task
    BY <1>1, <1>2 DEF TypeOK
  <2>3. torn' \in {"none", "open", "closed"}
    BY <1>1 DEF TypeOK
  <2> QED BY <1>1, <1>2, <1>4, <1>5, <2>1, <2>2, <2>3 DEF TypeOK, pool, bounds
<1>7. PhaseInv' /\ RebuildInv'
  BY <1>1, <1>4 DEF PhaseInv, RebuildInv, pool
<1>8. OpenInv'
  <2> SUFFICES ASSUME NEW t \in Task, stage'[t] \in Outstanding \cup {"recording"}
               PROVE  /\ <<t, seed>> \notin terminal_by_key'
                      /\ ~run_all_seeds => t \notin solved'
    BY <1>1 DEF OpenInv
  <2>1. stage'[t] = stage[t]
    BY <1>4 DEF Outstanding
  <2>2. <<t, seed>> \notin terminal_by_key /\ (~run_all_seeds => t \notin solved)
    BY <2>1 DEF OpenInv
  <2>3. CASE t = r.task
    <3>1. Len(toRecord) # 1
      BY <1>2, <1>4, <2>1, <2>3
    <3>2. ~IsTerminal(r) /\ r.verdict # "success"
      BY <1>2, <3>1 DEF IsTerminal, Terminal
    <3> QED BY <1>1, <2>2, <3>2
  <2>4. CASE t # r.task
    BY <1>1, <1>2, <2>2, <2>4
  <2> QED BY <2>3, <2>4
<1>9. NumberInv'
  <2> SUFFICES ASSUME NEW t \in Task, stage'[t] \in Outstanding \ {"waiting"}
               PROVE  attempt_start[t] = attempts_by_key'[<<t, seed>>] + 1
    BY <1>1 DEF NumberInv
  <2>1. stage'[t] = stage[t] /\ t # r.task
    BY <1>2, <1>4 DEF Outstanding
  <2>2. <<t, seed>> \in Key /\ <<t, seed>> # k
    BY <1>2, <2>1 DEF Key
  <2> QED BY <1>5, <2>1, <2>2 DEF NumberInv
<1>10. RecordInv'
  <2>1. CASE Len(toRecord) = 1
    <3>1. toRecord' = << >> /\ pc' # "record"
      BY <1>1, <1>3, <1>4, <2>1
    <3> QED BY <1>4, <2>1, <3>1, EmptyMemory DEF RecordInv
  <2>2. CASE Len(toRecord) # 1
    <3>1. /\ toRecord' = Tail(toRecord) /\ toRecord' # << >> /\ pc' = "record"
          /\ stage' = stage /\ Len(toRecord') = Len(toRecord) - 1
          /\ Len(toRecord') \in Nat \ {0} /\ seed' = seed
      <4>1. toRecord' = Tail(toRecord) /\ seed' = seed
        BY <1>1
      <4>2. pc' = "record" /\ stage' = stage
        BY <1>4, <2>2
      <4>3. Len(Tail(toRecord)) = Len(toRecord) - 1 /\ Len(toRecord) - 1 \in Nat \ {0}
        BY <1>2, <2>2
      <4> QED BY <4>1, <4>2, <4>3, <1>3, <2>2
    <3>2. ASSUME NEW i \in 1 .. Len(toRecord')
          PROVE  /\ toRecord'[i] = toRecord[i + 1] /\ i + 1 \in 1 .. Len(toRecord)
                 /\ toRecord[i + 1].task = r.task
                 /\ stage[toRecord[i + 1].task] = "recording"
                 /\ toRecord[i + 1].seed = seed
                 /\ toRecord[i + 1].attempt = attempts_by_key[k] + (i + 1)
                 /\ i < Len(toRecord') => ~IsTerminal(toRecord[i + 1])
      <4>1. i + 1 \in 1 .. Len(toRecord) /\ toRecord'[i] = toRecord[i + 1]
        BY <1>2, <3>1
      <4>2. toRecord[i + 1] \in Row
        BY <4>1, ElementOfSeq DEF TypeOK
      <4>3. toRecord[i + 1].task \in Task
        BY <4>2 DEF Row
      <4>4. /\ stage[toRecord[i + 1].task] = "recording"
            /\ toRecord[i + 1].seed = seed
            /\ toRecord[i + 1].attempt =
                   attempts_by_key[<<toRecord[i + 1].task, seed>>] + (i + 1)
            /\ i + 1 < Len(toRecord) => ~IsTerminal(toRecord[i + 1])
        BY <4>1 DEF RecordInv
      <4>5. toRecord[i + 1].task = r.task
        BY <1>2, <4>3, <4>4 DEF RecordInv
      <4>6. i < Len(toRecord') => i + 1 < Len(toRecord)
        BY <1>2, <3>1
      <4> QED BY <1>2, <4>1, <4>4, <4>5, <4>6
    <3>3. \A t \in Task : stage'[t] = "recording" => t = toRecord'[1].task
      <4>1. toRecord'[1].task = r.task
        BY <3>1, <3>2
      <4> QED BY <1>2, <3>1, <4>1 DEF RecordInv
    <3>4. ASSUME NEW i \in 1 .. Len(toRecord')
          PROVE  toRecord'[i].attempt = attempts_by_key'[<<toRecord'[i].task, seed>>] + i
      <4>1. attempts_by_key'[k] = attempts_by_key[k] + 1
        BY <1>2, <1>5
      <4>2. attempts_by_key[k] + (i + 1) = attempts_by_key[k] + 1 + i
        BY <1>2
      <4> QED BY <1>2, <3>2, <4>1, <4>2
    <3> QED BY <3>1, <3>2, <3>3, <3>4 DEF RecordInv, IsTerminal
  <2> QED BY <2>1, <2>2
<1>11. IndexesCoverJournal'
  <2>1. journal \in Seq(Row) /\ DOMAIN journal = 1 .. Len(journal) /\ Len(journal) \in Nat
    BY LenProperties DEF TypeOK
  <2>2. ASSUME NEW x \in Row, KeyOf(x) \in Key,
               IsTerminal(x) => KeyOf(x) \in terminal_by_key,
               x.verdict = "success" => x.task \in solved,
               x.attempt <= attempts_by_key[KeyOf(x)]
        PROVE  /\ IsTerminal(x) => KeyOf(x) \in terminal_by_key'
               /\ x.verdict = "success" => x.task \in solved'
               /\ x.attempt <= attempts_by_key'[KeyOf(x)]
    <3>1. x.attempt \in Nat /\ attempts_by_key[KeyOf(x)] \in Nat
          /\ attempts_by_key'[KeyOf(x)] \in Nat
      BY <1>5, <2>2 DEF TypeOK, Row
    <3> QED BY <1>1, <1>5, <2>2, <3>1
  <2>3. ASSUME NEW i \in DOMAIN journal
        PROVE  /\ IsTerminal(journal[i]) => KeyOf(journal[i]) \in terminal_by_key'
               /\ journal[i].verdict = "success" => journal[i].task \in solved'
               /\ journal[i].attempt <= attempts_by_key'[KeyOf(journal[i])]
    <3>1. journal[i] \in Row
      BY <2>1, ElementOfSeq
    <3>2. KeyOf(journal[i]) \in Key
      BY <3>1 DEF Row, KeyOf, Key
    <3>3. /\ IsTerminal(journal[i]) => KeyOf(journal[i]) \in terminal_by_key
          /\ journal[i].verdict = "success" => journal[i].task \in solved
          /\ journal[i].attempt <= attempts_by_key[KeyOf(journal[i])]
      BY <1>1 DEF IndexesCoverJournal
    <3> QED BY <2>2, <3>1, <3>2, <3>3
  <2>4. /\ IsTerminal(r) => KeyOf(r) \in terminal_by_key'
        /\ r.verdict = "success" => r.task \in solved'
        /\ r.attempt <= attempts_by_key'[KeyOf(r)]
    <3>1. KeyOf(r) = k
      BY DEF k
    <3> QED BY <1>1, <1>2, <1>5, <3>1
  <2>5. ASSUME NEW i \in DOMAIN journal'
         PROVE  \/ i \in DOMAIN journal /\ journal'[i] = journal[i]
                \/ journal'[i] = r
    <3>1. CASE torn = "open"
      BY <1>1, <3>1
    <3>2. CASE torn # "open"
      <4>1. journal' = Append(journal, r)
        BY <1>1, <3>2
      <4>2. /\ Len(journal') = Len(journal) + 1 /\ journal' \in Seq(Row)
            /\ \A j \in 1 .. Len(journal) : journal'[j] = journal[j]
            /\ journal'[Len(journal) + 1] = r
        BY <1>2, <2>1, <4>1, AppendProperties
      <4>3. DOMAIN journal' = 1 .. Len(journal) + 1
        BY <4>2, LenProperties
      <4> QED BY <2>1, <4>2, <4>3
    <3> QED BY <3>1, <3>2
  <2> QED BY <2>3, <2>4, <2>5 DEF IndexesCoverJournal, KeyOf, IsTerminal
<1> QED BY <1>6, <1>7, <1>8, <1>9, <1>10, <1>11

-----------------------------------------------------------------------------
LEMMA EndPreserves == ASSUME IInv, Finish \/ Crash PROVE IInv'
<1>1. CASE Finish
  <2>1. SummarizeSuite(rows, run_all_seeds) \in Summary
    BY SummaryType DEF IInv, TypeOK
  <2> QED BY <1>1, <2>1, ProcessEndsPreserves DEF Finish, IInv, TypeOK
<1>2. CASE Crash
  <2>1. torn' \in {"none", "open", "closed"}
    BY <1>2 DEF Crash, AppendStops, IInv, TypeOK
  <2> QED BY <1>2, <2>1, ProcessEndsPreserves DEF Crash, IInv, TypeOK
<1> QED BY <1>1, <1>2

LEMMA StutterPreserves == ASSUME IInv, UNCHANGED vars PROVE IInv'
<1> USE DEF vars, disk, memory, pool, bounds
<1>1. TypeOK'
  BY DEF IInv, TypeOK
<1>2. PhaseInv' /\ OpenInv' /\ NumberInv' /\ RebuildInv'
  BY DEF IInv, PhaseInv, OpenInv, NumberInv, RebuildInv
<1>3. RecordInv'
  BY DEF IInv, RecordInv, IsTerminal
<1>4. IndexesCoverJournal'
  BY DEF IInv, IndexesCoverJournal, KeyOf, IsTerminal
<1> QED BY <1>1, <1>2, <1>3, <1>4 DEF IInv

(* The invariant holds in every reachable state. *)
THEOREM InvariantHolds == Spec => []IInv
<1>1. IInv /\ [Next]_vars => IInv'
  BY StartPreserves, BeginSeedPreserves, FormBatchPreserves, EndSeedPreserves,
     PoolPreserves, RecordRowPreserves, RecordRaisesPreserves, EndPreserves,
     StutterPreserves
     DEF Next, Step
<1> QED BY InitEstablishes, <1>1, PTL DEF Spec

(* Every variable keeps its type, and in particular a batch is never given  *)
(* more pool rebuilds than _MAX_POOL_REBUILDS.                              *)
THEOREM TypeCorrect == Spec => []TypeOK
<1>1. IInv => TypeOK
  BY DEF IInv
<1> QED BY InvariantHolds, <1>1, PTL

(* A running process's indexes answer for every row of the journal, those   *)
(* of all earlier processes included.                                       *)
THEOREM IndexesComplete == Spec => []IndexesCoverJournal
<1>1. IInv => IndexesCoverJournal
  BY DEF IInv
<1> QED BY InvariantHolds, <1>1, PTL

(* A task with a journaled success is scheduled no further under pass@K.    *)
THEOREM SolvedTasksStayAtRest == Spec => []SolvedTasksRest
<1>1. IInv => SolvedTasksRest
  <2> SUFFICES ASSUME IInv, NEW t \in StageOf(Outstanding), ~run_all_seeds,
                      t \in SolvedTasks(journal)
               PROVE  FALSE
    BY DEF SolvedTasksRest
  <2>1. t \in Task /\ stage[t] \in Outstanding
    BY DEF StageOf
  <2>2. pc # "idle"
    BY <2>1 DEF IInv, PhaseInv, NoStage, Outstanding
  <2>3. t \in solved
    BY <2>2 DEF IInv, IndexesCoverJournal, SolvedTasks
  <2>4. t \notin solved
    BY <2>1 DEF IInv, OpenInv
  <2> QED BY <2>3, <2>4
<1> QED BY InvariantHolds, <1>1, PTL

-----------------------------------------------------------------------------
(***************************************************************************)
(* The account a seed gives of its tasks.  NoEpisodeVanishes speaks of the *)
(* moment a seed is over; the invariant follows each task there through    *)
(* the stages of its payload.                                              *)
(***************************************************************************)

\* The stages of a payload that was given its first attempt number and has
\* not produced all its rows.
Busy == {"payload", "inflight", "done", "broken", "requeue", "recording"}

\* The process knows a row of t's episode under the payload's numbers.
HasRow(t) == \E n \in AttemptsOf(rows, <<t, seed>>) : n >= attempt_start[t]

TaskAccount(t) ==
    /\ stage[t] = "none" => \/ <<t, seed>> \in terminal_by_key
                            \/ ~run_all_seeds /\ t \in solved
    /\ stage[t] \in {"none", "waiting"} => attempt_start[t] = 0
    /\ stage[t] \in Busy =>
           attempt_start[t] \in 1 .. attempts_by_key[<<t, seed>>] + 1
    /\ stage[t] = "finished" => attempt_start[t] # 0 /\ HasRow(t)

AccountInv ==
    /\ pc \in {"idle", "seed"} => attempt_start = NoStart
    /\ pc \notin {"idle", "seed"} => \A t \in Task : TaskAccount(t)
    /\ pc = "collect" => \A t \in Task : stage[t] # "payload"
    /\ pc = "batch" => \A t \in Task : stage[t] \in {"none", "waiting", "finished"}

(* The payloads of a batch move among the busy stages. *)
LEMMA AccountMoves ==
    ASSUME AccountInv, UNCHANGED <<run_all_seeds, seed, memory, attempt_start>>,
           pc \notin {"idle", "seed"}, pc' \notin {"idle", "seed"},
           \A t \in Task : stage'[t] # stage[t] => stage[t] \in Busy /\ stage'[t] \in Busy,
           pc' = "collect" => \A t \in Task : stage'[t] # "payload",
           pc' = "batch" => \A t \in Task : stage'[t] \in {"none", "waiting", "finished"}
    PROVE  AccountInv'
<1>1. ASSUME NEW t \in Task PROVE TaskAccount(t)'
  <2>1. TaskAccount(t)
    BY DEF AccountInv
  <2>2. HasRow(t)' <=> HasRow(t)
    BY DEF HasRow, memory
  <2>3. CASE stage'[t] = stage[t]
    BY <2>1, <2>2, <2>3 DEF TaskAccount, memory
  <2>4. CASE stage'[t] # stage[t]
    BY <2>1, <2>4 DEF TaskAccount, memory, Busy
  <2> QED BY <2>3, <2>4
<1> QED BY <1>1 DEF AccountInv

LEMMA BatchMovesAccount ==
    ASSUME IInv, AccountInv,
           \/ AllSubmitted \/ RoundEnds \/ PoolBreaks
           \/ \E t \in Task : \/ RunInProcess(t) \/ Submit(t) \/ SubmitRaises(t)
                              \/ WorkerFinishes(t) \/ Collect(t) \/ CollectBroken(t)
    PROVE  AccountInv'
<1>1. /\ stage \in [Task -> Stages]
      /\ \A t \in Task : stage[t] # "none" => pc \notin {"idle", "seed"}
      /\ \A t \in Task : stage[t] = "recording" => pc = "record"
      /\ pc = "collect" => \A t \in Task : stage[t] # "payload"
      /\ pc = "batch" => \A t \in Task : stage[t] \in {"none", "waiting", "finished"}
  BY DEF IInv, TypeOK, PhaseInv, RecordInv, NoStage, AccountInv
<1>2. CASE AllSubmitted
  BY <1>2, AccountMoves DEF AllSubmitted, StageOf
<1>3. CASE RoundEnds
  <2>1. CASE StageOf({"requeue"}) # {}
    BY <1>3, <2>1, AccountMoves DEF RoundEnds, Busy
  <2>2. CASE StageOf({"requeue"}) = {}
    <3>1. \A t \in Task : stage[t] \in {"none", "waiting", "finished"}
      BY <1>1, <1>3, <2>2 DEF RoundEnds, StageOf, Stages
    <3> QED BY <1>3, <2>2, <3>1, AccountMoves DEF RoundEnds
  <2> QED BY <2>1, <2>2
<1>4. CASE PoolBreaks
  <2>1. PICK t \in Task : stage[t] = "inflight"
    BY <1>4 DEF PoolBreaks, StageOf
  <2>2. pc \notin {"idle", "seed", "batch"} /\ pc' = pc
    BY <1>1, <1>4, <2>1 DEF PoolBreaks
  <2>3. \A x \in Task : stage'[x] = IF stage[x] = "inflight" THEN "broken" ELSE stage[x]
    BY <1>4 DEF PoolBreaks
  <2> QED BY <1>1, <1>4, <2>2, <2>3, AccountMoves DEF PoolBreaks, Busy
<1>5. ASSUME NEW t \in Task,
             \/ RunInProcess(t) \/ Submit(t) \/ SubmitRaises(t)
             \/ WorkerFinishes(t) \/ Collect(t) \/ CollectBroken(t)
      PROVE  AccountInv'
  <2>1. /\ UNCHANGED <<run_all_seeds, seed, memory, attempt_start>>
        /\ stage[t] \in {"payload", "inflight", "done", "broken"}
    BY <1>5 DEF RunInProcess, Submit, SubmitRaises, WorkerFinishes, Collect, CollectBroken
  <2>2. \/ stage' = [stage EXCEPT ![t] = "recording"] /\ pc' = "record"
        \/ stage' = [stage EXCEPT ![t] = "inflight"] /\ pc' = pc /\ pc = "submit"
        \/ stage' = [stage EXCEPT ![t] = "done"] /\ pc' = pc
        \/ stage' = [stage EXCEPT ![t] = "requeue"] /\ pc' = pc
    BY <1>5 DEF RunInProcess, Submit, SubmitRaises, WorkerFinishes, Collect, CollectBroken,
                RecordResult
  <2>3. pc \notin {"idle", "seed", "batch"} /\ pc' \notin {"idle", "seed", "batch"}
    BY <1>1, <2>1, <2>2
  <2>4. stage'[t] \in Busy /\ stage[t] \in Busy
    BY <1>1, <2>1, <2>2 DEF Busy
  <2>5. \A x \in Task : x # t => stage'[x] = stage[x]
    BY <1>1, <2>2
  <2>6. pc' = "collect" => \A x \in Task : stage'[x] # "payload"
    BY <1>1, <2>2
  <2> QED BY <2>1, <2>3, <2>4, <2>5, <2>6, AccountMoves
<1> QED BY <1>2, <1>3, <1>4, <1>5

(* A further row leaves the rows the process knew known. *)
LEMMA RowsGrow ==
    ASSUME rows \in Seq(Row), NEW r \in Row, rows' = Append(rows, r), seed' = seed,
           attempt_start' = attempt_start
    PROVE  /\ \A t \in Task : HasRow(t) => HasRow(t)'
           /\ \A t \in Task : KeyOf(r) = <<t, seed>> /\ r.attempt >= attempt_start[t]
                              => HasRow(t)'
<1>1. /\ Len(rows) \in Nat /\ DOMAIN rows = 1 .. Len(rows)
      /\ DOMAIN rows' = 1 .. Len(rows) + 1
      /\ \A i \in 1 .. Len(rows) : rows'[i] = rows[i]
      /\ rows'[Len(rows) + 1] = r
  <2>1. rows' \in Seq(Row) /\ Len(rows') = Len(rows) + 1
    BY AppendProperties
  <2> QED BY <2>1, AppendProperties, LenProperties
<1>2. ASSUME NEW t \in Task, HasRow(t) PROVE HasRow(t)'
  <2>1. PICK i \in DOMAIN rows : KeyOf(rows[i]) = <<t, seed>>
                                 /\ rows[i].attempt >= attempt_start[t]
    BY <1>2 DEF HasRow, AttemptsOf, RowsOf
  <2>2. i \in DOMAIN rows' /\ rows'[i] = rows[i]
    BY <2>1
  <2> QED BY <2>1, <2>2 DEF HasRow, AttemptsOf, RowsOf
<1>3. Len(rows) + 1 \in DOMAIN rows'
  BY <1>1
<1> QED BY <1>1, <1>2, <1>3 DEF HasRow, AttemptsOf, RowsOf

(* Whether its row is journaled or its write fails, a payload that is done  *)
(* with has a row among those the process knows.                            *)
LEMMA RecordAccount ==
    ASSUME IInv, IInv', AccountInv, RecordRow \/ RecordRaises
    PROVE  AccountInv'
<1> DEFINE r == Head(toRecord)
           k == KeyOf(r)
<1>1. pc = "record" /\ seed \in Seed
  BY DEF RecordRow, RecordRaises, IInv, PhaseInv
<1>2. /\ r \in Row /\ r.task \in Task /\ stage[r.task] = "recording"
      /\ k = <<r.task, seed>> /\ k \in Key
      /\ attempts_by_key[k] \in Nat /\ r.attempt = attempts_by_key[k] + 1
  BY <1>1, RowToRecord
<1>3. /\ rows' = Append(rows, r)
      /\ UNCHANGED <<run_all_seeds, seed, attempt_start>>
      /\ terminal_by_key \subseteq terminal_by_key' /\ solved \subseteq solved'
  BY DEF RecordRow, RecordRaises
<1>4. \A x \in Key : attempts_by_key'[x] \in Nat /\ attempts_by_key[x] \in Nat
                     /\ attempts_by_key[x] <= attempts_by_key'[x]
  <2>1. attempts_by_key' = attempts_by_key
        \/ attempts_by_key' = [attempts_by_key EXCEPT ![k] = IF @ < r.attempt THEN r.attempt
                                                                               ELSE @]
    BY DEF RecordRow, RecordRaises
  <2>2. attempts_by_key \in [Key -> Nat] /\ attempts_by_key' \in [Key -> Nat]
    BY DEF IInv, TypeOK
  <2> HIDE DEF r, k
  <2> QED BY <1>2, <2>1, <2>2
<1>5. \/ stage' = stage /\ pc' = pc
      \/ AfterRecording
  BY DEF RecordRow, RecordRaises
<1>6. /\ \A t \in Task : \/ stage'[t] = stage[t]
                         \/ stage[t] = "recording" /\ stage'[t] = "finished"
      /\ pc' \in {"submit", "collect", "record"}
  BY <1>1, <1>5, AfterRecordingMoves
<1>7. /\ \A t \in Task : HasRow(t) => HasRow(t)'
      /\ \A t \in Task : t = r.task /\ r.attempt >= attempt_start[t] => HasRow(t)'
  <2> HIDE DEF r
  <2>1. rows \in Seq(Row)
    BY DEF IInv, TypeOK
  <2> QED BY <1>2, <1>3, <2>1, RowsGrow
<1> HIDE DEF r, k
<1>8. ASSUME NEW t \in Task PROVE TaskAccount(t)'
  <2>1. TaskAccount(t)
    BY <1>1 DEF AccountInv
  <2>2. <<t, seed>> \in Key
    BY <1>1 DEF Key
  <2>3. CASE stage'[t] = stage[t]
    <3>1. stage[t] \in Busy => attempt_start[t] \in 1 .. attempts_by_key'[<<t, seed>>] + 1
      BY <1>4, <2>1, <2>2 DEF TaskAccount
    <3> QED BY <1>3, <1>7, <2>1, <2>3, <3>1 DEF TaskAccount
  <2>4. CASE stage[t] = "recording" /\ stage'[t] = "finished"
    <3>1. t = r.task
      BY <1>2, <2>4 DEF IInv, RecordInv
    <3>2. attempt_start[t] \in 1 .. attempts_by_key[k] + 1
      BY <1>2, <2>1, <3>1 DEF TaskAccount, Busy
    <3>3. HasRow(t)' /\ attempt_start[t] # 0
      BY <1>2, <1>7, <3>1, <3>2
    <3> QED BY <1>3, <2>4, <3>3 DEF TaskAccount, Busy
  <2> QED BY <1>6, <2>3, <2>4
<1>9. pc' = "collect" => \A t \in Task : stage'[t] # "payload"
  <2>1. pc' = "collect" => StageOf({"payload"}) = {}
    BY <1>1, <1>5 DEF AfterRecording
  <2> QED BY <1>6, <2>1 DEF StageOf
<1> QED BY <1>6, <1>8, <1>9 DEF AccountInv

(* The seed loop opens and closes the account. *)
LEMMA SeedLoopAccount ==
    ASSUME IInv, AccountInv, BeginSeed \/ FormBatch \/ EndSeed
    PROVE  AccountInv'
<1>1. CASE BeginSeed
  <2>1. ASSUME NEW t \in Task PROVE TaskAccount(t)'
    <3>1. attempt_start'[t] = 0
      BY <1>1 DEF BeginSeed, AccountInv, NoStart
    <3>2. stage'[t] = IF t \in Pending THEN "waiting" ELSE "none"
      BY <1>1 DEF BeginSeed
    <3> QED BY <1>1, <3>1, <3>2 DEF BeginSeed, TaskAccount, Pending, memory, Busy
  <2>2. \A t \in Task : stage'[t] \in {"none", "waiting"}
    BY <1>1 DEF BeginSeed
  <2> QED BY <1>1, <2>1, <2>2 DEF AccountInv, BeginSeed
<1>2. CASE FormBatch
  <2>1. PICK B \in SUBSET StageOf({"waiting"}) :
            /\ stage' = [t \in Task |-> IF t \in B THEN "payload" ELSE stage[t]]
            /\ attempt_start' =
                   [t \in Task |-> IF t \in B THEN attempts_by_key[<<t, seed>>] + 1
                                              ELSE attempt_start[t]]
    BY <1>2 DEF FormBatch
  <2>2. /\ pc = "batch" /\ pc' = "submit" /\ seed \in Seed
        /\ UNCHANGED <<run_all_seeds, seed, memory>>
    BY <1>2 DEF FormBatch, IInv, PhaseInv
  <2>3. ASSUME NEW t \in Task PROVE TaskAccount(t)'
    <3>1. TaskAccount(t)
      BY <2>2 DEF AccountInv
    <3>2. attempts_by_key[<<t, seed>>] \in Nat
      BY <2>2 DEF IInv, TypeOK, Key
    <3>3. CASE t \in B
      <4>1. stage'[t] = "payload" /\ attempt_start'[t] = attempts_by_key[<<t, seed>>] + 1
        BY <2>1, <3>3
      <4>2. attempt_start'[t] \in 1 .. attempts_by_key[<<t, seed>>] + 1
        BY <3>2, <4>1
      <4> QED BY <2>2, <4>1, <4>2 DEF TaskAccount, memory
    <3>4. CASE t \notin B
      <4>1. stage'[t] = stage[t] /\ attempt_start'[t] = attempt_start[t]
        BY <2>1, <3>4
      <4>2. HasRow(t)' <=> HasRow(t)
        BY <2>2, <4>1 DEF HasRow, memory
      <4> QED BY <2>2, <3>1, <4>1, <4>2 DEF TaskAccount, memory
    <3> QED BY <3>3, <3>4
  <2> QED BY <2>2, <2>3 DEF AccountInv
<1>3. CASE EndSeed
  BY <1>3 DEF EndSeed, AccountInv
<1> QED BY <1>1, <1>2, <1>3

(* When a seed is over, every task of the panel was done with it beforehand *)
(* or the process knows a row of its episode under at least the attempt its *)
(* payload was given: no broken pool, failed submission or failed write     *)
(* makes an episode vanish from the record.                                 *)
THEOREM EpisodesAreAccountedFor == Spec => []NoEpisodeVanishes
<1>1. Init => AccountInv
  BY DEF Init, AccountInv
<1>2. IInv /\ IInv' /\ AccountInv /\ [Next]_vars => AccountInv'
  <2> SUFFICES ASSUME IInv, IInv', AccountInv, [Next]_vars PROVE AccountInv'
    OBVIOUS
  <2>1. CASE Start
    BY <2>1 DEF Start, Create, Resume, Launch, CrashWhileCreating, AccountInv
  <2>2. CASE Finish \/ Crash
    BY <2>2 DEF Finish, Crash, ProcessEnds, AccountInv
  <2>3. CASE UNCHANGED vars
    BY <2>3 DEF vars, memory, AccountInv, TaskAccount, HasRow
  <2> QED BY <2>1, <2>2, <2>3, SeedLoopAccount, BatchMovesAccount, RecordAccount
          DEF Next, Step
<1>3. IInv /\ AccountInv => NoEpisodeVanishes
  <2> SUFFICES ASSUME AccountInv, pc = "batch", StageOf({"waiting"}) = {},
                      NEW t \in Task
               PROVE  IF attempt_start[t] = 0
                      THEN \/ <<t, seed>> \in terminal_by_key
                           \/ ~run_all_seeds /\ t \in solved
                      ELSE HasRow(t)
    BY DEF NoEpisodeVanishes, HasRow
  <2>1. TaskAccount(t) /\ stage[t] \in {"none", "finished"}
    BY DEF AccountInv, StageOf
  <2> QED BY <2>1 DEF TaskAccount
<1> QED BY InvariantHolds, <1>1, <1>2, <1>3, PTL DEF Spec

-----------------------------------------------------------------------------
(***************************************************************************)
(* The configuration of a campaign.  A row carries the configuration of    *)
(* the process that produced it; that campaign.json pins the same one is   *)
(* what the start of the process checked, and what no step since changed.  *)
(***************************************************************************)

\* What a running process was started with is what campaign.json pins, and
\* the rows it is about to record are its own.
ConfigInv ==
    /\ OneConfiguration
    /\ pc # "idle" => /\ manifest \in Config
                      /\ manifest.settings = cfg.settings
                      /\ RunMode = "frozen" => manifest.runtime = cfg.runtime
    /\ \A i \in DOMAIN toRecord : toRecord[i].cfg = cfg

(* Whatever a payload yields, its rows name the configuration of the        *)
(* process.                                                                 *)
LEMMA RowsNameTheProcess ==
    ASSUME NEW t \in Task, NEW rs \in AttemptRows(t) \cup OtherErrors(t) \cup {BrokenPoolError(t)}
    PROVE  \A i \in DOMAIN rs : rs[i].cfg = cfg
<1>1. CASE rs \in AttemptRows(t)
  BY <1>1 DEF AttemptRows, EpisodeRow
<1>2. CASE rs \in OtherErrors(t) \cup {BrokenPoolError(t)}
  BY <1>2 DEF OtherErrors, BrokenPoolError, ParentWorkerError, EpisodeRow
<1> QED BY <1>1, <1>2

(* Only the recording of a row and a start touch what the invariant reads.  *)
LEMMA ConfigKept ==
    ASSUME ConfigInv, UNCHANGED <<manifest, journal, cfg>>, pc' # "idle" => pc # "idle",
           \A i \in DOMAIN toRecord' : toRecord'[i].cfg = cfg
    PROVE  ConfigInv'
BY DEF ConfigInv, OneConfiguration

LEMMA BatchKeepsConfig ==
    ASSUME ConfigInv, IInv,
           \/ BeginSeed \/ FormBatch \/ EndSeed
           \/ AllSubmitted \/ RoundEnds \/ PoolBreaks
           \/ \E t \in Task : \/ RunInProcess(t) \/ Submit(t) \/ SubmitRaises(t)
                              \/ WorkerFinishes(t) \/ Collect(t) \/ CollectBroken(t)
    PROVE  ConfigInv'
<1>1. CASE \/ BeginSeed \/ FormBatch \/ EndSeed
           \/ AllSubmitted \/ RoundEnds
           \/ \E t \in Task : Submit(t) \/ WorkerFinishes(t)
  <2>1. UNCHANGED <<manifest, journal, cfg, toRecord>> /\ (pc' # "idle" => pc # "idle")
    BY <1>1 DEF BeginSeed, FormBatch, EndSeed, AllSubmitted, RoundEnds, Submit,
                WorkerFinishes, disk
  <2> QED BY <2>1, ConfigKept DEF ConfigInv
<1>2. CASE PoolBreaks
  BY <1>2, ConfigKept DEF PoolBreaks, disk, ConfigInv
<1>3. ASSUME NEW t \in Task,
             RunInProcess(t) \/ SubmitRaises(t) \/ Collect(t) \/ CollectBroken(t)
      PROVE  ConfigInv'
  <2>1. UNCHANGED <<manifest, journal, cfg>> /\ pc # "idle"
    BY <1>3 DEF RunInProcess, SubmitRaises, Collect, CollectBroken, disk
  <2>2. \/ toRecord' = toRecord
        \/ toRecord' \in AttemptRows(t) \cup OtherErrors(t) \cup {BrokenPoolError(t)}
    BY <1>3 DEF RunInProcess, SubmitRaises, Collect, CollectBroken, RecordResult
  <2>3. \A i \in DOMAIN toRecord' : toRecord'[i].cfg = cfg
    BY <2>2, RowsNameTheProcess DEF ConfigInv
  <2> QED BY <2>1, <2>3, ConfigKept
<1> QED BY <1>1, <1>2, <1>3

LEMMA RecordKeepsConfig ==
    ASSUME IInv, ConfigInv, RecordRow \/ RecordRaises
    PROVE  ConfigInv'
<1> DEFINE r == Head(toRecord)
<1>1. pc = "record" /\ toRecord \in Seq(Row) /\ journal \in Seq(Row)
  BY DEF IInv, TypeOK, RecordRow, RecordRaises
<1>2. /\ r \in Row /\ r = toRecord[1] /\ Len(toRecord) \in Nat \ {0}
      /\ Tail(toRecord) \in Seq(Row) /\ Len(Tail(toRecord)) = Len(toRecord) - 1
      /\ \A i \in 1 .. Len(toRecord) - 1 : Tail(toRecord)[i] = toRecord[i + 1]
  BY <1>1, RowToRecord
<1>3. DOMAIN toRecord = 1 .. Len(toRecord)
      /\ DOMAIN Tail(toRecord) = 1 .. Len(toRecord) - 1
  BY LenProperties
<1>4. r.cfg = cfg /\ \A i \in DOMAIN Tail(toRecord) : Tail(toRecord)[i].cfg = cfg
  BY <1>2 DEF ConfigInv
<1>5. CASE RecordRaises
  BY <1>5, ConfigKept DEF RecordRaises
<1>6. CASE RecordRow
  <2>1. /\ UNCHANGED <<manifest, cfg>> /\ toRecord' = Tail(toRecord)
        /\ journal' = journal \/ journal' = Append(journal, r)
    BY <1>6 DEF RecordRow
  <2>2. CASE journal' = journal
    BY <1>1, <1>4, <2>1, <2>2, ConfigKept
  <2>3. CASE journal' = Append(journal, r)
    <3> HIDE DEF r
    <3>1. /\ Len(journal') = Len(journal) + 1 /\ journal' \in Seq(Row)
          /\ \A i \in 1 .. Len(journal) : journal'[i] = journal[i]
          /\ journal'[Len(journal) + 1] = r /\ Len(journal) \in Nat
      BY <1>1, <1>2, <2>3
    <3>2. DOMAIN journal = 1 .. Len(journal) /\ DOMAIN journal' = 1 .. Len(journal) + 1
      BY <3>1
    <3>3. OneConfiguration'
      <4> SUFFICES ASSUME NEW i \in DOMAIN journal'
                   PROVE  /\ manifest \in Config
                          /\ journal'[i].cfg.settings = manifest.settings
                          /\ RunMode = "frozen" => journal'[i].cfg.runtime = manifest.runtime
        BY <2>1 DEF OneConfiguration
      <4>1. CASE i \in DOMAIN journal
        BY <3>1, <4>1 DEF ConfigInv, OneConfiguration
      <4>2. CASE i = Len(journal) + 1
        BY <1>1, <1>4, <3>1, <4>2 DEF ConfigInv
      <4> QED BY <3>1, <3>2, <4>1, <4>2
    <3> QED BY <1>1, <1>4, <2>1, <3>3 DEF ConfigInv
  <2> QED BY <2>1, <2>2, <2>3
<1> QED BY <1>5, <1>6

(* All rows of a campaign were produced under the settings campaign.json    *)
(* pins and, in a frozen campaign, on the one runtime it pins.              *)
THEOREM CampaignHasOneConfiguration == Spec => []OneConfiguration
<1>1. Init => ConfigInv
  BY DEF Init, ConfigInv, OneConfiguration
<1>2. IInv /\ ConfigInv /\ [Next]_vars => ConfigInv'
  <2> SUFFICES ASSUME IInv, ConfigInv, [Next]_vars PROVE ConfigInv'
    OBVIOUS
  <2>1. CASE Start
    <3>1. pc = "idle" /\ toRecord = << >> /\ toRecord' = toRecord /\ journal' = journal
      BY <2>1 DEF Start, Create, Resume, Launch, CrashWhileCreating, IInv, RecordInv
    <3>2. ASSUME NEW c \in Config, NEW all \in RunAllModes, Create(c, all)
          PROVE  ConfigInv'
      BY <3>1, <3>2 DEF Create, Launch, ConfigInv, OneConfiguration
    <3>3. ASSUME NEW c \in Config, NEW all \in RunAllModes, Resume(c, all)
          PROVE  ConfigInv'
      BY <3>1, <3>3 DEF Resume, Launch, Compatible, ConfigInv, OneConfiguration
    <3>4. CASE CrashWhileCreating
      BY <3>4 DEF CrashWhileCreating, ConfigInv, OneConfiguration
    <3> QED BY <2>1, <3>2, <3>3, <3>4 DEF Start
  <2>2. CASE Finish \/ Crash
    BY <2>2, ConfigKept DEF Finish, Crash, ProcessEnds
  <2>3. CASE UNCHANGED vars
    BY <2>3, ConfigKept DEF vars, disk, ConfigInv
  <2> QED BY <2>1, <2>2, <2>3, BatchKeepsConfig, RecordKeepsConfig DEF Next, Step
<1>3. ConfigInv => OneConfiguration
  BY DEF ConfigInv
<1> QED BY InvariantHolds, <1>1, <1>2, <1>3, PTL DEF Spec

-----------------------------------------------------------------------------
(***************************************************************************)
(* Refinement: RecordRow appends an admitted row, every other step leaves  *)
(* the journal as it was.                                                  *)
(***************************************************************************)
LEMMA RecordRowImplements ==
    ASSUME IInv, RecordRow, journal' # journal PROVE Ledger!LedgerNext
<1> DEFINE r == Head(toRecord)
           k == KeyOf(r)
<1>1. pc = "record" /\ journal' = Append(journal, r)
  BY DEF RecordRow
<1>2. /\ r \in Row /\ k = <<r.task, seed>> /\ k \in Key
      /\ attempts_by_key[k] \in Nat /\ r.attempt = attempts_by_key[k] + 1
      /\ k \notin terminal_by_key
  BY <1>1, RowToRecord
<1> HIDE DEF r
<1>3. journal \in Seq(Row)
  BY DEF IInv, TypeOK
<1>4. journal' # << >> /\ journal'[Len(journal')] = r
  BY <1>1, <1>2, <1>3, AppendProperties
<1>5. k \notin TerminalKeys(journal)
  BY <1>1, <1>2 DEF TerminalKeys, IInv, IndexesCoverJournal
<1>6. \A n \in AttemptsOf(journal, k) : n < r.attempt
  <2> SUFFICES ASSUME NEW i \in DOMAIN journal, KeyOf(journal[i]) = k
               PROVE  journal[i].attempt < r.attempt
    BY DEF AttemptsOf, RowsOf
  <2>1. journal[i] \in Row
    BY <1>3, LenProperties, ElementOfSeq
  <2>2. journal[i].attempt \in Nat
    BY <2>1 DEF Row
  <2>3. journal[i].attempt <= attempts_by_key[k]
    BY <1>1 DEF IInv, IndexesCoverJournal
  <2> QED BY <1>2, <2>2, <2>3
<1>7. Ledger!Admits(r)
  BY <1>5, <1>6 DEF Ledger!Admits, Ledger!TerminalKeys, Ledger!AttemptsOf, Ledger!RowsOf,
     Ledger!KeyOf, Ledger!IsTerminal, Ledger!Terminal, TerminalKeys, AttemptsOf, RowsOf,
     KeyOf, IsTerminal, Terminal
<1>8. r \in Ledger!Row
  BY <1>2 DEF Row, Seed, Verdict, Terminal, Nonterminal, Config, Ledger!Row, Ledger!Seed,
     Ledger!Verdict, Ledger!Terminal, Ledger!Nonterminal, Ledger!Config
<1> QED BY <1>1, <1>4, <1>7, <1>8 DEF Ledger!LedgerNext, Ledger!AppendRow

(* The suite implements the abstract ledger, whatever its pool, its journal *)
(* writes and its restarts do.                                              *)
THEOREM SuiteImplementsLedger == Spec => ImplementsLedger
<1>1. Init => Ledger!LedgerInit
  BY DEF Init, Ledger!LedgerInit
<1>2. IInv /\ [Next]_vars => [Ledger!LedgerNext]_journal
  <2> SUFFICES ASSUME IInv, [Next]_vars, journal' # journal PROVE Ledger!LedgerNext
    OBVIOUS
  <2>1. Next
    BY DEF vars, disk
  <2>2. RecordRow
    BY <2>1 DEF Next, Start, Step, Create, Resume, CrashWhileCreating, Launch, BeginSeed,
       FormBatch, EndSeed, AllSubmitted, RoundEnds, RunInProcess, Submit, SubmitRaises,
       WorkerFinishes, Collect, CollectBroken, Finish, PoolBreaks, RecordRaises, Crash, disk
  <2> QED BY <2>2, RecordRowImplements
<1> QED BY InvariantHolds, <1>1, <1>2, PTL DEF Spec, ImplementsLedger, Ledger!LedgerSpec

-----------------------------------------------------------------------------
(***************************************************************************)
(* What the abstract ledger alone promises, and with it every journal the  *)
(* suite writes.                                                           *)
(***************************************************************************)
\* The three facts are inductive together; the type comes first.
LedgerInv == Ledger!LedgerTypeOK /\ Ledger!AttemptsIncrease /\ Ledger!VerdictIsLast

(* A step of the journal puts one row behind the others and moves none.     *)
LEMMA LedgerGrowsByOne ==
    ASSUME Ledger!LedgerTypeOK, Ledger!LedgerNext
    PROVE  /\ journal' \in Seq(Ledger!Row)
           /\ DOMAIN journal = 1 .. Len(journal)
           /\ DOMAIN journal' = 1 .. Len(journal) + 1
           /\ Len(journal) \in Nat
           /\ \A i \in DOMAIN journal : journal'[i] = journal[i]
           /\ Ledger!Admits(journal'[Len(journal) + 1])
           /\ journal'[Len(journal) + 1] \in Ledger!Row
<1> DEFINE r == journal'[Len(journal')]
<1>1. r \in Ledger!Row /\ Ledger!Admits(r) /\ journal' = Append(journal, r)
  BY DEF Ledger!LedgerNext, Ledger!AppendRow
<1>2. journal \in Seq(Ledger!Row)
  BY DEF Ledger!LedgerTypeOK
<1>3. /\ journal' \in Seq(Ledger!Row)
      /\ Len(journal') = Len(journal) + 1
      /\ \A i \in 1 .. Len(journal) : journal'[i] = journal[i]
  <2> HIDE DEF r
  <2> QED BY <1>1, <1>2, AppendProperties
<1>4. Len(journal) \in Nat /\ DOMAIN journal = 1 .. Len(journal)
  BY <1>2, LenProperties
<1>5. DOMAIN journal' = 1 .. Len(journal')
  BY <1>3, LenProperties
<1> QED BY <1>1, <1>3, <1>4, <1>5

(* The rows of every reachable ledger are numbered upwards within an        *)
(* episode, and an episode's verdict is its last row.                       *)
THEOREM LedgerCorrect == Ledger!LedgerSpec => [](Ledger!AttemptsIncrease /\ Ledger!VerdictIsLast)
<1>1. Ledger!LedgerInit => LedgerInv
  <2> SUFFICES ASSUME Ledger!LedgerInit PROVE LedgerInv
    OBVIOUS
  <2>1. journal \in Seq(Ledger!Row) /\ DOMAIN journal = {}
    BY EmptySeq, LenProperties DEF Ledger!LedgerInit
  <2> QED BY <2>1 DEF LedgerInv, Ledger!LedgerTypeOK, Ledger!AttemptsIncrease, Ledger!VerdictIsLast
<1>2. LedgerInv /\ [Ledger!LedgerNext]_journal => LedgerInv'
  <2> SUFFICES ASSUME LedgerInv, [Ledger!LedgerNext]_journal PROVE LedgerInv'
    OBVIOUS
  <2> USE DEF LedgerInv
  <2>1. CASE UNCHANGED journal
    BY <2>1 DEF Ledger!LedgerTypeOK, Ledger!AttemptsIncrease, Ledger!VerdictIsLast, Ledger!KeyOf,
       Ledger!IsTerminal
  <2>2. CASE Ledger!LedgerNext
    <3> DEFINE n == Len(journal) + 1
    <3>1. /\ journal' \in Seq(Ledger!Row)
          /\ DOMAIN journal = 1 .. Len(journal) /\ DOMAIN journal' = 1 .. n
          /\ Len(journal) \in Nat
          /\ \A i \in DOMAIN journal : journal'[i] = journal[i]
          /\ Ledger!Admits(journal'[n])
      BY <2>2, LedgerGrowsByOne
    <3>2. ASSUME NEW i \in DOMAIN journal', NEW j \in DOMAIN journal', i < j
          PROVE  /\ i \in DOMAIN journal /\ journal'[i] = journal[i]
                 /\ \/ j \in DOMAIN journal /\ journal'[j] = journal[j]
                    \/ j = n
      BY <3>1, <3>2
    <3>3. ASSUME NEW i \in DOMAIN journal, Ledger!KeyOf(journal[i]) = Ledger!KeyOf(journal'[n])
          PROVE  /\ journal[i].attempt < journal'[n].attempt
                 /\ ~Ledger!IsTerminal(journal[i])
      BY <3>1, <3>3 DEF Ledger!Admits, Ledger!AttemptsOf, Ledger!RowsOf, Ledger!TerminalKeys
    <3>4. Ledger!AttemptsIncrease'
      <4> SUFFICES ASSUME NEW i \in DOMAIN journal', NEW j \in DOMAIN journal', i < j,
                          Ledger!KeyOf(journal'[i]) = Ledger!KeyOf(journal'[j])
                   PROVE  journal'[i].attempt < journal'[j].attempt
        BY DEF Ledger!AttemptsIncrease, Ledger!KeyOf
      <4> QED BY <3>2, <3>3 DEF Ledger!AttemptsIncrease
    <3>5. Ledger!VerdictIsLast'
      <4> SUFFICES ASSUME NEW i \in DOMAIN journal', NEW j \in DOMAIN journal', i < j,
                          Ledger!KeyOf(journal'[i]) = Ledger!KeyOf(journal'[j])
                   PROVE  ~Ledger!IsTerminal(journal'[i])
        BY DEF Ledger!VerdictIsLast, Ledger!KeyOf, Ledger!IsTerminal
      <4> QED BY <3>2, <3>3 DEF Ledger!VerdictIsLast
    <3> QED BY <3>1, <3>4, <3>5 DEF Ledger!LedgerTypeOK
  <2> QED BY <2>1, <2>2
<1> QED BY <1>1, <1>2, PTL DEF Ledger!LedgerSpec, LedgerInv

(* What the ledger promises therefore holds of every journal the suite      *)
(* writes: one verdict per (task, seed), last, and rising attempt numbers.  *)
THEOREM JournalKeepsPromises == Spec => [](EpisodesRecordedOnce /\ AttemptsNumberedUpwards)
BY SuiteImplementsLedger, LedgerCorrect, PTL
   DEF ImplementsLedger, EpisodesRecordedOnce, AttemptsNumberedUpwards
-----------------------------------------------------------------------------
(***************************************************************************)
(* The end of a campaign.  The runner sums up what it has in memory, the   *)
(* audit and the next start go by the journal.  The two are one list as    *)
(* long as every journal write goes through, which is the premise of the   *)
(* last two theorems: a write that fails leaves the process with a row     *)
(* that no one else will find (suite.py:504).                              *)
(***************************************************************************)
WritesSucceed == MaxAppendErrors = 0

\* --run-all-seeds is given at every start, or at none: a campaign that is
\* complete without the option is not complete with it.
OneMode == \A a, b \in RunAllModes : a = b

\* A running process found every line of the journal whole and has all rows.
DiskInv == pc # "idle" => torn = "none" /\ rows = journal

LEMMA DiskKept ==
    ASSUME WritesSucceed, IInv, DiskInv, [Next]_vars PROVE DiskInv'
<1>1. CASE Start
  BY <1>1 DEF Start, Create, Resume, JournalLoads, Launch, LoadJournal, CrashWhileCreating,
     DiskInv
<1>2. CASE RecordRow
  BY <1>2 DEF RecordRow, DiskInv
<1>3. CASE RecordRaises
  <2>1. appendErrors \in 0 .. 0 /\ appendErrors < 0
    BY <1>3 DEF RecordRaises, WritesSucceed, IInv, TypeOK
  <2> QED BY <2>1
<1>4. CASE Finish \/ Crash
  BY <1>4 DEF Finish, Crash, ProcessEnds, DiskInv
<1>5. CASE \/ BeginSeed \/ FormBatch \/ EndSeed \/ AllSubmitted \/ RoundEnds \/ PoolBreaks
           \/ UNCHANGED vars
  BY <1>5 DEF BeginSeed, FormBatch, EndSeed, AllSubmitted, RoundEnds, PoolBreaks, vars, disk,
     memory, DiskInv
<1>6. CASE \E t \in Task : \/ RunInProcess(t) \/ Submit(t) \/ SubmitRaises(t)
                           \/ WorkerFinishes(t) \/ Collect(t) \/ CollectBroken(t)
  BY <1>6 DEF RunInProcess, Submit, SubmitRaises, WorkerFinishes, Collect, CollectBroken,
     RecordResult, disk, memory, DiskInv
<1> QED BY <1>1, <1>2, <1>3, <1>4, <1>5, <1>6 DEF Next, Step

(* The runner's summary of a list of rows and the audit's are one, though   *)
(* the runner walks the panel and the audit the rows it finds.              *)
LEMMA SummaryIsRecomputed ==
    ASSUME NEW rs \in Seq(Row) PROVE SummarizeSuite(rs, FALSE) = recomputed(rs)
<1>1. \A i \in DOMAIN rs : KeyOf(rs[i]) \in Key
  <2>1. \A i \in DOMAIN rs : rs[i] \in Row
    BY LenProperties, ElementOfSeq
  <2> QED BY <2>1 DEF KeyOf, Key, Row
<1>2. \A k : TerminalIn(rs, k) = TerminalRowsOf(rs, k)
  BY DEF TerminalIn, TerminalRowsOf, RowsOf
<1>3. DOMAIN terminal_by_pair(rs) = TerminalKeys(rs)
  BY <1>1 DEF terminal_by_pair, TerminalRowsOf, RowsOf, TerminalKeys
<1>4. \A k \in TerminalKeys(rs) : terminal_by_pair(rs)[k].verdict = FinalVerdict(rs, k)
  BY <1>2, <1>3 DEF terminal_by_pair, FinalVerdict
<1>5. \A k \in Key : TerminalIn(rs, k) # {} <=> k \in TerminalKeys(rs)
  BY <1>2, <1>3 DEF terminal_by_pair
<1>6. \A t \in Task : SucceededSeeds(rs, t) = SuccessSeeds(rs, t)
  <2> SUFFICES ASSUME NEW t \in Task, NEW s \in Seed
               PROVE  s \in SucceededSeeds(rs, t) <=> s \in SuccessSeeds(rs, t)
    BY DEF SucceededSeeds, SuccessSeeds
  <2>1. <<t, s>> \in Key
    BY DEF Key
  <2> QED BY <2>1, <1>3, <1>4, <1>5 DEF SucceededSeeds, SuccessSeeds
<1>7. \A t \in Task : t \in DOMAIN success_seed_by_task(rs) <=> SucceededSeeds(rs, t) # {}
  BY <1>6 DEF success_seed_by_task
<1>8. ASSUME NEW t \in Task PROVE CompleteTask(rs, t, FALSE) <=> TaskComplete(rs, t)
  <2> DEFINE S == {s \in Seed : <<t, s>> \in DOMAIN terminal_by_pair(rs)}
  <2>1. IsFiniteSet(Seed) /\ Cardinality(Seed) = PassAt
    BY PassAtAssumption, FS_Interval DEF Seed
  <2>2. S \in SUBSET Seed
    OBVIOUS
  <2>3. Cardinality(S) = PassAt <=> S = Seed
    <3> HIDE DEF S
    <3> QED BY <2>1, <2>2, FS_Subset
  <2>4. S = Seed <=> \A s \in Seed : TerminalIn(rs, <<t, s>>) # {}
    <3>1. \A s \in Seed : <<t, s>> \in Key
      BY DEF Key
    <3> QED BY <3>1, <1>3, <1>5
  <2> QED BY <2>3, <2>4, <1>7 DEF CompleteTask, TaskComplete
<1>9. ASSUME NEW v
      PROVE  PairsWith(rs, v) = {k \in TerminalKeys(rs) : FinalVerdict(rs, k) = v}
  BY <1>3, <1>4 DEF PairsWith
<1>10. DOMAIN latest_by_pair(rs) = {KeyOf(rs[i]) : i \in DOMAIN rs}
  BY <1>1 DEF latest_by_pair, RowsOf
<1>11. \A k \in DOMAIN latest_by_pair(rs) :
           latest_by_pair(rs)[k].verdict = LatestVerdict(rs, k)
  BY DEF latest_by_pair, LatestVerdict
<1>12. Unresolved(rs) = {k \in {KeyOf(rs[i]) : i \in DOMAIN rs} \ TerminalKeys(rs) :
                            LatestVerdict(rs, k) = "implementation_error"}
  BY <1>3, <1>10, <1>11 DEF Unresolved
<1>13. /\ {t \in Task : ~CompleteTask(rs, t, FALSE)} = {t \in Task : ~TaskComplete(rs, t)}
       /\ {t \in Task : SucceededSeeds(rs, t) # {}} = DOMAIN success_seed_by_task(rs)
  BY <1>6, <1>8 DEF success_seed_by_task
<1>14. {t \in Task : ~TaskComplete(rs, t)} = {} <=> \A t \in Task : TaskComplete(rs, t)
  OBVIOUS
<1> QED BY <1>9, <1>12, <1>13, <1>14 DEF SummarizeSuite, recomputed

(* A journal with one verdict per episode, the last of its rows, has none   *)
(* doubled and none contradicted.                                           *)
LEMMA OneVerdictEach ==
    ASSUME IInv, EpisodesRecordedOnce
    PROVE  ~ConflictingVerdicts(journal) /\ ~DuplicateVerdicts(journal)
<1>1. DOMAIN journal = 1 .. Len(journal) /\ Len(journal) \in Nat
  BY LenProperties DEF IInv, TypeOK
<1>2. ASSUME NEW k, NEW i \in TerminalRowsOf(journal, k), NEW j \in TerminalRowsOf(journal, k)
      PROVE  i = j
  <2>1. /\ i \in DOMAIN journal /\ j \in DOMAIN journal
        /\ KeyOf(journal[i]) = KeyOf(journal[j])
        /\ IsTerminal(journal[i]) /\ IsTerminal(journal[j])
    BY DEF TerminalRowsOf, RowsOf
  <2>2. ~(i < j) /\ ~(j < i)
    BY <2>1 DEF EpisodesRecordedOnce, Ledger!VerdictIsLast, Ledger!KeyOf, Ledger!IsTerminal,
       Ledger!Terminal, KeyOf, IsTerminal, Terminal
  <2> QED BY <1>1, <2>1, <2>2
<1>3. ASSUME NEW k PROVE ~(Cardinality(TerminalRowsOf(journal, k)) > 1)
  <2>1. CASE TerminalRowsOf(journal, k) = {}
    BY <2>1, FS_EmptySet
  <2>2. CASE TerminalRowsOf(journal, k) # {}
    <3>1. PICK i \in TerminalRowsOf(journal, k) : TRUE
      BY <2>2
    <3>2. TerminalRowsOf(journal, k) = {i}
      BY <1>2, <3>1
    <3> QED BY <3>2, FS_Singleton
  <2> QED BY <2>1, <2>2
<1> QED BY <1>2, <1>3 DEF ConflictingVerdicts, DuplicateVerdicts

(* A frozen campaign whose journal writes go through is summed up as the    *)
(* audit recomputes it, at the end of its first run and of every resume;    *)
(* the only objection the audit may have is the success-lock's.             *)
THEOREM FinishedRunsAudit ==
    ASSUME WritesSucceed, RunMode = "frozen" PROVE Spec => FinishedRunAudits
<1>1. Init => DiskInv
  BY DEF Init, DiskInv
<1>2. IInv /\ DiskInv /\ [Next]_vars => DiskInv'
  BY DiskKept
<1>3. ASSUME IInv, DiskInv, EpisodesRecordedOnce, [Next]_vars,
             pc = "seed", pc' = "idle", summary' # summary, ~run_all_seeds
      PROVE  audit_errors(journal', torn' # "none", summary', RunMode)
                 \subseteq {"success-lock violation"}
  <2>1. Finish
    BY <1>3 DEF Next, Step, Start, Create, Resume, Launch, CrashWhileCreating, BeginSeed,
       FormBatch, EndSeed, AllSubmitted, RoundEnds, RunInProcess, Submit, SubmitRaises,
       WorkerFinishes, Collect, CollectBroken, RecordRow, PoolBreaks, RecordRaises, Crash, disk,
       vars
  <2>2. /\ journal' = journal /\ torn' = "none"
        /\ summary' = SummarizeSuite(journal, FALSE)
    BY <1>3, <2>1 DEF Finish, DiskInv, IInv, TypeOK
  <2>3. summary' = recomputed(journal)
    BY <2>2, <1>3, SummaryIsRecomputed DEF IInv, TypeOK
  <2> QED BY <1>3, <2>2, <2>3, OneVerdictEach
          DEF audit_errors, NotFrozen, SummaryDiffers
<1>4. IInv /\ DiskInv /\ EpisodesRecordedOnce /\ [Next]_vars
          => [pc = "seed" /\ pc' = "idle" /\ summary' # summary /\ ~run_all_seeds =>
                  audit_errors(journal', torn' # "none", summary', RunMode)
                      \subseteq {"success-lock violation"}]_vars
  BY <1>3
<1> QED BY InvariantHolds, JournalKeepsPromises, <1>1, <1>2, <1>4, PTL
        DEF Spec, FinishedRunAudits

\* summary.json calls the campaign complete.
Complete == summary # NoSummary /\ summary.status = "complete"

\* Then every task is, by the journal, and nothing is under way.
CompleteInv ==
    Complete => /\ \A t \in Task : CompleteTask(journal, t, run_all_seeds)
                /\ \A t \in Task : stage[t] \notin Outstanding \cup {"recording"}

(* A process that works on a complete campaign finds nothing pending.       *)
LEMMA NothingPends ==
    ASSUME IInv, CompleteInv, Complete, BeginSeed PROVE Pending = {}
<1>1. pc = "seed" /\ seed \in Seed /\ journal \in Seq(Row)
  BY PassAtAssumption DEF BeginSeed, IInv, TypeOK, Seed
<1>2. ASSUME NEW t \in Task PROVE t \notin Pending
  <2>1. CASE \A s \in Seed : TerminalIn(journal, <<t, s>>) # {}
    <3>1. PICK i \in DOMAIN journal : KeyOf(journal[i]) = <<t, seed>> /\ IsTerminal(journal[i])
      BY <1>1, <2>1 DEF TerminalIn
    <3>2. <<t, seed>> \in terminal_by_key
      BY <1>1, <3>1 DEF IInv, IndexesCoverJournal
    <3> QED BY <3>2 DEF Pending
  <2>2. CASE SucceededSeeds(journal, t) # {} /\ ~run_all_seeds
    <3>1. PICK s \in Seed : /\ TerminalIn(journal, <<t, s>>) # {}
                            /\ FinalVerdict(journal, <<t, s>>) = "success"
      BY <2>2 DEF SucceededSeeds
    <3> DEFINE D == TerminalIn(journal, <<t, s>>)
    <3>2. D \in SUBSET Nat /\ Len(journal) \in Nat /\ \A i \in D : i <= Len(journal)
      BY <1>1, LenProperties DEF TerminalIn
    <3>3. Max(D) \in D
      <4> HIDE DEF D
      <4> QED BY <3>1, <3>2, MaxOfBounded DEF D
    <3>4. /\ Max(D) \in DOMAIN journal /\ journal[Max(D)].task = t
          /\ journal[Max(D)].verdict = "success"
      BY <3>1, <3>3 DEF TerminalIn, KeyOf, FinalVerdict
    <3>5. t \in solved
      BY <1>1, <3>4 DEF IInv, IndexesCoverJournal
    <3> QED BY <2>2, <3>5 DEF Pending
  <2> QED BY <2>1, <2>2 DEF CompleteInv, CompleteTask
<1> QED BY <1>2 DEF Pending

LEMMA CompleteKept ==
    ASSUME OneMode, IInv, DiskInv, run_all_seeds \in RunAllModes, CompleteInv, [Next]_vars
    PROVE  CompleteInv'
<1>1. CASE Start
  <2>1. /\ UNCHANGED <<journal, summary, stage>> /\ run_all_seeds' \in RunAllModes
    BY <1>1 DEF Start, Create, Resume, Launch, CrashWhileCreating
  <2>2. run_all_seeds' = run_all_seeds
    BY <2>1 DEF OneMode
  <2> QED BY <2>1, <2>2 DEF CompleteInv, Complete, CompleteTask, SucceededSeeds, TerminalIn,
          FinalVerdict
<1>2. CASE BeginSeed
  <2>1. UNCHANGED <<journal, summary, run_all_seeds>>
        /\ stage' = [t \in Task |-> IF t \in Pending THEN "waiting" ELSE "none"]
    BY <1>2 DEF BeginSeed, disk
  <2>2. Complete => \A t \in Task : stage'[t] = "none"
    BY <1>2, <2>1, NothingPends
  <2> QED BY <2>1, <2>2 DEF CompleteInv, Complete, Outstanding
<1>3. CASE Finish
  <2>1. pc = "seed" /\ journal' = journal /\ run_all_seeds' = run_all_seeds /\ stage' = NoStage
        /\ summary' = SummarizeSuite(journal, run_all_seeds)
    BY <1>3 DEF Finish, ProcessEnds, DiskInv
  <2>2. Complete' => {t \in Task : ~CompleteTask(journal, t, run_all_seeds)} = {}
    BY <2>1 DEF Complete, SummarizeSuite
  <2> QED BY <2>1, <2>2 DEF CompleteInv, NoStage, Outstanding
<1>4. CASE Crash
  BY <1>4 DEF Crash, ProcessEnds, CompleteInv, Complete, NoStage, Outstanding
<1>5. CASE RecordRow \/ RecordRaises
  <2>1. ~Complete
    <3>1. pc = "record"
      BY <1>5 DEF RecordRow, RecordRaises
    <3> QED BY <3>1, RowToRecord DEF CompleteInv
  <2> QED BY <1>5, <2>1 DEF RecordRow, RecordRaises, CompleteInv, Complete
<1>6. CASE \/ FormBatch
           \/ \E t \in Task : \/ RunInProcess(t) \/ Submit(t) \/ SubmitRaises(t)
                              \/ WorkerFinishes(t) \/ Collect(t) \/ CollectBroken(t)
  <2>1. \E t \in Task : stage[t] \in Outstanding
    BY <1>6 DEF FormBatch, StageOf, RunInProcess, Submit, SubmitRaises, WorkerFinishes, Collect,
       CollectBroken, Outstanding
  <2>2. summary' = summary
    BY <1>6 DEF FormBatch, RunInProcess, Submit, SubmitRaises, WorkerFinishes, Collect,
       CollectBroken, disk
  <2> QED BY <2>1, <2>2 DEF CompleteInv, Complete
<1>7. CASE EndSeed \/ AllSubmitted \/ RoundEnds \/ PoolBreaks \/ UNCHANGED vars
  <2>1. /\ UNCHANGED <<journal, summary, run_all_seeds>>
        /\ \A t \in Task : \/ stage'[t] \in {stage[t], "none"}
                           \/ stage[t] \in Outstanding
    BY <1>7 DEF EndSeed, AllSubmitted, RoundEnds, PoolBreaks, vars, disk, NoStage, Outstanding
  <2> QED BY <2>1 DEF CompleteInv, Complete, Outstanding
<1> QED BY <1>1, <1>2, <1>3, <1>4, <1>5, <1>6, <1>7 DEF Next, Step

(* Once summary.json calls a campaign complete, no later start runs an      *)
(* episode on it or adds a row, if every journal write went through and     *)
(* --run-all-seeds is what it was.                                          *)
THEOREM CompleteStaysComplete ==
    ASSUME WritesSucceed, OneMode PROVE Spec => CompleteIsFinal
<1> DEFINE Inv == /\ IInv /\ DiskInv /\ CompleteInv /\ run_all_seeds \in RunAllModes
<1>1. Init => Inv
  BY InitEstablishes DEF Init, DiskInv, CompleteInv, Complete
<1>2. IInv /\ IInv' /\ Inv /\ [Next]_vars => Inv'
  <2> SUFFICES ASSUME IInv', Inv, [Next]_vars PROVE Inv'
    OBVIOUS
  <2>1. run_all_seeds' \in RunAllModes
    BY DEF Next, Step, Start, Create, Resume, Launch, CrashWhileCreating, BeginSeed, FormBatch,
       EndSeed, AllSubmitted, RoundEnds, RunInProcess, Submit, SubmitRaises, WorkerFinishes,
       Collect, CollectBroken, RecordRow, Finish, ProcessEnds, PoolBreaks, RecordRaises, Crash,
       vars
  <2> QED BY <2>1, DiskKept, CompleteKept
<1>3. ASSUME Inv, Inv', [Next]_vars, Complete
      PROVE  journal' = journal /\ StageOf(Outstanding)' = {}
  <2>1. journal' = journal
    <3>1. ~RecordRow
      <4>1. SUFFICES ASSUME RecordRow PROVE FALSE
        OBVIOUS
      <4>2. pc = "record"
        BY <4>1 DEF RecordRow
      <4> QED BY <1>3, <4>2, RowToRecord DEF CompleteInv
    <3> QED BY <1>3, <3>1 DEF Next, Step, Start, Create, Resume, Launch, CrashWhileCreating,
            BeginSeed, FormBatch, EndSeed, AllSubmitted, RoundEnds, RunInProcess, Submit,
            SubmitRaises, WorkerFinishes, Collect, CollectBroken, Finish, ProcessEnds,
            PoolBreaks, RecordRaises, Crash, disk, vars
  <2>2. CASE Finish
    BY <2>2 DEF Finish, ProcessEnds, NoStage, StageOf, Outstanding
  <2>3. CASE ~Finish
    <3>1. summary' = summary
      BY <1>3, <2>3 DEF Next, Step, Start, Create, Resume, Launch, CrashWhileCreating,
         BeginSeed, FormBatch, EndSeed, AllSubmitted, RoundEnds, RunInProcess, Submit,
         SubmitRaises, WorkerFinishes, Collect, CollectBroken, RecordRow, PoolBreaks,
         RecordRaises, Crash, disk, vars
    <3>2. \A t \in Task : stage'[t] \notin Outstanding
      BY <1>3, <3>1 DEF CompleteInv, Complete, Outstanding
    <3> QED BY <2>1, <3>2 DEF StageOf, Outstanding
  <2> QED BY <2>1, <2>2, <2>3
<1>4. Inv /\ Inv' /\ [Next]_vars
          => [/\ summary # NoSummary /\ summary.status = "complete"
              => journal' = journal /\ StageOf(Outstanding)' = {}]_vars
  BY <1>3 DEF Complete
<1> QED BY InvariantHolds, <1>1, <1>2, <1>4, PTL DEF Spec, CompleteIsFinal
-----------------------------------------------------------------------------
(***************************************************************************)
(* How long a started suite may work: what is left of it, counted in a way *)
(* that every step but a start lowers.                                     *)
(***************************************************************************)
\* How often a payload is still handed on before its rows are recorded.
Moves == [payload |-> 3, inflight |-> 2, done |-> 1, broken |-> 1, none |-> 0, waiting |-> 0,
          requeue |-> 0, recording |-> 0, finished |-> 0]
Phases == [seed |-> 4, submit |-> 3, collect |-> 2, batch |-> 1, record |-> 1, idle |-> 0]

OpenTasks == IF pc = "seed" THEN Task ELSE StageOf({"waiting"})
ToMove == {x \in Task \X (1 .. 3) : x[2] <= Moves[stage[x[1]]]}

SeedsLeft == IF pc = "idle" THEN 0 ELSE PassAt - seed + 1
TasksLeft == Cardinality(OpenTasks)
BusyLeft == Cardinality(StageOf(Busy))
RebuildsLeft == MaxPoolRebuilds - rebuilds
MovesLeft == Cardinality(ToMove)
PhaseLeft == Phases[pc]
RowsLeft == Len(toRecord)

Left == <<SeedsLeft, TasksLeft, BusyLeft, RebuildsLeft, MovesLeft, PhaseLeft, RowsLeft>>

Counted == [1 .. 7 -> Nat]
Less == {ss \in Nat \X Nat : ss[1] < ss[2]}
Below == LexProductOrdering(Less, Nat, 7)
Spends == <<Left', Left>> \in Below

LEMMA BelowIsWellFounded == IsWellFoundedOn(Below, Counted)
<1>1. IsWellFoundedOn(Less, Nat)
  BY NatLessThanWellFounded DEF OpToRel, Less
<1> QED BY <1>1, WFLexProductOrdering DEF Below, Counted

\* Losing members a finite set loses size.
LEMMA Smaller ==
    ASSUME NEW S, IsFiniteSet(S), NEW T \in SUBSET S, T # S
    PROVE  Cardinality(T) < Cardinality(S)
<1>1. IsFiniteSet(T) /\ Cardinality(T) <= Cardinality(S) /\ Cardinality(T) # Cardinality(S)
  BY FS_Subset
<1>2. Cardinality(T) \in Nat /\ Cardinality(S) \in Nat
  BY <1>1, FS_CardinalityType
<1> QED BY <1>1, <1>2

LEMMA ToMoveFinite == IsFiniteSet(Task) /\ IsFiniteSet(Task \X (1 .. 3))
<1>1. 1 \in Int /\ 3 \in Int
  OBVIOUS
<1>2. IsFiniteSet(1 .. 3)
  BY <1>1, FS_Interval
<1> QED BY <1>2, TaskAssumption, FS_Product

LEMMA LeftIsCounted == IInv => Left \in Counted
<1> SUFFICES ASSUME IInv
             PROVE  Left \in Counted
  OBVIOUS
<1>1. SeedsLeft \in Nat /\ RebuildsLeft \in Nat
  BY PassAtAssumption, SuiteAssumption DEF IInv, TypeOK, SeedsLeft, RebuildsLeft
<1>2. IsFiniteSet(OpenTasks) /\ IsFiniteSet(StageOf(Busy)) /\ IsFiniteSet(ToMove)
  <2>1. OpenTasks \in SUBSET Task /\ StageOf(Busy) \in SUBSET Task
        /\ ToMove \in SUBSET (Task \X (1 .. 3))
    BY DEF OpenTasks, StageOf, ToMove
  <2> QED BY <2>1, ToMoveFinite, FS_Subset
<1>3. TasksLeft \in Nat /\ BusyLeft \in Nat /\ MovesLeft \in Nat
  BY <1>2, FS_CardinalityType DEF TasksLeft, BusyLeft, MovesLeft
<1>4. PhaseLeft \in Nat /\ RowsLeft \in Nat
  <2>1. PhaseLeft \in Nat
    BY DEF IInv, TypeOK, PhaseLeft, Phases
  <2>2. RowsLeft \in Nat
    BY LenProperties DEF IInv, TypeOK, RowsLeft
  <2> QED BY <2>1, <2>2
<1> QED BY <1>1, <1>3, <1>4 DEF Left, Counted

\* Left falls as soon as one of its counts does and none before it rises.
LEMMA LeftFalls ==
    ASSUME IInv, IInv',
           \/ SeedsLeft' < SeedsLeft
           \/ SeedsLeft' = SeedsLeft /\ TasksLeft' < TasksLeft
           \/ SeedsLeft' = SeedsLeft /\ TasksLeft' = TasksLeft /\ BusyLeft' < BusyLeft
           \/ /\ SeedsLeft' = SeedsLeft /\ TasksLeft' = TasksLeft /\ BusyLeft' = BusyLeft
              /\ \/ RebuildsLeft' < RebuildsLeft
                 \/ RebuildsLeft' = RebuildsLeft /\ MovesLeft' < MovesLeft
                 \/ /\ RebuildsLeft' = RebuildsLeft /\ MovesLeft' = MovesLeft
                    /\ \/ PhaseLeft' < PhaseLeft
                       \/ PhaseLeft' = PhaseLeft /\ RowsLeft' < RowsLeft
    PROVE  Spends
<1> DEFINE f == Left  g == Left'
<1>1. f \in Counted /\ g \in Counted
  <2>1. (Left \in Counted)'
    BY LeftIsCounted, PTL
  <2> QED BY <2>1, LeftIsCounted
<1>2. \E j \in 1 .. 7 : g[j] < f[j] /\ \A k \in 1 .. j - 1 : g[k] = f[k]
  BY DEF Left
<1> HIDE DEF f, g
<1>3. PICK j \in 1 .. 7 : g[j] < f[j] /\ \A k \in 1 .. j - 1 : g[k] = f[k]
  BY <1>2
<1>4. <<g[j], f[j]>> \in Less
  BY <1>1, <1>3 DEF Less, Counted
<1>5. <<g, f>> \in Below
  BY <1>1, <1>3, <1>4 DEF Below, LexProductOrdering, Counted
<1> QED BY <1>5 DEF Spends, f, g

\* The stages of a seed, of a batch and of its tasks.
LEMMA PayloadsAdvance ==
    ASSUME IInv, IInv', pc \notin {"idle", "seed"}, pc' \notin {"idle", "seed"},
           seed' = seed, rebuilds' = rebuilds, stage' \in [Task -> Stages],
           \A t \in Task : stage'[t] # stage[t] =>
               /\ stage[t] \in Busy /\ stage'[t] \in Busy
               /\ Moves[stage'[t]] < Moves[stage[t]],
           \E t \in Task : stage'[t] # stage[t]
    PROVE  Spends
<1>1. SeedsLeft' = SeedsLeft /\ RebuildsLeft' = RebuildsLeft
  BY DEF SeedsLeft, RebuildsLeft
<1>2. OpenTasks' = OpenTasks /\ StageOf(Busy)' = StageOf(Busy)
  BY DEF OpenTasks, StageOf, Busy
<1>3. MovesLeft' < MovesLeft
  <2>1. \A t \in Task : Moves[stage[t]] \in 0 .. 3 /\ Moves[stage'[t]] \in 0 .. 3
    <3>1. \A at \in Stages : Moves[at] \in 0 .. 3
      BY DEF Stages, Moves
    <3>2. stage \in [Task -> Stages]
      BY DEF IInv, TypeOK
    <3> QED BY <3>1, <3>2
  <2>2. ToMove' \in SUBSET ToMove
    <3>1. ASSUME NEW x \in Task \X (1 .. 3), x[2] <= Moves[stage'[x[1]]]
          PROVE  x[2] <= Moves[stage[x[1]]]
      <4>1. CASE stage'[x[1]] = stage[x[1]]
        BY <3>1, <4>1
      <4>2. CASE stage'[x[1]] # stage[x[1]]
        <5> DEFINE m == Moves[stage[x[1]]]  n == Moves[stage'[x[1]]]
        <5>1. n < m /\ m \in 0 .. 3 /\ n \in 0 .. 3 /\ x[2] <= n
          BY <2>1, <3>1, <4>2
        <5> HIDE DEF m, n
        <5>2. x[2] <= m
          BY <5>1
        <5> QED BY <5>2 DEF m
      <4> QED BY <4>1, <4>2
    <3> QED BY <3>1 DEF ToMove
  <2>3. ToMove' # ToMove
    <3>1. PICK t \in Task : stage'[t] # stage[t]
      OBVIOUS
    <3> DEFINE m == Moves[stage[t]]  n == Moves[stage'[t]]
    <3>2. n < m /\ m \in 0 .. 3 /\ n \in 0 .. 3
      BY <2>1, <3>1
    <3> HIDE DEF m, n
    <3>3. m \in 1 .. 3 /\ ~(m <= n) /\ m <= m
      BY <3>2
    <3>4. <<t, m>> \in ToMove
      BY <3>3 DEF ToMove, m
    <3>5. <<t, m>> \notin ToMove'
      BY <3>3 DEF ToMove, n
    <3> QED BY <3>4, <3>5
  <2>4. IsFiniteSet(ToMove)
    BY ToMoveFinite, FS_Subset DEF ToMove
  <2> QED BY <2>2, <2>3, <2>4, Smaller DEF MovesLeft
<1> QED BY <1>1, <1>2, <1>3, LeftFalls DEF TasksLeft, BusyLeft

\* A task is done with.
LEMMA BusyFalls ==
    ASSUME IInv, IInv', pc \notin {"idle", "seed"}, pc' \notin {"idle", "seed"},
           seed' = seed, StageOf({"waiting"})' = StageOf({"waiting"}),
           StageOf(Busy)' \in SUBSET StageOf(Busy), StageOf(Busy)' # StageOf(Busy)
    PROVE  Spends
<1>1. SeedsLeft' = SeedsLeft /\ TasksLeft' = TasksLeft
  BY DEF SeedsLeft, TasksLeft, OpenTasks
<1>2. IsFiniteSet(StageOf(Busy))
  BY TaskAssumption, FS_Subset DEF StageOf
<1>3. BusyLeft' < BusyLeft
  BY <1>2, Smaller DEF BusyLeft
<1> QED BY <1>1, <1>3, LeftFalls

\* The seed loop.
LEMMA SeedLoopSpends ==
    ASSUME IInv, IInv', BeginSeed \/ FormBatch \/ EndSeed
    PROVE  Spends
<1>0. PassAt \in Nat /\ seed \in 0 .. PassAt /\ stage \in [Task -> {"none"} \cup Stages]
  BY PassAtAssumption DEF IInv, TypeOK
<1>1. CASE BeginSeed
  <2>1. /\ pc = "seed" /\ pc' = "batch" /\ seed' = seed /\ rebuilds' = rebuilds
        /\ stage = NoStage
        /\ stage' = [t \in Task |-> IF t \in Pending THEN "waiting" ELSE "none"]
    BY <1>1 DEF BeginSeed, pool, IInv, PhaseInv
  <2>2. SeedsLeft' = SeedsLeft /\ RebuildsLeft' = RebuildsLeft /\ PhaseLeft' < PhaseLeft
    BY <2>1 DEF SeedsLeft, RebuildsLeft, PhaseLeft, Phases
  <2>3. StageOf(Busy)' = StageOf(Busy) /\ ToMove' = ToMove
    <3>1. \A t \in Task : stage[t] = "none" /\ stage'[t] \in {"waiting", "none"}
      BY <2>1 DEF NoStage
    <3>2. \A t \in Task : Moves[stage[t]] = 0 /\ Moves[stage'[t]] = 0
      BY <3>1 DEF Moves
    <3>3. StageOf(Busy)' = {} /\ StageOf(Busy) = {}
      BY <3>1 DEF StageOf, Busy
    <3>4. ToMove' = {} /\ ToMove = {}
      BY <3>2 DEF ToMove
    <3> QED BY <3>3, <3>4
  <2>4. TasksLeft' < TasksLeft \/ TasksLeft' = TasksLeft
    <3>1. OpenTasks = Task /\ OpenTasks' \in SUBSET Task
      BY <2>1 DEF OpenTasks, StageOf
    <3>2. OpenTasks' # OpenTasks => TasksLeft' < TasksLeft
      BY <3>1, TaskAssumption, Smaller DEF TasksLeft
    <3> QED BY <3>2 DEF TasksLeft
  <2> QED BY <2>2, <2>3, <2>4, LeftFalls DEF BusyLeft, MovesLeft
<1>2. CASE FormBatch
  <2>1. PICK B \in SUBSET StageOf({"waiting"}) :
          B # {} /\ stage' = [t \in Task |-> IF t \in B THEN "payload" ELSE stage[t]]
    BY <1>2 DEF FormBatch
  <2>2. pc = "batch" /\ pc' = "submit" /\ seed' = seed
    BY <1>2 DEF FormBatch
  <2>3. SeedsLeft' = SeedsLeft
    BY <2>2 DEF SeedsLeft
  <2>4. /\ OpenTasks = StageOf({"waiting"}) /\ OpenTasks' = StageOf({"waiting"}) \ B
    BY <2>1, <2>2 DEF OpenTasks, StageOf
  <2>5. IsFiniteSet(OpenTasks)
    BY <2>4, TaskAssumption, FS_Subset DEF StageOf
  <2>6. TasksLeft' < TasksLeft
    BY <2>1, <2>4, <2>5, Smaller DEF TasksLeft
  <2> QED BY <2>3, <2>6, LeftFalls
<1>3. CASE EndSeed
  <2>1. pc = "batch" /\ pc' = "seed" /\ seed' = seed + 1
    BY <1>3 DEF EndSeed
  <2>2. SeedsLeft' < SeedsLeft
    BY <1>0, <2>1 DEF SeedsLeft
  <2> QED BY <2>2, LeftFalls
<1> QED BY <1>1, <1>2, <1>3

\* The pool.
LEMMA PoolSpends ==
    ASSUME IInv, IInv',
           \/ AllSubmitted \/ RoundEnds \/ PoolBreaks
           \/ \E t \in Task : \/ RunInProcess(t) \/ Submit(t) \/ SubmitRaises(t)
                              \/ WorkerFinishes(t) \/ Collect(t) \/ CollectBroken(t)
    PROVE  Spends
<1>0. /\ stage \in [Task -> Stages] /\ stage' \in [Task -> Stages]
      /\ rebuilds \in 0 .. MaxPoolRebuilds /\ MaxPoolRebuilds \in Nat
      /\ \A t \in Task : stage[t] # "none" => pc \notin {"idle", "seed"}
  BY SuiteAssumption DEF IInv, TypeOK, PhaseInv, NoStage
<1>1. CASE AllSubmitted
  <2>1. /\ pc = "submit" /\ pc' = "collect"
        /\ UNCHANGED <<seed, stage, rebuilds>>
    BY <1>1 DEF AllSubmitted, pool
  <2>2. PhaseLeft' < PhaseLeft /\ UNCHANGED <<SeedsLeft, OpenTasks, StageOf(Busy), RebuildsLeft, ToMove>>
    BY <2>1 DEF PhaseLeft, Phases, SeedsLeft, OpenTasks, StageOf, RebuildsLeft, ToMove
  <2> QED BY <2>2, LeftFalls DEF TasksLeft, BusyLeft, MovesLeft
<1>2. CASE RoundEnds
  <2>1. pc = "collect" /\ seed' = seed
    BY <1>2 DEF RoundEnds
  <2>2. CASE StageOf({"requeue"}) # {}
    <3>1. /\ pc' = "submit" /\ rebuilds' = rebuilds + 1
          /\ stage' = [t \in Task |-> IF stage[t] = "requeue" THEN "payload" ELSE stage[t]]
      BY <1>2, <2>2 DEF RoundEnds
    <3>2. UNCHANGED <<SeedsLeft, OpenTasks, StageOf(Busy)>>
      BY <1>0, <2>1, <3>1 DEF SeedsLeft, OpenTasks, StageOf, Busy
    <3>3. RebuildsLeft' < RebuildsLeft
      BY <1>0, <3>1 DEF RebuildsLeft
    <3> QED BY <3>2, <3>3, LeftFalls DEF TasksLeft, BusyLeft
  <2>3. CASE ~(StageOf({"requeue"}) # {})
    <3>1. pc' = "batch" /\ UNCHANGED <<stage, rebuilds>>
      BY <1>2, <2>3 DEF RoundEnds, pool
    <3>2. PhaseLeft' < PhaseLeft /\ UNCHANGED <<SeedsLeft, OpenTasks, StageOf(Busy), RebuildsLeft, ToMove>>
      BY <2>1, <3>1 DEF PhaseLeft, Phases, SeedsLeft, OpenTasks, StageOf, RebuildsLeft, ToMove
    <3> QED BY <3>2, LeftFalls DEF TasksLeft, BusyLeft, MovesLeft
  <2> QED BY <2>2, <2>3
<1>3. CASE PoolBreaks
  <2>1. /\ UNCHANGED <<pc, seed, rebuilds>> /\ StageOf({"inflight"}) # {}
        /\ stage' = [t \in Task |-> IF stage[t] = "inflight" THEN "broken" ELSE stage[t]]
    BY <1>3 DEF PoolBreaks
  <2>2. PICK t \in Task : stage[t] = "inflight"
    BY <2>1 DEF StageOf
  <2>3. pc \notin {"idle", "seed"} /\ stage'[t] # stage[t]
    BY <1>0, <2>1, <2>2
  <2>4. \A x \in Task : stage'[x] # stage[x] =>
            /\ stage[x] \in Busy /\ stage'[x] \in Busy /\ Moves[stage'[x]] < Moves[stage[x]]
    BY <2>1 DEF Busy, Moves
  <2> QED BY <1>0, <2>1, <2>3, <2>4, PayloadsAdvance
<1>4. ASSUME NEW t \in Task, Submit(t) \/ WorkerFinishes(t) PROVE Spends
  <2>1. UNCHANGED <<pc, seed, rebuilds>>
    BY <1>4 DEF Submit, WorkerFinishes, pool
  <2>2. PICK x \in {<<"payload", "inflight">>, <<"inflight", "done">>} :
          stage[t] = x[1] /\ stage' = [stage EXCEPT ![t] = x[2]]
    BY <1>4 DEF Submit, WorkerFinishes
  <2>3. pc \notin {"idle", "seed"} /\ stage'[t] # stage[t]
    BY <1>0, <2>2
  <2>4. \A y \in Task : stage'[y] # stage[y] =>
            /\ stage[y] \in Busy /\ stage'[y] \in Busy /\ Moves[stage'[y]] < Moves[stage[y]]
    BY <1>0, <2>2 DEF Busy, Moves
  <2> QED BY <1>0, <2>1, <2>3, <2>4, PayloadsAdvance
<1>5. ASSUME NEW t \in Task, RunInProcess(t) \/ SubmitRaises(t) \/ Collect(t) \/ CollectBroken(t)
      PROVE  Spends
  <2>1. UNCHANGED <<seed, rebuilds>>
    BY <1>5 DEF RunInProcess, SubmitRaises, Collect, CollectBroken, pool
  <2>2. /\ stage[t] \in {"payload", "done", "broken"}
        /\ \/ stage' = [stage EXCEPT ![t] = "recording"] /\ pc' = "record"
           \/ stage' = [stage EXCEPT ![t] = "requeue"] /\ pc' = pc
    BY <1>5 DEF RunInProcess, SubmitRaises, Collect, CollectBroken, RecordResult
  <2>3. pc \notin {"idle", "seed"} /\ pc' \notin {"idle", "seed"} /\ stage'[t] # stage[t]
    BY <1>0, <2>2
  <2>4. \A y \in Task : stage'[y] # stage[y] =>
            /\ stage[y] \in Busy /\ stage'[y] \in Busy /\ Moves[stage'[y]] < Moves[stage[y]]
    BY <1>0, <2>2 DEF Busy, Moves
  <2> QED BY <1>0, <2>1, <2>3, <2>4, PayloadsAdvance
<1> QED BY <1>1, <1>2, <1>3, <1>4, <1>5

\* _record.
LEMMA RecordSpends ==
    ASSUME IInv, IInv', RecordRow \/ RecordRaises
    PROVE  Spends
<1>0. /\ pc = "record" /\ seed' = seed /\ rebuilds' = rebuilds
      /\ stage \in [Task -> Stages]
  BY DEF RecordRow, RecordRaises, pool, IInv, TypeOK
<1>1. PICK t \in Task : stage[t] = "recording"
  BY <1>0, RowToRecord
<1>2. CASE AfterRecording
  <2>1. /\ stage' = [x \in Task |-> IF stage[x] = "recording" THEN "finished" ELSE stage[x]]
        /\ pc' \in {"submit", "collect"}
    BY <1>2 DEF AfterRecording, RecordingOf
  <2>2. StageOf({"waiting"})' = StageOf({"waiting"}) /\ StageOf(Busy)' \in SUBSET StageOf(Busy)
    BY <2>1 DEF StageOf, Busy
  <2>3. t \in StageOf(Busy) /\ t \notin StageOf(Busy)'
    BY <1>1, <2>1 DEF StageOf, Busy
  <2> QED BY <1>0, <2>1, <2>2, <2>3, BusyFalls
<1>3. CASE ~AfterRecording
  <2>1. /\ UNCHANGED <<stage, pc>> /\ toRecord' = Tail(toRecord)
    BY <1>3 DEF RecordRow, RecordRaises
  <2>2. Len(Tail(toRecord)) = Len(toRecord) - 1 /\ Len(toRecord) \in Nat
    BY <1>0, RowToRecord
  <2>3. RowsLeft' < RowsLeft
    BY <2>1, <2>2 DEF RowsLeft
  <2>4. UNCHANGED <<SeedsLeft, OpenTasks, StageOf(Busy), RebuildsLeft, ToMove, PhaseLeft>>
    BY <1>0, <2>1 DEF SeedsLeft, OpenTasks, StageOf, RebuildsLeft, ToMove, PhaseLeft
  <2> QED BY <2>3, <2>4, LeftFalls DEF TasksLeft, BusyLeft, MovesLeft
<1> QED BY <1>2, <1>3

\* A suite that was started spends something of a well founded amount in every
\* step, of its own, of its workers or of what befalls them, until it is at its
\* end: pools that break, submissions that fail and journal writes that raise
\* cannot keep it going for ever.
THEOREM StartedSuitesAreBounded ==
    /\ IsWellFoundedOn(Below, Counted)
    /\ Spec => [](Left \in Counted)
    /\ Spec => [][pc # "idle" => Spends]_vars
<1>1. ASSUME IInv, IInv', Next, pc # "idle"
      PROVE  Spends
  <2>1. CASE Finish \/ Crash
    <3>1. SeedsLeft' = 0
      BY <2>1 DEF Finish, Crash, ProcessEnds, SeedsLeft
    <3>2. SeedsLeft > 0
      BY <1>1, PassAtAssumption DEF SeedsLeft, IInv, TypeOK
    <3> QED BY <1>1, <3>1, <3>2, LeftFalls
  <2>2. ~Start
    BY <1>1 DEF Start, Create, Resume, Launch, CrashWhileCreating
  <2> QED BY <1>1, <2>1, <2>2, SeedLoopSpends, PoolSpends, RecordSpends DEF Next, Step
<1>2. IInv /\ IInv' /\ [Next]_vars => [pc # "idle" => Spends]_vars
  BY <1>1
<1>3. Spec => [][pc # "idle" => Spends]_vars
  BY <1>2, InvariantHolds, PTL DEF Spec
<1>4. Spec => [](Left \in Counted)
  BY LeftIsCounted, InvariantHolds, PTL
<1> QED BY <1>3, <1>4, BelowIsWellFounded
=============================================================================
