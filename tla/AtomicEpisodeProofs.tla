------------------------- MODULE AtomicEpisodeProofs -------------------------
(***************************************************************************)
(* Theorems about AtomicEpisode for every number of episodes, rounds,      *)
(* budgets, calls per turn and kills and every cap of the wiki's sections: *)
(* the budget the rounds share, what the memory says of a run, that a      *)
(* frozen memory stays as it is, that no trace is lost between writers and *)
(* that an episode has a bounded number of steps.                          *)
(***************************************************************************)
EXTENDS AtomicEpisode, SequenceTheorems, TLAPS

-----------------------------------------------------------------------------
(***************************************************************************)
(* The inductive invariant.  What the memory says of a run is true because *)
(* nothing speaks of a run the simulator has not judged, and what a writer *)
(* holds back is told apart from what the files say; that a trace is kept  *)
(* rests on the lock, on the text a holder has read and on the file being  *)
(* blank from the moment it is opened for writing.                         *)
(***************************************************************************)
\* Where a writer holds the lock, and where it only has to write.
Holding == {"read", "cap", "empty", "write"}

\* Before the simulator has judged the episode; where it still executes.
Unjudged == {"plan", "template", "engineer", "review", "adjudicate"}
Executing == {"plan", "template", "engineer"}

\* Where something may be written that is kept for later runs.
Learning == {"template", "archive", "learn", "read", "cap", "empty", "write", "promote"}

Failed == {"failure", "claimed", "unclaimed"}

WithinCap(pg) == \A s \in Section : Len(pg[s]) <= MaxTraces

\* Between the overflow's archiving and the write, a text is within the cap.
PageInv == \A w \in Writer :
    /\ stage[w] \in {"empty", "write"} => WithinCap(md[w])
    /\ stage[w] = "cap" => w \in Episode /\
           \A s \in Section \ {SectionOf(w)} : Len(md[w][s]) <= MaxTraces

StageInv ==
    /\ stage[Manager] \in {"idle", "resolve", "empty", "write", "settle"}
    /\ \A e \in Episode :
           /\ stage[e] \notin {"idle", "resolve", "settle"}
           /\ stage[e] \in Unjudged => result[e] = "none"
           /\ stage[e] \notin Unjudged \cup {"lost"} => result[e] # "none"
           /\ stage[e] \in {"archive", "promote"} => result[e] = "success"
    /\ \A w \in Writer : stage[w] \in Holding => wikiLock = w

\* What is spent and what is left are within the budget.
SpentInv == \A e \in Episode :
    /\ calls[e] + left[e] <= ToolBudget
    /\ stage[e] \in Executing => left[e] >= 1

\* A text fits the outcomes of the runs it tells of.
Listed(pg, s) == {pg[s][k] : k \in DOMAIN pg[s]}

Fits(res, pg) == \A e \in Episode :
    /\ e \in Listed(pg, "success") => res[e] = "success"
    /\ e \in Listed(pg, "failure") \cup pg.leads => res[e] \in Failed

FitInv ==
    /\ wiki # Missing => Fits(result, wiki)
    /\ \A w \in Writer : Fits(result, md[w])
    /\ \A p \in queue : p.of \in Episode =>
           /\ p.kind = "hypothesis" => result[p.of] \in Failed
           /\ p.kind \in {"plan", "record"} => result[p.of] = "success"
           /\ p.kind = "plan" => rnd[p.of] = 1
    /\ seed \in Episode => result[seed] = "success"
    /\ \A e \in recorded : result[e] = "success"
    /\ \A e \in plans : result[e] = "success" /\ rnd[e] = 1
    /\ lead \in Episode => result[lead] \in Failed

FrozenInv == ~evolves =>
    /\ queue = {}
    /\ stage[Manager] = "idle"
    /\ \A e \in Episode : stage[e] \notin Learning

\* A run whose trace must be somewhere.
Ends(r) == r = Old \/ (evolves /\ stage[r] \in {"done", "promote"})

KeptInv ==
    /\ \A r \in Run : Ends(r) =>
           \/ r \in Shown \cup archived \cup wiped
           \/ \E w \in Writer : stage[w] = "write" /\ r \in OnPage(md[w])
    /\ \A w \in Writer :
           /\ stage[w] \in {"cap", "empty"} =>
                  Shown \subseteq OnPage(md[w]) \cup archived \cup wiped
           /\ stage[w] = "write" => Shown = {}
           /\ stage[w] \in {"cap", "empty", "write"} =>
                  w = Manager \/ w \in OnPage(md[w]) \cup archived

IInv ==
    /\ EpTypeOK
    /\ PageInv
    /\ StageInv
    /\ SpentInv
    /\ BudgetIsShared
    /\ FitInv
    /\ FrozenInv
    /\ KeptInv

-----------------------------------------------------------------------------
(***************************************************************************)
(* Texts of the wiki.                                                      *)
(***************************************************************************)
(* A section replaced by another leaves the rest of the text. *)
LEMMA SectionReplaced ==
    ASSUME NEW pg \in Page, NEW s \in Section, NEW x \in Seq(Run)
    PROVE  /\ [pg EXCEPT ![s] = x] \in Page
           /\ [pg EXCEPT ![s] = x][s] = x
           /\ \A z \in Section \ {s} : [pg EXCEPT ![s] = x][z] = pg[z]
           /\ [pg EXCEPT ![s] = x].leads = pg.leads
BY DEF Page, Section

LEMMA PageFacts ==
    ASSUME NEW pg \in Page
    PROVE  /\ \A s \in Section : pg[s] \in Seq(Run) /\ Listed(pg, s) \subseteq Run
           /\ OnPage(pg) = Listed(pg, "success") \cup Listed(pg, "failure")
           /\ pg.leads \subseteq Run
<1>1. \A s \in Section : pg[s] \in Seq(Run)
  BY DEF Page, Section
<1>2. ASSUME NEW s \in Section PROVE Listed(pg, s) \subseteq Run
  <2>1. pg[s] \in Seq(Run)
    BY <1>1
  <2>2. DOMAIN pg[s] = 1 .. Len(pg[s])
    BY LenProperties
  <2> QED BY <2>1, <2>2, ElementOfSeq DEF Listed
<1>3. OnPage(pg) = Listed(pg, "success") \cup Listed(pg, "failure")
  BY <1>2 DEF OnPage, Listed, Section
<1> QED BY <1>1, <1>2, <1>3 DEF Page

(* A new entry comes first. *)
LEMMA PrependedPage ==
    ASSUME NEW pg \in Page, NEW s \in Section, NEW r \in Run
    PROVE  /\ Prepended(pg, s, r) \in Page
           /\ Listed(Prepended(pg, s, r), s) = Listed(pg, s) \cup {r}
           /\ \A z \in Section \ {s} : /\ Prepended(pg, s, r)[z] = pg[z]
                                       /\ Listed(Prepended(pg, s, r), z) = Listed(pg, z)
           /\ Prepended(pg, s, r).leads = pg.leads
           /\ OnPage(Prepended(pg, s, r)) = OnPage(pg) \cup {r}
<1> DEFINE old == pg[s]
           new == <<r>> \o old
<1>1. old \in Seq(Run) /\ Len(old) \in Nat /\ DOMAIN old = 1 .. Len(old)
  BY PageFacts
<1>2. <<r>> \in Seq(Run) /\ Len(<<r>>) = 1 /\ <<r>>[1] = r
  OBVIOUS
<1>3. /\ new \in Seq(Run) /\ Len(new) = 1 + Len(old)
      /\ \A i \in 1 .. 1 + Len(old) : new[i] = IF i <= 1 THEN <<r>>[i] ELSE old[i - 1]
  <2> HIDE DEF old
  <2> QED BY <1>1, <1>2, ConcatProperties
<1>4. DOMAIN new = 1 .. 1 + Len(old)
  BY LenProperties
<1>5. {new[k] : k \in DOMAIN new} = {old[k] : k \in DOMAIN old} \cup {r}
  <2> HIDE DEF old, new
  <2>1. new[1] = r /\ 1 \in DOMAIN new
    BY <1>3
  <2>2. ASSUME NEW k \in DOMAIN old PROVE k + 1 \in DOMAIN new /\ new[k + 1] = old[k]
    BY <1>3
  <2>3. ASSUME NEW k \in DOMAIN new, k # 1 PROVE k - 1 \in DOMAIN old /\ new[k] = old[k - 1]
    BY <1>1, <1>3, <2>3
  <2> QED BY <2>1, <2>2, <2>3
<1>6. Prepended(pg, s, r) = [pg EXCEPT ![s] = new]
  BY DEF Prepended
<1> HIDE DEF new
<1>7. /\ Prepended(pg, s, r) \in Page /\ Prepended(pg, s, r)[s] = new
      /\ \A z \in Section \ {s} : Prepended(pg, s, r)[z] = pg[z]
      /\ Prepended(pg, s, r).leads = pg.leads
  <2> DEFINE page == [pg EXCEPT ![s] = new]
  <2>1. /\ page \in Page /\ page[s] = new /\ page.leads = pg.leads
        /\ \A z \in Section \ {s} : page[z] = pg[z]
    BY <1>3, SectionReplaced
  <2>2. Prepended(pg, s, r) = page
    BY <1>6
  <2> HIDE DEF page
  <2> QED BY <2>1, <2>2
<1>8. /\ Listed(Prepended(pg, s, r), s) = Listed(pg, s) \cup {r}
      /\ \A z \in Section \ {s} : Listed(Prepended(pg, s, r), z) = Listed(pg, z)
  BY <1>5, <1>7 DEF Listed
<1>9. OnPage(Prepended(pg, s, r)) = OnPage(pg) \cup {r}
  BY <1>7, <1>8, PageFacts DEF Section
<1> QED BY <1>7, <1>8, <1>9

(* A capped section keeps entries it had. *)
LEMMA CappedPage ==
    ASSUME NEW pg \in Page, NEW s \in Section
    PROVE  /\ Capped(pg, s) \in Page
           /\ Len(Capped(pg, s)[s]) <= MaxTraces
           /\ \A z \in Section \ {s} : Capped(pg, s)[z] = pg[z]
           /\ \A z \in Section : Listed(Capped(pg, s), z) \subseteq Listed(pg, z)
           /\ Capped(pg, s).leads = pg.leads
<1> DEFINE old == pg[s]
           n == IF Len(old) < MaxTraces THEN Len(old) ELSE MaxTraces
           new == SubSeq(old, 1, n)
<1>1. old \in Seq(Run) /\ Len(old) \in Nat /\ DOMAIN old = 1 .. Len(old)
  BY PageFacts
<1>2. n \in Nat /\ n <= Len(old) /\ n <= MaxTraces
  BY TaskMemoryAssumption
<1>3. \A i \in 1 .. n : i \in DOMAIN old /\ old[i] \in Run
  BY <1>1, <1>2
<1>4. new \in Seq(Run) /\ Len(new) = n /\ \A i \in 1 .. n : new[i] = old[i]
  <2>1. /\ new \in Seq(Run) /\ Len(new) = IF 1 <= n THEN n - 1 + 1 ELSE 0
        /\ \A i \in 1 .. n - 1 + 1 : new[i] = old[1 + i - 1]
    <3> HIDE DEF n, old
    <3> QED BY <1>2, <1>3, SubSeqProperties
  <2> HIDE DEF n, new, old
  <2> QED BY <1>2, <2>1
<1>5. {new[k] : k \in DOMAIN new} \subseteq {old[k] : k \in DOMAIN old}
  <2> HIDE DEF n, new, old
  <2>1. DOMAIN new = 1 .. n
    BY <1>4
  <2> QED BY <1>3, <1>4, <2>1
<1>6. Capped(pg, s) = [pg EXCEPT ![s] = new]
  BY DEF Capped
<1> HIDE DEF n, new
<1>7. /\ Capped(pg, s) \in Page /\ Capped(pg, s)[s] = new
      /\ \A z \in Section \ {s} : Capped(pg, s)[z] = pg[z]
      /\ Capped(pg, s).leads = pg.leads
  <2> DEFINE page == [pg EXCEPT ![s] = new]
  <2>1. /\ page \in Page /\ page[s] = new /\ page.leads = pg.leads
        /\ \A z \in Section \ {s} : page[z] = pg[z]
    BY <1>4, SectionReplaced
  <2>2. Capped(pg, s) = page
    BY <1>6
  <2> HIDE DEF page
  <2> QED BY <2>1, <2>2
<1> QED BY <1>2, <1>4, <1>5, <1>7, TaskMemoryAssumption DEF Listed

LEMMA BlankPage ==
    Blank \in Page /\ OnPage(Blank) = {} /\ WithinCap(Blank) /\ \A res : Fits(res, Blank)
<1>1. <<>> \in Seq(Run) /\ Len(<<>>) = 0 /\ DOMAIN <<>> = {}
  BY LenProperties
<1>2. Blank \in Page
  BY DEF Blank, Page
<1>3. Listed(Blank, "success") = {} /\ Listed(Blank, "failure") = {} /\ Blank.leads = {}
  BY DEF Listed, Blank
<1> QED BY <1>1, <1>2, <1>3, PageFacts, TaskMemoryAssumption
        DEF WithinCap, Fits, Section, Blank

(* The text a writer finds, and a text with a further lead. *)
LEMMA TextPage ==
    ASSUME MemTypeOK
    PROVE  Text \in Page /\ WithinCap(Text) /\ OnPage(Text) = Shown
BY BlankPage DEF MemTypeOK, Text, WithinCap, Shown

LEMMA LeadPage ==
    ASSUME NEW pg \in Page, NEW r \in Run
    PROVE  /\ [pg EXCEPT !.leads = @ \cup {r}] \in Page
           /\ \A s \in Section : [pg EXCEPT !.leads = @ \cup {r}][s] = pg[s]
           /\ [pg EXCEPT !.leads = @ \cup {r}].leads = pg.leads \cup {r}
           /\ OnPage([pg EXCEPT !.leads = @ \cup {r}]) = OnPage(pg)
<1>1. /\ [pg EXCEPT !.leads = @ \cup {r}] \in Page
      /\ \A s \in Section : [pg EXCEPT !.leads = @ \cup {r}][s] = pg[s]
      /\ [pg EXCEPT !.leads = @ \cup {r}].leads = pg.leads \cup {r}
  BY DEF Page, Section
<1> QED BY <1>1 DEF OnPage

-----------------------------------------------------------------------------
(***************************************************************************)
(* Stages, outcomes and the lock.                                          *)
(***************************************************************************)
Stages == Ended \cup Unjudged \cup Learning \cup
          {"record", "insert", "update", "final", "idle", "resolve", "settle"}

LEMMA StagesAre ==
    EpTypeOK <=> /\ MemTypeOK
                 /\ evolves \in BOOLEAN /\ simulated \in BOOLEAN
                 /\ stage \in [Writer -> Stages]
                 /\ rnd \in [Episode -> 1 .. MaxRounds]
                 /\ left \in [Episode -> Int] /\ calls \in [Episode -> Nat]
                 /\ claim \in [Episode -> BOOLEAN]
                 /\ result \in [Episode -> Result]
                 /\ row \in [Episode -> {"none", "running", "success", "failed"}]
                 /\ lead \in Run /\ kills \in 0 .. MaxKills
<1>1. Stages = Ended \cup {"plan", "template", "engineer", "review",
           "adjudicate", "record", "archive", "insert", "update", "final", "learn",
           "read", "cap", "empty", "write", "promote", "idle", "resolve", "settle"}
  BY DEF Stages, Unjudged, Learning
<1> QED BY <1>1 DEF EpTypeOK

LEMMA Writers == Manager \in Writer /\ Manager \notin Episode /\ Free \notin Writer
                 /\ \A e \in Episode : e \in Writer /\ e \in Run /\ e # Old
BY TaskMemoryAssumption DEF Writer, Run

(* What a step may do to the stage of an episode, and what it takes for it. *)
Edge(e, to) == LET from == stage[e] IN
    \/ from \in Unjudged /\ to \in Unjudged /\ result' = result
    \/ from = "adjudicate" /\ to = "record"
       /\ result' = [result EXCEPT ![e] = result'[e]] /\ result'[e] \in Result \ {"none"}
    \/ result' = result /\
       \/ to = "lost"
       \/ from = "record" /\ to \in {"insert"} \cup (IF Confirmed(e) THEN {"archive"} ELSE {})
       \/ from = "archive" /\ to = "insert"
       \/ from = "insert" /\ to = "update"
       \/ from = "update" /\ to = "final"
       \/ from = "final" /\ to = (IF evolves THEN "learn" ELSE "done")
       \/ from = "learn" /\ to = "read"
       \/ from = "read" /\ to = "cap"
       \/ from = "cap" /\ to = "empty"
       \/ from = "empty" /\ to = "write"
       \/ from = "write" /\ to = (IF Confirmed(e) THEN "promote" ELSE "done")
       \/ from = "promote" /\ to = "done"

LEMMA EpisodeEdges ==
    ASSUME IInv, NEW e \in Episode, EpisodeSteps(e)
    PROVE  /\ Edge(e, stage'[e])
           /\ stage' \in [Writer -> Stages] /\ result' \in [Episode -> Result]
           /\ \A w \in Writer : w # e => stage'[w] = stage[w]
<1>1. /\ stage \in [Writer -> Stages] /\ result \in [Episode -> Result] /\ e \in Writer
      /\ claim \in [Episode -> BOOLEAN]
  BY StagesAre, Writers DEF IInv
<1>2. CASE PlanReadsWiki(e) \/ PlanMakesWiki(e) \/ Execute(e) \/ NextRound(e) \/ LastRound(e)
  BY <1>1, <1>2 DEF PlanReadsWiki, PlanMakesWiki, Execute, NextRound, LastRound, Goes, Edge,
     Unjudged, Stages, outcomeVars
<1>3. CASE Raises(e)
  BY <1>1, <1>3 DEF Raises, Edge, Stages, Ended, outcomeVars
<1>4. CASE Adjudicate(e)
  <2>1. PICK v \in Result \ {"none"} : result' = [result EXCEPT ![e] = v]
    <3>1. PICK holds \in BOOLEAN : result' = [result EXCEPT ![e] =
              CASE simulated /\ holds   -> "success"
                [] simulated /\ ~holds  -> "failure"
                [] ~simulated /\ claim[e]  -> "claimed"
                [] ~simulated /\ ~claim[e] -> "unclaimed"]
      BY <1>4 DEF Adjudicate
    <3>2. claim[e] \in BOOLEAN /\ simulated \in BOOLEAN
      BY DEF IInv, EpTypeOK
    <3>3. CASE simulated
      <4>1. result' = [result EXCEPT ![e] = IF holds THEN "success" ELSE "failure"]
        BY <3>1, <3>3
      <4> QED BY <4>1 DEF Result
    <3>4. CASE ~simulated
      <4>1. CASE claim[e]
        <5>1. result' = [result EXCEPT ![e] = "claimed"]
          BY <3>1, <3>4, <4>1
        <5> QED BY <5>1 DEF Result
      <4>2. CASE ~claim[e]
        <5>1. result' = [result EXCEPT ![e] = "unclaimed"]
          BY <3>1, <3>4, <4>2
        <5> QED BY <5>1 DEF Result
      <4> QED BY <4>1, <4>2
    <3> QED BY <3>3, <3>4
  <2>2. /\ stage[e] = "adjudicate" /\ stage' = [stage EXCEPT ![e] = "record"]
    BY <1>4 DEF Adjudicate, Goes
  <2> QED BY <1>1, <2>1, <2>2 DEF Edge, Stages
<1>5. CASE RecordSuccess(e) \/ RecordPlan(e) \/ InsertRow(e) \/ UpdateRow(e) \/ FinalReview(e)
  BY <1>1, <1>5 DEF RecordSuccess, RecordPlan, InsertRow, UpdateRow, FinalReview, Goes, Edge,
     Stages, Ended, Learning, outcomeVars
<1>6. CASE \/ BeginLesson(e) \/ ReadForLesson(e) \/ CapLesson(e) \/ Empties(e)
           \/ WriteLesson(e) \/ ProposePlan(e)
  BY <1>1, <1>6 DEF BeginLesson, ReadForLesson, CapLesson, Empties, WriteLesson, ProposePlan,
     Goes, Edge, Stages, Ended, Learning, outcomeVars
<1> QED BY <1>2, <1>3, <1>4, <1>5, <1>6 DEF EpisodeSteps

(* What the Manager, or a kill, may do to the stages. *)
LEMMA OtherEdges ==
    ASSUME IInv, ManagerSteps \/ \E w \in Writer : Killed(w)
    PROVE  /\ result' = result
           /\ stage' \in [Writer -> Stages]
           /\ stage'[Manager] \in {"idle", "resolve", "empty", "write", "settle"}
           /\ \A e \in Episode : stage'[e] = stage[e] \/ stage'[e] = "lost"
<1>1. /\ stage \in [Writer -> Stages]
      /\ stage[Manager] \in {"idle", "resolve", "empty", "write", "settle"}
      /\ Manager \in Writer /\ Manager \notin Episode /\ \A e \in Episode : e \in Writer
  BY StagesAre, Writers DEF IInv, StageInv
<1>2. CASE ManagerSteps
  BY <1>1, <1>2 DEF ManagerSteps, TakeHypothesis, RejectLead, ApproveLead, Empties, WriteLead,
     SettleLead, ResolvePlan, Goes, Stages, Learning, outcomeVars
<1>3. ASSUME NEW w \in Writer, Killed(w)
      PROVE  /\ result' = result
             /\ stage' \in [Writer -> Stages]
             /\ stage'[Manager] \in {"idle", "resolve", "empty", "write", "settle"}
             /\ \A e \in Episode : stage'[e] = stage[e] \/ stage'[e] = "lost"
  BY <1>1, <1>3 DEF Killed, Stages, Ended
<1> QED BY <1>2, <1>3

(* The lock changes hands between its holders only. *)
LEMMA LockKept ==
    ASSUME IInv, EpisodeNext
    PROVE  \A w \in Writer : stage'[w] \in Holding => wikiLock' = w
<1>1. /\ stage \in [Writer -> Stages]
      /\ \A w \in Writer : stage[w] \in Holding => wikiLock = w
      /\ Free \notin Writer /\ Manager \in Writer /\ \A e \in Episode : e \in Writer
  BY StagesAre, Writers DEF IInv, StageInv
<1>2. ASSUME NEW e \in Episode, EpisodeSteps(e)
      PROVE  \A w \in Writer : stage'[w] \in Holding => wikiLock' = w
  <2>1. \A w \in Writer : w # e => stage'[w] = stage[w]
    BY <1>2, EpisodeEdges
  <2>2. CASE BeginLesson(e)
    BY <1>1, <2>2 DEF BeginLesson, TakeLock, Goes
  <2>3. CASE WriteLesson(e)
    BY <1>1, <2>3 DEF WriteLesson, Goes, Holding
  <2>4. CASE ReadForLesson(e) \/ CapLesson(e) \/ Empties(e)
    BY <1>1, <2>4 DEF ReadForLesson, CapLesson, ArchiveOverflow, Empties, EmptyWiki, Goes,
       Holding
  <2>5. CASE ~(BeginLesson(e) \/ WriteLesson(e) \/ ReadForLesson(e) \/ CapLesson(e)
               \/ Empties(e))
    <3>1. wikiLock' = wikiLock /\ stage'[e] \notin Holding
      <4>1. CASE \/ PlanReadsWiki(e) \/ PlanMakesWiki(e) \/ Execute(e)
                 \/ NextRound(e) \/ LastRound(e) \/ Raises(e)
        BY <1>1, <4>1 DEF PlanReadsWiki, PlanMakesWiki, Execute, NextRound, LastRound, Raises,
           Goes, memVars, WriteTemplate, Holding
      <4>2. CASE \/ Adjudicate(e) \/ RecordSuccess(e) \/ RecordPlan(e)
                 \/ InsertRow(e) \/ UpdateRow(e) \/ FinalReview(e) \/ ProposePlan(e)
        BY <1>1, <4>2 DEF Adjudicate, RecordSuccess, RecordSkills, RecordPlan, ArchivePlan,
           InsertRow, UpdateRow, FinalReview, ProposePlan, QueuePromotion, Goes, memVars,
           Holding
      <4> QED BY <1>2, <2>5, <4>1, <4>2 DEF EpisodeSteps
    <3> QED BY <1>1, <2>1, <3>1
  <2> QED BY <2>2, <2>3, <2>4, <2>5
<1>3. CASE ManagerSteps
  <2>1. CASE ApproveLead
    BY <1>1, <2>1 DEF ApproveLead, TakeLock, Goes
  <2>2. CASE WriteLead
    BY <1>1, <2>2 DEF WriteLead, Goes, Holding
  <2>3. CASE Empties(Manager)
    BY <1>1, <2>3 DEF Empties, EmptyWiki, Goes, Holding
  <2>4. CASE \/ \E e \in Episode : TakeHypothesis(e)
             \/ RejectLead \/ SettleLead \/ ResolvePlan
    BY <1>1, <2>4 DEF TakeHypothesis, RejectLead, SettleLead, ResolvePlan, ResolvePromotion,
       Goes, Holding, memVars
  <2> QED BY <1>3, <2>1, <2>2, <2>3, <2>4 DEF ManagerSteps
<1>4. ASSUME NEW k \in Writer, Killed(k)
      PROVE  \A w \in Writer : stage'[w] \in Holding => wikiLock' = w
  BY <1>1, <1>4 DEF Killed, DieWithLock, Holding
<1> QED BY <1>2, <1>3, <1>4 DEF EpisodeNext

LEMMA StageKept == ASSUME IInv, EpisodeNext PROVE StageInv'
<1>1. \A w \in Writer : stage'[w] \in Holding => wikiLock' = w
  BY LockKept
<1>2. ASSUME NEW e \in Episode, EpisodeSteps(e) PROVE StageInv'
  <2>1. /\ Edge(e, stage'[e])
        /\ stage' \in [Writer -> Stages]
        /\ \A w \in Writer : w # e => stage'[w] = stage[w]
    BY <1>2, EpisodeEdges
  <2>2. stage'[Manager] = stage[Manager]
    BY <2>1, Writers
  <2>3. ASSUME NEW x \in Episode
        PROVE  /\ stage'[x] \notin {"idle", "resolve", "settle"}
               /\ stage'[x] \in Unjudged => result'[x] = "none"
               /\ stage'[x] \notin Unjudged \cup {"lost"} => result'[x] # "none"
               /\ stage'[x] \in {"archive", "promote"} => result'[x] = "success"
    <3>1. CASE x = e
      BY <2>1, <3>1 DEF Edge, IInv, StageInv, Unjudged, Confirmed
    <3>2. CASE x # e
      <4>1. result'[x] = result[x] /\ stage'[x] = stage[x]
        BY <2>1, <3>2, Writers DEF Edge, IInv, EpTypeOK
      <4> QED BY <4>1 DEF IInv, StageInv
    <3> QED BY <3>1, <3>2
  <2> QED BY <1>1, <2>2, <2>3 DEF StageInv, IInv
<1>3. CASE ManagerSteps \/ \E w \in Writer : Killed(w)
  <2>1. /\ result' = result
        /\ stage'[Manager] \in {"idle", "resolve", "empty", "write", "settle"}
        /\ \A e \in Episode : stage'[e] = stage[e] \/ stage'[e] = "lost"
    BY <1>3, OtherEdges
  <2> QED BY <1>1, <2>1 DEF StageInv, IInv, Unjudged
<1> QED BY <1>2, <1>3 DEF EpisodeNext
(* What the simulator has judged stays judged, in the round it was. *)
LEMMA JudgedStays ==
    ASSUME IInv, EpisodeNext
    PROVE  /\ result' \in [Episode -> Result]
           /\ \A e \in Episode : result[e] # "none" =>
                  result'[e] = result[e] /\ rnd'[e] = rnd[e]
           /\ \A e \in Episode : stage'[e] \in Holding => result'[e] = result[e]
<1>1. /\ result \in [Episode -> Result] /\ rnd \in [Episode -> 1 .. MaxRounds]
      /\ stage \in [Writer -> Stages] /\ \A e \in Episode : e \in Writer
      /\ \A e \in Episode : stage[e] \in Unjudged => result[e] = "none"
  BY StagesAre, Writers DEF IInv, StageInv
<1>2. ASSUME NEW e \in Episode, EpisodeSteps(e)
      PROVE  /\ result' \in [Episode -> Result]
             /\ \A x \in Episode : result'[x] = result[x] \/ stage[x] = "adjudicate"
             /\ \A x \in Episode : stage'[x] \in Holding => result'[x] = result[x]
             /\ \A x \in Episode : rnd'[x] = rnd[x] \/ stage[x] = "review"
  <2>1. /\ Edge(e, stage'[e]) /\ result' \in [Episode -> Result]
        /\ \A w \in Writer : w # e => stage'[w] = stage[w]
    BY <1>2, EpisodeEdges
  <2>2. CASE NextRound(e)
    BY <2>1, <2>2 DEF NextRound, Goes, outcomeVars
  <2>3. CASE ~NextRound(e)
    <3>1. rnd' = rnd
      BY <1>2, <2>3 DEF EpisodeSteps, PlanReadsWiki, PlanMakesWiki, Execute, LastRound, Raises,
         Adjudicate, RecordSuccess, RecordPlan, InsertRow, UpdateRow, FinalReview, BeginLesson,
         ReadForLesson, CapLesson, Empties, WriteLesson, ProposePlan, roundVars
    <3> QED BY <1>1, <2>1, <3>1 DEF Edge, Holding
  <2> QED BY <2>2, <2>3
<1>3. CASE ManagerSteps \/ \E w \in Writer : Killed(w)
  <2>1. rnd' = rnd
    BY <1>3 DEF ManagerSteps, TakeHypothesis, RejectLead, ApproveLead, Empties, WriteLead,
       SettleLead, ResolvePlan, Killed, roundVars
  <2> QED BY <1>1, <1>3, <2>1, OtherEdges
<1> QED BY <1>1, <1>2, <1>3 DEF EpisodeNext, Unjudged

-----------------------------------------------------------------------------
(***************************************************************************)
(* The steps, told apart by what they do to the memory.                    *)
(***************************************************************************)
\* Nothing is written, and nobody gets to where something is about to be.
Quiet ==
    /\ UNCHANGED memVars
    /\ \A w \in Writer :
           \/ stage'[w] = stage[w]
           \/ /\ stage[w] \notin Holding /\ stage'[w] \notin Holding \cup {"promote"}
              /\ stage'[w] = "done" => ~evolves
              /\ stage'[w] \in Learning \cup {"resolve"} => evolves

\* A verdict on a lead, taken out of its queue.
Verdict == \E v \in {"approved", "rejected"} :
    /\ queue' = Resolved(Hypothesis(lead), v) /\ lead' = Old
    /\ stage[Manager] \in {"resolve", "settle"}
    /\ stage' = [stage EXCEPT ![Manager] = "idle"]
    /\ UNCHANGED <<wiki, archived, wikiLock, md, seed, recorded, plans, wiped>>

\* A writer gives the wiki its text.
Writes(w) ==
    /\ stage[w] = "write" /\ WriteWiki(w)
    /\ stage' = [stage EXCEPT ![w] = IF w = Manager THEN "settle"
                                     ELSE IF Confirmed(w) THEN "promote" ELSE "done"]

LEMMA StepsOfMemory ==
    ASSUME IInv, EpisodeNext
    PROVE  \/ Quiet
           \/ \E e \in Episode :
                  \/ PlanMakesWiki(e) \/ (RecordSuccess(e) /\ RecordSkills(e)) \/ RecordPlan(e)
                  \/ BeginLesson(e) \/ ReadForLesson(e) \/ CapLesson(e) \/ ProposePlan(e)
           \/ \E w \in Writer : Empties(w) \/ Writes(w) \/ Killed(w)
           \/ Verdict \/ ApproveLead \/ ResolvePlan
<1>1. stage \in [Writer -> Stages] /\ Manager \in Writer /\ \A e \in Episode : e \in Writer
      /\ Manager \notin Episode
  BY StagesAre, Writers DEF IInv
<1>2. ASSUME NEW e \in Episode, WriteLesson(e) PROVE Writes(e)
  BY <1>1, <1>2 DEF WriteLesson, Writes, Goes
<1>3. WriteLead => Writes(Manager)
  BY DEF WriteLead, Writes, Goes
<1>4. RejectLead \/ SettleLead => Verdict
  BY DEF RejectLead, SettleLead, Verdict, Goes
<1>5. ASSUME NEW e \in Episode, TakeHypothesis(e) PROVE Quiet
  BY <1>5 DEF TakeHypothesis, Quiet, Holding, IInv, FrozenInv
<1>6. ASSUME NEW e \in Episode,
             \/ PlanReadsWiki(e) \/ Execute(e) \/ NextRound(e) \/ LastRound(e) \/ Raises(e)
             \/ Adjudicate(e) \/ InsertRow(e) \/ UpdateRow(e) \/ FinalReview(e)
      PROVE  Quiet
  BY <1>1, <1>6 DEF PlanReadsWiki, Execute, NextRound, LastRound, Raises, Adjudicate, InsertRow,
     UpdateRow, FinalReview, Goes, Quiet, Holding, Learning
<1>7. ASSUME NEW e \in Episode, RecordSuccess(e)
      PROVE  Quiet \/ (RecordSuccess(e) /\ RecordSkills(e))
  <2>1. CASE evolves /\ Confirmed(e)
    <3>1. RecordSkills(e)
      BY <1>7, <2>1 DEF RecordSuccess
    <3> QED BY <1>7, <3>1
  <2>2. CASE ~(evolves /\ Confirmed(e))
    BY <1>1, <1>7 DEF RecordSuccess, Quiet, Goes, Holding, Learning
  <2> QED BY <2>1, <2>2
<1> QED BY <1>1, <1>2, <1>3, <1>4, <1>5, <1>6, <1>7
        DEF EpisodeNext, EpisodeSteps, ManagerSteps

-----------------------------------------------------------------------------
(***************************************************************************)
(* Types, and the caps of the wiki's sections.                             *)
(***************************************************************************)
LEMMA ProposalKept ==
    ASSUME NEW p \in Proposal, NEW v \in {"approved", "rejected"}
    PROVE  /\ [p EXCEPT !.status = v] \in Proposal
           /\ [p EXCEPT !.status = v].kind = p.kind /\ [p EXCEPT !.status = v].of = p.of
BY DEF Proposal

LEMMA HypothesisIs ==
    ASSUME NEW r \in Run
    PROVE  Hypothesis(r) \in Proposal /\ Hypothesis(r).kind = "hypothesis"
           /\ Hypothesis(r).of = r
BY DEF Hypothesis, Proposal, Run

(* A text that is held back, and the wiki it becomes. *)
LEMMA TextKept ==
    ASSUME IInv, EpisodeNext
    PROVE  /\ wiki' \in Page \cup {Missing} /\ (wiki' # Missing => WithinCap(wiki'))
           /\ md' \in [Writer -> Page]
           /\ PageInv'
<1> DEFINE Typed == /\ wiki' \in Page \cup {Missing} /\ (wiki' # Missing => WithinCap(wiki'))
                    /\ md' \in [Writer -> Page]
           Caps(w) ==
             /\ stage'[w] \in {"empty", "write"} => WithinCap(md'[w])
             /\ stage'[w] = "cap" => w \in Episode /\
                    \A s \in Section \ {SectionOf(w)} : Len(md'[w][s]) <= MaxTraces
<1>1. /\ wiki \in Page \cup {Missing} /\ (wiki # Missing => WithinCap(wiki))
      /\ md \in [Writer -> Page]
      /\ Manager \in Writer /\ Manager \notin Episode
      /\ \A e \in Episode : e \in Writer /\ e \in Run
      /\ stage \in [Writer -> Stages]
  BY StagesAre, Writers DEF IInv, MemTypeOK, WithinCap
<1>2. Text \in Page /\ WithinCap(Text) /\ Blank \in Page /\ WithinCap(Blank)
  BY TextPage, BlankPage DEF IInv, EpTypeOK
<1>3. ASSUME \A w \in Writer : Caps(w) PROVE PageInv'
  <2>1. ASSUME NEW e \in Episode, stage'[e] = "cap" PROVE SectionOf(e)' = SectionOf(e)
    BY <2>1, JudgedStays DEF SectionOf, Confirmed, Holding
  <2> QED BY <1>3, <2>1 DEF PageInv
<1>4. ASSUME NEW w \in Writer,
             md'[w] = md[w],
             stage'[w] = stage[w] \/ stage'[w] \notin {"cap", "empty", "write"}
      PROVE  Caps(w)
  BY <1>4 DEF IInv, PageInv
<1>5. CASE Quiet \/ Verdict \/ ResolvePlan
  <2>1. wiki' = wiki /\ md' = md
    BY <1>5 DEF Quiet, memVars, Verdict, ResolvePlan, ResolvePromotion
  <2>2. \A w \in Writer : stage'[w] = stage[w] \/ stage'[w] \notin Holding
    BY <1>1, <1>5 DEF Quiet, Verdict, ResolvePlan, Holding
  <2> QED BY <1>1, <1>3, <1>4, <2>1, <2>2 DEF Holding
<1>6. ASSUME NEW e \in Episode,
             \/ PlanMakesWiki(e) \/ (RecordSuccess(e) /\ RecordSkills(e)) \/ RecordPlan(e)
             \/ BeginLesson(e) \/ ProposePlan(e)
      PROVE  Typed /\ PageInv'
  <2>1. wiki' \in {wiki, Blank} /\ md' = md
    BY <1>6 DEF PlanMakesWiki, WriteTemplate, RecordSkills, RecordPlan, ArchivePlan, BeginLesson,
       ProposePlan, QueuePromotion
  <2>2. \A w \in Writer : stage'[w] = stage[w] \/ stage'[w] \notin {"cap", "empty", "write"}
    BY <1>1, <1>6 DEF PlanMakesWiki, RecordSuccess, RecordPlan, BeginLesson, ProposePlan, Goes
  <2> QED BY <1>1, <1>2, <1>3, <1>4, <2>1, <2>2
<1>7. ASSUME NEW e \in Episode, ReadForLesson(e) PROVE Typed /\ PageInv'
  <2> DEFINE page == Prepended(Text, SectionOf(e), e)
  <2>1. /\ page \in Page
        /\ \A s \in Section \ {SectionOf(e)} : page[s] = Text[s]
    BY <1>1, <1>2, PrependedPage DEF SectionOf, Section
  <2> HIDE DEF page
  <2>2. wiki' = Text /\ md' = [md EXCEPT ![e] = page] /\ stage' = [stage EXCEPT ![e] = "cap"]
    BY <1>7 DEF ReadForLesson, Goes, page
  <2>3. Caps(e)
    BY <1>1, <1>2, <2>1, <2>2 DEF WithinCap
  <2>4. \A w \in Writer : Caps(w)
    BY <1>4, <2>2, <2>3
  <2> QED BY <1>1, <1>2, <1>3, <2>1, <2>2, <2>4
<1>8. ASSUME NEW e \in Episode, CapLesson(e) PROVE Typed /\ PageInv'
  <2> DEFINE page == Capped(md[e], SectionOf(e))
  <2>1. /\ page \in Page /\ Len(page[SectionOf(e)]) <= MaxTraces
        /\ \A s \in Section \ {SectionOf(e)} : page[s] = md[e][s]
    BY <1>1, CappedPage DEF SectionOf, Section
  <2> HIDE DEF page
  <2>2. /\ wiki' = wiki /\ md' = [md EXCEPT ![e] = page]
        /\ stage[e] = "cap" /\ stage' = [stage EXCEPT ![e] = "empty"]
    BY <1>8 DEF CapLesson, ArchiveOverflow, Goes, page
  <2>3. WithinCap(page)
    BY <1>1, <2>1, <2>2 DEF WithinCap, IInv, PageInv
  <2>4. \A w \in Writer : Caps(w)
    BY <1>1, <1>4, <2>2, <2>3
  <2> QED BY <1>1, <1>3, <2>1, <2>2, <2>4
<1>9. ASSUME NEW w \in Writer, Empties(w) PROVE Typed /\ PageInv'
  <2>1. /\ wiki' = Blank /\ md' = md
        /\ stage[w] = "empty" /\ stage' = [stage EXCEPT ![w] = "write"]
    BY <1>9 DEF Empties, EmptyWiki, Goes
  <2>2. Caps(w)
    BY <2>1 DEF IInv, PageInv
  <2>3. \A x \in Writer : Caps(x)
    BY <1>4, <2>1, <2>2
  <2> QED BY <1>1, <1>2, <1>3, <2>1, <2>3
<1>10. ASSUME NEW w \in Writer, Writes(w) PROVE Typed /\ PageInv'
  <2>1. /\ wiki' = md[w] /\ md' = [md EXCEPT ![w] = Blank] /\ stage[w] = "write"
        /\ stage'[w] \notin {"cap", "empty", "write"}
        /\ \A x \in Writer \ {w} : stage'[x] = stage[x]
    BY <1>1, <1>10 DEF Writes, WriteWiki
  <2>2. WithinCap(md[w]) /\ Caps(w)
    BY <2>1 DEF IInv, PageInv
  <2>3. \A x \in Writer : Caps(x)
    BY <1>4, <2>1
  <2> QED BY <1>1, <1>2, <1>3, <2>1, <2>2, <2>3
<1>11. ASSUME NEW w \in Writer, Killed(w) PROVE Typed /\ PageInv'
  <2>1. /\ wiki' = wiki /\ md' = [md EXCEPT ![w] = Blank]
        /\ stage' = [stage EXCEPT ![w] = IF w = Manager THEN "idle" ELSE "lost"]
    BY <1>11 DEF Killed, DieWithLock
  <2>2. Caps(w)
    BY <1>1, <2>1
  <2>3. \A x \in Writer : Caps(x)
    BY <1>4, <2>1, <2>2
  <2> QED BY <1>1, <1>2, <1>3, <2>1, <2>3
<1>12. CASE ApproveLead
  <2> DEFINE page == [Text EXCEPT !.leads = @ \cup {lead}]
  <2>1. lead \in Run
    BY DEF IInv, EpTypeOK
  <2>2. page \in Page /\ \A s \in Section : page[s] = Text[s]
    BY <1>2, <2>1, LeadPage
  <2> HIDE DEF page
  <2>3. /\ wiki' = wiki /\ md' = [md EXCEPT ![Manager] = page]
        /\ stage' = [stage EXCEPT ![Manager] = "empty"]
    BY <1>12 DEF ApproveLead, Goes, page
  <2>4. WithinCap(page)
    BY <1>2, <2>2 DEF WithinCap
  <2>5. \A x \in Writer : Caps(x)
    BY <1>1, <1>4, <2>3, <2>4
  <2> QED BY <1>1, <1>3, <2>2, <2>3, <2>5
<1> QED BY <1>5, <1>6, <1>7, <1>8, <1>9, <1>10, <1>11, <1>12, StepsOfMemory

(* The other files of the memory. *)
LEMMA FilesKept ==
    ASSUME IInv, EpisodeNext
    PROVE  /\ archived' \subseteq Run /\ wikiLock' \in Writer \cup {Free}
           /\ queue' \subseteq Proposal
           /\ seed' \in Run /\ recorded' \subseteq Episode /\ plans' \subseteq Episode
           /\ wiped' \subseteq Run
<1> DEFINE Locked == archived' \subseteq Run /\ wikiLock' \in Writer \cup {Free}
                     /\ wiped' \subseteq Run
           Filed == queue' \subseteq Proposal /\ seed' \in Run
           Journals == recorded' \subseteq Episode /\ plans' \subseteq Episode
<1>1. /\ archived \subseteq Run /\ wikiLock \in Writer \cup {Free} /\ wiped \subseteq Run
      /\ queue \subseteq Proposal /\ seed \in Run
      /\ recorded \subseteq Episode /\ plans \subseteq Episode
      /\ lead \in Run /\ Old \in Run
      /\ Manager \in Writer /\ \A e \in Episode : e \in Writer /\ e \in Run
  BY Writers DEF IInv, EpTypeOK, MemTypeOK, Run
<1>2. \A pg : OnPage(pg) \subseteq Run
  BY DEF OnPage
<1>3. CASE Quiet
  BY <1>1, <1>3 DEF Quiet, memVars
<1>4. ASSUME NEW e \in Episode,
             \/ PlanMakesWiki(e) \/ (RecordSuccess(e) /\ RecordSkills(e)) \/ RecordPlan(e)
      PROVE  Locked /\ Filed /\ Journals
  BY <1>1, <1>2, <1>4 DEF PlanMakesWiki, WriteTemplate, Shown, RecordSkills, RecordPlan,
     ArchivePlan
<1>5. ASSUME NEW e \in Episode, BeginLesson(e) PROVE Locked /\ Filed /\ Journals
  BY <1>1, <1>5, HypothesisIs DEF BeginLesson, TakeLock
<1>6. ASSUME NEW e \in Episode, ReadForLesson(e) \/ CapLesson(e)
      PROVE  Locked /\ Filed /\ Journals
  BY <1>1, <1>2, <1>6 DEF ReadForLesson, CapLesson, ArchiveOverflow
<1>7. ASSUME NEW e \in Episode, ProposePlan(e) PROVE Locked /\ Filed /\ Journals
  <2>1. PICK k \in {"plan", "record"} : QueuePromotion(e, k)
    BY <1>7 DEF ProposePlan
  <2>2. [kind |-> k, of |-> e, prior |-> seed, status |-> "pending"] \in Proposal
    BY <1>1 DEF Proposal
  <2> QED BY <1>1, <2>1, <2>2 DEF QueuePromotion
<1>8. ASSUME NEW w \in Writer, Empties(w) \/ Writes(w) \/ Killed(w)
      PROVE  Locked /\ Filed /\ Journals
  BY <1>1, <1>2, <1>8 DEF Empties, EmptyWiki, Writes, WriteWiki, Killed, DieWithLock
<1>9. CASE Verdict
  <2>1. PICK v \in {"approved", "rejected"} :
            /\ queue' = Resolved(Hypothesis(lead), v)
            /\ UNCHANGED <<archived, wikiLock, seed, recorded, plans, wiped>>
    BY <1>9 DEF Verdict
  <2>2. Hypothesis(lead) \in Proposal
    BY <1>1, HypothesisIs
  <2>3. [Hypothesis(lead) EXCEPT !.status = v] \in Proposal
    BY <2>2, ProposalKept
  <2>4. queue' \subseteq Proposal
    BY <1>1, <2>1, <2>3 DEF Resolved
  <2> QED BY <1>1, <2>1, <2>4
<1>10. CASE ApproveLead
  BY <1>1, <1>10 DEF ApproveLead, TakeLock
<1>11. CASE ResolvePlan
  <2>1. PICK p \in queue : ResolvePromotion(p)
    BY <1>11 DEF ResolvePlan
  <2>2. p \in Proposal /\ p.of \in Run
    BY <1>1 DEF Proposal
  <2> QED BY <1>1, <2>1, <2>2, ProposalKept DEF ResolvePromotion, Resolved
<1> QED BY <1>3, <1>4, <1>5, <1>6, <1>7, <1>8, <1>9, <1>10, <1>11, StepsOfMemory

(* The rounds of an episode. *)
LEMMA RoundsKept ==
    ASSUME IInv, EpisodeNext
    PROVE  /\ rnd' \in [Episode -> 1 .. MaxRounds]
           /\ left' \in [Episode -> Int] /\ calls' \in [Episode -> Nat]
           /\ claim' \in [Episode -> BOOLEAN]
           /\ row' \in [Episode -> {"none", "running", "success", "failed"}]
           /\ lead' \in Run /\ kills' \in 0 .. MaxKills
           /\ evolves' = evolves /\ simulated' = simulated
<1> DEFINE Rounds == rnd' \in [Episode -> 1 .. MaxRounds] /\ claim' \in [Episode -> BOOLEAN]
                     /\ left' \in [Episode -> Int] /\ calls' \in [Episode -> Nat]
           Report == row' \in [Episode -> {"none", "running", "success", "failed"}]
                     /\ lead' \in Run /\ kills' \in 0 .. MaxKills
           Modes == evolves' = evolves /\ simulated' = simulated
<1>1. /\ rnd \in [Episode -> 1 .. MaxRounds] /\ claim \in [Episode -> BOOLEAN]
      /\ left \in [Episode -> Int] /\ calls \in [Episode -> Nat]
      /\ row \in [Episode -> {"none", "running", "success", "failed"}]
      /\ lead \in Run /\ kills \in 0 .. MaxKills
      /\ Old \in Run /\ \A e \in Episode : e \in Run
  BY DEF IInv, EpTypeOK, Run
<1>2. /\ MaxRounds \in Nat \ {0} /\ ToolBudget \in Nat \ {0} /\ RoundBudget \in Nat \ {0}
      /\ ContinueAt \in Nat \ {0} /\ CallsPerTurn \in Nat \ {0} /\ MaxKills \in Nat
  BY AtomicEpisodeAssumption
<1>3. ASSUME NEW e \in Episode, Execute(e) PROVE Rounds /\ Report /\ Modes
  <2>1. PICK n \in 0 .. CallsPerTurn * Turns(e), said \in BOOLEAN :
            /\ calls' = [calls EXCEPT ![e] = @ + n]
            /\ left' = [left EXCEPT ![e] = @ - (IF n = 0 THEN 1 ELSE n)]
            /\ claim' = [claim EXCEPT ![e] = said]
    BY <1>3 DEF Execute
  <2>2. n \in Nat
    OBVIOUS
  <2>3. rnd' = rnd /\ Report /\ Modes
    BY <1>1, <1>3 DEF Execute, modeVars, outcomeVars
  <2>4. calls' \in [Episode -> Nat] /\ left' \in [Episode -> Int]
    BY <1>1, <2>1
  <2>5. claim' \in [Episode -> BOOLEAN]
    BY <1>1, <2>1
  <2> QED BY <1>1, <2>3, <2>4, <2>5
<1>4. ASSUME NEW e \in Episode, NextRound(e) PROVE Rounds /\ Report /\ Modes
  <2>1. rnd' = [rnd EXCEPT ![e] = @ + 1] /\ rnd[e] < MaxRounds
        /\ UNCHANGED <<modeVars, left, calls, claim, outcomeVars>>
    BY <1>4 DEF NextRound, CanContinue
  <2>2. rnd' \in [Episode -> 1 .. MaxRounds]
    BY <1>1, <1>2, <2>1
  <2> QED BY <1>1, <2>1, <2>2 DEF modeVars, outcomeVars
<1>5. ASSUME NEW e \in Episode, Adjudicate(e) PROVE Rounds /\ Report /\ Modes
  <2>1. /\ left' = [left EXCEPT ![e] = ToolBudget] /\ calls' = [calls EXCEPT ![e] = 0]
        /\ claim' = [claim EXCEPT ![e] = FALSE]
        /\ UNCHANGED <<modeVars, rnd, row, lead, kills>>
    BY <1>5 DEF Adjudicate
  <2>2. left' \in [Episode -> Int] /\ calls' \in [Episode -> Nat]
    BY <1>1, <1>2, <2>1
  <2>3. claim' \in [Episode -> BOOLEAN]
    BY <1>1, <2>1
  <2> QED BY <1>1, <2>1, <2>2, <2>3 DEF modeVars
<1>6. ASSUME NEW e \in Episode, InsertRow(e) \/ UpdateRow(e) PROVE Rounds /\ Report /\ Modes
  BY <1>1, <1>6 DEF InsertRow, UpdateRow, modeVars, roundVars
<1>7. ASSUME NEW e \in Episode,
             \/ PlanReadsWiki(e) \/ PlanMakesWiki(e) \/ LastRound(e) \/ Raises(e)
             \/ RecordSuccess(e) \/ RecordPlan(e) \/ FinalReview(e) \/ BeginLesson(e)
             \/ ReadForLesson(e) \/ CapLesson(e) \/ Empties(e) \/ WriteLesson(e)
             \/ ProposePlan(e)
      PROVE  Rounds /\ Report /\ Modes
  <2>1. UNCHANGED <<modeVars, roundVars, outcomeVars>>
    BY <1>7 DEF PlanReadsWiki, PlanMakesWiki, LastRound, Raises, RecordSuccess, RecordPlan,
       FinalReview, BeginLesson, ReadForLesson, CapLesson, Empties, WriteLesson, ProposePlan
  <2> QED BY <1>1, <2>1 DEF modeVars, roundVars, outcomeVars
<1>8. CASE ManagerSteps
  <2>1. UNCHANGED <<modeVars, roundVars, row, kills>> /\ lead' \in Episode \cup {lead, Old}
    BY <1>8 DEF ManagerSteps, TakeHypothesis, RejectLead, ApproveLead, Empties, WriteLead,
       SettleLead, ResolvePlan, outcomeVars
  <2> QED BY <1>1, <2>1 DEF modeVars, roundVars
<1>9. ASSUME NEW w \in Writer, Killed(w) PROVE Rounds /\ Report /\ Modes
  <2>1. UNCHANGED <<modeVars, roundVars, row>> /\ lead' \in {lead, Old}
        /\ kills' = kills + 1 /\ kills < MaxKills
    BY <1>9 DEF Killed
  <2> QED BY <1>1, <1>2, <2>1 DEF modeVars, roundVars
<1> QED BY <1>3, <1>4, <1>5, <1>6, <1>7, <1>8, <1>9 DEF EpisodeNext, EpisodeSteps

LEMMA TypesKept == ASSUME IInv, EpisodeNext PROVE EpTypeOK'
<1>1. stage' \in [Writer -> Stages]
  BY EpisodeEdges, OtherEdges DEF EpisodeNext
<1>2. MemTypeOK'
  BY TextKept, FilesKept DEF MemTypeOK, WithinCap
<1>3. evolves' \in BOOLEAN /\ simulated' \in BOOLEAN
  <2>1. evolves \in BOOLEAN /\ simulated \in BOOLEAN
    BY DEF IInv, EpTypeOK
  <2>2. evolves' = evolves /\ simulated' = simulated
    BY RoundsKept
  <2> QED BY <2>1, <2>2
<1>4. result' \in [Episode -> Result]
  BY JudgedStays
<1>5. /\ rnd' \in [Episode -> 1 .. MaxRounds]
      /\ left' \in [Episode -> Int] /\ calls' \in [Episode -> Nat]
      /\ claim' \in [Episode -> BOOLEAN]
      /\ row' \in [Episode -> {"none", "running", "success", "failed"}]
      /\ lead' \in Run /\ kills' \in 0 .. MaxKills
  BY RoundsKept
<1>6. Stages = Ended \cup {"plan", "template", "engineer", "review",
           "adjudicate", "record", "archive", "insert", "update", "final", "learn",
           "read", "cap", "empty", "write", "promote", "idle", "resolve", "settle"}
  BY DEF Stages, Unjudged, Learning
<1> QED BY <1>1, <1>2, <1>3, <1>4, <1>5, <1>6 DEF EpTypeOK

-----------------------------------------------------------------------------
(***************************************************************************)
(* The budget.                                                             *)
(***************************************************************************)
(* What a round may take of what is left. *)
LEMMA TurnsTaken ==
    ASSUME NEW c \in Nat \ {0}, NEW b \in Nat, NEW t \in Nat, t <= b, NEW n \in 0 .. c * t
    PROVE  n \in Nat /\ n - t <= (c - 1) * b
<1>1. c * t = (c - 1) * t + t
  OBVIOUS
<1>2. (c - 1) * t <= (c - 1) * b
  <2>1. b - t \in Nat /\ c - 1 \in Nat
    OBVIOUS
  <2>2. (c - 1) * (b - t) \in Nat
    BY <2>1
  <2>3. (c - 1) * (b - t) = (c - 1) * b - (c - 1) * t
    OBVIOUS
  <2> QED BY <2>2, <2>3
<1>3. c * t \in Int /\ (c - 1) * t \in Int /\ (c - 1) * b \in Int
  OBVIOUS
<1> QED BY <1>1, <1>2, <1>3

LEMMA BudgetKept ==
    ASSUME IInv, EpisodeNext
    PROVE  SpentInv' /\ BudgetIsShared'
<1>1. /\ left \in [Episode -> Int] /\ calls \in [Episode -> Nat] /\ rnd \in [Episode -> 1 .. MaxRounds]
      /\ stage \in [Writer -> Stages] /\ \A e \in Episode : e \in Writer
      /\ \A e \in Episode : calls[e] + left[e] <= ToolBudget
      /\ \A e \in Episode : stage[e] \in Executing => left[e] >= 1
      /\ \A e \in Episode : calls[e] <= ToolBudget + (CallsPerTurn - 1) * RoundBudget
  BY StagesAre, Writers DEF IInv, SpentInv, BudgetIsShared
<1>2. /\ ToolBudget \in Nat \ {0} /\ RoundBudget \in Nat \ {0}
      /\ ContinueAt \in Nat \ {0} /\ CallsPerTurn \in Nat \ {0}
  BY AtomicEpisodeAssumption
<1> DEFINE Extra == (CallsPerTurn - 1) * RoundBudget
           Spent(e) == /\ calls'[e] + left'[e] <= ToolBudget
                       /\ stage'[e] \in Executing => left'[e] >= 1
                       /\ calls'[e] <= ToolBudget + Extra
<1>3. Extra \in Nat
  BY <1>2
<1>4. ASSUME \A e \in Episode : Spent(e) PROVE SpentInv' /\ BudgetIsShared'
  BY <1>4 DEF SpentInv, BudgetIsShared
<1>5. ASSUME NEW e \in Episode,
             calls'[e] = calls[e], left'[e] = left[e],
             stage'[e] \in Executing => stage[e] \in Executing
      PROVE  Spent(e)
  BY <1>1, <1>5
<1> HIDE DEF Extra, Spent
<1>6. ASSUME NEW e \in Episode, EpisodeSteps(e) PROVE \A x \in Episode : Spent(x)
  <2>1. Edge(e, stage'[e]) /\ \A x \in Episode : x # e => stage'[x] = stage[x]
    BY <1>1, <1>6, EpisodeEdges
  <2>2. CASE Execute(e)
    <3>1. PICK n \in 0 .. CallsPerTurn * Turns(e) :
              /\ calls' = [calls EXCEPT ![e] = @ + n]
              /\ left' = [left EXCEPT ![e] = @ - (IF n = 0 THEN 1 ELSE n)]
      BY <2>2 DEF Execute
    <3>2. stage[e] = "engineer" /\ stage'[e] = "review"
      BY <1>1, <2>2 DEF Execute, Goes
    <3>3. left[e] \in Nat /\ Turns(e) \in Nat /\ Turns(e) <= RoundBudget /\ Turns(e) <= left[e]
      BY <1>1, <1>2 DEF Turns, Least
    <3>4. n \in Nat /\ n - Turns(e) <= Extra
      BY <1>2, <3>3 DEF Extra
    <3>5. calls'[e] = calls[e] + n /\ left'[e] = left[e] - (IF n = 0 THEN 1 ELSE n)
      BY <1>1, <3>1
    <3>6. calls[e] \in Nat /\ calls[e] + left[e] <= ToolBudget
      BY <1>1
    <3>7. Spent(e)
      <4>1. calls'[e] + left'[e] <= ToolBudget
        BY <1>2, <3>3, <3>5, <3>6
      <4>2. calls'[e] <= ToolBudget + Extra
        BY <1>2, <1>3, <3>3, <3>4, <3>5, <3>6
      <4> QED BY <3>2, <4>1, <4>2 DEF Spent, Executing
    <3>8. ASSUME NEW x \in Episode, x # e PROVE Spent(x)
      BY <1>5, <2>1, <3>1, <3>8
    <3> QED BY <3>7, <3>8
  <2>3. CASE NextRound(e)
    <3>1. left' = left /\ calls' = calls /\ left[e] >= ContinueAt
      BY <2>3 DEF NextRound, CanContinue
    <3>2. Spent(e)
      <4>1. calls[e] + left[e] <= ToolBudget /\ calls[e] <= ToolBudget + Extra
        BY <1>1 DEF Extra
      <4>2. left[e] >= 1
        BY <1>1, <1>2, <3>1
      <4> QED BY <3>1, <4>1, <4>2 DEF Spent
    <3>3. ASSUME NEW x \in Episode, x # e PROVE Spent(x)
      BY <1>5, <2>1, <3>1, <3>3
    <3> QED BY <3>2, <3>3
  <2>4. CASE Adjudicate(e)
    <3>1. /\ left' = [left EXCEPT ![e] = ToolBudget] /\ calls' = [calls EXCEPT ![e] = 0]
          /\ stage'[e] = "record"
      BY <1>1, <2>4 DEF Adjudicate, Goes
    <3>2. Spent(e)
      <4>1. left'[e] = ToolBudget /\ calls'[e] = 0
        BY <1>1, <3>1
      <4> QED BY <1>2, <1>3, <3>1, <4>1 DEF Spent
    <3>3. ASSUME NEW x \in Episode, x # e PROVE Spent(x)
      BY <1>5, <2>1, <3>1, <3>3
    <3> QED BY <3>2, <3>3
  <2>5. CASE ~(Execute(e) \/ NextRound(e) \/ Adjudicate(e))
    <3>1. left' = left /\ calls' = calls
      BY <1>6, <2>5 DEF EpisodeSteps, PlanReadsWiki, PlanMakesWiki, LastRound, Raises,
         RecordSuccess, RecordPlan, InsertRow, UpdateRow, FinalReview, BeginLesson,
         ReadForLesson, CapLesson, Empties, WriteLesson, ProposePlan, roundVars
    <3>2. stage'[e] \in Executing => stage[e] \in Executing
      <4>1. CASE PlanReadsWiki(e) \/ PlanMakesWiki(e)
        BY <4>1 DEF PlanReadsWiki, PlanMakesWiki, Goes, Executing
      <4>2. CASE ~(PlanReadsWiki(e) \/ PlanMakesWiki(e))
        <5>1. \/ LastRound(e) \/ Raises(e) \/ RecordSuccess(e) \/ RecordPlan(e)
              \/ InsertRow(e) \/ UpdateRow(e) \/ FinalReview(e) \/ BeginLesson(e)
              \/ ReadForLesson(e) \/ CapLesson(e) \/ Empties(e) \/ WriteLesson(e)
              \/ ProposePlan(e)
          BY <1>6, <2>5, <4>2 DEF EpisodeSteps
        <5> QED BY <1>1, <5>1 DEF LastRound, Raises, RecordSuccess, RecordPlan, InsertRow,
               UpdateRow, FinalReview, BeginLesson, ReadForLesson, CapLesson, Empties,
               WriteLesson, ProposePlan, Goes, Executing
      <4> QED BY <4>1, <4>2
    <3> QED BY <1>5, <2>1, <3>1, <3>2
  <2> QED BY <2>2, <2>3, <2>4, <2>5
<1>7. CASE ManagerSteps \/ \E w \in Writer : Killed(w)
  <2>1. left' = left /\ calls' = calls
    BY <1>7 DEF ManagerSteps, TakeHypothesis, RejectLead, ApproveLead, Empties, WriteLead,
       SettleLead, ResolvePlan, Killed, roundVars
  <2>2. \A e \in Episode : stage'[e] = stage[e] \/ stage'[e] = "lost"
    BY <1>7, OtherEdges
  <2>3. ASSUME NEW e \in Episode PROVE Spent(e)
    <3>1. stage'[e] \in Executing => stage[e] \in Executing
      BY <2>2 DEF Executing
    <3> QED BY <1>5, <2>1, <3>1
  <2> QED BY <1>4, <2>3
<1> QED BY <1>4, <1>6, <1>7 DEF EpisodeNext

-----------------------------------------------------------------------------
(***************************************************************************)
(* What the memory says of a run.                                          *)
(***************************************************************************)
(* A text that fits the outcomes fits the later ones too. *)
LEMMA FitsStays ==
    ASSUME IInv, EpisodeNext, NEW pg, Fits(result, pg)
    PROVE  Fits(result', pg)
<1>1. \A e \in Episode : result[e] # "none" => result'[e] = result[e]
  BY JudgedStays
<1> QED BY <1>1 DEF Fits, Failed

\* What is said of a run elsewhere than in a text.
TextsFit == /\ wiki # Missing => Fits(result, wiki)
            /\ \A w \in Writer : Fits(result, md[w])

ProposalFits(p) == p.of \in Episode =>
    /\ p.kind = "hypothesis" => result[p.of] \in Failed
    /\ p.kind \in {"plan", "record"} => result[p.of] = "success"
    /\ p.kind = "plan" => rnd[p.of] = 1

RestFits ==
    /\ \A p \in queue : ProposalFits(p)
    /\ seed \in Episode => result[seed] = "success"
    /\ \A e \in recorded : result[e] = "success"
    /\ \A e \in plans : result[e] = "success" /\ rnd[e] = 1
    /\ lead \in Episode => result[lead] \in Failed

LEMMA FitParts == FitInv <=> TextsFit /\ RestFits
BY DEF FitInv, TextsFit, RestFits, ProposalFits

LEMMA TextsFitKept == ASSUME IInv, EpisodeNext PROVE TextsFit'
<1>1. /\ wiki \in Page \cup {Missing} /\ md \in [Writer -> Page]
      /\ wiki # Missing => Fits(result, wiki)
      /\ \A w \in Writer : Fits(result, md[w])
      /\ Manager \in Writer /\ \A e \in Episode : e \in Writer /\ e \in Run
  BY FitParts, Writers DEF IInv, EpTypeOK, MemTypeOK, TextsFit
<1>2. Text \in Page /\ Fits(result, Text) /\ Fits(result, Blank)
  <2>1. Text \in Page
    BY TextPage DEF IInv, EpTypeOK
  <2> QED BY <1>1, <2>1, BlankPage DEF Text
<1>3. ASSUME wiki' # Missing => Fits(result, wiki'), \A w \in Writer : Fits(result, md'[w])
      PROVE  TextsFit'
  <2>1. wiki' # Missing => Fits(result', wiki')
    BY <1>3, FitsStays
  <2>2. \A w \in Writer : Fits(result', md'[w])
    BY <1>3, FitsStays
  <2> QED BY <2>1, <2>2 DEF TextsFit
<1>4. CASE wiki' \in {wiki, Blank} /\ md' = md
  BY <1>1, <1>2, <1>3, <1>4
<1>5. CASE Quiet \/ Verdict \/ ResolvePlan
  BY <1>4, <1>5 DEF Quiet, memVars, Verdict, ResolvePlan, ResolvePromotion
<1>6. ASSUME NEW e \in Episode,
             \/ PlanMakesWiki(e) \/ (RecordSuccess(e) /\ RecordSkills(e)) \/ RecordPlan(e)
             \/ BeginLesson(e) \/ ProposePlan(e)
      PROVE  TextsFit'
  BY <1>4, <1>6 DEF PlanMakesWiki, WriteTemplate, RecordSkills, RecordPlan, ArchivePlan,
     BeginLesson, ProposePlan, QueuePromotion
<1>7. ASSUME NEW e \in Episode, ReadForLesson(e) PROVE TextsFit'
  <2> DEFINE page == Prepended(Text, SectionOf(e), e)
  <2>1. wiki' = Text /\ md' = [md EXCEPT ![e] = page] /\ stage[e] = "read"
    BY <1>7 DEF ReadForLesson, Goes
  <2>2. /\ Listed(page, SectionOf(e)) = Listed(Text, SectionOf(e)) \cup {e}
        /\ \A s \in Section \ {SectionOf(e)} : Listed(page, s) = Listed(Text, s)
        /\ page.leads = Text.leads
    BY <1>1, <1>2, PrependedPage DEF SectionOf, Section
  <2>3. result[e] \in Result \ {"none"}
    BY <2>1 DEF IInv, StageInv, EpTypeOK, Unjudged
  <2>4. SectionOf(e) = IF result[e] = "success" THEN "success" ELSE "failure"
    BY DEF SectionOf, Confirmed
  <2> HIDE DEF page
  <2>5. Fits(result, page)
    <3>1. CASE result[e] = "success"
      BY <1>2, <2>2, <2>4, <3>1 DEF Fits, Section
    <3>2. CASE result[e] # "success"
      <4>1. result[e] \in Failed
        BY <2>3, <3>2 DEF Result, Failed
      <4> QED BY <1>2, <2>2, <2>4, <3>2, <4>1 DEF Fits, Section
    <3> QED BY <3>1, <3>2
  <2> QED BY <1>1, <1>2, <1>3, <2>1, <2>5
<1>8. ASSUME NEW e \in Episode, CapLesson(e) PROVE TextsFit'
  <2> DEFINE page == Capped(md[e], SectionOf(e))
  <2>1. wiki' = wiki /\ md' = [md EXCEPT ![e] = page]
    BY <1>8 DEF CapLesson, ArchiveOverflow
  <2>2. /\ \A s \in Section : Listed(page, s) \subseteq Listed(md[e], s)
        /\ page.leads = md[e].leads
    BY <1>1, CappedPage DEF SectionOf, Section
  <2> HIDE DEF page
  <2>3. Fits(result, page)
    BY <1>1, <2>2 DEF Fits, Section
  <2> QED BY <1>1, <1>3, <2>1, <2>3
<1>9. ASSUME NEW w \in Writer, Empties(w) PROVE TextsFit'
  BY <1>4, <1>9 DEF Empties, EmptyWiki
<1>10. ASSUME NEW w \in Writer, Writes(w) PROVE TextsFit'
  BY <1>1, <1>2, <1>3, <1>10 DEF Writes, WriteWiki
<1>11. ASSUME NEW w \in Writer, Killed(w) PROVE TextsFit'
  BY <1>1, <1>2, <1>3, <1>11 DEF Killed, DieWithLock
<1>12. CASE ApproveLead
  <2> DEFINE page == [Text EXCEPT !.leads = @ \cup {lead}]
  <2>1. lead \in Run /\ (lead \in Episode => result[lead] \in Failed)
    BY FitParts DEF IInv, EpTypeOK, RestFits
  <2>2. /\ \A s \in Section : page[s] = Text[s]
        /\ page.leads = Text.leads \cup {lead}
    BY <1>2, <2>1, LeadPage
  <2>3. wiki' = wiki /\ md' = [md EXCEPT ![Manager] = page]
    BY <1>12 DEF ApproveLead
  <2> HIDE DEF page
  <2>4. Fits(result, page)
    BY <1>2, <2>1, <2>2 DEF Fits, Listed, Section
  <2> QED BY <1>1, <1>3, <2>3, <2>4
<1> QED BY <1>5, <1>6, <1>7, <1>8, <1>9, <1>10, <1>11, <1>12, StepsOfMemory

(* What fits a judged run does not change any more. *)
LEMMA ProposalFitsStays ==
    ASSUME IInv, EpisodeNext, NEW p \in Proposal, ProposalFits(p)
    PROVE  ProposalFits(p)'
<1>1. \A e \in Episode : result[e] # "none" => result'[e] = result[e] /\ rnd'[e] = rnd[e]
  BY JudgedStays
<1>2. p.kind \in {"hypothesis", "plan", "record"}
  BY DEF Proposal
<1> QED BY <1>1, <1>2 DEF ProposalFits, Failed

LEMMA RestFitsKept == ASSUME IInv, EpisodeNext PROVE RestFits'
<1>1. /\ queue \subseteq Proposal /\ \A p \in queue : ProposalFits(p)
      /\ recorded \subseteq Episode /\ plans \subseteq Episode /\ lead \in Run
      /\ seed \in Episode => result[seed] = "success"
      /\ \A e \in recorded : result[e] = "success"
      /\ \A e \in plans : result[e] = "success" /\ rnd[e] = 1
      /\ lead \in Episode => result[lead] \in Failed
      /\ Old \notin Episode
  BY FitParts, Writers DEF IInv, EpTypeOK, MemTypeOK, RestFits
<1>2. \A e \in Episode : result[e] # "none" => result'[e] = result[e] /\ rnd'[e] = rnd[e]
  BY JudgedStays
<1>3. ASSUME queue' \subseteq Proposal, \A p \in queue' : ProposalFits(p),
             seed' \in Episode => result[seed'] = "success",
             recorded' \subseteq Episode, \A e \in recorded' : result[e] = "success",
             plans' \subseteq Episode, \A e \in plans' : result[e] = "success" /\ rnd[e] = 1,
             lead' \in Episode => result[lead'] \in Failed
      PROVE  RestFits'
  <2>1. \A p \in queue' : ProposalFits(p)'
    BY <1>3, ProposalFitsStays
  <2>2. lead' \in Episode => result'[lead'] \in Failed
    BY <1>2, <1>3 DEF Failed
  <2> QED BY <1>2, <1>3, <2>1, <2>2 DEF RestFits
<1>4. lead' \in Episode => result[lead'] \in Failed
  <2>1. CASE \E e \in Episode : TakeHypothesis(e)
    <3>1. PICK e \in Episode : lead' = e /\ Hypothesis(e) \in queue
      BY <2>1 DEF TakeHypothesis
    <3>2. Hypothesis(e).kind = "hypothesis" /\ Hypothesis(e).of = e
      BY Writers, HypothesisIs
    <3> QED BY <1>1, <3>1, <3>2 DEF ProposalFits
  <2>2. CASE ~\E e \in Episode : TakeHypothesis(e)
    <3>1. lead' \in {lead, Old}
      <4>1. CASE \E e \in Episode : EpisodeSteps(e)
        BY <4>1 DEF EpisodeSteps, PlanReadsWiki, PlanMakesWiki, Execute, NextRound, LastRound,
           Raises, Adjudicate, RecordSuccess, RecordPlan, InsertRow, UpdateRow, FinalReview,
           BeginLesson, ReadForLesson, CapLesson, Empties, WriteLesson, ProposePlan,
           outcomeVars
      <4>2. CASE ManagerSteps
        BY <2>2, <4>2 DEF ManagerSteps, RejectLead, ApproveLead, Empties, WriteLead,
           SettleLead, ResolvePlan, outcomeVars
      <4>3. CASE \E w \in Writer : Killed(w)
        BY <4>3 DEF Killed
      <4> QED BY <4>1, <4>2, <4>3 DEF EpisodeNext
    <3> QED BY <1>1, <3>1
  <2> QED BY <2>1, <2>2
<1>5. CASE UNCHANGED <<queue, seed, recorded, plans>>
  BY <1>1, <1>3, <1>4, <1>5
<1>6. CASE Quiet \/ ApproveLead
  BY <1>5, <1>6 DEF Quiet, memVars, ApproveLead
<1>7. ASSUME NEW e \in Episode,
             PlanMakesWiki(e) \/ ReadForLesson(e) \/ CapLesson(e)
      PROVE  RestFits'
  BY <1>5, <1>7 DEF PlanMakesWiki, WriteTemplate, ReadForLesson, CapLesson, ArchiveOverflow
<1>8. ASSUME NEW w \in Writer, Empties(w) \/ Writes(w) \/ Killed(w) PROVE RestFits'
  BY <1>5, <1>8 DEF Empties, EmptyWiki, Writes, WriteWiki, Killed, DieWithLock
<1>9. ASSUME NEW e \in Episode, RecordSuccess(e), RecordSkills(e) PROVE RestFits'
  <2>1. recorded' = recorded \cup {e} /\ UNCHANGED <<queue, seed, plans>>
    BY <1>9 DEF RecordSkills
  <2>2. e \in recorded \/ result[e] = "success"
    BY <1>9, <2>1 DEF RecordSuccess, Confirmed, memVars
  <2> QED BY <1>1, <1>3, <1>4, <2>1, <2>2
<1>10. ASSUME NEW e \in Episode, RecordPlan(e) PROVE RestFits'
  <2>1. /\ plans' = IF rnd[e] = 1 THEN plans \cup {e} ELSE plans
        /\ UNCHANGED <<queue, seed, recorded>> /\ stage[e] = "archive"
    BY <1>10 DEF RecordPlan, ArchivePlan, Goes
  <2>2. result[e] = "success"
    BY <2>1 DEF IInv, StageInv
  <2> QED BY <1>1, <1>3, <1>4, <2>1, <2>2
<1>11. ASSUME NEW e \in Episode, BeginLesson(e) PROVE RestFits'
  <2>1. /\ queue' = IF Confirmed(e) THEN queue ELSE queue \cup {Hypothesis(e)}
        /\ UNCHANGED <<seed, recorded, plans>> /\ stage[e] = "learn"
    BY <1>11 DEF BeginLesson, Goes
  <2>2. result[e] \in Result \ {"none"}
    BY <2>1 DEF IInv, StageInv, EpTypeOK, Unjudged
  <2>3. ~Confirmed(e) => result[e] \in Failed
    BY <2>2 DEF Confirmed, Result, Failed
  <2>4. Hypothesis(e) \in Proposal /\ Hypothesis(e).kind = "hypothesis" /\ Hypothesis(e).of = e
    BY Writers, HypothesisIs
  <2>5. ~Confirmed(e) => ProposalFits(Hypothesis(e))
    BY <2>3, <2>4 DEF ProposalFits
  <2> QED BY <1>1, <1>3, <1>4, <2>1, <2>4, <2>5
<1>12. ASSUME NEW e \in Episode, ProposePlan(e) PROVE RestFits'
  <2> DEFINE k == IF rnd[e] = 1 THEN "plan" ELSE "record"
             p == [kind |-> k, of |-> e, prior |-> seed, status |-> "pending"]
  <2>1. queue' \in {queue, queue \cup {p}} /\ UNCHANGED <<seed, recorded, plans>>
        /\ stage[e] = "promote"
    BY <1>12 DEF ProposePlan, QueuePromotion, Goes
  <2>2. result[e] = "success"
    BY <2>1 DEF IInv, StageInv
  <2>3. p \in Proposal /\ p.kind = k /\ p.of = e
    BY Writers DEF Proposal, IInv, EpTypeOK, MemTypeOK
  <2>4. k \in {"plan", "record"} /\ (k = "plan" => rnd[e] = 1)
    OBVIOUS
  <2> HIDE DEF k, p
  <2>5. ProposalFits(p)
    BY <2>2, <2>3, <2>4 DEF ProposalFits
  <2> QED BY <1>1, <1>3, <1>4, <2>1, <2>3, <2>5
<1>13. CASE Verdict
  <2>1. PICK v \in {"approved", "rejected"} :
            queue' = Resolved(Hypothesis(lead), v) /\ UNCHANGED <<seed, recorded, plans>>
    BY <1>13 DEF Verdict
  <2> DEFINE p == [Hypothesis(lead) EXCEPT !.status = v]
  <2>2. /\ Hypothesis(lead) \in Proposal /\ Hypothesis(lead).kind = "hypothesis"
        /\ Hypothesis(lead).of = lead
    BY <1>1, HypothesisIs
  <2>3. p \in Proposal /\ p.kind = "hypothesis" /\ p.of = lead
    BY <2>2, ProposalKept
  <2>4. queue' \subseteq queue \cup {p}
    BY <2>1 DEF Resolved
  <2> HIDE DEF p
  <2>5. ProposalFits(p)
    BY <1>1, <2>3 DEF ProposalFits
  <2> QED BY <1>1, <1>3, <1>4, <2>1, <2>3, <2>4, <2>5
<1>14. CASE ResolvePlan
  <2>1. PICK q \in queue : ResolvePromotion(q)
    BY <1>14 DEF ResolvePlan
  <2>2. PICK v \in {"approved", "rejected"} :
            queue' = Resolved(q, v) /\ seed' \in {seed, q.of}
    BY <2>1 DEF ResolvePromotion
  <2>3. q \in Proposal /\ q.kind \in {"plan", "record"} /\ UNCHANGED <<recorded, plans>>
    BY <1>1, <2>1 DEF ResolvePromotion
  <2> DEFINE p == [q EXCEPT !.status = v]
  <2>4. p \in Proposal /\ p.kind = q.kind /\ p.of = q.of
    BY <2>3, ProposalKept
  <2>5. queue' \subseteq queue \cup {p}
    BY <2>2 DEF Resolved
  <2> HIDE DEF p
  <2>6. ProposalFits(p)
    BY <1>1, <2>4 DEF ProposalFits
  <2>7. seed' \in Episode => result[seed'] = "success"
    BY <1>1, <2>2, <2>3 DEF ProposalFits
  <2> QED BY <1>1, <1>3, <1>4, <2>3, <2>4, <2>5, <2>6, <2>7
<1> QED BY <1>6, <1>7, <1>8, <1>9, <1>10, <1>11, <1>12, <1>13, <1>14, StepsOfMemory

-----------------------------------------------------------------------------
(***************************************************************************)
(* A frozen memory, and the traces.                                        *)
(***************************************************************************)
LEMMA FrozenKept ==
    ASSUME IInv, EpisodeNext
    PROVE  FrozenInv' /\ (~evolves => UNCHANGED memVars)
<1>1. /\ stage \in [Writer -> Stages] /\ Manager \in Writer /\ \A e \in Episode : e \in Writer
      /\ evolves' = evolves
  BY StagesAre, Writers, RoundsKept DEF IInv
<1>2. SUFFICES ASSUME ~evolves PROVE FrozenInv' /\ UNCHANGED memVars
  <2>1. CASE evolves
    BY <1>1 DEF FrozenInv
  <2> QED BY <1>2, <2>1
<1>3. /\ queue = {} /\ stage[Manager] = "idle" /\ \A e \in Episode : stage[e] \notin Learning
  BY <1>2 DEF IInv, FrozenInv
<1>4. \A w \in Writer : stage[w] \notin Learning
  BY <1>3 DEF Writer, Learning
<1>5. Quiet
  <2>1. ASSUME NEW e \in Episode, RecordSuccess(e), RecordSkills(e) PROVE Quiet
    BY <1>1, <1>2, <2>1 DEF RecordSuccess, Quiet, Goes, Holding, Learning
  <2>2. ASSUME NEW e \in Episode
        PROVE  ~(\/ PlanMakesWiki(e) \/ RecordPlan(e) \/ BeginLesson(e) \/ ReadForLesson(e)
                 \/ CapLesson(e) \/ ProposePlan(e))
    BY <1>3 DEF PlanMakesWiki, RecordPlan, BeginLesson, ReadForLesson, CapLesson, ProposePlan,
       Goes, Learning
  <2>3. ASSUME NEW w \in Writer PROVE ~(Empties(w) \/ Writes(w) \/ Killed(w))
    <3>1. stage[w] \notin Learning \cup {"resolve", "settle"}
      <4>1. stage[w] \notin {"resolve", "settle"}
        BY <1>3 DEF IInv, StageInv, Writer
      <4> QED BY <1>4, <4>1
    <3> QED BY <3>1 DEF Empties, Writes, Killed, Goes, Learning
  <2>4. ~(Verdict \/ ApproveLead \/ ResolvePlan)
    BY <1>3 DEF Verdict, ApproveLead, ResolvePlan, Goes
  <2> QED BY <2>1, <2>2, <2>3, <2>4, StepsOfMemory
<1>6. UNCHANGED memVars /\ queue' = {}
  BY <1>3, <1>5 DEF Quiet, memVars
<1>7. stage'[Manager] = "idle"
  <2>1. stage'[Manager] \in {"idle", "resolve", "empty", "write", "settle"}
    BY StageKept DEF StageInv
  <2>2. stage'[Manager] # "settle"
    <3>1. ASSUME NEW e \in Episode, EpisodeSteps(e) PROVE stage'[Manager] = stage[Manager]
      BY <3>1, Writers, EpisodeEdges
    <3>2. ManagerSteps => stage'[Manager] # "settle"
      BY <1>3 DEF ManagerSteps, TakeHypothesis, RejectLead, ApproveLead, Empties, WriteLead,
         SettleLead, ResolvePlan, Goes
    <3>3. ASSUME NEW w \in Writer, Killed(w) PROVE stage'[Manager] # "settle"
      BY <1>3, <3>3 DEF Killed
    <3> QED BY <1>3, <3>1, <3>2, <3>3 DEF EpisodeNext
  <2> QED BY <1>1, <1>2, <1>3, <1>5, <2>1, <2>2 DEF Quiet, Learning
<1>8. \A e \in Episode : stage'[e] \notin Learning
  BY <1>1, <1>2, <1>3, <1>5 DEF Quiet
<1> QED BY <1>1, <1>2, <1>6, <1>7, <1>8 DEF FrozenInv

(* Who waits, reads or writes under the lock does so alone. *)
LEMMA OneHolder ==
    ASSUME IInv, NEW w \in Writer, wikiLock \in {w, Free}
    PROVE  \A x \in Writer \ {w} : stage[x] \notin Holding
BY Writers DEF IInv, StageInv

LEMMA KeptKept == ASSUME IInv, EpisodeNext PROVE KeptInv'
<1> DEFINE Safe(r) == \/ r \in Shown \cup archived \cup wiped
                      \/ \E w \in Writer : stage[w] = "write" /\ r \in OnPage(md[w])
           Held(w) ==
             /\ stage[w] \in {"cap", "empty"} =>
                    Shown \subseteq OnPage(md[w]) \cup archived \cup wiped
             /\ stage[w] = "write" => Shown = {}
             /\ stage[w] \in {"cap", "empty", "write"} =>
                    w = Manager \/ w \in OnPage(md[w]) \cup archived
           Shown1 == IF wiki' = Missing THEN {} ELSE OnPage(wiki')
           Safe1(r) == \/ r \in Shown1 \cup archived' \cup wiped'
                       \/ \E w \in Writer : stage'[w] = "write" /\ r \in OnPage(md'[w])
           Held1(w) ==
             /\ stage'[w] \in {"cap", "empty"} =>
                    Shown1 \subseteq OnPage(md'[w]) \cup archived' \cup wiped'
             /\ stage'[w] = "write" => Shown1 = {}
             /\ stage'[w] \in {"cap", "empty", "write"} =>
                    w = Manager \/ w \in OnPage(md'[w]) \cup archived'
           Ends1(r) == r = Old \/ (evolves /\ stage'[r] \in {"done", "promote"})
<1>1. /\ stage \in [Writer -> Stages] /\ Manager \in Writer /\ Manager \notin Episode
      /\ \A e \in Episode : e \in Writer /\ e \in Run /\ e # Old
      /\ evolves' = evolves
      /\ wiki \in Page \cup {Missing} /\ md \in [Writer -> Page] /\ Missing \notin Page
  BY StagesAre, Writers, RoundsKept, TaskMemoryAssumption DEF IInv, MemTypeOK
<1>2. /\ \A r \in Run : Ends(r) => Safe(r)
      /\ \A w \in Writer : Held(w)
  BY DEF IInv, KeptInv
<1>3. ASSUME \A r \in Run : Ends1(r) => Safe1(r), \A w \in Writer : Held1(w)
      PROVE  KeptInv'
  <2>1. Shown' = Shown1
    BY DEF Shown
  <2>2. \A pg : OnPage(pg)' = OnPage(pg)
    OBVIOUS
  <2> QED BY <1>1, <1>3, <2>1 DEF KeptInv, Ends
<1>4. \A r \in Run : r = Old \/ r \in Episode
  BY DEF Run
<1>5. Text \in Page /\ OnPage(Text) = Shown /\ Blank \in Page /\ OnPage(Blank) = {}
  BY TextPage, BlankPage DEF IInv, EpTypeOK
<1>6. CASE /\ UNCHANGED <<wiki, archived, md, wiped>>
           /\ \A w \in Writer : \/ stage'[w] = stage[w]
                                \/ /\ stage[w] \notin {"cap", "empty", "write"}
                                   /\ stage'[w] \notin {"cap", "empty", "write"}
           /\ \A e \in Episode : evolves /\ stage'[e] \in {"done", "promote"} =>
                  stage[e] \in {"done", "promote"}
  <2>1. Shown1 = Shown
    BY <1>6 DEF Shown
  <2>2. ASSUME NEW r \in Run, Ends1(r) PROVE Safe1(r)
    <3>1. Safe(r)
      BY <1>2, <1>4, <1>6, <2>2 DEF Ends
    <3> HIDE DEF Shown1
    <3> QED BY <1>6, <2>1, <3>1
  <2>3. ASSUME NEW w \in Writer PROVE Held1(w)
    <3> HIDE DEF Shown1
    <3> QED BY <1>2, <1>6, <2>1
  <2> HIDE DEF Shown1, Ends1
  <2> QED BY <1>3, <2>2, <2>3
<1>7. CASE Quiet
  BY <1>1, <1>6, <1>7 DEF Quiet, memVars, Holding
<1>8. CASE Verdict \/ ResolvePlan
  BY <1>1, <1>6, <1>8 DEF Verdict, ResolvePlan, ResolvePromotion
<1>9. ASSUME NEW e \in Episode,
             \/ (RecordSuccess(e) /\ RecordSkills(e)) \/ RecordPlan(e)
             \/ BeginLesson(e) \/ ProposePlan(e)
      PROVE  KeptInv'
  <2>1. UNCHANGED <<wiki, archived, md, wiped>>
    BY <1>9 DEF RecordSkills, RecordPlan, ArchivePlan, BeginLesson, ProposePlan, QueuePromotion
  <2>2. /\ \A w \in Writer \ {e} : stage'[w] = stage[w]
        /\ stage[e] \notin {"cap", "empty", "write"}
        /\ stage'[e] \notin {"cap", "empty", "write"}
        /\ stage'[e] \in {"done", "promote"} => stage[e] \in {"done", "promote"}
    BY <1>1, <1>9 DEF RecordSuccess, RecordPlan, BeginLesson, ProposePlan, Goes
  <2> QED BY <1>1, <1>6, <2>1, <2>2
<1> HIDE DEF Ends1
<1>10. ASSUME NEW e \in Episode, PlanMakesWiki(e) PROVE KeptInv'
  <2>1. /\ wiki' = Blank /\ wiped' = wiped \cup Shown /\ archived' = archived /\ md' = md
        /\ stage[e] = "template" /\ stage' = [stage EXCEPT ![e] = "engineer"]
    BY <1>10 DEF PlanMakesWiki, WriteTemplate, Goes
  <2>2. Shown1 = {}
    BY <1>5, <2>1
  <2> HIDE DEF Shown1
  <2>3. ASSUME NEW r \in Run, Ends1(r) PROVE Safe1(r)
    <3>1. Safe(r)
      BY <1>2, <2>1, <2>3 DEF Ends, Ends1
    <3> QED BY <1>1, <2>1, <3>1
  <2>4. ASSUME NEW w \in Writer PROVE Held1(w)
    BY <1>2, <2>1, <2>2
  <2> QED BY <1>3, <2>3, <2>4
<1>11. ASSUME NEW e \in Episode, ReadForLesson(e) PROVE KeptInv'
  <2> DEFINE page == Prepended(Text, SectionOf(e), e)
  <2>1. /\ wiki' = Text /\ md' = [md EXCEPT ![e] = page]
        /\ archived' = archived /\ wiped' = wiped
        /\ stage[e] = "read" /\ stage' = [stage EXCEPT ![e] = "cap"]
    BY <1>11 DEF ReadForLesson, Goes
  <2>2. page \in Page /\ OnPage(page) = Shown \cup {e}
    BY <1>1, <1>5, PrependedPage DEF SectionOf, Section
  <2> HIDE DEF page
  <2>3. Shown1 = Shown
    BY <1>1, <1>5, <2>1
  <2> HIDE DEF Shown1
  <2>4. \A w \in Writer : stage[w] # "write" /\ (w # e => stage[w] \notin Holding)
    BY <1>1, <2>1 DEF Holding, IInv, StageInv
  <2>5. ASSUME NEW r \in Run, Ends1(r) PROVE Safe1(r)
    <3>1. Safe(r)
      BY <1>2, <2>1, <2>5 DEF Ends, Ends1
    <3> QED BY <2>1, <2>3, <2>4, <3>1
  <2>6. ASSUME NEW w \in Writer PROVE Held1(w)
    <3>1. CASE w = e
      BY <1>1, <2>1, <2>2, <2>3, <3>1
    <3>2. CASE w # e
      BY <2>1, <2>4, <3>2 DEF Holding
    <3> QED BY <3>1, <3>2
  <2> QED BY <1>3, <2>5, <2>6
<1>12. ASSUME NEW e \in Episode, CapLesson(e) PROVE KeptInv'
  <2> DEFINE page == Capped(md[e], SectionOf(e))
  <2>1. /\ wiki' = wiki /\ md' = [md EXCEPT ![e] = page] /\ wiped' = wiped
        /\ archived' = archived \cup (OnPage(md[e]) \ OnPage(page))
        /\ stage[e] = "cap" /\ stage' = [stage EXCEPT ![e] = "empty"]
    BY <1>12 DEF CapLesson, ArchiveOverflow, Goes
  <2> HIDE DEF page
  <2>2. OnPage(md[e]) \subseteq OnPage(page) \cup archived' /\ archived \subseteq archived'
    BY <2>1
  <2>3. Shown1 = Shown
    BY <2>1 DEF Shown
  <2> HIDE DEF Shown1
  <2>4. \A w \in Writer : stage[w] # "write" /\ (w # e => stage[w] \notin Holding)
    BY <1>1, <2>1 DEF Holding, IInv, StageInv
  <2>5. ASSUME NEW r \in Run, Ends1(r) PROVE Safe1(r)
    <3>1. Safe(r)
      BY <1>2, <2>1, <2>5 DEF Ends, Ends1
    <3> QED BY <2>1, <2>2, <2>3, <2>4, <3>1
  <2>6. ASSUME NEW w \in Writer PROVE Held1(w)
    <3>1. CASE w = e
      <4>1. md'[e] = page /\ stage'[e] = "empty"
        BY <1>1, <2>1
      <4>2. Held(e)
        BY <1>1, <1>2
      <4> QED BY <1>1, <2>1, <2>2, <2>3, <3>1, <4>1, <4>2
    <3>2. CASE w # e
      BY <2>1, <2>4, <3>2 DEF Holding
    <3> QED BY <3>1, <3>2
  <2> QED BY <1>3, <2>5, <2>6
<1>13. ASSUME NEW w \in Writer, Empties(w) PROVE KeptInv'
  <2>1. /\ wiki' = Blank /\ md' = md /\ wiped' = wiped /\ archived' = archived
        /\ stage[w] = "empty" /\ stage' = [stage EXCEPT ![w] = "write"]
    BY <1>13 DEF Empties, EmptyWiki, Goes
  <2>2. Shown1 = {}
    BY <1>5, <2>1
  <2> HIDE DEF Shown1
  <2>3. \A x \in Writer : stage[x] # "write" /\ (x # w => stage[x] \notin Holding)
    BY <2>1 DEF Holding, IInv, StageInv
  <2>4. Held(w) /\ stage'[w] = "write"
    BY <1>1, <1>2, <2>1
  <2>5. ASSUME NEW r \in Run, Ends1(r) PROVE Safe1(r)
    <3>1. Safe(r)
      BY <1>2, <2>1, <2>5 DEF Ends, Ends1
    <3> QED BY <2>1, <2>3, <2>4, <3>1
  <2>6. ASSUME NEW x \in Writer PROVE Held1(x)
    BY <2>1, <2>2, <2>3, <2>4 DEF Holding
  <2> QED BY <1>3, <2>5, <2>6
<1>14. ASSUME NEW w \in Writer, Writes(w) PROVE KeptInv'
  <2>1. /\ wiki' = md[w] /\ md' = [md EXCEPT ![w] = Blank]
        /\ wiped' = wiped /\ archived' = archived /\ stage[w] = "write"
        /\ stage'[w] \notin Holding /\ \A x \in Writer \ {w} : stage'[x] = stage[x]
    BY <1>1, <1>14 DEF Writes, WriteWiki, Holding
  <2>2. Shown1 = OnPage(md[w])
    BY <1>1, <2>1
  <2> HIDE DEF Shown1
  <2>3. \A x \in Writer \ {w} : stage[x] \notin Holding
    BY <2>1 DEF Holding, IInv, StageInv
  <2>4. Held(w)
    BY <1>2
  <2>5. ASSUME NEW r \in Run, Ends1(r) PROVE Safe1(r)
    <3>1. CASE r \in Episode /\ r = w
      BY <1>1, <2>1, <2>2, <2>4, <3>1
    <3>2. CASE r = Old \/ r # w
      <4>1. Safe(r)
        BY <1>1, <1>2, <1>4, <2>1, <2>5 DEF Ends, Ends1
      <4>2. \A x \in Writer : stage[x] = "write" => x = w
        BY <2>3 DEF Holding
      <4> QED BY <2>1, <2>2, <2>4, <4>1, <4>2
    <3> QED BY <1>4, <3>1, <3>2
  <2>6. ASSUME NEW x \in Writer PROVE Held1(x)
    BY <2>1, <2>3 DEF Holding
  <2> QED BY <1>3, <2>5, <2>6
<1>15. ASSUME NEW w \in Writer, Killed(w) PROVE KeptInv'
  <2>1. /\ wiki' = wiki /\ md' = [md EXCEPT ![w] = Blank] /\ archived' = archived
        /\ wiped' = IF stage[w] = "write" THEN wiped \cup OnPage(md[w]) ELSE wiped
        /\ stage' = [stage EXCEPT ![w] = IF w = Manager THEN "idle" ELSE "lost"]
    BY <1>15 DEF Killed, DieWithLock
  <2>2. Shown1 = Shown
    BY <2>1 DEF Shown
  <2> HIDE DEF Shown1
  <2>3. ASSUME NEW r \in Run, Ends1(r) PROVE Safe1(r)
    <3>1. Safe(r)
      BY <1>2, <2>1, <2>3 DEF Ends, Ends1
    <3>2. ASSUME NEW x \in Writer, stage[x] = "write", r \in OnPage(md[x]) PROVE Safe1(r)
      BY <2>1, <3>2
    <3> QED BY <2>1, <2>2, <3>1, <3>2
  <2>4. ASSUME NEW x \in Writer PROVE Held1(x)
    <3>1. CASE x = w
      BY <1>1, <2>1, <3>1
    <3>2. CASE x # w
      BY <1>2, <2>1, <2>2, <3>2
    <3> QED BY <3>1, <3>2
  <2> QED BY <1>3, <2>3, <2>4
<1>16. CASE ApproveLead
  <2> DEFINE page == [Text EXCEPT !.leads = @ \cup {lead}]
  <2>1. /\ wiki' = wiki /\ md' = [md EXCEPT ![Manager] = page]
        /\ wiped' = wiped /\ archived' = archived /\ wikiLock = Free
        /\ stage[Manager] = "resolve" /\ stage' = [stage EXCEPT ![Manager] = "empty"]
    BY <1>16 DEF ApproveLead, TakeLock, Goes
  <2>2. OnPage(page) = Shown
    BY <1>5, LeadPage DEF IInv, EpTypeOK
  <2> HIDE DEF page
  <2>3. Shown1 = Shown
    BY <2>1 DEF Shown
  <2> HIDE DEF Shown1
  <2>4. \A x \in Writer : stage[x] \notin Holding
    BY <1>1, <2>1, OneHolder DEF Holding
  <2>5. ASSUME NEW r \in Run, Ends1(r) PROVE Safe1(r)
    <3>1. Safe(r)
      BY <1>2, <2>1, <2>5 DEF Ends, Ends1
    <3> QED BY <2>1, <2>3, <2>4, <3>1
  <2>6. ASSUME NEW x \in Writer PROVE Held1(x)
    <3>1. CASE x = Manager
      BY <1>1, <2>1, <2>2, <2>3, <3>1
    <3>2. CASE x # Manager
      BY <2>1, <2>4, <3>2 DEF Holding
    <3> QED BY <3>1, <3>2
  <2> QED BY <1>3, <2>5, <2>6
<1> QED BY <1>7, <1>8, <1>9, <1>10, <1>11, <1>12, <1>13, <1>14, <1>15, <1>16, StepsOfMemory

-----------------------------------------------------------------------------
(***************************************************************************)
(* The theorems.                                                           *)
(***************************************************************************)
LEMMA InitHolds == EpisodeInit => IInv
<1> SUFFICES ASSUME EpisodeInit PROVE IInv
  OBVIOUS
<1> DEFINE full == [k \in 1 .. MaxTraces |-> Old]
           page == [Blank EXCEPT !.failure = full]
<1>1. /\ MaxTraces \in Nat \ {0} /\ Old \in Run /\ Old \notin Episode /\ Manager \notin Episode
      /\ Missing \notin Page /\ Manager \in Writer /\ \A e \in Episode : e \in Writer
      /\ ToolBudget \in Nat \ {0} /\ RoundBudget \in Nat \ {0} /\ MaxRounds \in Nat \ {0}
      /\ CallsPerTurn \in Nat \ {0} /\ MaxKills \in Nat
  BY TaskMemoryAssumption, AtomicEpisodeAssumption, Writers DEF Run
<1>2. full \in Seq(Run) /\ Len(full) = MaxTraces /\ \A k \in DOMAIN full : full[k] = Old
  <2>1. full \in [1 .. MaxTraces -> Run]
    BY <1>1
  <2>2. full \in Seq(Run)
    BY <1>1
  <2> QED BY <1>1, <2>1, <2>2, LenProperties
<1>3. /\ page \in Page /\ Len(page.failure) = MaxTraces /\ Len(page.success) = 0
      /\ page.leads = {}
      /\ Listed(page, "success") = {} /\ Listed(page, "failure") = {Old}
  <2> HIDE DEF full
  <2>1. Blank \in Page /\ <<>> \in Seq(Run) /\ Len(<<>>) = 0 /\ DOMAIN <<>> = {}
    BY BlankPage
  <2>2. /\ page.failure = full /\ page.success = <<>> /\ page.leads = {}
        /\ page \in Page
    BY <1>2, <2>1 DEF Blank, Page
  <2> HIDE DEF page
  <2>3. page["success"] = <<>> /\ page["failure"] = full
    BY <2>2
  <2>4. 1 \in DOMAIN full
    BY <1>1, <1>2
  <2> QED BY <1>2, <2>1, <2>2, <2>3, <2>4 DEF Listed
<1>4. OnPage(page) = {Old} /\ WithinCap(page) /\ \A res : Fits(res, page)
  <2> HIDE DEF page
  <2>1. page["success"] = page.success /\ page["failure"] = page.failure
    OBVIOUS
  <2> QED BY <1>1, <1>3, <2>1, PageFacts DEF WithinCap, Fits, Section
<1>5. /\ wiki \in {Missing, page} /\ archived = {} /\ wikiLock = Free
      /\ md = [w \in Writer |-> Blank] /\ queue = {} /\ seed = Old
      /\ recorded = {} /\ plans = {} /\ wiped = IF wiki = Missing THEN {Old} ELSE {}
  BY DEF EpisodeInit, MemInit
<1> HIDE DEF page, full
<1>6. MemTypeOK
  <2>1. wiki # Missing => \A s \in Section : Len(wiki[s]) <= MaxTraces
    BY <1>4, <1>5 DEF WithinCap
  <2> QED BY <1>1, <1>3, <1>5, <2>1, BlankPage DEF MemTypeOK
<1>7. /\ evolves \in BOOLEAN /\ simulated \in BOOLEAN
      /\ stage = [w \in Writer |-> IF w = Manager THEN "idle" ELSE "plan"]
      /\ rnd = [e \in Episode |-> 1]
      /\ left = [e \in Episode |-> ToolBudget] /\ calls = [e \in Episode |-> 0]
      /\ claim = [e \in Episode |-> FALSE]
      /\ result = [e \in Episode |-> "none"] /\ row = [e \in Episode |-> "none"]
      /\ lead = Old /\ kills = 0
  BY DEF EpisodeInit
<1>8. EpTypeOK
  <2>1. stage \in [Writer -> Stages]
    BY <1>7 DEF Stages, Unjudged
  <2>2. left \in [Episode -> Int] /\ calls \in [Episode -> Nat] /\ rnd \in [Episode -> 1 .. MaxRounds]
    BY <1>1, <1>7
  <2>3. result \in [Episode -> Result]
    BY <1>7 DEF Result
  <2>4. lead \in Run /\ kills \in 0 .. MaxKills
    BY <1>1, <1>7
  <2>5. claim \in [Episode -> BOOLEAN]
        /\ row \in [Episode -> {"none", "running", "success", "failed"}]
    BY <1>7
  <2>6. evolves \in BOOLEAN /\ simulated \in BOOLEAN
    BY <1>7
  <2> QED BY <1>6, <2>1, <2>2, <2>3, <2>4, <2>5, <2>6, StagesAre
<1>9. /\ stage[Manager] = "idle" /\ \A w \in Writer : stage[w] \in {"idle", "plan"}
      /\ \A e \in Episode : stage[e] = "plan"
  BY <1>1, <1>7
<1>10. PageInv /\ StageInv
  BY <1>7, <1>9 DEF PageInv, StageInv, Holding, Unjudged
<1>11. SpentInv /\ BudgetIsShared
  <2>1. (CallsPerTurn - 1) * RoundBudget \in Nat
    BY <1>1
  <2> QED BY <1>1, <1>7, <2>1 DEF SpentInv, BudgetIsShared
<1>12. FitInv
  BY <1>1, <1>4, <1>5, <1>7, BlankPage DEF FitInv
<1>13. FrozenInv
  BY <1>5, <1>9 DEF FrozenInv, Learning
<1>14. KeptInv
  <2>1. Old \in Shown \cup wiped
    BY <1>4, <1>5 DEF Shown
  <2> QED BY <1>9, <2>1 DEF KeptInv, Ends, Run
<1> QED BY <1>8, <1>10, <1>11, <1>12, <1>13, <1>14 DEF IInv

LEMMA StutterKeeps == ASSUME IInv, UNCHANGED episodeVars PROVE IInv'
<1>1. UNCHANGED <<wiki, archived, wikiLock, md, queue, seed, recorded, plans, wiped,
                  evolves, simulated, stage, rnd, left, calls, claim, result, row, lead,
                  kills>>
  BY DEF episodeVars, memVars, epVars
<1>2. EpTypeOK'
  BY <1>1 DEF IInv, EpTypeOK, MemTypeOK
<1>3. PageInv' /\ StageInv' /\ SpentInv' /\ BudgetIsShared'
  BY <1>1 DEF IInv, PageInv, StageInv, SpentInv, BudgetIsShared, SectionOf, Confirmed
<1>4. FitInv' /\ FrozenInv'
  BY <1>1 DEF IInv, FitInv, FrozenInv
<1>5. KeptInv'
  BY <1>1 DEF IInv, KeptInv, Ends, Shown
<1> QED BY <1>2, <1>3, <1>4, <1>5 DEF IInv

(* The inductive invariant, of all the episodes and the Manager together. *)
THEOREM InvariantHolds == EpisodeSpec => []IInv
<1>1. ASSUME IInv, EpisodeNext PROVE IInv'
  BY <1>1, TypesKept, TextKept, StageKept, BudgetKept, TextsFitKept, RestFitsKept, FrozenKept,
     KeptKept DEF IInv, FitInv, TextsFit, RestFits, ProposalFits
<1>2. IInv /\ [EpisodeNext]_episodeVars => IInv'
  BY <1>1, StutterKeeps
<1> QED BY <1>2, InitHolds, PTL DEF EpisodeSpec

(* The types of run_atomic_episode's variables and of the task's memory. *)
THEOREM TypeCorrect == EpisodeSpec => []EpTypeOK
<1>1. IInv => EpTypeOK
  BY DEF IInv
<1> QED BY <1>1, InvariantHolds, PTL

(* run_atomic_episode: an episode spends no more calls than its budget and *)
(* what the turns of one round exceed it by, whatever its rounds are.      *)
THEOREM BudgetCorrect == EpisodeSpec => []BudgetIsShared
<1>1. IInv => BudgetIsShared
  BY DEF IInv
<1> QED BY <1>1, InvariantHolds, PTL

(* The journals, the queues, the seed plan and the wiki agree with what    *)
(* the simulator said of each run, and call a plan whole only where it was *)
(* that of an only round.                                                  *)
THEOREM LessonsCorrect == EpisodeSpec => []LessonsFitTheOutcome
<1>1. IInv => LessonsFitTheOutcome
  <2> SUFFICES ASSUME IInv, NEW e \in Episode
               PROVE  /\ e \in TakenForSuccess => result[e] = "success"
                      /\ e \in TakenForFailure => result[e] \in Result \ {"none", "success"}
                      /\ e \in plans \/ (\E p \in queue : p.of = e /\ p.kind = "plan") =>
                             rnd[e] = 1
    BY DEF LessonsFitTheOutcome
  <2>1. FitInv
    BY DEF IInv
  <2>2. e \in TakenForSuccess => result[e] = "success"
    BY <2>1 DEF FitInv, Fits, Listed, TakenForSuccess
  <2>3. e \in TakenForFailure => result[e] \in Result \ {"none", "success"}
    BY <2>1 DEF FitInv, Fits, Listed, TakenForFailure, Failed, Result
  <2>4. e \in plans \/ (\E p \in queue : p.of = e /\ p.kind = "plan") => rnd[e] = 1
    BY <2>1 DEF FitInv
  <2> QED BY <2>2, <2>3, <2>4
<1> QED BY <1>1, InvariantHolds, PTL

(* append_success_trace, append_failure_trace and the Manager's approvals  *)
(* lose no trace of a run, however they interleave.                        *)
THEOREM TracesCorrect == EpisodeSpec => []TracesAreKept
<1>1. IInv => TracesAreKept
  BY DEF IInv, KeptInv, Ends, TracesAreKept, Run
<1> QED BY <1>1, InvariantHolds, PTL

(* With evolution off no step of an episode, the Manager or a kill writes   *)
(* to the memory of the task.                                               *)
THEOREM FrozenMemoryStays == EpisodeSpec => FrozenMemoryIsUntouched
<1>1. IInv /\ [EpisodeNext]_episodeVars => [~evolves => UNCHANGED memVars]_episodeVars
  BY FrozenKept
<1> QED BY <1>1, InvariantHolds, PTL DEF EpisodeSpec, FrozenMemoryIsUntouched
-----------------------------------------------------------------------------
(***************************************************************************)
(* How long an episode may take, and whom it may wait for.                 *)
(***************************************************************************)
StepsLeft == [plan |-> 16, template |-> 15, engineer |-> 14, review |-> 13, adjudicate |-> 12,
              record |-> 11, archive |-> 10, insert |-> 9, update |-> 8, final |-> 7,
              learn |-> 6, read |-> 5, cap |-> 4, empty |-> 3, write |-> 2, promote |-> 1,
              done |-> 0, lost |-> 0]

\* The steps an episode has before it at most: four for each round to come.
EpisodeLeft(e) ==
    IF stage[e] \in Ended THEN 0 ELSE 4 * (MaxRounds - rnd[e]) + StepsLeft[stage[e]]

EpisodesAreShort == \A e \in Episode :
    /\ EpisodeLeft(e) \in 0 .. 4 * MaxRounds + 12
    /\ EpisodeLeft(e) = 0 <=> stage[e] \in Ended

\* Who holds the lock of the wiki is at work on it.
HolderInv == wikiLock # Free => stage[wikiLock] \in Holding

\* A writer is kept from the wiki by another one that is at work on it.
WaitsForAWriter == \A w \in Writer :
    stage[w] \in {"learn", "resolve"} /\ wikiLock # Free =>
        wikiLock # w /\ stage[wikiLock] \in Holding

\* What an episode does brings its end nearer, what others do never sets it back.
EachStepCounts == \A e \in Episode :
    /\ EpisodeSteps(e) => EpisodeLeft(e)' < EpisodeLeft(e)
    /\ EpisodeLeft(e)' <= EpisodeLeft(e)

LEMMA RoundNumbers ==
    ASSUME NEW r \in 1 .. MaxRounds
    PROVE  /\ MaxRounds - r \in Nat /\ MaxRounds - r <= MaxRounds - 1 /\ MaxRounds \in Nat
           /\ r < MaxRounds => MaxRounds - (r + 1) = (MaxRounds - r) - 1
BY AtomicEpisodeAssumption

LEMMA EpisodesShort == ASSUME IInv PROVE EpisodesAreShort
<1>1. ASSUME NEW e \in Episode
      PROVE  /\ EpisodeLeft(e) \in 0 .. 4 * MaxRounds + 12
             /\ EpisodeLeft(e) = 0 <=> stage[e] \in Ended
  <2>1. rnd[e] \in 1 .. MaxRounds /\ stage[e] \in DOMAIN StepsLeft
    BY StagesAre, Writers DEF IInv, StageInv, Stages, Ended, Unjudged, Learning, StepsLeft
  <2>2. MaxRounds - rnd[e] \in Nat /\ MaxRounds - rnd[e] <= MaxRounds - 1 /\ MaxRounds \in Nat
    BY <2>1, RoundNumbers
  <2>3. CASE stage[e] \in Ended
    BY <2>2, <2>3 DEF EpisodeLeft
  <2>4. CASE stage[e] \notin Ended
    <3>1. StepsLeft[stage[e]] \in 1 .. 16
      BY <2>1, <2>4 DEF StepsLeft, Ended
    <3> QED BY <2>2, <2>4, <3>1 DEF EpisodeLeft
  <2> QED BY <2>3, <2>4
<1> QED BY <1>1 DEF EpisodesAreShort

LEMMA EpisodeCounts ==
    ASSUME IInv, NEW e \in Episode, EpisodeSteps(e)
    PROVE  EpisodeLeft(e)' < EpisodeLeft(e)
<1>1. /\ stage \in [Writer -> Stages] /\ e \in Writer /\ rnd \in [Episode -> 1 .. MaxRounds]
      /\ rnd[e] \in 1 .. MaxRounds
  BY StagesAre, Writers DEF IInv
<1>2. MaxRounds - rnd[e] \in Nat /\ MaxRounds \in Nat
  BY <1>1, RoundNumbers
<1>3. ASSUME rnd'[e] = rnd[e], stage[e] \notin Ended, stage'[e] \in DOMAIN StepsLeft,
             StepsLeft[stage'[e]] < StepsLeft[stage[e]]
      PROVE  EpisodeLeft(e)' < EpisodeLeft(e)
  <2>1. stage[e] \in DOMAIN StepsLeft
    BY <1>1 DEF IInv, StageInv, Stages, Ended, Unjudged, Learning, StepsLeft
  <2>2. StepsLeft[stage[e]] \in Nat /\ StepsLeft[stage'[e]] \in Nat
    BY <1>3, <2>1 DEF StepsLeft
  <2>3. EpisodeLeft(e) = 4 * (MaxRounds - rnd[e]) + StepsLeft[stage[e]]
    BY <1>3 DEF EpisodeLeft
  <2>4. \/ EpisodeLeft(e)' = 0
        \/ EpisodeLeft(e)' = 4 * (MaxRounds - rnd[e]) + StepsLeft[stage'[e]]
    BY <1>3 DEF EpisodeLeft
  <2> QED BY <1>2, <1>3, <2>2, <2>3, <2>4
<1>4. CASE NextRound(e)
  <2>1. /\ stage[e] = "review" /\ stage'[e] = "plan" /\ rnd'[e] = rnd[e] + 1
        /\ rnd[e] < MaxRounds
    BY <1>1, <1>4 DEF NextRound, Goes, CanContinue
  <2>2. MaxRounds - rnd'[e] = (MaxRounds - rnd[e]) - 1
    BY <1>1, <2>1, RoundNumbers
  <2> QED BY <1>2, <2>1, <2>2 DEF EpisodeLeft, StepsLeft, Ended
<1>5. CASE PlanReadsWiki(e) \/ PlanMakesWiki(e) \/ Execute(e) \/ LastRound(e)
  <2>1. rnd' = rnd
    BY <1>5 DEF PlanReadsWiki, PlanMakesWiki, Execute, LastRound, roundVars
  <2> QED BY <1>1, <1>3, <1>5, <2>1 DEF PlanReadsWiki, PlanMakesWiki, Execute, LastRound, Goes,
          StepsLeft, Ended
<1>6. CASE Raises(e)
  BY <1>1, <1>3, <1>6 DEF Raises, roundVars, StepsLeft, Ended
<1>7. CASE \/ Adjudicate(e) \/ RecordSuccess(e) \/ RecordPlan(e) \/ InsertRow(e)
           \/ UpdateRow(e) \/ FinalReview(e)
  <2>1. rnd' = rnd
    BY <1>7 DEF Adjudicate, RecordSuccess, RecordPlan, InsertRow, UpdateRow, FinalReview,
       roundVars
  <2> QED BY <1>1, <1>3, <1>7, <2>1 DEF Adjudicate, RecordSuccess, RecordPlan, InsertRow,
          UpdateRow, FinalReview, Goes, StepsLeft, Ended
<1>8. CASE \/ BeginLesson(e) \/ ReadForLesson(e) \/ CapLesson(e) \/ Empties(e)
           \/ WriteLesson(e) \/ ProposePlan(e)
  <2>1. rnd' = rnd
    BY <1>8 DEF BeginLesson, ReadForLesson, CapLesson, Empties, WriteLesson, ProposePlan,
       roundVars
  <2> QED BY <1>1, <1>3, <1>8, <2>1 DEF BeginLesson, ReadForLesson, CapLesson, Empties,
          WriteLesson, ProposePlan, Goes, StepsLeft, Ended
<1> QED BY <1>4, <1>5, <1>6, <1>7, <1>8 DEF EpisodeSteps

\* The round of an episode is its own.
LEMMA RoundsOfOthers ==
    ASSUME IInv, EpisodeNext
    PROVE  \A e \in Episode : rnd'[e] = rnd[e] \/ EpisodeSteps(e)
<1>1. rnd \in [Episode -> 1 .. MaxRounds]
  BY StagesAre DEF IInv
<1>2. ASSUME NEW e \in Episode, EpisodeSteps(e), ~NextRound(e)
      PROVE  rnd' = rnd
  <2>1. CASE \/ PlanReadsWiki(e) \/ PlanMakesWiki(e) \/ Execute(e) \/ LastRound(e) \/ Raises(e)
    BY <2>1 DEF PlanReadsWiki, PlanMakesWiki, Execute, LastRound, Raises, roundVars
  <2>2. CASE \/ Adjudicate(e) \/ RecordSuccess(e) \/ RecordPlan(e) \/ InsertRow(e)
             \/ UpdateRow(e) \/ FinalReview(e)
    BY <2>2 DEF Adjudicate, RecordSuccess, RecordPlan, InsertRow, UpdateRow, FinalReview,
       roundVars
  <2>3. CASE \/ BeginLesson(e) \/ ReadForLesson(e) \/ CapLesson(e) \/ Empties(e)
             \/ WriteLesson(e) \/ ProposePlan(e)
    BY <2>3 DEF BeginLesson, ReadForLesson, CapLesson, Empties, WriteLesson, ProposePlan,
       roundVars
  <2> QED BY <1>2, <2>1, <2>2, <2>3 DEF EpisodeSteps
<1>3. ASSUME NEW e \in Episode, NextRound(e)
      PROVE  \A x \in Episode : x # e => rnd'[x] = rnd[x]
  BY <1>1, <1>3 DEF NextRound
<1>4. CASE ManagerSteps
  BY <1>4 DEF ManagerSteps, TakeHypothesis, RejectLead, ApproveLead, Empties, WriteLead,
     SettleLead, ResolvePlan, roundVars
<1>5. ASSUME NEW w \in Writer, Killed(w) PROVE rnd' = rnd
  BY <1>5 DEF Killed, roundVars
<1> QED BY <1>2, <1>3, <1>4, <1>5 DEF EpisodeNext

LEMMA StepsCount == ASSUME IInv, EpisodeNext PROVE EachStepCounts
<1>1. ASSUME NEW e \in Episode
      PROVE  /\ EpisodeSteps(e) => EpisodeLeft(e)' < EpisodeLeft(e)
             /\ EpisodeLeft(e)' <= EpisodeLeft(e)
  <2>0. EpisodeLeft(e) \in Nat
    BY EpisodesShort, AtomicEpisodeAssumption DEF EpisodesAreShort
  <2>1. CASE EpisodeSteps(e)
    <3>1. EpisodeLeft(e)' < EpisodeLeft(e)
      BY <2>1, EpisodeCounts
    <3>2. EpisodeLeft(e)' \in Int
      <4>1. IInv'
        BY TypesKept, TextKept, StageKept, BudgetKept, TextsFitKept, RestFitsKept, FrozenKept,
           KeptKept DEF IInv, FitInv, TextsFit, RestFits, ProposalFits
      <4>2. (IInv => EpisodesAreShort)'
        BY EpisodesShort, PTL
      <4> QED BY <4>1, <4>2, AtomicEpisodeAssumption DEF EpisodesAreShort
    <3> QED BY <2>0, <3>1, <3>2
  <2>2. CASE ~EpisodeSteps(e)
    <3>1. rnd'[e] = rnd[e]
      BY <2>2, RoundsOfOthers
    <3>2. stage'[e] = stage[e] \/ stage'[e] = "lost"
      <4>1. CASE ManagerSteps \/ \E w \in Writer : Killed(w)
        BY <4>1, OtherEdges
      <4>2. ASSUME NEW x \in Episode, EpisodeSteps(x) PROVE stage'[e] = stage[e]
        BY <2>2, <4>2, EpisodeEdges, Writers
      <4> QED BY <4>1, <4>2 DEF EpisodeNext
    <3>3. EpisodeLeft(e)' = EpisodeLeft(e) \/ EpisodeLeft(e)' = 0
      BY <3>1, <3>2 DEF EpisodeLeft, Ended
    <3> QED BY <2>0, <2>2, <3>3
  <2> QED BY <2>1, <2>2
<1> QED BY <1>1 DEF EachStepCounts

LEMMA HolderKept == ASSUME IInv, HolderInv, EpisodeNext PROVE HolderInv'
<1>1. /\ stage \in [Writer -> Stages] /\ stage' \in [Writer -> Stages]
      /\ wikiLock \in Writer \cup {Free} /\ \A e \in Episode : e \in Writer
      /\ Free \notin Writer /\ Manager \in Writer /\ Manager \notin Episode
  BY StagesAre, Writers, EpisodeEdges, OtherEdges DEF IInv, MemTypeOK, EpisodeNext
<1>2. ASSUME NEW e \in Episode, EpisodeSteps(e)
      PROVE  HolderInv'
  <2>1. \A w \in Writer : w # e => stage'[w] = stage[w]
    BY <1>2, EpisodeEdges
  <2>2. CASE BeginLesson(e)
    BY <1>1, <2>2 DEF BeginLesson, TakeLock, Goes, HolderInv, Holding
  <2>3. CASE WriteLesson(e)
    BY <2>3 DEF WriteLesson, WriteWiki, HolderInv
  <2>4. CASE ReadForLesson(e) \/ CapLesson(e) \/ Empties(e)
    BY <1>1, <2>1, <2>4 DEF ReadForLesson, CapLesson, ArchiveOverflow, Empties, EmptyWiki, Goes,
       Holding, HolderInv
  <2>5. CASE ~(BeginLesson(e) \/ WriteLesson(e) \/ ReadForLesson(e) \/ CapLesson(e)
               \/ Empties(e))
    <3>1. wikiLock' = wikiLock /\ stage[e] \notin Holding
      <4>1. CASE \/ PlanReadsWiki(e) \/ PlanMakesWiki(e) \/ Execute(e)
                 \/ NextRound(e) \/ LastRound(e) \/ Raises(e)
        BY <1>1, <4>1 DEF PlanReadsWiki, PlanMakesWiki, Execute, NextRound, LastRound, Raises,
           Goes, memVars, WriteTemplate, Holding
      <4>2. CASE \/ Adjudicate(e) \/ RecordSuccess(e) \/ RecordPlan(e)
                 \/ InsertRow(e) \/ UpdateRow(e) \/ FinalReview(e) \/ ProposePlan(e)
        BY <1>1, <4>2 DEF Adjudicate, RecordSuccess, RecordSkills, RecordPlan, ArchivePlan,
           InsertRow, UpdateRow, FinalReview, ProposePlan, QueuePromotion, Goes, memVars,
           Holding
      <4> QED BY <1>2, <2>5, <4>1, <4>2 DEF EpisodeSteps
    <3> QED BY <1>1, <2>1, <3>1 DEF HolderInv
  <2> QED BY <2>2, <2>3, <2>4, <2>5
<1>3. CASE ManagerSteps
  <2>1. CASE ApproveLead
    BY <1>1, <2>1 DEF ApproveLead, TakeLock, Goes, HolderInv, Holding
  <2>2. CASE WriteLead
    BY <2>2 DEF WriteLead, WriteWiki, HolderInv
  <2>3. CASE Empties(Manager)
    BY <1>1, <2>3 DEF Empties, EmptyWiki, Goes, HolderInv, Holding
  <2>4. CASE \/ \E e \in Episode : TakeHypothesis(e)
             \/ RejectLead \/ SettleLead \/ ResolvePlan
    BY <1>1, <2>4 DEF TakeHypothesis, RejectLead, SettleLead, ResolvePlan, ResolvePromotion,
       Goes, Holding, HolderInv, memVars
  <2> QED BY <1>3, <2>1, <2>2, <2>3, <2>4 DEF ManagerSteps
<1>4. ASSUME NEW k \in Writer, Killed(k)
      PROVE  HolderInv'
  BY <1>1, <1>4 DEF Killed, DieWithLock, HolderInv
<1> QED BY <1>2, <1>3, <1>4 DEF EpisodeNext

(* run_atomic_episode: an episode comes to its end within four steps of its *)
(* own for each round and twelve more, no other process sets it back, and   *)
(* while it waits for the wiki the one that keeps it waiting is at work on  *)
(* it: what EpisodesEnd rests on, for any number of episodes and rounds.    *)
THEOREM EpisodesAreBounded ==
    /\ EpisodeSpec => [](EpisodesAreShort /\ WaitsForAWriter)
    /\ EpisodeSpec => [][EachStepCounts]_episodeVars
<1>1. EpisodeInit => HolderInv
  BY DEF EpisodeInit, MemInit, HolderInv
<1>2. IInv /\ HolderInv /\ [EpisodeNext]_episodeVars => HolderInv'
  BY HolderKept DEF episodeVars, memVars, epVars, HolderInv
<1>3. IInv /\ HolderInv => EpisodesAreShort /\ WaitsForAWriter
  BY EpisodesShort DEF HolderInv, WaitsForAWriter, Holding
<1>4. IInv /\ [EpisodeNext]_episodeVars => [EachStepCounts]_episodeVars
  BY StepsCount
<1>5. EpisodeSpec => [][EachStepCounts]_episodeVars
  BY <1>4, InvariantHolds, PTL DEF EpisodeSpec
<1>6. EpisodeSpec => [](EpisodesAreShort /\ WaitsForAWriter)
  BY <1>1, <1>2, <1>3, InvariantHolds, PTL DEF EpisodeSpec
<1> QED BY <1>5, <1>6
=============================================================================
