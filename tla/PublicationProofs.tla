------------------------ MODULE PublicationProofs --------------------------
(***************************************************************************)
(* How a change of the skill tree gets in, for any number of tasks and     *)
(* proposals, clerks and messages: the cycle's applies and promotions      *)
(* (SkillPublication) and the desk where people decide (OperatorDesk).     *)
(*                                                                         *)
(* None of the properties is inductive alone.  What an apply writes        *)
(* depends on the gates its proposal has behind it (GateInv), and where it *)
(* writes on its scope (PlaceInv); what it puts back was read when it      *)
(* wrote (RestoreIsSafe).  A command of the desk acts on what it read      *)
(* steps before, so the desk's invariants say what is still true of that   *)
(* (FiledInv, WordInv), and the chat's what is true of the other           *)
(* deliveries of a message (TurnInv); a delivery has few steps left.       *)
(***************************************************************************)
EXTENDS SkillPublication, OperatorDesk, TLAPS

\* A proposal beyond the gate of its scope has passed that gate, and the one
\* before it.
GateInv ==
    \A p \in Proposal :
        /\ at[p] \notin {"queued", "rejected"} => "source" \in passed[p]
        /\ scope[p] = "global" /\ at[p] \notin {"gate", "not_promoted"}
               => "cross" \in passed[p]

\* An apply works on the source task's own file, and on the shared one only
\* as part of a promotion.
PlaceInv ==
    \A p \in Proposal :
        at[p] \in {"add", "commit"} =>
            \/ place[p] = SourceOf[p]
            \/ place[p] = Shared /\ scope[p] = "global"

IInv ==
    /\ TypeOK
    /\ GateInv
    /\ PlaceInv
    /\ RestoreIsSafe
    /\ SharedTextPassedBothGates
    /\ LocalTextPassedItsGate
-----------------------------------------------------------------------------
\* A file area is sound when every place holds a text that may stand there.
Sound(area) == \A w \in Place : MayStandIn(area[w], w)

LEMMA AreasAreSound ==
    ASSUME PublicationAssumption
    PROVE  SharedTextPassedBothGates /\ LocalTextPassedItsGate
               <=> Sound(tree) /\ Sound(index) /\ Sound(head)
BY DEF PublicationAssumption, SharedTextPassedBothGates,
       LocalTextPassedItsGate, Sound, Place

\* Setting one place of a sound area to a text that may stand there.
LEMMA SoundUpdate ==
    ASSUME NEW area \in [Place -> Text], Sound(area),
           NEW w \in Place, NEW text, MayStandIn(text, w)
    PROVE  Sound([area EXCEPT ![w] = text])
BY DEF Sound

\* The files an apply may write.
LEMMA TargetIsAPlace ==
    ASSUME PublicationAssumption, TypeOK, NEW p \in Proposal
    PROVE  /\ Target(p) \in Place
           /\ \/ Target(p) = SourceOf[p]
              \/ Target(p) = Shared /\ scope[p] = "global"
BY DEF PublicationAssumption, TypeOK, Target, Place

\* An apply writes its own text only where it may stand.
LEMMA OwnTextMayStand ==
    ASSUME PublicationAssumption, TypeOK, GateInv, NEW p \in Proposal,
           at[p] \in InApply, NEW w \in Place,
           w = SourceOf[p] \/ (w = Shared /\ scope[p] = "global")
    PROVE  MayStandIn(p, w)
<1>1. "source" \in passed[p]
  BY DEF GateInv, InApply
<1>2. CASE w = SourceOf[p]
  <2>1. w # Shared
    BY <1>2 DEF PublicationAssumption
  <2> QED  BY <1>1, <1>2, <2>1 DEF MayStandIn
<1>3. CASE w = Shared /\ scope[p] = "global"
  <2>1. "cross" \in passed[p]
    BY <1>3 DEF GateInv, InApply
  <2>2. passed[p] = {"source", "cross"}
    BY <1>1, <2>1 DEF TypeOK
  <2> QED  BY <1>3, <2>2 DEF MayStandIn
<1> QED  BY <1>2, <1>3

\* Passing one more gate takes nothing away.
LEMMA GatesOnlyAdd ==
    ASSUME TypeOK, NEW p \in Proposal, NEW gate \in {"source", "cross"},
           passed' = [passed EXCEPT ![p] = @ \cup {gate}],
           NEW text, NEW w, MayStandIn(text, w)
    PROVE  MayStandIn(text, w)'
<1> SUFFICES ASSUME text \in Proposal
             PROVE  IF w = Shared THEN passed'[text] = {"source", "cross"}
                                  ELSE SourceOf[text] = w /\ "source" \in passed'[text]
  BY DEF MayStandIn
<1>1. passed[text] \subseteq passed'[text] /\ passed'[text] \subseteq {"source", "cross"}
  BY DEF TypeOK
<1> QED  BY <1>1 DEF MayStandIn
-----------------------------------------------------------------------------
LEMMA InitInv == ASSUME PublicationAssumption, Init PROVE IInv
<1>1. TypeOK
  BY DEF PublicationAssumption, Init, TypeOK, Stages, Text, Place
<1>2. GateInv /\ PlaceInv /\ RestoreIsSafe
  BY DEF Init, GateInv, PlaceInv, RestoreIsSafe
<1>3. SharedTextPassedBothGates /\ LocalTextPassedItsGate
  BY DEF PublicationAssumption, Init, SharedTextPassedBothGates,
         LocalTextPassedItsGate, MayStandIn, Place
<1> QED  BY <1>1, <1>2, <1>3 DEF IInv

\* The two properties of the texts, once the three areas are sound again.
LEMMA FromAreas ==
    ASSUME PublicationAssumption, Sound(tree)', Sound(index)', Sound(head)'
    PROVE  SharedTextPassedBothGates' /\ LocalTextPassedItsGate'
BY DEF PublicationAssumption, SharedTextPassedBothGates,
       LocalTextPassedItsGate, Sound, Place

LEMMA ToAreas ==
    ASSUME PublicationAssumption, IInv
    PROVE  Sound(tree) /\ Sound(index) /\ Sound(head)
BY AreasAreSound DEF IInv

\* One proposal moves to a stage of its scope, and the files stay as they are.
LEMMA TypeKept ==
    ASSUME TypeOK, NEW p \in Proposal, NEW stage \in Stages(scope[p]),
           at' = [at EXCEPT ![p] = stage],
           UNCHANGED <<tree, index, head, scope, place, backup>>,
           passed' \in [Proposal -> SUBSET {"source", "cross"}]
    PROVE  TypeOK'
<1>1. scope[p] \in {"task", "global"}
  BY DEF TypeOK
<1>2. stage \in Stages("task") \cup Stages("global")
  BY <1>1
<1>3. at' \in [Proposal -> Stages("task") \cup Stages("global")]
  BY <1>2 DEF TypeOK
<1>4. \A q \in Proposal : at'[q] \in Stages(scope'[q])
  BY DEF TypeOK
<1> QED  BY <1>3, <1>4 DEF TypeOK

\* A gate that passes.
LEMMA GateStep ==
    ASSUME PublicationAssumption, IInv, NEW p \in Proposal,
           SourceGatePasses(p) \/ CrossGatePasses(p)
    PROVE  IInv'
<1> USE DEF IInv
<1>1. PICK gate \in {"source", "cross"} :
          /\ passed' = [passed EXCEPT ![p] = @ \cup {gate}]
          /\ at' = [at EXCEPT ![p] = "write"]
          /\ gate = "source" => at[p] = "queued"
          /\ gate = "cross" => at[p] = "gate"
  <2>1. CASE SourceGatePasses(p)
    <3> WITNESS "source" \in {"source", "cross"}
    <3> QED  BY <2>1 DEF SourceGatePasses
  <2>2. CASE CrossGatePasses(p)
    <3> WITNESS "cross" \in {"source", "cross"}
    <3> QED  BY <2>2 DEF CrossGatePasses
  <2> QED  BY <2>1, <2>2
<1>2. UNCHANGED <<tree, index, head, scope, place, backup>>
  BY DEF SourceGatePasses, CrossGatePasses, files, git
<1>3. TypeOK'
  <2>1. passed' \in [Proposal -> SUBSET {"source", "cross"}]
    BY <1>1 DEF TypeOK
  <2> QED  BY <1>1, <1>2, <2>1, TypeKept DEF Stages, InApply
<1>4. \A text, w : MayStandIn(text, w) => MayStandIn(text, w)'
  BY <1>1, GatesOnlyAdd
<1>5. GateInv'
  BY <1>1, <1>2 DEF TypeOK, GateInv, Stages, InApply
<1>6. PlaceInv'
  BY <1>1, <1>2 DEF TypeOK, PlaceInv
<1>7. RestoreIsSafe'
  <2> SUFFICES ASSUME NEW q \in Proposal, at'[q] \in {"add", "commit"}
               PROVE  MayStandIn(backup[q], place[q])'
    BY DEF RestoreIsSafe
  <2>1. at[q] \in {"add", "commit"}
    BY <1>1 DEF TypeOK
  <2>2. MayStandIn(backup[q], place[q])
    BY <2>1 DEF RestoreIsSafe
  <2> QED  BY <2>2, <1>2, <1>4 DEF MayStandIn
<1>8. Sound(tree)' /\ Sound(index)' /\ Sound(head)'
  BY ToAreas, <1>2, <1>4 DEF Sound
<1> QED  BY <1>3, <1>5, <1>6, <1>7, <1>8, FromAreas

\* A step that passes no gate keeps the invariant if it keeps the areas sound
\* and the other parts.
LEMMA FilesStep ==
    ASSUME PublicationAssumption, IInv, TypeOK', GateInv', PlaceInv',
           RestoreIsSafe', UNCHANGED passed,
           Sound(tree'), Sound(index'), Sound(head')
    PROVE  IInv'
<1>1. Sound(tree)' /\ Sound(index)' /\ Sound(head)'
  BY DEF Sound, MayStandIn
<1> QED  BY <1>1, FromAreas DEF IInv

\* An end, or a stage without writes: no text is written anywhere.
LEMMA PlainStep ==
    ASSUME PublicationAssumption, IInv, NEW p \in Proposal,
           \/ SourceGateFails(p) \/ ApplyRefuses(p)
           \/ CrossGateFails(p) \/ NothingToRemove(p)
    PROVE  IInv'
<1>1. PICK stage \in {"rejected", "not_promoted", "promoted"} :
          /\ at' = [at EXCEPT ![p] = stage]
          /\ stage = "rejected" => at[p] = "queued"
          /\ stage = "not_promoted" => at[p] \in {"gate", "write"} /\ scope[p] = "global"
          /\ stage = "promoted" => at[p] = "remove"
  <2>1. CASE SourceGateFails(p)
    <3> WITNESS "rejected" \in {"rejected", "not_promoted", "promoted"}
    <3> QED  BY <2>1 DEF SourceGateFails
  <2>2. CASE ApplyRefuses(p) \/ CrossGateFails(p)
    <3>1. at[p] = "gate" => scope[p] = "global"
      BY DEF IInv, TypeOK, Stages, InApply
    <3> WITNESS "not_promoted" \in {"rejected", "not_promoted", "promoted"}
    <3> QED  BY <2>2, <3>1 DEF ApplyRefuses, Unregistered, CrossGateFails
  <2>3. CASE NothingToRemove(p)
    <3> WITNESS "promoted" \in {"rejected", "not_promoted", "promoted"}
    <3> QED  BY <2>3 DEF NothingToRemove
  <2> QED  BY <2>1, <2>2, <2>3
<1>2. UNCHANGED <<tree, index, head, scope, place, backup, passed>>
  BY DEF SourceGateFails, ApplyRefuses, CrossGateFails, NothingToRemove, files, git
<1>3. TypeOK'
  <2>1. stage \in Stages(scope[p])
    BY <1>1 DEF IInv, TypeOK, Stages, InApply
  <2> QED  BY <1>1, <1>2, <2>1, TypeKept DEF IInv, TypeOK
<1>4. GateInv'
  BY <1>1, <1>2 DEF IInv, TypeOK, GateInv, Stages, InApply
<1>5. PlaceInv' /\ RestoreIsSafe'
  BY <1>1, <1>2 DEF IInv, TypeOK, PlaceInv, RestoreIsSafe, MayStandIn
<1>6. Sound(tree') /\ Sound(index') /\ Sound(head')
  BY <1>2, ToAreas
<1> QED  BY <1>2, <1>3, <1>4, <1>5, <1>6, FilesStep

\* The cycle's last commit, and what a promotion removes and records, move
\* texts between the areas of one place, or take them away.
LEMMA MovesStep ==
    ASSUME PublicationAssumption, IInv,
           CycleCommits \/ \E p \in Proposal : RemoveLocal(p) \/ RecordRemoval(p)
    PROVE  IInv'
<1>1. CASE CycleCommits
  <2>1. index' = tree /\ head' = tree
        /\ UNCHANGED <<tree, at, scope, place, backup, passed>>
    BY <1>1 DEF CycleCommits
  <2>2. TypeOK' /\ GateInv' /\ PlaceInv' /\ RestoreIsSafe'
    BY <2>1 DEF IInv, TypeOK, GateInv, PlaceInv, RestoreIsSafe, MayStandIn
  <2>3. Sound(tree') /\ Sound(index') /\ Sound(head')
    BY <2>1, ToAreas
  <2> QED  BY <2>1, <2>2, <2>3, FilesStep
<1>2. ASSUME NEW p \in Proposal, RemoveLocal(p)  PROVE IInv'
  <2>1. /\ tree' = [tree EXCEPT ![SourceOf[p]] = NoText]
        /\ at[p] = "remove" /\ at' = [at EXCEPT ![p] = "record"]
        /\ UNCHANGED <<index, head, scope, place, backup, passed>>
    BY <1>2 DEF RemoveLocal, git
  <2>2. SourceOf[p] \in Place
    BY DEF PublicationAssumption, Place
  <2>3. TypeOK'
    BY <2>1 DEF IInv, TypeOK, Stages, InApply, Text
  <2>4. GateInv' /\ PlaceInv' /\ RestoreIsSafe'
    BY <2>1 DEF IInv, TypeOK, GateInv, PlaceInv, RestoreIsSafe, MayStandIn
  <2>5. MayStandIn(NoText, SourceOf[p])
    BY DEF PublicationAssumption, MayStandIn
  <2>6. Sound(tree')
    BY <2>1, <2>2, <2>5, ToAreas, SoundUpdate DEF IInv, TypeOK
  <2>7. Sound(index') /\ Sound(head')
    BY <2>1, ToAreas
  <2> QED  BY <2>1, <2>3, <2>4, <2>6, <2>7, FilesStep
<1>3. ASSUME NEW p \in Proposal, RecordRemoval(p)  PROVE IInv'
  <2>1. /\ index' = [index EXCEPT ![SourceOf[p]] = tree[SourceOf[p]]] \/ index' = index
        /\ head' = index' \/ head' = head
        /\ at[p] = "record" /\ at' = [at EXCEPT ![p] = "promoted"]
        /\ UNCHANGED <<tree, scope, place, backup, passed>>
    BY <1>3 DEF RecordRemoval
  <2>2. SourceOf[p] \in Place
    BY DEF PublicationAssumption, Place
  <2>3. TypeOK'
    BY <2>1, <2>2 DEF IInv, TypeOK, Stages, InApply
  <2>4. GateInv' /\ PlaceInv' /\ RestoreIsSafe'
    BY <2>1 DEF IInv, TypeOK, GateInv, PlaceInv, RestoreIsSafe, MayStandIn
  <2>5. MayStandIn(tree[SourceOf[p]], SourceOf[p])
    BY <2>2, ToAreas DEF Sound
  <2>6. Sound(index')
    BY <2>1, <2>2, <2>5, ToAreas, SoundUpdate DEF IInv, TypeOK
  <2>7. Sound(tree') /\ Sound(head')
    BY <2>1, <2>6, ToAreas
  <2> QED  BY <2>1, <2>3, <2>4, <2>6, <2>7, FilesStep
<1> QED  BY <1>1, <1>2, <1>3

\* The place an apply works on, and the text it holds there.
LEMMA ApplyPlace ==
    ASSUME PublicationAssumption, IInv, NEW p \in Proposal, at[p] \in {"add", "commit"}
    PROVE  /\ place[p] \in Place
           /\ MayStandIn(tree[place[p]], place[p])
           /\ MayStandIn(head[place[p]], place[p])
           /\ MayStandIn(backup[p], place[p])
<1>1. place[p] \in Place
  BY DEF IInv, TypeOK
<1>2. MayStandIn(tree[place[p]], place[p]) /\ MayStandIn(head[place[p]], place[p])
  BY <1>1, ToAreas DEF Sound
<1>3. MayStandIn(backup[p], place[p])
  BY DEF IInv, RestoreIsSafe
<1> QED  BY <1>1, <1>2, <1>3

\* What is written passed the gates the place asks for, and what was there
\* before may be put back.
LEMMA WriteStep ==
    ASSUME PublicationAssumption, IInv, NEW p \in Proposal, ApplyWrites(p)
    PROVE  IInv'
<1> DEFINE w == Target(p)
<1>1. /\ at[p] = "write" /\ at' = [at EXCEPT ![p] = "add"]
      /\ place' = [place EXCEPT ![p] = w]
      /\ backup' = [backup EXCEPT ![p] = tree[w]]
      /\ tree' = [tree EXCEPT ![w] = p]
      /\ UNCHANGED <<index, head, scope, passed>>
  BY DEF ApplyWrites, git
<1>2. /\ w \in Place
      /\ w = SourceOf[p] \/ (w = Shared /\ scope[p] = "global")
  BY TargetIsAPlace DEF IInv
<1> HIDE DEF w
<1>3. MayStandIn(p, w)
  BY <1>1, <1>2, OwnTextMayStand DEF IInv, InApply
<1>4. TypeOK'
  <2>1. tree' \in [Place -> Text] /\ backup' \in [Proposal -> Text]
    BY <1>1, <1>2 DEF IInv, TypeOK, Text
  <2>2. place' \in [Proposal -> Place]
    BY <1>1, <1>2 DEF IInv, TypeOK
  <2>3. at' \in [Proposal -> Stages("task") \cup Stages("global")]
    BY <1>1 DEF IInv, TypeOK, Stages, InApply
  <2>4. \A q \in Proposal : at'[q] \in Stages(scope'[q])
    BY <1>1 DEF IInv, TypeOK, Stages, InApply
  <2> QED  BY <1>1, <2>1, <2>2, <2>3, <2>4 DEF IInv, TypeOK
<1>5. GateInv'
  BY <1>1 DEF IInv, TypeOK, GateInv
<1>6. PlaceInv'
  BY <1>1, <1>2 DEF IInv, TypeOK, PlaceInv
<1>7. RestoreIsSafe'
  <2> SUFFICES ASSUME NEW q \in Proposal, at'[q] \in {"add", "commit"}
               PROVE  MayStandIn(backup'[q], place'[q])
    BY <1>1 DEF RestoreIsSafe, MayStandIn
  <2>1. CASE q = p
    <3>1. MayStandIn(tree[w], w)
      BY <1>2, ToAreas DEF Sound
    <3>2. backup'[q] = tree[w] /\ place'[q] = w
      BY <1>1, <2>1 DEF IInv, TypeOK
    <3> QED  BY <3>1, <3>2
  <2>2. CASE q # p
    <3>1. backup'[q] = backup[q] /\ place'[q] = place[q] /\ at'[q] = at[q]
      BY <1>1, <2>2 DEF IInv, TypeOK
    <3> QED  BY <3>1 DEF IInv, RestoreIsSafe
  <2> QED  BY <2>1, <2>2
<1>8. Sound(tree')
  BY <1>1, <1>2, <1>3, ToAreas, SoundUpdate DEF IInv, TypeOK
<1>9. Sound(index') /\ Sound(head')
  BY <1>1, ToAreas
<1> QED  BY <1>1, <1>4, <1>5, <1>6, <1>7, <1>8, <1>9, FilesStep

LEMMA AddStep ==
    ASSUME PublicationAssumption, IInv, NEW p \in Proposal, ApplyAdds(p)
    PROVE  IInv'
<1>1. /\ at[p] = "add" /\ at' = [at EXCEPT ![p] = "commit"]
      /\ index' = [index EXCEPT ![place[p]] = tree[place[p]]] \/ index' = index
      /\ UNCHANGED <<tree, head, scope, place, backup, passed>>
  BY DEF ApplyAdds
<1>2. place[p] \in Place /\ MayStandIn(tree[place[p]], place[p])
  BY <1>1, ApplyPlace
<1>3. TypeOK'
  <2>1. index' \in [Place -> Text]
    BY <1>1, <1>2 DEF IInv, TypeOK
  <2>2. at' \in [Proposal -> Stages("task") \cup Stages("global")]
    BY <1>1 DEF IInv, TypeOK, Stages, InApply
  <2>3. \A q \in Proposal : at'[q] \in Stages(scope'[q])
    BY <1>1 DEF IInv, TypeOK, Stages, InApply
  <2> QED  BY <1>1, <2>1, <2>2, <2>3 DEF IInv, TypeOK
<1>4. GateInv' /\ PlaceInv' /\ RestoreIsSafe'
  BY <1>1 DEF IInv, TypeOK, GateInv, PlaceInv, RestoreIsSafe, MayStandIn
<1>5. Sound(index')
  BY <1>1, <1>2, ToAreas, SoundUpdate DEF IInv, TypeOK
<1>6. Sound(tree') /\ Sound(head')
  BY <1>1, ToAreas
<1> QED  BY <1>1, <1>3, <1>4, <1>5, <1>6, FilesStep

\* The commit takes the text that stands in the place by then, whoever wrote it.
LEMMA CommitStep ==
    ASSUME PublicationAssumption, IInv, NEW p \in Proposal, ApplyCommits(p)
    PROVE  IInv'
<1>1. /\ at[p] = "commit"
      /\ head' = [head EXCEPT ![place[p]] = tree[place[p]]]
      /\ index' = [index EXCEPT ![place[p]] = tree[place[p]]]
      /\ UNCHANGED <<tree, place, backup, passed>>
      /\ \/ scope[p] = "global" /\ at' = [at EXCEPT ![p] = "remove"] /\ scope' = scope
         \/ scope[p] # "global" /\ at' = [at EXCEPT ![p] = "installed"] /\ scope' = scope
         \/ scope[p] # "global" /\ at' = [at EXCEPT ![p] = "gate"]
            /\ scope' = [scope EXCEPT ![p] = "global"]
  BY DEF ApplyCommits
<1>2. place[p] \in Place /\ MayStandIn(tree[place[p]], place[p])
  BY <1>1, ApplyPlace
<1>3. TypeOK'
  <2>1. head' \in [Place -> Text] /\ index' \in [Place -> Text]
    BY <1>1, <1>2 DEF IInv, TypeOK
  <2>2. /\ scope' \in [Proposal -> {"task", "global"}]
        /\ at' \in [Proposal -> Stages("task") \cup Stages("global")]
    BY <1>1 DEF IInv, TypeOK, Stages, InApply
  <2>3. \A q \in Proposal : at'[q] \in Stages(scope'[q])
    BY <1>1 DEF IInv, TypeOK, Stages, InApply
  <2> QED  BY <1>1, <2>1, <2>2, <2>3 DEF IInv, TypeOK
<1>4. GateInv'
  BY <1>1 DEF IInv, TypeOK, GateInv
<1>5. PlaceInv' /\ RestoreIsSafe'
  BY <1>1 DEF IInv, TypeOK, PlaceInv, RestoreIsSafe, MayStandIn
<1>6. Sound(index') /\ Sound(head')
  BY <1>1, <1>2, ToAreas, SoundUpdate DEF IInv, TypeOK
<1>7. Sound(tree')
  BY <1>1, ToAreas
<1> QED  BY <1>1, <1>3, <1>4, <1>5, <1>6, <1>7, FilesStep

LEMMA FailStep ==
    ASSUME PublicationAssumption, IInv, NEW p \in Proposal, ApplyFails(p)
    PROVE  IInv'
<1>1. /\ at[p] = "commit"
      /\ index' = [index EXCEPT ![place[p]] = head[place[p]]] \/ index' = index
      /\ tree' = [tree EXCEPT ![place[p]] = backup[p]]
      /\ at' = [at EXCEPT ![p] = IF scope[p] = "global" THEN "not_promoted" ELSE "failed"]
      /\ UNCHANGED <<head, scope, place, backup, passed>>
  BY DEF ApplyFails
<1>2. /\ place[p] \in Place
      /\ MayStandIn(head[place[p]], place[p]) /\ MayStandIn(backup[p], place[p])
  BY <1>1, ApplyPlace
<1>3. TypeOK'
  <2>1. index' \in [Place -> Text] /\ tree' \in [Place -> Text]
    BY <1>1, <1>2 DEF IInv, TypeOK
  <2>2. at' \in [Proposal -> Stages("task") \cup Stages("global")]
    BY <1>1 DEF IInv, TypeOK, Stages, InApply
  <2>3. \A q \in Proposal : at'[q] \in Stages(scope'[q])
    BY <1>1 DEF IInv, TypeOK, Stages, InApply
  <2> QED  BY <1>1, <2>1, <2>2, <2>3 DEF IInv, TypeOK
<1>4. GateInv'
  BY <1>1 DEF IInv, TypeOK, GateInv
<1>5. PlaceInv' /\ RestoreIsSafe'
  BY <1>1 DEF IInv, TypeOK, PlaceInv, RestoreIsSafe, MayStandIn
<1>6. Sound(index')
  BY <1>1, <1>2, ToAreas, SoundUpdate DEF IInv, TypeOK
<1>7. Sound(tree')
  BY <1>1, <1>2, ToAreas, SoundUpdate DEF IInv, TypeOK
<1>8. Sound(head')
  BY <1>1, ToAreas
<1> QED  BY <1>1, <1>3, <1>4, <1>5, <1>6, <1>7, <1>8, FilesStep

LEMMA Induction ==
    ASSUME PublicationAssumption, IInv, [Next]_vars
    PROVE  IInv'
<1>1. CASE CycleCommits
  BY <1>1, MovesStep
<1>2. ASSUME NEW p \in Proposal, Step(p)  PROVE IInv'
  <2>1. CASE SourceGatePasses(p) \/ CrossGatePasses(p)
    BY <2>1, GateStep
  <2>2. CASE \/ SourceGateFails(p) \/ ApplyRefuses(p)
             \/ CrossGateFails(p) \/ NothingToRemove(p)
    BY <2>2, PlainStep
  <2>3. CASE ApplyWrites(p)
    BY <2>3, WriteStep
  <2>4. CASE ApplyAdds(p)
    BY <2>4, AddStep
  <2>5. CASE ApplyCommits(p)
    BY <2>5, CommitStep
  <2>6. CASE ApplyFails(p)
    BY <2>6, FailStep
  <2>7. CASE RemoveLocal(p) \/ RecordRemoval(p)
    BY <2>7, MovesStep
  <2> QED  BY <1>2, <2>1, <2>2, <2>3, <2>4, <2>5, <2>6, <2>7 DEF Step
<1>3. CASE UNCHANGED vars
  <2>1. UNCHANGED <<tree, index, head, at, scope, place, backup, passed>>
    BY <1>3 DEF vars, files, git
  <2>2. TypeOK' /\ GateInv' /\ PlaceInv' /\ RestoreIsSafe'
    BY <2>1 DEF IInv, TypeOK, GateInv, PlaceInv, RestoreIsSafe, MayStandIn
  <2>3. Sound(tree') /\ Sound(index') /\ Sound(head')
    BY <2>1, ToAreas
  <2> QED  BY <2>1, <2>2, <2>3, FilesStep
<1> QED  BY <1>1, <1>2, <1>3 DEF Next
-----------------------------------------------------------------------------
\* The inductive invariant holds in every state the cycle and the promotions
\* reach.
THEOREM InvariantHolds == Spec => []IInv
<1>1. Init => IInv
  BY PublicationAssumption, InitInv
<1>2. IInv /\ [Next]_vars => IInv'
  BY PublicationAssumption, Induction
<1> QED  BY <1>1, <1>2, PTL DEF Spec

\* Texts, stages and places keep their types; a stage belongs to its scope.
THEOREM TypeCorrect == Spec => []TypeOK
<1>1. IInv => TypeOK
  BY DEF IInv
<1> QED  BY <1>1, InvariantHolds, PTL

\* apply_proposal.py, promote.py: the shared skill never holds a text that was
\* not shipped and did not pass the gate on other tasks, though promotions take
\* no lock and an apply puts back what it read before others wrote.
THEOREM SharedTextIsValidated == Spec => []SharedTextPassedBothGates
<1>1. IInv => SharedTextPassedBothGates
  BY DEF IInv
<1> QED  BY <1>1, InvariantHolds, PTL

\* apply_proposal.py: a task's own revision was validated on that task.
THEOREM LocalTextIsValidated == Spec => []LocalTextPassedItsGate
<1>1. IInv => LocalTextPassedItsGate
  BY DEF IInv
<1> QED  BY <1>1, InvariantHolds, PTL

\* apply_proposal.py, _restore_backups: what a failed commit puts back may
\* stand where it is put.
THEOREM RestoresAreSafe == Spec => []RestoreIsSafe
<1>1. IInv => RestoreIsSafe
  BY DEF IInv
<1> QED  BY <1>1, InvariantHolds, PTL

-----------------------------------------------------------------------------
(***************************************************************************)
(* The desk, for any number of proposals, clerks, messages and deliveries: *)
(* no proposal is lost to commands that meet, a draft is activated on the  *)
(* last word said of it, and a message is worked on once.                  *)
(***************************************************************************)
\* Who is about to unlink a file has put the proposal in an archive, in the
\* other one where the file is an archive's: nothing takes it out of there.
FiledInv == \A c \in Clerk :
    /\ job[c].at = "unlink" =>
           /\ archive[job[c].p] # {}
           /\ job[c].read = "applied" => "rejected" \in archive[job[c].p]
    /\ job[c].at = "commit" => job[c].p \in Candidate

\* A draft's file says what was said of it last, where it was not overwritten;
\* nobody writes the file of a draft that does not exist.
WordInv ==
    /\ \A d \in Draft :
           /\ overwritten[d] \/ queue[d] \in {NoFile, said[d]}
           /\ waiter[d] = "unborn" => queue[d] = NoFile /\ said[d] = "pending"
    /\ \A c \in Clerk : job[c].at = "write" =>
           /\ job[c].read \in Status
           /\ job[c].p \in Draft => waiter[job[c].p] # "unborn"

\* A delivery whose event it recorded is the only one of its message from there
\* on; its message has no end yet.
Recorded == {"accept", "wait", "work", "answer"}

TurnInv ==
    /\ \A d, e \in Delivery :
           d[1] = e[1] /\ thread[d] \in Recorded /\ thread[e] \in Recorded => d = e
    /\ \A d \in Delivery :
           thread[d] \in Recorded => d[1] \in seen \ (answered \cup dropped)
    /\ answered \cup dropped \subseteq seen

OperatorInv == OperatorTypeOK /\ FiledInv /\ WordInv /\ TurnInv

Job == [op : {"none", "approve", "reject", "annotate", "apply", "archive"}, p : Submission,
        read : Status \cup {NoFile, "applied"},
        at : {"begin", "write", "commit", "file", "unlink", "done"}]

LEMMA Desks ==
    /\ DeskTypeOK <=>
           /\ queue \in [Submission -> Status \cup {NoFile}]
           /\ archive \in [Submission -> SUBSET {"applied", "rejected"}]
           /\ committed \subseteq Candidate
           /\ job \in [Clerk -> Job]
           /\ waiter \in [Draft -> {"unborn", "waiting", "activated", "refused"}]
           /\ said \in [Draft -> Status] /\ overwritten \in [Draft -> BOOLEAN]
    /\ Idle \in Job /\ Idle.at = "done"
    /\ \A d \in Draft : d \in Submission /\ d \notin Candidate
    /\ \A m \in Message : m \in Clerk
    /\ \A d \in Delivery : d[1] \in Message /\ d = <<d[1], d[2]>>
    /\ \A m \in Message : \A n \in 1 .. MaxDeliveries[m] : <<m, n>> \in Delivery
<1>1. \E p \in Submission : TRUE
  BY DraftAssumption DEF Submission
<1>2. Idle \in Job /\ Idle.at = "done"
  BY <1>1 DEF Idle, Job
<1>3. \A d \in Draft : d \in Submission /\ d \notin Candidate
  BY DraftAssumption DEF Submission
<1>4. \A m \in Message : m \in Clerk
  BY ClerkAssumption
<1>5. ASSUME NEW d \in Delivery PROVE d[1] \in Message /\ d = <<d[1], d[2]>>
  BY DEF Delivery
<1>6. ASSUME NEW m \in Message, NEW n \in 1 .. MaxDeliveries[m] PROVE <<m, n>> \in Delivery
  BY DEF Delivery
<1> QED BY <1>2, <1>3, <1>4, <1>5, <1>6 DEF DeskTypeOK, Job

(* What a command is after one of its steps. *)
LEMMA JobsGo ==
    ASSUME NEW j \in Job, NEW stop \in {"write", "commit", "file", "unlink", "done"}
    PROVE  /\ Going(j, stop) \in Job /\ Going(j, stop).at = stop
           /\ stop # "done" => Going(j, stop).p = j.p /\ Going(j, stop).read = j.read
BY Desks DEF Going, Job

LEMMA JobReading ==
    ASSUME NEW j \in Job, NEW what \in Status \cup {NoFile, "applied"}
    PROVE  /\ [j EXCEPT !.read = what] \in Job
           /\ [j EXCEPT !.read = what].p = j.p /\ [j EXCEPT !.read = what].read = what
BY DEF Job


(* A step that moves one command, or none, and changes no file. *)
LEMMA CommandMoves ==
    ASSUME OperatorInv, UNCHANGED <<queue, archive, waiter, said, overwritten>>,
           committed' \subseteq Candidate,
           NEW c \in Clerk, NEW j \in Job, job' = [job EXCEPT ![c] = j],
           j.at # "unlink", j.at = "write" => queue[j.p] # NoFile /\ j.read \in Status,
           j.at = "commit" => j.p \in Candidate
    PROVE  DeskTypeOK' /\ FiledInv' /\ WordInv'
<1>1. /\ job \in [Clerk -> Job] /\ DeskTypeOK
      /\ FiledInv /\ WordInv
  BY Desks DEF OperatorInv, OperatorTypeOK
<1>2. DeskTypeOK'
  <2>1. job' \in [Clerk -> Job]
    BY <1>1
  <2> QED BY <1>1, <2>1 DEF DeskTypeOK, Job
<1>3. FiledInv'
  BY <1>1 DEF FiledInv
<1>4. WordInv'
  BY <1>1 DEF WordInv
<1> QED BY <1>2, <1>3, <1>4

LEMMA DeskKept ==
    ASSUME OperatorInv, OperatorNext
    PROVE  DeskTypeOK' /\ FiledInv' /\ WordInv'
<1>1. /\ queue \in [Submission -> Status \cup {NoFile}]
      /\ archive \in [Submission -> SUBSET {"applied", "rejected"}]
      /\ committed \subseteq Candidate
      /\ job \in [Clerk -> Job]
      /\ waiter \in [Draft -> {"unborn", "waiting", "activated", "refused"}]
      /\ said \in [Draft -> Status] /\ overwritten \in [Draft -> BOOLEAN]
      /\ FiledInv /\ WordInv /\ DeskTypeOK
  BY Desks DEF OperatorInv, OperatorTypeOK
<1>2. /\ \A c \in Clerk : job[c] \in Job /\ job[c].p \in Submission
      /\ \A d \in Draft : d \in Submission /\ d \notin Candidate
      /\ Idle \in Job /\ Idle.at = "done"
      /\ NoFile \notin Status
  BY <1>1, Desks DEF Job, NoFile, Status
<1>3. CASE UNCHANGED deskVars
  BY <1>1, <1>3 DEF deskVars, DeskTypeOK, FiledInv, WordInv
<1>4. ASSUME NEW p \in Candidate, Propose(p) PROVE DeskTypeOK' /\ FiledInv' /\ WordInv'
  <2>1. /\ queue' = [queue EXCEPT ![p] = "pending"]
        /\ UNCHANGED <<archive, committed, job, waiter, said, overwritten>>
    BY <1>4 DEF Propose
  <2>2. DeskTypeOK'
    BY <1>1, <2>1 DEF DeskTypeOK, Status
  <2>3. \A d \in Draft : queue'[d] = queue[d]
    BY <1>2, <2>1
  <2> QED BY <1>1, <2>1, <2>2, <2>3 DEF FiledInv, WordInv
<1>5. ASSUME NEW d \in Draft, AskForReview(d) PROVE DeskTypeOK' /\ FiledInv' /\ WordInv'
  <2>1. /\ waiter[d] = "unborn" /\ queue' = [queue EXCEPT ![d] = "pending"]
        /\ waiter' = [waiter EXCEPT ![d] = "waiting"]
        /\ UNCHANGED <<archive, committed, job, said, overwritten>>
    BY <1>5 DEF AskForReview
  <2>2. DeskTypeOK'
    BY <1>1, <2>1 DEF DeskTypeOK, Status
  <2>3. WordInv'
    BY <1>1, <2>1 DEF WordInv
  <2> QED BY <1>1, <2>1, <2>2, <2>3 DEF FiledInv
<1>6. ASSUME NEW d \in Draft, Poll(d) \/ PollTimesOut(d)
      PROVE  DeskTypeOK' /\ FiledInv' /\ WordInv'
  <2>1. PICK v \in {"activated", "refused"} :
            /\ waiter[d] = "waiting" /\ waiter' = [waiter EXCEPT ![d] = v]
            /\ UNCHANGED <<queue, archive, committed, job, said, overwritten>>
    BY <1>6 DEF Poll, PollTimesOut
  <2>2. DeskTypeOK'
    BY <1>1, <2>1 DEF DeskTypeOK
  <2>3. WordInv'
    BY <1>1, <2>1 DEF WordInv
  <2> QED BY <1>1, <2>1, <2>2, <2>3 DEF FiledInv
<1>7. ASSUME NEW c \in Clerk, ReadFile(c) PROVE DeskTypeOK' /\ FiledInv' /\ WordInv'
  <2> DEFINE found == queue[job[c].p]
             stop == IF found = NoFile THEN "done" ELSE "write"
             seenJob == [job[c] EXCEPT !.read = found]
             j == Going(seenJob, stop)
  <2>1. /\ job' = [job EXCEPT ![c] = j]
        /\ UNCHANGED <<queue, archive, committed, waiter, said, overwritten>>
    BY <1>7 DEF ReadFile, JobReads
  <2>2. stop \in {"write", "done"} /\ (stop = "write" => found # NoFile /\ found \in Status)
    BY <1>1, <1>2
  <2>3. seenJob \in Job /\ seenJob.p = job[c].p /\ seenJob.read = found
    BY <1>1, <1>2, JobReading
  <2> HIDE DEF seenJob, stop
  <2>4. /\ j \in Job /\ j.at = stop
        /\ stop # "done" => j.p = job[c].p /\ j.read = found
    BY <2>2, <2>3, JobsGo
  <2> HIDE DEF j
  <2> QED BY <1>1, <2>1, <2>2, <2>4, CommandMoves
<1>8. ASSUME NEW c \in Clerk, FindFile(c) PROVE DeskTypeOK' /\ FiledInv' /\ WordInv'
  <2> DEFINE p == job[c].p
             found == IF queue[p] # NoFile THEN queue[p]
                      ELSE IF "applied" \in archive[p] THEN "applied" ELSE NoFile
             stop == CASE found = NoFile -> "done"
                       [] job[c].op = "archive" -> "file"
                       [] p \in Draft -> "done"
                       [] OTHER -> "commit"
             seenJob == [job[c] EXCEPT !.read = found]
             j == Going(seenJob, stop)
  <2>1. /\ job' = [job EXCEPT ![c] = j]
        /\ UNCHANGED <<queue, archive, committed, waiter, said, overwritten>>
    BY <1>8 DEF FindFile, JobReads
  <2>2. stop \in {"done", "file", "commit"} /\ (stop = "commit" => p \in Candidate)
    <3> HIDE DEF found
    <3> QED BY <1>2 DEF Submission
  <2>3. seenJob \in Job /\ seenJob.p = job[c].p
    <3>1. found \in Status \cup {NoFile, "applied"}
      BY <1>1, <1>2
    <3> HIDE DEF found
    <3> QED BY <1>2, <3>1, JobReading
  <2> HIDE DEF seenJob, stop
  <2>4. j \in Job /\ j.at = stop /\ (stop # "done" => j.p = job[c].p)
    BY <2>2, <2>3, JobsGo
  <2> HIDE DEF j
  <2> QED BY <1>1, <2>1, <2>2, <2>4, CommandMoves
<1>9. ASSUME NEW c \in Clerk, Commit(c) \/ Killed(c)
      PROVE  DeskTypeOK' /\ FiledInv' /\ WordInv'
  <2>1. PICK stop \in {"file", "done"} : job' = [job EXCEPT ![c] = Going(job[c], stop)]
    BY <1>9 DEF Commit, Killed, JobGoes
  <2>2. UNCHANGED <<queue, archive, waiter, said, overwritten>> /\ committed' \subseteq Candidate
    <3>1. ASSUME Commit(c), committed' # committed PROVE job[c].p \in Candidate
      BY <1>1, <3>1 DEF Commit, Runs, FiledInv
    <3> QED BY <1>1, <1>9, <3>1 DEF Commit, Killed
  <2> DEFINE j == Going(job[c], stop)
  <2>3. j \in Job /\ j.at = stop
    BY <1>2, JobsGo
  <2>4. job' = [job EXCEPT ![c] = j]
    BY <2>1
  <2> HIDE DEF j
  <2> QED BY <1>1, <2>1, <2>2, <2>3, <2>4, CommandMoves
<1>10. ASSUME NEW c \in Clerk, FlipStatus(c) PROVE DeskTypeOK' /\ FiledInv' /\ WordInv'
  <2> DEFINE p == job[c].p
             s == IF job[c].op = "approve" THEN "approved" ELSE "rejected"
             j == Going(job[c], "done")
  <2>1. /\ queue' = [queue EXCEPT ![p] = s]
        /\ said' = [d \in Draft |-> IF d = p THEN s ELSE said[d]]
        /\ overwritten' = [d \in Draft |-> d # p /\ overwritten[d]]
        /\ job' = [job EXCEPT ![c] = j]
        /\ job[c].at = "write" /\ UNCHANGED <<archive, committed, waiter>>
    BY <1>10 DEF FlipStatus, JobGoes, Runs
  <2>2. j \in Job /\ j.at = "done" /\ s \in Status
    BY <1>2, JobsGo DEF Status
  <2> HIDE DEF j, s
  <2>3. DeskTypeOK'
    <3>1. overwritten' \in [Draft -> BOOLEAN] /\ said' \in [Draft -> Status]
      BY <1>1, <2>1, <2>2
    <3>2. queue' \in [Submission -> Status \cup {NoFile}] /\ job' \in [Clerk -> Job]
      BY <1>1, <2>1, <2>2
    <3> QED BY <1>1, <2>1, <3>1, <3>2 DEF DeskTypeOK, Job
  <2>4. FiledInv'
    BY <1>1, <2>1, <2>2 DEF FiledInv
  <2>5. ASSUME NEW d \in Draft
        PROVE  /\ overwritten'[d] \/ queue'[d] \in {NoFile, said'[d]}
               /\ waiter'[d] = "unborn" => queue'[d] = NoFile /\ said'[d] = "pending"
    <3>1. CASE d = p
      BY <1>1, <1>2, <2>1 DEF WordInv
    <3>2. CASE d # p
      BY <1>1, <2>1, <3>2 DEF WordInv
    <3> QED BY <3>1, <3>2
  <2>6. WordInv'
    BY <1>1, <2>1, <2>2, <2>5 DEF WordInv
  <2> QED BY <2>3, <2>4, <2>6
<1>11. ASSUME NEW c \in Clerk, WriteBack(c) PROVE DeskTypeOK' /\ FiledInv' /\ WordInv'
  <2> DEFINE p == job[c].p
             j == Going(job[c], "done")
  <2>1. /\ queue' = [queue EXCEPT ![p] = job[c].read]
        /\ overwritten' = [d \in Draft |->
                 overwritten[d] \/ (d = p /\ queue[p] # job[c].read)]
        /\ job' = [job EXCEPT ![c] = j]
        /\ job[c].at = "write" /\ UNCHANGED <<archive, committed, waiter, said>>
    BY <1>11 DEF WriteBack, JobGoes, Runs
  <2>2. j \in Job /\ j.at = "done"
    BY <1>2, JobsGo
  <2> HIDE DEF j
  <2>3. DeskTypeOK'
    <3>1. overwritten' \in [Draft -> BOOLEAN]
      BY <2>1
    <3>2. queue' \in [Submission -> Status \cup {NoFile}] /\ job' \in [Clerk -> Job]
      BY <1>1, <2>1, <2>2 DEF WordInv
    <3> QED BY <1>1, <2>1, <3>1, <3>2 DEF DeskTypeOK, Job
  <2>4. FiledInv'
    BY <1>1, <2>1, <2>2 DEF FiledInv
  <2>5. ASSUME NEW d \in Draft
        PROVE  /\ overwritten'[d] \/ queue'[d] \in {NoFile, said'[d]}
               /\ waiter'[d] = "unborn" => queue'[d] = NoFile /\ said'[d] = "pending"
    <3>1. CASE d = p
      BY <1>1, <1>2, <2>1 DEF WordInv
    <3>2. CASE d # p
      BY <1>1, <2>1, <3>2 DEF WordInv
    <3> QED BY <3>1, <3>2
  <2>6. WordInv'
    BY <1>1, <2>1, <2>2, <2>5 DEF WordInv
  <2> QED BY <2>3, <2>4, <2>6
<1>12. ASSUME NEW c \in Clerk, FileAway(c) PROVE DeskTypeOK' /\ FiledInv' /\ WordInv'
  <2> DEFINE p == job[c].p
             stop == IF job[c].read = Verdict(c) THEN "done" ELSE "unlink"
             filed == archive[p] \cup {Verdict(c)}
             j == Going(job[c], stop)
  <2>1. /\ archive' = [archive EXCEPT ![p] = filed]
        /\ job' = [job EXCEPT ![c] = j]
        /\ UNCHANGED <<queue, committed, waiter, said, overwritten>>
    BY <1>12 DEF FileAway, JobGoes
  <2>2. stop \in {"unlink", "done"} /\ Verdict(c) \in {"applied", "rejected"}
    BY DEF Verdict
  <2>3. stop = "unlink" /\ job[c].read = "applied" => Verdict(c) = "rejected"
    BY <2>2
  <2>4. /\ filed # {} /\ archive[p] \subseteq filed
        /\ filed \subseteq {"applied", "rejected"} /\ Verdict(c) \in filed
    BY <1>1, <1>2, <2>2
  <2> HIDE DEF stop, filed
  <2>5. /\ j \in Job /\ j.at = stop
        /\ stop # "done" => j.p = p /\ j.read = job[c].read
    BY <1>2, <2>2, JobsGo
  <2> HIDE DEF j
  <2>6. archive' \in [Submission -> SUBSET {"applied", "rejected"}] /\ job' \in [Clerk -> Job]
    BY <1>1, <2>1, <2>4, <2>5
  <2>7. DeskTypeOK'
    BY <1>1, <2>1, <2>6 DEF DeskTypeOK, Job
  <2>8. \A q \in Submission : archive[q] \subseteq archive'[q]
    BY <2>1, <2>4
  <2>9. FiledInv'
    <3>1. ASSUME NEW e \in Clerk
          PROVE  /\ job'[e].at = "unlink" =>
                        /\ archive'[job'[e].p] # {}
                        /\ job'[e].read = "applied" => "rejected" \in archive'[job'[e].p]
                 /\ job'[e].at = "commit" => job'[e].p \in Candidate
      <4>1. CASE e = c
        BY <1>1, <1>2, <2>1, <2>2, <2>3, <2>4, <2>5, <4>1
      <4>2. CASE e # c
        BY <1>1, <2>1, <2>8, <4>2 DEF FiledInv
      <4> QED BY <4>1, <4>2
    <3> QED BY <3>1 DEF FiledInv
  <2>10. WordInv'
    BY <1>1, <2>1, <2>2, <2>5 DEF WordInv
  <2> QED BY <2>7, <2>9, <2>10
<1>13. ASSUME NEW c \in Clerk, Unlink(c) PROVE DeskTypeOK' /\ FiledInv' /\ WordInv'
  <2> DEFINE p == job[c].p
             j == Going(job[c], "done")
  <2>1. /\ job' = [job EXCEPT ![c] = j]
        /\ \/ /\ job[c].read = "applied" /\ UNCHANGED queue
              /\ archive' = [archive EXCEPT ![p] = @ \ {"applied"}]
           \/ queue' = [queue EXCEPT ![p] = NoFile] /\ UNCHANGED archive
        /\ job[c].at = "unlink" /\ UNCHANGED <<committed, waiter, said, overwritten>>
    BY <1>13 DEF Unlink, JobGoes, Runs
  <2>2. j \in Job /\ j.at = "done"
    BY <1>2, JobsGo
  <2> HIDE DEF j
  <2>3. job' \in [Clerk -> Job]
    BY <1>1, <2>1, <2>2
  <2>4. CASE UNCHANGED archive /\ queue' = [queue EXCEPT ![p] = NoFile]
    <3>1. DeskTypeOK'
      BY <1>1, <2>1, <2>3 DEF DeskTypeOK, Job
    <3>2. FiledInv'
      BY <1>1, <2>1, <2>2, <2>4 DEF FiledInv
    <3>3. WordInv'
      BY <1>1, <2>1, <2>2, <2>4 DEF WordInv
    <3> QED BY <3>1, <3>2, <3>3
  <2>5. CASE /\ job[c].read = "applied" /\ UNCHANGED queue
             /\ archive' = [archive EXCEPT ![p] = @ \ {"applied"}]
    <3>1. DeskTypeOK'
      BY <1>1, <2>1, <2>3 DEF DeskTypeOK, Job
    <3>2. "rejected" \in archive'[p]
      BY <1>1, <2>1, <2>5 DEF FiledInv
    <3>3. \A q \in Submission : q # p => archive'[q] = archive[q]
      BY <2>5
    <3>5. ASSUME NEW e \in Clerk
          PROVE  /\ job'[e].at = "unlink" =>
                        /\ archive'[job'[e].p] # {}
                        /\ job'[e].read = "applied" => "rejected" \in archive'[job'[e].p]
                 /\ job'[e].at = "commit" => job'[e].p \in Candidate
      <4>1. CASE e = c
        BY <1>1, <2>1, <2>2, <4>1
      <4>2. CASE e # c
        BY <1>1, <1>2, <2>1, <4>2 DEF FiledInv
      <4> QED BY <4>1, <4>2
    <3>6. FiledInv'
      BY <3>5 DEF FiledInv
    <3>7. WordInv'
      BY <1>1, <2>1, <2>2, <2>5 DEF WordInv
    <3> QED BY <3>1, <3>6, <3>7
  <2> QED BY <2>1, <2>4, <2>5
<1>14. ASSUME NEW c \in Clerk, NEW op \in ChatOps \cup WalkerOps, NEW p \in Submission,
              Start(c, op, p),
              UNCHANGED <<queue, archive, committed, waiter, said, overwritten>>
       PROVE  DeskTypeOK' /\ FiledInv' /\ WordInv'
  <2> DEFINE j == [op |-> op, p |-> p, at |-> "begin", read |-> NoFile]
  <2>1. j \in Job /\ j.at = "begin"
    BY DEF Job, ChatOps, WalkerOps
  <2>2. job' = [job EXCEPT ![c] = j]
    BY <1>14 DEF Start
  <2> HIDE DEF j
  <2> QED BY <1>1, <1>14, <2>1, <2>2, CommandMoves
<1>15. ASSUME Crash PROVE DeskTypeOK' /\ FiledInv' /\ WordInv'
  <2>1. /\ job' = [c \in Clerk |->
                     IF c \in Message /\ job[c].op = "annotate" THEN Idle ELSE job[c]]
        /\ UNCHANGED <<queue, archive, committed, waiter, said, overwritten>>
    BY <1>15 DEF Crash
  <2>2. job' \in [Clerk -> Job]
    BY <1>2, <2>1
  <2>3. \A c \in Clerk : job'[c].at = "done" \/ job'[c] = job[c]
    BY <1>2, <2>1
  <2>4. DeskTypeOK'
    BY <1>1, <2>1, <2>2 DEF DeskTypeOK, Job
  <2> QED BY <1>1, <2>1, <2>3, <2>4 DEF FiledInv, WordInv
<1>16. ASSUME NEW w \in Walker, Walk(w) PROVE DeskTypeOK' /\ FiledInv' /\ WordInv'
  <2>1. w \in Clerk
    BY ClerkAssumption
  <2> QED BY <1>14, <1>16, <2>1 DEF Walk
<1>17. ASSUME NEW d \in Delivery, BeginWork(d) PROVE DeskTypeOK' /\ FiledInv' /\ WordInv'
  <2>1. /\ d[1] \in Clerk /\ Command[d[1]].op \in ChatOps
        /\ Command[d[1]].p \in Submission
    BY Desks, CommandAssumption
  <2>2. CASE UNCHANGED job
    BY <1>3, <1>17, <2>2 DEF BeginWork, deskVars
  <2>3. CASE Start(d[1], Command[d[1]].op, Command[d[1]].p)
    BY <1>14, <1>17, <2>1, <2>3 DEF BeginWork
  <2> QED BY <1>17, <2>2, <2>3 DEF BeginWork
<1>18. CASE Desk
  <2>1. ASSUME NEW c \in Clerk, JobStep(c) \/ Killed(c)
        PROVE  DeskTypeOK' /\ FiledInv' /\ WordInv'
    BY <1>7, <1>8, <1>9, <1>10, <1>11, <1>12, <1>13, <2>1 DEF JobStep
  <2> QED BY <1>4, <1>5, <1>6, <1>18, <2>1 DEF Desk
<1>19. ASSUME NEW d \in Delivery, EndWork(d) PROVE UNCHANGED deskVars
  BY <1>19 DEF EndWork
<1> QED BY <1>3, <1>15, <1>16, <1>17, <1>18, <1>19 DEF OperatorNext

(* A delivery that goes on without its event's being recorded now; nothing   *)
(* that was recorded is forgotten.                                           *)
LEMMA ThreadMoves ==
    ASSUME ChannelTypeOK, TurnInv, NEW d \in Delivery, NEW stop \in Stage,
           ThreadGoes(d, stop), UNCHANGED <<seen, answered, dropped>>,
           acked' \subseteq Message,
           stop \in Recorded => thread[d] \in Recorded
    PROVE  ChannelTypeOK' /\ TurnInv'
<1>1. /\ thread \in [Delivery -> Stage] /\ thread' = [thread EXCEPT ![d] = stop]
  BY DEF ChannelTypeOK, ThreadGoes
<1>2. ChannelTypeOK'
  BY <1>1 DEF ChannelTypeOK
<1>3. \A e \in Delivery : thread'[e] \in Recorded => thread[e] \in Recorded
  BY <1>1
<1>4. TurnInv'
  BY <1>3 DEF TurnInv
<1> QED BY <1>2, <1>4

LEMMA ChannelKept ==
    ASSUME OperatorInv, OperatorNext
    PROVE  ChannelTypeOK' /\ TurnInv'
<1>1. ChannelTypeOK /\ TurnInv /\ thread \in [Delivery -> Stage]
  BY DEF OperatorInv, OperatorTypeOK, ChannelTypeOK
<1>2. CASE UNCHANGED channelVars
  BY <1>1, <1>2 DEF channelVars, ChannelTypeOK, TurnInv
<1>3. ASSUME NEW d \in Delivery,
             Deliver(d) \/ LookUp(d) \/ LookUpFails(d) \/ Accept(d) \/ TakeTurn(d) \/ WorkEnds(d)
      PROVE  ChannelTypeOK' /\ TurnInv'
  <2>1. PICK stop \in Stage :
            ThreadGoes(d, stop) /\ (stop \in Recorded => thread[d] \in Recorded)
    BY <1>3 DEF Deliver, LookUp, LookUpFails, Accept, TakeTurn, WorkEnds, Stage, Recorded
  <2>2. UNCHANGED <<seen, answered, dropped>> /\ acked' \subseteq Message
    BY <1>1, <1>3, Desks
       DEF Deliver, LookUp, LookUpFails, Accept, TakeTurn, WorkEnds, ChannelTypeOK
  <2> QED BY <1>1, <2>1, <2>2, ThreadMoves
<1>4. ASSUME NEW d \in Delivery, Record(d) PROVE ChannelTypeOK' /\ TurnInv'
  <2>1. CASE d[1] \in seen
    <3>1. ThreadGoes(d, "done") /\ UNCHANGED <<seen, acked, answered, dropped>>
      BY <1>4, <2>1 DEF Record
    <3> QED BY <1>1, <3>1, ThreadMoves DEF Stage, Recorded, ChannelTypeOK
  <2>2. CASE d[1] \notin seen
    <3>1. /\ seen' = seen \cup {d[1]} /\ thread' = [thread EXCEPT ![d] = "accept"]
          /\ UNCHANGED <<acked, answered, dropped>>
      BY <1>4, <2>2 DEF Record, ThreadGoes
    <3>2. ChannelTypeOK'
      BY <1>1, <3>1, Desks DEF ChannelTypeOK, Stage
    <3>3. \A e \in Delivery :
              thread'[e] \in Recorded => e = d \/ (thread[e] \in Recorded /\ e[1] # d[1])
      BY <1>1, <2>2, <3>1 DEF TurnInv
    <3>4. d[1] \notin answered \cup dropped
      BY <1>1, <2>2 DEF TurnInv
    <3> QED BY <1>1, <3>1, <3>2, <3>3, <3>4 DEF TurnInv
  <2> QED BY <2>1, <2>2
<1>5. ASSUME NEW d \in Delivery, Answer(d) PROVE ChannelTypeOK' /\ TurnInv'
  <2>1. /\ thread[d] = "answer" /\ thread' = [thread EXCEPT ![d] = "done"]
        /\ answered' = answered \cup {d[1]} /\ UNCHANGED <<seen, acked, dropped>>
    BY <1>5 DEF Answer, ThreadGoes
  <2>2. ChannelTypeOK'
    BY <1>1, <2>1, Desks DEF ChannelTypeOK, Stage
  <2>3. \A e \in Delivery :
            thread'[e] \in Recorded => thread[e] \in Recorded /\ e[1] # d[1]
    BY <1>1, <2>1 DEF TurnInv, Recorded
  <2>4. d[1] \in seen
    BY <1>1, <2>1 DEF TurnInv, Recorded
  <2> QED BY <1>1, <2>1, <2>2, <2>3, <2>4 DEF TurnInv
<1>6. ASSUME BotDies PROVE ChannelTypeOK' /\ TurnInv'
  <2>1. /\ thread' = [d \in Delivery |-> IF thread[d] = "none" THEN "none" ELSE "done"]
        /\ dropped' = dropped \cup
               {m \in seen : ThreadsAt(m, {"accept", "wait", "work", "answer"}) # {}}
        /\ UNCHANGED <<seen, acked, answered>>
    BY <1>6 DEF BotDies
  <2>2. \A d \in Delivery : thread'[d] \in Stage \ Recorded
    BY <2>1 DEF Stage, Recorded
  <2>3. ChannelTypeOK'
    BY <1>1, <2>1, <2>2 DEF ChannelTypeOK
  <2> QED BY <1>1, <2>1, <2>2, <2>3 DEF TurnInv
<1> QED
  BY <1>2, <1>3, <1>4, <1>5, <1>6
     DEF OperatorNext, Accepting, BeginWork, EndWork, Crash, Walk

LEMMA OperatorInvKept == OperatorInv /\ [OperatorNext]_operatorVars => OperatorInv'
<1>1. ASSUME OperatorInv, OperatorNext PROVE OperatorInv'
  <2>1. commands' \in 0 .. MaxCommands
    <3>1. commands \in 0 .. MaxCommands
      BY <1>1 DEF OperatorInv, OperatorTypeOK
    <3>2. ASSUME NEW w \in Walker, Walk(w) PROVE commands' \in 0 .. MaxCommands
      BY <3>1, <3>2, BoundAssumption DEF Walk
    <3> QED BY <1>1, <3>1, <3>2 DEF OperatorNext, BeginWork, EndWork, Crash
  <2> QED BY <1>1, <2>1, DeskKept, ChannelKept DEF OperatorInv, OperatorTypeOK
<1>2. ASSUME OperatorInv, UNCHANGED operatorVars PROVE OperatorInv'
  <2>1. DeskTypeOK' /\ FiledInv' /\ WordInv'
    BY <1>2 DEF OperatorInv, OperatorTypeOK, operatorVars, deskVars, DeskTypeOK, FiledInv,
                WordInv
  <2>2. ChannelTypeOK' /\ TurnInv' /\ commands' = commands
    BY <1>2 DEF OperatorInv, OperatorTypeOK, operatorVars, channelVars, ChannelTypeOK, TurnInv
  <2> QED BY <1>2, <2>1, <2>2 DEF OperatorInv, OperatorTypeOK
<1> QED BY <1>1, <1>2

THEOREM OperatorInvHolds == OperatorSpec => []OperatorInv
<1>1. OperatorInit => OperatorInv
  <2> SUFFICES ASSUME OperatorInit PROVE OperatorInv
    OBVIOUS
  <2>1. /\ queue = [p \in Submission |-> NoFile] /\ archive = [p \in Submission |-> {}]
        /\ committed = {} /\ job = [c \in Clerk |-> Idle]
        /\ waiter = [d \in Draft |-> "unborn"]
        /\ said = [d \in Draft |-> "pending"] /\ overwritten = [d \in Draft |-> FALSE]
    BY DEF OperatorInit, DeskInit
  <2>2. thread = [d \in Delivery |-> "none"] /\ seen = {} /\ acked = {}
    BY DEF OperatorInit, ChannelInit
  <2>3. answered = {} /\ dropped = {} /\ commands = 0
    BY DEF OperatorInit, ChannelInit
  <2>4. job \in [Clerk -> Job] /\ \A c \in Clerk : job[c].at = "done"
    BY <2>1, Desks
  <2>5. DeskTypeOK
    BY <2>1, Desks DEF Status
  <2>6. ChannelTypeOK /\ commands \in 0 .. MaxCommands
    BY <2>2, <2>3, BoundAssumption DEF ChannelTypeOK, Stage
  <2>7. FiledInv /\ WordInv
    BY <2>1, Desks DEF FiledInv, WordInv
  <2>8. TurnInv
    BY <2>2, <2>3 DEF TurnInv, Recorded
  <2> QED BY <2>5, <2>6, <2>7, <2>8 DEF OperatorInv, OperatorTypeOK
<1> QED BY <1>1, OperatorInvKept, PTL DEF OperatorSpec

\* The desk's files, the commands and the deliveries are of their kinds.
THEOREM DeskTypeCorrect == OperatorSpec => []OperatorTypeOK
<1>1. OperatorInv => OperatorTypeOK
  BY DEF OperatorInv
<1> QED BY <1>1, OperatorInvHolds, PTL

\* apply_proposal.py:294, 366: a proposal that was made is in the queue or in
\* an archive ever after, whatever commands meet and whoever is killed.
THEOREM ProposalsStay == OperatorSpec => NoProposalIsLost
<1>1. ASSUME OperatorInv, OperatorNext, NEW p \in Submission, Submitted(p)
      PROVE  Submitted(p)'
  <2>1. /\ queue \in [Submission -> Status \cup {NoFile}]
        /\ archive \in [Submission -> SUBSET {"applied", "rejected"}]
        /\ FiledInv /\ WordInv /\ \A c \in Clerk : job[c].p \in Submission
        /\ \A d \in Draft : d \in Submission
        /\ NoFile \notin Status
    BY <1>1, Desks DEF OperatorInv, OperatorTypeOK, Job, NoFile, Status
  <2>2. CASE UNCHANGED <<queue, archive>>
    BY <1>1, <2>2 DEF Submitted
  <2>3. ASSUME NEW q \in Submission, NEW v \in Status, queue' = [queue EXCEPT ![q] = v],
               UNCHANGED archive
        PROVE  Submitted(p)'
    BY <1>1, <2>1, <2>3 DEF Submitted
  <2>4. ASSUME NEW q \in Candidate, Propose(q) PROVE Submitted(p)'
    BY <2>3, <2>4 DEF Propose, Submission, Status
  <2>5. ASSUME NEW d \in Draft, AskForReview(d) PROVE Submitted(p)'
    BY <2>1, <2>3, <2>5 DEF AskForReview, Status
  <2>6. ASSUME NEW c \in Clerk, FlipStatus(c) PROVE Submitted(p)'
    <3> DEFINE s == IF job[c].op = "approve" THEN "approved" ELSE "rejected"
    <3>1. queue' = [queue EXCEPT ![job[c].p] = s] /\ UNCHANGED archive
      BY <2>6 DEF FlipStatus
    <3>2. s \in Status
      BY DEF Status
    <3> HIDE DEF s
    <3> QED BY <2>1, <2>3, <3>1, <3>2
  <2>7. ASSUME NEW c \in Clerk, WriteBack(c) PROVE Submitted(p)'
    <3>1. /\ queue' = [queue EXCEPT ![job[c].p] = job[c].read] /\ UNCHANGED archive
          /\ job[c].read \in Status
      BY <2>1, <2>7 DEF WriteBack, Runs, WordInv
    <3> QED BY <2>1, <2>3, <3>1
  <2>8. ASSUME NEW c \in Clerk, FileAway(c) PROVE Submitted(p)'
    <3>1. /\ archive' = [archive EXCEPT ![job[c].p] = @ \cup {Verdict(c)}]
          /\ UNCHANGED queue
      BY <2>8 DEF FileAway
    <3>2. archive[p] \subseteq archive'[p]
      BY <3>1
    <3> QED BY <1>1, <3>1, <3>2 DEF Submitted
  <2>9. ASSUME NEW c \in Clerk, Unlink(c) PROVE Submitted(p)'
    <3>1. /\ archive[job[c].p] # {}
          /\ job[c].read = "applied" => "rejected" \in archive[job[c].p]
      BY <2>1, <2>9 DEF Unlink, Runs, FiledInv
    <3>2. CASE p = job[c].p
      <4>1. archive'[p] # {}
        BY <2>1, <2>9, <3>1, <3>2 DEF Unlink
      <4> QED BY <4>1 DEF Submitted
    <3>3. CASE p # job[c].p
      BY <1>1, <2>1, <2>9, <3>3 DEF Unlink, Submitted
    <3> QED BY <3>2, <3>3
  <2>10. ASSUME NEW c \in Clerk, JobStep(c) \/ Killed(c) PROVE Submitted(p)'
    BY <2>2, <2>6, <2>7, <2>8, <2>9, <2>10 DEF JobStep, ReadFile, FindFile, Commit, Killed
  <2>11. CASE Desk
    BY <2>2, <2>4, <2>5, <2>10, <2>11 DEF Desk, Poll, PollTimesOut
  <2>12. CASE ~Desk
    BY <1>1, <2>2, <2>12 DEF OperatorNext, Walk, BeginWork, EndWork, Crash, deskVars
  <2> QED BY <2>11, <2>12
<1>2. ASSUME OperatorInv, [OperatorNext]_operatorVars
      PROVE  [\A p \in Submission : Submitted(p) => Submitted(p)']_operatorVars
  BY <1>1, <1>2
<1> QED BY <1>2, OperatorInvHolds, PTL DEF OperatorSpec, NoProposalIsLost

\* skill_review.py:150-160: register_skill activates a draft only where the
\* last word an operator said of it is "approved", or where a stale copy of the
\* file was written over that word.
THEOREM ActivationIsApproved == OperatorSpec => ActivatedOnApproval
<1>1. ASSUME OperatorInv, OperatorNext, NEW d \in Draft,
             waiter[d] # "activated", waiter'[d] = "activated"
      PROVE  said[d] = "approved" \/ overwritten[d]
  <2>1. waiter \in [Draft -> {"unborn", "waiting", "activated", "refused"}] /\ WordInv
    BY <1>1, Desks DEF OperatorInv, OperatorTypeOK
  <2>2. CASE Poll(d)
    BY <1>1, <2>1, <2>2 DEF Poll, WordInv, NoFile
  <2>3. CASE ~Poll(d)
    <3>1. ASSUME NEW e \in Draft, AskForReview(e) \/ Poll(e) \/ PollTimesOut(e) PROVE FALSE
      BY <1>1, <2>1, <2>3, <3>1 DEF AskForReview, Poll, PollTimesOut
    <3>2. waiter' = waiter
      BY <1>1, <3>1
         DEF OperatorNext, Desk, Propose, JobStep, ReadFile, FlipStatus, WriteBack, FindFile,
             Commit, FileAway, Unlink, Killed, Walk, BeginWork, EndWork, Crash, deskVars
    <3> QED BY <1>1, <3>2
  <2> QED BY <2>2, <2>3
<1>2. ASSUME OperatorInv, [OperatorNext]_operatorVars
      PROVE  [\A d \in Draft : waiter[d] # "activated" /\ waiter'[d] = "activated"
                 => said[d] = "approved" \/ overwritten[d]]_operatorVars
  BY <1>1, <1>2
<1> QED BY <1>2, OperatorInvHolds, PTL DEF OperatorSpec, ActivatedOnApproval

\* bot_server.py:141-149: a message that is worked on, answered or dropped is
\* not taken up again, whatever Feishu delivers and after the bot's death too.
THEOREM MessagesHandledOnce == OperatorSpec => HandledAtMostOnce
<1>1. ASSUME OperatorInv, OperatorNext, NEW m \in Message,
             m \in answered \cup dropped \/ ThreadsAt(m, {"work", "answer"}) # {},
             NEW n \in 1 .. MaxDeliveries[m], thread'[<<m, n>>] = "work"
      PROVE  thread[<<m, n>>] = "work"
  <2> DEFINE d == <<m, n>>
  <2>1. /\ thread \in [Delivery -> Stage] /\ TurnInv
        /\ d \in Delivery /\ d[1] = m
    BY <1>1, Desks DEF OperatorInv, OperatorTypeOK, ChannelTypeOK
  <2>2. thread[d] # "wait"
    BY <1>1, <2>1 DEF ThreadsAt, TurnInv, Recorded
  <2> SUFFICES ASSUME thread[d] # "work" PROVE FALSE
    OBVIOUS
  <2>3. thread' # thread
    BY <1>1
  <2>4. ASSUME NEW e \in Delivery, NEW stop, ThreadGoes(e, stop), stop # "work" PROVE FALSE
    BY <1>1, <2>4 DEF ThreadGoes
  <2>5. ASSUME NEW e \in Delivery, TakeTurn(e) PROVE FALSE
    BY <1>1, <2>2, <2>5 DEF TakeTurn, ThreadGoes
  <2>6. ~BotDies
    BY <1>1, <2>1 DEF BotDies
  <2>7. ASSUME NEW e \in Delivery, Deliver(e) \/ LookUpFails(e) \/ Accepting(e) PROVE FALSE
    BY <2>4, <2>7 DEF Deliver, LookUpFails, Accepting, LookUp, Record, Accept, Answer
  <2>8. ASSUME NEW e \in Delivery, BeginWork(e) \/ EndWork(e) PROVE FALSE
    BY <2>4, <2>5, <2>8 DEF BeginWork, EndWork, WorkEnds
  <2> QED BY <1>1, <2>3, <2>6, <2>7, <2>8 DEF OperatorNext, Walk, Crash, channelVars
<1>2. ASSUME OperatorInv, [OperatorNext]_operatorVars
      PROVE  [\A m \in Message :
                m \in answered \cup dropped \/ ThreadsAt(m, {"work", "answer"}) # {} =>
                    \A n \in 1 .. MaxDeliveries[m] :
                        thread'[<<m, n>>] = "work" => thread[<<m, n>>] = "work"]_operatorVars
  BY <1>1, <1>2
<1> QED BY <1>2, OperatorInvHolds, PTL DEF OperatorSpec, HandledAtMostOnce

-----------------------------------------------------------------------------
(***************************************************************************)
(* Why messages are answered: a recorded message has its end or exactly    *)
(* one delivery under way, a chat's turn has one holder, and each delivery *)
(* has few steps left, which every step of its own makes fewer.            *)
(***************************************************************************)
StageLeft == [none |-> 0, look |-> 10, record |-> 9, accept |-> 8, wait |-> 7,
              work |-> 2, answer |-> 1, done |-> 0]
CommandLeft == [begin |-> 4, commit |-> 3, file |-> 2, write |-> 1, unlink |-> 1, done |-> 0]

HandlingLeft(d) ==
    StageLeft[thread[d]] + (IF thread[d] = "work" THEN CommandLeft[job[d[1]].at] ELSE 0)

HandlingStep(d) == ThreadGoesOn(d) \/ BeginWork(d) \/ LookUpFails(d)

RecordedIsUnderWay == \A m \in seen :
    m \in answered \cup dropped \/ \E d \in Delivery : d[1] = m /\ thread[d] \in Recorded

OneTurn == \A c \in {ChatOf[m] : m \in Message} : \A d, e \in Working(c) : d = e

HandlingIsShort == \A d \in Delivery : HandlingLeft(d) \in 0 .. 10

EachDeliveryCounts == \A d \in Delivery :
    thread[d] # "none" =>
        HandlingLeft(d)' <= HandlingLeft(d) /\ (HandlingStep(d) => HandlingLeft(d)' < HandlingLeft(d))

TurnsInv == OperatorInv /\ RecordedIsUnderWay /\ OneTurn

LEMMA LeftIsShort == ASSUME OperatorInv PROVE HandlingIsShort
<1>1. /\ thread \in [Delivery -> Stage] /\ job \in [Clerk -> Job]
      /\ \A d \in Delivery : d[1] \in Clerk
  BY Desks DEF OperatorInv, OperatorTypeOK, ChannelTypeOK
<1>2. ASSUME NEW d \in Delivery PROVE HandlingLeft(d) \in 0 .. 10
  <2>1. thread[d] \in Stage /\ job[d[1]].at \in DOMAIN CommandLeft
    BY <1>1 DEF Job, CommandLeft
  <2>2. CommandLeft[job[d[1]].at] \in 0 .. 4
    BY <2>1 DEF CommandLeft
  <2>3. StageLeft[thread[d]] \in 0 .. 10 /\ (thread[d] = "work" => StageLeft[thread[d]] = 2)
    BY <2>1 DEF StageLeft, Stage
  <2> QED BY <2>2, <2>3 DEF HandlingLeft
<1> QED BY <1>2 DEF HandlingIsShort

LEMMA Stations ==
    /\ StageLeft["look"] = 10 /\ StageLeft["record"] = 9 /\ StageLeft["accept"] = 8
    /\ StageLeft["wait"] = 7 /\ StageLeft["work"] = 2 /\ StageLeft["answer"] = 1
    /\ StageLeft["done"] = 0 /\ StageLeft["none"] = 0
    /\ CommandLeft["begin"] = 4 /\ CommandLeft["commit"] = 3 /\ CommandLeft["file"] = 2
    /\ CommandLeft["write"] = 1 /\ CommandLeft["unlink"] = 1 /\ CommandLeft["done"] = 0
BY DEF StageLeft, CommandLeft

(* A command's own step, or its death, takes it nearer its end. *)
LEMMA CommandCounts ==
    ASSUME OperatorInv, NEW c \in Clerk, JobStep(c) \/ Killed(c)
    PROVE  \E j \in Job : /\ job' = [job EXCEPT ![c] = j]
                         /\ CommandLeft[j.at] < CommandLeft[job[c].at]
<1>1. /\ job \in [Clerk -> Job] /\ job[c] \in Job
      /\ queue \in [Submission -> Status \cup {NoFile}]
  BY Desks DEF OperatorInv, OperatorTypeOK
<1>2. ASSUME NEW k \in Job, NEW stop \in {"write", "commit", "file", "unlink", "done"},
             job' = [job EXCEPT ![c] = Going(k, stop)],
             CommandLeft[stop] < CommandLeft[job[c].at]
      PROVE  \E j \in Job : /\ job' = [job EXCEPT ![c] = j]
                           /\ CommandLeft[j.at] < CommandLeft[job[c].at]
  BY <1>2, JobsGo
<1>3. CASE ReadFile(c)
  <2> DEFINE k == [job[c] EXCEPT !.read = queue[job[c].p]]
             stop == IF queue[job[c].p] = NoFile THEN "done" ELSE "write"
  <2>1. job' = [job EXCEPT ![c] = Going(k, stop)] /\ job[c].at = "begin"
    BY <1>3 DEF ReadFile, JobReads, Runs
  <2>2. queue[job[c].p] \in Status \cup {NoFile, "applied"}
    BY <1>1 DEF Job
  <2>3. k \in Job
    BY <1>1, <2>2, JobReading
  <2>4. stop \in {"write", "done"}
    OBVIOUS
  <2> HIDE DEF k, stop
  <2>5. CommandLeft[stop] < CommandLeft[job[c].at]
    BY <2>1, <2>4, Stations
  <2> QED BY <1>2, <2>1, <2>3, <2>4, <2>5
<1>4. CASE FindFile(c)
  <2> DEFINE p == job[c].p
             found == IF queue[p] # NoFile THEN queue[p]
                      ELSE IF "applied" \in archive[p] THEN "applied" ELSE NoFile
             stop == CASE found = NoFile -> "done"
                       [] job[c].op = "archive" -> "file"
                       [] p \in Draft -> "done"
                       [] OTHER -> "commit"
             k == [job[c] EXCEPT !.read = found]
  <2>1. job' = [job EXCEPT ![c] = Going(k, stop)] /\ job[c].at = "begin"
    BY <1>4 DEF FindFile, JobReads, Runs
  <2>2. found \in Status \cup {NoFile, "applied"}
    BY <1>1 DEF Job
  <2>3. stop \in {"done", "file", "commit"}
    OBVIOUS
  <2> HIDE DEF found, stop
  <2>4. k \in Job
    BY <1>1, <2>2, JobReading
  <2> HIDE DEF k
  <2>5. CommandLeft[stop] < CommandLeft[job[c].at]
    BY <2>1, <2>3, Stations
  <2> QED BY <1>2, <2>1, <2>3, <2>4, <2>5
<1>5. ASSUME NEW stop \in {"file", "unlink", "done"},
             job' = [job EXCEPT ![c] = Going(job[c], stop)],
             CommandLeft[stop] < CommandLeft[job[c].at]
      PROVE  \E j \in Job : /\ job' = [job EXCEPT ![c] = j]
                           /\ CommandLeft[j.at] < CommandLeft[job[c].at]
  BY <1>1, <1>2, <1>5
<1>6. CASE FlipStatus(c) \/ WriteBack(c) \/ Unlink(c) \/ Killed(c)
  <2>1. job' = [job EXCEPT ![c] = Going(job[c], "done")]
    BY <1>6 DEF FlipStatus, WriteBack, Unlink, Killed, JobGoes
  <2>2. job[c].at \in {"begin", "write", "commit", "file", "unlink"}
    BY <1>1, <1>6 DEF FlipStatus, WriteBack, Unlink, Killed, Runs, Job
  <2>3. CommandLeft["done"] < CommandLeft[job[c].at]
    BY <2>1, <2>2, Stations
  <2> QED BY <1>5, <2>1, <2>2, <2>3
<1>7. CASE Commit(c)
  <2>1. PICK stop \in {"file", "done"} : job' = [job EXCEPT ![c] = Going(job[c], stop)]
    BY <1>7 DEF Commit, JobGoes
  <2>2. job[c].at = "commit"
    BY <1>7 DEF Commit, Runs
  <2>3. CommandLeft[stop] < CommandLeft[job[c].at]
    BY <2>1, <2>2, Stations
  <2> QED BY <1>5, <2>1, <2>2, <2>3
<1>8. CASE FileAway(c)
  <2> DEFINE stop == IF job[c].read = Verdict(c) THEN "done" ELSE "unlink"
  <2>1. job' = [job EXCEPT ![c] = Going(job[c], stop)] /\ job[c].at = "file"
    BY <1>8 DEF FileAway, JobGoes, Runs
  <2>2. stop \in {"unlink", "done"}
    OBVIOUS
  <2> HIDE DEF stop
  <2>3. CommandLeft[stop] < CommandLeft[job[c].at]
    BY <2>1, <2>2, Stations
  <2> QED BY <1>5, <2>1, <2>2, <2>3
<1> QED BY <1>3, <1>4, <1>6, <1>7, <1>8 DEF JobStep

(* Which delivery a step of the channel moves, and how far. *)
LEMMA HandlingMoves ==
    ASSUME TurnsInv, NEW d \in Delivery,
           Deliver(d) \/ LookUpFails(d) \/ Accepting(d) \/ WorkEnds(d) \/ TakeTurn(d)
    PROVE  \E stop \in Stage :
               /\ ThreadGoes(d, stop)
               /\ thread[d] # "none" => StageLeft[stop] < StageLeft[thread[d]]
               /\ stop = "work" => TakeTurn(d)
<1>1. thread[d] \in Stage
  BY DEF TurnsInv, OperatorInv, OperatorTypeOK, ChannelTypeOK
<1>2. CASE Deliver(d)
  BY <1>2 DEF Deliver, Stage
<1>3. CASE LookUpFails(d) \/ LookUp(d) \/ Record(d)
  <2>1. PICK stop \in {"done", "record", "accept"} :
            /\ ThreadGoes(d, stop)
            /\ thread[d] \in {"look", "record"}
            /\ stop = "record" => thread[d] = "look"
    BY <1>3 DEF LookUpFails, LookUp, Record
  <2>2. StageLeft[stop] < StageLeft[thread[d]]
    BY <2>1, Stations
  <2> QED BY <2>1, <2>2 DEF Stage
<1>4. CASE Accept(d)
  BY <1>4, Stations DEF Accept, Stage
<1>5. CASE Answer(d)
  BY <1>5, Stations DEF Answer, Stage
<1>6. CASE WorkEnds(d)
  BY <1>6, Stations DEF WorkEnds, Stage
<1>7. CASE TakeTurn(d)
  BY <1>7, Stations DEF TakeTurn, Stage
<1> QED BY <1>2, <1>3, <1>4, <1>5, <1>6, <1>7 DEF Accepting

LEMMA TurnsKept == ASSUME TurnsInv, OperatorNext PROVE RecordedIsUnderWay' /\ OneTurn'
<1>1. /\ thread \in [Delivery -> Stage] /\ TurnInv
      /\ RecordedIsUnderWay /\ OneTurn
  BY DEF TurnsInv, OperatorInv, OperatorTypeOK, ChannelTypeOK
<1>2. CASE UNCHANGED channelVars
  BY <1>1, <1>2 DEF channelVars, RecordedIsUnderWay, OneTurn, Working
<1>3. ASSUME NEW d \in Delivery, NEW stop \in Stage, ThreadGoes(d, stop),
             stop \in {"work", "answer"} => thread[d] \in {"work", "answer"} \/ TakeTurn(d)
      PROVE  OneTurn'
  <2>1. \A e \in Delivery : thread'[e] = IF e = d THEN stop ELSE thread[e]
    BY <1>1, <1>3 DEF ThreadGoes
  <2>2. ASSUME NEW c \in {ChatOf[m] : m \in Message},
               NEW e \in Working(c)', NEW f \in Working(c)'
        PROVE  e = f
    <3>1. \A g \in Working(c)' : g \in Delivery /\ ChatOf[g[1]] = c
                                /\ thread'[g] \in {"work", "answer"}
      BY DEF Working
    <3>2. CASE TakeTurn(d) /\ ChatOf[d[1]] = c
      <4>1. \A g \in Delivery : ChatOf[g[1]] = c => thread[g] \notin {"work", "answer"}
        BY <3>2 DEF TakeTurn, Working
      <4> QED BY <2>1, <2>2, <3>1, <4>1
    <3>3. CASE ~(TakeTurn(d) /\ ChatOf[d[1]] = c)
      <4>1. \A g \in Working(c)' : g \in Working(c)
        BY <1>3, <2>1, <3>1, <3>3 DEF Working
      <4> QED BY <1>1, <2>2, <4>1 DEF OneTurn
    <3> QED BY <3>2, <3>3
  <2> QED BY <2>2 DEF OneTurn
<1>4. ASSUME NEW d \in Delivery, NEW stop \in Stage, ThreadGoes(d, stop),
             UNCHANGED <<answered, dropped>>,
             seen' = seen \/ (seen' = seen \cup {d[1]} /\ stop \in Recorded),
             thread[d] \in Recorded => stop \in Recorded
      PROVE  RecordedIsUnderWay'
  <2>1. \A e \in Delivery : thread'[e] = IF e = d THEN stop ELSE thread[e]
    BY <1>1, <1>4 DEF ThreadGoes
  <2> QED BY <1>1, <1>4, <2>1 DEF RecordedIsUnderWay
<1>5. ASSUME NEW d \in Delivery,
             Deliver(d) \/ LookUpFails(d) \/ Accepting(d) \/ WorkEnds(d) \/ TakeTurn(d)
      PROVE  RecordedIsUnderWay' /\ OneTurn'
  <2>1. CASE Deliver(d) \/ LookUpFails(d) \/ LookUp(d)
    <3>1. PICK stop \in {"look", "record", "done"} : ThreadGoes(d, stop)
      BY <2>1 DEF Deliver, LookUpFails, LookUp
    <3>2. thread[d] \notin Recorded /\ UNCHANGED <<seen, answered, dropped>>
      BY <2>1 DEF Deliver, LookUpFails, LookUp, Recorded
    <3> QED BY <1>3, <1>4, <3>1, <3>2 DEF Stage
  <2>2. CASE Record(d)
    <3>1. PICK stop \in {"accept", "done"} :
              /\ ThreadGoes(d, stop)
              /\ seen' = seen \/ (seen' = seen \cup {d[1]} /\ stop = "accept")
      BY <2>2 DEF Record
    <3>2. thread[d] \notin Recorded /\ UNCHANGED <<answered, dropped>>
      BY <2>2 DEF Record, Recorded
    <3> QED BY <1>3, <1>4, <3>1, <3>2 DEF Stage, Recorded
  <2>3. CASE Accept(d) \/ TakeTurn(d) \/ WorkEnds(d)
    <3>1. PICK stop \in {"wait", "work", "answer"} :
              /\ ThreadGoes(d, stop)
              /\ stop = "work" => TakeTurn(d)
              /\ stop = "answer" => thread[d] = "work"
      BY <2>3 DEF Accept, TakeTurn, WorkEnds
    <3>2. UNCHANGED <<seen, answered, dropped>>
      BY <2>3 DEF Accept, TakeTurn, WorkEnds
    <3> QED BY <1>3, <1>4, <3>1, <3>2 DEF Stage, Recorded
  <2>4. CASE Answer(d)
    <3>1. /\ ThreadGoes(d, "done") /\ answered' = answered \cup {d[1]}
          /\ UNCHANGED <<seen, dropped>>
      BY <2>4 DEF Answer
    <3>2. \A e \in Delivery : e # d => thread'[e] = thread[e]
      BY <1>1, <3>1 DEF ThreadGoes
    <3>3. RecordedIsUnderWay'
      BY <1>1, <3>1, <3>2 DEF RecordedIsUnderWay
    <3> QED BY <1>3, <3>1, <3>3 DEF Stage
  <2> QED BY <1>5, <2>1, <2>2, <2>3, <2>4 DEF Accepting
<1>6. ASSUME BotDies PROVE RecordedIsUnderWay' /\ OneTurn'
  <2>1. /\ thread' = [d \in Delivery |-> IF thread[d] = "none" THEN "none" ELSE "done"]
        /\ dropped' = dropped \cup {m \in seen : ThreadsAt(m, Recorded) # {}}
        /\ UNCHANGED <<seen, acked, answered>>
    BY <1>6 DEF BotDies, Recorded
  <2>2. \A m \in seen : m \in answered \cup dropped \/ ThreadsAt(m, Recorded) # {}
    BY <1>1 DEF RecordedIsUnderWay, ThreadsAt
  <2>3. RecordedIsUnderWay'
    BY <2>1, <2>2 DEF RecordedIsUnderWay
  <2>4. \A d \in Delivery : thread'[d] \notin {"work", "answer"}
    BY <2>1
  <2> QED BY <2>3, <2>4 DEF OneTurn, Working
<1> QED
  BY <1>2, <1>5, <1>6 DEF TurnsInv, OperatorNext, BeginWork, EndWork, Crash, Walk

CommandsAreShort == \A c \in Clerk : CommandLeft[job[c].at] \in 0 .. 4

LEMMA ShortCommands == OperatorInv => CommandsAreShort
<1> SUFFICES ASSUME OperatorInv, NEW c \in Clerk PROVE CommandLeft[job[c].at] \in 0 .. 4
  BY DEF CommandsAreShort
<1>1. job[c].at \in {"begin", "write", "commit", "file", "unlink", "done"}
  BY Desks DEF OperatorInv, OperatorTypeOK, Job
<1> QED BY <1>1, Stations

(* Nobody sets a delivery back, and its own steps take it on. *)
LEMMA HandlingCounts ==
    ASSUME TurnsInv, OperatorNext, NEW d \in Delivery, thread[d] # "none"
    PROVE  /\ HandlingLeft(d)' <= HandlingLeft(d)
           /\ HandlingStep(d) => HandlingLeft(d)' < HandlingLeft(d)
<1> DEFINE m == d[1]
           cl == CommandLeft[job[m].at]
<1>1. /\ thread \in [Delivery -> Stage] /\ job \in [Clerk -> Job]
      /\ OperatorInv /\ TurnInv /\ m \in Clerk /\ m \in Message
  BY Desks DEF TurnsInv, OperatorInv, OperatorTypeOK, ChannelTypeOK
<1>2. OperatorInv'
  BY <1>1, OperatorInvKept
<1>3. cl \in 0 .. 4 /\ cl' \in 0 .. 4
  <2>1. (OperatorInv => CommandsAreShort)'
    BY ShortCommands, PTL
  <2> QED BY <1>1, <1>2, <2>1, ShortCommands DEF CommandsAreShort
<1>4. StageLeft[thread[d]] \in 0 .. 10 /\ StageLeft[thread'[d]] \in 0 .. 10
  <2>1. thread[d] \in Stage /\ thread'[d] \in Stage
    BY <1>1, <1>2 DEF OperatorInv, OperatorTypeOK, ChannelTypeOK
  <2> QED BY <2>1, Stations DEF Stage
<1>5. /\ HandlingLeft(d) = StageLeft[thread[d]] + (IF thread[d] = "work" THEN cl ELSE 0)
      /\ HandlingLeft(d)' = StageLeft[thread'[d]] + (IF thread'[d] = "work" THEN cl' ELSE 0)
  BY DEF HandlingLeft
<1>6. ASSUME thread'[d] = thread[d], thread[d] = "work" => cl' <= cl
      PROVE  HandlingLeft(d)' <= HandlingLeft(d)
  <2> HIDE DEF cl
  <2> QED BY <1>3, <1>4, <1>5, <1>6
<1>7. ASSUME thread'[d] = thread[d], thread[d] = "work", cl' < cl
      PROVE  HandlingLeft(d)' < HandlingLeft(d)
  <2> HIDE DEF cl
  <2> QED BY <1>3, <1>4, <1>5, <1>7
<1>8. ASSUME NEW stop \in Stage, ThreadGoes(d, stop),
             StageLeft[stop] < StageLeft[thread[d]],
             stop = "work" => thread[d] = "wait"
      PROVE  HandlingLeft(d)' < HandlingLeft(d)
  <2> HIDE DEF cl
  <2>1. thread'[d] = stop
    BY <1>1, <1>8 DEF ThreadGoes
  <2>2. CASE stop = "work"
    BY <1>3, <1>4, <1>5, <1>8, <2>1, <2>2, Stations
  <2>3. CASE stop # "work"
    BY <1>3, <1>4, <1>5, <1>8, <2>1, <2>3
  <2> QED BY <2>2, <2>3
<1>9. ASSUME NEW e \in Delivery,
             Deliver(e) \/ LookUpFails(e) \/ Accepting(e) \/ WorkEnds(e) \/ TakeTurn(e)
      PROVE  e = d => HandlingLeft(d)' < HandlingLeft(d)
  <2> SUFFICES ASSUME e = d PROVE HandlingLeft(d)' < HandlingLeft(d)
    OBVIOUS
  <2>1. PICK stop \in Stage :
            /\ ThreadGoes(d, stop)
            /\ StageLeft[stop] < StageLeft[thread[d]]
            /\ stop = "work" => TakeTurn(d)
    BY <1>9, HandlingMoves
  <2> QED BY <1>8, <2>1 DEF TakeTurn
<1>10. ASSUME NEW e \in Delivery,
              Deliver(e) \/ LookUpFails(e) \/ Accepting(e) \/ WorkEnds(e) \/ TakeTurn(e)
       PROVE  e # d => thread'[d] = thread[d]
  <2>1. PICK stop \in Stage : ThreadGoes(e, stop)
    BY <1>9, <1>10, HandlingMoves
  <2> QED BY <1>1, <2>1 DEF ThreadGoes
<1>11. ASSUME NEW c \in Clerk, JobStep(c) \/ Killed(c)
       PROVE  /\ cl' <= cl
              /\ c = m => cl' < cl
  <2>1. PICK j \in Job : job' = [job EXCEPT ![c] = j] /\ CommandLeft[j.at] < CommandLeft[job[c].at]
    BY <1>1, <1>11, CommandCounts
  <2>2. CASE c = m
    <3>1. job'[m] = j
      BY <1>1, <2>1, <2>2
    <3>2. cl' = CommandLeft[j.at] /\ CommandLeft[job[c].at] = cl
      BY <2>2, <3>1
    <3> HIDE DEF cl
    <3> QED BY <1>3, <2>1, <3>2
  <2>3. CASE c # m
    <3>1. cl' = cl
      BY <1>1, <2>1, <2>3
    <3> HIDE DEF cl
    <3> QED BY <1>3, <2>3, <3>1
  <2> QED BY <2>2, <2>3
<1>12. HandlingStep(d) => HandlingLeft(d)' < HandlingLeft(d)
  <2>1. CASE Accepting(d) \/ LookUpFails(d) \/ BeginWork(d) \/ EndWork(d)
    BY <1>9, <2>1 DEF BeginWork, EndWork
  <2>2. CASE thread[d] = "work" /\ JobStep(m) /\ UNCHANGED channelVars
    BY <1>1, <1>7, <1>11, <2>2 DEF channelVars
  <2> QED BY <2>1, <2>2 DEF HandlingStep, ThreadGoesOn
<1>13. CASE UNCHANGED job /\ UNCHANGED thread
  <2>1. cl' = cl
    BY <1>13
  <2>2. cl' <= cl
    <3> HIDE DEF cl
    <3> QED BY <1>3, <2>1
  <2> QED BY <1>6, <1>12, <1>13, <2>2
<1>14. CASE Desk /\ UNCHANGED channelVars
  <2>1. UNCHANGED job \/ \E c \in Clerk : JobStep(c) \/ Killed(c)
    BY <1>14 DEF Desk, Propose, AskForReview, Poll, PollTimesOut
  <2>2. CASE UNCHANGED job
    BY <1>13, <1>14, <2>2 DEF channelVars
  <2>3. CASE \E c \in Clerk : JobStep(c) \/ Killed(c)
    BY <1>6, <1>11, <1>12, <1>14, <2>3 DEF channelVars
  <2> QED BY <2>1, <2>2, <2>3
<1>15. ASSUME NEW w \in Walker, Walk(w) PROVE HandlingLeft(d)' <= HandlingLeft(d)
  <2>1. job'[m] = job[m]
    BY <1>1, <1>15, ClerkAssumption DEF Walk, Start
  <2>2. cl' = cl
    BY <2>1
  <2>3. cl' <= cl
    <3> HIDE DEF cl
    <3> QED BY <1>3, <2>2
  <2> QED BY <1>6, <1>15, <2>3 DEF Walk, channelVars
<1>16. ASSUME NEW e \in Delivery,
              \/ (Deliver(e) \/ LookUpFails(e) \/ Accepting(e)) /\ UNCHANGED <<deskVars, commands>>
              \/ BeginWork(e) \/ EndWork(e)
       PROVE  HandlingLeft(d)' <= HandlingLeft(d)
  <2>1. Deliver(e) \/ LookUpFails(e) \/ Accepting(e) \/ WorkEnds(e) \/ TakeTurn(e)
    BY <1>16 DEF BeginWork, EndWork
  <2>2. CASE e = d
    <3>1. HandlingLeft(d)' < HandlingLeft(d)
      BY <1>9, <2>1, <2>2
    <3>2. HandlingLeft(d) \in Nat /\ HandlingLeft(d)' \in Nat
      <4> HIDE DEF cl
      <4> QED BY <1>3, <1>4, <1>5
    <3> QED BY <3>1, <3>2
  <2>3. CASE e # d
    <3>1. thread'[d] = thread[d]
      BY <1>10, <2>1, <2>3
    <3>2. CASE thread[d] = "work"
      <4>1. ASSUME BeginWork(e) PROVE job'[m] = job[m]
        <5>1. thread[e] = "wait"
          BY <4>1 DEF BeginWork, TakeTurn
        <5>2. e[1] # m
          BY <1>1, <2>3, <3>2, <5>1 DEF TurnInv, Recorded
        <5> QED BY <1>1, <4>1, <5>2 DEF BeginWork, Start
      <4>2. ASSUME ~BeginWork(e) PROVE job'[m] = job[m]
        BY <1>16, <4>2 DEF EndWork, deskVars
      <4>3. job'[m] = job[m]
        BY <4>1, <4>2
      <4>4. cl' = cl
        BY <4>3
      <4>5. cl' <= cl
        <5> HIDE DEF cl
        <5> QED BY <1>3, <4>4
      <4> QED BY <1>6, <3>1, <4>5
    <3>3. CASE thread[d] # "work"
      BY <1>6, <3>1, <3>3
    <3> QED BY <3>2, <3>3
  <2> QED BY <2>2, <2>3
<1>17. CASE Crash
  <2>1. thread'[d] = "done"
    BY <1>1, <1>17 DEF Crash, BotDies
  <2> HIDE DEF cl
  <2>2. HandlingLeft(d)' = 0
    BY <1>5, <2>1, Stations
  <2>3. HandlingLeft(d) \in Nat
    BY <1>3, <1>4, <1>5
  <2> QED BY <1>12, <2>2, <2>3
<1> QED BY <1>12, <1>14, <1>15, <1>16, <1>17 DEF OperatorNext

\* bot_server.py:141-197: a message whose id was recorded has its end or one
\* delivery under way, and of a chat one delivery works at a time; a delivery has
\* ten steps at most, its thread's steps make them fewer and nobody adds to them,
\* whatever walkers, kills, redeliveries and deaths do meanwhile: what
\* MessagesAreAnswered rests on.
THEOREM MessagesAreBounded ==
    OperatorSpec => /\ [](RecordedIsUnderWay /\ OneTurn /\ HandlingIsShort)
                    /\ [][EachDeliveryCounts]_operatorVars
<1>1. OperatorInit => RecordedIsUnderWay /\ OneTurn
  BY DEF OperatorInit, ChannelInit, RecordedIsUnderWay, OneTurn, Working
<1>2. TurnsInv /\ [OperatorNext]_operatorVars => (RecordedIsUnderWay /\ OneTurn)'
  <2>1. ASSUME TurnsInv, UNCHANGED operatorVars PROVE (RecordedIsUnderWay /\ OneTurn)'
    BY <2>1 DEF TurnsInv, operatorVars, channelVars, RecordedIsUnderWay, OneTurn, Working
  <2> QED BY <2>1, TurnsKept
<1>3. OperatorSpec => []TurnsInv
  BY <1>1, <1>2, OperatorInvHolds, PTL DEF TurnsInv, OperatorSpec
<1>4. TurnsInv => RecordedIsUnderWay /\ OneTurn /\ HandlingIsShort
  BY LeftIsShort DEF TurnsInv
<1>5. TurnsInv /\ [OperatorNext]_operatorVars => [EachDeliveryCounts]_operatorVars
  BY HandlingCounts DEF EachDeliveryCounts
<1> QED BY <1>3, <1>4, <1>5, PTL DEF OperatorSpec

=============================================================================
