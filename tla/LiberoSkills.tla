--------------------------- MODULE LiberoSkills ---------------------------
(***************************************************************************)
(* The LIBERO skills that drive the hand, called one after the other by    *)
(* the Engineer's tool calls.  A call reads the hand, moves, reads again:  *)
(* between two of its steps the world may take the object out of the       *)
(* fingers, and a call may end at any of them (an exception, a refused     *)
(* plan, a time-out).  What a skill computes from the picture is a choice; *)
(* what it commands the fingers, reads of them and keeps as evidence is    *)
(* GripperHold's.                                                          *)
(***************************************************************************)
EXTENDS GripperHold

VARIABLES
    hand,
    call        \* the call that runs, or the last one

vars == <<hand, call>>

In       == "place_object_in"
On       == "place_on_surface"
Beside   == "place_beside"
Exact    == "place_held_at_target_servo"
Grounded == {In, On}            \* the two that also ask the picture
Places   == Grounded \cup {Beside, Exact}
Drawer   == "pull_drawer"
Door     == "open_hinged_door"
Pushes   == {"close_drawer", "push_object"}
Grasp    == {"grasp_object"}
Moves    == {"move_open", "move_close", "move_keep", "home"}
Grippers == {"gripper_open", "gripper_close"}
Readings == {"is_holding", "verify_pick_complete"}
Skill    == Grasp \cup Places \cup {Drawer, Door} \cup Pushes \cup Moves \cup Grippers
            \cup Readings \cup {"recover_joint_posture"}

\* The ways of gripping, in the order grasp_object tries them.
Way == {"rim", "base", "floor", "side", "topdown"}
Rank == [w \in Way |-> CASE w = "rim" -> 1 [] w = "base" -> 2 [] w = "floor" -> 3
                         [] w = "side" -> 4 [] w = "topdown" -> 5]

\* found: the hand was read HELD when the call began.  opened: the call has
\* commanded the fingers open.  verified: what the hand held when the call
\* first saw its evidence confirmed.  way: the grip that is tried.
NoCall == [skill |-> "none", at |-> "done", found |-> FALSE, opened |-> FALSE,
           verified |-> Nothing, grasped |-> FALSE, way |-> "rim"]

At(skill, at) == call.skill = skill /\ call.at = at
Goes(at)        == call' = [call EXCEPT !.at = at]
GoesTo(places)  == \E at \in places : Goes(at)
GoesOpening(places) == \E at \in places : call' = [call EXCEPT !.at = at, !.opened = TRUE]

Init == hand = FreshHand /\ call = NoCall

Called(skill) ==
    /\ call.at = "done"
    /\ call' = [NoCall EXCEPT !.skill = skill, !.at = "begin", !.found = IsHeld(hand)]
    /\ UNCHANGED hand

\* What one operator after another may leave.
Reads(hands)   == {Read(h) : h \in hands}
ThenOpening(hands) == UNION {MoveOpening(h) : h \in hands}
-----------------------------------------------------------------------------
(***************************************************************************)
(* grasp_object: no regrasp of what is held; else one way of gripping      *)
(* after the other until a reading says HELD, a retreat from the camera's  *)
(* view, and the evidence.  How many candidates a way has is not kept.     *)
(***************************************************************************)
Grasping(at) == call.skill = "grasp_object" /\ call.at = at

RefuseRegrasp ==
    /\ Grasping("begin") /\ IsHeld(hand)
    /\ \E v \in Verify(Read(hand)), matches \in BOOLEAN :
          /\ hand' = v.hand
          /\ call' = [call EXCEPT !.at = "done",
                                  !.grasped = v.ok /\ v.hand.evid.identity /\ matches]

FindGrasps ==
    /\ Grasping("begin") /\ ~IsHeld(hand)
    /\ hand' = Forget(Read(hand))
    /\ GoesTo({"try", "done"})

TryGrasp ==
    /\ Grasping("try")
    /\ \E w \in Way :
          /\ Rank[w] >= Rank[call.way]
          /\ hand' \in SetOpen(hand)
          /\ call' = [call EXCEPT !.at = "approach", !.opened = TRUE, !.way = w]

\* A pose that is not reached ends the candidate.
Approach ==
    /\ Grasping("approach")
    /\ \/ hand' \in MoveOpening(hand) /\ GoesTo({"approach", "judge"})
       \/ hand' \in SetClosed(hand) /\ Goes("lift")

\* The rim is lifted when it is held, and let go where it cannot leave the cabinet.
LiftRim ==
    /\ Grasping("lift") /\ call.way = "rim"
    /\ \/ ~IsHeld(hand) /\ hand' = Read(hand) /\ Goes("judge")
       \/ IsHeld(hand) /\ hand' \in MoveClosing(Read(hand)) /\ GoesTo({"lift", "judge"})
       \/ IsHeld(hand) /\ hand' \in SetOpen(Read(hand)) /\ GoesOpening({"judge"})

\* A base that is not held is tried again a little aside.
LiftBase ==
    /\ Grasping("lift") /\ call.way = "base"
    /\ hand' \in Reads(MoveClosing(hand))
    /\ GoesTo(IF IsHeld(hand') THEN {"judge"} ELSE {"judge", "try"})

LiftStraight ==
    /\ Grasping("lift") /\ call.way \in {"floor", "topdown"}
    /\ hand' \in MoveClosing(hand) /\ Goes("judge")

\* From the side: held after the close and after the lift, or opened and the
\* next direction tried.
EnterFromSide ==
    /\ Grasping("lift") /\ call.way = "side"
    /\ \/ IsHeld(hand) /\ hand' \in Reads(MoveClosing(Read(hand))) /\ IsHeld(hand') /\ Goes("judge")
       \/ \E h \in {Read(hand)} \cup Reads(MoveClosing(Read(hand))) :
             /\ ~IsHeld(h)
             /\ hand' \in ThenOpening(SetOpen(h)) /\ GoesOpening({"approach", "judge"})

JudgeGrasp ==
    /\ Grasping("judge")
    /\ hand' = Read(hand)
    /\ GoesTo(IF IsHeld(hand) THEN {"clear"} ELSE {"try", "done"})

\* One retreat, or a lift and a step aside when it is blocked.
ClearSourceView ==
    /\ Grasping("clear")
    /\ hand' \in MoveClosing(hand) /\ GoesTo({"clear", "record"})

LostWhileClearing ==
    /\ Grasping("record") /\ ~IsHeld(hand)
    /\ hand' = Read(hand) /\ Goes("done")

\* The view is clear: recorded, unless the picture of the source is as it was.
RecordGrasp ==
    /\ Grasping("record") /\ IsHeld(hand)
    /\ \/ hand' = Read(hand) /\ Goes("done")
       \/ /\ \E identity \in BOOLEAN : hand' \in RecordHold(Read(hand), "recorded", identity)
          /\ call' = [call EXCEPT !.at = "done", !.grasped = hand'.evid # NoEvidence]

\* It is not: the hold is left to be confirmed by a later call.
LeaveHoldPending ==
    /\ Grasping("record") /\ IsHeld(hand)
    /\ \E identity \in BOOLEAN : hand' \in RecordHold(Read(hand), "pending", identity)
    /\ Goes("done")

GraspSteps ==
    \/ RefuseRegrasp \/ FindGrasps \/ TryGrasp \/ Approach \/ LiftRim \/ LiftBase
    \/ LiftStraight \/ EnterFromSide \/ JudgeGrasp \/ ClearSourceView
    \/ LostWhileClearing \/ RecordGrasp \/ LeaveHoldPending
-----------------------------------------------------------------------------
(***************************************************************************)
(* The four skills that put down what is held, and what they share: the    *)
(* check of the hand, a leg of the carry, the release.                     *)
(***************************************************************************)
HandCheck(h) == {[hand |-> Read(h), ok |-> IsHeld(h)]}
FullCheck(h) == IF IsHeld(h) THEN Verify(Read(h)) ELSE HandCheck(h)

Check(h, full) == IF full THEN FullCheck(h) ELSE HandCheck(h)

Checked(h) == Check(h, call.skill \in Grounded)

\* The pose may be corrected once, if the hand is checked first.
MoveCorrected(h) ==
    UNION {{m} \cup UNION {IF c.ok THEN MoveClosing(c.hand) ELSE {c.hand} : c \in Checked(m)} :
           m \in MoveClosing(h)}

Admit(skill, next) ==
    /\ At(skill, "begin")
    /\ \E c \in Checked(hand) :
          /\ hand' = c.hand
          /\ \/ Goes("done")
             \/ /\ c.ok /\ (skill = In => c.hand.evid.identity)
                /\ call' = [call EXCEPT !.at = next, !.verified = hand'.held]

\* Out of the camera's way, perhaps, to see where to put it.
Look(skill) ==
    /\ At(skill, "look")
    /\ hand' \in MoveClosing(hand) /\ GoesTo({"look", "approach", "done"})

\* A leg that is not reached ends the call unread; at its end the hand is checked,
\* and in full, by the picture too, where the skill does so.
Leg(skill, at, next, reached, full) ==
    /\ At(skill, at)
    /\ \/ hand' \in reached /\ Goes("done")
       \/ \E h \in reached : \E c \in Check(h, full) :
             hand' = c.hand /\ Goes(IF c.ok THEN next ELSE "done")

\* Opened and read, twice if need be (the second try is not counted).
LetGo(skill, failed) ==
    /\ At(skill, "release")
    /\ \E h \in SetOpen(hand) :
          hand' = Read(h) /\ GoesOpening(IF IsOpen(h) THEN {"retract"} ELSE {"release"} \cup failed)

Retract(skill) ==
    At(skill, "retract") /\ hand' \in MoveOpening(hand) /\ GoesOpening({"done"})

InBegins     == Admit(In, "look")
InFindsContainer == Look(In)
InApproaches == Leg(In, "approach", "descend", MoveClosing(hand), FALSE)
InDescends   ==
    At(In, "descend") /\ hand' \in MoveCorrected(hand) /\ GoesTo({"check", "done"})
\* Mutant: what the approach saw is good enough.
InTrustsTheApproach == At(In, "check") /\ Goes("release") /\ UNCHANGED hand

InChecks     == Leg(In, "check", "release", {hand}, TRUE)
InReleases   == LetGo(In, {"jammed", "done"})
\* What did not come free is gripped again, lifted a little and let go.
InRegrips    ==
    /\ At(In, "jammed")
    /\ \E h \in SetClosed(hand) : hand' = Read(h) /\ Goes(IF IsHeld(h) THEN "raise" ELSE "done")
InRaises     ==
    At(In, "raise") /\ hand' \in MoveClosing(hand) /\ GoesTo({"release", "done"})
InRetracts   == Retract(In)

OnBegins     == Admit(On, "look")
OnFindsSurface == Look(On)
OnApproaches == Leg(On, "approach", "stage", MoveCorrected(hand), TRUE)
OnStages     == Leg(On, "stage", "descend", MoveClosing(hand), TRUE)
OnDescends   ==
    At(On, "descend") /\ hand' \in MoveCorrected(hand) /\ GoesTo({"check", "done"})
OnChecks     == Leg(On, "check", "release", {hand}, TRUE)
OnReleases   == LetGo(On, {"done"})
OnRetracts   == Retract(On)

BesideBegins     == Admit(Beside, "approach")
BesideApproaches == Leg(Beside, "approach", "descend", MoveClosing(hand), FALSE)
BesideDescends   == Leg(Beside, "descend", "release", MoveClosing(hand), FALSE)
BesideReleases   == LetGo(Beside, {"done"})
BesideRetracts   == Retract(Beside)

ExactBegins      == Admit(Exact, "look")
ExactFindsTarget == Look(Exact)
ExactApproaches  == Leg(Exact, "approach", "descend", MoveCorrected(hand), FALSE)
ExactDescends    == Leg(Exact, "descend", "release", MoveCorrected(hand), FALSE)
ExactReleases    == LetGo(Exact, {"done"})
ExactRetracts    == Retract(Exact)

PlaceSteps ==
    \/ InBegins \/ InFindsContainer \/ InApproaches \/ InDescends \/ InChecks \/ InReleases
    \/ InRegrips \/ InRaises \/ InRetracts
    \/ OnBegins \/ OnFindsSurface \/ OnApproaches \/ OnStages \/ OnDescends \/ OnChecks
    \/ OnReleases \/ OnRetracts
    \/ BesideBegins \/ BesideApproaches \/ BesideDescends \/ BesideReleases \/ BesideRetracts
    \/ ExactBegins \/ ExactFindsTarget \/ ExactApproaches \/ ExactDescends \/ ExactReleases
    \/ ExactRetracts
-----------------------------------------------------------------------------
(***************************************************************************)
(* Drawers, doors and pushes: refused while something is held.             *)
(***************************************************************************)
RefuseWhileHolding ==
    /\ call.skill \in {Drawer, Door, "recover_joint_posture"} \cup Pushes /\ call.at = "begin"
    /\ IsHeld(hand) /\ hand' = Read(hand) /\ Goes("done")

\* Nothing is to do for open fingers; others are opened first.
OpenForHandle(skill, tries) ==
    /\ At(skill, "begin") /\ ~IsHeld(hand)
    /\ \/ IsOpen(hand) /\ hand' = Read(hand) /\ GoesTo({"reach", "done"})
       \/ /\ ~IsOpen(hand) /\ hand' \in tries
          /\ GoesOpening({"done"} \cup
                         IF IsOpen(hand') \/ skill = Drawer THEN {"reach"} ELSE {})

OpenAndRead(h) == Reads(SetOpen(h))

\* Twice where the first did not open; pull_drawer takes a wide gap for open.
OpenTwice(h) ==
    UNION {IF IsOpen(r) THEN {r} ELSE OpenAndRead(r) : r \in OpenAndRead(h)}

DrawerBegins == OpenForHandle(Drawer, OpenTwice(Read(hand)))

Reach(skill) ==
    /\ At(skill, "reach")
    /\ hand' \in MoveOpening(hand) /\ GoesOpening({"reach", "grip", "done"})

DrawerReaches == Reach(Drawer)

GripsDrawer ==
    /\ At(Drawer, "grip")
    /\ \E h \in Reads(SetClosed(hand)) :
          \/ IsHeld(h) /\ hand' = h /\ Goes("pull")
          \/ ~IsHeld(h) /\ hand' \in OpenTwice(h) /\ GoesOpening({"retract"})

PullsDrawer ==
    At(Drawer, "pull") /\ hand' \in Reads(MoveClosing(hand)) /\ Goes("letgo")

LetsDrawerGo ==
    At(Drawer, "letgo") /\ hand' \in OpenTwice(hand) /\ GoesOpening({"retract", "done"})

DrawerRetracts == Retract(Drawer)

DoorBegins == OpenForHandle(Door, OpenAndRead(Read(hand)))

DoorReaches == Reach(Door)

GripsDoor ==
    /\ At(Door, "grip")
    /\ \E h \in Reads(SetClosed(hand)) :
          \/ IsHeld(h) /\ hand' = h /\ Goes("pull")
          \/ ~IsHeld(h) /\ hand' \in SetOpen(h) /\ GoesOpening({"done"})

\* Along the arc as long as the handle is held.
SwingsDoor ==
    /\ At(Door, "pull")
    /\ hand' \in Reads(MoveClosing(hand))
    /\ GoesTo(IF IsHeld(hand') THEN {"pull", "letgo"} ELSE {"letgo"})

LetsDoorGo ==
    At(Door, "letgo") /\ hand' \in OpenAndRead(hand) /\ GoesOpening({"retract"})

DoorRetracts == Retract(Door)

\* Pushed with the fist: open fingers are closed first.
Fist(h) == IF IsOpen(h) THEN SetClosed(Read(h)) ELSE {Read(h)}

\* One motion after another, each keeping what it reads; a hand read open is
\* commanded open.
Keeps(at) ==
    /\ hand' \in MoveKeeping(hand)
    /\ call' = [call EXCEPT !.at = at, !.opened = @ \/ IsOpen(hand)]

MakeFist(skill) ==
    /\ At(skill, "begin") /\ ~IsHeld(hand)
    /\ \/ hand' \in Fist(hand) /\ Goes("push")
       \/ hand' = Read(hand) /\ Goes("done")

Push(skill) ==
    At(skill, "push") /\ hand' \in MoveClosing(hand) /\ GoesTo({"push", "letgo", "done"})

OpenFist(skill) ==
    At(skill, "letgo") /\ hand' \in SetOpen(hand) /\ GoesOpening({"done"})

ClosesDrawer == MakeFist("close_drawer") \/ Push("close_drawer") \/ OpenFist("close_drawer")

PushesObject == MakeFist("push_object") \/ Push("push_object") \/ OpenFist("push_object")

\* A hover that cannot be reached is tried again from the ready posture.
RecoversToPush == At("push_object", "push") /\ Keeps("push")

ContactSteps ==
    \/ RefuseWhileHolding
    \/ DrawerBegins \/ DrawerReaches \/ GripsDrawer \/ PullsDrawer \/ LetsDrawerGo \/ DrawerRetracts
    \/ DoorBegins \/ DoorReaches \/ GripsDoor \/ SwingsDoor \/ LetsDoorGo \/ DoorRetracts
    \/ ClosesDrawer \/ PushesObject \/ RecoversToPush
-----------------------------------------------------------------------------
(***************************************************************************)
(* The plain tools.                                                        *)
(***************************************************************************)
\* Mutant: the former bug, home with open fingers.
HomeOpens == At("home", "begin") /\ hand' \in MoveOpening(hand) /\ GoesOpening({"done"})

Home == At("home", "begin") /\ \E at \in {"begin", "done"} : Keeps(at)

MoveKept == At("move_keep", "begin") /\ \E at \in {"begin", "done"} : Keeps(at)

MoveCommanded ==
    \/ At("move_open", "begin") /\ hand' \in MoveOpening(hand) /\ GoesOpening({"done"})
    \/ At("move_close", "begin") /\ hand' \in MoveClosing(hand) /\ Goes("done")

RecoverPosture ==
    /\ At("recover_joint_posture", "begin") /\ ~IsHeld(hand)
    /\ \E at \in {"begin", "done"} : Keeps(at)

Gripper ==
    \/ At("gripper_open", "begin") /\ hand' \in OpenAndRead(hand) /\ GoesOpening({"done"})
    \/ At("gripper_close", "begin") /\ hand' \in Reads(SetClosed(hand)) /\ Goes("done")

ReadHand == call.skill \in Readings /\ call.at = "begin" /\ hand' = Read(hand) /\ Goes("done")

\* An exception ends a call between two of its steps.
CallFails == call.at \notin {"begin", "done"} /\ Goes("done") /\ UNCHANGED hand

\* The adapter's reset: the next episode, with nothing kept of this one.
Reset == call.at = "done" /\ hand' = FreshHand /\ call' = NoCall

ToolSteps ==
    \/ Home \/ MoveKept \/ MoveCommanded \/ RecoverPosture \/ Gripper \/ ReadHand
    \/ CallFails \/ Reset

Next ==
    \/ \E skill \in Skill : Called(skill)
    \/ GraspSteps \/ PlaceSteps \/ ContactSteps \/ ToolSteps

Spec == Init /\ [][Next]_vars
-----------------------------------------------------------------------------
\* Evidence never outlives the grip it was taken of: when there is evidence and
\* the fingers hold something, it is the object they held when the camera saw
\* its place emptied (visual_hold.py:120; every command that opens clears it).
EvidenceIsOfTheHeldObject ==
    hand.evid # NoEvidence /\ hand.held # Nothing => hand.evid.of = hand.held

\* What place_object_in and place_on_surface let go first is the object whose
\* evidence was confirmed when they were called: still in the fingers after the
\* carry, recorded, and of a checked identity where the skill wants one
\* (place_object_in:1139-1174, place_on_surface:878-942).
ReleasesWhatWasVerified ==
    call.skill \in Grounded /\ call.at = "release" /\ ~call.opened =>
        /\ IsHeld(hand) /\ hand.held = call.verified
        /\ hand.evid # NoEvidence /\ hand.evid.of = hand.held
        /\ hand.evid.kind = "recorded"
        /\ call.skill = "place_object_in" => hand.evid.identity

\* A hand read HELD when a skill is called is opened by the placing skills and
\* on request, by nothing else: no view-clearing move, recovery, push or pull
\* drops the object (home's docstring names the bug this was).
OpensOnPurpose ==
    call.found /\ call.opened => call.skill \in Places \cup {"gripper_open", "move_open"}

LiberoTypeOK ==
    /\ hand \in Hand
    /\ call \in [skill : Skill \cup {"none"},
                 at : {"begin", "try", "approach", "lift", "judge", "clear", "record",
                       "look", "descend", "stage", "check", "release", "jammed", "raise",
                       "retract", "reach", "grip", "pull", "letgo", "push", "done"},
                 found : BOOLEAN, opened : BOOLEAN, grasped : BOOLEAN, way : Way,
                 verified : Object \cup {Nothing}]
=============================================================================
