------------------------- MODULE LiberoSkillsProofs -------------------------
(***************************************************************************)
(* Theorems about LiberoSkills for any objects: the types, and the three   *)
(* invariants on evidence, release and opening.                            *)
(*                                                                         *)
(* What the operators of GripperHold leave is said once, by a lemma for    *)
(* each of them; a step of a skill is then one or two of these lemmas.     *)
(***************************************************************************)
EXTENDS LiberoSkills, TLAPS

\* Fingers that hold nothing are shut.
EmptyIsShut(h) == h.held = Nothing => h.gap = Shut

\* Evidence is of what is held, or what it was of is lost and the fingers shut.
Sound(h) == h.evid # NoEvidence =>
    \/ h.held # Nothing /\ h.evid.of = h.held
    \/ h.held = Nothing /\ h.gap = Shut

\* A closing grip, or what is left of it: never read open.
Gripping(h) == h.gap = Shut \/ (h.last = "close" /\ h.gap # Wide /\ ~h.stalled)

\* The same grip as before, or lost.
KeptOrLost(h, m) == \/ m.held = h.held /\ m.gap = h.gap
                    \/ m.held = Nothing /\ m.gap = Shut

\* What a carried object may come to: nothing else is gripped on the way, and
\* evidence is kept or forgotten, never made.
Carried(h, m) ==
    /\ m \in Hand /\ (Sound(h) => Sound(m))
    /\ h.held # Nothing => KeptOrLost(h, m)
    /\ h.held = Nothing /\ h.gap = Shut => m.held = Nothing /\ m.gap = Shut
    /\ m.evid # NoEvidence => h.evid # NoEvidence /\ m.evid.identity = h.evid.identity

\* Where a grasp closes, or asks what it closed on, the fingers are on something
\* or shut: the picture is only asked of a true hold.
GraspInv == call.skill = "grasp_object" =>
    /\ call.at = "approach" => hand.last = "open"
    /\ call.at = "judge" => hand.last = "open" \/ EmptyIsShut(hand)
    /\ call.at \in {"lift", "clear", "record"} => EmptyIsShut(hand)

\* On the way to the release the fingers hold what was verified, or nothing.
OnTheWay == {"look", "approach", "stage", "descend", "check"}
CarryInv == call.skill \in Grounded =>
    /\ call.at = "begin" => ~call.opened
    /\ call.at \in OnTheWay =>
          /\ ~call.opened /\ call.verified # Nothing
          /\ hand.held = call.verified \/ (hand.held = Nothing /\ hand.gap = Shut)
          /\ call.skill = In /\ hand.evid # NoEvidence => hand.evid.identity
    /\ call.at \in {"jammed", "raise", "retract"} => call.opened

\* A call that found something held and is not to open the fingers refuses at its
\* beginning, or keeps the grip.
Openers == Places \cup {"gripper_open", "move_open"}
Refusers == Grasp \cup {Drawer, Door, "recover_joint_posture"} \cup Pushes
Keepers == {"home", "move_keep"}
KeepInv == call.found /\ call.skill \notin Openers =>
    /\ ~call.opened
    /\ call.at # "done" /\ call.skill \in Refusers => call.at = "begin" /\ IsHeld(hand)
    /\ call.at # "done" /\ call.skill \in Keepers => Gripping(hand)

IInv == /\ LiberoTypeOK /\ Sound(hand) /\ GraspInv /\ CarryInv /\ KeepInv
        /\ ReleasesWhatWasVerified
-----------------------------------------------------------------------------
LEMMA GapFacts == Gap = {Shut, Mid, Near, Wide} /\ Shut # Mid /\ Shut # Near /\ Shut # Wide
                  /\ Mid # Near /\ Mid # Wide /\ Near # Wide
BY DEF Gap, Shut, Mid, Near, Wide

LEMMA ReadLeaves ==
    ASSUME NEW h \in Hand
    PROVE  /\ Read(h) \in Hand
           /\ Read(h).gap = h.gap /\ Read(h).held = h.held /\ Read(h).last = h.last
           /\ Read(h).evid = IF IsHeld(h) THEN h.evid ELSE NoEvidence
           /\ IsHeld(Read(h)) <=> IsHeld(h)
           /\ IsOpen(Read(h)) <=> IsOpen(h)
           /\ Sound(h) => Sound(Read(h))
           /\ Gripping(h) => Gripping(Read(h))
BY GapFacts DEF Read, Hand, IsHeld, IsOpen, AtAnEnd, AtOpenEnd, Sound, Gripping

LEMMA HeldIsInside ==
    ASSUME NEW h \in Hand, IsHeld(h)
    PROVE  h.gap # Shut /\ h.last = "close" /\ ~IsOpen(h) /\ Gripping(h)
BY GapFacts DEF Hand, IsHeld, IsOpen, AtAnEnd, AtOpenEnd, Gripping

LEMMA GrippingIsNotOpen ==
    ASSUME NEW h \in Hand, Gripping(h)
    PROVE  ~IsOpen(h)
BY GapFacts DEF Hand, IsOpen, AtAnEnd, AtOpenEnd, Gripping

LEMMA FlagsTyped ==
    ASSUME NEW a \in BOOLEAN, NEW b \in BOOLEAN
    PROVE  Flags(a, b) \in [latched : BOOLEAN, stalled : BOOLEAN]
BY DEF Flags

LEMMA WithLeaves ==
    ASSUME NEW h \in Hand, NEW last \in {"none", "open", "close"},
           NEW f \in Gap \X (Object \cup {Nothing}),
           NEW g \in [latched : BOOLEAN, stalled : BOOLEAN]
    PROVE  /\ With(h, last, f, g) \in Hand
           /\ With(h, last, f, g).gap = f[1] /\ With(h, last, f, g).held = f[2]
           /\ With(h, last, f, g).last = last /\ With(h, last, f, g).evid = h.evid
           /\ With(h, last, f, g).stalled = g.stalled
BY DEF With, Hand

LEMMA ClosesLeaves ==
    ASSUME NEW h \in Hand, NEW f \in Closes(h)
    PROVE  /\ f \in Gap \X (Object \cup {Nothing}) /\ f[1] <= h.gap
           /\ f[2] = Nothing => f[1] = Shut
           /\ h.held # Nothing => (f[1] = h.gap /\ f[2] = h.held) \/ (f[1] = Shut /\ f[2] = Nothing)
BY ObjectAssumption DEF Closes, Hand, Gap, Shut, Mid, Near, Wide

LEMMA ClosesInPartLeaves ==
    ASSUME NEW h \in Hand, NEW f \in ClosesInPart(h)
    PROVE  /\ f \in Gap \X (Object \cup {Nothing}) /\ f[1] <= h.gap
           /\ h.held # Nothing => (f[1] = h.gap /\ f[2] = h.held) \/ (f[1] = Shut /\ f[2] = Nothing)
           /\ h.held = Nothing /\ h.gap = Shut => f[1] = Shut /\ f[2] = Nothing
BY ObjectAssumption DEF Closes, ClosesInPart, Hand, Gap, Shut, Mid, Near, Wide

LEMMA OpensLeaves ==
    ASSUME NEW h \in Hand, NEW f \in Opens(h)
    PROVE  f \in Gap \X (Object \cup {Nothing})
BY DEF Opens, Hand, Gap, Shut, Mid, Near, Wide

LEMMA KeptClosingLeaves ==
    ASSUME NEW h \in Hand, NEW gap \in Gap, NEW g \in KeptClosing(h, gap)
    PROVE  /\ g \in [latched : BOOLEAN, stalled : BOOLEAN]
           /\ gap # Wide /\ gap # Shut /\ h.gap # Wide => g.stalled = h.stalled
<1>1. h.latched \in BOOLEAN /\ h.stalled \in BOOLEAN /\ h.gap \in Gap
  BY DEF Hand
<1>2. CASE gap \in {Shut, Wide}
  BY <1>2, FlagsTyped, GapFacts DEF KeptClosing
<1>3. CASE gap \notin {Shut, Wide}
  <2>1. g = Flags(h.latched, h.stalled) \/ (h.gap = Wide /\ g = Flags(FALSE, TRUE))
    BY <1>3 DEF KeptClosing
  <2>2. g \in [latched : BOOLEAN, stalled : BOOLEAN]
    BY <2>1, <1>1, FlagsTyped
  <2>3. Flags(h.latched, h.stalled).stalled = h.stalled
    BY DEF Flags
  <2> QED BY <2>1, <2>2, <2>3
<1> QED BY <1>2, <1>3

LEMMA MoveClosingLeaves ==
    ASSUME NEW h \in Hand, NEW m \in MoveClosing(h)
    PROVE  /\ m \in Hand /\ m.evid = h.evid
           /\ m.last \in {h.last, "close"}
           /\ h.held # Nothing => KeptOrLost(h, m)
           /\ h.held = Nothing /\ h.gap = Shut => m.held = Nothing /\ m.gap = Shut
           /\ EmptyIsShut(h) => EmptyIsShut(m)
           /\ Sound(h) => Sound(m)
           /\ Gripping(h) => Gripping(m)
<1>1. CASE m = h
  BY <1>1 DEF KeptOrLost
<1>2. CASE m # h
  <2>1. PICK f \in ClosesInPart(h) : \E g \in KeptClosing(h, f[1]) : m = With(h, "close", f, g)
    BY <1>2 DEF MoveClosing
  <2>9. PICK g \in KeptClosing(h, f[1]) : m = With(h, "close", f, g)
    BY <2>1
  <2>2. /\ f \in Gap \X (Object \cup {Nothing}) /\ f[1] <= h.gap
        /\ h.held # Nothing => (f[1] = h.gap /\ f[2] = h.held) \/ (f[1] = Shut /\ f[2] = Nothing)
        /\ h.held = Nothing /\ h.gap = Shut => f[1] = Shut /\ f[2] = Nothing
    BY ClosesInPartLeaves
  <2>3. /\ g \in [latched : BOOLEAN, stalled : BOOLEAN]
        /\ f[1] # Wide /\ f[1] # Shut /\ h.gap # Wide => g.stalled = h.stalled
    BY <2>2, KeptClosingLeaves
  <2>4. /\ m \in Hand /\ m.gap = f[1] /\ m.held = f[2] /\ m.last = "close"
        /\ m.evid = h.evid /\ m.stalled = g.stalled
    BY <2>9, <2>2, <2>3, WithLeaves
  <2>5. KeptOrLost(h, m) \/ h.held = Nothing
    BY <2>2, <2>4 DEF KeptOrLost
  <2>6. EmptyIsShut(h) => EmptyIsShut(m)
    BY <2>2, <2>4 DEF EmptyIsShut
  <2>7. Sound(h) => Sound(m)
    BY <2>2, <2>4 DEF Sound
  <2>8. Gripping(h) => Gripping(m)
    <3>1. f[1] \in Gap /\ h.gap \in Gap
      BY <2>2 DEF Hand
    <3>2. h.gap = Shut => m.gap = Shut
      BY <3>1, <2>2, <2>4 DEF Gap, Shut, Wide
    <3>3. h.gap # Wide => m.gap # Wide
      BY <3>1, <2>2, <2>4 DEF Gap, Shut, Wide
    <3> QED BY <2>3, <2>4, <3>2, <3>3 DEF Gripping
  <2> QED BY <2>2, <2>4, <2>5, <2>6, <2>7, <2>8
<1> QED BY <1>1, <1>2

LEMMA SetClosedLeaves ==
    ASSUME NEW h \in Hand, NEW m \in SetClosed(h)
    PROVE  /\ m \in Hand /\ m.evid = h.evid /\ m.last = "close"
           /\ EmptyIsShut(m)
           /\ Sound(h) => Sound(m)
<1>1. PICK f \in Closes(h) :
        \E g \in UNION {ConfirmClose(k, f[1], v) :
                          k \in KeptClosing(h, f[1]), v \in MayMove(h.gap, f[1])} :
           m = With(h, "close", f, g)
  BY DEF SetClosed
<1>2. PICK g \in [latched : BOOLEAN, stalled : BOOLEAN] : m = With(h, "close", f, g)
  <2>1. PICK g \in UNION {ConfirmClose(k, f[1], v) :
                          k \in KeptClosing(h, f[1]), v \in MayMove(h.gap, f[1])} :
           m = With(h, "close", f, g)
    BY <1>1
  <2>2. PICK k, v : g \in ConfirmClose(k, f[1], v)
    BY <2>1
  <2> QED BY <2>1, <2>2 DEF ConfirmClose
<1>3. /\ f \in Gap \X (Object \cup {Nothing}) /\ f[1] <= h.gap
      /\ f[2] = Nothing => f[1] = Shut
      /\ h.held # Nothing => (f[1] = h.gap /\ f[2] = h.held) \/ (f[1] = Shut /\ f[2] = Nothing)
  BY ClosesLeaves
<1>4. /\ m \in Hand /\ m.gap = f[1] /\ m.held = f[2] /\ m.last = "close" /\ m.evid = h.evid
  BY <1>2, <1>3, WithLeaves
<1>5. h.held = Nothing /\ h.gap = Shut => m.gap = Shut /\ m.held = Nothing
  BY <1>1, <1>4 DEF Closes, Gap, Shut, Wide
<1>6. Sound(h) => Sound(m)
  BY <1>3, <1>4, <1>5 DEF Sound
<1> QED BY <1>3, <1>4, <1>6 DEF EmptyIsShut

LEMMA ForgetLeaves ==
    ASSUME NEW h \in Hand
    PROVE  /\ Forget(h) \in Hand /\ Forget(h).evid = NoEvidence /\ Sound(Forget(h))
           /\ Forget(h).last = h.last /\ Forget(h).gap = h.gap
BY DEF Forget, Hand, Sound

LEMMA WithOpenLeaves ==
    ASSUME NEW h \in Hand, h.evid = NoEvidence, NEW f \in Gap \X (Object \cup {Nothing}),
           NEW g \in [latched : BOOLEAN, stalled : BOOLEAN]
    PROVE  LET m == With(h, "open", f, g)
           IN  m \in Hand /\ m.evid = NoEvidence /\ Sound(m) /\ m.last = "open"
<1> DEFINE m == With(h, "open", f, g)
<1>1. m \in Hand /\ m.evid = NoEvidence /\ m.last = "open"
  BY WithLeaves
<1> QED BY <1>1 DEF Sound

LEMMA SetOpenLeaves ==
    ASSUME NEW h \in Hand, NEW m \in SetOpen(h)
    PROVE  m \in Hand /\ m.evid = NoEvidence /\ Sound(m) /\ m.last = "open"
<1>1. PICK f \in Opens(h) : m = With(Forget(h), "open", f, Flags(FALSE, FALSE))
  BY DEF SetOpen
<1>2. Forget(h) \in Hand /\ Forget(h).evid = NoEvidence /\ f \in Gap \X (Object \cup {Nothing})
  BY OpensLeaves, ForgetLeaves
<1>3. Flags(FALSE, FALSE) \in [latched : BOOLEAN, stalled : BOOLEAN]
  BY FlagsTyped
<1> QED BY <1>1, <1>2, <1>3, WithOpenLeaves

LEMMA MoveOpeningLeaves ==
    ASSUME NEW h \in Hand, NEW m \in MoveOpening(h)
    PROVE  m \in Hand /\ m.evid = NoEvidence /\ Sound(m) /\ m.last \in {h.last, "open"}
<1>1. CASE m = Forget(h)
  BY <1>1, ForgetLeaves
<1>2. CASE m # Forget(h)
  <2>1. PICK f \in Opens(h) :
          m = With(Forget(h), "open", f,
                   IF f[1] = Wide THEN Flags(FALSE, FALSE) ELSE Flags(h.latched, h.stalled))
    BY <1>2 DEF MoveOpening
  <2>2. h.latched \in BOOLEAN /\ h.stalled \in BOOLEAN
    BY DEF Hand
  <2>3. Forget(h) \in Hand /\ Forget(h).evid = NoEvidence /\ f \in Gap \X (Object \cup {Nothing})
    BY OpensLeaves, ForgetLeaves
  <2> DEFINE g == IF f[1] = Wide THEN Flags(FALSE, FALSE) ELSE Flags(h.latched, h.stalled)
  <2>4. g \in [latched : BOOLEAN, stalled : BOOLEAN]
    BY <2>2, FlagsTyped
  <2>5. m = With(Forget(h), "open", f, g)
    BY <2>1
  <2> HIDE DEF g
  <2> QED BY <2>3, <2>4, <2>5, WithOpenLeaves
<1> QED BY <1>1, <1>2

LEMMA MoveKeepingLeaves ==
    ASSUME NEW h \in Hand, Sound(h), NEW m \in MoveKeeping(h)
    PROVE  m \in Hand /\ Sound(m) /\ (Gripping(h) => Gripping(m))
BY ReadLeaves, MoveOpeningLeaves, MoveClosingLeaves, GrippingIsNotOpen DEF MoveKeeping

LEMMA RecordHoldLeaves ==
    ASSUME NEW h \in Hand, NEW kind \in {"recorded", "pending"}, NEW identity \in BOOLEAN,
           NEW m \in RecordHold(h, kind, identity)
    PROVE  m \in Hand /\ (h.held # Nothing => Sound(m))
<1>1. CASE m = Forget(h)
  BY <1>1, ForgetLeaves
<1>2. CASE m = [h EXCEPT !.evid = [kind |-> kind, of |-> h.held, identity |-> identity]]
  BY <1>2 DEF Hand, Evidence, Sound
<1> QED BY <1>1, <1>2 DEF RecordHold

LEMMA VerifyLeaves ==
    ASSUME NEW h \in Hand, NEW v \in Verify(h)
    PROVE  /\ v.hand \in Hand /\ v.ok \in BOOLEAN
           /\ v.hand.gap = h.gap /\ v.hand.held = h.held /\ v.hand.last = h.last
           /\ v.hand.latched = h.latched /\ v.hand.stalled = h.stalled
           /\ v.hand.evid # NoEvidence <=> h.evid # NoEvidence
           /\ h.evid # NoEvidence => /\ v.hand.evid.of = h.evid.of
                                     /\ v.hand.evid.identity = h.evid.identity
           /\ v.ok => v.hand.evid # NoEvidence /\ v.hand.evid.kind = "recorded"
           /\ Sound(h) => Sound(v.hand)
           /\ IsHeld(v.hand) <=> IsHeld(h)
<1>1. CASE v = [hand |-> h, ok |-> FALSE]
  BY <1>1
<1>2. CASE h.evid # NoEvidence /\ v = [hand |-> [h EXCEPT !.evid.kind = "recorded"], ok |-> TRUE]
  <2>1. h.evid \in Evidence
    BY <1>2 DEF Hand
  <2>2. [h.evid EXCEPT !.kind = "recorded"] \in Evidence
    BY <2>1 DEF Evidence
  <2>3. v.hand = [h EXCEPT !.evid = [h.evid EXCEPT !.kind = "recorded"]] /\ v.ok = TRUE
    BY <1>2
  <2>4. v.hand \in Hand /\ v.hand.evid = [h.evid EXCEPT !.kind = "recorded"]
    BY <2>2, <2>3 DEF Hand
  <2>5. v.hand.evid # NoEvidence
    BY <2>2, <2>4, ObjectAssumption
  <2>6. /\ v.hand.evid.of = h.evid.of /\ v.hand.evid.identity = h.evid.identity
        /\ v.hand.evid.kind = "recorded"
    BY <2>1, <2>4 DEF Evidence
  <2>7. /\ v.hand.gap = h.gap /\ v.hand.held = h.held /\ v.hand.last = h.last
        /\ v.hand.latched = h.latched /\ v.hand.stalled = h.stalled
    BY <2>3 DEF Hand
  <2> QED BY <1>2, <2>3, <2>4, <2>5, <2>6, <2>7 DEF Sound, IsHeld, AtAnEnd, AtOpenEnd
<1> QED BY <1>1, <1>2 DEF Verify
-----------------------------------------------------------------------------
(***************************************************************************)
(* What a carry leaves.                                                    *)
(***************************************************************************)
LEMMA CarriedTwice ==
    ASSUME NEW h, NEW m, NEW n, Carried(h, m), Carried(m, n)
    PROVE  Carried(h, n)
<1>1. h.held # Nothing => KeptOrLost(h, n)
  BY DEF Carried, KeptOrLost
<1> QED BY <1>1 DEF Carried

LEMMA MoveClosingCarries ==
    ASSUME NEW h \in Hand, NEW m \in MoveClosing(h)
    PROVE  Carried(h, m)
BY MoveClosingLeaves DEF Carried

LEMMA CheckLeaves ==
    ASSUME NEW h \in Hand, NEW full \in BOOLEAN, NEW c \in Check(h, full)
    PROVE  /\ Carried(h, c.hand)
           /\ c.hand.held = h.held /\ c.hand.gap = h.gap
           /\ c.ok => IsHeld(c.hand)
           /\ c.ok /\ full => c.hand.evid # NoEvidence /\ c.hand.evid.kind = "recorded"
<1>1. Carried(h, Read(h))
  BY ReadLeaves DEF Carried, KeptOrLost
<1>2. CASE c \in HandCheck(h) /\ (full => ~IsHeld(h))
  <2>1. c.hand = Read(h) /\ c.ok = IsHeld(h)
    BY <1>2 DEF HandCheck
  <2> QED BY <1>1, <1>2, <2>1, ReadLeaves
<1>3. CASE full /\ IsHeld(h) /\ c \in Verify(Read(h))
  <2>1. /\ Read(h) \in Hand /\ Read(h).held = h.held /\ Read(h).gap = h.gap
        /\ IsHeld(Read(h)) /\ Read(h).evid = h.evid /\ (Sound(h) => Sound(Read(h)))
    BY <1>3, ReadLeaves
  <2>2. /\ c.hand \in Hand /\ c.hand.held = h.held /\ c.hand.gap = h.gap
        /\ (Sound(h) => Sound(c.hand)) /\ IsHeld(c.hand)
        /\ c.hand.evid # NoEvidence => h.evid # NoEvidence /\ c.hand.evid.identity = h.evid.identity
        /\ c.ok => c.hand.evid # NoEvidence /\ c.hand.evid.kind = "recorded"
    BY <1>3, <2>1, VerifyLeaves
  <2> QED BY <2>2 DEF Carried, KeptOrLost
<1> QED BY <1>2, <1>3 DEF Check, FullCheck

LEMMA MoveCorrectedCarries ==
    ASSUME NEW h \in Hand, NEW m \in MoveCorrected(h)
    PROVE  Carried(h, m)
<1>1. PICK k \in MoveClosing(h) :
        m \in {k} \cup UNION {IF c.ok THEN MoveClosing(c.hand) ELSE {c.hand} : c \in Checked(k)}
  BY DEF MoveCorrected
<1>2. Carried(h, k) /\ k \in Hand
  BY MoveClosingCarries, MoveClosingLeaves
<1>3. CASE m # k
  <2>1. PICK c \in Checked(k) : m \in IF c.ok THEN MoveClosing(c.hand) ELSE {c.hand}
    BY <1>1, <1>3
  <2>2. Carried(k, c.hand) /\ c.hand \in Hand
    <3>1. (call.skill \in Grounded) \in BOOLEAN
      OBVIOUS
    <3>2. c \in Check(k, call.skill \in Grounded)
      BY <2>1 DEF Checked
    <3> QED BY <1>2, <3>1, <3>2, CheckLeaves DEF Carried
  <2>3. Carried(h, c.hand)
    BY <1>2, <2>2, CarriedTwice
  <2>4. m # c.hand => m \in MoveClosing(c.hand)
    BY <2>1
  <2>5. m # c.hand => Carried(c.hand, m)
    BY <2>2, <2>4, MoveClosingCarries
  <2> QED BY <2>3, <2>5, CarriedTwice
<1> QED BY <1>2, <1>3
-----------------------------------------------------------------------------
(***************************************************************************)
(* Steps.  A call goes to its next place and may have opened the fingers;  *)
(* the rest of it stays.                                                   *)
(***************************************************************************)
Place == {"begin", "try", "approach", "lift", "judge", "clear", "record",
          "look", "descend", "stage", "check", "release", "jammed", "raise",
          "retract", "reach", "grip", "pull", "letgo", "push", "done"}

CallSet == [skill : Skill \cup {"none"}, at : Place, found : BOOLEAN, opened : BOOLEAN,
            grasped : BOOLEAN, way : Way, verified : Object \cup {Nothing}]

\* The call after a step that only goes on, and whether the step opened.
Moved(at, opened) ==
    /\ call' \in CallSet
    /\ call'.skill = call.skill /\ call'.found = call.found /\ call'.verified = call.verified
    /\ call'.at = at /\ call'.opened = opened

LEMMA TypeOKIs == LiberoTypeOK <=> hand \in Hand /\ call \in CallSet
BY DEF LiberoTypeOK, CallSet, Place

LEMMA GoesMoves ==
    ASSUME call \in CallSet, NEW at \in Place, Goes(at)
    PROVE  Moved(at, call.opened)
BY DEF Goes, Moved, CallSet

LEMMA GoesToMoves ==
    ASSUME call \in CallSet, NEW places \in SUBSET Place, GoesTo(places)
    PROVE  \E at \in places : Moved(at, call.opened)
BY GoesMoves DEF GoesTo

LEMMA GoesOpeningMoves ==
    ASSUME call \in CallSet, NEW places \in SUBSET Place, GoesOpening(places)
    PROVE  \E at \in places : Moved(at, TRUE)
BY DEF GoesOpening, Moved, CallSet

LEMMA SkillFacts ==
    /\ \A s \in Places : s \in Openers /\ s # "grasp_object"
    /\ \A s \in Refusers \cup Keepers : s \notin Openers /\ s \notin Grounded
    /\ \A s \in Refusers : s \notin Keepers
    /\ \A s \in Skill \ Places : s \notin Grounded
BY DEF Places, Openers, Refusers, Keepers, Grounded, In, On, Beside, Exact, Grasp, Drawer, Door,
       Pushes, Skill

\* Outside the carry a step has only its own skill's invariant to keep.
LEMMA StepElsewhere ==
    ASSUME IInv, NEW at \in Place, NEW opened, Moved(at, opened), call.skill \notin Grounded,
           hand' \in Hand, Sound(hand)', GraspInv', KeepInv'
    PROVE  IInv'
BY TypeOKIs DEF IInv, Moved, CarryInv, ReleasesWhatWasVerified, LiberoTypeOK, CallSet, Place

\* A skill that refuses what it finds held found nothing once it is past its
\* beginning: it may open and close as it likes.
LEMMA FoundNothing ==
    ASSUME IInv, call.skill \in Refusers, call.at # "done",
           call.at # "begin" \/ ~IsHeld(hand)
    PROVE  ~call.found
BY SkillFacts DEF IInv, KeepInv, LiberoTypeOK

LEMMA StepOfFreeHand ==
    ASSUME IInv, NEW at \in Place, NEW opened, Moved(at, opened), call.skill \in Refusers,
           ~call.found, hand' \in Hand, Sound(hand)', GraspInv'
    PROVE  IInv'
<1>1. KeepInv'
  BY DEF Moved, KeepInv
<1> QED BY <1>1, StepElsewhere, SkillFacts

LEMMA CalledKeeps ==
    ASSUME IInv, NEW skill \in Skill, Called(skill)
    PROVE  IInv'
<1>1. call' \in CallSet
  <2>1. call' = [skill |-> skill, at |-> "begin", found |-> IsHeld(hand), opened |-> FALSE,
                 verified |-> Nothing, grasped |-> FALSE, way |-> "rim"]
    BY DEF Called, NoCall
  <2>2. IsHeld(hand) \in BOOLEAN
    BY DEF IsHeld
  <2> QED BY <2>1, <2>2 DEF CallSet, Place, Way
<1>2. /\ call'.skill = skill /\ call'.at = "begin" /\ call'.found = IsHeld(hand)
      /\ call'.opened = FALSE /\ hand' = hand
  BY DEF Called, NoCall
<1>3. IsHeld(hand) => Gripping(hand)
  BY HeldIsInside, TypeOKIs DEF IInv
<1>4. KeepInv'
  BY <1>2, <1>3 DEF KeepInv
<1>5. LiberoTypeOK' /\ Sound(hand)'
  BY <1>1, <1>2, TypeOKIs DEF IInv, LiberoTypeOK, CallSet, Place
<1> QED BY <1>2, <1>4, <1>5 DEF IInv, GraspInv, CarryInv, OnTheWay, ReleasesWhatWasVerified
-----------------------------------------------------------------------------
LEMMA GraspStepsKeep ==
    ASSUME IInv, GraspSteps
    PROVE  IInv'
<1> USE DEF IInv
<1>1. /\ call.skill = "grasp_object" /\ call.skill \in Refusers /\ call.at # "done"
      /\ hand \in Hand /\ call \in CallSet /\ Sound(hand) /\ GraspInv
  BY TypeOKIs DEF GraspSteps, RefuseRegrasp, FindGrasps, TryGrasp, Approach, LiftRim, LiftBase,
        LiftStraight, EnterFromSide, JudgeGrasp, ClearSourceView, LostWhileClearing, RecordGrasp,
        LeaveHoldPending, Grasping, Refusers, Grasp
<1> DEFINE Steps(at, opened) == Moved(at, opened) /\ hand' \in Hand /\ Sound(hand)' /\ GraspInv'
<1> HIDE DEF IInv
<1>2. CASE RefuseRegrasp
  <2>1. PICK v \in Verify(Read(hand)), matches \in BOOLEAN :
          /\ hand' = v.hand
          /\ call' = [call EXCEPT !.at = "done",
                                  !.grasped = v.ok /\ v.hand.evid.identity /\ matches]
    BY <1>2 DEF RefuseRegrasp
  <2>2. v.hand \in Hand /\ Sound(v.hand)
    BY <1>1, ReadLeaves, VerifyLeaves
  <2>3. (v.ok /\ v.hand.evid.identity /\ matches) \in BOOLEAN
    OBVIOUS
  <2>4. Moved("done", call.opened)
    BY <1>1, <2>1, <2>3 DEF Moved, CallSet, Place
  <2>5. KeepInv'
    BY <1>1, <2>4 DEF Moved, KeepInv, IInv
  <2>6. GraspInv'
    BY <2>4 DEF Moved, GraspInv
  <2> QED BY <1>1, <2>1, <2>2, <2>4, <2>5, <2>6, StepElsewhere, SkillFacts DEF Place, Moved
<1>3. CASE ~RefuseRegrasp
  <2>1. ~call.found
    BY <1>1, <1>3, FoundNothing DEF GraspSteps, FindGrasps, TryGrasp, Approach, LiftRim, LiftBase,
        LiftStraight, EnterFromSide, JudgeGrasp, ClearSourceView, LostWhileClearing, RecordGrasp,
        LeaveHoldPending, Grasping
  <2>2. SUFFICES \E at \in Place, opened \in BOOLEAN : Steps(at, opened)
    BY <1>1, <2>1, StepOfFreeHand
  <2>3. CASE FindGrasps
    BY <1>1, <2>3, ReadLeaves, ForgetLeaves, GoesToMoves DEF FindGrasps, Place, Moved, GraspInv,
       CallSet
  <2>4. CASE TryGrasp
    BY <1>1, <2>4, SetOpenLeaves DEF TryGrasp, Place, Moved, GraspInv, CallSet, Way
  <2>5. CASE Approach
    BY <1>1, <2>5, MoveOpeningLeaves, SetClosedLeaves, GoesToMoves, GoesMoves DEF Approach,
       Grasping, Place, Moved, GraspInv, CallSet
  <2>6. CASE LiftRim
    <3>1. CASE hand' = Read(hand) /\ Goes("judge")
      BY <1>1, <2>6, <3>1, ReadLeaves, GoesMoves DEF LiftRim, Grasping, EmptyIsShut, Place, Moved,
         GraspInv, CallSet
    <3>2. CASE hand' \in MoveClosing(Read(hand)) /\ GoesTo({"lift", "judge"})
      BY <1>1, <2>6, <3>2, ReadLeaves, MoveClosingLeaves, GoesToMoves DEF LiftRim, Grasping,
         EmptyIsShut, Place, Moved, GraspInv, CallSet
    <3>3. CASE hand' \in SetOpen(Read(hand)) /\ GoesOpening({"judge"})
      <4>1. hand' \in Hand /\ Sound(hand)' /\ hand'.last = "open"
        BY <1>1, <3>3, ReadLeaves, SetOpenLeaves
      <4>2. \E at \in {"judge"} : Moved(at, TRUE)
        <5>1. {"judge"} \in SUBSET Place
          BY DEF Place
        <5>2. GoesOpening({"judge"}) /\ call \in CallSet
          BY <1>1, <3>3
        <5> QED BY <5>1, <5>2, GoesOpeningMoves
      <4> QED BY <4>1, <4>2 DEF Place, Moved, GraspInv
    <3> QED BY <2>6, <3>1, <3>2, <3>3 DEF LiftRim
  <2>7. CASE LiftBase
    <3>1. GoesTo({"judge", "try"})
      BY <2>7 DEF LiftBase, GoesTo
    <3>2. PICK m \in MoveClosing(hand) : hand' = Read(m)
      BY <2>7 DEF LiftBase, Reads
    <3>3. EmptyIsShut(hand)
      BY <1>1, <2>7 DEF LiftBase, Grasping, GraspInv
    <3>4. hand' \in Hand /\ Sound(hand)' /\ EmptyIsShut(hand)'
      BY <1>1, <3>2, <3>3, MoveClosingLeaves, ReadLeaves DEF EmptyIsShut
    <3> QED BY <1>1, <3>1, <3>4, GoesToMoves DEF Place, Moved, GraspInv, CallSet
  <2>8. CASE LiftStraight
    BY <1>1, <2>8, MoveClosingLeaves, GoesMoves DEF LiftStraight, Grasping, EmptyIsShut, Place,
       Moved, GraspInv, CallSet
  <2>9. CASE EnterFromSide
    <3>1. EmptyIsShut(Read(hand)) /\ Read(hand) \in Hand /\ Sound(Read(hand))
      BY <1>1, <2>9, ReadLeaves DEF EnterFromSide, Grasping, EmptyIsShut, GraspInv
    <3>2. \A m \in Reads(MoveClosing(Read(hand))) : m \in Hand /\ Sound(m) /\ EmptyIsShut(m)
      BY <3>1, ReadLeaves, MoveClosingLeaves DEF Reads, EmptyIsShut
    <3>3. CASE hand' \in Reads(MoveClosing(Read(hand))) /\ Goes("judge")
      BY <1>1, <3>2, <3>3, GoesMoves DEF EmptyIsShut, Place, Moved, GraspInv, CallSet, Sound
    <3>4. CASE ~(hand' \in Reads(MoveClosing(Read(hand))) /\ Goes("judge"))
      <4>1. PICK h \in {Read(hand)} \cup Reads(MoveClosing(Read(hand))) :
              hand' \in ThenOpening(SetOpen(h)) /\ GoesOpening({"approach", "judge"})
        BY <2>9, <3>4 DEF EnterFromSide
      <4>2. h \in Hand
        BY <3>1, <3>2
      <4>3. PICK m \in SetOpen(h) : hand' \in MoveOpening(m)
        BY <4>1 DEF ThenOpening
      <4>4. hand' \in Hand /\ Sound(hand)' /\ hand'.last = "open"
        BY <4>2, <4>3, SetOpenLeaves, MoveOpeningLeaves
      <4>5. \E at \in {"approach", "judge"} : Moved(at, TRUE)
        <5>1. {"approach", "judge"} \in SUBSET Place
          BY DEF Place
        <5>2. GoesOpening({"approach", "judge"}) /\ call \in CallSet
          BY <1>1, <4>1
        <5> QED BY <5>1, <5>2, GoesOpeningMoves
      <4> QED BY <4>4, <4>5 DEF Place, Moved, GraspInv
    <3> QED BY <3>3, <3>4
  <2>10. CASE JudgeGrasp
    <3>1. (GoesTo({"clear"}) /\ IsHeld(hand)) \/ GoesTo({"try", "done"})
      BY <2>10 DEF JudgeGrasp
    <3>2. IsHeld(hand) => EmptyIsShut(hand)
      BY <1>1, <2>10, HeldIsInside DEF JudgeGrasp, Grasping, GraspInv
    <3>3. /\ hand' \in Hand /\ Sound(hand)' /\ hand'.gap = hand.gap /\ hand'.held = hand.held
      BY <1>1, <2>10, ReadLeaves DEF JudgeGrasp
    <3> QED BY <1>1, <3>1, <3>2, <3>3, GoesToMoves DEF EmptyIsShut, Place, Moved, GraspInv, CallSet
  <2>11. CASE ClearSourceView
    BY <1>1, <2>11, MoveClosingLeaves, GoesToMoves DEF ClearSourceView, Grasping, EmptyIsShut,
       Place, Moved, GraspInv, CallSet
  <2>12. CASE LostWhileClearing
    BY <1>1, <2>12, ReadLeaves, GoesMoves DEF LostWhileClearing, Place, Moved, GraspInv, CallSet
  <2>13. CASE RecordGrasp \/ LeaveHoldPending
    <3>1. Read(hand) \in Hand /\ Sound(Read(hand)) /\ Read(hand).held # Nothing
      <4>1. IsHeld(hand) /\ EmptyIsShut(hand)
        BY <1>1, <2>13 DEF RecordGrasp, LeaveHoldPending, Grasping, GraspInv
      <4> QED BY <1>1, <4>1, HeldIsInside, ReadLeaves DEF EmptyIsShut
    <3>2. hand' \in Hand /\ Sound(hand)'
      BY <2>13, <3>1, RecordHoldLeaves DEF RecordGrasp, LeaveHoldPending
    <3>3. Moved("done", call.opened)
      <4>1. (hand'.evid # NoEvidence) \in BOOLEAN
        OBVIOUS
      <4>2. \/ Goes("done")
            \/ call' = [call EXCEPT !.at = "done", !.grasped = hand'.evid # NoEvidence]
        BY <2>13 DEF RecordGrasp, LeaveHoldPending
      <4> QED BY <1>1, <4>1, <4>2 DEF Goes, Moved, CallSet, Place
    <3> QED BY <1>1, <3>2, <3>3 DEF Place, Moved, GraspInv, CallSet
  <2> QED BY <1>3, <2>3, <2>4, <2>5, <2>6, <2>7, <2>8, <2>9, <2>10, <2>11, <2>12, <2>13
            DEF GraspSteps
<1> QED BY <1>2, <1>3
-----------------------------------------------------------------------------
(***************************************************************************)
(* The placing skills: the carry, the check before the release, and after. *)
(***************************************************************************)
\* A leg of the carry, wherever it ends short of the release.
LEMMA CarryStep ==
    ASSUME IInv, call.skill \in Places, call.at \in OnTheWay, Carried(hand, hand'),
           NEW at \in OnTheWay \cup {"done"}, Moved(at, call.opened)
    PROVE  IInv'
<1>1. hand \in Hand /\ call \in CallSet /\ Sound(hand) /\ CarryInv
  BY TypeOKIs DEF IInv
<1>2. at \in Place /\ at # "release" /\ at \notin {"jammed", "raise", "retract"}
  BY DEF OnTheWay, Place
<1>3. LiberoTypeOK' /\ Sound(hand)'
  BY <1>1, TypeOKIs DEF Carried, Moved, LiberoTypeOK, CallSet, Place
<1>4. GraspInv' /\ KeepInv' /\ ReleasesWhatWasVerified'
  BY <1>2, SkillFacts DEF Moved, GraspInv, KeepInv, ReleasesWhatWasVerified
<1>5. CarryInv'
  BY <1>1, <1>2 DEF Moved, CarryInv, Carried, KeptOrLost
<1> QED BY <1>3, <1>4, <1>5 DEF IInv

\* What the last check saw is what is let go.
LEMMA ReleaseStep ==
    ASSUME IInv, call.skill \in Places, call.at \in OnTheWay, Carried(hand, hand'),
           Moved("release", call.opened), IsHeld(hand'),
           call.skill \in Grounded => hand'.evid # NoEvidence /\ hand'.evid.kind = "recorded"
    PROVE  IInv'
<1>1. hand \in Hand /\ call \in CallSet /\ Sound(hand) /\ CarryInv
  BY TypeOKIs DEF IInv
<1>2. hand' \in Hand /\ Sound(hand') /\ hand'.gap # Shut
  BY <1>1, HeldIsInside DEF Carried
<1>3. LiberoTypeOK' /\ Sound(hand)'
  BY <1>2, TypeOKIs DEF Moved, LiberoTypeOK, CallSet, Place, Sound
<1>4. GraspInv' /\ KeepInv' /\ CarryInv'
  BY SkillFacts DEF Moved, GraspInv, KeepInv, CarryInv, OnTheWay
<1>5. ReleasesWhatWasVerified'
  <2>1. SUFFICES ASSUME call.skill \in Grounded
                 PROVE  /\ IsHeld(hand') /\ hand'.held = call.verified
                        /\ hand'.evid # NoEvidence /\ hand'.evid.of = hand'.held
                        /\ hand'.evid.kind = "recorded"
                        /\ call.skill = "place_object_in" => hand'.evid.identity
    BY DEF ReleasesWhatWasVerified, Moved, IsHeld, AtAnEnd, AtOpenEnd
  <2>2. hand'.held = call.verified /\ hand'.held # Nothing
    BY <1>1, <1>2, <2>1 DEF CarryInv, Carried, KeptOrLost
  <2>3. hand'.evid.of = hand'.held
    BY <1>2, <2>1, <2>2 DEF Sound
  <2>4. call.skill = "place_object_in" => hand'.evid.identity
    BY <1>1, <2>1 DEF CarryInv, Carried, In
  <2> QED BY <2>1, <2>2, <2>3, <2>4
<1> QED BY <1>3, <1>4, <1>5 DEF IInv

\* Once the fingers were opened nothing more is promised of what they hold.
LEMMA OpenedStep ==
    ASSUME IInv, call.skill \in Places, hand' \in Hand, Sound(hand'),
           NEW at \in Place \ (OnTheWay \cup {"begin"}), Moved(at, TRUE)
    PROVE  IInv'
<1>1. LiberoTypeOK' /\ Sound(hand)'
  BY TypeOKIs DEF Moved, LiberoTypeOK, CallSet, Place, Sound
<1>2. GraspInv' /\ KeepInv' /\ CarryInv' /\ ReleasesWhatWasVerified'
  BY SkillFacts DEF Moved, GraspInv, KeepInv, CarryInv, ReleasesWhatWasVerified
<1> QED BY <1>1, <1>2 DEF IInv

LEMMA AdmitKeeps ==
    ASSUME IInv, NEW skill \in Places, NEW next \in {"look", "approach"}, Admit(skill, next)
    PROVE  IInv'
<1>1. hand \in Hand /\ call \in CallSet /\ Sound(hand) /\ call.skill = skill
  BY TypeOKIs DEF IInv, Admit, At
<1>2. PICK c \in Checked(hand) :
        /\ hand' = c.hand
        /\ \/ Goes("done")
           \/ /\ c.ok /\ (skill = In => c.hand.evid.identity)
              /\ call' = [call EXCEPT !.at = next, !.verified = hand'.held]
  BY DEF Admit
<1>3. c \in Check(hand, call.skill \in Grounded) /\ (call.skill \in Grounded) \in BOOLEAN
  BY DEF Checked
<1>4. /\ Carried(hand, hand') /\ hand' \in Hand /\ Sound(hand')
      /\ c.ok => IsHeld(hand')
      /\ c.ok /\ call.skill \in Grounded => hand'.evid # NoEvidence
  BY <1>1, <1>2, <1>3, CheckLeaves DEF Carried
<1>5. CASE Goes("done")
  <2>1. Moved("done", call.opened)
    BY <1>1, <1>5, GoesMoves DEF Place
  <2>2. GraspInv' /\ KeepInv' /\ CarryInv' /\ ReleasesWhatWasVerified'
    BY <1>1, <2>1, SkillFacts DEF Moved, GraspInv, KeepInv, CarryInv, ReleasesWhatWasVerified,
       OnTheWay
  <2> QED BY <1>4, <2>1, <2>2, TypeOKIs DEF IInv, Moved, LiberoTypeOK, CallSet, Place, Sound
<1>6. CASE /\ c.ok /\ (skill = In => c.hand.evid.identity)
           /\ call' = [call EXCEPT !.at = next, !.verified = hand'.held]
  <2>1. hand'.held \in Object \cup {Nothing} /\ next \in Place
    BY <1>4 DEF Hand, Place
  <2>2. /\ call' \in CallSet /\ call'.skill = skill /\ call'.at = next
        /\ call'.verified = hand'.held /\ call'.opened = call.opened
    BY <1>1, <1>6, <2>1 DEF CallSet
  <2>3. skill \in Grounded => hand'.held # Nothing
    BY <1>1, <1>4, <1>6, HeldIsInside DEF Sound
  <2>4. GraspInv' /\ KeepInv' /\ ReleasesWhatWasVerified'
    BY <2>2, SkillFacts DEF GraspInv, KeepInv, ReleasesWhatWasVerified
  <2>5. skill \in Grounded => ~call.opened
    BY <1>1 DEF IInv, CarryInv, Admit, At
  <2>6. CarryInv'
    BY <1>2, <1>6, <2>2, <2>3, <2>5 DEF CarryInv, OnTheWay
  <2> QED BY <1>4, <2>2, <2>4, <2>6, TypeOKIs DEF IInv, LiberoTypeOK, CallSet, Place, Sound
<1> QED BY <1>2, <1>5, <1>6

LEMMA LegKeeps ==
    ASSUME IInv, NEW skill \in Places, NEW at \in OnTheWay,
           NEW next \in OnTheWay \cup {"release"}, NEW full \in BOOLEAN,
           NEW reached, \A h \in reached : h \in Hand /\ Carried(hand, h),
           next = "release" /\ skill \in Grounded => full,
           Leg(skill, at, next, reached, full)
    PROVE  IInv'
<1>1. call.skill = skill /\ call.at = at /\ call \in CallSet
  BY TypeOKIs DEF IInv, Leg, At
<1>2. next \in Place /\ "done" \in Place
  BY DEF OnTheWay, Place
<1>3. CASE hand' \in reached /\ Goes("done")
  <2>1. Moved("done", call.opened)
    BY <1>1, <1>2, <1>3, GoesMoves
  <2> QED BY <1>1, <1>3, <2>1, CarryStep
<1>4. CASE \E h \in reached : \E c \in Check(h, full) :
             hand' = c.hand /\ Goes(IF c.ok THEN next ELSE "done")
  <2>1. PICK h \in reached : \E c \in Check(h, full) :
             hand' = c.hand /\ Goes(IF c.ok THEN next ELSE "done")
    BY <1>4
  <2>2. PICK c \in Check(h, full) : hand' = c.hand /\ Goes(IF c.ok THEN next ELSE "done")
    BY <2>1
  <2>3. /\ Carried(h, hand')
        /\ c.ok => IsHeld(hand')
        /\ c.ok /\ full => hand'.evid # NoEvidence /\ hand'.evid.kind = "recorded"
    BY <2>1, <2>2, CheckLeaves
  <2>4. Carried(hand, hand')
    BY <2>1, <2>2, CheckLeaves, CarriedTwice
  <2>5. CASE c.ok /\ next = "release"
    <3>1. Moved("release", call.opened)
      BY <1>1, <1>2, <2>2, <2>5, GoesMoves
    <3>2. call.skill \in Grounded => hand'.evid # NoEvidence /\ hand'.evid.kind = "recorded"
      BY <1>1, <2>3, <2>5
    <3>3. IsHeld(hand')
      BY <2>3, <2>5
    <3> QED BY <1>1, <2>4, <3>1, <3>2, <3>3, ReleaseStep
  <2>6. CASE ~(c.ok /\ next = "release")
    <3>1. (IF c.ok THEN next ELSE "done") \in OnTheWay \cup {"done"}
      BY <2>6
    <3>2. Moved(IF c.ok THEN next ELSE "done", call.opened)
      BY <1>1, <1>2, <2>2, GoesMoves
    <3> QED BY <1>1, <2>4, <3>1, <3>2, CarryStep
  <2> QED BY <2>5, <2>6
<1> QED BY <1>3, <1>4 DEF Leg

LEMMA LookKeeps ==
    ASSUME IInv, NEW skill \in Places, Look(skill)
    PROVE  IInv'
<1>1. call.skill = skill /\ call.at \in OnTheWay /\ call \in CallSet /\ hand \in Hand
  BY TypeOKIs DEF IInv, Look, At, OnTheWay
<1>2. Carried(hand, hand')
  BY <1>1, MoveClosingCarries DEF Look
<1>3. PICK at \in {"look", "approach", "done"} : Goes(at)
  BY DEF Look, GoesTo
<1>4. Moved(at, call.opened) /\ at \in OnTheWay \cup {"done"}
  BY <1>1, <1>3, GoesMoves DEF Place, OnTheWay
<1> QED BY <1>1, <1>2, <1>4, CarryStep

LEMMA DescendKeeps ==
    ASSUME IInv, NEW skill \in Grounded, At(skill, "descend"), hand' \in MoveCorrected(hand),
           GoesTo({"check", "done"})
    PROVE  IInv'
<1>1. call.skill \in Places /\ call.at \in OnTheWay /\ call \in CallSet /\ hand \in Hand
  BY TypeOKIs DEF IInv, At, OnTheWay, Places
<1>2. Carried(hand, hand')
  BY <1>1, MoveCorrectedCarries
<1>3. PICK at \in {"check", "done"} : Goes(at)
  BY DEF GoesTo
<1>4. Moved(at, call.opened) /\ at \in OnTheWay \cup {"done"}
  BY <1>1, <1>3, GoesMoves DEF Place, OnTheWay
<1> QED BY <1>1, <1>2, <1>4, CarryStep

LEMMA LetGoKeeps ==
    ASSUME IInv, NEW skill \in Places, NEW failed \in SUBSET {"jammed", "done"},
           LetGo(skill, failed)
    PROVE  IInv'
<1>1. call.skill = skill /\ call \in CallSet /\ hand \in Hand
  BY TypeOKIs DEF IInv, LetGo, At
<1>2. PICK h \in SetOpen(hand) :
        hand' = Read(h) /\ GoesOpening(IF IsOpen(h) THEN {"retract"} ELSE {"release"} \cup failed)
  BY DEF LetGo
<1>3. hand' \in Hand /\ Sound(hand')
  BY <1>1, <1>2, SetOpenLeaves, ReadLeaves
<1>4. PICK at \in {"retract", "release", "jammed", "done"} :
        call' = [call EXCEPT !.at = at, !.opened = TRUE]
  BY <1>2 DEF GoesOpening
<1>5. Moved(at, TRUE) /\ at \in Place \ (OnTheWay \cup {"begin"})
  BY <1>1, <1>4 DEF Moved, CallSet, Place, OnTheWay
<1> QED BY <1>1, <1>3, <1>5, OpenedStep

\* The fingers are withdrawn open, by the placing skills and by the others.
LEMMA RetractKeeps ==
    ASSUME IInv, NEW skill \in Places \cup {Drawer, Door}, Retract(skill)
    PROVE  IInv'
<1>1. call.skill = skill /\ call.at = "retract" /\ call \in CallSet /\ hand \in Hand
  BY TypeOKIs DEF IInv, Retract, At
<1>2. hand' \in Hand /\ Sound(hand')
  BY <1>1, MoveOpeningLeaves DEF Retract
<1>3. Moved("done", TRUE) /\ "done" \in Place \ (OnTheWay \cup {"begin"})
  BY <1>1 DEF Retract, GoesOpening, Moved, CallSet, Place, OnTheWay
<1>4. CASE skill \in Places
  BY <1>1, <1>2, <1>3, <1>4, OpenedStep
<1>5. CASE skill \in {Drawer, Door}
  <2>1. call.skill \in Refusers /\ ~call.found
    BY <1>1, <1>5, FoundNothing DEF Refusers
  <2>2. GraspInv' /\ Sound(hand)'
    BY <1>2, <1>3 DEF GraspInv, Moved, Sound
  <2> QED BY <1>2, <1>3, <2>1, <2>2, StepOfFreeHand
<1> QED BY <1>4, <1>5

\* What came not free: closed again, lifted, and let go; the call has opened.
LEMMA RegripKeeps ==
    ASSUME IInv, InRegrips \/ InRaises
    PROVE  IInv'
<1>1. /\ call.skill = In /\ In \in Places /\ call.opened = TRUE
      /\ call \in CallSet /\ hand \in Hand /\ Sound(hand)
  BY TypeOKIs DEF IInv, InRegrips, InRaises, At, CarryInv, Grounded, Places, CallSet
<1>2. hand' \in Hand /\ Sound(hand')
  <2>1. CASE InRegrips
    BY <1>1, <2>1, SetClosedLeaves, ReadLeaves DEF InRegrips
  <2>2. CASE InRaises
    BY <1>1, <2>2, MoveClosingLeaves DEF InRaises
  <2> QED BY <2>1, <2>2
<1>3. PICK at \in {"raise", "release", "done"} : Goes(at)
  BY DEF InRegrips, InRaises, GoesTo
<1>4. Moved(at, TRUE) /\ at \in Place \ (OnTheWay \cup {"begin"})
  <2>1. at \in Place /\ at \notin OnTheWay /\ at # "begin"
    BY DEF Place, OnTheWay
  <2> QED BY <1>1, <1>3, <2>1, GoesMoves
<1> QED BY <1>1, <1>2, <1>4, OpenedStep

LEMMA PlaceStepsKeep ==
    ASSUME IInv, PlaceSteps
    PROVE  IInv'
<1>1. hand \in Hand
  BY TypeOKIs DEF IInv
<1>2. /\ In \in Places /\ On \in Places /\ Beside \in Places /\ Exact \in Places
      /\ In \in Grounded /\ On \in Grounded /\ Beside \notin Grounded /\ Exact \notin Grounded
  BY DEF Places, Grounded, In, On, Beside, Exact
<1>3. /\ "look" \in OnTheWay /\ "approach" \in OnTheWay /\ "stage" \in OnTheWay
      /\ "descend" \in OnTheWay /\ "check" \in OnTheWay /\ TRUE \in BOOLEAN /\ FALSE \in BOOLEAN
      /\ "release" \notin OnTheWay
  BY DEF OnTheWay
<1>4. \A m \in MoveClosing(hand) : m \in Hand /\ Carried(hand, m)
  BY <1>1, MoveClosingCarries, MoveClosingLeaves
<1>5. \A m \in MoveCorrected(hand) : m \in Hand /\ Carried(hand, m)
  BY <1>1, MoveCorrectedCarries DEF Carried
<1>6. \A m \in {hand} : m \in Hand /\ Carried(hand, m)
  BY <1>1 DEF Carried, KeptOrLost
<1>7. CASE InBegins \/ OnBegins \/ BesideBegins \/ ExactBegins
  BY <1>2, <1>7, AdmitKeeps DEF InBegins, OnBegins, BesideBegins, ExactBegins
<1>8. CASE InFindsContainer \/ OnFindsSurface \/ ExactFindsTarget
  BY <1>2, <1>8, LookKeeps DEF InFindsContainer, OnFindsSurface, ExactFindsTarget
<1>9. CASE InDescends \/ OnDescends
  BY <1>2, <1>9, DescendKeeps DEF InDescends, OnDescends
<1>10. CASE InApproaches
  BY <1>2, <1>3, <1>4, <1>10, LegKeeps DEF InApproaches
<1>11. CASE InChecks
  <2>1. Leg(In, "check", "release", {hand}, TRUE)
    BY <1>11 DEF InChecks
  <2> DEFINE reached == {hand}
  <2>2. /\ Leg(In, "check", "release", reached, TRUE)
        /\ \A h \in reached : h \in Hand /\ Carried(hand, h)
    BY <1>6, <2>1
  <2> HIDE DEF reached
  <2> QED BY <1>2, <1>3, <2>2, LegKeeps
<1>12. CASE OnApproaches
  BY <1>2, <1>3, <1>5, <1>12, LegKeeps DEF OnApproaches
<1>13. CASE OnStages
  BY <1>2, <1>3, <1>4, <1>13, LegKeeps DEF OnStages
<1>14. CASE OnChecks
  <2>1. Leg(On, "check", "release", {hand}, TRUE)
    BY <1>14 DEF OnChecks
  <2> DEFINE reached == {hand}
  <2>2. /\ Leg(On, "check", "release", reached, TRUE)
        /\ \A h \in reached : h \in Hand /\ Carried(hand, h)
    BY <1>6, <2>1
  <2> HIDE DEF reached
  <2> QED BY <1>2, <1>3, <2>2, LegKeeps
<1>15. CASE BesideApproaches
  BY <1>2, <1>3, <1>4, <1>15, LegKeeps DEF BesideApproaches
<1>16. CASE BesideDescends
  BY <1>2, <1>3, <1>4, <1>16, LegKeeps DEF BesideDescends
<1>17. CASE ExactApproaches
  BY <1>2, <1>3, <1>5, <1>17, LegKeeps DEF ExactApproaches
<1>18. CASE ExactDescends
  BY <1>2, <1>3, <1>5, <1>18, LegKeeps DEF ExactDescends
<1>19. CASE InReleases \/ OnReleases \/ BesideReleases \/ ExactReleases
  BY <1>2, <1>19, LetGoKeeps DEF InReleases, OnReleases, BesideReleases, ExactReleases
<1>20. CASE InRetracts \/ OnRetracts \/ BesideRetracts \/ ExactRetracts
  BY <1>2, <1>20, RetractKeeps DEF InRetracts, OnRetracts, BesideRetracts, ExactRetracts
<1> QED BY <1>7, <1>8, <1>9, <1>10, <1>11, <1>12, <1>13, <1>14, <1>15, <1>16, <1>17, <1>18,
           <1>19, <1>20, RegripKeeps DEF PlaceSteps
-----------------------------------------------------------------------------
(***************************************************************************)
(* Drawers, doors, pushes and the plain tools.                             *)
(***************************************************************************)
\* Opened and read, once or twice.
LEMMA OpenAndReadLeaves ==
    ASSUME NEW h \in Hand, NEW m \in OpenAndRead(h)
    PROVE  m \in Hand /\ Sound(m)
BY SetOpenLeaves, ReadLeaves DEF OpenAndRead, Reads

LEMMA OpenTwiceLeaves ==
    ASSUME NEW h \in Hand, NEW m \in OpenTwice(h)
    PROVE  m \in Hand /\ Sound(m)
<1>1. PICK r \in OpenAndRead(h) : m \in IF IsOpen(r) THEN {r} ELSE OpenAndRead(r)
  BY DEF OpenTwice
<1>2. r \in Hand /\ Sound(r)
  BY OpenAndReadLeaves
<1> QED BY <1>1, <1>2, OpenAndReadLeaves

\* A step of a skill other than the placing skills and grasp_object, on a hand
\* that was free when it was called.
LEMMA FreeStep ==
    ASSUME IInv, call.skill \in Refusers \ Grasp, call.at # "done",
           call.at # "begin" \/ ~IsHeld(hand), hand' \in Hand, Sound(hand'),
           NEW places \in SUBSET Place, GoesTo(places) \/ GoesOpening(places)
    PROVE  IInv'
<1>1. ~call.found /\ call \in CallSet
  BY FoundNothing, TypeOKIs DEF IInv
<1>2. PICK at \in places, opened \in BOOLEAN : Moved(at, opened)
  BY <1>1, GoesToMoves, GoesOpeningMoves DEF CallSet
<1>3. GraspInv' /\ Sound(hand)'
  BY <1>2 DEF Moved, GraspInv, Grasp, Sound
<1> QED BY <1>1, <1>2, <1>3, StepOfFreeHand

LEMMA KeepsMoves ==
    ASSUME IInv, NEW at \in Place, Keeps(at)
    PROVE  /\ Moved(at, call.opened \/ IsOpen(hand))
           /\ hand' \in Hand /\ Sound(hand') /\ (Gripping(hand) => Gripping(hand'))
<1>1. hand \in Hand /\ call \in CallSet /\ Sound(hand)
  BY TypeOKIs DEF IInv
<1>2. (call.opened \/ IsOpen(hand)) \in BOOLEAN
  OBVIOUS
<1>3. call' = [call EXCEPT !.at = at, !.opened = call.opened \/ IsOpen(hand)]
  BY DEF Keeps
<1>4. Moved(at, call.opened \/ IsOpen(hand))
  BY <1>1, <1>2, <1>3 DEF Moved, CallSet
<1> QED BY <1>1, <1>4, MoveKeepingLeaves DEF Keeps

\* The steps that keep the grip of a hand that was free.
LEMMA FreeKeeps ==
    ASSUME IInv, call.skill \in Refusers \ Grasp, call.at # "done",
           call.at # "begin" \/ ~IsHeld(hand), NEW at \in Place, Keeps(at)
    PROVE  IInv'
<1>1. ~call.found
  BY FoundNothing
<1>2. Moved(at, call.opened \/ IsOpen(hand)) /\ hand' \in Hand /\ Sound(hand')
  BY KeepsMoves
<1>3. GraspInv' /\ Sound(hand)'
  BY <1>2 DEF Moved, GraspInv, Grasp, Sound
<1> DEFINE opened == call.opened \/ IsOpen(hand)
<1>4. Moved(at, opened)
  BY <1>2
<1> HIDE DEF opened
<1> QED BY <1>1, <1>2, <1>3, <1>4, StepOfFreeHand

LEMMA RefuseKeeps ==
    ASSUME IInv, RefuseWhileHolding
    PROVE  IInv'
<1>1. /\ hand \in Hand /\ call \in CallSet /\ Sound(hand)
      /\ call.skill \in Refusers \ Grasp /\ call.at = "begin"
  BY TypeOKIs DEF IInv, RefuseWhileHolding, Refusers, Grasp, Drawer, Door, Pushes
<1>2. hand' \in Hand /\ Sound(hand')
  BY <1>1, ReadLeaves DEF RefuseWhileHolding
<1>3. Moved("done", call.opened) /\ "done" \in Place
  BY <1>1, GoesMoves DEF RefuseWhileHolding, Place
<1>4. GraspInv' /\ KeepInv' /\ Sound(hand)'
  BY <1>1, <1>2, <1>3 DEF IInv, KeepInv, Moved, GraspInv, Grasp, Sound
<1> QED BY <1>1, <1>2, <1>3, <1>4, StepElsewhere, SkillFacts

LEMMA ContactStepsKeep ==
    ASSUME IInv, ContactSteps
    PROVE  IInv'
<1>1. hand \in Hand /\ Sound(hand) /\ Read(hand) \in Hand /\ Sound(Read(hand))
  BY TypeOKIs, ReadLeaves DEF IInv
<1>2. /\ Drawer \in Refusers \ Grasp /\ Door \in Refusers \ Grasp
      /\ "close_drawer" \in Refusers \ Grasp /\ "push_object" \in Refusers \ Grasp
  BY DEF Refusers, Grasp, Drawer, Door, Pushes
<1>3. {"reach", "grip", "pull", "letgo", "push", "retract", "done"} \subseteq Place
  BY DEF Place
<1>4. \A m \in Reads(SetClosed(hand)) \cup Reads(MoveClosing(hand)) : m \in Hand /\ Sound(m)
  BY <1>1, SetClosedLeaves, MoveClosingLeaves, ReadLeaves DEF Reads
<1>5. CASE RefuseWhileHolding
  BY <1>5, RefuseKeeps
<1>6. CASE DrawerRetracts \/ DoorRetracts
  BY <1>6, RetractKeeps DEF DrawerRetracts, DoorRetracts
<1>7. CASE RecoversToPush
  BY <1>2, <1>3, <1>7, FreeKeeps DEF RecoversToPush, At
<1>8. ASSUME /\ call.skill \in Refusers \ Grasp /\ call.at # "done"
             /\ call.at # "begin" \/ ~IsHeld(hand)
             /\ hand' \in Hand /\ Sound(hand'),
             NEW places \in SUBSET {"reach", "grip", "pull", "letgo", "push", "retract", "done"},
             GoesTo(places) \/ GoesOpening(places)
      PROVE  IInv'
  <2>1. places \in SUBSET Place
    BY <1>3
  <2> QED BY <1>8, <2>1, FreeStep
<1>9. ASSUME /\ call.skill \in Refusers \ Grasp /\ call.at # "done"
             /\ call.at # "begin" \/ ~IsHeld(hand)
             /\ hand' \in Hand /\ Sound(hand'),
             NEW at \in {"reach", "grip", "pull", "letgo", "push", "retract", "done"}, Goes(at)
      PROVE  IInv'
  BY <1>8, <1>9 DEF GoesTo
<1>10. CASE DrawerBegins \/ DoorBegins
  <2>1. PICK skill, tries :
          /\ skill \in {Drawer, Door} /\ OpenForHandle(skill, tries)
          /\ tries = OpenTwice(Read(hand)) \/ tries = OpenAndRead(Read(hand))
    BY <1>10 DEF DrawerBegins, DoorBegins
  <2>2. \A m \in tries : m \in Hand /\ Sound(m)
    BY <1>1, <2>1, OpenTwiceLeaves, OpenAndReadLeaves
  <2>3. /\ call.skill \in Refusers \ Grasp /\ call.at # "done" /\ ~IsHeld(hand)
        /\ hand' \in Hand /\ Sound(hand')
    BY <1>1, <1>2, <2>1, <2>2 DEF OpenForHandle, At
  <2>4. CASE GoesTo({"reach", "done"})
    BY <1>8, <2>3, <2>4
  <2>5. CASE GoesOpening({"done"} \cup IF IsOpen(hand') \/ skill = Drawer THEN {"reach"} ELSE {})
    BY <1>8, <2>3, <2>5
  <2> QED BY <2>1, <2>4, <2>5 DEF OpenForHandle
<1>11. CASE DrawerReaches \/ DoorReaches
  <2>1. /\ call.skill \in Refusers \ Grasp /\ call.at = "reach"
        /\ hand' \in MoveOpening(hand) /\ GoesOpening({"reach", "grip", "done"})
    BY <1>2, <1>11 DEF DrawerReaches, DoorReaches, Reach, At
  <2>2. hand' \in Hand /\ Sound(hand')
    BY <1>1, <2>1, MoveOpeningLeaves
  <2> QED BY <1>8, <2>1, <2>2
<1>12. CASE GripsDrawer \/ GripsDoor
  <2>1. call.skill \in Refusers \ Grasp /\ call.at = "grip"
    BY <1>2, <1>12 DEF GripsDrawer, GripsDoor, At
  <2>2. PICK h \in Reads(SetClosed(hand)) :
          \/ hand' = h /\ Goes("pull")
          \/ hand' \in OpenTwice(h) /\ GoesOpening({"retract"})
          \/ hand' \in SetOpen(h) /\ GoesOpening({"done"})
    BY <1>12 DEF GripsDrawer, GripsDoor
  <2>3. hand' \in Hand /\ Sound(hand')
    BY <1>4, <2>2, OpenTwiceLeaves, SetOpenLeaves
  <2>4. CASE Goes("pull")
    BY <1>9, <2>1, <2>3, <2>4
  <2>5. CASE GoesOpening({"retract"}) \/ GoesOpening({"done"})
    BY <1>8, <2>1, <2>3, <2>5
  <2> QED BY <2>2, <2>4, <2>5
<1>13. CASE PullsDrawer \/ SwingsDoor
  <2>1. /\ call.skill \in Refusers \ Grasp /\ call.at = "pull"
        /\ hand' \in Hand /\ Sound(hand')
    BY <1>2, <1>4, <1>13 DEF PullsDrawer, SwingsDoor, At
  <2>2. GoesTo({"pull", "letgo"})
    BY <1>13 DEF PullsDrawer, SwingsDoor, GoesTo
  <2> QED BY <1>8, <2>1, <2>2
<1>14. CASE LetsDrawerGo \/ LetsDoorGo
  <2>1. /\ call.skill \in Refusers \ Grasp /\ call.at = "letgo"
        /\ hand' \in OpenTwice(hand) \cup OpenAndRead(hand)
    BY <1>2, <1>14 DEF LetsDrawerGo, LetsDoorGo, At
  <2>2. hand' \in Hand /\ Sound(hand')
    BY <1>1, <2>1, OpenTwiceLeaves, OpenAndReadLeaves
  <2>3. GoesOpening({"retract", "done"})
    BY <1>14 DEF LetsDrawerGo, LetsDoorGo, GoesOpening
  <2> QED BY <1>8, <2>1, <2>2, <2>3
<1>15. CASE ClosesDrawer \/ PushesObject
  <2>1. PICK skill \in {"close_drawer", "push_object"} :
          MakeFist(skill) \/ Push(skill) \/ OpenFist(skill)
    BY <1>15 DEF ClosesDrawer, PushesObject
  <2>2. CASE MakeFist(skill)
    <3>1. call.skill \in Refusers \ Grasp /\ call.at = "begin" /\ ~IsHeld(hand)
      BY <1>2, <2>2 DEF MakeFist, At
    <3>2. hand' \in Hand /\ Sound(hand')
      BY <1>1, <2>2, SetClosedLeaves DEF MakeFist, Fist
    <3>3. Goes("push") \/ Goes("done")
      BY <2>2 DEF MakeFist
    <3> QED BY <1>9, <3>1, <3>2, <3>3
  <2>3. CASE Push(skill)
    <3>1. call.skill \in Refusers \ Grasp /\ call.at = "push"
      BY <1>2, <2>3 DEF Push, At
    <3>2. hand' \in Hand /\ Sound(hand')
      BY <1>1, <2>3, MoveClosingLeaves DEF Push
    <3> QED BY <1>8, <2>3, <3>1, <3>2 DEF Push
  <2>4. CASE OpenFist(skill)
    <3>1. call.skill \in Refusers \ Grasp /\ call.at = "letgo"
      BY <1>2, <2>4 DEF OpenFist, At
    <3>2. hand' \in Hand /\ Sound(hand')
      BY <1>1, <2>4, SetOpenLeaves DEF OpenFist
    <3> QED BY <1>8, <2>4, <3>1, <3>2 DEF OpenFist
  <2> QED BY <2>1, <2>2, <2>3, <2>4
<1> QED BY <1>5, <1>6, <1>7, <1>10, <1>11, <1>12, <1>13, <1>14, <1>15 DEF ContactSteps

\* The first state, and the one a reset goes back to.
LEMMA FreshIs ==
    /\ FreshHand \in Hand /\ FreshHand.evid = NoEvidence
    /\ NoCall \in CallSet /\ NoCall.skill = "none" /\ NoCall.found = FALSE
BY DEF FreshHand, Hand, Gap, Shut, Wide, NoCall, CallSet, Place, Way

LEMMA ToolStepsKeep ==
    ASSUME IInv, ToolSteps
    PROVE  IInv'
<1>1. /\ hand \in Hand /\ call \in CallSet /\ Sound(hand) /\ KeepInv
      /\ "begin" \in Place /\ "done" \in Place
  BY TypeOKIs DEF IInv, Place
<1>2. CASE Home \/ MoveKept
  <2>1. call.skill \in Keepers /\ call.at = "begin"
    BY <1>2 DEF Home, MoveKept, At, Keepers
  <2>2. PICK at \in {"begin", "done"} : Keeps(at)
    BY <1>2 DEF Home, MoveKept
  <2>3. /\ Moved(at, call.opened \/ IsOpen(hand))
        /\ hand' \in Hand /\ Sound(hand') /\ (Gripping(hand) => Gripping(hand'))
    BY <1>1, <2>2, KeepsMoves
  <2>4. KeepInv'
    <3>1. SUFFICES ASSUME call.found
                   PROVE  KeepInv'
      BY <2>3 DEF Moved, KeepInv
    <3>2. ~call.opened /\ Gripping(hand) /\ ~IsOpen(hand)
      BY <1>1, <2>1, <3>1, SkillFacts, GrippingIsNotOpen DEF KeepInv
    <3>3. call'.skill = call.skill /\ ~call'.opened /\ Gripping(hand')
      BY <2>3, <3>2 DEF Moved
    <3> QED BY <2>1, <3>3, SkillFacts DEF KeepInv, Gripping
  <2>5. GraspInv' /\ Sound(hand)'
    BY <2>1, <2>3 DEF Moved, GraspInv, Keepers, Sound
  <2> DEFINE opened == call.opened \/ IsOpen(hand)
  <2>6. Moved(at, opened) /\ at \in Place /\ call.skill \notin Grounded
    BY <1>1, <2>1, <2>2, <2>3, SkillFacts
  <2> HIDE DEF opened
  <2> QED BY <2>3, <2>4, <2>5, <2>6, StepElsewhere
<1>3. CASE RecoverPosture
  <2>1. "recover_joint_posture" \in Refusers \ Grasp
    BY DEF Refusers, Grasp
  <2>2. /\ call.skill \in Refusers \ Grasp /\ call.at # "done" /\ ~IsHeld(hand)
        /\ \E at \in {"begin", "done"} : Keeps(at)
    BY <1>3, <2>1 DEF RecoverPosture, At
  <2> QED BY <1>1, <2>2, FreeKeeps
<1>4. CASE MoveCommanded \/ Gripper \/ ReadHand
  <2>1. /\ call.skill \in {"move_open", "move_close", "gripper_open", "gripper_close"} \cup Readings
        /\ call.skill \notin Grounded \cup Grasp \cup Refusers \cup Keepers
    BY <1>4 DEF MoveCommanded, Gripper, ReadHand, At, Grounded, In, On, Grasp, Refusers, Keepers,
                Drawer, Door, Pushes, Readings
  <2>2. hand' \in Hand /\ Sound(hand')
    BY <1>1, <1>4, MoveOpeningLeaves, MoveClosingLeaves, OpenAndReadLeaves, SetClosedLeaves,
       ReadLeaves DEF MoveCommanded, Gripper, ReadHand, Reads
  <2>3. PICK opened \in BOOLEAN :
          Moved("done", opened) /\ (opened = call.opened \/ call.skill \in Openers)
    <3>1. CASE Goes("done")
      BY <1>1, <3>1, GoesMoves DEF CallSet
    <3>2. CASE GoesOpening({"done"}) /\ call.skill \in {"gripper_open", "move_open"}
      <4>1. Moved("done", TRUE)
        BY <1>1, <3>2 DEF GoesOpening, Moved, CallSet, Place
      <4> QED BY <3>2, <4>1 DEF Openers
    <3> QED BY <1>4, <3>1, <3>2 DEF MoveCommanded, Gripper, ReadHand, At
  <2>4. KeepInv' /\ GraspInv' /\ Sound(hand)'
    BY <1>1, <2>1, <2>2, <2>3 DEF Moved, KeepInv, GraspInv, Grasp, Sound
  <2> QED BY <1>1, <2>1, <2>2, <2>3, <2>4, StepElsewhere
<1>5. CASE CallFails
  <2>1. Moved("done", call.opened) /\ hand' = hand
    BY <1>1, <1>5, GoesMoves DEF CallFails
  <2>2. KeepInv' /\ GraspInv' /\ CarryInv' /\ ReleasesWhatWasVerified' /\ Sound(hand)'
    BY <1>1, <2>1 DEF Moved, KeepInv, GraspInv, CarryInv, OnTheWay, ReleasesWhatWasVerified, Sound
  <2>3. LiberoTypeOK'
    BY <1>1, <2>1 DEF Moved, LiberoTypeOK, CallSet, Place
  <2> QED BY <2>2, <2>3 DEF IInv
<1>6. CASE Reset
  <2>1. LiberoTypeOK' /\ Sound(hand)'
    BY <1>6, FreshIs DEF Reset, LiberoTypeOK, CallSet, Place, Sound
  <2>2. call'.skill = "none" /\ ~call'.found
    BY <1>6, FreshIs DEF Reset
  <2> QED BY <2>1, <2>2 DEF IInv, KeepInv, GraspInv, CarryInv, ReleasesWhatWasVerified, Grounded,
            In, On
<1> QED BY <1>2, <1>3, <1>4, <1>5, <1>6 DEF ToolSteps
-----------------------------------------------------------------------------
(***************************************************************************)
(* Theorems.                                                               *)
(***************************************************************************)
LEMMA InitKeeps ==
    ASSUME Init
    PROVE  IInv
<1>1. LiberoTypeOK /\ Sound(hand)
  BY FreshIs, TypeOKIs DEF Init, Sound
<1>2. call.skill = "none" /\ ~call.found
  BY FreshIs DEF Init
<1> QED BY <1>1, <1>2 DEF IInv, KeepInv, GraspInv, CarryInv, ReleasesWhatWasVerified, Grounded,
           In, On

LEMMA Inductive == IInv /\ [Next]_vars => IInv'
<1> SUFFICES ASSUME IInv, [Next]_vars
             PROVE  IInv'
  OBVIOUS
<1>1. CASE \E skill \in Skill : Called(skill)
  BY <1>1, CalledKeeps
<1>2. CASE GraspSteps
  BY <1>2, GraspStepsKeep
<1>3. CASE PlaceSteps
  BY <1>3, PlaceStepsKeep
<1>4. CASE ContactSteps
  BY <1>4, ContactStepsKeep
<1>5. CASE ToolSteps
  BY <1>5, ToolStepsKeep
<1>6. CASE UNCHANGED vars
  BY <1>6 DEF vars, IInv, LiberoTypeOK, Sound, KeepInv, Gripping, IsHeld, AtAnEnd, AtOpenEnd,
              GraspInv, EmptyIsShut, CarryInv, ReleasesWhatWasVerified
<1> QED BY <1>1, <1>2, <1>3, <1>4, <1>5, <1>6 DEF Next

THEOREM InvariantHolds == Spec => []IInv
BY InitKeeps, Inductive, PTL DEF Spec

\* The hand and the call are what the skills take them to be after any calls,
\* in any order, whatever they find on the way.
THEOREM TypeCorrect == Spec => []LiberoTypeOK
<1>1. IInv => LiberoTypeOK
  BY DEF IInv
<1> QED BY <1>1, InvariantHolds, PTL

\* However calls follow each other and fail, evidence is never of an object
\* other than the one between the fingers (visual_hold.py:120).
THEOREM EvidenceCorrect == Spec => []EvidenceIsOfTheHeldObject
<1>1. IInv => EvidenceIsOfTheHeldObject
  BY DEF IInv, Sound, EvidenceIsOfTheHeldObject
<1> QED BY <1>1, InvariantHolds, PTL

\* place_object_in and place_on_surface first let go what was verified when they
\* were called, and hold it, with recorded evidence, as they do.
THEOREM ReleaseCorrect == Spec => []ReleasesWhatWasVerified
<1>1. IInv => ReleasesWhatWasVerified
  BY DEF IInv
<1> QED BY <1>1, InvariantHolds, PTL

\* A hand found holding something is opened by the placing skills and on request
\* only: no move, push, pull or recovery drops what it did not pick up.
THEOREM OpeningCorrect == Spec => []OpensOnPurpose
<1>1. IInv => OpensOnPurpose
  BY DEF IInv, KeepInv, Openers, OpensOnPurpose
<1> QED BY <1>1, InvariantHolds, PTL
=============================================================================
