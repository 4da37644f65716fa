---------------------------- MODULE GripperHold ----------------------------
(***************************************************************************)
(* What the LIBERO skills know of the hand.  The fingers' gap and what is  *)
(* between them belong to the world; the classifier's flags, the last      *)
(* gripper command and the visual evidence of a hold are kept by the code  *)
(* (gripper_state.py, visual_hold.py, _control.py) and are what every      *)
(* skill decides by.                                                       *)
(*                                                                         *)
(* An operator on a hand gives the set of hands the call may leave.  A gap *)
(* is one of four bands: an end is the same end for classify and for       *)
(* confirm_close.  The world is taken to be this: fingers that lose an     *)
(* object are shut before the next reading, and a settled close of empty   *)
(* fingers ends shut (the wait of set_gripper is there for that).          *)
(***************************************************************************)
EXTENDS Naturals

CONSTANTS
    Object,         \* what may come between the fingers
    Nothing,        \* ... or does not
    NoEvidence

Shut == 0
Mid  == 1
Near == 2       \* above 85 per cent of the span, short of the open end
Wide == 3
Gap  == Shut..Wide

Inside(gap) == gap \in {Mid, Near}

\* VisualHoldEvidence, recorded or pending; `of' is what the hand held then.
Evidence == [kind : {"recorded", "pending"}, of : Object \cup {Nothing}, identity : BOOLEAN]

ASSUME ObjectAssumption == Nothing \notin Object /\ NoEvidence \notin Evidence

Hand == [gap : Gap, held : Object \cup {Nothing}, last : {"none", "open", "close"},
         latched : BOOLEAN, stalled : BOOLEAN, evid : Evidence \cup {NoEvidence}]

FreshHand == [gap |-> Wide, held |-> Nothing, last |-> "none",
              latched |-> FALSE, stalled |-> FALSE, evid |-> NoEvidence]

Flags(latched, stalled) == [latched |-> latched, stalled |-> stalled]
-----------------------------------------------------------------------------
(***************************************************************************)
(* Reading: classify and read_gripper_state.                               *)
(***************************************************************************)
AtOpenEnd(h) == h.gap = Wide \/ (h.last = "open" /\ h.gap = Near)
AtAnEnd(h)   == AtOpenEnd(h) \/ h.gap = Shut

IsOpen(h) == AtOpenEnd(h) \/ (~AtAnEnd(h) /\ h.last = "close" /\ h.stalled)
IsHeld(h) == ~AtAnEnd(h) /\ h.last = "close" /\ ~h.stalled /\ h.latched

Forget(h) == [h EXCEPT !.evid = NoEvidence]

\* A reading resets the flags at an end, and drops the evidence unless HELD.
Read(h) ==
    [h EXCEPT !.latched = @ /\ ~AtAnEnd(h), !.stalled = @ /\ ~AtAnEnd(h),
              !.evid = IF IsHeld(h) THEN @ ELSE NoEvidence]
-----------------------------------------------------------------------------
(***************************************************************************)
(* The fingers.                                                            *)
(***************************************************************************)
\* Closing: the grip stays or is lost; empty fingers shut or catch something.
Closes(h) ==
    IF h.held # Nothing
    THEN {<<h.gap, h.held>>, <<Shut, Nothing>>}
    ELSE {<<Shut, Nothing>>} \cup
         {<<gap, x>> : gap \in {g \in Gap : g <= h.gap /\ h.gap # Shut}, x \in Object}

\* Too short a motion leaves empty fingers on their way.
ClosesInPart(h) ==
    Closes(h) \cup {<<gap, h.held>> : gap \in {g \in Gap : g <= h.gap /\ h.held = Nothing}}

\* Opening: jammed fingers stop anywhere; wide open they hold nothing.
Opens(h) ==
    {<<gap, x>> : gap \in h.gap..Wide, x \in {h.held, Nothing}} \ {<<Wide, x>> : x \in Object}

\* on_keep_close at every step: an end sets the flags, the first step's too.
KeptClosing(h, gap) ==
    CASE gap = Shut -> {Flags(FALSE, FALSE)}
      [] gap = Wide -> {Flags(FALSE, TRUE)}
      [] OTHER -> {Flags(h.latched, h.stalled)} \cup
                  (IF h.gap = Wide THEN {Flags(FALSE, TRUE)} ELSE {})

\* confirm_close, after fingers that moved or not and ended at this gap.
ConfirmClose(f, gap, moved) ==
    {g \in [latched : BOOLEAN, stalled : BOOLEAN] :
        \/ moved /\ Inside(gap) /\ g = Flags(TRUE, FALSE)
        \/ gap = Wide /\ g = Flags(FALSE, TRUE)
        \/ gap = Shut /\ g = Flags(FALSE, FALSE)
        \/ ~moved /\ gap = Near /\ g = Flags(FALSE, TRUE)
        \/ ~moved /\ Inside(gap) /\ g = Flags(f.latched, FALSE)}

\* A motion counts above three per cent of the span: within a band it may.
MayMove(from, to) == {m \in BOOLEAN : (to = Wide => ~m) /\ (from >= to + 2 => m)}

With(h, last, f, g) ==
    [h EXCEPT !.gap = f[1], !.held = f[2], !.last = last,
              !.latched = g.latched, !.stalled = g.stalled]
-----------------------------------------------------------------------------
(***************************************************************************)
(* Commands: set_gripper, servo_to and the step that keeps the grip.       *)
(***************************************************************************)
SetClosed(h) ==
    UNION {{With(h, "close", f, g) :
                g \in UNION {ConfirmClose(k, f[1], m) :
                                k \in KeptClosing(h, f[1]), m \in MayMove(h.gap, f[1])}} :
           f \in Closes(h)}

SetOpen(h) == {With(Forget(h), "open", f, Flags(FALSE, FALSE)) : f \in Opens(h)}

\* No step at all when the pose is reached or cannot be.
MoveClosing(h) ==
    {h} \cup UNION {{With(h, "close", f, g) : g \in KeptClosing(h, f[1])} : f \in ClosesInPart(h)}

\* Mutant: only an explicit opening of the gripper forgets the evidence.
MoveOpeningRemembers(h) ==
    {h} \cup
    {With(h, "open", f, IF f[1] = Wide THEN Flags(FALSE, FALSE) ELSE Flags(h.latched, h.stalled)) :
        f \in Opens(h)}

\* on_keep_open resets the flags at the end only: a jam keeps the latch.
MoveOpening(h) ==
    {Forget(h)} \cup
    {With(Forget(h), "open", f,
          IF f[1] = Wide THEN Flags(FALSE, FALSE) ELSE Flags(h.latched, h.stalled)) :
        f \in Opens(h)}

\* _hold_grip: whatever the hand is read to be doing.
MoveKeeping(h) == IF IsOpen(h) THEN MoveOpening(Read(h)) ELSE MoveClosing(Read(h))
-----------------------------------------------------------------------------
(***************************************************************************)
(* Evidence: what the head camera shows of where the object was.           *)
(***************************************************************************)
RecordHold(h, kind, identity) ==
    {Forget(h), [h EXCEPT !.evid = [kind |-> kind, of |-> h.held, identity |-> identity]]}

\* verify_visual_hold: recorded evidence is checked against the picture,
\* pending evidence of a hold is promoted by it.
Verify(h) ==
    IF h.evid = NoEvidence THEN {[hand |-> h, ok |-> FALSE]}
    ELSE {[hand |-> h, ok |-> FALSE],
          [hand |-> [h EXCEPT !.evid.kind = "recorded"], ok |-> TRUE]}
=============================================================================
