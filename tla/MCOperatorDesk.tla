-------------------------- MODULE MCOperatorDesk --------------------------
(***************************************************************************)
(* An instance for TLC: a draft and a candidate; one chat that applies a   *)
(* candidate and audits the draft; an operator beside it.                  *)
(***************************************************************************)
EXTENDS OperatorDesk

CONSTANTS d1, c1, m1, m2, w1, chat

MCClerk   == {m1, m2, w1}
MCChatOf  == [m \in Message |-> chat]
MCDeliveries == [m \in Message |-> IF m = m1 THEN 2 ELSE 1]
MCCommand == [m \in Message |-> IF m = m1 THEN [op |-> "apply", p |-> c1]
                                          ELSE [op |-> "annotate", p |-> d1]]
=============================================================================
