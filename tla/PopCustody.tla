---------------------------- MODULE PopCustody ------------------------------
(***************************************************************************)
(* POP3 mode keeps the promise of MailCustody, too: a message that is cut  *)
(* short at a timeout, is fetched in a session that no longer takes every  *)
(* line for what it is, or is feigned to be delivered counts as withdrawn. *)
(***************************************************************************)
EXTENDS PopMode

InHand == {m \in {last} \cap Msgs : pc \in {"body", "post", "clean"} /\ Whole(m)}

M == INSTANCE MailCustody WITH
        server <- box,
        files <- kept \cup InHand,
        backend <- {m \in Msgs : accepted[m] > 0},
        withdrawn <- excused

\* Every step of a run, whatever the stream holds, is a step of MailCustody or
\* leaves its state alone.
Custody == M!Spec
=============================================================================
