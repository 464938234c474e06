----------------------------- MODULE ImapCustody -----------------------------
(***************************************************************************)
(* IMAP mode keeps the promise of MailCustody.                             *)
(***************************************************************************)
EXTENDS ImapMode

OnTheServer == {m \in arrived : Live(m)}

\* Saved files: those left behind, and those a process is working on.
Held == {InHand(p) : p \in {q \in Procs : pc[q] \in {"post", "clean"} /\ job[q].full}}

M == INSTANCE MailCustody WITH
        server <- OnTheServer,
        files <- kept \cup Held,
        backend <- {m \in Msgs : accepted[m] > 0}

\* Every step of a run, of overlapping runs and of the other clients of the
\* mailbox is a step of MailCustody, or leaves its state alone.
Custody == M!Spec
=============================================================================
