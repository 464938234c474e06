---------------------------- MODULE PipeCustody ------------------------------
(***************************************************************************)
(* Pipe mode keeps the promise of MailCustody: the queue of the MTA is the *)
(* server, and what it sends back it withdraws.                            *)
(***************************************************************************)
EXTENDS PipeMode

M == INSTANCE MailCustody WITH
        server <- queue,
        files <- {job[p].msg : p \in {q \in Procs : job[q].file = "whole"}}
                 \cup {l.msg : l \in {k \in left : k.file = "whole"}},
        backend <- Backend,
        withdrawn <- returned \cup excused

\* Every step of the runs, of their MTA and of the failures that befall them
\* is a step of MailCustody or leaves its state alone.
Custody == M!Spec
=============================================================================
