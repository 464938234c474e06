----------------------------- MODULE MailCustody -----------------------------
(***************************************************************************)
(* What the parser promises about the messages it is given, whichever way  *)
(* it gets them: a message may be copied to a file, handed to the backend  *)
(* and removed from where it came from, but never so that no copy is left. *)
(***************************************************************************)
EXTENDS TLAPS

CONSTANT Msgs

VARIABLES
    server,     \* messages on the mail server
    files,      \* messages with a complete file on disk
    backend,    \* messages the backend has taken
    withdrawn   \* messages that someone else removes or has removed

vars == <<server, files, backend, withdrawn>>

Somewhere == server \cup files \cup backend \cup withdrawn

TypeOK == Somewhere \subseteq Msgs

Init == server = {} /\ files = {} /\ backend = {} /\ withdrawn = {}

Appear(m) ==
    /\ m \notin Somewhere
    /\ server' = server \cup {m}
    /\ UNCHANGED <<files, backend, withdrawn>>

\* From wherever it is: the copy may be in memory when the server loses it.
Copy(m) ==
    /\ m \in Somewhere
    /\ files' = files \cup {m}
    /\ UNCHANGED <<server, backend, withdrawn>>

Take(m) ==
    /\ m \in files
    /\ backend' = backend \cup {m}
    /\ UNCHANGED <<server, files, withdrawn>>

Discard(m) ==
    /\ m \in server \cup backend \cup withdrawn
    /\ files' = files \ {m}
    /\ UNCHANGED <<server, backend, withdrawn>>

\* EXPUNGE and DELE remove several messages at once.
Remove(S) ==
    /\ S \subseteq files \cup backend \cup withdrawn
    /\ server' = server \ S
    /\ UNCHANGED <<files, backend, withdrawn>>

\* Another client removes messages, now or later.
Withdraw(S) ==
    /\ S \subseteq server
    /\ withdrawn' = withdrawn \cup S
    /\ server' \in {server, server \ S}
    /\ UNCHANGED <<files, backend>>

Next ==
    \/ \E m \in Msgs : Appear(m) \/ Copy(m) \/ Take(m) \/ Discard(m)
    \/ \E S \in SUBSET Msgs : Remove(S) \/ Withdraw(S)

Spec == Init /\ [][Next]_vars

\* A message that is somewhere stays somewhere.
NeverVanishes == [][Somewhere \subseteq Somewhere']_vars

(***************************************************************************)
(* What is promised holds of every mode that implements it                 *)
(***************************************************************************)

Kept == Somewhere \subseteq Somewhere'

LEMMA OneKept ==
    ASSUME NEW m \in Msgs, Appear(m) \/ Copy(m) \/ Take(m) \/ Discard(m)
    PROVE  Kept
<1>1. CASE Appear(m)
  BY <1>1 DEF Appear, Kept, Somewhere
<1>2. CASE Copy(m)
  BY <1>2 DEF Copy, Kept, Somewhere
<1>3. CASE Take(m)
  BY <1>3 DEF Take, Kept, Somewhere
<1>4. CASE Discard(m)
  BY <1>4 DEF Discard, Kept, Somewhere
<1> QED
  BY <1>1, <1>2, <1>3, <1>4

\* EXPUNGE and DELE, and whoever else removes messages.
LEMMA ManyKept ==
    ASSUME NEW S \in SUBSET Msgs, Remove(S) \/ Withdraw(S)
    PROVE  Kept
<1>1. CASE Remove(S)
  BY <1>1 DEF Remove, Kept, Somewhere
<1>2. CASE Withdraw(S)
  BY <1>2 DEF Withdraw, Kept, Somewhere
<1> QED
  BY <1>1, <1>2

\* A mode of which every step is one of MailCustody never lets the last copy
\* of a message go: it is on the server, on disk, in the backend or withdrawn.
THEOREM CustodyKept == Spec => NeverVanishes
<1>1. Next => Kept
  BY OneKept, ManyKept DEF Next
<1>2. [Next]_vars => [Kept]_vars
  BY <1>1
<1> QED
  BY <1>2, PTL DEF Spec, NeverVanishes, Kept
=============================================================================
