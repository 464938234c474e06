----------------------------- MODULE MCImapMode -----------------------------
(* Small instances of ImapMode for TLC. *)
EXTENDS ImapCustody

CONSTANTS p1, p2, inbox, other

\* One account; three accounts, the first and the last on the same mailbox.
OneKeyOf == <<inbox>>
Yes == <<TRUE>>
No == <<FALSE>>
ThreeKeyOf == <<inbox, other, inbox>>
NoYesNo == <<FALSE, TRUE, FALSE>>
YesYesNo == <<TRUE, TRUE, FALSE>>

\* Failures short of an HTTP error that reads as a delivery.
AllHonest == FaultKinds \ {"hollow"}

\* Failures that leave the dedup state readable and the pruning exact.
KeepsMemory == AllHonest \ {"load", "searchall"}

\* One kind of failure at a time.
OnlySearchAll == {"searchall"}
OnlyHollow == {"hollow"}
=============================================================================
