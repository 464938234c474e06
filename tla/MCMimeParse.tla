---------------------------- MODULE MCMimeParse -----------------------------
(* A small instance of MimeParse for TLC. *)
EXTENDS MimeParse

CONSTANTS b1, b2

\* b2 is b1 with something after it.
Longer == {<<b2, b1>>}
=============================================================================
