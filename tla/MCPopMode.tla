----------------------------- MODULE MCPopMode ------------------------------
(* Small instances of PopMode for TLC. *)
EXTENDS PopCustody

OnlyTimeouts == {"timeout"}
=============================================================================
