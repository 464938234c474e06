----------------------------- MODULE MCImapWire -----------------------------
(* Small instances of ImapWire for TLC. *)
EXTENDS ImapWire

Account(s, m, a, d) == [starttls |-> s, mech |-> m, all |-> a, delete |-> d]

\* Both ways to log in, with and without STARTTLS, both searches.
Accounts == {Account(FALSE, "login", FALSE, TRUE), Account(TRUE, "xoauth2", TRUE, TRUE)}
=============================================================================
