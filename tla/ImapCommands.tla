---------------------------- MODULE ImapCommands ----------------------------
(***************************************************************************)
(* What a session is promised about its commands, whatever the wire does:  *)
(* one command at a time, each executed by the server at most once and in  *)
(* the order they were issued, and success reported only for a command     *)
(* that did succeed.  A failure may be reported for any command, and the   *)
(* server may still execute it later.                                      *)
(***************************************************************************)
EXTENDS Naturals, Sequences

CONSTANTS
    Names,      \* commands
    Courtesy    \* commands whose result decides nothing

VARIABLE log    \* the commands issued: what became of them, and what was reported

Fresh(n) == [name |-> n, outcome |-> "open", verdict |-> "open"]

Init == log = <<>>

Issue(n) ==
    /\ \A i \in DOMAIN log : log[i].verdict # "open"
    /\ log' = Append(log, Fresh(n))

Execute(i, o) ==
    /\ \A j \in i..Len(log) : log[j].outcome = "open"
    /\ log' = [log EXCEPT ![i].outcome = o]

Report(v) ==
    /\ log # <<>>
    /\ LET i == Len(log) IN
       /\ log[i].verdict = "open"
       /\ v = "ok" => log[i].outcome = "ok" \/ log[i].name \in Courtesy
       /\ log' = [log EXCEPT ![i].verdict = v]

Next ==
    \/ \E n \in Names : Issue(n)
    \/ \E i \in DOMAIN log, o \in {"ok", "no"} : Execute(i, o)
    \/ \E v \in {"ok", "failed"} : Report(v)

Spec == Init /\ [][Next]_log
=============================================================================
