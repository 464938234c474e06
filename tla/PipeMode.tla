------------------------------ MODULE PipeMode ------------------------------
(***************************************************************************)
(* Pipe mode of the parser: internal/app/run.go (run, saveInput,           *)
(* processOne, cleanup) and internal/poster with the boot of an xSP key.   *)
(*                                                                         *)
(* The mail system (MTA) has a queue of messages and starts the program    *)
(* once for each, with the message on its standard input.  The exit code   *)
(* is all it learns: after 0 it forgets the message, after anything else   *)
(* it tries again later or returns the message to its sender.              *)
(*                                                                         *)
(* A run whose MTA dies goes on: it reads the end of its input where the   *)
(* MTA stopped writing, and nobody looks at its exit code.  The MTA finds  *)
(* the message in its queue again and starts a second run for it.          *)
(***************************************************************************)
EXTENDS Integers, FiniteSets

CONSTANTS
    Procs,          \* runs that may be alive at the same time
    Msgs,           \* messages
    Configs,        \* configurations a run may find in its file
    Poison,         \* messages that are always refused
    Faults,         \* kinds of failure that may happen
    MaxFaults,      \* bound: failures in a behaviour
    MaxAccepts,     \* bound: the count of acceptances saturates here
    NoMsg           \* no message

Config == [xsp : BOOLEAN, superClean : BOOLEAN, debugParse : BOOLEAN]

FaultKinds == {"config", "create", "read", "write", "open", "panic", "boot",
               "refuse", "lost", "hollow", "crash", "mta"}

ASSUME PipeAssumption ==
    /\ IsFiniteSet(Procs)
    /\ NoMsg \notin Msgs
    /\ Configs \subseteq Config
    /\ Poison \subseteq Msgs
    /\ Faults \subseteq FaultKinds
    /\ MaxFaults \in Nat
    /\ MaxAccepts \in Nat \ {0}

VARIABLES
    queue,      \* messages in the queue of the MTA
    arrived,    \* history: messages the MTA has ever had
    returned,   \* messages the MTA has sent back
    excused,    \* history: messages feigned to be delivered
    accepted,   \* how often the backend took each message whole
    left,       \* files that no run owns any more
    expired,    \* whether the license key has expired
    faults,     \* failures so far
    pc,         \* where each run is
    job         \* what it has in hand

mta == <<queue, arrived, returned>>
vars == <<mta, excused, accepted, left, expired, faults, pc, job>>

(***************************************************************************)
(* Values                                                                  *)
(***************************************************************************)

\* What is in a file, or what has been read.
Content == {"none", "empty", "half", "whole"}

\* msg: the message; cfg: the configuration loaded; orphan: the MTA is dead;
\* data: what was read; file: the saved message; parts: there are attachment
\* files; email: processOne has the tree that names them; delivered: as there.
Job == [msg : Msgs \cup {NoMsg}, cfg : Config, orphan : BOOLEAN,
        data : Content, file : Content, parts : BOOLEAN,
        email : BOOLEAN, delivered : BOOLEAN]

Endings == {"ok", "failed", "killed"}

Leftover == [msg : Msgs, file : Content, parts : BOOLEAN, email : BOOLEAN,
             end : Endings, superClean : BOOLEAN]

NoConfig == [xsp |-> FALSE, superClean |-> FALSE, debugParse |-> FALSE]

JobOf(m) == [msg |-> m, cfg |-> NoConfig, orphan |-> FALSE, data |-> "none",
             file |-> "none", parts |-> FALSE, email |-> FALSE,
             delivered |-> FALSE]

\* The type invariant.  What saveInput hands to processFiles has something in
\* it, and a run that is not there has nothing in hand.
TypeOK ==
    /\ queue \subseteq Msgs
    /\ arrived \subseteq Msgs
    /\ returned \subseteq Msgs
    /\ excused \subseteq Msgs
    /\ accepted \in [Msgs -> 0..MaxAccepts]
    /\ left \subseteq Leftover
    /\ expired \in BOOLEAN
    /\ faults \in 0..MaxFaults
    /\ pc \in [Procs -> {"none", "start", "create", "read", "write", "parse",
                         "boot", "post", "clean", "remove", "exit"}]
    /\ job \in [Procs -> Job]
    /\ \A p \in Procs :
          /\ pc[p] = "none" <=> job[p].msg = NoMsg
          /\ pc[p] \in {"parse", "boot", "post", "clean", "remove"}
                => job[p].file \in {"half", "whole"}

Init ==
    /\ queue = {}
    /\ arrived = {}
    /\ returned = {}
    /\ excused = {}
    /\ accepted = [m \in Msgs |-> 0]
    /\ left = {}
    /\ expired = FALSE
    /\ faults = 0
    /\ pc = [p \in Procs |-> "none"]
    /\ job = [p \in Procs |-> JobOf(NoMsg)]

Fault(kind) ==
    /\ kind \in Faults
    /\ faults < MaxFaults
    /\ faults' = faults + 1

Goto(p, l) == pc' = [pc EXCEPT ![p] = l]

\* The run goes on at l with the job as it is now in its hands.
Continue(p, j, l) == job' = [job EXCEPT ![p] = j] /\ Goto(p, l)

outside == <<mta, excused, accepted, left, expired>>

(***************************************************************************)
(* run: configuration and input                                            *)
(***************************************************************************)

\* A wrong command line ends in EX_USAGE, a bad configuration in EX_SOFTWARE.
LoadConfig(p) ==
    /\ pc[p] = "start"
    /\ \/ /\ \E c \in Configs : Continue(p, [job[p] EXCEPT !.cfg = c], "create")
          /\ UNCHANGED faults
       \/ /\ Fault("config")
          /\ Continue(p, job[p], "exit")
    /\ UNCHANGED outside

CreateTemp(p) ==
    /\ pc[p] = "create"
    /\ \/ /\ Continue(p, [job[p] EXCEPT !.file = "empty"], "read")
          /\ UNCHANGED faults
       \/ /\ Fault("create")
          /\ Continue(p, job[p], "exit")
    /\ UNCHANGED outside

\* What the pipe holds up to its end.
Input(p) == IF job[p].orphan THEN {"empty", "half"} ELSE {"whole"}

\* Only an input that has something in it is written to the file.
HasInput(d) == d # "empty"

\* Mutant: the file is left where it is when there is nothing to put in it.
GivesUpLeaving(p) == Continue(p, job[p], "exit")

\* saveInput ends before it has anything to write: the file goes.
GivesUp(p) == Continue(p, [job[p] EXCEPT !.file = "none"], "exit")

\* Mutant: an error of ReadAll is taken for the end of the input.
GoesOnWithHalf(p) == Continue(p, [job[p] EXCEPT !.data = "half"], "write")

\* ReadAll fails.
ReadFails(p) == GivesUp(p)

ReadAll(p) ==
    /\ pc[p] = "read"
    /\ \/ /\ \E d \in Input(p) :
                IF HasInput(d)
                THEN Continue(p, [job[p] EXCEPT !.data = d], "write")
                ELSE GivesUp(p)
          /\ UNCHANGED faults
       \/ /\ Fault("read")
          /\ ReadFails(p)
    /\ UNCHANGED outside

\* A write that fails leaves what it has written.
Write(p) ==
    /\ pc[p] = "write"
    /\ \/ /\ Continue(p, [job[p] EXCEPT !.file = job[p].data], "parse")
          /\ UNCHANGED faults
       \/ /\ Fault("write")
          /\ Continue(p, [job[p] EXCEPT !.file = "half"], "exit")
    /\ UNCHANGED outside

(***************************************************************************)
(* processOne                                                              *)
(***************************************************************************)

\* After the parser has returned a tree: debug/parse feigns the delivery.
Parsed(p) ==
    LET j == [job[p] EXCEPT !.parts = TRUE, !.email = TRUE,
                            !.delivered = job[p].cfg.debugParse]
    IN  Continue(p, j, IF job[p].cfg.debugParse THEN "clean"
                       ELSE IF job[p].cfg.xsp THEN "boot" ELSE "post")

Feigned(p) == excused' = excused \cup ({job[p].msg} \cap queue)

\* The saved file cannot be opened, or the parser panics with its parts on
\* disk and no tree to name them.
Parse(p) ==
    /\ pc[p] = "parse"
    /\ \/ /\ Parsed(p)
          /\ IF job[p].cfg.debugParse THEN Feigned(p) ELSE UNCHANGED excused
          /\ UNCHANGED faults
       \/ /\ Fault("open")
          /\ Continue(p, job[p], "clean")
          /\ UNCHANGED excused
       \/ /\ Fault("panic")
          /\ Continue(p, [job[p] EXCEPT !.parts = TRUE], "clean")
          /\ UNCHANGED excused
    /\ UNCHANGED <<mta, accepted, left, expired>>

\* Mutant: the date in the key is compared the wrong way round.
KeyExpired == expired

\* KeyInfo decrypts the key and looks at its date.
KeyValid == ~expired

\* xspBoot and the search for <key>: an expired key is not sent; no answer, an
\* empty one, or one without the parser's URL, user and password is an error.
Boot(p) ==
    /\ pc[p] = "boot"
    /\ \/ KeyValid /\ Goto(p, "post") /\ UNCHANGED faults
       \/ ~KeyValid /\ Goto(p, "clean") /\ UNCHANGED faults
       \/ KeyValid /\ Fault("boot") /\ Goto(p, "clean")
    /\ UNCHANGED <<outside, job>>

\* The backend takes what the file holds; a part of a message does not count.
Accept(p) ==
    LET m == job[p].msg IN
    accepted' = IF job[p].file = "whole" /\ accepted[m] < MaxAccepts
                THEN [accepted EXCEPT ![m] = @ + 1]
                ELSE accepted

\* Mutant: the answer of the backend is not looked at.
AnyReply(p, d) == Continue(p, [job[p] EXCEPT !.delivered = TRUE], "clean")

\* Deliver returns d.
Delivers(p, d) == Continue(p, [job[p] EXCEPT !.delivered = d], "clean")

\* postParser: accepted; refused, unreachable or a panic of the poster;
\* accepted with the answer lost; an HTTP error with an empty body.
Post(p) ==
    /\ pc[p] = "post"
    /\ \/ /\ job[p].msg \notin Poison
          /\ Accept(p)
          /\ Delivers(p, TRUE)
          /\ UNCHANGED <<excused, faults>>
       \/ /\ IF job[p].msg \in Poison THEN UNCHANGED faults ELSE Fault("refuse")
          /\ Delivers(p, FALSE)
          /\ UNCHANGED <<excused, accepted>>
       \/ /\ job[p].msg \notin Poison
          /\ Fault("lost")
          /\ Accept(p)
          /\ Delivers(p, FALSE)
          /\ UNCHANGED excused
       \/ /\ Fault("hollow")
          /\ Feigned(p)
          /\ Delivers(p, TRUE)
          /\ UNCHANGED accepted
    /\ UNCHANGED <<mta, left, expired>>

\* collectTempnames finds the part files in the tree, if there is one.
KnowsParts(p) == job[p].email

CleanParts(p) ==
    /\ pc[p] = "clean"
    /\ Continue(p, [job[p] EXCEPT !.parts = @ /\ ~KnowsParts(p)], "remove")
    /\ UNCHANGED <<outside, faults>>

\* The saved message goes when it was delivered, or in any case.
RemoveFile(p) ==
    /\ pc[p] = "remove"
    /\ Continue(p, [job[p] EXCEPT
                     !.file = IF job[p].delivered \/ job[p].cfg.superClean
                              THEN "none" ELSE @], "exit")
    /\ UNCHANGED <<outside, faults>>

(***************************************************************************)
(* The end of a run, and the MTA                                           *)
(***************************************************************************)

\* What a run leaves on disk.
Leaves(p, how) ==
    LET j == job[p] IN
    left' = IF j.file = "none" /\ ~j.parts
            THEN left
            ELSE left \cup {[msg |-> j.msg, file |-> j.file, parts |-> j.parts,
                             email |-> j.email, end |-> how,
                             superClean |-> j.cfg.superClean]}

\* Mutant: the exit code does not tell of the message.
AlwaysOK(p) == TRUE

\* Mutant: the deferred function of processOne sets no result.
NeverOK(p) == FALSE

\* Whether the exit code is 0 (processFiles).
ExitOK(p) == job[p].delivered

\* The MTA learns of a failure: it keeps the message or sends it back.
Keeps(m) == UNCHANGED mta
Returns(m) ==
    /\ queue' = queue \ {m}
    /\ returned' = returned \cup {m}
    /\ UNCHANGED arrived

Forgets(m) ==
    /\ queue' = queue \ {m}
    /\ UNCHANGED <<arrived, returned>>

Ends(p) == Continue(p, JobOf(NoMsg), "none")

Exit(p) ==
    /\ pc[p] = "exit"
    /\ Leaves(p, IF ExitOK(p) THEN "ok" ELSE "failed")
    /\ IF job[p].orphan THEN UNCHANGED mta
       ELSE IF ExitOK(p) THEN Forgets(job[p].msg)
       ELSE Keeps(job[p].msg) \/ Returns(job[p].msg)
    /\ Ends(p)
    /\ UNCHANGED <<excused, accepted, expired, faults>>

\* A run dies; its MTA sees the signal.
Crash(p) ==
    /\ pc[p] # "none"
    /\ Fault("crash")
    /\ Leaves(p, "killed")
    /\ Ends(p)
    /\ UNCHANGED <<mta, excused, accepted, expired>>

\* Only one run for a message, as far as the MTA knows.
Launch(p, m) ==
    /\ pc[p] = "none"
    /\ m \in queue
    /\ \A q \in Procs : job[q].msg = m => job[q].orphan
    /\ Continue(p, JobOf(m), "start")
    /\ UNCHANGED <<outside, faults>>

\* The MTA dies and comes back; its queue is on disk.
MtaDies ==
    /\ \E p \in Procs : pc[p] # "none" /\ ~job[p].orphan
    /\ Fault("mta")
    /\ job' = [p \in Procs |-> IF pc[p] = "none" THEN job[p]
                               ELSE [job[p] EXCEPT !.orphan = TRUE]]
    /\ UNCHANGED <<outside, pc>>

Arrive(m) ==
    /\ m \notin arrived
    /\ arrived' = arrived \cup {m}
    /\ queue' = queue \cup {m}
    /\ UNCHANGED <<returned, excused, accepted, left, expired,
                   faults, pc, job>>

\* Midnight of the day the key names.
Expire ==
    /\ ~expired
    /\ expired' = TRUE
    /\ UNCHANGED <<mta, excused, accepted, left, faults, pc, job>>

Step(p) ==
    \/ LoadConfig(p) \/ CreateTemp(p) \/ ReadAll(p) \/ Write(p)
    \/ Parse(p) \/ Boot(p) \/ Post(p) \/ CleanParts(p) \/ RemoveFile(p)
    \/ Exit(p)

Next ==
    \/ \E p \in Procs : Step(p) \/ Crash(p)
    \/ \E p \in Procs, m \in Msgs : Launch(p, m)
    \/ MtaDies
    \/ \E m \in Msgs : Arrive(m)
    \/ Expire

Spec == Init /\ [][Next]_vars

\* A run goes on, and an MTA comes back to every message in its queue.
FairSpec ==
    /\ Spec
    /\ \A p \in Procs : WF_vars(Step(p))
    /\ \A m \in Msgs : SF_vars(\E p \in Procs : Launch(p, m))

(***************************************************************************)
(* Properties                                                              *)
(***************************************************************************)

Backend == {m \in Msgs : accepted[m] > 0}

\* A message the MTA has had is in its queue, with its sender or, whole, in
\* the backend, whatever dies or fails between them; the saved file, which
\* super_clean may remove and nobody reads again, does not count.  Messages
\* feigned to be delivered (debug/parse, an HTTP error without a body) are
\* excused.
NoLoss == arrived \subseteq queue \cup returned \cup Backend \cup excused

\* The backend gets a message cut short only if the MTA died while it was
\* read: a read or a write that fails in saveInput sends nothing.
CutByMta ==
    \A p \in Procs :
        pc[p] \in {"parse", "boot", "post"} /\ job[p].file # "whole"
            => job[p].orphan

\* A run that ends by itself leaves no file after a delivery and no empty
\* file; under super_clean only the file of a failed write; and no part files
\* unless the parser panicked.
Tidy ==
    \A l \in left : l.end # "killed" =>
        /\ l.file # "none" => /\ l.end = "failed"
                              /\ l.file # "empty"
                              /\ l.superClean => l.file = "half"
        /\ l.parts => ~l.email

\* The backend has a message more than once only after a failure: one run, one
\* message, one post, and a 0 that the MTA gets ends it.
DuplicatesAreFaults ==
    \A m \in Msgs : accepted[m] < MaxAccepts => accepted[m] <= 1 + faults

\* Every message that can be delivered reaches the backend or its sender, or
\* was feigned to, or the license key runs out.
Handled ==
    \A m \in Msgs \ Poison :
        m \in queue ~> m \in Backend \cup returned \cup excused \/ expired
=============================================================================
