------------------------------- MODULE PopMode -------------------------------
(***************************************************************************)
(* POP3 mode of the parser: internal/app/pop3.go drives internal/pop3, one *)
(* mailbox.  (The accounts of a run share nothing, and a server lets one   *)
(* session at a time have the mailbox.)                                    *)
(*                                                                         *)
(* A session lists the mailbox and fetches, delivers and marks one message *)
(* after the other; QUIT removes what is marked, and a session that ends   *)
(* any other way removes nothing.  The client reads its replies from one   *)
(* stream with a timeout per read: a reply that comes too late stays in    *)
(* the stream and is read as the reply to a later command.  Since only     *)
(* QUIT has an effect that lasts, it does not matter when the server takes *)
(* a command: the model lets it answer at once, and lets any read time out.*)
(***************************************************************************)
EXTENDS Integers, Sequences, FiniteSets

CONSTANTS
    NumMsgs,        \* bound: messages that arrive
    NumLines,       \* lines of a message
    Lookalikes,     \* lines of messages that begin with "+OK"
    Delete,         \* <delete> of the account
    MaxMessages,    \* global/max_pop3_messages
    MaxDelete,      \* global/max_pop3_delete
    SuperClean,     \* debug/superclean
    DebugParse,     \* debug/parse
    Poison,         \* messages that are always refused
    Faults,         \* kinds of failure that may happen
    MaxFaults,      \* bound: failures in a behaviour
    MaxAccepts      \* bound: the count of acceptances saturates here

Msgs == 1..NumMsgs

FaultKinds == {"open", "timeout", "drop", "err", "file", "refuse", "lost",
               "hollow", "crash"}

ASSUME PopAssumption ==
    /\ NumMsgs \in Nat \ {0}
    /\ NumLines \in Nat \ {0}
    /\ Lookalikes \subseteq (1..NumMsgs) \X (1..NumLines)
    /\ {Delete, MaxDelete, SuperClean, DebugParse} \subseteq BOOLEAN
    /\ MaxMessages \in Nat
    /\ Poison \subseteq 1..NumMsgs
    /\ Faults \subseteq FaultKinds
    /\ MaxFaults \in Nat
    /\ MaxAccepts \in Nat \ {0}

VARIABLES
    box,        \* messages in the mailbox
    arrived,    \* history: the messages that have arrived are 1..arrived
    accepted,   \* how often the backend took each message whole
    kept,       \* messages with a complete saved file
    excused,    \* history: messages cut at a timeout, not read in step, or feigned to be
                \* delivered
    faults,     \* failures so far
    up,         \* whether the connection stands
    late,       \* history: timeouts the session has gone on after
    marked,     \* messages the server will remove at QUIT
    stream,     \* replies the client has not read yet
    pc,         \* where the run is
    todo,       \* the rest of the listed messages
    left,       \* how many of them the loop may still fetch
    last,       \* Client.last
    file,       \* the lines of the saved file
    delivered   \* the result of processOne

server == <<box, arrived, marked>>
vars == <<server, accepted, kept, excused, faults, up, late, stream,
          pc, todo, left, last, file, delivered>>

(***************************************************************************)
(* Lines on the wire                                                       *)
(***************************************************************************)

\* A status line, the line with the dot, or a line of a message.  Err is any
\* line that is none of the others, also the rest of a line that was cut.
Ok == <<0, 1>>
Err == <<0, 2>>
Dot == <<0, 3>>
Line(m, i) == <<m, i>>

Tokens == {Ok, Err, Dot} \cup (Msgs \X (1..NumLines))

Body(m) == [i \in 1..NumLines |-> Line(m, i)]

\* The file holds every line of m; a stray status line may come with it.
Whole(m) == \A i \in 1..NumLines : \E j \in DOMAIN file : file[j] = Line(m, i)

TypeOK ==
    /\ box \subseteq Msgs
    /\ arrived \in 0..NumMsgs
    /\ accepted \in [Msgs -> 0..MaxAccepts]
    /\ kept \subseteq Msgs
    /\ excused \subseteq Msgs
    /\ faults \in 0..MaxFaults
    /\ up \in BOOLEAN
    /\ late \in 0..faults
    /\ marked \subseteq box
    /\ stream \in Seq(Tokens)
    /\ pc \in {"idle", "retr", "body", "post", "clean", "dele", "quit"}
    /\ todo \subseteq box
    /\ left \in 0..MaxMessages
    /\ last \in Msgs \cup {0}
    /\ file \in Seq(Tokens)
    /\ delivered \in BOOLEAN

Init ==
    /\ box = {}
    /\ arrived = 0
    /\ accepted = [m \in Msgs |-> 0]
    /\ kept = {}
    /\ excused = {}
    /\ faults = 0
    /\ up = FALSE
    /\ late = 0
    /\ marked = {}
    /\ stream = << >>
    /\ pc = "idle"
    /\ todo = {}
    /\ left = 0
    /\ last = 0
    /\ file = << >>
    /\ delivered = FALSE

Fault(kind) ==
    /\ kind \in Faults
    /\ faults < MaxFaults
    /\ faults' = faults + 1

\* A read times out, and the session goes on.
TimeOut ==
    /\ Fault("timeout")
    /\ late' = late + 1

\* After n such timeouts a session still takes every line for what it is: the
\* stream is one reply behind at most, and no line of it looks like a reply.
Prompt(n) == n = 0 \/ (n = 1 /\ Lookalikes = {})

\* The messages whose replies may be taken for something else.
Astray(n) == IF Prompt(n) THEN {} ELSE todo

(***************************************************************************)
(* The client                                                              *)
(***************************************************************************)

\* Mutant: any line will do as a status line.
AnyLine(l) == TRUE

isOK(l) == l = Ok \/ l \in Lookalikes

\* What the client finds in the stream after a command.
Replies(reply) == IF up THEN stream \o reply ELSE stream

\* Client.command: the first unread line of the stream counts as the reply.
Succeeds(reply) ==
    /\ Replies(reply) # << >>
    /\ isOK(Head(Replies(reply)))
    /\ stream' = Tail(Replies(reply))

Refuses(reply) ==
    /\ Replies(reply) # << >>
    /\ ~isOK(Head(Replies(reply)))
    /\ stream' = Tail(Replies(reply))

\* What a read that times out leaves: everything, or the rest of a line whose
\* beginning ReadString has taken.
Late(s) == {s} \cup (IF s = << >> THEN {} ELSE {<<Err>> \o Tail(s)})

\* The reply comes too late, or the connection is gone.
Silent(reply) ==
    \/ /\ up
       /\ Fault("timeout")
       /\ stream' \in Late(Replies(reply))
    \/ /\ ~up
       /\ UNCHANGED <<stream, faults>>

\* Dial, User, Pass, Stat: the list of the mailbox and the limit.
Open ==
    /\ pc = "idle"
    /\ \/ /\ up' = TRUE
          /\ todo' = box
          /\ left' = IF MaxMessages < Cardinality(box) THEN MaxMessages ELSE Cardinality(box)
          /\ pc' = "retr"
          /\ UNCHANGED faults
       \/ /\ Fault("open")
          /\ UNCHANGED <<up, todo, left, pc>>
    /\ UNCHANGED <<server, accepted, kept, excused, late, stream, last, file, delivered>>

NextMsg(m) == m \in todo /\ \A n \in todo : m <= n

\* Mutant: the limit is forgotten.
NoLimit == TRUE

\* max_pop3_messages
BelowLimit == left > 0

\* What the server answers to RETR.
Message(m) == <<Ok>> \o Body(m) \o <<Dot>>

\* RETR; an error ends the loop.
Retr ==
    /\ pc = "retr"
    /\ BelowLimit
    /\ \E m \in todo :
          /\ NextMsg(m)
          /\ todo' = todo \ {m}
          /\ last' = m
          /\ \/ Succeeds(Message(m)) /\ pc' = "body" /\ UNCHANGED faults
             \/ Refuses(Message(m)) /\ pc' = "quit" /\ UNCHANGED faults
             \/ Silent(Message(m)) /\ pc' = "quit"
             \/ up /\ Fault("err") /\ Succeeds(<<Err>>) /\ pc' = "body"
             \/ up /\ Fault("err") /\ Refuses(<<Err>>) /\ pc' = "quit"
    /\ left' = left - 1
    /\ file' = << >>
    /\ UNCHANGED <<server, accepted, kept, excused, up, late, delivered>>

\* The loop is over.
NoMore ==
    /\ pc = "retr"
    /\ left = 0 \/ todo = {}
    /\ pc' = "quit"
    /\ UNCHANGED <<server, accepted, kept, excused, faults, up, late, stream,
                   todo, left, last, file, delivered>>

\* One line of the body.  A timeout, and the end of the stream, count as the end
\* of the message; a file that cannot be created or written ends the loop.
ReadLine ==
    /\ pc = "body"
    /\ \/ /\ stream # << >>
          /\ stream' = Tail(stream)
          /\ IF Head(stream) = Dot
             THEN pc' = "post" /\ UNCHANGED file
             ELSE pc' = "body" /\ file' = Append(file, Head(stream))
          /\ UNCHANGED <<faults, late, excused>>
       \/ /\ stream = << >> /\ ~up
          /\ pc' = "post"
          /\ UNCHANGED <<stream, file, faults, late, excused>>
       \/ /\ up
          /\ IF stream = << >> THEN UNCHANGED <<faults, late>> ELSE TimeOut
          /\ stream' \in Late(stream)
          /\ excused' = excused \cup (IF Whole(last) THEN {} ELSE {last}) \cup Astray(late')
          /\ pc' = "post"
          /\ UNCHANGED file
       \/ /\ Fault("file")
          /\ pc' = "quit"
          /\ UNCHANGED <<stream, file, late, excused>>
    /\ UNCHANGED <<server, accepted, kept, up, todo, left, last, delivered>>

(***************************************************************************)
(* processOne, cleanup and the delete policy                               *)
(***************************************************************************)

\* The backend takes the message; what is not whole does not count.
Accept ==
    accepted' = IF Whole(last) /\ accepted[last] < MaxAccepts
                THEN [accepted EXCEPT ![last] = @ + 1]
                ELSE accepted

\* processOne, as in ImapMode: accepted; refused; accepted and the answer lost;
\* an error without a body, which reads as accepted.
Post ==
    /\ pc = "post"
    /\ IF DebugParse
       THEN /\ delivered' = TRUE
            /\ excused' = excused \cup {last}
            /\ UNCHANGED <<accepted, faults>>
       ELSE \/ /\ last \notin Poison
               /\ Accept
               /\ delivered' = TRUE
               /\ UNCHANGED <<faults, excused>>
            \/ /\ IF last \in Poison THEN UNCHANGED faults ELSE Fault("refuse")
               /\ delivered' = FALSE
               /\ UNCHANGED <<accepted, excused>>
            \/ /\ last \notin Poison
               /\ Fault("lost")
               /\ Accept
               /\ delivered' = FALSE
               /\ UNCHANGED excused
            \/ /\ Fault("hollow")
               /\ delivered' = TRUE
               /\ excused' = excused \cup {last}
               /\ UNCHANGED accepted
    /\ pc' = "clean"
    /\ UNCHANGED <<server, kept, up, late, stream, todo, left, last, file>>

\* Mutant: cleanup removes the saved file of a message that was not delivered.
NeverLeavesFile == FALSE

LeavesFile == Whole(last) /\ ~delivered /\ ~SuperClean

\* Mutant: nothing is ever marked.
NeverDeletes == FALSE

\* Mutant: the result of the delivery is inverted.
DeletesUndelivered == Delete /\ ~delivered

Deletes == Delete /\ (MaxDelete \/ delivered)

Clean ==
    /\ pc = "clean"
    /\ kept' = IF LeavesFile THEN kept \cup {last} ELSE kept
    /\ pc' = IF Deletes THEN "dele" ELSE "retr"
    /\ file' = << >>
    /\ UNCHANGED <<server, accepted, excused, faults, up, late, stream,
                   todo, left, last, delivered>>

\* DELE; an error is logged, and the server may have taken the command.
Dele ==
    /\ pc = "dele"
    /\ \/ /\ \/ Succeeds(<<Ok>>) /\ UNCHANGED <<faults, late>>
             \/ Refuses(<<Ok>>) /\ UNCHANGED <<faults, late>>
             \/ Silent(<<Ok>>) /\ late' = IF up THEN late + 1 ELSE late
          /\ marked' = IF up THEN marked \cup {last} ELSE marked
          /\ excused' = excused \cup Astray(late')
       \/ /\ up
          /\ Fault("err")
          /\ Succeeds(<<Err>>) \/ Refuses(<<Err>>)
          /\ UNCHANGED <<marked, late, excused>>
    /\ pc' = "retr"
    /\ UNCHANGED <<box, arrived, accepted, kept, up,
                   todo, left, last, file, delivered>>

\* The connection is gone, and the run forgets the session.
Forget ==
    /\ up' = FALSE
    /\ late' = 0
    /\ marked' = {}
    /\ stream' = << >>
    /\ pc' = "idle"
    /\ todo' = {}
    /\ left' = 0
    /\ last' = 0
    /\ file' = << >>
    /\ delivered' = FALSE

\* QUIT; the server removes what is marked.
Quit ==
    /\ pc = "quit"
    /\ box' = IF up THEN box \ marked ELSE box
    /\ Forget
    /\ UNCHANGED <<arrived, accepted, kept, excused, faults>>

(***************************************************************************)
(* Failures and the rest of the world                                      *)
(***************************************************************************)

\* The connection breaks; some of what was under way still arrives.
Drop ==
    /\ up
    /\ Fault("drop")
    /\ up' = FALSE
    /\ marked' = {}
    /\ \E n \in 0..Len(stream) : stream' = SubSeq(stream, 1, n)
    /\ UNCHANGED <<box, arrived, accepted, kept, excused, late,
                   pc, todo, left, last, file, delivered>>

\* The run dies.
Crash ==
    /\ pc # "idle"
    /\ Fault("crash")
    /\ kept' = IF pc \in {"post", "clean"} /\ Whole(last) THEN kept \cup {last} ELSE kept
    /\ Forget
    /\ UNCHANGED <<box, arrived, accepted, excused>>

\* A message arrives (external).
Arrive ==
    /\ arrived < NumMsgs
    /\ arrived' = arrived + 1
    /\ box' = box \cup {arrived + 1}
    /\ UNCHANGED <<marked, accepted, kept, excused, faults, up, late, stream,
                   pc, todo, left, last, file, delivered>>

Step == \/ Open \/ Retr \/ NoMore \/ ReadLine \/ Post \/ Clean \/ Dele \/ Quit

Next == Step \/ Drop \/ Crash \/ Arrive

Spec == Init /\ [][Next]_vars

\* cron starts the program again and again, and a started program runs on.
FairSpec == Spec /\ WF_vars(Step)

(***************************************************************************)
(* Properties                                                              *)
(***************************************************************************)

\* A message that has left the mailbox is in the backend or in a saved file,
\* whole, unless a timeout was taken for its end, the session had fallen too far
\* behind before it was fetched, or the delivery was feigned.  One reply that is
\* read too late does not make DELE hit a message that was not fetched, and a message cut short by a broken connection stays on the server.
NoLoss == \A m \in 1..arrived \ box :
              accepted[m] > 0 \/ m \in kept \/ m \in excused

\* What is posted for a message are lines of this message: a reply that is
\* read too late never makes one message's lines part of another's file.
OwnLines == pc = "post" => \A j \in DOMAIN file :
                               file[j] \in Msgs \X (1..NumLines) => file[j][1] = last

\* So it is as long as the session is one reply behind at most.
PromptLines == Prompt(late) => OwnLines

\* A message reaches the backend again only after a failure or a death.
DuplicatesAreFaults == Delete => \A m \in Msgs : accepted[m] <= 1 + faults

\* Every message is finally taken, saved or excused, when fewer are poison than
\* a run may fetch: QUIT makes room for the messages beyond the limit.
Handled == \A m \in Msgs \ Poison :
              m \in box ~> accepted[m] > 0 \/ m \in kept \/ m \in excused
=============================================================================
