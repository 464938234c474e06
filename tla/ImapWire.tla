------------------------------ MODULE ImapWire ------------------------------
(***************************************************************************)
(* One session of internal/imap on the wire, driven by runIMAPAccount of   *)
(* internal/app/imap.go: tags, untagged lines, literals, the continuation  *)
(* of XOAUTH2, STARTTLS, and reads that run into their deadline.           *)
(*                                                                         *)
(* The server is external.  It executes the commands it has received in    *)
(* order, each when it likes, and what it sends is read in order; a read   *)
(* that fails leaves the rest of the stream to the command after it.       *)
(***************************************************************************)
EXTENDS Integers, Sequences, FiniteSets

CONSTANTS
    NumMsgs,        \* bound: messages in the mailbox
    NumLines,       \* bound: lines of the text of a message
    Configs,        \* accounts: <starttls>, <auth>, <search>, <delete>
    Lookalikes,     \* lines of a text that read as a response
    Faults,         \* kinds of failure that may happen
    MaxFaults,      \* bound: failures in a behaviour
    MaxChatter      \* bound: lines the server sends unasked

Uids == 1..NumMsgs
FaultKinds == {"refuse", "drop", "disk", "tls"}

ASSUME BoundAssumption ==
    /\ {NumMsgs, NumLines} \subseteq Nat \ {0}
    /\ {MaxFaults, MaxChatter} \subseteq Nat

ASSUME ConfigAssumption ==
    /\ Configs \subseteq [starttls : BOOLEAN, mech : {"login", "xoauth2"},
                          all : BOOLEAN, delete : BOOLEAN]
    /\ Lookalikes \subseteq 1..NumLines
    /\ Faults \subseteq FaultKinds

VARIABLES
    conf,       \* the account; never changes
    conn,       \* whether the connection is up
    srv,        \* state of the session on the server
    inbox,      \* lines the server has still to read
    stream,     \* what the server has sent and the client has still to read
    present,    \* UIDs in the mailbox
    flagged,    \* UIDs this session had flagged \Deleted
    removed,    \* history: UIDs the EXPUNGE of this session removed
    pc,         \* what the client is about: mostly the command
    at,         \* where it is in that command
    tag,        \* Client.tag
    log,        \* history: the commands of the session, see ImapCommands
    left,       \* lines of a literal still to copy
    todo,       \* UIDs still to fetch
    last,       \* Client.last
    file,       \* the temp file of the message in hand
    deleted,    \* whether a UID STORE succeeded
    handed,     \* history: UIDs whose whole text was in a file handed on
    astray,     \* history: client and server may disagree on what a line is
    chatter,    \* lines sent unasked so far
    faults      \* failures so far

server == <<srv, present, flagged, removed>>
client == <<pc, at, tag, left, todo, last, file, deleted, handed>>
vars == <<conf, conn, inbox, stream, server, client, log, astray, chatter, faults>>

(***************************************************************************)
(* Lines                                                                   *)
(***************************************************************************)

Plain == [is |-> "plain"]               \* an untagged line
Greeting == [is |-> "greeting"]         \* * OK
Plus == [is |-> "plus"]                 \* + challenge
Found(S) == [is |-> "found", uids |-> S]                    \* * SEARCH
Completion(t, ok) == [is |-> "done", tag |-> t, ok |-> ok]  \* tag OK, tag NO
Marker(n) == [is |-> "marker", size |-> n]      \* a line that ends in {n}
Text(u, i) == [is |-> "text", uid |-> u, line |-> i]

Body(u) == [i \in 1..NumLines |-> Text(u, i)]

\* Lines a marker in a text may swallow, and all of any literal.
MaxSwallow == 2
Sizes == 1..(IF NumLines > MaxSwallow THEN NumLines ELSE MaxSwallow)

Lines ==
    {Plain, Greeting, Plus}
    \cup {Found(S) : S \in SUBSET Uids}
    \cup [is : {"done"}, tag : Nat, ok : BOOLEAN]
    \cup {Marker(n) : n \in Sizes}
    \cup {Text(u, i) : u \in Uids, i \in 1..NumLines}

\* What the client takes a line for: the text of a message may look like the
\* completion it waits for, or like the head of a literal.
Meanings(line) ==
    IF line.is = "text" /\ line.line \in Lookalikes
    THEN {Plain, Completion(tag, TRUE), Completion(tag, FALSE)}
         \cup {Marker(n) : n \in 1..MaxSwallow}
    ELSE {line}

Commands == {"starttls", "auth", "select", "search", "searchall",
             "fetch", "store", "expunge", "logout"}

\* "" is the empty line that answers a challenge.
Requests == [name : Commands \cup {""}, tag : Nat, no : Nat, uid : Uids \cup {0}]

Record == [name : Commands, outcome : {"open", "ok", "no"},
           verdict : {"open", "ok", "failed"}]

TypeOK ==
    /\ conf \in Configs
    /\ conn \in {"up", "down"}
    /\ srv \in {"fresh", "challenge", "authed", "selected", "bye"}
    /\ inbox \in Seq(Requests)
    /\ stream \in Seq(Lines)
    /\ {present, flagged, removed, todo, handed} \subseteq SUBSET Uids
    /\ pc \in Commands \cup {"greet", "handshake", "loop", "post", "done"}
    /\ at \in {"send", "create", "read", "literal"}
    /\ tag \in Nat
    /\ log \in Seq(Record)
    /\ left \in 0..NumLines + MaxSwallow
    /\ last \in Uids \cup {0}
    /\ file \in Seq(Lines)
    /\ {deleted, astray} \subseteq BOOLEAN
    /\ chatter \in 0..MaxChatter
    /\ faults \in 0..MaxFaults

\* Dial has connected and waits for the greeting.
Init ==
    /\ conf \in Configs
    /\ conn = "up"
    /\ srv = "fresh"
    /\ inbox = <<>>
    /\ stream \in {<<Greeting>>, <<Plain>>}
    /\ present = Uids
    /\ flagged = {} /\ removed = {} /\ todo = {} /\ handed = {}
    /\ pc = "greet" /\ at = "read"
    /\ tag = 0 /\ left = 0 /\ last = 0
    /\ log = <<>> /\ file = <<>>
    /\ deleted = FALSE /\ astray = FALSE
    /\ chatter = 0 /\ faults = 0

Fault(kind) ==
    /\ kind \in Faults
    /\ faults < MaxFaults
    /\ faults' = faults + 1

(***************************************************************************)
(* The client: Client.cmd, FetchUID, AuthenticateXOAUTH2, StartTLS, and    *)
(* the order runIMAPAccount calls them in                                  *)
(***************************************************************************)

\* Mutant: every command has the same tag.
SameTag == 1
nextTag == tag + 1

\* send: a broken connection may take the line without a complaint; the read
\* after it fails in any case.
send(name, t, no) ==
    inbox' = IF conn = "up"
             THEN Append(inbox, [name |-> name, tag |-> t, no |-> no, uid |-> last])
             ELSE inbox

EndOfLoop == IF deleted THEN "expunge" ELSE "logout"

\* Mutant: the loop goes on after a FETCH that failed.
LoopGoesOn(ok) == IF ok THEN "post" ELSE "loop"

\* A FETCH that fails ends the loop.
AfterFetch(ok) == IF ok THEN "post" ELSE EndOfLoop

\* What runIMAPAccount does after a command.
After(ok) ==
    CASE pc = "starttls"   -> IF ok THEN "handshake" ELSE "logout"
      [] pc = "auth"       -> IF ok THEN "select" ELSE "logout"
      [] pc = "select"     -> IF ok THEN "search" ELSE "logout"
      [] pc = "search"     -> IF ~ok THEN "logout"
                              ELSE IF conf.all THEN "loop" ELSE "searchall"
      [] pc = "searchall"  -> "loop"
      [] pc = "fetch"      -> AfterFetch(ok)
      [] pc = "store"      -> "loop"
      [] pc = "expunge"    -> "logout"
      [] pc = "logout"     -> "done"

\* The command is over for the client.
Settle(ok) ==
    /\ log' = [log EXCEPT ![Len(log)].verdict = IF ok THEN "ok" ELSE "failed"]
    /\ pc' = After(ok)
    /\ at' = "send"
    /\ deleted' = (deleted \/ (pc = "store" /\ ok))
    /\ left' = 0

Issue ==
    /\ pc \in Commands
    /\ at = "send"
    /\ tag' = nextTag
    /\ log' = Append(log, [name |-> pc, outcome |-> "open", verdict |-> "open"])
    /\ send(pc, nextTag, Len(log) + 1)
    /\ at' = IF pc = "fetch" THEN "create" ELSE "read"
    /\ UNCHANGED <<conf, conn, stream, server, pc, left, todo, last, file,
                   deleted, handed, astray, chatter, faults>>

\* FetchUID creates the temp file after it has sent the command.
CreateTemp ==
    /\ at = "create"
    /\ file' = <<>>
    /\ \/ at' = "read" /\ UNCHANGED <<log, pc, deleted, left, faults>>
       \/ Fault("disk") /\ Settle(FALSE)
    /\ UNCHANGED <<conf, conn, inbox, stream, server, tag, todo, last,
                   handed, astray, chatter>>

\* Mutant: a challenge is passed over like any untagged line.
IgnoreChallenge == UNCHANGED inbox

\* AuthenticateXOAUTH2 answers an error challenge with an empty line.
AnswerChallenge == send("", tag, Len(log))

\* How much a marker announces.
parseLiteral(line) == line.size

\* A complete line, taken for what it looks like.
Take(line) ==
    \/ /\ line.is = "marker"
       /\ left' = parseLiteral(line)
       /\ at' = "literal"
       /\ UNCHANGED <<inbox, log, pc, todo, deleted>>
    \/ /\ line.is = "done" /\ line.tag = tag
       /\ Settle(line.ok)
       /\ UNCHANGED <<inbox, todo>>
    \/ /\ line.is = "plus" /\ pc = "auth" /\ conf.mech = "xoauth2"
       /\ AnswerChallenge
       /\ UNCHANGED <<log, pc, at, left, todo, deleted>>
    \/ /\ line.is = "found" /\ pc = "search"
       /\ todo' = todo \cup line.uids
       /\ UNCHANGED <<inbox, log, pc, at, left, deleted>>
    \/ /\ \/ line.is \in {"plain", "greeting", "text"}
          \/ line.is = "done" /\ line.tag # tag
          \/ line.is = "plus" /\ ~(pc = "auth" /\ conf.mech = "xoauth2")
          \/ line.is = "found" /\ pc # "search"
       /\ UNCHANGED <<inbox, log, pc, at, left, todo, deleted>>

\* cmd and its siblings read a line.
ReadLine ==
    /\ pc \in Commands
    /\ at = "read"
    /\ stream # <<>>
    /\ \E line \in Meanings(Head(stream)) : Take(line)
    /\ stream' = Tail(stream)
    /\ UNCHANGED <<conf, conn, server, tag, last, file, handed, astray,
                   chatter, faults>>

\* consumeLiteral copies what is announced, into the file or to nowhere.
CopyLiteral ==
    /\ at = "literal"
    /\ stream # <<>>
    /\ \/ /\ stream' = Tail(stream)
          /\ file' = IF pc = "fetch" THEN Append(file, Head(stream)) ELSE file
          /\ left' = left - 1
          /\ at' = IF left = 1 THEN "read" ELSE "literal"
          /\ UNCHANGED <<log, pc, deleted, astray, faults>>
       \/ /\ pc = "fetch"
          /\ Fault("disk")
          /\ Settle(FALSE)
          /\ astray' = TRUE
          /\ UNCHANGED <<stream, file>>
    /\ UNCHANGED <<conf, conn, inbox, server, tag, todo, last, handed, chatter>>

\* Mutant: a literal may be read without a deadline.
DeadlineInLine == at = "read"
HasDeadline == at \in {"read", "literal"}

\* What a read that fails in the middle of the line leaves of it.
Rest(line) == IF line.is = "marker" THEN Plain ELSE line

\* Mutant: the message ends where its literal can be read no further.
LiteralEnds == at = "literal"

\* What a command returns when a read fails.
ResultOfFailedRead == FALSE

\* A read runs into its deadline, before anything came or in the middle, or
\* the connection is broken and empty.
ReadFails ==
    /\ HasDeadline
    /\ \/ UNCHANGED stream /\ astray' = (astray \/ at = "literal")
       \/ /\ at = "read" /\ stream # <<>> /\ Head(stream).is = "marker"
          /\ stream' = <<Rest(Head(stream))>> \o Tail(stream)
          /\ astray' = TRUE
    /\ IF pc = "greet"
       THEN /\ pc' = "done" /\ at' = "send"
            /\ UNCHANGED <<log, deleted, left>>
       ELSE Settle(ResultOfFailedRead)
    /\ UNCHANGED <<conf, conn, inbox, server, tag, todo, last, file, handed,
                   chatter, faults>>

\* Dial: anything but * OK closes the connection.
Greet ==
    /\ pc = "greet"
    /\ stream # <<>>
    /\ stream' = Tail(stream)
    /\ at' = "send"
    /\ pc' = CASE Head(stream) # Greeting -> "done"
             [] Head(stream) = Greeting /\ conf.starttls -> "starttls"
             [] OTHER -> "auth"
    /\ UNCHANGED <<conf, conn, inbox, server, tag, log, left, todo, last, file,
                   deleted, handed, astray, chatter, faults>>

\* StartTLS refuses to go on if there is anything behind the reply.
Handshake ==
    /\ pc = "handshake"
    /\ \/ stream = <<>> /\ conn = "up" /\ pc' = "auth" /\ UNCHANGED faults
       \/ (stream # <<>> \/ conn = "down") /\ pc' = "logout" /\ UNCHANGED faults
       \/ Fault("tls") /\ pc' = "logout"
    /\ UNCHANGED <<conf, conn, inbox, stream, server, at, tag, log, left, todo,
                   last, file, deleted, handed, astray, chatter>>

\* The loop over the messages, and FetchUID's first statement.
Pick ==
    /\ pc = "loop"
    /\ \E u \in todo :
          /\ todo' = todo \ {u}
          /\ last' = u
    /\ pc' = "fetch"
    /\ UNCHANGED <<conf, conn, inbox, stream, server, at, tag, log, left, file,
                   deleted, handed, astray, chatter, faults>>

Finish ==
    /\ pc = "loop"
    /\ todo = {}
    /\ pc' = EndOfLoop
    /\ UNCHANGED <<conf, conn, inbox, stream, server, at, tag, log, left, todo,
                   last, file, deleted, handed, astray, chatter, faults>>

\* processOne has the file; Delete follows if the account and the result of the
\* delivery say so.
Post ==
    /\ pc = "post"
    /\ handed' = IF file = Body(last) THEN handed \cup {last} ELSE handed
    /\ \/ conf.delete /\ pc' = "store"
       \/ pc' = "loop"
    /\ UNCHANGED <<conf, conn, inbox, stream, server, at, tag, log, left, todo,
                   last, file, deleted, astray, chatter, faults>>

Session ==
    \/ Greet \/ Issue \/ CreateTemp \/ ReadLine \/ CopyLiteral \/ ReadFails
    \/ Handshake \/ Pick \/ Finish \/ Post

(***************************************************************************)
(* The server and the mailbox (external)                                   *)
(***************************************************************************)

Sends(lines) == stream' = IF conn = "up" THEN stream \o lines ELSE stream

Executed(c, ok) == log' = [log EXCEPT ![c.no].outcome = IF ok THEN "ok" ELSE "no"]

\* The state of the session in which the server takes a command.
Allows(c) ==
    \/ c.name \in {"starttls", "auth"} /\ srv = "fresh"
    \/ c.name = "select" /\ srv = "authed"
    \/ c.name \in {"search", "searchall", "fetch", "store", "expunge"}
       /\ srv = "selected"
    \/ c.name = "logout" /\ srv # "challenge"

\* The lines in front of the completion.
Data(c) ==
    CASE c.name \in {"select", "store", "expunge", "logout"} -> <<Plain>>
      [] c.name \in {"search", "searchall"} -> <<Found(present)>>
      [] c.name = "fetch" /\ c.uid \in present
           -> <<Marker(NumLines)>> \o Body(c.uid) \o <<Plain>>
      [] OTHER -> <<>>

Serve ==
    /\ inbox # <<>>
    /\ LET c == Head(inbox) IN
       /\ Allows(c)
       /\ srv' = CASE c.name = "auth" -> "authed"
                   [] c.name = "select" -> "selected"
                   [] c.name = "logout" -> "bye"
                   [] OTHER -> srv
       /\ flagged' = CASE c.name = "store" -> flagged \cup ({c.uid} \cap present)
                       [] c.name = "expunge" -> {}
                       [] OTHER -> flagged
       /\ present' = IF c.name = "expunge" THEN present \ flagged ELSE present
       /\ removed' = IF c.name = "expunge" THEN removed \cup flagged ELSE removed
       /\ Sends(Data(c) \o <<Completion(c.tag, TRUE)>>)
       /\ Executed(c, TRUE)
    /\ inbox' = Tail(inbox)
    /\ UNCHANGED <<conf, conn, client, astray, chatter, faults>>

\* NO: for lack of permission, a bad password, a quota.
Refuse ==
    /\ inbox # <<>>
    /\ LET c == Head(inbox) IN
       /\ srv # "challenge"
       /\ IF Allows(c) THEN Fault("refuse") ELSE UNCHANGED faults
       /\ c.name # "logout"
       /\ Sends(<<Completion(c.tag, FALSE)>>)
       /\ Executed(c, FALSE)
    /\ inbox' = Tail(inbox)
    /\ UNCHANGED <<conf, conn, server, client, astray, chatter>>

\* A bad token: the server sends the error as a challenge and waits for a line.
Challenge ==
    /\ inbox # <<>>
    /\ Head(inbox).name = "auth" /\ conf.mech = "xoauth2" /\ srv = "fresh"
    /\ Fault("refuse")
    /\ srv' = "challenge"
    /\ Sends(<<Plus>>)
    /\ UNCHANGED <<conf, conn, inbox, present, flagged, removed, client, log,
                   astray, chatter>>

\* The next line answers the challenge, whatever it is.
EndChallenge ==
    /\ srv = "challenge"
    /\ Len(inbox) > 1
    /\ srv' = "fresh"
    /\ inbox' = SubSeq(inbox, 3, Len(inbox))
    /\ Sends(<<Completion(inbox[1].tag, FALSE)>>)
    /\ Executed(inbox[1], FALSE)
    /\ astray' = (astray \/ inbox[2].name # "")
    /\ UNCHANGED <<conf, conn, present, flagged, removed, client, chatter, faults>>

Chatter ==
    /\ conn = "up" /\ pc # "done"
    /\ chatter < MaxChatter
    /\ chatter' = chatter + 1
    /\ Sends(<<Plain>>)
    /\ UNCHANGED <<conf, conn, inbox, server, client, log, astray, faults>>

\* The connection breaks: what is under way is lost from some point on.
Drop ==
    /\ conn = "up"
    /\ Fault("drop")
    /\ conn' = "down"
    /\ \E k \in 0..Len(stream) : stream' = SubSeq(stream, 1, k)
    /\ \E k \in 0..Len(inbox) : inbox' = SubSeq(inbox, 1, k)
    /\ UNCHANGED <<conf, server, client, log, astray, chatter>>

\* Another client destroys a message.
Vanish ==
    /\ \E u \in present :
          /\ present' = present \ {u}
          /\ flagged' = flagged \ {u}
    /\ UNCHANGED <<conf, conn, srv, inbox, stream, removed, client, log, astray,
                   chatter, faults>>

World ==
    \/ Serve \/ Refuse \/ Challenge \/ EndChallenge
    \/ Chatter \/ Drop \/ Vanish

Next == Session \/ World

Spec == Init /\ [][Next]_vars

\* The client has work to do or a read with a deadline; nothing is asked of the
\* server.
FairSpec == Spec /\ WF_vars(Session)

(***************************************************************************)
(* Properties                                                              *)
(***************************************************************************)

\* FETCH reports success only if the file is the text of that message, every
\* line of it and nothing else, whatever timed out or came late before it; it
\* is empty only for a message another client has removed.
Whole ==
    pc = "post" => \/ file = Body(last)
                   \/ file = <<>> /\ last \notin present

\* The session deletes no message whose whole text it has not handed on, even
\* if it reads text as responses after a literal it gave up.
StoreAfterWhole == flagged \cup removed \subseteq handed

\* The client never waits for a line nobody will send: the completion it wants
\* is under way or still to be made, and a challenge finds it answering.
Owed ==
    \/ \E i \in DOMAIN stream : \/ stream[i].is = "plus"
                                \/ stream[i].is = "done" /\ stream[i].tag = tag
    \/ \E i \in DOMAIN inbox : inbox[i].tag = tag /\ (srv = "challenge" => Len(inbox) > 1)

NoStandoff ==
    conn = "up" /\ ~astray /\ pc \in Commands =>
        /\ at = "read" => Owed
        /\ at = "literal" => Len(stream) > left /\ Owed

\* However slow the server is and whatever it leaves unanswered, a session ends.
Ends == <>(pc = "done")

\* The tags and the order of reads keep what ImapCommands promises, except
\* that nothing depends on the results of EXPUNGE and LOGOUT.
C == INSTANCE ImapCommands WITH Names <- Commands, Courtesy <- {"expunge", "logout"}
CommandsKept == C!Spec
=============================================================================
