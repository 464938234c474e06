--------------------------- MODULE ImapWireProofs ---------------------------
(***************************************************************************)
(* What is proved about a session of the IMAP client on the wire, for any  *)
(* number of messages, lines, failures and unasked lines.                  *)
(***************************************************************************)
EXTENDS ImapWire, SequenceTheorems, TLAPS

(***************************************************************************)
(* The inductive invariant                                                 *)
(***************************************************************************)

\* After a FETCH that failed the session only closes.
Closing == {"expunge", "logout", "done"}

\* A command is under way.
Waiting == pc \in Commands /\ at # "send"

PlaceOK ==
    /\ pc \notin Commands \cup {"greet"} => at = "send"
    /\ pc = "greet" => at = "read"
    /\ at = "create" => pc = "fetch"
    /\ at = "literal" <=> left > 0

\* The command under way is the last one, and the only one without a verdict.
LogOK ==
    /\ tag = Len(log)
    /\ \A i \in DOMAIN log : log[i].verdict = "open" <=> (Waiting /\ i = tag)
    /\ Waiting => tag > 0 /\ log[tag].name = pc

\* A session logs in once.
AuthOnce ==
    /\ \A i, j \in DOMAIN log : log[i].name = "auth" /\ log[j].name = "auth" => i = j
    /\ pc \in {"greet", "starttls", "handshake"} \/ (pc = "auth" /\ at = "send") =>
          \A i \in DOMAIN log : log[i].name # "auth"

\* A request on its way to the server: of a command not executed yet, as are those
\* behind it; one whose reply has effects on the client is awaited, or the
\* session closes.
RequestOK(c) ==
    /\ c.tag = c.no
    /\ c.no \in 1..tag
    /\ \A j \in 1..tag : c.no <= j => log[j].outcome = "open"
    /\ c.name # "" => c.name = log[c.no].name
    /\ c.name \in {"auth", "fetch"} => pc \in Closing \/ (Waiting /\ c.no = tag)
    /\ c.name = "fetch" => c.uid = last
    /\ c.name = "store" => c.uid \in handed \/ c.uid \notin present

InboxOK ==
    /\ \A i \in DOMAIN inbox : RequestOK(inbox[i])
    /\ \A i, j \in DOMAIN inbox : i < j =>
          \/ inbox[i].no < inbox[j].no
          \/ inbox[j].name = "" /\ inbox[i].no = inbox[j].no
    /\ \A i \in DOMAIN inbox : inbox[i].name = "" =>
          i = 2 /\ srv = "challenge" /\ inbox[1].no = inbox[2].no
    /\ \A i, j \in DOMAIN inbox :
          inbox[i].name = "fetch" /\ inbox[j].name = "fetch" => i = j

\* While the server waits for the answer to a challenge, the command is the first
\* request, and either the challenge is still to be read or a line follows.
ChallengeOK ==
    /\ srv = "challenge" =>
          /\ inbox # <<>> => inbox[1].name = "auth"
          /\ inbox = <<>> => conn = "down"
          /\ conn = "up" /\ Len(inbox) = 1 /\ pc \notin Closing =>
                \E i \in DOMAIN stream : stream[i].is = "plus"
    /\ \A i, j \in DOMAIN stream : stream[i].is = "plus" /\ stream[j].is = "plus" => i = j
    /\ \A i \in DOMAIN stream : stream[i].is = "plus" =>
          /\ conf.mech = "xoauth2"
          /\ pc \notin {"greet", "starttls", "handshake"}
          /\ ~(pc = "auth" /\ at = "send")
          /\ \A j \in DOMAIN inbox : inbox[j].name = "auth" => srv = "challenge"
          /\ pc = "auth" /\ conn = "up" => srv = "challenge" /\ Len(inbox) = 1

\* A completion on its way tells what became of its command.
DoneOK ==
    \A i \in DOMAIN stream : stream[i].is = "done" =>
        /\ stream[i].tag \in 1..tag
        /\ log[stream[i].tag].outcome = IF stream[i].ok THEN "ok" ELSE "no"

FetchPending == \E i \in DOMAIN inbox : inbox[i].name = "fetch"
MarkerSent == \E i \in DOMAIN stream : stream[i].is = "marker"

\* Client and server agree on which lines are the text of a message: it follows
\* the head of its literal, of which there is one at most.
Sync ==
    /\ left \in 0..NumLines
    /\ \A i \in DOMAIN stream : i <= left => stream[i] = Text(last, NumLines - left + i)
    /\ \A i \in DOMAIN stream : stream[i].is = "text" => i <= left \/
          \E m \in DOMAIN stream : stream[m].is = "marker" /\ m < i /\ i <= m + NumLines
    /\ \A m \in DOMAIN stream : stream[m].is = "marker" =>
          /\ stream[m] = Marker(NumLines)
          /\ left = 0
          /\ \A k \in 1..NumLines : m + k \in DOMAIN stream => stream[m + k] = Text(last, k)
          /\ conn = "up" => m + NumLines < Len(stream)
          /\ pc \in Closing \/ (pc = "fetch" /\ at # "send")
    /\ \A i, j \in DOMAIN stream : stream[i].is = "marker" /\ stream[j].is = "marker" => i = j
    /\ at = "literal" => pc \in Closing \cup {"fetch"}
    /\ conn = "up" /\ at = "literal" => left < Len(stream)
    /\ FetchPending => ~MarkerSent /\ left = 0

SyncOK == (astray => pc \in Closing) /\ (~astray => Sync)

\* The file grows line by line, from the head of the literal to its end.
FetchOK ==
    pc = "fetch" /\ at # "send" =>
        /\ at = "literal" => /\ Len(file) = NumLines - left
                             /\ \A i \in DOMAIN file : file[i] = Text(last, i)
        /\ at = "read" => file = <<>> \/ (file = Body(last) /\ ~MarkerSent /\ ~FetchPending)
        /\ \A i \in DOMAIN stream : stream[i] = Completion(tag, TRUE) =>
              \/ \E m \in DOMAIN stream : stream[m].is = "marker" /\ m < i
              \/ at = "literal"
              \/ at = "read" /\ file = Body(last)
              \/ last \notin present
        /\ \A i \in DOMAIN stream : stream[i].is = "done" /\ stream[i].tag = tag =>
              ~FetchPending /\ \A m \in DOMAIN stream : stream[m].is = "marker" => m < i

StoreOK == pc = "store" => last \in handed \/ last \notin present

\* The reply to the command under way is coming, or will be made.
Coming ==
    \/ \E i \in DOMAIN stream : stream[i].is = "done" /\ stream[i].tag = tag
    \/ \E i \in DOMAIN inbox : inbox[i].tag = tag

ReplyOK == conn = "up" /\ ~astray /\ Waiting => Coming

IInv ==
    /\ TypeOK /\ PlaceOK /\ LogOK /\ AuthOnce /\ InboxOK /\ ChallengeOK /\ DoneOK
    /\ SyncOK /\ FetchOK /\ Whole /\ StoreOK /\ StoreAfterWhole /\ ReplyOK

(***************************************************************************)
(* Lines, and what actions do to the sequences                             *)
(***************************************************************************)

LEMMA LineKinds ==
    ASSUME NEW line \in Lines
    PROVE  /\ line.is \in {"plain", "greeting", "plus", "found", "done", "marker", "text"}
           /\ line.is = "plus" => line = Plus
           /\ line.is = "found" => line.uids \in SUBSET Uids
           /\ line.is = "done" => /\ line.tag \in Nat /\ line.ok \in BOOLEAN
                                  /\ line = Completion(line.tag, line.ok)
           /\ line.is = "marker" => line.size \in Sizes /\ line = Marker(line.size)
           /\ line.is = "text" => /\ line.uid \in Uids /\ line.line \in 1..NumLines
                                  /\ line = Text(line.uid, line.line)
BY DEF Lines, Plain, Greeting, Plus, Found, Completion, Marker, Text

LEMMA SizesRange == Sizes \subseteq 1..NumLines + MaxSwallow
BY BoundAssumption DEF Sizes, MaxSwallow

LEMMA LineTypes ==
    /\ {Plain, Greeting, Plus} \subseteq Lines
    /\ \A S \in SUBSET Uids : Found(S) \in Lines
    /\ \A t \in Nat, ok \in BOOLEAN : Completion(t, ok) \in Lines
    /\ \A n \in Sizes : Marker(n) \in Lines
    /\ \A u \in Uids, i \in 1..NumLines : Text(u, i) \in Lines
    /\ NumLines \in Sizes
<1>1. NumLines \in Sizes
  BY BoundAssumption DEF Sizes, MaxSwallow
<1>2. \A t \in Nat, ok \in BOOLEAN : Completion(t, ok) \in Lines
  BY DEF Lines, Completion
<1> QED
  BY <1>1, <1>2 DEF Lines

LEMMA BodyType ==
    ASSUME NEW u \in Uids
    PROVE  Body(u) \in Seq(Lines) /\ Len(Body(u)) = NumLines
           /\ \A i \in 1..NumLines : Body(u)[i] = Text(u, i)
<1>1. \A i \in 1..NumLines : Text(u, i) \in Lines
  BY LineTypes
<1>2. NumLines \in Nat
  BY BoundAssumption
<1> QED
  BY <1>1, <1>2 DEF Body

LEMMA DataType ==
    ASSUME NEW c \in Requests, present \in SUBSET Uids
    PROVE  Data(c) \in Seq(Lines)
<1>1. <<Plain>> \in Seq(Lines) /\ <<Found(present)>> \in Seq(Lines)
      /\ <<Marker(NumLines)>> \in Seq(Lines) /\ << >> \in Seq(Lines)
  BY LineTypes
<1>2. CASE c.name = "fetch" /\ c.uid \in present
  <2>1. Body(c.uid) \in Seq(Lines)
    BY <1>2, BodyType
  <2>2. <<Marker(NumLines)>> \o Body(c.uid) \o <<Plain>> \in Seq(Lines)
    BY <1>1, <2>1, ConcatProperties
  <2> QED
    BY <1>2, <2>2 DEF Data
<1>3. CASE ~(c.name = "fetch" /\ c.uid \in present)
  BY <1>1, <1>3 DEF Data
<1> QED
  BY <1>2, <1>3

LEMMA AppendFacts ==
    ASSUME NEW S, NEW s \in Seq(S), NEW e \in S, NEW r, r = Append(s, e)
    PROVE  /\ r \in Seq(S)
           /\ Len(s) \in Nat /\ DOMAIN s = 1..Len(s)
           /\ Len(r) = Len(s) + 1 /\ DOMAIN r = 1..Len(s) + 1
           /\ \A i \in DOMAIN s : i \in DOMAIN r /\ r[i] = s[i]
           /\ r[Len(s) + 1] = e
<1>1. Len(s) \in Nat /\ DOMAIN s = 1..Len(s)
  BY LenProperties
<1>2. r \in Seq(S) /\ Len(r) = Len(s) + 1 /\ r[Len(s) + 1] = e
  BY AppendProperties
<1>3. DOMAIN r = 1..Len(s) + 1
  BY <1>2, LenProperties
<1>4. \A i \in 1..Len(s) : r[i] = s[i]
  BY AppendProperties
<1> QED
  BY <1>1, <1>2, <1>3, <1>4

LEMMA OneRequest == Len(inbox) = 1 => inbox # << >>
OBVIOUS

LEMMA TailStream ==
    ASSUME stream \in Seq(Lines), stream # << >>, stream' = Tail(stream)
    PROVE  /\ stream' \in Seq(Lines)
           /\ Len(stream) \in Nat /\ Len(stream) > 0
           /\ DOMAIN stream = 1..Len(stream)
           /\ Head(stream) = stream[1] /\ stream[1] \in Lines /\ 1 \in DOMAIN stream
           /\ Len(stream') = Len(stream) - 1
           /\ DOMAIN stream' = 1..Len(stream) - 1
           /\ \A i \in DOMAIN stream' : i + 1 \in DOMAIN stream /\ stream'[i] = stream[i + 1]
<1>1. stream' \in Seq(Lines) /\ Len(stream') = Len(stream) - 1
      /\ \A i \in 1..Len(stream') : stream'[i] = stream[i + 1]
  BY HeadTailProperties
<1>2. Len(stream) \in Nat \ {0} /\ DOMAIN stream = 1..Len(stream)
  BY LenProperties, EmptySeq
<1>3. DOMAIN stream' = 1..Len(stream')
  BY <1>1, LenProperties
<1>4. Head(stream) = stream[1] /\ stream[1] \in Lines
  BY <1>2, ElementOfSeq
<1> QED
  BY <1>1, <1>2, <1>3, <1>4

LEMMA SendsStream ==
    ASSUME stream \in Seq(Lines), NEW lines \in Seq(Lines), Sends(lines)
    PROVE  /\ stream' \in Seq(Lines)
           /\ Len(stream) \in Nat /\ Len(lines) \in Nat
           /\ DOMAIN stream = 1..Len(stream) /\ DOMAIN stream' = 1..Len(stream')
           /\ \A i \in DOMAIN stream : i \in DOMAIN stream' /\ stream'[i] = stream[i]
           /\ conn # "up" => stream' = stream
           /\ conn = "up" =>
                 /\ Len(stream') = Len(stream) + Len(lines)
                 /\ \A i \in Len(stream) + 1..Len(stream') :
                       stream'[i] = lines[i - Len(stream)] /\ i - Len(stream) \in 1..Len(lines)
<1>1. /\ Len(stream) \in Nat /\ Len(lines) \in Nat
      /\ DOMAIN stream = 1..Len(stream)
  BY LenProperties
<1>2. CASE conn = "up"
  <2>1. stream' = stream \o lines
    BY <1>2 DEF Sends
  <2>2. /\ stream' \in Seq(Lines)
        /\ Len(stream') = Len(stream) + Len(lines)
        /\ \A i \in 1..Len(stream) + Len(lines) :
              stream'[i] = IF i <= Len(stream) THEN stream[i] ELSE lines[i - Len(stream)]
    BY <2>1, ConcatProperties
  <2>3. DOMAIN stream' = 1..Len(stream')
    BY <2>2, LenProperties
  <2> QED
    BY <1>1, <1>2, <2>2, <2>3
<1>3. CASE conn # "up"
  BY <1>1, <1>3 DEF Sends
<1> QED
  BY <1>2, <1>3

LEMMA SettleLog ==
    ASSUME TypeOK, tag = Len(log), tag > 0, NEW ok \in BOOLEAN, Settle(ok)
    PROVE  /\ log' \in Seq(Record) /\ Len(log') = Len(log)
           /\ DOMAIN log = 1..tag /\ DOMAIN log' = 1..tag
           /\ \A i \in 1..tag : /\ log'[i].name = log[i].name
                                /\ log'[i].outcome = log[i].outcome
                                /\ i # tag => log'[i].verdict = log[i].verdict
           /\ log'[tag].verdict # "open"
<1> DEFINE v == IF ok THEN "ok" ELSE "failed"
           r == [log[tag] EXCEPT !.verdict = v]
<1>1. log \in Seq(Record) /\ DOMAIN log = 1..tag /\ tag \in 1..Len(log)
  BY LenProperties DEF TypeOK
<1>2. log[tag] \in Record
  BY <1>1, ElementOfSeq
<1>3. r \in Record /\ r.name = log[tag].name /\ r.outcome = log[tag].outcome
      /\ r.verdict = v
  BY <1>2 DEF Record
<1>4. log' = [log EXCEPT ![tag] = r]
  BY DEF Settle
<1> HIDE DEF r
<1>5. /\ log' \in Seq(Record) /\ Len(log') = Len(log)
      /\ \A i \in 1..Len(log) : log'[i] = IF i = tag THEN r ELSE log[i]
  BY <1>1, <1>3, <1>4, ExceptSeq
<1>6. DOMAIN log' = 1..tag
  BY <1>5, LenProperties
<1> QED
  BY <1>1, <1>3, <1>5, <1>6

LEMMA ExecutedLog ==
    ASSUME log \in Seq(Record), NEW c, c.no \in 1..Len(log), NEW ok \in BOOLEAN,
           Executed(c, ok)
    PROVE  /\ log' \in Seq(Record) /\ Len(log') = Len(log)
           /\ DOMAIN log = 1..Len(log) /\ DOMAIN log' = 1..Len(log)
           /\ \A i \in 1..Len(log) : /\ log'[i].name = log[i].name
                                     /\ log'[i].verdict = log[i].verdict
                                     /\ i # c.no => log'[i].outcome = log[i].outcome
           /\ log'[c.no].outcome = IF ok THEN "ok" ELSE "no"
<1> DEFINE o == IF ok THEN "ok" ELSE "no"
           r == [log[c.no] EXCEPT !.outcome = o]
<1>1. DOMAIN log = 1..Len(log)
  BY LenProperties
<1>2. log[c.no] \in Record
  BY ElementOfSeq
<1>3. r \in Record /\ r.name = log[c.no].name /\ r.verdict = log[c.no].verdict
      /\ r.outcome = o
  BY <1>2 DEF Record
<1>4. log' = [log EXCEPT ![c.no] = r]
  BY DEF Executed
<1> HIDE DEF r
<1>5. /\ log' \in Seq(Record) /\ Len(log') = Len(log)
      /\ \A i \in 1..Len(log) : log'[i] = IF i = c.no THEN r ELSE log[i]
  BY <1>3, <1>4, ExceptSeq
<1>6. DOMAIN log' = 1..Len(log)
  BY <1>5, LenProperties
<1> QED
  BY <1>1, <1>3, <1>5, <1>6

LEMMA IssueLog ==
    ASSUME TypeOK, tag = Len(log), Issue
    PROVE  /\ log' \in Seq(Record) /\ Len(log') = tag + 1 /\ tag' = tag + 1
           /\ tag \in Nat /\ DOMAIN log = 1..tag /\ DOMAIN log' = 1..tag + 1
           /\ \A i \in 1..tag : log'[i] = log[i]
           /\ log'[tag + 1] = [name |-> pc, outcome |-> "open", verdict |-> "open"]
<1> DEFINE r == [name |-> pc, outcome |-> "open", verdict |-> "open"]
<1>1. r \in Record /\ log \in Seq(Record) /\ log' = Append(log, r) /\ tag' = tag + 1
  BY DEF Issue, TypeOK, Record, nextTag
<1> HIDE DEF r
<1>2. /\ log' \in Seq(Record) /\ Len(log') = tag + 1
      /\ \A i \in 1..tag : log'[i] = log[i]
      /\ log'[tag + 1] = r
  BY <1>1, AppendProperties
<1>3. tag \in Nat /\ DOMAIN log = 1..tag /\ DOMAIN log' = 1..tag + 1
  BY <1>1, <1>2, LenProperties
<1> QED
  BY <1>1, <1>2, <1>3 DEF r

LEMMA RequestSent ==
    ASSUME inbox \in Seq(Requests), NEW r \in Requests,
           inbox' = IF conn = "up" THEN Append(inbox, r) ELSE inbox
    PROVE  /\ inbox' \in Seq(Requests)
           /\ Len(inbox) \in Nat /\ DOMAIN inbox = 1..Len(inbox)
           /\ \A i \in DOMAIN inbox : i \in DOMAIN inbox' /\ inbox'[i] = inbox[i]
           /\ conn # "up" => inbox' = inbox
           /\ conn = "up" => /\ Len(inbox') = Len(inbox) + 1
                            /\ DOMAIN inbox' = 1..Len(inbox) + 1
                            /\ inbox'[Len(inbox) + 1] = r
<1>1. Len(inbox) \in Nat /\ DOMAIN inbox = 1..Len(inbox)
  BY LenProperties
<1>2. CASE conn = "up"
  <2>1. inbox' = Append(inbox, r)
    BY <1>2
  <2>2. /\ inbox' \in Seq(Requests)
        /\ Len(inbox') = Len(inbox) + 1 /\ DOMAIN inbox' = 1..Len(inbox) + 1
        /\ \A i \in DOMAIN inbox : i \in DOMAIN inbox' /\ inbox'[i] = inbox[i]
        /\ inbox'[Len(inbox) + 1] = r
    BY <2>1, AppendFacts
  <2> QED
    BY <1>1, <1>2, <2>2
<1>3. CASE conn # "up"
  BY <1>1, <1>3
<1> QED
  BY <1>2, <1>3

LEMMA SendInbox ==
    ASSUME TypeOK, NEW name \in Commands \cup {""}, NEW t \in Nat, NEW no \in Nat,
           send(name, t, no)
    PROVE  /\ inbox' \in Seq(Requests)
           /\ Len(inbox) \in Nat /\ DOMAIN inbox = 1..Len(inbox)
           /\ \A i \in DOMAIN inbox : i \in DOMAIN inbox' /\ inbox'[i] = inbox[i]
           /\ conn # "up" => inbox' = inbox
           /\ conn = "up" =>
                 /\ Len(inbox') = Len(inbox) + 1
                 /\ DOMAIN inbox' = 1..Len(inbox) + 1
                 /\ inbox'[Len(inbox) + 1] = [name |-> name, tag |-> t, no |-> no, uid |-> last]
<1> DEFINE r == [name |-> name, tag |-> t, no |-> no, uid |-> last]
<1>1. r \in Requests /\ inbox \in Seq(Requests)
  BY DEF TypeOK, Requests
<1>2. inbox' = IF conn = "up" THEN Append(inbox, r) ELSE inbox
  BY DEF send
<1> QED
  BY <1>1, <1>2, RequestSent

LEMMA TailInbox ==
    ASSUME TypeOK, inbox # << >>, inbox' = Tail(inbox)
    PROVE  /\ inbox' \in Seq(Requests)
           /\ Len(inbox) \in Nat /\ Len(inbox) > 0 /\ DOMAIN inbox = 1..Len(inbox)
           /\ Head(inbox) = inbox[1] /\ inbox[1] \in Requests /\ 1 \in DOMAIN inbox
           /\ Len(inbox') = Len(inbox) - 1
           /\ DOMAIN inbox' = 1..Len(inbox) - 1
           /\ \A i \in DOMAIN inbox' : i + 1 \in DOMAIN inbox /\ inbox'[i] = inbox[i + 1]
<1>0. inbox \in Seq(Requests)
  BY DEF TypeOK
<1>1. inbox' \in Seq(Requests) /\ Len(inbox') = Len(inbox) - 1
      /\ \A i \in 1..Len(inbox') : inbox'[i] = inbox[i + 1]
  BY <1>0, HeadTailProperties
<1>2. Len(inbox) \in Nat \ {0} /\ DOMAIN inbox = 1..Len(inbox)
  BY <1>0, LenProperties, EmptySeq
<1>3. DOMAIN inbox' = 1..Len(inbox')
  BY <1>1, LenProperties
<1>4. Head(inbox) = inbox[1] /\ inbox[1] \in Requests
  BY <1>0, <1>2, ElementOfSeq
<1> QED
  BY <1>1, <1>2, <1>3, <1>4

LEMMA Basics ==
    ASSUME TypeOK, LogOK
    PROVE  /\ log \in Seq(Record) /\ tag \in Nat /\ DOMAIN log = 1..tag
           /\ Len(inbox) \in Nat /\ DOMAIN inbox = 1..Len(inbox)
           /\ \A i \in DOMAIN inbox : inbox[i] \in Requests
           /\ Len(stream) \in Nat /\ DOMAIN stream = 1..Len(stream)
           /\ \A i \in DOMAIN stream : stream[i] \in Lines
           /\ NumLines \in Nat \ {0} /\ MaxChatter \in Nat /\ MaxFaults \in Nat
<1>1. log \in Seq(Record) /\ inbox \in Seq(Requests) /\ stream \in Seq(Lines) /\ tag = Len(log)
  BY DEF TypeOK, LogOK
<1>2. tag \in Nat /\ DOMAIN log = 1..tag
  BY <1>1, LenProperties
<1>3. Len(inbox) \in Nat /\ DOMAIN inbox = 1..Len(inbox)
  BY <1>1, LenProperties
<1>4. Len(stream) \in Nat /\ DOMAIN stream = 1..Len(stream)
  BY <1>1, LenProperties
<1>5. \A i \in DOMAIN inbox : inbox[i] \in Requests
  BY <1>1, <1>3, ElementOfSeq
<1>6. \A i \in DOMAIN stream : stream[i] \in Lines
  BY <1>1, <1>4, ElementOfSeq
<1> QED
  BY <1>1, <1>2, <1>3, <1>4, <1>5, <1>6, BoundAssumption

(***************************************************************************)
(* The invariant holds initially                                           *)
(***************************************************************************)

LEMMA InitInv == Init => IInv
<1> SUFFICES ASSUME Init PROVE IInv
  OBVIOUS
<1>1. stream \in Seq(Lines) /\ Len(stream) = 1 /\ DOMAIN stream = {1}
      /\ stream[1] \in {Greeting, Plain}
  <2>1. Greeting \in Lines /\ Plain \in Lines
    BY LineTypes
  <2>2. CASE stream = <<Greeting>>
    BY <2>1, <2>2
  <2>3. CASE stream = <<Plain>>
    BY <2>1, <2>3
  <2> QED
    BY <2>2, <2>3 DEF Init
<1>2. stream[1].is \in {"greeting", "plain"}
  BY <1>1 DEF Greeting, Plain
<1>3. inbox = << >> /\ log = << >> /\ file = << >>
      /\ DOMAIN inbox = {} /\ DOMAIN log = {} /\ Len(log) = 0 /\ Len(inbox) = 0
  BY DEF Init
<1>4. TypeOK
  <2>1. inbox \in Seq(Requests) /\ log \in Seq(Record) /\ file \in Seq(Lines)
    BY <1>3
  <2>2. 0 \in 0..NumLines + MaxSwallow /\ 0 \in 0..MaxFaults /\ 0 \in 0..MaxChatter
    BY BoundAssumption DEF MaxSwallow
  <2> QED
    BY <1>1, <2>1, <2>2 DEF Init, TypeOK
<1>5. PlaceOK
  BY DEF Init, PlaceOK, Commands
<1>6. LogOK /\ AuthOnce
  BY <1>3 DEF Init, LogOK, AuthOnce, Waiting, Commands
<1>7. InboxOK
  BY <1>3 DEF InboxOK
<1>8. ChallengeOK /\ DoneOK
  BY <1>1, <1>2 DEF ChallengeOK, DoneOK, Init
<1>9. SyncOK
  BY <1>1, <1>2, <1>3, BoundAssumption DEF SyncOK, Sync, FetchPending, MarkerSent, Init
<1>10. FetchOK /\ Whole /\ StoreOK /\ StoreAfterWhole /\ ReplyOK
  BY DEF Init, FetchOK, Whole, StoreOK, StoreAfterWhole, ReplyOK, Waiting, Commands
<1> QED
  BY <1>4, <1>5, <1>6, <1>7, <1>8, <1>9, <1>10 DEF IInv

(***************************************************************************)
(* What follows from the invariant                                         *)
(***************************************************************************)

LEMMA RequestFacts ==
    ASSUME tag \in Nat, NEW c, RequestOK(c)
    PROVE  /\ c.tag = c.no /\ c.no \in 1..tag /\ c.no \in Nat
           /\ \A j \in 1..tag : c.no <= j => log[j].outcome = "open"
           /\ log[c.no].outcome = "open"
           /\ c.name # "" => c.name = log[c.no].name
<1>1. c.tag = c.no
  BY DEF RequestOK
<1>2. c.no \in 1..tag
  BY DEF RequestOK
<1>3. c.no \in Nat
  BY <1>2
<1>5. \A j \in 1..tag : c.no <= j => log[j].outcome = "open"
  BY DEF RequestOK
<1>6. c.name # "" => c.name = log[c.no].name
  BY DEF RequestOK
<1>7. log[c.no].outcome = "open"
  BY <1>2, <1>3, <1>5
<1> QED
  BY <1>1, <1>2, <1>3, <1>5, <1>6, <1>7

\* A request that must be awaited is that of the command under way.
LEMMA AwaitedRequest ==
    ASSUME IInv, NEW i \in DOMAIN inbox, inbox[i].name \in {"auth", "fetch"}
    PROVE  /\ pc \notin Closing => /\ Waiting /\ pc = inbox[i].name
                                   /\ inbox[i].no = tag
           /\ log[inbox[i].no].name = inbox[i].name
           /\ log[inbox[i].no].outcome = "open"
<1>1. RequestOK(inbox[i])
  BY DEF IInv, InboxOK
<1>2. inbox[i] \in Requests /\ tag \in Nat
  BY Basics DEF IInv
<1>3. log[inbox[i].no].name = inbox[i].name /\ log[inbox[i].no].outcome = "open"
  BY <1>1, <1>2, RequestFacts
<1> QED
  BY <1>1, <1>3 DEF IInv, LogOK, RequestOK

\* What the client takes for a line that is none, it takes when it only closes.
LEMMA TakenAsIs ==
    ASSUME IInv, at = "read", stream # << >>, ~astray,
           NEW line \in Meanings(Head(stream))
    PROVE  line = stream[1]
<1>1. 1 \in DOMAIN stream /\ Head(stream) = stream[1] /\ DOMAIN stream = 1..Len(stream)
  <2>1. stream \in Seq(Lines)
    BY DEF IInv, TypeOK
  <2> QED
    BY <2>1, LenProperties, EmptySeq
<1>2. stream[1].is # "text"
  <2>1. Sync /\ left = 0
    BY DEF IInv, SyncOK, PlaceOK, Sync
  <2> QED
    BY <1>1, <2>1 DEF Sync
<1> QED
  BY <1>1, <1>2 DEF Meanings

(***************************************************************************)
(* A command is over for the client                                        *)
(***************************************************************************)

LEMMA SettledPlace ==
    ASSUME PlaceOK, Waiting, NEW ok \in BOOLEAN, Settle(ok)
    PROVE  /\ at' = "send" /\ left' = 0 /\ ~Waiting' /\ PlaceOK'
           /\ pc' \in {"handshake", "select", "search", "searchall", "loop", "post",
                       "expunge", "logout", "done"}
           /\ pc \in Closing => pc' \in Closing
           /\ ~ok /\ pc \in {"auth", "fetch"} => pc' \in Closing
           /\ pc' = "post" => pc = "fetch" /\ ok
           /\ pc' = "handshake" => pc = "starttls"
<1>1. at' = "send" /\ left' = 0 /\ pc' = After(ok)
  BY DEF Settle
<1>2. pc \in {"starttls", "auth", "select", "search", "searchall", "fetch", "store",
              "expunge", "logout"}
  BY DEF Waiting, Commands
<1>3. /\ pc = "starttls" => After(ok) = IF ok THEN "handshake" ELSE "logout"
      /\ pc = "auth" => After(ok) = IF ok THEN "select" ELSE "logout"
      /\ pc = "select" => After(ok) = IF ok THEN "search" ELSE "logout"
      /\ pc = "search" => After(ok) = IF ~ok THEN "logout"
                                      ELSE IF conf.all THEN "loop" ELSE "searchall"
      /\ pc = "searchall" => After(ok) = "loop"
      /\ pc = "fetch" => After(ok) = IF ok THEN "post" ELSE EndOfLoop
      /\ pc = "store" => After(ok) = "loop"
      /\ pc = "expunge" => After(ok) = "logout"
      /\ pc = "logout" => After(ok) = "done"
  BY DEF After, AfterFetch
<1>4. EndOfLoop \in {"expunge", "logout"}
  BY DEF EndOfLoop
<1>5. /\ pc' \in {"handshake", "select", "search", "searchall", "loop", "post",
                  "expunge", "logout", "done"}
      /\ pc \in Closing => pc' \in Closing
      /\ ~ok /\ pc \in {"auth", "fetch"} => pc' \in Closing
      /\ pc' = "post" => pc = "fetch" /\ ok
      /\ pc' = "handshake" => pc = "starttls"
  BY <1>1, <1>2, <1>3, <1>4 DEF Closing
<1>6. ~Waiting' /\ PlaceOK'
  BY <1>1, <1>5 DEF Waiting, PlaceOK
<1> QED
  BY <1>1, <1>5, <1>6

\* What a verdict leaves true, whatever was read to reach it.
LEMMA Settled ==
    ASSUME IInv, Waiting, NEW ok \in BOOLEAN, Settle(ok),
           UNCHANGED <<conn, srv, present, flagged, removed, inbox, tag, last, handed>>,
           ok => pc \in Closing \/ log[tag].outcome = "ok"
    PROVE  /\ log' \in Seq(Record) /\ \A i \in 1..tag : log'[i].outcome = log[i].outcome
           /\ srv = "challenge" => inbox = << >> \/ pc' \in Closing
           /\ LogOK' /\ AuthOnce' /\ InboxOK'
           /\ StoreOK' /\ FetchOK' /\ StoreAfterWhole' /\ ReplyOK'
<1> USE DEF IInv
<1>1. /\ at' = "send" /\ left' = 0 /\ ~Waiting'
      /\ pc' \in {"handshake", "select", "search", "searchall", "loop", "post",
                  "expunge", "logout", "done"}
      /\ pc \in Closing => pc' \in Closing
      /\ ~ok /\ pc \in {"auth", "fetch"} => pc' \in Closing
      /\ pc' = "post" => pc = "fetch" /\ ok
      /\ pc' = "handshake" => pc = "starttls"
  BY SettledPlace
<1>2. tag = Len(log) /\ tag > 0 /\ tag \in Nat
  BY Basics DEF LogOK
<1>3. /\ log' \in Seq(Record) /\ Len(log') = Len(log)
      /\ DOMAIN log = 1..tag /\ DOMAIN log' = 1..tag
      /\ \A i \in 1..tag : /\ log'[i].name = log[i].name
                           /\ log'[i].outcome = log[i].outcome
                           /\ i # tag => log'[i].verdict = log[i].verdict
      /\ log'[tag].verdict # "open"
  BY <1>2, SettleLog
<1>4. LogOK'
  BY <1>1, <1>2, <1>3 DEF LogOK
<1>5. AuthOnce'
  BY <1>1, <1>3 DEF AuthOnce
<1>6. \A i \in DOMAIN inbox : inbox[i].name \in {"auth", "fetch"} => pc' \in Closing
  <2> SUFFICES ASSUME NEW i \in DOMAIN inbox, inbox[i].name \in {"auth", "fetch"},
                      pc \notin Closing
               PROVE  pc' \in Closing
    BY <1>1
  <2>1. pc = inbox[i].name /\ log[tag].outcome = "open"
    BY AwaitedRequest
  <2> QED
    BY <1>1, <2>1
<1>7. ASSUME NEW i \in DOMAIN inbox
      PROVE  RequestOK(inbox[i])'
  <2>1. RequestOK(inbox[i])
    BY DEF InboxOK
  <2>2. /\ inbox[i].tag = inbox[i].no /\ inbox[i].no \in 1..tag
        /\ \A j \in 1..tag : inbox[i].no <= j => log[j].outcome = "open"
        /\ inbox[i].name # "" => inbox[i].name = log[inbox[i].no].name
        /\ inbox[i].name = "fetch" => inbox[i].uid = last
        /\ inbox[i].name = "store" => inbox[i].uid \in handed \/ inbox[i].uid \notin present
    BY <2>1 DEF RequestOK
  <2>4. \A j \in 1..tag : inbox[i].no <= j => log'[j].outcome = "open"
    BY <1>3, <2>2
  <2>5. inbox[i].name # "" => inbox[i].name = log'[inbox[i].no].name
    BY <1>3, <2>2
  <2> QED
    BY <1>6, <2>2, <2>4, <2>5 DEF RequestOK
<1>8. InboxOK'
  BY <1>7 DEF InboxOK
<1>9. srv = "challenge" => inbox = << >> \/ pc' \in Closing
  <2> SUFFICES ASSUME srv = "challenge", inbox # << >> PROVE pc' \in Closing
    OBVIOUS
  <2>1. inbox[1].name = "auth" /\ 1 \in DOMAIN inbox
    <3>1. inbox \in Seq(Requests)
      BY DEF TypeOK
    <3> QED
      BY <3>1, EmptySeq, LenProperties DEF ChallengeOK
  <2> QED
    BY <1>6, <2>1
<1>10. StoreOK' /\ FetchOK' /\ StoreAfterWhole' /\ ReplyOK'
  BY <1>1 DEF StoreOK, FetchOK, StoreAfterWhole, ReplyOK
<1> QED
  BY <1>3, <1>4, <1>5, <1>8, <1>9, <1>10

(***************************************************************************)
(* The client reads on: d lines of the stream are gone                     *)
(***************************************************************************)

ReadsOn(d) ==
    /\ stream' \in Seq(Lines)
    /\ Len(stream') = Len(stream) - d
    /\ \A i \in DOMAIN stream' : i + d \in DOMAIN stream /\ stream'[i] = stream[i + d]

\* As far as it is left it is what it was, or a line of which the end is left.
Follows(d) ==
    /\ stream' \in Seq(Lines)
    /\ \A i \in DOMAIN stream' : /\ i + d \in DOMAIN stream
                                 /\ stream'[i] = stream[i + d] \/ stream'[i] = Plain

LEMMA ReadsFollows == \A d \in {0, 1} : ReadsOn(d) => Follows(d)
BY DEF ReadsOn, Follows

LEMMA ReadsNothing == ASSUME TypeOK, stream' = stream PROVE ReadsOn(0)
<1>1. stream \in Seq(Lines)
  BY DEF TypeOK
<1>2. Len(stream) \in Nat /\ DOMAIN stream = 1..Len(stream)
  BY <1>1, LenProperties
<1> QED
  BY <1>1, <1>2 DEF ReadsOn

LEMMA ReadsLine ==
    ASSUME TypeOK, stream # << >>, stream' = Tail(stream)
    PROVE  ReadsOn(1) /\ 1 \in DOMAIN stream /\ Head(stream) = stream[1] /\ stream[1] \in Lines
<1>1. stream \in Seq(Lines)
  BY DEF TypeOK
<1> QED
  BY <1>1, TailStream DEF ReadsOn

LEMMA ReadsDomain ==
    ASSUME TypeOK, NEW d \in {0, 1}, ReadsOn(d)
    PROVE  /\ Len(stream) \in Nat /\ DOMAIN stream = 1..Len(stream)
           /\ DOMAIN stream' = 1..Len(stream) - d
<1>1. stream \in Seq(Lines) /\ stream' \in Seq(Lines) /\ Len(stream') = Len(stream) - d
  BY DEF TypeOK, ReadsOn
<1>2. Len(stream) \in Nat /\ DOMAIN stream = 1..Len(stream)
  BY <1>1, LenProperties
<1>3. DOMAIN stream' = 1..Len(stream')
  BY <1>1, LenProperties
<1> QED
  BY <1>1, <1>2, <1>3

LEMMA ChallengeRead ==
    ASSUME IInv, NEW d \in {0, 1}, Follows(d), UNCHANGED <<conf, conn, srv, inbox>>,
           \A i \in DOMAIN stream' : stream'[i].is = "plus" =>
               /\ pc' \notin {"greet", "starttls", "handshake"}
               /\ ~(pc' = "auth" /\ at' = "send")
               /\ pc' = "auth" => pc = "auth",
           srv = "challenge" /\ conn = "up" /\ Len(inbox) = 1 /\ pc' \notin Closing =>
               \E i \in DOMAIN stream' : stream'[i].is = "plus"
    PROVE  ChallengeOK'
<1> USE DEF IInv
<1>1. \A i \in DOMAIN stream' : i \in Nat /\ i + d \in DOMAIN stream
  <2>1. DOMAIN stream' = 1..Len(stream') /\ Len(stream') \in Nat
    BY LenProperties DEF Follows
  <2> QED
    BY <2>1 DEF Follows
<1>0. \A i \in DOMAIN stream' : stream'[i].is = "plus" => stream[i + d].is = "plus"
  BY DEF Follows, Plain
<1>2. (srv = "challenge" =>
          /\ inbox # << >> => inbox[1].name = "auth"
          /\ inbox = << >> => conn = "down"
          /\ conn = "up" /\ Len(inbox) = 1 /\ pc \notin Closing =>
                \E i \in DOMAIN stream : stream[i].is = "plus")'
  BY DEF ChallengeOK
<1>3. \A i, j \in DOMAIN stream' : stream'[i].is = "plus" /\ stream'[j].is = "plus" => i = j
  <2> SUFFICES ASSUME NEW i \in DOMAIN stream', NEW j \in DOMAIN stream',
                      stream'[i].is = "plus", stream'[j].is = "plus"
               PROVE  i = j
    OBVIOUS
  <2>1. i + d = j + d
    BY <1>0, <1>1 DEF ChallengeOK
  <2> QED
    BY <1>1, <2>1
<1>4. ASSUME NEW i \in DOMAIN stream', stream'[i].is = "plus"
      PROVE  /\ conf'.mech = "xoauth2"
             /\ \A j \in DOMAIN inbox' : inbox'[j].name = "auth" => srv' = "challenge"
             /\ pc' = "auth" /\ conn' = "up" => srv' = "challenge" /\ Len(inbox') = 1
  <2>1. i + d \in DOMAIN stream /\ stream[i + d].is = "plus"
    BY <1>0, <1>1, <1>4
  <2> QED
    BY <1>4, <2>1 DEF ChallengeOK
<1> QED
  BY <1>2, <1>3, <1>4 DEF ChallengeOK

LEMMA DoneRead ==
    ASSUME IInv, NEW d \in {0, 1}, Follows(d), UNCHANGED tag,
           \A i \in 1..tag : log'[i].outcome = log[i].outcome
    PROVE  DoneOK'
<1> SUFFICES ASSUME NEW i \in DOMAIN stream', stream'[i].is = "done"
             PROVE  /\ stream'[i].tag \in 1..tag
                    /\ log'[stream'[i].tag].outcome = IF stream'[i].ok THEN "ok" ELSE "no"
  BY DEF DoneOK
<1>1. i + d \in DOMAIN stream /\ stream'[i] = stream[i + d]
  BY DEF Follows, Plain
<1>2. /\ stream'[i].tag \in 1..tag
      /\ log[stream'[i].tag].outcome = IF stream'[i].ok THEN "ok" ELSE "no"
  BY <1>1 DEF IInv, DoneOK
<1> QED
  BY <1>2

LEMMA SyncReads ==
    ASSUME IInv, NEW d \in {0, 1}, ReadsOn(d), UNCHANGED conn, FetchPending' => FetchPending,
           ~astray, left = 0, left' = 0, at' # "literal",
           d = 1 => stream[1].is # "marker",
           MarkerSent => /\ last' = last
                         /\ pc' \in Closing \/ (pc' = "fetch" /\ at' # "send")
    PROVE  Sync'
<1> USE DEF IInv
<1>1. Sync
  BY DEF SyncOK
<1>2. /\ Len(stream) \in Nat /\ DOMAIN stream = 1..Len(stream)
      /\ DOMAIN stream' = 1..Len(stream) - d /\ Len(stream') = Len(stream) - d
      /\ \A i \in DOMAIN stream' : i + d \in DOMAIN stream /\ stream'[i] = stream[i + d]
  BY ReadsDomain DEF ReadsOn
<1>3. NumLines \in Nat
  BY BoundAssumption
<1>4. ASSUME NEW i \in DOMAIN stream', stream'[i].is = "text"
      PROVE  \E m \in DOMAIN stream' : stream'[m].is = "marker" /\ m < i /\ i <= m + NumLines
  <2>1. i + d \in DOMAIN stream /\ stream[i + d].is = "text" /\ i + d > 0
    BY <1>2, <1>4
  <2>2. PICK m \in DOMAIN stream :
            stream[m].is = "marker" /\ m < i + d /\ i + d <= m + NumLines
    BY <1>1, <2>1 DEF Sync
  <2>3. m - d \in DOMAIN stream'
    BY <1>2, <2>1, <2>2
  <2>4. stream'[m - d].is = "marker"
    BY <1>2, <2>2, <2>3
  <2>5. m - d < i /\ i <= (m - d) + NumLines
    BY <1>2, <1>3, <2>2
  <2> QED
    BY <2>3, <2>4, <2>5
<1>5. ASSUME NEW m \in DOMAIN stream', stream'[m].is = "marker"
      PROVE  /\ stream'[m] = Marker(NumLines)
             /\ \A k \in 1..NumLines : m + k \in DOMAIN stream' =>
                                          stream'[m + k] = Text(last', k)
             /\ conn' = "up" => m + NumLines < Len(stream')
             /\ pc' \in Closing \/ (pc' = "fetch" /\ at' # "send")
  <2>1. m + d \in DOMAIN stream /\ stream[m + d].is = "marker" /\ stream'[m] = stream[m + d]
    BY <1>2, <1>5
  <2>2. MarkerSent
    BY <2>1 DEF MarkerSent
  <2>3. /\ stream[m + d] = Marker(NumLines)
        /\ \A k \in 1..NumLines : m + d + k \in DOMAIN stream => stream[m + d + k] = Text(last, k)
        /\ conn = "up" => m + d + NumLines < Len(stream)
    BY <1>1, <2>1 DEF Sync
  <2>4. ASSUME NEW k \in 1..NumLines, m + k \in DOMAIN stream'
        PROVE  stream'[m + k] = Text(last', k)
    <3>1. (m + k) + d = m + d + k
      BY <1>2, <1>3
    <3>2. stream'[m + k] = stream[m + d + k] /\ m + d + k \in DOMAIN stream
      BY <1>2, <2>4, <3>1
    <3> QED
      BY <2>2, <2>3, <3>2
  <2>5. conn' = "up" => m + NumLines < Len(stream')
    BY <1>2, <1>3, <2>3
  <2> QED
    BY <2>1, <2>2, <2>3, <2>4, <2>5
<1>6. \A i, j \in DOMAIN stream' : stream'[i].is = "marker" /\ stream'[j].is = "marker" => i = j
  <2> SUFFICES ASSUME NEW i \in DOMAIN stream', NEW j \in DOMAIN stream',
                      stream'[i].is = "marker", stream'[j].is = "marker"
               PROVE  i = j
    OBVIOUS
  <2>1. i + d = j + d
    BY <1>1, <1>2 DEF Sync
  <2> QED
    BY <1>2, <2>1
<1>7. FetchPending' => ~MarkerSent'
  <2>1. MarkerSent' => MarkerSent
    BY <1>2 DEF MarkerSent
  <2> QED
    BY <1>1, <2>1 DEF Sync
<1>8. \A i \in DOMAIN stream' : ~(i <= left')
  BY <1>2
<1> QED
  BY <1>3, <1>4, <1>5, <1>6, <1>7, <1>8 DEF Sync

LEMMA SyncRead ==
    ASSUME IInv, NEW d \in {0, 1}, ReadsOn(d), UNCHANGED <<conn, inbox>>,
           ~astray, left = 0, left' = 0, at' # "literal",
           d = 1 => stream[1].is # "marker",
           MarkerSent => /\ last' = last
                         /\ pc' \in Closing \/ (pc' = "fetch" /\ at' # "send")
    PROVE  Sync'
<1>1. FetchPending' => FetchPending
  BY DEF FetchPending
<1> QED
  BY <1>1, SyncReads

(***************************************************************************)
(* The client goes on without a command                                    *)
(***************************************************************************)

LEMMA Moved ==
    ASSUME IInv, pc \in {"greet", "handshake", "loop", "post"}, at' = "send",
           UNCHANGED <<log, tag, inbox, srv, conn, present, left>>,
           handed \subseteq handed'
    PROVE  /\ left = 0 /\ LogOK' /\ InboxOK' /\ FetchOK' /\ ReplyOK'
           /\ srv = "challenge" => inbox = << >>
<1> USE DEF IInv
<1>1. ~Waiting /\ ~Waiting' /\ pc \notin Closing /\ pc \notin Commands
  BY DEF PlaceOK, Waiting, Commands, Closing
<1>2. left = 0
  <2>1. left \in Nat /\ ~(left > 0)
    BY BoundAssumption DEF PlaceOK, TypeOK, Commands, MaxSwallow
  <2> QED
    BY <2>1
<1>3. \A i \in DOMAIN inbox : inbox[i].name \notin {"auth", "fetch"}
  BY <1>1, AwaitedRequest
<1>4. LogOK'
  BY <1>1 DEF LogOK
<1>5. ASSUME NEW i \in DOMAIN inbox
      PROVE  RequestOK(inbox[i])'
  <2>1. RequestOK(inbox[i]) /\ inbox[i].name \notin {"auth", "fetch"}
    BY <1>3 DEF InboxOK
  <2> QED
    BY <2>1 DEF RequestOK
<1>6. InboxOK'
  BY <1>5 DEF InboxOK
<1>7. FetchOK' /\ ReplyOK'
  BY <1>1 DEF FetchOK, ReplyOK
<1>8. srv = "challenge" => inbox = << >>
  <2>1. inbox \in Seq(Requests)
    BY DEF TypeOK
  <2>2. inbox # << >> => 1 \in DOMAIN inbox
    BY <2>1, EmptySeq, LenProperties
  <2> QED
    BY <1>3, <2>2 DEF ChallengeOK
<1> QED
  BY <1>2, <1>4, <1>6, <1>7, <1>8

LEMMA GreetStep == ASSUME IInv, Greet PROVE IInv'
<1> USE DEF Greet, server
<1>1. ReadsOn(1) /\ Follows(1) /\ 1 \in DOMAIN stream
  BY ReadsLine, ReadsFollows DEF IInv
<1>2. left = 0 /\ LogOK' /\ InboxOK' /\ FetchOK' /\ ReplyOK'
      /\ (srv = "challenge" => inbox = << >>)
  BY Moved
<1>3. pc' \in {"done", "starttls", "auth"} /\ at' = "send" /\ pc \notin Closing
  BY DEF IInv, Closing
<1>4. TypeOK'
  BY <1>1, <1>3 DEF IInv, TypeOK, ReadsOn, Commands
<1>5. PlaceOK' /\ AuthOnce'
  BY <1>2, <1>3 DEF IInv, PlaceOK, AuthOnce, Commands
<1>6. \A i \in DOMAIN stream : stream[i].is # "plus"
  BY DEF IInv, ChallengeOK
<1>7. Sync /\ ~astray
  BY <1>3 DEF IInv, SyncOK
<1>8. ~MarkerSent
  BY <1>3, <1>7 DEF IInv, Sync, MarkerSent
<1>9. ChallengeOK'
  <2>1. \A i \in DOMAIN stream' : stream'[i].is # "plus"
    BY <1>1, <1>6 DEF ReadsOn
  <2>2. Len(inbox) = 1 => inbox # << >>
    OBVIOUS
  <2> QED
    BY <1>1, <1>2, <2>1, <2>2, ChallengeRead
<1>10. DoneOK'
  BY <1>1, DoneRead
<1>11. SyncOK'
  <2>1. stream[1].is # "marker"
    BY <1>1, <1>8 DEF IInv, MarkerSent
  <2>2. Sync'
    BY <1>1, <1>2, <1>3, <1>7, <1>8, <2>1, SyncRead
  <2> QED
    BY <1>7, <2>2 DEF SyncOK
<1>12. Whole' /\ StoreOK' /\ StoreAfterWhole'
  BY <1>3 DEF IInv, Whole, StoreOK, StoreAfterWhole
<1> QED
  BY <1>2, <1>4, <1>5, <1>9, <1>10, <1>11, <1>12 DEF IInv

LEMMA SyncIdle ==
    ASSUME IInv, ReadsOn(0), UNCHANGED <<conn, inbox>>, ~astray, ~MarkerSent,
           left = 0, left' = 0, at' = "send"
    PROVE  Sync'
BY SyncRead

\* Between two commands nothing is read: only where the client is changes.
LEMMA Idle ==
    ASSUME IInv, pc \in {"handshake", "loop", "post"}, at' = "send",
           pc' \in {"auth", "fetch", "store", "loop", "expunge", "logout"},
           pc' = "auth" => pc = "handshake",
           UNCHANGED <<conf, conn, srv, inbox, stream, log, tag, left, astray,
                       present, flagged, removed>>,
           handed \subseteq handed'
    PROVE  /\ PlaceOK' /\ LogOK' /\ AuthOnce' /\ InboxOK' /\ ChallengeOK' /\ DoneOK'
           /\ SyncOK' /\ FetchOK' /\ Whole' /\ StoreAfterWhole' /\ ReplyOK'
<1>1. ReadsOn(0)
  BY ReadsNothing DEF IInv
<1>2. left = 0 /\ LogOK' /\ InboxOK' /\ FetchOK' /\ ReplyOK'
      /\ (srv = "challenge" => inbox = << >>)
  BY Moved
<1>3. left' = 0 /\ PlaceOK' /\ AuthOnce' /\ Whole' /\ StoreAfterWhole'
  BY <1>2 DEF IInv, PlaceOK, AuthOnce, Whole, StoreAfterWhole, Commands
<1>4. Sync /\ ~astray /\ ~MarkerSent
  BY DEF IInv, SyncOK, Sync, MarkerSent, Closing
<1>5. ChallengeOK'
  <2>1. \A i \in DOMAIN stream' : stream'[i].is = "plus" => pc # "handshake"
    BY DEF IInv, ChallengeOK
  <2>2. Len(inbox) = 1 => inbox # << >>
    OBVIOUS
  <2> QED
    BY <1>1, <1>2, <2>1, <2>2, ReadsFollows, ChallengeRead
<1>6. DoneOK'
  BY <1>1, ReadsFollows, DoneRead
<1>7. SyncOK'
  <2>1. Sync'
    BY <1>1, <1>2, <1>3, <1>4, SyncIdle
  <2> QED
    BY <1>4, <2>1 DEF SyncOK
<1> QED
  BY <1>2, <1>3, <1>5, <1>6, <1>7

LEMMA HandshakeStep == ASSUME IInv, Handshake PROVE IInv'
<1> USE DEF Handshake, server
<1>1. at' = "send" /\ pc' \in {"auth", "logout"}
  BY DEF IInv, PlaceOK, Commands
<1>2. TypeOK'
  <2>1. faults' \in 0..MaxFaults
    BY BoundAssumption DEF IInv, TypeOK, Fault
  <2> QED
    BY <1>1, <2>1 DEF IInv, TypeOK, Commands
<1>3. StoreOK'
  BY <1>1 DEF StoreOK
<1> QED
  BY <1>1, <1>2, <1>3, Idle DEF IInv

LEMMA PickStep == ASSUME IInv, Pick PROVE IInv'
<1> USE DEF Pick, server
<1>1. at' = "send" /\ pc' = "fetch"
  BY DEF IInv, PlaceOK, Commands
<1>2. TypeOK'
  BY <1>1 DEF IInv, TypeOK, Commands
<1>3. StoreOK'
  BY <1>1 DEF StoreOK
<1> QED
  BY <1>1, <1>2, <1>3, Idle DEF IInv

LEMMA FinishStep == ASSUME IInv, Finish PROVE IInv'
<1> USE DEF Finish, server
<1>1. at' = "send" /\ pc' \in {"expunge", "logout"}
  BY DEF IInv, PlaceOK, Commands, EndOfLoop
<1>2. TypeOK'
  BY <1>1 DEF IInv, TypeOK, Commands
<1>3. StoreOK'
  BY <1>1 DEF StoreOK
<1> QED
  BY <1>1, <1>2, <1>3, Idle DEF IInv

LEMMA PostStep == ASSUME IInv, Post PROVE IInv'
<1> USE DEF Post, server
<1>1. at' = "send" /\ pc' \in {"store", "loop"}
  BY DEF IInv, PlaceOK, Commands
<1>2. handed \subseteq handed' /\ handed' \subseteq handed \cup {last}
  OBVIOUS
<1>3. last \in handed' \/ last \notin present
  BY DEF IInv, Whole
<1>4. TypeOK'
  <2>1. file = Body(last) => last \in Uids
    <3> SUFFICES ASSUME file = Body(last), last = 0 PROVE FALSE
      BY DEF IInv, TypeOK
    <3>1. 1 \in 1..NumLines /\ NumLines \in Nat
      BY BoundAssumption
    <3>2. file[1] = Text(0, 1) /\ DOMAIN file = 1..NumLines
      BY <3>1 DEF IInv, Body
    <3>3. file[1] \in Lines
      <4>1. file \in Seq(Lines)
        BY DEF IInv, TypeOK
      <4>2. 1 \in 1..Len(file)
        BY <3>1, <3>2, <4>1, LenProperties
      <4> QED
        BY <4>1, <4>2, ElementOfSeq
    <3>4. Text(0, 1).is = "text" /\ Text(0, 1).uid = 0
      BY DEF IInv, Text
    <3>5. 0 \in Uids
      BY <3>2, <3>3, <3>4, LineKinds
    <3> QED
      BY <3>5, BoundAssumption DEF IInv, Uids
  <2> QED
    BY <1>1, <2>1 DEF IInv, TypeOK, Commands
<1>5. StoreOK'
  BY <1>3 DEF StoreOK
<1> QED
  BY <1>1, <1>2, <1>4, <1>5, Idle DEF IInv

(***************************************************************************)
(* The client reads in a command                                           *)
(***************************************************************************)

\* A verdict: the rest of the invariant does not depend on how it was reached.
LEMMA SettledInv ==
    ASSUME IInv, Waiting, NEW ok \in BOOLEAN, Settle(ok),
           UNCHANGED <<conf, conn, srv, present, flagged, removed, inbox, tag, last, handed>>,
           ok => pc \in Closing \/ log[tag].outcome = "ok",
           NEW d \in {0, 1}, Follows(d),
           TypeOK', SyncOK', Whole'
    PROVE  IInv'
<1>1. /\ at' = "send" /\ left' = 0 /\ PlaceOK'
      /\ pc' \in {"handshake", "select", "search", "searchall", "loop", "post",
                  "expunge", "logout", "done"}
      /\ pc' = "handshake" => pc = "starttls"
  BY SettledPlace DEF IInv
<1>2. /\ log' \in Seq(Record) /\ \A i \in 1..tag : log'[i].outcome = log[i].outcome
      /\ srv = "challenge" => inbox = << >> \/ pc' \in Closing
      /\ LogOK' /\ AuthOnce' /\ InboxOK'
      /\ StoreOK' /\ FetchOK' /\ StoreAfterWhole' /\ ReplyOK'
  BY Settled
<1>3. ChallengeOK'
  <2>1. ASSUME NEW i \in DOMAIN stream', stream'[i].is = "plus"
        PROVE  pc # "starttls"
    <3>1. i + d \in DOMAIN stream /\ stream[i + d].is = "plus"
      BY <2>1 DEF Follows, Plain
    <3> QED
      BY <3>1 DEF IInv, ChallengeOK
  <2>2. Len(inbox) = 1 => inbox # << >>
    OBVIOUS
  <2> QED
    BY <1>1, <1>2, <2>1, <2>2, ChallengeRead
<1>4. DoneOK'
  BY <1>2, DoneRead
<1> QED
  BY <1>1, <1>2, <1>3, <1>4 DEF IInv

\* The command goes on.
LEMMA Stays ==
    ASSUME IInv, Waiting, at' \in {"read", "literal"},
           UNCHANGED <<srv, inbox, pc, log, tag, last, present, flagged, removed, handed>>
    PROVE  Waiting' /\ LogOK' /\ AuthOnce' /\ InboxOK' /\ Whole' /\ StoreOK' /\ StoreAfterWhole'
<1>1. Waiting' /\ at # "send" /\ at' # "send"
  BY DEF Waiting
<1>2. ASSUME NEW i \in DOMAIN inbox
      PROVE  RequestOK(inbox[i])'
  <2>1. RequestOK(inbox[i])
    BY DEF IInv, InboxOK
  <2> QED
    BY <1>1, <2>1 DEF RequestOK
<1>3. InboxOK'
  BY <1>2 DEF IInv, InboxOK
<1> QED
  BY <1>1, <1>3 DEF IInv, LogOK, AuthOnce, Whole, StoreOK, StoreAfterWhole, Waiting, Commands

LEMMA CreateTempStep == ASSUME IInv, CreateTemp PROVE IInv'
<1> USE DEF CreateTemp, server
<1>1. pc = "fetch" /\ Waiting /\ ReadsOn(0) /\ Follows(0)
  BY ReadsNothing, ReadsFollows DEF IInv, PlaceOK, Waiting, Commands
<1>2. left = 0 /\ Sync /\ ~astray /\ pc \notin Closing
  <2>1. left \in Nat /\ ~(left > 0)
    BY BoundAssumption DEF IInv, PlaceOK, TypeOK, MaxSwallow
  <2> QED
    BY <1>1, <2>1 DEF IInv, SyncOK, Closing
<1>3. file' = << >> /\ file' \in Seq(Lines)
  OBVIOUS
<1>4. CASE at' = "read" /\ UNCHANGED <<log, pc, deleted, left, faults>>
  <2>1. LogOK' /\ AuthOnce' /\ InboxOK' /\ Whole' /\ StoreOK' /\ StoreAfterWhole' /\ Waiting'
    BY <1>1, <1>4, Stays
  <2>2. TypeOK'
    BY <1>3, <1>4 DEF IInv, TypeOK
  <2>3. PlaceOK'
    BY <1>1, <1>2, <1>4 DEF PlaceOK, Commands
  <2>4. ChallengeOK'
    <3>1. pc' = "fetch"
      BY <1>1, <1>4
    <3>2. srv = "challenge" /\ conn = "up" /\ Len(inbox) = 1 /\ pc \notin Closing =>
              \E i \in DOMAIN stream : stream[i].is = "plus"
      BY DEF IInv, ChallengeOK
    <3> QED
      BY <1>1, <1>4, <3>1, <3>2, ChallengeRead
  <2>5. DoneOK'
    BY <1>1, <1>4, DoneRead
  <2>6. SyncOK'
    <3>1. Sync'
      BY <1>1, <1>2, <1>4, SyncRead
    <3> QED
      BY <1>2, <3>1 DEF SyncOK
  <2>7. FetchOK'
    BY <1>1, <1>3, <1>4 DEF IInv, FetchOK, MarkerSent, FetchPending
  <2>8. ReplyOK'
    BY <1>1, <1>4 DEF IInv, ReplyOK, Coming
  <2> QED
    BY <2>1, <2>2, <2>3, <2>4, <2>5, <2>6, <2>7, <2>8 DEF IInv
<1>5. CASE Fault("disk") /\ Settle(FALSE)
  <2>1. at' = "send" /\ left' = 0 /\ pc' \in Closing
    BY <1>1, <1>5, SettledPlace DEF IInv
  <2>2. log' \in Seq(Record)
    BY <1>1, <1>5, Settled
  <2>3. TypeOK'
    <3>1. faults' \in 0..MaxFaults
      BY <1>5, BoundAssumption DEF IInv, TypeOK, Fault
    <3>2. deleted' \in BOOLEAN
      BY <1>5 DEF Settle
    <3>3. left' \in 0..NumLines + MaxSwallow
      BY <2>1, BoundAssumption DEF MaxSwallow
    <3> QED
      BY <1>3, <2>1, <2>2, <3>1, <3>2, <3>3 DEF IInv, TypeOK, Closing, Commands
  <2>4. SyncOK'
    <3>1. Sync'
      BY <1>1, <1>2, <2>1, SyncRead
    <3> QED
      BY <1>2, <3>1 DEF SyncOK
  <2>5. Whole'
    BY <2>1 DEF Whole, Closing
  <2> QED
    BY <1>1, <1>5, <2>3, <2>4, <2>5, SettledInv
<1> QED
  BY <1>4, <1>5

LEMMA FaultRange == ASSUME TypeOK, NEW kind, Fault(kind) PROVE faults' \in 0..MaxFaults
BY BoundAssumption DEF TypeOK, Fault

LEMMA ReadFailsStep == ASSUME IInv, ReadFails PROVE IInv'
<1> USE DEF ReadFails, HasDeadline, server
<1>1. at # "send" /\ pc \in Commands \cup {"greet"}
  BY DEF IInv, PlaceOK
<1>2. stream' \in Seq(Lines) /\ Follows(0)
  <2>1. stream \in Seq(Lines)
    BY DEF IInv, TypeOK
  <2>2. CASE stream' = stream
    BY <2>2, ReadsNothing, ReadsFollows DEF IInv, ReadsOn
  <2>3. CASE stream # << >> /\ Head(stream).is = "marker"
             /\ stream' = <<Rest(Head(stream))>> \o Tail(stream)
    <3>1. Rest(Head(stream)) = Plain
      BY <2>3 DEF Rest
    <3>2. stream' = <<Plain>> \o Tail(stream)
      BY <2>3, <3>1
    <3>3. Len(stream) \in Nat \ {0} /\ DOMAIN stream = 1..Len(stream)
      BY <2>1, <2>3, LenProperties, EmptySeq
    <3>4. /\ Tail(stream) \in Seq(Lines) /\ Len(Tail(stream)) = Len(stream) - 1
          /\ \A i \in 1..Len(Tail(stream)) : Tail(stream)[i] = stream[i + 1]
      BY <2>1, <2>3, HeadTailProperties
    <3>5. <<Plain>> \in Seq(Lines) /\ Len(<<Plain>>) = 1 /\ <<Plain>>[1] = Plain
      BY LineTypes
    <3>6. /\ stream' \in Seq(Lines)
          /\ Len(stream') = Len(<<Plain>>) + Len(Tail(stream))
          /\ \A i \in 1..Len(<<Plain>>) + Len(Tail(stream)) :
                stream'[i] = IF i <= Len(<<Plain>>) THEN <<Plain>>[i]
                                                    ELSE Tail(stream)[i - Len(<<Plain>>)]
      BY <3>2, <3>4, <3>5, ConcatProperties
    <3>7. DOMAIN stream' = 1..Len(stream)
      BY <3>3, <3>4, <3>5, <3>6, LenProperties
    <3>8. ASSUME NEW i \in DOMAIN stream'
          PROVE  stream'[i] = stream[i] \/ stream'[i] = Plain
      <4>1. CASE i = 1
        BY <3>3, <3>4, <3>5, <3>6, <3>7, <4>1
      <4>2. CASE i # 1
        <5>1. i \in 1..Len(stream) /\ i - 1 \in 1..Len(stream) - 1
          BY <3>3, <3>7, <4>2
        <5>2. stream'[i] = Tail(stream)[i - 1]
          BY <3>3, <3>4, <3>5, <3>6, <4>2, <5>1
        <5> QED
          BY <3>4, <5>1, <5>2
      <4> QED
        BY <4>1, <4>2
    <3> QED
      BY <3>3, <3>6, <3>7, <3>8 DEF Follows
  <2> QED
    BY <2>2, <2>3
<1>3. astray' => astray \/ at = "literal" \/ MarkerSent
  <2>1. stream # << >> => 1 \in DOMAIN stream /\ Head(stream) = stream[1]
    BY LenProperties, EmptySeq DEF IInv, TypeOK
  <2> QED
    BY <2>1 DEF MarkerSent
<1>4. ~astray => Sync
  BY DEF IInv, SyncOK
<1>5. CASE pc = "greet"
  <2>1. pc' = "done" /\ at = "read" /\ at' = "send" /\ pc \notin Closing
        /\ UNCHANGED <<conf, conn, srv, inbox, log, tag, left, last, handed,
                       present, flagged, removed>>
    BY <1>5 DEF IInv, PlaceOK, Closing
  <2>2. left = 0 /\ LogOK' /\ InboxOK' /\ FetchOK' /\ ReplyOK'
        /\ (srv = "challenge" => inbox = << >>)
    BY <1>5, <2>1, Moved
  <2>3. TypeOK'
    BY <1>2, <1>5, <2>1 DEF IInv, TypeOK, Commands
  <2>4. PlaceOK' /\ AuthOnce' /\ Whole' /\ StoreOK' /\ StoreAfterWhole'
    BY <1>5, <2>1, <2>2 DEF IInv, PlaceOK, AuthOnce, Commands, Whole, StoreOK, StoreAfterWhole
  <2>5. ChallengeOK'
    <3>1. Len(inbox) = 1 => inbox # << >>
      OBVIOUS
    <3> QED
      BY <1>2, <2>1, <2>2, <3>1, ChallengeRead
  <2>6. DoneOK'
    BY <1>2, <2>1, DoneRead
  <2>7. ~astray /\ ~MarkerSent /\ Sync
    BY <1>4, <1>5 DEF IInv, SyncOK, Sync, MarkerSent, Closing
  <2>8. SyncOK'
    <3>1. ~astray' /\ stream' = stream
      BY <1>3, <2>1, <2>7 DEF MarkerSent
    <3>2. ReadsOn(0)
      BY <3>1, ReadsNothing DEF IInv
    <3>3. Sync'
      BY <2>1, <2>2, <2>7, <3>2, SyncIdle
    <3> QED
      BY <3>1, <3>3 DEF SyncOK
  <2> QED
    BY <2>2, <2>3, <2>4, <2>5, <2>6, <2>8 DEF IInv
<1>6. CASE pc # "greet"
  <2>1. Waiting /\ Settle(FALSE)
        /\ UNCHANGED <<conf, conn, srv, inbox, tag, last, handed, present, flagged, removed>>
    BY <1>1, <1>6 DEF Waiting, ResultOfFailedRead
  <2>2. /\ at' = "send" /\ left' = 0
        /\ pc' \in {"handshake", "select", "search", "searchall", "loop", "post",
                    "expunge", "logout", "done"}
        /\ pc \in Closing => pc' \in Closing
        /\ pc = "fetch" => pc' \in Closing
        /\ pc' # "post"
    BY <2>1, SettledPlace DEF IInv
  <2>3. log' \in Seq(Record)
    BY <2>1, Settled
  <2>4. TypeOK'
    <3>1. deleted' \in BOOLEAN
      BY <2>1 DEF Settle
    <3>2. left' \in 0..NumLines + MaxSwallow
      BY <2>2, BoundAssumption DEF MaxSwallow
    <3>3. astray' \in BOOLEAN
      BY DEF IInv, TypeOK
    <3> QED
      BY <1>2, <2>1, <2>2, <2>3, <3>1, <3>2, <3>3 DEF IInv, TypeOK, Commands
  <2>5. MarkerSent \/ at = "literal" \/ astray => pc' \in Closing
    BY <1>4, <2>2 DEF IInv, SyncOK, Sync, MarkerSent
  <2>6. SyncOK'
    <3>1. CASE astray'
      BY <1>3, <2>5, <3>1 DEF SyncOK
    <3>2. CASE ~astray'
      <4>1. ~astray /\ at # "literal" /\ stream' = stream
        BY <3>2
      <4>2. ReadsOn(0)
        BY <4>1, ReadsNothing DEF IInv
      <4>3. left = 0
        <5>1. left \in Nat /\ ~(left > 0)
          BY <4>1, BoundAssumption DEF IInv, PlaceOK, TypeOK, MaxSwallow
        <5> QED
          BY <5>1
      <4>4. at' # "literal"
        BY <2>2
      <4>5. Sync'
        BY <2>1, <2>2, <2>5, <4>1, <4>2, <4>3, <4>4, SyncRead
      <4> QED
        BY <3>2, <4>5 DEF SyncOK
    <3> QED
      BY <3>1, <3>2
  <2>7. Whole'
    BY <2>2 DEF Whole
  <2> QED
    BY <1>2, <2>1, <2>4, <2>6, <2>7, SettledInv
<1> QED
  BY <1>5, <1>6

\* The client reads a line and takes it for what line is.
ReadsAs(line) ==
    /\ pc \in Commands /\ at = "read" /\ stream # << >>
    /\ line \in Meanings(Head(stream))
    /\ stream' = Tail(stream)
    /\ UNCHANGED <<conf, conn, server, tag, last, file, handed, astray, chatter, faults>>

LEMMA ReadFacts ==
    ASSUME IInv, NEW line, ReadsAs(line)
    PROVE  /\ Waiting /\ left = 0 /\ at = "read"
           /\ ReadsOn(1) /\ Follows(1) /\ 1 \in DOMAIN stream
           /\ Len(stream) \in Nat /\ DOMAIN stream = 1..Len(stream)
           /\ DOMAIN stream' = 1..Len(stream) - 1 /\ Len(stream') = Len(stream) - 1
           /\ \A i \in DOMAIN stream' : i + 1 \in DOMAIN stream /\ stream'[i] = stream[i + 1]
           /\ line \in Lines
           /\ ~astray => line = stream[1]
           /\ pc \notin Closing => ~astray
<1> USE DEF ReadsAs
<1>1. Waiting
  BY DEF Waiting
<1>2. left = 0
  <2>1. left \in Nat /\ ~(left > 0)
    BY BoundAssumption DEF IInv, PlaceOK, TypeOK, MaxSwallow
  <2> QED
    BY <2>1
<1>3. ReadsOn(1) /\ Follows(1) /\ 1 \in DOMAIN stream /\ Head(stream) = stream[1]
      /\ stream[1] \in Lines
  BY ReadsLine, ReadsFollows DEF IInv
<1>4. /\ Len(stream) \in Nat /\ DOMAIN stream = 1..Len(stream)
      /\ DOMAIN stream' = 1..Len(stream) - 1
  BY <1>3, ReadsDomain DEF IInv
<1>5. /\ Len(stream') = Len(stream) - 1
      /\ \A i \in DOMAIN stream' : i + 1 \in DOMAIN stream /\ stream'[i] = stream[i + 1]
  BY <1>3 DEF ReadsOn
<1>6. line \in Lines
  <2>1. tag \in Nat
    BY DEF IInv, TypeOK
  <2>2. \A n \in 1..MaxSwallow : n \in Sizes
    BY BoundAssumption DEF Sizes, MaxSwallow
  <2> QED
    BY <1>3, <2>1, <2>2, LineTypes DEF Meanings
<1>7. ~astray => line = stream[1]
  BY TakenAsIs
<1>8. pc \notin Closing => ~astray
  BY DEF IInv, SyncOK
<1> QED
  BY <1>1, <1>2, <1>3, <1>4, <1>5, <1>6, <1>7, <1>8

\* A line that is no challenge to answer leaves one that is to be read.
LEMMA ReadChallenge ==
    ASSUME IInv, NEW line, ReadsAs(line), UNCHANGED inbox,
           line.is # "plus" \/ ~(pc = "auth" /\ conf.mech = "xoauth2")
    PROVE  srv = "challenge" /\ conn = "up" /\ Len(inbox) = 1 /\ pc \notin Closing =>
               \E i \in DOMAIN stream' : stream'[i].is = "plus"
<1> SUFFICES ASSUME srv = "challenge", conn = "up", Len(inbox) = 1, pc \notin Closing
             PROVE  \E i \in DOMAIN stream' : stream'[i].is = "plus"
  OBVIOUS
<1>1. PICK j \in DOMAIN stream : stream[j].is = "plus"
  BY DEF IInv, ChallengeOK
<1>2. conf.mech = "xoauth2"
  BY <1>1 DEF IInv, ChallengeOK
<1>3. inbox # << >> /\ 1 \in DOMAIN inbox
  <2>1. inbox # << >>
    OBVIOUS
  <2>2. DOMAIN inbox = 1..Len(inbox)
    BY Basics DEF IInv
  <2> QED
    BY <2>1, <2>2
<1>4. inbox[1].name = "auth"
  BY <1>3 DEF IInv, ChallengeOK
<1>5. pc = "auth"
  BY <1>3, <1>4, AwaitedRequest
<1>6. j # 1
  BY <1>1, <1>2, <1>5, ReadFacts
<1>7. j \in 1..Len(stream) /\ Len(stream) \in Nat /\ DOMAIN stream' = 1..Len(stream) - 1
  BY <1>1, ReadFacts
<1>8. j - 1 \in DOMAIN stream' /\ (j - 1) + 1 = j
  BY <1>6, <1>7
<1>9. stream'[j - 1] = stream[j]
  BY <1>8, ReadFacts
<1> QED
  BY <1>1, <1>8, <1>9

\* A line that is not the completion awaited leaves it to come.
LEMMA ReadReply ==
    ASSUME IInv, NEW line, ReadsAs(line), UNCHANGED inbox,
           ~(line.is = "done" /\ line.tag = tag)
    PROVE  ReplyOK'
<1> SUFFICES ASSUME conn = "up", ~astray PROVE Coming'
  BY DEF ReplyOK, ReadsAs, server
<1>1. Coming /\ tag' = tag
  BY ReadFacts DEF IInv, ReplyOK, ReadsAs
<1>2. CASE \E i \in DOMAIN inbox : inbox[i].tag = tag
  BY <1>1, <1>2 DEF Coming
<1>3. CASE \E i \in DOMAIN stream : stream[i].is = "done" /\ stream[i].tag = tag
  <2>1. PICK j \in DOMAIN stream : stream[j].is = "done" /\ stream[j].tag = tag
    BY <1>3
  <2>2. j # 1
    BY <2>1, ReadFacts
  <2>3. j \in 1..Len(stream) /\ Len(stream) \in Nat /\ DOMAIN stream' = 1..Len(stream) - 1
    BY <2>1, ReadFacts
  <2>4. j - 1 \in DOMAIN stream' /\ (j - 1) + 1 = j
    BY <2>2, <2>3
  <2>5. stream'[j - 1] = stream[j]
    BY <2>4, ReadFacts
  <2> QED
    BY <1>1, <2>1, <2>4, <2>5 DEF Coming
<1> QED
  BY <1>1, <1>2, <1>3 DEF Coming

\* The place of the lines of a FETCH to each other.
LEMMA ReadFetch ==
    ASSUME IInv, NEW line, ReadsAs(line), UNCHANGED inbox, pc = "fetch",
           ~(line.is = "done" /\ line.tag = tag)
    PROVE  /\ ~astray /\ line = stream[1]
           /\ \A i \in DOMAIN stream' : stream'[i] = Completion(tag, TRUE) =>
                 \/ \E m \in DOMAIN stream' : stream'[m].is = "marker" /\ m < i
                 \/ line.is = "marker"
                 \/ file = Body(last)
                 \/ last \notin present
           /\ \A i \in DOMAIN stream' : stream'[i].is = "done" /\ stream'[i].tag = tag =>
                 ~FetchPending' /\ \A m \in DOMAIN stream' : stream'[m].is = "marker" => m < i
           /\ MarkerSent' => MarkerSent
           /\ FetchPending' => FetchPending
<1>1. ~astray /\ line = stream[1] /\ 1 \in DOMAIN stream
      /\ Len(stream) \in Nat /\ DOMAIN stream = 1..Len(stream)
      /\ DOMAIN stream' = 1..Len(stream) - 1
      /\ \A i \in DOMAIN stream' : i + 1 \in DOMAIN stream /\ stream'[i] = stream[i + 1]
  BY ReadFacts DEF Closing
<1>2. at = "read" /\ at # "send" /\ at # "literal"
  BY DEF ReadsAs
<1>3. ASSUME NEW i \in DOMAIN stream', stream'[i] = Completion(tag, TRUE),
             line.is # "marker", file # Body(last), last \in present
      PROVE  \E m \in DOMAIN stream' : stream'[m].is = "marker" /\ m < i
  <2>1. i + 1 \in DOMAIN stream /\ stream[i + 1] = Completion(tag, TRUE)
    BY <1>1, <1>3
  <2>2. PICK m \in DOMAIN stream : stream[m].is = "marker" /\ m < i + 1
    BY <1>2, <1>3, <2>1 DEF IInv, FetchOK
  <2>3. m # 1
    BY <1>1, <1>3, <2>2
  <2>4. m - 1 \in DOMAIN stream' /\ (m - 1) + 1 = m /\ m - 1 < i
    BY <1>1, <2>2, <2>3
  <2>5. stream'[m - 1] = stream[m]
    BY <1>1, <2>4
  <2> QED
    BY <2>2, <2>4, <2>5
<1>4. ASSUME NEW i \in DOMAIN stream', stream'[i].is = "done", stream'[i].tag = tag
      PROVE  ~FetchPending' /\ \A m \in DOMAIN stream' : stream'[m].is = "marker" => m < i
  <2>1. i + 1 \in DOMAIN stream /\ stream[i + 1].is = "done" /\ stream[i + 1].tag = tag
    BY <1>1, <1>4
  <2>2. ~FetchPending /\ \A m \in DOMAIN stream : stream[m].is = "marker" => m < i + 1
    BY <1>2, <2>1 DEF IInv, FetchOK
  <2>3. ASSUME NEW m \in DOMAIN stream', stream'[m].is = "marker"
        PROVE  m < i
    <3>1. m + 1 < i + 1
      BY <1>1, <2>2, <2>3
    <3> QED
      BY <1>1, <3>1
  <2> QED
    BY <2>2, <2>3 DEF FetchPending
<1>5. MarkerSent' => MarkerSent
  BY <1>1 DEF MarkerSent
<1>6. FetchPending' => FetchPending
  BY DEF FetchPending
<1> QED
  BY <1>1, <1>3, <1>4, <1>5, <1>6

\* The head of a literal.
LEMMA MarkerRead ==
    ASSUME IInv, NEW line, ReadsAs(line), line.is = "marker", left' = line.size,
           at' = "literal", UNCHANGED <<inbox, log, pc, todo, deleted>>
    PROVE  IInv'
<1> USE DEF ReadsAs, server
<1>1. /\ Waiting /\ left = 0 /\ at = "read"
      /\ ReadsOn(1) /\ Follows(1) /\ 1 \in DOMAIN stream
      /\ Len(stream) \in Nat /\ DOMAIN stream = 1..Len(stream)
      /\ DOMAIN stream' = 1..Len(stream) - 1 /\ Len(stream') = Len(stream) - 1
      /\ \A i \in DOMAIN stream' : i + 1 \in DOMAIN stream /\ stream'[i] = stream[i + 1]
      /\ line \in Lines
      /\ ~astray => line = stream[1]
      /\ pc \notin Closing => ~astray
  BY ReadFacts
<1>2. left' \in 1..NumLines + MaxSwallow
  BY <1>1, LineKinds, SizesRange
<1>3. NumLines \in Nat \ {0}
  BY BoundAssumption
<1>4. LogOK' /\ AuthOnce' /\ InboxOK' /\ Whole' /\ StoreOK' /\ StoreAfterWhole' /\ Waiting'
  BY <1>1, Stays
<1>5. TypeOK'
  <2>1. left' \in 0..NumLines + MaxSwallow
    BY <1>2, <1>3 DEF MaxSwallow
  <2> QED
    BY <1>1, <2>1 DEF IInv, TypeOK, ReadsOn
<1>6. PlaceOK'
  <2>1. left' > 0
    BY <1>2, <1>3 DEF MaxSwallow
  <2> QED
    BY <2>1 DEF PlaceOK, Commands
<1>7. ChallengeOK'
  <2>1. pc' \notin {"greet", "starttls", "handshake"} \/ pc' = "starttls"
    BY DEF Commands
  <2>2. \A i \in DOMAIN stream' : stream'[i].is = "plus" => pc # "starttls"
    BY <1>1 DEF IInv, ChallengeOK
  <2>3. srv = "challenge" /\ conn = "up" /\ Len(inbox) = 1 /\ pc \notin Closing =>
            \E i \in DOMAIN stream' : stream'[i].is = "plus"
    BY ReadChallenge
  <2> QED
    BY <1>1, <2>1, <2>2, <2>3, ChallengeRead
<1>8. DoneOK'
  BY <1>1, DoneRead
<1>9. ASSUME ~astray
      PROVE  /\ stream[1] = Marker(NumLines) /\ left' = NumLines
             /\ \A i \in DOMAIN stream' : i <= NumLines => stream'[i] = Text(last, i)
             /\ \A i \in DOMAIN stream' : stream'[i].is # "marker"
             /\ \A i \in DOMAIN stream' : stream'[i].is = "text" => i <= NumLines
             /\ pc \in Closing \/ pc = "fetch"
             /\ conn = "up" => NumLines < Len(stream')
             /\ ~FetchPending
  <2>1. Sync /\ stream[1].is = "marker"
    BY <1>1, <1>9 DEF IInv, SyncOK
  <2>2. /\ stream[1] = Marker(NumLines)
        /\ \A k \in 1..NumLines : 1 + k \in DOMAIN stream => stream[1 + k] = Text(last, k)
        /\ conn = "up" => 1 + NumLines < Len(stream)
        /\ pc \in Closing \/ pc = "fetch"
        /\ MarkerSent
    BY <1>1, <2>1 DEF Sync, MarkerSent
  <2>3. left' = NumLines
    BY <1>1, <1>9, <2>2 DEF Marker
  <2>4. ASSUME NEW i \in DOMAIN stream', i <= NumLines
        PROVE  stream'[i] = Text(last, i)
    <3>1. i \in 1..NumLines /\ 1 + i = i + 1
      BY <1>1, <1>3, <2>4
    <3> QED
      BY <1>1, <2>2, <3>1
  <2>5. ASSUME NEW i \in DOMAIN stream' PROVE stream'[i].is # "marker"
    <3>1. i + 1 # 1 /\ i + 1 \in DOMAIN stream
      BY <1>1
    <3> QED
      BY <1>1, <2>1, <3>1 DEF Sync
  <2>6. ASSUME NEW i \in DOMAIN stream', stream'[i].is = "text"
        PROVE  i <= NumLines
    <3>1. i + 1 \in DOMAIN stream /\ stream[i + 1].is = "text" /\ ~(i + 1 <= 0)
      BY <1>1, <2>6
    <3>2. PICK m \in DOMAIN stream : stream[m].is = "marker" /\ i + 1 <= m + NumLines
      BY <1>1, <2>1, <3>1 DEF Sync
    <3>3. m = 1
      BY <1>1, <2>1, <3>2 DEF Sync
    <3> QED
      BY <1>1, <1>3, <3>2, <3>3
  <2> QED
    BY <1>1, <1>3, <2>1, <2>2, <2>3, <2>4, <2>5, <2>6 DEF Sync
<1>10. SyncOK'
  <2>1. CASE astray
    BY <2>1 DEF IInv, SyncOK
  <2>2. CASE ~astray
    <3>1. \A i \in DOMAIN stream' : NumLines - left' + i = i /\ i <= left' => i <= NumLines
      BY <1>1, <1>3, <1>9, <2>2
    <3>2. ~MarkerSent' /\ ~FetchPending'
      BY <1>9, <2>2 DEF MarkerSent, FetchPending
    <3>3. Sync'
      BY <1>3, <1>9, <2>2, <3>1, <3>2 DEF Sync, MarkerSent
    <3> QED
      BY <2>2, <3>3 DEF SyncOK
  <2> QED
    BY <2>1, <2>2
<1>11. FetchOK'
  <2> SUFFICES ASSUME pc = "fetch" PROVE FetchOK'
    BY DEF FetchOK
  <2>1. ~astray
    BY <1>1 DEF Closing
  <2>2. file = << >>
    <3>1. MarkerSent
      BY <1>1, <2>1 DEF MarkerSent
    <3> QED
      BY <1>1, <3>1 DEF IInv, FetchOK
  <2>3. /\ Len(file') = NumLines - left'
        /\ \A i \in DOMAIN file' : file'[i] = Text(last', i)
    BY <1>3, <1>9, <2>1, <2>2
  <2>4. \A i \in DOMAIN stream' : stream'[i].is = "done" /\ stream'[i].tag = tag =>
            ~FetchPending' /\ \A m \in DOMAIN stream' : stream'[m].is = "marker" => m < i
    BY ReadFetch
  <2> QED
    BY <2>3, <2>4 DEF FetchOK
<1>12. ReplyOK'
  BY ReadReply
<1> QED
  BY <1>4, <1>5, <1>6, <1>7, <1>8, <1>10, <1>11, <1>12 DEF IInv

\* The completion of the command.
LEMMA DoneTaken ==
    ASSUME IInv, NEW line, ReadsAs(line), line.is = "done", line.tag = tag,
           Settle(line.ok), UNCHANGED <<inbox, todo>>
    PROVE  IInv'
<1> USE DEF ReadsAs, server
<1>1. /\ Waiting /\ left = 0 /\ at = "read"
      /\ ReadsOn(1) /\ Follows(1) /\ 1 \in DOMAIN stream
      /\ line \in Lines
      /\ ~astray => line = stream[1]
      /\ pc \notin Closing => ~astray
  BY ReadFacts
<1>2. line.ok \in BOOLEAN /\ line = Completion(tag, line.ok)
  BY <1>1, LineKinds
<1>3. line.ok => pc \in Closing \/ log[tag].outcome = "ok"
  BY <1>1 DEF IInv, DoneOK
<1>4. /\ at' = "send" /\ left' = 0
      /\ pc' \in {"handshake", "select", "search", "searchall", "loop", "post",
                  "expunge", "logout", "done"}
      /\ pc \in Closing => pc' \in Closing
      /\ pc' = "post" => pc = "fetch" /\ line.ok
  BY <1>1, <1>2, SettledPlace DEF IInv
<1>5. log' \in Seq(Record)
  BY <1>1, <1>2, <1>3, Settled
<1>6. TypeOK'
  <2>1. deleted' \in BOOLEAN
    BY DEF Settle
  <2>2. left' \in 0..NumLines + MaxSwallow
    BY <1>4, BoundAssumption DEF MaxSwallow
  <2> QED
    BY <1>1, <1>4, <1>5, <2>1, <2>2 DEF IInv, TypeOK, ReadsOn, Commands
<1>7. pc = "fetch" => ~MarkerSent /\ line = stream[1]
  <2> SUFFICES ASSUME pc = "fetch" PROVE ~MarkerSent /\ line = stream[1]
    OBVIOUS
  <2>1. line = stream[1] /\ stream[1].is = "done" /\ stream[1].tag = tag /\ at # "send"
    BY <1>1 DEF Closing
  <2>2. \A m \in DOMAIN stream : stream[m].is = "marker" => m < 1
    BY <1>1, <2>1 DEF IInv, FetchOK
  <2>3. \A m \in DOMAIN stream : ~(m < 1)
    BY Basics DEF IInv
  <2> QED
    BY <2>1, <2>2, <2>3 DEF MarkerSent
<1>8. SyncOK'
  <2>1. CASE astray
    BY <1>4, <2>1 DEF IInv, SyncOK
  <2>2. CASE ~astray
    <3>1. MarkerSent => pc' \in Closing
      BY <1>4, <1>7, <2>2 DEF IInv, SyncOK, Sync, MarkerSent
    <3>2. Sync'
      BY <1>1, <1>4, <2>2, <3>1, SyncRead
    <3> QED
      BY <2>2, <3>2 DEF SyncOK
  <2> QED
    BY <2>1, <2>2
<1>9. Whole'
  <2> SUFFICES ASSUME pc' = "post"
               PROVE  file = Body(last) \/ (file = << >> /\ last \notin present)
    BY DEF Whole
  <2>1. pc = "fetch" /\ stream[1] = Completion(tag, TRUE) /\ ~MarkerSent
    BY <1>2, <1>4, <1>7
  <2>2. ~\E m \in DOMAIN stream : stream[m].is = "marker" /\ m < 1
    BY <2>1 DEF MarkerSent
  <2>3. at # "send" /\ at # "literal"
    BY <1>1
  <2> QED
    BY <1>1, <2>1, <2>2, <2>3 DEF IInv, FetchOK
<1> QED
  BY <1>1, <1>2, <1>3, <1>6, <1>8, <1>9, SettledInv

\* A line that changes nothing the invariant is about.
LEMMA OtherTaken ==
    ASSUME IInv, NEW line, ReadsAs(line), line.is # "marker",
           ~(line.is = "done" /\ line.tag = tag),
           line.is # "plus" \/ ~(pc = "auth" /\ conf.mech = "xoauth2"),
           UNCHANGED <<inbox, log, pc, at, left, deleted>>, todo' \in SUBSET Uids
    PROVE  IInv'
<1> USE DEF ReadsAs, server
<1>1. /\ Waiting /\ left = 0 /\ at = "read" /\ at # "send"
      /\ ReadsOn(1) /\ Follows(1)
      /\ ~astray => line = stream[1]
      /\ pc \notin Closing => ~astray
  BY ReadFacts
<1>2. LogOK' /\ AuthOnce' /\ InboxOK' /\ Whole' /\ StoreOK' /\ StoreAfterWhole' /\ Waiting'
  BY <1>1, Stays
<1>3. TypeOK'
  BY <1>1 DEF IInv, TypeOK, ReadsOn
<1>4. PlaceOK'
  BY DEF IInv, PlaceOK
<1>5. ChallengeOK'
  <2>1. \A i \in DOMAIN stream' : stream'[i].is = "plus" => pc # "starttls"
    <3>1. \A i \in DOMAIN stream' : i + 1 \in DOMAIN stream /\ stream'[i] = stream[i + 1]
      BY ReadFacts
    <3> QED
      BY <3>1 DEF IInv, ChallengeOK
  <2>2. srv = "challenge" /\ conn = "up" /\ Len(inbox) = 1 /\ pc \notin Closing =>
            \E i \in DOMAIN stream' : stream'[i].is = "plus"
    BY ReadChallenge
  <2> QED
    BY <1>1, <2>1, <2>2, ChallengeRead DEF Commands
<1>6. DoneOK'
  BY <1>1, DoneRead
<1>7. SyncOK'
  <2>1. CASE astray
    BY <2>1 DEF IInv, SyncOK
  <2>2. CASE ~astray
    <3>1. MarkerSent => pc' \in Closing \/ (pc' = "fetch" /\ at' # "send")
      BY <2>2 DEF IInv, SyncOK, Sync, MarkerSent
    <3>2. Sync'
      BY <1>1, <2>2, <3>1, SyncRead
    <3> QED
      BY <2>2, <3>2 DEF SyncOK
  <2> QED
    BY <2>1, <2>2
<1>8. FetchOK'
  <2> SUFFICES ASSUME pc = "fetch" PROVE FetchOK'
    BY DEF FetchOK
  <2>1. file = << >> \/ (file = Body(last) /\ ~MarkerSent /\ ~FetchPending)
    BY <1>1 DEF IInv, FetchOK
  <2>2. /\ \A i \in DOMAIN stream' : stream'[i] = Completion(tag, TRUE) =>
              \/ \E m \in DOMAIN stream' : stream'[m].is = "marker" /\ m < i
              \/ file = Body(last)
              \/ last \notin present
        /\ \A i \in DOMAIN stream' : stream'[i].is = "done" /\ stream'[i].tag = tag =>
              ~FetchPending' /\ \A m \in DOMAIN stream' : stream'[m].is = "marker" => m < i
        /\ MarkerSent' => MarkerSent
        /\ FetchPending' => FetchPending
    BY ReadFetch
  <2> QED
    BY <1>1, <2>1, <2>2 DEF FetchOK
<1>9. ReplyOK'
  BY ReadReply
<1> QED
  BY <1>2, <1>3, <1>4, <1>5, <1>6, <1>7, <1>8, <1>9 DEF IInv

\* A challenge is answered.
LEMMA PlusTaken ==
    ASSUME IInv, NEW line, ReadsAs(line), line.is = "plus",
           pc = "auth", conf.mech = "xoauth2", AnswerChallenge,
           UNCHANGED <<log, pc, at, left, todo, deleted>>
    PROVE  IInv'
<1> USE DEF ReadsAs, server
<1> DEFINE r == [name |-> "", tag |-> tag, no |-> tag, uid |-> last]
<1>1. /\ Waiting /\ left = 0 /\ at = "read" /\ at # "send"
      /\ ReadsOn(1) /\ Follows(1) /\ 1 \in DOMAIN stream
      /\ Len(stream) \in Nat /\ DOMAIN stream = 1..Len(stream)
      /\ DOMAIN stream' = 1..Len(stream) - 1
      /\ \A i \in DOMAIN stream' : i + 1 \in DOMAIN stream /\ stream'[i] = stream[i + 1]
      /\ line = stream[1] /\ ~astray /\ pc \notin Closing
  BY ReadFacts DEF Closing
<1>2. tag = Len(log) /\ tag > 0 /\ tag \in Nat
  BY <1>1, Basics DEF IInv, LogOK
<1>3. /\ inbox' \in Seq(Requests)
      /\ Len(inbox) \in Nat /\ DOMAIN inbox = 1..Len(inbox)
      /\ \A i \in DOMAIN inbox : i \in DOMAIN inbox' /\ inbox'[i] = inbox[i]
      /\ conn # "up" => inbox' = inbox
      /\ conn = "up" => /\ Len(inbox') = Len(inbox) + 1
                      /\ DOMAIN inbox' = 1..Len(inbox) + 1
                      /\ inbox'[Len(inbox) + 1] = r
  BY <1>2, SendInbox DEF IInv, AnswerChallenge
<1>4. conn = "up" => /\ srv = "challenge" /\ Len(inbox) = 1 /\ inbox # << >>
                   /\ inbox[1].name = "auth" /\ inbox[1].no = tag /\ 1 \in DOMAIN inbox
  <2> SUFFICES ASSUME conn = "up"
               PROVE  /\ srv = "challenge" /\ Len(inbox) = 1 /\ inbox # << >>
                      /\ inbox[1].name = "auth" /\ inbox[1].no = tag /\ 1 \in DOMAIN inbox
    OBVIOUS
  <2>1. srv = "challenge" /\ Len(inbox) = 1
    BY <1>1 DEF IInv, ChallengeOK
  <2>2. 1 \in DOMAIN inbox
    <3>1. DOMAIN inbox = 1..Len(inbox)
      BY <1>3
    <3> QED
      BY <2>1, <3>1
  <2>0. inbox # << >>
    <3>1. Len(inbox) = 1 => inbox # << >>
      OBVIOUS
    <3> QED
      BY <2>1, <3>1
  <2>3. inbox[1].name = "auth" /\ 1 \in DOMAIN inbox
    BY <2>0, <2>1, <2>2 DEF IInv, ChallengeOK
  <2>4. inbox[1].no = tag
    BY <1>1, <2>3, AwaitedRequest
  <2> QED
    BY <2>0, <2>1, <2>3, <2>4
<1> HIDE DEF r
<1>5. conn = "up" => /\ Len(inbox') = 2 /\ DOMAIN inbox' = {1, 2} /\ 1 \in DOMAIN inbox
                   /\ inbox'[1] = inbox[1] /\ inbox'[2] = r
  <2> SUFFICES ASSUME conn = "up"
               PROVE  /\ Len(inbox') = 2 /\ DOMAIN inbox' = {1, 2} /\ 1 \in DOMAIN inbox
                      /\ inbox'[1] = inbox[1] /\ inbox'[2] = r
    OBVIOUS
  <2>1. Len(inbox) = 1 /\ 1 \in DOMAIN inbox
    BY <1>3, <1>4
  <2>2. Len(inbox') = 2 /\ DOMAIN inbox' = 1..2 /\ inbox'[2] = r
    BY <1>3, <2>1
  <2> QED
    BY <1>3, <2>1, <2>2
<1>6. ~\E i \in DOMAIN stream' : stream'[i].is = "plus"
  <2> SUFFICES ASSUME NEW i \in DOMAIN stream', stream'[i].is = "plus" PROVE FALSE
    OBVIOUS
  <2>1. i + 1 = 1
    BY <1>1 DEF IInv, ChallengeOK
  <2> QED
    BY <1>1, <2>1
<1>7. LogOK' /\ AuthOnce' /\ Whole' /\ StoreOK' /\ StoreAfterWhole' /\ PlaceOK' /\ Waiting'
  BY <1>1 DEF IInv, LogOK, AuthOnce, Whole, StoreOK, StoreAfterWhole, PlaceOK, Waiting
<1>8. TypeOK'
  BY <1>1, <1>3 DEF IInv, TypeOK, ReadsOn
<1>9. InboxOK'
  <2>1. CASE conn # "up"
    <3>1. UNCHANGED inbox
      BY <1>3, <2>1
    <3> QED
      BY <1>1, <3>1, Stays
  <2>2. CASE conn = "up"
    <3>1. RequestOK(inbox[1])
      BY <1>5, <2>2 DEF IInv, InboxOK
    <3>2. RequestOK(inbox[1])'
      <4>1. RequestOK(inbox[1]) /\ Waiting' /\ inbox'[1] = inbox[1]
        BY <1>5, <1>7, <2>2, <3>1
      <4> QED
        BY <1>1, <4>1 DEF RequestOK
    <3>3. \A j \in 1..tag : tag <= j => log[j].outcome = "open"
      BY <1>2, <1>4, <2>2, <3>1, RequestFacts
    <3>4. /\ r.name = "" /\ r.tag = tag /\ r.no = tag
      BY DEF r
    <3>5. tag \in 1..tag
      BY <1>2
    <3>6. RequestOK(inbox[2])'
      BY <1>5, <2>2, <3>3, <3>4, <3>5 DEF RequestOK
    <3>7. inbox'[1].name = "auth" /\ inbox'[2].name = "" /\ inbox'[1].no = inbox'[2].no
      BY <1>4, <1>5, <2>2, <3>4
    <3>8. \A i \in DOMAIN inbox' : i = 1 \/ i = 2
      BY <1>5, <2>2
    <3>9. \A i \in DOMAIN inbox' : RequestOK(inbox[i])'
      BY <3>2, <3>6, <3>8
    <3>10. \A i, j \in DOMAIN inbox' : i < j => i = 1 /\ j = 2
      BY <3>8
    <3>11. srv' = "challenge"
      BY <1>4, <2>2
    <3> QED
      BY <3>7, <3>8, <3>9, <3>10, <3>11 DEF InboxOK
  <2> QED
    BY <2>1, <2>2
<1>10. ChallengeOK'
  <2>1. CASE conn # "up"
    BY <1>3, <1>6, <2>1 DEF IInv, ChallengeOK
  <2>2. CASE conn = "up"
    <3>1. inbox'[1].name = "auth" /\ inbox' # << >> /\ Len(inbox') # 1
        <4>1. Len(inbox') = 2 /\ inbox'[1].name = "auth"
        BY <1>4, <1>5, <2>2
      <4>2. Len(inbox') = 2 => inbox' # << >>
        OBVIOUS
      <4> QED
        BY <4>1, <4>2
    <3> QED
      BY <1>6, <2>2, <3>1 DEF IInv, ChallengeOK
  <2> QED
    BY <2>1, <2>2
<1>11. DoneOK'
  BY <1>1, DoneRead
<1>12. SyncOK'
  <2>1. ~MarkerSent
    BY <1>1 DEF IInv, SyncOK, Sync, MarkerSent, Closing
  <2>2. FetchPending' => FetchPending
    <3>1. conn = "up" => ~FetchPending'
      <4>1. r.name = ""
        BY DEF r
      <4> QED
        BY <1>4, <1>5, <4>1 DEF FetchPending
    <3> QED
      BY <1>3, <3>1 DEF FetchPending
  <2>3. Sync'
    BY <1>1, <2>1, <2>2, SyncReads
  <2> QED
    BY <1>1, <2>3 DEF SyncOK
<1>13. FetchOK'
  BY DEF FetchOK
<1>14. ReplyOK'
  <2> SUFFICES ASSUME conn = "up" PROVE Coming'
    BY DEF ReplyOK
  <2>1. inbox'[1] = inbox[1] /\ inbox[1].tag = tag /\ 1 \in DOMAIN inbox'
    BY <1>4, <1>5 DEF IInv, InboxOK, RequestOK
  <2> QED
    BY <2>1 DEF Coming
<1> QED
  BY <1>7, <1>8, <1>9, <1>10, <1>11, <1>12, <1>13, <1>14 DEF IInv

LEMMA ReadLineStep == ASSUME IInv, ReadLine PROVE IInv'
<1>1. PICK line \in Meanings(Head(stream)) : Take(line)
  BY DEF ReadLine
<1>2. ReadsAs(line)
  BY DEF ReadLine, ReadsAs
<1>3. line \in Lines /\ todo \in SUBSET Uids
  BY <1>2, ReadFacts DEF IInv, TypeOK
<1>4. CASE line.is = "marker"
  BY <1>1, <1>2, <1>4, MarkerRead DEF Take, parseLiteral
<1>5. CASE line.is = "done" /\ line.tag = tag
  BY <1>1, <1>2, <1>5, DoneTaken DEF Take
<1>6. CASE line.is = "plus" /\ pc = "auth" /\ conf.mech = "xoauth2"
  BY <1>1, <1>2, <1>6, PlusTaken DEF Take
<1>7. CASE line.is = "found" /\ pc = "search"
  <2>1. line.uids \in SUBSET Uids /\ todo' = todo \cup line.uids
    BY <1>1, <1>3, <1>7, LineKinds DEF Take
  <2>2. UNCHANGED <<inbox, log, pc, at, left, deleted>>
    BY <1>1, <1>7 DEF Take
  <2> QED
    BY <1>2, <1>3, <1>7, <2>1, <2>2, OtherTaken
<1>8. CASE \/ line.is \in {"plain", "greeting", "text"}
           \/ line.is = "done" /\ line.tag # tag
           \/ line.is = "plus" /\ ~(pc = "auth" /\ conf.mech = "xoauth2")
           \/ line.is = "found" /\ pc # "search"
  <2>1. UNCHANGED <<inbox, log, pc, at, left, todo, deleted>>
    BY <1>1, <1>8 DEF Take
  <2> QED
    BY <1>2, <1>3, <1>8, <2>1, OtherTaken
<1> QED
  BY <1>1, <1>4, <1>5, <1>6, <1>7, <1>8 DEF Take

\* A line of a literal is copied.
LEMMA CopyLine ==
    ASSUME IInv, CopyLiteral, stream' = Tail(stream),
           file' = IF pc = "fetch" THEN Append(file, Head(stream)) ELSE file,
           left' = left - 1, at' = IF left = 1 THEN "read" ELSE "literal",
           UNCHANGED <<log, pc, deleted, astray, faults>>
    PROVE  IInv'
<1> USE DEF CopyLiteral, server
<1>1. /\ ReadsOn(1) /\ Follows(1) /\ 1 \in DOMAIN stream /\ Head(stream) = stream[1]
      /\ stream[1] \in Lines
  BY ReadsLine, ReadsFollows DEF IInv
<1>2. /\ Len(stream) \in Nat /\ DOMAIN stream = 1..Len(stream)
      /\ DOMAIN stream' = 1..Len(stream) - 1
  BY <1>1, ReadsDomain DEF IInv
<1>3. /\ Len(stream') = Len(stream) - 1 /\ stream' \in Seq(Lines)
      /\ \A i \in DOMAIN stream' : i + 1 \in DOMAIN stream /\ stream'[i] = stream[i + 1]
  BY <1>1 DEF ReadsOn
<1>4. /\ left \in Nat \ {0} /\ left <= NumLines + 2 /\ NumLines \in Nat \ {0}
      /\ left' \in Nat /\ (left' > 0 <=> at' = "literal") /\ left' < left
  <2>1. left \in 0..NumLines + 2 /\ NumLines \in Nat \ {0}
    BY BoundAssumption DEF IInv, TypeOK, MaxSwallow
  <2>2. left > 0
    BY DEF IInv, PlaceOK
  <2>3. left \in Nat \ {0} /\ left <= NumLines + 2
    BY <2>1, <2>2
  <2>4. left = 1 <=> at' = "read"
    OBVIOUS
  <2>5. left # 1 <=> at' = "literal"
    OBVIOUS
  <2>6. left' \in Nat /\ left' < left /\ (left' > 0 <=> left # 1)
    BY <2>3
  <2> QED
    BY <2>1, <2>3, <2>5, <2>6
<1>5. Waiting /\ at = "literal" /\ at' \in {"read", "literal"}
  BY DEF IInv, PlaceOK, Waiting
<1>6. ~astray => /\ Sync /\ left <= NumLines /\ stream[1] = Text(last, NumLines - left + 1)
                 /\ ~MarkerSent /\ ~FetchPending /\ pc \in Closing \cup {"fetch"}
  <2> SUFFICES ASSUME ~astray
               PROVE  /\ Sync /\ left <= NumLines /\ stream[1] = Text(last, NumLines - left + 1)
                      /\ ~MarkerSent /\ ~FetchPending /\ pc \in Closing \cup {"fetch"}
    OBVIOUS
  <2>1. Sync
    BY DEF IInv, SyncOK
  <2>2. left <= NumLines
    BY <1>4, <2>1 DEF Sync
  <2>3. stream[1] = Text(last, NumLines - left + 1)
    <3>1. 1 <= left
      BY <1>4
    <3> QED
      BY <1>1, <2>1, <3>1 DEF Sync
  <2>4. ~MarkerSent /\ ~FetchPending
    BY <1>4, <2>1 DEF Sync, MarkerSent
  <2> QED
    BY <1>5, <2>1, <2>2, <2>3, <2>4 DEF Sync
<1>7. pc \notin Closing => ~astray /\ pc = "fetch"
  BY <1>6 DEF IInv, SyncOK
<1>8. LogOK' /\ AuthOnce' /\ InboxOK' /\ Whole' /\ StoreOK' /\ StoreAfterWhole' /\ Waiting'
  BY <1>5, Stays
<1>9. TypeOK'
  <2>1. file' \in Seq(Lines)
    BY <1>1, AppendProperties DEF IInv, TypeOK
  <2>2. left' \in 0..NumLines + MaxSwallow
    BY <1>4 DEF MaxSwallow
  <2> QED
    BY <1>3, <1>5, <2>1, <2>2 DEF IInv, TypeOK
<1>10. PlaceOK'
  BY <1>4, <1>5 DEF IInv, PlaceOK
<1>11. ChallengeOK'
  <2>1. \A i \in DOMAIN stream' : stream'[i].is = "plus" => pc # "starttls"
    BY <1>3 DEF IInv, ChallengeOK
  <2>2. ~(srv = "challenge" /\ Len(inbox) = 1 /\ pc \notin Closing)
    <3> SUFFICES ASSUME srv = "challenge", Len(inbox) = 1, pc \notin Closing PROVE FALSE
      OBVIOUS
    <3>1. inbox # << >>
      BY OneRequest
    <3>2. DOMAIN inbox = 1..Len(inbox)
      BY Basics DEF IInv
    <3>3. inbox[1].name = "auth" /\ 1 \in DOMAIN inbox
      BY <3>1, <3>2 DEF IInv, ChallengeOK
    <3> QED
      BY <1>7, <3>3, AwaitedRequest
  <2> QED
    BY <1>1, <1>5, <2>1, <2>2, ChallengeRead DEF Waiting, Commands
<1>12. DoneOK'
  BY <1>1, DoneRead
<1>13. SyncOK'
  <2>1. CASE astray
    BY <2>1 DEF IInv, SyncOK
  <2>2. CASE ~astray
    <3>1. left' \in 0..NumLines
      BY <1>4, <1>6, <2>2
    <3>2. ASSUME NEW i \in DOMAIN stream', i <= left'
          PROVE  stream'[i] = Text(last, NumLines - left' + i)
      <4>1. i + 1 \in DOMAIN stream /\ i + 1 <= left
        BY <1>2, <1>4, <3>2
      <4>2. stream[i + 1] = Text(last, NumLines - left + (i + 1))
        BY <1>6, <2>2, <4>1 DEF Sync
      <4>3. NumLines - left + (i + 1) = NumLines - left' + i
        BY <1>2, <1>4
      <4> QED
        BY <1>3, <4>2, <4>3
    <3>3. ASSUME NEW i \in DOMAIN stream', stream'[i].is = "text"
          PROVE  i <= left'
      <4>1. i + 1 \in DOMAIN stream /\ stream[i + 1].is = "text"
        BY <1>3, <3>3
      <4>2. i + 1 <= left
        BY <1>6, <2>2, <4>1 DEF Sync, MarkerSent
      <4> QED
        BY <1>2, <1>4, <4>2
    <3>4. ~MarkerSent' /\ ~FetchPending'
      BY <1>3, <1>6, <2>2 DEF MarkerSent, FetchPending
    <3>5. at' = "literal" => pc' \in Closing \cup {"fetch"}
      BY <1>6, <2>2
    <3>6. conn' = "up" /\ at' = "literal" => left' < Len(stream')
      BY <1>2, <1>3, <1>4, <1>5, <1>6, <2>2 DEF Sync
    <3>7. Sync'
      BY <3>1, <3>2, <3>3, <3>4, <3>5, <3>6 DEF Sync, MarkerSent
    <3> QED
      BY <2>2, <3>7 DEF SyncOK
  <2> QED
    BY <2>1, <2>2
<1>14. FetchOK'
  <2> SUFFICES ASSUME pc = "fetch" PROVE FetchOK'
    BY DEF FetchOK
  <2>1. ~astray
    BY <1>7 DEF Closing
  <2>2. Len(file) = NumLines - left /\ \A i \in DOMAIN file : file[i] = Text(last, i)
    BY <1>5 DEF IInv, FetchOK
  <2>3. file \in Seq(Lines)
    BY DEF IInv, TypeOK
  <2>4. file' = Append(file, stream[1])
    BY <1>1
  <2>5. /\ file' \in Seq(Lines) /\ DOMAIN file = 1..Len(file) /\ Len(file) \in Nat
        /\ Len(file') = Len(file) + 1 /\ DOMAIN file' = 1..Len(file) + 1
        /\ \A i \in DOMAIN file : i \in DOMAIN file' /\ file'[i] = file[i]
        /\ file'[Len(file) + 1] = stream[1]
    BY <1>1, <2>3, <2>4, AppendFacts
  <2>6. stream[1] = Text(last, Len(file) + 1)
    BY <1>6, <2>1, <2>2
  <2>7. ASSUME NEW i \in DOMAIN file'
        PROVE  file'[i] = Text(last, i)
    <3>1. CASE i \in DOMAIN file
      BY <2>2, <2>5, <3>1
    <3>2. CASE i \notin DOMAIN file
      <4>1. i = Len(file) + 1
        BY <2>5, <3>2
      <4> QED
        BY <2>5, <2>6, <4>1
    <3> QED
      BY <3>1, <3>2
  <2>8. Len(file') = NumLines - left'
    BY <1>4, <2>2, <2>5
  <2>9. at' = "read" => file' = Body(last)
    <3> SUFFICES ASSUME at' = "read" PROVE file' = Body(last)
      OBVIOUS
    <3>1. left = 1
      OBVIOUS
    <3>2. DOMAIN file' = 1..NumLines
      BY <1>4, <2>2, <2>5, <3>1
    <3>3. file' = [i \in 1..NumLines |-> file'[i]]
      <4>1. file' \in [1..Len(file') -> Lines]
        BY <2>5, LenProperties
      <4> QED
        BY <3>2, <4>1
    <3> QED
      BY <2>7, <3>2, <3>3 DEF Body
  <2>10. ~MarkerSent' /\ ~FetchPending'
    BY <1>3, <1>6, <2>1 DEF MarkerSent, FetchPending
  <2> QED
    BY <1>5, <2>7, <2>8, <2>9, <2>10 DEF FetchOK, MarkerSent
<1>15. ReplyOK'
  <2> SUFFICES ASSUME conn = "up", ~astray PROVE Coming'
    BY DEF ReplyOK
  <2>1. Coming
    BY <1>5 DEF IInv, ReplyOK
  <2>2. CASE \E i \in DOMAIN inbox : inbox[i].tag = tag
    BY <2>2 DEF Coming
  <2>3. CASE \E i \in DOMAIN stream : stream[i].is = "done" /\ stream[i].tag = tag
    <3>1. PICK j \in DOMAIN stream : stream[j].is = "done" /\ stream[j].tag = tag
      BY <2>3
    <3>2. j # 1
      BY <1>6, <3>1 DEF Text
    <3>3. j - 1 \in DOMAIN stream' /\ (j - 1) + 1 = j
      BY <1>2, <3>1, <3>2
    <3>4. stream'[j - 1] = stream[j]
      BY <1>3, <3>3
    <3> QED
      BY <3>1, <3>3, <3>4 DEF Coming
  <2> QED
    BY <2>1, <2>2, <2>3 DEF Coming
<1> QED
  BY <1>8, <1>9, <1>10, <1>11, <1>12, <1>13, <1>14, <1>15 DEF IInv

LEMMA CopyLiteralStep == ASSUME IInv, CopyLiteral PROVE IInv'
<1> USE DEF CopyLiteral, server
<1>1. CASE /\ stream' = Tail(stream)
           /\ file' = IF pc = "fetch" THEN Append(file, Head(stream)) ELSE file
           /\ left' = left - 1
           /\ at' = IF left = 1 THEN "read" ELSE "literal"
           /\ UNCHANGED <<log, pc, deleted, astray, faults>>
  BY <1>1, CopyLine
<1>2. CASE /\ pc = "fetch" /\ Fault("disk") /\ Settle(FALSE)
           /\ astray' = TRUE /\ UNCHANGED <<stream, file>>
  <2>1. Waiting /\ Follows(0)
    BY <1>2, ReadsNothing, ReadsFollows DEF IInv, Waiting, Commands
  <2>2. at' = "send" /\ left' = 0 /\ pc' \in Closing
    BY <1>2, <2>1, SettledPlace DEF IInv
  <2>3. log' \in Seq(Record)
    BY <1>2, <2>1, Settled
  <2>4. TypeOK'
    <3>1. faults' \in 0..MaxFaults
      BY <1>2, FaultRange DEF IInv
    <3>2. deleted' \in BOOLEAN
      BY <1>2 DEF Settle
    <3>3. left' \in 0..NumLines + MaxSwallow
      BY <2>2, BoundAssumption DEF MaxSwallow
    <3> QED
      BY <1>2, <2>2, <2>3, <3>1, <3>2, <3>3 DEF IInv, TypeOK, Closing, Commands
  <2>5. SyncOK' /\ Whole'
    BY <1>2, <2>2 DEF SyncOK, Whole, Closing
  <2> QED
    BY <1>2, <2>1, <2>4, <2>5, SettledInv
<1> QED
  BY <1>1, <1>2

(***************************************************************************)
(* A command is sent                                                       *)
(***************************************************************************)

LEMMA IssueStep == ASSUME IInv, Issue PROVE IInv'
<1> USE DEF Issue, server
<1>1. ~Waiting /\ Waiting' /\ at = "send" /\ pc \in Commands /\ pc' = pc /\ pc # ""
  BY DEF Waiting, Commands
<1>2. left = 0 /\ left' = 0
  <2>1. left \in Nat /\ ~(left > 0)
    BY BoundAssumption DEF IInv, PlaceOK, TypeOK, MaxSwallow
  <2> QED
    BY <2>1
<1>3. /\ log' \in Seq(Record) /\ Len(log') = tag + 1 /\ tag' = tag + 1
      /\ tag \in Nat /\ DOMAIN log = 1..tag /\ DOMAIN log' = 1..tag + 1
      /\ \A i \in 1..tag : log'[i] = log[i]
      /\ log'[tag + 1] = [name |-> pc, outcome |-> "open", verdict |-> "open"]
  BY IssueLog DEF IInv, LogOK
<1>4. PICK r : r = [name |-> pc, tag |-> tag + 1, no |-> tag + 1, uid |-> last]
  OBVIOUS
<1>24. r.name = pc /\ r.tag = tag + 1 /\ r.no = tag + 1 /\ r.uid = last
  BY <1>4
<1>5. /\ inbox' \in Seq(Requests)
      /\ Len(inbox) \in Nat /\ DOMAIN inbox = 1..Len(inbox)
      /\ \A i \in DOMAIN inbox : i \in DOMAIN inbox' /\ inbox'[i] = inbox[i]
      /\ conn # "up" => inbox' = inbox
      /\ conn = "up" => /\ Len(inbox') = Len(inbox) + 1
                      /\ DOMAIN inbox' = 1..Len(inbox) + 1
                      /\ inbox'[Len(inbox) + 1] = r
  <2>1. send(pc, tag + 1, tag + 1) /\ tag + 1 \in Nat
    BY <1>3 DEF IInv, LogOK, nextTag
  <2> QED
    BY <1>1, <1>4, <2>1, SendInbox DEF IInv
<1>6. /\ log'[tag + 1].name = pc /\ log'[tag + 1].outcome = "open"
      /\ log'[tag + 1].verdict = "open"
  BY <1>3
<1>7. \A i \in DOMAIN inbox' : i \in DOMAIN inbox \/ (i = Len(inbox) + 1 /\ inbox'[i] = r)
  BY <1>5
<1>8. \A i \in DOMAIN inbox : RequestOK(inbox[i]) /\ inbox[i].no \in 1..tag
  BY <1>3, RequestFacts DEF IInv, InboxOK
<1>9. \A i \in DOMAIN inbox : inbox[i].name \in {"auth", "fetch"} => pc \in Closing
  BY <1>1, AwaitedRequest
<1>10. TypeOK'
  <2>1. tag' \in Nat
    BY <1>3
  <2> QED
    BY <1>3, <1>5, <2>1 DEF IInv, TypeOK
<1>11. PlaceOK'
  BY <1>2 DEF IInv, PlaceOK, Commands
<1>12. LogOK'
  <2>1. \A i \in 1..tag : log'[i].verdict # "open"
    BY <1>1, <1>3 DEF IInv, LogOK
  <2>2. \A i \in 1..tag + 1 : i \in 1..tag \/ i = tag + 1
    BY <1>3
  <2>3. tag' > 0 /\ \A i \in 1..tag : i # tag + 1
    BY <1>3
  <2> QED
    BY <1>1, <1>3, <1>6, <2>1, <2>2, <2>3 DEF LogOK
<1>13. AuthOnce'
  <2>1. \A i \in 1..tag + 1 : i \in 1..tag \/ i = tag + 1
    BY <1>3
  <2>2. pc \in {"starttls", "auth"} => \A i \in 1..tag : log'[i].name # "auth"
    BY <1>3 DEF IInv, AuthOnce
  <2>3. \A i, j \in 1..tag : log'[i].name = "auth" /\ log'[j].name = "auth" => i = j
    BY <1>3 DEF IInv, AuthOnce
  <2>4. pc \notin {"greet", "handshake"} /\ at' # "send"
    BY DEF Commands
  <2>5. \A i, j \in 1..tag + 1 : log'[i].name = "auth" /\ log'[j].name = "auth" => i = j
    <3>1. CASE pc = "auth"
      BY <2>1, <2>2, <3>1
    <3>2. CASE pc # "auth"
      BY <1>6, <2>1, <2>3, <3>2
    <3> QED
      BY <3>1, <3>2
  <2>6. pc = "starttls" => \A i \in 1..tag + 1 : log'[i].name # "auth"
    BY <1>6, <2>1, <2>2
  <2> QED
    BY <1>1, <1>3, <2>4, <2>5, <2>6 DEF AuthOnce
<1>14. InboxOK'
  <2>1. ASSUME NEW i \in DOMAIN inbox
        PROVE  RequestOK(inbox[i])'
    <3>1. /\ inbox[i].tag = inbox[i].no /\ inbox[i].no \in 1..tag /\ inbox[i].no \in Nat
          /\ \A j \in 1..tag : inbox[i].no <= j => log[j].outcome = "open"
          /\ inbox[i].name # "" => inbox[i].name = log[inbox[i].no].name
      BY <1>3, <1>8, RequestFacts
    <3>2. /\ inbox[i].name = "fetch" => inbox[i].uid = last
          /\ inbox[i].name = "store" => inbox[i].uid \in handed \/ inbox[i].uid \notin present
      BY <1>8 DEF RequestOK
    <3>3. inbox[i].no \in 1..tag + 1
      <4>1. \A n \in 1..tag : n \in 1..tag + 1
        BY <1>3
      <4> QED
        BY <3>1, <4>1
    <3>4. \A j \in 1..tag + 1 : inbox[i].no <= j => log'[j].outcome = "open"
      <4>1. \A j \in 1..tag + 1 : j \in 1..tag \/ j = tag + 1
        BY <1>3
      <4> QED
        BY <1>3, <1>6, <3>1, <4>1
    <3>5. inbox[i].name # "" => inbox[i].name = log'[inbox[i].no].name
      BY <1>3, <3>1
    <3>6. inbox'[i] = inbox[i]
      BY <1>5
    <3> QED
      BY <1>1, <1>3, <1>9, <3>1, <3>2, <3>3, <3>4, <3>5, <3>6 DEF RequestOK
  <2>2. RequestOK(r)'
    <3>1. tag + 1 \in 1..tag + 1
      BY <1>3
    <3>2. \A j \in 1..tag + 1 : tag + 1 <= j => j = tag + 1
      BY <1>3
    <3>3. pc = "store" => last \in handed \/ last \notin present
      BY DEF IInv, StoreOK
    <3>4. /\ r.tag = r.no /\ r.no \in 1..tag'
          /\ \A j \in 1..tag' : r.no <= j => log'[j].outcome = "open"
      BY <1>3, <1>24, <1>6, <3>1, <3>2
    <3>5. /\ r.name = log'[r.no].name
          /\ Waiting' /\ r.no = tag'
          /\ r.uid = last'
          /\ r.name = "store" => r.uid \in handed' \/ r.uid \notin present'
      BY <1>1, <1>3, <1>24, <1>6, <3>3
    <3> QED
      BY <3>4, <3>5 DEF RequestOK
  <2>3. \A i \in DOMAIN inbox' : RequestOK(inbox[i])'
    BY <1>7, <2>1, <2>2
  <2>4. ASSUME NEW i \in DOMAIN inbox', NEW j \in DOMAIN inbox', i < j
        PROVE  \/ inbox'[i].no < inbox'[j].no
               \/ inbox'[j].name = "" /\ inbox'[i].no = inbox'[j].no
    <3>1. CASE j \in DOMAIN inbox
      <4>1. i \in DOMAIN inbox
        BY <1>5, <1>7, <2>4, <3>1
      <4> QED
        BY <1>5, <2>4, <3>1, <4>1 DEF IInv, InboxOK
    <3>2. CASE j \notin DOMAIN inbox
      <4>1. j = Len(inbox) + 1 /\ inbox'[j] = r
        BY <1>7, <3>2
      <4>2. i \in DOMAIN inbox
        BY <1>5, <1>7, <2>4, <4>1
      <4>3. inbox'[i].no \in 1..tag
        BY <1>5, <1>8, <4>2
      <4>4. \A n \in 1..tag : n < tag + 1
        BY <1>3
      <4> QED
        BY <1>24, <4>1, <4>3, <4>4
    <3> QED
      BY <3>1, <3>2
  <2>5. ASSUME NEW i \in DOMAIN inbox', inbox'[i].name = ""
        PROVE  i = 2 /\ srv' = "challenge" /\ inbox'[1].no = inbox'[2].no
    <3>1. i \in DOMAIN inbox
      BY <1>1, <1>24, <1>7, <2>5
    <3>2. i = 2 /\ srv = "challenge" /\ inbox[1].no = inbox[2].no
      BY <1>5, <2>5, <3>1 DEF IInv, InboxOK
    <3>3. 1 \in DOMAIN inbox /\ 2 \in DOMAIN inbox
      BY <1>5, <3>1, <3>2
    <3> QED
      BY <1>5, <3>2, <3>3
  <2>6. ASSUME NEW i \in DOMAIN inbox', NEW j \in DOMAIN inbox',
               inbox'[i].name = "fetch", inbox'[j].name = "fetch"
        PROVE  i = j
    <3>1. CASE pc = "fetch"
      <4>1. \A k \in DOMAIN inbox : inbox'[k].name # "fetch"
        BY <1>5, <1>9, <3>1 DEF Closing
      <4> QED
        BY <1>7, <2>6, <4>1
    <3>2. CASE pc # "fetch"
      <4>1. i \in DOMAIN inbox /\ j \in DOMAIN inbox
        BY <1>24, <1>7, <2>6, <3>2
      <4> QED
        BY <1>5, <2>6, <4>1 DEF IInv, InboxOK
    <3> QED
      BY <3>1, <3>2
  <2> QED
    BY <2>3, <2>4, <2>5, <2>6 DEF InboxOK
<1>15. inbox # << >> => /\ inbox' # << >> /\ 1 \in DOMAIN inbox /\ inbox'[1] = inbox[1]
                      /\ Len(inbox) # 0
  <2>1. inbox # << >> => Len(inbox) # 0 /\ 1 \in DOMAIN inbox
    BY LenProperties, EmptySeq DEF IInv, TypeOK
  <2>2. 1 \in DOMAIN inbox => inbox' # << >> /\ inbox'[1] = inbox[1]
    BY <1>5
  <2> QED
    BY <2>1, <2>2
<1>16. inbox = << >> => (conn = "up" => inbox' # << >>)
  BY <1>5
<1>17. ChallengeOK'
  <2>1. srv = "challenge" => inbox # << >> \/ conn = "down"
    BY DEF IInv, ChallengeOK
  <2>2. conn = "up" /\ srv = "challenge" => Len(inbox') # 1
    BY <1>5, <1>15, <2>1
  <2>3. srv = "challenge" =>
           /\ inbox' # << >> => inbox'[1].name = "auth"
           /\ inbox' = << >> => conn = "down"
    BY <1>5, <1>15, <2>1 DEF IInv, ChallengeOK
  <2>4. ASSUME NEW i \in DOMAIN stream, stream[i].is = "plus"
        PROVE  /\ conf.mech = "xoauth2" /\ pc # "auth"
               /\ pc \notin {"greet", "starttls", "handshake"}
               /\ \A j \in DOMAIN inbox' : inbox'[j].name = "auth" => srv = "challenge"
    <3>1. /\ conf.mech = "xoauth2" /\ pc # "auth"
          /\ pc \notin {"greet", "starttls", "handshake"}
          /\ \A j \in DOMAIN inbox : inbox[j].name = "auth" => srv = "challenge"
      BY <1>1, <2>4 DEF IInv, ChallengeOK
    <3> QED
      BY <1>24, <1>5, <1>7, <3>1
  <2>5. \A i, j \in DOMAIN stream : stream[i].is = "plus" /\ stream[j].is = "plus" => i = j
    BY DEF IInv, ChallengeOK
  <2> QED
    BY <1>1, <2>2, <2>3, <2>4, <2>5 DEF ChallengeOK
<1>18. \A i \in DOMAIN stream : stream[i].is = "done" =>
           stream[i].tag \in 1..tag /\ stream[i].tag # tag + 1
  <2>1. \A n \in 1..tag : n # tag + 1
    BY <1>3
  <2> QED
    BY <2>1 DEF IInv, DoneOK
<1>19. DoneOK'
  <2> SUFFICES ASSUME NEW i \in DOMAIN stream, stream[i].is = "done"
               PROVE  /\ stream[i].tag \in 1..tag + 1
                      /\ log'[stream[i].tag].outcome = IF stream[i].ok THEN "ok" ELSE "no"
    BY <1>3 DEF DoneOK
  <2>1. /\ stream[i].tag \in 1..tag
        /\ log[stream[i].tag].outcome = IF stream[i].ok THEN "ok" ELSE "no"
    BY DEF IInv, DoneOK
  <2>2. \A n \in 1..tag : n \in 1..tag + 1
    BY <1>3
  <2> QED
    BY <1>3, <2>1, <2>2
<1>20. SyncOK'
  <2>1. CASE astray
    BY <2>1 DEF IInv, SyncOK
  <2>2. CASE ~astray
    <3>1. Sync
      BY <2>2 DEF IInv, SyncOK
    <3>2. MarkerSent => pc \in Closing
      BY <1>1, <3>1 DEF Sync, MarkerSent
    <3>3. FetchPending' => FetchPending \/ pc = "fetch"
      BY <1>24, <1>5, <1>7 DEF FetchPending
    <3>4. FetchPending' => ~MarkerSent
      BY <3>1, <3>2, <3>3 DEF Sync, Closing
    <3>5. at' # "literal" /\ MarkerSent' = MarkerSent
      BY DEF MarkerSent
    <3>6. /\ \A i \in DOMAIN stream' : i <= left' => stream'[i] = Text(last', NumLines - left' + i)
          /\ \A i \in DOMAIN stream' : stream'[i].is = "text" => i <= left' \/
                \E m \in DOMAIN stream' : stream'[m].is = "marker" /\ m < i /\ i <= m + NumLines
          /\ left' \in 0..NumLines
      BY <3>1 DEF Sync
    <3>7. \A m \in DOMAIN stream' : stream'[m].is = "marker" =>
            /\ stream'[m] = Marker(NumLines)
            /\ \A k \in 1..NumLines : m + k \in DOMAIN stream' => stream'[m + k] = Text(last', k)
            /\ conn' = "up" => m + NumLines < Len(stream')
            /\ pc' \in Closing
      BY <3>1, <3>2 DEF Sync, MarkerSent
    <3>8. \A i, j \in DOMAIN stream' : stream'[i].is = "marker" /\ stream'[j].is = "marker" => i = j
      BY <3>1 DEF Sync
    <3>9. Sync'
      BY <1>2, <3>4, <3>5, <3>6, <3>7, <3>8 DEF Sync
    <3> QED
      BY <2>2, <3>9 DEF SyncOK
  <2> QED
    BY <2>1, <2>2
<1>21. FetchOK'
  <2> SUFFICES ASSUME pc = "fetch" PROVE FetchOK'
    BY DEF FetchOK
  <2>1. at' = "create"
    OBVIOUS
  <2>2. \A i \in DOMAIN stream' : stream'[i].is = "done" => stream'[i].tag # tag'
    BY <1>3, <1>18
  <2>3. Completion(tag', TRUE).is = "done" /\ Completion(tag', TRUE).tag = tag'
    BY DEF Completion
  <2>4. \A i \in DOMAIN stream' : stream'[i] # Completion(tag', TRUE)
    BY <2>2, <2>3
  <2> QED
    BY <2>1, <2>2, <2>4 DEF FetchOK
<1>22. Whole' /\ StoreOK' /\ StoreAfterWhole'
  BY DEF IInv, Whole, StoreOK, StoreAfterWhole
<1>23. ReplyOK'
  <2> SUFFICES ASSUME conn = "up" PROVE Coming'
    BY DEF ReplyOK
  <2>1. Len(inbox) + 1 \in DOMAIN inbox' /\ inbox'[Len(inbox) + 1].tag = tag + 1
    BY <1>24, <1>5
  <2> QED
    BY <1>3, <2>1 DEF Coming
<1> QED
  BY <1>10, <1>11, <1>12, <1>13, <1>14, <1>17, <1>19, <1>20, <1>21, <1>22, <1>23 DEF IInv

(***************************************************************************)
(* The server sends                                                        *)
(***************************************************************************)

\* What is under way stays as it is, and more follows if the connection is up.
Grows ==
    /\ stream' \in Seq(Lines)
    /\ Len(stream) \in Nat /\ Len(stream') \in Nat /\ Len(stream) <= Len(stream')
    /\ DOMAIN stream = 1..Len(stream) /\ DOMAIN stream' = 1..Len(stream')
    /\ \A i \in DOMAIN stream : i \in DOMAIN stream' /\ stream'[i] = stream[i]
    /\ conn # "up" => stream' = stream

\* The lines that are new.
Newly == Len(stream) + 1..Len(stream')

LEMMA SendsGrows ==
    ASSUME IInv, NEW lines \in Seq(Lines), Sends(lines)
    PROVE  /\ Grows
           /\ \A i \in Newly : /\ conn = "up"
                               /\ i - Len(stream) \in 1..Len(lines)
                               /\ stream'[i] = lines[i - Len(stream)]
           /\ conn = "up" => Len(stream') = Len(stream) + Len(lines)
           /\ Len(lines) \in Nat
<1>1. stream \in Seq(Lines)
  BY DEF IInv, TypeOK
<1>2. /\ stream' \in Seq(Lines)
      /\ Len(stream) \in Nat /\ Len(lines) \in Nat
      /\ DOMAIN stream = 1..Len(stream) /\ DOMAIN stream' = 1..Len(stream')
      /\ \A i \in DOMAIN stream : i \in DOMAIN stream' /\ stream'[i] = stream[i]
      /\ conn # "up" => stream' = stream
      /\ conn = "up" =>
            /\ Len(stream') = Len(stream) + Len(lines)
            /\ \A i \in Len(stream) + 1..Len(stream') :
                  stream'[i] = lines[i - Len(stream)] /\ i - Len(stream) \in 1..Len(lines)
  BY <1>1, SendsStream
<1>3. Len(stream') \in Nat
  BY <1>2, LenProperties
<1>4. conn # "up" => Len(stream') = Len(stream)
  BY DEF Sends
<1>5. Len(stream) <= Len(stream')
  <2>1. conn = "up" => Len(stream') = Len(stream) + Len(lines)
    BY <1>2
  <2>2. Len(stream) \in Nat /\ Len(lines) \in Nat
    BY <1>2
  <2> QED
    BY <1>3, <1>4, <2>1, <2>2
<1>6. conn # "up" => Newly = {}
  <2>1. \A n \in Nat : n + 1..n = {}
    OBVIOUS
  <2>2. Len(stream) \in Nat
    BY <1>2
  <2> QED
    BY <1>4, <2>1, <2>2 DEF Newly
<1> QED
  BY <1>2, <1>3, <1>5, <1>6 DEF Grows, Newly

LEMMA OldOrNew ==
    ASSUME Grows, NEW i \in DOMAIN stream'
    PROVE  /\ i \in Nat /\ (i \in DOMAIN stream \/ i \in Newly)
           /\ i \in Newly => \A j \in DOMAIN stream : j < i
           /\ i \in DOMAIN stream => i <= Len(stream)
BY DEF Grows, Newly

\* Lines that neither begin nor belong to a literal do not disturb one.
LEMMA SyncGrows ==
    ASSUME IInv, ~astray, Grows, UNCHANGED <<left, last, pc, at, conn>>,
           \A i \in Newly : stream'[i].is \notin {"marker", "text"},
           FetchPending' => FetchPending
    PROVE  Sync'
<1>1. Sync
  BY DEF IInv, SyncOK
<1>2. /\ Len(stream) \in Nat /\ Len(stream') \in Nat /\ Len(stream) <= Len(stream')
      /\ DOMAIN stream = 1..Len(stream) /\ DOMAIN stream' = 1..Len(stream')
      /\ \A i \in DOMAIN stream : i \in DOMAIN stream' /\ stream'[i] = stream[i]
      /\ conn # "up" => stream' = stream
  BY DEF Grows
<1>3. NumLines \in Nat /\ left \in 0..NumLines
  BY <1>1, BoundAssumption DEF Sync
<1>4. \A i \in DOMAIN stream' : stream'[i].is \in {"marker", "text"} => i \in DOMAIN stream
  BY OldOrNew
<1>5. left > 0 /\ conn = "up" => left < Len(stream)
  BY <1>1 DEF IInv, PlaceOK, Sync
<1>6. ASSUME NEW i \in DOMAIN stream', i <= left
      PROVE  stream'[i] = Text(last', NumLines - left' + i)
  <2>1. i \in DOMAIN stream
    BY <1>2, <1>3, <1>5, <1>6
  <2> QED
    BY <1>1, <1>2, <1>6, <2>1 DEF Sync
<1>7. ASSUME NEW i \in DOMAIN stream', stream'[i].is = "text"
      PROVE  i <= left' \/ \E m \in DOMAIN stream' :
                              stream'[m].is = "marker" /\ m < i /\ i <= m + NumLines
  <2>1. i \in DOMAIN stream /\ stream[i].is = "text"
    BY <1>2, <1>4, <1>7
  <2> QED
    BY <1>1, <1>2, <2>1 DEF Sync
<1>8. ASSUME NEW m \in DOMAIN stream', stream'[m].is = "marker"
      PROVE  /\ stream'[m] = Marker(NumLines) /\ left' = 0
             /\ \A k \in 1..NumLines : m + k \in DOMAIN stream' => stream'[m + k] = Text(last', k)
             /\ conn' = "up" => m + NumLines < Len(stream')
             /\ pc' \in Closing \/ (pc' = "fetch" /\ at' # "send")
  <2>1. m \in DOMAIN stream /\ stream[m].is = "marker"
    BY <1>2, <1>4, <1>8
  <2>2. /\ stream[m] = Marker(NumLines) /\ left = 0
        /\ \A k \in 1..NumLines : m + k \in DOMAIN stream => stream[m + k] = Text(last, k)
        /\ conn = "up" => m + NumLines < Len(stream)
        /\ pc \in Closing \/ (pc = "fetch" /\ at # "send")
    BY <1>1, <2>1 DEF Sync
  <2>3. ASSUME NEW k \in 1..NumLines, m + k \in DOMAIN stream'
        PROVE  stream'[m + k] = Text(last', k)
    <3>1. m + k \in DOMAIN stream
      BY <1>2, <1>3, <2>1, <2>2, <2>3
    <3> QED
      BY <1>2, <2>2, <3>1
  <2>4. conn' = "up" => m + NumLines < Len(stream')
    BY <1>2, <1>3, <2>1, <2>2
  <2> QED
    BY <1>2, <2>1, <2>2, <2>3, <2>4
<1>9. \A i, j \in DOMAIN stream' : stream'[i].is = "marker" /\ stream'[j].is = "marker" => i = j
  BY <1>1, <1>2, <1>4 DEF Sync
<1>10. conn' = "up" /\ at' = "literal" => left' < Len(stream')
  BY <1>1, <1>2, <1>3 DEF Sync
<1>11. FetchPending' => ~MarkerSent' /\ left' = 0
  <2>1. MarkerSent' => MarkerSent
    BY <1>2, <1>4 DEF MarkerSent
  <2> QED
    BY <1>1, <2>1 DEF Sync
<1> QED
  BY <1>1, <1>3, <1>6, <1>7, <1>8, <1>9, <1>10, <1>11 DEF Sync

\* Nor do they make a FETCH a success that is none.
LEMMA FetchGrows ==
    ASSUME IInv, Grows, UNCHANGED <<left, last, pc, at, tag, file>>, present' \subseteq present,
           \A i \in Newly : stream'[i].is # "marker",
           \A i \in Newly : stream'[i].is = "done" /\ stream'[i].tag = tag /\ pc = "fetch" =>
               ~FetchPending' /\ (stream'[i].ok => last \notin present),
           FetchPending' => FetchPending
    PROVE  FetchOK'
<1> SUFFICES ASSUME pc = "fetch", at # "send" PROVE FetchOK'
  BY DEF FetchOK
<1>1. /\ \A i \in DOMAIN stream : i \in DOMAIN stream' /\ stream'[i] = stream[i]
      /\ DOMAIN stream \subseteq Nat
  BY DEF Grows
<1>2. \A i \in DOMAIN stream' : stream'[i].is = "marker" => i \in DOMAIN stream
  BY OldOrNew
<1>3. MarkerSent' => MarkerSent
  BY <1>1, <1>2 DEF MarkerSent
<1>4. ASSUME NEW i \in DOMAIN stream', stream'[i] = Completion(tag, TRUE)
      PROVE  \/ \E m \in DOMAIN stream' : stream'[m].is = "marker" /\ m < i
             \/ at = "literal"
             \/ at = "read" /\ file = Body(last)
             \/ last \notin present'
  <2>1. CASE i \in DOMAIN stream
    BY <1>1, <1>4, <2>1 DEF IInv, FetchOK
  <2>2. CASE i \in Newly
    BY <1>4, <2>2 DEF Completion
  <2> QED
    BY <2>1, <2>2, OldOrNew
<1>5. ASSUME NEW i \in DOMAIN stream', stream'[i].is = "done", stream'[i].tag = tag
      PROVE  ~FetchPending' /\ \A m \in DOMAIN stream' : stream'[m].is = "marker" => m < i
  <2>1. CASE i \in DOMAIN stream
    BY <1>1, <1>2, <1>5, <2>1 DEF IInv, FetchOK
  <2>2. CASE i \in Newly
    BY <1>2, <1>5, <2>2, OldOrNew
  <2> QED
    BY <2>1, <2>2, OldOrNew
<1> QED
  BY <1>3, <1>4, <1>5 DEF IInv, FetchOK

(***************************************************************************)
(* The server executes a command                                           *)
(***************************************************************************)

\* No line answers a challenge.
NoAnswer == \A i \in DOMAIN inbox : inbox[i].name # ""

\* The first d requests are read.
Reads(d) ==
    /\ inbox' \in Seq(Requests)
    /\ Len(inbox) \in Nat /\ DOMAIN inbox = 1..Len(inbox) /\ 1 \in DOMAIN inbox
    /\ DOMAIN inbox' = 1..Len(inbox) - d
    /\ \A i \in DOMAIN inbox' : i + d \in DOMAIN inbox /\ inbox'[i] = inbox[i + d]

LEMMA OneIsNotTwo == 1 # 2
OBVIOUS

LEMMA FirstRequest ==
    ASSUME IInv, 1 \in DOMAIN inbox
    PROVE  /\ RequestOK(inbox[1]) /\ inbox[1].name # "" /\ inbox[1].tag = inbox[1].no
           /\ inbox[1].no \in 1..tag /\ log[inbox[1].no].outcome = "open"
           /\ inbox[1].name = log[inbox[1].no].name
           /\ inbox[1] \in Requests
           /\ tag \in Nat /\ tag = Len(log)
<1>1. RequestOK(inbox[1]) /\ inbox[1].name # ""
  <2>1. \A i \in DOMAIN inbox : inbox[i].name = "" => i = 2
    BY DEF IInv, InboxOK
  <2>2. inbox[1].name # ""
    BY <2>1, OneIsNotTwo
  <2>3. RequestOK(inbox[1])
    BY DEF IInv, InboxOK
  <2> QED
    BY <2>2, <2>3
<1>2. inbox[1] \in Requests /\ tag \in Nat
  BY Basics DEF IInv
<1> QED
  BY <1>1, <1>2, RequestFacts DEF IInv, LogOK

LEMMA Answered ==
    ASSUME IInv, NEW d \in {1, 2}, Reads(d), NEW ok \in BOOLEAN, Executed(inbox[1], ok),
           NoAnswer',
           UNCHANGED <<pc, at, tag, last, handed>>, present' \subseteq present
    PROVE  /\ log' \in Seq(Record)
           /\ \A i \in 1..tag : i # inbox[1].no => log'[i].outcome = log[i].outcome
           /\ log'[inbox[1].no].outcome = IF ok THEN "ok" ELSE "no"
           /\ LogOK' /\ AuthOnce' /\ InboxOK'
           /\ FetchPending' => FetchPending
           /\ inbox[1].name = "fetch" => ~FetchPending'
           /\ \A i \in DOMAIN inbox' : inbox[1].no < inbox'[i].no
<1> DEFINE n == inbox[1].no
<1>1. /\ inbox' \in Seq(Requests)
      /\ Len(inbox) \in Nat /\ DOMAIN inbox = 1..Len(inbox) /\ 1 \in DOMAIN inbox
      /\ DOMAIN inbox' = 1..Len(inbox) - d
      /\ \A i \in DOMAIN inbox' : i + d \in DOMAIN inbox /\ inbox'[i] = inbox[i + d]
  BY DEF Reads
<1>2. /\ n \in 1..tag /\ tag \in Nat /\ tag = Len(log) /\ log \in Seq(Record)
  BY <1>1, FirstRequest DEF IInv, TypeOK
<1>3. /\ log' \in Seq(Record) /\ Len(log') = Len(log)
      /\ DOMAIN log = 1..tag /\ DOMAIN log' = 1..tag
      /\ \A i \in 1..tag : /\ log'[i].name = log[i].name
                           /\ log'[i].verdict = log[i].verdict
                           /\ i # n => log'[i].outcome = log[i].outcome
      /\ log'[n].outcome = IF ok THEN "ok" ELSE "no"
  BY <1>2, ExecutedLog
<1> HIDE DEF n
<1>4. ASSUME NEW i \in DOMAIN inbox'
      PROVE  i \in Nat /\ i + d > d /\ 1 < i + d
  <2>1. i \in Nat /\ i > 0
    <3>1. DOMAIN inbox' = 1..Len(inbox) - d /\ Len(inbox) \in Nat
      BY <1>1
    <3> QED
      BY <3>1
  <2>2. i + d > d /\ 1 < i + d
    BY <2>1
  <2> QED
    BY <2>1, <2>2
<1>5. ASSUME NEW i \in DOMAIN inbox'
      PROVE  n < inbox'[i].no
  <2>1. i + d \in DOMAIN inbox /\ 1 < i + d /\ inbox[i + d].name # ""
    BY <1>1, <1>4 DEF NoAnswer
  <2>2. n < inbox[i + d].no
    <3>1. \A j, k \in DOMAIN inbox : j < k => inbox[j].no < inbox[k].no \/ inbox[k].name = ""
      BY DEF IInv, InboxOK
    <3> QED
      BY <1>1, <2>1, <3>1 DEF n
  <2> QED
    BY <1>1, <2>2
<1>6. LogOK'
  <2>1. Waiting' = Waiting
    BY DEF Waiting
  <2>2. \A i \in 1..tag : log'[i].verdict = "open" <=> (Waiting /\ i = tag)
    BY <1>3 DEF IInv, LogOK
  <2>3. Waiting => tag > 0 /\ tag \in 1..tag /\ log[tag].name = pc
    <3>1. Waiting => tag > 0 /\ log[tag].name = pc
      BY DEF IInv, LogOK
    <3>2. tag > 0 => tag \in 1..tag
      BY <1>2
    <3> QED
      BY <3>1, <3>2
  <2>4. Waiting => log'[tag].name = pc
    BY <1>3, <2>3
  <2> QED
    BY <1>2, <1>3, <2>1, <2>2, <2>3, <2>4 DEF LogOK
<1>7. AuthOnce'
  BY <1>3 DEF IInv, AuthOnce
<1>8. ASSUME NEW i \in DOMAIN inbox'
      PROVE  RequestOK(inbox[i])'
  <2>1. RequestOK(inbox[i + d]) /\ inbox'[i] = inbox[i + d]
    BY <1>1 DEF IInv, InboxOK
  <2>2. /\ inbox'[i].tag = inbox'[i].no /\ inbox'[i].no \in 1..tag /\ inbox'[i].no \in Nat
        /\ \A j \in 1..tag : inbox'[i].no <= j => log[j].outcome = "open"
        /\ inbox'[i].name # "" => inbox'[i].name = log[inbox'[i].no].name
    BY <1>2, <2>1, RequestFacts
  <2>3. /\ inbox'[i].name \in {"auth", "fetch"} => pc \in Closing \/ (Waiting /\ inbox'[i].no = tag)
        /\ inbox'[i].name = "fetch" => inbox'[i].uid = last
        /\ inbox'[i].name = "store" => inbox'[i].uid \in handed \/ inbox'[i].uid \notin present
    BY <2>1 DEF RequestOK
  <2>4. ASSUME NEW j \in 1..tag, inbox'[i].no <= j
        PROVE  log'[j].outcome = "open"
    <3>1. n < inbox'[i].no
      BY <1>5
    <3>2. n \in Nat
      BY <1>2
    <3>3. j \in Nat
      BY <1>2
    <3>4. inbox'[i].no \in Nat
      BY <2>2
    <3>5. n # j
      BY <2>4, <3>1, <3>2, <3>3, <3>4
    <3> QED
      BY <1>3, <2>2, <2>4, <3>5
  <2>5. inbox'[i].name # "" => inbox'[i].name = log'[inbox'[i].no].name
    BY <1>3, <2>2
  <2>6. Waiting' = Waiting
    BY DEF Waiting
  <2> QED
    BY <2>2, <2>3, <2>4, <2>5, <2>6 DEF RequestOK
<1>9. InboxOK'
  <2>1. ASSUME NEW i \in DOMAIN inbox', NEW j \in DOMAIN inbox', i < j
        PROVE  inbox'[i].no < inbox'[j].no
    <3>0. i \in Nat /\ j \in Nat
      BY <1>4
    <3>1. i + d < j + d
      BY <2>1, <3>0
    <3>2. i + d \in DOMAIN inbox /\ j + d \in DOMAIN inbox /\ inbox[j + d].name # ""
      BY <1>1 DEF NoAnswer
    <3>3. inbox[i + d].no < inbox[j + d].no
      BY <3>1, <3>2 DEF IInv, InboxOK
    <3> QED
      BY <1>1, <3>3
  <2>2. ASSUME NEW i \in DOMAIN inbox', NEW j \in DOMAIN inbox',
               inbox'[i].name = "fetch", inbox'[j].name = "fetch"
        PROVE  i = j
    <3>1. /\ i + d \in DOMAIN inbox /\ j + d \in DOMAIN inbox
          /\ inbox[i + d].name = "fetch" /\ inbox[j + d].name = "fetch"
      BY <1>1, <2>2
    <3>2. i + d = j + d
      BY <3>1 DEF IInv, InboxOK
    <3>3. i \in Nat /\ j \in Nat
      BY <1>4
    <3> QED
      BY <3>2, <3>3
  <2> QED
    BY <1>8, <2>1, <2>2 DEF InboxOK, NoAnswer
<1>10. FetchPending' => FetchPending
  BY <1>1 DEF FetchPending
<1>11. inbox[1].name = "fetch" => ~FetchPending'
  <2> SUFFICES ASSUME inbox[1].name = "fetch", NEW i \in DOMAIN inbox', inbox'[i].name = "fetch"
               PROVE  FALSE
    BY DEF FetchPending
  <2>1. i + d \in DOMAIN inbox /\ inbox[i + d].name = "fetch"
    BY <1>1
  <2>2. i + d = 1
    BY <1>1, <2>1 DEF IInv, InboxOK
  <2>3. 1 < i + d /\ i \in Nat
    BY <1>4
  <2> QED
    BY <2>2, <2>3
<1> QED
  BY <1>3, <1>5, <1>6, <1>7, <1>9, <1>10, <1>11 DEF n

\* What is sent tells what became of the command.
LEMMA AnsweredDone ==
    ASSUME IInv, 1 \in DOMAIN inbox, NEW ok \in BOOLEAN, Grows, UNCHANGED tag,
           \A i \in 1..tag : i # inbox[1].no => log'[i].outcome = log[i].outcome,
           log'[inbox[1].no].outcome = IF ok THEN "ok" ELSE "no",
           \A i \in Newly : stream'[i].is = "done" => stream'[i] = Completion(inbox[1].tag, ok)
    PROVE  DoneOK'
<1> SUFFICES ASSUME NEW i \in DOMAIN stream', stream'[i].is = "done"
             PROVE  /\ stream'[i].tag \in 1..tag
                    /\ log'[stream'[i].tag].outcome = IF stream'[i].ok THEN "ok" ELSE "no"
  BY DEF DoneOK
<1>1. inbox[1].tag = inbox[1].no /\ inbox[1].no \in 1..tag /\ log[inbox[1].no].outcome = "open"
  BY FirstRequest
<1>2. CASE i \in DOMAIN stream
  <2>1. stream'[i] = stream[i]
    BY <1>2 DEF Grows
  <2>2. /\ stream[i].tag \in 1..tag
        /\ log[stream[i].tag].outcome = IF stream[i].ok THEN "ok" ELSE "no"
    BY <1>2, <2>1 DEF IInv, DoneOK
  <2>3. stream[i].tag # inbox[1].no
    BY <1>1, <2>2
  <2> QED
    BY <2>1, <2>2, <2>3
<1>3. CASE i \in Newly
  BY <1>1, <1>3 DEF Completion
<1> QED
  BY <1>2, <1>3, OldOrNew

\* It is the reply to that command, and the others are still to come.
LEMMA AnsweredReply ==
    ASSUME IInv, NEW d \in {1, 2}, Reads(d), NEW ok \in BOOLEAN, Grows,
           UNCHANGED <<conn, pc, at, tag>>, astray => astray',
           conn = "up" => \E i \in Newly : stream'[i] = Completion(inbox[1].tag, ok),
           d = 2 => astray' \/ inbox[2].tag = inbox[1].tag
    PROVE  ReplyOK'
<1> SUFFICES ASSUME conn = "up", ~astray', Waiting PROVE Coming'
  BY DEF ReplyOK, Waiting
<1>1. Coming
  BY DEF IInv, ReplyOK
<1>2. CASE \E i \in DOMAIN stream : stream[i].is = "done" /\ stream[i].tag = tag
  BY <1>2 DEF Coming, Grows
<1>3. CASE inbox[1].tag = tag
  <2>1. PICK i \in Newly : stream'[i] = Completion(tag, ok)
    BY <1>3
  <2>2. i \in DOMAIN stream'
    BY DEF Newly, Grows
  <2> QED
    BY <2>1, <2>2 DEF Coming, Completion
<1>4. CASE inbox[1].tag # tag /\ \E i \in DOMAIN inbox : inbox[i].tag = tag
  <2>1. PICK j \in DOMAIN inbox : inbox[j].tag = tag
    BY <1>4
  <2>2. j # 1 /\ (d = 2 => j # 2)
    BY <1>4, <2>1
  <2>3. /\ Len(inbox) \in Nat /\ DOMAIN inbox = 1..Len(inbox)
        /\ DOMAIN inbox' = 1..Len(inbox) - d
        /\ \A i \in DOMAIN inbox' : inbox'[i] = inbox[i + d]
    BY DEF Reads
  <2>4. j - d \in DOMAIN inbox' /\ (j - d) + d = j
    BY <2>2, <2>3
  <2>5. inbox'[j - d].tag = tag
    BY <2>1, <2>3, <2>4
  <2> QED
    BY <2>4, <2>5 DEF Coming
<1> QED
  BY <1>1, <1>2, <1>3, <1>4 DEF Coming

\* Whatever a command answers, the requests, the log and the replies stay in step.
LEMMA AnswerKept ==
    ASSUME IInv, NEW d \in {1, 2}, Reads(d), NEW ok \in BOOLEAN, Executed(inbox[1], ok),
           NoAnswer', UNCHANGED <<conf, conn, pc, at, tag, left, last, handed>>,
           present' \subseteq present, srv' # "challenge", Grows,
           astray => astray', d = 2 => astray' \/ inbox[2].tag = inbox[1].tag,
           conn = "up" => \E i \in Newly : stream'[i] = Completion(inbox[1].tag, ok),
           \A i \in Newly : stream'[i].is # "plus",
           \A i \in Newly : stream'[i].is = "done" => stream'[i] = Completion(inbox[1].tag, ok),
           \A i \in DOMAIN stream : stream[i].is = "plus" =>
               /\ \A j \in DOMAIN inbox' : inbox'[j].name # "auth"
               /\ ~(pc = "auth" /\ conn = "up")
    PROVE  /\ PlaceOK' /\ LogOK' /\ AuthOnce' /\ InboxOK' /\ ChallengeOK' /\ DoneOK' /\ ReplyOK'
           /\ log' \in Seq(Record)
           /\ FetchPending' => FetchPending
           /\ inbox[1].name = "fetch" => ~FetchPending'
<1>1. /\ log' \in Seq(Record)
      /\ \A i \in 1..tag : i # inbox[1].no => log'[i].outcome = log[i].outcome
      /\ log'[inbox[1].no].outcome = IF ok THEN "ok" ELSE "no"
      /\ LogOK' /\ AuthOnce' /\ InboxOK'
      /\ FetchPending' => FetchPending
      /\ inbox[1].name = "fetch" => ~FetchPending'
  BY Answered
<1>2. PlaceOK'
  BY DEF IInv, PlaceOK
<1>3. ChallengeOK'
  <2>1. \A i \in DOMAIN stream' : stream'[i].is = "plus" =>
            i \in DOMAIN stream /\ stream[i].is = "plus"
    BY OldOrNew DEF Grows
  <2> QED
    BY <2>1 DEF IInv, ChallengeOK
<1>4. DoneOK'
  <2>1. 1 \in DOMAIN inbox
    BY DEF Reads
  <2> QED
    BY <1>1, <2>1, AnsweredDone
<1>5. ReplyOK'
  BY AnsweredReply
<1> QED
  BY <1>1, <1>2, <1>3, <1>4, <1>5

\* A done line of the command under way is that of the FETCH under way.
LEMMA AnswersFetch ==
    ASSUME IInv, 1 \in DOMAIN inbox, pc = "fetch", at # "send", inbox[1].tag = tag
    PROVE  inbox[1].name = "fetch" /\ inbox[1].uid = last /\ tag > 0
<1>1. Waiting
  BY DEF Waiting, Commands
<1>2. log[tag].name = "fetch" /\ tag > 0
  BY <1>1 DEF IInv, LogOK
<1>3. inbox[1].name = "fetch" /\ RequestOK(inbox[1])
  BY <1>2, FirstRequest
<1> QED
  BY <1>2, <1>3 DEF RequestOK

\* An answer without a literal.
LEMMA QuietAnswer ==
    ASSUME IInv, 1 \in DOMAIN inbox, NEW ok \in BOOLEAN,
           UNCHANGED <<conn, pc, at, tag, left, last, file>>,
           present' \subseteq present, Grows,
           astray => astray', astray' => pc \in Closing,
           \A i \in Newly : stream'[i].is \notin {"marker", "text"},
           \A i \in Newly : stream'[i].is = "done" => stream'[i] = Completion(inbox[1].tag, ok),
           FetchPending' => FetchPending, inbox[1].name = "fetch" => ~FetchPending',
           ok /\ inbox[1].name = "fetch" => inbox[1].uid \notin present
    PROVE  SyncOK' /\ FetchOK'
<1>1. SyncOK'
  <2>1. CASE astray'
    BY <2>1 DEF SyncOK
  <2>2. CASE ~astray'
    <3>1. Sync'
      BY <2>2, SyncGrows
    <3> QED
      BY <2>2, <3>1 DEF SyncOK
  <2> QED
    BY <2>1, <2>2
<1>2. FetchOK'
  <2> SUFFICES ASSUME pc = "fetch", at # "send" PROVE FetchOK'
    BY DEF FetchOK
  <2>1. ASSUME NEW i \in Newly, stream'[i].is = "done", stream'[i].tag = tag
        PROVE  ~FetchPending' /\ (stream'[i].ok => last \notin present)
    <3>1. inbox[1].tag = tag /\ stream'[i].ok = ok
      BY <2>1 DEF Completion
    <3> QED
      BY <3>1, AnswersFetch
  <2> QED
    BY <2>1, FetchGrows
<1> QED
  BY <1>1, <1>2

LEMMA ReadsFirst ==
    ASSUME IInv, inbox # << >>, inbox' = Tail(inbox)
    PROVE  Reads(1) /\ Head(inbox) = inbox[1] /\ 1 \in DOMAIN inbox
           /\ inbox' \in Seq(Requests)
<1>1. TypeOK
  BY DEF IInv
<1>2. /\ inbox' \in Seq(Requests)
      /\ Len(inbox) \in Nat /\ Len(inbox) > 0 /\ DOMAIN inbox = 1..Len(inbox)
      /\ Head(inbox) = inbox[1] /\ inbox[1] \in Requests /\ 1 \in DOMAIN inbox
      /\ Len(inbox') = Len(inbox) - 1
      /\ DOMAIN inbox' = 1..Len(inbox) - 1
      /\ \A i \in DOMAIN inbox' : i + 1 \in DOMAIN inbox /\ inbox'[i] = inbox[i + 1]
  BY <1>1, TailInbox
<1> QED
  BY <1>2 DEF Reads

\* Unless it waits for the answer to a challenge, the server owes none.
LEMMA NoChallenge ==
    ASSUME IInv, srv # "challenge"
    PROVE  /\ NoAnswer
           /\ \A i \in DOMAIN stream : stream[i].is = "plus" =>
                 /\ \A j \in DOMAIN inbox : inbox[j].name # "auth"
                 /\ ~(pc = "auth" /\ conn = "up")
BY DEF IInv, InboxOK, ChallengeOK, NoAnswer

\* One line more.
LEMMA OneLine ==
    ASSUME IInv, NEW line \in Lines, Sends(<<line>>)
    PROVE  /\ Grows
           /\ \A i \in Newly : stream'[i] = line /\ conn = "up"
           /\ conn = "up" => \E i \in Newly : stream'[i] = line
           /\ \A i, j \in Newly : i = j
<1>0. <<line>> \in Seq(Lines)
  OBVIOUS
<1>1. PICK lines \in Seq(Lines) : lines = <<line>>
  BY <1>0
<1>2. Len(lines) = 1 /\ lines[1] = line
  BY <1>1
<1>3. /\ Grows
      /\ \A i \in Newly : /\ conn = "up"
                          /\ i - Len(stream) \in 1..Len(lines)
                          /\ stream'[i] = lines[i - Len(stream)]
      /\ conn = "up" => Len(stream') = Len(stream) + Len(lines)
  BY <1>1, SendsGrows
<1>4. \A i \in Newly : i - Len(stream) = 1
  BY <1>2, <1>3
<1>5. \A i \in Newly : stream'[i] = line /\ conn = "up"
  BY <1>2, <1>3, <1>4
<1>6. conn = "up" => \E i \in Newly : stream'[i] = line
  <2>1. Len(stream) \in Nat
    BY <1>3 DEF Grows
  <2>2. conn = "up" => Len(stream) + 1 \in Newly
    BY <1>2, <1>3, <2>1 DEF Newly
  <2> QED
    BY <1>5, <2>2
<1>7. \A i, j \in Newly : i = j
  <2>1. \A i \in Newly : i \in Int
    BY DEF Newly
  <2>2. Len(stream) \in Nat
    BY <1>3 DEF Grows
  <2>3. \A i \in Newly : i = Len(stream) + 1
    BY <1>4, <2>1, <2>2
  <2> QED
    BY <2>3
<1> QED
  BY <1>3, <1>5, <1>6, <1>7

\* The conjuncts about what the client alone has are not disturbed.
LEMMA ClientKept ==
    ASSUME IInv, UNCHANGED <<pc, last, file, handed>>, present' \subseteq present,
           flagged' \cup removed' \subseteq flagged \cup removed
    PROVE  Whole' /\ StoreOK' /\ StoreAfterWhole'
BY DEF IInv, Whole, StoreOK, StoreAfterWhole

LEMMA ServerTypes ==
    ASSUME IInv, UNCHANGED <<conf, conn, pc, at, tag, left, todo, last, file,
                             deleted, handed, chatter>>,
           inbox' \in Seq(Requests), stream' \in Seq(Lines), log' \in Seq(Record),
           srv' \in {"fresh", "challenge", "authed", "selected", "bye"},
           {present', flagged', removed'} \subseteq SUBSET Uids,
           astray' \in BOOLEAN, faults' \in 0..MaxFaults
    PROVE  TypeOK'
BY DEF IInv, TypeOK

LEMMA RefuseStep == ASSUME IInv, Refuse PROVE IInv'
<1>0. /\ inbox # << >> /\ inbox' = Tail(inbox)
      /\ UNCHANGED <<conf, conn, srv, present, flagged, removed, pc, at, tag, left, todo,
                     last, file, deleted, handed, astray, chatter>>
  BY DEF Refuse, server, client
<1>1. /\ Reads(1) /\ Head(inbox) = inbox[1] /\ 1 \in DOMAIN inbox
      /\ inbox' \in Seq(Requests)
  BY <1>0, ReadsFirst
<1>2. /\ srv # "challenge" /\ srv' = srv /\ Executed(inbox[1], FALSE)
      /\ Sends(<<Completion(inbox[1].tag, FALSE)>>)
      /\ faults' = faults \/ Fault("refuse")
  BY <1>0, <1>1 DEF Refuse
<1>3. inbox[1].tag \in Nat
  BY <1>1, FirstRequest DEF Requests
<1> DEFINE line == Completion(inbox[1].tag, FALSE)
<1>4. line \in Lines /\ line.is = "done"
  BY <1>3, LineTypes DEF Completion
<1>7. line = Completion(inbox[1].tag, FALSE)
  OBVIOUS
<1> HIDE DEF line
<1>5. /\ Grows
      /\ \A i \in Newly : stream'[i] = line
      /\ conn = "up" => \E i \in Newly : stream'[i] = line
  BY <1>2, <1>4, <1>7, OneLine
<1>6. NoAnswer' /\ \A i \in DOMAIN stream : stream[i].is = "plus" =>
                      /\ \A j \in DOMAIN inbox' : inbox'[j].name # "auth"
                      /\ ~(pc = "auth" /\ conn = "up")
  <2>1. /\ NoAnswer
        /\ \A i \in DOMAIN stream : stream[i].is = "plus" =>
              /\ \A j \in DOMAIN inbox : inbox[j].name # "auth"
              /\ ~(pc = "auth" /\ conn = "up")
    BY <1>2, NoChallenge
  <2>2. \A i \in DOMAIN inbox' : i + 1 \in DOMAIN inbox /\ inbox'[i] = inbox[i + 1]
    BY <1>1 DEF Reads
  <2> QED
    BY <2>1, <2>2 DEF NoAnswer
<1>11. /\ \A i \in Newly : stream'[i].is \notin {"plus", "marker", "text"}
       /\ \A i \in Newly : stream'[i].is = "done" =>
                            stream'[i] = Completion(inbox[1].tag, FALSE)
       /\ conn = "up" => \E i \in Newly : stream'[i] = Completion(inbox[1].tag, FALSE)
  BY <1>4, <1>5, <1>7
<1>8. /\ PlaceOK' /\ LogOK' /\ AuthOnce' /\ InboxOK' /\ ChallengeOK' /\ DoneOK' /\ ReplyOK'
      /\ log' \in Seq(Record)
      /\ FetchPending' => FetchPending
      /\ inbox[1].name = "fetch" => ~FetchPending'
  BY <1>0, <1>1, <1>2, <1>5, <1>6, <1>11, AnswerKept
<1>12. astray' => pc \in Closing
  BY <1>0 DEF IInv, SyncOK
<1>9. SyncOK' /\ FetchOK'
  BY <1>0, <1>1, <1>5, <1>8, <1>11, <1>12, QuietAnswer
<1>10. TypeOK'
  <2>1. faults' \in 0..MaxFaults
    BY <1>0, <1>2, FaultRange DEF IInv, TypeOK
  <2>2. stream' \in Seq(Lines)
    BY <1>5 DEF Grows
  <2>3. /\ srv' \in {"fresh", "challenge", "authed", "selected", "bye"}
        /\ {present', flagged', removed'} \subseteq SUBSET Uids
        /\ astray' \in BOOLEAN
    BY <1>0 DEF IInv, TypeOK
  <2> QED
    BY <1>0, <1>1, <1>8, <2>1, <2>2, <2>3, ServerTypes
<1>13. Whole' /\ StoreOK' /\ StoreAfterWhole'
  BY <1>0, ClientKept
<1> QED
  BY <1>8, <1>9, <1>10, <1>13 DEF IInv

(***************************************************************************)
(* The server sends a line without executing a command, the connection     *)
(* breaks, a message vanishes                                              *)
(***************************************************************************)

LEMMA LineSent ==
    ASSUME IInv, Grows,
           UNCHANGED <<conf, conn, inbox, present, flagged, removed, pc, at, tag, left,
                       last, file, handed, log, astray>>,
           \A i \in Newly : stream'[i].is \notin {"marker", "text", "done"},
           srv' = srv \/ srv = "fresh"
    PROVE  /\ PlaceOK' /\ LogOK' /\ AuthOnce' /\ InboxOK' /\ DoneOK' /\ SyncOK' /\ FetchOK'
           /\ Whole' /\ StoreOK' /\ StoreAfterWhole' /\ ReplyOK'
<1>1. Waiting' = Waiting /\ FetchPending' = FetchPending
  BY DEF Waiting, FetchPending
<1>2. PlaceOK' /\ LogOK' /\ AuthOnce'
  BY <1>1 DEF IInv, PlaceOK, LogOK, AuthOnce
<1>3. InboxOK'
  <2>1. ASSUME NEW i \in DOMAIN inbox
        PROVE  RequestOK(inbox[i])'
    <3>1. RequestOK(inbox[i])
      BY DEF IInv, InboxOK
    <3> QED
      BY <1>1, <3>1 DEF RequestOK
  <2>2. \A i \in DOMAIN inbox : inbox[i].name = "" => srv # "fresh"
    BY DEF IInv, InboxOK
  <2> QED
    BY <2>1, <2>2 DEF IInv, InboxOK
<1>4. DoneOK'
  <2>1. \A i \in DOMAIN stream' : stream'[i].is = "done" =>
            i \in DOMAIN stream /\ stream'[i] = stream[i]
    BY OldOrNew DEF Grows
  <2> QED
    BY <2>1 DEF IInv, DoneOK
<1>5. SyncOK'
  <2>1. CASE astray
    BY <2>1 DEF IInv, SyncOK
  <2>2. CASE ~astray
    <3>1. Sync'
      BY <1>1, <2>2, SyncGrows
    <3> QED
      BY <2>2, <3>1 DEF SyncOK
  <2> QED
    BY <2>1, <2>2
<1>6. FetchOK'
  BY <1>1, FetchGrows
<1>7. ReplyOK'
  <2>1. Coming => Coming'
    BY DEF Coming, Grows
  <2> QED
    BY <1>1, <2>1 DEF IInv, ReplyOK
<1>8. Whole' /\ StoreOK' /\ StoreAfterWhole'
  BY ClientKept
<1> QED
  BY <1>2, <1>3, <1>4, <1>5, <1>6, <1>7, <1>8

LEMMA ChatterStep == ASSUME IInv, Chatter PROVE IInv'
<1>0. /\ UNCHANGED <<conf, conn, inbox, srv, present, flagged, removed, pc, at, tag, left, todo,
                     last, file, deleted, handed, log, astray, faults>>
      /\ Sends(<<Plain>>) /\ chatter' = chatter + 1 /\ chatter < MaxChatter
  BY DEF Chatter, server, client
<1>1. Plain \in Lines /\ Plain.is = "plain"
  BY LineTypes DEF Plain
<1>2. Grows /\ \A i \in Newly : stream'[i] = Plain
  BY <1>0, <1>1, OneLine
<1>3. \A i \in Newly : stream'[i].is = "plain"
  BY <1>1, <1>2
<1>4. /\ PlaceOK' /\ LogOK' /\ AuthOnce' /\ InboxOK' /\ DoneOK' /\ SyncOK' /\ FetchOK'
      /\ Whole' /\ StoreOK' /\ StoreAfterWhole' /\ ReplyOK'
  BY <1>0, <1>2, <1>3, LineSent
<1>5. ChallengeOK'
  <2>1. \A i \in DOMAIN stream' : stream'[i].is = "plus" =>
            i \in DOMAIN stream /\ stream'[i] = stream[i]
    BY <1>2, <1>3, OldOrNew DEF Grows
  <2>2. \A i \in DOMAIN stream : i \in DOMAIN stream' /\ stream'[i] = stream[i]
    BY <1>2 DEF Grows
  <2> QED
    BY <1>0, <2>1, <2>2 DEF IInv, ChallengeOK
<1>6. TypeOK'
  <2>1. chatter' \in 0..MaxChatter
    BY <1>0, BoundAssumption DEF IInv, TypeOK
  <2>2. stream' \in Seq(Lines)
    BY <1>2 DEF Grows
  <2> QED
    BY <1>0, <2>1, <2>2 DEF IInv, TypeOK
<1> QED
  BY <1>4, <1>5, <1>6 DEF IInv

LEMMA ChallengeStep == ASSUME IInv, Challenge PROVE IInv'
<1>0. /\ UNCHANGED <<conf, conn, inbox, present, flagged, removed, pc, at, tag, left, todo,
                     last, file, deleted, handed, log, astray, chatter>>
      /\ Sends(<<Plus>>) /\ Fault("refuse") /\ srv = "fresh" /\ srv' = "challenge"
      /\ inbox # << >> /\ Head(inbox).name = "auth" /\ conf.mech = "xoauth2"
  BY DEF Challenge, client
<1>1. Plus \in Lines /\ Plus.is = "plus"
  BY LineTypes DEF Plus
<1>2. /\ Grows
      /\ \A i \in Newly : stream'[i] = Plus
      /\ conn = "up" => \E i \in Newly : stream'[i] = Plus
      /\ \A i, j \in Newly : i = j
      /\ \A i \in Newly : conn = "up"
  BY <1>0, <1>1, OneLine
<1>3. \A i \in Newly : stream'[i].is = "plus"
  BY <1>1, <1>2
<1>4. /\ PlaceOK' /\ LogOK' /\ AuthOnce' /\ InboxOK' /\ DoneOK' /\ SyncOK' /\ FetchOK'
      /\ Whole' /\ StoreOK' /\ StoreAfterWhole' /\ ReplyOK'
  BY <1>0, <1>2, <1>3, LineSent
<1>5. Len(inbox) \in Nat /\ DOMAIN inbox = 1..Len(inbox) /\ 1 \in DOMAIN inbox
      /\ inbox[1].name = "auth"
  <2>1. inbox \in Seq(Requests)
    BY DEF IInv, TypeOK
  <2> QED
    BY <1>0, <2>1, LenProperties, EmptySeq
<1>6. inbox[1].no \in 1..tag /\ log[inbox[1].no].name = "auth" /\ DOMAIN log = 1..tag
  BY <1>5, FirstRequest, Basics DEF IInv
<1>7. NoAnswer /\ \A i \in DOMAIN stream : stream[i].is # "plus"
  BY <1>0, <1>5, NoChallenge
<1>8. pc \notin {"greet", "starttls", "handshake"} /\ ~(pc = "auth" /\ at = "send")
  BY <1>6 DEF IInv, AuthOnce
<1>9. pc = "auth" => Len(inbox) = 1
  <2> SUFFICES ASSUME pc = "auth", Len(inbox) # 1 PROVE FALSE
    OBVIOUS
  <2>1. 2 \in DOMAIN inbox
    BY <1>5
  <2>2. inbox[1].no = tag
    BY <1>5, AwaitedRequest DEF Closing
  <2>3. inbox[2].name # "" /\ RequestOK(inbox[2])
    BY <1>7, <2>1 DEF NoAnswer, IInv, InboxOK
  <2>4. inbox[1].no < inbox[2].no
    <3>1. \A j, k \in DOMAIN inbox : j < k => inbox[j].no < inbox[k].no \/ inbox[k].name = ""
      BY DEF IInv, InboxOK
    <3>2. 1 < 2
      OBVIOUS
    <3> QED
      BY <1>5, <2>1, <2>3, <3>1, <3>2
  <2>5. tag \in Nat /\ inbox[2].no \in 1..tag
    BY <2>3, Basics DEF IInv, RequestOK
  <2> QED
    BY <2>2, <2>4, <2>5
<1>10. ChallengeOK'
  <2>1. \A i \in DOMAIN stream' : stream'[i].is = "plus" => i \in Newly
    BY <1>2, <1>7, OldOrNew DEF Grows
  <2>2. conn = "up" => \E i \in DOMAIN stream' : stream'[i].is = "plus"
    <3>1. \A i \in Newly : i \in DOMAIN stream'
      BY <1>2 DEF Grows, Newly
    <3> QED
      BY <1>1, <1>2, <3>1
  <2>3. (srv = "challenge" =>
            /\ inbox # << >> => inbox[1].name = "auth"
            /\ inbox = << >> => conn = "down"
            /\ conn = "up" /\ Len(inbox) = 1 /\ pc \notin Closing =>
                  \E i \in DOMAIN stream : stream[i].is = "plus")'
    BY <1>0, <1>5, <2>2
  <2>4. \A i, j \in DOMAIN stream' : stream'[i].is = "plus" /\ stream'[j].is = "plus" => i = j
    BY <1>2, <2>1
  <2> QED
    BY <1>0, <1>8, <1>9, <2>3, <2>4 DEF ChallengeOK
<1>11. TypeOK'
  <2>1. faults' \in 0..MaxFaults
    BY <1>0, FaultRange DEF IInv
  <2>2. stream' \in Seq(Lines)
    BY <1>2 DEF Grows
  <2>3. /\ inbox' \in Seq(Requests) /\ log' \in Seq(Record)
        /\ {present', flagged', removed'} \subseteq SUBSET Uids /\ astray' \in BOOLEAN
    BY <1>0 DEF IInv, TypeOK
  <2> QED
    BY <1>0, <2>1, <2>2, <2>3, ServerTypes
<1> QED
  BY <1>4, <1>10, <1>11 DEF IInv

LEMMA PrefixFacts ==
    ASSUME NEW S, NEW s \in Seq(S), NEW k \in 0..Len(s), NEW r, r = SubSeq(s, 1, k)
    PROVE  /\ r \in Seq(S) /\ DOMAIN r = 1..k /\ DOMAIN s = 1..Len(s) /\ Len(s) \in Nat
           /\ \A i \in DOMAIN r : i \in DOMAIN s /\ r[i] = s[i]
           /\ \A i \in DOMAIN r, j \in DOMAIN s : j < i => j \in DOMAIN r
<1>1. Len(s) \in Nat /\ DOMAIN s = 1..Len(s) /\ k \in Nat /\ k <= Len(s)
  BY LenProperties
<1>2. \A i \in 1..k : s[i] \in S
  BY <1>1, ElementOfSeq
<1>3. /\ r \in Seq(S) /\ Len(r) = IF 1 <= k THEN k - 1 + 1 ELSE 0
      /\ \A i \in 1..k - 1 + 1 : r[i] = s[1 + i - 1]
  BY <1>1, <1>2, SubSeqProperties
<1>4. Len(r) = k /\ k - 1 + 1 = k
  BY <1>1, <1>3
<1>5. DOMAIN r = 1..k
  BY <1>3, <1>4, LenProperties
<1>6. \A i \in 1..k : 1 + i - 1 = i
  OBVIOUS
<1>7. \A i \in DOMAIN r : r[i] = s[i]
  BY <1>3, <1>4, <1>5, <1>6
<1> QED
  BY <1>1, <1>3, <1>5, <1>7

LEMMA DropStep == ASSUME IInv, Drop PROVE IInv'
<1>0. /\ UNCHANGED <<conf, srv, present, flagged, removed, pc, at, tag, left, todo,
                     last, file, deleted, handed, log, astray, chatter>>
      /\ conn' = "down" /\ Fault("drop")
      /\ \E k \in 0..Len(stream) : stream' = SubSeq(stream, 1, k)
      /\ \E k \in 0..Len(inbox) : inbox' = SubSeq(inbox, 1, k)
  BY DEF Drop, server, client
<1>1. /\ stream' \in Seq(Lines) /\ DOMAIN stream = 1..Len(stream) /\ Len(stream) \in Nat
      /\ \A i \in DOMAIN stream' : i \in DOMAIN stream /\ stream'[i] = stream[i]
      /\ \A i \in DOMAIN stream', j \in DOMAIN stream : j < i => j \in DOMAIN stream'
  <2>1. stream \in Seq(Lines)
    BY DEF IInv, TypeOK
  <2> QED
    BY <1>0, <2>1, PrefixFacts
<1>2. /\ inbox' \in Seq(Requests) /\ DOMAIN inbox = 1..Len(inbox) /\ Len(inbox) \in Nat
      /\ \A i \in DOMAIN inbox' : i \in DOMAIN inbox /\ inbox'[i] = inbox[i]
      /\ \A i \in DOMAIN inbox', j \in DOMAIN inbox : j < i => j \in DOMAIN inbox'
  <2>1. inbox \in Seq(Requests)
    BY DEF IInv, TypeOK
  <2> QED
    BY <1>0, <2>1, PrefixFacts
<1>3. Waiting' = Waiting /\ (FetchPending' => FetchPending) /\ (MarkerSent' => MarkerSent)
  BY <1>0, <1>1, <1>2 DEF Waiting, FetchPending, MarkerSent
<1>4. TypeOK'
  <2>1. faults' \in 0..MaxFaults
    BY <1>0, FaultRange DEF IInv
  <2> QED
    BY <1>0, <1>1, <1>2, <2>1 DEF IInv, TypeOK
<1>5. PlaceOK' /\ LogOK' /\ AuthOnce'
  BY <1>0, <1>3 DEF IInv, PlaceOK, LogOK, AuthOnce
<1>6. InboxOK'
  <2>1. ASSUME NEW i \in DOMAIN inbox'
        PROVE  RequestOK(inbox[i])'
    <3>1. RequestOK(inbox[i]) /\ inbox'[i] = inbox[i]
      BY <1>2 DEF IInv, InboxOK
    <3> QED
      BY <1>0, <1>3, <3>1 DEF RequestOK
  <2>2. ASSUME NEW i \in DOMAIN inbox', inbox'[i].name = ""
        PROVE  i = 2 /\ srv' = "challenge" /\ inbox'[1].no = inbox'[2].no
    <3>1. i = 2 /\ srv = "challenge" /\ inbox[1].no = inbox[2].no
      BY <1>2, <2>2 DEF IInv, InboxOK
    <3>2. 1 \in DOMAIN inbox
      BY <1>2, <3>1
    <3>3. 1 \in DOMAIN inbox'
      BY <1>2, <3>1, <3>2
    <3> QED
      BY <1>0, <1>2, <3>1, <3>3
  <2>3. \A i, j \in DOMAIN inbox' : i < j =>
            \/ inbox'[i].no < inbox'[j].no
            \/ inbox'[j].name = "" /\ inbox'[i].no = inbox'[j].no
    <3>1. \A i, j \in DOMAIN inbox : i < j =>
              \/ inbox[i].no < inbox[j].no
              \/ inbox[j].name = "" /\ inbox[i].no = inbox[j].no
      BY DEF IInv, InboxOK
    <3>2. \A i \in DOMAIN inbox' : i \in DOMAIN inbox /\ inbox'[i] = inbox[i]
      BY <1>2
    <3> QED
      BY <3>1, <3>2
  <2>4. \A i, j \in DOMAIN inbox' :
            inbox'[i].name = "fetch" /\ inbox'[j].name = "fetch" => i = j
    BY <1>2 DEF IInv, InboxOK
  <2> QED
    BY <2>1, <2>2, <2>3, <2>4 DEF InboxOK
<1>7. ChallengeOK'
  <2>1. inbox' # << >> => 1 \in DOMAIN inbox'
    BY <1>2, EmptySeq, LenProperties
  <2>2. inbox # << >> /\ srv = "challenge" => inbox[1].name = "auth"
    BY DEF IInv, ChallengeOK
  <2>3. 1 \in DOMAIN inbox' => inbox # << >> /\ inbox'[1] = inbox[1]
    BY <1>2
  <2>4. (srv = "challenge" =>
            /\ inbox # << >> => inbox[1].name = "auth"
            /\ inbox = << >> => conn = "down"
            /\ conn = "up" /\ Len(inbox) = 1 /\ pc \notin Closing =>
                  \E i \in DOMAIN stream : stream[i].is = "plus")'
    BY <1>0, <2>1, <2>2, <2>3
  <2>5. \A i, j \in DOMAIN stream' : stream'[i].is = "plus" /\ stream'[j].is = "plus" => i = j
    BY <1>1 DEF IInv, ChallengeOK
  <2>6. ASSUME NEW i \in DOMAIN stream', stream'[i].is = "plus"
        PROVE  /\ conf'.mech = "xoauth2"
               /\ pc' \notin {"greet", "starttls", "handshake"}
               /\ ~(pc' = "auth" /\ at' = "send")
               /\ \A j \in DOMAIN inbox' : inbox'[j].name = "auth" => srv' = "challenge"
    <3>1. i \in DOMAIN stream /\ stream[i].is = "plus"
      BY <1>1, <2>6
    <3> QED
      BY <1>0, <1>2, <3>1 DEF IInv, ChallengeOK
  <2> QED
    BY <1>0, <2>4, <2>5, <2>6 DEF ChallengeOK
<1>8. DoneOK'
  BY <1>0, <1>1 DEF IInv, DoneOK
<1>9. SyncOK'
  <2>1. CASE astray
    BY <1>0, <2>1 DEF IInv, SyncOK
  <2>2. CASE ~astray
    <3>1. Sync
      BY <2>2 DEF IInv, SyncOK
    <3>2. \A i \in DOMAIN stream' : i <= left => stream'[i] = Text(last, NumLines - left + i)
      BY <1>1, <3>1 DEF Sync
    <3>3. ASSUME NEW i \in DOMAIN stream', stream'[i].is = "text"
          PROVE  i <= left \/ \E m \in DOMAIN stream' :
                                  stream'[m].is = "marker" /\ m < i /\ i <= m + NumLines
      <4>1. i <= left \/ \E m \in DOMAIN stream :
                             stream[m].is = "marker" /\ m < i /\ i <= m + NumLines
        BY <1>1, <3>1, <3>3 DEF Sync
      <4> QED
        BY <1>1, <4>1
    <3>4. ASSUME NEW m \in DOMAIN stream', stream'[m].is = "marker"
          PROVE  /\ stream'[m] = Marker(NumLines)
                 /\ left = 0
                 /\ \A k \in 1..NumLines : m + k \in DOMAIN stream' => stream'[m + k] = Text(last, k)
                 /\ pc \in Closing \/ (pc = "fetch" /\ at # "send")
      BY <1>1, <3>1, <3>4 DEF Sync
    <3>5. \A i, j \in DOMAIN stream' : stream'[i].is = "marker" /\ stream'[j].is = "marker" => i = j
      BY <1>1, <3>1 DEF Sync
    <3>6. Sync'
      BY <1>0, <1>3, <3>1, <3>2, <3>3, <3>4, <3>5 DEF Sync
    <3> QED
      BY <1>0, <2>2, <3>6 DEF SyncOK
  <2> QED
    BY <2>1, <2>2
<1>10. FetchOK'
  <2> SUFFICES ASSUME pc = "fetch", at # "send" PROVE FetchOK'
    BY <1>0 DEF FetchOK
  <2>1. ASSUME NEW i \in DOMAIN stream', stream'[i] = Completion(tag, TRUE)
        PROVE  \/ \E m \in DOMAIN stream' : stream'[m].is = "marker" /\ m < i
               \/ at = "literal"
               \/ at = "read" /\ file = Body(last)
               \/ last \notin present
    <3>1. \/ \E m \in DOMAIN stream : stream[m].is = "marker" /\ m < i
          \/ at = "literal"
          \/ at = "read" /\ file = Body(last)
          \/ last \notin present
      BY <1>1, <2>1 DEF IInv, FetchOK
    <3> QED
      BY <1>1, <3>1
  <2>2. \A i \in DOMAIN stream' : stream'[i].is = "done" /\ stream'[i].tag = tag =>
            ~FetchPending' /\ \A m \in DOMAIN stream' : stream'[m].is = "marker" => m < i
    BY <1>1, <1>3 DEF IInv, FetchOK
  <2> QED
    BY <1>0, <1>3, <2>1, <2>2 DEF IInv, FetchOK
<1>11. Whole' /\ StoreOK' /\ StoreAfterWhole'
  BY <1>0, ClientKept
<1>12. ReplyOK'
  BY <1>0 DEF ReplyOK
<1> QED
  BY <1>4, <1>5, <1>6, <1>7, <1>8, <1>9, <1>10, <1>11, <1>12 DEF IInv

LEMMA VanishStep == ASSUME IInv, Vanish PROVE IInv'
<1>0. /\ UNCHANGED <<conf, conn, srv, inbox, stream, removed, pc, at, tag, left, todo,
                     last, file, deleted, handed, log, astray, chatter, faults>>
      /\ present' \subseteq present /\ flagged' \subseteq flagged
  BY DEF Vanish, client
<1>1. /\ Waiting' = Waiting /\ FetchPending' = FetchPending /\ MarkerSent' = MarkerSent
      /\ Coming' = Coming
  BY <1>0 DEF Waiting, FetchPending, MarkerSent, Coming
<1>2. TypeOK'
  BY <1>0 DEF IInv, TypeOK
<1>3. PlaceOK' /\ LogOK' /\ AuthOnce' /\ ChallengeOK' /\ DoneOK'
  BY <1>0, <1>1 DEF IInv, PlaceOK, LogOK, AuthOnce, ChallengeOK, DoneOK
<1>4. InboxOK'
  <2>1. ASSUME NEW i \in DOMAIN inbox
        PROVE  RequestOK(inbox[i])'
    <3>1. RequestOK(inbox[i])
      BY DEF IInv, InboxOK
    <3> QED
      BY <1>0, <1>1, <3>1 DEF RequestOK
  <2> QED
    BY <1>0, <2>1 DEF IInv, InboxOK
<1>5. SyncOK' /\ ReplyOK'
  BY <1>0, <1>1 DEF IInv, SyncOK, Sync, ReplyOK
<1>6. FetchOK'
  BY <1>0, <1>1 DEF IInv, FetchOK
<1>7. Whole' /\ StoreOK' /\ StoreAfterWhole'
  BY <1>0, ClientKept
<1> QED
  BY <1>2, <1>3, <1>4, <1>5, <1>6, <1>7 DEF IInv

(***************************************************************************)
(* The server ends a challenge                                             *)
(***************************************************************************)

LEMMA RestFacts ==
    ASSUME NEW S, NEW s \in Seq(S), Len(s) > 1, NEW r, r = SubSeq(s, 3, Len(s))
    PROVE  /\ r \in Seq(S) /\ Len(s) \in Nat /\ DOMAIN s = 1..Len(s)
           /\ DOMAIN r = 1..Len(s) - 2
           /\ \A i \in DOMAIN r : i + 2 \in DOMAIN s /\ r[i] = s[i + 2]
<1>1. Len(s) \in Nat /\ DOMAIN s = 1..Len(s)
  BY LenProperties
<1>2. \A i \in 3..Len(s) : s[i] \in S
  BY <1>1, ElementOfSeq
<1>3. /\ r \in Seq(S) /\ Len(r) = IF 3 <= Len(s) THEN Len(s) - 3 + 1 ELSE 0
      /\ \A i \in 1..Len(s) - 3 + 1 : r[i] = s[3 + i - 1]
  BY <1>1, <1>2, SubSeqProperties
<1>4. Len(r) = Len(s) - 2 /\ Len(s) - 3 + 1 = Len(s) - 2
  BY <1>1, <1>3
<1>5. DOMAIN r = 1..Len(s) - 2
  BY <1>3, <1>4, LenProperties
<1>6. \A i \in 1..Len(s) - 2 : 3 + i - 1 = i + 2 /\ i + 2 \in 1..Len(s)
  BY <1>1
<1>7. \A i \in DOMAIN r : i + 2 \in DOMAIN s /\ r[i] = s[i + 2]
  BY <1>1, <1>3, <1>4, <1>5, <1>6
<1> QED
  BY <1>1, <1>3, <1>5, <1>7

\* The answer to the challenge is the second request.
LEMMA ReadsTwo ==
    ASSUME IInv, Len(inbox) > 1, srv = "challenge",
           inbox' = SubSeq(inbox, 3, Len(inbox))
    PROVE  /\ Reads(2) /\ inbox' \in Seq(Requests) /\ NoAnswer'
           /\ 1 \in DOMAIN inbox /\ 2 \in DOMAIN inbox /\ inbox[1].name = "auth"
           /\ inbox[2].name = "" => inbox[2].tag = inbox[1].tag
           /\ inbox[2].name # "" => pc \in Closing
<1>1. inbox \in Seq(Requests)
  BY DEF IInv, TypeOK
<1>2. /\ inbox' \in Seq(Requests) /\ Len(inbox) \in Nat /\ DOMAIN inbox = 1..Len(inbox)
      /\ DOMAIN inbox' = 1..Len(inbox) - 2
      /\ \A i \in DOMAIN inbox' : i + 2 \in DOMAIN inbox /\ inbox'[i] = inbox[i + 2]
  BY <1>1, RestFacts
<1>3. 1 \in DOMAIN inbox /\ 2 \in DOMAIN inbox
  BY <1>2
<1>4. Reads(2)
  BY <1>2, <1>3 DEF Reads
<1>5. \A i \in DOMAIN inbox : inbox[i].name = "" => i = 2 /\ inbox[1].no = inbox[2].no
  BY DEF IInv, InboxOK
<1>6. NoAnswer'
  <2>1. ASSUME NEW i \in DOMAIN inbox' PROVE i + 2 # 2
    <3>1. i \in 1..Len(inbox) - 2 /\ Len(inbox) \in Nat
      BY <1>2
    <3> QED
      BY <3>1
  <2>2. ASSUME NEW i \in DOMAIN inbox' PROVE inbox'[i].name # ""
    <3>1. i + 2 \in DOMAIN inbox /\ inbox'[i] = inbox[i + 2]
      BY <1>2
    <3> QED
      BY <1>5, <2>1, <3>1
  <2> QED
    BY <2>2 DEF NoAnswer
<1>7. inbox[1].name = "auth"
  <2>1. inbox # << >>
    BY <1>3
  <2> QED
    BY <2>1 DEF IInv, ChallengeOK
<1>8. RequestOK(inbox[1]) /\ RequestOK(inbox[2]) /\ tag \in Nat
  BY <1>3 DEF IInv, InboxOK, TypeOK
<1>9. inbox[2].name = "" => inbox[2].tag = inbox[1].tag
  BY <1>3, <1>5, <1>8, RequestFacts
<1>10. ASSUME inbox[2].name # "" PROVE pc \in Closing
  <2>1. inbox[1].no < inbox[2].no
    <3>1. \A j, k \in DOMAIN inbox : j < k => inbox[j].no < inbox[k].no \/ inbox[k].name = ""
      BY DEF IInv, InboxOK
    <3>2. 1 < 2
      OBVIOUS
    <3> QED
      BY <1>3, <1>10, <3>1, <3>2
  <2>2. inbox[1].no \in 1..tag /\ inbox[2].no \in 1..tag /\ tag \in Nat
    BY <1>8, RequestFacts
  <2>3. inbox[1].no # tag
    BY <2>1, <2>2
  <2> QED
    BY <1>3, <1>7, <2>3, AwaitedRequest
<1> QED
  BY <1>2, <1>3, <1>4, <1>6, <1>7, <1>9, <1>10

LEMMA EndChallengeStep == ASSUME IInv, EndChallenge PROVE IInv'
<1>0. /\ UNCHANGED <<conf, conn, present, flagged, removed, pc, at, tag, left, todo,
                     last, file, deleted, handed, chatter, faults>>
      /\ srv = "challenge" /\ srv' = "fresh"
      /\ Len(inbox) > 1 /\ inbox' = SubSeq(inbox, 3, Len(inbox))
      /\ Sends(<<Completion(inbox[1].tag, FALSE)>>) /\ Executed(inbox[1], FALSE)
      /\ astray' = (astray \/ inbox[2].name # "")
  BY DEF EndChallenge, client
<1>1. /\ Reads(2) /\ inbox' \in Seq(Requests) /\ NoAnswer'
      /\ 1 \in DOMAIN inbox /\ 2 \in DOMAIN inbox /\ inbox[1].name = "auth"
      /\ inbox[2].name = "" => inbox[2].tag = inbox[1].tag
      /\ inbox[2].name # "" => pc \in Closing
  BY <1>0, ReadsTwo
<1>2. astray' \in BOOLEAN /\ (astray => astray') /\ (astray' => pc \in Closing)
      /\ (astray' \/ inbox[2].tag = inbox[1].tag)
  BY <1>0, <1>1 DEF IInv, TypeOK, SyncOK
<1>3. inbox[1].tag \in Nat
  BY <1>1, FirstRequest DEF Requests
<1> DEFINE line == Completion(inbox[1].tag, FALSE)
<1>4. line \in Lines /\ line.is = "done"
  BY <1>3, LineTypes DEF Completion
<1>5. line = Completion(inbox[1].tag, FALSE)
  OBVIOUS
<1> HIDE DEF line
<1>6. /\ Grows
      /\ \A i \in Newly : stream'[i] = line
      /\ conn = "up" => \E i \in Newly : stream'[i] = line
  BY <1>0, <1>4, <1>5, OneLine
<1>7. \A i \in DOMAIN inbox' : inbox[1].no < inbox'[i].no
  BY <1>0, <1>1, Answered
<1>8. \A i \in DOMAIN inbox' : inbox'[i].name # "auth"
  <2> SUFFICES ASSUME NEW i \in DOMAIN inbox', inbox'[i].name = "auth" PROVE FALSE
    OBVIOUS
  <2>1. i + 2 \in DOMAIN inbox /\ inbox'[i] = inbox[i + 2]
    BY <1>1 DEF Reads
  <2>2. log[inbox'[i].no].name = "auth" /\ log[inbox[1].no].name = "auth"
    BY <1>1, <2>1, AwaitedRequest
  <2>3. inbox'[i].no \in DOMAIN log /\ inbox[1].no \in DOMAIN log /\ inbox[1].no \in Nat
    <3>1. RequestOK(inbox[i + 2]) /\ RequestOK(inbox[1]) /\ tag \in Nat
      BY <1>1, <2>1 DEF IInv, InboxOK, TypeOK
    <3>2. DOMAIN log = 1..tag
      BY Basics DEF IInv
    <3> QED
      BY <2>1, <3>1, <3>2, RequestFacts
  <2>4. inbox'[i].no = inbox[1].no
    BY <2>2, <2>3 DEF IInv, AuthOnce
  <2>5. inbox[1].no < inbox'[i].no
    BY <1>7
  <2> QED
    BY <2>3, <2>4, <2>5
<1>9. \A i \in DOMAIN stream : stream[i].is = "plus" => ~(pc = "auth" /\ conn = "up")
  <2>1. Len(inbox) # 1
    <3>1. Len(inbox) > 1 /\ Len(inbox) \in Nat
      BY <1>0, Basics DEF IInv
    <3>2. \A n \in Nat : n > 1 => n # 1
      OBVIOUS
    <3> QED
      BY <3>1, <3>2
  <2> QED
    BY <2>1 DEF IInv, ChallengeOK
<1>10. /\ \A i \in Newly : stream'[i].is \notin {"plus", "marker", "text"}
       /\ \A i \in Newly : stream'[i].is = "done" =>
                            stream'[i] = Completion(inbox[1].tag, FALSE)
       /\ conn = "up" => \E i \in Newly : stream'[i] = Completion(inbox[1].tag, FALSE)
  BY <1>4, <1>5, <1>6
<1>11. /\ PlaceOK' /\ LogOK' /\ AuthOnce' /\ InboxOK' /\ ChallengeOK' /\ DoneOK' /\ ReplyOK'
       /\ log' \in Seq(Record)
       /\ FetchPending' => FetchPending
       /\ inbox[1].name = "fetch" => ~FetchPending'
  BY <1>0, <1>1, <1>2, <1>6, <1>8, <1>9, <1>10, AnswerKept
<1>12. SyncOK' /\ FetchOK'
  BY <1>0, <1>1, <1>2, <1>6, <1>10, <1>11, QuietAnswer
<1>13. TypeOK'
  <2>1. stream' \in Seq(Lines)
    BY <1>6 DEF Grows
  <2>2. {present', flagged', removed'} \subseteq SUBSET Uids /\ faults' \in 0..MaxFaults
    BY <1>0 DEF IInv, TypeOK
  <2> QED
    BY <1>0, <1>1, <1>2, <1>11, <2>1, <2>2, ServerTypes
<1>14. Whole' /\ StoreOK' /\ StoreAfterWhole'
  BY <1>0, ClientKept
<1> QED
  BY <1>11, <1>12, <1>13, <1>14 DEF IInv

(***************************************************************************)
(* The server executes a command with success                              *)
(***************************************************************************)

\* The reply of a FETCH that finds its message is the whole literal.
Literal(c) == c.name = "fetch" /\ c.uid \in present

LEMMA ConcatFacts ==
    ASSUME NEW S, NEW s \in Seq(S), NEW t \in Seq(S)
    PROVE  /\ s \o t \in Seq(S) /\ Len(s) \in Nat /\ Len(t) \in Nat
           /\ Len(s \o t) = Len(s) + Len(t)
           /\ \A i \in 1..Len(s) : (s \o t)[i] = s[i]
           /\ \A i \in 1..Len(t) : (s \o t)[Len(s) + i] = t[i]
<1>0. PICK r : r = s \o t
  OBVIOUS
<1>1. Len(s) \in Nat /\ Len(t) \in Nat
  BY LenProperties
<1>2. /\ r \in Seq(S) /\ Len(r) = Len(s) + Len(t)
      /\ \A i \in 1..Len(s) + Len(t) : r[i] = IF i <= Len(s) THEN s[i] ELSE t[i - Len(s)]
  BY <1>0, ConcatProperties
<1>3. \A i \in 1..Len(s) : r[i] = s[i]
  BY <1>1, <1>2
<1>4. ASSUME NEW i \in 1..Len(t)
      PROVE  r[Len(s) + i] = t[i]
  <2>1. Len(s) + i \in 1..Len(s) + Len(t) /\ ~(Len(s) + i <= Len(s)) /\ (Len(s) + i) - Len(s) = i
    BY <1>1
  <2> QED
    BY <1>2, <2>1
<1> QED
  BY <1>0, <1>1, <1>2, <1>3, <1>4

LEMMA OneElement ==
    ASSUME NEW S, NEW e \in S, NEW r, r = <<e>>
    PROVE  r \in Seq(S) /\ Len(r) = 1 /\ r[1] = e
OBVIOUS

LEMMA LiteralLines ==
    ASSUME NEW c \in Requests, Literal(c), present \in SUBSET Uids
    PROVE  /\ Data(c) \in Seq(Lines) /\ Len(Data(c)) = NumLines + 2
           /\ Data(c)[1] = Marker(NumLines)
           /\ \A k \in 1..NumLines : Data(c)[1 + k] = Text(c.uid, k)
           /\ Data(c)[NumLines + 2] = Plain
<1>1. NumLines \in Nat
  BY BoundAssumption
<1>2. c.uid \in Uids
  BY DEF Literal
<1>3. PICK b : b = Body(c.uid)
  OBVIOUS
<1>4. b \in Seq(Lines) /\ Len(b) = NumLines /\ \A i \in 1..NumLines : b[i] = Text(c.uid, i)
  BY <1>2, <1>3, BodyType
<1>5. PICK h : h = <<Marker(NumLines)>>
  OBVIOUS
<1>6. h \in Seq(Lines) /\ Len(h) = 1 /\ h[1] = Marker(NumLines)
  BY <1>5, LineTypes, OneElement
<1>7. PICK e : e = <<Plain>>
  OBVIOUS
<1>8. e \in Seq(Lines) /\ Len(e) = 1 /\ e[1] = Plain
  BY <1>7, LineTypes, OneElement
<1>9. PICK hb : hb = h \o b
  OBVIOUS
<1>10. /\ hb \in Seq(Lines) /\ Len(hb) = 1 + NumLines
       /\ \A i \in 1..1 : hb[i] = h[i]
       /\ \A i \in 1..NumLines : hb[1 + i] = b[i]
  <2>1. /\ hb \in Seq(Lines) /\ Len(hb) = Len(h) + Len(b)
        /\ \A i \in 1..Len(h) : hb[i] = h[i]
        /\ \A i \in 1..Len(b) : hb[Len(h) + i] = b[i]
    <3>1. h \in Seq(Lines) /\ b \in Seq(Lines)
      BY <1>4, <1>6
    <3>2. /\ h \o b \in Seq(Lines) /\ Len(h) \in Nat
          /\ Len(h \o b) = Len(h) + Len(b)
          /\ \A i \in 1..Len(h) : (h \o b)[i] = h[i]
          /\ \A i \in 1..Len(b) : (h \o b)[Len(h) + i] = b[i]
      BY <3>1, ConcatFacts
    <3> QED
      BY <3>2, <1>9
  <2>2. Len(h) = 1 /\ Len(b) = NumLines
    BY <1>4, <1>6
  <2> QED
    BY <2>1, <2>2
<1>11. PICK d : d = hb \o e
  OBVIOUS
<1>12. /\ d \in Seq(Lines) /\ Len(d) = (1 + NumLines) + 1
       /\ \A i \in 1..1 + NumLines : d[i] = hb[i]
       /\ \A i \in 1..1 : d[(1 + NumLines) + i] = e[i]
  <2>1. /\ d \in Seq(Lines) /\ Len(d) = Len(hb) + Len(e)
        /\ \A i \in 1..Len(hb) : d[i] = hb[i]
        /\ \A i \in 1..Len(e) : d[Len(hb) + i] = e[i]
    <3>1. hb \in Seq(Lines) /\ e \in Seq(Lines)
      BY <1>8, <1>10
    <3>2. /\ hb \o e \in Seq(Lines) /\ Len(hb) \in Nat
          /\ Len(hb \o e) = Len(hb) + Len(e)
          /\ \A i \in 1..Len(hb) : (hb \o e)[i] = hb[i]
          /\ \A i \in 1..Len(e) : (hb \o e)[Len(hb) + i] = e[i]
      BY <3>1, ConcatFacts
    <3> QED
      BY <3>2, <1>11
  <2>2. Len(hb) = 1 + NumLines /\ Len(e) = 1
    BY <1>8, <1>10
  <2> QED
    BY <2>1, <2>2
<1>13. Data(c) = d
  BY <1>3, <1>5, <1>7, <1>9, <1>11 DEF Data, Literal
<1>14. d[1] = Marker(NumLines)
  <2>1. 1 \in 1..1 + NumLines /\ 1 \in 1..1
    BY <1>1
  <2> QED
    BY <1>6, <1>10, <1>12, <2>1
<1>15. ASSUME NEW k \in 1..NumLines
       PROVE  d[1 + k] = Text(c.uid, k)
  <2>1. 1 + k \in 1..1 + NumLines
    BY <1>1
  <2> QED
    BY <1>4, <1>10, <1>12, <2>1
<1>16. d[NumLines + 2] = Plain
  <2>1. (1 + NumLines) + 1 = NumLines + 2 /\ 1 \in 1..1
    BY <1>1
  <2> QED
    BY <1>8, <1>12, <2>1
<1>17. Len(d) = NumLines + 2
  BY <1>1, <1>12
<1> QED
  BY <1>12, <1>13, <1>14, <1>15, <1>16, <1>17

LEMMA OtherLines ==
    ASSUME NEW c \in Requests, ~Literal(c), present \in SUBSET Uids
    PROVE  /\ Data(c) \in Seq(Lines) /\ Len(Data(c)) \in {0, 1}
           /\ \A i \in 1..Len(Data(c)) : Data(c)[i].is \in {"plain", "found"}
<1>1. Plain.is = "plain" /\ Found(present).is = "found"
      /\ Plain \in Lines /\ Found(present) \in Lines
  BY LineTypes DEF Plain, Found
<1>2. Data(c) = <<Plain>> \/ Data(c) = <<Found(present)>> \/ Data(c) = << >>
  BY DEF Data, Literal
<1>3. CASE Data(c) = <<Plain>>
  <2>1. Data(c) \in Seq(Lines) /\ Len(Data(c)) = 1 /\ Data(c)[1] = Plain
    BY <1>1, <1>3, OneElement
  <2> QED
    BY <1>1, <2>1
<1>4. CASE Data(c) = <<Found(present)>>
  <2>1. Data(c) \in Seq(Lines) /\ Len(Data(c)) = 1 /\ Data(c)[1] = Found(present)
    BY <1>1, <1>4, OneElement
  <2> QED
    BY <1>1, <2>1
<1>5. CASE Data(c) = << >>
  BY <1>5
<1> QED
  BY <1>2, <1>3, <1>4, <1>5

\* What Serve does besides.
LEMMA ServeFacts ==
    ASSUME IInv, Serve
    PROVE  /\ UNCHANGED <<conf, conn, pc, at, tag, left, todo, last, file, deleted, handed,
                          astray, chatter, faults>>
           /\ Reads(1) /\ 1 \in DOMAIN inbox /\ inbox' \in Seq(Requests)
           /\ inbox[1] \in Requests /\ RequestOK(inbox[1])
           /\ srv # "challenge" /\ Executed(inbox[1], TRUE)
           /\ srv' \in {"fresh", "authed", "selected", "bye"}
           /\ Sends(Data(inbox[1]) \o <<Completion(inbox[1].tag, TRUE)>>)
           /\ present' \subseteq present /\ flagged' \subseteq Uids /\ removed' \subseteq Uids
           /\ flagged' \cup removed' \subseteq handed
<1>1. /\ UNCHANGED <<conf, conn, pc, at, tag, left, todo, last, file, deleted, handed,
                     astray, chatter, faults>>
      /\ inbox # << >> /\ inbox' = Tail(inbox)
  BY DEF Serve, client
<1>2. /\ Reads(1) /\ 1 \in DOMAIN inbox /\ inbox' \in Seq(Requests) /\ Head(inbox) = inbox[1]
  BY <1>1, ReadsFirst
<1>3. inbox[1] \in Requests /\ RequestOK(inbox[1])
  BY <1>2, FirstRequest
<1>4. PICK c : c = inbox[1]
  OBVIOUS
<1>5. /\ Allows(c)
      /\ srv' = CASE c.name = "auth" -> "authed"
                  [] c.name = "select" -> "selected"
                  [] c.name = "logout" -> "bye"
                  [] OTHER -> srv
      /\ flagged' = CASE c.name = "store" -> flagged \cup ({c.uid} \cap present)
                      [] c.name = "expunge" -> {}
                      [] OTHER -> flagged
      /\ present' = IF c.name = "expunge" THEN present \ flagged ELSE present
      /\ removed' = IF c.name = "expunge" THEN removed \cup flagged ELSE removed
      /\ Sends(Data(c) \o <<Completion(c.tag, TRUE)>>)
      /\ Executed(c, TRUE)
  BY <1>2, <1>4 DEF Serve
<1>6. srv # "challenge"
  BY <1>5 DEF Allows
<1>7. srv' \in {"fresh", "authed", "selected", "bye"}
  <2>1. srv \in {"fresh", "authed", "selected", "bye"}
    BY <1>6 DEF IInv, TypeOK
  <2>2. srv' \in {"authed", "selected", "bye", srv}
    BY <1>5
  <2> QED
    BY <2>1, <2>2
<1>8. present' \subseteq present
  BY <1>5
<1>9. c.name = "store" => c.uid \in handed \/ c.uid \notin present
  BY <1>3, <1>4 DEF RequestOK
<1>10. flagged' \cup removed' \subseteq handed
  <2>1. flagged \cup removed \subseteq handed
    BY DEF IInv, StoreAfterWhole
  <2>2. flagged' \subseteq flagged \cup handed
    BY <1>5, <1>9
  <2>3. removed' \subseteq removed \cup flagged
    BY <1>5
  <2> QED
    BY <2>1, <2>2, <2>3
<1>11. handed \subseteq Uids
  BY DEF IInv, TypeOK
<1> QED
  BY <1>1, <1>2, <1>3, <1>4, <1>5, <1>6, <1>7, <1>8, <1>10, <1>11

\* The lines of an answer: the data, then the completion.
LEMMA ServeSends ==
    ASSUME IInv, Serve
    PROVE  /\ Grows
           /\ \A i \in Newly : /\ conn = "up"
                               /\ stream'[i] \in Lines
                               /\ stream'[i].is # "plus"
                               /\ stream'[i].is = "done" => i = Len(stream')
                               /\ stream'[i].is = "done" =>
                                     stream'[i] = Completion(inbox[1].tag, TRUE)
           /\ conn = "up" => \E i \in Newly : stream'[i] = Completion(inbox[1].tag, TRUE)
           /\ ~Literal(inbox[1]) => \A i \in Newly : stream'[i].is \notin {"marker", "text"}
           /\ conn = "up" /\ Literal(inbox[1]) =>
                 /\ Len(stream') = Len(stream) + (NumLines + 3)
                 /\ stream'[Len(stream) + 1] = Marker(NumLines)
                 /\ \A k \in 1..NumLines :
                       stream'[Len(stream) + (1 + k)] = Text(inbox[1].uid, k)
                 /\ \A i \in Newly : /\ stream'[i].is = "marker" => i = Len(stream) + 1
                                     /\ stream'[i].is = "text" =>
                                           Len(stream) + 1 < i /\ i <= Len(stream) + (NumLines + 1)
<1>1. PICK c : c = inbox[1]
  OBVIOUS
<1>2. /\ c \in Requests /\ present \in SUBSET Uids
      /\ Sends(Data(c) \o <<Completion(c.tag, TRUE)>>)
  BY <1>1, ServeFacts DEF IInv, TypeOK
<1>3. PICK d : d = Data(c)
  OBVIOUS
<1>4. PICK line : line = Completion(c.tag, TRUE)
  OBVIOUS
<1>5. line \in Lines /\ line.is = "done"
  BY <1>2, <1>4, LineTypes DEF Completion, Requests
<1>6. PICK one : one = <<line>>
  OBVIOUS
<1>7. one \in Seq(Lines) /\ Len(one) = 1 /\ one[1] = line
  BY <1>5, <1>6, OneElement
<1>8. d \in Seq(Lines)
  BY <1>2, <1>3, DataType
<1>9. PICK lines : lines = d \o one
  OBVIOUS
<1>10. /\ lines \in Seq(Lines) /\ Len(d) \in Nat /\ Len(lines) = Len(d) + 1
       /\ \A i \in 1..Len(d) : lines[i] = d[i]
       /\ lines[Len(d) + 1] = line
  <2>1. /\ lines \in Seq(Lines) /\ Len(d) \in Nat /\ Len(lines) = Len(d) + Len(one)
        /\ \A i \in 1..Len(d) : lines[i] = d[i]
        /\ \A i \in 1..Len(one) : lines[Len(d) + i] = one[i]
    <3>1. d \in Seq(Lines) /\ one \in Seq(Lines)
      BY <1>7, <1>8
    <3>2. /\ d \o one \in Seq(Lines) /\ Len(d) \in Nat
          /\ Len(d \o one) = Len(d) + Len(one)
          /\ \A i \in 1..Len(d) : (d \o one)[i] = d[i]
          /\ \A i \in 1..Len(one) : (d \o one)[Len(d) + i] = one[i]
      BY <3>1, ConcatFacts
    <3> QED
      BY <3>2, <1>9
  <2>2. 1 \in 1..Len(one)
    BY <1>7
  <2> QED
    BY <1>7, <2>1, <2>2
<1>11. Sends(lines)
  BY <1>2, <1>3, <1>4, <1>6, <1>9
<1>12. /\ Grows
       /\ \A i \in Newly : /\ conn = "up"
                           /\ i - Len(stream) \in 1..Len(lines)
                           /\ stream'[i] = lines[i - Len(stream)]
       /\ conn = "up" => Len(stream') = Len(stream) + Len(lines)
  BY <1>10, <1>11, SendsGrows
<1>13. Len(stream) \in Nat /\ Len(stream') \in Nat /\ \A i \in Newly : i \in Nat
  <2>1. Len(stream) \in Nat /\ Len(stream') \in Nat
    BY <1>12 DEF Grows
  <2> QED
    BY <2>1 DEF Newly
<1>14. \A i \in Newly : stream'[i] \in Lines
  BY <1>10, <1>12, ElementOfSeq
<1>15. /\ \A i \in 1..Len(d) : d[i].is \notin {"plus", "done"}
       /\ ~Literal(c) => \A i \in 1..Len(d) : d[i].is \notin {"marker", "text"}
       /\ Literal(c) => /\ Len(d) = NumLines + 2
                        /\ d[1] = Marker(NumLines)
                        /\ \A k \in 1..NumLines : d[1 + k] = Text(c.uid, k)
                        /\ d[NumLines + 2] = Plain
  <2>1. CASE ~Literal(c)
    <3>1. \A i \in 1..Len(d) : d[i].is \in {"plain", "found"}
      BY <1>2, <1>3, <2>1, OtherLines
    <3> QED
      BY <2>1, <3>1
  <2>2. CASE Literal(c)
    <3>1. /\ Len(d) = NumLines + 2
          /\ d[1] = Marker(NumLines)
          /\ \A k \in 1..NumLines : d[1 + k] = Text(c.uid, k)
          /\ d[NumLines + 2] = Plain
      BY <1>2, <1>3, <2>2, LiteralLines
    <3>2. ASSUME NEW i \in 1..Len(d)
          PROVE  d[i].is \in {"marker", "text", "plain"}
      <4>1. NumLines \in Nat
        BY BoundAssumption
      <4>2. i = 1 \/ i = NumLines + 2 \/ (i - 1 \in 1..NumLines /\ 1 + (i - 1) = i)
        BY <3>1, <4>1
      <4>3. /\ Marker(NumLines).is = "marker" /\ Plain.is = "plain"
            /\ \A k \in 1..NumLines : Text(c.uid, k).is = "text"
        BY DEF Marker, Text, Plain
      <4>4. i = 1 => d[i].is = "marker"
        BY <3>1, <4>3
      <4>5. i = NumLines + 2 => d[i].is = "plain"
        BY <3>1, <4>3
      <4>6. i - 1 \in 1..NumLines /\ 1 + (i - 1) = i => d[i].is = "text"
        BY <3>1, <4>3
      <4> QED
        BY <4>2, <4>4, <4>5, <4>6
    <3> QED
      BY <2>2, <3>1, <3>2
  <2> QED
    BY <2>1, <2>2
<1>16. ASSUME NEW i \in Newly
       PROVE  \/ i - Len(stream) \in 1..Len(d) /\ stream'[i] = d[i - Len(stream)]
              \/ i = Len(stream') /\ stream'[i] = line
  <2>1. /\ i - Len(stream) \in 1..Len(d) + 1 /\ stream'[i] = lines[i - Len(stream)]
        /\ Len(stream') = Len(stream) + (Len(d) + 1) /\ i \in Nat
    BY <1>10, <1>12, <1>13
  <2>2. CASE i - Len(stream) \in 1..Len(d)
    BY <1>10, <2>1, <2>2
  <2>3. CASE i - Len(stream) = Len(d) + 1
    <3>1. i = Len(stream')
      BY <1>10, <1>13, <2>1, <2>3
    <3> QED
      BY <1>10, <2>1, <2>3, <3>1
  <2> QED
    BY <1>10, <2>1, <2>2, <2>3
<1>17. /\ \A i \in Newly : /\ stream'[i].is # "plus"
                           /\ stream'[i].is = "done" => i = Len(stream') /\ stream'[i] = line
       /\ ~Literal(c) => \A i \in Newly : stream'[i].is \notin {"marker", "text"}
  BY <1>5, <1>15, <1>16
<1>18. conn = "up" => \E i \in Newly : stream'[i] = line
  <2> SUFFICES ASSUME conn = "up" PROVE \E i \in Newly : stream'[i] = line
    OBVIOUS
  <2>1. Len(stream') = Len(stream) + (Len(d) + 1)
    BY <1>10, <1>12
  <2>2. Len(stream') \in Newly /\ Len(stream') - Len(stream) = Len(d) + 1
    BY <1>10, <1>13, <2>1 DEF Newly
  <2> QED
    BY <1>10, <1>12, <2>2
<1>19. ASSUME conn = "up", Literal(c)
       PROVE  /\ Len(stream') = Len(stream) + (NumLines + 3)
              /\ stream'[Len(stream) + 1] = Marker(NumLines)
              /\ \A k \in 1..NumLines : stream'[Len(stream) + (1 + k)] = Text(c.uid, k)
              /\ \A i \in Newly : /\ stream'[i].is = "marker" => i = Len(stream) + 1
                                  /\ stream'[i].is = "text" =>
                                        Len(stream) + 1 < i /\ i <= Len(stream) + (NumLines + 1)
  <2>1. NumLines \in Nat /\ Len(d) = NumLines + 2
    BY <1>15, <1>19, BoundAssumption
  <2>2. Len(stream') = Len(stream) + (NumLines + 3)
    BY <1>10, <1>12, <1>13, <1>19, <2>1
  <2>3. ASSUME NEW k \in 1..NumLines + 1
        PROVE  stream'[Len(stream) + k] = d[k]
    <3>1. Len(stream) + k \in Newly /\ (Len(stream) + k) - Len(stream) = k /\ k \in 1..Len(d)
      BY <1>13, <2>1, <2>2 DEF Newly
    <3> QED
      BY <1>10, <1>12, <3>1
  <2>4. stream'[Len(stream) + 1] = Marker(NumLines)
    <3>1. 1 \in 1..NumLines + 1
      BY <2>1
    <3> QED
      BY <1>15, <1>19, <2>3, <3>1
  <2>5. ASSUME NEW k \in 1..NumLines
        PROVE  stream'[Len(stream) + (1 + k)] = Text(c.uid, k)
    <3>1. 1 + k \in 1..NumLines + 1
      BY <2>1
    <3> QED
      BY <1>15, <1>19, <2>3, <3>1
  <2>6. ASSUME NEW i \in Newly
        PROVE  /\ stream'[i].is = "marker" => i = Len(stream) + 1
               /\ stream'[i].is = "text" =>
                     Len(stream) + 1 < i /\ i <= Len(stream) + (NumLines + 1)
    <3>1. CASE i - Len(stream) \in 1..Len(d) /\ stream'[i] = d[i - Len(stream)]
      <4>1. i - Len(stream) = 1 => stream'[i].is = "marker"
        BY <1>15, <1>19, <3>1 DEF Marker
      <4>2. i - Len(stream) = NumLines + 2 => stream'[i].is = "plain"
        BY <1>15, <1>19, <3>1 DEF Plain
      <4>3. i - Len(stream) \in 2..NumLines + 1 => stream'[i].is = "text"
        <5> SUFFICES ASSUME i - Len(stream) \in 2..NumLines + 1 PROVE stream'[i].is = "text"
          OBVIOUS
        <5>1. (i - Len(stream)) - 1 \in 1..NumLines
              /\ 1 + ((i - Len(stream)) - 1) = i - Len(stream)
          BY <1>13, <2>1
        <5>2. d[i - Len(stream)] = Text(c.uid, (i - Len(stream)) - 1)
          BY <1>15, <1>19, <5>1
        <5> QED
          BY <3>1, <5>2 DEF Text
      <4>4. \/ i - Len(stream) = 1 /\ i = Len(stream) + 1
            \/ i - Len(stream) = NumLines + 2
            \/ /\ i - Len(stream) \in 2..NumLines + 1
               /\ Len(stream) + 1 < i /\ i <= Len(stream) + (NumLines + 1)
        BY <1>13, <2>1, <3>1
      <4> QED
        BY <4>1, <4>2, <4>3, <4>4
    <3>2. CASE i = Len(stream') /\ stream'[i] = line
      BY <1>5, <3>2
    <3> QED
      BY <1>16, <3>1, <3>2
  <2> QED
    BY <2>2, <2>4, <2>5, <2>6
<1> QED
  BY <1>1, <1>4, <1>12, <1>14, <1>17, <1>18, <1>19

\* A literal that is sent while no other is about keeps client and server agreed.
LEMMA ServedSync ==
    ASSUME IInv, Serve, ~astray, Literal(inbox[1]), ~FetchPending'
    PROVE  Sync'
<1>1. Sync /\ 1 \in DOMAIN inbox /\ RequestOK(inbox[1])
  BY ServeFacts DEF IInv, SyncOK
<1>2. /\ inbox[1].name = "fetch" /\ inbox[1].uid = last
      /\ pc \in Closing \/ (pc = "fetch" /\ at # "send")
  <2>1. inbox[1].name = "fetch" /\ inbox[1].uid = last
    BY <1>1 DEF Literal, RequestOK
  <2> QED
    BY <1>1, <2>1, AwaitedRequest DEF Waiting
<1>3. ~MarkerSent /\ left = 0
  <2>1. FetchPending
    BY <1>1, <1>2 DEF FetchPending
  <2> QED
    BY <1>1, <2>1 DEF Sync
<1>4. /\ UNCHANGED <<conn, left, last, pc, at>>
      /\ Grows
  BY ServeFacts, ServeSends
<1>5. CASE conn # "up"
  <2>1. \A i \in Newly : stream'[i].is \notin {"marker", "text"}
    BY <1>5, ServeSends
  <2> QED
    BY <1>4, <2>1, SyncGrows
<1>6. CASE conn = "up"
  <2>1. /\ Len(stream') = Len(stream) + (NumLines + 3)
        /\ stream'[Len(stream) + 1] = Marker(NumLines)
        /\ \A k \in 1..NumLines : stream'[Len(stream) + (1 + k)] = Text(last, k)
        /\ \A i \in Newly : /\ stream'[i].is = "marker" => i = Len(stream) + 1
                            /\ stream'[i].is = "text" =>
                                  Len(stream) + 1 < i /\ i <= Len(stream) + (NumLines + 1)
    BY <1>2, <1>6, ServeSends
  <2>2. Len(stream) \in Nat /\ NumLines \in Nat /\ DOMAIN stream' = 1..Len(stream')
    BY <1>4, BoundAssumption DEF Grows
  <2>3. \A i \in DOMAIN stream : stream[i].is \notin {"marker", "text"}
    <3>1. \A i \in DOMAIN stream : ~(i <= left)
      <4>1. DOMAIN stream = 1..Len(stream)
        BY <1>4 DEF Grows
      <4> QED
        BY <1>3, <2>2, <4>1
    <3> QED
      BY <1>1, <1>3, <3>1 DEF Sync, MarkerSent
  <2>4. \A i \in DOMAIN stream' : stream'[i].is \in {"marker", "text"} => i \in Newly
    BY <1>4, <2>3, OldOrNew DEF Grows
  <2>5. Len(stream) + 1 \in DOMAIN stream' /\ stream'[Len(stream) + 1].is = "marker"
    BY <2>1, <2>2 DEF Marker
  <2>6. \A i \in DOMAIN stream' : ~(i <= left)
    BY <1>3, <2>1, <2>2
  <2>7. ASSUME NEW i \in DOMAIN stream', stream'[i].is = "text"
        PROVE  \E m \in DOMAIN stream' : stream'[m].is = "marker" /\ m < i /\ i <= m + NumLines
    <3>1. Len(stream) + 1 < i /\ i <= Len(stream) + (NumLines + 1)
      BY <2>1, <2>4, <2>7
    <3>2. i <= (Len(stream) + 1) + NumLines
      BY <2>1, <2>2, <3>1
    <3> QED
      BY <2>5, <3>1, <3>2
  <2>8. ASSUME NEW m \in DOMAIN stream', stream'[m].is = "marker"
        PROVE  /\ stream'[m] = Marker(NumLines) /\ m = Len(stream) + 1
               /\ \A k \in 1..NumLines : stream'[m + k] = Text(last, k)
               /\ m + NumLines < Len(stream')
    <3>1. m = Len(stream) + 1
      BY <2>1, <2>4, <2>8
    <3>2. ASSUME NEW k \in 1..NumLines PROVE stream'[m + k] = Text(last, k)
      <4>1. m + k = Len(stream) + (1 + k)
        BY <2>2, <3>1
      <4> QED
        BY <2>1, <4>1
    <3>3. m + NumLines < Len(stream')
      BY <2>1, <2>2, <3>1
    <3> QED
      BY <2>1, <3>1, <3>2, <3>3
  <2>9. at # "literal"
    BY <1>3 DEF IInv, PlaceOK
  <2>10. 0 \in 0..NumLines
    BY <2>2
  <2> QED
    BY <1>2, <1>3, <1>4, <2>6, <2>7, <2>8, <2>9, <2>10 DEF Sync
<1> QED
  BY <1>5, <1>6

LEMMA ServedFetch ==
    ASSUME IInv, Serve, Literal(inbox[1]), ~FetchPending'
    PROVE  FetchOK'
<1>1. /\ UNCHANGED <<conn, left, last, pc, at, tag, file>>
      /\ Grows /\ present' \subseteq present
      /\ 1 \in DOMAIN inbox /\ RequestOK(inbox[1])
  BY ServeFacts, ServeSends
<1> SUFFICES ASSUME pc = "fetch", at # "send" PROVE FetchOK'
  BY <1>1 DEF FetchOK
<1>2. FetchPending /\ ~astray
  <2>1. FetchPending
    BY <1>1 DEF Literal, FetchPending
  <2> QED
    BY <2>1 DEF IInv, SyncOK, Closing
<1>3. ~MarkerSent /\ left = 0 /\ at # "literal"
  BY <1>2 DEF IInv, SyncOK, Sync, PlaceOK
<1>4. at = "read" => file = << >>
  BY <1>2 DEF IInv, FetchOK
<1>5. \A i \in DOMAIN stream : ~(stream[i].is = "done" /\ stream[i].tag = tag)
  BY <1>2 DEF IInv, FetchOK
<1>6. \A i \in DOMAIN stream' : stream'[i].is = "done" /\ stream'[i].tag = tag => i \in Newly
  BY <1>1, <1>5, OldOrNew DEF Grows
<1>7. \A m \in DOMAIN stream' : stream'[m].is = "marker" => m \in Newly
  BY <1>1, <1>3, OldOrNew DEF Grows, MarkerSent
<1>8. ASSUME NEW i \in DOMAIN stream', stream'[i].is = "done", stream'[i].tag = tag
      PROVE  /\ \E m \in DOMAIN stream' : stream'[m].is = "marker" /\ m < i
             /\ \A m \in DOMAIN stream' : stream'[m].is = "marker" => m < i
  <2>1. i \in Newly
    BY <1>6, <1>8
  <2>2. conn = "up" /\ i = Len(stream')
    BY <1>8, <2>1, ServeSends
  <2>3. /\ Len(stream') = Len(stream) + (NumLines + 3)
        /\ stream'[Len(stream) + 1] = Marker(NumLines)
        /\ \A m \in Newly : stream'[m].is = "marker" => m = Len(stream) + 1
    BY <2>2, ServeSends
  <2>4. Len(stream) \in Nat /\ NumLines \in Nat /\ DOMAIN stream' = 1..Len(stream')
    BY <1>1, BoundAssumption DEF Grows
  <2>5. Len(stream) + 1 < i /\ Len(stream) + 1 \in DOMAIN stream'
    BY <2>2, <2>3, <2>4
  <2>6. stream'[Len(stream) + 1].is = "marker"
    BY <2>3 DEF Marker
  <2> QED
    BY <1>7, <2>3, <2>5, <2>6
<1>9. Completion(tag, TRUE).is = "done" /\ Completion(tag, TRUE).tag = tag
  BY DEF Completion
<1> QED
  BY <1>1, <1>3, <1>4, <1>8, <1>9 DEF FetchOK

LEMMA ServeStep == ASSUME IInv, Serve PROVE IInv'
<1>1. /\ UNCHANGED <<conf, conn, pc, at, tag, left, todo, last, file, deleted, handed,
                     astray, chatter, faults>>
      /\ Reads(1) /\ 1 \in DOMAIN inbox /\ inbox' \in Seq(Requests)
      /\ srv # "challenge" /\ Executed(inbox[1], TRUE)
      /\ srv' \in {"fresh", "authed", "selected", "bye"}
      /\ present' \subseteq present /\ flagged' \subseteq Uids /\ removed' \subseteq Uids
      /\ flagged' \cup removed' \subseteq handed
  BY ServeFacts
<1>2. /\ Grows
      /\ \A i \in Newly : stream'[i].is # "plus"
      /\ \A i \in Newly : stream'[i].is = "done" => stream'[i] = Completion(inbox[1].tag, TRUE)
      /\ conn = "up" => \E i \in Newly : stream'[i] = Completion(inbox[1].tag, TRUE)
      /\ ~Literal(inbox[1]) => \A i \in Newly : stream'[i].is \notin {"marker", "text"}
  BY ServeSends
<1>3. NoAnswer' /\ \A i \in DOMAIN stream : stream[i].is = "plus" =>
                      /\ \A j \in DOMAIN inbox' : inbox'[j].name # "auth"
                      /\ ~(pc = "auth" /\ conn = "up")
  <2>1. /\ NoAnswer
        /\ \A i \in DOMAIN stream : stream[i].is = "plus" =>
              /\ \A j \in DOMAIN inbox : inbox[j].name # "auth"
              /\ ~(pc = "auth" /\ conn = "up")
    BY <1>1, NoChallenge
  <2>2. \A i \in DOMAIN inbox' : i + 1 \in DOMAIN inbox /\ inbox'[i] = inbox[i + 1]
    BY <1>1 DEF Reads
  <2> QED
    BY <2>1, <2>2 DEF NoAnswer
<1>4. srv' # "challenge" /\ (astray => astray') /\ (astray' => pc \in Closing)
  BY <1>1 DEF IInv, SyncOK
<1>5. /\ PlaceOK' /\ LogOK' /\ AuthOnce' /\ InboxOK' /\ ChallengeOK' /\ DoneOK' /\ ReplyOK'
      /\ log' \in Seq(Record)
      /\ FetchPending' => FetchPending
      /\ inbox[1].name = "fetch" => ~FetchPending'
  BY <1>1, <1>2, <1>3, <1>4, AnswerKept
<1>6. SyncOK' /\ FetchOK'
  <2>1. CASE Literal(inbox[1])
    <3>1. ~FetchPending'
      BY <1>5, <2>1 DEF Literal
    <3>2. FetchOK'
      BY <2>1, <3>1, ServedFetch
    <3>3. ~astray => Sync'
      BY <2>1, <3>1, ServedSync
    <3> QED
      BY <1>1, <1>4, <3>2, <3>3 DEF SyncOK
  <2>2. CASE ~Literal(inbox[1])
    <3>1. inbox[1].name = "fetch" => inbox[1].uid \notin present
      BY <2>2 DEF Literal
    <3>2. \A i \in Newly : stream'[i].is \notin {"marker", "text"}
      BY <1>2, <2>2
    <3> QED
      BY <1>1, <1>2, <1>4, <1>5, <3>1, <3>2, QuietAnswer
  <2> QED
    BY <2>1, <2>2
<1>7. TypeOK'
  <2>1. stream' \in Seq(Lines)
    BY <1>2 DEF Grows
  <2>2. /\ srv' \in {"fresh", "challenge", "authed", "selected", "bye"}
        /\ {present', flagged', removed'} \subseteq SUBSET Uids
        /\ astray' \in BOOLEAN /\ faults' \in 0..MaxFaults
    BY <1>1 DEF IInv, TypeOK
  <2> QED
    BY <1>1, <1>5, <2>1, <2>2, ServerTypes
<1>8. Whole' /\ StoreOK' /\ StoreAfterWhole'
  BY <1>1 DEF IInv, Whole, StoreOK, StoreAfterWhole
<1> QED
  BY <1>5, <1>6, <1>7, <1>8 DEF IInv

(***************************************************************************)
(* The results                                                             *)
(***************************************************************************)

LEMMA StepInv == IInv /\ [Next]_vars => IInv'
<1> SUFFICES ASSUME IInv, [Next]_vars PROVE IInv'
  OBVIOUS
<1>1. CASE Session
  <2>1. CASE Greet
    BY <2>1, GreetStep
  <2>2. CASE Issue
    BY <2>2, IssueStep
  <2>3. CASE CreateTemp
    BY <2>3, CreateTempStep
  <2>4. CASE ReadLine
    BY <2>4, ReadLineStep
  <2>5. CASE CopyLiteral
    BY <2>5, CopyLiteralStep
  <2>6. CASE ReadFails
    BY <2>6, ReadFailsStep
  <2>7. CASE Handshake
    BY <2>7, HandshakeStep
  <2>8. CASE Pick
    BY <2>8, PickStep
  <2>9. CASE Finish
    BY <2>9, FinishStep
  <2>10. CASE Post
    BY <2>10, PostStep
  <2> QED
    BY <1>1, <2>1, <2>2, <2>3, <2>4, <2>5, <2>6, <2>7, <2>8, <2>9, <2>10 DEF Session
<1>2. CASE World
  <2>1. CASE Serve
    BY <2>1, ServeStep
  <2>2. CASE Refuse
    BY <2>2, RefuseStep
  <2>3. CASE Challenge
    BY <2>3, ChallengeStep
  <2>4. CASE EndChallenge
    BY <2>4, EndChallengeStep
  <2>5. CASE Chatter
    BY <2>5, ChatterStep
  <2>6. CASE Drop
    BY <2>6, DropStep
  <2>7. CASE Vanish
    BY <2>7, VanishStep
  <2> QED
    BY <1>2, <2>1, <2>2, <2>3, <2>4, <2>5, <2>6, <2>7 DEF World
<1>3. CASE UNCHANGED vars
  <2>1. UNCHANGED <<conf, conn, inbox, stream, srv, present, flagged, removed,
                    pc, at, tag, left, todo, last, file, deleted, handed,
                    log, astray, chatter, faults>>
    BY <1>3 DEF vars, server, client
  <2>2. Waiting' = Waiting /\ FetchPending' = FetchPending /\ MarkerSent' = MarkerSent
        /\ Coming' = Coming
    BY <2>1 DEF Waiting, FetchPending, MarkerSent, Coming
  <2>3. TypeOK' /\ PlaceOK' /\ LogOK' /\ AuthOnce' /\ ChallengeOK' /\ DoneOK'
    BY <2>1, <2>2 DEF IInv, TypeOK, PlaceOK, LogOK, AuthOnce, ChallengeOK, DoneOK
  <2>4. InboxOK'
    <3>1. ASSUME NEW i \in DOMAIN inbox
          PROVE  RequestOK(inbox[i])'
      <4>1. RequestOK(inbox[i])
        BY DEF IInv, InboxOK
      <4> QED
        BY <2>1, <2>2, <4>1 DEF RequestOK
    <3> QED
      BY <2>1, <3>1 DEF IInv, InboxOK
  <2>5. SyncOK' /\ FetchOK' /\ ReplyOK'
    BY <2>1, <2>2 DEF IInv, SyncOK, Sync, FetchOK, ReplyOK
  <2>6. Whole' /\ StoreOK' /\ StoreAfterWhole'
    BY <2>1 DEF IInv, Whole, StoreOK, StoreAfterWhole
  <2> QED
    BY <2>3, <2>4, <2>5, <2>6 DEF IInv
<1> QED
  BY <1>1, <1>2, <1>3 DEF Next

LEMMA IInvHolds == Spec => []IInv
BY InitInv, StepInv, PTL DEF Spec

\* Every reachable state of a session has the types of TypeOK: requests, lines and
\* records of the kinds Client sends and reads, a literal that ends, and counters
\* within their bounds.
THEOREM WireTypeCorrect == Spec => []TypeOK
<1>1. IInv => TypeOK
  BY DEF IInv
<1> QED
  BY <1>1, IInvHolds, PTL

\* A FETCH that FetchUID reports as a success has put the whole text of its
\* message into the file, and nothing else, for any number of messages and lines
\* and any texts: no late reply, line sent unasked or timeout makes it
\* another.  The file is empty only if another client has removed the message.
THEOREM WireWhole == Spec => []Whole
<1>1. IInv => Whole
  BY DEF IInv
<1> QED
  BY <1>1, IInvHolds, PTL

\* The session flags and expunges only messages whose whole text it has handed on,
\* also if it takes lines of a literal it has given up for replies: runIMAPAccount
\* leaves the loop after a FETCH that failed, and Delete follows only a success.
THEOREM WireStoreAfterWhole == Spec => []StoreAfterWhole
<1>1. IInv => StoreAfterWhole
  BY DEF IInv
<1> QED
  BY <1>1, IInvHolds, PTL

LEMMA NobodyWaits == IInv => NoStandoff
<1> SUFFICES ASSUME IInv, conn = "up", ~astray, pc \in Commands, at \in {"read", "literal"}
             PROVE  Owed /\ (at = "literal" => Len(stream) > left)
  BY DEF NoStandoff
<1>1. Waiting
  BY DEF Waiting
<1>2. Coming
  BY <1>1 DEF IInv, ReplyOK
<1>3. Owed
  <2>1. CASE \E i \in DOMAIN stream : stream[i].is = "done" /\ stream[i].tag = tag
    BY <2>1 DEF Owed
  <2>2. CASE \E i \in DOMAIN inbox : inbox[i].tag = tag
    <3>1. PICK i \in DOMAIN inbox : inbox[i].tag = tag
      BY <2>2
    <3>2. Len(inbox) \in Nat /\ DOMAIN inbox = 1..Len(inbox) /\ tag \in Nat
      BY Basics DEF IInv
    <3>3. CASE Len(inbox) > 1 \/ srv # "challenge"
      BY <3>1, <3>3 DEF Owed
    <3>4. CASE ~(Len(inbox) > 1) /\ srv = "challenge"
      <4>1. i = 1 /\ Len(inbox) = 1
        BY <3>1, <3>2, <3>4
      <4>2. 1 \in DOMAIN inbox /\ inbox # << >>
        BY <3>1, <4>1
      <4>3. inbox[1].name = "auth"
        BY <3>4, <4>2 DEF IInv, ChallengeOK
      <4>4. log[inbox[1].no].name = "auth" /\ inbox[1].no = tag
        BY <3>1, <4>1, <4>2, <4>3, AwaitedRequest, FirstRequest
      <4>5. pc = "auth"
        BY <1>1, <4>4 DEF IInv, LogOK
      <4>6. \E k \in DOMAIN stream : stream[k].is = "plus"
        BY <3>4, <4>1, <4>5 DEF IInv, ChallengeOK, Closing
      <4> QED
        BY <4>6 DEF Owed
    <3> QED
      BY <3>3, <3>4
  <2> QED
    BY <1>2, <2>1, <2>2 DEF Coming
<1>4. at = "literal" => Len(stream) > left
  <2>1. at = "literal" => left < Len(stream)
    BY DEF IInv, SyncOK, Sync
  <2>2. Len(stream) \in Nat /\ left \in Int
    BY Basics, BoundAssumption DEF IInv, TypeOK, MaxSwallow
  <2> QED
    BY <2>1, <2>2
<1> QED
  BY <1>3, <1>4

\* The client never waits for a line nobody will send: the completion cmd reads for,
\* or the challenge AuthenticateXOAUTH2 answers, is on its way or will be made.
THEOREM WireNoStandoff == Spec => []NoStandoff
BY NobodyWaits, IInvHolds, PTL

(***************************************************************************)
(* A session keeps what is promised about its commands                     *)
(***************************************************************************)

LEMMA VerdictReported ==
    ASSUME IInv, Waiting, NEW ok \in BOOLEAN, Settle(ok),
           ok => log[tag].outcome = "ok" \/ pc \in Closing
    PROVE  C!Next
<1>1. tag = Len(log) /\ tag \in Nat /\ tag > 0 /\ log[tag].name = pc /\ DOMAIN log = 1..tag
  BY Basics DEF IInv, LogOK
<1>2. log # << >> /\ tag \in DOMAIN log
  BY <1>1
<1>3. log[tag].verdict = "open"
  BY <1>2 DEF IInv, LogOK
<1>4. pc \in Closing => log[tag].name \in {"expunge", "logout"}
  BY <1>1 DEF Waiting, Commands, Closing
<1>5. PICK v \in {"ok", "failed"} : v = IF ok THEN "ok" ELSE "failed"
  OBVIOUS
<1>6. log' = [log EXCEPT ![Len(log)].verdict = v]
  BY <1>5 DEF Settle
<1>7. v = "ok" => log[tag].outcome = "ok" \/ log[tag].name \in {"expunge", "logout"}
  BY <1>4, <1>5
<1>8. C!Report(v)
  BY <1>1, <1>2, <1>3, <1>6, <1>7 DEF C!Report
<1> QED
  BY <1>8 DEF C!Next

LEMMA ExecutionNoted ==
    ASSUME IInv, 1 \in DOMAIN inbox, NEW ok \in BOOLEAN, Executed(inbox[1], ok)
    PROVE  C!Next
<1>1. PICK n : n = inbox[1].no
  OBVIOUS
<1>2. /\ n \in 1..tag /\ tag = Len(log) /\ tag \in Nat /\ DOMAIN log = 1..tag
      /\ \A j \in 1..tag : n <= j => log[j].outcome = "open"
  BY <1>1, FirstRequest, RequestFacts, Basics DEF IInv
<1>3. PICK o \in {"ok", "no"} : o = IF ok THEN "ok" ELSE "no"
  OBVIOUS
<1>4. log' = [log EXCEPT ![n].outcome = o]
  BY <1>1, <1>3 DEF Executed
<1>5. \A j \in n..Len(log) : log[j].outcome = "open"
  BY <1>2
<1>6. C!Execute(n, o)
  BY <1>4, <1>5 DEF C!Execute
<1> QED
  BY <1>2, <1>6 DEF C!Next

LEMMA CommandIssued == ASSUME IInv, Issue PROVE C!Next
<1>1. ~Waiting /\ pc \in Commands
  BY DEF Issue, Waiting
<1>2. \A i \in DOMAIN log : log[i].verdict # "open"
  BY <1>1 DEF IInv, LogOK
<1>3. log' = Append(log, C!Fresh(pc))
  BY DEF Issue, C!Fresh
<1>4. C!Issue(pc)
  BY <1>2, <1>3 DEF C!Issue
<1> QED
  BY <1>1, <1>4 DEF C!Next

LEMMA StepKeeps == ASSUME IInv, [Next]_vars PROVE [C!Next]_log
<1>1. CASE Session
  <2>1. CASE Greet \/ Handshake \/ Pick \/ Finish \/ Post
    BY <2>1 DEF Greet, Handshake, Pick, Finish, Post
  <2>2. CASE Issue
    BY <2>2, CommandIssued
  <2>3. CASE CreateTemp
    <3>1. Waiting
      BY <2>3 DEF CreateTemp, IInv, PlaceOK, Waiting, Commands
    <3>2. UNCHANGED log \/ Settle(FALSE)
      BY <2>3 DEF CreateTemp
    <3> QED
      BY <3>1, <3>2, VerdictReported
  <2>4. CASE ReadLine
    <3>1. PICK line : ReadsAs(line) /\ Take(line)
      BY <2>4 DEF ReadLine, ReadsAs
    <3>2. /\ Waiting /\ line \in Lines /\ stream # << >> /\ 1 \in DOMAIN stream
          /\ (~astray => line = stream[1])
          /\ (pc \notin Closing => ~astray)
      BY <3>1, ReadFacts DEF ReadsAs
    <3>3. CASE UNCHANGED log
      BY <3>3
    <3>4. CASE line.is = "done" /\ line.tag = tag /\ Settle(line.ok)
      <4>1. line.ok \in BOOLEAN
        BY <3>2, <3>4, LineKinds
      <4>2. line.ok => log[tag].outcome = "ok" \/ pc \in Closing
        BY <3>2, <3>4 DEF IInv, DoneOK
      <4> QED
        BY <3>2, <3>4, <4>1, <4>2, VerdictReported
    <3> QED
      BY <3>1, <3>3, <3>4 DEF Take
  <2>5. CASE CopyLiteral
    <3>1. UNCHANGED log \/ (pc = "fetch" /\ at = "literal" /\ Settle(FALSE))
      BY <2>5 DEF CopyLiteral
    <3>2. CASE pc = "fetch" /\ at = "literal" /\ Settle(FALSE)
      <4>1. Waiting
        BY <3>2 DEF Waiting, Commands
      <4> QED
        BY <3>2, <4>1, VerdictReported
    <3> QED
      BY <3>1, <3>2
  <2>6. CASE ReadFails
    <3>1. CASE pc = "greet"
      BY <2>6, <3>1 DEF ReadFails
    <3>2. CASE pc # "greet"
      <4>1. Settle(FALSE) /\ at \in {"read", "literal"}
        BY <2>6, <3>2 DEF ReadFails, ResultOfFailedRead, HasDeadline
      <4>2. Waiting
        BY <3>2, <4>1 DEF IInv, PlaceOK, Waiting
      <4> QED
        BY <4>1, <4>2, VerdictReported
    <3> QED
      BY <3>1, <3>2
  <2> QED
    BY <1>1, <2>1, <2>2, <2>3, <2>4, <2>5, <2>6 DEF Session
<1>2. CASE World
  <2>1. CASE Serve
    BY <2>1, ServeFacts, ExecutionNoted
  <2>2. CASE Refuse
    <3>1. inbox # << >> /\ inbox' = Tail(inbox) /\ Executed(Head(inbox), FALSE)
      BY <2>2 DEF Refuse
    <3>2. Head(inbox) = inbox[1] /\ 1 \in DOMAIN inbox
      BY <3>1, ReadsFirst
    <3> QED
      BY <3>1, <3>2, ExecutionNoted
  <2>3. CASE EndChallenge
    <3>1. Executed(inbox[1], FALSE) /\ Len(inbox) > 1
      BY <2>3 DEF EndChallenge
    <3>2. Len(inbox) \in Nat /\ DOMAIN inbox = 1..Len(inbox)
      BY Basics DEF IInv
    <3>3. 1 \in DOMAIN inbox
      BY <3>1, <3>2
    <3> QED
      BY <3>1, <3>3, ExecutionNoted
  <2>4. CASE Challenge \/ Chatter \/ Drop \/ Vanish
    BY <2>4 DEF Challenge, Chatter, Drop, Vanish
  <2> QED
    BY <1>2, <2>1, <2>2, <2>3, <2>4 DEF World
<1>3. CASE UNCHANGED vars
  BY <1>3 DEF vars
<1> QED
  BY <1>1, <1>2, <1>3 DEF Next

\* A session implements ImapCommands: its tags and the order of its reads keep one
\* command at a time, executed at most once and in order, and a success that cmd
\* reports is the server's success for that very command, except where nothing
\* depends on it.
THEOREM WireKeepsCommands == Spec => CommandsKept
<1>1. Init => C!Init
  BY DEF Init, C!Init
<1>2. IInv /\ [Next]_vars => [C!Next]_log
  BY StepKeeps
<1> QED
  BY <1>1, <1>2, IInvHolds, PTL DEF Spec, CommandsKept, C!Spec
=============================================================================
