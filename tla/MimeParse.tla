------------------------------ MODULE MimeParse -----------------------------
(***************************************************************************)
(* internal/mimeparse with the part of internal/app/run.go around it: how  *)
(* one message is cut into parts, which temporary files come of it, what   *)
(* of them is posted and what is removed.                                  *)
(*                                                                         *)
(* The parser is recursive and reads one stream of lines: HeaderParse, the *)
(* multipart walk, the decoders and the uuencode reader call each other,   *)
(* and a line that one of them leaves alone is read again by its caller.   *)
(* The stack of calls is the variable stack.  The writer of the message is *)
(* an external actor that sends it line by line, with parts in parts, and  *)
(* may leave its structure unsound: a part may lack its closing delimiter, *)
(* a header its blank line, the message its end.                           *)
(***************************************************************************)
EXTENDS Integers, Sequences, FiniteSets

CONSTANTS
    Boundaries,  \* boundaries of multiparts
    Nil,         \* no boundary
    Prefixes,    \* <<x, b>>: the boundary x begins with the boundary b
    MaxFileSize, \* lines in a file before it is split
    MaxLines,    \* bound: lines of the message
    MaxParts,    \* bound: parts of the message
    MaxAttached, \* bound: files that come out of a TNEF part
    Faults,      \* kinds of failure that may happen
    MaxFaults    \* bound: how many kinds happen in a behaviour

FaultKinds == {"temp", "write", "read", "panic"}

ASSUME MimeAssumption ==
    /\ Nil \notin Boundaries
    /\ Boundaries \cap {"bare", "tnef", "uu", "leaf"} = {}
    /\ Prefixes \subseteq Boundaries \X Boundaries
    /\ MaxFileSize \in Nat \ {0}
    /\ MaxLines \in Nat
    /\ MaxParts \in Nat \ {0}
    /\ MaxAttached \in Nat
    /\ Faults \subseteq FaultKinds
    /\ MaxFaults \in Nat

VARIABLES
    \* the writer
    open,    \* the multiparts it is in, innermost last
    part,    \* the part it is in
    where,   \* where in the part: its header, its body, between begin and end
    parts,   \* how many parts it has begun
    sent,    \* how many lines it has sent
    ended,   \* whether it has ended the message
    sound,   \* history: the structure is sound so far
    \* the line reader
    line,    \* its current line
    used,    \* whether it is consumed
    \* the parser
    stack,   \* calls in progress, innermost first
    named,   \* files that have a <tempname> in the tree
    disk,    \* temporary files that exist
    pc,      \* where processOne is
    posted,  \* files that were attached to the post
    holds,   \* history: files that hold a line that matters
    missed,  \* history: whether a line that matters was dropped
    failed   \* kinds of failure that have happened

writer == <<open, part, where, parts, sent, ended, sound>>
vars == <<writer, line, used, stack, named, disk, pc, posted, holds, missed, failed>>

(***************************************************************************)
(* Types                                                                   *)
(***************************************************************************)

\* What contentTypeCase and transferEncodingCase tell apart: a multipart, with
\* its boundary or "bare" of one; TNEF; a uuencoded part; anything else.
Kinds == Boundaries \cup {"bare", "tnef", "uu", "leaf"}

Parts == 0..MaxParts
Files == 1..(MaxLines + 1 + MaxAttached * MaxParts)

Part == [id : Parts, kind : Kinds]

\* matters: the line is content that must reach the backend; of: the part it
\* belongs to, 0 if nothing is claimed; coded: it is uuencode that is claimed.
Line == [kind : {"head", "blank", "data", "begin", "end", "delim", "close"},
         arg : Kinds \cup {Nil}, of : Parts, matters : BOOLEAN, coded : BOOLEAN]

\* A call: HeaderParse, for a part that is kept or that is thrown away; the
\* multipart walk; a decoder; parseUU.  The last two write to a file.
Call == [op : {"headers", "discard", "multi", "decode", "uu"},
         b : Boundaries \cup {Nil}, kind : Kinds,
         file : Files \cup {0}, pos : 0..MaxFileSize, err : BOOLEAN, of : SUBSET Parts]

Calls(op, b, kind, f) ==
    [op |-> op, b |-> b, kind |-> kind, file |-> f, pos |-> 0, err |-> FALSE, of |-> {}]

TypeOK ==
    /\ open \in Seq([b : Boundaries, part : Part])
    /\ part \in Part
    /\ where \in {"head", "body", "uu"}
    /\ parts \in Parts
    /\ sent \in 0..MaxLines
    /\ ended \in BOOLEAN
    /\ sound \in BOOLEAN
    /\ line \in Line
    /\ line.kind = "head" => line.arg \in Kinds
    /\ used \in BOOLEAN
    /\ stack \in Seq(Call)
    /\ named \subseteq Files
    /\ disk \subseteq Files
    /\ pc \in {"parse", "post", "clean", "done"}
    /\ posted \subseteq named
    /\ holds \subseteq Files
    /\ missed \in BOOLEAN
    /\ failed \subseteq Faults

\* FileParse: the header of the message comes first.
Init ==
    /\ open = << >>
    /\ part = [id |-> 1, kind |-> "leaf"]
    /\ where = "head"
    /\ parts = 1
    /\ sent = 0
    /\ ended = FALSE
    /\ sound = TRUE
    /\ line = [kind |-> "blank", arg |-> Nil, of |-> 0, matters |-> FALSE, coded |-> FALSE]
    /\ used = TRUE
    /\ stack = <<Calls("headers", Nil, "leaf", 0)>>
    /\ named = {}
    /\ disk = {}
    /\ pc = "parse"
    /\ posted = {}
    /\ holds = {}
    /\ missed = FALSE
    /\ failed = {}

Fault(kind) ==
    /\ kind \in Faults \ failed
    /\ Cardinality(failed) < MaxFaults
    /\ failed' = failed \cup {kind}

(***************************************************************************)
(* The writer (external)                                                   *)
(***************************************************************************)

Inner == open[Len(open)]

\* The content of leaves, and what is between begin and end in a part that is
\* said to be uuencoded, provided that it is a part of a multipart.
Matters ==
    \/ where \in {"body", "uu"} /\ part.kind = "leaf"
    \/ where = "uu" /\ part.kind = "uu" /\ open # << >>

Emit(kind, arg, whole) ==
    /\ line' = [kind |-> kind, arg |-> arg,
                of |-> IF whole /\ kind \in {"data", "begin", "end"} THEN part.id ELSE 0,
                matters |-> whole /\ kind = "data" /\ Matters,
                coded |-> whole /\ where = "uu"]
    /\ used' = FALSE
    /\ sent' = sent + 1
    /\ sound' = whole

\* Content-Type and Content-Transfer-Encoding; without them a part is a leaf.
SendHead ==
    /\ where = "head" /\ part.kind = "leaf"
    /\ \E k \in Kinds \ ({"leaf"} \cup {open[i].b : i \in DOMAIN open}) :
          Emit("head", k, sound) /\ part' = [part EXCEPT !.kind = k]
    /\ UNCHANGED <<open, where, parts, ended>>

SendBlank ==
    /\ where = "head"
    /\ Emit("blank", Nil, sound)
    /\ where' = "body"
    /\ open' = IF part.kind \in Boundaries
               THEN Append(open, [b |-> part.kind, part |-> part])
               ELSE open
    /\ UNCHANGED <<part, parts, ended>>

\* Content, and the text around the parts of a multipart.  What follows a begin
\* may be no uuencode, as it is if the begin was a line of text: nothing is
\* claimed then.
SendText ==
    /\ where \in {"body", "uu"}
    /\ \E coded \in BOOLEAN : Emit("data", Nil, sound /\ (coded \/ where = "body"))
    /\ UNCHANGED <<open, part, where, parts, ended>>

SendCode ==
    /\ \/ where = "body" /\ where' = "uu" /\ Emit("begin", Nil, sound)
       \/ where = "uu" /\ where' = "body" /\ Emit("end", Nil, sound)
    /\ UNCHANGED <<open, part, parts, ended>>

\* A delimiter of an open multipart: a new part begins.  It is sound if the
\* multipart is the innermost and no header is left open.
SendDelim ==
    /\ parts < MaxParts
    /\ \E i \in DOMAIN open :
          /\ Emit("delim", open[i].b, sound /\ i = Len(open) /\ where # "head")
          /\ open' = SubSeq(open, 1, i)
    /\ parts' = parts + 1
    /\ part' = [id |-> parts + 1, kind |-> "leaf"]
    /\ where' = "head"
    /\ UNCHANGED ended

\* The end of an open multipart; what follows belongs to it still.
SendClose ==
    /\ \E i \in DOMAIN open :
          /\ Emit("close", open[i].b, sound /\ i = Len(open) /\ where # "head")
          /\ open' = SubSeq(open, 1, i - 1)
          /\ part' = open[i].part
    /\ where' = "body"
    /\ UNCHANGED <<parts, ended>>

\* The end of the message, wherever it is.
SendEOF ==
    /\ ended' = TRUE
    /\ UNCHANGED <<open, part, where, parts, sent, sound, line, used>>

Send ==
    /\ pc = "parse" /\ stack # << >>
    /\ used /\ ~ended
    /\ \/ /\ sent < MaxLines
          /\ SendHead \/ SendBlank \/ SendText \/ SendCode \/ SendDelim \/ SendClose
       \/ SendEOF
    /\ UNCHANGED <<stack, named, disk, pc, posted, holds, missed, failed>>

(***************************************************************************)
(* The line reader, the temporary files, the part writer                   *)
(***************************************************************************)

Top == Head(stack)
Callers == Tail(stack)

\* lineReader.getLine finds nothing.
AtEOF == used /\ ended

\* lineReader.next
Consume == used' = TRUE

\* The outcome of os.CreateTemp is a name that is not in use.
Free == Files \ (disk \cup named)

Fresh(f) ==
    /\ f \in Free
    /\ \A g \in Free : f <= g

\* So many of them.
FreshFiles(n) == {f \in Free : Cardinality({g \in Free : g < f}) < n}

\* A line that matters is skipped.
Skip == missed' = (missed \/ line.matters)

\* atBoundary, hasBoundaryPrefix
atBoundary(b) ==
    /\ b # Nil
    /\ line.kind \in {"delim", "close"}
    /\ line.arg = b \/ <<line.arg, b>> \in Prefixes

\* Mutant: the split file is not entered in the tree.
Unnamed(f) == UNCHANGED named

\* partWriter.rotate: the new file becomes a <tempname>.
Name(f) == named' = named \cup {f}

\* The file is full.  The file that TNEF is decoded to is not split.
Full == Top.kind # "tnef" /\ Top.pos = MaxFileSize

\* A full file is followed by a new one.
Split(f) == Full /\ Fresh(f) /\ Name(f) /\ disk' = disk \cup {f}

\* The file c.file of the innermost call has got the line.
Written(c) ==
    /\ stack' = <<[c EXCEPT !.of = @ \cup {line.of}]>> \o Callers
    /\ holds' = IF line.matters THEN holds \cup {c.file} ELSE holds
    /\ UNCHANGED missed

NotWritten ==
    /\ stack' = <<[Top EXCEPT !.err = TRUE]>> \o Callers
    /\ Skip
    /\ UNCHANGED holds

\* partWriter.write: after an error nothing is written any more.
WriteLine ==
    \/ /\ Top.err
       /\ NotWritten
       /\ UNCHANGED <<named, disk, failed>>
    \/ /\ ~Top.err
       /\ \E f \in Files :
             /\ Split(f)
             /\ \/ Written([Top EXCEPT !.file = f, !.pos = 1]) /\ UNCHANGED failed
                \/ Fault("write") /\ NotWritten
    \/ /\ ~Top.err /\ Full
       /\ Fault("temp") /\ NotWritten
       /\ UNCHANGED <<named, disk>>
    \/ /\ ~Top.err /\ ~Full
       /\ Written([Top EXCEPT !.pos = IF Top.kind = "tnef" THEN @ ELSE @ + 1])
       /\ UNCHANGED <<named, disk, failed>>
    \/ /\ ~Top.err /\ ~Full
       /\ Fault("write") /\ NotWritten
       /\ UNCHANGED <<named, disk>>

(***************************************************************************)
(* The calls                                                               *)
(***************************************************************************)

\* Mutant: a part stops at the boundary of the whole message.
OutermostBoundary(callers) == IF callers = << >> THEN Nil ELSE callers[Len(callers)].b

\* <parent-boundary>
parentBoundary(callers) == IF callers = << >> THEN Nil ELSE Head(callers).b

\* bodyParse: what the header says decides the call that follows.  A file is
\* made for every kind but a multipart; nothing is read for a uuencoded part.
bodyParse(kind, callers) ==
    \/ /\ kind \in Boundaries
       /\ stack' = <<Calls("multi", kind, "leaf", 0)>> \o callers
       /\ UNCHANGED <<named, disk, failed>>
    \/ /\ kind = "bare"
       /\ stack' = callers
       /\ UNCHANGED <<named, disk, failed>>
    \/ /\ kind \in {"tnef", "uu", "leaf"}
       /\ \E f \in Files :
             /\ Fresh(f)
             /\ disk' = disk \cup {f}
             /\ named' = IF kind = "tnef" THEN named ELSE named \cup {f}
             /\ stack' = IF kind = "uu" THEN callers
                         ELSE <<Calls("decode", parentBoundary(callers), kind, f)>> \o callers
       /\ UNCHANGED failed
    \/ /\ kind \in {"tnef", "uu", "leaf"}
       /\ Fault("temp")
       /\ stack' = callers
       /\ UNCHANGED <<named, disk>>

\* HeaderParse: to the blank line, whatever the lines before it are.  The first
\* header of a name counts.
HeaderParse ==
    /\ Top.op \in {"headers", "discard"}
    /\ \/ /\ ~used /\ line.kind # "blank"
          /\ Consume
          /\ Skip
          /\ stack' = IF line.kind = "head" /\ Top.kind = "leaf"
                      THEN <<[Top EXCEPT !.kind = line.arg]>> \o Callers
                      ELSE stack
          /\ UNCHANGED <<named, disk, failed>>
       \/ /\ \/ ~used /\ line.kind = "blank" /\ Consume
             \/ AtEOF /\ UNCHANGED used
          /\ \/ Top.op = "headers" /\ bodyParse(Top.kind, Callers)
             \/ /\ Top.op = "discard"
                /\ stack' = Tail(Callers)
                /\ UNCHANGED <<named, disk, failed>>
          /\ UNCHANGED missed
    /\ UNCHANGED <<line, holds>>

\* parseUU up to its loop.
beginUU(b) ==
    \/ /\ \E f \in Files :
             /\ Fresh(f)
             /\ disk' = disk \cup {f}
             /\ named' = named \cup {f}
             /\ stack' = <<Calls("uu", b, "leaf", f)>> \o stack
       /\ UNCHANGED failed
    \/ /\ Fault("temp")
       /\ UNCHANGED <<stack, named, disk>>

\* Mutant: the walk does not consume the lines it has no use for.
WalkInPlace == UNCHANGED used

\* The line is consumed before it is looked at.
WalkOn == Consume

\* bodyParseMultipart: one turn of the loop.  A delimiter that is longer than
\* the boundary may look like a new part, like the end, or like neither.
MultipartLine ==
    /\ Top.op = "multi" /\ ~used
    /\ WalkOn
    /\ IF atBoundary(Top.b)
       THEN /\ \/ /\ line.arg # Top.b \/ line.kind = "close"
                  /\ stack' = Callers
               \/ /\ line.arg # Top.b \/ line.kind = "delim"
                  /\ stack' = <<Calls("headers", Nil, "leaf", 0)>> \o stack
               \/ /\ line.arg # Top.b
                  /\ stack' = <<Calls("discard", Nil, "leaf", 0)>> \o stack
            /\ UNCHANGED <<named, disk, failed>>
       ELSE IF line.kind = "begin"
            THEN beginUU(Top.b)
            ELSE UNCHANGED <<stack, named, disk, failed>>
    /\ Skip
    /\ UNCHANGED <<line, holds>>

\* Mutant: the decoder consumes the boundary that ends it.
EatBoundary == Consume

\* The boundary is left for the caller.
LeaveLine == UNCHANGED used

\* decodeText, decodeQP, decodeB64: one turn of the loop.
DecodeLine ==
    /\ Top.op = "decode" /\ ~used
    /\ ~atBoundary(Top.b)
    /\ Consume
    /\ IF Top.b = Nil /\ line.kind = "begin"
       THEN beginUU(Nil) /\ UNCHANGED <<holds, missed>>
       ELSE WriteLine
    /\ UNCHANGED line

\* The end of a decoder: at the boundary, which stays, or at the end of the
\* message.  The file of TNEF is removed, and attachments come out of it, each a
\* file or several, but for those whose file could not be made.
DecodeEnd ==
    /\ Top.op = "decode"
    /\ \/ ~used /\ atBoundary(Top.b) /\ LeaveLine
       \/ AtEOF /\ UNCHANGED used
    /\ stack' = Callers
    /\ IF Top.kind = "tnef"
       THEN /\ \E n \in 0..MaxAttached :
                  /\ disk' = (disk \ {Top.file}) \cup FreshFiles(n)
                  /\ named' = named \cup FreshFiles(n)
            /\ UNCHANGED failed \/ Fault("temp")
       ELSE UNCHANGED <<named, disk, failed>>
    /\ UNCHANGED <<line, holds, missed>>

\* parseUU: one turn of its loop.  A line that is no uuencode may end it, even
\* after some of it was written.
UULine ==
    /\ Top.op = "uu" /\ ~used
    /\ ~atBoundary(Top.b) /\ line.kind # "end"
    /\ Consume
    /\ \/ WriteLine
       \/ /\ ~line.coded
          /\ stack' = Callers
          /\ Skip
          /\ \/ UNCHANGED <<named, disk>>
             \/ ~Top.err /\ \E f \in Files : Split(f)
          /\ UNCHANGED <<holds, failed>>
    /\ UNCHANGED line

UUEnd ==
    /\ Top.op = "uu"
    /\ \/ ~used /\ atBoundary(Top.b) /\ UNCHANGED used
       \/ ~used /\ line.kind = "end" /\ Consume
       \/ AtEOF /\ UNCHANGED used
    /\ stack' = Callers
    /\ UNCHANGED <<line, named, disk, holds, missed, failed>>

\* The multipart walk at the end of the message.
MultipartEnd ==
    /\ Top.op = "multi" /\ AtEOF
    /\ stack' = Callers
    /\ UNCHANGED <<line, used, named, disk, holds, missed, failed>>

Parse ==
    /\ pc = "parse" /\ stack # << >>
    /\ \/ HeaderParse \/ MultipartLine \/ MultipartEnd
       \/ DecodeLine \/ DecodeEnd \/ UULine \/ UUEnd
    /\ UNCHANGED <<writer, pc, posted>>

(***************************************************************************)
(* processOne                                                              *)
(***************************************************************************)

\* FileParse has returned.
Parsed ==
    /\ pc = "parse" /\ stack = << >>
    /\ pc' = "post"
    /\ UNCHANGED <<writer, line, used, stack, named, disk, posted, holds, missed, failed>>

\* postParser: addSubFiles attaches the files of the tree; one that cannot be
\* read is left out.
Post ==
    /\ pc = "post"
    /\ \/ posted' = named /\ UNCHANGED failed
       \/ \E f \in named : posted' = named \ {f} /\ Fault("read")
    /\ pc' = "clean"
    /\ UNCHANGED <<writer, line, used, stack, named, disk, holds, missed>>

\* A panic is caught; if it hits the parser there is no tree.
Panic ==
    /\ pc \in {"parse", "post"}
    /\ Fault("panic")
    /\ pc' = "clean"
    /\ stack' = << >>
    /\ named' = IF pc = "parse" THEN {} ELSE named
    /\ UNCHANGED <<writer, line, used, disk, posted, holds, missed>>

\* cleanup: every file of the tree is removed, whatever became of the post.
Cleanup ==
    /\ pc = "clean"
    /\ disk' = disk \ named
    /\ pc' = "done"
    /\ UNCHANGED <<writer, line, used, stack, named, posted, holds, missed, failed>>

Next == Send \/ Parse \/ Parsed \/ Post \/ Panic \/ Cleanup

Spec == Init /\ [][Next]_vars

\* The message is a file of finite length, and the program runs on.
FairSpec == Spec /\ WF_vars(Next)

(***************************************************************************)
(* Properties                                                              *)
(***************************************************************************)

\* What is written to the files of one part comes from one part of the message:
\* boundaries end a part in time, however parts are nested and even if one
\* boundary is a prefix of another, until the structure itself is unsound.
OwnPart == \A i \in DOMAIN stack : Cardinality(stack[i].of \ {0}) <= 1

\* Unless something failed, every line that matters is in a file that is posted:
\* every line is read by the call that it is meant for, and every file a part is
\* split into is found again by the poster.  What came before a defect of the
\* structure is not damaged by it.
Whole == pc \in {"clean", "done"} /\ failed = {} => ~missed /\ holds \subseteq posted

\* After a message no temporary file is left, unless the parser panicked.
NoTempLeft == pc = "done" /\ "panic" \notin failed => disk = {}

\* The parser comes to an end, for every message.
Terminates == <>(pc = "done")
=============================================================================
