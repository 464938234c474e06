--------------------------- MODULE MimeParseProofs --------------------------
(***************************************************************************)
(* Theorems about MimeParse, for messages of any length and depth, any set *)
(* of boundaries and any failures.                                         *)
(***************************************************************************)
EXTENDS MimeParse, FiniteSetTheorems, SequenceTheorems, TLAPS

(***************************************************************************)
(* The inductive invariant                                                 *)
(***************************************************************************)

\* A decoder of TNEF; its file exists, is not in the tree, and will be removed.
Temporary(c) == c.op = "decode" /\ c.kind = "tnef"
Pending(s) == {s[i].file : i \in {j \in DOMAIN s : Temporary(s[j])}}

AllMulti(s) == \A i \in DOMAIN s : s[i].op = "multi"

\* Who writes has a file.
HasFile(c) == c.op \in {"decode", "uu"} => c.file \in Files

\* Everything is called by a multipart walk, but parseUU may be called by a
\* decoder; and a part is thrown away only within a multipart.
Shape(s) ==
    /\ \A i \in DOMAIN s : HasFile(s[i])
    /\ \A i \in DOMAIN s :
          \/ i = 1
          \/ s[i].op = "multi"
          \/ i = 2 /\ s[1].op = "uu" /\ s[2].op = "decode"
    /\ s # << >> /\ Head(s).op = "discard" => Tail(s) # << >>

\* A temporary file is in the tree or belongs to a call that will remove it.
Safe(s, d, n) ==
    /\ s \in Seq(Call)
    /\ Shape(s)
    /\ d \subseteq Files
    /\ n \subseteq Files
    /\ d \subseteq n \cup Pending(s)

TempOK ==
    /\ pc # "parse" => stack = << >>
    /\ pc = "parse" => posted = {}
    /\ pc \in {"parse", "post"} => Safe(stack, disk, named)
    /\ pc = "clean" /\ "panic" \notin failed => disk \subseteq named
    /\ NoTempLeft

IInv == TypeOK /\ TempOK

USE MimeAssumption

(***************************************************************************)
(* Type correctness                                                        *)
(***************************************************************************)

\* A new call has the type of a call.
LEMMA CallsType ==
    ASSUME NEW op \in {"headers", "discard", "multi", "decode", "uu"},
           NEW b \in Boundaries \cup {Nil}, NEW kind \in Kinds, NEW f \in Files \cup {0}
    PROVE  Calls(op, b, kind, f) \in Call
  BY DEF Calls, Call

LEMMA InitType == Init => TypeOK
<1>. SUFFICES ASSUME Init PROVE TypeOK
  OBVIOUS
<1>1. "leaf" \in Kinds /\ 1 \in Parts /\ 0 \in Parts
  BY DEF Kinds, Parts
<1>2. part \in Part
  BY <1>1 DEF Init, Part
<1>3. line \in Line /\ line.kind # "head"
  BY <1>1 DEF Init, Line
<1>4. Calls("headers", Nil, "leaf", 0) \in Call
  BY <1>1, CallsType
<1>5. stack \in Seq(Call)
  BY <1>4 DEF Init
<1>6. open \in Seq([b : Boundaries, part : Part])
  BY DEF Init
<1>7. /\ where \in {"head", "body", "uu"}
      /\ parts \in Parts
      /\ sent \in 0..MaxLines
  BY <1>1 DEF Init
<1>10. ended \in BOOLEAN /\ sound \in BOOLEAN /\ used \in BOOLEAN /\ missed \in BOOLEAN
  BY Zenon DEF Init
<1>8. /\ named \subseteq Files /\ disk \subseteq Files /\ holds \subseteq Files
      /\ posted \subseteq named
      /\ failed \subseteq Faults
      /\ pc \in {"parse", "post", "clean", "done"}
  BY DEF Init
<1>9. QED
  BY <1>2, <1>3, <1>5, <1>6, <1>7, <1>8, <1>10 DEF TypeOK

\* Pushing a call.
LEMMA PushType ==
    ASSUME NEW c \in Call, NEW s \in Seq(Call)
    PROVE  /\ <<c>> \o s \in Seq(Call)
           /\ <<c>> \o s # << >>
           /\ Head(<<c>> \o s) = c
           /\ Tail(<<c>> \o s) = s
  OBVIOUS

\* The innermost call, and the calls it was made by.
LEMMA TopType ==
    ASSUME stack \in Seq(Call), stack # << >>
    PROVE  Top \in Call /\ Callers \in Seq(Call)
  BY DEF Top, Callers

LEMMA ParentType ==
    ASSUME NEW callers \in Seq(Call)
    PROVE  parentBoundary(callers) \in Boundaries \cup {Nil}
<1>1. CASE callers = << >>
  BY <1>1 DEF parentBoundary
<1>2. CASE callers # << >>
  <2>1. Head(callers) \in Call
    BY <1>2
  <2>2. Head(callers).b \in Boundaries \cup {Nil}
    BY <2>1 DEF Call
  <2>3. QED
    BY <1>2, <2>2 DEF parentBoundary
<1>3. QED
  BY <1>1, <1>2

\* A step of the writer keeps the types.
LEMMA SendType == TypeOK /\ Send => TypeOK'
<1>. SUFFICES ASSUME TypeOK, Send PROVE TypeOK'
  OBVIOUS
<1>. DEFINE Opens == [b : Boundaries, part : Part]
<1>0. open \in Seq(Opens) /\ part \in Part
  BY DEF TypeOK
<1>1. ASSUME NEW i \in DOMAIN open
      PROVE  /\ open[i].b \in Boundaries
             /\ open[i].part \in Part
             /\ SubSeq(open, 1, i) \in Seq(Opens)
             /\ SubSeq(open, 1, i - 1) \in Seq(Opens)
  <2>1. i \in 1..Len(open) /\ open[i] \in Opens
    <3>. HIDE DEF Opens
    <3>. QED
      BY <1>0, <1>1
  <2>2. open[i].b \in Boundaries /\ open[i].part \in Part
    BY <2>1
  <2>. HIDE DEF Opens
  <2>3. ASSUME NEW n \in 0..Len(open) PROVE SubSeq(open, 1, n) \in Seq(Opens)
    BY <1>0, SubSeqProperties
  <2>4. i - 1 \in 0..Len(open) /\ i \in 0..Len(open)
    BY <1>0, <2>1
  <2>5. QED
    BY <2>2, <2>3, <2>4
<1>3. ASSUME NEW kind \in {"head", "blank", "data", "begin", "end", "delim", "close"},
             NEW arg \in Kinds \cup {Nil}, NEW whole \in BOOLEAN,
             Emit(kind, arg, whole), sent < MaxLines
      PROVE  /\ line' \in Line
             /\ line'.kind = kind /\ line'.arg = arg
             /\ used' \in BOOLEAN
             /\ sent' \in 0..MaxLines
             /\ sound' \in BOOLEAN
  <2>. DEFINE of == IF whole /\ kind \in {"data", "begin", "end"} THEN part.id ELSE 0
              m == whole /\ kind = "data" /\ Matters
              c == whole /\ where = "uu"
  <2>1. of \in Parts
    BY <1>0 DEF Part, Parts
  <2>2. m \in BOOLEAN /\ c \in BOOLEAN
    BY DEF Matters
  <2>3. line' = [kind |-> kind, arg |-> arg, of |-> of, matters |-> m, coded |-> c]
    BY <1>3 DEF Emit
  <2>. HIDE DEF of, m, c
  <2>4. line' \in Line /\ line'.kind = kind /\ line'.arg = arg
    BY <2>1, <2>2, <2>3 DEF Line
  <2>5. used' = FALSE /\ sent' = sent + 1 /\ sound' = whole
    BY <1>3 DEF Emit
  <2>6. sent \in 0..MaxLines
    BY DEF TypeOK
  <2>7. sent' \in 0..MaxLines
    BY <1>3, <2>5, <2>6
  <2>8. QED
    BY <1>3, <2>4, <2>5, <2>7, Zenon
<1>4. UNCHANGED <<stack, named, disk, pc, posted, holds, missed, failed>>
  BY DEF Send
<1>5. CASE SendHead /\ sent < MaxLines
  <2>1. PICK k \in Kinds : Emit("head", k, sound) /\ part' = [part EXCEPT !.kind = k]
    BY <1>5 DEF SendHead
  <2>2. part' \in Part
    BY <1>0, <2>1 DEF Part
  <2>3. UNCHANGED <<open, where, parts, ended>>
    BY <1>5 DEF SendHead
  <2>4. QED
    BY <1>3, <1>4, <1>5, <2>1, <2>2, <2>3 DEF TypeOK
<1>6. CASE SendBlank /\ sent < MaxLines
  <2>1. /\ Emit("blank", Nil, sound)
        /\ where' = "body"
        /\ open' = IF part.kind \in Boundaries
                   THEN Append(open, [b |-> part.kind, part |-> part]) ELSE open
        /\ UNCHANGED <<part, parts, ended>>
    BY <1>6 DEF SendBlank
  <2>2. part.kind \in Boundaries => [b |-> part.kind, part |-> part] \in Opens
    BY <1>0
  <2>3. open' \in Seq(Opens)
    <3>. HIDE DEF Opens
    <3>. QED
      BY <1>0, <2>1, <2>2
  <2>4. QED
    BY <1>3, <1>4, <1>6, <2>1, <2>3 DEF TypeOK
<1>7. CASE SendText /\ sent < MaxLines
  <2>1. PICK whole \in BOOLEAN : Emit("data", Nil, whole)
    BY <1>0, <1>7 DEF SendText
  <2>2. QED
    BY <1>3, <1>4, <1>7, <2>1 DEF SendText, TypeOK
<1>8. CASE SendCode /\ sent < MaxLines
  BY <1>3, <1>4, <1>8 DEF SendCode, TypeOK
<1>9. CASE SendDelim /\ sent < MaxLines
  <2>1. PICK i \in DOMAIN open :
             /\ Emit("delim", open[i].b, sound /\ i = Len(open) /\ where # "head")
             /\ open' = SubSeq(open, 1, i)
    BY <1>9 DEF SendDelim
  <2>2. open[i].b \in Kinds
    BY <1>1 DEF Kinds
  <2>3. (sound /\ i = Len(open) /\ where # "head") \in BOOLEAN
    OBVIOUS
  <2>4. /\ part' \in Part
        /\ parts' \in Parts
        /\ where' = "head"
        /\ ended' = ended
    BY <1>9 DEF SendDelim, TypeOK, Kinds, Part, Parts
  <2>5. QED
    BY <1>1, <1>3, <1>4, <1>9, <2>1, <2>2, <2>3, <2>4 DEF TypeOK
<1>10. CASE SendClose /\ sent < MaxLines
  <2>1. PICK i \in DOMAIN open :
             /\ Emit("close", open[i].b, sound /\ i = Len(open) /\ where # "head")
             /\ open' = SubSeq(open, 1, i - 1)
             /\ part' = open[i].part
    BY <1>10 DEF SendClose
  <2>2. open[i].b \in Kinds
    BY <1>1 DEF Kinds
  <2>3. (sound /\ i = Len(open) /\ where # "head") \in BOOLEAN
    OBVIOUS
  <2>4. where' = "body" /\ UNCHANGED <<parts, ended>>
    BY <1>10 DEF SendClose
  <2>5. QED
    BY <1>1, <1>3, <1>4, <1>10, <2>1, <2>2, <2>3, <2>4 DEF TypeOK
<1>11. CASE SendEOF
  BY <1>4, <1>11 DEF SendEOF, TypeOK
<1>12. QED
  BY <1>5, <1>6, <1>7, <1>8, <1>9, <1>10, <1>11 DEF Send

(***************************************************************************)
(* The stack                                                               *)
(***************************************************************************)

\* A call that is pushed onto multipart walks.
LEMMA PushShape ==
    ASSUME NEW c \in Call, NEW s \in Seq(Call), AllMulti(s),
           c.op = "discard" => s # << >>, HasFile(c)
    PROVE  Shape(<<c>> \o s)
<1>. DEFINE t == <<c>> \o s
<1>1. t \in Seq(Call) /\ t[1] = c /\ Head(t) = c /\ Tail(t) = s
  OBVIOUS
<1>2. \A i \in DOMAIN t : i = 1 \/ (i - 1 \in DOMAIN s /\ t[i] = s[i - 1])
  OBVIOUS
<1>. HIDE DEF t
<1>3. ASSUME NEW i \in DOMAIN t
      PROVE  HasFile(t[i]) /\ (i = 1 \/ t[i].op = "multi")
  <2>1. CASE i = 1
    BY <1>1, <2>1
  <2>2. CASE i # 1
    <3>1. t[i].op = "multi"
      BY <1>2, <2>2 DEF AllMulti
    <3>2. QED
      BY <3>1 DEF HasFile
  <2>3. QED
    BY <2>1, <2>2
<1>4. Shape(t)
  BY <1>1, <1>3 DEF Shape
<1>5. QED
  BY <1>4 DEF t

\* parseUU called by a decoder.
LEMMA PushUUShape ==
    ASSUME NEW c \in Call, NEW s \in Seq(Call), s # << >>, Head(s).op = "decode",
           c.op = "uu", AllMulti(Tail(s)), HasFile(c), HasFile(Head(s))
    PROVE  Shape(<<c>> \o s)
<1>. DEFINE t == <<c>> \o s
<1>1. t \in Seq(Call) /\ Head(t) = c /\ t[1] = c /\ t[2] = Head(s)
  OBVIOUS
<1>2. \A i \in DOMAIN t : i = 1 \/ (i - 1 \in DOMAIN s /\ t[i] = s[i - 1] /\ i \in Nat)
  OBVIOUS
<1>3. \A j \in DOMAIN s : (j = 1 /\ s[j] = Head(s))
                          \/ (j - 1 \in DOMAIN Tail(s) /\ s[j] = Tail(s)[j - 1])
  OBVIOUS
<1>. HIDE DEF t
<1>4. ASSUME NEW i \in DOMAIN t, i # 1, i # 2
      PROVE  t[i].op = "multi"
  <2>1. i - 1 \in DOMAIN s /\ t[i] = s[i - 1] /\ i - 1 # 1
    BY <1>2, <1>4
  <2>2. QED
    BY <1>3, <2>1 DEF AllMulti
<1>5. ASSUME NEW i \in DOMAIN t
      PROVE  HasFile(t[i])
  BY <1>1, <1>4 DEF HasFile
<1>6. Shape(t)
  BY <1>1, <1>4, <1>5 DEF Shape
<1>7. QED
  BY <1>6 DEF t

\* What is left when a call returns.
LEMMA PopShape ==
    ASSUME NEW s \in Seq(Call), s # << >>, Shape(s)
    PROVE  /\ Shape(Tail(s))
           /\ Head(s).op # "uu" => AllMulti(Tail(s))
           /\ Tail(s) # << >> /\ Head(Tail(s)).op = "decode" => AllMulti(Tail(Tail(s)))
<1>1. Tail(s) \in Seq(Call) /\ Head(s) = s[1]
  OBVIOUS
<1>2. \A i \in DOMAIN Tail(s) : i + 1 \in DOMAIN s /\ Tail(s)[i] = s[i + 1] /\ i \in Nat /\ i >= 1
  OBVIOUS
<1>3. \A i \in DOMAIN Tail(s) :
          \/ Tail(s)[i].op = "multi"
          \/ i = 1 /\ s[1].op = "uu" /\ Tail(s)[1].op = "decode"
  BY <1>2 DEF Shape
<1>4. Tail(s) # << >> => Head(Tail(s)) = Tail(s)[1] /\ 1 \in DOMAIN Tail(s)
  BY <1>1
<1>5. Tail(s) # << >> => Head(Tail(s)).op # "discard"
  BY <1>3, <1>4
<1>6. Shape(Tail(s))
  <2>1. \A i \in DOMAIN Tail(s) : HasFile(Tail(s)[i])
    BY <1>2 DEF Shape
  <2>2. QED
    BY <1>3, <1>5, <2>1 DEF Shape
<1>7. Head(s).op # "uu" => AllMulti(Tail(s))
  BY <1>1, <1>3 DEF AllMulti
<1>8. ASSUME Tail(s) # << >> PROVE AllMulti(Tail(Tail(s)))
  <2>1. \A i \in DOMAIN Tail(Tail(s)) : i + 1 \in DOMAIN Tail(s)
                                       /\ Tail(Tail(s))[i] = Tail(s)[i + 1] /\ i + 1 # 1
    BY <1>1, <1>8
  <2>2. QED
    BY <1>3, <2>1 DEF AllMulti
<1>9. QED
  BY <1>6, <1>7, <1>8

\* Multipart walks have no files.
LEMMA PendingMulti ==
    ASSUME NEW s \in Seq(Call), AllMulti(s)
    PROVE  Pending(s) = {}
  BY DEF Pending, AllMulti, Temporary

LEMMA PendingPush ==
    ASSUME NEW c \in Call, NEW s \in Seq(Call)
    PROVE  Pending(<<c>> \o s) = (IF Temporary(c) THEN {c.file} ELSE {}) \cup Pending(s)
<1>. DEFINE t == <<c>> \o s
<1>1. 1 \in DOMAIN t /\ t[1] = c
  OBVIOUS
<1>2. \A i \in DOMAIN t : i = 1 \/ (i - 1 \in DOMAIN s /\ t[i] = s[i - 1])
  OBVIOUS
<1>3. \A i \in DOMAIN s : i + 1 \in DOMAIN t /\ t[i + 1] = s[i]
  OBVIOUS
<1>. HIDE DEF t
<1>4. Pending(t) \subseteq (IF Temporary(c) THEN {c.file} ELSE {}) \cup Pending(s)
  BY <1>1, <1>2 DEF Pending
<1>5. Temporary(c) => c.file \in Pending(t)
  BY <1>1 DEF Pending
<1>6. Pending(s) \subseteq Pending(t)
  BY <1>3 DEF Pending
<1>7. Pending(t) = (IF Temporary(c) THEN {c.file} ELSE {}) \cup Pending(s)
  BY <1>4, <1>5, <1>6
<1>8. QED
  BY <1>7 DEF t

\* The stack is its innermost call on top of the others.
LEMMA StackTop ==
    ASSUME stack \in Seq(Call), stack # << >>
    PROVE  /\ stack = <<Top>> \o Callers
           /\ Pending(stack) = (IF Temporary(Top) THEN {Top.file} ELSE {}) \cup Pending(Callers)
<1>1. Top \in Call /\ Callers \in Seq(Call)
  BY TopType
<1>2. stack = <<Top>> \o Callers
  BY DEF Top, Callers
<1>3. QED
  BY <1>1, <1>2, PendingPush

\* The innermost call changes, and stays the same kind of call.
LEMMA ReplaceShape ==
    ASSUME NEW c \in Call, NEW d \in Call, NEW s \in Seq(Call),
           Shape(<<d>> \o s), c.op = d.op, HasFile(c)
    PROVE  Shape(<<c>> \o s)
<1>. DEFINE t == <<c>> \o s
            u == <<d>> \o s
<1>1. /\ DOMAIN t = DOMAIN u
      /\ 1 \in DOMAIN t /\ t[1] = c /\ u[1] = d
      /\ Head(t) = c /\ Head(u) = d /\ Tail(t) = Tail(u) /\ u # << >>
      /\ \A i \in DOMAIN t : i # 1 => t[i] = u[i]
  OBVIOUS
<1>2. Shape(u)
  OBVIOUS
<1>. HIDE DEF t, u
<1>3. \A i \in DOMAIN t : HasFile(t[i])
  <2>. SUFFICES ASSUME NEW i \in DOMAIN t PROVE HasFile(t[i])
    OBVIOUS
  <2>1. CASE i = 1
    BY <1>1, <2>1
  <2>2. CASE i # 1
    <3>1. i \in DOMAIN u /\ t[i] = u[i]
      BY <1>1, <2>2
    <3>2. HasFile(u[i])
      BY <1>2, <3>1 DEF Shape
    <3>3. QED
      BY <3>1, <3>2
  <2>3. QED
    BY <2>1, <2>2
<1>4. ASSUME NEW i \in DOMAIN t, i # 1, t[i].op # "multi"
      PROVE  i = 2 /\ t[1].op = "uu" /\ t[2].op = "decode"
  <2>1. i \in DOMAIN u /\ t[i] = u[i]
    BY <1>1, <1>4
  <2>2. i = 2 /\ u[1].op = "uu" /\ u[2].op = "decode"
    BY <1>2, <1>4, <2>1 DEF Shape
  <2>3. t[2] = u[2] /\ t[1].op = u[1].op
    BY <1>1, <2>1, <2>2
  <2>4. QED
    BY <2>2, <2>3
<1>5. t # << >> /\ Head(t).op = "discard" => Tail(t) # << >>
  BY <1>1, <1>2 DEF Shape
<1>6. Shape(t)
  BY <1>3, <1>4, <1>5 DEF Shape
<1>7. QED
  BY <1>6 DEF t

(***************************************************************************)
(* The steps of the parser                                                 *)
(***************************************************************************)

\* What a piece of a step of the parser does to the stack and the files.
Moved ==
    /\ Safe(stack', disk', named')
    /\ named \subseteq named'
    /\ failed' \subseteq Faults

Ready == TypeOK /\ Safe(stack, disk, named) /\ stack # << >>

LEMMA FaultType ==
    ASSUME TypeOK, NEW kind, Fault(kind)
    PROVE  failed' \subseteq Faults
  BY DEF TypeOK, Fault

\* The facts about the innermost call that every step uses.
LEMMA ReadyTop ==
    ASSUME Ready
    PROVE  /\ Top \in Call
           /\ Callers \in Seq(Call)
           /\ stack = <<Top>> \o Callers
           /\ HasFile(Top)
           /\ Shape(Callers)
           /\ Top.op # "uu" => AllMulti(Callers)
           /\ Pending(stack) = (IF Temporary(Top) THEN {Top.file} ELSE {}) \cup Pending(Callers)
<1>1. stack \in Seq(Call) /\ stack # << >> /\ Shape(stack)
  BY DEF Ready, Safe
<1>2. HasFile(Top)
  BY <1>1 DEF Shape, Top
<1>3. QED
  BY <1>1, <1>2, TopType, StackTop, PopShape DEF Top, Callers

\* A call returns that has no temporary file.
LEMMA ReturnMoved ==
    ASSUME Ready, stack' = Callers, ~Temporary(Top), UNCHANGED <<named, disk, failed>>
    PROVE  Moved
  BY ReadyTop DEF Moved, Ready, Safe, TypeOK

\* A line is written, or is not, to the file of the innermost call.
LEMMA WriteMoved ==
    ASSUME Ready, Top.op \in {"decode", "uu"}, WriteLine
    PROVE  /\ Moved
           /\ holds' \subseteq Files
           /\ missed' \in BOOLEAN
<1>1. /\ Top \in Call /\ Callers \in Seq(Call) /\ stack = <<Top>> \o Callers
      /\ Top.file \in Files
      /\ Pending(stack) = (IF Temporary(Top) THEN {Top.file} ELSE {}) \cup Pending(Callers)
      /\ Shape(<<Top>> \o Callers)
  BY ReadyTop DEF HasFile, Ready, Safe
<1>2. line.of \in Parts /\ line.matters \in BOOLEAN
  BY DEF Ready, TypeOK, Line
<1>3. ASSUME NEW c \in Call, c.op = Top.op, c.kind = Top.kind, c.file \in Files,
             stack' = <<c>> \o Callers
      PROVE  /\ stack' \in Seq(Call)
             /\ Shape(stack')
             /\ Pending(stack') = (IF Temporary(Top) THEN {c.file} ELSE {}) \cup Pending(Callers)
  <2>1. stack' \in Seq(Call)
    BY <1>1, <1>3
  <2>2. Shape(stack')
    BY <1>1, <1>3, ReplaceShape DEF HasFile
  <2>3. Temporary(c) <=> Temporary(Top)
    BY <1>3 DEF Temporary
  <2>4. QED
    BY <1>1, <1>3, <2>1, <2>2, <2>3, PendingPush
<1>4. ASSUME NotWritten
      PROVE  /\ stack' \in Seq(Call) /\ Shape(stack') /\ Pending(stack') = Pending(stack)
             /\ holds' \subseteq Files /\ missed' \in BOOLEAN
  <2>. DEFINE c == [Top EXCEPT !.err = TRUE]
  <2>1. c \in Call /\ c.op = Top.op /\ c.kind = Top.kind /\ c.file = Top.file
    BY <1>1 DEF Call
  <2>2. stack' = <<c>> \o Callers
    BY <1>4 DEF NotWritten
  <2>. HIDE DEF c
  <2>3. stack' \in Seq(Call) /\ Shape(stack') /\ Pending(stack') = Pending(stack)
    BY <1>1, <1>3, <2>1, <2>2
  <2>4. holds' \subseteq Files
    BY <1>4 DEF NotWritten, Ready, TypeOK
  <2>5. missed' \in BOOLEAN
    BY <1>2, <1>4 DEF NotWritten, Skip, Ready, TypeOK
  <2>6. QED
    BY <2>3, <2>4, <2>5
<1>5. ASSUME NEW f \in Files, NEW n \in 0..MaxFileSize, NEW c, Written(c),
             c = [Top EXCEPT !.file = f, !.pos = n]
      PROVE  /\ stack' \in Seq(Call) /\ Shape(stack')
             /\ Pending(stack') = (IF Temporary(Top) THEN {f} ELSE {}) \cup Pending(Callers)
             /\ holds' \subseteq Files /\ missed' \in BOOLEAN
  <2>. DEFINE e == [c EXCEPT !.of = @ \cup {line.of}]
  <2>1. e \in Call /\ e.op = Top.op /\ e.kind = Top.kind /\ e.file = f /\ c.file = f
    BY <1>1, <1>2, <1>5 DEF Call
  <2>2. stack' = <<e>> \o Callers
    BY <1>5 DEF Written
  <2>. HIDE DEF e
  <2>3. stack' \in Seq(Call) /\ Shape(stack')
        /\ Pending(stack') = (IF Temporary(Top) THEN {f} ELSE {}) \cup Pending(Callers)
    BY <1>3, <2>1, <2>2
  <2>4. holds' \subseteq Files
    BY <1>5, <2>1 DEF Written, Ready, TypeOK
  <2>5. missed' \in BOOLEAN
    BY <1>5 DEF Written, Ready, TypeOK
  <2>6. QED
    BY <2>3, <2>4, <2>5
<1>6. disk \subseteq Files /\ named \subseteq Files /\ disk \subseteq named \cup Pending(stack)
      /\ failed \subseteq Faults
  BY DEF Ready, Safe, TypeOK
<1>7. CASE NotWritten /\ UNCHANGED <<named, disk>> /\ failed' \subseteq Faults
  BY <1>4, <1>6, <1>7 DEF Moved, Safe
<1>8. CASE \E f \in Files :
             /\ Split(f)
             /\ \/ Written([Top EXCEPT !.file = f, !.pos = 1]) /\ UNCHANGED failed
                \/ Fault("write") /\ NotWritten
  <2>1. PICK f \in Files :
             /\ Split(f)
             /\ \/ Written([Top EXCEPT !.file = f, !.pos = 1]) /\ UNCHANGED failed
                \/ Fault("write") /\ NotWritten
    BY <1>8
  <2>2. 1 \in 0..MaxFileSize
    OBVIOUS
  <2>3. ~Temporary(Top) /\ named' = named \cup {f} /\ disk' = disk \cup {f}
    BY <2>1 DEF Split, Name, Full, Temporary
  <2>4. /\ stack' \in Seq(Call) /\ Shape(stack') /\ Pending(stack') = Pending(stack)
        /\ holds' \subseteq Files /\ missed' \in BOOLEAN
    BY <1>1, <1>4, <1>5, <2>1, <2>2, <2>3
  <2>5. failed' \subseteq Faults
    BY <1>6, <2>1, FaultType DEF Ready
  <2>6. QED
    BY <1>6, <2>3, <2>4, <2>5 DEF Moved, Safe
<1>9. CASE /\ ~Full /\ UNCHANGED <<named, disk, failed>>
           /\ Written([Top EXCEPT !.pos = IF Top.kind = "tnef" THEN @ ELSE @ + 1])
  <2>. DEFINE n == IF Top.kind = "tnef" THEN Top.pos ELSE Top.pos + 1
  <2>1. n \in 0..MaxFileSize
    BY <1>1, <1>9 DEF Full, Call
  <2>2. [Top EXCEPT !.pos = IF Top.kind = "tnef" THEN @ ELSE @ + 1]
           = [Top EXCEPT !.file = Top.file, !.pos = n]
    BY <1>1 DEF Call
  <2>. HIDE DEF n
  <2>3. /\ stack' \in Seq(Call) /\ Shape(stack') /\ Pending(stack') = Pending(stack)
        /\ holds' \subseteq Files /\ missed' \in BOOLEAN
    BY <1>1, <1>5, <1>9, <2>1, <2>2
  <2>4. QED
    BY <1>6, <1>9, <2>3 DEF Moved, Safe
<1>10. QED
  BY <1>4, <1>6, <1>7, <1>8, <1>9, FaultType DEF WriteLine, Ready

\* A call is pushed onto multipart walks; with it comes a file, in the tree unless
\* it is the temporary file of TNEF.
LEMMA PushMoved ==
    ASSUME TypeOK, NEW s \in Seq(Call), AllMulti(s), disk \subseteq named, named \subseteq Files,
           NEW c \in Call, HasFile(c), c.op = "discard" => s # << >>,
           stack' = <<c>> \o s,
           disk' \subseteq disk \cup ({c.file} \cap Files),
           named' = named \/ named' = named \cup ({c.file} \cap Files),
           disk' \subseteq named' \cup Pending(<<c>> \o s),
           failed' \subseteq Faults
    PROVE  Moved
<1>1. stack' \in Seq(Call)
  OBVIOUS
<1>2. Shape(stack')
  BY PushShape
<1>3. QED
  BY <1>1, <1>2 DEF Moved, Safe

\* The body that follows a header.
LEMMA BodyMoved ==
    ASSUME Ready, Top.op = "headers", bodyParse(Top.kind, Callers)
    PROVE  Moved
<1>1. /\ Callers \in Seq(Call) /\ AllMulti(Callers) /\ Shape(Callers)
      /\ Top \in Call
      /\ Pending(stack) = {}
  BY ReadyTop, PendingMulti DEF Temporary
<1>2. /\ named \subseteq Files /\ disk \subseteq named
      /\ failed \subseteq Faults
  BY <1>1 DEF Ready, Safe, TypeOK
<1>3. Top.kind \in Kinds /\ "leaf" \in Kinds
  BY <1>1 DEF Call, Kinds
<1>4. CASE /\ Top.kind \in Boundaries
           /\ stack' = <<Calls("multi", Top.kind, "leaf", 0)>> \o Callers
           /\ UNCHANGED <<named, disk, failed>>
  <2>. DEFINE c == Calls("multi", Top.kind, "leaf", 0)
  <2>1. c \in Call
    BY <1>3, <1>4, CallsType
  <2>2. c.op = "multi"
    BY DEF Calls
  <2>. HIDE DEF c
  <2>3. stack' = <<c>> \o Callers
    BY <1>4 DEF c
  <2>4. HasFile(c)
    BY <2>2 DEF HasFile
  <2>5. QED
    BY <1>1, <1>2, <1>4, <2>1, <2>2, <2>3, <2>4, PushMoved DEF Ready
<1>5. CASE stack' = Callers /\ UNCHANGED <<named, disk>> /\ failed' \subseteq Faults
  BY <1>1, <1>2, <1>5 DEF Moved, Safe
<1>6. CASE /\ Top.kind \in {"tnef", "uu", "leaf"}
           /\ \E f \in Files :
                /\ Fresh(f)
                /\ disk' = disk \cup {f}
                /\ named' = IF Top.kind = "tnef" THEN named ELSE named \cup {f}
                /\ stack' = IF Top.kind = "uu" THEN Callers
                            ELSE <<Calls("decode", parentBoundary(Callers), Top.kind, f)>> \o Callers
           /\ UNCHANGED failed
  <2>1. PICK f \in Files :
                /\ disk' = disk \cup {f}
                /\ named' = IF Top.kind = "tnef" THEN named ELSE named \cup {f}
                /\ stack' = IF Top.kind = "uu" THEN Callers
                            ELSE <<Calls("decode", parentBoundary(Callers), Top.kind, f)>> \o Callers
    BY <1>6
  <2>2. CASE Top.kind = "uu"
    BY <1>1, <1>2, <1>6, <2>1, <2>2 DEF Moved, Safe
  <2>3. CASE Top.kind # "uu"
    <3>. DEFINE c == Calls("decode", parentBoundary(Callers), Top.kind, f)
    <3>1. c \in Call
      BY <1>1, <1>3, CallsType, ParentType
    <3>2. c.op = "decode" /\ c.file = f /\ c.kind = Top.kind
      BY DEF Calls
    <3>. HIDE DEF c
    <3>3. stack' = <<c>> \o Callers
      BY <2>1, <2>3 DEF c
    <3>4. HasFile(c)
      BY <3>2 DEF HasFile
    <3>5. Pending(<<c>> \o Callers) = (IF Temporary(c) THEN {f} ELSE {}) \cup Pending(Callers)
      BY <1>1, <3>1, <3>2, PendingPush
    <3>6. disk' \subseteq named' \cup Pending(<<c>> \o Callers)
      BY <1>2, <2>1, <3>2, <3>5 DEF Temporary
    <3>7. {c.file} \cap Files = {f}
      BY <3>2
    <3>8. /\ disk' \subseteq disk \cup ({c.file} \cap Files)
          /\ named' = named \/ named' = named \cup ({c.file} \cap Files)
      BY <2>1, <3>7
    <3>9. TypeOK /\ failed' \subseteq Faults
      BY <1>2, <1>6 DEF Ready
    <3>10. QED
      BY <1>1, <1>2, <3>1, <3>2, <3>3, <3>4, <3>6, <3>8, <3>9, PushMoved
  <2>4. QED
    BY <2>2, <2>3
<1>7. ASSUME Fault("temp") PROVE failed' \subseteq Faults
  BY <1>7, FaultType DEF Ready
<1>8. QED
  BY <1>2, <1>4, <1>5, <1>6, <1>7 DEF bodyParse

\* parseUU is called by a multipart walk, or by a decoder.
LEMMA UUMoved ==
    ASSUME Ready, Top.op \in {"multi", "decode"}, NEW b \in Boundaries \cup {Nil}, beginUU(b)
    PROVE  Moved
<1>1. /\ Callers \in Seq(Call) /\ AllMulti(Callers) /\ Top \in Call /\ HasFile(Top)
      /\ stack = <<Top>> \o Callers
  BY ReadyTop
<1>2. /\ stack \in Seq(Call) /\ Shape(stack) /\ named \subseteq Files /\ disk \subseteq Files
      /\ disk \subseteq named \cup Pending(stack) /\ failed \subseteq Faults /\ stack # << >>
  BY DEF Ready, Safe, TypeOK
<1>3. CASE Fault("temp") /\ UNCHANGED <<stack, named, disk>>
  BY <1>2, <1>3, FaultType DEF Moved, Safe, Ready
<1>4. CASE /\ \E f \in Files :
                /\ Fresh(f)
                /\ disk' = disk \cup {f}
                /\ named' = named \cup {f}
                /\ stack' = <<Calls("uu", b, "leaf", f)>> \o stack
           /\ UNCHANGED failed
  <2>1. PICK f \in Files : /\ disk' = disk \cup {f}
                           /\ named' = named \cup {f}
                           /\ stack' = <<Calls("uu", b, "leaf", f)>> \o stack
    BY <1>4
  <2>. DEFINE c == Calls("uu", b, "leaf", f)
  <2>2. c \in Call
    BY CallsType DEF Kinds
  <2>3. c.op = "uu" /\ c.file = f
    BY DEF Calls
  <2>. HIDE DEF c
  <2>4. stack' = <<c>> \o stack
    BY <2>1 DEF c
  <2>5. HasFile(c)
    BY <2>3 DEF HasFile
  <2>6. Pending(stack') = Pending(stack)
    BY <1>2, <2>2, <2>3, <2>4, PendingPush DEF Temporary
  <2>7. Shape(stack')
    <3>1. CASE Top.op = "decode"
      BY <1>1, <1>2, <2>2, <2>3, <2>4, <2>5, <3>1, PushUUShape DEF Top, Callers
    <3>2. CASE Top.op = "multi"
      <4>1. AllMulti(stack)
        BY <1>1, <3>2 DEF AllMulti
      <4>2. QED
        BY <1>2, <2>2, <2>3, <2>4, <2>5, <4>1, PushShape
    <3>3. QED
      BY <3>1, <3>2
  <2>8. stack' \in Seq(Call)
    BY <1>2, <2>2, <2>4
  <2>9. QED
    BY <1>2, <1>4, <2>1, <2>6, <2>7, <2>8 DEF Moved, Safe
<1>5. QED
  BY <1>3, <1>4 DEF beginUU

\* What a step of the parser does to the variables it may change.
ParserStep ==
    /\ Moved
    /\ line' = line
    /\ used' \in BOOLEAN
    /\ holds' \subseteq Files
    /\ missed' \in BOOLEAN

LEMMA SkipType ==
    ASSUME TypeOK, Skip
    PROVE  missed' \in BOOLEAN
  BY DEF TypeOK, Skip, Line

LEMMA HeaderStep ==
    ASSUME Ready, HeaderParse
    PROVE  ParserStep
<1>1. /\ Top \in Call /\ Callers \in Seq(Call) /\ AllMulti(Callers) /\ Shape(Callers)
      /\ stack = <<Top>> \o Callers /\ HasFile(Top) /\ ~Temporary(Top)
      /\ Pending(stack) = {} /\ Pending(Callers) = {}
  BY ReadyTop, PendingMulti DEF HeaderParse, Temporary
<1>2. /\ TypeOK /\ stack \in Seq(Call) /\ Shape(stack) /\ named \subseteq Files /\ disk \subseteq Files
      /\ disk \subseteq named /\ failed \subseteq Faults /\ stack # << >>
      /\ used \in BOOLEAN /\ holds \subseteq Files /\ missed \in BOOLEAN /\ line \in Line
  BY <1>1 DEF Ready, Safe, TypeOK
<1>3. line' = line /\ holds' \subseteq Files
  BY <1>2 DEF HeaderParse
<1>4. CASE /\ ~used /\ line.kind # "blank" /\ Consume /\ Skip
           /\ stack' = IF line.kind = "head" /\ Top.kind = "leaf"
                       THEN <<[Top EXCEPT !.kind = line.arg]>> \o Callers ELSE stack
           /\ UNCHANGED <<named, disk, failed>>
  <2>1. used' \in BOOLEAN /\ missed' \in BOOLEAN
    BY <1>2, <1>4, SkipType DEF Consume
  <2>2. CASE stack' = stack
    BY <1>2, <1>3, <1>4, <2>1, <2>2 DEF ParserStep, Moved, Ready, Safe
  <2>3. CASE line.kind = "head" /\ stack' = <<[Top EXCEPT !.kind = line.arg]>> \o Callers
    <3>. DEFINE c == [Top EXCEPT !.kind = line.arg]
    <3>1. line.arg \in Kinds
      BY <1>2, <2>3 DEF TypeOK
    <3>2. c \in Call /\ c.op = Top.op /\ c.file = Top.file
      BY <1>1, <3>1 DEF Call
    <3>. HIDE DEF c
    <3>3. stack' = <<c>> \o Callers
      BY <2>3 DEF c
    <3>4. HasFile(c)
      BY <1>1, <3>2 DEF HasFile
    <3>5. stack' \in Seq(Call) /\ Shape(stack')
      BY <1>1, <1>2, <3>2, <3>3, <3>4, ReplaceShape
    <3>6. QED
      BY <1>2, <1>3, <1>4, <2>1, <3>5 DEF ParserStep, Moved, Safe
  <2>4. QED
    BY <1>4, <2>2, <2>3
<1>5. CASE /\ used' \in BOOLEAN
           /\ Top.op = "headers" /\ bodyParse(Top.kind, Callers)
           /\ UNCHANGED missed
  BY <1>2, <1>3, <1>5, BodyMoved DEF ParserStep
<1>6. CASE /\ used' \in BOOLEAN
           /\ Top.op = "discard" /\ stack' = Tail(Callers)
           /\ UNCHANGED <<named, disk, failed, missed>>
  <2>1. Callers # << >>
    BY <1>2, <1>6 DEF Shape, Top, Callers
  <2>2. Tail(Callers) \in Seq(Call) /\ Shape(Tail(Callers))
    BY <1>1, <2>1, PopShape
  <2>3. QED
    BY <1>2, <1>3, <1>6, <2>2 DEF ParserStep, Moved, Safe
<1>7. Consume => used' \in BOOLEAN
  BY DEF Consume
<1>8. QED
  BY <1>2, <1>4, <1>5, <1>6, <1>7 DEF HeaderParse

LEMMA MultipartLineStep ==
    ASSUME Ready, MultipartLine
    PROVE  ParserStep
<1>1. /\ Top \in Call /\ Callers \in Seq(Call) /\ AllMulti(Callers)
      /\ stack = <<Top>> \o Callers /\ ~Temporary(Top) /\ Top.op = "multi"
      /\ Pending(Callers) = {} /\ Pending(stack) = {}
  BY ReadyTop, PendingMulti DEF MultipartLine, Temporary
<1>2. /\ TypeOK /\ stack \in Seq(Call) /\ named \subseteq Files /\ disk \subseteq named
      /\ failed \subseteq Faults /\ stack # << >> /\ holds \subseteq Files
  BY <1>1 DEF Ready, Safe, TypeOK
<1>3. AllMulti(stack)
  BY <1>1 DEF AllMulti
<1>4. line' = line /\ holds' \subseteq Files /\ missed' \in BOOLEAN /\ used' \in BOOLEAN
  BY <1>2, SkipType DEF MultipartLine, WalkOn, Consume
<1>5. CASE stack' = Callers /\ UNCHANGED <<named, disk, failed>>
  BY <1>1, <1>4, <1>5, ReturnMoved DEF ParserStep
<1>6. ASSUME NEW op \in {"headers", "discard"},
             stack' = <<Calls(op, Nil, "leaf", 0)>> \o stack, UNCHANGED <<named, disk, failed>>
      PROVE  ParserStep
  <2>. DEFINE c == Calls(op, Nil, "leaf", 0)
  <2>1. c \in Call
    BY CallsType DEF Kinds
  <2>2. HasFile(c)
    BY DEF HasFile, Calls
  <2>. HIDE DEF c
  <2>3. stack' = <<c>> \o stack
    BY <1>6 DEF c
  <2>4. Moved
    BY <1>2, <1>3, <1>6, <2>1, <2>2, <2>3, PushMoved
  <2>5. QED
    BY <1>4, <2>4 DEF ParserStep
<1>7. CASE beginUU(Top.b)
  <2>1. Top.b \in Boundaries \cup {Nil}
    BY <1>1 DEF Call
  <2>2. QED
    BY <1>1, <1>4, <1>7, <2>1, UUMoved DEF ParserStep
<1>8. CASE UNCHANGED <<stack, named, disk, failed>>
  BY <1>2, <1>4, <1>8 DEF ParserStep, Moved, Ready, Safe
<1>9. QED
  BY <1>5, <1>6, <1>7, <1>8 DEF MultipartLine

LEMMA DecodeLineStep ==
    ASSUME Ready, DecodeLine
    PROVE  ParserStep
<1>1. Top.op = "decode" /\ line' = line /\ used' \in BOOLEAN
  BY DEF DecodeLine, Consume
<1>2. CASE beginUU(Nil) /\ UNCHANGED <<holds, missed>>
  <2>1. holds' \subseteq Files /\ missed' \in BOOLEAN
    BY <1>2 DEF Ready, TypeOK
  <2>2. QED
    BY <1>1, <1>2, <2>1, UUMoved DEF ParserStep
<1>3. CASE WriteLine
  BY <1>1, <1>3, WriteMoved DEF ParserStep
<1>4. QED
  BY <1>2, <1>3 DEF DecodeLine

\* The decoder of TNEF takes its temporary file with it.
LEMMA DecodeEndStep ==
    ASSUME Ready, DecodeEnd
    PROVE  ParserStep
<1>1. /\ Callers \in Seq(Call) /\ AllMulti(Callers) /\ Shape(Callers)
      /\ Top.op = "decode"
      /\ Pending(stack) = (IF Temporary(Top) THEN {Top.file} ELSE {})
  BY ReadyTop, PendingMulti DEF DecodeEnd
<1>2. /\ TypeOK /\ named \subseteq Files /\ disk \subseteq Files
      /\ disk \subseteq named \cup Pending(stack)
      /\ failed \subseteq Faults
  BY DEF Ready, Safe, TypeOK
<1>3. line' = line /\ holds' \subseteq Files /\ missed' \in BOOLEAN /\ used' \in BOOLEAN
  BY DEF DecodeEnd, LeaveLine, Ready, TypeOK
<1>4. stack' = Callers
  BY DEF DecodeEnd
<1>5. CASE Top.kind # "tnef"
  <2>1. UNCHANGED <<named, disk, failed>> /\ ~Temporary(Top)
    BY <1>5 DEF DecodeEnd, Temporary
  <2>2. QED
    BY <1>3, <1>4, <2>1, ReturnMoved DEF ParserStep
<1>6. CASE Top.kind = "tnef"
  <2>1. Pending(stack) = {Top.file}
    BY <1>1, <1>6 DEF Temporary
  <2>2. disk \ {Top.file} \subseteq named
    BY <1>2, <2>1
  <2>3. /\ disk' \subseteq Files /\ named' \subseteq Files
        /\ disk' \subseteq named' /\ named \subseteq named'
        /\ failed' \subseteq Faults
    <3>1. PICK n \in 0..MaxAttached : /\ disk' = (disk \ {Top.file}) \cup FreshFiles(n)
                                      /\ named' = named \cup FreshFiles(n)
      BY <1>6 DEF DecodeEnd
    <3>2. FreshFiles(n) \subseteq Files
      BY DEF FreshFiles, Free
    <3>3. failed' \subseteq Faults
      BY <1>2, <1>6, FaultType DEF DecodeEnd
    <3>4. QED
      BY <1>2, <2>2, <3>1, <3>2, <3>3
  <2>4. QED
    BY <1>1, <1>3, <1>4, <2>3 DEF ParserStep, Moved, Safe
<1>7. QED
  BY <1>5, <1>6

LEMMA UULineStep ==
    ASSUME Ready, UULine
    PROVE  ParserStep
<1>1. Top.op = "uu" /\ line' = line /\ used' \in BOOLEAN
  BY DEF UULine, Consume
<1>2. CASE WriteLine
  BY <1>1, <1>2, WriteMoved DEF ParserStep
<1>3. CASE /\ stack' = Callers /\ Skip /\ UNCHANGED <<holds, failed>>
           /\ \/ UNCHANGED <<named, disk>>
              \/ \E f \in Files : Split(f)
  <2>1. ~Temporary(Top) /\ holds' \subseteq Files /\ missed' \in BOOLEAN
    BY <1>1, <1>3, SkipType DEF Temporary, Ready, TypeOK
  <2>2. CASE UNCHANGED <<named, disk>>
    BY <1>1, <1>3, <2>1, <2>2, ReturnMoved DEF ParserStep
  <2>3. CASE \E f \in Files : Split(f)
    <3>1. PICK f \in Files : named' = named \cup {f} /\ disk' = disk \cup {f}
      BY <2>3 DEF Split, Name
    <3>2. /\ Callers \in Seq(Call) /\ Shape(Callers) /\ Pending(stack) = Pending(Callers)
      BY <2>1, ReadyTop
    <3>3. QED
      BY <1>1, <1>3, <2>1, <3>1, <3>2 DEF ParserStep, Moved, Safe, Ready, TypeOK
  <2>4. QED
    BY <1>3, <2>2, <2>3
<1>4. QED
  BY <1>2, <1>3 DEF UULine

\* parseUU and the multipart walk return.
LEMMA ReturnStep ==
    ASSUME Ready, UUEnd \/ MultipartEnd
    PROVE  ParserStep
<1>1. /\ stack' = Callers /\ ~Temporary(Top) /\ UNCHANGED <<line, named, disk, holds, missed, failed>>
      /\ used' = used \/ used' = TRUE
  BY DEF UUEnd, MultipartEnd, Temporary, Consume
<1>2. holds' \subseteq Files /\ missed' \in BOOLEAN /\ used' \in BOOLEAN
  BY <1>1 DEF Ready, TypeOK
<1>3. QED
  BY <1>1, <1>2, ReturnMoved DEF ParserStep

(***************************************************************************)
(* The invariant                                                           *)
(***************************************************************************)

LEMMA InitIInv == Init => IInv
<1>. SUFFICES ASSUME Init PROVE IInv
  OBVIOUS
<1>1. TypeOK
  BY InitType
<1>2. stack \in Seq(Call) /\ stack = <<Calls("headers", Nil, "leaf", 0)>>
  BY <1>1 DEF Init, TypeOK
<1>3. Shape(stack)
  BY <1>2 DEF Shape, HasFile, Calls
<1>4. Safe(stack, disk, named)
  BY <1>2, <1>3 DEF Init, Safe
<1>5. QED
  BY <1>1, <1>4 DEF IInv, TempOK, NoTempLeft, Init

LEMMA NextIInv == IInv /\ [Next]_vars => IInv'
<1>. SUFFICES ASSUME IInv, [Next]_vars PROVE IInv'
  OBVIOUS
<1>1. TypeOK /\ TempOK
  BY DEF IInv
<1>2. CASE Send
  <2>1. TypeOK'
    BY <1>1, <1>2, SendType
  <2>2. UNCHANGED <<stack, named, disk, pc, posted, failed>>
    BY <1>2 DEF Send
  <2>3. TempOK'
    BY <1>1, <2>2 DEF TempOK, NoTempLeft
  <2>4. QED
    BY <2>1, <2>3 DEF IInv
<1>3. CASE Parse
  <2>1. pc = "parse" /\ stack # << >> /\ UNCHANGED <<writer, pc, posted>>
    BY <1>3 DEF Parse
  <2>2. Ready
    BY <1>1, <2>1 DEF Ready, TempOK
  <2>3. ParserStep
    BY <1>3, <2>2, HeaderStep, MultipartLineStep, DecodeLineStep, DecodeEndStep,
       UULineStep, ReturnStep DEF Parse
  <2>4. TypeOK'
    BY <1>1, <2>1, <2>3 DEF TypeOK, ParserStep, Moved, Safe, writer
  <2>5. TempOK'
    BY <1>1, <2>1, <2>3 DEF TempOK, NoTempLeft, ParserStep, Moved
  <2>6. QED
    BY <2>4, <2>5 DEF IInv
<1>4. CASE Parsed
  <2>1. TypeOK'
    BY <1>1, <1>4 DEF Parsed, TypeOK, writer
  <2>2. TempOK'
    BY <1>1, <1>4 DEF Parsed, TempOK, NoTempLeft, Safe
  <2>3. QED
    BY <2>1, <2>2 DEF IInv
<1>5. CASE Post
  <2>1. posted' \subseteq named /\ failed' \subseteq Faults
    BY <1>1, <1>5, FaultType DEF Post, TypeOK
  <2>2. TypeOK'
    BY <1>1, <1>5, <2>1 DEF Post, TypeOK, writer
  <2>3. stack = << >> /\ Safe(stack, disk, named)
    BY <1>1, <1>5 DEF Post, TempOK
  <2>4. disk \subseteq named
    BY <2>3 DEF Safe, Pending
  <2>5. TempOK'
    BY <1>5, <2>3, <2>4 DEF Post, TempOK, NoTempLeft
  <2>6. QED
    BY <2>2, <2>5 DEF IInv
<1>6. CASE Panic
  <2>1. failed' \subseteq Faults
    BY <1>1, <1>6, FaultType DEF Panic
  <2>2. posted' \subseteq named' /\ named' \subseteq Files
    BY <1>1, <1>6 DEF Panic, TypeOK, TempOK
  <2>3. stack' = << >> /\ stack' \in Seq(Call)
    BY <1>6 DEF Panic
  <2>4. TypeOK'
    BY <1>1, <1>6, <2>1, <2>2, <2>3 DEF Panic, TypeOK, writer
  <2>5. "panic" \in failed' /\ pc' = "clean"
    BY <1>6 DEF Panic, Fault
  <2>6. TempOK'
    BY <2>3, <2>5 DEF TempOK, NoTempLeft
  <2>7. QED
    BY <2>4, <2>6 DEF IInv
<1>7. CASE Cleanup
  <2>1. TypeOK'
    BY <1>1, <1>7 DEF Cleanup, TypeOK, writer
  <2>2. TempOK'
    BY <1>1, <1>7 DEF Cleanup, TempOK, NoTempLeft
  <2>3. QED
    BY <2>1, <2>2 DEF IInv
<1>8. CASE UNCHANGED vars
  BY <1>1, <1>8 DEF vars, writer, IInv, TypeOK, TempOK, NoTempLeft
<1>9. QED
  BY <1>2, <1>3, <1>4, <1>5, <1>6, <1>7, <1>8 DEF Next

LEMMA Inductive == Spec => []IInv
<1>1. Init => IInv
  BY InitIInv
<1>2. IInv /\ [Next]_vars => IInv'
  BY NextIInv
<1>3. QED
  BY <1>1, <1>2, PTL DEF Spec

(***************************************************************************)
(* Theorems                                                                *)
(***************************************************************************)

\* Every variable keeps its type: the stack of calls of the parser consists of
\* proper calls however deep the message is, no file grows beyond MaxFileSize.
THEOREM MimeTypeCorrect == Spec => []TypeOK
<1>1. IInv => TypeOK
  BY DEF IInv
<1>2. QED
  BY <1>1, Inductive, PTL

\* cleanup finds every temporary file that parsing made, split files, uuencoded
\* attachments and those of TNEF included, unless the parser panicked.
THEOREM NoTempTheorem == Spec => []NoTempLeft
<1>1. IInv => NoTempLeft
  BY DEF IInv, TempOK
<1>2. QED
  BY <1>1, Inductive, PTL

(***************************************************************************)
(* The parser follows the writer                                           *)
(*                                                                         *)
(* As long as the structure is sound, the calls in progress mirror the     *)
(* multiparts that the writer has opened, up to the line that is pending.  *)
(* From this follow what is written where, and that nothing is missed.     *)
(***************************************************************************)

\* The i-th call from the outermost one.
At(s, i) == s[Len(s) + 1 - i]

\* How many multiparts the parser should be in, and their boundaries: those the
\* writer is in, unless it opened or closed one with the line that is pending.
Depth ==
    IF ~used /\ line.kind = "blank" /\ part.kind \in Boundaries THEN Len(open) - 1
    ELSE IF ~used /\ line.kind = "close" THEN Len(open) + 1
    ELSE Len(open)

Bound(i) == IF i <= Len(open) THEN open[i].b ELSE line.arg

Outer == IF Depth = 0 THEN Nil ELSE Bound(Depth)

\* The next line is read by HeaderParse; it is content of the part.
Reads == IF used THEN where = "head" ELSE line.kind \in {"head", "blank"}
Content == IF used THEN where # "head" ELSE line.kind \in {"data", "begin", "end"}

\* The header the parser has read so far.
HeadKind == IF ~used /\ line.kind = "head" THEN "leaf" ELSE part.kind

\* Between begin and end, as the reader of the pending line sees it.
Coded == (used \/ line.kind = "data") /\ where = "uu"

\* The outer calls walk the multiparts that the writer has opened.
Walks ==
    /\ Len(stack) \in {Depth, Depth + 1, Depth + 2}
    /\ \A i \in 1..Depth : At(stack, i).op = "multi" /\ At(stack, i).b = Bound(i)

InHeader ==
    /\ Len(stack) = Depth + 1
    /\ Top.op = "headers"
    /\ Top.kind = HeadKind

\* Within them is one call that stops at the right boundary, or two if parseUU
\* is called by the decoder of a message that is no multipart.
InBody ==
    /\ \A i \in (Depth + 1)..Len(stack) : At(stack, i).op \in {"decode", "uu"}
                                          /\ At(stack, i).b = Outer
    /\ Len(stack) = Depth + 2 => Depth = 0 /\ At(stack, 1).op = "decode" /\ At(stack, 2).op = "uu"
    /\ Len(stack) = Depth + 1 /\ Depth = 0 => Top.op = "decode"
    /\ Top.op = "uu" /\ used => where = "uu"
    /\ Top.op = "uu" /\ ~used => line.kind # "begin"
    /\ Top.op = "uu" /\ ~used /\ line.kind = "data" => where = "uu"

\* What it writes belongs to the part, and it is the call the part needs.
Owns ==
    /\ \A i \in (Depth + 1)..Len(stack) : At(stack, i).of \subseteq {0, part.id}
    /\ failed = {} /\ part.kind = "leaf" => /\ Len(stack) > Depth
                                            /\ At(stack, Depth + 1).op = "decode"
                                            /\ At(stack, Depth + 1).kind = "leaf"
    /\ part.kind = "uu" => \A i \in (Depth + 1)..Len(stack) : At(stack, i).op # "decode"
    /\ failed = {} /\ part.kind = "uu" /\ Coded => Top.op = "uu"

Agree == Walks /\ (Reads => InHeader) /\ (~Reads => InBody) /\ (Content => Owns)

\* What the line that is pending says, if the structure is sound.
LineOK ==
    /\ line.kind = "head" => where = "head" /\ line.arg = part.kind
    /\ line.kind = "blank" => where = "body"
    /\ line.kind = "blank" /\ part.kind \in Boundaries => open # << >> /\ open[Len(open)].b = part.kind
    /\ line.kind = "data" => where # "head"
    /\ line.kind = "data" /\ where = "uu" => line.coded
    /\ line.kind = "begin" => where = "uu"
    /\ line.kind = "end" => where = "body"
    /\ line.kind = "delim" => /\ where = "head" /\ part.kind = "leaf"
                              /\ open # << >> /\ line.arg = open[Len(open)].b
    /\ line.kind = "close" => where = "body" /\ part.kind \in Boundaries /\ line.arg = part.kind

\* What the writer has just sent.
WriterOK ==
    /\ \A i \in 1..Len(open) : open[i].b = open[i].part.kind
    /\ ended => used
    /\ ~used /\ line.of # 0 => sound /\ line.of = part.id /\ line.kind \in {"data", "begin", "end"}
    /\ ~used /\ line.matters => /\ sound /\ line.kind = "data"
                                /\ \/ part.kind = "leaf"
                                   \/ part.kind = "uu" /\ where = "uu" /\ open # << >>
    /\ ~used /\ sound => LineOK

\* A call writes lines of one part; its file is in the tree, unless it is the
\* temporary file of TNEF; and it has had no error that is not a failure.
CallOK(c, n, f) ==
    /\ \E p \in Parts : c.of \subseteq {0, p}
    /\ c.op = "uu" \/ (c.op = "decode" /\ c.kind # "tnef") => c.file \in n
    /\ f = {} => ~c.err

CallsOK(s, n, f) == \A i \in 1..Len(s) : CallOK(s[i], n, f)

\* Nothing is lost as long as nothing fails.
KeptOK ==
    failed = {} =>
       /\ ~missed
       /\ holds \subseteq named
       /\ pc \in {"clean", "done"} => posted = named

AgreeOK == sound /\ ~ended /\ stack # << >> => Agree

WInv == AgreeOK /\ WriterOK /\ CallsOK(stack, named, failed) /\ KeptOK

(***************************************************************************)
(* The stack from the bottom up                                            *)
(***************************************************************************)

LEMMA PushAt ==
    ASSUME NEW c \in Call, NEW s \in Seq(Call)
    PROVE  /\ Len(<<c>> \o s) = Len(s) + 1
           /\ \A i \in 1..Len(s) : At(<<c>> \o s, i) = At(s, i)
           /\ At(<<c>> \o s, Len(s) + 1) = c
<1>. DEFINE t == <<c>> \o s
<1>1. t \in Seq(Call) /\ Len(t) = Len(s) + 1 /\ t[1] = c
  OBVIOUS
<1>2. \A i \in 1..Len(s) : t[i + 1] = s[i]
  OBVIOUS
<1>3. Len(s) \in Nat
  OBVIOUS
<1>. HIDE DEF t
<1>4. ASSUME NEW i \in 1..Len(s) PROVE At(t, i) = At(s, i)
  <2>1. Len(s) + 1 - i \in 1..Len(s) /\ Len(t) + 1 - i = (Len(s) + 1 - i) + 1
    BY <1>1, <1>3
  <2>2. QED
    BY <1>2, <2>1 DEF At
<1>5. At(t, Len(s) + 1) = c
  <2>1. Len(t) + 1 - (Len(s) + 1) = 1
    BY <1>1, <1>3
  <2>2. QED
    BY <1>1, <2>1 DEF At
<1>6. QED
  BY <1>1, <1>4, <1>5 DEF t

\* The innermost call is the last one from the bottom.
LEMMA TopAt ==
    ASSUME stack \in Seq(Call), stack # << >>
    PROVE  /\ Top = At(stack, Len(stack))
           /\ Len(stack) \in Nat /\ Len(stack) >= 1
           /\ Len(Callers) = Len(stack) - 1
           /\ \A i \in 1..(Len(stack) - 1) : At(Callers, i) = At(stack, i)
<1>1. Top \in Call /\ Callers \in Seq(Call) /\ stack = <<Top>> \o Callers
  BY TopType, StackTop
<1>2. Len(stack) = Len(Callers) + 1 /\ Len(Callers) \in Nat
  BY <1>1, PushAt
<1>3. \A i \in 1..Len(Callers) : At(stack, i) = At(Callers, i)
  BY <1>1, PushAt
<1>4. At(stack, Len(Callers) + 1) = Top
  BY <1>1, PushAt
<1>5. QED
  BY <1>2, <1>3, <1>4

\* A call is made; the innermost call changes; the innermost call returns.
LEMMA Pushed ==
    ASSUME stack \in Seq(Call), NEW c \in Call, stack' = <<c>> \o stack
    PROVE  /\ Len(stack') = Len(stack) + 1
           /\ \A i \in 1..Len(stack) : At(stack', i) = At(stack, i)
           /\ At(stack', Len(stack')) = c
           /\ Top' = c
<1>1. Len(stack') = Len(stack) + 1 /\ At(stack', Len(stack) + 1) = c
  BY PushAt
<1>2. \A i \in 1..Len(stack) : At(stack', i) = At(stack, i)
  BY PushAt
<1>3. Top' = c
  BY DEF Top
<1>4. QED
  BY <1>1, <1>2, <1>3

LEMMA Swapped ==
    ASSUME stack \in Seq(Call), stack # << >>, NEW c \in Call, stack' = <<c>> \o Callers
    PROVE  /\ Len(stack') = Len(stack)
           /\ \A i \in 1..(Len(stack) - 1) : At(stack', i) = At(stack, i)
           /\ At(stack', Len(stack)) = c
           /\ Top' = c
<1>1. /\ Len(stack) \in Nat /\ Len(stack) >= 1
      /\ Len(Callers) = Len(stack) - 1
      /\ \A i \in 1..(Len(stack) - 1) : At(Callers, i) = At(stack, i)
  BY TopAt
<1>2. Callers \in Seq(Call)
  BY TopType
<1>3. Len(stack') = Len(Callers) + 1 /\ At(stack', Len(Callers) + 1) = c
  BY <1>2, PushAt
<1>4. \A i \in 1..Len(Callers) : At(stack', i) = At(Callers, i)
  BY <1>2, PushAt
<1>5. Len(Callers) + 1 = Len(stack)
  BY <1>1
<1>6. Top' = c
  BY <1>2 DEF Top
<1>7. QED
  BY <1>1, <1>3, <1>4, <1>5, <1>6

LEMMA Popped ==
    ASSUME stack \in Seq(Call), stack # << >>, stack' = Callers
    PROVE  /\ Len(stack') = Len(stack) - 1
           /\ \A i \in 1..(Len(stack) - 1) : At(stack', i) = At(stack, i)
           /\ stack' # << >> => /\ Len(stack) >= 2
                                /\ Top' = At(stack, Len(stack) - 1)
<1>1. /\ Len(stack) \in Nat /\ Len(stack) >= 1
      /\ Len(Callers) = Len(stack) - 1
      /\ \A i \in 1..(Len(stack) - 1) : At(Callers, i) = At(stack, i)
  BY TopAt
<1>2. Callers \in Seq(Call)
  BY TopType
<1>3. ASSUME Callers # << >>
      PROVE  Len(stack) >= 2 /\ Head(Callers) = At(Callers, Len(stack) - 1)
  <2>1. Len(Callers) \in Nat /\ Len(Callers) >= 1 /\ Head(Callers) = Callers[1]
    BY <1>2, <1>3
  <2>2. Len(Callers) + 1 - (Len(stack) - 1) = 1
    BY <1>1
  <2>3. QED
    BY <1>1, <2>1, <2>2 DEF At
<1>4. stack' # << >> => Len(stack) >= 2 /\ Top' = At(stack, Len(stack) - 1)
  <2>. SUFFICES ASSUME stack' # << >> PROVE Len(stack) >= 2 /\ Top' = At(stack, Len(stack) - 1)
    OBVIOUS
  <2>1. Top' = Head(Callers)
    BY DEF Top
  <2>2. Len(stack) - 1 \in 1..(Len(stack) - 1)
    BY <1>1, <1>3
  <2>3. QED
    BY <1>1, <1>3, <2>1, <2>2
<1>5. QED
  BY <1>1, <1>4

(***************************************************************************)
(* The writer                                                              *)
(***************************************************************************)

\* A boundary that is open is the kind of its part.
LEMMA WriterStep ==
    ASSUME TypeOK, WriterOK, Send
    PROVE  WriterOK'
<1>. DEFINE Opens == [b : Boundaries, part : Part]
            NamesOK(o) == \A i \in 1..Len(o) : o[i].b = o[i].part.kind
<1>0. open \in Seq(Opens) /\ part \in Part /\ sound \in BOOLEAN /\ used /\ ~ended /\ Len(open) \in Nat
  BY DEF TypeOK, Send
<1>1. NamesOK(open)
  BY DEF WriterOK
<1>2. ASSUME NEW n \in 0..Len(open)
      PROVE  /\ NamesOK(SubSeq(open, 1, n))
             /\ SubSeq(open, 1, n) \in Seq(Opens)
             /\ Len(SubSeq(open, 1, n)) = n
             /\ \A i \in 1..n : SubSeq(open, 1, n)[i] = open[i]
  <2>. HIDE DEF Opens
  <2>1. /\ SubSeq(open, 1, n) \in Seq(Opens) /\ Len(SubSeq(open, 1, n)) = n
        /\ \A i \in 1..n : SubSeq(open, 1, n)[i] = open[i]
    BY <1>0
  <2>2. QED
    BY <1>0, <1>1, <2>1
<1>. HIDE DEF Opens, NamesOK
<1>3. ASSUME NEW kind, NEW arg, NEW whole \in BOOLEAN, Emit(kind, arg, whole)
      PROVE  /\ line'.kind = kind /\ line'.arg = arg /\ (line'.coded <=> whole /\ where = "uu")
             /\ line'.of # 0 => whole /\ line'.of = part.id /\ kind \in {"data", "begin", "end"}
             /\ line'.matters => whole /\ kind = "data" /\ Matters
             /\ kind \in {"head", "blank", "delim", "close"} => line'.of = 0 /\ ~line'.matters
             /\ used' = FALSE
             /\ (sound' <=> whole)
  <2>. DEFINE of == IF whole /\ kind \in {"data", "begin", "end"} THEN part.id ELSE 0
              m == whole /\ kind = "data" /\ Matters
              c == whole /\ where = "uu"
  <2>1. line' = [kind |-> kind, arg |-> arg, of |-> of, matters |-> m, coded |-> c]
    BY <1>3 DEF Emit
  <2>2. of # 0 => whole /\ of = part.id /\ kind \in {"data", "begin", "end"}
    OBVIOUS
  <2>7. kind \in {"head", "blank", "delim", "close"} => of = 0 /\ ~m
    OBVIOUS
  <2>3. (m => whole /\ kind = "data" /\ Matters) /\ (c <=> whole /\ where = "uu")
    OBVIOUS
  <2>. HIDE DEF of, m, c
  <2>4. /\ line'.kind = kind /\ line'.arg = arg /\ line'.of = of
        /\ line'.matters = m /\ line'.coded = c
    BY <2>1
  <2>5. used' = FALSE /\ (sound' <=> whole)
    BY <1>3 DEF Emit
  <2>6. QED
    BY <2>2, <2>3, <2>4, <2>5, <2>7
<1>4. part.kind \in Boundaries => part.kind # "leaf" /\ part.kind # "uu"
  OBVIOUS
<1>5. CASE SendHead
  <2>1. PICK k \in Kinds : Emit("head", k, sound) /\ part' = [part EXCEPT !.kind = k]
    BY <1>5 DEF SendHead
  <2>5. /\ line'.kind = "head" /\ line'.arg = k /\ line'.of = 0 /\ ~line'.matters /\ used' = FALSE
    BY <1>0, <1>3, <2>1
  <2>6. part'.kind = k /\ where' = "head" /\ open' = open /\ ended' = ended
    BY <1>0, <1>5, <2>1 DEF SendHead, Part
  <2>2. /\ line'.kind = "head" /\ line'.arg = k /\ line'.of = 0 /\ ~line'.matters /\ used' = FALSE
        /\ part'.kind = k /\ where' = "head" /\ open' = open /\ ended' = ended
    BY <2>5, <2>6
  <2>3. LineOK'
    BY <2>2 DEF LineOK
  <2>4. QED
    BY <1>0, <1>1, <2>2, <2>3 DEF WriterOK, NamesOK
<1>6. CASE SendBlank
  <2>5. Emit("blank", Nil, sound)
    BY <1>6 DEF SendBlank
  <2>6. line'.kind = "blank" /\ line'.of = 0 /\ ~line'.matters /\ used' = FALSE
    BY <1>0, <1>3, <2>5
  <2>1. /\ line'.kind = "blank" /\ line'.of = 0 /\ ~line'.matters /\ used' = FALSE
        /\ part' = part /\ where' = "body" /\ ended' = ended
        /\ open' = IF part.kind \in Boundaries
                   THEN Append(open, [b |-> part.kind, part |-> part]) ELSE open
    BY <1>6, <2>6 DEF SendBlank
  <2>2. CASE part.kind \notin Boundaries
    <3>1. open' = open
      BY <2>1, <2>2
    <3>2. LineOK'
      BY <2>1, <2>2 DEF LineOK
    <3>3. QED
      BY <1>0, <1>1, <2>1, <3>1, <3>2 DEF WriterOK, NamesOK
  <2>3. CASE part.kind \in Boundaries
    <3>. DEFINE o == [b |-> part.kind, part |-> part]
    <3>1. o \in Opens /\ o.b = part.kind /\ o.part.kind = part.kind
      BY <1>0, <2>3 DEF Opens
    <3>. HIDE DEF o
    <3>2. open' = Append(open, o)
      BY <2>1, <2>3 DEF o
    <3>3. /\ Len(open') = Len(open) + 1 /\ open'[Len(open')] = o /\ open' # << >>
          /\ \A i \in 1..Len(open) : open'[i] = open[i]
      BY <1>0, <3>1, <3>2
    <3>4. NamesOK(open')
      <4>. SUFFICES ASSUME NEW i \in 1..Len(open') PROVE open'[i].b = open'[i].part.kind
        BY DEF NamesOK
      <4>1. CASE i = Len(open')
        BY <3>1, <3>3, <4>1
      <4>2. CASE i # Len(open')
        <5>1. i \in 1..Len(open)
          BY <1>0, <3>3, <4>2
        <5>2. QED
          BY <1>1, <3>3, <5>1 DEF NamesOK
      <4>3. QED
        BY <4>1, <4>2
    <3>5. LineOK'
      BY <2>1, <2>3, <3>1, <3>3 DEF LineOK
    <3>6. QED
      BY <1>0, <2>1, <3>4, <3>5 DEF WriterOK, NamesOK
  <2>4. QED
    BY <2>2, <2>3
<1>7. CASE SendText
  <2>4. PICK whole \in BOOLEAN : Emit("data", Nil, whole) /\ (whole => sound)
    BY <1>0, <1>7 DEF SendText
  <2>9. Emit("data", Nil, whole)
    BY <2>4
  <2>5. line'.kind = "data" /\ (line'.coded <=> whole /\ where = "uu") /\ used' = FALSE
    <3>1. line'.coded = (whole /\ where = "uu") /\ line'.kind = "data"
      BY <2>9 DEF Emit
    <3>2. QED
      BY <1>3, <2>9, <3>1
  <2>6. line'.of # 0 => whole /\ line'.of = part.id
    BY <1>0, <1>3, <2>4
  <2>7. line'.matters => whole /\ Matters
    BY <1>0, <1>3, <2>4
  <2>8. sound' = whole
    BY <2>4 DEF Emit
  <2>1. /\ line'.kind = "data" /\ (line'.coded <=> whole /\ where = "uu") /\ used' = FALSE
        /\ line'.of # 0 => whole /\ line'.of = part.id
        /\ line'.matters => whole /\ Matters
        /\ (sound' <=> whole)
        /\ UNCHANGED <<open, part, where, ended>> /\ where \in {"body", "uu"}
    BY <1>7, <2>5, <2>6, <2>7, <2>8 DEF SendText
  <2>2. whole => LineOK'
    BY <2>1 DEF LineOK
  <2>3. QED
    BY <1>0, <1>1, <2>1, <2>2 DEF WriterOK, NamesOK, Matters
<1>8. CASE SendCode
  <2>4. PICK k \in {"begin", "end"} :
             /\ Emit(k, Nil, sound)
             /\ k = "begin" => where' = "uu"
             /\ k = "end" => where' = "body"
    BY <1>8 DEF SendCode
  <2>5. line'.kind = k /\ used' = FALSE
    BY <1>0, <1>3, <2>4
  <2>6. line'.of # 0 => sound /\ line'.of = part.id
    BY <1>0, <1>3, <2>4
  <2>9. Emit(k, Nil, sound)
    BY <2>4
  <2>10. line'.matters => k = "data"
    BY <1>0, <1>3, <2>9
  <2>11. k # "data"
    OBVIOUS
  <2>12. sound' = sound
    BY <2>9 DEF Emit
  <2>7. ~line'.matters /\ (sound' <=> sound)
    BY <2>10, <2>11, <2>12
  <2>8. UNCHANGED <<open, part, ended>>
    BY <1>8 DEF SendCode
  <2>1. /\ \/ line'.kind = "begin" /\ where' = "uu"
           \/ line'.kind = "end" /\ where' = "body"
        /\ used' = FALSE
        /\ line'.of # 0 => sound /\ line'.of = part.id
        /\ ~line'.matters
        /\ (sound' <=> sound)
        /\ UNCHANGED <<open, part, ended>>
    BY <2>4, <2>5, <2>6, <2>7, <2>8
  <2>2. LineOK'
    BY <2>1 DEF LineOK
  <2>3. QED
    BY <1>0, <1>1, <2>1, <2>2 DEF WriterOK, NamesOK
<1>9. CASE SendDelim
  <2>1. PICK i \in DOMAIN open :
             /\ Emit("delim", open[i].b, sound /\ i = Len(open) /\ where # "head")
             /\ open' = SubSeq(open, 1, i)
    BY <1>9 DEF SendDelim
  <2>2. i \in 1..Len(open)
    BY <1>0
  <2>3. /\ line'.kind = "delim" /\ line'.arg = open[i].b /\ line'.of = 0 /\ ~line'.matters /\ used' = FALSE
        /\ sound' => sound /\ i = Len(open) /\ where # "head"
    <3>. DEFINE w == sound /\ i = Len(open) /\ where # "head"
    <3>1. w \in BOOLEAN /\ (w => sound /\ i = Len(open) /\ where # "head")
      BY <1>0
    <3>2. Emit("delim", open[i].b, w)
      BY <2>1
    <3>. HIDE DEF w
    <3>3. line'.kind = "delim" /\ line'.arg = open[i].b /\ used' = FALSE
      BY <3>2 DEF Emit
    <3>4. line'.of = 0 /\ ~line'.matters
      BY <1>3, <3>1, <3>2
    <3>5. sound' = w
      BY <3>2 DEF Emit
    <3>6. QED
      BY <3>1, <3>3, <3>4, <3>5
  <2>4. part'.kind = "leaf" /\ where' = "head" /\ ended' = ended
    BY <1>9 DEF SendDelim
  <2>5. i \in 0..Len(open) /\ i >= 1
    BY <1>0, <2>2
  <2>6. /\ NamesOK(open') /\ open' \in Seq(Opens) /\ Len(open') = i /\ open'[i] = open[i]
    BY <1>2, <2>1, <2>5
  <2>7. open' # << >>
    BY <2>5, <2>6
  <2>8. LineOK'
    BY <2>3, <2>4, <2>6, <2>7 DEF LineOK
  <2>9. QED
    BY <1>0, <2>3, <2>4, <2>6, <2>8 DEF WriterOK, NamesOK
<1>10. CASE SendClose
  <2>1. PICK i \in DOMAIN open :
             /\ Emit("close", open[i].b, sound /\ i = Len(open) /\ where # "head")
             /\ open' = SubSeq(open, 1, i - 1)
             /\ part' = open[i].part
    BY <1>10 DEF SendClose
  <2>2. i \in 1..Len(open) /\ open[i] \in Opens
    BY <1>0
  <2>3. /\ line'.kind = "close" /\ line'.arg = open[i].b /\ line'.of = 0 /\ ~line'.matters /\ used' = FALSE
    BY <1>0, <1>3, <2>1
  <2>4. where' = "body" /\ ended' = ended
    BY <1>10 DEF SendClose
  <2>5. i - 1 \in 0..Len(open)
    BY <1>0, <2>2
  <2>6. NamesOK(open')
    BY <1>2, <2>1, <2>5
  <2>7. part'.kind = line'.arg /\ part'.kind \in Boundaries
    BY <1>1, <2>1, <2>2, <2>3 DEF NamesOK, Opens
  <2>8. LineOK'
    BY <2>3, <2>4, <2>7 DEF LineOK
  <2>9. QED
    BY <1>0, <2>3, <2>4, <2>6, <2>8 DEF WriterOK, NamesOK
<1>11. CASE SendEOF
  BY <1>0, <1>1, <1>11 DEF SendEOF, WriterOK, NamesOK
<1>12. QED
  BY <1>5, <1>6, <1>7, <1>8, <1>9, <1>10, <1>11 DEF Send

\* What the agreement of parser and writer means when no line is pending.
LEMMA AgreeUsed ==
    ASSUME TypeOK, used, Agree
    PROVE  /\ Len(open) \in Nat /\ Len(stack) \in Nat
           /\ Depth = Len(open)
           /\ \A i \in 1..Len(open) : Bound(i) = open[i].b
           /\ Outer = IF open = << >> THEN Nil ELSE open[Len(open)].b
           /\ Len(stack) \in {Len(open), Len(open) + 1, Len(open) + 2}
           /\ where = "head" => Len(stack) = Len(open) + 1 /\ Top.op = "headers" /\ Top.kind = part.kind
           /\ where # "head" => InBody /\ Owns
<1>1. Len(open) \in Nat /\ Len(stack) \in Nat /\ (open = << >> <=> Len(open) = 0)
  BY DEF TypeOK
<1>2. Depth = Len(open)
  BY DEF Depth
<1>3. \A i \in 1..Len(open) : Bound(i) = open[i].b
  BY <1>1 DEF Bound
<1>4. Outer = IF open = << >> THEN Nil ELSE open[Len(open)].b
  BY <1>1, <1>2, <1>3 DEF Outer
<1>5. where = "head" => Len(stack) = Len(open) + 1 /\ Top.op = "headers" /\ Top.kind = part.kind
  BY <1>2 DEF Agree, Reads, InHeader, HeadKind
<1>6. where # "head" => InBody /\ Owns
  BY DEF Agree, Reads, Content
<1>7. Len(stack) \in {Len(open), Len(open) + 1, Len(open) + 2}
  BY <1>2 DEF Agree, Walks
<1>8. QED
  BY <1>1, <1>2, <1>3, <1>4, <1>5, <1>6, <1>7

\* A line is sent of a structure that is sound: the parser is where the line needs
\* it to be.
LEMMA SendAgree ==
    ASSUME TypeOK, WriterOK, used, Agree, Send, ~ended', sound'
    PROVE  Agree'
<1>0. /\ Len(open) \in Nat /\ Len(stack) \in Nat
      /\ Depth = Len(open)
      /\ \A i \in 1..Len(open) : Bound(i) = open[i].b
      /\ Len(stack) \in {Len(open), Len(open) + 1, Len(open) + 2}
      /\ where = "head" => Len(stack) = Len(open) + 1 /\ Top.op = "headers" /\ Top.kind = part.kind
      /\ where # "head" => InBody /\ Owns
  BY AgreeUsed
<1>1. stack' = stack /\ failed' = failed /\ Top' = Top
  BY DEF Send, Top
<1>2. \A i \in 1..Len(open) : At(stack, i).op = "multi" /\ At(stack, i).b = Bound(i)
  BY <1>0 DEF Agree, Walks
<1>3. ASSUME Depth' = Len(open), \A i \in 1..Len(open) : Bound(i)' = open[i].b
      PROVE  Walks' /\ Outer' = Outer
  <2>1. Walks'
    BY <1>0, <1>1, <1>2, <1>3 DEF Walks
  <2>2. Outer' = Outer
    BY <1>0, <1>3 DEF Outer
  <2>3. QED
    BY <2>1, <2>2
<1>4. ASSUME InBody, Depth' = Depth, Outer' = Outer, used' = FALSE,
             Top.op = "uu" => line'.kind # "begin" /\ (line'.kind = "data" => where' = "uu")
      PROVE  InBody'
  BY <1>1, <1>4 DEF InBody
<1>5. ASSUME Owns, Depth' = Depth, part' = part, used' = FALSE,
             line'.kind = "data" => where' = where
      PROVE  Owns'
  <2>1. Coded' => Coded
    BY <1>5 DEF Coded
  <2>2. QED
    BY <1>1, <1>5, <2>1 DEF Owns
<1>6. ASSUME open' = open, used' = FALSE, line'.kind \notin {"blank", "close"}
      PROVE  Depth' = Len(open) /\ \A i \in 1..Len(open) : Bound(i)' = open[i].b
  <2>1. Depth' = Len(open)
    BY <1>6 DEF Depth
  <2>2. \A i \in 1..Len(open) : Bound(i)' = open[i].b
    BY <1>0, <1>6 DEF Bound
  <2>3. QED
    BY <2>1, <2>2
<1>7. CASE SendHead
  <2>1. PICK k \in Kinds : Emit("head", k, sound) /\ part' = [part EXCEPT !.kind = k]
    BY <1>7 DEF SendHead
  <2>2. line'.kind = "head" /\ used' = FALSE /\ open' = open /\ where = "head" /\ part.kind = "leaf"
    BY <1>7, <2>1 DEF SendHead, Emit
  <2>3. Walks' /\ Depth' = Len(open)
    BY <1>3, <1>6, <2>2
  <2>4. InHeader'
    BY <1>0, <1>1, <2>2, <2>3 DEF InHeader, HeadKind
  <2>5. Reads' /\ ~Content'
    BY <2>2 DEF Reads, Content
  <2>6. QED
    BY <2>3, <2>4, <2>5 DEF Agree
<1>8. CASE SendBlank
  <2>1. line'.kind = "blank" /\ used' = FALSE /\ part' = part /\ where = "head"
    BY <1>8 DEF SendBlank, Emit
  <2>2. Depth' = Len(open) /\ \A i \in 1..Len(open) : Bound(i)' = open[i].b
    <3>1. CASE part.kind \in Boundaries
      <4>. DEFINE o == [b |-> part.kind, part |-> part]
                  Opens == [b : Boundaries, part : Part]
      <4>1. open \in Seq(Opens) /\ o \in Opens
        BY <3>1 DEF TypeOK
      <4>2. open' = Append(open, o)
        BY <1>8, <3>1 DEF SendBlank
      <4>. HIDE DEF o, Opens
      <4>3. Len(open') = Len(open) + 1 /\ \A i \in 1..Len(open) : open'[i] = open[i]
        BY <4>1, <4>2
      <4>4. Depth' = Len(open') - 1
        BY <2>1, <3>1 DEF Depth
      <4>5. \A i \in 1..Len(open) : Bound(i)' = open'[i].b
        BY <1>0, <4>3 DEF Bound
      <4>6. QED
        BY <1>0, <4>3, <4>4, <4>5
    <3>2. CASE part.kind \notin Boundaries
      <4>1. open' = open
        BY <1>8, <3>2 DEF SendBlank
      <4>2. Depth' = Len(open)
        BY <2>1, <3>2, <4>1 DEF Depth
      <4>3. \A i \in 1..Len(open) : Bound(i)' = open[i].b
        BY <1>0, <4>1 DEF Bound
      <4>4. QED
        BY <4>2, <4>3
    <3>3. QED
      BY <3>1, <3>2
  <2>3. Walks'
    BY <1>3, <2>2
  <2>4. InHeader'
    BY <1>0, <1>1, <2>1, <2>2 DEF InHeader, HeadKind
  <2>5. Reads' /\ ~Content'
    BY <2>1 DEF Reads, Content
  <2>6. QED
    BY <2>3, <2>4, <2>5 DEF Agree
<1>9. CASE SendText
  <2>1. line'.kind = "data" /\ used' = FALSE /\ open' = open /\ part' = part /\ where' = where /\ where # "head"
    BY <1>9 DEF SendText, Emit
  <2>2. Walks' /\ Outer' = Outer /\ Depth' = Depth
    BY <1>0, <1>3, <1>6, <2>1
  <2>3. Top.op = "uu" => where = "uu"
    BY <1>0, <2>1 DEF InBody
  <2>4. InBody'
    BY <1>0, <1>4, <2>1, <2>2, <2>3
  <2>5. Owns'
    BY <1>0, <1>5, <2>1, <2>2
  <2>6. ~Reads'
    BY <2>1 DEF Reads
  <2>7. QED
    BY <2>2, <2>4, <2>5, <2>6 DEF Agree
<1>10. CASE SendCode
  <2>1. PICK k \in {"begin", "end"} : Emit(k, Nil, sound) /\ (k = "begin" => where = "body")
    BY <1>10 DEF SendCode
  <2>2. line'.kind = k /\ used' = FALSE /\ open' = open /\ part' = part /\ where # "head"
    BY <1>10, <2>1 DEF SendCode, Emit
  <2>3. Walks' /\ Outer' = Outer /\ Depth' = Depth
    BY <1>0, <1>3, <1>6, <2>2
  <2>4. Top.op = "uu" => where = "uu"
    BY <1>0, <2>2 DEF InBody
  <2>5. InBody'
    BY <1>0, <1>4, <2>1, <2>2, <2>3, <2>4
  <2>6. Owns'
    BY <1>0, <1>5, <2>2, <2>3
  <2>7. ~Reads'
    BY <2>2 DEF Reads
  <2>8. QED
    BY <2>3, <2>5, <2>6, <2>7 DEF Agree
<1>11. CASE SendDelim
  <2>1. PICK i \in DOMAIN open :
             /\ Emit("delim", open[i].b, sound /\ i = Len(open) /\ where # "head")
             /\ open' = SubSeq(open, 1, i)
    BY <1>11 DEF SendDelim
  <2>2. line'.kind = "delim" /\ used' = FALSE /\ i = Len(open) /\ where # "head"
    BY <2>1 DEF Emit
  <2>3. open' = open
    BY <2>1, <2>2 DEF TypeOK
  <2>4. Walks' /\ Outer' = Outer /\ Depth' = Depth
    BY <1>0, <1>3, <1>6, <2>2, <2>3
  <2>5. InBody'
    BY <1>0, <1>4, <2>2, <2>4
  <2>6. ~Reads' /\ ~Content'
    BY <2>2 DEF Reads, Content
  <2>7. QED
    BY <2>4, <2>5, <2>6 DEF Agree
<1>12. CASE SendClose
  <2>1. PICK i \in DOMAIN open :
             /\ Emit("close", open[i].b, sound /\ i = Len(open) /\ where # "head")
             /\ open' = SubSeq(open, 1, i - 1)
    BY <1>12 DEF SendClose
  <2>2. line'.kind = "close" /\ line'.arg = open[i].b /\ used' = FALSE /\ i = Len(open) /\ where # "head"
    BY <2>1 DEF Emit
  <2>3. /\ Len(open') = Len(open) - 1 /\ Len(open) >= 1
        /\ \A j \in 1..(Len(open) - 1) : open'[j] = open[j]
    <3>. DEFINE Opens == [b : Boundaries, part : Part]
    <3>1. open \in Seq(Opens)
      BY DEF TypeOK
    <3>. HIDE DEF Opens
    <3>2. i \in 1..Len(open)
      BY <2>1, <3>1
    <3>3. open' = SubSeq(open, 1, Len(open) - 1) /\ Len(open) >= 1
      BY <1>0, <2>1, <2>2, <3>2
    <3>4. QED
      BY <1>0, <3>1, <3>3
  <2>4. Depth' = Len(open)
    BY <1>0, <2>2, <2>3 DEF Depth
  <2>5. \A j \in 1..Len(open) : Bound(j)' = open[j].b
    <3>. SUFFICES ASSUME NEW j \in 1..Len(open) PROVE Bound(j)' = open[j].b
      OBVIOUS
    <3>1. CASE j = Len(open)
      BY <1>0, <2>2, <2>3, <3>1 DEF Bound
    <3>2. CASE j # Len(open)
      BY <1>0, <2>2, <2>3, <3>2 DEF Bound
    <3>3. QED
      BY <3>1, <3>2
  <2>6. Walks' /\ Outer' = Outer /\ Depth' = Depth
    BY <1>0, <1>3, <2>4, <2>5
  <2>7. InBody'
    BY <1>0, <1>4, <2>2, <2>6
  <2>8. ~Reads' /\ ~Content'
    BY <2>2 DEF Reads, Content
  <2>9. QED
    BY <2>6, <2>7, <2>8 DEF Agree
<1>13. QED
  BY <1>7, <1>8, <1>9, <1>10, <1>11, <1>12 DEF Send, SendEOF

\* What agreement means for a line of content that is pending: which call reads it.
LEMMA AgreeContent ==
    ASSUME TypeOK, WriterOK, Agree, sound, ~used, stack # << >>,
           line.kind \in {"data", "begin", "end"}
    PROVE  /\ Len(open) \in Nat /\ Len(stack) \in Nat /\ Len(stack) >= 1
           /\ Depth = Len(open)
           /\ Outer = IF Len(open) = 0 THEN Nil ELSE open[Len(open)].b
           /\ Len(stack) \in {Len(open), Len(open) + 1, Len(open) + 2}
           /\ \A i \in 1..Len(open) : At(stack, i).op = "multi" /\ At(stack, i).b = open[i].b
           /\ InBody /\ Owns /\ where # "head"
           /\ Top = At(stack, Len(stack))
           /\ Len(stack) = Len(open) => Top.op = "multi" /\ Top.b = Outer
           /\ Len(stack) > Len(open) => Top.op \in {"decode", "uu"} /\ Top.b = Outer
           /\ Top.op = "decode" => Len(stack) = Len(open) + 1
<1>1. Len(open) \in Nat /\ stack \in Seq(Call)
  BY DEF TypeOK
<1>2. Len(stack) \in Nat /\ Len(stack) >= 1 /\ Top = At(stack, Len(stack))
  BY <1>1, TopAt
<1>3. Depth = Len(open)
  BY DEF Depth
<1>4. \A i \in 1..Len(open) : Bound(i) = open[i].b
  BY <1>1 DEF Bound
<1>5. Outer = IF Len(open) = 0 THEN Nil ELSE open[Len(open)].b
  BY <1>1, <1>3, <1>4 DEF Outer
<1>6. /\ Len(stack) \in {Len(open), Len(open) + 1, Len(open) + 2}
      /\ \A i \in 1..Len(open) : At(stack, i).op = "multi" /\ At(stack, i).b = open[i].b
  BY <1>3, <1>4 DEF Agree, Walks
<1>7. InBody /\ Owns
  BY DEF Agree, Reads, Content
<1>8. where # "head"
  BY DEF WriterOK, LineOK
<1>9. Len(stack) = Len(open) => Top.op = "multi" /\ Top.b = Outer
  BY <1>1, <1>2, <1>5, <1>6
<1>10. Len(stack) > Len(open) => Top.op \in {"decode", "uu"} /\ Top.b = Outer
  <2>1. \A i \in (Len(open) + 1)..Len(stack) : At(stack, i).op \in {"decode", "uu"} /\ At(stack, i).b = Outer
    BY <1>3, <1>7 DEF InBody
  <2>2. Len(stack) > Len(open) => Len(stack) \in (Len(open) + 1)..Len(stack)
    BY <1>1, <1>2
  <2>3. QED
    BY <1>2, <2>1, <2>2
<1>11. Top.op = "decode" => Len(stack) = Len(open) + 1
  <2>1. Len(stack) = Len(open) + 2 => Top.op = "uu"
    BY <1>2, <1>3, <1>7 DEF InBody
  <2>2. QED
    BY <1>6, <1>9, <2>1
<1>12. QED
  BY <1>1, <1>2, <1>3, <1>5, <1>6, <1>7, <1>8, <1>9, <1>10, <1>11

\* The line is consumed: what is left to show.
LEMMA Consumed ==
    ASSUME TypeOK, used' = TRUE, line' = line, UNCHANGED writer,
           Len(stack') \in {Len(open), Len(open) + 1, Len(open) + 2},
           \A i \in 1..Len(open) : At(stack', i).op = "multi" /\ At(stack', i).b = open[i].b,
           where = "head" => Len(stack') = Len(open) + 1 /\ Top'.op = "headers" /\ Top'.kind = part.kind,
           where # "head" => InBody' /\ Owns'
    PROVE  Agree'
<1>1. Len(open) \in Nat /\ open' = open /\ where' = where /\ part' = part
  BY DEF TypeOK, writer
<1>2. Depth' = Len(open)
  BY <1>1 DEF Depth
<1>3. \A i \in 1..Len(open) : Bound(i)' = open[i].b
  BY <1>1 DEF Bound
<1>4. Walks'
  BY <1>2, <1>3 DEF Walks
<1>5. Reads' => InHeader'
  BY <1>1, <1>2 DEF Reads, InHeader, HeadKind
<1>6. (~Reads' => InBody') /\ (Content' => Owns')
  BY <1>1 DEF Reads, Content
<1>7. QED
  BY <1>4, <1>5, <1>6 DEF Agree

LEMMA OuterConsumed ==
    ASSUME TypeOK, used' = TRUE, UNCHANGED writer
    PROVE  /\ Depth' = Len(open)
           /\ Outer' = IF Len(open) = 0 THEN Nil ELSE open[Len(open)].b
<1>1. Len(open) \in Nat /\ open' = open
  BY DEF TypeOK, writer
<1>2. Depth' = Len(open)
  BY <1>1 DEF Depth
<1>3. Len(open) # 0 => Bound(Len(open))' = open[Len(open)].b
  BY <1>1 DEF Bound
<1>4. Outer' = IF Len(open) = 0 THEN Nil ELSE open[Len(open)].b
  <2>1. Outer' = IF Depth' = 0 THEN Nil ELSE (IF Depth' <= Len(open') THEN open'[Depth'].b ELSE line'.arg)
    BY DEF Outer, Bound
  <2>2. QED
    BY <1>1, <1>2, <2>1
<1>5. QED
  BY <1>2, <1>4

\* begin: parseUU is called by the walk, or by the decoder of a plain message.
LEMMA PushAgree ==
    ASSUME TypeOK, WriterOK, Agree, sound, ~used, stack # << >>, line.kind = "begin",
           used' = TRUE, line' = line, UNCHANGED writer, failed' = failed,
           Top.op = "multi" \/ (Top.op = "decode" /\ Top.b = Nil),
           NEW c \in Call, c.op = "uu", c.b = Top.b, c.of = {}, stack' = <<c>> \o stack
    PROVE  Agree'
<1>0. line.kind \in {"data", "begin", "end"}
  OBVIOUS
<1>1. /\ Len(open) \in Nat /\ Len(stack) \in Nat /\ Len(stack) >= 1
      /\ Depth = Len(open)
      /\ Outer = IF Len(open) = 0 THEN Nil ELSE open[Len(open)].b
      /\ Len(stack) \in {Len(open), Len(open) + 1, Len(open) + 2}
      /\ \A i \in 1..Len(open) : At(stack, i).op = "multi" /\ At(stack, i).b = open[i].b
      /\ InBody /\ Owns /\ where # "head"
      /\ Top = At(stack, Len(stack))
      /\ Len(stack) = Len(open) => Top.op = "multi" /\ Top.b = Outer
      /\ Len(stack) > Len(open) => Top.op \in {"decode", "uu"} /\ Top.b = Outer
      /\ Top.op = "decode" => Len(stack) = Len(open) + 1
  BY <1>0, AgreeContent
<1>2. /\ Len(stack') = Len(stack) + 1
      /\ \A i \in 1..Len(stack) : At(stack', i) = At(stack, i)
      /\ At(stack', Len(stack')) = c
      /\ Top' = c
  BY Pushed DEF TypeOK
<1>3. Depth' = Depth /\ Outer' = Outer
  BY <1>1, OuterConsumed
<1>4. where = "uu" /\ where' = where /\ part' = part /\ open' = open
  BY DEF WriterOK, LineOK, writer
<1>5. Len(open) # 0 => open[Len(open)].b # Nil
  <2>. DEFINE Opens == [b : Boundaries, part : Part]
  <2>1. \A i \in 1..Len(open) : open[i] \in Opens
    <3>1. open \in Seq(Opens)
      BY DEF TypeOK
    <3>. HIDE DEF Opens
    <3>2. QED
      BY <3>1
  <2>2. \A i \in 1..Len(open) : open[i].b # Nil
    BY <2>1
  <2>3. QED
    BY <1>1, <2>2
<1>6. Top.op = "decode" => Len(open) = 0 /\ Len(stack) = 1
  BY <1>1, <1>5
<1>7. Top.op = "multi" => Len(stack) = Len(open) /\ Len(open) > 0
  BY <1>1
<1>8. c.b = Outer
  BY <1>1
<1>9. \A i \in (Depth + 1)..Len(stack') :
         \/ i = Len(stack') /\ At(stack', i) = c
         \/ /\ i \in 1..Len(stack) /\ i \in (Depth + 1)..Len(stack)
            /\ At(stack', i) = At(stack, i)
  BY <1>1, <1>2
<1>10. InBody'
  <2>1. \A i \in (Depth + 1)..Len(stack') : At(stack', i).op \in {"decode", "uu"}
                                             /\ At(stack', i).b = Outer
    BY <1>1, <1>8, <1>9 DEF InBody
  <2>2. Len(stack') = Depth + 2 => Depth = 0 /\ At(stack', 1).op = "decode" /\ At(stack', 2).op = "uu"
    <3>1. SUFFICES ASSUME Len(stack') = Depth + 2 PROVE Depth = 0 /\ At(stack', 1).op = "decode" /\ At(stack', 2).op = "uu"
      OBVIOUS
    <3>2. Top.op = "decode"
      BY <1>1, <1>2, <1>7, <3>1
    <3>3. Len(open) = 0 /\ Len(stack) = 1 /\ 1 \in 1..Len(stack)
      BY <1>6, <3>2
    <3>4. QED
      BY <1>1, <1>2, <3>2, <3>3
  <2>3. ~(Len(stack') = Depth + 1 /\ Depth = 0)
    BY <1>1, <1>2, <1>6, <1>7
  <2>4. QED
    BY <1>2, <1>3, <1>4, <2>1, <2>2, <2>3 DEF InBody
<1>11. Owns'
  <2>1. \A i \in (Depth + 1)..Len(stack') : At(stack', i).of \subseteq {0, part.id}
    BY <1>1, <1>9 DEF Owns
  <2>2. failed = {} /\ part.kind = "leaf" => /\ Len(stack') > Depth
                                             /\ At(stack', Depth + 1).op = "decode"
                                             /\ At(stack', Depth + 1).kind = "leaf"
    <3>. SUFFICES ASSUME failed = {}, part.kind = "leaf"
         PROVE  Len(stack') > Depth /\ At(stack', Depth + 1) = At(stack, Depth + 1)
      BY <1>1 DEF Owns
    <3>1. Len(stack) > Depth
      BY <1>1 DEF Owns
    <3>2. Depth + 1 \in 1..Len(stack)
      BY <1>1, <3>1
    <3>3. QED
      BY <1>1, <1>2, <3>1, <3>2
  <2>3. part.kind = "uu" => \A i \in (Depth + 1)..Len(stack') : At(stack', i).op # "decode"
    BY <1>1, <1>9 DEF Owns
  <2>4. QED
    BY <1>2, <1>3, <1>4, <2>1, <2>2, <2>3 DEF Owns
<1>12. \A i \in 1..Len(open) : At(stack', i).op = "multi" /\ At(stack', i).b = open[i].b
  <2>1. \A i \in 1..Len(open) : i \in 1..Len(stack)
    BY <1>1
  <2>2. QED
    BY <1>1, <1>2, <2>1
<1>13. Len(stack') \in {Len(open), Len(open) + 1, Len(open) + 2}
  BY <1>1, <1>2, <1>6, <1>7
<1>14. QED
  BY <1>1, <1>10, <1>11, <1>12, <1>13, Consumed

\* The innermost call writes the line, or fails to.
LEMMA SwapAgree ==
    ASSUME TypeOK, WriterOK, Agree, sound, ~used, stack # << >>,
           line.kind \in {"data", "begin", "end"}, Top.op = "uu" => line.kind = "data",
           used' = TRUE, line' = line, UNCHANGED writer, failed \subseteq failed',
           Top.op \in {"decode", "uu"},
           NEW c \in Call, c.op = Top.op, c.b = Top.b, c.kind = Top.kind,
           c.of \subseteq Top.of \cup {line.of}, stack' = <<c>> \o Callers
    PROVE  Agree'
<1>1. /\ Len(open) \in Nat /\ Len(stack) \in Nat /\ Len(stack) >= 1
      /\ Depth = Len(open)
      /\ Outer = IF Len(open) = 0 THEN Nil ELSE open[Len(open)].b
      /\ Len(stack) \in {Len(open), Len(open) + 1, Len(open) + 2}
      /\ \A i \in 1..Len(open) : At(stack, i).op = "multi" /\ At(stack, i).b = open[i].b
      /\ InBody /\ Owns /\ where # "head"
      /\ Top = At(stack, Len(stack))
      /\ Len(stack) = Len(open) => Top.op = "multi" /\ Top.b = Outer
      /\ Len(stack) > Len(open) => Top.op \in {"decode", "uu"} /\ Top.b = Outer
      /\ Top.op = "decode" => Len(stack) = Len(open) + 1
  BY AgreeContent
<1>2. /\ Len(stack') = Len(stack)
      /\ \A i \in 1..(Len(stack) - 1) : At(stack', i) = At(stack, i)
      /\ At(stack', Len(stack)) = c
      /\ Top' = c
  BY Swapped DEF TypeOK
<1>3. Depth' = Depth /\ Outer' = Outer
  BY <1>1, OuterConsumed
<1>4. where' = where /\ part' = part /\ open' = open
  BY DEF writer
<1>5. Len(stack) > Len(open)
  BY <1>1
<1>6. \A i \in 1..Len(stack) : /\ At(stack', i).op = At(stack, i).op
                               /\ At(stack', i).b = At(stack, i).b
                               /\ At(stack', i).kind = At(stack, i).kind
                               /\ At(stack', i).of \subseteq At(stack, i).of \cup {line.of}
  <2>. SUFFICES ASSUME NEW i \in 1..Len(stack)
                PROVE  /\ At(stack', i).op = At(stack, i).op
                       /\ At(stack', i).b = At(stack, i).b
                       /\ At(stack', i).kind = At(stack, i).kind
                       /\ At(stack', i).of \subseteq At(stack, i).of \cup {line.of}
    OBVIOUS
  <2>1. CASE i = Len(stack)
    BY <1>1, <1>2, <2>1
  <2>2. CASE i # Len(stack)
    <3>1. i \in 1..(Len(stack) - 1)
      BY <1>1, <2>2
    <3>2. At(stack', i) = At(stack, i)
      BY <1>2, <3>1
    <3>3. QED
      BY <3>2
  <2>3. QED
    BY <2>1, <2>2
<1>7. \A i \in (Depth + 1)..Len(stack) : i \in 1..Len(stack)
  BY <1>1
<1>8. line.of \in {0, part.id}
  BY DEF WriterOK
<1>9. InBody'
  <2>1. \A i \in (Depth + 1)..Len(stack) : At(stack', i).op \in {"decode", "uu"}
                                            /\ At(stack', i).b = Outer
    BY <1>1, <1>6, <1>7 DEF InBody
  <2>2. Len(stack) = Depth + 2 => Depth = 0 /\ At(stack', 1).op = "decode" /\ At(stack', 2).op = "uu"
    <3>1. SUFFICES ASSUME Len(stack) = Depth + 2 PROVE Depth = 0 /\ At(stack', 1).op = "decode" /\ At(stack', 2).op = "uu"
      OBVIOUS
    <3>2. Depth = 0 /\ At(stack, 1).op = "decode" /\ At(stack, 2).op = "uu"
      BY <1>1, <3>1 DEF InBody
    <3>3. 1 \in 1..Len(stack) /\ 2 \in 1..Len(stack)
      BY <3>1, <3>2
    <3>4. QED
      BY <1>6, <3>2, <3>3
  <2>3. Len(stack) = Depth + 1 /\ Depth = 0 => c.op = "decode"
    BY <1>1 DEF InBody
  <2>4. c.op = "uu" => where = "uu"
    BY <1>1 DEF InBody
  <2>5. QED
    BY <1>2, <1>3, <1>4, <2>1, <2>2, <2>3, <2>4 DEF InBody
<1>10. Owns'
  <2>1. \A i \in (Depth + 1)..Len(stack) : At(stack', i).of \subseteq {0, part.id}
    BY <1>1, <1>6, <1>7, <1>8 DEF Owns
  <2>2. failed = {} /\ part.kind = "leaf" => /\ Len(stack) > Depth
                                             /\ At(stack', Depth + 1).op = "decode"
                                             /\ At(stack', Depth + 1).kind = "leaf"
    <3>1. Depth + 1 \in 1..Len(stack)
      BY <1>1, <1>5
    <3>2. QED
      BY <1>1, <1>6, <3>1 DEF Owns
  <2>3. part.kind = "uu" => \A i \in (Depth + 1)..Len(stack) : At(stack', i).op # "decode"
    BY <1>1, <1>6, <1>7 DEF Owns
  <2>4. part.kind = "uu" => c.op = "uu"
    <3>1. Len(stack) \in (Depth + 1)..Len(stack)
      BY <1>1, <1>5
    <3>2. QED
      BY <1>1, <3>1 DEF Owns
  <2>5. failed' = {} => failed = {}
    OBVIOUS
  <2>6. QED
    BY <1>2, <1>3, <1>4, <2>1, <2>2, <2>3, <2>4, <2>5 DEF Owns
<1>11. \A i \in 1..Len(open) : At(stack', i).op = "multi" /\ At(stack', i).b = open[i].b
  <2>1. \A i \in 1..Len(open) : i \in 1..Len(stack)
    BY <1>1
  <2>2. QED
    BY <1>1, <1>6, <2>1
<1>12. QED
  BY <1>1, <1>2, <1>9, <1>10, <1>11, Consumed

\* The walk, or the decoder that cannot make a file, drops the line.
LEMMA StayAgree ==
    ASSUME TypeOK, WriterOK, Agree, sound, ~used, stack # << >>,
           line.kind \in {"data", "begin", "end"}, Top.op # "uu",
           Top.op = "decode" \/ line.kind = "begin" => failed' # {},
           used' = TRUE, line' = line, UNCHANGED writer, failed \subseteq failed', stack' = stack
    PROVE  Agree'
<1>1. /\ Len(open) \in Nat /\ Len(stack) \in Nat /\ Len(stack) >= 1
      /\ Depth = Len(open)
      /\ Outer = IF Len(open) = 0 THEN Nil ELSE open[Len(open)].b
      /\ Len(stack) \in {Len(open), Len(open) + 1, Len(open) + 2}
      /\ \A i \in 1..Len(open) : At(stack, i).op = "multi" /\ At(stack, i).b = open[i].b
      /\ InBody /\ Owns /\ where # "head"
      /\ Top = At(stack, Len(stack))
      /\ Len(stack) = Len(open) => Top.op = "multi" /\ Top.b = Outer
      /\ Len(stack) > Len(open) => Top.op \in {"decode", "uu"} /\ Top.b = Outer
      /\ Top.op = "decode" => Len(stack) = Len(open) + 1
  BY AgreeContent
<1>2. Depth' = Depth /\ Outer' = Outer /\ Top' = Top
  BY <1>1, OuterConsumed DEF Top
<1>3. where' = where /\ part' = part /\ open' = open /\ (failed' = {} => failed = {})
  BY DEF writer
<1>4. InBody'
  BY <1>1, <1>2, <1>3 DEF InBody
<1>5. failed' = {} /\ part.kind = "uu" /\ where = "uu" => Top.op = "uu"
  <2>. SUFFICES ASSUME failed' = {}, part.kind = "uu", where = "uu" PROVE FALSE
    OBVIOUS
  <2>1. line.kind = "data" \/ line.kind = "end"
    OBVIOUS
  <2>2. line.kind = "data" => Top.op = "uu"
    BY <1>1, <1>3 DEF Owns, Coded
  <2>3. line.kind = "end" => where = "body"
    BY DEF WriterOK, LineOK
  <2>4. QED
    BY <2>1, <2>2, <2>3
<1>6. Owns'
  BY <1>1, <1>2, <1>3, <1>5 DEF Owns, Coded
<1>7. QED
  BY <1>1, <1>4, <1>6, Consumed

\* end: parseUU returns.
LEMMA PopAgree ==
    ASSUME TypeOK, WriterOK, Agree, sound, ~used, stack # << >>,
           line.kind = "end", Top.op = "uu", stack' = Callers, stack' # << >>,
           used' = TRUE, line' = line, UNCHANGED writer, failed' = failed
    PROVE  Agree'
<1>0. line.kind \in {"data", "begin", "end"}
  OBVIOUS
<1>1. /\ Len(open) \in Nat /\ Len(stack) \in Nat /\ Len(stack) >= 1
      /\ Depth = Len(open)
      /\ Outer = IF Len(open) = 0 THEN Nil ELSE open[Len(open)].b
      /\ Len(stack) \in {Len(open), Len(open) + 1, Len(open) + 2}
      /\ \A i \in 1..Len(open) : At(stack, i).op = "multi" /\ At(stack, i).b = open[i].b
      /\ InBody /\ Owns /\ where # "head"
      /\ Top = At(stack, Len(stack))
      /\ Len(stack) = Len(open) => Top.op = "multi" /\ Top.b = Outer
  BY <1>0, AgreeContent
<1>2. /\ Len(stack') = Len(stack) - 1
      /\ \A i \in 1..(Len(stack) - 1) : At(stack', i) = At(stack, i)
      /\ Len(stack) >= 2
      /\ Top' = At(stack, Len(stack) - 1)
  BY Popped DEF TypeOK
<1>3. Depth' = Depth /\ Outer' = Outer
  BY <1>1, OuterConsumed
<1>4. where = "body" /\ where' = where /\ part' = part /\ open' = open
  BY DEF WriterOK, LineOK, writer
<1>5. Len(stack) \in {Len(open) + 1, Len(open) + 2}
  BY <1>1
<1>6. Len(stack) = Len(open) + 2 => Depth = 0 /\ At(stack, 1).op = "decode" /\ At(stack, 2).op = "uu"
  BY <1>1 DEF InBody
<1>7. Top'.op # "uu"
  <2>1. CASE Len(stack) = Len(open) + 1
    <3>1. Len(stack) - 1 \in 1..Len(open)
      BY <1>1, <1>2, <2>1
    <3>2. QED
      BY <1>1, <1>2, <3>1
  <2>2. CASE Len(stack) = Len(open) + 2
    <3>1. Len(stack) - 1 = 1
      BY <1>1, <1>6, <2>2
    <3>2. QED
      BY <1>2, <1>6, <2>2, <3>1
  <2>3. QED
    BY <1>5, <2>1, <2>2
<1>8. \A i \in (Depth + 1)..Len(stack') : i \in (Depth + 1)..Len(stack) /\ At(stack', i) = At(stack, i)
  BY <1>1, <1>2
<1>9. InBody'
  <2>1. \A i \in (Depth + 1)..Len(stack') : At(stack', i).op \in {"decode", "uu"}
                                             /\ At(stack', i).b = Outer
    BY <1>1, <1>8 DEF InBody
  <2>2. Len(stack') # Depth + 2
    BY <1>1, <1>2, <1>5
  <2>3. Len(stack') = Depth + 1 /\ Depth = 0 => Top'.op = "decode"
    <3>. SUFFICES ASSUME Len(stack') = Depth + 1, Depth = 0 PROVE Top'.op = "decode"
      OBVIOUS
    <3>1. Len(stack) = Len(open) + 2 /\ Len(stack) - 1 = 1
      BY <1>1, <1>2
    <3>2. QED
      BY <1>2, <1>6, <3>1
  <2>4. QED
    BY <1>3, <1>7, <2>1, <2>2, <2>3 DEF InBody
<1>10. Owns'
  <2>1. \A i \in (Depth + 1)..Len(stack') : At(stack', i).of \subseteq {0, part.id}
    BY <1>1, <1>8 DEF Owns
  <2>2. failed = {} /\ part.kind = "leaf" => /\ Len(stack') > Depth
                                             /\ At(stack', Depth + 1).op = "decode"
                                             /\ At(stack', Depth + 1).kind = "leaf"
    <3>. SUFFICES ASSUME failed = {}, part.kind = "leaf"
         PROVE  Len(stack') > Depth /\ At(stack', Depth + 1) = At(stack, Depth + 1)
      BY <1>1 DEF Owns
    <3>1. At(stack, Depth + 1).op = "decode"
      BY <1>1 DEF Owns
    <3>2. Len(stack) # Len(open) + 1
      BY <1>1, <3>1
    <3>3. Len(stack') = Depth + 1 /\ Depth + 1 \in 1..(Len(stack) - 1)
      BY <1>1, <1>2, <1>5, <3>2
    <3>4. QED
      BY <1>1, <1>2, <3>3
  <2>3. part.kind = "uu" => \A i \in (Depth + 1)..Len(stack') : At(stack', i).op # "decode"
    BY <1>1, <1>8 DEF Owns
  <2>4. ~Coded'
    BY <1>4 DEF Coded
  <2>5. QED
    BY <1>3, <1>4, <2>1, <2>2, <2>3, <2>4 DEF Owns
<1>11. \A i \in 1..Len(open) : At(stack', i).op = "multi" /\ At(stack', i).b = open[i].b
  <2>1. \A i \in 1..Len(open) : i \in 1..(Len(stack) - 1)
    BY <1>1, <1>2, <1>5
  <2>2. QED
    BY <1>1, <1>2, <2>1
<1>12. Len(stack') \in {Len(open), Len(open) + 1, Len(open) + 2}
  BY <1>1, <1>2, <1>5
<1>13. QED
  BY <1>4, <1>9, <1>10, <1>11, <1>12, Consumed

\* What agreement means for a delimiter that is pending: whoever reads it stops there.
LEMMA AgreeBoundary ==
    ASSUME TypeOK, WriterOK, Agree, sound, ~used, stack # << >>, line.kind \in {"delim", "close"}
    PROVE  /\ Len(open) \in Nat /\ Len(stack) \in Nat /\ Depth \in Nat /\ Depth >= 1
           /\ \A i \in 1..Len(open) : Bound(i) = open[i].b
           /\ \A i \in 1..Depth : At(stack, i).op = "multi" /\ At(stack, i).b = Bound(i)
           /\ Top = At(stack, Len(stack))
           /\ Top.op \in {"multi", "decode", "uu"} /\ Top.b = line.arg /\ atBoundary(Top.b)
           /\ Len(stack) = IF Top.op = "multi" THEN Depth ELSE Depth + 1
           /\ line.kind = "delim" => Depth = Len(open) /\ where = "head" /\ part.kind = "leaf"
           /\ line.kind = "close" => /\ Depth = Len(open) + 1 /\ where = "body"
                                     /\ part.kind \in Boundaries
<1>0. Len(open) \in Nat /\ stack \in Seq(Call) /\ (open = << >> <=> Len(open) = 0)
  BY DEF TypeOK
<1>1. Len(stack) \in Nat /\ Len(stack) >= 1 /\ Top = At(stack, Len(stack))
  BY <1>0, TopAt
<1>2. \A i \in 1..Len(open) : Bound(i) = open[i].b
  BY <1>0 DEF Bound
<1>3. /\ line.kind = "delim" => /\ Depth = Len(open) /\ where = "head" /\ part.kind = "leaf"
                                /\ Len(open) # 0 /\ line.arg = open[Len(open)].b
      /\ line.kind = "close" => /\ Depth = Len(open) + 1 /\ where = "body"
                                /\ part.kind \in Boundaries /\ line.arg = part.kind
  BY <1>0 DEF WriterOK, LineOK, Depth
<1>4. Depth \in Nat /\ Depth >= 1
  BY <1>0, <1>3
<1>5. Bound(Depth) = line.arg
  BY <1>0, <1>3 DEF Bound
<1>6. line.arg # Nil
  <2>1. line.kind = "delim" => line.arg \in Boundaries
    <3>. DEFINE Opens == [b : Boundaries, part : Part]
    <3>1. open \in Seq(Opens)
      BY DEF TypeOK
    <3>. HIDE DEF Opens
    <3>2. Len(open) # 0 => open[Len(open)] \in Opens
      BY <1>0, <3>1
    <3>3. Len(open) # 0 => open[Len(open)].b \in Boundaries
      BY <3>2 DEF Opens
    <3>4. QED
      BY <1>3, <3>3
  <2>2. QED
    BY <1>3, <2>1
<1>7. Outer = line.arg
  BY <1>4, <1>5 DEF Outer
<1>8. InBody /\ Walks
  BY DEF Agree, Reads
<1>9. Len(stack) \in {Depth, Depth + 1}
  BY <1>4, <1>8 DEF InBody, Walks
<1>10. CASE Len(stack) = Depth
  <2>1. Top.op = "multi" /\ Top.b = line.arg
    BY <1>1, <1>4, <1>5, <1>8, <1>10 DEF Walks
  <2>2. QED
    BY <1>0, <1>1, <1>2, <1>3, <1>4, <1>6, <1>8, <1>10, <2>1 DEF Walks, atBoundary
<1>11. CASE Len(stack) = Depth + 1
  <2>1. Len(stack) \in (Depth + 1)..Len(stack)
    BY <1>4, <1>11
  <2>2. Top.op \in {"decode", "uu"} /\ Top.b = line.arg
    BY <1>1, <1>7, <1>8, <2>1 DEF InBody
  <2>3. QED
    BY <1>0, <1>1, <1>2, <1>3, <1>4, <1>6, <1>8, <1>11, <2>2 DEF Walks, atBoundary
<1>12. QED
  BY <1>9, <1>10, <1>11

\* The decoder, or parseUU, leaves the delimiter to the walk.
LEMMA LeaveAgree ==
    ASSUME TypeOK, WriterOK, Agree, sound, ~used, stack # << >>, line.kind \in {"delim", "close"},
           Top.op \in {"decode", "uu"}, stack' = Callers, stack' # << >>,
           used' = used, line' = line, UNCHANGED writer
    PROVE  Agree'
<1>1. /\ Len(open) \in Nat /\ Len(stack) \in Nat /\ Depth \in Nat /\ Depth >= 1
      /\ \A i \in 1..Depth : At(stack, i).op = "multi" /\ At(stack, i).b = Bound(i)
      /\ Len(stack) = Depth + 1
  BY AgreeBoundary
<1>2. /\ Len(stack') = Len(stack) - 1
      /\ \A i \in 1..(Len(stack) - 1) : At(stack', i) = At(stack, i)
      /\ Top' = At(stack, Len(stack) - 1)
  BY Popped DEF TypeOK
<1>3. /\ Depth' = Depth
      /\ \A i : Bound(i)' = Bound(i)
  BY DEF Depth, Bound, writer
<1>4. Len(stack') = Depth /\ Top'.op = "multi"
  BY <1>1, <1>2
<1>5. Walks'
  BY <1>1, <1>2, <1>3, <1>4 DEF Walks
<1>6. InBody'
  BY <1>1, <1>3, <1>4 DEF InBody
<1>7. ~Reads' /\ ~Content'
  BY DEF Reads, Content
<1>8. QED
  BY <1>5, <1>6, <1>7 DEF Agree

\* The walk takes it for what it is: the end, or a new part.
LEMMA CloseAgree ==
    ASSUME TypeOK, WriterOK, Agree, sound, ~used, stack # << >>, line.kind = "close",
           Top.op = "multi", stack' = Callers, stack' # << >>,
           used' = TRUE, line' = line, UNCHANGED writer
    PROVE  Agree'
<1>0. line.kind \in {"delim", "close"}
  OBVIOUS
<1>1. /\ Len(open) \in Nat /\ Len(stack) \in Nat
      /\ \A i \in 1..Len(open) : Bound(i) = open[i].b
      /\ \A i \in 1..Depth : At(stack, i).op = "multi" /\ At(stack, i).b = Bound(i)
      /\ Len(stack) = Depth
      /\ Depth = Len(open) + 1 /\ where = "body" /\ part.kind \in Boundaries
  BY <1>0, AgreeBoundary
<1>2. /\ Len(stack') = Len(stack) - 1
      /\ \A i \in 1..(Len(stack) - 1) : At(stack', i) = At(stack, i)
      /\ Len(stack) >= 2
      /\ Top' = At(stack, Len(stack) - 1)
  BY Popped DEF TypeOK
<1>3. Len(stack') = Len(open)
  BY <1>1, <1>2
<1>4. \A i \in 1..Len(open) : At(stack', i).op = "multi" /\ At(stack', i).b = open[i].b
  <2>1. \A i \in 1..Len(open) : i \in 1..Depth /\ i \in 1..(Len(stack) - 1)
    BY <1>1
  <2>2. QED
    BY <1>1, <1>2, <2>1
<1>5. Top'.op = "multi"
  <2>1. Len(stack) - 1 \in 1..Depth
    BY <1>1, <1>2
  <2>2. QED
    BY <1>1, <1>2, <2>1
<1>6. Depth' = Len(open)
  BY OuterConsumed
<1>7. part' = part /\ part.kind # "leaf" /\ part.kind # "uu"
  BY <1>1 DEF writer
<1>8. InBody' /\ Owns'
  BY <1>1, <1>3, <1>5, <1>6, <1>7 DEF InBody, Owns
<1>9. QED
  BY <1>1, <1>3, <1>4, <1>8, Consumed

LEMMA DelimAgree ==
    ASSUME TypeOK, WriterOK, Agree, sound, ~used, stack # << >>, line.kind = "delim",
           Top.op = "multi", NEW c \in Call, c.op = "headers", c.kind = "leaf",
           stack' = <<c>> \o stack,
           used' = TRUE, line' = line, UNCHANGED writer
    PROVE  Agree'
<1>0. line.kind \in {"delim", "close"}
  OBVIOUS
<1>1. /\ Len(open) \in Nat /\ Len(stack) \in Nat
      /\ \A i \in 1..Len(open) : Bound(i) = open[i].b
      /\ \A i \in 1..Depth : At(stack, i).op = "multi" /\ At(stack, i).b = Bound(i)
      /\ Len(stack) = Depth
      /\ Depth = Len(open) /\ where = "head" /\ part.kind = "leaf"
  BY <1>0, AgreeBoundary
<1>2. /\ Len(stack') = Len(stack) + 1
      /\ \A i \in 1..Len(stack) : At(stack', i) = At(stack, i)
      /\ Top' = c
  BY Pushed DEF TypeOK
<1>3. QED
  BY <1>1, <1>2, Consumed

\* What agreement means for a line of a header that is pending.
LEMMA AgreeHeader ==
    ASSUME TypeOK, WriterOK, Agree, sound, ~used, stack # << >>, line.kind \in {"head", "blank"}
    PROVE  /\ Len(open) \in Nat /\ Len(stack) \in Nat /\ Depth \in Nat
           /\ \A i \in 1..Len(open) : Bound(i) = open[i].b
           /\ \A i \in 1..Depth : At(stack, i).op = "multi" /\ At(stack, i).b = open[i].b
           /\ Len(stack) = Depth + 1
           /\ Top.op = "headers"
           /\ line.kind = "head" => /\ Depth = Len(open) /\ Top.kind = "leaf"
                                    /\ where = "head" /\ line.arg = part.kind
           /\ line.kind = "blank" => /\ Top.kind = part.kind /\ where = "body"
                                     /\ part.kind \in Boundaries => /\ Len(open) = Depth + 1
                                                                    /\ open[Len(open)].b = part.kind
                                     /\ part.kind \notin Boundaries => Depth = Len(open)
<1>0. Len(open) \in Nat /\ Len(stack) \in Nat /\ (open = << >> <=> Len(open) = 0)
  BY DEF TypeOK
<1>1. \A i \in 1..Len(open) : Bound(i) = open[i].b
  BY <1>0 DEF Bound
<1>2. /\ line.kind = "head" => Depth = Len(open) /\ where = "head" /\ line.arg = part.kind
      /\ line.kind = "blank" => /\ where = "body"
                                /\ part.kind \in Boundaries => /\ Len(open) = Depth + 1
                                                               /\ open[Len(open)].b = part.kind
                                                               /\ Len(open) # 0
                                /\ part.kind \notin Boundaries => Depth = Len(open)
  BY <1>0 DEF WriterOK, LineOK, Depth
<1>3. Depth \in Nat /\ Depth <= Len(open)
  <2>1. Depth = Len(open) \/ (Len(open) # 0 /\ Len(open) = Depth + 1 /\ Depth = Len(open) - 1)
    BY <1>0, <1>2 DEF Depth
  <2>2. QED
    BY <1>0, <2>1
<1>4. InHeader /\ Walks
  BY DEF Agree, Reads
<1>5. \A i \in 1..Depth : At(stack, i).op = "multi" /\ At(stack, i).b = open[i].b
  <2>1. \A i \in 1..Depth : i \in 1..Len(open)
    BY <1>0, <1>3
  <2>2. QED
    BY <1>1, <1>4, <2>1 DEF Walks
<1>6. Top.kind = IF line.kind = "head" THEN "leaf" ELSE part.kind
  BY <1>4 DEF InHeader, HeadKind
<1>7. Len(stack) = Depth + 1 /\ Top.op = "headers"
  BY <1>4 DEF InHeader
<1>8. QED
  BY <1>0, <1>1, <1>2, <1>3, <1>5, <1>6, <1>7

\* The header is read, or the body begins.
LEMMA HeaderAgree ==
    ASSUME Ready, WriterOK, Agree, sound, ~used, ~ended, stack' # << >>,
           HeaderParse, UNCHANGED writer
    PROVE  Agree'
<1>0. /\ TypeOK /\ stack # << >> /\ stack \in Seq(Call) /\ Top \in Call /\ Callers \in Seq(Call)
      /\ line' = line
  BY ReadyTop DEF Ready, Safe, HeaderParse
<1>1. line.kind \in {"head", "blank"}
  <2>1. CASE line.kind \in {"data", "begin", "end"}
    <3>1. Top.op \in {"multi", "decode", "uu"}
      <4>1. /\ Len(stack) \in {Len(open), Len(open) + 1, Len(open) + 2} /\ Len(open) \in Nat
            /\ Len(stack) = Len(open) => Top.op = "multi" /\ Top.b = Outer
            /\ Len(stack) > Len(open) => Top.op \in {"decode", "uu"} /\ Top.b = Outer
        BY <1>0, <2>1, AgreeContent
      <4>2. QED
        BY <4>1
    <3>2. QED
      BY <3>1 DEF HeaderParse
  <2>2. CASE line.kind \in {"delim", "close"}
    <3>1. Top.op \in {"multi", "decode", "uu"}
      BY <1>0, <2>2, AgreeBoundary
    <3>2. QED
      BY <3>1 DEF HeaderParse
  <2>3. QED
    BY <1>0, <2>1, <2>2 DEF TypeOK, Line
<1>2. /\ Len(open) \in Nat /\ Len(stack) \in Nat /\ Depth \in Nat
      /\ \A i \in 1..Depth : At(stack, i).op = "multi" /\ At(stack, i).b = open[i].b
      /\ Len(stack) = Depth + 1
      /\ Top.op = "headers"
      /\ line.kind = "head" => /\ Depth = Len(open) /\ Top.kind = "leaf"
                               /\ where = "head" /\ line.arg = part.kind
      /\ line.kind = "blank" => /\ Top.kind = part.kind /\ where = "body"
                                /\ part.kind \in Boundaries => /\ Len(open) = Depth + 1
                                                               /\ open[Len(open)].b = part.kind
                                /\ part.kind \notin Boundaries => Depth = Len(open)
  BY <1>0, <1>1, AgreeHeader
<1>3. where' = where /\ part' = part /\ open' = open
  BY DEF writer
<1>4. CASE line.kind = "head"
  <2>. DEFINE c == [Top EXCEPT !.kind = line.arg]
  <2>1. used' = TRUE /\ stack' = <<c>> \o Callers
    BY <1>2, <1>4 DEF HeaderParse, Consume, AtEOF
  <2>2. c \in Call /\ c.op = "headers" /\ c.kind = part.kind
    BY <1>0, <1>2, <1>4 DEF TypeOK, Call
  <2>. HIDE DEF c
  <2>3. /\ Len(stack') = Len(stack)
        /\ \A i \in 1..(Len(stack) - 1) : At(stack', i) = At(stack, i)
        /\ Top' = c
    BY <1>0, <2>1, <2>2, Swapped
  <2>4. \A i \in 1..Len(open) : At(stack', i).op = "multi" /\ At(stack', i).b = open[i].b
    BY <1>2, <1>4, <2>3
  <2>5. QED
    BY <1>0, <1>2, <1>4, <2>1, <2>2, <2>3, <2>4, Consumed
<1>5. CASE line.kind = "blank"
  <2>1. /\ used' = TRUE /\ bodyParse(part.kind, Callers)
        /\ where = "body"
    BY <1>2, <1>5 DEF HeaderParse, Consume, AtEOF
  <2>2. /\ Len(Callers) = Depth
        /\ \A i \in 1..Depth : At(Callers, i) = At(stack, i)
    BY <1>0, <1>2, TopAt
  <2>3. /\ Depth' = Len(open)
        /\ Outer' = IF Len(open) = 0 THEN Nil ELSE open[Len(open)].b
    BY <1>0, <2>1, OuterConsumed
  <2>4. ~Coded'
    BY <1>3, <2>1 DEF Coded
  <2>5. ASSUME stack' = Callers, part.kind \notin Boundaries, part.kind = "leaf" => failed' # {}
        PROVE  Agree'
    <3>1. Len(stack') = Len(open) /\ Depth = Len(open)
      BY <1>2, <1>5, <2>2, <2>5
    <3>2. \A i \in 1..Len(open) : At(stack', i).op = "multi" /\ At(stack', i).b = open[i].b
      BY <1>2, <2>2, <2>5, <3>1
    <3>3. Top'.op = "multi"
      <4>1. Len(stack) >= 2 /\ Top' = At(stack, Len(stack) - 1)
        BY <1>0, <2>5, Popped
      <4>2. Len(stack) - 1 \in 1..Depth
        BY <1>2, <4>1
      <4>3. QED
        BY <1>2, <4>1, <4>2
    <3>4. InBody'
      BY <1>2, <2>3, <3>1, <3>3 DEF InBody
    <3>5. Owns'
      BY <1>2, <1>3, <2>3, <2>4, <2>5, <3>1 DEF Owns
    <3>6. QED
      BY <1>0, <1>2, <2>1, <3>1, <3>2, <3>4, <3>5, Consumed
  <2>6. CASE part.kind \in Boundaries
    <3>. DEFINE c == Calls("multi", part.kind, "leaf", 0)
    <3>1. stack' = <<c>> \o Callers
      BY <2>1, <2>6 DEF bodyParse
    <3>2. c \in Call /\ c.op = "multi" /\ c.b = part.kind
      BY <2>6, CallsType DEF Calls, Kinds
    <3>. HIDE DEF c
    <3>3. /\ Len(stack') = Len(stack)
          /\ \A i \in 1..(Len(stack) - 1) : At(stack', i) = At(stack, i)
          /\ At(stack', Len(stack)) = c
          /\ Top' = c
      BY <1>0, <3>1, <3>2, Swapped
    <3>4. Len(stack') = Len(open) /\ Len(stack) = Len(open) /\ open[Len(open)].b = part.kind
      BY <1>2, <1>5, <2>6, <3>3
    <3>5. \A i \in 1..Len(open) : At(stack', i).op = "multi" /\ At(stack', i).b = open[i].b
      <4>. SUFFICES ASSUME NEW i \in 1..Len(open)
                    PROVE  At(stack', i).op = "multi" /\ At(stack', i).b = open[i].b
        OBVIOUS
      <4>1. CASE i = Len(open)
        BY <3>2, <3>3, <3>4, <4>1
      <4>2. CASE i # Len(open)
        <5>1. i \in 1..Depth /\ i \in 1..(Len(stack) - 1)
          BY <1>2, <3>4, <4>2
        <5>2. QED
          BY <1>2, <3>3, <5>1
      <4>3. QED
        BY <4>1, <4>2
    <3>6. InBody'
      BY <1>2, <2>3, <3>2, <3>3, <3>4 DEF InBody
    <3>7. part.kind # "leaf" /\ part.kind # "uu"
      BY <2>6
    <3>8. Owns'
      BY <1>2, <1>3, <2>3, <3>4, <3>7 DEF Owns
    <3>9. QED
      BY <1>0, <2>1, <3>4, <3>5, <3>6, <3>8, Consumed
  <2>7. ASSUME part.kind \in {"tnef", "leaf"}, NEW f \in Files, failed' = failed,
               stack' = <<Calls("decode", parentBoundary(Callers), part.kind, f)>> \o Callers
        PROVE  Agree'
    <3>. DEFINE c == Calls("decode", parentBoundary(Callers), part.kind, f)
    <3>0. part.kind \notin Boundaries /\ part.kind \in Kinds
      BY <2>7 DEF Kinds
    <3>1. /\ c \in Call /\ c.op = "decode" /\ c.b = parentBoundary(Callers)
          /\ c.kind = part.kind /\ c.of = {}
      BY <1>0, <3>0, CallsType, ParentType DEF Calls
    <3>. HIDE DEF c
    <3>2. stack' = <<c>> \o Callers
      BY <2>7 DEF c
    <3>3. /\ Len(stack') = Len(stack)
          /\ \A i \in 1..(Len(stack) - 1) : At(stack', i) = At(stack, i)
          /\ At(stack', Len(stack)) = c
          /\ Top' = c
      BY <1>0, <3>1, <3>2, Swapped
    <3>4. Depth = Len(open) /\ Len(stack') = Len(open) + 1
      BY <1>2, <1>5, <3>0, <3>3
    <3>5. c.b = Outer'
      <4>1. CASE Len(open) = 0
        <5>1. Callers = << >>
          BY <1>0, <2>2, <3>4, <4>1
        <5>2. QED
          BY <2>3, <3>1, <4>1, <5>1 DEF parentBoundary
      <4>2. CASE Len(open) # 0
        <5>1. Callers # << >> /\ Len(Callers) = Len(open) /\ Head(Callers) = Callers[1]
          BY <1>0, <1>2, <2>2, <3>4, <4>2
        <5>2. Len(Callers) + 1 - Len(open) = 1 /\ Len(open) \in 1..Depth
          BY <1>2, <3>4, <4>2, <5>1
        <5>3. Head(Callers) = At(Callers, Len(open))
          BY <5>1, <5>2 DEF At
        <5>4. Head(Callers).b = open[Len(open)].b
          BY <1>2, <2>2, <5>2, <5>3
        <5>5. QED
          BY <2>3, <3>1, <4>2, <5>1, <5>4 DEF parentBoundary
      <4>3. QED
        BY <4>1, <4>2
    <3>6. \A i \in (Len(open) + 1)..Len(stack') : At(stack', i) = c
      BY <1>2, <3>3, <3>4
    <3>7. \A i \in 1..Len(open) : At(stack', i).op = "multi" /\ At(stack', i).b = open[i].b
      BY <1>2, <3>3, <3>4
    <3>8. InBody'
      BY <1>2, <2>3, <3>1, <3>3, <3>4, <3>5, <3>6 DEF InBody
    <3>9. Owns'
      <4>1. Len(open) + 1 \in (Len(open) + 1)..Len(stack')
        BY <1>2, <3>4
      <4>2. QED
        BY <1>2, <1>3, <2>3, <2>4, <2>7, <3>1, <3>4, <3>6, <4>1 DEF Owns
    <3>10. QED
      BY <1>0, <2>1, <3>4, <3>7, <3>8, <3>9, Consumed
  <2>8. Fault("temp") => failed' # {}
    BY DEF Fault
  <2>9. CASE part.kind \notin Boundaries
    <3>1. CASE stack' = Callers /\ (part.kind = "leaf" => failed' # {})
      BY <2>5, <2>9, <3>1
    <3>2. CASE /\ part.kind \in {"tnef", "leaf"} /\ failed' = failed
               /\ \E f \in Files :
                     stack' = <<Calls("decode", parentBoundary(Callers), part.kind, f)>> \o Callers
      BY <2>7, <3>2
    <3>3. QED
      BY <2>1, <2>8, <2>9, <3>1, <3>2 DEF bodyParse
  <2>10. QED
    BY <2>6, <2>9
<1>6. QED
  BY <1>1, <1>4, <1>5

\* What writing a line does to the innermost call, and to what is known of the files.
WritesAs(c) ==
    /\ stack' = <<c>> \o Callers
    /\ c.op = Top.op /\ c.b = Top.b /\ c.kind = Top.kind
    /\ c.of = Top.of \/ c.of = Top.of \cup {line.of}
    /\ c.file = Top.file \/ c.file \in named'
    /\ named \subseteq named'
    /\ failed \subseteq failed'
    /\ \/ failed' # {} \/ Top.err
       \/ /\ c.err = Top.err
          /\ missed' = missed
          /\ holds' = IF line.matters THEN holds \cup {c.file} ELSE holds

LEMMA WriteFacts ==
    ASSUME Ready, Top.op \in {"decode", "uu"}, WriteLine
    PROVE  \E c \in Call : WritesAs(c)
<1>0. Top \in Call /\ failed \in SUBSET Faults /\ line.of \in Parts /\ Top.file \in Files
  BY ReadyTop DEF Ready, TypeOK, Line, HasFile
<1>1. ASSUME NotWritten, failed' # {} \/ Top.err, named \subseteq named', failed \subseteq failed'
      PROVE  \E c \in Call : WritesAs(c)
  <2>. DEFINE c == [Top EXCEPT !.err = TRUE]
  <2>1. /\ c \in Call /\ c.op = Top.op /\ c.b = Top.b /\ c.kind = Top.kind /\ c.of = Top.of
        /\ c.file = Top.file
    BY <1>0 DEF Call
  <2>2. stack' = <<c>> \o Callers
    BY <1>1 DEF NotWritten
  <2>. HIDE DEF c
  <2>3. WritesAs(c)
    BY <1>1, <2>1, <2>2 DEF WritesAs
  <2>4. QED
    BY <2>1, <2>3
<1>2. ASSUME NEW f \in Files, NEW n \in 0..MaxFileSize, f = Top.file \/ f \in named',
             Written([Top EXCEPT !.file = f, !.pos = n]), named \subseteq named', failed' = failed
      PROVE  \E c \in Call : WritesAs(c)
  <2>. DEFINE d == [Top EXCEPT !.file = f, !.pos = n]
              c == [d EXCEPT !.of = @ \cup {line.of}]
  <2>1. /\ c \in Call /\ c.op = Top.op /\ c.b = Top.b /\ c.kind = Top.kind
        /\ c.of = Top.of \cup {line.of} /\ c.file = f /\ c.err = Top.err /\ d.file = f
    BY <1>0 DEF Call
  <2>2. Written(d)
    BY <1>2
  <2>3. stack' = <<c>> \o Callers
    BY <2>2 DEF Written
  <2>4. missed' = missed /\ holds' = IF line.matters THEN holds \cup {c.file} ELSE holds
    BY <2>1, <2>2 DEF Written
  <2>. HIDE DEF c, d
  <2>5. WritesAs(c)
    BY <1>2, <2>1, <2>3, <2>4 DEF WritesAs
  <2>6. QED
    BY <2>1, <2>5
<1>3. ASSUME NEW k, Fault(k) PROVE failed' # {} /\ failed \subseteq failed'
  BY <1>3 DEF Fault
<1>4. CASE Top.err /\ NotWritten /\ UNCHANGED <<named, disk, failed>>
  BY <1>1, <1>4
<1>5. CASE \E f \in Files :
             /\ Split(f)
             /\ \/ Written([Top EXCEPT !.file = f, !.pos = 1]) /\ UNCHANGED failed
                \/ Fault("write") /\ NotWritten
  <2>1. PICK f \in Files :
             /\ Split(f)
             /\ \/ Written([Top EXCEPT !.file = f, !.pos = 1]) /\ UNCHANGED failed
                \/ Fault("write") /\ NotWritten
    BY <1>5
  <2>2. named' = named \cup {f}
    BY <2>1 DEF Split, Name
  <2>3. 1 \in 0..MaxFileSize
    OBVIOUS
  <2>4. CASE Fault("write") /\ NotWritten
    BY <1>1, <1>3, <2>2, <2>4
  <2>5. CASE Written([Top EXCEPT !.file = f, !.pos = 1]) /\ failed' = failed
    BY <1>2, <2>2, <2>3, <2>5
  <2>6. QED
    BY <2>1, <2>4, <2>5
<1>6. CASE NotWritten /\ UNCHANGED named /\ \E k : Fault(k)
  BY <1>1, <1>3, <1>6
<1>7. CASE /\ ~Full /\ Written([Top EXCEPT !.pos = IF Top.kind = "tnef" THEN @ ELSE @ + 1])
           /\ UNCHANGED <<named, disk, failed>> /\ Top.file \in Files
  <2>. DEFINE n == IF Top.kind = "tnef" THEN Top.pos ELSE Top.pos + 1
  <2>1. n \in 0..MaxFileSize
    BY <1>0, <1>7 DEF Full, Call
  <2>2. [Top EXCEPT !.pos = IF Top.kind = "tnef" THEN @ ELSE @ + 1]
           = [Top EXCEPT !.file = Top.file, !.pos = n]
    BY <1>0 DEF Call
  <2>. HIDE DEF n
  <2>3. QED
    BY <1>2, <1>7, <2>1, <2>2
<1>8. QED
  BY <1>0, <1>4, <1>5, <1>6, <1>7 DEF WriteLine

\* Which line is pending, by who may read it.
LEMMA Turn ==
    ASSUME TypeOK, WriterOK, Agree, sound, ~used, stack # << >>
    PROVE  /\ line.kind \in {"head", "blank"} \cup {"data", "begin", "end"} \cup {"delim", "close"}
           /\ line.kind \in {"head", "blank"} => Top.op = "headers"
           /\ line.kind \in {"delim", "close"} => atBoundary(Top.b) /\ line.arg = Top.b
                                                  /\ Top.op # "headers" /\ Top.op # "discard"
           /\ line.kind \in {"data", "begin", "end"} => ~atBoundary(Top.b)
                                                        /\ Top.op # "headers" /\ Top.op # "discard"
<1>1. line.kind \in {"head", "blank"} \cup {"data", "begin", "end"} \cup {"delim", "close"}
  BY DEF TypeOK, Line
<1>2. line.kind \in {"head", "blank"} => Top.op = "headers"
  BY AgreeHeader
<1>3. line.kind \in {"delim", "close"} => atBoundary(Top.b) /\ line.arg = Top.b
                                          /\ Top.op # "headers" /\ Top.op # "discard"
  BY AgreeBoundary
<1>4. ASSUME line.kind \in {"data", "begin", "end"}
      PROVE  ~atBoundary(Top.b) /\ Top.op # "headers" /\ Top.op # "discard"
  <2>1. /\ Len(stack) \in {Len(open), Len(open) + 1, Len(open) + 2} /\ Len(open) \in Nat
        /\ Len(stack) = Len(open) => Top.op = "multi" /\ Top.b = Outer
        /\ Len(stack) > Len(open) => Top.op \in {"decode", "uu"} /\ Top.b = Outer
    BY <1>4, AgreeContent
  <2>2. Top.op \in {"multi", "decode", "uu"}
    BY <2>1
  <2>3. QED
    BY <1>4, <2>2 DEF atBoundary
<1>5. QED
  BY <1>1, <1>2, <1>3, <1>4

\* Between begin and end, parseUU gets lines that are encoded.
LEMMA UUTurn ==
    ASSUME TypeOK, WriterOK, Agree, sound, ~used, stack # << >>,
           line.kind \in {"data", "begin"}, Top.op = "uu"
    PROVE  line.kind = "data" /\ line.coded
<1>1. InBody
  BY AgreeContent
<1>2. line.kind = "data" /\ where = "uu"
  BY <1>1 DEF InBody
<1>3. QED
  BY <1>2 DEF WriterOK, LineOK

\* parseUU is called, or cannot make its file.
LEMMA BeginAgree ==
    ASSUME Ready, WriterOK, Agree, sound, ~used, line.kind = "begin",
           used' = TRUE, line' = line, UNCHANGED writer,
           Top.op = "multi" \/ (Top.op = "decode" /\ Top.b = Nil),
           beginUU(Top.b)
    PROVE  Agree'
<1>1. TypeOK /\ stack # << >> /\ Top.b \in Boundaries \cup {Nil}
  BY ReadyTop DEF Ready, Call
<1>2. CASE Fault("temp") /\ UNCHANGED <<stack, named, disk>>
  <2>1. failed' # {} /\ failed \subseteq failed' /\ stack' = stack
    BY <1>2 DEF Fault
  <2>2. Top.op # "uu" /\ line.kind \in {"data", "begin", "end"}
    OBVIOUS
  <2>3. QED
    BY <1>1, <2>1, <2>2, StayAgree
<1>3. CASE failed' = failed /\ \E f \in Files : stack' = <<Calls("uu", Top.b, "leaf", f)>> \o stack
  <2>1. PICK f \in Files : stack' = <<Calls("uu", Top.b, "leaf", f)>> \o stack
    BY <1>3
  <2>. DEFINE c == Calls("uu", Top.b, "leaf", f)
  <2>2. c \in Call /\ c.op = "uu" /\ c.b = Top.b /\ c.of = {}
    BY <1>1, CallsType DEF Calls, Kinds
  <2>. HIDE DEF c
  <2>3. stack' = <<c>> \o stack
    BY <2>1 DEF c
  <2>4. QED
    BY <1>1, <1>3, <2>2, <2>3, PushAgree
<1>4. QED
  BY <1>2, <1>3 DEF beginUU

LEMMA WriteAgree ==
    ASSUME Ready, WriterOK, Agree, sound, ~used,
           line.kind \in {"data", "begin", "end"}, Top.op = "uu" => line.kind = "data",
           used' = TRUE, line' = line, UNCHANGED writer,
           Top.op \in {"decode", "uu"}, WriteLine
    PROVE  Agree'
<1>1. PICK c \in Call : WritesAs(c)
  BY WriteFacts
<1>2. /\ c.op = Top.op /\ c.b = Top.b /\ c.kind = Top.kind
      /\ c.of \subseteq Top.of \cup {line.of}
      /\ stack' = <<c>> \o Callers
      /\ failed \subseteq failed'
  BY <1>1 DEF WritesAs
<1>3. TypeOK /\ stack # << >>
  BY DEF Ready
<1>4. QED
  BY <1>2, <1>3, SwapAgree

\* Every step of the parser keeps the agreement.
LEMMA ParseAgree ==
    ASSUME Ready, WriterOK, Agree, sound, ~ended, Parse, stack' # << >>
    PROVE  Agree'
<1>0. /\ TypeOK /\ stack # << >> /\ ~AtEOF
      /\ UNCHANGED writer
  BY DEF Ready, Parse, AtEOF
<1>1. CASE HeaderParse
  <2>1. ~used
    BY <1>0, <1>1 DEF HeaderParse
  <2>2. QED
    BY <1>0, <1>1, <2>1, HeaderAgree
<1>2. CASE MultipartLine
  <2>1. ~used /\ used' = TRUE /\ line' = line /\ Top.op = "multi"
    BY <1>2 DEF MultipartLine, WalkOn, Consume
  <2>2. /\ line.kind \in {"head", "blank"} \cup {"data", "begin", "end"} \cup {"delim", "close"}
        /\ line.kind \in {"head", "blank"} => Top.op = "headers"
        /\ line.kind \in {"delim", "close"} => atBoundary(Top.b) /\ line.arg = Top.b
        /\ line.kind \in {"data", "begin", "end"} => ~atBoundary(Top.b)
    BY <1>0, <2>1, Turn
  <2>3. CASE line.kind = "close"
    <3>1. stack' = Callers
      BY <1>2, <2>2, <2>3 DEF MultipartLine
    <3>2. QED
      BY <1>0, <2>1, <2>3, <3>1, CloseAgree
  <2>4. CASE line.kind = "delim"
    <3>. DEFINE c == Calls("headers", Nil, "leaf", 0)
    <3>1. stack' = <<c>> \o stack
      BY <1>2, <2>2, <2>4 DEF MultipartLine
    <3>2. c \in Call /\ c.op = "headers" /\ c.kind = "leaf"
      BY CallsType DEF Calls, Kinds
    <3>. HIDE DEF c
    <3>3. QED
      BY <1>0, <2>1, <2>4, <3>1, <3>2, DelimAgree
  <2>5. CASE line.kind = "begin"
    <3>1. beginUU(Top.b)
      BY <1>2, <2>2, <2>5 DEF MultipartLine
    <3>2. Top.op = "multi" \/ (Top.op = "decode" /\ Top.b = Nil)
      BY <2>1
    <3>3. QED
      BY <1>0, <2>1, <2>5, <3>1, <3>2, BeginAgree
  <2>6. CASE line.kind \in {"data", "end"}
    <3>1. stack' = stack /\ failed' = failed
      BY <1>2, <2>2, <2>6 DEF MultipartLine
    <3>2. line.kind \in {"data", "begin", "end"} /\ line.kind # "begin"
      BY <2>6
    <3>3. QED
      BY <1>0, <2>1, <3>1, <3>2, StayAgree
  <2>7. QED
    BY <2>1, <2>2, <2>3, <2>4, <2>5, <2>6
<1>3. CASE DecodeLine
  <2>1. ~used /\ used' = TRUE /\ line' = line /\ Top.op = "decode" /\ ~atBoundary(Top.b)
    BY <1>3 DEF DecodeLine, Consume
  <2>2. line.kind \in {"data", "begin", "end"}
    BY <1>0, <2>1, Turn
  <2>3. CASE Top.b = Nil /\ line.kind = "begin" /\ beginUU(Nil)
    <3>1. beginUU(Top.b)
      BY <2>3
    <3>2. Top.op = "multi" \/ (Top.op = "decode" /\ Top.b = Nil)
      BY <2>1, <2>3
    <3>3. QED
      BY <1>0, <2>1, <2>3, <3>1, <3>2, BeginAgree
  <2>4. CASE WriteLine
    BY <1>0, <2>1, <2>2, <2>4, WriteAgree
  <2>5. QED
    BY <1>3, <2>3, <2>4 DEF DecodeLine
<1>4. CASE DecodeEnd
  <2>1. ~used /\ used' = used /\ line' = line /\ stack' = Callers /\ Top.op = "decode"
        /\ line.kind \in {"delim", "close"}
    BY <1>0, <1>4 DEF DecodeEnd, LeaveLine, atBoundary
  <2>2. QED
    BY <1>0, <2>1, LeaveAgree
<1>5. CASE UULine
  <2>1. ~used /\ used' = TRUE /\ line' = line /\ Top.op = "uu" /\ ~atBoundary(Top.b) /\ line.kind # "end"
    BY <1>5 DEF UULine, Consume
  <2>2. line.kind \in {"data", "begin"}
    BY <1>0, <2>1, Turn
  <2>3. line.kind = "data" /\ line.coded
    BY <1>0, <2>1, <2>2, UUTurn
  <2>4. WriteLine
    BY <1>5, <2>3 DEF UULine
  <2>5. QED
    BY <1>0, <2>1, <2>3, <2>4, WriteAgree
<1>6. CASE UUEnd
  <2>1. ~used /\ line' = line /\ stack' = Callers /\ Top.op = "uu" /\ failed' = failed
        /\ \/ used' = used /\ line.kind \in {"delim", "close"}
           \/ used' = TRUE /\ line.kind = "end"
    BY <1>0, <1>6 DEF UUEnd, Consume, atBoundary
  <2>2. QED
    BY <1>0, <2>1, LeaveAgree, PopAgree
<1>7. QED
  BY <1>0, <1>1, <1>2, <1>3, <1>4, <1>5, <1>6 DEF Parse, MultipartEnd

(***************************************************************************)
(* The files                                                               *)
(***************************************************************************)

LEMMA CallsTop ==
    ASSUME stack \in Seq(Call), stack # << >>, NEW n, NEW f, CallsOK(stack, n, f)
    PROVE  CallOK(Top, n, f) /\ CallsOK(Callers, n, f)
<1>1. Len(stack) \in Nat /\ 1 \in 1..Len(stack) /\ Top = stack[1]
  BY DEF Top
<1>2. \A i \in 1..Len(Callers) : i + 1 \in 1..Len(stack) /\ Callers[i] = stack[i + 1]
  BY DEF Callers
<1>3. QED
  BY <1>1, <1>2 DEF CallsOK

\* More files in the tree, more failures.
LEMMA CallGrows ==
    ASSUME NEW c, NEW n, NEW f, NEW m, NEW g, n \subseteq m, f \subseteq g, CallOK(c, n, f)
    PROVE  CallOK(c, m, g)
  BY DEF CallOK

LEMMA CallsGrow ==
    ASSUME NEW s, NEW n, NEW f, NEW m, NEW g, n \subseteq m, f \subseteq g, CallsOK(s, n, f)
    PROVE  CallsOK(s, m, g)
  BY CallGrows DEF CallsOK

LEMMA CallsPush ==
    ASSUME NEW c \in Call, NEW s \in Seq(Call), NEW n, NEW f, CallOK(c, n, f), CallsOK(s, n, f)
    PROVE  CallsOK(<<c>> \o s, n, f)
<1>. DEFINE t == <<c>> \o s
<1>1. /\ t[1] = c
      /\ \A i \in 1..Len(t) : i = 1 \/ (i - 1 \in 1..Len(s) /\ t[i] = s[i - 1])
  OBVIOUS
<1>. HIDE DEF t
<1>2. CallsOK(t, n, f)
  BY <1>1 DEF CallsOK
<1>3. QED
  BY <1>2 DEF t

\* A call that has just been made.
LEMMA FreshCall ==
    ASSUME NEW op, NEW b, NEW kind, NEW file, NEW n, NEW f,
           op = "uu" \/ (op = "decode" /\ kind # "tnef") => file \in n
    PROVE  CallOK(Calls(op, b, kind, file), n, f)
<1>1. 1 \in Parts
  BY DEF Parts
<1>2. QED
  BY <1>1 DEF Calls, CallOK

\* A line that matters is read by the call that the part needs.
LEMMA MattersTop ==
    ASSUME TypeOK, WriterOK, AgreeOK, ~used, stack # << >>, line.matters, failed = {}
    PROVE  /\ Top.op \in {"decode", "uu"}
           /\ Top.op = "decode" => Top.kind # "tnef"
           /\ Top.op = "uu" => line.coded
<1>1. sound /\ line.kind = "data" /\ ~ended
      /\ (part.kind = "leaf" \/ (part.kind = "uu" /\ where = "uu"))
  BY DEF WriterOK
<1>2. Agree
  BY <1>1 DEF AgreeOK
<1>3. /\ Len(open) \in Nat /\ Len(stack) \in Nat
      /\ Depth = Len(open)
      /\ Len(stack) \in {Len(open), Len(open) + 1, Len(open) + 2}
      /\ Owns
      /\ Top = At(stack, Len(stack))
      /\ Len(stack) > Len(open) => Top.op \in {"decode", "uu"} /\ Top.b = Outer
      /\ Top.op = "decode" => Len(stack) = Len(open) + 1
  BY <1>1, <1>2, AgreeContent
<1>4. Top.op = "uu" => line.coded
  BY <1>1, <1>2, UUTurn
<1>5. CASE part.kind = "leaf"
  <2>1. /\ Len(stack) > Depth
        /\ At(stack, Depth + 1).op = "decode"
        /\ At(stack, Depth + 1).kind = "leaf"
    BY <1>3, <1>5 DEF Owns
  <2>2. Top.op = "decode" => Top.kind = "leaf"
    BY <1>3, <2>1
  <2>3. QED
    BY <1>3, <1>4, <2>1, <2>2
<1>6. CASE part.kind = "uu" /\ where = "uu"
  <2>1. Top.op = "uu"
    BY <1>1, <1>3, <1>6 DEF Owns, Coded
  <2>2. QED
    BY <1>4, <2>1
<1>7. QED
  BY <1>1, <1>5, <1>6

\* What a call writes belongs to its part.
LEMMA WritesOwn ==
    ASSUME TypeOK, WriterOK, AgreeOK, ~used, stack # << >>, Top.op \in {"decode", "uu"},
           \E p \in Parts : Top.of \subseteq {0, p}
    PROVE  \E p \in Parts : Top.of \cup {line.of} \subseteq {0, p}
<1>1. CASE line.of = 0
  BY <1>1
<1>2. CASE line.of # 0
  <2>1. sound /\ line.of = part.id /\ line.kind \in {"data", "begin", "end"} /\ ~ended
    BY <1>2 DEF WriterOK
  <2>2. Agree
    BY <2>1 DEF AgreeOK
  <2>3. /\ Len(open) \in Nat /\ Len(stack) \in Nat
        /\ Depth = Len(open)
        /\ Len(stack) \in {Len(open), Len(open) + 1, Len(open) + 2}
        /\ Owns
        /\ Top = At(stack, Len(stack))
        /\ Len(stack) = Len(open) => Top.op = "multi" /\ Top.b = Outer
    BY <2>1, <2>2, AgreeContent
  <2>4. Len(stack) \in (Depth + 1)..Len(stack)
    BY <2>3
  <2>5. Top.of \subseteq {0, part.id}
    BY <2>3, <2>4 DEF Owns
  <2>6. part.id \in Parts
    BY DEF TypeOK, Part
  <2>7. QED
    BY <2>1, <2>5, <2>6
<1>3. QED
  BY <1>1, <1>2

\* A step of the parser keeps what is known of its calls, and of what is missed.
Careful ==
    /\ CallsOK(stack', named', failed')
    /\ named \subseteq named'
    /\ failed' = {} => failed = {} /\ ~missed' /\ holds' \subseteq named'

LEMMA WriteCareful ==
    ASSUME Ready, WInv, ~used, Top.op \in {"decode", "uu"}, WriteLine
    PROVE  Careful
<1>0. /\ TypeOK /\ stack # << >> /\ stack \in Seq(Call) /\ Callers \in Seq(Call)
      /\ WriterOK /\ AgreeOK /\ CallsOK(stack, named, failed) /\ KeptOK
  BY ReadyTop DEF Ready, Safe, WInv
<1>1. PICK c \in Call : WritesAs(c)
  BY WriteFacts
<1>2. CallOK(Top, named, failed) /\ CallsOK(Callers, named, failed)
  BY <1>0, CallsTop
<1>3. named \subseteq named' /\ failed \subseteq failed' /\ stack' = <<c>> \o Callers
  BY <1>1 DEF WritesAs
<1>4. \E p \in Parts : Top.of \cup {line.of} \subseteq {0, p}
  BY <1>0, <1>2, WritesOwn DEF CallOK
<1>5. CallOK(c, named', failed')
  <2>1. \E p \in Parts : c.of \subseteq {0, p}
    BY <1>1, <1>4 DEF WritesAs
  <2>2. c.op = "uu" \/ (c.op = "decode" /\ c.kind # "tnef") => c.file \in named'
    BY <1>1, <1>2, <1>3 DEF WritesAs, CallOK
  <2>3. failed' = {} => ~c.err
    BY <1>1, <1>2, <1>3 DEF WritesAs, CallOK
  <2>4. QED
    BY <2>1, <2>2, <2>3 DEF CallOK
<1>6. CallsOK(stack', named', failed')
  <2>1. CallsOK(Callers, named', failed')
    BY <1>2, <1>3, CallsGrow
  <2>2. QED
    BY <1>0, <1>3, <1>5, <2>1, CallsPush
<1>7. ASSUME failed' = {}
      PROVE  failed = {} /\ ~missed' /\ holds' \subseteq named'
  <2>1. failed = {} /\ ~Top.err
    BY <1>2, <1>3, <1>7 DEF CallOK
  <2>2. ~missed /\ holds \subseteq named
    BY <1>0, <2>1 DEF KeptOK
  <2>3. missed' = missed /\ holds' = IF line.matters THEN holds \cup {c.file} ELSE holds
    BY <1>1, <1>7, <2>1 DEF WritesAs
  <2>4. line.matters => c.file \in named'
    <3>. SUFFICES ASSUME line.matters PROVE c.file \in named'
      OBVIOUS
    <3>1. Top.op = "decode" => Top.kind # "tnef"
      BY <1>0, <2>1, MattersTop
    <3>2. c.op = Top.op /\ c.kind = Top.kind
      BY <1>1 DEF WritesAs
    <3>3. QED
      BY <1>5, <3>1, <3>2 DEF CallOK
  <2>5. QED
    BY <1>3, <2>1, <2>2, <2>3, <2>4
<1>8. QED
  BY <1>3, <1>6, <1>7 DEF Careful

\* A step that writes nothing: the line must be one that does not matter.
LEMMA QuietCareful ==
    ASSUME WInv, CallsOK(stack', named', failed'), named \subseteq named', failed \subseteq failed',
           holds' = holds,
           missed' = missed \/ (Skip /\ (failed = {} => ~line.matters))
    PROVE  Careful
<1>. SUFFICES ASSUME failed' = {} PROVE failed = {} /\ ~missed' /\ holds' \subseteq named'
  BY DEF Careful
<1>1. failed = {}
  OBVIOUS
<1>2. ~missed /\ holds \subseteq named
  BY <1>1 DEF WInv, KeptOK
<1>3. ~missed'
  BY <1>1, <1>2 DEF Skip
<1>4. QED
  BY <1>1, <1>2, <1>3

\* Who is neither a decoder nor parseUU never meets a line that matters.
LEMMA NotForUs ==
    ASSUME Ready, WInv, ~used, Top.op \in {"headers", "discard", "multi"}
    PROVE  failed = {} => ~line.matters
  BY MattersTop DEF Ready, WInv

\* A call is made, with a file in the tree or without one.
LEMMA PushCareful ==
    ASSUME NEW op \in {"headers", "discard", "multi", "decode", "uu"},
           NEW b \in Boundaries \cup {Nil}, NEW kind \in Kinds, NEW file \in Files \cup {0},
           NEW s \in Seq(Call), CallsOK(s, named, failed), named \subseteq named', failed \subseteq failed',
           op = "uu" \/ (op = "decode" /\ kind # "tnef") => file \in named',
           stack' = <<Calls(op, b, kind, file)>> \o s
    PROVE  CallsOK(stack', named', failed')
<1>. DEFINE c == Calls(op, b, kind, file)
<1>1. c \in Call
  BY CallsType
<1>2. CallOK(c, named', failed')
  BY FreshCall
<1>3. CallsOK(s, named', failed')
  BY CallsGrow
<1>. HIDE DEF c
<1>4. CallsOK(<<c>> \o s, named', failed')
  BY <1>1, <1>2, <1>3, CallsPush
<1>5. QED
  BY <1>4 DEF c

LEMMA BodyCareful ==
    ASSUME Ready, WInv, Top.op = "headers", bodyParse(Top.kind, Callers), missed' = missed, holds' = holds
    PROVE  Careful
<1>0. /\ stack # << >> /\ stack \in Seq(Call) /\ Callers \in Seq(Call) /\ Top \in Call
      /\ CallsOK(stack, named, failed)
  BY ReadyTop DEF Ready, Safe, WInv
<1>1. CallsOK(Callers, named, failed)
  BY <1>0, CallsTop
<1>2. Top.kind \in Kinds /\ "leaf" \in Kinds /\ 0 \in Files \cup {0}
  BY <1>0 DEF Call, Kinds
<1>3. named \subseteq named' /\ failed \subseteq failed'
  BY DEF bodyParse, Fault
<1>4. CallsOK(stack', named', failed')
  <2>1. CASE stack' = Callers
    BY <1>1, <1>3, <2>1, CallsGrow
  <2>2. CASE Top.kind \in Boundaries /\ stack' = <<Calls("multi", Top.kind, "leaf", 0)>> \o Callers
    <3>1. Top.kind \in Boundaries \cup {Nil}
      BY <2>2
    <3>2. QED
      BY <1>0, <1>1, <1>2, <1>3, <2>2, <3>1, PushCareful
  <2>3. ASSUME NEW f \in Files, named' = IF Top.kind = "tnef" THEN named ELSE named \cup {f},
               stack' = <<Calls("decode", parentBoundary(Callers), Top.kind, f)>> \o Callers
        PROVE  CallsOK(stack', named', failed')
    <3>1. parentBoundary(Callers) \in Boundaries \cup {Nil}
      BY <1>0, ParentType
    <3>2. f \in Files \cup {0} /\ (Top.kind # "tnef" => f \in named')
      BY <2>3
    <3>3. QED
      BY <1>0, <1>1, <1>2, <1>3, <2>3, <3>1, <3>2, PushCareful
  <2>4. QED
    BY <2>1, <2>2, <2>3 DEF bodyParse
<1>5. QED
  BY <1>3, <1>4, QuietCareful

LEMMA UUCareful ==
    ASSUME Ready, WInv, NEW b \in Boundaries \cup {Nil}, beginUU(b), holds' = holds,
           missed' = missed \/ (Skip /\ (failed = {} => ~line.matters))
    PROVE  Careful
<1>0. stack \in Seq(Call) /\ CallsOK(stack, named, failed) /\ "leaf" \in Kinds
  BY DEF Ready, Safe, WInv, Kinds
<1>1. named \subseteq named' /\ failed \subseteq failed'
  BY DEF beginUU, Fault
<1>2. CallsOK(stack', named', failed')
  <2>1. CASE stack' = stack
    BY <1>0, <1>1, <2>1, CallsGrow
  <2>2. ASSUME NEW f \in Files, named' = named \cup {f},
               stack' = <<Calls("uu", b, "leaf", f)>> \o stack
        PROVE  CallsOK(stack', named', failed')
    <3>1. f \in Files \cup {0} /\ f \in named'
      BY <2>2
    <3>2. QED
      BY <1>0, <1>1, <2>2, <3>1, PushCareful
  <2>3. QED
    BY <2>1, <2>2 DEF beginUU
<1>3. QED
  BY <1>1, <1>2, QuietCareful

LEMMA HeaderCareful ==
    ASSUME Ready, WInv, HeaderParse
    PROVE  Careful
<1>0. /\ stack # << >> /\ stack \in Seq(Call) /\ Callers \in Seq(Call) /\ Top \in Call
      /\ CallsOK(stack, named, failed) /\ TypeOK
  BY ReadyTop DEF Ready, Safe, WInv
<1>1. CallOK(Top, named, failed) /\ CallsOK(Callers, named, failed)
  BY <1>0, CallsTop
<1>2. Top.op \in {"headers", "discard"} /\ holds' = holds
  BY DEF HeaderParse
<1>3. CASE /\ ~used /\ line.kind # "blank" /\ Skip
           /\ stack' = IF line.kind = "head" /\ Top.kind = "leaf"
                       THEN <<[Top EXCEPT !.kind = line.arg]>> \o Callers ELSE stack
           /\ UNCHANGED <<named, disk, failed>>
  <2>1. failed = {} => ~line.matters
    BY <1>2, <1>3, NotForUs
  <2>2. CASE stack' = stack
    BY <1>0, <1>2, <1>3, <2>1, <2>2, QuietCareful
  <2>3. CASE line.kind = "head" /\ stack' = <<[Top EXCEPT !.kind = line.arg]>> \o Callers
    <3>. DEFINE c == [Top EXCEPT !.kind = line.arg]
    <3>1. line.arg \in Kinds
      BY <1>0, <2>3 DEF TypeOK
    <3>2. c \in Call /\ c.op = Top.op /\ c.of = Top.of /\ c.err = Top.err
      BY <1>0, <3>1 DEF Call
    <3>. HIDE DEF c
    <3>3. stack' = <<c>> \o Callers
      BY <2>3 DEF c
    <3>4. CallOK(c, named, failed)
      BY <1>1, <1>2, <3>2 DEF CallOK
    <3>5. CallsOK(stack', named, failed)
      BY <1>0, <1>1, <3>2, <3>3, <3>4, CallsPush
    <3>6. named' = named /\ failed' = failed /\ CallsOK(stack', named', failed')
      BY <1>3, <3>5
    <3>7. QED
      BY <1>2, <1>3, <2>1, <3>6, QuietCareful
  <2>4. QED
    BY <1>3, <2>2, <2>3
<1>4. CASE Top.op = "headers" /\ bodyParse(Top.kind, Callers) /\ missed' = missed
  BY <1>2, <1>4, BodyCareful
<1>5. CASE Top.op = "discard" /\ stack' = Tail(Callers) /\ UNCHANGED <<named, disk, failed, missed>>
  <2>1. Callers # << >>
    BY <1>5 DEF Ready, Safe, Shape, Top, Callers
  <2>2. \A i \in 1..Len(Tail(Callers)) : i + 1 \in 1..Len(Callers) /\ Tail(Callers)[i] = Callers[i + 1]
    BY <1>0, <2>1
  <2>3. CallsOK(stack', named', failed')
    BY <1>1, <1>5, <2>2 DEF CallsOK
  <2>4. QED
    BY <1>2, <1>5, <2>3, QuietCareful
<1>6. QED
  BY <1>3, <1>4, <1>5 DEF HeaderParse

LEMMA MultipartLineCareful ==
    ASSUME Ready, WInv, MultipartLine
    PROVE  Careful
<1>0. /\ stack # << >> /\ stack \in Seq(Call) /\ Callers \in Seq(Call) /\ Top \in Call
      /\ CallsOK(stack, named, failed)
      /\ Top.op = "multi" /\ ~used /\ Skip /\ holds' = holds
  BY ReadyTop DEF Ready, Safe, WInv, MultipartLine
<1>1. CallsOK(Callers, named, failed)
  BY <1>0, CallsTop
<1>2. failed = {} => ~line.matters
  BY <1>0, NotForUs
<1>3. CASE stack' = Callers /\ UNCHANGED <<named, disk, failed>>
  BY <1>0, <1>1, <1>2, <1>3, QuietCareful
<1>4. ASSUME NEW op \in {"headers", "discard"}, UNCHANGED <<named, disk, failed>>,
             stack' = <<Calls(op, Nil, "leaf", 0)>> \o stack
      PROVE  Careful
  <2>1. /\ "leaf" \in Kinds /\ 0 \in Files \cup {0} /\ Nil \in Boundaries \cup {Nil}
        /\ op \in {"headers", "discard", "multi", "decode", "uu"}
    BY DEF Kinds
  <2>2. CallsOK(stack', named', failed')
    BY <1>0, <1>4, <2>1, PushCareful
  <2>3. QED
    BY <1>0, <1>2, <1>4, <2>2, QuietCareful
<1>5. CASE beginUU(Top.b)
  <2>1. Top.b \in Boundaries \cup {Nil}
    BY <1>0 DEF Call
  <2>2. QED
    BY <1>0, <1>2, <1>5, <2>1, UUCareful
<1>6. CASE UNCHANGED <<stack, named, disk, failed>>
  BY <1>0, <1>2, <1>6, QuietCareful
<1>7. QED
  BY <1>3, <1>4, <1>5, <1>6 DEF MultipartLine

LEMMA DecodeLineCareful ==
    ASSUME Ready, WInv, DecodeLine
    PROVE  Careful
<1>1. CASE beginUU(Nil) /\ UNCHANGED <<holds, missed>>
  BY <1>1, UUCareful
<1>2. CASE WriteLine
  BY <1>2, WriteCareful DEF DecodeLine
<1>3. QED
  BY <1>1, <1>2 DEF DecodeLine

\* A call returns.
LEMMA PopCareful ==
    ASSUME Ready, WInv, stack' = Callers, named \subseteq named', failed \subseteq failed',
           holds' = holds,
           missed' = missed \/ (Skip /\ (failed = {} => ~line.matters))
    PROVE  Careful
<1>0. stack # << >> /\ stack \in Seq(Call) /\ CallsOK(stack, named, failed)
  BY DEF Ready, Safe, WInv
<1>1. CallsOK(Callers, named, failed)
  BY <1>0, CallsTop
<1>2. CallsOK(stack', named', failed')
  BY <1>1, CallsGrow
<1>3. QED
  BY <1>2, QuietCareful

LEMMA DecodeEndCareful ==
    ASSUME Ready, WInv, DecodeEnd
    PROVE  Careful
<1>1. stack' = Callers /\ holds' = holds /\ missed' = missed
  BY DEF DecodeEnd
<1>2. named \subseteq named' /\ failed \subseteq failed'
  BY DEF DecodeEnd, Fault
<1>3. QED
  BY <1>1, <1>2, PopCareful

LEMMA UULineCareful ==
    ASSUME Ready, WInv, UULine
    PROVE  Careful
<1>0. Top.op = "uu" /\ ~used
  BY DEF UULine
<1>1. CASE WriteLine
  BY <1>0, <1>1, WriteCareful
<1>2. CASE /\ ~line.coded /\ stack' = Callers /\ Skip
           /\ \/ UNCHANGED <<named, disk>>
              \/ \E f \in Files : Split(f)
           /\ UNCHANGED <<holds, failed>>
  <2>1. failed = {} => ~line.matters
    BY <1>0, <1>2, MattersTop DEF Ready, WInv
  <2>2. named \subseteq named' /\ failed \subseteq failed'
    BY <1>2 DEF Split, Name
  <2>3. QED
    BY <1>2, <2>1, <2>2, PopCareful
<1>3. QED
  BY <1>1, <1>2 DEF UULine

LEMMA ReturnCareful ==
    ASSUME Ready, WInv, UUEnd \/ MultipartEnd
    PROVE  Careful
<1>1. stack' = Callers /\ holds' = holds /\ missed' = missed /\ named' = named /\ failed' = failed
  BY DEF UUEnd, MultipartEnd
<1>2. QED
  BY <1>1, PopCareful

(***************************************************************************)
(* The structure is followed                                               *)
(***************************************************************************)

LEMMA InitWInv == Init => WInv
<1>. SUFFICES ASSUME Init PROVE WInv
  OBVIOUS
<1>1. TypeOK
  BY InitType
<1>. DEFINE c == Calls("headers", Nil, "leaf", 0)
<1>2. /\ stack = <<c>> /\ used = TRUE /\ open = << >> /\ where = "head" /\ part.kind = "leaf"
      /\ ended = FALSE /\ failed = {} /\ missed = FALSE /\ holds = {} /\ pc = "parse" /\ named = {}
  BY DEF Init
<1>3. c \in Call /\ c.op = "headers" /\ c.kind = "leaf"
  BY CallsType DEF Calls, Kinds
<1>4. CallOK(c, named, failed)
  BY FreshCall
<1>. HIDE DEF c
<1>5. Len(stack) = 1 /\ stack[1] = c /\ Top = c /\ Len(open) = 0
  BY <1>2, <1>3 DEF Top
<1>6. CallsOK(stack, named, failed)
  BY <1>4, <1>5 DEF CallsOK
<1>7. WriterOK
  BY <1>2, <1>5 DEF WriterOK
<1>8. Depth = 0
  BY <1>2, <1>5 DEF Depth
<1>9. Agree
  BY <1>2, <1>3, <1>5, <1>8 DEF Agree, Walks, Reads, Content, InHeader, HeadKind
<1>10. QED
  BY <1>2, <1>6, <1>7, <1>9 DEF WInv, AgreeOK, KeptOK

LEMMA NextWInv == IInv /\ WInv /\ [Next]_vars => WInv'
<1>. SUFFICES ASSUME IInv, WInv, [Next]_vars PROVE WInv'
  OBVIOUS
<1>1. TypeOK /\ TempOK /\ WriterOK /\ AgreeOK /\ CallsOK(stack, named, failed) /\ KeptOK
  BY DEF IInv, WInv
<1>2. CASE Send
  <2>1. WriterOK'
    BY <1>1, <1>2, WriterStep
  <2>2. UNCHANGED <<stack, named, disk, pc, posted, holds, missed, failed>> /\ used /\ ~ended /\ stack # << >>
    BY <1>2 DEF Send
  <2>3. AgreeOK'
    <3>. SUFFICES ASSUME sound', ~ended', stack' # << >> PROVE Agree'
      BY DEF AgreeOK
    <3>1. sound
      <4>1. ASSUME NEW k, NEW a, NEW w \in BOOLEAN, Emit(k, a, w) PROVE w
        BY <4>1 DEF Emit
      <4>2. sound \in BOOLEAN
        BY <1>1 DEF TypeOK
      <4>3. CASE SendHead \/ SendBlank \/ SendCode
        BY <4>2, <4>3 DEF SendHead, SendBlank, SendCode, Emit
      <4>6. CASE SendText
        BY <4>6 DEF SendText, Emit
      <4>4. CASE SendDelim \/ SendClose
        BY <4>4 DEF SendDelim, SendClose, Emit
      <4>5. QED
        BY <1>2, <4>3, <4>4, <4>6 DEF Send, SendEOF
    <3>2. Agree
      BY <1>1, <2>2, <3>1 DEF AgreeOK
    <3>3. QED
      BY <1>1, <1>2, <2>2, <3>2, SendAgree
  <2>4. CallsOK(stack', named', failed') /\ KeptOK'
    BY <1>1, <2>2 DEF KeptOK
  <2>5. QED
    BY <2>1, <2>3, <2>4 DEF WInv
<1>3. CASE Parse
  <2>1. pc = "parse" /\ stack # << >> /\ UNCHANGED <<writer, pc, posted>>
    BY <1>3 DEF Parse
  <2>2. Ready
    BY <1>1, <2>1 DEF Ready, TempOK
  <2>3. Careful
    BY <1>3, <2>2, HeaderCareful, MultipartLineCareful, DecodeLineCareful, DecodeEndCareful,
       UULineCareful, ReturnCareful DEF Parse
  <2>4. line' = line /\ (used => used')
    <3>1. CASE HeaderParse
      BY <3>1 DEF HeaderParse, Consume
    <3>2. CASE MultipartLine \/ MultipartEnd
      BY <3>2 DEF MultipartLine, MultipartEnd, Consume, WalkOn
    <3>3. CASE DecodeLine \/ DecodeEnd
      BY <3>3 DEF DecodeLine, DecodeEnd, Consume, LeaveLine
    <3>4. CASE UULine \/ UUEnd
      BY <3>4 DEF UULine, UUEnd, Consume
    <3>5. QED
      BY <1>3, <3>1, <3>2, <3>3, <3>4 DEF Parse
  <2>5. WriterOK'
    <3>1. UNCHANGED <<open, part, where, ended, sound>>
      BY <2>1 DEF writer
    <3>2. QED
      BY <1>1, <2>4, <3>1 DEF WriterOK, LineOK
  <2>6. AgreeOK'
    <3>. SUFFICES ASSUME sound', ~ended', stack' # << >> PROVE Agree'
      BY DEF AgreeOK
    <3>1. sound /\ ~ended
      BY <2>1 DEF writer
    <3>2. Agree
      BY <1>1, <2>1, <3>1 DEF AgreeOK
    <3>3. QED
      BY <1>1, <1>3, <2>2, <3>1, <3>2, ParseAgree
  <2>7. KeptOK'
    BY <2>1, <2>3 DEF KeptOK, Careful
  <2>8. QED
    BY <2>3, <2>5, <2>6, <2>7 DEF WInv, Careful
<1>4. CASE Parsed
  <2>1. UNCHANGED <<writer, line, used, stack, named, holds, missed, failed>> /\ pc' = "post"
    BY <1>4 DEF Parsed
  <2>2. WriterOK' /\ AgreeOK'
    BY <1>1, <1>4, <2>1 DEF WriterOK, LineOK, AgreeOK, writer, Parsed
  <2>3. QED
    BY <1>1, <2>1, <2>2 DEF WInv, KeptOK
<1>5. ASSUME UNCHANGED <<writer, line, used, named, holds, missed>>,
             stack' = << >>, KeptOK'
      PROVE  WInv'
  <2>1. WriterOK'
    BY <1>1, <1>5 DEF WriterOK, LineOK, writer
  <2>2. AgreeOK'
    BY <1>5 DEF AgreeOK
  <2>3. CallsOK(stack', named', failed')
    BY <1>5 DEF CallsOK
  <2>4. QED
    BY <1>5, <2>1, <2>2, <2>3 DEF WInv
<1>6. CASE Post
  <2>1. stack' = << >> /\ UNCHANGED <<writer, line, used, named, holds, missed>>
    BY <1>1, <1>6 DEF Post, TempOK
  <2>2. KeptOK'
    BY <1>1, <1>6 DEF Post, KeptOK, Fault
  <2>3. QED
    BY <1>5, <2>1, <2>2
<1>7. CASE Panic
  <2>1. stack' = << >> /\ UNCHANGED <<writer, line, used>> /\ failed' # {}
    BY <1>7 DEF Panic, Fault
  <2>2. WriterOK'
    BY <1>1, <2>1 DEF WriterOK, LineOK, writer
  <2>3. AgreeOK' /\ KeptOK' /\ CallsOK(stack', named', failed')
    BY <2>1 DEF AgreeOK, KeptOK, CallsOK
  <2>4. QED
    BY <2>2, <2>3 DEF WInv
<1>8. CASE Cleanup
  <2>1. stack' = << >> /\ UNCHANGED <<writer, line, used, named, holds, missed, failed, posted>> /\ pc' = "done"
        /\ pc = "clean"
    BY <1>1, <1>8 DEF Cleanup, TempOK
  <2>2. KeptOK'
    BY <1>1, <2>1 DEF KeptOK
  <2>3. QED
    BY <1>5, <2>1, <2>2
<1>9. CASE UNCHANGED vars
  BY <1>1, <1>9 DEF vars, writer, WInv, WriterOK, LineOK, AgreeOK, Agree, Walks, Reads, Content, InHeader,
     InBody, Owns, Depth, Bound, Outer, HeadKind, Coded, Top, KeptOK
<1>10. QED
  BY <1>2, <1>3, <1>4, <1>6, <1>7, <1>8, <1>9 DEF Next

LEMMA StructureKept == Spec => []WInv
<1>1. Init => WInv
  BY InitWInv
<1>2. IInv /\ WInv /\ [Next]_vars => WInv'
  BY NextWInv
<1>3. QED
  BY <1>1, <1>2, Inductive, PTL DEF Spec

\* What is written to the files of one part comes from one part of the message,
\* however deep the parts are nested, whatever boundary is a prefix of another,
\* and even after the structure has become unsound.
THEOREM OwnPartTheorem == Spec => []OwnPart
<1>1. IInv /\ WInv => OwnPart
  <2>. SUFFICES ASSUME WInv, TypeOK, NEW i \in DOMAIN stack
                PROVE  Cardinality(stack[i].of \ {0}) <= 1
    BY DEF IInv, OwnPart
  <2>1. i \in 1..Len(stack)
    BY DEF TypeOK
  <2>2. PICK p \in Parts : stack[i].of \subseteq {0, p}
    BY <2>1 DEF WInv, CallsOK, CallOK
  <2>. DEFINE S == stack[i].of \ {0}
  <2>3. S = {} \/ S = {p}
    BY <2>2
  <2>. HIDE DEF S
  <2>4. Cardinality(S) = 0 \/ Cardinality(S) = 1
    BY <2>3, FS_EmptySet, FS_Singleton
  <2>5. Cardinality(S) <= 1
    BY <2>4
  <2>6. QED
    BY <2>5 DEF S
<1>2. QED
  BY <1>1, Inductive, StructureKept, PTL

\* Unless something failed, every line that matters is in a file that is posted:
\* each line is read by the call it is meant for, and what came before a defect of
\* the structure is not damaged by it.
THEOREM WholeTheorem == Spec => []Whole
<1>1. WInv => Whole
  BY DEF WInv, KeptOK, Whole
<1>2. QED
  BY <1>1, StructureKept, PTL
=============================================================================
