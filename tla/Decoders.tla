------------------------------ MODULE Decoders ------------------------------
(***************************************************************************)
(* The decoders of internal/mimeparse, the line ends of saveInput and the  *)
(* children of an XML node.  A byte is its number.  Of most loops this is   *)
(* one turn, as a function of what its variables hold; module Codecs takes *)
(* the turns.  That of subjects is a function on the positions.            *)
(***************************************************************************)
EXTENDS Integers, Sequences, FiniteSets, SequencesExt

Octet == 0..255

CR == 13
LF == 10
Space == 32
EqualSign == 61
QuestionMark == 63
Underscore == 95
Tab == 9

\* The byte a position of a line holds; 0 behind its end.
byteAt(line, i) == IF i \in 1..Len(line) THEN line[i] ELSE 0

From(s, i) == SubSeq(s, i, Len(s))

(***************************************************************************)
(* Base64                                                                  *)
(***************************************************************************)

\* The sextet of a base64 character, or -1 (A-Z, a-z, 0-9, +, /).
b64d(c) ==
    CASE c \in 65..90 -> c - 65
      [] c \in 97..122 -> c - 71
      [] c \in 48..57 -> c + 4
      [] c = 43 -> 62
      [] c = 47 -> 63
      [] OTHER -> -1

\* quad counts the sextets, cur is the byte that is not complete; ends is whether
\* the line has come to its '='.
B64Start == [quad |-> 0, cur |-> 0, ends |-> FALSE, out |-> << >>]

Put6(st, v) ==
    LET next == (st.quad + 1) % 4 IN
    CASE st.quad = 0 -> [st EXCEPT !.quad = next, !.cur = v * 4]
      [] st.quad = 1 -> [st EXCEPT !.quad = next, !.cur = (v % 16) * 16,
                                   !.out = Append(st.out, st.cur + v \div 16)]
      [] st.quad = 2 -> [st EXCEPT !.quad = next, !.cur = (v % 4) * 64,
                                   !.out = Append(st.out, st.cur + v \div 4)]
      [] st.quad = 3 -> [st EXCEPT !.quad = next,
                                   !.out = Append(st.out, st.cur + v)]

\* What is not base64 is skipped; in a body, '=' ends the line.
feed(st, c, stopAtEq) ==
    IF st.ends THEN st
    ELSE IF c = EqualSign THEN [st EXCEPT !.ends = stopAtEq]
    ELSE IF b64d(c) < 0 THEN st
    ELSE Put6(st, b64d(c))

b64DecodeString(src) == FoldLeft(LAMBDA st, c : feed(st, c, FALSE), B64Start, src).out

\* Mutant: every line begins a new quantum.
FreshQuantum(st) == [st EXCEPT !.ends = FALSE, !.quad = 0]

\* The next line of a base64 body: the state goes from line to line.
decodeB64Line(st) == [st EXCEPT !.ends = FALSE]

(***************************************************************************)
(* Quoted-printable and RFC 2047 subjects                                  *)
(***************************************************************************)

\* The value of a hexadecimal digit, or -1.  The table has a 0 at its end.
hcTab(c) ==
    CASE c \in 48..57 -> c - 48
      [] c \in 65..70 -> c - 55
      [] c \in 97..102 -> c - 87
      [] c = 255 -> 0
      [] OTHER -> -1

Escape(a, b) == (16 * hcTab(a) + hcTab(b)) % 256

\* Mutant: an escape at the very end of a line is one byte too long.
EscapeFitsShort(line, i) == i + 2 < Len(line)

\* Whether both digits of an escape at i are on the line.
EscapeFits(line, i) == i + 2 <= Len(line)

\* The turn at i: what it writes, and where the next one is.
qpDecodeLine(line, i) ==
    IF line[i] # EqualSign THEN [out |-> <<line[i]>>, next |-> i + 1]
    ELSE IF byteAt(line, i + 1) = CR /\ byteAt(line, i + 2) = LF
         THEN [out |-> << >>, next |-> i + 3]
    ELSE IF ~EscapeFits(line, i) \/ hcTab(line[i + 1]) = -1
         THEN [out |-> <<EqualSign>>, next |-> i + 1]
    ELSE [out |-> <<Escape(line[i + 1], line[i + 2])>>, next |-> i + 3]

isAlnum(c) == c \in 48..57 \/ c \in 65..90 \/ c \in 97..122

\* strtol: up to two digits, 0 if there is none.
strtolHex2(a, b) ==
    IF hcTab(a) = -1 THEN 0 ELSE IF hcTab(b) = -1 THEN hcTab(a) ELSE Escape(a, b)

AtWordEnd(s, i) == byteAt(s, i) = QuestionMark /\ byteAt(s, i + 1) = EqualSign
AtWord(s, i) == byteAt(s, i) = EqualSign /\ byteAt(s, i + 1) = QuestionMark

\* The first of some positions, 0 if there is none.
First(at) == IF at = {} THEN 0 ELSE CHOOSE j \in at : \A k \in at : j <= k

indexByteFrom(s, from, c) == First({j \in from..Len(s) : s[j] = c})
WordEnd(s, i) == First({j \in i..Len(s) : AtWordEnd(s, j)})

\* The text of a Q word from i on: <<its bytes, where it ends>>.
qWord(s, i) ==
    LET n == Len(s)
        d[j \in i..n + 3] ==
          CASE j >= n \/ AtWordEnd(s, j) -> <<<< >>, j>>
            [] s[j] = Underscore -> <<<<Space>> \o d[j + 1][1], d[j + 1][2]>>
            [] s[j] = EqualSign /\ isAlnum(s[j + 1]) ->
                 IF j + 2 <= n
                 THEN <<<<strtolHex2(s[j + 1], s[j + 2])>> \o d[j + 3][1],
                        d[j + 3][2]>>
                 ELSE d[j + 1]
            [] s[j] = Tab -> d[j + 1]
            [] OTHER -> <<<<s[j]>> \o d[j + 1][1], d[j + 1][2]>>
    IN  d[i]

\* The text of a B word from i on.
bWord(s, i) ==
    LET end == IF WordEnd(s, i) = 0 THEN Len(s) + 1 ELSE WordEnd(s, i)
    IN  <<b64DecodeString(SubSeq(s, i, end - 1)), end>>

\* Mutant: the words before are in the buffer still.
Kept(before, text) == before \o text

\* What the buffer of encoded bytes holds after a word: it is emptied first.
Buffer(before, text) == text

\* The loop at position i with the buffer buf.  A word whose charset does not
\* end, or that is neither Q nor B, is dropped up to there, and so is one that
\* runs into the end of the subject.
ParseSubject(s) ==
    LET n == Len(s)
        Rest(word, buf, d) ==
            LET b == Buffer(buf, word[1])
                next == IF AtWordEnd(s, word[2]) THEN word[2] + 2 ELSE word[2]
            IN  IF word[2] > n THEN << >> ELSE b \o d[next, b]
        d[i \in 1..n + 4, buf \in Seq(0..255)] ==
          CASE i > n -> << >>
            [] AtWord(s, i) /\ WordEnd(s, i) # 0 ->
                 LET q == indexByteFrom(s, i + 2, QuestionMark)
                     kind == byteAt(s, q + 1)
                 IN  CASE q = 0 -> d[i + 2, buf]
                       [] q + 3 > n -> << >>
                       [] kind \in {81, 113} -> Rest(qWord(s, q + 3), buf, d)
                       [] kind \in {66, 98} -> Rest(bWord(s, q + 3), buf, d)
                       [] OTHER -> d[q + 3, buf]
            [] s[i] \in {Tab, LF, CR} -> d[i + 1, buf]
            [] OTHER -> <<s[i]>> \o d[i + 1, buf]
    IN  d[1, << >>]

(***************************************************************************)
(* uuencode                                                                *)
(***************************************************************************)

dec(c) == (c - Space) % 64

isDec(c) == c \in Space..96

\* Mutant: a rest of two bytes is read as a full group.
FullGroupShort(n) == n >= 2

\* Whether n bytes to come fill a group of four characters.
FullGroup(n) == n >= 3

\* The bytes of the group at i of which n are left.
Group(line, i, n) ==
    LET a == byteAt(line, i)
        b == byteAt(line, i + 1)
        c == byteAt(line, i + 2)
        e == byteAt(line, i + 3)
        one == ((dec(a) * 4) % 256) + dec(b) \div 16
        two == ((dec(b) * 16) % 256) + dec(c) \div 4
        three == ((dec(c) * 64) % 256) + dec(e)
    IN  IF FullGroup(n)
        THEN [out |-> IF \E x \in {a, b, c, e} : isDec(x)
                      THEN <<one, two, three>> ELSE << >>,
              stop |-> \A x \in {a, b, c, e} : ~isDec(x)]
        ELSE [out |-> IF ~(isDec(a) /\ isDec(b)) THEN << >>
                      ELSE IF n = 1 \/ ~isDec(c) THEN <<one>> ELSE <<one, two>>,
              stop |-> ~(isDec(a) /\ isDec(b)) \/ (n = 2 /\ ~isDec(c))]

\* The turn behind k groups, if n, the length that begins the line, is not used
\* up: what it writes, and whether the loop stops there.
uuDecodeLine(line, k) == Group(line, 4 * k + 2, dec(byteAt(line, 1)) - 3 * k)

(***************************************************************************)
(* winmail.dat: attributes behind a magic number and a key                 *)
(***************************************************************************)

int32le(data, i) ==
    byteAt(data, i) + 256 * (byteAt(data, i + 1)
        + 256 * (byteAt(data, i + 2) + 256 * byteAt(data, i + 3)))

tnefMagic == 574529400
FileData == 32783
FileName == 32784
BeginAttachment == 36866

\* Mutant: the checksum is read as the next attribute.
WithoutChecksum(pos, length) == pos + 9 + length

\* Behind the attribute at pos: type, name, length, contents, checksum.
NextAttribute(pos, length) == pos + 9 + length + 2

\* The n bytes at pos, as far as they are there.
readBytes(data, pos, n) ==
    SubSeq(data, pos, IF pos + n <= Len(data) THEN pos + n - 1 ELSE Len(data))

\* Whether an attribute is at pos, with its type, its name and its length.
Readable(data, pos) == pos + 8 <= Len(data) /\ data[pos] \in {1, 2}

\* The upper half of a name says what its contents are.
LowerHalf(v) == v % 65536

AttributeAt(data, pos) ==
    LET length == int32le(data, pos + 5) IN
    [type |-> data[pos], name |-> LowerHalf(int32le(data, pos + 1)),
     bytes |-> readBytes(data, pos + 9, length), next |-> NextAttribute(pos, length)]

NoFile == [names |-> << >>, bytes |-> << >>]

\* The last attachment gets what comes.
Attach(files, a) ==
    LET n == Len(files) IN
    CASE a.type = 1 -> files
      [] a.type # 1 /\ a.name = BeginAttachment -> Append(files, NoFile)
      [] a.type # 1 /\ a.name = FileData /\ n > 0 ->
           [files EXCEPT ![n].bytes = @ \o a.bytes]
      [] a.type # 1 /\ a.name = FileName /\ n > 0 ->
           [files EXCEPT ![n].names = Append(@, SubSeq(a.bytes, 1, Len(a.bytes) - 1))]
      [] OTHER -> files

WinmailStart == [files |-> << >>, ends |-> FALSE]

\* The turn at pos.
parseTNEF(st, data, pos) ==
    IF Readable(data, pos) THEN [st EXCEPT !.files = Attach(st.files, AttributeAt(data, pos))]
                           ELSE [st EXCEPT !.ends = TRUE]

(***************************************************************************)
(* saveInput: line ends                                                    *)
(***************************************************************************)

\* Mutant: the byte before is forgotten.
NeverAfterCR(data, i) == FALSE

AfterCR(data, i) == byteAt(data, i - 1) = CR

\* What is written for byte i.
unixToDOS(data, i) ==
    IF data[i] = LF /\ ~AfterCR(data, i) THEN <<CR, LF>> ELSE <<data[i]>>

(***************************************************************************)
(* parse822: header lines.  A line is a header with its name and value, a  *)
(* folded line with more of a value, a folded line that is blank, of which *)
(* a value takes a space that is left out, a line without a colon, or the  *)
(* empty line.  A value is a sequence of parts.                            *)
(***************************************************************************)

HeaderStart == [nodes |-> << >>, last |-> 0, ends |-> FALSE]

\* Folded lines after this one go to the <headers> node itself.
Root == -1

\* Mutant: folded lines after a line without a colon go to the header before.
LastHeader(st) == Len(st.nodes)

\* Where folded lines go after a line without a colon.
AfterPlain(st) == Root

parse822(st, line) ==
    CASE line.kind = "header" ->
           [st EXCEPT !.nodes = Append(st.nodes, [name |-> line.name, val |-> <<line.part>>]),
                      !.last = Len(st.nodes) + 1]
      [] line.kind = "plain" -> [st EXCEPT !.last = AfterPlain(st)]
      [] line.kind = "blank" -> [st EXCEPT !.ends = TRUE]
      [] line.kind = "white" -> [st EXCEPT !.ends = TRUE]
      [] line.kind = "fold" ->
           [st EXCEPT !.nodes = IF st.last \in DOMAIN st.nodes
                                THEN [st.nodes EXCEPT ![st.last].val = Append(@, line.part)]
                                ELSE st.nodes,
                      !.ends = st.last = 0]

\* The loop over the lines, which stops where there is no node to go on with.
HeaderParse(st, line) == IF st.ends THEN st ELSE parse822(st, line)

(***************************************************************************)
(* The children of an XML node, and the accounts of a configuration.  A    *)
(* child is an element with its name, a number as names are ordered, and   *)
(* whether it has a host.                                                  *)
(***************************************************************************)

\* Mutant: children of one name in any order, here in the reverse.
beforeUnstable(children, j, k) ==
    \/ children[j].name < children[k].name
    \/ children[j].name = children[k].name /\ j > k

\* Sorted by name; children of one name stay in their order.
before(children, j, k) ==
    \/ children[j].name < children[k].name
    \/ children[j].name = children[k].name /\ j < k

\* Where a child comes.
Rank(children, j) == 1 + Cardinality({k \in DOMAIN children : before(children, k, j)})

\* The children, each as its position, in their order.
sortedChildren(children) ==
    [k \in DOMAIN children |-> CHOOSE j \in DOMAIN children : Rank(children, j) = k]

\* Node.Next: where the cursor goes, and whether it finds a child there.  Only
\* the first call searches (Iterate puts the cursor at 0).
Advance(children, last, match) ==
    LET sorted == sortedChildren(children) IN
    IF last = 0
    THEN First({k \in DOMAIN children : children[sorted[k]].name = match})
    ELSE last + 1

Found(children, k, match) ==
    k \in DOMAIN children /\ children[sortedChildren(children)[k]].name = match
=============================================================================
