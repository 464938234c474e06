------------------------------- MODULE Codecs -------------------------------
(***************************************************************************)
(* The decoders of module Decoders at work, against encoders written from   *)
(* their formats.  An input grows item by item; the loops that need no     *)
(* more than the next item read it as it grows, the others when it is      *)
(* there, one turn after the other.  Subjects are compared in every state  *)
(* with what was put in.  For the kind "key" the cipher of module Cipher   *)
(* takes its steps instead.                                                *)
(***************************************************************************)
EXTENDS Decoders

CONSTANTS
    Bytes,          \* bytes of contents
    MaxBytes,       \* bound: bytes of a content
    Texts,          \* bytes of texts
    MaxText,        \* bound: bytes of a text
    Strays,         \* bytes that are not base64
    MaxWords,       \* bound: pieces of a subject
    MaxRaw,         \* bound: bytes of a piped input
    Names, Parts,   \* names and parts of values of headers
    MaxLines,       \* bound: lines of a header
    Chunks,         \* contents of attributes of a winmail.dat, and names
    Halves,         \* upper halves of the numbers of attributes
    MaxWinmail,     \* bound: bytes before its last attribute
    MaxChildren,    \* bound: elements of a configuration
    Bits, N, F, P   \* word, rounds and tables of the cipher

\* The lengths and the upper halves of numbers that an attribute may have.
Lengths == {n \in Nat : n <= 2147483647}
Upper == {n \in Nat : n <= 32767}

ASSUME CodecAssumption ==
    /\ Bytes \cup Texts \cup Strays \subseteq Octet
    /\ \A c \in Strays : c # EqualSign /\ b64d(c) = -1
    /\ {MaxBytes, MaxText, MaxWords, MaxRaw, MaxLines,
        MaxWinmail, MaxChildren} \subseteq Nat
    /\ MaxBytes < 64       \* a uuencoded line has a length of six bits
    /\ Chunks \subseteq Seq(Octet)
    /\ \A c \in Chunks : Len(c) + 1 \in Lengths
    /\ Halves \subseteq Upper

VARIABLES
    kind,       \* what the input is
    in,         \* the input, or what an encoder makes its text of
    text,       \* a line of quoted-printable text, or a winmail.dat
    at,         \* how far the loop is: characters, groups, bytes, or its cursor
    st,         \* what the other variables of the loop hold
    phase, round, xl, xr, plain, trace  \* the cipher

cipher == <<phase, round, xl, xr, plain, trace>>
vars == <<kind, in, text, at, st, cipher>>

Key == INSTANCE Cipher WITH i <- round

ASSUME KeyAssumption == Key!Tables

(***************************************************************************)
(* Inputs                                                                  *)
(***************************************************************************)

\* Pieces of a subject: text as it is, and words with their contents.
Pieces == [form : {"plain"}, bytes : {<<120>>, <<EqualSign>>}]
          \cup [form : {"Q", "B"}, bytes : {<<120>>, <<QuestionMark, 120>>,
                                            <<Space, 255, 65>>}]

\* Header lines.
Header == [kind : {"header"}, name : Names, part : Parts]
          \cup [kind : {"fold"}, part : Parts]
          \cup [kind : {"white", "plain", "blank"}]

\* A winmail.dat, and one that is cut anywhere.
Winmails == {"tnef", "cut"}

\* An attribute of an attachment that says nothing of its file.
OtherAttribute == 36869

\* <global>, <imap> and <pop3>, as their names are ordered.
Global == 1
Imap == 2
Pop3 == 3
Elements == [name : {Global, Imap, Pop3}, host : BOOLEAN]

Blocks == {"imap", "pop3"}
Match == IF kind = "imap" THEN Imap ELSE Pop3

Items(k) ==
    CASE k \in {"base64", "uu"} -> Bytes
      [] k = "subject" -> Pieces
      [] k \in Blocks -> Elements

Bound(k) ==
    CASE k \in {"base64", "uu"} -> MaxBytes
      [] k = "text" -> MaxText
      [] k = "subject" -> MaxWords
      [] k = "raw" -> MaxRaw
      [] k = "header" -> MaxLines
      [] k \in Blocks -> MaxChildren

(***************************************************************************)
(* Encoders                                                                *)
(***************************************************************************)

\* The group x of six bits of a content, from 0; zeros follow its end.
Sextet(bytes, x) ==
    LET b(k) == byteAt(bytes, 3 * (x \div 4) + k) IN
    CASE x % 4 = 0 -> b(1) \div 4
      [] x % 4 = 1 -> (b(1) % 4) * 16 + b(2) \div 16
      [] x % 4 = 2 -> (b(2) % 16) * 4 + b(3) \div 64
      [] x % 4 = 3 -> b(3) % 64

\* How many of them a content takes.
Sextets(bytes) == (4 * Len(bytes) + 2) \div 3

Base64Char(v) ==
    IF v < 26 THEN v + 65 ELSE IF v < 52 THEN v + 71 ELSE IF v < 62 THEN v - 4
    ELSE IF v = 62 THEN 43 ELSE 47

\* Base64 with its padding.
Base64(bytes) ==
    LET n == Sextets(bytes)
    IN  [x \in 1..4 * ((n + 3) \div 4) |-> IF x <= n THEN Base64Char(Sextet(bytes, x - 1))
                                                     ELSE EqualSign]

\* A line of uuencoded text; zero writes the sextet 0, a space or a backquote.
UUChar(v, zero) == IF v = 0 THEN zero ELSE v + Space
UULine(bytes, zero) ==
    LET n == 4 * ((Len(bytes) + 2) \div 3) + 1
    IN  [x \in 1..n + 2 |-> IF x = 1 THEN UUChar(Len(bytes), zero)
                            ELSE IF x <= n THEN UUChar(Sextet(bytes, x - 2), zero)
                            ELSE IF x = n + 1 THEN CR ELSE LF]

\* What a byte may be written as in quoted-printable text.
HexDigits(v) == IF v < 10 THEN {48 + v} ELSE {55 + v, 87 + v}
Escapes(c) == {<<EqualSign, a, b>> : a \in HexDigits(c \div 16), b \in HexDigits(c % 16)}
Spellings(c) == Escapes(c) \cup (IF c = EqualSign THEN {} ELSE {<<c>>})

\* Printable, or escaped.
Escaped(c) == c \notin 33..126 \/ c \in {EqualSign, QuestionMark, Underscore}
Quoted(c) == IF Escaped(c) THEN CHOOSE s \in Escapes(c) : TRUE ELSE <<c>>

\* An encoded word, of a charset "x".
EncodedWord(piece) ==
    LET q(c) == IF c = Space THEN <<Underscore>> ELSE Quoted(c) IN
    CASE piece.form = "plain" -> piece.bytes
      [] piece.form = "Q" ->
           <<EqualSign, QuestionMark, 120, QuestionMark, 81, QuestionMark>>
           \o FlattenSeq([x \in DOMAIN piece.bytes |-> q(piece.bytes[x])])
           \o <<QuestionMark, EqualSign>>
      [] piece.form = "B" ->
           <<EqualSign, QuestionMark, 120, QuestionMark, 66, QuestionMark>>
           \o Base64(piece.bytes) \o <<QuestionMark, EqualSign>>

\* A winmail.dat, with a key that looks like types and zeros for checksums.
Little(v) == <<v % 256, (v \div 256) % 256, (v \div 65536) % 256, v \div 16777216>>
Preamble == Little(tnefMagic) \o <<1, 2>>
Numbered(name, half) == name + 65536 * half
Written(type, name, bytes) ==
    <<type>> \o Little(name) \o Little(Len(bytes)) \o bytes \o <<0, 0>>

\* What the last attachment gets; none gets what stands before the first.
WithBytes(files, c) ==
    IF files = << >> THEN files ELSE [files EXCEPT ![Len(files)].bytes = @ \o c]
WithName(files, c) ==
    IF files = << >> THEN files ELSE [files EXCEPT ![Len(files)].names = Append(@, c)]

(***************************************************************************)
(* The loops                                                               *)
(***************************************************************************)

Start(k) ==
    CASE k = "base64" -> B64Start
      [] k = "uu" -> [out |-> << >>, stop |-> FALSE]
      [] k \in {"text", "raw"} -> [out |-> << >>]
      [] k = "header" -> HeaderStart
      [] k \in Blocks -> [found |-> << >>, ends |-> FALSE]
      [] k \in Winmails -> WinmailStart
      [] k \in {"subject", "key"} -> << >>

Init ==
    /\ kind \in {"base64", "uu", "text", "subject", "raw", "header", "key"}
                \cup Winmails \cup Blocks
    /\ in = << >>
    /\ text = IF kind \in Winmails THEN Preamble ELSE << >>
    /\ at = 0
    /\ st = Start(kind)
    /\ Key!Init

\* An input that is read when it is complete.
Grow ==
    /\ kind \in {"base64", "uu", "subject"} \cup Blocks
    /\ at = 0 /\ st = Start(kind)
    /\ Len(in) < Bound(kind)
    /\ \E x \in Items(kind) : in' = Append(in, x)
    /\ UNCHANGED <<kind, text, at, st, cipher>>

\* The next character of base64 text, or a stray one.
ReadBase64 ==
    /\ kind = "base64"
    /\ \/ /\ at < Len(Base64(in))
          /\ st' = feed(st, Base64(in)[at + 1], TRUE)
          /\ at' = at + 1
       \/ /\ \E c \in Strays : st' = feed(st, c, TRUE)
          /\ UNCHANGED at
    /\ UNCHANGED <<kind, in, text, cipher>>

\* A line of base64 text ends.
NewLine ==
    /\ kind = "base64"
    /\ st' = decodeB64Line(st)
    /\ UNCHANGED <<kind, in, text, at, cipher>>

\* A group of uuencoded text, with its zeros written either way.
ReadGroup ==
    /\ kind = "uu"
    /\ ~st.stop
    /\ \E zero \in {Space, 96} :
          LET line == UULine(in, zero)
              group == uuDecodeLine(line, at)
          IN  /\ 3 * at < dec(line[1])
              /\ st' = [out |-> st.out \o group.out, stop |-> group.stop]
    /\ at' = at + 1
    /\ UNCHANGED <<kind, in, text, cipher>>

\* A line of quoted-printable text is written up to its end, which may be soft.
WriteText ==
    /\ kind = "text"
    /\ at = 0
    /\ Len(in) < MaxText
    /\ text # << >> => text[Len(text)] # LF
    /\ \/ \E c \in Texts : \E spelling \in Spellings(c) :
             /\ in' = Append(in, c)
             /\ text' = text \o spelling
       \/ /\ text' = text \o <<EqualSign, CR, LF>>
          /\ UNCHANGED in
    /\ UNCHANGED <<kind, at, st, cipher>>

ReadText ==
    /\ kind = "text"
    /\ at < Len(text)
    /\ LET turn == qpDecodeLine(text, at + 1) IN
       /\ st' = [out |-> st.out \o turn.out]
       /\ at' = turn.next - 1
    /\ UNCHANGED <<kind, in, text, cipher>>

\* A byte of a piped message.
ReadByte ==
    /\ kind = "raw"
    /\ Len(in) < MaxRaw
    /\ \E c \in {97, CR, LF} : in' = Append(in, c)
    /\ st' = [out |-> st.out \o unixToDOS(in', Len(in'))]
    /\ UNCHANGED <<kind, text, at, cipher>>

\* A line of a header.
ReadHeader ==
    /\ kind = "header"
    /\ Len(in) < MaxLines
    /\ \E line \in Header :
          /\ in' = Append(in, line)
          /\ st' = HeaderParse(st, line)
    /\ UNCHANGED <<kind, text, at, cipher>>

\* An attribute is written: of the message, of an attachment, or the beginning of
\* one.  A name ends with a zero.
WriteAttribute ==
    /\ kind \in Winmails
    /\ at = 0
    /\ Len(text) < MaxWinmail
    /\ \E c \in Chunks, half \in Halves :
          \/ /\ text' = text \o Written(1, Numbered(BeginAttachment, half), c)
             /\ UNCHANGED in
          \/ /\ text' = text \o Written(2, Numbered(OtherAttribute, half), c)
             /\ UNCHANGED in
          \/ /\ text' = text \o Written(2, Numbered(BeginAttachment, half), c)
             /\ in' = Append(in, NoFile)
          \/ /\ text' = text \o Written(2, Numbered(FileData, half), c)
             /\ in' = WithBytes(in, c)
          \/ /\ text' = text \o Written(2, Numbered(FileName, half), Append(c, 0))
             /\ in' = WithName(in, c)
    /\ UNCHANGED <<kind, at, st, cipher>>

\* The file is opened; behind the magic number and the key attributes begin.
OpenWinmail ==
    /\ kind \in Winmails
    /\ at = 0
    /\ \E n \in 0..Len(text) : /\ kind = "tnef" => n = Len(text)
                               /\ text' = SubSeq(text, 1, n)
    /\ at' = 7
    /\ st' = [st EXCEPT !.ends = int32le(text', 1) # tnefMagic]
    /\ UNCHANGED <<kind, in, cipher>>

ReadAttribute ==
    /\ kind \in Winmails
    /\ at > 0
    /\ ~st.ends
    /\ st' = parseTNEF(st, text, at)
    /\ at' = IF Readable(text, at) THEN AttributeAt(text, at).next ELSE at
    /\ UNCHANGED <<kind, in, text, cipher>>

\* Load finds a block; without a host it is no account.
NextBlock ==
    /\ kind \in Blocks
    /\ ~st.ends
    /\ LET k == Advance(in, at, Match)
           block == sortedChildren(in)[k]
       IN  /\ Found(in, k, Match)
           /\ at' = k
           /\ st' = [st EXCEPT !.found = IF in[block].host THEN Append(@, block) ELSE @]
    /\ UNCHANGED <<kind, in, text, cipher>>

LastBlock ==
    /\ kind \in Blocks
    /\ ~st.ends
    /\ ~Found(in, Advance(in, at, Match), Match)
    /\ st' = [st EXCEPT !.ends = TRUE]
    /\ UNCHANGED <<kind, in, text, at, cipher>>

\* A license key is made and read.
ReadKey ==
    /\ kind = "key"
    /\ Key!Next
    /\ UNCHANGED <<kind, in, text, at, st>>

Next ==
    \/ Grow \/ ReadBase64 \/ NewLine \/ ReadGroup \/ WriteText \/ ReadText
    \/ ReadByte \/ ReadHeader \/ WriteAttribute \/ OpenWinmail \/ ReadAttribute
    \/ NextBlock \/ LastBlock \/ ReadKey

Spec == Init /\ [][Next]_vars

(***************************************************************************)
(* Properties                                                              *)
(***************************************************************************)

\* A base64 body is what was encoded, wherever its lines are broken and
\* whatever stray bytes are on them: the state carried from line to line is
\* neither lost nor shifted.
Base64Body ==
    kind = "base64" => /\ IsPrefix(st.out, in)
                       /\ at >= Sextets(in) => st.out = in

\* A uuencoded line is what was encoded, for every rest of its last group and
\* for both ways to write a zero.
UUBody ==
    kind = "uu" => /\ IsPrefix(st.out, in) /\ ~st.stop
                   /\ 3 * at >= Len(in) => st.out = in

\* A line of quoted-printable text is what was encoded, whichever bytes were
\* escaped, with its end, without it after a soft break, and at the end of a
\* message that has none.
QuotedBody ==
    kind = "text" => /\ IsPrefix(st.out, in)
                     /\ at >= Len(text) => at = Len(text) /\ st.out = in

\* A subject is the texts of its words and what stands between them.
SubjectText ==
    kind = "subject" =>
        ParseSubject(FlattenSeq([x \in DOMAIN in |-> EncodedWord(in[x])]))
            = FlattenSeq([x \in DOMAIN in |-> in[x].bytes])

\* The saved file has no bare LF, what was DOS text stays as it is, and nothing
\* else changes.
DosLines ==
    kind = "raw" =>
        LET bare(x) == in[x] = LF /\ byteAt(in, x - 1) # CR
            shift(x) == Cardinality({j \in 1..x : bare(j)})
        IN  /\ \A x \in DOMAIN st.out : st.out[x] = LF => byteAt(st.out, x - 1) = CR
            /\ Len(st.out) = Len(in) + shift(Len(in))
            /\ \A x \in DOMAIN in : /\ st.out[x + shift(x)] = in[x]
                                    /\ bare(x) => st.out[x + shift(x) - 1] = CR
            /\ (\A x \in DOMAIN in : ~bare(x)) => st.out = in

\* A header has the folded lines that follow it, up to the next line that is
\* not one, and no header takes those of another line.
Unfolded ==
    kind = "header" =>
        LET ends(x) == \/ in[x].kind \in {"blank", "white"}
                       \/ in[x].kind = "fold" /\ x = 1
            heads == {x \in DOMAIN in : in[x].kind = "header" /\ \A j \in 1..x : ~ends(j)}
            rank(x) == Cardinality({j \in heads : j <= x})
            lines(x) == {j \in x..Len(in) : \A k \in x + 1..j : in[k].kind = "fold"}
        IN  /\ Len(st.nodes) = Cardinality(heads)
            /\ \A x \in heads : LET node == st.nodes[rank(x)] IN
                  /\ node.name = in[x].name
                  /\ DOMAIN node.val = {j - x + 1 : j \in lines(x)}
                  /\ \A j \in lines(x) : node.val[j - x + 1] = in[j].part

\* The attachments of a winmail.dat are what was put in, whatever stands
\* between; of one that is cut anywhere those before the last are whole, the last
\* is a beginning, and nothing is made up.
Attachments ==
    kind \in Winmails =>
        LET files == st.files
            last == Len(files)
        IN  /\ last <= Len(in)
            /\ \A k \in 1..last - 1 : files[k] = in[k]
            /\ last > 0 =>
                  LET names == files[last].names IN
                  /\ IsPrefix(files[last].bytes, in[last].bytes)
                  /\ Len(names) <= Len(in[last].names)
                  /\ \A x \in DOMAIN names :
                        IF x < Len(names) THEN names[x] = in[last].names[x]
                        ELSE IsPrefix(names[x], in[last].names[x])
            /\ kind = "tnef" /\ st.ends => files = in

\* A license key is read as it was written.
KeyText == Key!Decrypts

\* Every block with a host becomes an account, in the order of the file,
\* whatever stands between the blocks.
AccountsInOrder ==
    kind \in Blocks =>
        LET wanted == {j \in DOMAIN in : in[j].name = Match /\ in[j].host}
            found == {st.found[k] : k \in DOMAIN st.found}
        IN  /\ found \subseteq wanted
            /\ st.ends => found = wanted
            /\ \A j, k \in DOMAIN st.found : j < k => st.found[j] < st.found[k]
=============================================================================
