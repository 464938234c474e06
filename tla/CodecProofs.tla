----------------------------- MODULE CodecProofs -----------------------------
(***************************************************************************)
(* Theorems about Codecs: what the decoders make of their inputs, of any   *)
(* length and with any contents.                                           *)
(***************************************************************************)
EXTENDS Codecs, FiniteSetTheorems, SequenceTheorems, WellFoundedInduction, TLAPS

(***************************************************************************)
(* The actions                                                             *)
(***************************************************************************)

\* Which kinds of input an action is for.
LEMMA ActionKinds ==
    /\ Grow => kind \in {"base64", "uu", "subject"} \cup Blocks
    /\ ReadBase64 \/ NewLine => kind = "base64"
    /\ ReadGroup => kind = "uu"
    /\ WriteText \/ ReadText => kind = "text"
    /\ ReadByte => kind = "raw"
    /\ ReadHeader => kind = "header"
    /\ WriteAttribute \/ OpenWinmail \/ ReadAttribute => kind \in Winmails
    /\ NextBlock \/ LastBlock => kind \in Blocks
    /\ ReadKey => kind = "key"
  <1>1. Grow => kind \in {"base64", "uu", "subject"} \cup Blocks
    BY DEF Grow
  <1>2. ReadBase64 \/ NewLine => kind = "base64"
    BY DEF ReadBase64, NewLine
  <1>3. ReadGroup => kind = "uu"
    BY DEF ReadGroup
  <1>4. WriteText \/ ReadText => kind = "text"
    BY DEF WriteText, ReadText
  <1>5. ReadByte => kind = "raw"
    BY DEF ReadByte
  <1>6. ReadHeader => kind = "header"
    BY DEF ReadHeader
  <1>7. WriteAttribute \/ OpenWinmail \/ ReadAttribute => kind \in Winmails
    BY DEF WriteAttribute, OpenWinmail, ReadAttribute
  <1>8. NextBlock \/ LastBlock => kind \in Blocks
    BY DEF NextBlock, LastBlock
  <1>9. ReadKey => kind = "key"
    BY DEF ReadKey
  <1> QED
    BY <1>1, <1>2, <1>3, <1>4, <1>5, <1>6, <1>7, <1>8, <1>9

\* The kind of input stays, and only ReadKey takes a step of the cipher.
LEMMA NextFacts == [Next]_vars => kind' = kind /\ (Key!Next \/ UNCHANGED cipher)
  <1>1. UNCHANGED vars => kind' = kind /\ UNCHANGED cipher
    BY DEF vars
  <1>2. Grow => kind' = kind /\ UNCHANGED cipher
    BY DEF Grow
  <1>3. ReadBase64 => kind' = kind /\ UNCHANGED cipher
    BY DEF ReadBase64
  <1>4. NewLine => kind' = kind /\ UNCHANGED cipher
    BY DEF NewLine
  <1>5. ReadGroup => kind' = kind /\ UNCHANGED cipher
    BY DEF ReadGroup
  <1>6. WriteText => kind' = kind /\ UNCHANGED cipher
    BY DEF WriteText
  <1>7. ReadText => kind' = kind /\ UNCHANGED cipher
    BY DEF ReadText
  <1>8. ReadByte => kind' = kind /\ UNCHANGED cipher
    BY DEF ReadByte
  <1>9. ReadHeader => kind' = kind /\ UNCHANGED cipher
    BY DEF ReadHeader
  <1>10. WriteAttribute => kind' = kind /\ UNCHANGED cipher
    BY DEF WriteAttribute
  <1>11. OpenWinmail => kind' = kind /\ UNCHANGED cipher
    BY DEF OpenWinmail
  <1>12. ReadAttribute => kind' = kind /\ UNCHANGED cipher
    BY DEF ReadAttribute
  <1>13. NextBlock => kind' = kind /\ UNCHANGED cipher
    BY DEF NextBlock
  <1>14. LastBlock => kind' = kind /\ UNCHANGED cipher
    BY DEF LastBlock
  <1>15. ReadKey => kind' = kind /\ Key!Next
    BY DEF ReadKey
  <1> QED
    BY <1>1, <1>2, <1>3, <1>4, <1>5, <1>6, <1>7, <1>8,
       <1>9, <1>10, <1>11, <1>12, <1>13, <1>14, <1>15 DEF Next

(***************************************************************************)
(* License keys                                                            *)
(***************************************************************************)

\* The words before round k + 1 follow from those before round k.
Follows(t, k) ==
    /\ t[k + 1][1] = Key!xor(F[Key!xor(t[k][1], P[k])], t[k][2])
    /\ t[k + 1][2] = Key!xor(t[k][1], P[k])

\* How far the trace goes, and how the words in hand come from it.
Traced ==
    /\ phase # "idle" => plain = trace[0]
    /\ phase = "idle" => round = 0
    /\ phase = "enc" => /\ round \in 0..N
                        /\ trace[round] = <<xl, xr>>
                        /\ \A k \in 0..round - 1 : Follows(trace, k)
    /\ phase = "dec" => /\ round \in 1..N + 1
                        /\ xl = Key!xor(trace[round - 1][2], P[round])
                        /\ xr = Key!xor(trace[round - 1][1], P[round - 1])
                        /\ \A k \in 0..N - 1 : Follows(trace, k)

KeyInv == Key!TypeOK /\ Traced /\ Key!Decrypts

\* Exclusive or stays within the words.
LEMMA XorType ==
    ASSUME NEW x \in Key!Word, NEW y \in Key!Word
    PROVE  Key!xor(x, y) \in Key!Word
  BY DEF Key!xor, Key!Word

\* What is added twice is gone.
LEMMA XorTwice ==
    ASSUME NEW x \in Key!Word, NEW y \in Key!Word
    PROVE  Key!xor(Key!xor(x, y), y) = x
  BY DEF Key!xor, Key!Word

\* The order and the grouping do not matter.
LEMMA XorCancel ==
    ASSUME NEW x \in Key!Word, NEW y \in Key!Word, NEW z \in Key!Word
    PROVE  Key!xor(x, Key!xor(Key!xor(x, y), z)) = Key!xor(y, z)
  BY DEF Key!xor, Key!Word

\* A round keeps the type of both words.
LEMMA RoundType ==
    ASSUME Key!Tables, Key!TypeOK, NEW k \in 0..N + 1, Key!Round(k)
    PROVE  xl' \in Key!Word /\ xr' \in Key!Word
  <1>1. P[k] \in Key!Word /\ F \in [Key!Word -> Key!Word] /\ xl \in Key!Word /\ xr \in Key!Word
    BY DEF Key!Tables, Key!TypeOK
  <1>2. Key!xor(xl, P[k]) \in Key!Word
    BY <1>1, XorType
  <1>3. F[Key!xor(xl, P[k])] \in Key!Word
    BY <1>1, <1>2
  <1> QED
    BY <1>1, <1>2, <1>3, XorType DEF Key!Round

LEMMA KeyInit ==
    ASSUME Key!Tables, Key!Init
    PROVE  KeyInv
  <1>1. 0 \in 0..N + 1 /\ {} \in Key!Word
    BY DEF Key!Tables, Key!Word
  <1> QED
    BY <1>1 DEF Key!Init, KeyInv, Key!TypeOK, Traced, Key!Decrypts

\* Each step of the cipher keeps the invariant.
LEMMA KeyStep ==
    ASSUME Key!Tables, KeyInv, Key!Next \/ UNCHANGED cipher
    PROVE  KeyInv'
  <1> USE DEF KeyInv
  <1>n. N \in Nat \ {0} /\ F \in [Key!Word -> Key!Word] /\ P \in [0..N + 1 -> Key!Word]
    BY DEF Key!Tables
  <1>t. /\ round \in 0..N + 1 /\ xl \in Key!Word /\ xr \in Key!Word
        /\ plain \in Key!Word \X Key!Word /\ trace \in [0..N -> Key!Word \X Key!Word]
    BY DEF Key!TypeOK
  <1>1. CASE Key!Start
    <2>1. Key!TypeOK'
      BY <1>1, <1>n, <1>t DEF Key!Start, Key!TypeOK
    <2>2. round = 0 /\ round' = 0
      BY <1>1 DEF Key!Start, Traced
    <2>3. trace'[0] = <<xl', xr'>> /\ plain' = trace'[0]
      BY <1>1, <1>n, <1>t DEF Key!Start
    <2>4. Traced'
      BY <1>1, <2>2, <2>3, <1>n DEF Key!Start, Traced
    <2> QED
      BY <1>1, <2>1, <2>4 DEF Key!Start, Key!Decrypts
  <1>2. CASE Key!EncRound
    <2>0. round \in 0..N - 1 /\ round' = round + 1 /\ phase = "enc" /\ phase' = "enc"
      BY <1>2, <1>n, <1>t DEF Key!EncRound
    <2>1. xl' \in Key!Word /\ xr' \in Key!Word
      BY <1>2, <2>0, <1>n, RoundType DEF Key!EncRound
    <2>2. Key!TypeOK'
      BY <1>2, <2>0, <2>1, <1>n, <1>t DEF Key!EncRound, Key!TypeOK
    <2>3. /\ trace'[round + 1] = <<xl', xr'>>
          /\ \A k \in 0..round : trace'[k] = trace[k]
      BY <1>2, <2>0, <1>n, <1>t DEF Key!EncRound
    <2>4. trace[round] = <<xl, xr>>
      BY <2>0 DEF Traced
    <2>5. \A k \in 0..round : trace'[k][1] = trace[k][1] /\ trace'[k][2] = trace[k][2]
      BY <2>3
    <2>6. ASSUME NEW k \in 0..round
          PROVE  Follows(trace', k)
      <3>1. CASE k = round
        <4>1. trace'[k][1] = xl /\ trace'[k][2] = xr
          BY <2>0, <2>3, <2>4, <3>1, <1>n
        <4>2. trace'[k + 1][1] = xl' /\ trace'[k + 1][2] = xr'
          BY <2>3, <3>1
        <4> QED
          BY <1>2, <3>1, <4>1, <4>2 DEF Key!EncRound, Key!Round, Follows
      <3>2. CASE k < round
        <4>1. k + 1 \in 0..round /\ k \in 0..round - 1
          BY <2>0, <3>2, <1>n
        <4>2. Follows(trace, k)
          BY <2>0, <4>1 DEF Traced
        <4> QED
          BY <2>5, <4>1, <4>2 DEF Follows
      <3> QED
        BY <2>0, <3>1, <3>2
    <2>7. plain' = trace'[0]
      BY <1>2, <2>0, <2>3, <1>n DEF Key!EncRound, Traced
    <2>8. Traced'
      BY <2>0, <2>3, <2>6, <2>7, <1>n DEF Traced
    <2> QED
      BY <2>0, <2>2, <2>8 DEF Key!Decrypts
  <1>3. CASE Key!EncEnd
    <2>0. round = N /\ round' = N + 1 /\ phase = "enc" /\ phase' = "dec"
      BY <1>3 DEF Key!EncEnd, Key!FirstKey
    <2>1. P[N] \in Key!Word /\ P[N + 1] \in Key!Word
      BY <1>n
    <2>2. xl' = Key!xor(xr, P[N + 1]) /\ xr' = Key!xor(xl, P[N])
      BY <1>3 DEF Key!EncEnd, Key!Whiten
    <2>3. Key!TypeOK'
      <3>1. xl' \in Key!Word /\ xr' \in Key!Word
        BY <2>1, <2>2, <1>t, XorType
      <3> QED
        BY <1>3, <2>0, <3>1, <1>n, <1>t DEF Key!EncEnd, Key!TypeOK
    <2>4. trace' = trace /\ plain' = plain
      BY <1>3 DEF Key!EncEnd
    <2>5. trace[N][1] = xl /\ trace[N][2] = xr
      BY <2>0 DEF Traced
    <2>6. \A k \in 0..N - 1 : Follows(trace, k)
      BY <2>0 DEF Traced
    <2>7. plain = trace[0]
      BY <2>0 DEF Traced
    <2>8. round' \in 1..N + 1 /\ round' - 1 = N
      BY <2>0, <1>n
    <2>9. Traced'
      BY <2>0, <2>2, <2>4, <2>5, <2>6, <2>7, <2>8 DEF Traced
    <2> QED
      BY <2>0, <2>3, <2>9 DEF Key!Decrypts
  <1>4. CASE Key!DecRound
    <2>0. /\ round \in 2..N + 1 /\ round' = round - 1 /\ phase = "dec" /\ phase' = "dec"
          /\ trace' = trace /\ plain' = plain
      BY <1>4, <1>n, <1>t DEF Key!DecRound
    <2>1. xl' \in Key!Word /\ xr' \in Key!Word
      BY <1>4, <1>t, RoundType DEF Key!DecRound
    <2>2. Key!TypeOK'
      BY <2>0, <2>1, <1>n, <1>t DEF Key!TypeOK
    <2>3. /\ round - 1 \in 0..N /\ round - 2 \in 0..N - 1 /\ round - 2 \in 0..N
          /\ round \in 0..N + 1 /\ round - 1 \in 0..N + 1 /\ round - 2 \in 0..N + 1
          /\ (round - 2) + 1 = round - 1
      BY <2>0, <1>n
    <2> DEFINE a == trace[round - 2][1]
               b == trace[round - 2][2]
               c == trace[round - 1][2]
    <2>4. /\ a \in Key!Word /\ b \in Key!Word /\ c \in Key!Word
          /\ P[round] \in Key!Word /\ P[round - 1] \in Key!Word /\ P[round - 2] \in Key!Word
      BY <2>3, <1>n, <1>t
    <2>5. xl = Key!xor(c, P[round]) /\ xr = Key!xor(trace[round - 1][1], P[round - 1])
      BY <2>0 DEF Traced
    <2>6. Follows(trace, round - 2)
      BY <2>0, <2>3 DEF Traced
    <2>7. trace[round - 1][1] = Key!xor(F[c], b) /\ c = Key!xor(a, P[round - 2])
      BY <2>3, <2>6 DEF Follows
    <2>8. Key!xor(xl, P[round]) = c
      BY <2>4, <2>5, XorTwice
    <2>9. F[c] \in Key!Word
      BY <2>4, <1>n
    <2>10. xr' = c
      BY <1>4, <2>8 DEF Key!DecRound, Key!Round
    <2>11. xl' = Key!xor(b, P[round - 1])
      <3>1. xl' = Key!xor(F[c], Key!xor(Key!xor(F[c], b), P[round - 1]))
        BY <1>4, <2>5, <2>7, <2>8 DEF Key!DecRound, Key!Round
      <3> QED
        BY <3>1, <2>4, <2>9, XorCancel
    <2>12. round' - 1 = round - 2 /\ round' \in 1..N + 1
      BY <2>0, <1>n
    <2>13. /\ xl' = Key!xor(trace'[round' - 1][2], P[round'])
           /\ xr' = Key!xor(trace'[round' - 1][1], P[round' - 1])
      BY <2>0, <2>7, <2>10, <2>11, <2>12
    <2>14. plain' = trace'[0] /\ \A k \in 0..N - 1 : Follows(trace', k)
      BY <2>0 DEF Traced
    <2>15. Traced'
      BY <2>0, <2>12, <2>13, <2>14 DEF Traced
    <2> QED
      BY <2>0, <2>2, <2>15 DEF Key!Decrypts
  <1>5. CASE Key!DecEnd
    <2>0. /\ round = 1 /\ round' = 1 /\ phase = "dec" /\ phase' = "done"
          /\ trace' = trace /\ plain' = plain
      BY <1>5 DEF Key!DecEnd
    <2>1. /\ trace[0][1] \in Key!Word /\ trace[0][2] \in Key!Word
          /\ P[0] \in Key!Word /\ P[1] \in Key!Word
      BY <1>n, <1>t
    <2>2. /\ xl = Key!xor(trace[0][2], P[1])
          /\ xr = Key!xor(trace[0][1], P[0])
          /\ plain = trace[0]
      BY <2>0 DEF Traced
    <2>3. xl' = Key!xor(xr, P[0]) /\ xr' = Key!xor(xl, P[1])
      BY <1>5 DEF Key!DecEnd, Key!Whiten
    <2>4. xl' = trace[0][1] /\ xr' = trace[0][2]
      BY <2>1, <2>2, <2>3, XorTwice
    <2>5. trace[0] \in Key!Word \X Key!Word
      BY <1>n, <1>t
    <2>6. <<xl', xr'>> = plain'
      BY <2>0, <2>2, <2>4, <2>5
    <2>7. Key!TypeOK'
      BY <2>0, <2>1, <2>4, <1>n, <1>t DEF Key!TypeOK
    <2>8. Traced'
      BY <2>0, <2>2 DEF Traced
    <2> QED
      BY <2>6, <2>7, <2>8 DEF Key!Decrypts
  <1>6. CASE UNCHANGED cipher
    BY <1>6 DEF cipher, Key!TypeOK, Traced, Key!Decrypts, Follows
  <1> QED
    BY <1>1, <1>2, <1>3, <1>4, <1>5, <1>6 DEF Key!Next

\* A license key decrypts to what was encrypted, for any number of rounds, any
\* round function and any subkeys: the tables of internal/crypt need no check.
THEOREM KeyTheorem == Spec => []KeyText
  <1>1. Init => KeyInv
    BY KeyInit, KeyAssumption DEF Init
  <1>2. KeyInv /\ [Next]_vars => KeyInv'
    <2>1. [Next]_vars => Key!Next \/ UNCHANGED cipher
      BY NextFacts
    <2> QED
      BY <2>1, KeyStep, KeyAssumption
  <1>3. KeyInv => KeyText
    BY DEF KeyInv, KeyText
  <1> QED
    BY <1>1, <1>2, <1>3, PTL DEF Spec

\* What the variables of a loop are at first.
LEMMA StartFacts ==
    /\ Start("base64") = B64Start
    /\ Start("uu") = [out |-> << >>, stop |-> FALSE]
    /\ Start("text") = [out |-> << >>]
    /\ Start("raw") = [out |-> << >>]
    /\ Start("header") = HeaderStart
    /\ \A k \in Blocks : Start(k) = [found |-> << >>, ends |-> FALSE]
    /\ \A k \in Winmails : Start(k) = WinmailStart
  <1>1. Start("base64") = B64Start
    BY DEF Start, Blocks, Winmails
  <1>2. Start("uu") = [out |-> << >>, stop |-> FALSE]
    BY DEF Start, Blocks, Winmails
  <1>3. Start("text") = [out |-> << >>]
    BY DEF Start, Blocks, Winmails
  <1>4. Start("raw") = [out |-> << >>]
    BY DEF Start, Blocks, Winmails
  <1>5. Start("header") = HeaderStart
    BY DEF Start, Blocks, Winmails
  <1>6. \A k \in Blocks : Start(k) = [found |-> << >>, ends |-> FALSE]
    BY DEF Start, Blocks, Winmails
  <1>7. \A k \in Winmails : Start(k) = WinmailStart
    BY DEF Start, Blocks, Winmails
  <1> QED
    BY <1>1, <1>2, <1>3, <1>4, <1>5, <1>6, <1>7

\* What an input is made of.
LEMMA ItemsFacts ==
    /\ Items("base64") = Bytes
    /\ Items("uu") = Bytes
    /\ \A k \in Blocks : Items(k) = Elements
    /\ Bound("base64") = MaxBytes
    /\ Bound("uu") = MaxBytes
    /\ \A k \in Blocks : Bound(k) = MaxChildren
  BY DEF Items, Bound, Blocks

(***************************************************************************)
(* Base64                                                                  *)
(***************************************************************************)

LEMMA OctetFacts == 0 \in Octet /\ Octet \subseteq Nat
  BY DEF Octet

\* What has been written are the first bytes of the content.
Begins(out, content) ==
    /\ out \in Seq(Octet)
    /\ Len(out) <= Len(content)
    /\ \A k \in 1..Len(out) : out[k] = content[k]

LEMMA BeginsPrefix ==
    ASSUME NEW content \in Seq(Octet), NEW out, Begins(out, content)
    PROVE  IsPrefix(out, content) /\ (Len(out) = Len(content) => out = content)
  <1>1. /\ out \in Seq(Octet) /\ Len(out) \in Nat /\ Len(out) <= Len(content)
        /\ \A k \in 1..Len(out) : out[k] = content[k]
    BY DEF Begins
  <1>2. /\ SubSeq(out, 1, Len(out)) \in Seq(Octet)
        /\ Len(SubSeq(out, 1, Len(out))) = Len(out)
        /\ \A k \in 1..Len(out) : SubSeq(out, 1, Len(out))[k] = out[k]
    BY <1>1
  <1>3. /\ SubSeq(content, 1, Len(out)) \in Seq(Octet)
        /\ Len(SubSeq(content, 1, Len(out))) = Len(out)
        /\ \A k \in 1..Len(out) : SubSeq(content, 1, Len(out))[k] = content[k]
    BY <1>1
  <1>4. SubSeq(out, 1, Len(out)) = SubSeq(content, 1, Len(out))
    BY <1>1, <1>2, <1>3, SeqEqual
  <1>5. Len(out) = Len(content) => out = content
    BY <1>1, SeqEqual
  <1> QED
    BY <1>1, <1>4, <1>5 DEF IsPrefix

\* One byte more.
LEMMA BeginsAppend ==
    ASSUME NEW content \in Seq(Octet), NEW out, Begins(out, content),
           Len(out) < Len(content), NEW b, b = content[Len(out) + 1]
    PROVE  Begins(Append(out, b), content) /\ Len(Append(out, b)) = Len(out) + 1
  <1>1. out \in Seq(Octet) /\ Len(out) \in Nat /\ Len(content) \in Nat
    BY DEF Begins
  <1>3. Len(out) + 1 \in 1..Len(content)
    BY <1>1
  <1>4. b \in Octet
    BY <1>3
  <1>2. /\ Append(out, b) \in Seq(Octet) /\ Len(Append(out, b)) = Len(out) + 1
        /\ \A k \in 1..Len(out) : Append(out, b)[k] = out[k]
        /\ Append(out, b)[Len(out) + 1] = b
    BY <1>1, <1>4, AppendProperties
  <1> QED
    BY <1>1, <1>2 DEF Begins

LEMMA SextetChars ==
    \A v \in 0..63 : b64d(Base64Char(v)) = v /\ Base64Char(v) # EqualSign
  BY DEF b64d, Base64Char, EqualSign

LEMMA ByteAtType ==
    ASSUME NEW s \in Seq(Octet), NEW k \in Nat
    PROVE  byteAt(s, k) \in Octet /\ (k \in 1..Len(s) => byteAt(s, k) = s[k])
  BY OctetFacts DEF byteAt

\* The sextets of three bytes.
LEMMA SextetCases ==
    ASSUME NEW s, NEW x, NEW q, x \div 4 = q
    PROVE  /\ x % 4 = 0 => Sextet(s, x) = byteAt(s, 3 * q + 1) \div 4
           /\ x % 4 = 1 => Sextet(s, x) = (byteAt(s, 3 * q + 1) % 4) * 16
                                           + (byteAt(s, 3 * q + 2) \div 16)
           /\ x % 4 = 2 => Sextet(s, x) = (byteAt(s, 3 * q + 2) % 16) * 4
                                           + (byteAt(s, 3 * q + 3) \div 64)
           /\ x % 4 = 3 => Sextet(s, x) = byteAt(s, 3 * q + 3) % 64
  BY DEF Sextet

LEMMA Quads ==
    ASSUME NEW x \in Nat
    PROVE  \E q \in Nat : /\ x \div 4 = q
                          /\ \/ x = 4 * q /\ x % 4 = 0
                             \/ x = 4 * q + 1 /\ x % 4 = 1
                             \/ x = 4 * q + 2 /\ x % 4 = 2
                             \/ x = 4 * q + 3 /\ x % 4 = 3
  OBVIOUS

LEMMA SextetType ==
    ASSUME NEW s \in Seq(Octet), NEW x \in Nat
    PROVE  Sextet(s, x) \in 0..63
  <1>1. PICK q \in Nat : x \div 4 = q /\ x % 4 \in {0, 1, 2, 3}
    BY Quads
  <1>2. /\ 3 * q + 1 \in Nat /\ 3 * q + 2 \in Nat /\ 3 * q + 3 \in Nat
    OBVIOUS
  <1>3. /\ byteAt(s, 3 * q + 1) \in Octet /\ byteAt(s, 3 * q + 2) \in Octet
        /\ byteAt(s, 3 * q + 3) \in Octet
    BY <1>2, ByteAtType
  <1>4. \A b, c \in Octet : /\ b \div 4 \in 0..63 /\ b % 64 \in 0..63
                            /\ (b % 4) * 16 + (c \div 16) \in 0..63
                            /\ (b % 16) * 4 + (c \div 64) \in 0..63
    BY DEF Octet
  <1>5. CASE x % 4 = 0
    <2>1. Sextet(s, x) = byteAt(s, 3 * q + 1) \div 4
      BY <1>1, <1>5, SextetCases
    <2> QED
      BY <1>3, <1>4, <2>1
  <1>6. CASE x % 4 = 1
    <2>1. Sextet(s, x) = (byteAt(s, 3 * q + 1) % 4) * 16 + (byteAt(s, 3 * q + 2) \div 16)
      BY <1>1, <1>6, SextetCases
    <2> QED
      BY <1>3, <1>4, <2>1
  <1>7. CASE x % 4 = 2
    <2>1. Sextet(s, x) = (byteAt(s, 3 * q + 2) % 16) * 4 + (byteAt(s, 3 * q + 3) \div 64)
      BY <1>1, <1>7, SextetCases
    <2> QED
      BY <1>3, <1>4, <2>1
  <1>8. CASE x % 4 = 3
    <2>1. Sextet(s, x) = byteAt(s, 3 * q + 3) % 64
      BY <1>1, <1>8, SextetCases
    <2> QED
      BY <1>3, <1>4, <2>1
  <1> QED
    BY <1>1, <1>5, <1>6, <1>7, <1>8

\* The state of the loop behind x sextets of content s.
Sound64(z, s, x) ==
    /\ z \in [quad : 0..3, cur : Nat, ends : BOOLEAN, out : Seq(Octet)]
    /\ z.quad = x % 4
    /\ Begins(z.out, s)
    /\ Len(z.out) = (3 * x) \div 4
    /\ z.quad = 1 => z.cur = (byteAt(s, 3 * (x \div 4) + 1) \div 4) * 4
    /\ z.quad = 2 => z.cur = (byteAt(s, 3 * (x \div 4) + 2) \div 16) * 16
    /\ z.quad = 3 => z.cur = (byteAt(s, 3 * (x \div 4) + 3) \div 64) * 64

\* Where the byte a sextet completes is.
LEMMA SextetPlace ==
    ASSUME NEW s \in Seq(Octet), NEW q \in Nat
    PROVE  /\ 4 * q + 1 < Sextets(s) => 3 * q + 1 \in 1..Len(s)
           /\ 4 * q + 2 < Sextets(s) => 3 * q + 2 \in 1..Len(s)
           /\ 4 * q + 3 < Sextets(s) => 3 * q + 3 \in 1..Len(s)
  <1>1. Len(s) \in Nat
    OBVIOUS
  <1>2. \A l \in Nat : /\ 4 * q + 1 < (4 * l + 2) \div 3 => 3 * q + 1 <= l
                       /\ 4 * q + 2 < (4 * l + 2) \div 3 => 3 * q + 2 <= l
                       /\ 4 * q + 3 < (4 * l + 2) \div 3 => 3 * q + 3 <= l
    OBVIOUS
  <1> QED
    BY <1>1, <1>2 DEF Sextets

\* What two sextets have of a byte makes up the byte.
LEMMA SextetSums ==
    ASSUME NEW a \in Octet, NEW b \in Octet
    PROVE  /\ (a \div 4) * 4 + (((a % 4) * 16 + (b \div 16)) \div 16) = a
           /\ (((a % 4) * 16 + (b \div 16)) % 16) * 16 = (b \div 16) * 16
           /\ (a \div 16) * 16 + (((a % 16) * 4 + (b \div 64)) \div 4) = a
           /\ (((a % 16) * 4 + (b \div 64)) % 4) * 64 = (b \div 64) * 64
           /\ (a \div 64) * 64 + (a % 64) = a
           /\ (a \div 4) * 4 \in Nat /\ (b \div 16) * 16 \in Nat /\ (b \div 64) * 64 \in Nat
  BY DEF Octet

\* What is assigned to the state is in the state.
LEMMA Put6State ==
    ASSUME NEW z \in [quad : 0..3, cur : Nat, ends : BOOLEAN, out : Seq(Octet)],
           NEW n \in 0..3, NEW u \in Nat, NEW o \in Seq(Octet)
    PROVE  /\ LET y == [z EXCEPT !.quad = n, !.cur = u]
              IN  /\ y \in [quad : 0..3, cur : Nat, ends : BOOLEAN, out : Seq(Octet)]
                  /\ y.quad = n /\ y.cur = u /\ y.out = z.out /\ y.ends = z.ends
           /\ LET y == [z EXCEPT !.quad = n, !.cur = u, !.out = o]
              IN  /\ y \in [quad : 0..3, cur : Nat, ends : BOOLEAN, out : Seq(Octet)]
                  /\ y.quad = n /\ y.cur = u /\ y.out = o /\ y.ends = z.ends
           /\ LET y == [z EXCEPT !.quad = n, !.out = o]
              IN  /\ y \in [quad : 0..3, cur : Nat, ends : BOOLEAN, out : Seq(Octet)]
                  /\ y.quad = n /\ y.out = o /\ y.ends = z.ends
  OBVIOUS

LEMMA Put6Sound ==
    ASSUME NEW s \in Seq(Octet), NEW x \in Nat, x < Sextets(s),
           NEW z, Sound64(z, s, x)
    PROVE  Sound64(Put6(z, Sextet(s, x)), s, x + 1)
           /\ Put6(z, Sextet(s, x)).ends = z.ends
  <1>1. PICK q \in Nat : /\ x \div 4 = q
                         /\ \/ x = 4 * q /\ x % 4 = 0
                            \/ x = 4 * q + 1 /\ x % 4 = 1
                            \/ x = 4 * q + 2 /\ x % 4 = 2
                            \/ x = 4 * q + 3 /\ x % 4 = 3
    BY Quads
  <1> DEFINE a == byteAt(s, 3 * q + 1)
             b == byteAt(s, 3 * q + 2)
             c == byteAt(s, 3 * q + 3)
             v == Sextet(s, x)
             y == Put6(z, v)
  <1>2. a \in Octet /\ b \in Octet /\ c \in Octet
    <2>1. 3 * q + 1 \in Nat /\ 3 * q + 2 \in Nat /\ 3 * q + 3 \in Nat
      OBVIOUS
    <2> QED
      BY <2>1, ByteAtType
  <1>3. /\ z \in [quad : 0..3, cur : Nat, ends : BOOLEAN, out : Seq(Octet)]
        /\ z.quad = x % 4 /\ Begins(z.out, s) /\ Len(z.out) = (3 * x) \div 4
    BY DEF Sound64
  <1>4. CASE x = 4 * q /\ x % 4 = 0
    <2>1. v = a \div 4
      BY <1>1, <1>4, SextetCases
    <2>2. y = [z EXCEPT !.quad = (z.quad + 1) % 4, !.cur = v * 4]
      BY <1>3, <1>4 DEF Put6
    <2>3. z.quad = 0 /\ (z.quad + 1) % 4 = 1
      BY <1>3, <1>4
    <2>4. v * 4 = (a \div 4) * 4 /\ v * 4 \in Nat
      BY <1>2, <2>1, SextetSums
    <2>5. /\ y \in [quad : 0..3, cur : Nat, ends : BOOLEAN, out : Seq(Octet)]
          /\ y.quad = 1 /\ y.cur = (a \div 4) * 4 /\ y.out = z.out /\ y.ends = z.ends
      <3>1. y = [z EXCEPT !.quad = 1, !.cur = (a \div 4) * 4]
        BY <2>2, <2>3, <2>4
      <3>2. 1 \in 0..3 /\ (a \div 4) * 4 \in Nat /\ << >> \in Seq(Octet)
        BY <2>4
      <3> HIDE DEF a, v, y
      <3> QED
        BY <1>3, <3>1, <3>2, Put6State
    <2>6. (x + 1) % 4 = 1 /\ (x + 1) \div 4 = q /\ (3 * (x + 1)) \div 4 = (3 * x) \div 4
      BY <1>4
    <2>10. byteAt(s, 3 * ((x + 1) \div 4) + 1) = a
      BY <2>6
    <2> HIDE DEF a, b, c, v, y
    <2>11. Begins(y.out, s) /\ Len(y.out) = (3 * (x + 1)) \div 4
      BY <1>3, <2>5, <2>6
    <2>12. y.quad = 1 /\ y.quad = (x + 1) % 4
      BY <2>5, <2>6
    <2>13. Sound64(y, s, x + 1) /\ y.ends = z.ends
      BY <2>5, <2>10, <2>11, <2>12 DEF Sound64
    <2> QED
      BY <2>13 DEF v, y
  <1>5. CASE x = 4 * q + 1 /\ x % 4 = 1
    <2>1. v = (a % 4) * 16 + (b \div 16)
      BY <1>1, <1>5, SextetCases
    <2>2. y = [z EXCEPT !.quad = (z.quad + 1) % 4, !.cur = (v % 16) * 16,
                        !.out = Append(z.out, z.cur + v \div 16)]
      BY <1>3, <1>5 DEF Put6
    <2>3. z.quad = 1 /\ (z.quad + 1) % 4 = 2 /\ z.cur = (a \div 4) * 4
      BY <1>1, <1>3, <1>5 DEF Sound64
    <2>4. z.cur + (v \div 16) = a /\ (v % 16) * 16 = (b \div 16) * 16 /\ (v % 16) * 16 \in Nat
      BY <1>2, <2>1, <2>3, SextetSums
    <2>6. /\ (x + 1) % 4 = 2 /\ (x + 1) \div 4 = q
          /\ (3 * x) \div 4 = 3 * q /\ (3 * (x + 1)) \div 4 = 3 * q + 1
      BY <1>5
    <2>7. 3 * q + 1 \in 1..Len(s) /\ a = s[3 * q + 1]
      <3>1. 3 * q + 1 \in 1..Len(s)
        BY <1>5, SextetPlace
      <3> QED
        BY <3>1, ByteAtType
    <2>8. Begins(Append(z.out, a), s) /\ Len(Append(z.out, a)) = 3 * q + 1
      BY <1>3, <2>6, <2>7, BeginsAppend
    <2>5. /\ y \in [quad : 0..3, cur : Nat, ends : BOOLEAN, out : Seq(Octet)]
          /\ y.quad = 2 /\ y.cur = (b \div 16) * 16 /\ y.out = Append(z.out, a)
          /\ y.ends = z.ends
      <3>1. y = [z EXCEPT !.quad = 2, !.cur = (b \div 16) * 16, !.out = Append(z.out, a)]
        BY <2>2, <2>3, <2>4
      <3>2. 2 \in 0..3 /\ (b \div 16) * 16 \in Nat /\ Append(z.out, a) \in Seq(Octet)
        BY <2>4, <2>8 DEF Begins
      <3> HIDE DEF a, b, c, v, y
      <3> QED
        BY <1>3, <3>1, <3>2, Put6State
    <2>10. byteAt(s, 3 * ((x + 1) \div 4) + 2) = b
      BY <2>6
    <2> HIDE DEF a, b, c, v, y
    <2>11. Begins(y.out, s) /\ Len(y.out) = (3 * (x + 1)) \div 4
      BY <1>3, <2>5, <2>6, <2>8
    <2>12. y.quad = 2 /\ y.quad = (x + 1) % 4
      BY <2>5, <2>6
    <2>13. Sound64(y, s, x + 1) /\ y.ends = z.ends
      BY <2>5, <2>10, <2>11, <2>12 DEF Sound64
    <2> QED
      BY <2>13 DEF v, y
  <1>6. CASE x = 4 * q + 2 /\ x % 4 = 2
    <2>1. v = (b % 16) * 4 + (c \div 64)
      BY <1>1, <1>6, SextetCases
    <2>2. y = [z EXCEPT !.quad = (z.quad + 1) % 4, !.cur = (v % 4) * 64,
                        !.out = Append(z.out, z.cur + v \div 4)]
      BY <1>3, <1>6 DEF Put6
    <2>3. z.quad = 2 /\ (z.quad + 1) % 4 = 3 /\ z.cur = (b \div 16) * 16
      BY <1>1, <1>3, <1>6 DEF Sound64
    <2>4. z.cur + (v \div 4) = b /\ (v % 4) * 64 = (c \div 64) * 64 /\ (v % 4) * 64 \in Nat
      BY <1>2, <2>1, <2>3, SextetSums
    <2>6. /\ (x + 1) % 4 = 3 /\ (x + 1) \div 4 = q
          /\ (3 * x) \div 4 = 3 * q + 1 /\ (3 * (x + 1)) \div 4 = 3 * q + 2
      BY <1>6
    <2>7. 3 * q + 2 \in 1..Len(s) /\ b = s[3 * q + 2]
      <3>1. 3 * q + 2 \in 1..Len(s)
        BY <1>6, SextetPlace
      <3> QED
        BY <3>1, ByteAtType
    <2>9. (3 * q + 1) + 1 = 3 * q + 2
      OBVIOUS
    <2>8. Begins(Append(z.out, b), s) /\ Len(Append(z.out, b)) = 3 * q + 2
      BY <1>3, <2>6, <2>7, <2>9, BeginsAppend
    <2>5. /\ y \in [quad : 0..3, cur : Nat, ends : BOOLEAN, out : Seq(Octet)]
          /\ y.quad = 3 /\ y.cur = (c \div 64) * 64 /\ y.out = Append(z.out, b)
          /\ y.ends = z.ends
      <3>1. y = [z EXCEPT !.quad = 3, !.cur = (c \div 64) * 64, !.out = Append(z.out, b)]
        BY <2>2, <2>3, <2>4
      <3>2. 3 \in 0..3 /\ (c \div 64) * 64 \in Nat /\ Append(z.out, b) \in Seq(Octet)
        BY <2>4, <2>8 DEF Begins
      <3> HIDE DEF a, b, c, v, y
      <3> QED
        BY <1>3, <3>1, <3>2, Put6State
    <2>10. byteAt(s, 3 * ((x + 1) \div 4) + 3) = c
      BY <2>6
    <2> HIDE DEF a, b, c, v, y
    <2>11. Begins(y.out, s) /\ Len(y.out) = (3 * (x + 1)) \div 4
      BY <1>3, <2>5, <2>6, <2>8
    <2>12. y.quad = 3 /\ y.quad = (x + 1) % 4
      BY <2>5, <2>6
    <2>13. Sound64(y, s, x + 1) /\ y.ends = z.ends
      BY <2>5, <2>10, <2>11, <2>12 DEF Sound64
    <2> QED
      BY <2>13 DEF v, y
  <1>7. CASE x = 4 * q + 3 /\ x % 4 = 3
    <2>1. v = c % 64
      BY <1>1, <1>7, SextetCases
    <2>2. y = [z EXCEPT !.quad = (z.quad + 1) % 4, !.out = Append(z.out, z.cur + v)]
      BY <1>3, <1>7 DEF Put6
    <2>3. z.quad = 3 /\ (z.quad + 1) % 4 = 0 /\ z.cur = (c \div 64) * 64
      BY <1>1, <1>3, <1>7 DEF Sound64
    <2>4. z.cur + v = c
      BY <1>2, <2>1, <2>3, SextetSums
    <2>6. /\ (x + 1) % 4 = 0
          /\ (3 * x) \div 4 = 3 * q + 2 /\ (3 * (x + 1)) \div 4 = 3 * q + 3
      BY <1>7
    <2>7. 3 * q + 3 \in 1..Len(s) /\ c = s[3 * q + 3]
      <3>1. 3 * q + 3 \in 1..Len(s)
        BY <1>7, SextetPlace
      <3> QED
        BY <3>1, ByteAtType
    <2>9. (3 * q + 2) + 1 = 3 * q + 3
      OBVIOUS
    <2>8. Begins(Append(z.out, c), s) /\ Len(Append(z.out, c)) = 3 * q + 3
      BY <1>3, <2>6, <2>7, <2>9, BeginsAppend
    <2>5. /\ y \in [quad : 0..3, cur : Nat, ends : BOOLEAN, out : Seq(Octet)]
          /\ y.quad = 0 /\ y.out = Append(z.out, c) /\ y.ends = z.ends
      <3>1. y = [z EXCEPT !.quad = 0, !.out = Append(z.out, c)]
        BY <2>2, <2>3, <2>4
      <3>2. 0 \in 0..3 /\ 0 \in Nat /\ Append(z.out, c) \in Seq(Octet)
        BY <2>4, <2>8 DEF Begins
      <3> HIDE DEF a, b, c, v, y
      <3> QED
        BY <1>3, <3>1, <3>2, Put6State
    <2> HIDE DEF a, b, c, v, y
    <2>11. Begins(y.out, s) /\ Len(y.out) = (3 * (x + 1)) \div 4
      BY <1>3, <2>5, <2>6, <2>8
    <2>12. y.quad = 0 /\ y.quad = (x + 1) % 4
      BY <2>5, <2>6
    <2>13. Sound64(y, s, x + 1) /\ y.ends = z.ends
      BY <2>5, <2>11, <2>12 DEF Sound64
    <2> QED
      BY <2>13 DEF v, y
  <1> QED
    BY <1>1, <1>4, <1>5, <1>6, <1>7

\* How many of n characters are sextets.
Sent(n) == IF n < Sextets(in) THEN n ELSE Sextets(in)

\* Behind any number of characters the decoder has what they stand for, and no
\* line ends before the padding.
Base64Inv ==
    kind = "base64" =>
        /\ in \in Seq(Octet)
        /\ at \in Nat
        /\ st.ends => at > Sextets(in)
        /\ Sound64(st, in, Sent(at))

LEMMA SextetsType ==
    ASSUME NEW s \in Seq(Octet)
    PROVE  /\ Sextets(s) \in Nat
           /\ (3 * Sextets(s)) \div 4 = Len(s)
  <1>1. Len(s) \in Nat
    OBVIOUS
  <1>2. \A l \in Nat : (4 * l + 2) \div 3 \in Nat /\ (3 * ((4 * l + 2) \div 3)) \div 4 = l
    OBVIOUS
  <1> QED
    BY <1>1, <1>2 DEF Sextets

LEMMA B64StartSound ==
    ASSUME NEW s \in Seq(Octet)
    PROVE  Sound64(B64Start, s, 0) /\ ~B64Start.ends
  <1>1. << >> \in Seq(Octet) /\ Len(<< >>) = 0 /\ Len(s) \in Nat
    OBVIOUS
  <1>2. Begins(<< >>, s)
    BY <1>1 DEF Begins
  <1>3. 0 % 4 = 0 /\ (3 * 0) \div 4 = 0
    OBVIOUS
  <1> QED
    BY <1>1, <1>2, <1>3 DEF Sound64, B64Start

LEMMA BytesFacts == Bytes \subseteq Octet /\ Texts \subseteq Octet /\ MaxBytes \in Nat /\ MaxBytes < 64
  BY CodecAssumption

LEMMA InitBase64 == Init => Base64Inv
  <1> SUFFICES ASSUME Init, kind = "base64" PROVE Base64Inv
    BY DEF Base64Inv
  <1>1. in = << >> /\ at = 0 /\ st = B64Start
    BY StartFacts DEF Init
  <1>2. in \in Seq(Octet)
    BY <1>1
  <1>3. Sextets(in) \in Nat
    BY <1>2, SextetsType
  <1>4. Sent(at) = 0
    BY <1>1, <1>3 DEF Sent
  <1>5. Sound64(st, in, Sent(at)) /\ ~st.ends
    BY <1>1, <1>2, <1>4, B64StartSound
  <1> QED
    BY <1>1, <1>2, <1>5 DEF Base64Inv

LEMMA GrowBase64 ==
    ASSUME Base64Inv, Grow, kind = "base64"
    PROVE  Base64Inv'
  <1>1. /\ in \in Seq(Octet) /\ at = 0 /\ st = B64Start
        /\ UNCHANGED <<kind, at, st>>
    BY StartFacts DEF Base64Inv, Grow
  <1>2. PICK x \in Bytes : in' = Append(in, x)
    BY ItemsFacts DEF Grow
  <1>3. in' \in Seq(Octet)
    BY <1>1, <1>2, BytesFacts, AppendProperties
  <1>4. Sextets(in') \in Nat
    BY <1>3, SextetsType
  <1>5. Sent(at)' = 0
    BY <1>1, <1>4 DEF Sent
  <1>6. Sound64(st', in', 0) /\ ~st'.ends
    BY <1>1, <1>3, B64StartSound
  <1>7. Sound64(st, in, Sent(at))'
    BY <1>5, <1>6 DEF Sound64, Begins
  <1> QED
    BY <1>1, <1>3, <1>6, <1>7 DEF Base64Inv

LEMMA CharsOfBase64 ==
    ASSUME NEW s \in Seq(Octet), NEW n \in Nat, n < Len(Base64(s))
    PROVE  Base64(s)[n + 1] = IF n < Sextets(s) THEN Base64Char(Sextet(s, n)) ELSE EqualSign
  <1>1. Sextets(s) \in Nat
    BY SextetsType
  <1> DEFINE m == 4 * ((Sextets(s) + 3) \div 4)
  <1>2. m \in Nat
    BY <1>1
  <1>3. Base64(s) = [x \in 1..m |-> IF x <= Sextets(s) THEN Base64Char(Sextet(s, x - 1))
                                                       ELSE EqualSign]
    BY DEF Base64
  <1> HIDE DEF m
  <1>4. Len(Base64(s)) = m
    BY <1>2, <1>3
  <1>5. n + 1 \in 1..m /\ (n + 1) - 1 = n /\ (n + 1 <= Sextets(s) <=> n < Sextets(s))
    BY <1>1, <1>2, <1>4
  <1> QED
    BY <1>3, <1>5

LEMMA ReadBase64Sound ==
    ASSUME Base64Inv, ReadBase64
    PROVE  Base64Inv'
  <1>1. /\ kind = "base64" /\ in \in Seq(Octet) /\ at \in Nat
        /\ (st.ends => at > Sextets(in)) /\ Sound64(st, in, Sent(at))
        /\ UNCHANGED <<kind, in>>
    BY DEF Base64Inv, ReadBase64
  <1>2. Sextets(in) \in Nat /\ Sextets(in)' = Sextets(in)
    BY <1>1, SextetsType DEF Sextets
  <1>3. st.ends \in BOOLEAN /\ st \in [quad : 0..3, cur : Nat, ends : BOOLEAN, out : Seq(Octet)]
    BY <1>1 DEF Sound64
  <1> SUFFICES /\ at' \in Nat
               /\ st'.ends => at' > Sextets(in)
               /\ Sound64(st', in, Sent(at'))
    BY <1>1, <1>2 DEF Base64Inv, Sound64, Begins, Sent
  <1>4. CASE \E c \in Strays : st' = feed(st, c, TRUE) /\ UNCHANGED at
    <2>1. PICK c \in Strays : st' = feed(st, c, TRUE) /\ UNCHANGED at
      BY <1>4
    <2>2. c # EqualSign /\ b64d(c) = -1
      BY CodecAssumption
    <2>3. b64d(c) < 0
      BY <2>2
    <2>4. st' = st
      BY <2>1, <2>2, <2>3 DEF feed
    <2> QED
      BY <1>1, <2>1, <2>4
  <1>5. CASE /\ at < Len(Base64(in)) /\ at' = at + 1
             /\ st' = feed(st, Base64(in)[at + 1], TRUE)
    <2>1. Base64(in)[at + 1] = IF at < Sextets(in) THEN Base64Char(Sextet(in, at)) ELSE EqualSign
      BY <1>1, <1>5, CharsOfBase64
    <2>2. CASE at < Sextets(in)
      <3>1. Sextet(in, at) \in 0..63
        BY <1>1, SextetType
      <3>2. /\ b64d(Base64Char(Sextet(in, at))) = Sextet(in, at)
            /\ Base64Char(Sextet(in, at)) # EqualSign
        BY <3>1, SextetChars
      <3>3. ~(Sextet(in, at) < 0)
        BY <3>1
      <3>7. ~st.ends
        BY <1>1, <1>2, <2>2
      <3>4. st' = Put6(st, Sextet(in, at))
        BY <1>5, <2>1, <2>2, <3>2, <3>3, <3>7 DEF feed
      <3>5. Sent(at) = at /\ Sent(at') = at'
        BY <1>1, <1>2, <1>5, <2>2 DEF Sent
      <3>6. Sound64(st', in, at + 1) /\ st'.ends = st.ends
        BY <1>1, <2>2, <3>4, <3>5, Put6Sound
      <3>8. at' \in Nat /\ at' = at + 1
        BY <1>1, <1>5
      <3> HIDE DEF Sent
      <3> QED
        BY <3>5, <3>6, <3>7, <3>8
    <2>3. CASE ~(at < Sextets(in))
      <3>1. st' = st \/ st' = [st EXCEPT !.ends = TRUE]
        BY <1>5, <2>1, <2>3 DEF feed
      <3>2. /\ st' \in [quad : 0..3, cur : Nat, ends : BOOLEAN, out : Seq(Octet)]
            /\ st'.quad = st.quad /\ st'.cur = st.cur /\ st'.out = st.out
        BY <1>3, <3>1
      <3>3. Sent(at) = Sextets(in) /\ Sent(at') = Sextets(in) /\ at' > Sextets(in)
        BY <1>1, <1>2, <1>5, <2>3 DEF Sent
      <3>4. Sound64(st', in, Sextets(in))
        BY <1>1, <3>2, <3>3 DEF Sound64
      <3>5. at' \in Nat
        BY <1>1, <1>5
      <3> QED
        BY <3>3, <3>4, <3>5
    <2> QED
      BY <2>2, <2>3
  <1> QED
    BY <1>4, <1>5 DEF ReadBase64

LEMMA NewLineSound ==
    ASSUME Base64Inv, NewLine
    PROVE  Base64Inv'
  <1>1. /\ kind = "base64" /\ in \in Seq(Octet) /\ at \in Nat /\ Sound64(st, in, Sent(at))
        /\ UNCHANGED <<kind, in, at>> /\ st' = [st EXCEPT !.ends = FALSE]
    BY DEF Base64Inv, NewLine, decodeB64Line
  <1>2. st \in [quad : 0..3, cur : Nat, ends : BOOLEAN, out : Seq(Octet)]
    BY <1>1 DEF Sound64
  <1>3. /\ st' \in [quad : 0..3, cur : Nat, ends : BOOLEAN, out : Seq(Octet)]
        /\ st'.quad = st.quad /\ st'.cur = st.cur /\ st'.out = st.out /\ ~st'.ends
    BY <1>1, <1>2
  <1>4. Sound64(st', in, Sent(at))
    BY <1>1, <1>3 DEF Sound64
  <1> QED
    BY <1>1, <1>3, <1>4 DEF Base64Inv, Sound64, Begins, Sent, Sextets

\* Any base64 text of any content is decoded to it, however it is spread over
\* lines with stray bytes.
THEOREM Base64Theorem == Spec => []Base64Body
  <1>1. Base64Inv /\ [Next]_vars => Base64Inv'
    <2> SUFFICES ASSUME Base64Inv, [Next]_vars PROVE Base64Inv'
      OBVIOUS
    <2>1. kind' = kind
      BY NextFacts
    <2>2. CASE kind # "base64"
      BY <2>1, <2>2 DEF Base64Inv
    <2>3. CASE kind = "base64" /\ UNCHANGED vars
      BY <2>3 DEF vars, Base64Inv, Sound64, Begins, Sent, Sextets
    <2>4. CASE kind = "base64" /\ Next
      <3>1. Grow \/ ReadBase64 \/ NewLine
        BY <2>4, ActionKinds DEF Next, Blocks, Winmails
      <3> QED
        BY <2>4, <3>1, GrowBase64, ReadBase64Sound, NewLineSound
    <2> QED
      BY <2>2, <2>3, <2>4
  <1>2. Base64Inv => Base64Body
    <2> SUFFICES ASSUME Base64Inv, kind = "base64"
                 PROVE  IsPrefix(st.out, in) /\ (at >= Sextets(in) => st.out = in)
      BY DEF Base64Body
    <2>1. in \in Seq(Octet) /\ at \in Nat /\ Sound64(st, in, Sent(at))
      BY DEF Base64Inv
    <2>2. Begins(st.out, in) /\ Len(st.out) = (3 * Sent(at)) \div 4
      BY <2>1 DEF Sound64
    <2>3. at >= Sextets(in) => Sent(at) = Sextets(in)
      BY <2>1, SextetsType DEF Sent
    <2>4. at >= Sextets(in) => Len(st.out) = Len(in)
      BY <2>1, <2>2, <2>3, SextetsType
    <2> QED
      BY <2>1, <2>2, <2>4, BeginsPrefix
  <1> QED
    BY InitBase64, <1>1, <1>2, PTL DEF Spec

(***************************************************************************)
(* uuencode                                                                *)
(***************************************************************************)

\* Some bytes more.
LEMMA BeginsConcat ==
    ASSUME NEW content \in Seq(Octet), NEW out, Begins(out, content),
           NEW more \in Seq(Octet), Len(out) + Len(more) <= Len(content),
           \A k \in 1..Len(more) : more[k] = content[Len(out) + k]
    PROVE  Begins(out \o more, content) /\ Len(out \o more) = Len(out) + Len(more)
  <1>1. out \in Seq(Octet) /\ Len(out) \in Nat /\ Len(more) \in Nat /\ Len(content) \in Nat
    BY DEF Begins
  <1>2. /\ out \o more \in Seq(Octet) /\ Len(out \o more) = Len(out) + Len(more)
        /\ \A k \in 1..Len(out) + Len(more) :
              (out \o more)[k] = IF k <= Len(out) THEN out[k] ELSE more[k - Len(out)]
    BY <1>1, ConcatProperties
  <1>3. ASSUME NEW k \in 1..Len(out) + Len(more)
        PROVE  (out \o more)[k] = content[k]
    <2>1. CASE k <= Len(out)
      BY <1>1, <1>2, <2>1 DEF Begins
    <2>2. CASE ~(k <= Len(out))
      <3>1. k - Len(out) \in 1..Len(more) /\ Len(out) + (k - Len(out)) = k
        BY <1>1, <2>2
      <3>2. (out \o more)[k] = more[k - Len(out)]
        BY <1>2, <2>2
      <3>3. more[k - Len(out)] = content[Len(out) + (k - Len(out))]
        BY <3>1
      <3> QED
        BY <3>1, <3>2, <3>3
    <2> QED
      BY <2>1, <2>2
  <1> QED
    BY <1>1, <1>2, <1>3 DEF Begins

\* Nothing has been written.
LEMMA BeginsEmpty ==
    ASSUME NEW content \in Seq(Octet)
    PROVE  Begins(<< >>, content) /\ Len(<< >>) = 0
  <1>1. << >> \in Seq(Octet) /\ Len(<< >>) = 0 /\ Len(content) \in Nat
    OBVIOUS
  <1> QED
    BY <1>1 DEF Begins

\* A character is its sextet, however a zero is written.
LEMMA UUChars ==
    ASSUME NEW v \in 0..63, NEW zero \in {Space, 96}
    PROVE  dec(UUChar(v, zero)) = v /\ isDec(UUChar(v, zero))
  BY DEF dec, isDec, UUChar, Space

\* Four sextets make three bytes.
LEMMA GroupSums ==
    ASSUME NEW a \in Octet, NEW b \in Octet, NEW c \in Octet
    PROVE  /\ (((a \div 4) * 4) % 256) + (((a % 4) * 16 + (b \div 16)) \div 16) = a
           /\ ((((a % 4) * 16 + (b \div 16)) * 16) % 256)
                + (((b % 16) * 4 + (c \div 64)) \div 4) = b
           /\ ((((b % 16) * 4 + (c \div 64)) * 64) % 256) + (c % 64) = c
  <1>1. \A x, y \in Octet :
           /\ (((x \div 4) * 4) % 256) + (((x % 4) * 16 + (y \div 16)) \div 16) = x
           /\ ((((x % 4) * 16 + (y \div 16)) * 16) % 256) = (y \div 16) * 16
           /\ ((((x % 16) * 4 + (y \div 64)) * 64) % 256) = (y \div 64) * 64
    BY DEF Octet
  <1>2. /\ (b \div 16) * 16 + (((b % 16) * 4 + (c \div 64)) \div 4) = b
        /\ (c \div 64) * 64 + (c % 64) = c
    BY SextetSums
  <1> QED
    BY <1>1, <1>2

\* The length of a line and the characters of its groups.
LEMMA UULineChars ==
    ASSUME NEW s \in Seq(Octet), Len(s) < 64, NEW zero \in {Space, 96},
           NEW k \in Nat, 3 * k < Len(s), NEW j \in 0..3
    PROVE  /\ byteAt(UULine(s, zero), (4 * k + 2) + j) = UUChar(Sextet(s, 4 * k + j), zero)
           /\ UULine(s, zero)[1] = UUChar(Len(s), zero)
           /\ byteAt(UULine(s, zero), 1) = UUChar(Len(s), zero)
  <1> DEFINE n == 4 * ((Len(s) + 2) \div 3) + 1
             line == UULine(s, zero)
  <1>1. Len(s) \in Nat
    OBVIOUS
  <1>2. \A l \in Nat : 3 * k < l => 4 * k + 5 <= 4 * ((l + 2) \div 3) + 1
    OBVIOUS
  <1>3. n \in Nat /\ 4 * k + 5 <= n
    BY <1>1, <1>2
  <1>4. line = [x \in 1..n + 2 |-> IF x = 1 THEN UUChar(Len(s), zero)
                            ELSE IF x <= n THEN UUChar(Sextet(s, x - 2), zero)
                            ELSE IF x = n + 1 THEN CR ELSE LF]
    BY DEF UULine
  <1> HIDE DEF n, line
  <1>5. Len(line) = n + 2
    BY <1>3, <1>4
  <1>6. /\ (4 * k + 2) + j \in 1..n + 2 /\ (4 * k + 2) + j # 1 /\ (4 * k + 2) + j <= n
        /\ ((4 * k + 2) + j) - 2 = 4 * k + j /\ 1 \in 1..n + 2
    BY <1>3
  <1>7. line[(4 * k + 2) + j] = UUChar(Sextet(s, 4 * k + j), zero)
    BY <1>4, <1>6
  <1>8. line[1] = UUChar(Len(s), zero)
    BY <1>4, <1>6
  <1>9. byteAt(line, (4 * k + 2) + j) = line[(4 * k + 2) + j] /\ byteAt(line, 1) = line[1]
    BY <1>5, <1>6 DEF byteAt
  <1> QED
    BY <1>7, <1>8, <1>9 DEF line

LEMMA SixBits == \A n \in Nat : n < 64 => n \in 0..63
  OBVIOUS

\* The four sextets of a group.
LEMMA GroupSextets ==
    ASSUME NEW s, NEW k \in Nat
    PROVE  /\ Sextet(s, 4 * k) = byteAt(s, 3 * k + 1) \div 4
           /\ Sextet(s, 4 * k + 1) = (byteAt(s, 3 * k + 1) % 4) * 16
                                        + (byteAt(s, 3 * k + 2) \div 16)
           /\ Sextet(s, 4 * k + 2) = (byteAt(s, 3 * k + 2) % 16) * 4
                                        + (byteAt(s, 3 * k + 3) \div 64)
           /\ Sextet(s, 4 * k + 3) = byteAt(s, 3 * k + 3) % 64
  <1>1. /\ (4 * k) \div 4 = k /\ (4 * k) % 4 = 0
        /\ (4 * k + 1) \div 4 = k /\ (4 * k + 1) % 4 = 1
        /\ (4 * k + 2) \div 4 = k /\ (4 * k + 2) % 4 = 2
        /\ (4 * k + 3) \div 4 = k /\ (4 * k + 3) % 4 = 3
    OBVIOUS
  <1> QED
    BY <1>1, SextetCases

\* The bytes of the group behind k groups.
GroupBytes(s, k) ==
    IF Len(s) - 3 * k >= 3 THEN <<s[3 * k + 1], s[3 * k + 2], s[3 * k + 3]>>
    ELSE IF Len(s) - 3 * k = 1 THEN <<s[3 * k + 1]>>
    ELSE <<s[3 * k + 1], s[3 * k + 2]>>

\* A group is read as the bytes it was made of.
LEMMA GroupSound ==
    ASSUME NEW s \in Seq(Octet), Len(s) < 64, NEW zero \in {Space, 96},
           NEW k \in Nat, 3 * k < Len(s)
    PROVE  /\ dec(UULine(s, zero)[1]) = Len(s)
           /\ ~uuDecodeLine(UULine(s, zero), k).stop
           /\ uuDecodeLine(UULine(s, zero), k).out = GroupBytes(s, k)
  <1> DEFINE line == UULine(s, zero)
             i == 4 * k + 2
             a == byteAt(s, 3 * k + 1)
             b == byteAt(s, 3 * k + 2)
             c == byteAt(s, 3 * k + 3)
             v0 == Sextet(s, 4 * k)
             v1 == Sextet(s, 4 * k + 1)
             v2 == Sextet(s, 4 * k + 2)
             v3 == Sextet(s, 4 * k + 3)
  <1>0. Len(s) \in Nat
    OBVIOUS
  <1>1. Len(s) \in 0..63 /\ Len(s) \in Nat
    BY <1>0, SixBits
  <1>2. /\ a \in Octet /\ b \in Octet /\ c \in Octet
        /\ a = s[3 * k + 1]
        /\ Len(s) - 3 * k >= 2 => b = s[3 * k + 2]
        /\ Len(s) - 3 * k >= 3 => c = s[3 * k + 3]
    <2>1. /\ 3 * k + 1 \in Nat /\ 3 * k + 2 \in Nat /\ 3 * k + 3 \in Nat
          /\ 3 * k + 1 \in 1..Len(s)
          /\ Len(s) - 3 * k >= 2 => 3 * k + 2 \in 1..Len(s)
          /\ Len(s) - 3 * k >= 3 => 3 * k + 3 \in 1..Len(s)
      BY <1>1
    <2> QED
      BY <2>1, ByteAtType
  <1>3. v0 \in 0..63 /\ v1 \in 0..63 /\ v2 \in 0..63 /\ v3 \in 0..63
    <2>1. 4 * k \in Nat /\ 4 * k + 1 \in Nat /\ 4 * k + 2 \in Nat /\ 4 * k + 3 \in Nat
      OBVIOUS
    <2> QED
      BY <2>1, SextetType
  <1>4. /\ byteAt(line, i) = UUChar(v0, zero)
        /\ byteAt(line, i + 1) = UUChar(v1, zero)
        /\ byteAt(line, i + 2) = UUChar(v2, zero)
        /\ byteAt(line, i + 3) = UUChar(v3, zero)
        /\ line[1] = UUChar(Len(s), zero)
        /\ byteAt(line, 1) = UUChar(Len(s), zero)
    <2>1. 0 \in 0..3 /\ 1 \in 0..3 /\ 2 \in 0..3 /\ 3 \in 0..3
          /\ i + 0 = i /\ 4 * k + 0 = 4 * k
      OBVIOUS
    <2>2. \A j \in 0..3 : byteAt(line, i + j) = UUChar(Sextet(s, 4 * k + j), zero)
      BY UULineChars
    <2>3. line[1] = UUChar(Len(s), zero) /\ byteAt(line, 1) = UUChar(Len(s), zero)
      BY <2>1, UULineChars
    <2> HIDE DEF i
    <2> QED
      BY <2>1, <2>2, <2>3
  <1>5. dec(line[1]) = Len(s) /\ dec(byteAt(line, 1)) = Len(s)
    BY <1>1, <1>4, UUChars
  <1>6. /\ dec(byteAt(line, i)) = v0 /\ dec(byteAt(line, i + 1)) = v1
        /\ dec(byteAt(line, i + 2)) = v2 /\ dec(byteAt(line, i + 3)) = v3
        /\ isDec(byteAt(line, i)) /\ isDec(byteAt(line, i + 1))
        /\ isDec(byteAt(line, i + 2)) /\ isDec(byteAt(line, i + 3))
    <2> HIDE DEF line, i, v0, v1, v2, v3
    <2>1. dec(byteAt(line, i)) = v0 /\ isDec(byteAt(line, i))
      BY <1>3, <1>4, UUChars
    <2>2. dec(byteAt(line, i + 1)) = v1 /\ isDec(byteAt(line, i + 1))
      BY <1>3, <1>4, UUChars
    <2>3. dec(byteAt(line, i + 2)) = v2 /\ isDec(byteAt(line, i + 2))
      BY <1>3, <1>4, UUChars
    <2>4. dec(byteAt(line, i + 3)) = v3 /\ isDec(byteAt(line, i + 3))
      BY <1>3, <1>4, UUChars
    <2> QED
      BY <2>1, <2>2, <2>3, <2>4
  <1>7. /\ ((v0 * 4) % 256) + (v1 \div 16) = a
        /\ ((v1 * 16) % 256) + (v2 \div 4) = b
        /\ ((v2 * 64) % 256) + v3 = c
    <2>1. /\ v0 = a \div 4 /\ v1 = (a % 4) * 16 + (b \div 16)
          /\ v2 = (b % 16) * 4 + (c \div 64) /\ v3 = c % 64
      BY GroupSextets
    <2> HIDE DEF a, b, c, v0, v1, v2, v3
    <2>2. a \in Octet /\ b \in Octet /\ c \in Octet
      BY <1>2
    <2>3. /\ (((a \div 4) * 4) % 256) + (((a % 4) * 16 + (b \div 16)) \div 16) = a
          /\ ((((a % 4) * 16 + (b \div 16)) * 16) % 256)
                + (((b % 16) * 4 + (c \div 64)) \div 4) = b
          /\ ((((b % 16) * 4 + (c \div 64)) * 64) % 256) + (c % 64) = c
      BY <2>2, GroupSums
    <2>4. ((v0 * 4) % 256) + (v1 \div 16) = a
      BY <2>1, <2>3
    <2>5. ((v1 * 16) % 256) + (v2 \div 4) = b
      BY <2>1, <2>3
    <2>6. ((v2 * 64) % 256) + v3 = c
      BY <2>1, <2>3
    <2> QED
      BY <2>4, <2>5, <2>6
  <1> DEFINE n == Len(s) - 3 * k
  <1> HIDE DEF line, i, a, b, c, v0, v1, v2, v3
  <1>8. n \in Nat /\ n >= 1
    BY <1>1
  <1>9. /\ ~Group(line, i, n).stop
        /\ Group(line, i, n).out = IF n >= 3 THEN <<a, b, c>>
                                   ELSE IF n = 1 THEN <<a>> ELSE <<a, b>>
    <2> HIDE DEF n
    <2>1. CASE n >= 3
      BY <1>6, <1>7, <1>8, <2>1 DEF Group, FullGroup
    <2>2. CASE ~(n >= 3)
      BY <1>6, <1>7, <1>8, <2>2 DEF Group, FullGroup
    <2> QED
      BY <2>1, <2>2
  <1>10. uuDecodeLine(line, k) = Group(line, i, n)
    BY <1>5 DEF uuDecodeLine, i
  <1>11. /\ n >= 3 => a = s[3 * k + 1] /\ b = s[3 * k + 2] /\ c = s[3 * k + 3]
         /\ ~(n >= 3) /\ n # 1 => a = s[3 * k + 1] /\ b = s[3 * k + 2]
         /\ n = 1 => a = s[3 * k + 1]
    BY <1>2, <1>8
  <1>12. uuDecodeLine(line, k).out =
                IF n >= 3 THEN <<s[3 * k + 1], s[3 * k + 2], s[3 * k + 3]>>
                ELSE IF n = 1 THEN <<s[3 * k + 1]>>
                ELSE <<s[3 * k + 1], s[3 * k + 2]>>
    <2> HIDE DEF n
    <2> QED
      BY <1>9, <1>10, <1>11
  <1> QED
    <2>1. uuDecodeLine(line, k).out = GroupBytes(s, k)
      BY <1>12 DEF GroupBytes
    <2> QED
      BY <1>5, <1>9, <1>10, <2>1 DEF line

\* Behind any number of groups their bytes are written.
UUInv ==
    kind = "uu" =>
        /\ in \in Seq(Octet) /\ Len(in) < 64
        /\ at \in Nat
        /\ st = [out |-> st.out, stop |-> FALSE]
        /\ Begins(st.out, in)
        /\ Len(st.out) = IF 3 * at < Len(in) THEN 3 * at ELSE Len(in)

LEMMA InitUU == Init => UUInv
  <1> SUFFICES ASSUME Init, kind = "uu" PROVE UUInv
    BY DEF UUInv
  <1>1. in = << >> /\ at = 0 /\ st = [out |-> << >>, stop |-> FALSE]
    BY StartFacts DEF Init
  <1>2. in \in Seq(Octet) /\ Len(in) = 0 /\ at \in Nat /\ st.out = << >>
    BY <1>1
  <1>3. Begins(st.out, in) /\ Len(st.out) = 0
    BY <1>2, BeginsEmpty
  <1> QED
    BY <1>1, <1>2, <1>3 DEF UUInv

LEMMA GrowUU ==
    ASSUME UUInv, Grow, kind = "uu"
    PROVE  UUInv'
  <1>1. /\ in \in Seq(Octet) /\ at = 0 /\ st = [out |-> << >>, stop |-> FALSE]
        /\ UNCHANGED <<kind, at, st>> /\ Len(in) < MaxBytes
    BY StartFacts, ItemsFacts DEF UUInv, Grow
  <1>2. PICK x \in Bytes : in' = Append(in, x)
    BY ItemsFacts DEF Grow
  <1>3. in' \in Seq(Octet) /\ Len(in') = Len(in) + 1
    BY <1>1, <1>2, BytesFacts, AppendProperties
  <1>4. Len(in') \in Nat /\ Len(in') < 64 /\ 0 < Len(in')
    BY <1>1, <1>3, BytesFacts
  <1>5. st'.out = << >> /\ st' = [out |-> st'.out, stop |-> FALSE] /\ at' = 0
    BY <1>1
  <1>6. Begins(st'.out, in') /\ Len(st'.out) = 0
    BY <1>3, <1>5, BeginsEmpty
  <1>7. Begins(st.out, in)' /\ at' \in Nat /\ (3 * at' < Len(in')) /\ Len(st'.out) = 3 * at'
    BY <1>4, <1>5, <1>6 DEF Begins
  <1> QED
    BY <1>3, <1>4, <1>5, <1>7 DEF UUInv

LEMMA ReadGroupSound ==
    ASSUME UUInv, ReadGroup
    PROVE  UUInv'
  <1>1. /\ kind = "uu" /\ in \in Seq(Octet) /\ Len(in) < 64 /\ at \in Nat
        /\ Begins(st.out, in)
        /\ Len(st.out) = IF 3 * at < Len(in) THEN 3 * at ELSE Len(in)
        /\ UNCHANGED <<kind, in>> /\ at' = at + 1
    BY DEF UUInv, ReadGroup
  <1>2. PICK zero \in {Space, 96} :
           /\ 3 * at < dec(UULine(in, zero)[1])
           /\ st' = [out |-> st.out \o uuDecodeLine(UULine(in, zero), at).out,
                     stop |-> uuDecodeLine(UULine(in, zero), at).stop]
    BY DEF ReadGroup
  <1>3. 3 * at < Len(in)
    <2>0. Len(in) \in Nat
      BY <1>1
    <2>1. Len(in) \in 0..63
      BY <1>1, <2>0, SixBits
    <2>2. UULine(in, zero)[1] = UUChar(Len(in), zero)
      <3>1. \A n \in Nat : 1 \in 1..n + 2
        OBVIOUS
      <3>2. 4 * ((Len(in) + 2) \div 3) + 1 \in Nat
        BY <2>1
      <3> QED
        BY <3>1, <3>2 DEF UULine
    <2> QED
      BY <1>2, <2>1, <2>2, UUChars
  <1> DEFINE turn == uuDecodeLine(UULine(in, zero), at)
             m == Len(in) - 3 * at
  <1>4. /\ turn.stop = FALSE
        /\ turn.out = IF m >= 3 THEN <<in[3 * at + 1], in[3 * at + 2], in[3 * at + 3]>>
                      ELSE IF m = 1 THEN <<in[3 * at + 1]>>
                      ELSE <<in[3 * at + 1], in[3 * at + 2]>>
    <2>1. ~turn.stop
      BY <1>1, <1>3, GroupSound
    <2>2. turn.out = IF m >= 3 THEN <<in[3 * at + 1], in[3 * at + 2], in[3 * at + 3]>>
                      ELSE IF m = 1 THEN <<in[3 * at + 1]>>
                      ELSE <<in[3 * at + 1], in[3 * at + 2]>>
      <3>1. turn.out = GroupBytes(in, at)
        BY <1>1, <1>3, GroupSound
      <3> QED
        BY <3>1 DEF GroupBytes
    <2>3. turn.stop \in BOOLEAN
      BY DEF uuDecodeLine, Group
    <2> QED
      BY <2>1, <2>2, <2>3
  <1>5. /\ m \in Nat /\ m >= 1 /\ Len(in) \in Nat
        /\ 3 * at + 1 \in 1..Len(in)
        /\ m >= 2 => 3 * at + 2 \in 1..Len(in)
        /\ m >= 3 => 3 * at + 3 \in 1..Len(in)
    BY <1>1, <1>3
  <1>6. Len(st.out) = 3 * at
    BY <1>1, <1>3
  <1> HIDE DEF turn
  <1>7. /\ turn.out \in Seq(Octet)
        /\ Len(turn.out) = IF m >= 3 THEN 3 ELSE m
        /\ \A x \in 1..Len(turn.out) : turn.out[x] = in[Len(st.out) + x]
    <2>1. CASE m >= 3
      <3>1. turn.out = <<in[3 * at + 1], in[3 * at + 2], in[3 * at + 3]>>
        BY <1>4, <2>1
      <3>2. in[3 * at + 1] \in Octet /\ in[3 * at + 2] \in Octet /\ in[3 * at + 3] \in Octet
        BY <1>1, <1>5, <2>1
      <3> QED
        BY <1>6, <2>1, <3>1, <3>2
    <2>2. CASE m = 2
      <3>1. turn.out = <<in[3 * at + 1], in[3 * at + 2]>>
        BY <1>4, <2>2
      <3>2. in[3 * at + 1] \in Octet /\ in[3 * at + 2] \in Octet
        BY <1>1, <1>5, <2>2
      <3> QED
        BY <1>6, <2>2, <3>1, <3>2
    <2>3. CASE m = 1
      <3>1. turn.out = <<in[3 * at + 1]>>
        BY <1>4, <2>3
      <3>2. in[3 * at + 1] \in Octet
        BY <1>1, <1>5
      <3> QED
        BY <1>6, <2>3, <3>1, <3>2
    <2> QED
      BY <1>5, <2>1, <2>2, <2>3
  <1>13. Len(turn.out) \in Nat /\ Len(turn.out) <= m /\ 3 * at \in Nat
    <2>1. CASE m >= 3
      BY <1>1, <1>5, <1>7, <2>1
    <2>2. CASE ~(m >= 3)
      BY <1>1, <1>5, <1>7, <2>2
    <2> QED
      BY <2>1, <2>2
  <1>8. Len(st.out) + Len(turn.out) <= Len(in)
    BY <1>5, <1>6, <1>13
  <1>14. Begins(st.out, in) /\ in \in Seq(Octet)
    BY <1>1
  <1>15. turn.out \in Seq(Octet) /\ \A x \in 1..Len(turn.out) : turn.out[x] = in[Len(st.out) + x]
    BY <1>7
  <1>9. /\ Begins(st.out \o turn.out, in)
        /\ Len(st.out \o turn.out) = Len(st.out) + Len(turn.out)
    <2> DEFINE more == turn.out
               out == st.out
    <2>1. more \in Seq(Octet) /\ \A x \in 1..Len(more) : more[x] = in[Len(out) + x]
      BY <1>15
    <2>2. Begins(out, in) /\ Len(out) + Len(more) <= Len(in)
      BY <1>8, <1>14
    <2> HIDE DEF m, more, out
    <2>3. Begins(out \o more, in) /\ Len(out \o more) = Len(out) + Len(more)
      BY <1>14, <2>1, <2>2, BeginsConcat
    <2> QED
      BY <2>3 DEF more, out
  <1>10. st'.out = st.out \o turn.out /\ st' = [out |-> st'.out, stop |-> FALSE]
    BY <1>2, <1>4 DEF turn
  <1>11. /\ at' \in Nat
         /\ Len(st'.out) = IF 3 * at' < Len(in) THEN 3 * at' ELSE Len(in)
    <2>1. at' = at + 1 /\ at \in Nat /\ Len(in) \in Nat
      BY <1>1, <1>5
    <2>2. Len(st'.out) = 3 * at + Len(turn.out)
      BY <1>6, <1>9, <1>10
    <2>3. CASE m >= 3
      <3>1. Len(turn.out) = 3
        BY <1>7, <2>3
      <3> QED
        BY <2>1, <2>2, <2>3, <3>1
    <2>4. CASE ~(m >= 3)
      <3>1. Len(turn.out) = Len(in) - 3 * at
        BY <1>7, <2>4
      <3>4. \A a, l \in Nat : a + (l - a) = l
        OBVIOUS
      <3>5. 3 * at + (Len(in) - 3 * at) = Len(in)
        BY <1>13, <2>1, <3>4
      <3>2. Len(st'.out) = Len(in)
        BY <2>2, <3>1, <3>5
      <3>3. at' \in Nat /\ ~(3 * at' < Len(in))
        BY <2>1, <2>4
      <3> QED
        BY <3>2, <3>3
    <2> QED
      BY <2>3, <2>4
  <1>12. Begins(st.out, in)'
    BY <1>1, <1>9, <1>10 DEF Begins
  <1> QED
    BY <1>1, <1>10, <1>11, <1>12 DEF UUInv

\* Any uuencoded line of any content is decoded to it.
THEOREM UUTheorem == Spec => []UUBody
  <1>1. UUInv /\ [Next]_vars => UUInv'
    <2> SUFFICES ASSUME UUInv, [Next]_vars PROVE UUInv'
      OBVIOUS
    <2>1. kind' = kind
      BY NextFacts
    <2>2. CASE kind # "uu"
      BY <2>1, <2>2 DEF UUInv
    <2>3. CASE kind = "uu" /\ UNCHANGED vars
      BY <2>3 DEF vars, UUInv, Begins
    <2>4. CASE kind = "uu" /\ Next
      <3>1. Grow \/ ReadGroup
        BY <2>4, ActionKinds DEF Next, Blocks, Winmails
      <3> QED
        BY <2>4, <3>1, GrowUU, ReadGroupSound
    <2> QED
      BY <2>2, <2>3, <2>4
  <1>2. UUInv => UUBody
    <2> SUFFICES ASSUME UUInv, kind = "uu"
                 PROVE  /\ IsPrefix(st.out, in) /\ ~st.stop
                        /\ 3 * at >= Len(in) => st.out = in
      BY DEF UUBody
    <2>1. /\ in \in Seq(Octet) /\ at \in Nat /\ Begins(st.out, in)
          /\ st = [out |-> st.out, stop |-> FALSE]
          /\ Len(st.out) = IF 3 * at < Len(in) THEN 3 * at ELSE Len(in)
      BY DEF UUInv
    <2>2. 3 * at >= Len(in) => Len(st.out) = Len(in)
      BY <2>1
    <2>3. ~st.stop
      BY <2>1
    <2> QED
      BY <2>1, <2>2, <2>3, BeginsPrefix
  <1> QED
    BY InitUU, <1>1, <1>2, PTL DEF Spec

(***************************************************************************)
(* Line ends                                                               *)
(***************************************************************************)

\* The bare LFs of an input, and how far they move the byte x.
Bare(s, x) == s[x] = LF /\ byteAt(s, x - 1) # CR
BareUpTo(s, x) == {j \in 1..x : Bare(s, j)}
Shift(s, x) == Cardinality(BareUpTo(s, x))

LEMMA BareFinite ==
    ASSUME NEW s, NEW x \in Nat
    PROVE  IsFiniteSet(BareUpTo(s, x)) /\ Shift(s, x) \in Nat
  <1>1. IsFiniteSet(1..x)
    BY FS_Interval
  <1>2. BareUpTo(s, x) \subseteq 1..x
    BY DEF BareUpTo
  <1> QED
    BY <1>1, <1>2, FS_Subset, FS_CardinalityType DEF Shift

LEMMA ShiftStep ==
    ASSUME NEW s, NEW x \in Nat
    PROVE  Shift(s, x + 1) = IF Bare(s, x + 1) THEN Shift(s, x) + 1 ELSE Shift(s, x)
  <1>1. 1..x + 1 = (1..x) \cup {x + 1} /\ x + 1 \notin 1..x
    OBVIOUS
  <1>2. CASE Bare(s, x + 1)
    <2>1. /\ BareUpTo(s, x + 1) = BareUpTo(s, x) \cup {x + 1}
          /\ x + 1 \notin BareUpTo(s, x)
      BY <1>1, <1>2 DEF BareUpTo
    <2> QED
      BY <1>2, <2>1, BareFinite, FS_AddElement DEF Shift
  <1>3. CASE ~Bare(s, x + 1)
    <2>1. BareUpTo(s, x + 1) = BareUpTo(s, x)
      BY <1>1, <1>3 DEF BareUpTo
    <2> QED
      BY <1>3, <2>1 DEF Shift
  <1> QED
    BY <1>2, <1>3

LEMMA ShiftZero ==
    ASSUME NEW s
    PROVE  Shift(s, 0) = 0
  <1>1. BareUpTo(s, 0) = {}
    BY DEF BareUpTo
  <1> QED
    BY <1>1, FS_EmptySet DEF Shift

LEMMA ShiftMonotone ==
    ASSUME NEW s, NEW x \in Nat, NEW y \in Nat, x <= y
    PROVE  Shift(s, x) <= Shift(s, y)
  <1>1. BareUpTo(s, x) \subseteq BareUpTo(s, y)
    BY DEF BareUpTo
  <1> QED
    BY <1>1, BareFinite, FS_Subset DEF Shift

LEMMA ShiftAppend ==
    ASSUME NEW s \in Seq(Octet), NEW c \in Octet
    PROVE  /\ \A x \in 1..Len(s) : /\ Append(s, c)[x] = s[x]
                                   /\ byteAt(Append(s, c), x) = byteAt(s, x)
                                   /\ Bare(Append(s, c), x) <=> Bare(s, x)
                                   /\ Shift(Append(s, c), x) = Shift(s, x)
           /\ Shift(Append(s, c), Len(s)) = Shift(s, Len(s))
  <1>1. /\ Len(s) \in Nat /\ Len(Append(s, c)) = Len(s) + 1
        /\ \A x \in 1..Len(s) : Append(s, c)[x] = s[x]
    BY AppendProperties
  <1>2. \A x \in 0..Len(s) : byteAt(Append(s, c), x) = byteAt(s, x)
    BY <1>1 DEF byteAt
  <1>3. \A x \in 1..Len(s) : Bare(Append(s, c), x) <=> Bare(s, x)
    <2> TAKE x \in 1..Len(s)
    <2>1. x - 1 \in 0..Len(s)
      BY <1>1
    <2> QED
      BY <1>1, <1>2, <2>1 DEF Bare
  <1>4. \A x \in 0..Len(s) : BareUpTo(Append(s, c), x) = BareUpTo(s, x)
    <2> TAKE x \in 0..Len(s)
    <2>1. \A j \in 1..x : j \in 1..Len(s)
      BY <1>1
    <2> QED
      BY <1>3, <2>1 DEF BareUpTo
  <1>5. 1..Len(s) \subseteq 0..Len(s) /\ Len(s) \in 0..Len(s)
    BY <1>1
  <1> QED
    BY <1>1, <1>2, <1>3, <1>4, <1>5 DEF Shift

\* What has become of an input s.
Dos(s, out) ==
    /\ \A x \in 1..Len(out) : out[x] = LF => byteAt(out, x - 1) = CR
    /\ Len(out) = Len(s) + Shift(s, Len(s))
    /\ \A x \in 1..Len(s) : /\ out[x + Shift(s, x)] = s[x]
                            /\ Bare(s, x) => out[x + Shift(s, x) - 1] = CR
    /\ (\A x \in 1..Len(s) : ~Bare(s, x)) => out = s

\* Where the bytes of an input have gone.
LEMMA DosPlaces ==
    ASSUME NEW s \in Seq(Octet), NEW out \in Seq(Octet), Dos(s, out), NEW x \in 1..Len(s)
    PROVE  /\ x + Shift(s, x) \in 1..Len(out)
           /\ Bare(s, x) => x + Shift(s, x) - 1 \in 1..Len(out)
  <1>1. /\ x \in Nat /\ Len(s) \in Nat /\ x >= 1 /\ x <= Len(s) /\ x - 1 \in Nat
        /\ (x - 1) + 1 = x
    OBVIOUS
  <1>2. /\ Shift(s, x) \in Nat /\ Shift(s, Len(s)) \in Nat /\ Shift(s, x - 1) \in Nat
        /\ Shift(s, x) <= Shift(s, Len(s))
    BY <1>1, BareFinite, ShiftMonotone
  <1>3. Len(out) = Len(s) + Shift(s, Len(s))
    BY DEF Dos
  <1>4. Bare(s, x) => Shift(s, x) = Shift(s, x - 1) + 1
    BY <1>1, ShiftStep
  <1>5. x + Shift(s, x) \in 1..Len(out)
    BY <1>1, <1>2, <1>3
  <1>6. Bare(s, x) => x + Shift(s, x) - 1 \in 1..Len(out)
    BY <1>1, <1>2, <1>3, <1>4
  <1> QED
    BY <1>5, <1>6

\* Two sequences one behind the other.
LEMMA ConcatFacts ==
    ASSUME NEW S, NEW a \in Seq(S), NEW b \in Seq(S)
    PROVE  /\ a \o b \in Seq(S) /\ Len(a \o b) = Len(a) + Len(b)
           /\ \A k \in 1..Len(a) : (a \o b)[k] = a[k]
           /\ \A k \in 1..Len(b) : (a \o b)[Len(a) + k] = b[k]
  <1>1. Len(a) \in Nat /\ Len(b) \in Nat
    OBVIOUS
  <1>2. /\ a \o b \in Seq(S) /\ Len(a \o b) = Len(a) + Len(b)
        /\ \A k \in 1..Len(a) + Len(b) :
              (a \o b)[k] = IF k <= Len(a) THEN a[k] ELSE b[k - Len(a)]
    BY ConcatProperties
  <1>3. ASSUME NEW k \in 1..Len(b) PROVE (a \o b)[Len(a) + k] = b[k]
    <2>1. Len(a) + k \in 1..Len(a) + Len(b) /\ ~(Len(a) + k <= Len(a))
          /\ (Len(a) + k) - Len(a) = k
      BY <1>1
    <2> QED
      BY <1>2, <2>1
  <1>4. ASSUME NEW k \in 1..Len(a) PROVE (a \o b)[k] = a[k]
    <2>1. k \in 1..Len(a) + Len(b) /\ k <= Len(a)
      BY <1>1
    <2> QED
      BY <1>2, <2>1
  <1> QED
    BY <1>2, <1>3, <1>4

\* One byte more of an input, and what is written for it.
LEMMA DosAppend ==
    ASSUME NEW s \in Seq(Octet), NEW out \in Seq(Octet), Dos(s, out), NEW c \in Octet
    PROVE  /\ out \o unixToDOS(Append(s, c), Len(s) + 1) \in Seq(Octet)
           /\ Dos(Append(s, c), out \o unixToDOS(Append(s, c), Len(s) + 1))
  <1> DEFINE n == Len(s)
             t == Append(s, c)
             more == unixToDOS(t, n + 1)
             new == out \o more
  <1>1. /\ n \in Nat /\ Len(out) \in Nat /\ t \in Seq(Octet) /\ Len(t) = n + 1
        /\ t[n + 1] = c /\ (n + 1) - 1 = n
    BY AppendProperties
  <1>2. /\ \A x \in 1..n : /\ t[x] = s[x]
                           /\ byteAt(t, x) = byteAt(s, x)
                           /\ Bare(t, x) <=> Bare(s, x)
                           /\ Shift(t, x) = Shift(s, x)
        /\ Shift(t, n) = Shift(s, n)
    BY ShiftAppend
  <1>3. /\ Len(out) = n + Shift(s, n) /\ Shift(s, n) \in Nat
        /\ Shift(t, n + 1) = IF Bare(t, n + 1) THEN Shift(s, n) + 1 ELSE Shift(s, n)
    BY <1>1, <1>2, BareFinite, ShiftStep DEF Dos
  <1>4. Bare(t, n + 1) <=> c = LF /\ byteAt(t, n) # CR
    BY <1>1 DEF Bare
  <1>5. more = IF Bare(t, n + 1) THEN <<CR, LF>> ELSE <<c>>
    BY <1>1, <1>4 DEF unixToDOS, AfterCR
  <1>6. CR \in Octet /\ LF \in Octet /\ CR # LF
    BY DEF CR, LF, Octet
  <1>7. /\ more \in Seq(Octet) /\ Len(more) = IF Bare(t, n + 1) THEN 2 ELSE 1
        /\ more[Len(more)] = c
        /\ Bare(t, n + 1) => more[1] = CR
    <2>1. CASE Bare(t, n + 1)
      <3>1. more = <<CR, LF>> /\ c = LF
        BY <1>4, <1>5, <2>1
      <3> HIDE DEF more
      <3> QED
        BY <1>6, <2>1, <3>1
    <2>2. CASE ~Bare(t, n + 1)
      <3>1. more = <<c>>
        BY <1>5, <2>2
      <3> HIDE DEF more
      <3> QED
        BY <2>2, <3>1
    <2> QED
      BY <2>1, <2>2
  <1> HIDE DEF t, more
  <1>8. /\ new \in Seq(Octet) /\ Len(new) = Len(out) + Len(more)
        /\ \A k \in 1..Len(out) : new[k] = out[k]
        /\ \A k \in 1..Len(more) : new[Len(out) + k] = more[k]
    <2>1. more \in Seq(Octet)
      BY <1>7
    <2> QED
      BY <2>1, ConcatFacts
  <1> HIDE DEF new, n
  <1>9. Len(new) = Len(t) + Shift(t, Len(t))
    BY <1>1, <1>3, <1>7, <1>8
  <1>10. new[Len(new)] = c /\ Len(new) \in Nat
    <2>1. Len(more) \in 1..Len(more) /\ Len(more) \in Nat
      BY <1>7
    <2>2. Len(new) = Len(out) + Len(more)
      BY <1>8
    <2>3. new[Len(out) + Len(more)] = more[Len(more)]
      BY <1>8, <2>1
    <2>4. more[Len(more)] = c
      BY <1>7
    <2> QED
      BY <1>1, <2>1, <2>2, <2>3, <2>4
  <1>11. Bare(t, n + 1) => /\ new[Len(new) - 1] = CR /\ Len(new) - 1 = Len(out) + 1
                           /\ Len(new) = Len(out) + 2
    <2> SUFFICES ASSUME Bare(t, n + 1)
                 PROVE  /\ new[Len(new) - 1] = CR /\ Len(new) - 1 = Len(out) + 1
                        /\ Len(new) = Len(out) + 2
      OBVIOUS
    <2>1. Len(new) = Len(out) + 2 /\ 1 \in 1..Len(more) /\ more[1] = CR
      BY <1>7, <1>8
    <2>2. new[Len(out) + 1] = CR /\ Len(new) - 1 = Len(out) + 1
      BY <1>1, <1>8, <2>1
    <2> QED
      BY <2>1, <2>2
  <1>12. ~Bare(t, n + 1) => Len(new) = Len(out) + 1
    BY <1>7, <1>8
  <1>13. \A x \in 1..Len(out) : byteAt(new, x - 1) = byteAt(out, x - 1)
    <2> TAKE x \in 1..Len(out)
    <2>1. CASE x = 1
      BY <1>1, <2>1 DEF byteAt
    <2>2. CASE x # 1
      <3>1. x - 1 \in 1..Len(out) /\ x - 1 \in 1..Len(new)
        BY <1>1, <1>8, <1>11, <1>12, <2>2
      <3> QED
        BY <1>8, <3>1 DEF byteAt
    <2> QED
      BY <2>1, <2>2
  <1>14. byteAt(t, n) = CR => n \in 1..n /\ s[n] = CR
    <2> SUFFICES ASSUME byteAt(t, n) = CR PROVE n \in 1..n /\ s[n] = CR
      OBVIOUS
    <2>1. n # 0
      BY <1>1 DEF byteAt, CR
    <2>2. n \in 1..n /\ n \in 1..Len(t)
      BY <1>1, <2>1
    <2> QED
      BY <1>2, <2>2 DEF byteAt
  <1>15. \A x \in 1..Len(new) : new[x] = LF => byteAt(new, x - 1) = CR
    <2> SUFFICES ASSUME NEW x \in 1..Len(new), new[x] = LF
                 PROVE  byteAt(new, x - 1) = CR
      OBVIOUS
    <2>1. CASE x \in 1..Len(out)
      BY <1>8, <1>13, <2>1 DEF Dos
    <2>2. CASE x \notin 1..Len(out) /\ Bare(t, n + 1)
      <3>1. x = Len(out) + 1 \/ x = Len(new)
        BY <1>1, <1>11, <2>2
      <3>2. x # Len(out) + 1
        BY <1>6, <1>11, <2>2
      <3>3. x = Len(new) /\ x - 1 \in 1..Len(new)
        BY <1>1, <1>11, <2>2, <3>1, <3>2
      <3> QED
        BY <1>11, <2>2, <3>3 DEF byteAt
    <2>3. CASE x \notin 1..Len(out) /\ ~Bare(t, n + 1)
      <3>1. x = Len(new) /\ x = Len(out) + 1
        BY <1>1, <1>12, <2>3
      <3>2. c = LF
        BY <1>10, <3>1
      <3>3. n \in 1..n /\ s[n] = CR
        BY <1>4, <1>14, <2>3, <3>2
      <3>4. out[n + Shift(s, n)] = s[n] /\ n + Shift(s, n) \in 1..Len(out)
        BY <3>3, DosPlaces DEF Dos, n
      <3>5. x - 1 = n + Shift(s, n) /\ x - 1 \in 1..Len(new) /\ x - 1 \in 1..Len(out)
        BY <1>1, <1>3, <1>12, <2>3, <3>1, <3>4
      <3> QED
        BY <1>8, <3>3, <3>4, <3>5 DEF byteAt
    <2> QED
      BY <2>1, <2>2, <2>3
  <1>16. \A x \in 1..Len(t) : /\ new[x + Shift(t, x)] = t[x]
                              /\ Bare(t, x) => new[x + Shift(t, x) - 1] = CR
    <2> TAKE x \in 1..Len(t)
    <2>1. CASE x \in 1..n
      <3>1. /\ x + Shift(s, x) \in 1..Len(out)
            /\ Bare(s, x) => x + Shift(s, x) - 1 \in 1..Len(out)
        BY <2>1, DosPlaces DEF n
      <3>2. /\ out[x + Shift(s, x)] = s[x]
            /\ Bare(s, x) => out[x + Shift(s, x) - 1] = CR
        BY <2>1 DEF Dos, n
      <3>3. t[x] = s[x] /\ (Bare(t, x) <=> Bare(s, x)) /\ Shift(t, x) = Shift(s, x)
        BY <1>2, <2>1
      <3>4. new[x + Shift(s, x)] = s[x]
        BY <1>8, <3>1, <3>2
      <3>5. Bare(s, x) => new[x + Shift(s, x) - 1] = CR
        BY <1>8, <3>1, <3>2
      <3>6. new[x + Shift(t, x)] = t[x]
        BY <3>3, <3>4
      <3>7. Bare(t, x) => new[x + Shift(t, x) - 1] = CR
        BY <3>3, <3>5
      <3> QED
        BY <3>6, <3>7
    <2>2. CASE x = n + 1
      <3>1. x + Shift(t, x) = Len(new) /\ t[x] = c
        BY <1>1, <1>9, <2>2
      <3>2. new[x + Shift(t, x)] = t[x]
        BY <1>10, <3>1
      <3>3. Bare(t, n + 1) => new[Len(new) - 1] = CR
        BY <1>11
      <3>8. x \in Nat
        BY <1>1, <2>2
      <3>7. Shift(t, x) \in Nat
        BY <3>8, BareFinite
      <3>9. \A a, b \in Nat : a + b - 1 = (a + b) - 1
        OBVIOUS
      <3>5. x + Shift(t, x) - 1 = Len(new) - 1
        BY <3>1, <3>7, <3>8, <3>9
      <3>6. Bare(t, x) <=> Bare(t, n + 1)
        BY <2>2
      <3>4. Bare(t, x) => new[x + Shift(t, x) - 1] = CR
        BY <3>3, <3>5, <3>6, Zenon
      <3> QED
        BY <3>2, <3>4
    <2> QED
      BY <1>1, <2>1, <2>2
  <1>17. (\A x \in 1..Len(t) : ~Bare(t, x)) => new = t
    <2> SUFFICES ASSUME \A x \in 1..Len(t) : ~Bare(t, x) PROVE new = t
      OBVIOUS
    <2>1. \A x \in 1..n : x \in 1..Len(t)
      BY <1>1
    <2>2. n + 1 \in 1..Len(t)
      BY <1>1
    <2>3. out = s
      BY <1>2, <2>1 DEF Dos, n
    <2>4. Len(new) = Len(t) /\ new[n + 1] = t[n + 1]
      BY <1>1, <1>10, <1>12, <2>2, <2>3 DEF n
    <2>5. \A x \in 1..n : new[x] = t[x]
      BY <1>2, <1>8, <2>3 DEF n
    <2>6. \A x \in 1..Len(t) : new[x] = t[x]
      BY <1>1, <2>4, <2>5
    <2> QED
      BY <1>1, <1>8, <2>4, <2>6, SeqEqual
  <1>18. Dos(t, new)
    BY <1>9, <1>15, <1>16, <1>17 DEF Dos
  <1> QED
    BY <1>8, <1>18 DEF new, t, more, n

DosInv ==
    kind = "raw" => /\ in \in Seq(Octet) /\ st.out \in Seq(Octet)
                    /\ Dos(in, st.out)

LEMMA InitDos == Init => DosInv
  <1> SUFFICES ASSUME Init, kind = "raw" PROVE DosInv
    BY DEF DosInv
  <1>1. in = << >> /\ st.out = << >>
    BY StartFacts DEF Init
  <1>2. << >> \in Seq(Octet) /\ Len(<< >>) = 0 /\ 1..0 = {}
    OBVIOUS
  <1>3. Dos(<< >>, << >>)
    BY <1>2, ShiftZero DEF Dos
  <1> QED
    BY <1>1, <1>2, <1>3 DEF DosInv

LEMMA ReadByteSound ==
    ASSUME DosInv, ReadByte
    PROVE  DosInv'
  <1>1. /\ kind = "raw" /\ in \in Seq(Octet) /\ st.out \in Seq(Octet) /\ Dos(in, st.out)
    BY DEF DosInv, ReadByte
  <1>2. PICK c \in {97, CR, LF} : in' = Append(in, c)
    BY DEF ReadByte
  <1>3. c \in Octet
    BY DEF CR, LF, Octet
  <1>4. in' \in Seq(Octet) /\ Len(in') = Len(in) + 1
    BY <1>1, <1>2, <1>3, AppendProperties
  <1>5. st'.out = st.out \o unixToDOS(in', Len(in'))
    BY DEF ReadByte
  <1>6. st'.out = st.out \o unixToDOS(Append(in, c), Len(in) + 1)
    BY <1>2, <1>4, <1>5
  <1>7. st'.out \in Seq(Octet) /\ Dos(Append(in, c), st'.out)
    BY <1>1, <1>3, <1>6, DosAppend
  <1>8. Dos(in', st'.out)
    BY <1>2, <1>7
  <1>9. Dos(in, st.out)'
    BY <1>8 DEF Dos, Shift, BareUpTo, Bare, byteAt
  <1> QED
    BY <1>4, <1>7, <1>9 DEF DosInv

\* The saved input has DOS line ends, whatever it was.
THEOREM DosTheorem == Spec => []DosLines
  <1>1. DosInv /\ [Next]_vars => DosInv'
    <2> SUFFICES ASSUME DosInv, [Next]_vars PROVE DosInv'
      OBVIOUS
    <2>1. kind' = kind
      BY NextFacts
    <2>2. CASE kind # "raw"
      BY <2>1, <2>2 DEF DosInv
    <2>3. CASE kind = "raw" /\ UNCHANGED vars
      BY <2>3 DEF vars, DosInv, Dos, Shift, BareUpTo, Bare, byteAt
    <2>4. CASE kind = "raw" /\ Next
      <3>1. ReadByte
        BY <2>4, ActionKinds DEF Next, Blocks, Winmails
      <3> QED
        BY <3>1, ReadByteSound
    <2> QED
      BY <2>2, <2>3, <2>4
  <1>2. DosInv => DosLines
    BY DEF DosInv, DosLines, Dos, Shift, BareUpTo, Bare
  <1> QED
    BY InitDos, <1>1, <1>2, PTL DEF Spec

(***************************************************************************)
(* Quoted-printable                                                        *)
(***************************************************************************)

\* How the text goes on behind p bytes of it and q bytes of its content: with a
\* byte as it is, an escape, or a soft break.
Plain(points, line, s, p, q) ==
    /\ p + 1 <= Len(line) /\ q + 1 <= Len(s)
    /\ line[p + 1] # EqualSign /\ line[p + 1] = s[q + 1]
    /\ <<p + 1, q + 1>> \in points
Escape3(points, line, s, p, q) ==
    /\ p + 3 <= Len(line) /\ q + 1 <= Len(s)
    /\ line[p + 1] = EqualSign /\ line[p + 2] # CR /\ hcTab(line[p + 2]) # -1
    /\ Escape(line[p + 2], line[p + 3]) = s[q + 1]
    /\ <<p + 3, q + 1>> \in points
Soft(points, line, s, p, q) ==
    /\ p + 3 <= Len(line)
    /\ line[p + 1] = EqualSign /\ line[p + 2] = CR /\ line[p + 3] = LF
    /\ <<p + 3, q>> \in points

\* The points of a text and its content at which a token begins, and their ends.
TextTokens(points, line, s) ==
    \A p, q \in Nat : <<p, q>> \in points =>
        /\ p <= Len(line) /\ q <= Len(s)
        /\ p = Len(line) => q = Len(s)
        /\ p # Len(line) => \/ Plain(points, line, s, p, q)
                            \/ Escape3(points, line, s, p, q)
                            \/ Soft(points, line, s, p, q)

\* A hexadecimal digit is read as its value, in either case.
LEMMA HexFacts ==
    ASSUME NEW v \in 0..15, NEW d \in HexDigits(v)
    PROVE  hcTab(d) = v /\ d \in Octet /\ d # CR
  <1>1. CASE v < 10
    <2>1. d = 48 + v
      BY <1>1 DEF HexDigits
    <2>2. d \in 48..57 /\ d - 48 = v
      BY <1>1, <2>1
    <2> QED
      BY <2>2 DEF hcTab, Octet, CR
  <1>2. CASE ~(v < 10)
    <2>1. d = 55 + v \/ d = 87 + v
      BY <1>2 DEF HexDigits
    <2>2. CASE d = 55 + v
      <3>1. d \notin 48..57 /\ d \in 65..70 /\ d - 55 = v
        BY <1>2, <2>2
      <3> QED
        BY <3>1 DEF hcTab, Octet, CR
    <2>3. CASE d = 87 + v
      <3>1. d \notin 48..57 /\ d \notin 65..70 /\ d \in 97..102 /\ d - 87 = v
        BY <1>2, <2>3
      <3> QED
        BY <3>1 DEF hcTab, Octet, CR
    <2> QED
      BY <2>1, <2>2, <2>3
  <1> QED
    BY <1>1, <1>2

\* An escape is read as its byte.
LEMMA EscapeFacts ==
    ASSUME NEW c \in Octet, NEW a \in HexDigits(c \div 16), NEW b \in HexDigits(c % 16)
    PROVE  /\ Escape(a, b) = c /\ hcTab(a) # -1 /\ a # CR
           /\ a \in Octet /\ b \in Octet
  <1>1. \A x \in Octet : x \div 16 \in 0..15 /\ x % 16 \in 0..15
                         /\ (16 * (x \div 16) + (x % 16)) % 256 = x
    BY DEF Octet
  <1>2. c \div 16 \in 0..15 /\ c % 16 \in 0..15
    BY <1>1
  <1>3. hcTab(a) = c \div 16 /\ a \in Octet /\ a # CR
    BY <1>2, HexFacts
  <1>4. hcTab(b) = c % 16 /\ b \in Octet
    BY <1>2, HexFacts
  <1>5. hcTab(a) # -1
    BY <1>2, <1>3
  <1>6. Escape(a, b) = c
    BY <1>1, <1>3, <1>4 DEF Escape
  <1> QED
    BY <1>3, <1>4, <1>5, <1>6

\* A token at the end of a text makes a point of the new end; the others go on
\* as they did.
LEMMA TokensAppend ==
    ASSUME NEW line \in Seq(Octet), NEW s \in Seq(Octet), NEW points,
           TextTokens(points, line, s),
           NEW token \in Seq(Octet), NEW more \in Seq(Octet),
           \/ Len(token) = 1 /\ Len(more) = 1 /\ token[1] # EqualSign /\ token[1] = more[1]
           \/ /\ Len(token) = 3 /\ Len(more) = 1 /\ token[1] = EqualSign /\ token[2] # CR
              /\ hcTab(token[2]) # -1 /\ Escape(token[2], token[3]) = more[1]
           \/ /\ Len(token) = 3 /\ Len(more) = 0
              /\ token[1] = EqualSign /\ token[2] = CR /\ token[3] = LF
    PROVE  TextTokens(points \cup {<<Len(line \o token), Len(s \o more)>>},
                      line \o token, s \o more)
  <1> DEFINE line2 == line \o token
             s2 == s \o more
             n == Len(line)
             m == Len(s)
             new == <<Len(line2), Len(s2)>>
             points2 == points \cup {new}
  <1>1. /\ n \in Nat /\ m \in Nat /\ Len(token) \in Nat /\ Len(more) \in Nat
        /\ Len(token) > 0
    OBVIOUS
  <1>2. /\ Len(line2) = n + Len(token)
        /\ \A k \in 1..n : line2[k] = line[k]
        /\ \A k \in 1..Len(token) : line2[n + k] = token[k]
    BY ConcatFacts
  <1>3. /\ Len(s2) = m + Len(more)
        /\ \A k \in 1..m : s2[k] = s[k]
        /\ \A k \in 1..Len(more) : s2[m + k] = more[k]
    BY ConcatFacts
  <1> SUFFICES ASSUME NEW p \in Nat, NEW q \in Nat, <<p, q>> \in points2
               PROVE  /\ p <= Len(line2) /\ q <= Len(s2)
                      /\ p = Len(line2) => q = Len(s2)
                      /\ p # Len(line2) => \/ Plain(points2, line2, s2, p, q)
                                           \/ Escape3(points2, line2, s2, p, q)
                                           \/ Soft(points2, line2, s2, p, q)
    BY DEF TextTokens
  <1>4. CASE <<p, q>> = new
    BY <1>1, <1>2, <1>3, <1>4
  <1>5. CASE <<p, q>> \in points /\ p # n
    <2>1. /\ p <= n /\ q <= m
          /\ \/ Plain(points, line, s, p, q)
             \/ Escape3(points, line, s, p, q)
             \/ Soft(points, line, s, p, q)
      BY <1>5 DEF TextTokens
    <2>2. p <= Len(line2) /\ q <= Len(s2) /\ p # Len(line2)
      BY <1>1, <1>2, <1>3, <1>5, <2>1
    <2> HIDE DEF line2, s2, new
    <2>3. CASE Plain(points, line, s, p, q)
      <3>1. p + 1 \in 1..n /\ q + 1 \in 1..m
        BY <1>1, <2>3 DEF Plain
      <3>2. line2[p + 1] = line[p + 1] /\ s2[q + 1] = s[q + 1]
        BY <1>2, <1>3, <3>1
      <3>3. p + 1 <= Len(line2) /\ q + 1 <= Len(s2)
        BY <1>1, <1>2, <1>3, <3>1
      <3>4. Plain(points2, line2, s2, p, q)
        BY <2>3, <3>2, <3>3 DEF Plain
      <3> QED
        BY <2>2, <3>4
    <2>4. CASE Escape3(points, line, s, p, q)
      <3>0. p + 3 <= n /\ q + 1 <= m
        BY <2>4 DEF Escape3
      <3>1. p + 1 \in 1..n /\ p + 2 \in 1..n /\ p + 3 \in 1..n /\ q + 1 \in 1..m
        <4> HIDE DEF n, m
        <4> QED
          BY <1>1, <3>0
      <3>2. /\ line2[p + 1] = line[p + 1] /\ line2[p + 2] = line[p + 2]
            /\ line2[p + 3] = line[p + 3] /\ s2[q + 1] = s[q + 1]
        BY <1>2, <1>3, <3>1
      <3>3. p + 3 <= Len(line2) /\ q + 1 <= Len(s2)
        BY <1>1, <1>2, <1>3, <3>1
      <3>4. Escape3(points2, line2, s2, p, q)
        BY <2>4, <3>2, <3>3 DEF Escape3
      <3> QED
        BY <2>2, <3>4
    <2>5. CASE Soft(points, line, s, p, q)
      <3>0. p + 3 <= n
        BY <2>5 DEF Soft
      <3>1. p + 1 \in 1..n /\ p + 2 \in 1..n /\ p + 3 \in 1..n
        <4> HIDE DEF n
        <4> QED
          BY <1>1, <3>0
      <3>2. /\ line2[p + 1] = line[p + 1] /\ line2[p + 2] = line[p + 2]
            /\ line2[p + 3] = line[p + 3]
        BY <1>2, <3>1
      <3>3. p + 3 <= Len(line2)
        BY <1>1, <1>2, <3>1
      <3>4. Soft(points2, line2, s2, p, q)
        BY <2>5, <3>2, <3>3 DEF Soft
      <3> QED
        BY <2>2, <3>4
    <2> QED
      BY <2>1, <2>3, <2>4, <2>5
  <1>6. CASE <<p, q>> \in points /\ p = n
    <2>1. q = m
      BY <1>6 DEF TextTokens
    <2>2. p <= Len(line2) /\ q <= Len(s2) /\ p # Len(line2)
      BY <1>1, <1>2, <1>3, <1>6, <2>1
    <2>3. new \in points2
      OBVIOUS
    <2>4. new = <<n + Len(token), m + Len(more)>>
      BY <1>2, <1>3
    <2> HIDE DEF line2, s2, new, points2, n, m
    <2>5. CASE Len(token) = 1 /\ Len(more) = 1 /\ token[1] # EqualSign /\ token[1] = more[1]
      <3>1. line2[n + 1] = token[1] /\ s2[m + 1] = more[1]
        BY <1>2, <1>3, <2>5
      <3>2. n + 1 <= Len(line2) /\ m + 1 <= Len(s2)
        BY <1>1, <1>2, <1>3, <2>5
      <3>3. <<n + 1, m + 1>> \in points2
        BY <2>3, <2>4, <2>5
      <3>4. Plain(points2, line2, s2, n, m)
        BY <2>5, <3>1, <3>2, <3>3 DEF Plain
      <3> QED
        BY <1>6, <2>1, <2>2, <3>4
    <2>6. CASE /\ Len(token) = 3 /\ Len(more) = 1 /\ token[1] = EqualSign /\ token[2] # CR
               /\ hcTab(token[2]) # -1 /\ Escape(token[2], token[3]) = more[1]
      <3>1. /\ line2[n + 1] = token[1] /\ line2[n + 2] = token[2] /\ line2[n + 3] = token[3]
            /\ s2[m + 1] = more[1]
        BY <1>2, <1>3, <2>6
      <3>2. n + 3 <= Len(line2) /\ m + 1 <= Len(s2)
        BY <1>1, <1>2, <1>3, <2>6
      <3>3. <<n + 3, m + 1>> \in points2
        BY <2>3, <2>4, <2>6
      <3>4. Escape3(points2, line2, s2, n, m)
        BY <2>6, <3>1, <3>2, <3>3 DEF Escape3
      <3> QED
        BY <1>6, <2>1, <2>2, <3>4
    <2>7. CASE /\ Len(token) = 3 /\ Len(more) = 0
               /\ token[1] = EqualSign /\ token[2] = CR /\ token[3] = LF
      <3>1. line2[n + 1] = token[1] /\ line2[n + 2] = token[2] /\ line2[n + 3] = token[3]
        BY <1>2, <2>7
      <3>2. n + 3 <= Len(line2)
        BY <1>1, <1>2, <2>7
      <3>3. <<n + 3, m>> \in points2
        BY <1>1, <2>3, <2>4, <2>7
      <3>4. Soft(points2, line2, s2, n, m)
        BY <2>7, <3>1, <3>2, <3>3 DEF Soft
      <3> QED
        BY <1>6, <2>1, <2>2, <3>4
    <2> QED
      BY <2>5, <2>6, <2>7
  <1> QED
    BY <1>4, <1>5, <1>6

\* The reader is at a token, behind the bytes it has written.
TextInv ==
    kind = "text" =>
        /\ in \in Seq(Octet) /\ text \in Seq(Octet) /\ at \in Nat
        /\ st = [out |-> st.out]
        /\ Begins(st.out, in)
        /\ \E points : TextTokens(points, text, in) /\ <<at, Len(st.out)>> \in points

LEMMA InitText == Init => TextInv
  <1> SUFFICES ASSUME Init, kind = "text" PROVE TextInv
    BY DEF TextInv
  <1>1. in = << >> /\ text = << >> /\ at = 0 /\ st = [out |-> << >>] /\ st.out = << >>
    BY StartFacts DEF Init, Winmails
  <1>2. in \in Seq(Octet) /\ text \in Seq(Octet) /\ Len(in) = 0 /\ Len(text) = 0
    BY <1>1
  <1>3. Begins(st.out, in) /\ Len(st.out) = 0
    BY <1>1, <1>2, BeginsEmpty
  <1>4. TextTokens({<<0, 0>>}, text, in)
    BY <1>2 DEF TextTokens
  <1>5. <<at, Len(st.out)>> \in {<<0, 0>>}
    BY <1>1, <1>3
  <1> QED
    BY <1>1, <1>2, <1>3, <1>4, <1>5 DEF TextInv

\* What is written begins a longer content too.
LEMMA BeginsLonger ==
    ASSUME NEW s \in Seq(Octet), NEW more \in Seq(Octet), NEW out, Begins(out, s)
    PROVE  Begins(out, s \o more)
  <1>1. /\ Len(s) \in Nat /\ Len(more) \in Nat /\ Len(s \o more) = Len(s) + Len(more)
        /\ \A k \in 1..Len(s) : (s \o more)[k] = s[k]
    BY ConcatFacts
  <1>2. /\ out \in Seq(Octet) /\ Len(out) \in Nat /\ Len(out) <= Len(s)
        /\ \A k \in 1..Len(out) : out[k] = s[k]
    BY DEF Begins
  <1>3. \A k \in 1..Len(out) : k \in 1..Len(s)
    BY <1>1, <1>2
  <1> QED
    BY <1>1, <1>2, <1>3 DEF Begins

\* Whatever is written is a token.
LEMMA WrittenToken ==
    ASSUME TextInv, WriteText
    PROVE  \E token \in Seq(Octet), more \in Seq(Octet) :
              /\ text' = text \o token /\ in' = in \o more
              /\ \/ /\ Len(token) = 1 /\ Len(more) = 1
                    /\ token[1] # EqualSign /\ token[1] = more[1]
                 \/ /\ Len(token) = 3 /\ Len(more) = 1
                    /\ token[1] = EqualSign /\ token[2] # CR
                    /\ hcTab(token[2]) # -1 /\ Escape(token[2], token[3]) = more[1]
                 \/ /\ Len(token) = 3 /\ Len(more) = 0
                    /\ token[1] = EqualSign /\ token[2] = CR /\ token[3] = LF
  <1>1. in \in Seq(Octet) /\ text \in Seq(Octet)
    BY DEF TextInv, WriteText
  <1>2. EqualSign \in Octet /\ CR \in Octet /\ LF \in Octet
    BY DEF EqualSign, CR, LF, Octet
  <1>3. CASE \E c \in Texts : \E spelling \in Spellings(c) :
                 in' = Append(in, c) /\ text' = text \o spelling
    <2>1. PICK c \in Texts : \E spelling \in Spellings(c) :
                 in' = Append(in, c) /\ text' = text \o spelling
      BY <1>3
    <2>2. PICK spelling \in Spellings(c) : in' = Append(in, c) /\ text' = text \o spelling
      BY <2>1
    <2>3. c \in Octet
      BY BytesFacts
    <2>4. in' = in \o <<c>>
      BY <1>1, <2>2, <2>3
    <2>5. <<c>> \in Seq(Octet) /\ Len(<<c>>) = 1 /\ <<c>>[1] = c
      BY <2>3
    <2>6. CASE spelling \in Escapes(c)
      <3>1. PICK a \in HexDigits(c \div 16), b \in HexDigits(c % 16) :
                 spelling = <<EqualSign, a, b>>
        BY <2>6 DEF Escapes
      <3>2. /\ Escape(a, b) = c /\ hcTab(a) # -1 /\ a # CR
            /\ a \in Octet /\ b \in Octet
        BY <2>3, EscapeFacts
      <3>3. /\ spelling \in Seq(Octet) /\ Len(spelling) = 3
            /\ spelling[1] = EqualSign /\ spelling[2] = a /\ spelling[3] = b
        BY <1>2, <3>1, <3>2
      <3>4. /\ text' = text \o spelling /\ in' = in \o <<c>>
            /\ Len(spelling) = 3 /\ Len(<<c>>) = 1
            /\ spelling[1] = EqualSign /\ spelling[2] # CR
            /\ hcTab(spelling[2]) # -1 /\ Escape(spelling[2], spelling[3]) = <<c>>[1]
        BY <2>2, <2>4, <2>5, <3>2, <3>3
      <3> QED
        BY <2>5, <3>3, <3>4
    <2>7. CASE spelling = <<c>> /\ c # EqualSign
      <3>1. /\ spelling \in Seq(Octet) /\ Len(spelling) = 1 /\ spelling[1] = c
        BY <2>5, <2>7
      <3>2. /\ text' = text \o spelling /\ in' = in \o <<c>>
            /\ Len(spelling) = 1 /\ Len(<<c>>) = 1
            /\ spelling[1] # EqualSign /\ spelling[1] = <<c>>[1]
        BY <2>2, <2>4, <2>5, <2>7, <3>1
      <3> QED
        BY <2>5, <3>1, <3>2
    <2> QED
      BY <2>6, <2>7 DEF Spellings
  <1>4. CASE text' = text \o <<EqualSign, CR, LF>> /\ UNCHANGED in
    <2> DEFINE token == <<EqualSign, CR, LF>>
    <2>1. /\ token \in Seq(Octet) /\ Len(token) = 3
          /\ token[1] = EqualSign /\ token[2] = CR /\ token[3] = LF
      BY <1>2
    <2>2. << >> \in Seq(Octet) /\ Len(<< >>) = 0 /\ in' = in \o << >>
      BY <1>1, <1>4
    <2>3. text' = text \o token
      BY <1>4
    <2> HIDE DEF token
    <2> QED
      BY <2>1, <2>2, <2>3
  <1> QED
    BY <1>3, <1>4 DEF WriteText

LEMMA WriteTextSound ==
    ASSUME TextInv, WriteText
    PROVE  TextInv'
  <1>1. /\ kind = "text" /\ in \in Seq(Octet) /\ text \in Seq(Octet) /\ at \in Nat
        /\ st = [out |-> st.out] /\ Begins(st.out, in)
        /\ UNCHANGED <<kind, at, st>>
    BY DEF TextInv, WriteText
  <1>2. PICK points : TextTokens(points, text, in) /\ <<at, Len(st.out)>> \in points
    BY <1>1 DEF TextInv
  <1>3. PICK token \in Seq(Octet), more \in Seq(Octet) :
              /\ text' = text \o token /\ in' = in \o more
              /\ \/ /\ Len(token) = 1 /\ Len(more) = 1
                    /\ token[1] # EqualSign /\ token[1] = more[1]
                 \/ /\ Len(token) = 3 /\ Len(more) = 1
                    /\ token[1] = EqualSign /\ token[2] # CR
                    /\ hcTab(token[2]) # -1 /\ Escape(token[2], token[3]) = more[1]
                 \/ /\ Len(token) = 3 /\ Len(more) = 0
                    /\ token[1] = EqualSign /\ token[2] = CR /\ token[3] = LF
    BY WrittenToken
  <1> DEFINE points2 == points \cup {<<Len(text \o token), Len(in \o more)>>}
  <1>4. TextTokens(points2, text \o token, in \o more)
    BY <1>1, <1>2, <1>3, TokensAppend
  <1>5. <<at, Len(st.out)>> \in points2
    BY <1>2
  <1> HIDE DEF points2
  <1>6. Begins(st.out, in \o more)
    BY <1>1, BeginsLonger
  <1>7. in' \in Seq(Octet) /\ text' \in Seq(Octet)
    BY <1>1, <1>3, ConcatFacts
  <1>8. TextTokens(points2, text', in') /\ <<at', Len(st'.out)>> \in points2 /\ Begins(st'.out, in')
    BY <1>1, <1>3, <1>4, <1>5, <1>6
  <1>9. (\E p : TextTokens(p, text, in) /\ <<at, Len(st.out)>> \in p)'
    BY <1>8 DEF TextTokens, Plain, Escape3, Soft
  <1>10. Begins(st.out, in)'
    BY <1>8 DEF Begins
  <1> QED
    BY <1>1, <1>7, <1>9, <1>10 DEF TextInv

\* The next byte of a content.
LEMMA OneMore ==
    ASSUME NEW s \in Seq(Octet), NEW out, Begins(out, s), Len(out) + 1 <= Len(s)
    PROVE  /\ Begins(out \o <<s[Len(out) + 1]>>, s)
           /\ Len(out \o <<s[Len(out) + 1]>>) = Len(out) + 1
  <1> DEFINE more == <<s[Len(out) + 1]>>
  <1>1. Len(out) \in Nat /\ Len(s) \in Nat
    BY DEF Begins
  <1>2. Len(out) + 1 \in 1..Len(s)
    BY <1>1
  <1>3. s[Len(out) + 1] \in Octet
    BY <1>2
  <1>4. more \in Seq(Octet) /\ Len(more) = 1 /\ more[1] = s[Len(out) + 1]
    BY <1>3
  <1> HIDE DEF more
  <1>5. \A k \in 1..Len(more) : more[k] = s[Len(out) + k]
    BY <1>4
  <1>6. Begins(out \o more, s) /\ Len(out \o more) = Len(out) + Len(more)
    BY <1>4, <1>5, BeginsConcat
  <1> QED
    BY <1>4, <1>6 DEF more

LEMMA ReadTextSound ==
    ASSUME TextInv, ReadText
    PROVE  TextInv'
  <1>1. /\ kind = "text" /\ in \in Seq(Octet) /\ text \in Seq(Octet) /\ at \in Nat
        /\ Begins(st.out, in) /\ UNCHANGED <<kind, in, text>>
        /\ at < Len(text)
    BY DEF TextInv, ReadText
  <1>2. PICK points : TextTokens(points, text, in) /\ <<at, Len(st.out)>> \in points
    BY <1>1 DEF TextInv
  <1> DEFINE turn == qpDecodeLine(text, at + 1)
             q == Len(st.out)
  <1>3. st' = [out |-> st.out \o turn.out] /\ at' = turn.next - 1 /\ st'.out = st.out \o turn.out
    BY DEF ReadText
  <1>4. q \in Nat /\ st.out \in Seq(Octet) /\ Len(text) \in Nat
    BY <1>1 DEF Begins
  <1>5. \/ Plain(points, text, in, at, q)
        \/ Escape3(points, text, in, at, q)
        \/ Soft(points, text, in, at, q)
    BY <1>1, <1>2, <1>4 DEF TextTokens
  <1>6. (at + 1) + 1 = at + 2 /\ (at + 1) + 2 = at + 3 /\ (at + 1) + 3 = at + 4
        /\ (at + 2) - 1 = at + 1 /\ (at + 4) - 1 = at + 3
        /\ at + 1 \in Nat /\ at + 3 \in Nat
    BY <1>1
  <1>10. /\ at' \in Nat /\ Begins(st'.out, in)
         /\ <<at', Len(st'.out)>> \in points
    <2>7. CASE Plain(points, text, in, at, q)
      <3>1. /\ q + 1 <= Len(in) /\ text[at + 1] # EqualSign /\ text[at + 1] = in[q + 1]
            /\ <<at + 1, q + 1>> \in points
        BY <2>7 DEF Plain
      <3>2. turn = [out |-> <<text[at + 1]>>, next |-> (at + 1) + 1]
        BY <3>1 DEF qpDecodeLine
      <3>3. turn.out = <<in[q + 1]>> /\ turn.next = at + 2
        BY <1>6, <3>1, <3>2
      <3>4. at' = at + 1 /\ st'.out = st.out \o <<in[q + 1]>>
        BY <1>3, <1>6, <3>3
      <3> QED
        BY <1>1, <1>4, <1>6, <3>1, <3>4, OneMore
    <2>8. CASE Escape3(points, text, in, at, q)
      <3>1. /\ at + 3 <= Len(text) /\ q + 1 <= Len(in)
            /\ text[at + 1] = EqualSign /\ text[at + 2] # CR /\ hcTab(text[at + 2]) # -1
            /\ Escape(text[at + 2], text[at + 3]) = in[q + 1]
            /\ <<at + 3, q + 1>> \in points
        BY <2>8 DEF Escape3
      <3>2. byteAt(text, at + 2) = text[at + 2]
        <4>1. at + 2 \in 1..Len(text)
          BY <1>1, <1>4, <3>1
        <4> QED
          BY <4>1 DEF byteAt
      <3>3. EscapeFits(text, at + 1)
        BY <1>6, <3>1 DEF EscapeFits
      <3>4. turn = [out |-> <<Escape(text[at + 2], text[at + 3])>>, next |-> at + 4]
        BY <1>6, <3>1, <3>2, <3>3 DEF qpDecodeLine
      <3>5. at' = at + 3 /\ st'.out = st.out \o <<in[q + 1]>>
        <4>1. turn.out = <<in[q + 1]>> /\ turn.next = at + 4
          BY <3>1, <3>4
        <4> HIDE DEF turn
        <4>2. at' = at + 3
          BY <1>3, <1>6, <4>1
        <4>3. st'.out = st.out \o <<in[q + 1]>>
          BY <1>3, <4>1
        <4> QED
          BY <4>2, <4>3
      <3> QED
        BY <1>1, <1>4, <1>6, <3>1, <3>5, OneMore
    <2>9. CASE Soft(points, text, in, at, q)
      <3>1. /\ at + 3 <= Len(text)
            /\ text[at + 1] = EqualSign /\ text[at + 2] = CR /\ text[at + 3] = LF
            /\ <<at + 3, q>> \in points
        BY <2>9 DEF Soft
      <3>2. byteAt(text, at + 2) = CR /\ byteAt(text, at + 3) = LF
        <4>1. at + 2 \in 1..Len(text) /\ at + 3 \in 1..Len(text)
          BY <1>1, <1>4, <3>1
        <4> QED
          BY <3>1, <4>1 DEF byteAt
      <3>3. turn = [out |-> << >>, next |-> at + 4]
        BY <1>6, <3>1, <3>2 DEF qpDecodeLine
      <3>4. at' = at + 3 /\ st'.out = st.out
        <4>1. turn.out = << >> /\ turn.next = at + 4
          BY <3>3
        <4> HIDE DEF turn
        <4>2. st'.out = st.out \o << >>
          BY <1>3, <4>1
        <4>3. st.out \o << >> = st.out
          BY <1>4
        <4> QED
          BY <1>3, <1>6, <4>1, <4>2, <4>3
      <3> QED
        BY <1>1, <1>6, <3>1, <3>4
    <2> QED
      BY <1>5, <2>7, <2>8, <2>9
  <1>7. st' = [out |-> st'.out]
    BY <1>3
  <1>8. TextTokens(points, text', in') /\ <<at', Len(st'.out)>> \in points
    BY <1>1, <1>2, <1>10
  <1>9. (\E p : TextTokens(p, text, in) /\ <<at, Len(st.out)>> \in p)'
    BY <1>8 DEF TextTokens, Plain, Escape3, Soft
  <1>11. Begins(st.out, in)'
    BY <1>1, <1>10 DEF Begins
  <1> QED
    BY <1>1, <1>7, <1>9, <1>10, <1>11 DEF TextInv

\* Any quoted-printable line of any content is decoded to it.
THEOREM QuotedTheorem == Spec => []QuotedBody
  <1>1. TextInv /\ [Next]_vars => TextInv'
    <2> SUFFICES ASSUME TextInv, [Next]_vars PROVE TextInv'
      OBVIOUS
    <2>1. kind' = kind
      BY NextFacts
    <2>2. CASE kind # "text"
      BY <2>1, <2>2 DEF TextInv
    <2>3. CASE kind = "text" /\ UNCHANGED vars
      <3>1. UNCHANGED <<kind, in, text, at, st>>
        BY <2>3 DEF vars
      <3>2. /\ in \in Seq(Octet) /\ text \in Seq(Octet) /\ at \in Nat
            /\ st = [out |-> st.out] /\ Begins(st.out, in)
        BY <2>3 DEF TextInv
      <3>3. PICK points : TextTokens(points, text, in) /\ <<at, Len(st.out)>> \in points
        BY <2>3 DEF TextInv
      <3>4. TextTokens(points, text', in') /\ <<at', Len(st'.out)>> \in points
        BY <3>1, <3>3
      <3>5. (\E p : TextTokens(p, text, in) /\ <<at, Len(st.out)>> \in p)'
        BY <3>4 DEF TextTokens, Plain, Escape3, Soft
      <3>6. Begins(st.out, in)'
        BY <3>1, <3>2 DEF Begins
      <3> QED
        BY <3>1, <3>2, <3>5, <3>6 DEF TextInv
    <2>4. CASE kind = "text" /\ Next
      <3>1. WriteText \/ ReadText
        BY <2>4, ActionKinds DEF Next, Blocks, Winmails
      <3> QED
        BY <3>1, WriteTextSound, ReadTextSound
    <2> QED
      BY <2>2, <2>3, <2>4
  <1>2. TextInv => QuotedBody
    <2> SUFFICES ASSUME TextInv, kind = "text"
                 PROVE  /\ IsPrefix(st.out, in)
                        /\ at >= Len(text) => at = Len(text) /\ st.out = in
      BY DEF QuotedBody
    <2>1. /\ in \in Seq(Octet) /\ text \in Seq(Octet) /\ at \in Nat /\ Begins(st.out, in)
      BY DEF TextInv
    <2>2. PICK points : TextTokens(points, text, in) /\ <<at, Len(st.out)>> \in points
      BY DEF TextInv
    <2>3. Len(st.out) \in Nat /\ Len(text) \in Nat
      BY <2>1 DEF Begins
    <2>4. at <= Len(text) /\ (at = Len(text) => Len(st.out) = Len(in))
      BY <2>1, <2>2, <2>3 DEF TextTokens
    <2>5. at >= Len(text) => at = Len(text)
      BY <2>1, <2>3, <2>4
    <2> QED
      BY <2>1, <2>4, <2>5, BeginsPrefix
  <1> QED
    BY InitText, <1>1, <1>2, PTL DEF Spec

(***************************************************************************)
(* Header lines                                                            *)
(***************************************************************************)

\* The lines at which the loop stops, the headers before them, and which line
\* belongs to which.
Stops(s, x) == s[x].kind \in {"blank", "white"} \/ (s[x].kind = "fold" /\ x = 1)
Stopped(s) == \E j \in 1..Len(s) : Stops(s, j)
Heads(s) == {x \in 1..Len(s) : s[x].kind = "header" /\ \A j \in 1..x : ~Stops(s, j)}
HeadsTo(s, x) == {j \in Heads(s) : j <= x}
HeadRank(s, x) == Cardinality(HeadsTo(s, x))
Lines(s, x) == {j \in x..Len(s) : \A k \in x + 1..j : s[k].kind = "fold"}

LEMMA HeaderFacts ==
    ASSUME NEW line \in Header
    PROVE  /\ line.kind \in {"header", "fold", "white", "plain", "blank"}
           /\ line.kind = "header" => line.name \in Names /\ line.part \in Parts
           /\ line.kind = "fold" => line.part \in Parts
  BY DEF Header

LEMMA HeadsFinite ==
    ASSUME NEW s \in Seq(Header)
    PROVE  /\ IsFiniteSet(Heads(s)) /\ Cardinality(Heads(s)) \in Nat
           /\ \A x : IsFiniteSet(HeadsTo(s, x))
           /\ \A x \in Heads(s) : HeadRank(s, x) \in 1..Cardinality(Heads(s))
  <1>1. Len(s) \in Nat
    OBVIOUS
  <1>2. IsFiniteSet(1..Len(s))
    BY <1>1, FS_Interval
  <1>3. Heads(s) \subseteq 1..Len(s)
    BY DEF Heads
  <1>4. IsFiniteSet(Heads(s)) /\ Cardinality(Heads(s)) \in Nat
    BY <1>2, <1>3, FS_Subset, FS_CardinalityType
  <1>5. ASSUME NEW x
        PROVE  /\ IsFiniteSet(HeadsTo(s, x)) /\ HeadRank(s, x) \in Nat
               /\ HeadRank(s, x) <= Cardinality(Heads(s))
    <2>1. HeadsTo(s, x) \subseteq Heads(s)
      BY DEF HeadsTo
    <2> QED
      BY <1>4, <2>1, FS_Subset, FS_CardinalityType DEF HeadRank
  <1>6. ASSUME NEW x \in Heads(s) PROVE HeadRank(s, x) # 0
    <2>1. x \in HeadsTo(s, x)
      BY <1>3, <1>1 DEF HeadsTo
    <2> QED
      BY <1>5, <2>1, FS_EmptySet DEF HeadRank
  <1>7. ASSUME NEW x \in Heads(s) PROVE HeadRank(s, x) \in 1..Cardinality(Heads(s))
    BY <1>4, <1>5, <1>6
  <1> QED
    BY <1>4, <1>5, <1>7

\* One line more.
LEMMA LinesAppend ==
    ASSUME NEW s \in Seq(Header), NEW line \in Header
    PROVE  /\ Append(s, line)[Len(s) + 1] = line
           /\ Append(s, line) \in Seq(Header) /\ Len(Append(s, line)) = Len(s) + 1
           /\ \A j \in 1..Len(s) : /\ Append(s, line)[j] = s[j]
                                   /\ Stops(Append(s, line), j) <=> Stops(s, j)
  <1>1. /\ Append(s, line)[Len(s) + 1] = line
        /\ Append(s, line) \in Seq(Header) /\ Len(Append(s, line)) = Len(s) + 1
        /\ \A j \in 1..Len(s) : Append(s, line)[j] = s[j]
    BY AppendProperties
  <1> QED
    BY <1>1 DEF Stops

LEMMA HeadsAppend ==
    ASSUME NEW s \in Seq(Header), NEW line \in Header
    PROVE  /\ Stopped(Append(s, line)) <=> Stopped(s) \/ Stops(Append(s, line), Len(s) + 1)
           /\ Heads(Append(s, line)) = IF line.kind = "header" /\ ~Stopped(s)
                                       THEN Heads(s) \cup {Len(s) + 1} ELSE Heads(s)
  <1> DEFINE n == Len(s)
             t == Append(s, line)
  <1>1. /\ n \in Nat /\ Len(t) = n + 1 /\ t[n + 1] = line
        /\ \A j \in 1..n : t[j] = s[j]
        /\ \A j \in 1..n : Stops(t, j) <=> Stops(s, j)
    BY LinesAppend
  <1> HIDE DEF t
  <1>2. 1..n + 1 = (1..n) \cup {n + 1} /\ n + 1 \notin 1..n
    BY <1>1
  <1>3. Stopped(t) <=> Stopped(s) \/ Stops(t, n + 1)
    BY <1>1, <1>2 DEF Stopped
  <1>4. \A x \in 1..n : x \in Heads(t) <=> x \in Heads(s)
    <2> TAKE x \in 1..n
    <2>1. \A j \in 1..x : j \in 1..n
      BY <1>1
    <2>2. t[x] = s[x] /\ \A j \in 1..x : Stops(t, j) <=> Stops(s, j)
      BY <1>1, <2>1
    <2>3. x \in 1..Len(t)
      BY <1>1
    <2> QED
      BY <2>2, <2>3 DEF Heads
  <1>5. n + 1 \in Heads(t) <=> line.kind = "header" /\ ~Stopped(s)
    <2>1. n + 1 \in Heads(t) <=> line.kind = "header" /\ \A j \in 1..n + 1 : ~Stops(t, j)
      BY <1>1, <1>2 DEF Heads
    <2>2. line.kind = "header" => ~Stops(t, n + 1)
      BY <1>1 DEF Stops
    <2>3. Stopped(s) <=> \E j \in 1..n : Stops(t, j)
      BY <1>1 DEF Stopped
    <2> QED
      BY <1>2, <2>1, <2>2, <2>3
  <1>6. Heads(t) \subseteq 1..n + 1 /\ Heads(s) \subseteq 1..n
    BY <1>1 DEF Heads
  <1>7. Heads(t) = IF line.kind = "header" /\ ~Stopped(s)
                   THEN Heads(s) \cup {n + 1} ELSE Heads(s)
    <2>1. \A x \in Heads(t) : x \in 1..n \/ x = n + 1
      BY <1>2, <1>6
    <2>2. CASE line.kind = "header" /\ ~Stopped(s)
      <3>1. n + 1 \in Heads(t)
        BY <1>5, <2>2
      <3>2. Heads(t) = Heads(s) \cup {n + 1}
        BY <1>4, <1>6, <2>1, <3>1
      <3> QED
        BY <2>2, <3>2
    <2>3. CASE ~(line.kind = "header" /\ ~Stopped(s))
      <3>1. n + 1 \notin Heads(t)
        BY <1>5, <2>3
      <3>2. Heads(t) = Heads(s)
        BY <1>4, <1>6, <2>1, <3>1
      <3> QED
        BY <2>3, <3>2
    <2> QED
      BY <2>2, <2>3
  <1> QED
    BY <1>3, <1>7 DEF t

LEMMA RankAppend ==
    ASSUME NEW s \in Seq(Header), NEW line \in Header
    PROVE  /\ \A x \in Heads(s) : HeadRank(Append(s, line), x) = HeadRank(s, x)
           /\ line.kind = "header" /\ ~Stopped(s)
              => /\ Cardinality(Heads(Append(s, line))) = Cardinality(Heads(s)) + 1
                 /\ HeadRank(Append(s, line), Len(s) + 1) = Cardinality(Heads(s)) + 1
  <1> DEFINE n == Len(s)
             t == Append(s, line)
  <1>1. /\ n \in Nat /\ Heads(s) \subseteq 1..n /\ n + 1 \notin Heads(s)
    BY DEF Heads
  <1>2. Heads(t) = Heads(s) \/ Heads(t) = Heads(s) \cup {n + 1}
    BY HeadsAppend
  <1>3. ASSUME NEW x \in Heads(s) PROVE HeadRank(t, x) = HeadRank(s, x)
    <2>1. HeadsTo(t, x) = HeadsTo(s, x)
      BY <1>1, <1>2 DEF HeadsTo
    <2> QED
      BY <2>1 DEF HeadRank
  <1>4. ASSUME line.kind = "header", ~Stopped(s)
        PROVE  /\ Cardinality(Heads(t)) = Cardinality(Heads(s)) + 1
               /\ HeadRank(t, n + 1) = Cardinality(Heads(s)) + 1
    <2>1. Heads(t) = Heads(s) \cup {n + 1}
      BY <1>4, HeadsAppend
    <2>2. Cardinality(Heads(t)) = Cardinality(Heads(s)) + 1
      BY <1>1, <2>1, HeadsFinite, FS_AddElement
    <2>3. HeadsTo(t, n + 1) = Heads(t)
      BY <1>1, <2>1 DEF HeadsTo
    <2> QED
      BY <2>2, <2>3 DEF HeadRank
  <1> QED
    BY <1>3, <1>4

LEMMA FoldsAppend ==
    ASSUME NEW s \in Seq(Header), NEW line \in Header
    PROVE  /\ \A x \in Heads(s) :
                 Lines(Append(s, line), x) =
                     IF line.kind = "fold" /\ Len(s) \in Lines(s, x)
                     THEN Lines(s, x) \cup {Len(s) + 1} ELSE Lines(s, x)
           /\ Lines(Append(s, line), Len(s) + 1) = {Len(s) + 1}
           /\ \A x \in Heads(s) : Stopped(s) => Len(s) \notin Lines(s, x)
  <1> DEFINE n == Len(s)
             t == Append(s, line)
  <1>1. /\ n \in Nat /\ Len(t) = n + 1 /\ t[n + 1] = line
        /\ \A j \in 1..n : t[j] = s[j]
    BY LinesAppend
  <1>2. Heads(s) \subseteq 1..n
    BY DEF Heads
  <1> HIDE DEF t
  <1>3. ASSUME NEW x \in Heads(s)
        PROVE  Lines(t, x) = IF line.kind = "fold" /\ n \in Lines(s, x)
                             THEN Lines(s, x) \cup {n + 1} ELSE Lines(s, x)
    <2>1. x \in 1..n
      BY <1>2
    <2>2. x..n + 1 = (x..n) \cup {n + 1} /\ n + 1 \notin x..n /\ n \in x..n
          /\ x + 1..n + 1 = (x + 1..n) \cup {n + 1}
      BY <1>1, <2>1
    <2>3. \A j \in x..n : j \in Lines(t, x) <=> j \in Lines(s, x)
      <3> TAKE j \in x..n
      <3>1. \A k \in x + 1..j : k \in 1..n
        BY <1>1, <2>1
      <3>2. \A k \in x + 1..j : t[k] = s[k]
        BY <1>1, <3>1
      <3>3. j \in x..Len(t)
        BY <1>1, <2>2
      <3> QED
        BY <3>2, <3>3 DEF Lines
    <2>4. n + 1 \in Lines(t, x) <=> line.kind = "fold" /\ n \in Lines(s, x)
      <3>1. n + 1 \in Lines(t, x) <=> \A k \in x + 1..n + 1 : t[k].kind = "fold"
        BY <1>1, <2>2 DEF Lines
      <3>2. n \in Lines(s, x) <=> \A k \in x + 1..n : s[k].kind = "fold"
        BY <2>2 DEF Lines
      <3>3. \A k \in x + 1..n : t[k] = s[k]
        <4>1. \A k \in x + 1..n : k \in 1..n
          BY <1>1, <2>1
        <4> QED
          BY <1>1, <4>1
      <3> QED
        BY <1>1, <2>2, <3>1, <3>2, <3>3
    <2>5. Lines(t, x) \subseteq x..n + 1 /\ Lines(s, x) \subseteq x..n
      BY <1>1 DEF Lines
    <2>6. \A j \in Lines(t, x) : j \in x..n \/ j = n + 1
      BY <2>2, <2>5
    <2>7. CASE line.kind = "fold" /\ n \in Lines(s, x)
      <3>1. n + 1 \in Lines(t, x)
        BY <2>4, <2>7
      <3>2. Lines(t, x) = Lines(s, x) \cup {n + 1}
        BY <2>3, <2>5, <2>6, <3>1
      <3> QED
        BY <2>7, <3>2
    <2>8. CASE ~(line.kind = "fold" /\ n \in Lines(s, x))
      <3>1. n + 1 \notin Lines(t, x)
        BY <2>4, <2>8
      <3>2. Lines(t, x) = Lines(s, x)
        BY <2>3, <2>5, <2>6, <3>1
      <3> QED
        BY <2>8, <3>2
    <2> QED
      BY <2>7, <2>8
  <1>4. Lines(t, n + 1) = {n + 1}
    BY <1>1 DEF Lines
  <1>5. ASSUME NEW x \in Heads(s), Stopped(s) PROVE n \notin Lines(s, x)
    <2>1. PICK j \in 1..n : Stops(s, j)
      BY <1>5 DEF Stopped
    <2>2. x \in 1..n /\ \A k \in 1..x : ~Stops(s, k)
      BY DEF Heads
    <2>3. j \notin 1..x
      BY <2>1, <2>2
    <2>4. j \in x + 1..n /\ j # 1
      BY <1>1, <2>1, <2>2, <2>3
    <2>5. s[j].kind # "fold"
      BY <2>1, <2>4 DEF Stops
    <2> QED
      BY <2>4, <2>5 DEF Lines
  <1> QED
    BY <1>3, <1>4, <1>5 DEF t

\* The parts a header has are those of its lines.
Node == [name : Names, val : Seq(Parts)]
Values(val, s, x) ==
    /\ \A k \in Nat : k \in 1..Len(val) <=> (k > 0 /\ x + k - 1 \in Lines(s, x))
    /\ \A k \in 1..Len(val) : val[k] = s[x + k - 1].part

\* What the loop has made of the lines s.  Folded lines go to the header whose
\* lines reach the end, if there is one.
Parsed(z, s) ==
    /\ z.nodes \in Seq(Node) /\ z.last \in Int /\ z.ends \in BOOLEAN
    /\ z = [nodes |-> z.nodes, last |-> z.last, ends |-> z.ends]
    /\ z.ends <=> Stopped(s)
    /\ Len(z.nodes) = Cardinality(Heads(s))
    /\ \A x \in Heads(s) : /\ z.nodes[HeadRank(s, x)].name = s[x].name
                           /\ Values(z.nodes[HeadRank(s, x)].val, s, x)
    /\ ~z.ends => /\ z.last \in {Root, 0} \/ \E x \in Heads(s) : Len(s) \in Lines(s, x)
                  /\ z.last = 0 <=> Len(s) = 0
                  /\ \A x \in Heads(s) :
                        Len(s) \in Lines(s, x) <=> z.last = HeadRank(s, x)

\* Lines that do not change what a header has.
LEMMA ValuesSame ==
    ASSUME NEW s \in Seq(Header), NEW line \in Header, NEW x \in Heads(s),
           NEW val, Values(val, s, x), Lines(Append(s, line), x) = Lines(s, x)
    PROVE  Values(val, Append(s, line), x)
  <1>1. \A j \in 1..Len(s) : Append(s, line)[j] = s[j]
    BY LinesAppend
  <1>2. Lines(s, x) \subseteq 1..Len(s)
    <2>1. x \in 1..Len(s) /\ Len(s) \in Nat
      BY DEF Heads
    <2> QED
      BY <2>1 DEF Lines
  <1>3. ASSUME NEW k \in 1..Len(val) PROVE Append(s, line)[x + k - 1].part = s[x + k - 1].part
    <2>1. x + k - 1 \in Lines(s, x)
      BY DEF Values
    <2> QED
      BY <1>1, <1>2, <2>1
  <1> QED
    BY <1>3 DEF Values

\* A folded line goes to the header whose lines reach the end.
LEMMA ValuesMore ==
    ASSUME NEW s \in Seq(Header), NEW line \in Header, NEW x \in Heads(s),
           NEW val \in Seq(Parts), Values(val, s, x),
           line.kind = "fold", Len(s) \in Lines(s, x)
    PROVE  Values(Append(val, line.part), Append(s, line), x)
  <1> DEFINE n == Len(s)
             m == Len(val)
             t == Append(s, line)
             v == Append(val, line.part)
  <1>1. /\ n \in Nat /\ m \in Nat /\ x \in 1..n
        /\ t[n + 1] = line /\ \A j \in 1..n : t[j] = s[j]
    BY LinesAppend DEF Heads
  <1>2. Lines(t, x) = Lines(s, x) \cup {n + 1}
    BY FoldsAppend
  <1>3. line.part \in Parts
    BY HeaderFacts
  <1>4. /\ v \in Seq(Parts) /\ Len(v) = m + 1 /\ v[m + 1] = line.part
        /\ \A k \in 1..m : v[k] = val[k]
    BY <1>3, AppendProperties
  <1>5. Lines(s, x) \subseteq x..n
    BY DEF Lines
  <1> HIDE DEF t, v
  <1>6. x + (m + 1) - 1 = n + 1
    <2>1. n - x + 1 \in Nat /\ n - x + 1 > 0 /\ x + (n - x + 1) - 1 = n
      BY <1>1
    <2>2. n - x + 1 \in 1..m
      BY <2>1 DEF Values
    <2>3. ~(m + 1 \in 1..m) /\ m + 1 \in Nat /\ m + 1 > 0
      BY <1>1
    <2>4. x + (m + 1) - 1 \notin Lines(s, x)
      BY <2>3 DEF Values
    <2>5. m \in 1..m /\ x + m - 1 \in Lines(s, x)
      <3>1. m \in 1..m
        BY <1>1, <2>2
      <3> QED
        BY <3>1 DEF Values
    <2>6. m <= n - x + 1
      BY <1>1, <1>5, <2>5
    <2> QED
      BY <1>1, <2>2, <2>6
  <1>7. \A k \in Nat : k \in 1..m + 1 <=> (k > 0 /\ x + k - 1 \in Lines(t, x))
    <2> TAKE k \in Nat
    <2>1. CASE k = m + 1
      BY <1>1, <1>2, <1>6, <2>1
    <2>2. CASE k # m + 1
      <3>1. x + k - 1 # n + 1
        BY <1>1, <1>6, <2>2
      <3>2. k \in 1..m + 1 <=> k \in 1..m
        BY <1>1, <2>2
      <3> QED
        BY <1>2, <3>1, <3>2 DEF Values
    <2> QED
      BY <2>1, <2>2
  <1>8. ASSUME NEW k \in 1..m + 1 PROVE v[k] = t[x + k - 1].part
    <2>1. CASE k = m + 1
      BY <1>1, <1>4, <1>6, <2>1
    <2>2. CASE k # m + 1
      <3>1. k \in 1..m
        BY <1>1, <2>2
      <3>2. x + k - 1 \in Lines(s, x) /\ val[k] = s[x + k - 1].part
        BY <3>1 DEF Values
      <3>3. x + k - 1 \in 1..n
        BY <1>1, <1>5, <3>2
      <3> QED
        BY <1>1, <1>4, <3>1, <3>2, <3>3
    <2> QED
      BY <2>1, <2>2
  <1>9. Values(v, t, x)
    BY <1>4, <1>7, <1>8 DEF Values
  <1> QED
    BY <1>9 DEF v, t

\* What one line makes of the state.
LEMMA ParseCases ==
    ASSUME NEW z, NEW line \in Header,
           z.nodes \in Seq(Node), z.last \in Int, z.ends = FALSE,
           z = [nodes |-> z.nodes, last |-> z.last, ends |-> z.ends]
    PROVE  /\ line.kind = "header" =>
                 HeaderParse(z, line) =
                     [nodes |-> Append(z.nodes, [name |-> line.name, val |-> <<line.part>>]),
                      last |-> Len(z.nodes) + 1, ends |-> FALSE]
           /\ line.kind = "plain" =>
                 HeaderParse(z, line) = [nodes |-> z.nodes, last |-> Root, ends |-> FALSE]
           /\ line.kind \in {"blank", "white"} =>
                 HeaderParse(z, line) = [nodes |-> z.nodes, last |-> z.last, ends |-> TRUE]
           /\ line.kind = "fold" =>
                 HeaderParse(z, line) =
                     [nodes |-> IF z.last \in DOMAIN z.nodes
                                THEN [z.nodes EXCEPT ![z.last].val = Append(@, line.part)]
                                ELSE z.nodes,
                      last |-> z.last, ends |-> (z.last = 0)]
  <1> DEFINE nodes == z.nodes
             last == z.last
  <1>1. z = [nodes |-> nodes, last |-> last, ends |-> FALSE]
    OBVIOUS
  <1>2. HeaderParse(z, line) = parse822(z, line)
    BY DEF HeaderParse
  <1> HIDE DEF nodes, last
  <1>3. CASE line.kind = "header"
    BY <1>1, <1>2, <1>3 DEF parse822, nodes, last
  <1>4. CASE line.kind = "plain"
    BY <1>1, <1>2, <1>4 DEF parse822, AfterPlain, nodes, last
  <1>5. CASE line.kind \in {"blank", "white"}
    BY <1>1, <1>2, <1>5 DEF parse822, nodes, last
  <1>6. CASE line.kind = "fold"
    BY <1>1, <1>2, <1>6 DEF parse822, nodes, last
  <1> QED
    BY <1>3, <1>4, <1>5, <1>6

\* What the nodes have of s they have of t.
Undisturbed(z, s, t) ==
    /\ Len(z.nodes) = Cardinality(Heads(t)) /\ Heads(t) = Heads(s)
    /\ \A x \in Heads(s) : /\ HeadRank(t, x) = HeadRank(s, x)
                           /\ Lines(t, x) = Lines(s, x)
                           /\ z.nodes[HeadRank(s, x)].name = t[x].name
                           /\ Values(z.nodes[HeadRank(s, x)].val, t, x)
                           /\ Len(s) + 1 \notin Lines(t, x)

\* A line that adds to no header and is none.
LEMMA ParsedSame ==
    ASSUME NEW s \in Seq(Header), NEW line \in Header, NEW z, Parsed(z, s),
           ~(line.kind = "header" /\ ~z.ends),
           \A x \in Heads(s) : ~(line.kind = "fold" /\ Len(s) \in Lines(s, x))
    PROVE  Undisturbed(z, s, Append(s, line))
  <1>1. /\ Len(z.nodes) = Cardinality(Heads(s)) /\ (z.ends <=> Stopped(s))
        /\ \A x \in Heads(s) : /\ z.nodes[HeadRank(s, x)].name = s[x].name
                               /\ Values(z.nodes[HeadRank(s, x)].val, s, x)
    BY DEF Parsed
  <1>2. Heads(Append(s, line)) = Heads(s)
    BY <1>1, HeadsAppend
  <1>3. ASSUME NEW x \in Heads(s)
        PROVE  /\ HeadRank(Append(s, line), x) = HeadRank(s, x)
               /\ Lines(Append(s, line), x) = Lines(s, x)
               /\ z.nodes[HeadRank(s, x)].name = Append(s, line)[x].name
               /\ Values(z.nodes[HeadRank(s, x)].val, Append(s, line), x)
               /\ Len(s) + 1 \notin Lines(Append(s, line), x)
    <2>1. HeadRank(Append(s, line), x) = HeadRank(s, x)
      BY RankAppend
    <2>2. Lines(Append(s, line), x) = Lines(s, x)
      BY FoldsAppend
    <2>3. Values(z.nodes[HeadRank(s, x)].val, Append(s, line), x)
      BY <1>1, <2>2, ValuesSame
    <2>4. x \in 1..Len(s)
      BY DEF Heads
    <2>5. Append(s, line)[x] = s[x]
      BY <2>4, LinesAppend
    <2>6. Len(s) + 1 \notin Lines(s, x)
      <3>1. Len(s) \in Nat
        OBVIOUS
      <3> QED
        BY <3>1 DEF Lines
    <2> QED
      BY <1>1, <2>1, <2>2, <2>3, <2>5, <2>6
  <1> QED
    BY <1>1, <1>2, <1>3 DEF Undisturbed

\* One line more of a header.
LEMMA ParsedAppend ==
    ASSUME NEW s \in Seq(Header), NEW line \in Header, NEW z, Parsed(z, s)
    PROVE  Parsed(HeaderParse(z, line), Append(s, line))
  <1> DEFINE n == Len(s)
             t == Append(s, line)
             y == HeaderParse(z, line)
             nodes == z.nodes
             last == z.last
             m == Len(nodes)
  <1>1. /\ nodes \in Seq(Node) /\ last \in Int /\ z.ends \in BOOLEAN
        /\ z = [nodes |-> nodes, last |-> last, ends |-> z.ends]
        /\ z.ends <=> Stopped(s)
        /\ m = Cardinality(Heads(s))
        /\ \A x \in Heads(s) : /\ nodes[HeadRank(s, x)].name = s[x].name
                               /\ Values(nodes[HeadRank(s, x)].val, s, x)
    BY DEF Parsed
  <1>2. ~z.ends => /\ last \in {Root, 0} \/ \E x \in Heads(s) : n \in Lines(s, x)
                   /\ last = 0 <=> n = 0
                   /\ \A x \in Heads(s) : n \in Lines(s, x) <=> last = HeadRank(s, x)
    BY DEF Parsed
  <1>3. /\ n \in Nat /\ m \in Nat /\ Len(t) = n + 1 /\ t[n + 1] = line /\ t \in Seq(Header)
        /\ \A j \in 1..n : t[j] = s[j]
    BY <1>1, LinesAppend
  <1>4. \A x \in Heads(s) : x \in 1..n /\ HeadRank(s, x) \in 1..m
    BY <1>1, HeadsFinite DEF Heads
  <1>5. line.kind \in {"header", "fold", "white", "plain", "blank"}
    BY HeaderFacts
  <1>6. Stopped(t) <=> Stopped(s) \/ Stops(t, n + 1)
    BY HeadsAppend
  <1>7. Stops(t, n + 1) <=> line.kind \in {"blank", "white"} \/ (line.kind = "fold" /\ n = 0)
    <2>1. n + 1 = 1 <=> n = 0
      BY <1>3
    <2> QED
      BY <1>3, <2>1 DEF Stops
  <1>8. Root \in Int /\ Root = -1
    BY DEF Root
  <1>9. CASE z.ends
    <2>1. y = z
      BY <1>9 DEF HeaderParse
    <2>2. \A x \in Heads(s) : n \notin Lines(s, x)
      BY <1>1, <1>9, FoldsAppend
    <2>20. ~(line.kind = "header" /\ ~z.ends)
      BY <1>9
    <2>21. \A x \in Heads(s) : ~(line.kind = "fold" /\ n \in Lines(s, x))
      BY <1>9, <2>2
    <2>22. Undisturbed(z, s, t)
      BY <2>20, <2>21, ParsedSame
    <2>3. /\ m = Cardinality(Heads(t)) /\ Heads(t) = Heads(s)
          /\ \A x \in Heads(s) : /\ HeadRank(t, x) = HeadRank(s, x)
                                 /\ nodes[HeadRank(s, x)].name = t[x].name
                                 /\ Values(nodes[HeadRank(s, x)].val, t, x)
      BY <2>22 DEF Undisturbed
    <2>4. Stopped(t)
      BY <1>1, <1>6, <1>9
    <2> HIDE DEF y, t, n, m
    <2>5. Parsed(z, t)
      BY <1>1, <1>9, <2>3, <2>4 DEF Parsed, m
    <2> QED
      BY <2>1, <2>5 DEF y, t
  <1>10. CASE ~z.ends /\ line.kind = "header"
    <2> DEFINE node == [name |-> line.name, val |-> <<line.part>>]
               more == Append(nodes, node)
    <2>1. y = [nodes |-> more, last |-> m + 1, ends |-> FALSE]
      BY <1>1, <1>10, ParseCases
    <2>2. line.name \in Names /\ line.part \in Parts
      BY <1>10, HeaderFacts
    <2>3. /\ node \in Node /\ node.name = line.name /\ node.val = <<line.part>>
      BY <2>2 DEF Node
    <2> HIDE DEF node
    <2>4. /\ more \in Seq(Node) /\ Len(more) = m + 1 /\ more[m + 1] = node
          /\ \A k \in 1..m : more[k] = nodes[k]
      BY <1>1, <2>3, AppendProperties
    <2>5. /\ Heads(t) = Heads(s) \cup {n + 1}
          /\ Cardinality(Heads(t)) = m + 1 /\ HeadRank(t, n + 1) = m + 1
          /\ Lines(t, n + 1) = {n + 1}
      BY <1>1, <1>10, HeadsAppend, RankAppend, FoldsAppend
    <2>6. ~Stopped(t)
      BY <1>1, <1>6, <1>7, <1>10
    <2>7. Values(<<line.part>>, t, n + 1)
      <3>1. Len(<<line.part>>) = 1 /\ <<line.part>>[1] = line.part
        OBVIOUS
      <3>2. \A k \in Nat : n + 1 + k - 1 = n + 1 <=> k = 1
        BY <1>3
      <3>3. \A k \in Nat : k \in 1..1 <=> k = 1
        OBVIOUS
      <3>4. n + 1 + 1 - 1 = n + 1
        BY <1>3
      <3> HIDE DEF t, n
      <3>5. \A k \in Nat : k \in 1..1 <=> (k > 0 /\ n + 1 + k - 1 \in Lines(t, n + 1))
        BY <2>5, <3>2, <3>3
      <3>6. \A k \in 1..1 : <<line.part>>[k] = t[n + 1 + k - 1].part
        BY <1>3, <3>1, <3>4
      <3> QED
        BY <3>1, <3>5, <3>6 DEF Values
    <2>8. ASSUME NEW x \in Heads(t)
          PROVE  /\ more[HeadRank(t, x)].name = t[x].name
                 /\ Values(more[HeadRank(t, x)].val, t, x)
                 /\ n + 1 \in Lines(t, x) <=> m + 1 = HeadRank(t, x)
      <3>1. CASE x = n + 1
        <4>1. more[HeadRank(t, x)] = node
          BY <2>4, <2>5, <3>1
        <4>2. more[HeadRank(t, x)].name = t[x].name
          BY <1>3, <2>3, <3>1, <4>1
        <4>3. Values(more[HeadRank(t, x)].val, t, x)
          BY <2>3, <2>7, <3>1, <4>1
        <4>4. n + 1 \in Lines(t, x) /\ m + 1 = HeadRank(t, x)
          BY <2>5, <3>1
        <4> QED
          BY <4>2, <4>3, <4>4
      <3>2. CASE x \in Heads(s)
        <4>1. HeadRank(t, x) = HeadRank(s, x) /\ HeadRank(s, x) \in 1..m /\ x \in 1..n
          BY <1>4, <3>2, RankAppend
        <4>2. more[HeadRank(t, x)] = nodes[HeadRank(s, x)]
          BY <2>4, <4>1
        <4>3. Lines(t, x) = Lines(s, x)
          BY <1>10, <3>2, FoldsAppend
        <4>4. Values(nodes[HeadRank(s, x)].val, t, x)
          BY <1>1, <3>2, <4>3, ValuesSame
        <4>5. n + 1 \notin Lines(t, x)
          <5>1. Lines(s, x) \subseteq x..n
            BY DEF Lines
          <5> QED
            BY <1>3, <4>1, <4>3, <5>1
        <4>6. m + 1 # HeadRank(t, x)
          BY <1>3, <4>1
        <4>7. nodes[HeadRank(s, x)].name = t[x].name
          BY <1>1, <1>3, <3>2, <4>1
        <4>8. more[HeadRank(t, x)].name = t[x].name
          BY <4>2, <4>7
        <4>9. Values(more[HeadRank(t, x)].val, t, x)
          BY <4>2, <4>4
        <4> QED
          BY <4>5, <4>6, <4>8, <4>9
      <3> QED
        BY <2>5, <3>1, <3>2
    <2>9. /\ y.nodes = more /\ y.last = m + 1 /\ y.ends = FALSE
          /\ y = [nodes |-> y.nodes, last |-> y.last, ends |-> y.ends]
      BY <2>1
    <2>10. /\ m + 1 \in Int /\ m + 1 # 0 /\ Len(t) # 0
      BY <1>3
    <2>12. \E x \in Heads(t) : Len(t) \in Lines(t, x)
      BY <1>3, <2>5
    <2> HIDE DEF y, t, n, m, more, nodes
    <2>11. Parsed(y, t)
      BY <1>3, <2>4, <2>5, <2>6, <2>8, <2>9, <2>10, <2>12 DEF Parsed
    <2> QED
      BY <2>11 DEF y, t
  <1>11. CASE ~z.ends /\ line.kind = "plain"
    <2>1. y = [nodes |-> nodes, last |-> Root, ends |-> FALSE]
      BY <1>1, <1>11, ParseCases
    <2>20. ~(line.kind = "header" /\ ~z.ends)
      BY <1>11
    <2>21. \A x \in Heads(s) : ~(line.kind = "fold" /\ n \in Lines(s, x))
      BY <1>11
    <2>22. Undisturbed(z, s, t)
      BY <2>20, <2>21, ParsedSame
    <2>2. /\ m = Cardinality(Heads(t)) /\ Heads(t) = Heads(s)
          /\ \A x \in Heads(s) : /\ HeadRank(t, x) = HeadRank(s, x)
                                 /\ nodes[HeadRank(s, x)].name = t[x].name
                                 /\ Values(nodes[HeadRank(s, x)].val, t, x)
                                 /\ n + 1 \notin Lines(t, x)
      BY <2>22 DEF Undisturbed
    <2>3. ~Stopped(t)
      BY <1>1, <1>6, <1>7, <1>11
    <2>4. \A x \in Heads(s) : Root # HeadRank(s, x)
      BY <1>3, <1>4, <1>8
    <2>5. Root # 0 /\ Len(t) # 0
      BY <1>3, <1>8
    <2>6. /\ y.nodes = nodes /\ y.last = Root /\ y.ends = FALSE
          /\ y = [nodes |-> y.nodes, last |-> y.last, ends |-> y.ends]
      BY <2>1
    <2> HIDE DEF y, t, n, m, nodes
    <2>7. Parsed(y, t)
      BY <1>1, <1>3, <1>8, <2>2, <2>3, <2>4, <2>5, <2>6 DEF Parsed, m
    <2> QED
      BY <2>7 DEF y, t
  <1>12. CASE ~z.ends /\ line.kind \in {"blank", "white"}
    <2>1. y = [nodes |-> nodes, last |-> last, ends |-> TRUE]
      BY <1>1, <1>12, ParseCases
    <2>20. ~(line.kind = "header" /\ ~z.ends)
      BY <1>12
    <2>21. \A x \in Heads(s) : ~(line.kind = "fold" /\ n \in Lines(s, x))
      BY <1>12
    <2>22. Undisturbed(z, s, t)
      BY <2>20, <2>21, ParsedSame
    <2>2. /\ m = Cardinality(Heads(t)) /\ Heads(t) = Heads(s)
          /\ \A x \in Heads(s) : /\ HeadRank(t, x) = HeadRank(s, x)
                                 /\ nodes[HeadRank(s, x)].name = t[x].name
                                 /\ Values(nodes[HeadRank(s, x)].val, t, x)
      BY <2>22 DEF Undisturbed
    <2>3. Stopped(t)
      BY <1>6, <1>7, <1>12
    <2>6. /\ y.nodes = nodes /\ y.last = last /\ y.ends = TRUE
          /\ y = [nodes |-> y.nodes, last |-> y.last, ends |-> y.ends]
      BY <2>1
    <2> HIDE DEF y, t, n, m, nodes, last
    <2>7. Parsed(y, t)
      BY <1>1, <2>2, <2>3, <2>6 DEF Parsed, m
    <2> QED
      BY <2>7 DEF y, t
  <1>13. CASE ~z.ends /\ line.kind = "fold" /\ \A x \in Heads(s) : n \notin Lines(s, x)
    <2>0. last \in {Root, 0}
      BY <1>2, <1>13
    <2>1. last \notin 1..m
      BY <1>3, <1>8, <2>0
    <2>2. last \notin DOMAIN nodes
      BY <1>1, <2>1
    <2>3. y = [nodes |-> nodes, last |-> last, ends |-> (last = 0)]
      BY <1>1, <1>13, <2>2, ParseCases
    <2>20. ~(line.kind = "header" /\ ~z.ends)
      BY <1>13
    <2>21. \A x \in Heads(s) : ~(line.kind = "fold" /\ n \in Lines(s, x))
      BY <1>13
    <2>22. Undisturbed(z, s, t)
      BY <2>20, <2>21, ParsedSame
    <2>4. /\ m = Cardinality(Heads(t)) /\ Heads(t) = Heads(s)
          /\ \A x \in Heads(s) : /\ HeadRank(t, x) = HeadRank(s, x)
                                 /\ nodes[HeadRank(s, x)].name = t[x].name
                                 /\ Values(nodes[HeadRank(s, x)].val, t, x)
                                 /\ n + 1 \notin Lines(t, x)
      BY <2>22 DEF Undisturbed
    <2>5. Stopped(t) <=> last = 0
      BY <1>1, <1>2, <1>6, <1>7, <1>13
    <2>6. \A x \in Heads(s) : last # HeadRank(s, x)
      BY <1>4, <2>1
    <2>7. /\ y.nodes = nodes /\ y.last = last /\ y.ends = (last = 0)
          /\ y = [nodes |-> y.nodes, last |-> y.last, ends |-> y.ends]
      BY <2>3
    <2>8. Len(t) # 0
      BY <1>3
    <2> HIDE DEF y, t, n, m, nodes, last
    <2>9. Parsed(y, t)
      BY <1>1, <1>3, <2>0, <2>4, <2>5, <2>6, <2>7, <2>8 DEF Parsed, m
    <2> QED
      BY <2>9 DEF y, t
  <1>14. CASE ~z.ends /\ line.kind = "fold" /\ \E x \in Heads(s) : n \in Lines(s, x)
    <2>1. PICK h \in Heads(s) : n \in Lines(s, h)
      BY <1>14
    <2>2. last = HeadRank(s, h) /\ last \in 1..m /\ n # 0
      BY <1>2, <1>3, <1>4, <1>14, <2>1
    <2> DEFINE more == [nodes EXCEPT ![last].val = Append(@, line.part)]
    <2>3. y = [nodes |-> more, last |-> last, ends |-> FALSE]
      <3>1. last \in DOMAIN nodes /\ last # 0
        BY <1>1, <1>3, <2>2
      <3> HIDE DEF more
      <3>2. y = [nodes |-> IF last \in DOMAIN nodes THEN more ELSE nodes,
                 last |-> last, ends |-> (last = 0)]
        BY <1>1, <1>14, ParseCases DEF more
      <3>3. (last = 0) = FALSE
        BY <3>1
      <3> QED
        BY <3>1, <3>2, <3>3
    <2>4. line.part \in Parts
      BY <1>14, HeaderFacts
    <2>5. /\ more \in Seq(Node) /\ Len(more) = m
          /\ \A k \in 1..m : /\ more[k].name = nodes[k].name
                             /\ k # last => more[k].val = nodes[k].val
          /\ more[last].val = Append(nodes[last].val, line.part)
          /\ nodes[last].val \in Seq(Parts)
      <3> DEFINE head == [nodes[last] EXCEPT !.val = Append(@, line.part)]
                 w == [nodes EXCEPT ![last] = head]
      <3>1. last \in 1..m /\ nodes \in Seq(Node)
        BY <1>1, <2>2
      <3> HIDE DEF nodes, last
      <3>2. more = w
        OBVIOUS
      <3>3. nodes[last] \in Node
        BY <3>1 DEF m
      <3>4. nodes[last].val \in Seq(Parts)
        BY <3>3 DEF Node
      <3>5. Append(nodes[last].val, line.part) \in Seq(Parts)
        BY <2>4, <3>4, AppendProperties
      <3>6. /\ head \in Node /\ head.name = nodes[last].name
            /\ head.val = Append(nodes[last].val, line.part)
        BY <3>3, <3>5 DEF Node
      <3> HIDE DEF head
      <3>7. /\ w \in Seq(Node) /\ Len(w) = m
            /\ \A k \in 1..m : w[k] = IF k = last THEN head ELSE nodes[k]
        BY <3>1, <3>6 DEF m
      <3> HIDE DEF w, m, more
      <3>8. \A k \in 1..m : /\ w[k].name = nodes[k].name
                            /\ k # last => w[k].val = nodes[k].val
        BY <3>6, <3>7
      <3>9. w[last].val = Append(nodes[last].val, line.part)
        BY <3>1, <3>6, <3>7
      <3> QED
        BY <3>2, <3>4, <3>7, <3>8, <3>9
    <2>6. Heads(t) = Heads(s) /\ Cardinality(Heads(t)) = m
      BY <1>1, <1>14, HeadsAppend
    <2>7. ~Stopped(t)
      BY <1>1, <1>6, <1>7, <1>14, <2>2
    <2> HIDE DEF more
    <2>8. ASSUME NEW x \in Heads(s)
          PROVE  /\ more[HeadRank(t, x)].name = t[x].name
                 /\ Values(more[HeadRank(t, x)].val, t, x)
                 /\ n + 1 \in Lines(t, x) <=> last = HeadRank(t, x)
      <3>1. HeadRank(t, x) = HeadRank(s, x) /\ HeadRank(s, x) \in 1..m /\ x \in 1..n
        BY <1>4, RankAppend
      <3>2. more[HeadRank(t, x)].name = t[x].name
        <4>1. more[HeadRank(t, x)].name = nodes[HeadRank(s, x)].name
          BY <2>5, <3>1
        <4> QED
          BY <1>1, <1>3, <3>1, <4>1
      <3>3. n \in Lines(s, x) <=> last = HeadRank(s, x)
        BY <1>2, <1>14
      <3>4. CASE n \in Lines(s, x)
        <4>1. Values(nodes[last].val, s, x) /\ last = HeadRank(s, x)
          BY <1>1, <3>3, <3>4
        <4>2. Values(Append(nodes[last].val, line.part), t, x)
          BY <1>14, <2>5, <3>4, <4>1, ValuesMore
        <4>3. Values(more[HeadRank(t, x)].val, t, x)
          BY <2>5, <3>1, <4>1, <4>2
        <4>4. Lines(t, x) = Lines(s, x) \cup {n + 1}
          BY <1>14, <3>4, FoldsAppend
        <4> QED
          BY <3>1, <3>2, <4>1, <4>3, <4>4
      <3>5. CASE n \notin Lines(s, x)
        <4>1. Lines(t, x) = Lines(s, x)
          BY <3>5, FoldsAppend
        <4>2. more[HeadRank(t, x)].val = nodes[HeadRank(s, x)].val
          BY <2>5, <3>1, <3>3, <3>5
        <4>3. Values(nodes[HeadRank(s, x)].val, t, x)
          BY <1>1, <4>1, ValuesSame
        <4>4. n + 1 \notin Lines(t, x)
          <5>1. Lines(s, x) \subseteq x..n
            BY DEF Lines
          <5> QED
            BY <1>3, <3>1, <4>1, <5>1
        <4> QED
          BY <3>1, <3>2, <3>3, <3>5, <4>2, <4>3, <4>4
      <3> QED
        BY <3>4, <3>5
    <2>9. /\ y.nodes = more /\ y.last = last /\ y.ends = FALSE
          /\ y = [nodes |-> y.nodes, last |-> y.last, ends |-> y.ends]
      BY <2>3
    <2>10. Len(t) # 0 /\ last # 0
      BY <1>3, <2>2
    <2>12. \E x \in Heads(t) : Len(t) \in Lines(t, x)
      <3>1. n + 1 \in Lines(t, h)
        BY <1>14, <2>1, FoldsAppend
      <3> QED
        BY <1>3, <2>6, <3>1
    <2> HIDE DEF y, t, n, m, nodes, last
    <2>11. Parsed(y, t)
      BY <1>1, <1>3, <2>5, <2>6, <2>7, <2>8, <2>9, <2>10, <2>12 DEF Parsed
    <2> QED
      BY <2>11 DEF y, t
  <1> QED
    BY <1>5, <1>1, <1>9, <1>10, <1>11, <1>12, <1>13, <1>14

HeaderInv == kind = "header" => in \in Seq(Header) /\ Parsed(st, in)

LEMMA InitHeader == Init => HeaderInv
  <1> SUFFICES ASSUME Init, kind = "header" PROVE HeaderInv
    BY DEF HeaderInv
  <1>1. in = << >> /\ st = [nodes |-> << >>, last |-> 0, ends |-> FALSE]
    BY StartFacts DEF Init, HeaderStart
  <1>2. /\ in \in Seq(Header) /\ Len(in) = 0 /\ 1..0 = {} /\ 0 \in Int
        /\ << >> \in Seq(Node) /\ Len(<< >>) = 0
    BY <1>1
  <1>3. Heads(in) = {} /\ Cardinality(Heads(in)) = 0 /\ ~Stopped(in)
    BY <1>2, FS_EmptySet DEF Heads, Stopped
  <1>4. st.nodes = << >> /\ st.last = 0 /\ st.ends = FALSE
        /\ st = [nodes |-> st.nodes, last |-> st.last, ends |-> st.ends]
    BY <1>1
  <1>5. Parsed(st, in)
    BY <1>2, <1>3, <1>4 DEF Parsed
  <1> QED
    BY <1>2, <1>5 DEF HeaderInv

LEMMA ReadHeaderSound ==
    ASSUME HeaderInv, ReadHeader
    PROVE  HeaderInv'
  <1>1. kind = "header" /\ in \in Seq(Header) /\ Parsed(st, in)
    BY DEF HeaderInv, ReadHeader
  <1>2. PICK line \in Header : in' = Append(in, line) /\ st' = HeaderParse(st, line)
    BY DEF ReadHeader
  <1>3. in' \in Seq(Header) /\ Parsed(st', in')
    BY <1>1, <1>2, LinesAppend, ParsedAppend
  <1> QED
    BY <1>3 DEF HeaderInv, Parsed, Values, HeadRank, HeadsTo, Heads, Lines, Stopped, Stops

\* Every header has its folded lines and no others.
THEOREM HeaderTheorem == Spec => []Unfolded
  <1>1. HeaderInv /\ [Next]_vars => HeaderInv'
    <2> SUFFICES ASSUME HeaderInv, [Next]_vars PROVE HeaderInv'
      OBVIOUS
    <2>1. kind' = kind
      BY NextFacts
    <2>2. CASE kind # "header"
      BY <2>1, <2>2 DEF HeaderInv
    <2>3. CASE kind = "header" /\ UNCHANGED vars
      <3>1. UNCHANGED <<kind, in, st>>
        BY <2>3 DEF vars
      <3>2. in' \in Seq(Header) /\ Parsed(st', in')
        BY <2>3, <3>1 DEF HeaderInv
      <3> QED
        BY <3>2 DEF HeaderInv, Parsed, Values, HeadRank, HeadsTo, Heads, Lines, Stopped, Stops
    <2>4. CASE kind = "header" /\ Next
      <3>1. ReadHeader
        BY <2>4, ActionKinds DEF Next, Blocks, Winmails
      <3> QED
        BY <3>1, ReadHeaderSound
    <2> QED
      BY <2>2, <2>3, <2>4
  <1>2. HeaderInv => Unfolded
    <2> SUFFICES ASSUME HeaderInv, kind = "header" PROVE Unfolded
      BY DEF Unfolded
    <2>1. in \in Seq(Header) /\ Parsed(st, in)
      BY DEF HeaderInv
    <2>2. /\ Len(st.nodes) = Cardinality(Heads(in)) /\ st.nodes \in Seq(Node)
          /\ \A x \in Heads(in) : /\ st.nodes[HeadRank(in, x)].name = in[x].name
                                  /\ Values(st.nodes[HeadRank(in, x)].val, in, x)
      BY <2>1 DEF Parsed
    <2>3. ASSUME NEW x \in Heads(in)
          PROVE  LET node == st.nodes[HeadRank(in, x)]
                 IN  /\ node.name = in[x].name
                     /\ DOMAIN node.val = {j - x + 1 : j \in Lines(in, x)}
                     /\ \A j \in Lines(in, x) : node.val[j - x + 1] = in[j].part
      <3> DEFINE val == st.nodes[HeadRank(in, x)].val
                 node == st.nodes[HeadRank(in, x)]
      <3>1. /\ x \in 1..Len(in) /\ Len(in) \in Nat /\ Lines(in, x) \subseteq x..Len(in)
            /\ node.name = in[x].name /\ Values(val, in, x)
        BY <2>1, <2>2 DEF Heads, Lines
      <3>2. val \in Seq(Parts) /\ DOMAIN val = 1..Len(val) /\ Len(val) \in Nat
        <4>1. node \in Node
          BY <2>1, <2>2, HeadsFinite
        <4> HIDE DEF node
        <4>2. node.val \in Seq(Parts)
          BY <4>1 DEF Node
        <4> QED
          BY <4>2 DEF node
      <3> HIDE DEF val
      <3>3. ASSUME NEW j \in Lines(in, x)
            PROVE  j - x + 1 \in 1..Len(val) /\ val[j - x + 1] = in[j].part
        <4>1. j - x + 1 \in Nat /\ j - x + 1 > 0 /\ x + (j - x + 1) - 1 = j
          BY <3>1
        <4>2. j - x + 1 \in 1..Len(val)
          BY <3>1, <4>1 DEF Values
        <4>3. val[j - x + 1] = in[x + (j - x + 1) - 1].part
          BY <3>1, <4>2 DEF Values
        <4> QED
          BY <4>1, <4>2, <4>3
      <3>4. ASSUME NEW k \in 1..Len(val) PROVE \E j \in Lines(in, x) : k = j - x + 1
        <4>1. x + k - 1 \in Lines(in, x)
          BY <3>1, <3>2 DEF Values
        <4>2. (x + k - 1) - x + 1 = k
          BY <3>1, <3>2
        <4> QED
          BY <4>1, <4>2
      <3>5. 1..Len(val) = {j - x + 1 : j \in Lines(in, x)}
        BY <3>3, <3>4
      <3> QED
        BY <3>1, <3>2, <3>3, <3>5 DEF val
    <2> QED
      <3> DEFINE ends(x) == \/ in[x].kind \in {"blank", "white"}
                            \/ in[x].kind = "fold" /\ x = 1
                 heads == {x \in DOMAIN in : in[x].kind = "header" /\ \A j \in 1..x : ~ends(j)}
                 rank(x) == Cardinality({j \in heads : j <= x})
                 lines(x) == {j \in x..Len(in) : \A k \in x + 1..j : in[k].kind = "fold"}
      <3>1. \A x : ends(x) <=> Stops(in, x)
        BY DEF Stops
      <3>2. heads = Heads(in)
        <4>1. DOMAIN in = 1..Len(in)
          BY <2>1
        <4> HIDE DEF ends
        <4> QED
          BY <3>1, <4>1 DEF Heads
      <3>3. \A x : lines(x) = Lines(in, x)
        BY DEF Lines
      <3> HIDE DEF heads, lines
      <3>4. \A x : rank(x) = HeadRank(in, x)
        BY <3>2 DEF HeadRank, HeadsTo
      <3> HIDE DEF rank
      <3>5. /\ Len(st.nodes) = Cardinality(heads)
            /\ \A x \in heads : LET node == st.nodes[rank(x)] IN
                  /\ node.name = in[x].name
                  /\ DOMAIN node.val = {j - x + 1 : j \in lines(x)}
                  /\ \A j \in lines(x) : node.val[j - x + 1] = in[j].part
        BY <2>2, <2>3, <3>2, <3>3, <3>4
      <3> QED
        BY <3>5 DEF Unfolded, heads, rank, lines
  <1> QED
    BY InitHeader, <1>1, <1>2, PTL DEF Spec

(***************************************************************************)
(* Accounts                                                                *)
(***************************************************************************)

\* A set of numbers has a least one.
LEMMA LeastIn ==
    ASSUME NEW T \in SUBSET Nat, T # {}
    PROVE  \E x \in T : \A y \in T : x <= y
  <1>1. PICK x \in T : \A y \in T : ~(<<y, x>> \in OpToRel(<, Nat))
    BY NatLessThanWellFounded, WFMin
  <1>2. \A y \in Nat : <<y, x>> \in OpToRel(<, Nat) <=> y < x
    BY DEF OpToRel
  <1>3. \A y \in T : ~(y < x)
    BY <1>1, <1>2
  <1> QED
    BY <1>3

LEMMA FirstFacts ==
    ASSUME NEW T \in SUBSET Nat
    PROVE  /\ T = {} => First(T) = 0
           /\ T # {} => First(T) \in T /\ \A y \in T : First(T) <= y
  <1>1. T # {} => First(T) = CHOOSE x \in T : \A y \in T : x <= y
    BY DEF First
  <1> QED
    BY <1>1, LeastIn DEF First

LEMMA ElementNames ==
    ASSUME NEW s \in Seq(Elements), NEW x \in 1..Len(s)
    PROVE  s[x].name \in Int
  <1>1. s[x] \in Elements
    OBVIOUS
  <1>2. \A e \in Elements : e.name \in Int
    BY DEF Elements, Global, Imap, Pop3
  <1> QED
    BY <1>1, <1>2

\* The order of the children is total.
LEMMA BeforeOrder ==
    ASSUME NEW s \in Seq(Elements), NEW j \in 1..Len(s), NEW k \in 1..Len(s), NEW l \in 1..Len(s)
    PROVE  /\ ~before(s, j, j)
           /\ before(s, j, k) /\ before(s, k, l) => before(s, j, l)
           /\ j # k => before(s, j, k) \/ before(s, k, j)
  <1>1. \A x \in 1..Len(s) : s[x].name \in Int
    BY ElementNames
  <1> QED
    BY <1>1 DEF before

Earlier(s, j) == {k \in DOMAIN s : before(s, k, j)}

LEMMA RankType ==
    ASSUME NEW s \in Seq(Elements), NEW j \in 1..Len(s)
    PROVE  /\ IsFiniteSet(Earlier(s, j)) /\ Cardinality(Earlier(s, j)) \in Nat
           /\ Rank(s, j) = 1 + Cardinality(Earlier(s, j))
           /\ Rank(s, j) \in 1..Len(s)
  <1>1. Len(s) \in Nat /\ DOMAIN s = 1..Len(s)
    OBVIOUS
  <1>2. IsFiniteSet(1..Len(s)) /\ Cardinality(1..Len(s)) = Len(s)
    BY <1>1, FS_Interval
  <1>3. Earlier(s, j) \subseteq (1..Len(s)) \ {j}
    BY <1>1, BeforeOrder DEF Earlier
  <1>4. IsFiniteSet((1..Len(s)) \ {j}) /\ Cardinality((1..Len(s)) \ {j}) = Len(s) - 1
    BY <1>2, FS_RemoveElement
  <1>5. IsFiniteSet(Earlier(s, j)) /\ Cardinality(Earlier(s, j)) <= Len(s) - 1
    BY <1>3, <1>4, FS_Subset
  <1>6. Cardinality(Earlier(s, j)) \in Nat
    BY <1>5, FS_CardinalityType
  <1>7. Rank(s, j) = 1 + Cardinality(Earlier(s, j))
    BY DEF Rank, Earlier
  <1>8. 1 + Cardinality(Earlier(s, j)) \in 1..Len(s)
    BY <1>1, <1>5, <1>6
  <1> QED
    BY <1>5, <1>6, <1>7, <1>8

LEMMA RankOrder ==
    ASSUME NEW s \in Seq(Elements), NEW j \in 1..Len(s), NEW k \in 1..Len(s)
    PROVE  /\ before(s, j, k) => Rank(s, j) < Rank(s, k)
           /\ Rank(s, j) = Rank(s, k) => j = k
           /\ Rank(s, j) < Rank(s, k) => before(s, j, k)
  <1>1. ASSUME NEW x \in 1..Len(s), NEW y \in 1..Len(s), before(s, x, y)
        PROVE  Rank(s, x) < Rank(s, y)
    <2>1. DOMAIN s = 1..Len(s)
      OBVIOUS
    <2>2. Earlier(s, x) \subseteq Earlier(s, y)
      BY <1>1, <2>1, BeforeOrder DEF Earlier
    <2>3. x \in Earlier(s, y) /\ x \notin Earlier(s, x)
      BY <1>1, <2>1, BeforeOrder DEF Earlier
    <2>4. /\ Cardinality(Earlier(s, x)) <= Cardinality(Earlier(s, y))
          /\ Cardinality(Earlier(s, x)) # Cardinality(Earlier(s, y))
      BY <2>2, <2>3, RankType, FS_Subset
    <2>5. /\ Cardinality(Earlier(s, x)) \in Nat /\ Cardinality(Earlier(s, y)) \in Nat
          /\ Rank(s, x) = 1 + Cardinality(Earlier(s, x))
          /\ Rank(s, y) = 1 + Cardinality(Earlier(s, y))
      BY RankType
    <2> QED
      BY <2>4, <2>5
  <1>2. Rank(s, j) \in Nat /\ Rank(s, k) \in Nat
    BY RankType
  <1>3. j # k => before(s, j, k) \/ before(s, k, j)
    BY BeforeOrder
  <1>4. before(s, j, k) => Rank(s, j) < Rank(s, k)
    BY <1>1
  <1>5. before(s, k, j) => Rank(s, k) < Rank(s, j)
    BY <1>1
  <1> QED
    BY <1>2, <1>3, <1>4, <1>5

\* Every place has one child.
LEMMA Sorted ==
    ASSUME NEW s \in Seq(Elements)
    PROVE  /\ \A k \in 1..Len(s) : /\ sortedChildren(s)[k] \in 1..Len(s)
                                   /\ Rank(s, sortedChildren(s)[k]) = k
           /\ \A j \in 1..Len(s) : sortedChildren(s)[Rank(s, j)] = j
  <1> DEFINE places == 1..Len(s)
             f == [j \in places |-> Rank(s, j)]
  <1>1. DOMAIN s = places
    OBVIOUS
  <1>2. f \in [places -> places]
    BY RankType
  <1>3. \A j, k \in places : f[j] = f[k] => j = k
    BY RankOrder
  <1>4. f \in Injection(places, places)
    BY <1>2, <1>3 DEF Injection, IsInjective
  <1>5. IsFiniteSet(places)
    BY FS_Interval
  <1>6. f \in Surjection(places, places)
    BY <1>4, <1>5, FS_Injection
  <1>7. \A k \in places : \E j \in places : f[j] = k
    BY <1>6 DEF Surjection
  <1>8. \A k \in places : \E j \in places : Rank(s, j) = k
    BY <1>7
  <1>9. \A k \in places : sortedChildren(s)[k] = CHOOSE j \in places : Rank(s, j) = k
    BY <1>1 DEF sortedChildren
  <1>10. \A k \in places : /\ sortedChildren(s)[k] \in places
                           /\ Rank(s, sortedChildren(s)[k]) = k
    BY <1>8, <1>9
  <1>11. ASSUME NEW j \in places PROVE sortedChildren(s)[Rank(s, j)] = j
    <2>1. Rank(s, j) \in places
      BY RankType
    <2>2. /\ sortedChildren(s)[Rank(s, j)] \in places
          /\ Rank(s, sortedChildren(s)[Rank(s, j)]) = Rank(s, j)
      BY <1>10, <2>1
    <2> QED
      BY <2>2, RankOrder
  <1> QED
    BY <1>10, <1>11

\* The places of children of one name lie together.
LEMMA Together ==
    ASSUME NEW s \in Seq(Elements), NEW j \in 1..Len(s), NEW k \in 1..Len(s), NEW l \in 1..Len(s),
           Rank(s, j) <= Rank(s, k), Rank(s, k) <= Rank(s, l), s[j].name = s[l].name
    PROVE  s[k].name = s[j].name
  <1>1. s[j].name \in Int /\ s[k].name \in Int /\ s[l].name \in Int
    BY ElementNames
  <1>2. Rank(s, j) \in Nat /\ Rank(s, k) \in Nat /\ Rank(s, l) \in Nat
    <2>1. Rank(s, j) \in 1..Len(s) /\ Rank(s, k) \in 1..Len(s) /\ Rank(s, l) \in 1..Len(s)
      BY RankType
    <2> QED
      BY <2>1
  <1>3. j = k \/ before(s, j, k)
    BY <1>2, RankOrder
  <1>4. k = l \/ before(s, k, l)
    BY <1>2, RankOrder
  <1> QED
    BY <1>1, <1>3, <1>4 DEF before

\* The accounts are the blocks up to the cursor, and at the end there are no
\* others.
Collected(found, s, match, place, ends) ==
    /\ s \in Seq(Elements) /\ place \in 0..Len(s) /\ ends \in BOOLEAN
    /\ found \in Seq(1..Len(s))
    /\ place > 0 => s[sortedChildren(s)[place]].name = match
    /\ \A i \in 1..Len(found) : /\ s[found[i]].name = match /\ s[found[i]].host
                                /\ Rank(s, found[i]) <= place
    /\ \A j \in 1..Len(s) : s[j].name = match /\ s[j].host /\ Rank(s, j) <= place
                            => \E i \in 1..Len(found) : found[i] = j
    /\ \A i, k \in 1..Len(found) : i < k => found[i] < found[k]
    /\ ends => \A j \in 1..Len(s) : s[j].name = match => Rank(s, j) <= place

\* Where the cursor goes there is no block before.
LEMMA AdvanceFacts ==
    ASSUME NEW s \in Seq(Elements), NEW match, NEW place \in 0..Len(s),
           place > 0 => s[sortedChildren(s)[place]].name = match
    PROVE  /\ Found(s, Advance(s, place, match), match) =>
                 /\ Advance(s, place, match) \in 1..Len(s)
                 /\ place < Advance(s, place, match)
                 /\ \A j \in 1..Len(s) : s[j].name = match =>
                       Rank(s, j) <= place \/ Advance(s, place, match) <= Rank(s, j)
           /\ ~Found(s, Advance(s, place, match), match) =>
                 \A j \in 1..Len(s) : s[j].name = match => Rank(s, j) <= place
  <1> DEFINE k == Advance(s, place, match)
             sorted == sortedChildren(s)
             T == {x \in DOMAIN s : s[sorted[x]].name = match}
  <1>1. Len(s) \in Nat /\ DOMAIN s = 1..Len(s) /\ place \in Nat
    OBVIOUS
  <1>2. /\ \A x \in 1..Len(s) : sorted[x] \in 1..Len(s) /\ Rank(s, sorted[x]) = x
        /\ \A j \in 1..Len(s) : sorted[Rank(s, j)] = j /\ Rank(s, j) \in 1..Len(s)
    BY Sorted, RankType
  <1>3. Found(s, k, match) <=> k \in 1..Len(s) /\ s[sorted[k]].name = match
    BY <1>1 DEF Found
  <1>4. \A j \in 1..Len(s) : s[j].name = match => Rank(s, j) \in T
    BY <1>1, <1>2
  <1>5. T \in SUBSET Nat /\ 0 \notin T /\ \A x \in T : x \in 1..Len(s) /\ s[sorted[x]].name = match
    BY <1>1
  <1>6. CASE place = 0
    <2>1. k = First(T)
      BY <1>6 DEF Advance
    <2> HIDE DEF k, sorted, T
    <2>2. CASE T = {}
      <3>1. ~(k \in 1..Len(s))
        BY <1>5, <2>1, <2>2, FirstFacts
      <3>2. ~Found(s, k, match)
        BY <1>3, <3>1
      <3>3. \A j \in 1..Len(s) : s[j].name # match
        BY <1>4, <2>2
      <3> QED
        BY <3>2, <3>3 DEF k
    <2>3. CASE T # {}
      <3>1. k \in T /\ \A y \in T : k <= y
        BY <1>5, <2>1, <2>3, FirstFacts
      <3>2. Found(s, k, match) /\ k \in 1..Len(s)
        BY <1>3, <1>5, <3>1
      <3>3. place < k
        BY <1>6, <3>2
      <3>4. \A j \in 1..Len(s) : s[j].name = match => k <= Rank(s, j)
        BY <1>4, <3>1
      <3> QED
        BY <3>2, <3>3, <3>4 DEF k
    <2> QED
      BY <2>2, <2>3
  <1>7. CASE place # 0
    <2>1. k = place + 1
      BY <1>7 DEF Advance
    <2>2. place \in 1..Len(s) /\ place < k /\ k \in Nat
      BY <1>1, <1>7, <2>1
    <2> HIDE DEF k, sorted, T
    <2>3. \A j \in 1..Len(s) : Rank(s, j) <= place \/ k <= Rank(s, j)
      <3> TAKE j \in 1..Len(s)
      <3>1. Rank(s, j) \in Nat
        BY <1>1, <1>2
      <3> QED
        BY <1>1, <2>1, <3>1
    <2>4. ASSUME ~Found(s, k, match), NEW j \in 1..Len(s), s[j].name = match
          PROVE  Rank(s, j) <= place
      <3> SUFFICES ASSUME k <= Rank(s, j) PROVE FALSE
        BY <2>3
      <3>1. Rank(s, j) \in 1..Len(s)
        BY <1>2
      <3>2. k \in 1..Len(s)
        BY <1>1, <2>2, <3>1
      <3>3. /\ sorted[place] \in 1..Len(s) /\ Rank(s, sorted[place]) = place
            /\ sorted[k] \in 1..Len(s) /\ Rank(s, sorted[k]) = k
        BY <1>2, <2>2, <3>2
      <3>4. s[sorted[place]].name = match
        BY <2>2, <1>1 DEF sorted
      <3>5. Rank(s, sorted[place]) <= Rank(s, sorted[k])
        BY <1>1, <2>1, <3>3
      <3>6. s[sorted[k]].name = s[sorted[place]].name
        BY <2>4, <3>3, <3>4, <3>5, Together
      <3> QED
        BY <1>3, <2>4, <3>2, <3>4, <3>6
    <2>5. Found(s, k, match) => k \in 1..Len(s)
      BY <1>3
    <2>6. /\ Found(s, k, match) =>
                 /\ k \in 1..Len(s) /\ place < k
                 /\ \A j \in 1..Len(s) : s[j].name = match =>
                       Rank(s, j) <= place \/ k <= Rank(s, j)
          /\ ~Found(s, k, match) =>
                 \A j \in 1..Len(s) : s[j].name = match => Rank(s, j) <= place
      BY <2>2, <2>3, <2>4, <2>5
    <2> QED
      BY <2>6 DEF k
  <1> QED
    BY <1>6, <1>7

\* Another block.
LEMMA CollectOne ==
    ASSUME NEW s, NEW match, NEW place, NEW found,
           Collected(found, s, match, place, FALSE),
           NEW k, k = Advance(s, place, match), Found(s, k, match),
           NEW block, block = sortedChildren(s)[k],
           NEW more, more = IF s[block].host THEN Append(found, block) ELSE found
    PROVE  Collected(more, s, match, k, FALSE)
  <1> DEFINE n == Len(s)
             m == Len(found)
  <1>1. /\ s \in Seq(Elements) /\ place \in 0..n /\ found \in Seq(1..n)
        /\ place > 0 => s[sortedChildren(s)[place]].name = match
        /\ \A i \in 1..m : /\ s[found[i]].name = match /\ s[found[i]].host
                           /\ Rank(s, found[i]) <= place
        /\ \A j \in 1..n : s[j].name = match /\ s[j].host /\ Rank(s, j) <= place
                           => \E i \in 1..m : found[i] = j
        /\ \A i, l \in 1..m : i < l => found[i] < found[l]
    BY DEF Collected
  <1>2. /\ k \in 1..n /\ place < k
        /\ \A j \in 1..n : s[j].name = match => Rank(s, j) <= place \/ k <= Rank(s, j)
    BY <1>1, AdvanceFacts
  <1>3. block \in 1..n /\ Rank(s, block) = k
    BY <1>1, <1>2, Sorted
  <1>4. s[block].name = match
    BY DEF Found
  <1>5. n \in Nat /\ m \in Nat /\ k \in Nat /\ place \in Nat
    BY <1>1, <1>2
  <1>6. \A j \in 1..n : Rank(s, j) \in Nat
    <2> TAKE j \in 1..n
    <2>1. Rank(s, j) \in 1..n
      BY <1>1, RankType
    <2> QED
      BY <2>1
  <1>7. \A j \in 1..n : s[j].name = match /\ Rank(s, j) <= k => Rank(s, j) <= place \/ j = block
    <2> SUFFICES ASSUME NEW j \in 1..n, s[j].name = match, Rank(s, j) <= k, ~(Rank(s, j) <= place)
                 PROVE  j = block
      OBVIOUS
    <2>1. k <= Rank(s, j)
      BY <1>2
    <2>2. Rank(s, j) = k
      BY <1>5, <1>6, <2>1
    <2> QED
      BY <1>1, <1>3, <2>2, RankOrder
  <1>8. \A i \in 1..m : found[i] \in 1..n
    BY <1>1
  <1>9. ASSUME NEW i \in 1..m PROVE found[i] < block /\ Rank(s, found[i]) <= k
    <2>1. found[i] \in 1..n /\ s[found[i]].name = match /\ Rank(s, found[i]) <= place
      BY <1>1, <1>8
    <2>2. Rank(s, found[i]) < Rank(s, block) /\ Rank(s, found[i]) <= k
      BY <1>2, <1>3, <1>5, <1>6, <2>1
    <2>3. before(s, found[i], block)
      BY <1>1, <1>3, <2>1, <2>2, RankOrder
    <2>4. s[block].name \in Int
      BY <1>1, <1>3, ElementNames
    <2> QED
      BY <1>4, <2>1, <2>2, <2>3, <2>4 DEF before
  <1>10. k \in 0..n /\ (k > 0 => s[sortedChildren(s)[k]].name = match)
    BY <1>2, <1>4, <1>5
  <1> HIDE DEF n, m
  <1>11. CASE s[block].host
    <2>1. more = Append(found, block)
      BY <1>11
    <2>2. /\ more \in Seq(1..n) /\ Len(more) = m + 1 /\ more[m + 1] = block
          /\ \A i \in 1..m : more[i] = found[i]
      <3> DEFINE places == 1..n
      <3>1. found \in Seq(places) /\ block \in places
        BY <1>1, <1>3
      <3> HIDE DEF places
      <3>2. /\ more \in Seq(places) /\ Len(more) = Len(found) + 1 /\ more[Len(found) + 1] = block
            /\ \A i \in 1..Len(found) : more[i] = found[i]
        BY <2>1, <3>1, AppendProperties
      <3> QED
        BY <3>2 DEF places, m
    <2>3. 1..m + 1 = (1..m) \cup {m + 1}
      BY <1>5
    <2>4. ASSUME NEW i \in 1..m + 1
          PROVE  s[more[i]].name = match /\ s[more[i]].host /\ Rank(s, more[i]) <= k
      <3>1. CASE i = m + 1
        BY <1>3, <1>4, <1>5, <1>11, <2>2, <3>1
      <3>2. CASE i \in 1..m
        BY <1>1, <1>9, <2>2, <3>2
      <3> QED
        BY <2>3, <3>1, <3>2
    <2>5. ASSUME NEW j \in 1..n, s[j].name = match, s[j].host, Rank(s, j) <= k
          PROVE  \E i \in 1..m + 1 : more[i] = j
      <3>1. CASE j = block
        BY <2>2, <2>3, <3>1
      <3>2. CASE Rank(s, j) <= place
        <4>1. PICK i \in 1..m : found[i] = j
          BY <1>1, <2>5, <3>2
        <4> QED
          BY <2>2, <2>3, <4>1
      <3> QED
        BY <1>7, <2>5, <3>1, <3>2
    <2>6. ASSUME NEW i \in 1..m + 1, NEW l \in 1..m + 1, i < l PROVE more[i] < more[l]
      <3>1. i \in 1..m
        BY <1>5, <2>6
      <3>2. CASE l = m + 1
        BY <1>9, <2>2, <3>1, <3>2
      <3>3. CASE l \in 1..m
        BY <1>1, <2>2, <2>6, <3>1, <3>3
      <3> QED
        BY <2>3, <3>2, <3>3
    <2>7. /\ s \in Seq(Elements) /\ k \in 0..Len(s) /\ FALSE \in BOOLEAN
          /\ more \in Seq(1..Len(s))
          /\ k > 0 => s[sortedChildren(s)[k]].name = match
      BY <1>1, <1>10, <2>2 DEF n
    <2>8. Len(more) = m + 1 /\ Len(s) = n
      BY <2>2 DEF n
    <2>9. \A i \in 1..Len(more) : /\ s[more[i]].name = match /\ s[more[i]].host
                                   /\ Rank(s, more[i]) <= k
      BY <2>4, <2>8
    <2>10. \A j \in 1..Len(s) : s[j].name = match /\ s[j].host /\ Rank(s, j) <= k
                                => \E i \in 1..Len(more) : more[i] = j
      BY <2>5, <2>8
    <2>11. \A i, l \in 1..Len(more) : i < l => more[i] < more[l]
      BY <2>6, <2>8
    <2> QED
      BY <2>7, <2>9, <2>10, <2>11 DEF Collected
  <1>12. CASE ~s[block].host
    <2>1. more = found
      BY <1>12
    <2>2. ASSUME NEW j \in 1..n, s[j].name = match, s[j].host, Rank(s, j) <= k
          PROVE  \E i \in 1..m : found[i] = j
      <3>1. Rank(s, j) <= place
        BY <1>7, <1>12, <2>2
      <3> QED
        BY <1>1, <2>2, <3>1
    <2>3. \A i \in 1..m : s[found[i]].name = match /\ s[found[i]].host /\ Rank(s, found[i]) <= k
      BY <1>1, <1>9
    <2>4. Collected(found, s, match, k, FALSE)
      BY <1>1, <1>10, <2>2, <2>3 DEF Collected, n, m
    <2> QED
      BY <2>1, <2>4
  <1> QED
    BY <1>11, <1>12

AccountsInv ==
    kind \in Blocks => /\ st = [found |-> st.found, ends |-> st.ends]
                       /\ Collected(st.found, in, Match, at, st.ends)

\* Nothing is found at the start.
LEMMA CollectNone ==
    ASSUME NEW s \in Seq(Elements), NEW match
    PROVE  Collected(<< >>, s, match, 0, FALSE)
  <1>1. /\ << >> \in Seq(1..Len(s)) /\ Len(<< >>) = 0 /\ 1..0 = {} /\ 0 \in 0..Len(s)
        /\ ~(0 > 0)
    OBVIOUS
  <1>2. ASSUME NEW j \in 1..Len(s) PROVE ~(Rank(s, j) <= 0)
    <2>1. Rank(s, j) \in 1..Len(s) /\ Len(s) \in Nat
      BY RankType
    <2> QED
      BY <2>1
  <1> QED
    BY <1>1, <1>2 DEF Collected

LEMMA InitAccounts == Init => AccountsInv
  <1> SUFFICES ASSUME Init, kind \in Blocks PROVE AccountsInv
    BY DEF AccountsInv
  <1>1. in = << >> /\ at = 0 /\ st = [found |-> << >>, ends |-> FALSE]
    BY StartFacts DEF Init
  <1>2. in \in Seq(Elements) /\ st.found = << >> /\ st.ends = FALSE
    BY <1>1
  <1>3. Collected(st.found, in, Match, at, st.ends)
    BY <1>1, <1>2, CollectNone
  <1> QED
    BY <1>1, <1>2, <1>3 DEF AccountsInv

LEMMA GrowAccounts ==
    ASSUME AccountsInv, Grow, kind \in Blocks
    PROVE  AccountsInv'
  <1>1. /\ in \in Seq(Elements) /\ at = 0 /\ st = [found |-> << >>, ends |-> FALSE]
        /\ UNCHANGED <<kind, at, st>>
    BY StartFacts DEF AccountsInv, Collected, Grow
  <1>2. PICK x \in Elements : in' = Append(in, x)
    BY ItemsFacts DEF Grow
  <1>3. in' \in Seq(Elements)
    BY <1>1, <1>2, AppendProperties
  <1>4. st'.found = << >> /\ st'.ends = FALSE /\ at' = 0 /\ Match' = Match
        /\ st' = [found |-> st'.found, ends |-> st'.ends]
    BY <1>1 DEF Match
  <1>5. Collected(st'.found, in', Match', at', st'.ends)
    BY <1>3, <1>4, CollectNone
  <1>6. Collected(st.found, in, Match, at, st.ends)'
    BY <1>5 DEF Collected, sortedChildren, Rank, before
  <1> QED
    BY <1>4, <1>6 DEF AccountsInv

LEMMA NextBlockSound ==
    ASSUME AccountsInv, NextBlock
    PROVE  AccountsInv'
  <1> DEFINE k == Advance(in, at, Match)
             block == sortedChildren(in)[k]
             more == IF in[block].host THEN Append(st.found, block) ELSE st.found
  <1>1. /\ kind \in Blocks /\ Collected(st.found, in, Match, at, st.ends)
        /\ st = [found |-> st.found, ends |-> st.ends]
        /\ ~st.ends /\ UNCHANGED <<kind, in>>
        /\ Found(in, k, Match) /\ at' = k
        /\ st' = [st EXCEPT !.found = IF in[block].host THEN Append(@, block) ELSE @]
    BY DEF AccountsInv, NextBlock
  <1>2. st.ends = FALSE
    BY <1>1 DEF Collected
  <1>3. Collected(st.found, in, Match, at, FALSE)
    BY <1>1, <1>2
  <1>4. Collected(more, in, Match, k, FALSE)
    <2>1. more = IF in[block].host THEN Append(st.found, block) ELSE st.found
      OBVIOUS
    <2>2. block = sortedChildren(in)[k] /\ k = Advance(in, at, Match)
      OBVIOUS
    <2>3. Found(in, k, Match)
      BY <1>1
    <2> HIDE DEF more, block, k
    <2> QED
      BY <1>3, <2>1, <2>2, <2>3, CollectOne
  <1>5. st' = [found |-> more, ends |-> FALSE]
    BY <1>1, <1>2
  <1> HIDE DEF more, block, k
  <1>6. st'.found = more /\ st'.ends = FALSE /\ st' = [found |-> st'.found, ends |-> st'.ends]
    BY <1>5
  <1>7. in' = in /\ Match' = Match /\ at' = k
    BY <1>1 DEF Match
  <1>8. Collected(st'.found, in', Match', at', st'.ends)
    BY <1>4, <1>6, <1>7
  <1>9. Collected(st.found, in, Match, at, st.ends)'
    BY <1>8 DEF Collected, sortedChildren, Rank, before
  <1> QED
    BY <1>6, <1>9 DEF AccountsInv

LEMMA LastBlockSound ==
    ASSUME AccountsInv, LastBlock
    PROVE  AccountsInv'
  <1>1. /\ kind \in Blocks /\ Collected(st.found, in, Match, at, st.ends)
        /\ st = [found |-> st.found, ends |-> st.ends]
        /\ UNCHANGED <<kind, in, at>>
        /\ ~Found(in, Advance(in, at, Match), Match)
        /\ st' = [st EXCEPT !.ends = TRUE]
    BY DEF AccountsInv, LastBlock
  <1>2. st' = [found |-> st.found, ends |-> TRUE]
    BY <1>1
  <1>3. st'.found = st.found /\ st'.ends = TRUE /\ st' = [found |-> st'.found, ends |-> st'.ends]
    BY <1>2
  <1>4. /\ in \in Seq(Elements) /\ at \in 0..Len(in)
        /\ at > 0 => in[sortedChildren(in)[at]].name = Match
    BY <1>1 DEF Collected
  <1>5. \A j \in 1..Len(in) : in[j].name = Match => Rank(in, j) <= at
    BY <1>1, <1>4, AdvanceFacts
  <1>6. Collected(st.found, in, Match, at, TRUE)
    BY <1>1, <1>5 DEF Collected
  <1>7. in' = in /\ Match' = Match /\ at' = at
    BY <1>1 DEF Match
  <1>8. Collected(st'.found, in', Match', at', st'.ends)
    BY <1>3, <1>6, <1>7
  <1>9. Collected(st.found, in, Match, at, st.ends)'
    BY <1>8 DEF Collected, sortedChildren, Rank, before
  <1> QED
    BY <1>3, <1>9 DEF AccountsInv

\* All blocks with a host become accounts, in the order of the file.
THEOREM AccountsTheorem == Spec => []AccountsInOrder
  <1>1. AccountsInv /\ [Next]_vars => AccountsInv'
    <2> SUFFICES ASSUME AccountsInv, [Next]_vars PROVE AccountsInv'
      OBVIOUS
    <2>1. kind' = kind
      BY NextFacts
    <2>2. CASE kind \notin Blocks
      BY <2>1, <2>2 DEF AccountsInv
    <2>3. CASE kind \in Blocks /\ UNCHANGED vars
      <3>1. kind' = kind /\ in' = in /\ at' = at /\ st' = st /\ Match' = Match
        BY <2>3 DEF vars, Match
      <3>2. /\ st' = [found |-> st'.found, ends |-> st'.ends]
            /\ Collected(st'.found, in', Match', at', st'.ends)
        BY <2>3, <3>1 DEF AccountsInv
      <3>3. Collected(st.found, in, Match, at, st.ends)'
        BY <3>2 DEF Collected, sortedChildren, Rank, before
      <3> QED
        BY <3>2, <3>3 DEF AccountsInv
    <2>4. CASE kind \in Blocks /\ Next
      <3>1. Grow \/ NextBlock \/ LastBlock
        BY <2>4, ActionKinds DEF Next, Blocks, Winmails
      <3> QED
        BY <2>4, <3>1, GrowAccounts, NextBlockSound, LastBlockSound
    <2> QED
      BY <2>2, <2>3, <2>4
  <1>2. AccountsInv => AccountsInOrder
    <2> SUFFICES ASSUME AccountsInv, kind \in Blocks PROVE AccountsInOrder
      BY DEF AccountsInOrder
    <2> DEFINE found == st.found
               wanted == {j \in DOMAIN in : in[j].name = Match /\ in[j].host}
               set == {found[k] : k \in DOMAIN found}
    <2>1. Collected(found, in, Match, at, st.ends)
      BY DEF AccountsInv
    <2>2. in \in Seq(Elements) /\ found \in Seq(1..Len(in))
      BY <2>1 DEF Collected
    <2>3. DOMAIN in = 1..Len(in) /\ DOMAIN found = 1..Len(found)
      BY <2>2
    <2> HIDE DEF found
    <2>4. ASSUME NEW i \in 1..Len(found) PROVE found[i] \in wanted
      BY <2>1, <2>2, <2>3 DEF Collected
    <2>5. ASSUME st.ends, NEW j \in wanted PROVE j \in set
      <3>1. j \in 1..Len(in) /\ in[j].name = Match /\ in[j].host
        BY <2>3
      <3>2. Rank(in, j) <= at
        BY <2>1, <2>5, <3>1 DEF Collected
      <3>3. PICK i \in 1..Len(found) : found[i] = j
        BY <2>1, <3>1, <3>2 DEF Collected
      <3> QED
        BY <2>3, <3>3
    <2>6. \A i, k \in DOMAIN found : i < k => found[i] < found[k]
      BY <2>1, <2>3 DEF Collected
    <2>7. set \subseteq wanted /\ (st.ends => set = wanted)
      BY <2>3, <2>4, <2>5
    <2> QED
      BY <2>6, <2>7 DEF AccountsInOrder, found
  <1> QED
    BY InitAccounts, <1>1, <1>2, PTL DEF Spec

(***************************************************************************)
(* winmail.dat                                                             *)
(***************************************************************************)

\* A beginning of a beginning, and of what has the same before it.
LEMMA BeginsTrans ==
    ASSUME NEW a, NEW b, NEW c, Begins(a, b), Begins(b, c), b \in Seq(Octet), c \in Seq(Octet)
    PROVE  Begins(a, c)
  <1>1. a \in Seq(Octet) /\ Len(a) \in Nat /\ Len(b) \in Nat /\ Len(c) \in Nat
    BY DEF Begins
  <1>2. /\ Len(a) <= Len(b) /\ Len(b) <= Len(c)
        /\ \A k \in 1..Len(a) : a[k] = b[k]
        /\ \A k \in 1..Len(b) : b[k] = c[k]
    BY DEF Begins
  <1>3. Len(a) <= Len(c) /\ \A k \in 1..Len(a) : k \in 1..Len(b)
    BY <1>1, <1>2
  <1> QED
    BY <1>1, <1>2, <1>3 DEF Begins

LEMMA BeginsSelf ==
    ASSUME NEW a \in Seq(Octet)
    PROVE  Begins(a, a)
  <1>1. Len(a) \in Nat
    OBVIOUS
  <1> QED
    BY <1>1 DEF Begins

LEMMA BeginsAfter ==
    ASSUME NEW a \in Seq(Octet), NEW b, NEW c \in Seq(Octet), Begins(b, c)
    PROVE  Begins(a \o b, a \o c)
  <1>1. /\ b \in Seq(Octet) /\ Len(b) \in Nat /\ Len(b) <= Len(c)
        /\ \A k \in 1..Len(b) : b[k] = c[k]
    BY DEF Begins
  <1>2. /\ a \o c \in Seq(Octet) /\ Len(a \o c) = Len(a) + Len(c)
        /\ \A k \in 1..Len(a) : (a \o c)[k] = a[k]
        /\ \A k \in 1..Len(c) : (a \o c)[Len(a) + k] = c[k]
    BY ConcatFacts
  <1>3. Len(a) \in Nat /\ Len(c) \in Nat /\ Len(a) <= Len(a \o c)
    BY <1>2
  <1>4. Begins(a, a \o c)
    BY <1>2, <1>3 DEF Begins
  <1>5. Len(a) + Len(b) <= Len(a \o c)
    BY <1>1, <1>2, <1>3
  <1>6. \A k \in 1..Len(b) : b[k] = (a \o c)[Len(a) + k]
    <2>1. \A k \in 1..Len(b) : k \in 1..Len(c)
      BY <1>1, <1>3
    <2> QED
      BY <1>1, <1>2, <2>1
  <1> QED
    BY <1>1, <1>2, <1>4, <1>5, <1>6, BeginsConcat

\* All but the last byte.
LEMMA ButLastFacts ==
    ASSUME NEW c \in Seq(Octet)
    PROVE  /\ SubSeq(c, 1, Len(c) - 1) \in Seq(Octet)
           /\ Len(SubSeq(c, 1, Len(c) - 1)) = IF Len(c) = 0 THEN 0 ELSE Len(c) - 1
           /\ \A k \in 1..Len(c) - 1 : SubSeq(c, 1, Len(c) - 1)[k] = c[k]
  <1> DEFINE n == Len(c) - 1
             s == SubSeq(c, 1, n)
  <1>1. Len(c) \in Nat /\ n \in Int /\ (\A k \in 1..n : k \in 1..Len(c))
    OBVIOUS
  <1>2. \A k \in 1..n : c[k] \in Octet
    BY <1>1
  <1> HIDE DEF n
  <1>3. /\ s \in Seq(Octet)
        /\ Len(s) = IF 1 <= n THEN n - 1 + 1 ELSE 0
        /\ \A k \in 1..n - 1 + 1 : s[k] = c[1 + k - 1]
    BY <1>1, <1>2, SubSeqProperties
  <1>4. n - 1 + 1 = n /\ \A k \in Int : 1 + k - 1 = k
    BY <1>1
  <1> HIDE DEF s
  <1>5. Len(s) = IF Len(c) = 0 THEN 0 ELSE n
    <2>1. Len(s) = IF 1 <= n THEN n ELSE 0
      BY <1>3, <1>4
    <2>2. n = Len(c) - 1
      BY DEF n
    <2>3. CASE Len(c) = 0
      BY <2>1, <2>2, <2>3
    <2>4. CASE Len(c) # 0
      <3>1. n \in Nat
        BY <1>1, <2>2, <2>4
      <3> QED
        BY <2>1, <2>4, <3>1
    <2> QED
      BY <2>3, <2>4
  <1>6. \A k \in 1..n : s[k] = c[k]
    BY <1>3, <1>4
  <1> QED
    BY <1>3, <1>5, <1>6 DEF n, s

LEMMA ButLastBegins ==
    ASSUME NEW c, NEW d \in Seq(Octet), Begins(c, d)
    PROVE  Begins(SubSeq(c, 1, Len(c) - 1), SubSeq(d, 1, Len(d) - 1))
  <1> DEFINE a == SubSeq(c, 1, Len(c) - 1)
             b == SubSeq(d, 1, Len(d) - 1)
  <1>1. /\ c \in Seq(Octet) /\ Len(c) \in Nat /\ Len(d) \in Nat /\ Len(c) <= Len(d)
        /\ \A k \in 1..Len(c) : c[k] = d[k]
    BY DEF Begins
  <1>2. /\ a \in Seq(Octet) /\ Len(a) = IF Len(c) = 0 THEN 0 ELSE Len(c) - 1
        /\ \A k \in 1..Len(c) - 1 : a[k] = c[k]
    BY <1>1, ButLastFacts
  <1>3. /\ b \in Seq(Octet) /\ Len(b) = IF Len(d) = 0 THEN 0 ELSE Len(d) - 1
        /\ \A k \in 1..Len(d) - 1 : b[k] = d[k]
    BY <1>1, ButLastFacts
  <1> HIDE DEF a, b
  <1>4. Len(a) <= Len(b)
    BY <1>1, <1>2, <1>3
  <1>5. \A k \in 1..Len(a) : k \in 1..Len(c) - 1 /\ k \in 1..Len(d) - 1 /\ k \in 1..Len(c)
    BY <1>1, <1>2
  <1>6. Begins(a, b)
    BY <1>1, <1>2, <1>3, <1>4, <1>5 DEF Begins
  <1> QED
    BY <1>6 DEF a, b

\* A number of four bytes is read where it was written.
LEMMA NumberRead ==
    ASSUME NEW v \in Lengths, NEW s \in Seq(Octet), NEW i \in Nat,
           i >= 1, i + 3 <= Len(s),
           s[i] = Little(v)[1], s[i + 1] = Little(v)[2],
           s[i + 2] = Little(v)[3], s[i + 3] = Little(v)[4]
    PROVE  int32le(s, i) = v
  <1>1. /\ i \in 1..Len(s) /\ i + 1 \in 1..Len(s) /\ i + 2 \in 1..Len(s) /\ i + 3 \in 1..Len(s)
    <2>1. Len(s) \in Nat
      OBVIOUS
    <2> QED
      BY <2>1
  <1>2. /\ byteAt(s, i) = v % 256 /\ byteAt(s, i + 1) = (v \div 256) % 256
        /\ byteAt(s, i + 2) = (v \div 65536) % 256 /\ byteAt(s, i + 3) = v \div 16777216
    BY <1>1, SMT DEF byteAt, Little
  <1>3. v \in Nat
    BY SMT DEF Lengths
  <1>4. (v % 256) + 256 * (((v \div 256) % 256)
           + 256 * (((v \div 65536) % 256) + 256 * (v \div 16777216))) = v
    <2>1. v = (256 * (v \div 256)) + (v % 256)
      BY <1>3, SMT
    <2>2. v \div 256 \in Nat /\ v \div 256 = (256 * ((v \div 256) \div 256)) + ((v \div 256) % 256)
      BY <1>3, SMT
    <2>3. /\ (v \div 256) \div 256 = v \div 65536 /\ v \div 65536 \in Nat
      BY <1>3, SMT
    <2>4. /\ v \div 65536 = (256 * ((v \div 65536) \div 256)) + ((v \div 65536) % 256)
      BY <2>3, SMT
    <2>5. (v \div 65536) \div 256 = v \div 16777216
      BY <1>3, SMT
    <2> QED
      BY <1>3, <2>1, <2>2, <2>3, <2>4, <2>5, SMT
  <1> QED
    BY <1>2, <1>4, SMT DEF int32le

\* Where it goes it is made of bytes.
LEMMA LittleType ==
    ASSUME NEW v \in Lengths
    PROVE  Little(v) \in Seq(Octet) /\ Len(Little(v)) = 4
  <1>1. /\ v % 256 \in 0..255 /\ (v \div 256) % 256 \in 0..255
        /\ (v \div 65536) % 256 \in 0..255 /\ v \div 16777216 \in 0..255
    BY SMT DEF Lengths
  <1> QED
    BY <1>1, SMT DEF Little, Octet

\* A number is read alike in sequences that are alike there.
LEMMA NumberSame ==
    ASSUME NEW s \in Seq(Octet), NEW t \in Seq(Octet), NEW i \in Nat, NEW n \in Nat,
           i >= 1, i + 3 <= n, n <= Len(s), n <= Len(t), \A k \in 1..n : s[k] = t[k]
    PROVE  int32le(s, i) = int32le(t, i)
  <1>1. Len(s) \in Nat /\ Len(t) \in Nat
    OBVIOUS
  <1>2. i \in 1..n /\ i + 1 \in 1..n /\ i + 2 \in 1..n /\ i + 3 \in 1..n
    OBVIOUS
  <1>3. \A k \in 1..n : byteAt(s, k) = byteAt(t, k)
    <2>1. \A k \in 1..n : k \in 1..Len(s) /\ k \in 1..Len(t)
      BY <1>1
    <2> QED
      BY <2>1 DEF byteAt
  <1> QED
    BY <1>2, <1>3, SMT DEF int32le

\* The files of attachments, and the attributes of a winmail.dat.
File == [names : Seq(Seq(Octet)), bytes : Seq(Octet)]
Record == [type : {1, 2}, name : Nat, bytes : Seq(Octet)]

\* A file may lack the end of its bytes, its last names, and of its last name the end.
PartOfFile(a, b) ==
    /\ Begins(a.bytes, b.bytes)
    /\ Len(a.names) <= Len(b.names)
    /\ \A x \in 1..Len(a.names) : /\ x < Len(a.names) => a.names[x] = b.names[x]
                                  /\ Begins(a.names[x], b.names[x])

\* Files may lack the last ones, and the last they have may lack as much.
PartOf(f, s) ==
    /\ Len(f) <= Len(s)
    /\ \A k \in 1..Len(f) : k < Len(f) => f[k] = s[k]
    /\ Len(f) > 0 => PartOfFile(f[Len(f)], s[Len(f)])

LEMMA PartOfFileSelf ==
    ASSUME NEW a \in File
    PROVE  PartOfFile(a, a)
  <1>1. a.bytes \in Seq(Octet) /\ a.names \in Seq(Seq(Octet))
    BY DEF File
  <1>2. Len(a.names) \in Nat /\ \A x \in 1..Len(a.names) : a.names[x] \in Seq(Octet)
    BY <1>1
  <1>3. \A x \in 1..Len(a.names) : Begins(a.names[x], a.names[x])
    BY <1>2, BeginsSelf
  <1> QED
    BY <1>1, <1>2, <1>3, BeginsSelf DEF PartOfFile

LEMMA PartOfFileTrans ==
    ASSUME NEW a \in File, NEW b \in File, NEW c \in File,
           PartOfFile(a, b), PartOfFile(b, c)
    PROVE  PartOfFile(a, c)
  <1>1. /\ b.bytes \in Seq(Octet) /\ c.bytes \in Seq(Octet)
        /\ b.names \in Seq(Seq(Octet)) /\ c.names \in Seq(Seq(Octet))
        /\ a.names \in Seq(Seq(Octet))
    BY DEF File
  <1>2. Len(a.names) \in Nat /\ Len(b.names) \in Nat /\ Len(c.names) \in Nat
    BY <1>1
  <1>3. Len(a.names) <= Len(b.names) /\ Len(b.names) <= Len(c.names)
    BY DEF PartOfFile
  <1>4. Begins(a.bytes, c.bytes)
    BY <1>1, BeginsTrans DEF PartOfFile
  <1>5. ASSUME NEW x \in 1..Len(a.names)
        PROVE  (x < Len(a.names) => a.names[x] = c.names[x]) /\ Begins(a.names[x], c.names[x])
    <2>1. x \in 1..Len(b.names) /\ x \in 1..Len(c.names) /\ (x < Len(a.names) => x < Len(b.names))
      BY <1>2, <1>3
    <2>2. b.names[x] \in Seq(Octet) /\ c.names[x] \in Seq(Octet)
      BY <1>1, <2>1
    <2>3. /\ x < Len(a.names) => a.names[x] = b.names[x]
          /\ Begins(a.names[x], b.names[x])
      BY <1>5 DEF PartOfFile
    <2>4. /\ x < Len(b.names) => b.names[x] = c.names[x]
          /\ Begins(b.names[x], c.names[x])
      BY <2>1 DEF PartOfFile
    <2>5. Begins(a.names[x], c.names[x])
      BY <2>2, <2>3, <2>4, BeginsTrans
    <2> QED
      BY <2>1, <2>3, <2>4, <2>5
  <1>6. Len(a.names) <= Len(c.names)
    BY <1>2, <1>3
  <1> QED
    BY <1>4, <1>5, <1>6 DEF PartOfFile

LEMMA PartOfSelf ==
    ASSUME NEW f \in Seq(File)
    PROVE  PartOf(f, f)
  <1>1. Len(f) \in Nat
    OBVIOUS
  <1>2. Len(f) > 0 => f[Len(f)] \in File
    <2>1. Len(f) > 0 => Len(f) \in 1..Len(f)
      BY <1>1
    <2> QED
      BY <2>1
  <1> QED
    BY <1>1, <1>2, PartOfFileSelf DEF PartOf

LEMMA PartOfTrans ==
    ASSUME NEW f \in Seq(File), NEW g \in Seq(File), NEW s \in Seq(File),
           PartOf(f, g), PartOf(g, s)
    PROVE  PartOf(f, s)
  <1>1. /\ Len(f) \in Nat /\ Len(g) \in Nat /\ Len(s) \in Nat
        /\ Len(f) <= Len(g) /\ Len(g) <= Len(s)
    BY DEF PartOf
  <1>2. Len(f) <= Len(s)
    BY <1>1
  <1>3. ASSUME NEW k \in 1..Len(f), k < Len(f) PROVE f[k] = s[k]
    <2>1. k \in 1..Len(g) /\ k < Len(g)
      BY <1>1, <1>3
    <2> QED
      BY <1>3, <2>1 DEF PartOf
  <1>4. ASSUME Len(f) > 0 PROVE PartOfFile(f[Len(f)], s[Len(f)])
    <2> DEFINE n == Len(f)
    <2>1. n \in 1..n /\ n \in 1..Len(g) /\ n \in 1..Len(s)
      BY <1>1, <1>4
    <2>2. f[n] \in File /\ g[n] \in File /\ s[n] \in File
      BY <2>1
    <2>3. PartOfFile(f[n], g[n])
      BY <1>4 DEF PartOf
    <2>4. CASE n < Len(g)
      <3>1. g[n] = s[n]
        BY <2>1, <2>4 DEF PartOf
      <3> QED
        BY <2>3, <3>1
    <2>5. CASE ~(n < Len(g))
      <3>1. n = Len(g) /\ Len(g) > 0
        BY <1>1, <1>4, <2>5
      <3>2. PartOfFile(g[n], s[n])
        BY <3>1 DEF PartOf
      <3> QED
        BY <2>2, <2>3, <3>2, PartOfFileTrans
    <2> QED
      BY <2>4, <2>5
  <1> QED
    BY <1>2, <1>3, <1>4 DEF PartOf

\* Files that differ in the last one.
LEMMA PartOfLast ==
    ASSUME NEW f \in Seq(File), NEW g \in Seq(File), Len(f) = Len(g), Len(f) > 0,
           \A k \in 1..Len(f) : k < Len(f) => f[k] = g[k],
           PartOfFile(f[Len(f)], g[Len(f)])
    PROVE  PartOf(f, g)
  <1>1. Len(f) \in Nat /\ Len(f) <= Len(g)
    OBVIOUS
  <1> QED
    BY <1>1 DEF PartOf

\* What an attribute does to the files.
LEMMA AttachCases ==
    ASSUME NEW f \in Seq(File), NEW r
    PROVE  /\ r.type = 1 => Attach(f, r) = f
           /\ r.type # 1 /\ r.name = BeginAttachment => Attach(f, r) = Append(f, NoFile)
           /\ r.type # 1 /\ r.name = FileData /\ Len(f) > 0
              => Attach(f, r) = [f EXCEPT ![Len(f)].bytes = @ \o r.bytes]
           /\ r.type # 1 /\ r.name = FileName /\ Len(f) > 0
              => Attach(f, r) = [f EXCEPT ![Len(f)].names =
                                    Append(@, SubSeq(r.bytes, 1, Len(r.bytes) - 1))]
           /\ \/ r.name \notin {BeginAttachment, FileData, FileName}
              \/ Len(f) = 0 /\ r.name # BeginAttachment
              => Attach(f, r) = f
  <1>1. BeginAttachment # FileData /\ BeginAttachment # FileName /\ FileData # FileName
    BY SMT DEF BeginAttachment, FileData, FileName
  <1>2. Len(f) \in Nat
    OBVIOUS
  <1>3. ~(0 > 0)
    OBVIOUS
  <1>4. r.type = 1 => Attach(f, r) = f
    BY <1>1, Zenon DEF Attach
  <1>5. r.type # 1 /\ r.name = BeginAttachment => Attach(f, r) = Append(f, NoFile)
    BY <1>1, Zenon DEF Attach
  <1>6. r.type # 1 /\ r.name = FileData /\ Len(f) > 0
              => Attach(f, r) = [f EXCEPT ![Len(f)].bytes = @ \o r.bytes]
    BY <1>1 DEF Attach
  <1>7. r.type # 1 /\ r.name = FileName /\ Len(f) > 0
              => Attach(f, r) = [f EXCEPT ![Len(f)].names =
                                    Append(@, SubSeq(r.bytes, 1, Len(r.bytes) - 1))]
    BY <1>1 DEF Attach
  <1>8. \/ r.name \notin {BeginAttachment, FileData, FileName}
        \/ Len(f) = 0 /\ r.name # BeginAttachment
        => Attach(f, r) = f
    BY <1>3 DEF Attach
  <1> QED
    BY <1>4, <1>5, <1>6, <1>7, <1>8

\* A new last file.
LEMMA LastFile ==
    ASSUME NEW f \in Seq(File), Len(f) > 0, NEW a \in File
    PROVE  /\ [f EXCEPT ![Len(f)] = a] \in Seq(File)
           /\ Len([f EXCEPT ![Len(f)] = a]) = Len(f)
           /\ \A k \in 1..Len(f) : k < Len(f) => [f EXCEPT ![Len(f)] = a][k] = f[k]
           /\ [f EXCEPT ![Len(f)] = a][Len(f)] = a
  <1>1. Len(f) \in Nat /\ Len(f) \in 1..Len(f)
    OBVIOUS
  <1> QED
    BY <1>1, ExceptSeq

\* More bytes or another name for the last file.
LEMMA LastGrows ==
    ASSUME NEW f \in Seq(File), Len(f) > 0, NEW c \in Seq(Octet)
    PROVE  /\ f[Len(f)] \in File
           /\ [f[Len(f)] EXCEPT !.bytes = @ \o c] \in File
           /\ [f[Len(f)] EXCEPT !.names = Append(@, c)] \in File
           /\ [f EXCEPT ![Len(f)].bytes = @ \o c]
                = [f EXCEPT ![Len(f)] = [f[Len(f)] EXCEPT !.bytes = @ \o c]]
           /\ [f EXCEPT ![Len(f)].names = Append(@, c)]
                = [f EXCEPT ![Len(f)] = [f[Len(f)] EXCEPT !.names = Append(@, c)]]
  <1>1. Len(f) \in Nat /\ Len(f) \in 1..Len(f)
    OBVIOUS
  <1>2. f[Len(f)] \in File
    BY <1>1
  <1>3. f[Len(f)].bytes \in Seq(Octet) /\ f[Len(f)].names \in Seq(Seq(Octet))
    BY <1>2 DEF File
  <1>4. f[Len(f)].bytes \o c \in Seq(Octet)
    BY <1>3, ConcatFacts
  <1> DEFINE strings == Seq(Octet)
  <1>5. Append(f[Len(f)].names, c) \in Seq(strings)
    <2>1. f[Len(f)].names \in Seq(strings) /\ c \in strings
      BY <1>3
    <2> HIDE DEF strings
    <2> QED
      BY <2>1, AppendProperties
  <1>6. [f[Len(f)] EXCEPT !.bytes = @ \o c] \in File
    BY <1>2, <1>4 DEF File
  <1>7. [f[Len(f)] EXCEPT !.names = Append(@, c)] \in File
    BY <1>2, <1>5 DEF File
  <1> QED
    BY <1>2, <1>6, <1>7

\* The last file with more bytes, or with one more name.
LEMMA DataLast ==
    ASSUME NEW f \in Seq(File), Len(f) > 0, NEW r, r.bytes \in Seq(Octet),
           r.type # 1, r.name = FileData
    PROVE  /\ Attach(f, r) \in Seq(File) /\ Len(Attach(f, r)) = Len(f)
           /\ \A k \in 1..Len(f) : k < Len(f) => Attach(f, r)[k] = f[k]
           /\ f[Len(f)] \in File /\ Attach(f, r)[Len(f)] \in File
           /\ Attach(f, r)[Len(f)].bytes = f[Len(f)].bytes \o r.bytes
           /\ Attach(f, r)[Len(f)].names = f[Len(f)].names
  <1> DEFINE old == f[Len(f)]
             new == [f[Len(f)] EXCEPT !.bytes = @ \o r.bytes]
  <1>1. old \in File /\ new \in File
        /\ [f EXCEPT ![Len(f)].bytes = @ \o r.bytes] = [f EXCEPT ![Len(f)] = new]
    BY LastGrows
  <1>2. Attach(f, r) = [f EXCEPT ![Len(f)] = new]
    BY <1>1, AttachCases
  <1>3. new.bytes = old.bytes \o r.bytes /\ new.names = old.names
    BY <1>1 DEF File
  <1> HIDE DEF new, old
  <1>4. /\ [f EXCEPT ![Len(f)] = new] \in Seq(File)
        /\ Len([f EXCEPT ![Len(f)] = new]) = Len(f)
        /\ \A k \in 1..Len(f) : k < Len(f) => [f EXCEPT ![Len(f)] = new][k] = f[k]
        /\ [f EXCEPT ![Len(f)] = new][Len(f)] = new
    BY <1>1, LastFile
  <1> QED
    BY <1>1, <1>2, <1>3, <1>4 DEF old

LEMMA NameLast ==
    ASSUME NEW f \in Seq(File), Len(f) > 0, NEW r, r.bytes \in Seq(Octet),
           r.type # 1, r.name = FileName
    PROVE  /\ Attach(f, r) \in Seq(File) /\ Len(Attach(f, r)) = Len(f)
           /\ \A k \in 1..Len(f) : k < Len(f) => Attach(f, r)[k] = f[k]
           /\ f[Len(f)] \in File /\ Attach(f, r)[Len(f)] \in File
           /\ Attach(f, r)[Len(f)].bytes = f[Len(f)].bytes
           /\ Attach(f, r)[Len(f)].names
                = Append(f[Len(f)].names, SubSeq(r.bytes, 1, Len(r.bytes) - 1))
  <1> DEFINE old == f[Len(f)]
             c == SubSeq(r.bytes, 1, Len(r.bytes) - 1)
             new == [f[Len(f)] EXCEPT !.names = Append(@, c)]
  <1>0. c \in Seq(Octet)
    BY ButLastFacts
  <1>2. Attach(f, r) = [f EXCEPT ![Len(f)].names = Append(@, c)]
    BY AttachCases
  <1> HIDE DEF c
  <1>1. old \in File /\ new \in File
        /\ [f EXCEPT ![Len(f)].names = Append(@, c)] = [f EXCEPT ![Len(f)] = new]
    BY <1>0, LastGrows
  <1>3. new.bytes = old.bytes /\ new.names = Append(old.names, c)
    BY <1>1 DEF File
  <1> HIDE DEF new, old
  <1>4. /\ [f EXCEPT ![Len(f)] = new] \in Seq(File)
        /\ Len([f EXCEPT ![Len(f)] = new]) = Len(f)
        /\ \A k \in 1..Len(f) : k < Len(f) => [f EXCEPT ![Len(f)] = new][k] = f[k]
        /\ [f EXCEPT ![Len(f)] = new][Len(f)] = new
    BY <1>1, LastFile
  <1> QED
    BY <1>1, <1>2, <1>3, <1>4 DEF old, c

LEMMA NewLast ==
    ASSUME NEW f \in Seq(File)
    PROVE  /\ NoFile \in File
           /\ Append(f, NoFile) \in Seq(File) /\ Len(Append(f, NoFile)) = Len(f) + 1
           /\ \A k \in 1..Len(f) : Append(f, NoFile)[k] = f[k]
  <1>1. << >> \in Seq(Seq(Octet)) /\ << >> \in Seq(Octet)
    OBVIOUS
  <1>2. NoFile \in File
    BY <1>1 DEF NoFile, File
  <1> QED
    BY <1>2, AppendProperties

\* Every attribute but three leaves the files as they are.
LEMMA AttachKinds ==
    ASSUME NEW f \in Seq(File), NEW r
    PROVE  \/ Attach(f, r) = f /\ \A q : q.type = r.type /\ q.name = r.name => Attach(f, q) = f
           \/ r.type # 1 /\ r.name = BeginAttachment
           \/ r.type # 1 /\ r.name = FileData /\ Len(f) > 0
           \/ r.type # 1 /\ r.name = FileName /\ Len(f) > 0
  <1>1. Len(f) \in Nat
    OBVIOUS
  <1>2. CASE r.type = 1
    BY <1>2, AttachCases
  <1>3. CASE r.type # 1 /\ r.name = BeginAttachment
    BY <1>3
  <1>4. CASE r.type # 1 /\ r.name # BeginAttachment
    <2>1. CASE r.name \notin {BeginAttachment, FileData, FileName} \/ Len(f) = 0
      BY <1>4, <2>1, AttachCases
    <2>2. CASE r.name \in {FileData, FileName} /\ Len(f) > 0
      BY <1>4, <2>2
    <2>3. Len(f) = 0 \/ Len(f) > 0
      BY <1>1
    <2> QED
      BY <1>4, <2>1, <2>2, <2>3
  <1> QED
    BY <1>2, <1>3, <1>4

LEMMA AttachType ==
    ASSUME NEW f \in Seq(File), NEW r, r.bytes \in Seq(Octet)
    PROVE  Attach(f, r) \in Seq(File)
  <1>1. CASE Attach(f, r) = f
    BY <1>1
  <1>2. CASE r.type # 1 /\ r.name = BeginAttachment
    BY <1>2, AttachCases, NewLast, Zenon
  <1>3. CASE r.type # 1 /\ r.name = FileData /\ Len(f) > 0
    BY <1>3, DataLast
  <1>4. CASE r.type # 1 /\ r.name = FileName /\ Len(f) > 0
    BY <1>4, NameLast
  <1> QED
    BY <1>1, <1>2, <1>3, <1>4, AttachKinds, Zenon

\* One name more.
LEMMA NamesAppend ==
    ASSUME NEW names \in Seq(Seq(Octet)), NEW c \in Seq(Octet)
    PROVE  /\ Append(names, c) \in Seq(Seq(Octet)) /\ Len(Append(names, c)) = Len(names) + 1
           /\ \A k \in 1..Len(names) : Append(names, c)[k] = names[k]
           /\ Append(names, c)[Len(names) + 1] = c
  <1> DEFINE strings == Seq(Octet)
  <1>1. names \in Seq(strings) /\ c \in strings
    OBVIOUS
  <1> HIDE DEF strings
  <1>2. /\ Append(names, c) \in Seq(strings) /\ Len(Append(names, c)) = Len(names) + 1
        /\ \A k \in 1..Len(names) : Append(names, c)[k] = names[k]
        /\ Append(names, c)[Len(names) + 1] = c
    BY <1>1, AppendProperties
  <1> QED
    BY <1>2 DEF strings

\* An attribute takes nothing away.
LEMMA AttachPart ==
    ASSUME NEW f \in Seq(File), NEW r, r.bytes \in Seq(Octet)
    PROVE  PartOf(f, Attach(f, r))
  <1> DEFINE g == Attach(f, r)
             n == Len(f)
  <1>1. n \in Nat /\ g \in Seq(File)
    BY AttachType
  <1>2. CASE g = f
    BY <1>2, PartOfSelf
  <1>3. CASE r.type # 1 /\ r.name = BeginAttachment
    <2>1. g = Append(f, NoFile)
      BY <1>3, AttachCases
    <2>2. Len(g) = n + 1 /\ \A k \in 1..n : g[k] = f[k]
      BY <2>1, NewLast
    <2>3. n > 0 => f[n] \in File /\ g[n] = f[n]
      <3>1. n > 0 => n \in 1..n
        BY <1>1
      <3> QED
        BY <2>2, <3>1
    <2>4. n > 0 => PartOfFile(f[n], g[n])
      BY <2>3, PartOfFileSelf
    <2> QED
      BY <1>1, <2>2, <2>4 DEF PartOf
  <1>4. CASE r.type # 1 /\ r.name = FileData /\ n > 0
    <2>1. /\ Len(g) = n /\ \A k \in 1..n : k < n => g[k] = f[k]
          /\ f[n] \in File /\ g[n] \in File
          /\ g[n].bytes = f[n].bytes \o r.bytes /\ g[n].names = f[n].names
      BY <1>4, DataLast
    <2>2. f[n].bytes \in Seq(Octet)
      BY <2>1 DEF File
    <2>3. Begins(f[n].bytes, g[n].bytes)
      <3>1. Begins(f[n].bytes, f[n].bytes)
        BY <2>2, BeginsSelf
      <3> QED
        BY <2>1, <2>2, <3>1, BeginsLonger
    <2>4. PartOfFile(f[n], f[n])
      BY <2>1, PartOfFileSelf
    <2>5. PartOfFile(f[n], g[n])
      BY <2>1, <2>3, <2>4 DEF PartOfFile
    <2> QED
      BY <1>1, <1>4, <2>1, <2>5, PartOfLast
  <1>5. CASE r.type # 1 /\ r.name = FileName /\ n > 0
    <2> DEFINE c == SubSeq(r.bytes, 1, Len(r.bytes) - 1)
               names == f[n].names
    <2>1. /\ Len(g) = n /\ \A k \in 1..n : k < n => g[k] = f[k]
          /\ f[n] \in File /\ g[n] \in File
          /\ g[n].bytes = f[n].bytes /\ g[n].names = Append(names, c)
      BY <1>5, NameLast
    <2>2. c \in Seq(Octet) /\ f[n].bytes \in Seq(Octet) /\ names \in Seq(Seq(Octet))
      BY <2>1, ButLastFacts DEF File
    <2> HIDE DEF c
    <2>3. Len(names) \in Nat /\ \A k \in 1..Len(names) : names[k] \in Seq(Octet)
      BY <2>2
    <2>4. Len(Append(names, c)) = Len(names) + 1 /\ \A k \in 1..Len(names) : Append(names, c)[k] = names[k]
      BY <2>2, NamesAppend
    <2>5. PartOfFile(f[n], f[n])
      BY <2>1, PartOfFileSelf
    <2>6. PartOfFile(f[n], g[n])
      <3> HIDE DEF names
      <3>1. Len(names) <= Len(g[n].names)
        BY <2>1, <2>3, <2>4
      <3>2. \A k \in 1..Len(names) : Begins(names[k], g[n].names[k]) /\ g[n].names[k] = names[k]
        BY <2>1, <2>3, <2>4, BeginsSelf
      <3> QED
        BY <2>1, <2>5, <3>1, <3>2 DEF PartOfFile, names
    <2> QED
      BY <1>1, <1>5, <2>1, <2>6, PartOfLast
  <1> QED
    BY <1>2, <1>3, <1>4, <1>5, AttachKinds

\* An attribute that is cut gives a part of what it gives whole.
LEMMA AttachCut ==
    ASSUME NEW f \in Seq(File), NEW q, NEW r, q.type = r.type, q.name = r.name,
           r.bytes \in Seq(Octet), Begins(q.bytes, r.bytes)
    PROVE  /\ q.bytes \in Seq(Octet)
           /\ PartOf(Attach(f, q), Attach(f, r))
           /\ q.bytes = r.bytes => Attach(f, q) = Attach(f, r)
  <1> DEFINE a == Attach(f, q)
             b == Attach(f, r)
             n == Len(f)
  <1>1. q.bytes \in Seq(Octet)
    BY DEF Begins
  <1>2. n \in Nat /\ a \in Seq(File) /\ b \in Seq(File)
    BY <1>1, AttachType
  <1>3. q.bytes = r.bytes => a = b
    BY Zenon DEF Attach
  <1>4. CASE b = f /\ a = f
    BY <1>1, <1>4, PartOfSelf
  <1>5. CASE r.type # 1 /\ r.name = BeginAttachment
    <2>1. a = Append(f, NoFile) /\ b = Append(f, NoFile)
      BY <1>5, AttachCases
    <2> QED
      BY <1>1, <1>2, <2>1, PartOfSelf
  <1>6. CASE r.type # 1 /\ r.name = FileData /\ n > 0
    <2>1. /\ Len(a) = n /\ \A k \in 1..n : k < n => a[k] = f[k]
          /\ f[n] \in File /\ a[n] \in File
          /\ a[n].bytes = f[n].bytes \o q.bytes /\ a[n].names = f[n].names
      BY <1>1, <1>6, DataLast
    <2>2. /\ Len(b) = n /\ \A k \in 1..n : k < n => b[k] = f[k]
          /\ b[n] \in File
          /\ b[n].bytes = f[n].bytes \o r.bytes /\ b[n].names = f[n].names
      BY <1>6, DataLast
    <2>3. f[n].bytes \in Seq(Octet)
      BY <2>1 DEF File
    <2>4. Begins(a[n].bytes, b[n].bytes)
      BY <2>1, <2>2, <2>3, BeginsAfter
    <2>5. PartOfFile(f[n], f[n])
      BY <2>1, PartOfFileSelf
    <2>6. PartOfFile(a[n], b[n])
      BY <2>1, <2>2, <2>4, <2>5 DEF PartOfFile
    <2> HIDE DEF a, b, n
    <2>7. PartOf(a, b)
      BY <1>2, <1>6, <2>1, <2>2, <2>6, PartOfLast
    <2> QED
      BY <1>1, <1>3, <2>7 DEF a, b
  <1>7. CASE r.type # 1 /\ r.name = FileName /\ n > 0
    <2> DEFINE c == SubSeq(q.bytes, 1, Len(q.bytes) - 1)
               d == SubSeq(r.bytes, 1, Len(r.bytes) - 1)
               names == f[n].names
    <2>1. /\ Len(a) = n /\ \A k \in 1..n : k < n => a[k] = f[k]
          /\ f[n] \in File /\ a[n] \in File
          /\ a[n].bytes = f[n].bytes /\ a[n].names = Append(names, c)
      BY <1>1, <1>7, NameLast
    <2>2. /\ Len(b) = n /\ \A k \in 1..n : k < n => b[k] = f[k]
          /\ b[n] \in File
          /\ b[n].bytes = f[n].bytes /\ b[n].names = Append(names, d)
      BY <1>7, NameLast
    <2>3. f[n].bytes \in Seq(Octet) /\ names \in Seq(Seq(Octet))
      BY <2>1 DEF File
    <2>4. c \in Seq(Octet) /\ d \in Seq(Octet) /\ Begins(c, d)
      BY <1>1, ButLastFacts, ButLastBegins
    <2> HIDE DEF c, d
    <2>5. Len(names) \in Nat /\ \A k \in 1..Len(names) : names[k] \in Seq(Octet)
      BY <2>3
    <2>6. /\ Len(Append(names, c)) = Len(names) + 1
          /\ \A k \in 1..Len(names) : Append(names, c)[k] = names[k]
          /\ Append(names, c)[Len(names) + 1] = c
      BY <2>3, <2>4, NamesAppend
    <2>7. /\ Len(Append(names, d)) = Len(names) + 1
          /\ \A k \in 1..Len(names) : Append(names, d)[k] = names[k]
          /\ Append(names, d)[Len(names) + 1] = d
      BY <2>3, <2>4, NamesAppend
    <2>8. Begins(f[n].bytes, f[n].bytes)
      BY <2>3, BeginsSelf
    <2>9. PartOfFile(a[n], b[n])
      <3> HIDE DEF names
      <3> DEFINE u == Append(names, c)
                 v == Append(names, d)
                 l == Len(names)
      <3>1. ASSUME NEW x \in 1..l + 1
            PROVE  (x < l + 1 => u[x] = v[x]) /\ Begins(u[x], v[x])
        <4>1. CASE x < l + 1
          <5>1. x \in 1..l
            BY <2>5, <4>1
          <5>2. u[x] = names[x] /\ v[x] = names[x] /\ names[x] \in Seq(Octet)
            BY <2>5, <2>6, <2>7, <5>1
          <5> QED
            BY <5>2, BeginsSelf
        <4>2. CASE ~(x < l + 1)
          <5>1. x = l + 1
            BY <2>5, <4>2
          <5> QED
            BY <2>4, <2>6, <2>7, <4>2, <5>1
        <4> QED
          BY <4>1, <4>2
      <3>2. Len(u) = l + 1 /\ Len(v) = l + 1 /\ l + 1 \in Nat /\ Len(u) <= Len(v)
        BY <2>5, <2>6, <2>7
      <3>3. a[n].names = u /\ b[n].names = v
        BY <2>1, <2>2
      <3>4. Begins(a[n].bytes, b[n].bytes)
        BY <2>1, <2>2, <2>8
      <3> HIDE DEF u, v, l
      <3> QED
        BY <3>1, <3>2, <3>3, <3>4 DEF PartOfFile
    <2> HIDE DEF a, b, n
    <2>10. PartOf(a, b)
      BY <1>2, <1>7, <2>1, <2>2, <2>9, PartOfLast
    <2> QED
      BY <1>1, <1>3, <2>10 DEF a, b
  <1> QED
    BY <1>4, <1>5, <1>6, <1>7, AttachKinds

\* One sequence of bytes after another.
Joined(w, a, b) ==
    /\ w \in Seq(Octet) /\ Len(w) = Len(a) + Len(b)
    /\ \A k \in 1..Len(a) : w[k] = a[k]
    /\ \A k \in 1..Len(b) : w[Len(a) + k] = b[k]

LEMMA After ==
    ASSUME NEW a \in Seq(Octet), NEW b \in Seq(Octet)
    PROVE  Joined(a \o b, a, b)
  BY ConcatFacts DEF Joined

\* How many bytes a record has.
Size(r) == Len(r.bytes)

\* The record that is behind p bytes.
HasRecord(data, p, r) ==
    /\ p + 11 + Size(r) <= Len(data)
    /\ data[p + 1] = r.type
    /\ LowerHalf(int32le(data, p + 2)) = r.name
    /\ int32le(data, p + 6) = Size(r)
    /\ \A k \in 1..Size(r) : data[p + 9 + k] = r.bytes[k]

\* How many bytes of a winmail.dat its records take to a place where one begins or
\* the last ends, and the files there.
Records(points, data, s) ==
    \A p \in Nat, f \in Seq(File) : <<p, f>> \in points =>
        /\ p <= Len(data)
        /\ PartOf(f, s)
        /\ p = Len(data) => f = s
        /\ p # Len(data) => \E r \in Record : /\ HasRecord(data, p, r)
                                              /\ <<p + 11 + Size(r), Attach(f, r)>> \in points

LEMMA RecordFacts ==
    ASSUME NEW r \in Record
    PROVE  r.type \in {1, 2} /\ r.name \in Nat /\ r.bytes \in Seq(Octet) /\ Size(r) \in Nat
  <1>1. r.bytes \in Seq(Octet)
    BY DEF Record
  <1> QED
    BY <1>1 DEF Record, Size

\* A record is read alike where the bytes are.
LEMMA HasRecordSame ==
    ASSUME NEW a \in Seq(Octet), NEW b \in Seq(Octet), NEW p \in Nat, NEW r \in Record,
           HasRecord(a, p, r), p + 11 + Size(r) <= Len(b),
           \A k \in 1..p + 11 + Size(r) : a[k] = b[k]
    PROVE  HasRecord(b, p, r)
  <1> DEFINE n == p + 11 + Size(r)
  <1>1. Len(a) \in Nat /\ Len(b) \in Nat /\ Size(r) \in Nat /\ n \in Nat
    BY RecordFacts
  <1>2. n <= Len(a) /\ n <= Len(b) /\ \A k \in 1..n : a[k] = b[k]
    BY DEF HasRecord
  <1>3. p + 1 \in 1..n /\ \A k \in 1..Size(r) : p + 9 + k \in 1..n
    BY <1>1
  <1>4. /\ p + 2 \in Nat /\ p + 2 >= 1 /\ (p + 2) + 3 <= n
        /\ p + 6 \in Nat /\ p + 6 >= 1 /\ (p + 6) + 3 <= n
    BY <1>1
  <1> HIDE DEF n
  <1>5. int32le(a, p + 2) = int32le(b, p + 2) /\ int32le(a, p + 6) = int32le(b, p + 6)
    BY <1>1, <1>2, <1>4, NumberSame
  <1>6. b[p + 1] = r.type /\ \A k \in 1..Size(r) : b[p + 9 + k] = r.bytes[k]
    BY <1>2, <1>3 DEF HasRecord
  <1>7. LowerHalf(int32le(b, p + 2)) = r.name /\ int32le(b, p + 6) = Size(r)
    BY <1>5 DEF HasRecord
  <1> QED
    BY <1>6, <1>7 DEF HasRecord

\* A record at the end of a winmail.dat makes a place of the new end; the others
\* go on as they did.
LEMMA RecordsAppend ==
    ASSUME NEW data \in Seq(Octet), NEW s \in Seq(File), NEW points, Records(points, data, s),
           NEW w \in Seq(Octet), NEW r \in Record, Len(w) = 11 + Size(r),
           HasRecord(data \o w, Len(data), r)
    PROVE  Records(points \cup {<<Len(data \o w), Attach(s, r)>>}, data \o w, Attach(s, r))
  <1> DEFINE t == data \o w
             n == Len(data)
             s2 == Attach(s, r)
             new == <<Len(t), s2>>
             points2 == points \cup {new}
  <1>1. n \in Nat /\ Len(w) \in Nat /\ Len(w) > 0 /\ r.bytes \in Seq(Octet) /\ Size(r) \in Nat
    BY RecordFacts
  <1>2. /\ t \in Seq(Octet) /\ Len(t) = n + Len(w)
        /\ \A k \in 1..n : t[k] = data[k]
    BY ConcatFacts
  <1>3. s2 \in Seq(File) /\ PartOf(s, s2) /\ PartOf(s2, s2)
    BY <1>1, AttachType, AttachPart, PartOfSelf
  <1>10. HasRecord(t, n, r)
    OBVIOUS
  <1>11. new \in points2 /\ points \subseteq points2
    OBVIOUS
  <1>12. n < Len(t)
    BY <1>1, <1>2
  <1> SUFFICES ASSUME NEW p \in Nat, NEW f \in Seq(File), <<p, f>> \in points2
               PROVE  /\ p <= Len(t)
                      /\ PartOf(f, s2)
                      /\ p = Len(t) => f = s2
                      /\ p # Len(t) =>
                            \E q \in Record : /\ HasRecord(t, p, q)
                                              /\ <<p + 11 + Size(q), Attach(f, q)>> \in points2
    BY DEF Records
  <1>4. CASE <<p, f>> = new
    <2>1. p = Len(t) /\ f = s2
      BY <1>4
    <2> QED
      BY <1>2, <1>3, <2>1
  <1>5. CASE <<p, f>> \in points
    <2>1. /\ p <= n /\ PartOf(f, s) /\ (p = n => f = s)
          /\ p # n => \E q \in Record : /\ HasRecord(data, p, q)
                                        /\ <<p + 11 + Size(q), Attach(f, q)>> \in points
      BY <1>5 DEF Records
    <2>2. p <= Len(t) /\ p # Len(t)
      BY <1>1, <1>2, <1>12, <2>1
    <2>3. PartOf(f, s2)
      BY <1>3, <2>1, PartOfTrans
    <2>4. CASE p = n
      <3>1. f = s /\ HasRecord(t, p, r)
        BY <1>10, <2>1, <2>4
      <3>2. Len(t) = p + 11 + Size(r)
        <4>1. Len(t) = p + Len(w) /\ Len(w) = 11 + Size(r)
          BY <1>2, <2>4
        <4> HIDE DEF t
        <4> QED
          BY <1>1, <4>1
      <3>3. <<p + 11 + Size(r), Attach(f, r)>> \in points2
        BY <1>11, <3>1, <3>2
      <3> QED
        BY <2>2, <2>3, <3>1, <3>3
    <2>5. CASE p # n
      <3>1. PICK q \in Record : /\ HasRecord(data, p, q)
                                /\ <<p + 11 + Size(q), Attach(f, q)>> \in points
        BY <2>1, <2>5
      <3>2. Size(q) \in Nat /\ p + 11 + Size(q) <= n
        BY <3>1, RecordFacts DEF HasRecord
      <3>3. p + 11 + Size(q) <= Len(t) /\ \A k \in 1..p + 11 + Size(q) : k \in 1..n
        BY <1>1, <1>12, <1>2, <3>2
      <3>4. \A k \in 1..p + 11 + Size(q) : data[k] = t[k]
        BY <1>2, <3>3
      <3> HIDE DEF t
      <3>5. HasRecord(t, p, q)
        BY <1>2, <3>1, <3>3, <3>4, HasRecordSame
      <3> QED
        BY <1>11, <2>2, <2>3, <3>1, <3>5
    <2> QED
      BY <2>4, <2>5
  <1> QED
    BY <1>4, <1>5

\* What is written is a record.
LEMMA WrittenFacts ==
    ASSUME NEW type \in {1, 2}, NEW v \in Lengths, NEW c \in Seq(Octet), Len(c) \in Lengths,
           NEW data \in Seq(Octet)
    PROVE  /\ Written(type, v, c) \in Seq(Octet)
           /\ Len(Written(type, v, c)) = 11 + Len(c)
           /\ HasRecord(data \o Written(type, v, c), Len(data),
                        [type |-> type, name |-> LowerHalf(v), bytes |-> c])
  <1> DEFINE w == Written(type, v, c)
             r == [type |-> type, name |-> LowerHalf(v), bytes |-> c]
             t == data \o w
             p == Len(data)
             l == Len(c)
             a == <<type>>
             n1 == Little(v)
             n2 == Little(l)
             z == <<0, 0>>
  <1>1. /\ a \in Seq(Octet) /\ Len(a) = 1 /\ a[1] = type
        /\ z \in Seq(Octet) /\ Len(z) = 2
    BY DEF Octet
  <1>2. /\ n1 \in Seq(Octet) /\ Len(n1) = 4
        /\ n2 \in Seq(Octet) /\ Len(n2) = 4
    BY LittleType
  <1>3. w = (((a \o n1) \o n2) \o c) \o z
    BY DEF Written
  <1>4. p \in Nat /\ l \in Nat
    OBVIOUS
  <1>22. r.type = type /\ r.name = LowerHalf(v) /\ r.bytes = c /\ Size(r) = l
    BY DEF Size
  <1> HIDE DEF a, n1, n2, z, w, r
  <1> DEFINE w1 == a \o n1
             w2 == w1 \o n2
             w3 == w2 \o c
  <1>5. Joined(w1, a, n1)
    BY <1>1, <1>2, After
  <1>6. w3 \o z = w
    BY <1>3
  <1> HIDE DEF w1
  <1>7. w1 \in Seq(Octet)
    BY <1>5 DEF Joined
  <1>8. Joined(w2, w1, n2)
    BY <1>2, <1>7, After
  <1> HIDE DEF w2
  <1>9. w2 \in Seq(Octet)
    BY <1>8 DEF Joined
  <1>17. Joined(w3, w2, c)
    BY <1>9, After
  <1> HIDE DEF w3
  <1>20. w3 \in Seq(Octet)
    BY <1>17 DEF Joined
  <1>21. Joined(w, w3, z)
    BY <1>1, <1>6, <1>20, After
  <1>23. Len(c) = l
    OBVIOUS
  <1>24. Joined(t, data, w)
    <2>1. w \in Seq(Octet)
      BY <1>21 DEF Joined
    <2> QED
      BY <2>1, After
  <1>25. Len(data) = p
    OBVIOUS
  <1> HIDE DEF t, p, l
  <1>26. Len(w1) = 5 /\ w1[1] = type /\ \A k \in 1..4 : w1[1 + k] = n1[k]
    BY <1>1, <1>2, <1>5 DEF Joined
  <1>27. /\ Len(w2) = 9
         /\ \A k \in 1..5 : w2[k] = w1[k]
         /\ \A k \in 1..4 : w2[5 + k] = n2[k]
    BY <1>2, <1>8, <1>26 DEF Joined
  <1>28. /\ Len(w3) = 9 + l
         /\ \A k \in 1..9 : w3[k] = w2[k]
         /\ \A k \in 1..l : w3[9 + k] = c[k]
    BY <1>17, <1>23, <1>27 DEF Joined
  <1>29. /\ w \in Seq(Octet) /\ Len(w) = (9 + l) + 2
         /\ \A k \in 1..9 + l : w[k] = w3[k]
    BY <1>1, <1>21, <1>28 DEF Joined
  <1>30. /\ t \in Seq(Octet) /\ Len(t) = p + Len(w)
         /\ \A k \in 1..Len(w) : t[p + k] = w[k]
    BY <1>24, <1>25 DEF Joined
  <1>10. Len(w) = 11 + l /\ Len(t) = p + 11 + l
    BY <1>4, <1>29, <1>30
  <1>11. \A k \in 1..9 : t[p + k] = w2[k]
    <2>1. \A k \in 1..9 : k \in 1..9 + l /\ k \in 1..Len(w)
      BY <1>4, <1>10
    <2> QED
      BY <1>27, <1>28, <1>29, <1>30, <2>1
  <1>12. \A k \in 1..l : t[p + 9 + k] = c[k]
    <2>1. \A k \in 1..l : 9 + k \in 1..9 + l /\ 9 + k \in 1..Len(w) /\ p + (9 + k) = p + 9 + k
      BY <1>4, <1>10
    <2> QED
      BY <1>27, <1>28, <1>29, <1>30, <2>1
  <1>13. /\ t[p + 1] = type
         /\ t[p + 2] = n1[1] /\ t[p + 3] = n1[2] /\ t[p + 4] = n1[3] /\ t[p + 5] = n1[4]
         /\ t[p + 6] = n2[1] /\ t[p + 7] = n2[2] /\ t[p + 8] = n2[3] /\ t[p + 9] = n2[4]
    <2>1. w1[1] = type /\ w1[2] = n1[1] /\ w1[3] = n1[2] /\ w1[4] = n1[3] /\ w1[5] = n1[4]
      BY <1>26
    <2>2. w2[6] = n2[1] /\ w2[7] = n2[2] /\ w2[8] = n2[3] /\ w2[9] = n2[4]
      BY <1>27
    <2> QED
      BY <1>27, <1>11, <2>1, <2>2
  <1>14. /\ (p + 2) + 1 = p + 3 /\ (p + 2) + 2 = p + 4 /\ (p + 2) + 3 = p + 5
         /\ (p + 6) + 1 = p + 7 /\ (p + 6) + 2 = p + 8 /\ (p + 6) + 3 = p + 9
         /\ p + 2 \in Nat /\ p + 6 \in Nat /\ p + 2 >= 1 /\ p + 6 >= 1
         /\ p + 5 <= Len(t) /\ p + 9 <= Len(t)
    BY <1>4, <1>10
  <1>15. int32le(t, p + 2) = v
    BY <1>30, <1>13, <1>14, NumberRead DEF n1
  <1>16. int32le(t, p + 6) = l
    <2>1. l \in Lengths
      BY DEF l
    <2> QED
      BY <1>30, <1>13, <1>14, <2>1, NumberRead DEF n2
  <1>18. p + 11 + Size(r) <= Len(t)
    BY <1>4, <1>10, <1>22
  <1>19. HasRecord(t, p, r)
    BY <1>12, <1>13, <1>15, <1>16, <1>22, <1>18 DEF HasRecord
  <1> QED
    BY <1>29, <1>10, <1>19 DEF w, t, p, l, r

\* The numbers of attributes, whatever their upper half is.
Lower == {n \in Nat : n <= 65535}

LEMMA NameNumbers ==
    /\ {BeginAttachment, FileData, FileName, OtherAttribute} \subseteq Lower
    /\ OtherAttribute \notin {BeginAttachment, FileData, FileName}
  BY SMT DEF BeginAttachment, FileData, FileName, OtherAttribute, Lower

LEMMA NameHalves ==
    ASSUME NEW x \in Lower, NEW half \in Upper
    PROVE  /\ Numbered(x, half) \in Lengths
           /\ LowerHalf(Numbered(x, half)) = x
           /\ x \in Nat
  <1>1. half \in Nat /\ half <= 32767 /\ x \in Nat /\ x <= 65535
    BY SMT DEF Upper, Lower
  <1>2. x + 65536 * half \in Nat /\ x + 65536 * half <= 2147483647
    BY <1>1, SMT
  <1>3. (x + 65536 * half) % 65536 = x
    BY <1>1, SMT
  <1> QED
    BY <1>1, <1>2, <1>3, SMT DEF Lengths, Numbered, LowerHalf

LEMMA ChunkFacts ==
    ASSUME NEW c \in Chunks
    PROVE  /\ c \in Seq(Octet) /\ Len(c) \in Lengths
           /\ Append(c, 0) \in Seq(Octet) /\ Len(Append(c, 0)) \in Lengths
           /\ SubSeq(Append(c, 0), 1, Len(Append(c, 0)) - 1) = c
  <1>1. c \in Seq(Octet) /\ Len(c) + 1 \in Lengths
    BY CodecAssumption
  <1>2. Len(c) \in Nat /\ 0 \in Octet
    BY <1>1, OctetFacts
  <1>3. Len(c) \in Lengths
    BY <1>1, <1>2, SMT DEF Lengths
  <1>4. /\ Append(c, 0) \in Seq(Octet) /\ Len(Append(c, 0)) = Len(c) + 1
        /\ \A k \in 1..Len(c) : Append(c, 0)[k] = c[k]
    BY <1>1, <1>2, AppendProperties
  <1> DEFINE d == Append(c, 0)
             s == SubSeq(d, 1, Len(d) - 1)
  <1> HIDE DEF d
  <1>5. /\ s \in Seq(Octet) /\ Len(s) = IF Len(d) = 0 THEN 0 ELSE Len(d) - 1
        /\ \A k \in 1..Len(d) - 1 : s[k] = d[k]
    BY <1>4, ButLastFacts DEF d
  <1> HIDE DEF s
  <1>6. Len(s) = Len(c) /\ \A k \in 1..Len(c) : s[k] = c[k]
    <2>1. Len(d) = Len(c) + 1 /\ \A k \in 1..Len(c) : d[k] = c[k]
      BY <1>4 DEF d
    <2>2. Len(d) - 1 = Len(c) /\ Len(d) # 0
      BY <1>2, <2>1
    <2> QED
      BY <1>5, <2>1, <2>2
  <1>7. s = c
    BY <1>1, <1>5, <1>6, SeqEqual
  <1> QED
    BY <1>1, <1>3, <1>4, <1>7 DEF d, s

\* What is written for the last attachment is what its attribute does.
LEMMA WrittenLast ==
    ASSUME NEW s \in Seq(File), NEW r, r.type = 2
    PROVE  /\ r.name = FileData => Attach(s, r) = WithBytes(s, r.bytes)
           /\ r.name = FileName
              => Attach(s, r) = WithName(s, SubSeq(r.bytes, 1, Len(r.bytes) - 1))
           /\ r.name = BeginAttachment => Attach(s, r) = Append(s, NoFile)
           /\ r.name = OtherAttribute => Attach(s, r) = s
  <1>1. r.type # 1
    OBVIOUS
  <1>2. FileData # BeginAttachment /\ FileName # BeginAttachment
    BY SMT DEF BeginAttachment, FileData, FileName
  <1>3. \/ s = << >> /\ Len(s) = 0
        \/ s # << >> /\ Len(s) > 0
    <2>1. Len(s) \in Nat /\ (Len(s) = 0 <=> s = << >>)
      BY EmptySeq
    <2> QED
      BY <2>1
  <1>4. r.name = FileData => Attach(s, r) = WithBytes(s, r.bytes)
    <2> SUFFICES ASSUME r.name = FileData PROVE Attach(s, r) = WithBytes(s, r.bytes)
      OBVIOUS
    <2>1. CASE s = << >> /\ Len(s) = 0
      BY <1>1, <1>2, <2>1, AttachCases, Zenon DEF WithBytes
    <2>2. CASE s # << >> /\ Len(s) > 0
      <3>1. Attach(s, r) = [s EXCEPT ![Len(s)].bytes = @ \o r.bytes]
        BY <1>1, <2>2, AttachCases, Zenon
      <3> QED
        BY <2>2, <3>1, Zenon DEF WithBytes
    <2> QED
      BY <1>3, <2>1, <2>2
  <1>5. r.name = FileName
        => Attach(s, r) = WithName(s, SubSeq(r.bytes, 1, Len(r.bytes) - 1))
    <2> SUFFICES ASSUME r.name = FileName
                 PROVE  Attach(s, r) = WithName(s, SubSeq(r.bytes, 1, Len(r.bytes) - 1))
      OBVIOUS
    <2>1. CASE s = << >> /\ Len(s) = 0
      BY <1>1, <1>2, <2>1, AttachCases, Zenon DEF WithName
    <2>2. CASE s # << >> /\ Len(s) > 0
      <3>1. Attach(s, r) = [s EXCEPT ![Len(s)].names =
                                    Append(@, SubSeq(r.bytes, 1, Len(r.bytes) - 1))]
        BY <1>1, <2>2, AttachCases, Zenon
      <3> QED
        BY <2>2, <3>1, Zenon DEF WithName
    <2> QED
      BY <1>3, <2>1, <2>2
  <1>6. r.name = BeginAttachment => Attach(s, r) = Append(s, NoFile)
    BY <1>1, AttachCases, Zenon
  <1>7. r.name = OtherAttribute => Attach(s, r) = s
    BY <1>1, NameNumbers, AttachCases, Zenon
  <1> QED
    BY <1>4, <1>5, <1>6, <1>7

\* Every attribute that is written is a record.
LEMMA WrittenRecord ==
    ASSUME in \in Seq(File), text \in Seq(Octet), WriteAttribute
    PROVE  \E w \in Seq(Octet), r \in Record :
              /\ text' = text \o w /\ in' = Attach(in, r)
              /\ Len(w) = 11 + Size(r) /\ HasRecord(text \o w, Len(text), r)
  <1>1. PICK c \in Chunks, half \in Halves :
          \/ /\ text' = text \o Written(1, Numbered(BeginAttachment, half), c)
             /\ UNCHANGED in
          \/ /\ text' = text \o Written(2, Numbered(OtherAttribute, half), c)
             /\ UNCHANGED in
          \/ /\ text' = text \o Written(2, Numbered(BeginAttachment, half), c)
             /\ in' = Append(in, NoFile)
          \/ /\ text' = text \o Written(2, Numbered(FileData, half), c)
             /\ in' = WithBytes(in, c)
          \/ /\ text' = text \o Written(2, Numbered(FileName, half), Append(c, 0))
             /\ in' = WithName(in, c)
    BY DEF WriteAttribute
  <1>2. half \in Upper
    BY CodecAssumption
  <1>3. /\ c \in Seq(Octet) /\ Len(c) \in Lengths
        /\ Append(c, 0) \in Seq(Octet) /\ Len(Append(c, 0)) \in Lengths
        /\ SubSeq(Append(c, 0), 1, Len(Append(c, 0)) - 1) = c
    BY ChunkFacts
  <1>4. SUFFICES ASSUME NEW type \in {1, 2}, NEW x \in Lower,
                        NEW d \in Seq(Octet), Len(d) \in Lengths,
                        text' = text \o Written(type, Numbered(x, half), d),
                        \A r : r.type = type /\ r.name = x /\ r.bytes = d
                               => in' = Attach(in, r)
                 PROVE  \E w \in Seq(Octet), r \in Record :
                           /\ text' = text \o w /\ in' = Attach(in, r)
                           /\ Len(w) = 11 + Size(r) /\ HasRecord(text \o w, Len(text), r)
    <2>1. CASE text' = text \o Written(1, Numbered(BeginAttachment, half), c) /\ UNCHANGED in
      <3>1. \A r : r.type = 1 => in' = Attach(in, r)
        BY <2>1, Zenon DEF Attach
      <3> QED
        BY <1>3, <1>4, <2>1, <3>1, NameNumbers
    <2>2. CASE text' = text \o Written(2, Numbered(OtherAttribute, half), c) /\ UNCHANGED in
      <3>1. \A r : r.type = 2 /\ r.name = OtherAttribute => in' = Attach(in, r)
        BY <2>2, WrittenLast
      <3> QED
        BY <1>3, <1>4, <2>2, <3>1, NameNumbers
    <2>3. CASE /\ text' = text \o Written(2, Numbered(BeginAttachment, half), c)
               /\ in' = Append(in, NoFile)
      <3>1. \A r : r.type = 2 /\ r.name = BeginAttachment => in' = Attach(in, r)
        BY <2>3, WrittenLast
      <3> QED
        BY <1>3, <1>4, <2>3, <3>1, NameNumbers
    <2>4. CASE /\ text' = text \o Written(2, Numbered(FileData, half), c)
               /\ in' = WithBytes(in, c)
      <3>1. ASSUME NEW r, r.type = 2, r.name = FileData, r.bytes = c PROVE in' = Attach(in, r)
        <4>1. Attach(in, r) = WithBytes(in, r.bytes)
          BY <3>1, WrittenLast
        <4> QED
          BY <2>4, <3>1, <4>1, Zenon
      <3> QED
        BY <1>3, <1>4, <2>4, <3>1, NameNumbers
    <2>5. CASE /\ text' = text \o Written(2, Numbered(FileName, half), Append(c, 0))
               /\ in' = WithName(in, c)
      <3>1. ASSUME NEW r, r.type = 2, r.name = FileName, r.bytes = Append(c, 0)
            PROVE  in' = Attach(in, r)
        <4>1. SubSeq(r.bytes, 1, Len(r.bytes) - 1) = c
          BY <1>3, <3>1, Zenon
        <4>2. Attach(in, r) = WithName(in, SubSeq(r.bytes, 1, Len(r.bytes) - 1))
          BY <3>1, WrittenLast
        <4> QED
          BY <2>5, <4>1, <4>2, Zenon
      <3> QED
        BY <1>3, <1>4, <2>5, <3>1, NameNumbers
    <2> QED
      BY <1>1, <2>1, <2>2, <2>3, <2>4, <2>5
  <1> DEFINE v == Numbered(x, half)
             r == [type |-> type, name |-> LowerHalf(v), bytes |-> d]
             w == Written(type, v, d)
  <1>5. v \in Lengths /\ LowerHalf(v) = x /\ x \in Nat
    BY <1>2, NameHalves
  <1>6. r.type = type /\ r.name = x /\ r.bytes = d /\ Size(r) = Len(d)
    BY <1>5 DEF Size
  <1>7. r \in Record
    BY <1>5, <1>6 DEF Record
  <1> HIDE DEF v
  <1>8. /\ w \in Seq(Octet) /\ Len(w) = 11 + Len(d)
        /\ HasRecord(text \o w, Len(text), r)
    BY <1>4, <1>5, WrittenFacts
  <1>9. text' = text \o w
    BY <1>4 DEF v
  <1> HIDE DEF r, w
  <1>10. in' = Attach(in, r)
    BY <1>4, <1>6
  <1> QED
    BY <1>6, <1>7, <1>8, <1>9, <1>10

\* What is read of a record, as far as the file goes.
LEMMA ReadRecord ==
    ASSUME NEW whole \in Seq(Octet), NEW data, Begins(data, whole),
           NEW p \in Nat, NEW r \in Record, HasRecord(whole, p, r), Readable(data, p + 1)
    PROVE  LET a == AttributeAt(data, p + 1)
           IN  /\ a.type = r.type /\ a.name = r.name /\ a.next = p + 12 + Size(r)
               /\ Begins(a.bytes, r.bytes)
               /\ p + 11 + Size(r) <= Len(data) => a.bytes = r.bytes
  <1> DEFINE l == Size(r)
             m == Len(data)
             hi == IF (p + 10) + l <= m THEN (p + 10) + l - 1 ELSE m
             c == SubSeq(data, p + 10, hi)
             a == AttributeAt(data, p + 1)
  <1>1. /\ data \in Seq(Octet) /\ m \in Nat /\ m <= Len(whole)
        /\ \A k \in 1..m : data[k] = whole[k]
    BY DEF Begins
  <1>2. l \in Nat /\ r.bytes \in Seq(Octet) /\ Len(r.bytes) = l /\ r.name \in Nat /\ r.type \in {1, 2}
    BY RecordFacts DEF Size
  <1>3. /\ p + 11 + l <= Len(whole) /\ whole[p + 1] = r.type
        /\ LowerHalf(int32le(whole, p + 2)) = r.name
        /\ int32le(whole, p + 6) = l
        /\ \A k \in 1..l : whole[p + 9 + k] = r.bytes[k]
    BY DEF HasRecord
  <1>4. (p + 1) + 8 <= m
    BY DEF Readable
  <1>5. (p + 1) + 1 = p + 2 /\ (p + 1) + 5 = p + 6 /\ (p + 1) + 9 = p + 10
    BY <1>1
  <1>6. int32le(data, p + 2) = int32le(whole, p + 2) /\ int32le(data, p + 6) = int32le(whole, p + 6)
    <2>1. /\ p + 2 \in Nat /\ p + 2 >= 1 /\ (p + 2) + 3 <= m
          /\ p + 6 \in Nat /\ p + 6 >= 1 /\ (p + 6) + 3 <= m
      BY <1>1, <1>4
    <2> HIDE DEF m
    <2>2. m <= Len(data)
      BY <1>1 DEF m
    <2> QED
      BY <1>1, <2>1, <2>2, NumberSame
  <1>7. data[p + 1] = r.type
    <2>1. p + 1 \in 1..m
      BY <1>1, <1>4
    <2> QED
      BY <1>1, <1>3, <2>1
  <1>8. a = [type |-> r.type, name |-> r.name,
             bytes |-> readBytes(data, p + 10, l), next |-> NextAttribute(p + 1, l)]
    <2>1. /\ data[p + 1] = r.type
          /\ LowerHalf(int32le(data, (p + 1) + 1)) = r.name
          /\ int32le(data, (p + 1) + 5) = l
          /\ (p + 1) + 9 = p + 10
      BY <1>3, <1>5, <1>6, <1>7
    <2> HIDE DEF l, m
    <2> QED
      BY <2>1, Zenon DEF AttributeAt
  <1>9. readBytes(data, p + 10, l) = c
    BY DEF readBytes
  <1>10. NextAttribute(p + 1, l) = p + 12 + l
    <2> HIDE DEF l
    <2> QED
      BY <1>2 DEF NextAttribute
  <1>11. a.type = r.type /\ a.name = r.name /\ a.next = p + 12 + l /\ a.bytes = c
    BY <1>8, <1>9, <1>10
  <1> HIDE DEF a, l, m
  <1>12. /\ hi \in Int /\ p + 10 \in Int /\ hi <= m /\ p + 10 <= hi + 1
         /\ hi <= (p + 10) + l - 1
         /\ p + 11 + l <= m => hi = (p + 10) + l - 1
    BY <1>1, <1>2, <1>4
  <1> HIDE DEF hi
  <1>13. \A k \in p + 10..hi : data[k] \in Octet
    <2>1. \A k \in p + 10..hi : k \in 1..Len(data)
      BY <1>1, <1>12 DEF m
    <2> QED
      BY <1>1, <2>1
  <1>14. /\ c \in Seq(Octet)
         /\ Len(c) = IF p + 10 <= hi THEN hi - (p + 10) + 1 ELSE 0
         /\ \A k \in 1..hi - (p + 10) + 1 : c[k] = data[(p + 10) + k - 1]
    BY <1>12, <1>13, SubSeqProperties
  <1> HIDE DEF c
  <1>15. Len(c) = hi - (p + 9) /\ hi - (p + 10) + 1 = hi - (p + 9) /\ Len(c) \in Nat /\ Len(c) <= l
    BY <1>2, <1>12, <1>14
  <1>16. ASSUME NEW k \in 1..Len(c) PROVE c[k] = r.bytes[k]
    <2>1. k \in 1..l /\ (p + 10) + k - 1 = p + 9 + k /\ p + 9 + k \in 1..m
      BY <1>1, <1>2, <1>12, <1>15
    <2>2. c[k] = data[p + 9 + k]
      BY <1>14, <1>15, <2>1
    <2> QED
      BY <1>1, <1>3, <2>1, <2>2 DEF l
  <1>17. Begins(c, r.bytes)
    BY <1>2, <1>14, <1>15, <1>16 DEF Begins
  <1>18. p + 11 + l <= m => c = r.bytes
    <2> SUFFICES ASSUME p + 11 + l <= m PROVE c = r.bytes
      OBVIOUS
    <2>1. Len(c) = Len(r.bytes)
      BY <1>2, <1>12, <1>15
    <2> QED
      BY <1>2, <1>17, <2>1, BeginsPrefix
  <1> QED
    BY <1>11, <1>17, <1>18 DEF a, l, m

\* What a winmail.dat was before it was cut has records, of which the loop is at one,
\* at the end, or, in one that was cut, behind the end.
Source(whole, points, k, s, data, pos, z) ==
    /\ Records(points, whole, s)
    /\ Begins(data, whole)
    /\ 6 <= Len(whole)
    /\ int32le(whole, 1) = tnefMagic
    /\ <<6, << >>>> \in points
    /\ k = "tnef" \/ pos = 0 => data = whole
    /\ pos > 0 /\ ~z.ends /\ pos <= Len(data) + 1 => <<pos - 1, z.files>> \in points

WinmailState(k, s, data, pos, z) ==
    /\ s \in Seq(File) /\ data \in Seq(Octet) /\ pos \in Nat
    /\ z.files \in Seq(File) /\ z.ends \in BOOLEAN
    /\ z = [files |-> z.files, ends |-> z.ends]
    /\ pos = 0 => z = WinmailStart
    /\ PartOf(z.files, s)
    /\ k = "tnef" /\ z.ends => z.files = s
    /\ k = "tnef" /\ pos > 0 => pos <= Len(data) + 1
    /\ \E whole \in Seq(Octet) : \E points : Source(whole, points, k, s, data, pos, z)

WinmailInv == kind \in Winmails => WinmailState(kind, in, text, at, st)

\* What holds of the next values is what holds next.
LEMMA WinmailPrimed ==
    ASSUME kind' \in Winmails => WinmailState(kind', in', text', at', st')
    PROVE  WinmailInv'
  BY DEF WinmailInv, WinmailState, Source, Records, PartOf, PartOfFile, Begins

LEMMA WinmailStartFacts ==
    /\ WinmailStart = [files |-> << >>, ends |-> FALSE]
    /\ WinmailStart.files = << >> /\ WinmailStart.ends = FALSE
  BY DEF WinmailStart

LEMMA PartOfNone ==
    ASSUME NEW s \in Seq(File)
    PROVE  << >> \in Seq(File) /\ PartOf(<< >>, s)
  <1>1. << >> \in Seq(File) /\ Len(<< >>) = 0 /\ Len(s) \in Nat /\ ~(0 > 0) /\ 1..0 = {}
    OBVIOUS
  <1>2. 0 <= Len(s)
    BY <1>1
  <1> QED
    BY <1>1, <1>2, Zenon DEF PartOf

LEMMA PreambleFacts ==
    Preamble \in Seq(Octet) /\ Len(Preamble) = 6 /\ int32le(Preamble, 1) = tnefMagic
  <1> DEFINE a == Little(tnefMagic)
             b == <<1, 2>>
  <1>1. tnefMagic \in Lengths
    BY SMT DEF Lengths, tnefMagic
  <1>2. a \in Seq(Octet) /\ Len(a) = 4
    BY <1>1, LittleType
  <1>3. b \in Seq(Octet) /\ Len(b) = 2
    BY DEF Octet
  <1>4. Preamble = a \o b
    BY DEF Preamble
  <1> HIDE DEF a, b
  <1>5. Joined(Preamble, a, b)
    BY <1>2, <1>3, <1>4, After
  <1>6. Preamble \in Seq(Octet) /\ Len(Preamble) = 6 /\ \A k \in 1..4 : Preamble[k] = a[k]
    BY <1>2, <1>3, <1>5 DEF Joined
  <1>7. Preamble[1] = a[1] /\ Preamble[1 + 1] = a[2] /\ Preamble[1 + 2] = a[3] /\ Preamble[1 + 3] = a[4]
    BY <1>6
  <1>8. 1 \in Nat /\ 1 >= 1 /\ 1 + 3 <= Len(Preamble)
    BY <1>6
  <1>9. int32le(Preamble, 1) = tnefMagic
    BY <1>1, <1>6, <1>7, <1>8, NumberRead DEF a
  <1> QED
    BY <1>6, <1>9

LEMMA InitWinmail == Init => WinmailInv
  <1> SUFFICES ASSUME Init, kind \in Winmails PROVE WinmailState(kind, in, text, at, st)
    BY DEF WinmailInv
  <1>1. in = << >> /\ text = Preamble /\ at = 0 /\ st = WinmailStart
    BY StartFacts DEF Init
  <1>2. << >> \in Seq(File) /\ PartOf(<< >>, << >>) /\ Len(<< >>) = 0
    <2>1. << >> \in Seq(File) /\ Len(<< >>) = 0
      OBVIOUS
    <2> QED
      BY <2>1, PartOfNone
  <1>3. Records({<<6, << >>>>}, Preamble, << >>)
    <2> SUFFICES ASSUME NEW p \in Nat, NEW f \in Seq(File), <<p, f>> \in {<<6, << >>>>}
                 PROVE  p = Len(Preamble) /\ p <= Len(Preamble) /\ PartOf(f, << >>) /\ f = << >>
      BY DEF Records
    <2>1. p = 6 /\ f = << >>
      OBVIOUS
    <2> QED
      BY <1>2, <2>1, PreambleFacts
  <1>4. Begins(Preamble, Preamble)
    BY PreambleFacts, BeginsSelf
  <1>5. ~(0 > 0) /\ 6 <= Len(Preamble) /\ 0 \in Nat
    BY PreambleFacts
  <1>6. Source(Preamble, {<<6, << >>>>}, kind, in, text, at, st)
    BY <1>1, <1>3, <1>4, <1>5, PreambleFacts, Zenon DEF Source
  <1> QED
    BY <1>1, <1>2, <1>5, <1>6, PreambleFacts, WinmailStartFacts, Zenon DEF WinmailState

LEMMA WriteAttributeSound ==
    ASSUME WinmailInv, WriteAttribute
    PROVE  WinmailInv'
  <1>1. /\ kind \in Winmails /\ at = 0 /\ UNCHANGED <<kind, at, st>>
        /\ WinmailState(kind, in, text, at, st)
    BY DEF WinmailInv, WriteAttribute
  <1>2. /\ in \in Seq(File) /\ text \in Seq(Octet) /\ st = WinmailStart
        /\ \E whole \in Seq(Octet) : \E points : Source(whole, points, kind, in, text, at, st)
    BY <1>1, Zenon DEF WinmailState
  <1>2a. PICK whole \in Seq(Octet) : \E points : Source(whole, points, kind, in, text, at, st)
    BY <1>2
  <1>3. PICK points : whole \in Seq(Octet) /\ Source(whole, points, kind, in, text, at, st)
    BY <1>2a
  <1>4. /\ whole = text /\ Records(points, text, in) /\ 6 <= Len(text)
        /\ int32le(text, 1) = tnefMagic /\ <<6, << >>>> \in points
    BY <1>1, <1>3 DEF Source
  <1>5. PICK w \in Seq(Octet), r \in Record :
              /\ text' = text \o w /\ in' = Attach(in, r)
              /\ Len(w) = 11 + Size(r) /\ HasRecord(text \o w, Len(text), r)
    BY <1>1, <1>2, WrittenRecord
  <1> DEFINE points2 == points \cup {<<Len(text \o w), Attach(in, r)>>}
  <1>6. Records(points2, text', in')
    BY <1>2, <1>4, <1>5, RecordsAppend
  <1>7. <<6, << >>>> \in points2
    BY <1>4
  <1> HIDE DEF points2
  <1>8. in' \in Seq(File) /\ text' \in Seq(Octet)
    BY <1>2, <1>5, AttachType, RecordFacts, ConcatFacts
  <1>9. 6 <= Len(text') /\ int32le(text', 1) = tnefMagic
    <2>1. /\ Len(text) \in Nat /\ Len(w) \in Nat /\ Len(text') = Len(text) + Len(w)
          /\ \A k \in 1..Len(text) : text[k] = text'[k]
      <3>1. Joined(text', text, w)
        BY <1>2, <1>5, After, Zenon
      <3> QED
        BY <1>2, <3>1 DEF Joined
    <2>2. 6 <= Len(text') /\ Len(text) <= Len(text')
      BY <1>4, <2>1
    <2>3. 1 \in Nat /\ 1 >= 1 /\ 1 + 3 <= Len(text) /\ Len(text) <= Len(text)
      BY <1>4, <2>1
    <2>4. int32le(text, 1) = int32le(text', 1)
      BY <1>2, <1>8, <2>1, <2>2, <2>3, NumberSame
    <2> QED
      BY <1>4, <2>2, <2>4
  <1>10. Begins(text', text') /\ ~(0 > 0) /\ 0 \in Nat
    BY <1>8, BeginsSelf
  <1>11. Source(text', points2, kind', in', text', at', st')
    BY <1>1, <1>6, <1>7, <1>9, <1>10, Zenon DEF Source
  <1>12. << >> \in Seq(File) /\ PartOf(<< >>, in')
    BY <1>8, PartOfNone
  <1>13. WinmailState(kind', in', text', at', st')
    BY <1>1, <1>2, <1>8, <1>10, <1>11, <1>12, WinmailStartFacts, Zenon DEF WinmailState
  <1> QED
    BY <1>13, WinmailPrimed

\* What is left of a winmail.dat.
LEMMA CutFacts ==
    ASSUME NEW data \in Seq(Octet), NEW n \in 0..Len(data)
    PROVE  /\ Begins(SubSeq(data, 1, n), data) /\ Len(SubSeq(data, 1, n)) = n
           /\ n = Len(data) => SubSeq(data, 1, n) = data
  <1>1. Len(data) \in Nat /\ n \in Nat /\ n \in Int /\ n <= Len(data)
    OBVIOUS
  <1>2. \A k \in 1..n : k \in 1..Len(data)
    BY <1>1
  <1>3. \A k \in 1..n : data[k] \in Octet
    BY <1>2
  <1> DEFINE c == SubSeq(data, 1, n)
  <1>4. /\ c \in Seq(Octet)
        /\ Len(c) = IF 1 <= n THEN n - 1 + 1 ELSE 0
        /\ \A k \in 1..n - 1 + 1 : c[k] = data[1 + k - 1]
    BY <1>1, <1>3, SubSeqProperties
  <1> HIDE DEF c
  <1>5. n - 1 + 1 = n /\ \A k \in 1..n : 1 + k - 1 = k
    BY <1>1
  <1>6. Len(c) = n /\ \A k \in 1..n : c[k] = data[k]
    BY <1>1, <1>4, <1>5
  <1>7. Begins(c, data)
    BY <1>1, <1>4, <1>6 DEF Begins
  <1> QED
    BY <1>6, <1>7, BeginsPrefix DEF c

LEMMA OpenWinmailSound ==
    ASSUME WinmailInv, OpenWinmail
    PROVE  WinmailInv'
  <1>1. /\ kind \in Winmails /\ at = 0 /\ UNCHANGED <<kind, in>> /\ at' = 7
        /\ WinmailState(kind, in, text, at, st)
        /\ st' = [st EXCEPT !.ends = int32le(text', 1) # tnefMagic]
    BY DEF WinmailInv, OpenWinmail
  <1>2. /\ in \in Seq(File) /\ text \in Seq(Octet) /\ st = WinmailStart
        /\ \E whole \in Seq(Octet) : \E points : Source(whole, points, kind, in, text, at, st)
    BY <1>1, Zenon DEF WinmailState
  <1>2a. PICK whole \in Seq(Octet) : \E points : Source(whole, points, kind, in, text, at, st)
    BY <1>2
  <1>3. PICK points : whole \in Seq(Octet) /\ Source(whole, points, kind, in, text, at, st)
    BY <1>2a
  <1>4. /\ whole = text /\ Records(points, text, in) /\ 6 <= Len(text)
        /\ int32le(text, 1) = tnefMagic /\ <<6, << >>>> \in points
    BY <1>1, <1>3 DEF Source
  <1>5. PICK n \in 0..Len(text) : /\ kind = "tnef" => n = Len(text)
                                 /\ text' = SubSeq(text, 1, n)
    BY DEF OpenWinmail
  <1>6. /\ Begins(text', text) /\ Len(text') = n /\ (kind = "tnef" => text' = text)
    BY <1>2, <1>5, CutFacts
  <1>7. text' \in Seq(Octet)
    BY <1>6 DEF Begins
  <1> DEFINE e == int32le(text', 1) # tnefMagic
  <1>8. st' = [files |-> << >>, ends |-> e] /\ st'.files = << >> /\ st'.ends = e /\ e \in BOOLEAN
    BY <1>1, <1>2, WinmailStartFacts
  <1> HIDE DEF e
  <1>9. /\ 7 \in Nat /\ 7 > 0 /\ 7 - 1 = 6 /\ 7 # 0
        /\ kind = "tnef" => 7 <= Len(text') + 1
    BY <1>4, <1>6
  <1>10. kind = "tnef" => st'.ends = FALSE
    BY <1>4, <1>6, <1>8 DEF e
  <1>11. Source(text, points, kind', in', text', at', st')
    BY <1>1, <1>4, <1>6, <1>8, <1>9, Zenon DEF Source
  <1>12. << >> \in Seq(File) /\ PartOf(<< >>, in)
    BY <1>2, PartOfNone
  <1>13. WinmailState(kind', in', text', at', st')
    BY <1>1, <1>2, <1>7, <1>8, <1>9, <1>10, <1>11, <1>12, Zenon DEF WinmailState
  <1> QED
    BY <1>13, WinmailPrimed

\* An attribute is there where the loop looks for one.
LEMMA ReadAttributeSound ==
    ASSUME WinmailInv, ReadAttribute
    PROVE  WinmailInv'
  <1>1. /\ kind \in Winmails /\ at > 0 /\ ~st.ends /\ UNCHANGED <<kind, in, text>>
        /\ WinmailState(kind, in, text, at, st)
        /\ st' = parseTNEF(st, text, at)
        /\ at' = IF Readable(text, at) THEN AttributeAt(text, at).next ELSE at
    BY DEF WinmailInv, ReadAttribute
  <1>2. /\ in \in Seq(File) /\ text \in Seq(Octet) /\ at \in Nat
        /\ st.files \in Seq(File) /\ st.ends \in BOOLEAN
        /\ st = [files |-> st.files, ends |-> st.ends]
        /\ PartOf(st.files, in)
        /\ kind = "tnef" => at <= Len(text) + 1
        /\ \E whole \in Seq(Octet) : \E points : Source(whole, points, kind, in, text, at, st)
    BY <1>1, Zenon DEF WinmailState
  <1>2a. PICK whole \in Seq(Octet) : \E points : Source(whole, points, kind, in, text, at, st)
    BY <1>2
  <1>3. PICK points : whole \in Seq(Octet) /\ Source(whole, points, kind, in, text, at, st)
    BY <1>2a
  <1>4. /\ Records(points, whole, in) /\ Begins(text, whole) /\ 6 <= Len(whole)
        /\ int32le(whole, 1) = tnefMagic /\ <<6, << >>>> \in points
        /\ kind = "tnef" => text = whole
        /\ at <= Len(text) + 1 => <<at - 1, st.files>> \in points
    BY <1>1, <1>3, Zenon DEF Source
  <1> DEFINE f == st.files
             p == at - 1
             m == Len(text)
             a == AttributeAt(text, at)
  <1>5. /\ p \in Nat /\ at = p + 1 /\ m \in Nat /\ Len(whole) \in Nat /\ m <= Len(whole)
    BY <1>1, <1>2, <1>4 DEF Begins
  <1>6. at <= m + 1 =>
           /\ PartOf(f, in)
           /\ p = Len(whole) => f = in
           /\ p # Len(whole) => \E r \in Record :
                 /\ HasRecord(whole, p, r)
                 /\ <<p + 11 + Size(r), Attach(f, r)>> \in points
    BY <1>2, <1>4, <1>5 DEF Records
  <1>7. at # 0 /\ at > 0
    BY <1>1, <1>2
  <1>8. CASE ~Readable(text, at)
    <2>1. at' = at /\ st' = [st EXCEPT !.ends = TRUE]
      BY <1>1, <1>8 DEF parseTNEF
    <2>2. st' = [files |-> f, ends |-> TRUE] /\ st'.files = f /\ st'.ends = TRUE
      BY <1>2, <2>1
    <2>3. kind = "tnef" => f = in
      <3> SUFFICES ASSUME kind = "tnef", p # Len(whole) PROVE FALSE
        BY <1>2, <1>6
      <3>1. text = whole /\ at <= m + 1
        BY <1>2, <1>4
      <3>2. PICK r \in Record : HasRecord(whole, p, r)
        BY <1>6, <3>1
      <3>3. Size(r) \in Nat /\ r.type \in {1, 2}
        BY RecordFacts
      <3>4. p + 11 + Size(r) <= Len(whole) /\ whole[p + 1] = r.type
        BY <3>2 DEF HasRecord
      <3>5. at + 8 <= m /\ text[at] \in {1, 2}
        BY <1>5, <3>1, <3>3, <3>4
      <3> QED
        BY <1>8, <3>5 DEF Readable
    <2>4. Source(whole, points, kind', in', text', at', st')
      <3>1. kind' = "tnef" \/ at' = 0 => text' = whole
        BY <1>1, <1>4, <1>7, <2>1
      <3>2. ~(~st'.ends)
        BY <2>2
      <3> QED
        BY <1>1, <1>4, <3>1, <3>2, Zenon DEF Source
    <2>5. WinmailState(kind', in', text', at', st')
      BY <1>1, <1>2, <1>7, <2>1, <2>2, <2>3, <2>4, Zenon DEF WinmailState
    <2> QED
      BY <2>5, WinmailPrimed
  <1>9. CASE Readable(text, at)
    <2>1. at' = a.next /\ st' = [st EXCEPT !.files = Attach(f, a)]
      BY <1>1, <1>9 DEF parseTNEF
    <2>2. at + 8 <= m
      BY <1>9 DEF Readable
    <2>3. at <= m + 1 /\ p # Len(whole)
      BY <1>2, <1>5, <2>2
    <2>4. PICK r \in Record : /\ HasRecord(whole, p, r)
                              /\ <<p + 11 + Size(r), Attach(f, r)>> \in points
      BY <1>6, <2>3
    <2>5. Size(r) \in Nat /\ r.bytes \in Seq(Octet)
      BY RecordFacts
    <2>6. /\ a.type = r.type /\ a.name = r.name /\ a.next = p + 12 + Size(r)
          /\ Begins(a.bytes, r.bytes)
          /\ p + 11 + Size(r) <= m => a.bytes = r.bytes
      <3>1. Readable(text, p + 1) /\ a = AttributeAt(text, p + 1)
        BY <1>5, <1>9
      <3> HIDE DEF a, p, m
      <3>2. LET b == AttributeAt(text, p + 1)
            IN  /\ b.type = r.type /\ b.name = r.name /\ b.next = p + 12 + Size(r)
                /\ Begins(b.bytes, r.bytes)
                /\ p + 11 + Size(r) <= Len(text) => b.bytes = r.bytes
        BY <1>4, <1>5, <2>4, <3>1, ReadRecord
      <3> QED
        BY <3>1, <3>2, Zenon DEF m
    <2> DEFINE g == Attach(f, r)
               h == Attach(f, a)
               q == p + 11 + Size(r)
    <2> HIDE DEF a, p, m
    <2>7. q \in Nat /\ at' = q + 1 /\ at' # 0 /\ at' \in Nat /\ at' - 1 = q
      BY <1>5, <2>1, <2>5, <2>6
    <2>8. a.bytes \in Seq(Octet) /\ PartOf(h, g) /\ (a.bytes = r.bytes => h = g)
      BY <1>2, <2>5, <2>6, AttachCut
    <2>9. g \in Seq(File) /\ h \in Seq(File)
      BY <1>2, <2>5, <2>8, AttachType
    <2>10. q <= Len(whole) /\ PartOf(g, in)
      <3>1. <<q, g>> \in points
        BY <2>4
      <3> HIDE DEF q, g
      <3> QED
        BY <1>4, <2>7, <2>9, <3>1 DEF Records
    <2>11. st' = [files |-> h, ends |-> st.ends] /\ st'.files = h /\ st'.ends = st.ends
      BY <1>2, <2>1
    <2>12. <<q, g>> \in points
      BY <2>4
    <2> HIDE DEF g, h, q
    <2>13. PartOf(h, in)
      BY <1>2, <2>8, <2>9, <2>10, PartOfTrans
    <2>14. kind = "tnef" => at' <= Len(text) + 1
      BY <1>4, <1>5, <2>7, <2>10 DEF m
    <2>15. at' <= Len(text) + 1 => <<at' - 1, h>> \in points
      <3> SUFFICES ASSUME at' <= Len(text) + 1 PROVE <<q, h>> \in points
        BY <2>7
      <3>1. q <= m
        BY <1>5, <2>7 DEF m
      <3>2. h = g
        BY <2>6, <2>8, <3>1 DEF q
      <3> QED
        BY <2>12, <3>2
    <2>16. Source(whole, points, kind', in', text', at', st')
      BY <1>1, <1>4, <2>7, <2>11, <2>15, Zenon DEF Source
    <2>17. WinmailState(kind', in', text', at', st')
      BY <1>1, <1>2, <2>7, <2>9, <2>11, <2>13, <2>14, <2>16, Zenon DEF WinmailState
    <2> QED
      BY <2>17, WinmailPrimed
  <1> QED
    BY <1>8, <1>9

\* The files of any winmail.dat are what was put in; of one that is cut anywhere, all
\* but the last are, and the last is a beginning.
THEOREM AttachmentsTheorem == Spec => []Attachments
  <1>1. WinmailInv /\ [Next]_vars => WinmailInv'
    <2> SUFFICES ASSUME WinmailInv, [Next]_vars PROVE WinmailInv'
      OBVIOUS
    <2>1. kind' = kind
      BY NextFacts
    <2>2. CASE kind \notin Winmails
      BY <2>1, <2>2, WinmailPrimed
    <2>3. CASE kind \in Winmails /\ UNCHANGED vars
      <3>1. UNCHANGED <<kind, in, text, at, st>>
        BY <2>3 DEF vars
      <3>2. WinmailState(kind', in', text', at', st')
        BY <2>3, <3>1 DEF WinmailInv
      <3> QED
        BY <3>2, WinmailPrimed
    <2>4. CASE kind \in Winmails /\ Next
      <3>1. WriteAttribute \/ OpenWinmail \/ ReadAttribute
        BY <2>4, ActionKinds DEF Next, Blocks, Winmails
      <3> QED
        BY <3>1, WriteAttributeSound, OpenWinmailSound, ReadAttributeSound
    <2> QED
      BY <2>2, <2>3, <2>4
  <1>2. WinmailInv => Attachments
    <2> SUFFICES ASSUME WinmailInv, kind \in Winmails
                 PROVE  LET files == st.files
                            last == Len(files)
                        IN  /\ last <= Len(in)
                            /\ \A k \in 1..last - 1 : files[k] = in[k]
                            /\ last > 0 =>
                                  LET names == files[last].names IN
                                  /\ IsPrefix(files[last].bytes, in[last].bytes)
                                  /\ Len(names) <= Len(in[last].names)
                                  /\ \A x \in DOMAIN names :
                                        IF x < Len(names) THEN names[x] = in[last].names[x]
                                        ELSE IsPrefix(names[x], in[last].names[x])
                            /\ kind = "tnef" /\ st.ends => files = in
      BY DEF Attachments
    <2> DEFINE f == st.files
               n == Len(f)
    <2>1. /\ in \in Seq(File) /\ f \in Seq(File) /\ PartOf(f, in)
          /\ kind = "tnef" /\ st.ends => f = in
      BY Zenon DEF WinmailInv, WinmailState
    <2>2. n \in Nat /\ n <= Len(in)
      BY <2>1 DEF PartOf
    <2>3. \A k \in 1..n - 1 : f[k] = in[k]
      <3>1. \A k \in 1..n - 1 : k \in 1..n /\ k < n
        BY <2>2
      <3> QED
        BY <2>1, <3>1 DEF PartOf
    <2>4. ASSUME n > 0
          PROVE  /\ IsPrefix(f[n].bytes, in[n].bytes)
                 /\ Len(f[n].names) <= Len(in[n].names)
                 /\ \A x \in DOMAIN f[n].names :
                        IF x < Len(f[n].names) THEN f[n].names[x] = in[n].names[x]
                        ELSE IsPrefix(f[n].names[x], in[n].names[x])
      <3>1. n \in 1..Len(f) /\ n \in 1..Len(in)
        BY <2>1, <2>2, <2>4
      <3>2. f[n] \in File /\ in[n] \in File
        BY <2>1, <3>1
      <3>3. PartOfFile(f[n], in[n])
        BY <2>1, <2>4 DEF PartOf
      <3> DEFINE b == f[n]
                 c == in[n]
      <3> HIDE DEF b, c
      <3>4. b.names \in Seq(Seq(Octet)) /\ c.names \in Seq(Seq(Octet)) /\ c.bytes \in Seq(Octet)
        BY <3>2 DEF b, c, File
      <3>5. /\ Begins(b.bytes, c.bytes) /\ Len(b.names) <= Len(c.names)
            /\ \A x \in 1..Len(b.names) : /\ x < Len(b.names) => b.names[x] = c.names[x]
                                          /\ Begins(b.names[x], c.names[x])
        BY <3>3 DEF b, c, PartOfFile
      <3>6. DOMAIN b.names = 1..Len(b.names) /\ Len(b.names) \in Nat /\ Len(c.names) \in Nat
        BY <3>4
      <3>7. ASSUME NEW x \in DOMAIN b.names
            PROVE  IF x < Len(b.names) THEN b.names[x] = c.names[x]
                   ELSE IsPrefix(b.names[x], c.names[x])
        <4>1. x \in 1..Len(b.names) /\ x \in 1..Len(c.names)
          BY <3>5, <3>6
        <4>2. c.names[x] \in Seq(Octet)
          BY <3>4, <4>1
        <4> DEFINE u == b.names[x]
                   v == c.names[x]
        <4>3. Begins(u, v) /\ (x < Len(b.names) => u = v)
          BY <3>5, <4>1
        <4> HIDE DEF u, v
        <4>4. IsPrefix(u, v)
          BY <4>2, <4>3, BeginsPrefix DEF v
        <4> QED
          BY <4>3, <4>4 DEF u, v
      <3>8. IsPrefix(b.bytes, c.bytes)
        BY <3>4, <3>5, BeginsPrefix
      <3> QED
        BY <3>5, <3>7, <3>8, Zenon DEF b, c
    <2> HIDE DEF f, n
    <2> QED
      BY <2>1, <2>2, <2>3, <2>4, Zenon DEF f, n
  <1> QED
    BY InitWinmail, <1>1, <1>2, PTL DEF Spec
=============================================================================
