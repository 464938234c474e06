------------------------------- MODULE Cipher -------------------------------
(***************************************************************************)
(* The cipher of license keys, internal/crypt/blowfish.go: a block is      *)
(* encrypted (Encrypt, the tool that makes keys) and decrypted again       *)
(* (KeyInfo), round by round.  A word is the set of its bits that are 1.   *)
(***************************************************************************)
EXTENDS Integers

CONSTANTS
    Bits,       \* the bits of a word
    N,          \* rounds
    F,          \* the round function f, as the S boxes make it
    P           \* pBox, the subkeys

VARIABLES
    phase,      \* "idle", "enc", "dec" or "done"
    i,          \* the index of the loop
    xl, xr,     \* Xl and Xr
    plain,      \* the block that was encrypted
    trace       \* history: Xl and Xr before each round of the encryption

vars == <<phase, i, xl, xr, plain, trace>>

Word == SUBSET Bits

\* What the tables must be, and all they need be.
Tables ==
    /\ N \in Nat \ {0}
    /\ F \in [Word -> Word]
    /\ P \in [0..N + 1 -> Word]

\* Exclusive or.
xor(x, y) == (x \ y) \cup (y \ x)

TypeOK ==
    /\ phase \in {"idle", "enc", "dec", "done"}
    /\ i \in 0..N + 1
    /\ xl \in Word
    /\ xr \in Word
    /\ plain \in Word \X Word
    /\ trace \in [0..N -> Word \X Word]

Init ==
    /\ phase = "idle"
    /\ i = 0
    /\ xl = {}
    /\ xr = {}
    /\ plain = <<{}, {}>>
    /\ trace = [k \in 0..N |-> <<{}, {}>>]

\* Encrypt takes a block.
Start ==
    /\ phase = "idle"
    /\ xl' \in Word
    /\ xr' \in Word
    /\ plain' = <<xl', xr'>>
    /\ trace' = [trace EXCEPT ![0] = <<xl', xr'>>]
    /\ phase' = "enc"
    /\ UNCHANGED i

\* A round: xl with the subkey, xr with f of it, and both change places.
Round(k) ==
    /\ xl' = xor(F[xor(xl, P[k])], xr)
    /\ xr' = xor(xl, P[k])

EncRound ==
    /\ phase = "enc"
    /\ i < N
    /\ Round(i)
    /\ i' = i + 1
    /\ trace' = [trace EXCEPT ![i + 1] = <<xl', xr'>>]
    /\ UNCHANGED <<phase, plain>>

\* The last subkeys, after the last change of places is undone.
Whiten(kl, kr) ==
    /\ xl' = xor(xr, P[kl])
    /\ xr' = xor(xl, P[kr])

\* Mutant: the decryption begins at the subkey of the last round.
LastRoundKey == N

\* The subkey the decryption begins with: 17.
FirstKey == N + 1

EncEnd ==
    /\ phase = "enc"
    /\ i = N
    /\ Whiten(N + 1, N)
    /\ phase' = "dec"
    /\ i' = FirstKey
    /\ UNCHANGED <<plain, trace>>

DecRound ==
    /\ phase = "dec"
    /\ i > 1
    /\ Round(i)
    /\ i' = i - 1
    /\ UNCHANGED <<phase, plain, trace>>

DecEnd ==
    /\ phase = "dec"
    /\ i = 1
    /\ Whiten(0, 1)
    /\ phase' = "done"
    /\ UNCHANGED <<i, plain, trace>>

Next == Start \/ EncRound \/ EncEnd \/ DecRound \/ DecEnd

Spec == Init /\ [][Next]_vars

\* KeyInfo reads in a key what Encrypt wrote, for every round function and all
\* subkeys: the decryption undoes the rounds in their reverse order.
Decrypts == phase = "done" => <<xl, xr>> = plain
=============================================================================
