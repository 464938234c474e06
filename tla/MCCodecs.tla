------------------------------ MODULE MCCodecs -------------------------------
EXTENDS Codecs

\* 'A' and '4' look like digits of an escape.
SomeTexts == {52, 65, EqualSign, 233, CR, LF}

\* They look like types.
SomeChunks == {<<2>>, <<1, 2>>}

\* A round function that is no permutation, and subkeys that differ.
Collapse == [w \in SUBSET Bits |-> IF w = {} THEN Bits ELSE w \ {CHOOSE b \in w : TRUE}]
SomeKeys == [k \in 0..N + 1 |-> IF k % 3 = 0 THEN Bits
                                ELSE IF k % 3 = 1 THEN {}
                                ELSE {CHOOSE b \in Bits : TRUE}]
=============================================================================
