------------------------------- MODULE MCCrypt -------------------------------
EXTENDS CryptStore, Bitwise

MCXorTable == [a, b \in Byte |-> a ^^ b]
MCByteXor(a, b) == MCXorTable[a, b]

\* A permutation of the blocks in which every byte reaches the first.
MixBlock(k, b) ==
    LET c[i \in 0 .. BlockLen - 1] ==
            IF i = 0 THEN (b[0] + k) % (MaxByte + 1)
            ELSE (b[i] + 3 * c[i - 1] + i + k) % (MaxByte + 1)
    IN  [i \in 0 .. BlockLen - 1 |-> c[BlockLen - 1 - i]]

UnmixBlock(k, d) ==
    LET c == [i \in 0 .. BlockLen - 1 |-> d[BlockLen - 1 - i]]
    IN  [i \in 0 .. BlockLen - 1 |->
            IF i = 0 THEN (c[0] - k) % (MaxByte + 1)
            ELSE (c[i] - 3 * c[i - 1] - i - k) % (MaxByte + 1)]

MCAesTable == [k \in CryptKeys, b \in Block |-> MixBlock(k, b)]
MCAes(k, b) == MCAesTable[k, b]
MCUnmixTable == [k \in CryptKeys, b \in Block |-> UnmixBlock(k, b)]
MCAesInverse(k, b) == MCUnmixTable[k, b]

MCKeyText == [k \in {"a", "b"} |-> IF k = "a" THEN <<1>> ELSE <<2, 5, 1, 6>>]
MCVals == {<<>>, <<3, 6>>, <<7, 1, 4, 2, 5, 3>>}
MCIVs == {[i \in 0 .. BlockLen - 1 |-> (3 * i + 1) % (MaxByte + 1)]}
=============================================================================
