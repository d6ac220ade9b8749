--------------------------------- MODULE Cfb ---------------------------------
(***************************************************************************)
(* AES-CFB128 as the store uses it: AES_cfb128_encrypt/decrypt             *)
(* (openssl_cfb128.cpp) and Rollback_cfb_decrypt (AESCrypt.mm), with small *)
(* blocks of small bytes.  The block cipher is any permutation of the      *)
(* blocks.  Data are sequences; a block is a function from 0 .. BlockLen   *)
(* - 1, as the code indexes it.                                            *)
(*                                                                         *)
(* A status is what an AESCrypt works with: its key, and how much of the   *)
(* vector is already ciphertext (AESCryptStatus); the rest of the vector   *)
(* is key stream still to be used.                                         *)
(***************************************************************************)
EXTENDS Integers, Sequences

CONSTANTS BlockLen,             \* AES_IV_LEN
          MaxByte,              \* 255; one less than a power of two
          CryptKeys,
          ByteXor(_, _),        \* the exclusive or of two bytes
          Aes(_, _),            \* AES_encrypt
          AesInverse(_, _)      \* AES_decrypt

Byte == 0 .. MaxByte
Block == [0 .. BlockLen - 1 -> Byte]

ASSUME BlockAssumption == BlockLen \in Nat \ {0} /\ MaxByte \in Nat
ASSUME XorAssumption ==
    \A a, b \in Byte :
        /\ ByteXor(a, b) \in Byte
        /\ ByteXor(a, b) = ByteXor(b, a)
        /\ ByteXor(a, ByteXor(a, b)) = b
ASSUME AesAssumption ==
    \A k \in CryptKeys, b \in Block :
        /\ Aes(k, b) \in Block
        /\ AesInverse(k, Aes(k, b)) = b

Status == [key : CryptKeys, number : 0 .. BlockLen - 1, vector : Block]

\* resetIV
Reset(key, iv) == [key |-> key, number |-> 0, vector |-> iv]

Least(a, b) == IF a < b THEN a ELSE b

\* v with len bytes of s, from s[from + 1] on, mixed in at position n.
MixIn(v, n, s, from, len) ==
    [i \in 0 .. BlockLen - 1 |->
        IF n <= i /\ i < n + len THEN ByteXor(v[i], s[from + i - n + 1]) ELSE v[i]]

\* v with len bytes of s in place of its own.
PutIn(v, n, s, from, len) ==
    [i \in 0 .. BlockLen - 1 |->
        IF n <= i /\ i < n + len THEN s[from + i - n + 1] ELSE v[i]]

Bytes(v, n, len) == [i \in 1 .. len |-> v[n + i - 1]]

\* The first loop takes what is left of the block begun, the second whole
\* blocks, the third the rest: how many bytes the first takes, how many blocks
\* the others, where block j of these begins and how much of it there is.
Lead(s, len) == IF s.number = 0 THEN 0 ELSE Least(len, BlockLen - s.number)
Blocks(s, len) == (len - Lead(s, len) + BlockLen - 1) \div BlockLen
From(s, len, j) == Lead(s, len) + (j - 1) * BlockLen
Part(s, len, j) == Least(BlockLen, len - From(s, len, j))

\* *num at the end.
EndNumber(s, len) ==
    IF Lead(s, len) = len THEN (s.number + len) % BlockLen
    ELSE (len - Lead(s, len)) % BlockLen

\* What the loops have made of in after the first of them and j blocks.
Encrypting(in, s) ==
    LET len == Len(in)
        first == MixIn(s.vector, s.number, in, 0, Lead(s, len))
        run[j \in 0 .. Blocks(s, len)] ==
            IF j = 0 THEN [out |-> Bytes(first, s.number, Lead(s, len)), vector |-> first]
            ELSE LET before == run[j - 1]
                     v == MixIn(Aes(s.key, before.vector), 0, in, From(s, len, j), Part(s, len, j))
                 IN  [out |-> before.out \o Bytes(v, 0, Part(s, len, j)), vector |-> v]
    IN  run

Decrypting(in, s) ==
    LET len == Len(in)
        lead == Lead(s, len)
        run[j \in 0 .. Blocks(s, len)] ==
            IF j = 0
            THEN [out |-> Bytes(MixIn(s.vector, s.number, in, 0, lead), s.number, lead),
                  vector |-> PutIn(s.vector, s.number, in, 0, lead)]
            ELSE LET before == run[j - 1]
                     stream == Aes(s.key, before.vector)
                     from == From(s, len, j)
                     part == Part(s, len, j)
                 IN  [out |-> before.out \o Bytes(MixIn(stream, 0, in, from, part), 0, part),
                      vector |-> PutIn(stream, 0, in, from, part)]
    IN  run

Ended(in, s, end) ==
    [out |-> end.out,
     status |-> [key |-> s.key, number |-> EndNumber(s, Len(in)), vector |-> end.vector]]

\* AES_cfb128_encrypt: the vector becomes the ciphertext.
Encrypt(in, s) == Ended(in, s, Encrypting(in, s)[Blocks(s, Len(in))])

\* AES_cfb128_decrypt: the vector takes the ciphertext from the input.
Decrypt(in, s) == Ended(in, s, Decrypting(in, s)[Blocks(s, Len(in))])

\* Rollback_cfb_decrypt: the key stream is ciphertext xor plaintext, from the
\* end backwards; a block all of whose key stream is known again is decrypted.
\* in and out end where the status is.
\* Seeded fault: a status in the middle of a block is rolled back over the
\* block's beginning without the cipher.
Rollback_NoCipher(in, out, s) ==
    LET len == Len(in)
        n == s.number
        v == [i \in 0 .. BlockLen - 1 |->
                IF n - len <= i /\ i < n THEN ByteXor(in[len - n + i + 1], out[len - n + i + 1])
                ELSE s.vector[i]]
    IN  [key |-> s.key, number |-> (n + len * (BlockLen - 1)) % BlockLen, vector |-> v]

\* The vectors before the last j whole blocks of the first left bytes.
RollingBack(key, first, stream, left) ==
    LET vec[j \in 0 .. left \div BlockLen] ==
            IF j = 0 THEN first
            ELSE AesInverse(key, PutIn(vec[j - 1], 0, stream, left - j * BlockLen, BlockLen))
    IN  vec

Rollback(in, out, s) ==
    LET len == Len(in)
        stream == [i \in 1 .. len |-> ByteXor(in[i], out[i])]
        lead == Least(len, s.number)
        left == len - lead
        rest == left % BlockLen
        n == s.number - lead
        back == PutIn(s.vector, n, stream, len - lead, lead)
        first == IF n = 0 /\ s.number # 0 THEN AesInverse(s.key, back) ELSE back
        vector == RollingBack(s.key, first, stream, left)[left \div BlockLen]
    IN  IF rest = 0
        THEN [key |-> s.key, number |-> IF left = 0 THEN n ELSE 0, vector |-> vector]
        ELSE [key |-> s.key, number |-> BlockLen - rest,
              vector |-> PutIn(vector, BlockLen - rest, stream, 0, rest)]

-----------------------------------------------------------------------------
\* The definition of the mode, one byte at a time: ciphertext and status after
\* the first n bytes of text.
CfbMode(text, key, iv) ==
    LET f[n \in 0 .. Len(text)] ==
            IF n = 0 THEN [cipher |-> <<>>, status |-> Reset(key, iv)]
            ELSE LET before == f[n - 1]
                     s == before.status
                     v == IF s.number = 0 THEN Aes(key, s.vector) ELSE s.vector
                     c == ByteXor(v[s.number], text[n])
                 IN  [cipher |-> Append(before.cipher, c),
                      status |-> [key |-> key, number |-> (s.number + 1) % BlockLen,
                                  vector |-> [v EXCEPT ![s.number] = c]]]
    IN  f
=============================================================================
