------------------------------- MODULE CfbProofs -------------------------------
(***************************************************************************)
(* What the loops of Cfb compute, for any block length, any exclusive or   *)
(* and any block cipher: encrypting continues a CFB stream, decrypting     *)
(* reads it from any place, and rolling back finds the earlier status.     *)
(***************************************************************************)
EXTENDS Cfb, SequenceTheorems, WellFoundedInduction, TLAPS

\* Induction up to n.
LEMMA UpTo ==
    ASSUME NEW n \in Nat, NEW S, 0 \in S, \A i \in 0 .. n - 1 : i \in S => i + 1 \in S
    PROVE  \A i \in 0 .. n : i \in S
<1> SUFFICES ASSUME \E i \in 0 .. n : i \notin S PROVE FALSE
  OBVIOUS
<1> DEFINE T == {i \in 0 .. n : i \notin S}
           R == OpToRel(<, Nat)
<1>1. IsWellFoundedOn(R, Nat)
  BY NatLessThanWellFounded
<1>2. \A x, y \in Nat : x < y => <<x, y>> \in R
  BY DEF OpToRel
<1>3. T \subseteq Nat /\ T # {}
  OBVIOUS
<1> HIDE DEF R
<1>4. PICK x \in T : \A y \in T : ~ (<<y, x>> \in R)
  BY <1>1, <1>3, WFMin
<1>5. x \in 1 .. n /\ x \notin S
  OBVIOUS
<1>6. x - 1 \in Nat /\ x \in Nat /\ x - 1 < x /\ x - 1 \in 0 .. n - 1 /\ x - 1 + 1 = x
  BY <1>5
<1>7. x - 1 \in S
  <2>1. x - 1 \notin T
    BY <1>2, <1>4, <1>6
  <2> QED BY <2>1, <1>6
<1> QED BY <1>5, <1>6, <1>7

\* f begins with base and goes on by g, up to n.
GoesOn(f, n, base, g) == f[0] = base /\ \A i \in 1 .. n : f[i] = g[i][f[i - 1]]

\* A recursive function on 0 .. n exists, whatever it begins with and its step.
LEMMA Recursion ==
    ASSUME NEW X, NEW base \in X, NEW n \in Nat, NEW g \in [Nat -> [X -> X]]
    PROVE  \E f \in [0 .. n -> X] : GoesOn(f, n, base, g)
<1> DEFINE Upto(m) == {f \in [0 .. m -> X] :
                         f[0] = base /\ \A i \in 1 .. m : f[i] = g[i][f[i - 1]]}
           S == {m \in Nat : Upto(m) # {}}
<1>1. 0 \in S
  <2>1. [i \in 0 .. 0 |-> base] \in Upto(0)
    OBVIOUS
  <2> QED BY <2>1
<1>2. ASSUME NEW m \in 0 .. n - 1, m \in S PROVE m + 1 \in S
  <2>1. PICK f \in Upto(m) : TRUE
    BY <1>2
  <2> DEFINE h == [i \in 0 .. m + 1 |-> IF i <= m THEN f[i] ELSE g[m + 1][f[m]]]
  <2>2. f \in [0 .. m -> X] /\ m \in Nat /\ f[m] \in X
    BY <2>1
  <2>3. g[m + 1][f[m]] \in X
    BY <2>2
  <2>4. h \in [0 .. m + 1 -> X] /\ h[0] = base
    BY <2>1, <2>2, <2>3
  <2>5. ASSUME NEW i \in 1 .. m + 1 PROVE h[i] = g[i][h[i - 1]]
    <3>1. CASE i <= m
      BY <2>1, <2>2, <3>1
    <3>2. CASE i = m + 1
      <4>1. h[i] = g[m + 1][f[m]] /\ h[i - 1] = f[m]
        BY <2>2, <3>2
      <4> QED BY <3>2, <4>1
    <3> QED BY <2>2, <3>1, <3>2
  <2> HIDE DEF h
  <2>6. h \in Upto(m + 1)
    BY <2>4, <2>5
  <2> QED BY <2>2, <2>6
<1> HIDE DEF S
<1>3. \A i \in 0 .. n : i \in S
  BY <1>1, <1>2, UpTo
<1>4. PICK f \in Upto(n) : TRUE
  BY <1>3 DEF S
<1>5. f \in [0 .. n -> X] /\ GoesOn(f, n, base, g)
  BY <1>4 DEF GoesOn
<1> QED BY <1>5

-----------------------------------------------------------------------------
\* Concatenation, pieces of sequences and equality, element by element.
LEMMA ConcatIs ==
    ASSUME NEW S, NEW s \in Seq(S), NEW t \in Seq(S), NEW m \in Nat, NEW n \in Nat,
           Len(s) = m, Len(t) = n
    PROVE  /\ s \o t \in Seq(S) /\ Len(s \o t) = m + n
           /\ \A i \in 1 .. m : (s \o t)[i] = s[i]
           /\ \A i \in 1 .. n : (s \o t)[m + i] = t[i]
OBVIOUS

\* A stretch of a sequence, element by element.
LEMMA SubSeqIs ==
    ASSUME NEW S, NEW s \in Seq(S), NEW m \in Nat, NEW n \in Nat, m + n <= Len(s)
    PROVE  /\ SubSeq(s, m + 1, m + n) \in Seq(S) /\ Len(SubSeq(s, m + 1, m + n)) = n
           /\ \A i \in 1 .. n : SubSeq(s, m + 1, m + n)[i] = s[m + i]
<1>1. Len(s) \in Nat
  BY LenProperties
<1>2. SubSeq(s, m + 1, m + n) = [i \in 1 .. n |-> s[m + i]]
  OBVIOUS
<1>3. \A i \in 1 .. n : s[m + i] \in S
  <2> SUFFICES ASSUME NEW i \in 1 .. n PROVE s[m + i] \in S
    OBVIOUS
  <2>1. m + i \in 1 .. Len(s)
    BY <1>1
  <2> QED BY <2>1, ElementOfSeq
<1>4. [i \in 1 .. n |-> s[m + i]] \in [1 .. n -> S]
  BY <1>3
<1> QED BY <1>2, <1>4, IsASeq, LenProperties

\* Sequences of one length with the same elements are the same.
LEMMA SeqSame ==
    ASSUME NEW S, NEW s \in Seq(S), NEW t \in Seq(S), Len(s) = Len(t),
           \A i \in 1 .. Len(s) : s[i] = t[i]
    PROVE  s = t
BY SeqEqual

-----------------------------------------------------------------------------
\* The offset at which block b begins.
Base(b) == b * BlockLen

\* The first block begins at the beginning.
LEMMA Base0 == Base(0) = 0
BY BlockAssumption DEF Base

\* A block begins at an offset.
LEMMA BaseNat == ASSUME NEW b \in Nat PROVE Base(b) \in Nat
BY BlockAssumption DEF Base

\* The next block begins a block length later.
LEMMA BaseNext == ASSUME NEW b \in Nat PROVE Base(b + 1) = Base(b) + BlockLen
BY BlockAssumption DEF Base

\* Blocks add up.
LEMMA BaseAdd == ASSUME NEW b \in Nat, NEW d \in Nat PROVE Base(b + d) = Base(b) + Base(d)
BY BlockAssumption DEF Base

\* A later block begins no earlier than the end of this one.
LEMMA BaseOrder ==
    ASSUME NEW b \in Nat, NEW d \in Nat, b < d
    PROVE  Base(b) + BlockLen <= Base(d)
<1>1. d = (b + 1) + (d - b - 1) /\ d - b - 1 \in Nat /\ b + 1 \in Nat
  OBVIOUS
<1>2. Base(d) = Base(b + 1) + Base(d - b - 1)
  BY <1>1, BaseAdd
<1> QED BY <1>1, <1>2, BaseNext, BaseNat, BlockAssumption

\* A place of the stream is one place of one block.
LEMMA OnePlace ==
    ASSUME NEW b \in Nat, NEW d \in Nat, NEW r \in 0 .. BlockLen - 1, NEW q \in 0 .. BlockLen - 1,
           Base(b) + r = Base(d) + q
    PROVE  b = d /\ r = q
<1>1. ~ (b < d) /\ ~ (d < b)
  BY BaseOrder, BaseNat, BlockAssumption
<1> QED BY <1>1, BaseNat, BlockAssumption

\* Every offset is a place of a block.
LEMMA DivMod ==
    ASSUME NEW n \in Nat
    PROVE  /\ n \div BlockLen \in Nat /\ n % BlockLen \in 0 .. BlockLen - 1
           /\ n = Base(n \div BlockLen) + (n % BlockLen)
BY BlockAssumption DEF Base

\* The block and the place of an offset, from the block and the place.
LEMMA PlaceOf ==
    ASSUME NEW b \in Nat, NEW r \in 0 .. BlockLen - 1
    PROVE  (Base(b) + r) \div BlockLen = b /\ (Base(b) + r) % BlockLen = r
<1>1. Base(b) + r \in Nat
  BY BaseNat, BlockAssumption
<1> DEFINE n == Base(b) + r
<1>2. /\ n \div BlockLen \in Nat /\ n % BlockLen \in 0 .. BlockLen - 1
      /\ n = Base(n \div BlockLen) + (n % BlockLen)
  BY <1>1, DivMod
<1> QED BY ONLY <1>2, OnePlace, b \in Nat, r \in 0 .. BlockLen - 1

-----------------------------------------------------------------------------
\* The vector block b starts from: the ciphertext of the block before.
Chain(c, iv, b) ==
    IF b = 0 THEN iv ELSE [i \in 0 .. BlockLen - 1 |-> c[Base(b - 1) + i + 1]]

Stream(c, key, iv, b) == Aes(key, Chain(c, iv, b))

\* c is the encryption of t.
IsCfb(c, t, key, iv) ==
    /\ key \in CryptKeys /\ iv \in Block
    /\ c \in Seq(Byte) /\ t \in Seq(Byte) /\ Len(c) = Len(t)
    /\ \A b \in Nat, r \in 0 .. BlockLen - 1 :
          Base(b) + r < Len(t) =>
            c[Base(b) + r + 1] = ByteXor(Stream(c, key, iv, b)[r], t[Base(b) + r + 1])

\* The status after the first r bytes of block b, and after n bytes.
At(c, key, iv, b, r) ==
    [key |-> key, number |-> r,
     vector |-> IF r = 0 THEN Chain(c, iv, b)
                ELSE [i \in 0 .. BlockLen - 1 |->
                        IF i < r THEN c[Base(b) + i + 1] ELSE Stream(c, key, iv, b)[i]]]

StatusAt(c, key, iv, n) == At(c, key, iv, n \div BlockLen, n % BlockLen)

\* The vector while a block is worked on: its first r bytes, and the key stream
\* of the rest.
Running(c, key, iv, b, r) ==
    [i \in 0 .. BlockLen - 1 |-> IF i < r THEN c[Base(b) + i + 1] ELSE Stream(c, key, iv, b)[i]]

\* The vector a block starts from is a block.
LEMMA ChainType ==
    ASSUME NEW c \in Seq(Byte), NEW iv \in Block, NEW b \in Nat, Base(b) <= Len(c)
    PROVE  Chain(c, iv, b) \in Block
<1>1. CASE b = 0
  BY <1>1 DEF Chain
<1>2. CASE b # 0
  <2>1. b - 1 \in Nat /\ Base(b - 1) \in Nat /\ Base(b) = Base(b - 1) + BlockLen
    <3>1. b - 1 \in Nat /\ b = b - 1 + 1
      BY <1>2
    <3> QED BY <3>1, BaseNat, BaseNext
  <2>2. ASSUME NEW i \in 0 .. BlockLen - 1 PROVE c[Base(b - 1) + i + 1] \in Byte
    <3>1. Base(b - 1) + i + 1 \in 1 .. Len(c)
      BY <2>1, BlockAssumption
    <3> QED BY <3>1, ElementOfSeq
  <2> QED BY <1>2, <2>2 DEF Chain, Block
<1> QED BY <1>1, <1>2

\* So is its key stream.
LEMMA StreamType ==
    ASSUME NEW c \in Seq(Byte), NEW key \in CryptKeys, NEW iv \in Block, NEW b \in Nat,
           Base(b) <= Len(c)
    PROVE  Stream(c, key, iv, b) \in Block
BY ChainType, AesAssumption DEF Stream

\* Block b starts from bytes before it only.
LEMMA ChainOfPrefix ==
    ASSUME NEW c, NEW d, NEW iv, NEW b \in Nat, NEW n \in Nat, Base(b) <= n,
           \A i \in 1 .. n : c[i] = d[i]
    PROVE  Chain(c, iv, b) = Chain(d, iv, b)
<1>1. CASE b = 0
  BY <1>1 DEF Chain
<1>2. CASE b # 0
  <2>1. b - 1 \in Nat /\ Base(b - 1) \in Nat /\ Base(b) = Base(b - 1) + BlockLen
    <3>1. b - 1 \in Nat /\ b = b - 1 + 1
      BY <1>2
    <3> QED BY <3>1, BaseNat, BaseNext
  <2>2. ASSUME NEW i \in 0 .. BlockLen - 1 PROVE c[Base(b - 1) + i + 1] = d[Base(b - 1) + i + 1]
    <3>1. Base(b - 1) + i + 1 \in 1 .. n
      BY <2>1, BlockAssumption
    <3> QED BY <3>1
  <2> QED BY <1>2, <2>2 DEF Chain
<1> QED BY <1>1, <1>2

\* Where the place n is, and that what precedes it decides the status.
LEMMA StatusOfPrefix ==
    ASSUME NEW c, NEW d, NEW key, NEW iv, NEW n \in Nat, \A i \in 1 .. n : c[i] = d[i]
    PROVE  StatusAt(c, key, iv, n) = StatusAt(d, key, iv, n)
<1> DEFINE b == n \div BlockLen
           r == n % BlockLen
<1>1. b \in Nat /\ r \in 0 .. BlockLen - 1 /\ n = Base(b) + r /\ Base(b) \in Nat
  BY DivMod, BaseNat
<1> HIDE DEF b, r
<1>2. Chain(c, iv, b) = Chain(d, iv, b)
  BY <1>1, ChainOfPrefix
<1>3. ASSUME NEW i \in 0 .. BlockLen - 1, i < r PROVE c[Base(b) + i + 1] = d[Base(b) + i + 1]
  <2>1. Base(b) + i + 1 \in 1 .. n
    BY <1>1, <1>3, BlockAssumption
  <2> QED BY <2>1
<1>4. At(c, key, iv, b, r) = At(d, key, iv, b, r)
  BY <1>2, <1>3 DEF At, Stream
<1> QED BY <1>4 DEF StatusAt, b, r

\* The status at a place of a stream is a status.
LEMMA StatusType ==
    ASSUME NEW c \in Seq(Byte), NEW key \in CryptKeys, NEW iv \in Block, NEW n \in 0 .. Len(c)
    PROVE  StatusAt(c, key, iv, n) \in Status
<1> DEFINE b == n \div BlockLen
           r == n % BlockLen
<1>1. b \in Nat /\ r \in 0 .. BlockLen - 1 /\ n = Base(b) + r /\ Base(b) \in Nat /\ n \in Nat
  BY DivMod, BaseNat
<1> HIDE DEF b, r
<1>2. Chain(c, iv, b) \in Block /\ Stream(c, key, iv, b) \in Block
  BY <1>1, ChainType, StreamType
<1>3. ASSUME NEW i \in 0 .. BlockLen - 1, i < r PROVE c[Base(b) + i + 1] \in Byte
  <2>1. Base(b) + i + 1 \in 1 .. Len(c)
    BY <1>1, <1>3, BlockAssumption
  <2> QED BY <2>1, ElementOfSeq
<1>4. [i \in 0 .. BlockLen - 1 |-> IF i < r THEN c[Base(b) + i + 1] ELSE Stream(c, key, iv, b)[i]]
        \in Block
  BY <1>2, <1>3 DEF Block
<1>5. At(c, key, iv, b, r) \in Status
  BY <1>1, <1>2, <1>4 DEF At, Status
<1> QED BY <1>5 DEF StatusAt, b, r

\* At the beginning it is a reset one (resetIV).
LEMMA StatusAtStart ==
    ASSUME NEW c, NEW key, NEW iv
    PROVE  StatusAt(c, key, iv, 0) = Reset(key, iv)
<1>1. 0 \div BlockLen = 0 /\ 0 % BlockLen = 0
  BY BlockAssumption
<1> QED BY <1>1 DEF StatusAt, At, Reset, Chain

-----------------------------------------------------------------------------
\* Inside a block and at its end, the status has the running vector.
LEMMA RunningStatus ==
    ASSUME NEW c, NEW key, NEW iv, NEW b \in Nat, NEW r \in 1 .. BlockLen
    PROVE  StatusAt(c, key, iv, Base(b) + r) =
              [key |-> key, number |-> IF r = BlockLen THEN 0 ELSE r,
               vector |-> Running(c, key, iv, b, r)]
<1>1. CASE r # BlockLen
  <2>1. r \in 0 .. BlockLen - 1 /\ r # 0
    BY <1>1, BlockAssumption
  <2>2. StatusAt(c, key, iv, Base(b) + r) = At(c, key, iv, b, r)
    BY <2>1, PlaceOf DEF StatusAt
  <2> QED BY <1>1, <2>1, <2>2 DEF At, Running
<1>2. CASE r = BlockLen
  <2>1. Base(b) + r = Base(b + 1) + 0 /\ 0 \in 0 .. BlockLen - 1 /\ b + 1 \in Nat
    BY <1>2, BaseNext, BaseNat, BlockAssumption
  <2>2. StatusAt(c, key, iv, Base(b) + r) = At(c, key, iv, b + 1, 0)
    BY <2>1, PlaceOf DEF StatusAt
  <2>3. b + 1 # 0 /\ b + 1 - 1 = b
    OBVIOUS
  <2>4. Chain(c, iv, b + 1) = [i \in 0 .. BlockLen - 1 |-> c[Base(b) + i + 1]]
    BY <2>3 DEF Chain
  <2>5. \A i \in 0 .. BlockLen - 1 : i < r
    BY <1>2, BlockAssumption
  <2>6. Chain(c, iv, b + 1) = Running(c, key, iv, b, r)
    BY <2>4, <2>5 DEF Running
  <2> QED BY <1>2, <2>2, <2>6 DEF At
<1> QED BY <1>1, <1>2

\* The vector a piece of a block is worked on with.
LEMMA RunningVector ==
    ASSUME NEW c \in Seq(Byte), NEW key \in CryptKeys, NEW iv \in Block, NEW b \in Nat,
           NEW r \in 0 .. BlockLen - 1, Base(b) <= Len(c)
    PROVE  LET s == StatusAt(c, key, iv, Base(b) + r) IN
           Running(c, key, iv, b, r) = IF r = 0 THEN Aes(key, s.vector) ELSE s.vector
<1>1. StatusAt(c, key, iv, Base(b) + r) = At(c, key, iv, b, r)
  BY PlaceOf DEF StatusAt
<1>2. CASE r = 0
  <2>1. \A i \in 0 .. BlockLen - 1 : ~ (i < r)
    BY <1>2
  <2>2. Running(c, key, iv, b, r) = [i \in 0 .. BlockLen - 1 |-> Stream(c, key, iv, b)[i]]
    BY <2>1 DEF Running
  <2>3. Stream(c, key, iv, b) \in Block
    BY StreamType
  <2>4. Running(c, key, iv, b, r) = Stream(c, key, iv, b)
    BY <2>2, <2>3 DEF Block
  <2> QED BY <1>1, <1>2, <2>4 DEF At, Stream
<1>3. CASE r # 0
  <2>1. At(c, key, iv, b, r).vector = Running(c, key, iv, b, r)
    BY <1>3 DEF At, Running
  <2> QED BY <1>1, <1>3, <2>1
<1> QED BY <1>2, <1>3

\* What a loop takes from one block continues the stream.
LEMMA EncryptPart ==
    ASSUME NEW c, NEW t, NEW key, NEW iv, IsCfb(c, t, key, iv),
           NEW b \in Nat, NEW r \in 0 .. BlockLen - 1, Len(c) = Base(b) + r,
           NEW in \in Seq(Byte), NEW from \in Nat, NEW p \in Nat, p >= 1,
           r + p <= BlockLen, from + p <= Len(in),
           NEW v, v = MixIn(Running(c, key, iv, b, r), r, in, from, p)
    PROVE  LET e == Bytes(v, r, p) IN
           /\ e \in Seq(Byte) /\ Len(e) = p
           /\ IsCfb(c \o e, t \o SubSeq(in, from + 1, from + p), key, iv)
           /\ v = Running(c \o e, key, iv, b, r + p)
<1> DEFINE e == Bytes(v, r, p)
           d == c \o e
           u == t \o SubSeq(in, from + 1, from + p)
           K == Stream(c, key, iv, b)
           n == Base(b) + r
<1>0. n = Base(b) + r
  OBVIOUS
<1>1. /\ key \in CryptKeys /\ iv \in Block /\ c \in Seq(Byte) /\ t \in Seq(Byte)
      /\ Len(c) = n /\ Len(t) = n /\ n \in Nat /\ Base(b) \in Nat /\ BlockLen \in Nat
  BY BaseNat, BlockAssumption DEF IsCfb
<1> HIDE DEF n
<1>2. K \in Block
  BY <1>0, <1>1, StreamType, BlockAssumption
<1>3. ASSUME NEW i \in 1 .. p
      PROVE  /\ v[r + i - 1] = ByteXor(K[r + i - 1], in[from + i])
             /\ v[r + i - 1] \in Byte /\ in[from + i] \in Byte
  <2>1. /\ r + i - 1 \in 0 .. BlockLen - 1 /\ r <= r + i - 1 /\ r + i - 1 < r + p
        /\ ~ (r + i - 1 < r) /\ from + (r + i - 1) - r + 1 = from + i /\ from + i \in 1 .. Len(in)
    BY <1>1
  <2>2. in[from + i] \in Byte
    BY <2>1, ElementOfSeq
  <2>3. K[r + i - 1] \in Byte
    BY <1>2, <2>1 DEF Block
  <2>4. Running(c, key, iv, b, r)[r + i - 1] = K[r + i - 1]
    BY <2>1 DEF Running
  <2>5. v[r + i - 1] = ByteXor(Running(c, key, iv, b, r)[r + i - 1], in[from + i])
    BY <2>1 DEF MixIn
  <2> QED BY <2>2, <2>3, <2>4, <2>5, XorAssumption
<1>4. e \in Seq(Byte) /\ Len(e) = p /\ \A i \in 1 .. p : e[i] = v[r + i - 1]
  <2>1. e \in [1 .. p -> Byte]
    BY <1>3 DEF Bytes
  <2>2. \A i \in 1 .. p : e[i] = v[r + i - 1]
    BY DEF Bytes
  <2> HIDE DEF e
  <2> QED BY <2>1, <2>2, IsASeq, LenProperties
<1> HIDE DEF e, d, u
<1>5. /\ d \in Seq(Byte) /\ Len(d) = n + p
      /\ \A i \in 1 .. n : d[i] = c[i]
      /\ \A i \in 1 .. p : d[n + i] = e[i]
  <2>1. c \in Seq(Byte) /\ e \in Seq(Byte) /\ n \in Nat /\ p \in Nat /\ Len(c) = n /\ Len(e) = p
    BY <1>1, <1>4
  <2>2. /\ c \o e \in Seq(Byte) /\ Len(c \o e) = n + p
        /\ \A i \in 1 .. n : (c \o e)[i] = c[i]
        /\ \A i \in 1 .. p : (c \o e)[n + i] = e[i]
    BY ONLY <2>1, SMTT(30)
  <2> QED BY <2>2 DEF d
<1>6. /\ SubSeq(in, from + 1, from + p) \in Seq(Byte) /\ Len(SubSeq(in, from + 1, from + p)) = p
      /\ \A i \in 1 .. p : SubSeq(in, from + 1, from + p)[i] = in[from + i]
  BY SubSeqIs
<1>7. /\ u \in Seq(Byte) /\ Len(u) = n + p
      /\ \A i \in 1 .. n : u[i] = t[i]
      /\ \A i \in 1 .. p : u[n + i] = in[from + i]
  <2> DEFINE x == SubSeq(in, from + 1, from + p)
  <2>1. x \in Seq(Byte) /\ Len(x) = p /\ \A i \in 1 .. p : x[i] = in[from + i]
    BY <1>6
  <2> HIDE DEF x
  <2>2. t \in Seq(Byte) /\ x \in Seq(Byte) /\ n \in Nat /\ p \in Nat /\ Len(t) = n /\ Len(x) = p
    BY <1>1, <2>1
  <2>3. u = t \o x
    BY DEF x, u
  <2>4. /\ t \o x \in Seq(Byte) /\ Len(t \o x) = n + p
        /\ \A i \in 1 .. n : (t \o x)[i] = t[i]
        /\ \A i \in 1 .. p : (t \o x)[n + i] = x[i]
    BY ONLY <2>2, SMTT(30)
  <2> QED BY <2>1, <2>3, <2>4
<1>8. ASSUME NEW a \in Nat, Base(a) <= n PROVE Stream(d, key, iv, a) = Stream(c, key, iv, a)
  <2>1. \A i \in 1 .. n : d[i] = c[i]
    BY <1>5
  <2>2. Chain(d, iv, a) = Chain(c, iv, a)
    BY ONLY <1>1, <1>8, <2>1, ChainOfPrefix
  <2> QED BY <2>2 DEF Stream
<1>9. IsCfb(d, u, key, iv)
  <2> SUFFICES ASSUME NEW a \in Nat, NEW q \in 0 .. BlockLen - 1, Base(a) + q < n + p
               PROVE  d[Base(a) + q + 1] = ByteXor(Stream(d, key, iv, a)[q], u[Base(a) + q + 1])
    BY <1>1, <1>5, <1>7 DEF IsCfb
  <2>1. Base(a) \in Nat
    BY BaseNat
  <2>2. CASE Base(a) + q < n
    <3>1. Base(a) + q + 1 \in 1 .. n /\ Base(a) <= n
      BY <1>0, <1>1, <2>1, <2>2, SMTT(30)
    <3>2. Stream(d, key, iv, a) = Stream(c, key, iv, a)
      BY <1>8, <3>1
    <3>3. c[Base(a) + q + 1] = ByteXor(Stream(c, key, iv, a)[q], t[Base(a) + q + 1])
      BY <1>1, <2>2 DEF IsCfb
    <3> QED BY <1>0, <1>5, <1>7, <3>1, <3>2, <3>3
  <2>3. CASE n <= Base(a) + q
    <3>1. a = b
      <4>1. ~ (a < b)
        BY <1>0, <1>1, <2>1, <2>3, BaseOrder, SMTT(30)
      <4>2. ~ (b < a)
        BY <1>0, <1>1, <2>1, BaseOrder, SMTT(30)
      <4> QED BY <4>1, <4>2
    <3>2. q - r + 1 \in 1 .. p /\ Base(a) + q + 1 = n + (q - r + 1) /\ r + (q - r + 1) - 1 = q
      BY <1>0, <1>1, <2>1, <2>3, <3>1
    <3>3. d[Base(a) + q + 1] = v[q] /\ u[Base(a) + q + 1] = in[from + (q - r + 1)]
      <4>1. d[n + (q - r + 1)] = e[q - r + 1] /\ u[n + (q - r + 1)] = in[from + (q - r + 1)]
        BY <1>5, <1>7, <3>2
      <4>2. e[q - r + 1] = v[r + (q - r + 1) - 1]
        BY <1>4, <3>2
      <4> QED BY <3>2, <4>1, <4>2
    <3>4. v[q] = ByteXor(K[q], in[from + (q - r + 1)])
      BY <1>3, <3>2
    <3>5. Stream(d, key, iv, a) = K
      BY <1>0, <1>1, <1>8, <3>1
    <3> QED BY <3>3, <3>4, <3>5
  <2> QED BY <1>1, <2>1, <2>2, <2>3
<1>10. v = Running(d, key, iv, b, r + p)
  <2> SUFFICES ASSUME NEW i \in 0 .. BlockLen - 1
               PROVE  v[i] = IF i < r + p THEN d[Base(b) + i + 1] ELSE Stream(d, key, iv, b)[i]
    BY DEF Running, MixIn
  <2>1. CASE i < r
    <3>1. v[i] = c[Base(b) + i + 1]
      BY <2>1 DEF MixIn, Running
    <3>2. Base(b) + i + 1 \in 1 .. n /\ i < r + p
      BY <1>0, <1>1, <2>1
    <3> QED BY <1>5, <3>1, <3>2
  <2>2. CASE r <= i /\ i < r + p
    <3>1. i - r + 1 \in 1 .. p /\ Base(b) + i + 1 = n + (i - r + 1) /\ r + (i - r + 1) - 1 = i
      BY <1>0, <1>1, <2>2
    <3> QED BY <1>4, <1>5, <2>2, <3>1
  <2>3. CASE r + p <= i
    <3>1. ~ (i < r + p) /\ ~ (i < r)
      BY <2>3
    <3>2. v[i] = K[i]
      BY <3>1 DEF MixIn, Running
    <3>3. Stream(d, key, iv, b) = K
      BY <1>0, <1>1, <1>8
    <3> QED BY <3>1, <3>2, <3>3
  <2> QED BY <2>1, <2>2, <2>3
<1> QED BY <1>4, <1>9, <1>10 DEF d, u, e

\* p bytes of in after the first from are those of c after the first n.
Same(in, from, c, n, p) == \A i \in 1 .. p : in[from + i] = c[n + i]

Text(t, n, p) == [i \in 1 .. p |-> t[n + i]]

\* What a loop reads of one block is the text, and leaves the vector of its end.
LEMMA DecryptPart ==
    ASSUME NEW c, NEW t, NEW key, NEW iv, IsCfb(c, t, key, iv),
           NEW b \in Nat, NEW r \in 0 .. BlockLen - 1,
           NEW in, NEW from \in Nat, NEW p \in Nat,
           r + p <= BlockLen, Base(b) + r + p <= Len(c),
           Same(in, from, c, Base(b) + r, p),
           NEW v, v = Running(c, key, iv, b, r)
    PROVE  /\ Bytes(MixIn(v, r, in, from, p), r, p) = Text(t, Base(b) + r, p)
           /\ PutIn(v, r, in, from, p) = Running(c, key, iv, b, r + p)
<1> DEFINE n == Base(b) + r
           K == Stream(c, key, iv, b)
           w == MixIn(v, r, in, from, p)
<1>0. n = Base(b) + r
  OBVIOUS
<1>1. /\ key \in CryptKeys /\ iv \in Block /\ c \in Seq(Byte) /\ t \in Seq(Byte)
      /\ Len(t) = Len(c) /\ Len(c) \in Nat /\ n \in Nat /\ Base(b) \in Nat /\ BlockLen \in Nat
      /\ n + p <= Len(c)
  <2>1. /\ key \in CryptKeys /\ iv \in Block /\ c \in Seq(Byte) /\ t \in Seq(Byte)
        /\ Len(t) = Len(c)
    BY DEF IsCfb
  <2>2. Base(b) \in Nat /\ BlockLen \in Nat /\ Len(c) \in Nat
    BY <2>1, BaseNat, BlockAssumption, LenProperties
  <2> QED BY <2>1, <2>2
<1> HIDE DEF n
<1>2. K \in Block
  BY <1>0, <1>1, StreamType, BlockAssumption
<1>3. ASSUME NEW i \in 1 .. p PROVE w[r + i - 1] = t[n + i]
  <2>1. /\ r + i - 1 \in 0 .. BlockLen - 1 /\ r <= r + i - 1 /\ r + i - 1 < r + p
        /\ ~ (r + i - 1 < r) /\ from + (r + i - 1) - r + 1 = from + i
        /\ n + i \in 1 .. Len(c) /\ n + i = Base(b) + (r + i - 1) + 1
        /\ Base(b) + (r + i - 1) < Len(t)
    BY <1>0, <1>1, SMTT(30)
  <2>2. v[r + i - 1] = K[r + i - 1]
    BY <2>1 DEF Running
  <2>3. w[r + i - 1] = ByteXor(K[r + i - 1], c[n + i])
    BY <1>0, <2>1, <2>2 DEF MixIn, Same
  <2>4. c[n + i] = ByteXor(K[r + i - 1], t[n + i])
    BY <1>1, <2>1 DEF IsCfb
  <2>5. K[r + i - 1] \in Byte /\ t[n + i] \in Byte
    BY <1>1, <1>2, <2>1, ElementOfSeq DEF Block
  <2> QED BY <2>3, <2>4, <2>5, XorAssumption
<1>4. Bytes(w, r, p) = Text(t, Base(b) + r, p)
  BY <1>0, <1>3 DEF Bytes, Text
<1>5. PutIn(v, r, in, from, p) = Running(c, key, iv, b, r + p)
  <2> SUFFICES ASSUME NEW i \in 0 .. BlockLen - 1
               PROVE  PutIn(v, r, in, from, p)[i] = Running(c, key, iv, b, r + p)[i]
    BY DEF PutIn, Running
  <2>1. CASE i < r
    BY <1>1, <2>1 DEF PutIn, Running
  <2>2. CASE r <= i /\ i < r + p
    <3>1. /\ i - r + 1 \in 1 .. p /\ from + i - r + 1 = from + (i - r + 1)
          /\ Base(b) + r + (i - r + 1) = Base(b) + i + 1
      BY <1>1, <2>2
    <3>2. PutIn(v, r, in, from, p)[i] = in[from + (i - r + 1)]
      BY <2>2, <3>1 DEF PutIn
    <3>4. in[from + (i - r + 1)] = c[Base(b) + i + 1]
      BY <3>1 DEF Same
    <3>3. Running(c, key, iv, b, r + p)[i] = c[Base(b) + i + 1]
      BY <2>2 DEF Running
    <3> QED BY <3>2, <3>3, <3>4
  <2>3. CASE r + p <= i
    <3>1. ~ (i < r) /\ ~ (i < r + p)
      BY <2>3
    <3> QED BY <3>1 DEF PutIn, Running
  <2> QED BY <2>1, <2>2, <2>3
<1> QED BY <1>4, <1>5

-----------------------------------------------------------------------------
\* How the loops cut len bytes that begin at place r of block b.  beta is the
\* block at whose beginning the first loop leaves off if there is anything left.
Cut(b, r, len, s) ==
    LET lead == Lead(s, len)
        k == Blocks(s, len)
        beta == IF r = 0 THEN b ELSE b + 1
    IN  /\ lead \in 0 .. len /\ r + lead <= BlockLen /\ k \in Nat /\ beta \in Nat
        /\ r = 0 => lead = 0
        /\ lead = len <=> k = 0
        /\ k # 0 => Base(b) + r + lead = Base(beta)
        /\ k # 0 => lead + Base(k - 1) < len /\ len <= lead + Base(k)
        /\ \A j \in 1 .. k :
             /\ From(s, len, j) = lead + Base(j - 1) /\ lead + Base(j - 1) < len
             /\ Part(s, len, j) = Least(BlockLen, len - (lead + Base(j - 1)))
        /\ Base(b) + r \in Nat
        /\ EndNumber(s, len) = (Base(b) + r + len) % BlockLen

\* A call cuts its bytes at the ends of blocks: each piece lies in one block.
LEMMA Cutting ==
    ASSUME NEW b \in Nat, NEW r \in 0 .. BlockLen - 1, NEW len \in Nat, NEW s, s.number = r
    PROVE  Cut(b, r, len, s)
<1> DEFINE lead == Lead(s, len)
           k == Blocks(s, len)
           beta == IF r = 0 THEN b ELSE b + 1
           left == len - lead
<1>1. lead \in 0 .. len /\ r + lead <= BlockLen /\ (r = 0 => lead = 0)
  BY BlockAssumption DEF Lead, Least
<1>2. lead # len => Base(b) + r + lead = Base(beta)
  BY BaseNext, BaseNat, BlockAssumption DEF Lead, Least
<1>3. beta \in Nat /\ Base(b) \in Nat /\ Base(beta) \in Nat /\ BlockLen \in Nat /\ BlockLen > 0
  BY BaseNat, BlockAssumption
<1> HIDE DEF lead, beta
<1>4. left \in Nat /\ left + BlockLen - 1 \in Nat
  BY <1>1, <1>3
<1>5. /\ k = (left + BlockLen - 1) \div BlockLen
      /\ k \in Nat /\ Base(k) <= left + BlockLen - 1 /\ left <= Base(k)
  <2> DEFINE m == left + BlockLen - 1
  <2>1. k = m \div BlockLen
    BY DEF Blocks, lead
  <2>2. m \in Nat /\ m = left + BlockLen - 1
    BY <1>4
  <2> HIDE DEF m, left
  <2>3. m \div BlockLen \in Nat /\ m % BlockLen \in 0 .. BlockLen - 1
        /\ m = Base(m \div BlockLen) + (m % BlockLen)
    BY <2>2, DivMod
  <2> HIDE DEF k
  <2>4. Base(k) \in Nat /\ m = Base(k) + (m % BlockLen)
    BY <2>1, <2>3, BaseNat
  <2> QED BY <1>3, <1>4, <2>1, <2>2, <2>3, <2>4
<1> HIDE DEF k
<1>6. left = 0 <=> k = 0
  <2>1. left = 0 => k = 0
    <3>1. k # 0 => 0 < k /\ Base(0) + BlockLen <= Base(k)
      BY <1>5, BaseOrder
    <3> QED BY <1>3, <1>5, <3>1, Base0
  <2>2. k = 0 => left = 0
    BY <1>4, <1>5, Base0
  <2> QED BY <2>1, <2>2
<1>7. k # 0 => k - 1 \in Nat /\ lead + Base(k - 1) < len /\ len <= lead + Base(k)
  <2> SUFFICES ASSUME k # 0 PROVE k - 1 \in Nat /\ lead + Base(k - 1) < len /\ len <= lead + Base(k)
    OBVIOUS
  <2>1. k - 1 \in Nat /\ k - 1 + 1 = k
    BY <1>5
  <2>2. Base(k) = Base(k - 1) + BlockLen /\ Base(k - 1) \in Nat
    BY <2>1, BaseNext, BaseNat
  <2> QED BY <1>1, <1>3, <1>5, <2>1, <2>2
<1>8. ASSUME NEW j \in 1 .. k
      PROVE  /\ From(s, len, j) = lead + Base(j - 1) /\ lead + Base(j - 1) < len
             /\ Part(s, len, j) = Least(BlockLen, len - (lead + Base(j - 1)))
  <2>1. From(s, len, j) = lead + Base(j - 1)
    BY DEF From, Base, lead
  <2>2. j - 1 \in Nat /\ k - 1 \in Nat /\ k # 0 /\ (j - 1 < k - 1 \/ j - 1 = k - 1)
    BY <1>5
  <2>3. Base(j - 1) <= Base(k - 1)
    BY <1>3, <2>2, BaseOrder, BaseNat
  <2>4. lead + Base(j - 1) < len
    BY <1>1, <1>7, <2>2, <2>3, BaseNat
  <2> QED BY <2>1, <2>4 DEF Part
<1>9. EndNumber(s, len) = (Base(b) + r + len) % BlockLen
  <2>1. CASE lead = len
    <3>1. EndNumber(s, len) = (r + len) % BlockLen
      BY <2>1 DEF EndNumber, lead
    <3>2. CASE r + len = BlockLen
      <4>1. Base(b) + r + len = Base(b + 1) + 0 /\ r + len = Base(0 + 1) + 0 /\ 0 \in 0 .. BlockLen - 1
        BY <1>3, <3>2, BaseNext, Base0
      <4>2. (Base(b + 1) + 0) % BlockLen = 0 /\ (Base(0 + 1) + 0) % BlockLen = 0
        BY <4>1, PlaceOf
      <4> QED BY <3>1, <4>1, <4>2
    <3>3. CASE r + len # BlockLen
      <4>1. r + len \in 0 .. BlockLen - 1 /\ r + len = Base(0) + (r + len)
            /\ Base(b) + r + len = Base(b) + (r + len)
        BY <1>1, <1>3, <2>1, <3>3, Base0
      <4>2. (Base(b) + (r + len)) % BlockLen = r + len /\ (Base(0) + (r + len)) % BlockLen = r + len
        BY <4>1, PlaceOf
      <4> QED BY <3>1, <4>1, <4>2
    <3> QED BY <3>2, <3>3
  <2>2. CASE lead # len
    <3> DEFINE q == left \div BlockLen
               x == left % BlockLen
    <3>1. EndNumber(s, len) = x
      BY <2>2 DEF EndNumber, lead
    <3>2. q \in Nat /\ x \in 0 .. BlockLen - 1 /\ left = Base(q) + x
      BY <1>4, DivMod
    <3> HIDE DEF q, x
    <3>3. Base(b) + r + len = Base(beta + q) + x
      <4>1. Base(b) + r + lead = Base(beta) /\ len - lead = Base(q) + x
        BY <1>2, <2>2, <3>2
      <4>2. Base(beta + q) = Base(beta) + Base(q)
        BY <1>3, <3>2, BaseAdd
      <4>3. Base(q) \in Nat /\ x \in Nat /\ lead \in Nat
        BY <1>1, <3>2, BaseNat
      <4> QED BY ONLY <1>3, <4>1, <4>2, <4>3, r \in 0 .. BlockLen - 1, len \in Nat
    <3>4. (Base(beta + q) + x) % BlockLen = x
      <4>1. beta + q \in Nat
        BY <1>3, <3>2
      <4> QED BY <3>2, <4>1, PlaceOf
    <3> QED BY <3>1, <3>3, <3>4
  <2> QED BY <2>1, <2>2
<1>10. lead = len <=> k = 0
  BY <1>1, <1>6
<1>11. Base(b) + r \in Nat
  BY <1>3
<1> QED BY <1>1, <1>2, <1>3, <1>5, <1>7, <1>8, <1>9, <1>10, <1>11 DEF lead, k, beta, Cut

-----------------------------------------------------------------------------
\* One block of AES_cfb128_encrypt's loops.
EncryptStep(in, s, j, before) ==
    LET v == MixIn(Aes(s.key, before.vector), 0, in, From(s, Len(in), j), Part(s, Len(in), j))
    IN  [out |-> before.out \o Bytes(v, 0, Part(s, Len(in), j)), vector |-> v]

EncryptStart(in, s) ==
    LET first == MixIn(s.vector, s.number, in, 0, Lead(s, Len(in)))
    IN  [out |-> Bytes(first, s.number, Lead(s, Len(in))), vector |-> first]

EncryptRun(f, in, s) ==
    f = [j \in 0 .. Blocks(s, Len(in)) |->
            IF j = 0 THEN EncryptStart(in, s) ELSE EncryptStep(in, s, j, f[j - 1])]

Work == [out : Seq(Byte), vector : Block]

\* Mixing input into a block gives a block, and its bytes are bytes.
LEMMA MixType ==
    ASSUME NEW v \in Block, NEW n \in Nat, NEW in \in Seq(Byte), NEW from \in Nat, NEW p \in Nat,
           from + p <= Len(in), n + p <= BlockLen
    PROVE  MixIn(v, n, in, from, p) \in Block /\ Bytes(MixIn(v, n, in, from, p), n, p) \in Seq(Byte)
<1> DEFINE w == MixIn(v, n, in, from, p)
<1>0. BlockLen \in Nat /\ Len(in) \in Nat
  BY BlockAssumption, LenProperties
<1>1. ASSUME NEW i \in 0 .. BlockLen - 1 PROVE w[i] \in Byte
  <2>1. v[i] \in Byte
    BY DEF Block
  <2>2. CASE n <= i /\ i < n + p
    <3>1. from + i - n + 1 \in 1 .. Len(in)
      BY <1>0, <2>2
    <3>2. in[from + i - n + 1] \in Byte
      BY <3>1, ElementOfSeq
    <3>3. w[i] = ByteXor(v[i], in[from + i - n + 1])
      BY <2>2 DEF MixIn
    <3> QED BY <2>1, <3>2, <3>3, XorAssumption
  <2>3. CASE ~ (n <= i /\ i < n + p)
    <3>1. w[i] = v[i]
      BY <2>3 DEF MixIn
    <3> QED BY <2>1, <3>1
  <2> QED BY <2>2, <2>3
<1>2. w \in Block
  BY <1>1 DEF MixIn, Block
<1> HIDE DEF w
<1>3. ASSUME NEW i \in 1 .. p PROVE w[n + i - 1] \in Byte
  <2>1. n + i - 1 \in 0 .. BlockLen - 1
    BY <1>0
  <2> QED BY <1>2, <2>1 DEF Block
<1>4. Bytes(w, n, p) \in [1 .. p -> Byte]
  BY <1>3 DEF Bytes
<1>5. Bytes(w, n, p) \in Seq(Byte)
  BY <1>4, IsASeq
<1> QED BY <1>2, <1>5 DEF w

\* A turn of the encrypting loop keeps the types of what it works on.
LEMMA EncryptStepType ==
    ASSUME NEW in \in Seq(Byte), NEW s \in Status, NEW j \in 1 .. Blocks(s, Len(in)), NEW x \in Work
    PROVE  EncryptStep(in, s, j, x) \in Work
<1> DEFINE len == Len(in)
           from == From(s, len, j)
           p == Part(s, len, j)
           v == MixIn(Aes(s.key, x.vector), 0, in, from, p)
<1>1. len \in Nat /\ s.number \in 0 .. BlockLen - 1 /\ s.key \in CryptKeys /\ 0 \in Nat
      /\ BlockLen \in Nat
  BY LenProperties, BlockAssumption DEF Status
<1>2. from = Lead(s, len) + Base(j - 1) /\ from < len /\ p = Least(BlockLen, len - from)
      /\ Lead(s, len) \in 0 .. len /\ Blocks(s, len) \in Nat
  <2> DEFINE r == s.number
  <2>1. r \in 0 .. BlockLen - 1 /\ s.number = r
    BY <1>1
  <2> HIDE DEF len, r
  <2>2. j \in 1 .. Blocks(s, len)
    BY DEF len
  <2>3. Cut(0, r, len, s)
    BY <1>1, <2>1, Cutting
  <2> QED BY <2>2, <2>3 DEF Cut
<1>3. Base(j - 1) \in Nat
  BY <1>2, BaseNat
<1>4. from \in Nat /\ p \in Nat /\ from + p <= len /\ 0 + p <= BlockLen
  BY <1>1, <1>2, <1>3, SMTT(30) DEF Least
<1>5. Aes(s.key, x.vector) \in Block /\ x.out \in Seq(Byte)
  BY <1>1, AesAssumption DEF Work
<1>6. v \in Block /\ Bytes(v, 0, p) \in Seq(Byte)
  BY <1>1, <1>4, <1>5, MixType
<1>7. x.out \o Bytes(v, 0, p) \in Seq(Byte)
  BY <1>5, <1>6, ConcatProperties
<1> QED BY <1>6, <1>7 DEF EncryptStep, Work

\* And so does what comes before the loop.
LEMMA EncryptStartType ==
    ASSUME NEW in \in Seq(Byte), NEW s \in Status
    PROVE  EncryptStart(in, s) \in Work
<1> DEFINE len == Len(in)
           p == Lead(s, len)
<1>1. len \in Nat /\ s.number \in 0 .. BlockLen - 1 /\ s.vector \in Block /\ 0 \in Nat
      /\ BlockLen \in Nat
  BY LenProperties, BlockAssumption DEF Status
<1>2. p \in 0 .. len /\ s.number + p <= BlockLen
  <2> DEFINE r == s.number
  <2>1. r \in 0 .. BlockLen - 1 /\ s.number = r
    BY <1>1
  <2> HIDE DEF len, r
  <2>2. Cut(0, r, len, s)
    BY <1>1, <2>1, Cutting
  <2> QED BY <2>1, <2>2 DEF Cut
<1> DEFINE first == MixIn(s.vector, s.number, in, 0, p)
<1>3. first \in Block /\ Bytes(first, s.number, p) \in Seq(Byte)
  <2> DEFINE n == s.number
  <2>1. n \in Nat /\ p \in Nat /\ 0 + p <= Len(in) /\ n + p <= BlockLen
    BY <1>1, <1>2
  <2> HIDE DEF n, p
  <2> QED BY <1>1, <2>1, MixType DEF n
<1> QED BY <1>3 DEF EncryptStart, Work

\* Encrypting is the function its recursion describes.
LEMMA EncryptingRuns ==
    ASSUME NEW in \in Seq(Byte), NEW s \in Status
    PROVE  EncryptRun(Encrypting(in, s), in, s)
<1> DEFINE k == Blocks(s, Len(in))
           g == [j \in Nat |-> [x \in Work |-> IF j \in 1 .. k THEN EncryptStep(in, s, j, x) ELSE x]]
           base == EncryptStart(in, s)
<1>1. k \in Nat
  <2>1. Len(in) \in Nat /\ s.number \in 0 .. BlockLen - 1 /\ 0 \in Nat
    BY LenProperties DEF Status
  <2>2. Cut(0, s.number, Len(in), s)
    BY <2>1, Cutting
  <2> QED BY <2>2 DEF Cut
<1>2. g \in [Nat -> [Work -> Work]]
  BY EncryptStepType
<1>3. base \in Work
  BY EncryptStartType
<1> HIDE DEF g, base, k
<1>4. PICK f \in [0 .. k -> Work] : GoesOn(f, k, base, g)
  BY <1>1, <1>2, <1>3, Recursion
<1>5. ASSUME NEW i \in 1 .. k PROVE f[i] = EncryptStep(in, s, i, f[i - 1])
  <2>1. i \in Nat /\ i - 1 \in 0 .. k /\ f[i - 1] \in Work
    BY <1>1
  <2>2. g[i][f[i - 1]] = EncryptStep(in, s, i, f[i - 1])
    BY <2>1 DEF g
  <2> QED BY <1>4, <2>2 DEF GoesOn
<1>6. ASSUME NEW i \in 0 .. k
      PROVE  f[i] = IF i = 0 THEN base ELSE EncryptStep(in, s, i, f[i - 1])
  BY <1>1, <1>4, <1>5 DEF GoesOn
<1>7. f = [j \in 0 .. k |-> IF j = 0 THEN base ELSE EncryptStep(in, s, j, f[j - 1])]
  BY <1>4, <1>6
<1>8. EncryptRun(f, in, s)
  BY <1>7 DEF EncryptRun, k, base
<1>9. Encrypting(in, s) = CHOOSE h : EncryptRun(h, in, s)
  BY DEF Encrypting, EncryptRun, EncryptStart, EncryptStep
<1> QED BY <1>8, <1>9

\* How much of the input has been taken after j blocks.
Done(s, len, j) == Least(len, Lead(s, len) + Base(j))

\* Two pieces that touch make one.
LEMMA Joined ==
    ASSUME NEW t \in Seq(Byte), NEW in \in Seq(Byte), NEW m \in Nat, NEW p \in Nat, m + p <= Len(in)
    PROVE  (t \o SubSeq(in, 1, m)) \o SubSeq(in, m + 1, m + p) = t \o SubSeq(in, 1, m + p)
<1>1. Len(in) \in Nat
  BY LenProperties
<1>2. 1 \in 1 .. Len(in) + 1 /\ m \in 1 - 1 .. Len(in) /\ m + p \in m .. Len(in)
  BY <1>1
<1>3. SubSeq(in, 1, m) \o SubSeq(in, m + 1, m + p) = SubSeq(in, 1, m + p)
  BY <1>2, ConcatAdjacentSubSeq
<1>4. SubSeq(in, 1, m) \in Seq(Byte) /\ SubSeq(in, m + 1, m + p) \in Seq(Byte)
  <2>1. SubSeq(in, 0 + 1, 0 + m) \in Seq(Byte)
    BY <1>1, SubSeqIs
  <2>2. SubSeq(in, m + 1, m + p) \in Seq(Byte)
    BY SubSeqIs
  <2> QED BY <2>1, <2>2
<1>5. (t \o SubSeq(in, 1, m)) \o SubSeq(in, m + 1, m + p)
        = t \o (SubSeq(in, 1, m) \o SubSeq(in, m + 1, m + p))
  <2> DEFINE x == SubSeq(in, 1, m)
             y == SubSeq(in, m + 1, m + p)
  <2>1. x \in Seq(Byte) /\ y \in Seq(Byte) /\ t \in Seq(Byte)
    BY <1>4
  <2> HIDE DEF x, y
  <2>2. (t \o x) \o y = t \o (x \o y)
    BY ONLY <2>1, ConcatAssociative
  <2> QED BY <2>2 DEF x, y
<1> QED BY <1>3, <1>5

\* What AES_cfb128_encrypt has made of the input after some blocks is the
\* stream up to there, and its vector is that of the status there.
EncryptedTo(c, t, key, iv, in, s, x, j) ==
    LET n == Done(s, Len(in), j) IN
    /\ x.out \in Seq(Byte) /\ Len(x.out) = n
    /\ IsCfb(c \o x.out, t \o SubSeq(in, 1, n), key, iv)
    /\ x.vector = StatusAt(c \o x.out, key, iv, Len(c) + n).vector

\* The bytes of the block begun continue the stream.
LEMMA EncryptFirst ==
    ASSUME NEW c, NEW t, NEW key, NEW iv, IsCfb(c, t, key, iv), NEW in \in Seq(Byte),
           NEW s, s = StatusAt(c, key, iv, Len(c))
    PROVE  EncryptedTo(c, t, key, iv, in, s, EncryptStart(in, s), 0)
<1> DEFINE len == Len(in)
           b == Len(c) \div BlockLen
           r == Len(c) % BlockLen
           lead == Lead(s, len)
           first == MixIn(s.vector, s.number, in, 0, lead)
           e == Bytes(first, r, lead)
<1>1. /\ key \in CryptKeys /\ iv \in Block /\ c \in Seq(Byte) /\ t \in Seq(Byte)
      /\ Len(c) \in Nat /\ len \in Nat /\ BlockLen \in Nat /\ 0 \in Nat
  BY LenProperties, BlockAssumption DEF IsCfb
<1>2. b \in Nat /\ r \in 0 .. BlockLen - 1 /\ Base(b) \in Nat
  BY <1>1, DivMod, BaseNat
<1>num. s.number = r
  BY DEF StatusAt, At
<1>len. Len(c) = Base(b) + r
  BY <1>1, DivMod
<1> HIDE DEF b, r, len
<1>3. lead \in 0 .. len /\ r + lead <= BlockLen /\ (r = 0 => lead = 0)
  <2>1. Cut(b, r, len, s)
    BY ONLY <1>1, <1>2, <1>num, Cutting
  <2> QED BY <2>1 DEF Cut
<1> HIDE DEF lead
<1>4. Done(s, len, 0) = lead
  BY <1>1, <1>3, Base0 DEF Done, Least, lead
<1>5. Running(c, key, iv, b, r) = IF r = 0 THEN Aes(key, s.vector) ELSE s.vector
  <2>1. Base(b) <= Len(c)
    BY <1>1, <1>2, <1>len
  <2>2. Running(c, key, iv, b, r)
          = IF r = 0 THEN Aes(key, StatusAt(c, key, iv, Base(b) + r).vector)
            ELSE StatusAt(c, key, iv, Base(b) + r).vector
    BY <1>1, <1>2, <2>1, RunningVector
  <2> QED BY <1>len, <2>2
<1>6. EncryptStart(in, s) = [out |-> e, vector |-> first]
  BY <1>num DEF EncryptStart, lead, len
<1>7. CASE lead = 0
  <2>1. e = <<>>
    BY <1>7 DEF Bytes
  <2>2. first = s.vector
    <3>1. s.vector \in Block
      <4>1. s \in Status
        BY <1>1, StatusType
      <4> QED BY <4>1 DEF Status
    <3>2. \A i \in 0 .. BlockLen - 1 : ~ (s.number <= i /\ i < s.number + lead)
      BY <1>2, <1>num, <1>7
    <3>3. first = [i \in 0 .. BlockLen - 1 |-> s.vector[i]]
      BY <3>2 DEF MixIn
    <3> QED BY <3>1, <3>3 DEF Block
  <2>3. SubSeq(in, 1, 0) = <<>>
    BY SubSeqEmpty
  <2>4. c \o <<>> = c /\ t \o <<>> = t
    BY <1>1, ConcatEmptySeq
  <2>5. Len(c) + 0 = Len(c) /\ <<>> \in Seq(Byte) /\ Len(<<>>) = 0
    BY <1>1, EmptySeq
  <2> HIDE DEF e, first
  <2>6. EncryptStart(in, s) = [out |-> <<>>, vector |-> s.vector]
    BY <1>6, <2>1, <2>2
  <2>7. Done(s, Len(in), 0) = 0
    BY <1>4, <1>7 DEF len
  <2>8. s.vector = StatusAt(c, key, iv, Len(c)).vector
    OBVIOUS
  <2> DEFINE x == EncryptStart(in, s)
  <2>9. x.out = <<>> /\ x.vector = s.vector
    BY <2>6
  <2> HIDE DEF x
  <2>10. EncryptedTo(c, t, key, iv, in, s, x, 0)
    BY <2>3, <2>4, <2>5, <2>7, <2>8, <2>9 DEF EncryptedTo
  <2> QED BY <2>10 DEF x
<1>8. CASE lead # 0
  <2>1. r # 0 /\ lead \in Nat /\ lead >= 1 /\ 0 + lead <= Len(in)
    BY <1>1, <1>3, <1>8 DEF len
  <2>2. first = MixIn(Running(c, key, iv, b, r), r, in, 0, lead)
    BY <1>num, <1>5, <2>1
  <2> HIDE DEF first
  <2>3. /\ e \in Seq(Byte) /\ Len(e) = lead
        /\ IsCfb(c \o e, t \o SubSeq(in, 0 + 1, 0 + lead), key, iv)
        /\ first = Running(c \o e, key, iv, b, r + lead)
    BY <1>1, <1>2, <1>len, <1>3, <2>1, <2>2, EncryptPart
  <2> HIDE DEF e
  <2>4. 0 + 1 = 1 /\ 0 + lead = lead /\ Len(c) + lead = Base(b) + (r + lead)
        /\ r + lead \in 1 .. BlockLen
    BY <1>1, <1>2, <1>len, <1>3, <2>1
  <2>5. first = StatusAt(c \o e, key, iv, Len(c) + lead).vector
    <3>1. StatusAt(c \o e, key, iv, Base(b) + (r + lead)).vector = Running(c \o e, key, iv, b, r + lead)
      <4> DEFINE q == r + lead
                 d == c \o e
      <4>1. q \in 1 .. BlockLen /\ b \in Nat
        BY <1>2, <2>4
      <4> HIDE DEF q, d
      <4>2. StatusAt(d, key, iv, Base(b) + q)
              = [key |-> key, number |-> IF q = BlockLen THEN 0 ELSE q,
                 vector |-> Running(d, key, iv, b, q)]
        BY ONLY <4>1, RunningStatus
      <4> QED BY <4>2 DEF q, d
    <3> QED BY <2>3, <2>4, <3>1
  <2>6. Done(s, Len(in), 0) = lead
    BY <1>4 DEF len
  <2> QED BY <1>6, <2>3, <2>4, <2>5, <2>6 DEF EncryptedTo
<1> QED BY <1>7, <1>8

\* So does every turn of the loop after them.
LEMMA EncryptNext ==
    ASSUME NEW c, NEW t, NEW key, NEW iv, IsCfb(c, t, key, iv), NEW in \in Seq(Byte),
           NEW s, s = StatusAt(c, key, iv, Len(c)), NEW x, NEW j \in Nat, j < Blocks(s, Len(in)),
           EncryptedTo(c, t, key, iv, in, s, x, j)
    PROVE  EncryptedTo(c, t, key, iv, in, s, EncryptStep(in, s, j + 1, x), j + 1)
<1> DEFINE len == Len(in)
           b == Len(c) \div BlockLen
           r == Len(c) % BlockLen
           lead == Lead(s, len)
           k == Blocks(s, len)
           beta == IF r = 0 THEN b ELSE b + 1
           from == lead + Base(j)
           p == Least(BlockLen, len - from)
           d == c \o x.out
           u == t \o SubSeq(in, 1, from)
           a == beta + j
           v == MixIn(Aes(key, x.vector), 0, in, from, p)
           e == Bytes(v, 0, p)
<1>1. /\ key \in CryptKeys /\ iv \in Block /\ c \in Seq(Byte) /\ t \in Seq(Byte)
      /\ Len(c) \in Nat /\ len \in Nat /\ BlockLen \in Nat /\ BlockLen > 0 /\ 0 \in Nat
  BY LenProperties, BlockAssumption DEF IsCfb
<1>2. b \in Nat /\ r \in 0 .. BlockLen - 1 /\ Base(b) \in Nat
  BY <1>1, DivMod, BaseNat
<1>num. s.number = r /\ s.key = key
  BY DEF StatusAt, At
<1>len. Len(c) = Base(b) + r
  BY <1>1, DivMod
<1>3. j + 1 \in 1 .. k /\ j + 1 - 1 = j /\ k # 0
  <2>1. k \in Nat
    <3> HIDE DEF b, r, len
    <3>1. Cut(b, r, len, s)
      BY ONLY <1>1, <1>2, <1>num, Cutting
    <3> QED BY <3>1 DEF Cut
  <2> QED BY <2>1
<1> HIDE DEF b, r, len
<1>4. /\ lead \in 0 .. len /\ beta \in Nat /\ k \in Nat
      /\ Base(b) + r + lead = Base(beta)
      /\ From(s, len, j + 1) = lead + Base(j + 1 - 1) /\ lead + Base(j + 1 - 1) < len
      /\ Part(s, len, j + 1) = Least(BlockLen, len - (lead + Base(j + 1 - 1)))
  <2>1. Cut(b, r, len, s)
    BY ONLY <1>1, <1>2, <1>num, Cutting
  <2> QED BY <1>3, <2>1 DEF Cut
<1>5. From(s, len, j + 1) = from /\ Part(s, len, j + 1) = p /\ from < len /\ from \in Nat
      /\ p \in Nat /\ 1 <= p /\ p <= BlockLen /\ from + p <= len
  <2>1. From(s, len, j + 1) = from /\ Part(s, len, j + 1) = p /\ from < len
    BY <1>3, <1>4
  <2>2. Base(j) \in Nat /\ lead \in Nat
    BY <1>1, <1>4, BaseNat
  <2> HIDE DEF lead
  <2>3. from \in Nat
    BY <2>2
  <2> HIDE DEF from
  <2> QED BY <1>1, <2>1, <2>3 DEF Least
<1>6. Done(s, len, j) = from /\ Done(s, len, j + 1) = from + p
  <2>1. Base(j + 1) = Base(j) + BlockLen
    BY BaseNext
  <2>2. Base(j) \in Nat /\ lead \in Nat
    BY <1>1, <1>4, BaseNat
  <2> HIDE DEF lead
  <2> QED BY <1>1, <1>5, <2>1, <2>2, SMTT(30) DEF Done, Least, lead
<1>7. /\ x.out \in Seq(Byte) /\ Len(x.out) = from /\ IsCfb(d, u, key, iv)
      /\ x.vector = StatusAt(d, key, iv, Len(c) + from).vector
  BY <1>6 DEF EncryptedTo, len
<1>8. Len(c) + from = Base(a) + 0 /\ a \in Nat
  <2>1. Base(a) = Base(beta) + Base(j)
    BY <1>4, BaseAdd
  <2>2. Base(j) \in Nat /\ Base(beta) \in Nat
    BY <1>4, BaseNat
  <2> HIDE DEF lead, a
  <2>3. Len(c) + from = Base(a)
    BY <1>1, <1>2, <1>len, <1>4, <2>1, <2>2
  <2>4. beta \in Nat
    BY <1>4
  <2> HIDE DEF beta
  <2>5. a \in Nat
    BY <2>4 DEF a
  <2>6. Base(a) \in Nat
    BY <2>5, BaseNat
  <2> QED BY <2>3, <2>5, <2>6
<1>9. d \in Seq(Byte) /\ Len(d) = Base(a) + 0
  BY <1>1, <1>7, <1>8, ConcatProperties
<1> HIDE DEF lead, k, beta, from, p, d, u, a
<1>10. Running(d, key, iv, a, 0) = Aes(key, x.vector)
  <2>1. 0 \in 0 .. BlockLen - 1 /\ Base(a) <= Len(d)
    BY <1>1, <1>8, <1>9, BaseNat
  <2>2. Base(a) + 0 = Base(a) /\ Len(c) + from = Base(a) + 0
    BY <1>8, BaseNat
  <2>3. Running(d, key, iv, a, 0)
          = IF 0 = 0 THEN Aes(key, StatusAt(d, key, iv, Base(a) + 0).vector)
            ELSE StatusAt(d, key, iv, Base(a) + 0).vector
    BY <1>1, <1>8, <1>9, <2>1, RunningVector
  <2> QED BY <1>7, <2>2, <2>3
<1>11. /\ e \in Seq(Byte) /\ Len(e) = p
       /\ IsCfb(d \o e, u \o SubSeq(in, from + 1, from + p), key, iv)
       /\ v = Running(d \o e, key, iv, a, 0 + p)
  <2>1. 0 \in 0 .. BlockLen - 1 /\ 0 + p <= BlockLen /\ from + p <= Len(in)
    BY <1>1, <1>5 DEF len
  <2>2. v = MixIn(Running(d, key, iv, a, 0), 0, in, from, p)
    BY <1>10
  <2> HIDE DEF v
  <2> QED BY <1>5, <1>7, <1>8, <1>9, <2>1, <2>2, EncryptPart
<1>12. EncryptStep(in, s, j + 1, x) = [out |-> x.out \o e, vector |-> v]
  BY <1>num, <1>5 DEF EncryptStep, len
<1> HIDE DEF e, v
<1>13. d \o e = c \o (x.out \o e) /\ x.out \o e \in Seq(Byte) /\ Len(x.out \o e) = from + p
  <2>1. (c \o x.out) \o e = c \o (x.out \o e)
    <3> DEFINE o == x.out
    <3>1. c \in Seq(Byte) /\ o \in Seq(Byte) /\ e \in Seq(Byte)
      BY <1>1, <1>7, <1>11
    <3> HIDE DEF o
    <3>2. (c \o o) \o e = c \o (o \o e)
      BY ONLY <3>1, ConcatAssociative, SMTT(30)
    <3> QED BY <3>2 DEF o
  <2>2. x.out \o e \in Seq(Byte) /\ Len(x.out \o e) = Len(x.out) + Len(e)
    BY <1>7, <1>11, ConcatProperties
  <2> QED BY <1>7, <1>11, <2>1, <2>2 DEF d
<1>14. u \o SubSeq(in, from + 1, from + p) = t \o SubSeq(in, 1, from + p)
  <2>1. from + p <= Len(in)
    BY <1>5 DEF len
  <2>2. (t \o SubSeq(in, 1, from)) \o SubSeq(in, from + 1, from + p) = t \o SubSeq(in, 1, from + p)
    <3>1. /\ t \in Seq(Byte) /\ in \in Seq(Byte) /\ from \in Nat /\ p \in Nat
          /\ from + p <= Len(in)
      BY <1>1, <1>5, <2>1
    <3> QED BY ONLY <3>1, Joined
  <2> QED BY <2>2 DEF u
<1>15. v = StatusAt(d \o e, key, iv, Len(c) + (from + p)).vector
  <2>1. Len(c) + (from + p) = Base(a) + p /\ p \in 1 .. BlockLen /\ 0 + p = p
    <3>1. Base(a) \in Nat /\ Len(c) + from = Base(a)
      BY <1>8, BaseNat
    <3>2. Len(c) + (from + p) = Len(c) + from + p
      BY <1>1, <1>5
    <3>3. Len(c) + (from + p) = Base(a) + p
      BY <3>1, <3>2
    <3> QED BY <1>5, <3>3
  <2>2. StatusAt(d \o e, key, iv, Base(a) + p).vector = Running(d \o e, key, iv, a, p)
    <3> DEFINE z == d \o e
    <3>1. p \in 1 .. BlockLen /\ a \in Nat
      BY <1>8, <2>1
    <3> HIDE DEF z
    <3>2. StatusAt(z, key, iv, Base(a) + p)
            = [key |-> key, number |-> IF p = BlockLen THEN 0 ELSE p,
               vector |-> Running(z, key, iv, a, p)]
      BY ONLY <3>1, RunningStatus
    <3> QED BY <3>2 DEF z
  <2> QED BY <1>11, <2>1, <2>2
<1>16. Done(s, Len(in), j + 1) = from + p
  BY <1>6 DEF len
<1> DEFINE y == EncryptStep(in, s, j + 1, x)
           o == x.out \o e
<1>17. y.out = o /\ y.vector = v
  BY <1>12
<1>18. /\ o \in Seq(Byte) /\ Len(o) = from + p /\ IsCfb(c \o o, t \o SubSeq(in, 1, from + p), key, iv)
       /\ v = StatusAt(c \o o, key, iv, Len(c) + (from + p)).vector
  BY <1>11, <1>13, <1>14, <1>15
<1> HIDE DEF y, o
<1>19. EncryptedTo(c, t, key, iv, in, s, y, j + 1)
  BY <1>16, <1>17, <1>18 DEF EncryptedTo
<1> QED BY <1>19 DEF y

\* Encrypting with the status a stream ends with continues the stream, and the
\* status afterwards is that of its new end (AES_cfb128_encrypt).
THEOREM EncryptIs ==
    ASSUME NEW c, NEW t, NEW key, NEW iv, IsCfb(c, t, key, iv), NEW in \in Seq(Byte)
    PROVE  LET e == Encrypt(in, StatusAt(c, key, iv, Len(c))) IN
           /\ e.out \in Seq(Byte) /\ Len(e.out) = Len(in)
           /\ IsCfb(c \o e.out, t \o in, key, iv)
           /\ e.status = StatusAt(c \o e.out, key, iv, Len(c) + Len(in))
<1> DEFINE s == StatusAt(c, key, iv, Len(c))
           run == Encrypting(in, s)
           k == Blocks(s, Len(in))
           S == {j \in 0 .. k : EncryptedTo(c, t, key, iv, in, s, run[j], j)}
           b == Len(c) \div BlockLen
           r == Len(c) % BlockLen
           len == Len(in)
<1>1. /\ key \in CryptKeys /\ iv \in Block /\ c \in Seq(Byte) /\ t \in Seq(Byte)
      /\ Len(c) \in Nat /\ len \in Nat /\ BlockLen \in Nat /\ 0 \in Nat
  BY LenProperties, BlockAssumption DEF IsCfb
<1>2. b \in Nat /\ r \in 0 .. BlockLen - 1 /\ Base(b) \in Nat
  BY <1>1, DivMod, BaseNat
<1>num. s.number = r /\ s.key = key
  BY DEF StatusAt, At
<1>len. Len(c) = Base(b) + r
  BY <1>1, DivMod
<1>3. s \in Status
  BY <1>1, StatusType
<1> HIDE DEF b, r, s, len
<1>4. /\ Lead(s, len) \in 0 .. len /\ k \in Nat /\ (Lead(s, len) = len <=> k = 0)
      /\ (k # 0 => len <= Lead(s, len) + Base(k))
      /\ EndNumber(s, len) = (Base(b) + r + len) % BlockLen
  <2>1. Cut(b, r, len, s)
    BY ONLY <1>1, <1>2, <1>num, Cutting
  <2> QED BY <2>1 DEF Cut, k, len
<1>5. EncryptRun(run, in, s)
  BY <1>3, EncryptingRuns
<1>6. run[0] = EncryptStart(in, s) /\ \A j \in 1 .. k : run[j] = EncryptStep(in, s, j, run[j - 1])
  BY <1>4, <1>5 DEF EncryptRun
<1> HIDE DEF run, k
<1>7. 0 \in S
  BY <1>4, <1>6, EncryptFirst DEF s
<1>8. ASSUME NEW j \in 0 .. k - 1, j \in S PROVE j + 1 \in S
  <2>1. j \in Nat /\ j < Blocks(s, Len(in)) /\ j + 1 \in 0 .. k /\ j + 1 \in 1 .. k /\ j + 1 - 1 = j
    BY <1>4 DEF k
  <2>2. EncryptedTo(c, t, key, iv, in, s, run[j], j)
    BY <1>8
  <2>3. EncryptedTo(c, t, key, iv, in, s, EncryptStep(in, s, j + 1, run[j]), j + 1)
    BY <2>1, <2>2, EncryptNext DEF s
  <2> QED BY <1>6, <2>1, <2>3
<1> HIDE DEF S
<1>nat. k \in Nat
  BY <1>4
<1>9. k \in S
  <2>1. \A j \in 0 .. k : j \in S
    BY ONLY <1>nat, <1>7, <1>8, UpTo
  <2> QED BY <1>nat, <2>1
<1>10. EncryptedTo(c, t, key, iv, in, s, run[k], k)
  BY <1>9 DEF S
<1>11. Done(s, len, k) = len
  <2>1. k = 0 => Lead(s, len) + Base(k) = len
    BY <1>1, <1>4, Base0
  <2> DEFINE lead == Lead(s, len)
             whole == Base(k)
  <2>2. lead \in 0 .. len /\ whole \in Nat /\ (k # 0 => len <= lead + whole)
        /\ (k = 0 => lead + whole = len)
    BY <1>4, <1>nat, <2>1, BaseNat
  <2>3. Done(s, len, k) = Least(len, lead + whole)
    BY DEF Done
  <2> HIDE DEF lead, whole
  <2> QED BY <1>1, <2>2, <2>3 DEF Least
<1>12. SubSeq(in, 1, len) = in
  BY SubSeqFull DEF len
<1>13. Encrypt(in, s) = [out |-> run[k].out, status |-> [key |-> key, number |-> EndNumber(s, len),
                                                        vector |-> run[k].vector]]
  BY <1>num DEF Encrypt, Ended, run, k, len
<1> DEFINE out == run[k].out
<1>14. /\ out \in Seq(Byte) /\ Len(out) = len /\ IsCfb(c \o out, t \o in, key, iv)
       /\ run[k].vector = StatusAt(c \o out, key, iv, Len(c) + len).vector
  BY <1>10, <1>11, <1>12 DEF EncryptedTo, len
<1>15. /\ StatusAt(c \o out, key, iv, Len(c) + len).number = EndNumber(s, len)
       /\ StatusAt(c \o out, key, iv, Len(c) + len).key = key
  BY <1>len, <1>4 DEF StatusAt, At
<1>16. StatusAt(c \o out, key, iv, Len(c) + len)
        = [key |-> key, number |-> EndNumber(s, len), vector |-> run[k].vector]
  BY <1>14, <1>15 DEF StatusAt, At
<1>17. Encrypt(in, s).out = out
       /\ Encrypt(in, s).status = StatusAt(c \o out, key, iv, Len(c) + len)
  BY <1>13, <1>16
<1> QED BY <1>14, <1>17 DEF s, len

-----------------------------------------------------------------------------
\* AES_cfb128_decrypt's loops.
DecryptStart(in, s) ==
    LET lead == Lead(s, Len(in))
    IN  [out |-> Bytes(MixIn(s.vector, s.number, in, 0, lead), s.number, lead),
         vector |-> PutIn(s.vector, s.number, in, 0, lead)]

DecryptStep(in, s, j, before) ==
    LET stream == Aes(s.key, before.vector)
        from == From(s, Len(in), j)
        part == Part(s, Len(in), j)
    IN  [out |-> before.out \o Bytes(MixIn(stream, 0, in, from, part), 0, part),
         vector |-> PutIn(stream, 0, in, from, part)]

DecryptRun(f, in, s) ==
    f = [j \in 0 .. Blocks(s, Len(in)) |->
            IF j = 0 THEN DecryptStart(in, s) ELSE DecryptStep(in, s, j, f[j - 1])]

\* n bytes of a stream from a on, read, and the vector after them.
ReadFrom(c, t, key, iv, a, n) ==
    [out |-> SubSeq(t, a + 1, a + n), vector |-> StatusAt(c, key, iv, a + n).vector]

\* len bytes of the stream c from a on.
IsPiece(in, c, a, len) ==
    /\ a \in Nat /\ len \in Nat /\ a + len <= Len(c)
    /\ Len(in) = len /\ \A i \in 1 .. len : in[i] = c[a + i]

\* The bytes of the block begun are read as the text.
LEMMA DecryptFirst ==
    ASSUME NEW c, NEW t, NEW key, NEW iv, IsCfb(c, t, key, iv),
           NEW in, NEW a, NEW len, IsPiece(in, c, a, len),
           NEW s, s = StatusAt(c, key, iv, a)
    PROVE  DecryptStart(in, s) = ReadFrom(c, t, key, iv, a, Done(s, len, 0))
<1> DEFINE b == a \div BlockLen
           r == a % BlockLen
           lead == Lead(s, len)
<1>1. /\ key \in CryptKeys /\ iv \in Block /\ c \in Seq(Byte) /\ t \in Seq(Byte)
      /\ Len(c) \in Nat /\ Len(t) = Len(c) /\ len \in Nat /\ a \in Nat /\ BlockLen \in Nat /\ 0 \in Nat
      /\ a + len <= Len(c) /\ Len(in) = len
  BY LenProperties, BlockAssumption DEF IsCfb, IsPiece
<1>2. b \in Nat /\ r \in 0 .. BlockLen - 1 /\ Base(b) \in Nat
  BY <1>1, DivMod, BaseNat
<1>num. s.number = r /\ s.key = key
  BY DEF StatusAt, At
<1>len. a = Base(b) + r
  BY <1>1, DivMod
<1> HIDE DEF b, r
<1>3. lead \in 0 .. len /\ r + lead <= BlockLen /\ (r = 0 => lead = 0)
  <2>1. Cut(b, r, len, s)
    BY ONLY <1>1, <1>2, <1>num, Cutting
  <2> QED BY <2>1 DEF Cut
<1> HIDE DEF lead
<1>4. Done(s, len, 0) = lead
  BY <1>1, <1>3, Base0 DEF Done, Least, lead
<1>5. DecryptStart(in, s) = [out |-> Bytes(MixIn(s.vector, r, in, 0, lead), r, lead),
                             vector |-> PutIn(s.vector, r, in, 0, lead)]
  BY <1>1, <1>num DEF DecryptStart, lead
<1>6. CASE lead = 0
  <2>1. s.vector \in Block
    <3>1. s \in Status
      BY <1>1, StatusType
    <3> QED BY <3>1 DEF Status
  <2>2. PutIn(s.vector, r, in, 0, lead) = s.vector
    <3>1. \A i \in 0 .. BlockLen - 1 : ~ (r <= i /\ i < r + lead)
      BY <1>2, <1>6
    <3>2. PutIn(s.vector, r, in, 0, lead) = [i \in 0 .. BlockLen - 1 |-> s.vector[i]]
      BY <3>1 DEF PutIn
    <3> QED BY <2>1, <3>2 DEF Block
  <2>3. Bytes(MixIn(s.vector, r, in, 0, lead), r, lead) = <<>>
    BY <1>6 DEF Bytes
  <2>4. SubSeq(t, a + 1, a + 0) = <<>> /\ a + 0 = a
    <3>1. a + 1 \in Int /\ a + 0 \in Int /\ a + 0 < a + 1 /\ a + 0 = a
      BY <1>1
    <3> QED BY <3>1, SubSeqEmpty
  <2>5. ReadFrom(c, t, key, iv, a, 0) = [out |-> <<>>, vector |-> s.vector]
    BY <2>4 DEF ReadFrom
  <2>6. DecryptStart(in, s) = [out |-> <<>>, vector |-> s.vector]
    BY <1>5, <2>2, <2>3
  <2> QED BY <1>4, <1>6, <2>5, <2>6
<1>7. CASE lead # 0
  <2>1. r # 0 /\ lead \in Nat
    BY <1>3, <1>7
  <2>2. Base(b) <= Len(c) /\ Base(b) + r + lead <= Len(c)
    BY <1>1, <1>2, <1>3, <1>len
  <2>3. s.vector = Running(c, key, iv, b, r)
    <3>1. Running(c, key, iv, b, r)
            = IF r = 0 THEN Aes(key, StatusAt(c, key, iv, Base(b) + r).vector)
              ELSE StatusAt(c, key, iv, Base(b) + r).vector
      BY <1>1, <1>2, <2>2, RunningVector
    <3> QED BY <1>len, <2>1, <3>1
  <2>4. Same(in, 0, c, Base(b) + r, lead)
    <3>1. \A i \in 1 .. lead : i \in 1 .. len /\ 0 + i = i
      BY <1>1, <1>3
    <3>2. \A i \in 1 .. lead : in[i] = c[a + i]
      BY <3>1 DEF IsPiece
    <3> QED BY <1>len, <3>1, <3>2 DEF Same
  <2> DEFINE v == s.vector
  <2>5. v = Running(c, key, iv, b, r)
    BY <2>3
  <2> HIDE DEF v
  <2>6. /\ Bytes(MixIn(v, r, in, 0, lead), r, lead) = Text(t, Base(b) + r, lead)
        /\ PutIn(v, r, in, 0, lead) = Running(c, key, iv, b, r + lead)
    BY <1>1, <1>2, <1>3, <2>1, <2>2, <2>4, <2>5, DecryptPart
  <2>7. SubSeq(t, a + 1, a + lead) = Text(t, a, lead)
    <3>1. a \in Nat /\ lead \in Nat
      BY <1>1, <2>1
    <3>2. SubSeq(t, a + 1, a + lead) = [i \in 1 .. lead |-> t[a + i]]
      BY ONLY <3>1
    <3> QED BY <3>2 DEF Text
  <2>8. StatusAt(c, key, iv, a + lead).vector = Running(c, key, iv, b, r + lead)
    <3> DEFINE q == r + lead
    <3>1. q \in 1 .. BlockLen /\ a + lead = Base(b) + q
      BY <1>2, <1>3, <1>len, <2>1
    <3> HIDE DEF q
    <3>2. StatusAt(c, key, iv, Base(b) + q)
            = [key |-> key, number |-> IF q = BlockLen THEN 0 ELSE q,
               vector |-> Running(c, key, iv, b, q)]
      BY <1>2, <3>1, RunningStatus
    <3> QED BY <3>1, <3>2 DEF q
  <2>9. Text(t, Base(b) + r, lead) = Text(t, a, lead)
    BY <1>len
  <2> QED BY <1>4, <1>5, <2>6, <2>7, <2>8, <2>9 DEF ReadFrom, v
<1> QED BY <1>6, <1>7

\* So are those of every turn of the loop after them.
LEMMA DecryptNext ==
    ASSUME NEW c, NEW t, NEW key, NEW iv, IsCfb(c, t, key, iv),
           NEW in, NEW e, NEW len, IsPiece(in, c, e, len),
           NEW s, s = StatusAt(c, key, iv, e), NEW j \in Nat, j < Blocks(s, len)
    PROVE  DecryptStep(in, s, j + 1, ReadFrom(c, t, key, iv, e, Done(s, len, j)))
             = ReadFrom(c, t, key, iv, e, Done(s, len, j + 1))
<1> DEFINE b == e \div BlockLen
           r == e % BlockLen
           lead == Lead(s, len)
           k == Blocks(s, len)
           beta == IF r = 0 THEN b ELSE b + 1
           from == lead + Base(j)
           p == Least(BlockLen, len - from)
           a == beta + j
           n == e + from
<1>1. /\ key \in CryptKeys /\ iv \in Block /\ c \in Seq(Byte) /\ t \in Seq(Byte)
      /\ Len(c) \in Nat /\ Len(t) = Len(c) /\ len \in Nat /\ e \in Nat
      /\ BlockLen \in Nat /\ BlockLen > 0 /\ 0 \in Nat
      /\ e + len <= Len(c) /\ Len(in) = len
  BY LenProperties, BlockAssumption DEF IsCfb, IsPiece
<1>2. b \in Nat /\ r \in 0 .. BlockLen - 1 /\ Base(b) \in Nat
  BY <1>1, DivMod, BaseNat
<1>num. s.number = r /\ s.key = key
  BY DEF StatusAt, At
<1>len. e = Base(b) + r
  BY <1>1, DivMod
<1> HIDE DEF b, r
<1>cut. Cut(b, r, len, s)
  BY ONLY <1>1, <1>2, <1>num, Cutting
<1>3. j + 1 \in 1 .. k /\ j + 1 - 1 = j /\ k # 0
  <2>1. k \in Nat
    BY <1>cut DEF Cut
  <2> QED BY <2>1
<1>4. /\ lead \in 0 .. len /\ beta \in Nat /\ k \in Nat
      /\ Base(b) + r + lead = Base(beta)
      /\ From(s, len, j + 1) = lead + Base(j + 1 - 1) /\ lead + Base(j + 1 - 1) < len
      /\ Part(s, len, j + 1) = Least(BlockLen, len - (lead + Base(j + 1 - 1)))
  BY <1>3, <1>cut DEF Cut
<1>5. From(s, len, j + 1) = from /\ Part(s, len, j + 1) = p /\ from < len /\ from \in Nat
      /\ p \in Nat /\ 1 <= p /\ p <= BlockLen /\ from + p <= len
  <2>1. From(s, len, j + 1) = from /\ Part(s, len, j + 1) = p /\ from < len
    BY <1>3, <1>4
  <2>2. Base(j) \in Nat /\ lead \in Nat
    BY <1>1, <1>4, BaseNat
  <2> HIDE DEF lead
  <2>3. from \in Nat
    BY <2>2
  <2> HIDE DEF from
  <2> QED BY <1>1, <2>1, <2>3 DEF Least
<1>6. Done(s, len, j) = from /\ Done(s, len, j + 1) = from + p
  <2>1. Base(j + 1) = Base(j) + BlockLen
    BY BaseNext
  <2>2. Base(j) \in Nat /\ lead \in Nat
    BY <1>1, <1>4, BaseNat
  <2> DEFINE z == Base(j)
  <2>3. /\ z \in Nat /\ lead \in Nat /\ Base(j + 1) = z + BlockLen /\ from = lead + z
        /\ p = Least(BlockLen, len - from)
    BY <2>1, <2>2
  <2>4. Done(s, len, j) = Least(len, lead + z) /\ Done(s, len, j + 1) = Least(len, lead + Base(j + 1))
    BY DEF Done
  <2> HIDE DEF lead, from, p, z
  <2> QED BY ONLY <1>1, <1>5, <2>3, <2>4 DEF Least
<1>8. n = Base(a) /\ a \in Nat /\ Base(a) \in Nat
  <2>1. Base(a) = Base(beta) + Base(j) /\ a \in Nat
    <3>1. beta \in Nat
      BY <1>4
    <3> HIDE DEF beta
    <3> QED BY <3>1, BaseAdd
  <2>2. Base(j) \in Nat /\ Base(beta) \in Nat
    BY <1>4, BaseNat
  <2> HIDE DEF lead, a
  <2>3. n = Base(a)
    BY <1>1, <1>2, <1>len, <1>4, <2>1, <2>2, SMTT(30)
  <2> QED BY <2>1, <2>2, <2>3
<1>9. n \in Nat /\ n + p <= Len(c)
  <2> HIDE DEF from, p
  <2> QED BY <1>1, <1>5
<1>pos. n = e + from
  OBVIOUS
<1> HIDE DEF lead, k, beta, from, p, a, n
<1> DEFINE x == ReadFrom(c, t, key, iv, e, from)
           v == Running(c, key, iv, a, 0)
<1>10. v = Aes(key, x.vector)
  <2>1. 0 \in 0 .. BlockLen - 1 /\ Base(a) <= Len(c) /\ Base(a) + 0 = Base(a)
    BY <1>1, <1>5, <1>8, <1>9
  <2>2. Running(c, key, iv, a, 0)
          = IF 0 = 0 THEN Aes(key, StatusAt(c, key, iv, Base(a) + 0).vector)
            ELSE StatusAt(c, key, iv, Base(a) + 0).vector
    BY <1>1, <1>8, <2>1, RunningVector
  <2>3. StatusAt(c, key, iv, Base(a) + 0) = StatusAt(c, key, iv, e + from)
    BY <1>8, <1>pos, <2>1
  <2>4. x.vector = StatusAt(c, key, iv, e + from).vector
    BY DEF ReadFrom
  <2> QED BY <2>2, <2>3, <2>4
<1>11. /\ Bytes(MixIn(v, 0, in, from, p), 0, p) = Text(t, Base(a) + 0, p)
       /\ PutIn(v, 0, in, from, p) = Running(c, key, iv, a, 0 + p)
  <2>1. 0 \in 0 .. BlockLen - 1 /\ 0 + p <= BlockLen /\ Base(a) + 0 + p <= Len(c)
    BY <1>1, <1>5, <1>8, <1>9
  <2>2. Same(in, from, c, Base(a) + 0, p)
    <3> SUFFICES ASSUME NEW i \in 1 .. p PROVE in[from + i] = c[Base(a) + 0 + i]
      BY DEF Same
    <3>1. from + i \in 1 .. len /\ e + (from + i) = n + i /\ Base(a) + 0 + i = n + i
      BY <1>1, <1>5, <1>8, <1>pos
    <3>2. in[from + i] = c[e + (from + i)]
      BY <3>1 DEF IsPiece
    <3> QED BY <3>1, <3>2
  <2>3. v = Running(c, key, iv, a, 0)
    OBVIOUS
  <2> HIDE DEF v
  <2> QED BY <1>5, <1>8, <2>1, <2>2, <2>3, DecryptPart
<1>12. Text(t, Base(a) + 0, p) = SubSeq(t, n + 1, n + p)
  <2>1. Base(a) + 0 = n
    BY <1>8, <1>9
  <2>2. SubSeq(t, n + 1, n + p) = [i \in 1 .. p |-> t[n + i]]
    <3>1. n \in Nat /\ p \in Nat
      BY <1>5, <1>9
    <3> QED BY ONLY <3>1
  <2> QED BY <2>1, <2>2 DEF Text
<1>13. x.out \o SubSeq(t, n + 1, n + p) = SubSeq(t, e + 1, e + (from + p))
  <2>1. x.out = SubSeq(t, e + 1, n)
    BY <1>pos DEF ReadFrom
  <2>2. /\ e + 1 \in 1 .. Len(t) + 1 /\ n \in e + 1 - 1 .. Len(t) /\ n + p \in n .. Len(t)
        /\ e + (from + p) = n + p
    BY <1>1, <1>5, <1>9, <1>pos
  <2> DEFINE m == e + 1
             z == n + p
  <2>3. m \in 1 .. Len(t) + 1 /\ n \in m - 1 .. Len(t) /\ z \in n .. Len(t)
    <3>1. m - 1 = e /\ m \in Int
      BY <1>1
    <3>2. e \in Nat /\ n \in Nat /\ p \in Nat /\ Len(t) \in Nat /\ e <= n /\ n + p <= Len(t)
      BY <1>1, <1>5, <1>9, <2>2
    <3> QED BY <3>1, <3>2
  <2> HIDE DEF m, z
  <2>4. SubSeq(t, m, n) \o SubSeq(t, n + 1, z) = SubSeq(t, m, z)
    BY ONLY <1>1, <2>3, ConcatAdjacentSubSeq
  <2> QED BY <2>1, <2>2, <2>4 DEF m, z
<1>14. StatusAt(c, key, iv, e + (from + p)).vector = Running(c, key, iv, a, 0 + p)
  <2>1. p \in 1 .. BlockLen /\ e + (from + p) = Base(a) + p /\ 0 + p = p
    BY <1>1, <1>5, <1>8, <1>pos
  <2>2. StatusAt(c, key, iv, Base(a) + p)
          = [key |-> key, number |-> IF p = BlockLen THEN 0 ELSE p,
             vector |-> Running(c, key, iv, a, p)]
    BY ONLY <1>8, <2>1, RunningStatus
  <2> QED BY <2>1, <2>2
<1>15. DecryptStep(in, s, j + 1, x)
         = [out |-> x.out \o Bytes(MixIn(v, 0, in, from, p), 0, p), vector |-> PutIn(v, 0, in, from, p)]
  BY <1>1, <1>num, <1>5, <1>10 DEF DecryptStep
<1> HIDE DEF x, v
<1>16. DecryptStep(in, s, j + 1, x)
         = [out |-> SubSeq(t, e + 1, e + (from + p)), vector |-> StatusAt(c, key, iv, e + (from + p)).vector]
  BY <1>11, <1>12, <1>13, <1>14, <1>15
<1> QED BY <1>6, <1>16 DEF ReadFrom, x

\* Decrypting a piece of a stream from the status of its beginning gives the
\* text of that piece and the status of its end (AES_cfb128_decrypt).
THEOREM DecryptIs ==
    ASSUME NEW c, NEW t, NEW key, NEW iv, IsCfb(c, t, key, iv),
           NEW in, NEW a, NEW len, IsPiece(in, c, a, len)
    PROVE  Decrypt(in, StatusAt(c, key, iv, a))
             = [out |-> SubSeq(t, a + 1, a + len), status |-> StatusAt(c, key, iv, a + len)]
<1> DEFINE s == StatusAt(c, key, iv, a)
           run == Decrypting(in, s)
           k == Blocks(s, len)
           F == [j \in 0 .. k |-> ReadFrom(c, t, key, iv, a, Done(s, len, j))]
           b == a \div BlockLen
           r == a % BlockLen
<1>1. /\ key \in CryptKeys /\ iv \in Block /\ c \in Seq(Byte) /\ t \in Seq(Byte)
      /\ Len(c) \in Nat /\ len \in Nat /\ a \in Nat /\ BlockLen \in Nat /\ 0 \in Nat
      /\ Len(in) = len
  BY LenProperties, BlockAssumption DEF IsCfb, IsPiece
<1>2. b \in Nat /\ r \in 0 .. BlockLen - 1 /\ Base(b) \in Nat
  BY <1>1, DivMod, BaseNat
<1>num. s.number = r /\ s.key = key
  BY DEF StatusAt, At
<1>len. a = Base(b) + r
  BY <1>1, DivMod
<1> HIDE DEF b, r, s
<1>cut. Cut(b, r, len, s)
  BY ONLY <1>1, <1>2, <1>num, Cutting
<1>4. k \in Nat
  BY <1>cut DEF Cut
<1>5. DecryptRun(run, in, s)
  <2>1. ASSUME NEW j \in 0 .. k
        PROVE  F[j] = IF j = 0 THEN DecryptStart(in, s) ELSE DecryptStep(in, s, j, F[j - 1])
    <3>1. CASE j = 0
      BY <3>1, DecryptFirst DEF s
    <3>2. CASE j # 0
      <4>1. j - 1 \in Nat /\ j - 1 < Blocks(s, len) /\ j - 1 + 1 = j /\ j - 1 \in 0 .. k
        BY <1>4, <3>2
      <4>2. DecryptStep(in, s, j - 1 + 1, ReadFrom(c, t, key, iv, a, Done(s, len, j - 1)))
              = ReadFrom(c, t, key, iv, a, Done(s, len, j - 1 + 1))
        BY <4>1, DecryptNext DEF s
      <4> QED BY <3>2, <4>1, <4>2
    <3> QED BY <3>1, <3>2
  <2> HIDE DEF k
  <2>2. F = [j \in 0 .. k |-> F[j]]
    OBVIOUS
  <2> HIDE DEF F
  <2>3. F = [j \in 0 .. k |-> IF j = 0 THEN DecryptStart(in, s) ELSE DecryptStep(in, s, j, F[j - 1])]
    BY <2>1, <2>2
  <2>4. DecryptRun(F, in, s)
    BY <1>1, <2>3 DEF DecryptRun, k
  <2>5. run = CHOOSE h : DecryptRun(h, in, s)
    BY DEF Decrypting, DecryptRun, DecryptStart, DecryptStep
  <2> QED BY <2>4, <2>5
<1> DEFINE S == {j \in 0 .. k : run[j] = ReadFrom(c, t, key, iv, a, Done(s, len, j))}
<1>6. run[0] = DecryptStart(in, s) /\ \A j \in 1 .. k : run[j] = DecryptStep(in, s, j, run[j - 1])
  BY <1>1, <1>4, <1>5 DEF DecryptRun
<1> HIDE DEF run, k
<1>7. 0 \in S
  BY <1>4, <1>6, DecryptFirst DEF s
<1>8. ASSUME NEW j \in 0 .. k - 1, j \in S PROVE j + 1 \in S
  <2>1. j \in Nat /\ j < Blocks(s, len) /\ j + 1 \in 0 .. k /\ j + 1 \in 1 .. k /\ j + 1 - 1 = j
    BY <1>4 DEF k
  <2>2. DecryptStep(in, s, j + 1, ReadFrom(c, t, key, iv, a, Done(s, len, j)))
          = ReadFrom(c, t, key, iv, a, Done(s, len, j + 1))
    BY <2>1, DecryptNext DEF s
  <2>3. run[j + 1] = DecryptStep(in, s, j + 1, ReadFrom(c, t, key, iv, a, Done(s, len, j)))
    BY <1>6, <1>8, <2>1
  <2> QED BY <2>1, <2>2, <2>3
<1> HIDE DEF S
<1>9. k \in S
  <2>1. \A j \in 0 .. k : j \in S
    BY ONLY <1>4, <1>7, <1>8, UpTo
  <2> QED BY <1>4, <2>1
<1>11. Done(s, len, k) = len
  <2> DEFINE lead == Lead(s, len)
             whole == Base(k)
  <2>1. k = 0 => lead = len /\ whole = 0
    BY <1>cut, Base0 DEF Cut, k
  <2>2. lead \in 0 .. len /\ whole \in Nat /\ (k # 0 => len <= lead + whole)
    BY <1>cut, <1>4, BaseNat DEF Cut, k
  <2>3. Done(s, len, k) = Least(len, lead + whole)
    BY DEF Done
  <2> HIDE DEF lead, whole
  <2> QED BY <1>1, <2>1, <2>2, <2>3 DEF Least
<1>12. run[k] = ReadFrom(c, t, key, iv, a, len)
  BY <1>9, <1>11 DEF S
<1>13. Decrypt(in, s) = [out |-> run[k].out, status |-> [key |-> key, number |-> EndNumber(s, len),
                                                        vector |-> run[k].vector]]
  BY <1>1, <1>num DEF Decrypt, Ended, run, k
<1>14. EndNumber(s, len) = (a + len) % BlockLen
  <2>1. EndNumber(s, len) = (Base(b) + r + len) % BlockLen
    BY <1>cut DEF Cut
  <2> QED BY <1>len, <2>1
<1>15. StatusAt(c, key, iv, a + len)
        = [key |-> key, number |-> EndNumber(s, len), vector |-> StatusAt(c, key, iv, a + len).vector]
  BY <1>14 DEF StatusAt, At
<1>16. Decrypt(in, s) = [out |-> SubSeq(t, a + 1, a + len), status |-> StatusAt(c, key, iv, a + len)]
  <2> DEFINE z == StatusAt(c, key, iv, a + len)
             o == SubSeq(t, a + 1, a + len)
  <2>1. run[k].out = o /\ run[k].vector = z.vector
    <3> HIDE DEF z, o
    <3>1. run[k] = [out |-> o, vector |-> z.vector]
      BY <1>12 DEF ReadFrom, z, o
    <3> QED BY <3>1
  <2>2. z = [key |-> key, number |-> EndNumber(s, len), vector |-> z.vector]
    BY <1>15
  <2> HIDE DEF z, o
  <2>3. Decrypt(in, s) = [out |-> o, status |-> z]
    BY <1>13, <2>1, <2>2
  <2> QED BY <2>3 DEF z, o
<1> QED BY <1>16 DEF s

-----------------------------------------------------------------------------
\* The key stream of a piece: its ciphertext xor its text.
IsStreamOf(stream, c, t, a, len) ==
    \A i \in 1 .. len : stream[i] = ByteXor(c[a + i], t[a + i])

\* v and w agree outside the p places from r on.
AgreeBut(v, w, r, p) ==
    \A i \in 0 .. BlockLen - 1 : (i < r \/ r + p <= i) => v[i] = w[i]

\* Putting the key stream back in place of p bytes from place r of block d on
\* gives the vector that block had there.
LEMMA PutBack ==
    ASSUME NEW c, NEW t, NEW key, NEW iv, IsCfb(c, t, key, iv),
           NEW a \in Nat, NEW len \in Nat, a + len <= Len(c),
           NEW stream, IsStreamOf(stream, c, t, a, len),
           NEW d \in Nat, NEW r \in Nat, NEW p \in Nat, r + p <= BlockLen,
           NEW from \in Nat, from + p <= len, a + from = Base(d) + r,
           NEW v, AgreeBut(v, Running(c, key, iv, d, r), r, p)
    PROVE  PutIn(v, r, stream, from, p) = Running(c, key, iv, d, r)
<1> DEFINE K == Stream(c, key, iv, d)
           w == Running(c, key, iv, d, r)
<1>1. /\ key \in CryptKeys /\ iv \in Block /\ c \in Seq(Byte) /\ t \in Seq(Byte)
      /\ Len(t) = Len(c)
  BY DEF IsCfb
<1>2. Base(d) \in Nat /\ BlockLen \in Nat /\ Len(c) \in Nat
  BY <1>1, BaseNat, BlockAssumption, LenProperties
<1>3. ASSUME NEW i \in 0 .. BlockLen - 1 PROVE PutIn(v, r, stream, from, p)[i] = w[i]
  <2>1. CASE r <= i /\ i < r + p
    <3> DEFINE m == from + i - r + 1
    <3>1. /\ m \in 1 .. len /\ a + m = Base(d) + i + 1 /\ a + m \in 1 .. Len(c)
          /\ Base(d) + i < Len(t) /\ ~ (i < r)
      <4>1. m = from + i - r + 1 /\ a + from = Base(d) + r
        OBVIOUS
      <4> DEFINE z == Base(d)
      <4>2. z \in Nat /\ a + from = z + r
        BY <1>2
      <4> HIDE DEF m, z
      <4>3. m \in 1 .. len
        BY ONLY <2>1, <4>1, r \in Nat, p \in Nat, from \in Nat, len \in Nat, from + p <= len,
                i \in 0 .. BlockLen - 1, <1>2
      <4>4. a + m = z + i + 1
        BY ONLY <4>1, <4>2, a \in Nat, r \in Nat, from \in Nat, i \in 0 .. BlockLen - 1, <1>2
      <4>5. a + m <= Len(c) /\ a + m >= 1
        BY ONLY <4>3, a \in Nat, len \in Nat, a + len <= Len(c), <1>2
      <4> QED BY <1>1, <1>2, <2>1, <4>2, <4>3, <4>4, <4>5 DEF z
    <3>2. PutIn(v, r, stream, from, p)[i] = stream[m]
      BY <2>1 DEF PutIn
    <3> HIDE DEF m
    <3>3. stream[m] = ByteXor(c[a + m], t[a + m])
      BY <3>1 DEF IsStreamOf
    <3>4. c[a + m] = ByteXor(K[i], t[a + m])
      BY <3>1 DEF IsCfb
    <3>5. K[i] \in Byte /\ t[a + m] \in Byte
      <4>1. K \in Block
        <5>1. Base(d) <= Len(c)
          BY <1>1, <1>2, <3>1
        <5> QED BY <1>1, <5>1, StreamType
      <4>2. t[a + m] \in Byte
        BY <1>1, <3>1, ElementOfSeq
      <4> QED BY <4>1, <4>2 DEF Block
    <3>6. ByteXor(ByteXor(K[i], t[a + m]), t[a + m]) = K[i]
      BY <3>5, XorAssumption
    <3>7. w[i] = K[i]
      BY <3>1 DEF Running
    <3> QED BY <3>2, <3>3, <3>4, <3>6, <3>7
  <2>2. CASE i < r \/ r + p <= i
    <3>1. ~ (r <= i /\ i < r + p)
      BY <1>2, <2>2
    <3>2. PutIn(v, r, stream, from, p)[i] = v[i]
      BY <3>1 DEF PutIn
    <3>3. v[i] = w[i]
      BY <2>2 DEF AgreeBut
    <3> QED BY <3>2, <3>3
  <2> QED BY <1>2, <2>1, <2>2
<1> QED BY <1>3 DEF PutIn, Running

\* Before its first byte, a block's vector is all key stream.
LEMMA RunningFresh ==
    ASSUME NEW c \in Seq(Byte), NEW key \in CryptKeys, NEW iv \in Block, NEW b \in Nat,
           Base(b) <= Len(c)
    PROVE  /\ Running(c, key, iv, b, 0) = Stream(c, key, iv, b)
           /\ AesInverse(key, Running(c, key, iv, b, 0)) = Chain(c, iv, b)
<1>1. \A i \in 0 .. BlockLen - 1 : ~ (i < 0)
  OBVIOUS
<1>2. Running(c, key, iv, b, 0) = [i \in 0 .. BlockLen - 1 |-> Stream(c, key, iv, b)[i]]
  BY <1>1 DEF Running
<1>3. Stream(c, key, iv, b) \in Block /\ Chain(c, iv, b) \in Block
  BY StreamType, ChainType
<1>4. Running(c, key, iv, b, 0) = Stream(c, key, iv, b)
  BY <1>2, <1>3 DEF Block
<1> QED BY <1>3, <1>4, AesAssumption DEF Stream

RollRun(vec, key, first, stream, left) ==
    vec = [j \in 0 .. left \div BlockLen |->
             IF j = 0 THEN first
             ELSE AesInverse(key, PutIn(vec[j - 1], 0, stream, left - j * BlockLen, BlockLen))]

\* From the beginning of block b, rolling back finds the vector of each block.
LEMMA RollingBackIs ==
    ASSUME NEW c, NEW t, NEW key, NEW iv, IsCfb(c, t, key, iv),
           NEW a \in Nat, NEW len \in Nat, a + len <= Len(c),
           NEW stream, IsStreamOf(stream, c, t, a, len),
           NEW b \in Nat, NEW left \in Nat, left <= len, a + left = Base(b)
    PROVE  /\ left \div BlockLen \in 0 .. b
           /\ RollingBack(key, Chain(c, iv, b), stream, left)[left \div BlockLen]
                = Chain(c, iv, b - (left \div BlockLen))
<1> DEFINE q == left \div BlockLen
           first == Chain(c, iv, b)
           vec == RollingBack(key, first, stream, left)
           F == [j \in 0 .. q |-> Chain(c, iv, b - j)]
<1>1. /\ key \in CryptKeys /\ iv \in Block /\ c \in Seq(Byte) /\ t \in Seq(Byte)
      /\ Len(t) = Len(c)
  BY DEF IsCfb
<1>2. Base(b) \in Nat /\ BlockLen \in Nat /\ Len(c) \in Nat /\ BlockLen > 0 /\ 0 \in Nat
  BY <1>1, BaseNat, BlockAssumption, LenProperties
<1>3. q \in Nat /\ left % BlockLen \in 0 .. BlockLen - 1 /\ left = Base(q) + (left % BlockLen)
  BY DivMod
<1> HIDE DEF q
<1>4. q <= b
  <2>1. Base(q) \in Nat /\ ~ (b < q)
    <3>1. Base(q) \in Nat
      BY <1>3, BaseNat
    <3>2. Base(q) <= Base(b)
      BY <1>2, <1>3, <3>1
    <3>3. ~ (b < q)
      <4>1. b < q => Base(b) + BlockLen <= Base(q)
        BY <1>3, BaseOrder
      <4> QED BY <1>2, <3>1, <3>2, <4>1
    <3> QED BY <3>1, <3>3
  <2> QED BY <1>3, <2>1
<1>5. ASSUME NEW j \in 1 .. q, NEW v
      PROVE  AesInverse(key, PutIn(v, 0, stream, left - j * BlockLen, BlockLen)) = Chain(c, iv, b - j)
  <2> DEFINE d == b - j
             from == left - Base(j)
  <2>1. d \in Nat /\ j \in Nat
    BY <1>3, <1>4
  <2>2. Base(j) \in Nat /\ Base(d) \in Nat /\ Base(b) = Base(d) + Base(j)
    <3>1. b = d + j
      BY <2>1
    <3> HIDE DEF d
    <3>2. Base(d + j) = Base(d) + Base(j) /\ Base(j) \in Nat /\ Base(d) \in Nat
      BY <2>1, BaseAdd, BaseNat
    <3> QED BY <3>1, <3>2
  <2>3. Base(j) <= left
    <3>1. j < q => Base(j) + BlockLen <= Base(q)
      BY <1>3, <2>1, BaseOrder
    <3>2. j < q \/ j = q
      BY <1>3
    <3>3. Base(q) \in Nat
      BY <1>3, BaseNat
    <3>4. Base(j) <= Base(q)
      BY <1>2, <2>2, <3>1, <3>2, <3>3
    <3> DEFINE x == left % BlockLen
    <3>5. x \in 0 .. BlockLen - 1 /\ left = Base(q) + x
      BY <1>3
    <3> HIDE DEF x
    <3> QED BY ONLY <1>2, <2>2, <3>3, <3>4, <3>5
  <2> HIDE DEF d
  <2>4. from \in Nat /\ from + BlockLen <= len /\ a + from = Base(d) + 0 /\ left - j * BlockLen = from
    <3>1. Base(0) + BlockLen <= Base(j)
      BY <2>1, BaseOrder
    <3>2. BlockLen <= Base(j)
      BY <3>1, Base0, <1>2
    <3>3. left - j * BlockLen = from
      BY DEF Base
    <3>4. from \in Nat /\ from + BlockLen <= len
      BY <1>2, <2>2, <2>3, <3>2
    <3>5. a + from = Base(d)
      <4>1. a + left = Base(d) + Base(j)
        BY <2>2
      <4> QED BY <2>2, <4>1
    <3> QED BY <2>2, <3>3, <3>4, <3>5
  <2> HIDE DEF from
  <2>5. AgreeBut(v, Running(c, key, iv, d, 0), 0, BlockLen)
    BY <1>2 DEF AgreeBut
  <2>6. PutIn(v, 0, stream, from, BlockLen) = Running(c, key, iv, d, 0)
    <3>1. 0 + BlockLen <= BlockLen
      BY <1>2
    <3> QED BY <1>1, <1>2, <2>1, <2>4, <2>5, <3>1, PutBack
  <2>7. Base(d) <= Len(c)
    BY <1>2, <2>2
  <2>8. AesInverse(key, Running(c, key, iv, d, 0)) = Chain(c, iv, d)
    BY <1>1, <2>1, <2>7, RunningFresh
  <2> QED BY <2>4, <2>6, <2>8 DEF d
<1>6. RollRun(vec, key, first, stream, left)
  <2>1. ASSUME NEW j \in 0 .. q
        PROVE  F[j] = IF j = 0 THEN first
                      ELSE AesInverse(key, PutIn(F[j - 1], 0, stream, left - j * BlockLen, BlockLen))
    <3>1. CASE j = 0
      <4>1. b - 0 = b
        OBVIOUS
      <4> QED BY <3>1, <4>1
    <3>2. CASE j # 0
      <4>1. j \in 1 .. q
        BY <1>3, <3>2
      <4> QED BY <1>5, <3>2, <4>1
    <3> QED BY <3>1, <3>2
  <2>2. F = [j \in 0 .. q |-> F[j]]
    OBVIOUS
  <2> HIDE DEF F, first
  <2>3. F = [j \in 0 .. q |->
              IF j = 0 THEN first
              ELSE AesInverse(key, PutIn(F[j - 1], 0, stream, left - j * BlockLen, BlockLen))]
    BY <2>1, <2>2
  <2>4. RollRun(F, key, first, stream, left)
    BY <2>3 DEF RollRun, q
  <2>5. vec = CHOOSE h : RollRun(h, key, first, stream, left)
    BY DEF RollingBack, RollRun
  <2> QED BY <2>4, <2>5
<1>7. /\ vec[0] = first
      /\ \A j \in 1 .. q : vec[j] = AesInverse(key, PutIn(vec[j - 1], 0, stream,
                                                        left - j * BlockLen, BlockLen))
  <2> HIDE DEF vec, first
  <2>1. vec = [j \in 0 .. q |->
                IF j = 0 THEN first
                ELSE AesInverse(key, PutIn(vec[j - 1], 0, stream, left - j * BlockLen, BlockLen))]
    BY <1>6 DEF RollRun, q
  <2>2. \A j \in 1 .. q : j \in 0 .. q /\ j # 0
    BY <1>3
  <2>3. 0 \in 0 .. q
    BY <1>3
  <2> QED BY <2>1, <2>2, <2>3
<1> HIDE DEF vec
<1>8. vec[q] = Chain(c, iv, b - q)
  <2>1. CASE q = 0
    <3>1. b - 0 = b
      OBVIOUS
    <3> QED BY <1>7, <2>1, <3>1
  <2>2. CASE q # 0
    <3>1. q \in 1 .. q
      BY <1>3, <2>2
    <3> QED BY <1>5, <1>7, <3>1
  <2> QED BY <2>1, <2>2
<1> QED BY <1>3, <1>4, <1>8 DEF q, vec

\* Rolling back over a piece of a stream, from the status of its end, finds the
\* status of its beginning (Rollback_cfb_decrypt).
THEOREM RollbackIs ==
    ASSUME NEW c, NEW t, NEW key, NEW iv, IsCfb(c, t, key, iv),
           NEW in, NEW out, NEW a, NEW len, IsPiece(in, c, a, len), IsPiece(out, t, a, len)
    PROVE  Rollback(in, out, StatusAt(c, key, iv, a + len)) = StatusAt(c, key, iv, a)
<1> DEFINE s == StatusAt(c, key, iv, a + len)
           b == (a + len) \div BlockLen
           num == (a + len) % BlockLen
           stream == [i \in 1 .. len |-> ByteXor(in[i], out[i])]
<1>1. /\ key \in CryptKeys /\ iv \in Block /\ c \in Seq(Byte) /\ t \in Seq(Byte)
      /\ Len(t) = Len(c)
  BY DEF IsCfb
<1>2. /\ a \in Nat /\ len \in Nat /\ a + len <= Len(c) /\ Len(in) = len /\ Len(c) \in Nat
      /\ BlockLen \in Nat /\ BlockLen > 0 /\ 0 \in Nat /\ a + len \in Nat
  BY <1>1, BlockAssumption, LenProperties DEF IsPiece
<1>3. b \in Nat /\ num \in 0 .. BlockLen - 1 /\ Base(b) \in Nat
  BY <1>2, DivMod, BaseNat
<1>end. a + len = Base(b) + num
  BY <1>2, DivMod
<1>4. s.number = num /\ s.key = key
      /\ s.vector = IF num = 0 THEN Chain(c, iv, b) ELSE Running(c, key, iv, b, num)
  BY DEF StatusAt, At, Running
<1>5. IsStreamOf(stream, c, t, a, len)
  BY DEF IsStreamOf, IsPiece
<1> HIDE DEF b, num, s, stream
<1>place. Base(b) <= Len(c)
  BY <1>2, <1>3, <1>end
<1>6. CASE len < num
  <2> DEFINE n == num - len
             back == PutIn(s.vector, n, stream, 0, len)
  <2>1. n \in 1 .. BlockLen - 1 /\ n \in Nat /\ num # 0 /\ n + len <= BlockLen
    BY <1>2, <1>3, <1>6
  <2>2. a + 0 = Base(b) + n
    BY <1>2, <1>3, <1>end
  <2>3. AgreeBut(s.vector, Running(c, key, iv, b, n), n, len)
    <3>1. s.vector = Running(c, key, iv, b, num) /\ n + len = num
      BY <1>2, <1>3, <1>4, <2>1
    <3> HIDE DEF n
    <3> SUFFICES ASSUME NEW i \in 0 .. BlockLen - 1, i < n \/ num <= i
                 PROVE  Running(c, key, iv, b, num)[i] = Running(c, key, iv, b, n)[i]
      BY <3>1 DEF AgreeBut
    <3>2. i < n <=> i < num
      BY <1>2, <1>3, <2>1, <3>1
    <3> QED BY <3>2 DEF Running
  <2> HIDE DEF n
  <2>4. back = Running(c, key, iv, b, n)
    BY <1>2, <1>3, <1>5, <2>1, <2>2, <2>3, PutBack
  <2>5. Least(len, num) = len /\ len - len = 0 /\ 0 % BlockLen = 0 /\ 0 \div BlockLen = 0
    BY <1>2, <1>6, BlockAssumption DEF Least
  <2>6. RollingBack(key, back, stream, 0)[0] = back
    <3> HIDE DEF back
    <3> DEFINE F == [j \in 0 .. 0 |-> back]
    <3>1. F = [j \in 0 .. 0 \div BlockLen |->
                IF j = 0 THEN back
                ELSE AesInverse(key, PutIn(F[j - 1], 0, stream, 0 - j * BlockLen, BlockLen))]
      BY <2>5
    <3>2. RollRun(F, key, back, stream, 0)
      BY <3>1 DEF RollRun
    <3>3. RollingBack(key, back, stream, 0) = CHOOSE h : RollRun(h, key, back, stream, 0)
      BY DEF RollingBack, RollRun
    <3>4. RollRun(RollingBack(key, back, stream, 0), key, back, stream, 0)
      BY <3>2, <3>3
    <3> QED BY <2>5, <3>4 DEF RollRun
  <2>7. Rollback(in, out, s) = [key |-> key, number |-> n, vector |-> back]
    <3> DEFINE x == num - len
    <3>1. x = n /\ n # 0
      BY <2>1 DEF n
    <3>2. back = PutIn(s.vector, x, stream, len - len, len)
      BY <2>5, <3>1
    <3>3. RollingBack(key, back, stream, len - len)[(len - len) \div BlockLen] = back
      BY <2>5, <2>6
    <3> HIDE DEF back, x
    <3> QED BY <1>2, <1>4, <2>5, <3>1, <3>2, <3>3 DEF Rollback, stream, x
  <2>8. StatusAt(c, key, iv, Base(b) + n)
          = [key |-> key, number |-> IF n = BlockLen THEN 0 ELSE n,
             vector |-> Running(c, key, iv, b, n)]
    <3>1. n \in 1 .. BlockLen
      BY <1>2, <2>1
    <3> QED BY <1>3, <3>1, RunningStatus
  <2>9. n # BlockLen /\ a = Base(b) + n
    BY <1>2, <2>1, <2>2
  <2> QED BY <2>4, <2>7, <2>8, <2>9 DEF s
<1>7. CASE num <= len
  <2> DEFINE left == len - num
             back == PutIn(s.vector, 0, stream, left, num)
             first == IF num # 0 THEN AesInverse(key, back) ELSE back
             q == left \div BlockLen
             rest == left % BlockLen
             vector == RollingBack(key, first, stream, left)[q]
  <2>1. left \in Nat /\ left <= len /\ a + left = Base(b)
    BY <1>2, <1>3, <1>end, <1>7
  <2>2. Least(len, num) = num /\ num - num = 0
    BY <1>2, <1>3, <1>7 DEF Least
  <2>3. Rollback(in, out, s) =
          IF rest = 0 THEN [key |-> key, number |-> 0, vector |-> vector]
          ELSE [key |-> key, number |-> BlockLen - rest,
                vector |-> PutIn(vector, BlockLen - rest, stream, 0, rest)]
    <3>1. Len(in) = len /\ Least(len, num) = num /\ num - num = 0
      BY <1>2, <2>2
    <3> HIDE DEF s, num
    <3>2. Rollback(in, out, s) =
            LET m == num - num
                back0 == PutIn(s.vector, m, stream, left, num)
                first0 == IF m = 0 /\ num # 0 THEN AesInverse(key, back0) ELSE back0
                vector0 == RollingBack(key, first0, stream, left)[q]
            IN  IF rest = 0
                THEN [key |-> key, number |-> IF left = 0 THEN m ELSE 0, vector |-> vector0]
                ELSE [key |-> key, number |-> BlockLen - rest,
                      vector |-> PutIn(vector0, BlockLen - rest, stream, 0, rest)]
      BY ONLY <1>4, <3>1, SMTT(30) DEF Rollback, stream, left, q, rest
    <3>3. Rollback(in, out, s) =
            LET first0 == IF num # 0 THEN AesInverse(key, back) ELSE back
                vector0 == RollingBack(key, first0, stream, left)[q]
            IN  IF rest = 0
                THEN [key |-> key, number |-> IF left = 0 THEN 0 ELSE 0, vector |-> vector0]
                ELSE [key |-> key, number |-> BlockLen - rest,
                      vector |-> PutIn(vector0, BlockLen - rest, stream, 0, rest)]
      <4> HIDE DEF left, q, rest
      <4> QED BY ONLY <3>1, <3>2, Zenon DEF back
    <3>4. (IF left = 0 THEN 0 ELSE 0) = 0
      OBVIOUS
    <3> HIDE DEF left, q, rest, back
    <3> QED BY ONLY <3>3, <3>4, Zenon DEF vector, first
  <2>4. first = Chain(c, iv, b)
    <3>1. CASE num = 0
      <4>1. s.vector = Chain(c, iv, b) /\ Chain(c, iv, b) \in Block
        BY <1>1, <1>3, <1>4, <1>place, <3>1, ChainType
      <4>2. \A i \in 0 .. BlockLen - 1 : ~ (0 <= i /\ i < 0 + num)
        BY <3>1
      <4>3. back = [i \in 0 .. BlockLen - 1 |-> s.vector[i]]
        BY <4>2 DEF PutIn
      <4> QED BY <3>1, <4>1, <4>3 DEF Block
    <3>2. CASE num # 0
      <4>1. AgreeBut(s.vector, Running(c, key, iv, b, 0), 0, num)
        <5>1. s.vector = Running(c, key, iv, b, num)
          BY <1>4, <3>2
        <5> SUFFICES ASSUME NEW i \in 0 .. BlockLen - 1, num <= i
                     PROVE  Running(c, key, iv, b, num)[i] = Running(c, key, iv, b, 0)[i]
          BY <1>3, <5>1 DEF AgreeBut
        <5>2. ~ (i < num) /\ ~ (i < 0)
          BY <1>3
        <5> QED BY <5>2 DEF Running
      <4>2. back = Running(c, key, iv, b, 0)
        <5>1. num \in Nat /\ 0 + num <= BlockLen /\ left + num <= len /\ a + left = Base(b) + 0
          BY <1>2, <1>3, <2>1
        <5> HIDE DEF left
        <5> QED BY <1>2, <1>3, <1>5, <2>1, <4>1, <5>1, PutBack
      <4>3. AesInverse(key, Running(c, key, iv, b, 0)) = Chain(c, iv, b)
        BY <1>1, <1>3, <1>place, RunningFresh
      <4> QED BY <3>2, <4>2, <4>3
    <3> QED BY <3>1, <3>2
  <2> HIDE DEF left, first
  <2>5. q \in 0 .. b /\ RollingBack(key, first, stream, left)[q] = Chain(c, iv, b - q)
    <3>1. /\ left \div BlockLen \in 0 .. b
          /\ RollingBack(key, Chain(c, iv, b), stream, left)[left \div BlockLen]
               = Chain(c, iv, b - (left \div BlockLen))
      <4>1. /\ IsCfb(c, t, key, iv) /\ a \in Nat /\ len \in Nat /\ a + len <= Len(c) /\ b \in Nat
            /\ left \in Nat /\ left <= len
        BY <1>2, <1>3, <2>1
      <4>2. a + left = Base(b)
        BY <2>1
      <4> QED BY ONLY <4>1, <4>2, <1>5, RollingBackIs
    <3> QED BY <2>4, <3>1
  <2>6. q \in Nat /\ rest \in 0 .. BlockLen - 1 /\ left = Base(q) + rest
    BY <2>1, DivMod
  <2> DEFINE d == b - q
  <2> HIDE DEF q, rest
  <2>7. d \in Nat /\ Base(d) \in Nat /\ a + rest = Base(d) /\ vector = Chain(c, iv, d)
    <3>1. d \in Nat /\ b = d + q /\ q \in Nat
      BY <1>3, <2>5
    <3>2. vector = Chain(c, iv, d)
      BY <2>5
    <3> HIDE DEF d, vector
    <3>3. Base(d + q) = Base(d) + Base(q) /\ Base(d) \in Nat /\ Base(q) \in Nat
      BY <3>1, BaseAdd, BaseNat
    <3>4. a + left = Base(b) /\ Base(b) = Base(d + q)
      BY <2>1, <3>1
    <3>5. a \in Nat /\ rest \in Nat /\ left = Base(q) + rest
      BY <1>2, <2>6
    <3>6. a + rest = Base(d)
      BY ONLY <3>3, <3>4, <3>5
    <3> QED BY <3>1, <3>2, <3>3, <3>6
  <2> HIDE DEF d, vector
  <2>8. CASE rest = 0
    <3>1. a = Base(d) + 0 /\ 0 \in 0 .. BlockLen - 1
      BY <1>2, <2>7, <2>8
    <3>2. StatusAt(c, key, iv, a) = At(c, key, iv, d, 0)
      BY <2>7, <3>1, PlaceOf DEF StatusAt
    <3> QED BY <2>3, <2>7, <2>8, <3>2 DEF At, s
  <2>9. CASE rest # 0
    <3> DEFINE r == BlockLen - rest
               f == d - 1
    <3>1. d # 0 /\ f \in Nat /\ d = f + 1
      <4>1. d # 0
        BY <1>2, <2>6, <2>7, <2>9, Base0
      <4> QED BY <2>7, <4>1
    <3>2. r \in 1 .. BlockLen - 1 /\ r \in Nat /\ r + rest = BlockLen /\ rest \in Nat
      BY <1>2, <2>6, <2>9
    <3>3. a + 0 = Base(f) + r /\ Base(f) \in Nat /\ 0 + rest <= len
      <4>1. Base(d) = Base(f) + BlockLen /\ Base(f) \in Nat
        <5> HIDE DEF f
        <5> QED BY <3>1, BaseNext, BaseNat
      <4>2. Base(q) \in Nat
        BY <2>6, BaseNat
      <4> DEFINE y == Base(f)
                 z == Base(q)
      <4>3. /\ y \in Nat /\ z \in Nat /\ Base(d) = y + BlockLen /\ a + rest = y + BlockLen
            /\ left = z + rest /\ left <= len
        BY <2>1, <2>6, <2>7, <4>1, <4>2
      <4> HIDE DEF f, r, y, z
      <4>4. a = y + r /\ rest <= len
        BY ONLY <1>2, <3>2, <4>3
      <4> QED BY <1>2, <3>2, <4>3, <4>4 DEF y
    <3>4. AgreeBut(vector, Running(c, key, iv, f, r), r, rest)
      <4>1. Chain(c, iv, d) = [i \in 0 .. BlockLen - 1 |-> c[Base(f) + i + 1]]
        BY <3>1 DEF Chain
      <4>2. ASSUME NEW i \in 0 .. BlockLen - 1, i < r
            PROVE  vector[i] = Running(c, key, iv, f, r)[i]
        BY <2>7, <4>1, <4>2 DEF Running
      <4>3. \A i \in 0 .. BlockLen - 1 : ~ (r + rest <= i)
        BY <1>2, <3>2
      <4> QED BY <4>2, <4>3 DEF AgreeBut
    <3> HIDE DEF r, f
    <3>5. PutIn(vector, r, stream, 0, rest) = Running(c, key, iv, f, r)
      <4>1. r + rest <= BlockLen
        BY <1>2, <3>2
      <4> QED BY <1>2, <1>5, <3>1, <3>2, <3>3, <3>4, <4>1, PutBack
    <3>6. StatusAt(c, key, iv, Base(f) + r)
            = [key |-> key, number |-> IF r = BlockLen THEN 0 ELSE r,
               vector |-> Running(c, key, iv, f, r)]
      <4>1. r \in 1 .. BlockLen
        BY <1>2, <3>2
      <4> QED BY <3>1, <4>1, RunningStatus
    <3>7. r # BlockLen /\ a = Base(f) + r
      BY <1>2, <3>2, <3>3
    <3>8. Rollback(in, out, s) = [key |-> key, number |-> r, vector |-> PutIn(vector, r, stream, 0, rest)]
      BY <2>3, <2>9 DEF r
    <3> QED BY <3>5, <3>6, <3>7, <3>8 DEF s
  <2> QED BY <2>8, <2>9
<1> QED BY <1>2, <1>3, <1>6, <1>7

-----------------------------------------------------------------------------
\* The mode's recursion.
ModeStep(text, key, n, before) ==
    LET s == before.status
        v == IF s.number = 0 THEN Aes(key, s.vector) ELSE s.vector
        c == ByteXor(v[s.number], text[n])
    IN  [cipher |-> Append(before.cipher, c),
         status |-> [key |-> key, number |-> (s.number + 1) % BlockLen,
                     vector |-> [v EXCEPT ![s.number] = c]]]

ModeRun(f, text, key, iv) ==
    f = [n \in 0 .. Len(text) |->
            IF n = 0 THEN [cipher |-> <<>>, status |-> Reset(key, iv)]
            ELSE ModeStep(text, key, n, f[n - 1])]

Mode(c, key, iv, n) == [cipher |-> SubSeq(c, 1, n), status |-> StatusAt(c, key, iv, n)]

\* One byte of the mode.
LEMMA ModeNext ==
    ASSUME NEW c, NEW t, NEW key, NEW iv, IsCfb(c, t, key, iv), NEW n \in 0 .. Len(c) - 1
    PROVE  ModeStep(t, key, n + 1, Mode(c, key, iv, n)) = Mode(c, key, iv, n + 1)
<1> DEFINE b == n \div BlockLen
           r == n % BlockLen
           s == StatusAt(c, key, iv, n)
           v == Running(c, key, iv, b, r)
           w == Running(c, key, iv, b, r + 1)
<1>1. /\ key \in CryptKeys /\ iv \in Block /\ c \in Seq(Byte) /\ t \in Seq(Byte)
      /\ Len(t) = Len(c)
  BY DEF IsCfb
<1>2. /\ n \in Nat /\ n < Len(c) /\ Len(c) \in Nat /\ BlockLen \in Nat /\ BlockLen > 0
      /\ n + 1 \in 1 .. Len(c)
  BY <1>1, BlockAssumption, LenProperties
<1>3. b \in Nat /\ r \in 0 .. BlockLen - 1 /\ Base(b) \in Nat
  BY <1>2, DivMod, BaseNat
<1>pos. n = Base(b) + r
  BY <1>2, DivMod
<1>num. s.number = r
  BY DEF StatusAt, At
<1> HIDE DEF b, r
<1>4. v = IF s.number = 0 THEN Aes(key, s.vector) ELSE s.vector
  <2>1. Base(b) <= Len(c)
    BY <1>2, <1>3, <1>pos
  <2>2. v = IF r = 0 THEN Aes(key, StatusAt(c, key, iv, Base(b) + r).vector)
            ELSE StatusAt(c, key, iv, Base(b) + r).vector
    BY <1>1, <1>3, <2>1, RunningVector
  <2> QED BY <1>pos, <1>num, <2>2
<1>5. ByteXor(v[r], t[n + 1]) = c[n + 1]
  <2>1. c[Base(b) + r + 1] = ByteXor(Stream(c, key, iv, b)[r], t[Base(b) + r + 1])
    <3>1. Base(b) + r < Len(t)
      BY <1>1, <1>2, <1>pos
    <3> QED BY <1>3, <3>1 DEF IsCfb
  <2>2. v[r] = Stream(c, key, iv, b)[r]
    BY <1>3 DEF Running
  <2> QED BY <1>pos, <2>1, <2>2
<1>6. [v EXCEPT ![r] = c[n + 1]] = w
  <2>1. ASSUME NEW i \in 0 .. BlockLen - 1
        PROVE  [v EXCEPT ![r] = c[n + 1]][i] = w[i]
    <3>1. CASE i = r
      <4>1. [v EXCEPT ![r] = c[n + 1]][i] = c[n + 1]
        BY <3>1 DEF Running
      <4>2. w[i] = c[Base(b) + i + 1]
        BY <1>3, <3>1 DEF Running
      <4> QED BY <1>pos, <3>1, <4>1, <4>2
    <3>2. CASE i # r
      <4>1. [v EXCEPT ![r] = c[n + 1]][i] = v[i]
        BY <3>2 DEF Running
      <4>2. i < r <=> i < r + 1
        BY <1>3, <3>2
      <4> QED BY <4>1, <4>2 DEF Running
    <3> QED BY <3>1, <3>2
  <2>2. /\ DOMAIN [v EXCEPT ![r] = c[n + 1]] = 0 .. BlockLen - 1
        /\ [v EXCEPT ![r] = c[n + 1]] = [i \in 0 .. BlockLen - 1 |-> [v EXCEPT ![r] = c[n + 1]][i]]
    BY DEF Running
  <2>3. w = [i \in 0 .. BlockLen - 1 |-> w[i]]
    BY DEF Running
  <2> QED BY <2>1, <2>2, <2>3
<1>7. StatusAt(c, key, iv, n + 1) = [key |-> key, number |-> (r + 1) % BlockLen, vector |-> w]
  <2> DEFINE q == r + 1
  <2>1. q \in 1 .. BlockLen /\ n + 1 = Base(b) + q
    BY <1>2, <1>3, <1>pos
  <2> HIDE DEF q
  <2>2. StatusAt(c, key, iv, Base(b) + q)
          = [key |-> key, number |-> IF q = BlockLen THEN 0 ELSE q,
             vector |-> Running(c, key, iv, b, q)]
    BY <1>3, <2>1, RunningStatus
  <2>3. q % BlockLen = IF q = BlockLen THEN 0 ELSE q
    <3>1. CASE q = BlockLen
      <4>1. Base(0 + 1) = Base(0) + BlockLen
        BY BaseNext
      <4>2. (Base(0 + 1) + 0) % BlockLen = 0
        BY <1>2, PlaceOf
      <4>3. Base(0 + 1) + 0 = q
        BY <1>2, <3>1, <4>1, Base0
      <4> QED BY <3>1, <4>2, <4>3
    <3>2. CASE q # BlockLen
      <4>1. q \in 0 .. BlockLen - 1 /\ Base(0) + q = q
        BY <1>2, <2>1, <3>2, Base0
      <4>2. (Base(0) + q) % BlockLen = q
        BY <4>1, PlaceOf
      <4> QED BY <3>2, <4>1, <4>2
    <3> QED BY <3>1, <3>2
  <2> QED BY <2>1, <2>2, <2>3 DEF q
<1>9. Append(SubSeq(c, 1, n), c[n + 1]) = SubSeq(c, 1, n + 1)
  <2> DEFINE x == SubSeq(c, 1, n)
             y == SubSeq(c, 1, n + 1)
  <2>1. x \in Seq(Byte) /\ Len(x) = n /\ \A i \in 1 .. n : x[i] = c[i]
    <3>1. 0 + n <= Len(c)
      BY <1>2
    <3>2. /\ SubSeq(c, 0 + 1, 0 + n) \in Seq(Byte) /\ Len(SubSeq(c, 0 + 1, 0 + n)) = n
          /\ \A i \in 1 .. n : SubSeq(c, 0 + 1, 0 + n)[i] = c[0 + i]
      BY <1>1, <1>2, <3>1, SubSeqIs
    <3> QED BY <1>2, <3>2
  <2>2. y \in Seq(Byte) /\ Len(y) = n + 1 /\ \A i \in 1 .. n + 1 : y[i] = c[i]
    <3> DEFINE m == n + 1
    <3>1. 0 + m <= Len(c) /\ m \in Nat
      BY <1>2
    <3> HIDE DEF m
    <3>2. /\ SubSeq(c, 0 + 1, 0 + m) \in Seq(Byte) /\ Len(SubSeq(c, 0 + 1, 0 + m)) = m
          /\ \A i \in 1 .. m : SubSeq(c, 0 + 1, 0 + m)[i] = c[0 + i]
      BY <1>1, <3>1, SubSeqIs
    <3> QED BY <3>1, <3>2 DEF m
  <2>3. c[n + 1] \in Byte
    BY <1>1, <1>2, ElementOfSeq
  <2> HIDE DEF x, y
  <2>4. /\ Append(x, c[n + 1]) \in Seq(Byte) /\ Len(Append(x, c[n + 1])) = n + 1
        /\ \A i \in 1 .. n : Append(x, c[n + 1])[i] = x[i]
        /\ Append(x, c[n + 1])[n + 1] = c[n + 1]
    BY <1>2, <2>1, <2>3, AppendProperties
  <2>5. \A i \in 1 .. n + 1 : Append(x, c[n + 1])[i] = y[i]
    <3>1. ASSUME NEW i \in 1 .. n + 1 PROVE Append(x, c[n + 1])[i] = y[i]
      <4>1. i \in 1 .. n \/ i = n + 1
        BY <1>2
      <4> QED BY <2>1, <2>2, <2>4, <4>1
    <3> QED BY <3>1
  <2>6. Append(x, c[n + 1]) = y
    BY <2>2, <2>4, <2>5, SeqSame
  <2> QED BY <2>6 DEF x, y
<1> DEFINE m == Mode(c, key, iv, n)
<1>10. m.cipher = SubSeq(c, 1, n) /\ m.status = s
  BY DEF Mode
<1> HIDE DEF m, s, v, w
<1>11. ModeStep(t, key, n + 1, m)
         = [cipher |-> Append(SubSeq(c, 1, n), c[n + 1]),
            status |-> [key |-> key, number |-> (r + 1) % BlockLen, vector |-> w]]
  BY <1>num, <1>4, <1>5, <1>6, <1>10 DEF ModeStep
<1> QED BY <1>7, <1>9, <1>11 DEF Mode, m

\* A stream that is the encryption of a text is what the mode makes of it, byte
\* by byte, and its status at every place is the mode's.
THEOREM CfbModeIs ==
    ASSUME NEW c, NEW t, NEW key, NEW iv, IsCfb(c, t, key, iv), NEW n \in 0 .. Len(t)
    PROVE  /\ CfbMode(t, key, iv)[n].cipher = SubSeq(c, 1, n)
           /\ CfbMode(t, key, iv)[n].status = StatusAt(c, key, iv, n)
<1> DEFINE f == CfbMode(t, key, iv)
           F == [i \in 0 .. Len(t) |-> Mode(c, key, iv, i)]
           S == {i \in 0 .. Len(t) : f[i] = Mode(c, key, iv, i)}
<1>1. /\ key \in CryptKeys /\ iv \in Block /\ c \in Seq(Byte) /\ t \in Seq(Byte)
      /\ Len(t) = Len(c) /\ Len(t) \in Nat
  BY LenProperties DEF IsCfb
<1>2. Mode(c, key, iv, 0) = [cipher |-> <<>>, status |-> Reset(key, iv)]
  <2>1. SubSeq(c, 1, 0) = <<>>
    BY SubSeqEmpty
  <2> QED BY <2>1, StatusAtStart DEF Mode
<1>3. ASSUME NEW i \in 1 .. Len(t) PROVE Mode(c, key, iv, i) = ModeStep(t, key, i, Mode(c, key, iv, i - 1))
  <2>1. i - 1 \in 0 .. Len(c) - 1 /\ i - 1 + 1 = i
    BY <1>1
  <2>2. ModeStep(t, key, i - 1 + 1, Mode(c, key, iv, i - 1)) = Mode(c, key, iv, i - 1 + 1)
    BY <2>1, ModeNext
  <2> QED BY <2>1, <2>2
<1>4. ModeRun(f, t, key, iv)
  <2>1. ASSUME NEW i \in 0 .. Len(t)
        PROVE  F[i] = IF i = 0 THEN [cipher |-> <<>>, status |-> Reset(key, iv)]
                      ELSE ModeStep(t, key, i, F[i - 1])
    <3>1. CASE i = 0
      BY <1>2, <3>1
    <3>2. CASE i # 0
      <4>1. i \in 1 .. Len(t) /\ i - 1 \in 0 .. Len(t)
        BY <1>1, <3>2
      <4> QED BY <1>3, <3>2, <4>1
    <3> QED BY <3>1, <3>2
  <2>2. F = [i \in 0 .. Len(t) |-> F[i]]
    OBVIOUS
  <2> HIDE DEF F
  <2>3. F = [i \in 0 .. Len(t) |-> IF i = 0 THEN [cipher |-> <<>>, status |-> Reset(key, iv)]
                                   ELSE ModeStep(t, key, i, F[i - 1])]
    BY <2>1, <2>2
  <2>4. ModeRun(F, t, key, iv)
    BY <2>3 DEF ModeRun
  <2>5. f = CHOOSE h : ModeRun(h, t, key, iv)
    BY DEF CfbMode, ModeRun, ModeStep
  <2> QED BY <2>4, <2>5
<1> HIDE DEF f
<1>5. /\ f[0] = [cipher |-> <<>>, status |-> Reset(key, iv)]
      /\ \A i \in 1 .. Len(t) : f[i] = ModeStep(t, key, i, f[i - 1])
  <2>1. \A i \in 0 .. Len(t) : f[i] = IF i = 0 THEN [cipher |-> <<>>, status |-> Reset(key, iv)]
                                      ELSE ModeStep(t, key, i, f[i - 1])
    BY <1>4 DEF ModeRun
  <2>2. \A i \in 1 .. Len(t) : i \in 0 .. Len(t) /\ i # 0
    BY <1>1
  <2>3. 0 \in 0 .. Len(t)
    BY <1>1
  <2> QED BY <2>1, <2>2, <2>3
<1>6. 0 \in S
  BY <1>1, <1>2, <1>5
<1>7. ASSUME NEW i \in 0 .. Len(t) - 1, i \in S PROVE i + 1 \in S
  <2>1. i + 1 \in 1 .. Len(t) /\ i + 1 - 1 = i /\ i + 1 \in 0 .. Len(t)
    BY <1>1
  <2> QED BY <1>3, <1>5, <1>7, <2>1
<1> HIDE DEF S
<1>8. \A i \in 0 .. Len(t) : i \in S
  BY <1>1, <1>6, <1>7, UpTo
<1>9. f[n] = Mode(c, key, iv, n)
  BY <1>8 DEF S
<1> QED BY <1>9 DEF Mode, f

\* Encrypting a text in one call is the mode (AES_cfb128_encrypt from a reset
\* status), and decrypting the result from the same status is the text again.
THEOREM EncryptFollowsMode ==
    \A t \in Seq(Byte), key \in CryptKeys, iv \in Block :
        LET e == Encrypt(t, Reset(key, iv)) IN
        /\ IsCfb(e.out, t, key, iv)
        /\ e.out = CfbMode(t, key, iv)[Len(t)].cipher
        /\ e.status = CfbMode(t, key, iv)[Len(t)].status
        /\ Decrypt(e.out, Reset(key, iv)) = [out |-> t, status |-> e.status]
<1> SUFFICES ASSUME NEW t \in Seq(Byte), NEW key \in CryptKeys, NEW iv \in Block
             PROVE  LET e == Encrypt(t, Reset(key, iv)) IN
                    /\ IsCfb(e.out, t, key, iv)
                    /\ e.out = CfbMode(t, key, iv)[Len(t)].cipher
                    /\ e.status = CfbMode(t, key, iv)[Len(t)].status
                    /\ Decrypt(e.out, Reset(key, iv)) = [out |-> t, status |-> e.status]
  OBVIOUS
<1> DEFINE e == Encrypt(t, Reset(key, iv))
           o == e.out
           z == <<>>
<1>1. IsCfb(z, z, key, iv)
  <2>1. <<>> \in Seq(Byte) /\ Len(<<>>) = 0
    BY EmptySeq
  <2>2. \A b \in Nat, r \in 0 .. BlockLen - 1 : ~ (Base(b) + r < 0)
    BY BaseNat, BlockAssumption
  <2> QED BY <2>1, <2>2 DEF IsCfb
<1>2. StatusAt(z, key, iv, Len(z)) = Reset(key, iv)
  BY EmptySeq, StatusAtStart
<1>3. /\ o \in Seq(Byte) /\ Len(o) = Len(t)
      /\ IsCfb(z \o o, z \o t, key, iv)
      /\ e.status = StatusAt(z \o o, key, iv, Len(z) + Len(t))
  <2> HIDE DEF z
  <2> QED BY <1>1, <1>2, EncryptIs
<1>4. Len(t) \in Nat /\ Len(z) + Len(t) = Len(t)
  BY EmptySeq, LenProperties
<1> HIDE DEF o, e
<1>5. z \o o = o /\ z \o t = t
  BY <1>3, ConcatEmptySeq
<1>6. IsCfb(o, t, key, iv) /\ e.status = StatusAt(o, key, iv, Len(t))
  BY <1>3, <1>4, <1>5
<1>7. Len(t) \in 0 .. Len(t)
  BY <1>4
<1>8. /\ CfbMode(t, key, iv)[Len(t)].cipher = SubSeq(o, 1, Len(t))
      /\ CfbMode(t, key, iv)[Len(t)].status = StatusAt(o, key, iv, Len(t))
  BY <1>6, <1>7, CfbModeIs
<1>9. SubSeq(o, 1, Len(t)) = o /\ SubSeq(t, 1, Len(t)) = t
  BY <1>3, SubSeqFull
<1>10. Decrypt(o, Reset(key, iv)) = [out |-> t, status |-> e.status]
  <2> DEFINE len == Len(t)
  <2>1. IsPiece(o, o, 0, len)
    <3>1. \A i \in 1 .. len : 0 + i = i
      OBVIOUS
    <3> QED BY <1>3, <1>4, <3>1 DEF IsPiece
  <2>2. StatusAt(o, key, iv, 0) = Reset(key, iv)
    BY StatusAtStart
  <2>3. Decrypt(o, StatusAt(o, key, iv, 0))
          = [out |-> SubSeq(t, 0 + 1, 0 + len), status |-> StatusAt(o, key, iv, 0 + len)]
    <3> HIDE DEF len
    <3> QED BY <1>6, <2>1, DecryptIs
  <2>4. 0 + 1 = 1 /\ 0 + len = len
    BY <1>4
  <2> QED BY <1>6, <1>9, <2>2, <2>3, <2>4
<1> QED BY <1>6, <1>8, <1>9, <1>10 DEF o, e
=============================================================================
