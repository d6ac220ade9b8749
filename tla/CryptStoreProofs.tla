-------------------------- MODULE CryptStoreProofs --------------------------
(***************************************************************************)
(* The encrypted store keeps its promises for every log, key, vector and   *)
(* size of block and buffer.                                               *)
(*                                                                         *)
(* The inductive invariant, CryptInv, ties what CryptStore keeps to the    *)
(* log: the region is the encryption of the log's text (Store); what the   *)
(* dictionary holds is what a writer of the first m records would have put *)
(* there, statuses included (Held); at rest m_crypter is the status of the *)
(* end of what is loaded (AtRest); and a load's reader has in its buffer   *)
(* the text up to where its cipher is, from before the record being read   *)
(* (Loading, AtValue).  CfbProofs says what encrypting, decrypting and     *)
(* rolling back do to such a status.                                       *)
(***************************************************************************)
EXTENDS CryptStore, CfbProofs, FiniteSetTheorems

\* The largest of some places.
LEMMA MaxIn ==
    ASSUME NEW n \in Nat, NEW S, S \subseteq 0 .. n, S # {}
    PROVE  \E x \in S : \A y \in S : y <= x
<1> DEFINE D == {d \in 0 .. n : \A y \in S : y <= n - d}
<1>1. SUFFICES ASSUME \A x \in S : \E y \in S : ~ (y <= x) PROVE FALSE
  OBVIOUS
<1>2. 0 \in D
  OBVIOUS
<1>3. ASSUME NEW d \in 0 .. n - 1, d \in D PROVE d + 1 \in D
  <2>1. n - d \notin S
    BY <1>1, <1>3
  <2>2. ASSUME NEW y \in S PROVE y <= n - (d + 1)
    <3>1. y <= n - d /\ y # n - d
      BY <1>3, <2>1
    <3> QED BY <3>1
  <2> QED BY <2>2
<1> HIDE DEF D
<1>4. \A d \in 0 .. n : d \in D
  BY <1>2, <1>3, UpTo
<1>5. n \in D /\ n - n = 0
  BY <1>4
<1>6. \A y \in S : y <= 0
  BY <1>5 DEF D
<1>7. PICK x \in S : x \in 0 .. n
  OBVIOUS
<1>8. \A y \in S : y <= x
  BY <1>6, <1>7
<1> QED BY <1>1, <1>8

-----------------------------------------------------------------------------
\* w is s, of length m, and then t, of length n.
Joins(w, s, t, m, n) ==
    /\ w \in Seq(Byte) /\ Len(w) = m + n
    /\ \A i \in 1 .. m : w[i] = s[i]
    /\ \A i \in 1 .. n : w[m + i] = t[i]

\* Concatenation, as one fact.
LEMMA JoinsIs ==
    ASSUME NEW s \in Seq(Byte), NEW t \in Seq(Byte), NEW m \in Nat, NEW n \in Nat,
           Len(s) = m, Len(t) = n
    PROVE  Joins(s \o t, s, t, m, n)
<1> DEFINE w == s \o t
<1>1. /\ w \in Seq(Byte) /\ Len(w) = m + n
      /\ \A i \in 1 .. m : w[i] = s[i]
      /\ \A i \in 1 .. n : w[m + i] = t[i]
  BY SMTT(30)
<1> HIDE DEF w
<1>2. Joins(w, s, t, m, n)
  BY <1>1 DEF Joins
<1> QED BY <1>2 DEF w

-----------------------------------------------------------------------------
\* Records and what they add up to.
Holding == [key : Keys, val : Vals]

\* The bytes of a record of the log.
Rec(h) == Record(h.key, h.val)

\* A record is the size of its key, the key, the size of its value, the value.
IsRecord(r, k, v) ==
    LET n == Len(KeyText[k]) IN
    /\ r \in Seq(Byte) /\ n \in Nat /\ n >= 1 /\ Len(v) \in Nat
    /\ Len(r) = n + 2 + Len(v)
    /\ r[1] = n /\ \A i \in 1 .. n : r[1 + i] = KeyText[k][i]
    /\ r[n + 2] = Len(v) /\ \A i \in 1 .. Len(v) : r[n + 2 + i] = v[i]

\* The model's Record is one.
LEMMA RecordIs ==
    ASSUME NEW k \in Keys, NEW v \in Vals
    PROVE  IsRecord(Record(k, v), k, v)
<1> DEFINE t == KeyText[k]
           n == Len(t)
           m == Len(v)
           a == <<n>> \o t
           b == a \o <<m>>
<1>1. t \in Seq(Byte) /\ t # <<>> /\ n \in Byte /\ v \in Seq(Byte) /\ m \in Byte
  BY CryptAssumption
<1>2. n \in Nat /\ n >= 1 /\ m \in Nat
  BY <1>1, LenProperties, EmptySeq
<1>3. <<n>> \in Seq(Byte) /\ Len(<<n>>) = 1 /\ <<n>>[1] = n
  BY <1>1
<1>4. <<m>> \in Seq(Byte) /\ Len(<<m>>) = 1 /\ <<m>>[1] = m
  BY <1>1
<1>5. /\ a \in Seq(Byte) /\ Len(a) = 1 + n /\ a[1] = n
      /\ \A i \in 1 .. n : a[1 + i] = t[i]
  <2> DEFINE x == <<n>>
  <2>1. x \in Seq(Byte) /\ Len(x) = 1 /\ x[1] = n
    BY <1>3
  <2>2. a = x \o t
    OBVIOUS
  <2>3. t \in Seq(Byte) /\ Len(t) = n /\ n \in Nat
    BY <1>1, <1>2
  <2> HIDE DEF x, a, t, n
  <2>4. Joins(a, x, t, 1, n)
    BY <2>1, <2>2, <2>3, JoinsIs
  <2>5. 1 \in 1 .. 1
    OBVIOUS
  <2> QED BY <2>1, <2>4, <2>5 DEF Joins
<1>6. /\ b \in Seq(Byte) /\ Len(b) = n + 2 /\ b[n + 2] = m
      /\ \A i \in 1 .. n + 1 : b[i] = a[i]
  <2> DEFINE x == <<m>>
             l == 1 + n
  <2>1. x \in Seq(Byte) /\ Len(x) = 1 /\ x[1] = m
    BY <1>4
  <2>2. b = a \o x
    OBVIOUS
  <2>3. a \in Seq(Byte) /\ Len(a) = l /\ l \in Nat
    BY <1>2, <1>5
  <2> HIDE DEF x, a, b, n, l, m
  <2>4. Joins(b, a, x, l, 1)
    BY <2>1, <2>2, <2>3, JoinsIs
  <2>5. l + 1 = n + 2 /\ l = n + 1 /\ 1 \in 1 .. 1
    BY <1>2 DEF l
  <2> QED BY <2>1, <2>4, <2>5 DEF Joins
<1>7. /\ b \o v \in Seq(Byte) /\ Len(b \o v) = n + 2 + m
      /\ \A i \in 1 .. n + 2 : (b \o v)[i] = b[i]
      /\ \A i \in 1 .. m : (b \o v)[n + 2 + i] = v[i]
  <2> DEFINE l == n + 2
  <2>1. b \in Seq(Byte) /\ Len(b) = l /\ l \in Nat /\ v \in Seq(Byte) /\ Len(v) = m /\ m \in Nat
    BY <1>1, <1>2, <1>6
  <2> HIDE DEF b, l, m
  <2>2. Joins(b \o v, b, v, l, m)
    BY <2>1, JoinsIs
  <2> QED BY <2>2 DEF l, Joins
<1> DEFINE r == b \o v
<1>8. Record(k, v) = r
  BY DEF Record
<1> HIDE DEF a, b, n, m, t, r
<1>9. /\ r \in Seq(Byte) /\ Len(r) = n + 2 + m
      /\ r[1] = n /\ \A i \in 1 .. n : r[1 + i] = t[i]
      /\ r[n + 2] = m /\ \A i \in 1 .. m : r[n + 2 + i] = v[i]
  <2>1. \A i \in 1 .. n + 1 : r[i] = a[i]
    BY <1>2, <1>6, <1>7 DEF r
  <2>2. \A i \in 1 .. n : 1 + i \in 1 .. n + 1 /\ r[1 + i] = t[i]
    BY <1>2, <1>5, <2>1
  <2>3. r[1] = n
    BY <1>2, <1>5, <2>1
  <2>4. r[n + 2] = m
    BY <1>2, <1>6, <1>7 DEF r
  <2> QED BY <1>7, <2>2, <2>3, <2>4 DEF r
<1> QED BY <1>2, <1>8, <1>9 DEF IsRecord, n, m, t

\* The text through each record, step by step.
ThroughRun(f, l) ==
    f = [i \in 0 .. Len(l) |->
            IF i = 0 THEN SizeHolder ELSE f[i - 1] \o Record(l[i].key, l[i].val)]

\* Through, as its values.
LEMMA ThroughIs ==
    ASSUME NEW l \in Seq(Holding)
    PROVE  /\ Through(l) \in [0 .. Len(l) -> Seq(Byte)]
           /\ Through(l)[0] = SizeHolder
           /\ \A i \in 1 .. Len(l) : Through(l)[i] = Through(l)[i - 1] \o Rec(l[i])
<1> DEFINE g == [i \in Nat |-> [x \in Seq(Byte) |-> IF i \in 1 .. Len(l) THEN x \o Rec(l[i]) ELSE x]]
           n == Len(l)
           X == Seq(Byte)
           base == SizeHolder
<1>1. n \in Nat /\ base \in X
  BY CryptAssumption, LenProperties DEF SizeHolder
<1>2. ASSUME NEW i \in 1 .. n PROVE Rec(l[i]) \in Seq(Byte)
  <2>1. l[i] \in Holding
    BY ElementOfSeq
  <2>2. l[i].key \in Keys /\ l[i].val \in Vals
    BY <2>1 DEF Holding
  <2>3. IsRecord(Record(l[i].key, l[i].val), l[i].key, l[i].val)
    BY <2>2, RecordIs
  <2> QED BY <2>3 DEF IsRecord, Rec
<1>3. g \in [Nat -> [X -> X]]
  <2> SUFFICES ASSUME NEW i \in Nat, NEW x \in Seq(Byte)
               PROVE  (IF i \in 1 .. Len(l) THEN x \o Rec(l[i]) ELSE x) \in Seq(Byte)
    OBVIOUS
  <2>1. CASE i \in 1 .. n
    <3>1. Rec(l[i]) \in Seq(Byte)
      BY <1>2, <2>1
    <3>2. x \o Rec(l[i]) \in Seq(Byte)
      BY <3>1, ConcatProperties
    <3> QED BY <2>1, <3>2
  <2> QED BY <2>1
<1>4. PICK f \in [0 .. n -> X] : GoesOn(f, n, base, g)
  <2> HIDE DEF g, n, X, base
  <2> QED BY <1>1, <1>3, Recursion
<1>5. f = [i \in 0 .. n |-> f[i]]
  BY <1>4
<1>6. f[0] = base /\ \A i \in 1 .. n : f[i] = f[i - 1] \o Rec(l[i])
  <2>1. f[0] = base /\ \A i \in 1 .. n : f[i] = g[i][f[i - 1]]
    BY <1>4 DEF GoesOn
  <2>2. ASSUME NEW i \in 1 .. n PROVE f[i] = f[i - 1] \o Rec(l[i])
    <3>1. i - 1 \in 0 .. n /\ i \in Nat
      BY <1>1
    <3>2. f[i - 1] \in X
      BY <1>4, <3>1
    <3> QED BY <2>1, <3>1, <3>2
  <2> QED BY <2>1, <2>2
<1>7. ThroughRun(f, l)
  <2>1. ASSUME NEW i \in 0 .. n
        PROVE  f[i] = IF i = 0 THEN SizeHolder ELSE f[i - 1] \o Record(l[i].key, l[i].val)
    <3>1. CASE i = 0
      BY <1>6, <3>1
    <3>2. CASE i \in 1 .. n
      BY <1>6, <3>2 DEF Rec
    <3> QED BY <1>1, <3>1, <3>2, SMTT(30)
  <2> QED BY <1>5, <2>1 DEF ThroughRun
<1>8. ThroughRun(Through(l), l)
  <2>1. Through(l) = CHOOSE h : ThroughRun(h, l)
    BY DEF Through, ThroughRun
  <2> QED BY <1>7, <2>1
<1> DEFINE h == Through(l)
<1>9. h = [i \in 0 .. n |-> IF i = 0 THEN SizeHolder ELSE h[i - 1] \o Rec(l[i])]
  BY <1>8 DEF ThroughRun, Rec
<1> HIDE DEF h, g
<1>10. h[0] = base /\ \A i \in 1 .. n : h[i] = h[i - 1] \o Rec(l[i])
  <2>1. 0 \in 0 .. n
    BY <1>1
  <2>2. \A i \in 1 .. n : i \in 0 .. n /\ i # 0
    BY <1>1
  <2> QED BY <1>9, <2>1, <2>2
<1>11. \A i \in 0 .. n : h[i] \in Seq(Byte)
  <2> DEFINE S == {i \in 0 .. n : h[i] \in Seq(Byte)}
  <2>1. 0 \in S
    BY <1>1, <1>10
  <2>2. ASSUME NEW i \in 0 .. n - 1, i \in S PROVE i + 1 \in S
    <3> DEFINE j == i + 1
    <3>1. j \in 1 .. n /\ j - 1 = i /\ j \in 0 .. n
      BY <1>1
    <3>2. h[i] \in Seq(Byte)
      BY <2>2
    <3> HIDE DEF j, n, S
    <3>3. h[j] = h[i] \o Rec(l[j]) /\ Rec(l[j]) \in Seq(Byte)
      BY <1>2, <1>10, <3>1
    <3>4. h[i] \o Rec(l[j]) \in Seq(Byte)
      BY <3>2, <3>3, ConcatProperties
    <3> QED BY <3>1, <3>3, <3>4 DEF S, j
  <2> HIDE DEF S
  <2>3. \A i \in 0 .. n : i \in S
    BY <1>1, <2>1, <2>2, UpTo
  <2> QED BY <2>3 DEF S
<1>12. h \in [0 .. n -> Seq(Byte)]
  BY <1>9, <1>11
<1> QED BY <1>10, <1>12 DEF h

-----------------------------------------------------------------------------
\* The offset at which the records of l after the i-th begin.
Pos(l, i) == Len(Through(l)[i])

\* s and t have the same first n elements.
Agree(s, t, n) == \A i \in 1 .. n : s[i] = t[i]

\* Every offset is one, and the first is behind the size holder.
LEMMA PosType ==
    ASSUME NEW l \in Seq(Holding), NEW i \in 0 .. Len(l)
    PROVE  Through(l)[i] \in Seq(Byte) /\ Pos(l, i) \in Nat /\ Pos(l, 0) = 1
<1>1. Through(l)[i] \in Seq(Byte)
  BY ThroughIs
<1>2. Pos(l, i) \in Nat
  BY <1>1, LenProperties DEF Pos
<1>3. Len(SizeHolder) = 1
  BY DEF SizeHolder
<1> QED BY <1>1, <1>2, <1>3, ThroughIs DEF Pos

\* A record more.
LEMMA PosNext ==
    ASSUME NEW l \in Seq(Holding), NEW i \in 1 .. Len(l)
    PROVE  /\ l[i].key \in Keys /\ l[i].val \in Vals
           /\ IsRecord(Rec(l[i]), l[i].key, l[i].val)
           /\ Len(Rec(l[i])) \in Nat /\ Len(Rec(l[i])) >= 3
           /\ Joins(Through(l)[i], Through(l)[i - 1], Rec(l[i]), Pos(l, i - 1), Len(Rec(l[i])))
           /\ Pos(l, i) = Pos(l, i - 1) + Len(Rec(l[i]))
<1>1. l[i] \in Holding
  BY ElementOfSeq
<1>2. l[i].key \in Keys /\ l[i].val \in Vals
  BY <1>1 DEF Holding
<1>3. IsRecord(Rec(l[i]), l[i].key, l[i].val)
  BY <1>2, RecordIs DEF Rec
<1>4. Rec(l[i]) \in Seq(Byte) /\ Len(Rec(l[i])) \in Nat /\ Len(Rec(l[i])) >= 3
  <2> DEFINE a == Rec(l[i])
             b == Len(KeyText[l[i].key])
             c == Len(l[i].val)
  <2>1. a \in Seq(Byte) /\ b \in Nat /\ b >= 1 /\ c \in Nat /\ Len(a) = b + 2 + c
    BY <1>3 DEF IsRecord
  <2> HIDE DEF a, b, c
  <2>2. a \in Seq(Byte) /\ Len(a) \in Nat /\ Len(a) >= 3
    BY <2>1
  <2> QED BY <2>2 DEF a
<1>5. Len(l) \in Nat /\ i - 1 \in 0 .. Len(l) /\ i \in 0 .. Len(l)
  BY LenProperties
<1>6. Through(l)[i - 1] \in Seq(Byte) /\ Pos(l, i - 1) \in Nat
  BY <1>5, PosType
<1>7. Through(l)[i] = Through(l)[i - 1] \o Rec(l[i])
  BY ThroughIs
<1> DEFINE s == Through(l)[i - 1]
           r == Rec(l[i])
           m == Len(s)
           n == Len(r)
<1>8. Joins(s \o r, s, r, m, n)
  <2>1. s \in Seq(Byte) /\ r \in Seq(Byte) /\ m \in Nat /\ n \in Nat /\ Len(s) = m /\ Len(r) = n
    BY <1>4, <1>6 DEF Pos
  <2> HIDE DEF s, r, m, n
  <2> QED BY <2>1, JoinsIs
<1>9. Joins(Through(l)[i], s, r, Pos(l, i - 1), n)
  BY <1>7, <1>8 DEF Pos
<1>10. Pos(l, i) = Pos(l, i - 1) + n
  <2> HIDE DEF s, r, n
  <2> QED BY <1>9 DEF Pos, Joins
<1> QED BY <1>2, <1>3, <1>4, <1>9, <1>10

\* Records follow one another.
LEMMA PosOrder ==
    ASSUME NEW l \in Seq(Holding), NEW i \in 0 .. Len(l), NEW j \in i .. Len(l)
    PROVE  Pos(l, i) <= Pos(l, j) /\ Agree(Through(l)[j], Through(l)[i], Pos(l, i))
<1> DEFINE n == Len(l) - i
           S == {d \in 0 .. n : Pos(l, i) <= Pos(l, i + d) /\ Agree(Through(l)[i + d], Through(l)[i], Pos(l, i))}
<1>1. Len(l) \in Nat /\ n \in Nat /\ i \in Nat /\ j \in Nat
  BY LenProperties
<1>2. Pos(l, i) \in Nat
  BY PosType
<1>3. 0 \in S
  <2>1. i + 0 = i
    BY <1>1
  <2> QED BY <1>1, <1>2, <2>1 DEF Agree
<1>4. ASSUME NEW d \in 0 .. n - 1, d \in S PROVE d + 1 \in S
  <2> DEFINE e == i + (d + 1)
             b == i + d
  <2>1. e \in 1 .. Len(l) /\ e - 1 = b /\ b \in 0 .. Len(l) /\ d + 1 \in 0 .. n
    BY <1>1
  <2>2. Pos(l, i) <= Pos(l, b) /\ Agree(Through(l)[b], Through(l)[i], Pos(l, i))
    BY <1>4
  <2> HIDE DEF e, b, S
  <2>3. /\ Len(Rec(l[e])) \in Nat
        /\ Joins(Through(l)[e], Through(l)[b], Rec(l[e]), Pos(l, b), Len(Rec(l[e])))
        /\ Pos(l, e) = Pos(l, b) + Len(Rec(l[e]))
    BY <2>1, PosNext
  <2>4. Pos(l, b) \in Nat
    BY <2>1, PosType
  <2>5. Pos(l, i) <= Pos(l, e)
    BY <1>2, <2>2, <2>3, <2>4
  <2>6. Agree(Through(l)[e], Through(l)[i], Pos(l, i))
    <3>1. \A x \in 1 .. Pos(l, i) : x \in 1 .. Pos(l, b)
      BY <1>2, <2>2, <2>4
    <3> QED BY <2>2, <2>3, <3>1 DEF Joins, Agree
  <2> QED BY <2>1, <2>5, <2>6 DEF S, e
<1>5. \A d \in 0 .. n : d \in S
  <2> HIDE DEF S, n
  <2> QED BY <1>1, <1>3, <1>4, UpTo
<1>6. j - i \in 0 .. n /\ i + (j - i) = j
  BY <1>1
<1>7. j - i \in S
  BY <1>5, <1>6
<1> QED BY <1>6, <1>7

\* So no two begin at one offset.
LEMMA PosOne ==
    ASSUME NEW l \in Seq(Holding), NEW i \in 0 .. Len(l), NEW j \in 0 .. Len(l)
    PROVE  /\ i < j => Pos(l, i) + Len(Rec(l[i + 1])) <= Pos(l, j) /\ Pos(l, i) < Pos(l, j)
           /\ Pos(l, i) = Pos(l, j) => i = j
           /\ Pos(l, i) < Pos(l, j) => i < j
<1>1. Len(l) \in Nat /\ i \in Nat /\ j \in Nat
  BY LenProperties
<1>2. ASSUME NEW a \in 0 .. Len(l), NEW b \in 0 .. Len(l), a < b
      PROVE  /\ Pos(l, a) + Len(Rec(l[a + 1])) <= Pos(l, b) /\ Pos(l, a) < Pos(l, b)
             /\ Pos(l, a) \in Nat /\ Pos(l, b) \in Nat
  <2> DEFINE c == a + 1
  <2>1. c \in 1 .. Len(l) /\ c \in 0 .. Len(l) /\ b \in c .. Len(l) /\ c - 1 = a
    BY <1>1, <1>2
  <2> HIDE DEF c
  <2>2. Pos(l, c) <= Pos(l, b)
    BY <2>1, PosOrder
  <2>3. Pos(l, c) = Pos(l, a) + Len(Rec(l[c])) /\ Len(Rec(l[c])) \in Nat /\ Len(Rec(l[c])) >= 3
    BY <2>1, PosNext
  <2>4. Pos(l, a) \in Nat /\ Pos(l, b) \in Nat
    BY PosType
  <2>5. Pos(l, a) + Len(Rec(l[c])) <= Pos(l, b) /\ Pos(l, a) < Pos(l, b)
    BY <2>2, <2>3, <2>4
  <2> QED BY <2>4, <2>5 DEF c
<1>3. i < j \/ j < i \/ i = j
  BY <1>1
<1>4. CASE i < j
  <2>1. /\ Pos(l, i) + Len(Rec(l[i + 1])) <= Pos(l, j) /\ Pos(l, i) < Pos(l, j)
        /\ Pos(l, i) \in Nat /\ Pos(l, j) \in Nat
    BY <1>2, <1>4
  <2> QED BY <1>4, <2>1
<1>5. CASE j < i
  <2>1. Pos(l, j) < Pos(l, i) /\ Pos(l, i) \in Nat /\ Pos(l, j) \in Nat
    BY <1>2, <1>5
  <2> QED BY <1>1, <1>5, <2>1
<1>6. CASE i = j
  <2>1. Pos(l, i) \in Nat
    BY PosType
  <2> QED BY <1>1, <1>6, <2>1
<1> QED BY <1>3, <1>4, <1>5, <1>6

\* The text of the region, and each record in it.
LEMMA TextIs ==
    ASSUME NEW l \in Seq(Holding)
    PROVE  /\ TextOf(l) \in Seq(Byte)
           /\ l = <<>> => TextOf(l) = <<>>
           /\ l # <<>> => TextOf(l) = Through(l)[Len(l)] /\ Len(TextOf(l)) = Pos(l, Len(l))
<1>1. Len(l) \in 0 .. Len(l)
  BY LenProperties
<1>2. Through(l)[Len(l)] \in Seq(Byte)
  BY <1>1, PosType
<1>3. <<>> \in Seq(Byte)
  BY EmptySeq
<1> QED BY <1>2, <1>3 DEF TextOf, Pos

\* Each byte of a record, in the text through any record from it on.
LEMMA RecordAt ==
    ASSUME NEW l \in Seq(Holding), NEW i \in 1 .. Len(l), NEW j \in i .. Len(l),
           NEW x \in 1 .. Len(Rec(l[i]))
    PROVE  Through(l)[j][Pos(l, i - 1) + x] = Rec(l[i])[x]
<1>1. Len(l) \in Nat /\ i \in 0 .. Len(l) /\ i - 1 \in 0 .. Len(l)
  BY LenProperties
<1>2. /\ Joins(Through(l)[i], Through(l)[i - 1], Rec(l[i]), Pos(l, i - 1), Len(Rec(l[i])))
      /\ Pos(l, i) = Pos(l, i - 1) + Len(Rec(l[i])) /\ Len(Rec(l[i])) \in Nat
  BY PosNext
<1>3. Pos(l, i - 1) \in Nat
  BY <1>1, PosType
<1>4. Agree(Through(l)[j], Through(l)[i], Pos(l, i))
  BY <1>1, PosOrder
<1>5. Pos(l, i - 1) + x \in 1 .. Pos(l, i)
  BY <1>2, <1>3
<1>6. Through(l)[j][Pos(l, i - 1) + x] = Through(l)[i][Pos(l, i - 1) + x]
  BY <1>4, <1>5 DEF Agree
<1> QED BY <1>2, <1>6 DEF Joins

\* The records before a place decide the text up to there.
LEMMA ThroughAgree ==
    ASSUME NEW l \in Seq(Holding), NEW k \in Seq(Holding), NEW n \in Nat,
           n <= Len(l), n <= Len(k), Agree(l, k, n), NEW i \in 0 .. n
    PROVE  Through(l)[i] = Through(k)[i] /\ Pos(l, i) = Pos(k, i)
<1> DEFINE S == {d \in 0 .. n : Through(l)[d] = Through(k)[d]}
<1>1. Len(l) \in Nat /\ Len(k) \in Nat
  BY LenProperties
<1>2. 0 \in S
  <2>1. Through(l)[0] = SizeHolder
    BY ThroughIs
  <2>2. Through(k)[0] = SizeHolder
    BY ThroughIs
  <2> QED BY <2>1, <2>2
<1>3. ASSUME NEW d \in 0 .. n - 1, d \in S PROVE d + 1 \in S
  <2> DEFINE e == d + 1
  <2>1. e \in 1 .. n /\ e \in 1 .. Len(l) /\ e \in 1 .. Len(k) /\ e - 1 = d /\ e \in 0 .. n
    BY <1>1
  <2>2. Through(l)[d] = Through(k)[d]
    BY <1>3
  <2> HIDE DEF e, S
  <2>3. Through(l)[e] = Through(l)[e - 1] \o Rec(l[e]) /\ Through(k)[e] = Through(k)[e - 1] \o Rec(k[e])
    BY <2>1, ThroughIs
  <2>4. l[e] = k[e]
    BY <2>1 DEF Agree
  <2>5. e \in S
    BY <2>1, <2>2, <2>3, <2>4 DEF S
  <2> QED BY <2>5 DEF e
<1> HIDE DEF S
<1>4. \A d \in 0 .. n : d \in S
  BY <1>2, <1>3, UpTo
<1> QED BY <1>4 DEF S, Pos

\* What a record written adds to the log and to the text.
LEMMA LogGrows ==
    ASSUME NEW l \in Seq(Holding), NEW h \in Holding
    PROVE  LET m == Append(l, h) IN
           /\ m \in Seq(Holding) /\ Len(m) = Len(l) + 1 /\ m[Len(l) + 1] = h /\ m # <<>>
           /\ Agree(l, m, Len(l))
           /\ TextOf(m) = Through(l)[Len(l)] \o Rec(h)
<1> DEFINE m == Append(l, h)
           n == Len(l)
           e == n + 1
<1>1. /\ m \in Seq(Holding) /\ Len(m) = e /\ m[e] = h
      /\ \A i \in 1 .. n : m[i] = l[i]
  BY AppendProperties
<1>2. n \in Nat /\ n \in 0 .. n /\ e - 1 = n /\ e \in Nat /\ e # 0
  BY LenProperties
<1>3. m # <<>>
  BY <1>1, <1>2, EmptySeq
<1> HIDE DEF m, n, e
<1>4. Agree(l, m, n)
  BY <1>1 DEF Agree
<1>5. Through(m)[n] = Through(l)[n]
  <2>1. n <= Len(l) /\ n <= Len(m)
    BY <1>1, <1>2 DEF e, n
  <2> QED BY <1>1, <1>2, <1>4, <2>1, ThroughAgree
<1>6. TextOf(m) = Through(l)[n] \o Rec(h)
  <2>1. e \in 1 .. Len(m)
    BY <1>1, <1>2 DEF e
  <2>2. Through(m)[e] = Through(m)[e - 1] \o Rec(m[e])
    BY <1>1, <2>1, ThroughIs
  <2> QED BY <1>1, <1>2, <1>3, <1>5, <2>2 DEF TextOf
<1> QED BY <1>1, <1>3, <1>4, <1>6 DEF m, n, e

-----------------------------------------------------------------------------
\* The parts of a record.
LEMMA RecordParts ==
    ASSUME NEW r, NEW k \in Keys, NEW v \in Vals, IsRecord(r, k, v)
    PROVE  LET n == Len(KeyText[k]) IN
           /\ SubSeq(r, 1, Len(r)) = r
           /\ SubSeq(r, 1, 1 + n) = <<n>> \o KeyText[k]
           /\ SubSeq(r, 2, 1 + n) = KeyText[k]
           /\ SubSeq(r, n + 3, n + 2 + Len(v)) = v
<1> DEFINE t == KeyText[k]
           n == Len(t)
           m == Len(v)
           a == <<n>>
<1>1. /\ r \in Seq(Byte) /\ n \in Nat /\ n >= 1 /\ m \in Nat
      /\ Len(r) = n + 2 + m
      /\ r[1] = n /\ \A i \in 1 .. n : r[1 + i] = t[i]
      /\ r[n + 2] = m /\ \A i \in 1 .. m : r[n + 2 + i] = v[i]
  BY DEF IsRecord
<1>2. t \in Seq(Byte) /\ v \in Seq(Byte) /\ n \in Byte
  BY CryptAssumption
<1>3. a \in Seq(Byte) /\ Len(a) = 1 /\ a[1] = n
  BY <1>2
<1>4. Joins(a \o t, a, t, 1, n)
  <2>1. a \in Seq(Byte) /\ t \in Seq(Byte) /\ 1 \in Nat /\ n \in Nat /\ Len(a) = 1 /\ Len(t) = n
    BY <1>1, <1>2, <1>3
  <2> HIDE DEF a, t, n
  <2> QED BY <2>1, JoinsIs
<1> DEFINE w == a \o t
<1> HIDE DEF t, n, m, a, w
<1>5. SubSeq(r, 1, Len(r)) = r
  BY <1>1, SMTT(30)
<1>6. SubSeq(r, 1, 1 + n) = w
  <2> DEFINE x == SubSeq(r, 0 + 1, 0 + (1 + n))
             l == 1 + n
  <2>0. x = SubSeq(r, 1, 1 + n)
    BY <1>1
  <2>1. 0 \in Nat /\ l \in Nat /\ 0 + l <= Len(r)
    BY <1>1
  <2>2. x \in Seq(Byte) /\ Len(x) = l /\ \A i \in 1 .. l : x[i] = r[0 + i]
    <3> HIDE DEF l
    <3>1. /\ SubSeq(r, 0 + 1, 0 + l) \in Seq(Byte) /\ Len(SubSeq(r, 0 + 1, 0 + l)) = l
          /\ \A i \in 1 .. l : SubSeq(r, 0 + 1, 0 + l)[i] = r[0 + i]
      BY <1>1, <2>1, SubSeqIs
    <3> QED BY <3>1 DEF l
  <2> HIDE DEF x
  <2>3. w \in Seq(Byte) /\ Len(w) = l /\ w[1] = n /\ \A i \in 1 .. n : w[1 + i] = t[i]
    <3>1. 1 \in 1 .. 1
      OBVIOUS
    <3> QED BY <1>3, <1>4, <3>1 DEF Joins, w
  <2>4. ASSUME NEW i \in 1 .. l PROVE x[i] = w[i]
    <3>1. x[i] = r[i]
      BY <1>1, <2>2
    <3>2. CASE i = 1
      BY <1>1, <2>3, <3>1, <3>2
    <3>3. CASE i # 1
      <4> DEFINE j == i - 1
      <4>1. j \in 1 .. n /\ i = 1 + j
        BY <1>1, <3>3
      <4> HIDE DEF j
      <4> QED BY <1>1, <2>3, <3>1, <4>1
    <3> QED BY <3>2, <3>3
  <2>5. x = w
    BY <2>2, <2>3, <2>4, SeqSame
  <2> QED BY <2>0, <2>5
<1>7. SubSeq(r, 2, 1 + n) = t
  <2> DEFINE x == SubSeq(r, 1 + 1, 1 + n)
  <2>0. x = SubSeq(r, 2, 1 + n)
    OBVIOUS
  <2>1. 1 \in Nat /\ 1 + n <= Len(r)
    BY <1>1
  <2>2. x \in Seq(Byte) /\ Len(x) = n /\ \A i \in 1 .. n : x[i] = r[1 + i]
    BY <1>1, <2>1, SubSeqIs
  <2> HIDE DEF x
  <2>3. x = t
    <3>1. \A i \in 1 .. Len(x) : x[i] = t[i]
      BY <1>1, <2>2
    <3>2. Len(x) = Len(t)
      BY <2>2 DEF n
    <3> QED BY <1>2, <2>2, <3>1, <3>2, SeqSame
  <2> QED BY <2>0, <2>3
<1>8. SubSeq(r, n + 3, n + 2 + m) = v
  <2> DEFINE l == n + 2
             x == SubSeq(r, l + 1, l + m)
  <2>0. x = SubSeq(r, n + 3, n + 2 + m)
    BY <1>1
  <2>1. l \in Nat /\ l + m <= Len(r)
    BY <1>1
  <2>2. x \in Seq(Byte) /\ Len(x) = m /\ \A i \in 1 .. m : x[i] = r[l + i]
    <3> HIDE DEF l
    <3> QED BY <1>1, <2>1, SubSeqIs
  <2> HIDE DEF x
  <2>3. x = v
    <3>1. \A i \in 1 .. Len(x) : x[i] = v[i]
      BY <1>1, <2>2
    <3>2. Len(x) = Len(v)
      BY <2>2 DEF m
    <3> QED BY <1>2, <2>2, <3>1, <3>2, SeqSame
  <2> QED BY <2>0, <2>3
<1> QED BY <1>5, <1>6, <1>7, <1>8 DEF w, a, m, n, t

\* A part of a record, in the text.
LEMMA RecordText ==
    ASSUME NEW l \in Seq(Holding), NEW i \in 1 .. Len(l), NEW a \in Nat, NEW n \in Nat,
           a + n <= Len(Rec(l[i])), NEW o, o = Pos(l, i - 1) + a
    PROVE  /\ o \in Nat /\ o + n <= Len(TextOf(l))
           /\ SubSeq(TextOf(l), o + 1, o + n) = SubSeq(Rec(l[i]), a + 1, a + n)
<1> DEFINE t == TextOf(l)
           r == Rec(l[i])
           p == Pos(l, i - 1)
           j == Len(l)
<1>1. j \in Nat /\ i \in 0 .. j /\ i - 1 \in 0 .. j /\ j \in i .. j /\ j \in 0 .. j /\ l # <<>>
  <2>1. Len(l) \in Nat
    BY LenProperties
  <2>2. l # <<>>
    BY <2>1, EmptySeq
  <2> QED BY <2>1, <2>2
<1>2. r \in Seq(Byte) /\ Len(r) \in Nat /\ Pos(l, i) = p + Len(r)
  <2>1. IsRecord(Rec(l[i]), l[i].key, l[i].val)
    BY PosNext
  <2>2. Rec(l[i]) \in Seq(Byte)
    BY <2>1 DEF IsRecord
  <2> QED BY <2>2, PosNext
<1>3. p \in Nat
  BY <1>1, PosType
<1>4. t \in Seq(Byte) /\ t = Through(l)[j] /\ Len(t) = Pos(l, j)
  BY <1>1, TextIs
<1>5. Pos(l, i) <= Pos(l, j) /\ Pos(l, i) \in Nat /\ Pos(l, j) \in Nat
  BY <1>1, PosOrder, PosType
<1>6. \A x \in 1 .. Len(r) : t[p + x] = r[x]
  BY <1>1, <1>4, RecordAt
<1>o. o = p + a
  OBVIOUS
<1> HIDE DEF t, r, p, j
<1>7. o \in Nat /\ o + n <= Len(t) /\ a + n <= Len(r)
  BY <1>2, <1>3, <1>4, <1>5, <1>o DEF r
<1> DEFINE x == SubSeq(t, o + 1, o + n)
           y == SubSeq(r, a + 1, a + n)
<1>8. x \in Seq(Byte) /\ Len(x) = n /\ \A q \in 1 .. n : x[q] = t[o + q]
  <2>1. t \in Seq(Byte) /\ o \in Nat /\ n \in Nat /\ o + n <= Len(t)
    BY <1>4, <1>7
  <2> QED BY ONLY <2>1, SubSeqIs
<1>9. y \in Seq(Byte) /\ Len(y) = n /\ \A q \in 1 .. n : y[q] = r[a + q]
  BY <1>2, <1>7, SubSeqIs
<1>10. ASSUME NEW q \in 1 .. n PROVE x[q] = y[q]
  <2> DEFINE z == a + q
  <2>1. z \in 1 .. Len(r) /\ o + q = p + z
    <3>1. Len(r) \in Nat /\ a + n <= Len(r) /\ p \in Nat /\ a \in Nat /\ n \in Nat /\ o = p + a
      BY <1>2, <1>3, <1>7, <1>o
    <3> QED BY ONLY <3>1, q \in 1 .. n
  <2> HIDE DEF x, y, z
  <2>2. t[o + q] = r[z]
    BY <1>6, <2>1
  <2> QED BY <1>8, <1>9, <2>2 DEF z
<1> HIDE DEF x, y
<1>11. x = y
  BY <1>8, <1>9, <1>10, SeqSame
<1> QED BY <1>7, <1>11 DEF x, y, t, r

-----------------------------------------------------------------------------
\* Decrypting n bytes of the region from a on, with the status there.
PieceRead(t, ck, v, a, n) ==
    Decrypt(Region(a, n), StatusAt(cipher, ck, v, a))
      = [out |-> SubSeq(t, a + 1, a + n), status |-> StatusAt(cipher, ck, v, a + n)]

\* Reading the region where it is the encryption of t.
LEMMA ReadAt ==
    ASSUME NEW t, NEW ck, NEW v, IsCfb(cipher, t, ck, v), NEW a \in Nat, NEW n \in Nat,
           a + n <= Len(cipher)
    PROVE  PieceRead(t, ck, v, a, n)
<1>1. cipher \in Seq(Byte)
  BY DEF IsCfb
<1> DEFINE x == SubSeq(cipher, a + 1, a + n)
<1>2. x \in Seq(Byte) /\ Len(x) = n /\ \A i \in 1 .. n : x[i] = cipher[a + i]
  BY <1>1, SubSeqIs
<1> HIDE DEF x
<1>3. IsPiece(x, cipher, a, n)
  BY <1>2 DEF IsPiece
<1>4. Decrypt(x, StatusAt(cipher, ck, v, a))
        = [out |-> SubSeq(t, a + 1, a + n), status |-> StatusAt(cipher, ck, v, a + n)]
  BY <1>3, DecryptIs
<1> QED BY <1>4 DEF x, Region, PieceRead

\* The key of the crypter is the one the holders' statuses have.
LEMMA SameKey ==
    ASSUME NEW c, NEW ck, NEW v, NEW n
    PROVE  [StatusAt(c, ck, v, n) EXCEPT !.key = ck] = StatusAt(c, ck, v, n)
<1> DEFINE b == n \div BlockLen
           r == n % BlockLen
           w == IF r = 0 THEN Chain(c, v, b)
                ELSE [i \in 0 .. BlockLen - 1 |->
                        IF i < r THEN c[Base(b) + i + 1] ELSE Stream(c, ck, v, b)[i]]
<1>1. StatusAt(c, ck, v, n) = [key |-> ck, number |-> r, vector |-> w]
  BY DEF StatusAt, At
<1> HIDE DEF b, r, w
<1> QED BY <1>1

\* The last record of key k among the first m is the i-th.
IsLast(l, m, k, i) == i \in 1 .. m /\ l[i].key = k /\ \A j \in i + 1 .. m : l[j].key # k

\* No record of k among the first m.
NoneOf(l, m, k) == \A i \in 1 .. m : l[i].key # k

\* The holder a writer would have made of record i.
HolderOf(l, i, k, c, ck, v) ==
    NewHolder(k, l[i].val, Pos(l, i - 1), StatusAt(c, ck, v, Pos(l, i - 1)))

\* h is what the dictionary should have for k after the first m records.
HolderIs(h, k, m, l, c, ck, v) ==
    \/ h = NoHolder /\ NoneOf(l, m, k)
    \/ \E i \in 1 .. m : IsLast(l, m, k, i) /\ h = HolderOf(l, i, k, c, ck, v)

\* n bytes of the region hold m records, or have not been read at all.
Stands(n, m, l) == m \in 0 .. Len(l) /\ (n = Pos(l, m) \/ (n = 0 /\ m = 0))

\* Latest, in terms of the records counted.
LEMMA LatestIs ==
    ASSUME log \in Seq(Holding), NEW m, NEW n, Stands(n, m, log), NEW k \in Keys
    PROVE  /\ NoneOf(log, m, k) => Latest(n)[k] = <<>>
           /\ \A i \in 1 .. m : IsLast(log, m, k, i) => Latest(n)[k] = log[i].val
<1> DEFINE D == {i \in 1 .. Len(log) : log[i].key = k /\ Len(Through(log)[i]) <= n}
<1>1. Latest(n)[k] = IF D = {} THEN <<>> ELSE log[CHOOSE i \in D : \A j \in D : j <= i].val
  BY DEF Latest
<1>2. m \in 0 .. Len(log) /\ Len(log) \in Nat
  BY LenProperties DEF Stands
<1>3. ASSUME NEW i \in 1 .. Len(log) PROVE Pos(log, i) <= n <=> i <= m
  <2>1. i \in 0 .. Len(log) /\ Pos(log, i) \in Nat /\ Pos(log, m) \in Nat /\ Pos(log, 0) = 1
    BY <1>2, PosType
  <2>2. CASE n = Pos(log, m)
    <3>1. i <= m => Pos(log, i) <= Pos(log, m)
      <4> SUFFICES ASSUME i <= m PROVE Pos(log, i) <= Pos(log, m)
        OBVIOUS
      <4>1. m = i \/ i < m
        BY <1>2
      <4> QED BY <1>2, <2>1, <4>1, PosOne
    <3>2. ~ (i <= m) => Pos(log, m) < Pos(log, i)
      <4> SUFFICES ASSUME ~ (i <= m) PROVE Pos(log, m) < Pos(log, i)
        OBVIOUS
      <4>1. m < i
        BY <1>2
      <4> QED BY <1>2, <2>1, <4>1, PosOne
    <3> QED BY <2>1, <2>2, <3>1, <3>2
  <2>3. CASE n = 0 /\ m = 0
    <3>1. Pos(log, i) >= 1
      <4>1. 0 \in 0 .. Len(log) /\ 0 < i
        BY <1>2
      <4>2. Pos(log, 0) < Pos(log, i)
        BY <2>1, <4>1, PosOne
      <4> QED BY <2>1, <4>2
    <3> QED BY <2>1, <2>3, <3>1
  <2> QED BY <2>2, <2>3 DEF Stands
<1>4. D = {i \in 1 .. m : log[i].key = k}
  BY <1>2, <1>3 DEF Pos
<1> HIDE DEF D
<1>5. NoneOf(log, m, k) => Latest(n)[k] = <<>>
  BY <1>1, <1>4 DEF NoneOf
<1>6. ASSUME NEW i \in 1 .. m, IsLast(log, m, k, i) PROVE Latest(n)[k] = log[i].val
  <2>1. i \in D
    BY <1>4, <1>6 DEF IsLast
  <2>2. \A j \in D : j <= i
    <3> SUFFICES ASSUME NEW j \in D PROVE j <= i
      OBVIOUS
    <3>1. j \in 1 .. m /\ log[j].key = k
      BY <1>4
    <3>2. j \notin i + 1 .. m
      BY <1>6, <3>1 DEF IsLast
    <3> QED BY <1>2, <3>1, <3>2
  <2>3. \A x \in D : (\A j \in D : j <= x) => x = i
    <3> SUFFICES ASSUME NEW x \in D, \A j \in D : j <= x PROVE x = i
      OBVIOUS
    <3>1. x <= i /\ i <= x /\ x \in Nat /\ i \in Nat
      BY <1>2, <1>4, <2>1, <2>2
    <3> QED BY <3>1
  <2>4. (CHOOSE x \in D : \A j \in D : j <= x) = i
    BY <2>1, <2>2, <2>3
  <2> QED BY <1>1, <2>1, <2>4
<1> QED BY <1>5, <1>6

-----------------------------------------------------------------------------
\* Reading the parts of record i from the status at its offset.
LEMMA PartsRead ==
    ASSUME log \in Seq(Holding), NEW ck, NEW v, IsCfb(cipher, TextOf(log), ck, v),
           NEW i \in 1 .. Len(log)
    PROVE  LET n == Len(KeyText[log[i].key])
               m == Len(log[i].val)
               o == Pos(log, i - 1)
           IN
           /\ n \in Nat /\ m \in Nat /\ o \in Nat /\ o + (n + 2 + m) <= Len(cipher)
           /\ Decrypt(Region(o, 1 + n), StatusAt(cipher, ck, v, o)).out = <<n>> \o KeyText[log[i].key]
           /\ Decrypt(Region(o, 2 + n), StatusAt(cipher, ck, v, o)).status
                = StatusAt(cipher, ck, v, o + (2 + n))
           /\ Decrypt(Region(o + (2 + n), m), StatusAt(cipher, ck, v, o + (2 + n))).out = log[i].val
<1> DEFINE r == Rec(log[i])
           k == log[i].key
           x == log[i].val
           t == TextOf(log)
           n == Len(KeyText[k])
           m == Len(x)
           o == Pos(log, i - 1)
           q == 2 + n
           p == o + q
           l == 1 + n
<1>1. /\ k \in Keys /\ x \in Vals /\ IsRecord(r, k, x) /\ Len(r) \in Nat
  BY PosNext
<1>2. r \in Seq(Byte) /\ n \in Nat /\ m \in Nat /\ Len(r) = n + 2 + m
  BY <1>1 DEF IsRecord
<1>3. Len(cipher) = Len(t) /\ Len(cipher) \in Nat
  BY LenProperties DEF IsCfb
<1>o. o \in Nat
  <2>1. i - 1 \in 0 .. Len(log)
    BY LenProperties
  <2> QED BY <2>1, PosType
<1> HIDE DEF r, k, x, t, n, m, o, q, p, l
<1>4. ASSUME NEW a \in Nat, NEW b \in Nat, a + b <= Len(r), NEW d, d = o + a
      PROVE  d \in Nat /\ d + b <= Len(cipher) /\ SubSeq(t, d + 1, d + b) = SubSeq(r, a + 1, a + b)
  <2>1. d = Pos(log, i - 1) + a
    BY <1>4 DEF o
  <2>2. a + b <= Len(Rec(log[i]))
    BY <1>4 DEF r
  <2>3. /\ d \in Nat /\ d + b <= Len(TextOf(log))
        /\ SubSeq(TextOf(log), d + 1, d + b) = SubSeq(Rec(log[i]), a + 1, a + b)
    BY ONLY log \in Seq(Holding), i \in 1 .. Len(log), a \in Nat, b \in Nat, <2>1, <2>2, RecordText, ZenonT(40)
  <2> QED BY <1>3, <2>3 DEF t, r
<1>5. /\ SubSeq(r, 1, 1 + n) = <<n>> \o KeyText[k]
      /\ SubSeq(r, n + 3, n + 2 + m) = x
  BY <1>1, RecordParts, ZenonT(40) DEF n, m
<1>0. o \in Nat /\ o + (n + 2 + m) <= Len(cipher)
  <2> DEFINE y == n + 2 + m
  <2>1. 0 \in Nat /\ y \in Nat /\ 0 + y <= Len(r) /\ o = o + 0
    BY <1>2, <1>o
  <2> HIDE DEF y
  <2>2. o \in Nat /\ o + y <= Len(cipher)
    BY <1>4, <2>1
  <2> QED BY <2>2 DEF y
<1>6. /\ o + l <= Len(cipher) /\ l \in Nat /\ SubSeq(t, o + 1, o + l) = <<n>> \o KeyText[k]
  <2>1. 0 \in Nat /\ l \in Nat /\ 0 + l <= Len(r) /\ o = o + 0 /\ 0 + 1 = 1 /\ 0 + l = l
    BY <1>0, <1>2 DEF l
  <2>2. o + l <= Len(cipher) /\ SubSeq(t, o + 1, o + l) = SubSeq(r, 0 + 1, 0 + l)
    BY ONLY <1>4, <2>1
  <2> QED BY <1>5, <2>1, <2>2 DEF l
<1>7. /\ q \in Nat /\ p \in Nat /\ p + m <= Len(cipher) /\ SubSeq(t, p + 1, p + m) = x
  <2>1. q \in Nat /\ m \in Nat /\ q + m <= Len(r) /\ p = o + q /\ q + 1 = n + 3 /\ q + m = n + 2 + m
    BY <1>0, <1>2 DEF q, p
  <2>2. p \in Nat /\ p + m <= Len(cipher) /\ SubSeq(t, p + 1, p + m) = SubSeq(r, q + 1, q + m)
    BY ONLY <1>4, <2>1
  <2> QED BY <1>5, <2>1, <2>2
<1>8. o + q <= Len(cipher) /\ o + q = p
  BY <1>0, <1>2 DEF q, p
<1>c. IsCfb(cipher, t, ck, v)
  BY DEF t
<1>9. Decrypt(Region(o, l), StatusAt(cipher, ck, v, o)).out = <<n>> \o KeyText[k]
  <2>1. Decrypt(Region(o, l), StatusAt(cipher, ck, v, o))
          = [out |-> SubSeq(t, o + 1, o + l), status |-> StatusAt(cipher, ck, v, o + l)]
    <3>1. o \in Nat /\ l \in Nat /\ o + l <= Len(cipher)
      BY <1>0, <1>6
    <3>2. PieceRead(t, ck, v, o, l)
      BY ONLY <1>c, <3>1, ReadAt
    <3> QED BY ONLY <3>2 DEF PieceRead
  <2> DEFINE w == SubSeq(t, o + 1, o + l)
             y == <<n>> \o KeyText[k]
             z == StatusAt(cipher, ck, v, o + l)
             d == Decrypt(Region(o, l), StatusAt(cipher, ck, v, o))
  <2>2. w = y
    BY <1>6
  <2>3. d = [out |-> w, status |-> z]
    BY <2>1
  <2> HIDE DEF w, y, z, d
  <2>4. d.out = y
    BY <2>2, <2>3
  <2> QED BY <2>4 DEF y, d
<1>10. Decrypt(Region(o, q), StatusAt(cipher, ck, v, o)).status = StatusAt(cipher, ck, v, p)
  <2>1. Decrypt(Region(o, q), StatusAt(cipher, ck, v, o))
          = [out |-> SubSeq(t, o + 1, o + q), status |-> StatusAt(cipher, ck, v, o + q)]
    <3>1. o \in Nat /\ q \in Nat /\ o + q <= Len(cipher)
      BY <1>0, <1>7, <1>8
    <3>2. PieceRead(t, ck, v, o, q)
      BY ONLY <1>c, <3>1, ReadAt
    <3> QED BY ONLY <3>2 DEF PieceRead
  <2> QED BY <1>8, <2>1
<1>11. Decrypt(Region(p, m), StatusAt(cipher, ck, v, p)).out = x
  <2>1. Decrypt(Region(p, m), StatusAt(cipher, ck, v, p))
          = [out |-> SubSeq(t, p + 1, p + m), status |-> StatusAt(cipher, ck, v, p + m)]
    <3> HIDE DEF p, m, t
    <3>1. p \in Nat /\ m \in Nat /\ p + m <= Len(cipher)
      BY <1>2, <1>7
    <3>2. PieceRead(t, ck, v, p, m)
      BY ONLY <1>c, <3>1, ReadAt
    <3> QED BY ONLY <3>2 DEF PieceRead
  <2> QED BY <1>7, <2>1
<1> QED BY <1>0, <1>2, <1>9, <1>10, <1>11 DEF k, x, q, p, l, n, m, o

\* A holder reads back as the value it was made for.
LEMMA HolderReads ==
    ASSUME log \in Seq(Holding), IsCfb(cipher, TextOf(log), crypter.key, iv),
           NEW i \in 1 .. Len(log), NEW k, k = log[i].key,
           NEW h, h = HolderOf(log, i, k, cipher, crypter.key, iv)
    PROVE  IF h = NoHolder THEN log[i].val = <<>> ELSE log[i].val # <<>> /\ ValueOf(h) = log[i].val
<1> DEFINE x == log[i].val
           n == Len(KeyText[k])
           m == Len(x)
           o == Pos(log, i - 1)
           ck == crypter.key
           s == StatusAt(cipher, ck, iv, o)
<1>1. h = NewHolder(k, x, o, s)
  BY DEF HolderOf
<1>2. /\ n \in Nat /\ m \in Nat /\ o \in Nat
      /\ Decrypt(Region(o, 2 + n), s).status = StatusAt(cipher, ck, iv, o + (2 + n))
      /\ Decrypt(Region(o + (2 + n), m), StatusAt(cipher, ck, iv, o + (2 + n))).out = x
  BY PartsRead, Zenon
<1>3. [s EXCEPT !.key = ck] = s
  BY SameKey
<1> HIDE DEF x, n, m, o, s, ck
<1>4. CASE x = <<>>
  BY <1>1, <1>4 DEF NewHolder, x
<1>5. CASE x # <<>> /\ ~ isValueStoredAsOffset(Len(x))
  <2>1. h = [type |-> "direct", val |-> x]
    BY <1>1, <1>5 DEF NewHolder, Direct
  <2>2. h # NoHolder
    <3>1. h.type = "direct" /\ NoHolder.type = "none"
      BY <2>1 DEF NoHolder
    <3> QED BY <3>1
  <2>3. ValueOf(h) = x
    BY <2>1 DEF ValueOf
  <2> QED BY <1>5, <2>2, <2>3 DEF x
<1>6. CASE x # <<>> /\ isValueStoredAsOffset(Len(x))
  <2>1. h = [type |-> "offset", offset |-> o, keySize |-> n, valSize |-> m, status |-> s]
    BY <1>1, <1>6 DEF NewHolder, Offset, n, m
  <2>2. h.type = "offset" /\ h.offset = o /\ h.keySize = n /\ h.valSize = m /\ h.status = s
    BY <2>1
  <2>3. h # NoHolder
    <3>1. NoHolder.type = "none"
      BY DEF NoHolder
    <3> QED BY <2>2, <3>1
  <2>4. ValueOf(h) = x
    <3> DEFINE before == 2 + n
    <3>1. before = 2 + h.keySize /\ h.type # "direct"
      BY <2>2
    <3>2. Decrypt(Region(o + before, m), Decrypt(Region(o, before), s).status).out = x
      BY <1>2
    <3> HIDE DEF before
    <3>3. Decrypt(Region(h.offset + before, h.valSize),
                  Decrypt(Region(h.offset, before), [h.status EXCEPT !.key = crypter.key]).status).out = x
      BY <1>3, <2>2, <3>2 DEF ck
    <3>4. ValueOf(h) = Decrypt(Region(h.offset + before, h.valSize),
                  Decrypt(Region(h.offset, before), [h.status EXCEPT !.key = crypter.key]).status).out
      BY <3>1 DEF ValueOf
    <3> QED BY <3>3, <3>4
  <2> QED BY <1>6, <2>3, <2>4 DEF x
<1> QED BY <1>4, <1>5, <1>6

\* So a dictionary that is what it should be gives every key its latest value.
LEMMA DicReads ==
    ASSUME log \in Seq(Holding), IsCfb(cipher, TextOf(log), crypter.key, iv),
           NEW m, NEW n, Stands(n, m, log), NEW k \in Keys, NEW h,
           HolderIs(h, k, m, log, cipher, crypter.key, iv)
    PROVE  Latest(n)[k] = IF h = NoHolder THEN <<>> ELSE ValueOf(h)
<1>1. m \in 0 .. Len(log) /\ Len(log) \in Nat
  BY LenProperties DEF Stands
<1>2. /\ NoneOf(log, m, k) => Latest(n)[k] = <<>>
      /\ \A i \in 1 .. m : IsLast(log, m, k, i) => Latest(n)[k] = log[i].val
  BY LatestIs
<1>3. CASE h = NoHolder /\ NoneOf(log, m, k)
  BY <1>2, <1>3
<1>4. ASSUME NEW i \in 1 .. m, IsLast(log, m, k, i), h = HolderOf(log, i, k, cipher, crypter.key, iv)
      PROVE  Latest(n)[k] = IF h = NoHolder THEN <<>> ELSE ValueOf(h)
  <2>1. i \in 1 .. Len(log) /\ k = log[i].key
    BY <1>1, <1>4 DEF IsLast
  <2>2. IF h = NoHolder THEN log[i].val = <<>> ELSE log[i].val # <<>> /\ ValueOf(h) = log[i].val
    BY <1>4, <2>1, HolderReads
  <2>3. Latest(n)[k] = log[i].val
    BY <1>2, <1>4
  <2> QED BY <2>2, <2>3
<1> QED BY <1>3, <1>4 DEF HolderIs

\* And the key a writer copies from the file is that key.
LEMMA KeyReads ==
    ASSUME log \in Seq(Holding), IsCfb(cipher, TextOf(log), crypter.key, iv),
           NEW m \in 0 .. Len(log), NEW k \in Keys,
           HolderIs(dic[k], k, m, log, cipher, crypter.key, iv)
    PROVE  KeyOnFile(k) = <<Len(KeyText[k])>> \o KeyText[k]
<1> DEFINE h == dic[k]
<1>0. Len(log) \in Nat
  BY LenProperties
<1>1. CASE h.type # "offset"
  BY <1>1 DEF KeyOnFile
<1>2. CASE h.type = "offset"
  <2>1. h # NoHolder
    <3>1. NoHolder.type = "none"
      BY DEF NoHolder
    <3> QED BY <1>2, <3>1
  <2>2. PICK i \in 1 .. m : IsLast(log, m, k, i) /\ h = HolderOf(log, i, k, cipher, crypter.key, iv)
    BY <2>1 DEF HolderIs
  <2>3. i \in 1 .. Len(log) /\ k = log[i].key
    BY <1>0, <2>2 DEF IsLast
  <2> DEFINE n == Len(KeyText[k])
             x == log[i].val
             o == Pos(log, i - 1)
             ck == crypter.key
             s == StatusAt(cipher, ck, iv, o)
  <2>4. n \in Nat /\ Decrypt(Region(o, 1 + n), s).out = <<n>> \o KeyText[k]
    BY <2>3, PartsRead, Zenon
  <2>5. [s EXCEPT !.key = ck] = s
    BY SameKey
  <2>6. h = NewHolder(k, x, o, s)
    BY <2>2 DEF HolderOf
  <2> HIDE DEF h, n, x, o, s, ck
  <2>7. h = Offset(o, n, Len(x), s)
    <3>1. NoHolder.type = "none" /\ Direct(x).type = "direct"
      BY DEF NoHolder, Direct
    <3> QED BY <1>2, <2>6, <3>1 DEF NewHolder, n
  <2>8. h.offset = o /\ h.keySize = n /\ h.status = s
    BY <2>7 DEF Offset
  <2>9. KeyOnFile(k) = Decrypt(Region(h.offset, 1 + h.keySize), [h.status EXCEPT !.key = crypter.key]).out
    BY <1>2 DEF KeyOnFile, h
  <2> QED BY <2>4, <2>5, <2>8, <2>9 DEF ck, n
<1> QED BY <1>1, <1>2

-----------------------------------------------------------------------------
\* What a file says of a place is decided by what precedes it.
LEMMA StatusAgree ==
    ASSUME NEW c, NEW d, NEW ck, NEW v, NEW n \in Nat, Agree(c, d, n), NEW m \in 0 .. n
    PROVE  StatusAt(c, ck, v, m) = StatusAt(d, ck, v, m)
<1>1. m \in Nat /\ \A i \in 1 .. m : c[i] = d[i]
  BY DEF Agree
<1> QED BY ONLY <1>1, StatusOfPrefix

\* A holder stays right while the file and the log keep the records it is about.
LEMMA HolderStable ==
    ASSUME NEW l \in Seq(Holding), NEW l2 \in Seq(Holding), NEW m \in Nat,
           m <= Len(l), m <= Len(l2), Agree(l, l2, m),
           NEW c, NEW c2, Agree(c, c2, Pos(l, m)),
           NEW h, NEW k, NEW ck, NEW v, HolderIs(h, k, m, l, c, ck, v)
    PROVE  HolderIs(h, k, m, l2, c2, ck, v)
<1>1. CASE h = NoHolder /\ NoneOf(l, m, k)
  <2>1. NoneOf(l2, m, k)
    BY <1>1 DEF NoneOf, Agree
  <2> QED BY <1>1, <2>1 DEF HolderIs
<1>2. ASSUME NEW i \in 1 .. m, IsLast(l, m, k, i), h = HolderOf(l, i, k, c, ck, v)
      PROVE  HolderIs(h, k, m, l2, c2, ck, v)
  <2>1. IsLast(l2, m, k, i)
    BY <1>2 DEF IsLast, Agree
  <2> DEFINE a == i - 1
             o == Pos(l, a)
  <2>2. a \in 0 .. m /\ a \in 0 .. Len(l) /\ m \in a .. Len(l) /\ m \in 0 .. Len(l)
    BY LenProperties
  <2> HIDE DEF a
  <2>3. Pos(l2, a) = o
    BY <2>2, ThroughAgree
  <2>4. o \in Nat /\ Pos(l, m) \in Nat /\ o <= Pos(l, m)
    BY <2>2, PosOrder, PosType
  <2>5. o \in 0 .. Pos(l, m)
    BY <2>4
  <2> HIDE DEF o
  <2>6. StatusAt(c, ck, v, o) = StatusAt(c2, ck, v, o)
    BY <2>4, <2>5, StatusAgree
  <2>7. l2[i] = l[i]
    BY DEF Agree
  <2>8. h = NewHolder(k, l2[i].val, o, StatusAt(c2, ck, v, o))
    BY <1>2, <2>6, <2>7 DEF HolderOf, o, a
  <2>9. h = HolderOf(l2, i, k, c2, ck, v)
    BY <2>3, <2>8 DEF HolderOf, a
  <2> QED BY <2>1, <2>9 DEF HolderIs
<1> QED BY <1>1, <1>2 DEF HolderIs

\* One more record, of another key.
LEMMA HolderMore ==
    ASSUME NEW l, NEW m \in Nat, NEW n, n = m + 1, NEW k, l[n].key # k,
           NEW c, NEW h, NEW ck, NEW v, HolderIs(h, k, m, l, c, ck, v)
    PROVE  HolderIs(h, k, n, l, c, ck, v)
<1>0. \A i \in 1 .. n : i \in 1 .. m \/ i = n
  OBVIOUS
<1>1. CASE h = NoHolder /\ NoneOf(l, m, k)
  <2>1. NoneOf(l, n, k)
    BY <1>0, <1>1 DEF NoneOf
  <2> QED BY <1>1, <2>1 DEF HolderIs
<1>2. ASSUME NEW i \in 1 .. m, IsLast(l, m, k, i), h = HolderOf(l, i, k, c, ck, v)
      PROVE  HolderIs(h, k, n, l, c, ck, v)
  <2>1. i \in 1 .. n /\ \A j \in i + 1 .. n : j \in i + 1 .. m \/ j = n
    OBVIOUS
  <2>2. IsLast(l, n, k, i)
    BY <1>2, <2>1 DEF IsLast
  <2> QED BY <1>2, <2>1, <2>2 DEF HolderIs
<1> QED BY <1>1, <1>2 DEF HolderIs

\* And of this one.
LEMMA HolderNew ==
    ASSUME NEW l, NEW m \in Nat, NEW n, n = m + 1, NEW k, l[n].key = k,
           NEW c, NEW h, NEW ck, NEW v,
           h = NewHolder(k, l[n].val, Pos(l, m), StatusAt(c, ck, v, Pos(l, m)))
    PROVE  HolderIs(h, k, n, l, c, ck, v)
<1>1. n \in 1 .. n /\ n - 1 = m /\ n + 1 .. n = {}
  OBVIOUS
<1>2. IsLast(l, n, k, n)
  BY <1>1 DEF IsLast
<1>3. h = HolderOf(l, n, k, c, ck, v)
  BY <1>1 DEF HolderOf
<1> QED BY <1>1, <1>2, <1>3 DEF HolderIs

-----------------------------------------------------------------------------
\* The whole dictionary d is right after m records.
AllHeld(d, m, l, c, ck, v) == \A k \in Keys : HolderIs(d[k], k, m, l, c, ck, v)

\* All of it but for k is right after the whole log.
OthersHeld(d, k, l, c, ck, v) == \A j \in Keys \ {k} : HolderIs(d[j], j, Len(l), l, c, ck, v)

\* The holder of k after a record of it has been appended.
WithHolder(d, k, h) == [d EXCEPT ![k] = h]

\* d is a dictionary of the keys.
IsDic(d) == d = [k \in Keys |-> d[k]]

\* A record x of k is appended, with the status s, to the region c and the log l.
Writes(l, c, ck, v, k, x, d, s, e, c2, l2, d2) ==
    /\ l \in Seq(Holding) /\ IsCfb(c, Through(l)[Len(l)], ck, v)
    /\ k \in Keys /\ x \in Vals /\ IsDic(d) /\ OthersHeld(d, k, l, c, ck, v)
    /\ s = StatusAt(c, ck, v, Len(c)) /\ e = Encrypt(Record(k, x), s)
    /\ c2 = c \o e.out /\ l2 = Append(l, [key |-> k, val |-> x])
    /\ d2 = WithHolder(d, k, NewHolder(k, x, Len(c), s))

\* Appending a record to a region that is its log's encryption, with the status
\* of its end, keeps region, status and dictionary right.
LEMMA Appended ==
    ASSUME NEW l, NEW c, NEW ck, NEW v, NEW k, NEW x, NEW d, NEW s, NEW e, NEW c2, NEW l2, NEW d2,
           Writes(l, c, ck, v, k, x, d, s, e, c2, l2, d2)
    PROVE  /\ l2 \in Seq(Holding) /\ l2 # <<>> /\ IsCfb(c2, TextOf(l2), ck, v)
           /\ e.status = StatusAt(c2, ck, v, Len(c2))
           /\ IsDic(d2) /\ AllHeld(d2, Len(l2), l2, c2, ck, v)
<1> SUFFICES ASSUME l \in Seq(Holding), IsCfb(c, Through(l)[Len(l)], ck, v),
                    k \in Keys, x \in Vals, IsDic(d), OthersHeld(d, k, l, c, ck, v),
                    s = StatusAt(c, ck, v, Len(c)), e = Encrypt(Record(k, x), s),
                    c2 = c \o e.out, l2 = Append(l, [key |-> k, val |-> x]),
                    d2 = WithHolder(d, k, NewHolder(k, x, Len(c), s))
             PROVE  /\ l2 \in Seq(Holding) /\ l2 # <<>> /\ IsCfb(c2, TextOf(l2), ck, v)
           /\ e.status = StatusAt(c2, ck, v, Len(c2))
           /\ IsDic(d2) /\ AllHeld(d2, Len(l2), l2, c2, ck, v)
  BY DEF Writes
<1> DEFINE t == Through(l)[Len(l)]
           r == Record(k, x)
           n == Len(l)
           m == Len(l2)
           h == [key |-> k, val |-> x]
<1>1. /\ c \in Seq(Byte) /\ Len(c) \in Nat /\ Len(c) = Len(t) /\ Len(t) = Pos(l, n)
      /\ n \in Nat /\ n \in 0 .. n
  BY LenProperties DEF IsCfb, Pos
<1>2. h \in Holding
  BY DEF Holding
<1>3. Rec(h) = r
  BY DEF Rec
<1>4. /\ l2 \in Seq(Holding) /\ m = n + 1 /\ l2[n + 1] = h /\ l2 # <<>>
      /\ Agree(l, l2, n) /\ TextOf(l2) = t \o Rec(h)
  <2> HIDE DEF h
  <2>1. l2 = Append(l, h)
    BY DEF h
  <2> QED BY <1>2, <2>1, LogGrows
<1>5. r \in Seq(Byte) /\ Len(r) \in Nat
  <2>1. IsRecord(r, k, x)
    BY RecordIs
  <2>2. r \in Seq(Byte)
    BY <2>1 DEF IsRecord
  <2> HIDE DEF r
  <2> QED BY <2>2, LenProperties
<1> HIDE DEF h, r, t, n, m
<1>6. /\ e.out \in Seq(Byte) /\ Len(e.out) = Len(r)
      /\ IsCfb(c2, t \o r, ck, v)
      /\ e.status = StatusAt(c2, ck, v, Len(c) + Len(r))
  <2>1. IsCfb(c, t, ck, v) /\ r \in Seq(Byte)
    BY <1>5 DEF t
  <2>2. e = Encrypt(r, StatusAt(c, ck, v, Len(c)))
    BY DEF r
  <2>3. LET f == Encrypt(r, StatusAt(c, ck, v, Len(c))) IN
        /\ f.out \in Seq(Byte) /\ Len(f.out) = Len(r)
        /\ IsCfb(c \o f.out, t \o r, ck, v)
        /\ f.status = StatusAt(c \o f.out, ck, v, Len(c) + Len(r))
    BY ONLY <2>1, EncryptIs
  <2> QED BY ONLY <2>2, <2>3, c2 = c \o e.out, Zenon
<1>7. Len(c2) = Len(c) + Len(r) /\ Agree(c, c2, Len(c))
  <2> DEFINE y == e.out
  <2>1. y \in Seq(Byte) /\ c2 = c \o y
    BY <1>6
  <2> DEFINE a == Len(c)
             b == Len(y)
  <2>2. a \in Nat /\ b \in Nat
    BY <2>1, LenProperties
  <2> HIDE DEF y, a, b
  <2>3. Joins(c2, c, y, a, b)
    BY <1>1, <2>1, <2>2, JoinsIs DEF a, b
  <2> QED BY <1>6, <2>3 DEF Joins, Agree, a, b, y
<1>8. IsCfb(c2, TextOf(l2), ck, v)
  BY <1>3, <1>4, <1>6
<1>9. e.status = StatusAt(c2, ck, v, Len(c2))
  BY <1>6, <1>7
<1>10. Pos(l2, n) = Len(c)
  <2>1. n <= Len(l) /\ n <= Len(l2)
    BY <1>1, <1>4 DEF n, m
  <2> QED BY <1>1, <1>4, <2>1, ThroughAgree
<1>11. StatusAt(c2, ck, v, Len(c)) = s
  <2>1. Len(c) \in 0 .. Len(c)
    BY <1>1
  <2> QED BY <1>1, <1>7, <2>1, StatusAgree
<1>12. IsDic(d2) /\ d2[k] = NewHolder(k, x, Len(c), s) /\ \A j \in Keys \ {k} : d2[j] = d[j]
  BY DEF WithHolder, IsDic
<1>13. ASSUME NEW j \in Keys PROVE HolderIs(d2[j], j, m, l2, c2, ck, v)
  <2>1. n \in Nat /\ m = n + 1 /\ l2[m] = h /\ h.key = k /\ h.val = x
    BY <1>1, <1>4 DEF h
  <2>2. CASE j = k
    <3>1. d2[k] = NewHolder(k, l2[m].val, Pos(l2, n), StatusAt(c2, ck, v, Pos(l2, n)))
      BY <1>10, <1>11, <1>12, <2>1
    <3> HIDE DEF m, n
    <3>2. l2[m].key = k
      BY <2>1
    <3>3. HolderIs(d2[k], k, m, l2, c2, ck, v)
      BY ONLY <2>1, <3>1, <3>2, HolderNew
    <3> QED BY <2>2, <3>3
  <2>3. CASE j # k
    <3>1. HolderIs(d[j], j, n, l, c, ck, v)
      BY <2>3 DEF OthersHeld, n
    <3>2. HolderIs(d[j], j, n, l2, c2, ck, v)
      <4>1. n <= Len(l) /\ n <= Len(l2) /\ Agree(c, c2, Pos(l, n))
        BY <1>1, <1>4, <1>7 DEF n, m
      <4> QED BY <1>1, <1>4, <3>1, <4>1, HolderStable, ZenonT(40)
    <3>3. l2[m].key # j
      BY <2>1, <2>3
    <3>4. HolderIs(d[j], j, m, l2, c2, ck, v)
      BY ONLY <2>1, <3>2, <3>3, HolderMore
    <3> QED BY <1>12, <2>3, <3>4
  <2> QED BY <2>2, <2>3
<1> QED BY <1>4, <1>8, <1>9, <1>12, <1>13 DEF AllHeld, m

-----------------------------------------------------------------------------
\* A set of naturals named without repetition can be put in order.
LEMMA Sorting ==
    ASSUME NEW D, IsFiniteSet(D), NEW f \in [D -> Nat], \A x, y \in D : f[x] = f[y] => x = y
    PROVE  \E ks \in SetToSeqs(D) : \A i, j \in 1 .. Len(ks) : i < j => f[ks[i]] < f[ks[j]]
<1> DEFINE n == Cardinality(D)
           B(k) == {j \in D : f[j] <= f[k]}
           R == [k \in D |-> Cardinality(B(k))]
<1>1. n \in Nat
  BY FS_CardinalityType
<1>2. ASSUME NEW k \in D
      PROVE  IsFiniteSet(B(k)) /\ R[k] = Cardinality(B(k)) /\ R[k] \in 1 .. n
  <2>1. B(k) \in SUBSET D
    OBVIOUS
  <2>2. IsFiniteSet(B(k)) /\ Cardinality(B(k)) <= Cardinality(D)
    BY <2>1, FS_Subset
  <2>3. k \in B(k)
    OBVIOUS
  <2>4. Cardinality(B(k)) \in Nat /\ Cardinality(B(k)) # 0
    BY <2>2, <2>3, FS_CardinalityType, FS_EmptySet
  <2> HIDE DEF B
  <2> QED BY <1>1, <2>2, <2>4
<1>3. ASSUME NEW j \in D, NEW k \in D, f[j] < f[k] PROVE R[j] < R[k]
  <2>1. B(j) \in SUBSET B(k)
    <3>1. \A i \in D : f[i] <= f[j] => f[i] <= f[k]
      BY <1>3
    <3> QED BY <3>1
  <2>2. IsFiniteSet(B(k)) /\ IsFiniteSet(B(j)) /\ R[k] = Cardinality(B(k)) /\ R[j] = Cardinality(B(j))
        /\ R[k] \in 1 .. n /\ R[j] \in 1 .. n
    BY <1>2
  <2>3. k \in B(k) /\ k \notin B(j)
    BY <1>3
  <2>4. B(j) # B(k)
    BY <2>3
  <2> HIDE DEF B, R
  <2>5. Cardinality(B(j)) <= Cardinality(B(k)) /\ (Cardinality(B(j)) = Cardinality(B(k)) => B(j) = B(k))
    BY <2>1, <2>2, FS_Subset
  <2> QED BY <1>1, <2>2, <2>4, <2>5
<1> HIDE DEF R, B
<1>4. \A j, k \in D : R[j] = R[k] => j = k
  <2> SUFFICES ASSUME NEW j \in D, NEW k \in D, R[j] = R[k] PROVE j = k
    OBVIOUS
  <2>1. R[j] \in 1 .. n /\ R[k] \in 1 .. n
    BY <1>2
  <2>2. ~ (f[j] < f[k]) /\ ~ (f[k] < f[j])
    <3>1. ~ (R[j] < R[k]) /\ ~ (R[k] < R[j])
      BY <1>1, <2>1
    <3> QED BY <1>3, <3>1
  <2>3. f[j] = f[k]
    BY <2>2
  <2> QED BY <2>3
<1>5. R \in Injection(D, 1 .. n)
  <2>1. R \in [D -> 1 .. n]
    BY <1>2 DEF R
  <2> QED BY <1>4, <2>1 DEF Injection, IsInjective
<1>6. IsFiniteSet(1 .. n) /\ Cardinality(1 .. n) = n
  BY <1>1, FS_Interval
<1>7. R \in Surjection(D, 1 .. n)
  BY <1>5, <1>6, FS_Injection
<1>8. \A i \in 1 .. n : \E k \in D : R[k] = i
  BY <1>7 DEF Surjection
<1> DEFINE ks == [i \in 1 .. n |-> CHOOSE k \in D : R[k] = i]
<1>9. \A i \in 1 .. n : ks[i] \in D /\ R[ks[i]] = i
  BY <1>8
<1>10. ks = [i \in 1 .. n |-> ks[i]]
  OBVIOUS
<1> HIDE DEF ks
<1>11. ks \in SetToSeqs(D)
  <2>1. ks \in [1 .. n -> D]
    BY <1>9, <1>10
  <2>2. \A i, j \in 1 .. n : i # j => ks[i] # ks[j]
    BY <1>9
  <2> QED BY <2>1, <2>2 DEF SetToSeqs
<1>12. Len(ks) = n
  <2>1. ks \in [1 .. n -> D]
    BY <1>9, <1>10
  <2>2. ks \in Seq(D)
    BY <1>1, <2>1, IsASeq
  <2> QED BY <1>1, <2>1, <2>2, LenProperties
<1>13. ASSUME NEW i \in 1 .. n, NEW j \in 1 .. n, i < j PROVE f[ks[i]] < f[ks[j]]
  <2>1. ks[i] \in D /\ ks[j] \in D /\ R[ks[i]] = i /\ R[ks[j]] = j
    BY <1>9
  <2>2. f[ks[i]] \in Nat /\ f[ks[j]] \in Nat
    BY <2>1
  <2>3. ~ (f[ks[j]] < f[ks[i]])
    <3>1. ~ (R[ks[j]] < R[ks[i]])
      BY <1>1, <1>13, <2>1
    <3> QED BY <1>3, <2>1, <3>1
  <2>4. f[ks[i]] # f[ks[j]]
    <3>1. ks[i] # ks[j]
      BY <1>13, <2>1
    <3> QED BY <2>1, <3>1
  <2> QED BY <2>2, <2>3, <2>4
<1> QED BY <1>11, <1>12, <1>13

\* ps names the elements of D, each once.
Names(ps, D) ==
    /\ Len(ps) \in Nat /\ ps \in [1 .. Len(ps) -> D]
    /\ \A i, j \in 1 .. Len(ps) : ps[i] = ps[j] => i = j
    /\ \A x \in D : \E i \in 1 .. Len(ps) : ps[i] = x

\* What SetToSeqs returns names the elements of the set.
LEMMA SeqsName ==
    ASSUME NEW D, IsFiniteSet(D), NEW ps \in SetToSeqs(D)
    PROVE  Names(ps, D)
<1> DEFINE n == Cardinality(D)
<1>1. n \in Nat
  BY FS_CardinalityType
<1>2. ps \in [1 .. n -> D] /\ \A i, j \in 1 .. n : i # j => ps[i] # ps[j]
  BY DEF SetToSeqs
<1>3. Len(ps) = n
  <2>1. ps \in Seq(D)
    BY <1>1, <1>2, IsASeq
  <2> QED BY <1>1, <1>2, <2>1, LenProperties
<1> HIDE DEF n
<1>4. ps \in Injection(1 .. n, D)
  BY <1>2 DEF Injection, IsInjective
<1>5. IsFiniteSet(1 .. n) /\ Cardinality(1 .. n) = Cardinality(D)
  BY <1>1, FS_Interval DEF n
<1>6. ps \in Surjection(1 .. n, D)
  BY <1>4, <1>5, FS_Injection
<1>7. \A x \in D : \E i \in 1 .. n : ps[i] = x
  BY <1>6 DEF Surjection
<1> QED BY <1>1, <1>2, <1>3, <1>7 DEF Names

-----------------------------------------------------------------------------
\* The store has loaded m records, and its dictionary is what they say.
Good(m) ==
    /\ log \in Seq(Holding) /\ IsCfb(cipher, TextOf(log), crypter.key, iv)
    /\ IsDic(dic) /\ Stands(actual, m, log)
    /\ AllHeld(dic, m, log, cipher, crypter.key, iv)

\* k's value is record i's, kept in memory or left in the file.
IsLatest(m, k, i) ==
    /\ IsLast(log, m, k, i) /\ i \in 1 .. Len(log) /\ k = log[i].key
    /\ log[i].val # <<>> /\ Latest(actual)[k] = log[i].val

\* k's value is that of record i, in memory.
PreparedAt(m, k, i) == IsLatest(m, k, i) /\ dic[k] = Direct(log[i].val)

\* k's value is that of record i, in the file, with the status there.
KeptAt(m, k, i) ==
    /\ IsLatest(m, k, i)
    /\ isValueStoredAsOffset(Len(log[i].val))
    /\ dic[k] = Offset(Pos(log, i - 1), Len(KeyText[k]), Len(log[i].val),
                       StatusAt(cipher, crypter.key, iv, Pos(log, i - 1)))

\* A key has no value, or is of one of these two kinds.
LEMMA KeyCases ==
    ASSUME NEW m, Good(m), NEW k \in Keys
    PROVE  \/ dic[k] = NoHolder /\ k \notin Kept /\ k \notin Prepared
           \/ k \in Prepared /\ k \notin Kept /\ \E i \in 1 .. m : PreparedAt(m, k, i)
           \/ k \in Kept /\ k \notin Prepared /\ \E i \in 1 .. m : KeptAt(m, k, i)
<1>1. m \in 0 .. Len(log) /\ Len(log) \in Nat /\ log \in Seq(Holding)
  BY LenProperties DEF Good, Stands
<1>2. NoHolder.type = "none" /\ \A v : Direct(v).type = "direct"
  BY DEF NoHolder, Direct
<1>3. \A o, a, b, s : Offset(o, a, b, s).type = "offset"
  BY DEF Offset
<1>4. CASE dic[k] = NoHolder
  BY <1>2, <1>4 DEF Kept, Prepared
<1>5. CASE dic[k] # NoHolder
  <2>1. HolderIs(dic[k], k, m, log, cipher, crypter.key, iv)
    BY DEF Good, AllHeld
  <2>2. PICK i \in 1 .. m : IsLast(log, m, k, i) /\ dic[k] = HolderOf(log, i, k, cipher, crypter.key, iv)
    BY <1>5, <2>1 DEF HolderIs
  <2> DEFINE x == log[i].val
             o == Pos(log, i - 1)
             s == StatusAt(cipher, crypter.key, iv, o)
             n == Len(KeyText[k])
  <2>3. dic[k] = NewHolder(k, x, o, s)
    BY <2>2 DEF HolderOf
  <2>4. Latest(actual)[k] = x
    <3>1. Stands(actual, m, log)
      BY DEF Good
    <3> QED BY <1>1, <2>2, <3>1, LatestIs
  <2>5. i \in 1 .. Len(log) /\ k = log[i].key
    BY <1>1, <2>2 DEF IsLast
  <2> HIDE DEF x, o, s, n
  <2>6. x # <<>>
    BY <1>5, <2>3 DEF NewHolder
  <2>7. IsLatest(m, k, i)
    BY <2>2, <2>4, <2>5, <2>6 DEF IsLatest, x
  <2>8. CASE ~ isValueStoredAsOffset(Len(x))
    <3>1. dic[k] = Direct(x)
      BY <2>3, <2>6, <2>8 DEF NewHolder
    <3>2. k \in Prepared /\ k \notin Kept
      BY <1>2, <3>1 DEF Kept, Prepared
    <3>3. PreparedAt(m, k, i)
      BY <2>7, <3>1 DEF PreparedAt, x
    <3> QED BY <3>2, <3>3
  <2>9. CASE isValueStoredAsOffset(Len(x))
    <3>1. dic[k] = Offset(o, n, Len(x), s)
      BY <2>3, <2>6, <2>9 DEF NewHolder, n
    <3>2. dic[k].type = "offset"
      BY <1>3, <3>1
    <3>3. k \in Kept /\ k \notin Prepared
      BY <3>2 DEF Kept, Prepared
    <3>4. KeptAt(m, k, i)
      BY <2>7, <2>9, <3>1 DEF KeptAt, x, o, n, s
    <3> QED BY <3>3, <3>4
  <2> QED BY <2>8, <2>9
<1> QED BY <1>4, <1>5

\* No two records that are kept begin at one offset, so memmoveDictionary can
\* put them in order.
LEMMA InOrderIs ==
    ASSUME NEW m, Good(m)
    PROVE  /\ Names(InOrder, Kept)
           /\ \A i, j \in 1 .. Len(InOrder) : i < j => dic[InOrder[i]].offset < dic[InOrder[j]].offset
<1> DEFINE f == [k \in Kept |-> dic[k].offset]
<1>1. IsFiniteSet(Kept)
  <2>1. Kept \in SUBSET Keys
    BY DEF Kept
  <2> QED BY <2>1, CryptAssumption, FS_Subset
<1>2. ASSUME NEW k \in Kept
      PROVE  \E i \in 1 .. m : KeptAt(m, k, i) /\ f[k] = Pos(log, i - 1) /\ f[k] \in Nat /\ i \in 1 .. Len(log)
  <2>1. k \in Keys
    BY DEF Kept
  <2>2. PICK i \in 1 .. m : KeptAt(m, k, i)
    BY <2>1, KeyCases
  <2>3. dic[k].offset = Pos(log, i - 1) /\ i \in 1 .. Len(log)
    BY <2>2 DEF KeptAt, Offset, IsLatest
  <2>4. i - 1 \in 0 .. Len(log) /\ log \in Seq(Holding)
    BY <2>3, LenProperties DEF Good
  <2>5. Pos(log, i - 1) \in Nat
    BY <2>4, PosType
  <2> QED BY <2>2, <2>3, <2>5
<1>3. \A x, y \in Kept : f[x] = f[y] => x = y
  <2> SUFFICES ASSUME NEW x \in Kept, NEW y \in Kept, f[x] = f[y] PROVE x = y
    OBVIOUS
  <2>1. PICK i \in 1 .. m : KeptAt(m, x, i) /\ f[x] = Pos(log, i - 1) /\ i \in 1 .. Len(log)
    BY <1>2
  <2>2. PICK j \in 1 .. m : KeptAt(m, y, j) /\ f[y] = Pos(log, j - 1) /\ j \in 1 .. Len(log)
    BY <1>2
  <2> DEFINE a == i - 1
             b == j - 1
  <2>3. a \in 0 .. Len(log) /\ b \in 0 .. Len(log) /\ log \in Seq(Holding) /\ Pos(log, a) = Pos(log, b)
    BY <2>1, <2>2, LenProperties DEF Good
  <2> HIDE DEF a, b
  <2>4. a = b
    BY <2>3, PosOne
  <2>5. i = j
    BY <2>1, <2>2, <2>4 DEF a, b
  <2> QED BY <2>1, <2>2, <2>5 DEF KeptAt, IsLatest
<1>4. f \in [Kept -> Nat]
  BY <1>2
<1>5. \A k \in Kept : f[k] = dic[k].offset
  OBVIOUS
<1> HIDE DEF f
<1>6. \E ks \in SetToSeqs(Kept) : \A i, j \in 1 .. Len(ks) : i < j => f[ks[i]] < f[ks[j]]
  BY <1>1, <1>3, <1>4, Sorting
<1>7. \E ks \in SetToSeqs(Kept) : \A i, j \in 1 .. Len(ks) : i < j => dic[ks[i]].offset < dic[ks[j]].offset
  <2>1. PICK ks \in SetToSeqs(Kept) : \A i, j \in 1 .. Len(ks) : i < j => f[ks[i]] < f[ks[j]]
    BY <1>6
  <2>2. Names(ks, Kept)
    BY <1>1, SeqsName
  <2>3. \A i \in 1 .. Len(ks) : f[ks[i]] = dic[ks[i]].offset
    BY <1>5, <2>2 DEF Names
  <2> QED BY <2>1, <2>3
<1>8. /\ InOrder \in SetToSeqs(Kept)
      /\ \A i, j \in 1 .. Len(InOrder) : i < j => dic[InOrder[i]].offset < dic[InOrder[j]].offset
  BY <1>7 DEF InOrder
<1> QED BY <1>1, <1>8, SeqsName

\* A stretch of a stretch.
LEMMA SubSub ==
    ASSUME NEW t \in Seq(Byte), NEW o \in Nat, NEW a \in Nat, NEW n \in Nat, o + (a + n) <= Len(t)
    PROVE  SubSeq(SubSeq(t, o + 1, o + (a + n)), a + 1, a + n) = SubSeq(t, (o + a) + 1, (o + a) + n)
<1> DEFINE l == a + n
           x == SubSeq(t, o + 1, o + l)
           y == SubSeq(x, a + 1, a + n)
           p == o + a
           z == SubSeq(t, p + 1, p + n)
<1>1. l \in Nat /\ o + l <= Len(t) /\ p \in Nat /\ p + n <= Len(t)
  BY LenProperties
<1>2. \A i \in 1 .. n : a + i \in 1 .. l /\ o + (a + i) = p + i
  OBVIOUS
<1>3. l = a + n
  OBVIOUS
<1> HIDE DEF l, p
<1>4. x \in Seq(Byte) /\ Len(x) = l /\ \A i \in 1 .. l : x[i] = t[o + i]
  BY <1>1, SubSeqIs
<1>5. z \in Seq(Byte) /\ Len(z) = n /\ \A i \in 1 .. n : z[i] = t[p + i]
  BY <1>1, SubSeqIs
<1> HIDE DEF x, z
<1>6. y \in Seq(Byte) /\ Len(y) = n /\ \A i \in 1 .. n : y[i] = x[a + i]
  <2>1. x \in Seq(Byte) /\ a + n <= Len(x)
    BY <1>3, <1>4
  <2> QED BY ONLY <2>1, a \in Nat, n \in Nat, SubSeqIs
<1> HIDE DEF y
<1>7. \A i \in 1 .. Len(y) : y[i] = z[i]
  <2> SUFFICES ASSUME NEW i \in 1 .. n PROVE y[i] = z[i]
    BY <1>6
  <2> DEFINE q == a + i
             r == p + i
  <2>1. q \in 1 .. l /\ o + q = r
    BY <1>2, <1>3 DEF p
  <2>2. y[i] = x[q] /\ z[i] = t[r]
    BY <1>5, <1>6
  <2> HIDE DEF q, r
  <2>3. x[q] = t[o + q]
    BY <1>4, <2>1
  <2> QED BY <2>1, <2>2, <2>3
<1>8. y = z
  BY <1>5, <1>6, <1>7, SeqSame
<1> QED BY <1>8 DEF y, x, z, p, l

-----------------------------------------------------------------------------
\* A whole record, in the text.
LEMMA WholeRecord ==
    ASSUME NEW l \in Seq(Holding), NEW i \in 1 .. Len(l), NEW n, n = Len(Rec(l[i])),
           NEW o, o = Pos(l, i - 1)
    PROVE  /\ o \in Nat /\ n \in Nat /\ o + n <= Len(TextOf(l))
           /\ SubSeq(TextOf(l), o + 1, o + n) = Rec(l[i])
<1>1. IsRecord(Rec(l[i]), l[i].key, l[i].val) /\ l[i].key \in Keys /\ l[i].val \in Vals /\ n \in Nat
  BY PosNext
<1>2. SubSeq(Rec(l[i]), 1, Len(Rec(l[i]))) = Rec(l[i])
  BY <1>1, RecordParts
<1>3. i - 1 \in 0 .. Len(l)
  BY LenProperties
<1>4. o \in Nat
  BY <1>3, PosType
<1>5. ASSUME NEW a, a = 0
      PROVE  /\ o + n <= Len(TextOf(l))
             /\ SubSeq(TextOf(l), o + 1, o + n) = SubSeq(Rec(l[i]), a + 1, a + n)
  <2>1. a \in Nat /\ a + n <= Len(Rec(l[i])) /\ o = Pos(l, i - 1) + a
    BY <1>1, <1>4, <1>5
  <2> QED BY ONLY l \in Seq(Holding), i \in 1 .. Len(l), n \in Nat, <1>1, <2>1, RecordText, ZenonT(40)
<1>6. /\ o + n <= Len(TextOf(l))
      /\ SubSeq(TextOf(l), o + 1, o + n) = SubSeq(Rec(l[i]), 0 + 1, 0 + n)
  BY <1>5
<1>7. 0 + 1 = 1 /\ 0 + n = n
  BY <1>1
<1> QED BY <1>1, <1>2, <1>4, <1>6, <1>7

\* A holder that is kept: where its record is, and that it is as long as the
\* holder says.
LEMMA KeptIs ==
    ASSUME NEW m, Good(m), NEW k \in Kept
    PROVE  \E i \in 1 .. Len(log) :
              /\ i <= m /\ KeptAt(m, k, i) /\ k = log[i].key /\ k \in Keys
              /\ dic[k].offset = Pos(log, i - 1) /\ dic[k].offset \in Nat
              /\ dic[k].status = StatusAt(cipher, crypter.key, iv, dic[k].offset)
              /\ PairSize(dic[k]) = Len(Rec(log[i])) /\ PairSize(dic[k]) \in Nat
              /\ dic[k].keySize = Len(KeyText[k]) /\ dic[k].valSize = Len(log[i].val)
              /\ log[i].val # <<>> /\ isValueStoredAsOffset(Len(log[i].val))
              /\ Rec(log[i]) = Record(k, Latest(actual)[k]) /\ Latest(actual)[k] = log[i].val
<1>1. k \in Keys
  BY DEF Kept
<1>2. PICK i \in 1 .. m : KeptAt(m, k, i)
  BY <1>1, KeyCases
<1>3. /\ i \in 1 .. Len(log) /\ k = log[i].key /\ Latest(actual)[k] = log[i].val
      /\ log[i].val # <<>> /\ isValueStoredAsOffset(Len(log[i].val))
  BY <1>2 DEF KeptAt, IsLatest
<1> DEFINE o == Pos(log, i - 1)
           s == StatusAt(cipher, crypter.key, iv, o)
           n == Len(KeyText[k])
           l == Len(log[i].val)
<1>4. dic[k] = Offset(o, n, l, s)
  BY <1>2 DEF KeptAt
<1>5. log \in Seq(Holding) /\ i - 1 \in 0 .. Len(log)
  BY <1>3, LenProperties DEF Good
<1>6. o \in Nat
  BY <1>5, PosType
<1>7. Len(Rec(log[i])) = n + 2 + l /\ n \in Nat /\ l \in Nat
  <2>1. IsRecord(Rec(log[i]), log[i].key, log[i].val)
    BY <1>3, <1>5, PosNext
  <2> QED BY <1>3, <2>1 DEF IsRecord
<1>8. Rec(log[i]) = Record(k, Latest(actual)[k])
  BY <1>3 DEF Rec
<1> HIDE DEF o, s, n, l
<1>9. /\ dic[k].offset = o /\ dic[k].status = s /\ dic[k].keySize = n /\ dic[k].valSize = l
  BY <1>4 DEF Offset
<1>10. PairSize(dic[k]) = Len(Rec(log[i])) /\ PairSize(dic[k]) \in Nat
  BY <1>7, <1>9 DEF PairSize
<1>11. i <= m
  OBVIOUS
<1> QED BY <1>1, <1>2, <1>3, <1>6, <1>8, <1>9, <1>10, <1>11 DEF o, s, n, l

\* A section decrypts to the records in it: what memmoveDictionary and
\* doFullWriteBack encrypt again is each kept record.
LEMMA MovedIs ==
    ASSUME NEW m, Good(m), NEW i \in 1 .. Len(InOrder)
    PROVE  Moved(InOrder, i) = Record(InOrder[i], Latest(actual)[InOrder[i]])
<1> DEFINE ks == InOrder
           B == {j \in 1 .. i : Begins(ks, j)}
           P(j) == Begins(ks, j) /\ \A x \in j + 1 .. i : ~Begins(ks, x)
           c == CHOOSE j \in 1 .. i : P(j)
<1>1. Names(ks, Kept) /\ \A x, y \in 1 .. Len(ks) : x < y => dic[ks[x]].offset < dic[ks[y]].offset
  BY InOrderIs
<1>2. Len(ks) \in Nat
  BY <1>1 DEF Names
<1>3. c \in 1 .. i
  <2>1. 1 \in B
    BY <1>2 DEF Begins
  <2>2. PICK j \in B : \A y \in B : y <= j
    <3>1. B \subseteq 0 .. i /\ B # {} /\ i \in Nat
      BY <1>2, <2>1
    <3> QED BY <3>1, MaxIn
  <2>3. j \in 1 .. i /\ P(j)
    BY <2>2
  <2> QED BY <2>3
<1> HIDE DEF ks, B
<1> DEFINE h == dic[ks[i]]
           f == dic[ks[c]]
<1>4. c \in 1 .. Len(ks) /\ i \in 1 .. Len(ks) /\ ks[c] \in Kept /\ ks[i] \in Kept
  <2>1. c \in 1 .. Len(ks) /\ i \in 1 .. Len(ks)
    BY <1>2, <1>3 DEF ks
  <2> QED BY <1>1, <2>1 DEF Names
<1>5. Moved(ks, i) = SubSeq(Decrypt(Region(f.offset, h.offset + PairSize(h) - f.offset), f.status).out,
                            h.offset - f.offset + 1, h.offset + PairSize(h) - f.offset)
  BY DEF Moved
<1> HIDE DEF c
<1>6. PICK p \in 1 .. Len(log) :
        /\ f.offset = Pos(log, p - 1) /\ f.offset \in Nat
        /\ f.status = StatusAt(cipher, crypter.key, iv, f.offset)
  BY <1>4, KeptIs
<1>7. PICK q \in 1 .. Len(log) :
        /\ h.offset = Pos(log, q - 1) /\ h.offset \in Nat
        /\ PairSize(h) = Len(Rec(log[q])) /\ PairSize(h) \in Nat
        /\ Rec(log[q]) = Record(ks[i], Latest(actual)[ks[i]])
        /\ ks[i] \in Keys /\ Latest(actual)[ks[i]] = log[q].val
  BY <1>4, KeptIs
<1>8. f.offset <= h.offset
  <2>1. CASE c = i
    BY <1>6, <2>1
  <2>2. CASE c < i
    BY <1>1, <1>4, <1>6, <1>7, <2>2
  <2> QED BY <1>2, <1>3, <1>4, <2>1, <2>2
<1> DEFINE o == f.offset
           e == h.offset
           n == PairSize(h)
           a == e - o
           l == a + n
           t == TextOf(log)
           r == Rec(log[q])
<1>9. /\ o \in Nat /\ e \in Nat /\ n \in Nat /\ a \in Nat /\ l \in Nat
      /\ o + a = e /\ o + l = e + n /\ e + n - o = l /\ l = a + n
  BY <1>6, <1>7, <1>8, SMTT(30)
<1>10. log \in Seq(Holding) /\ IsCfb(cipher, t, crypter.key, iv)
  BY DEF Good
<1>11. n = Len(r) /\ e = Pos(log, q - 1) /\ f.status = StatusAt(cipher, crypter.key, iv, o)
  BY <1>6, <1>7
<1>12. /\ IsRecord(r, ks[i], log[q].val) /\ r = Record(ks[i], Latest(actual)[ks[i]])
  <2>1. IsRecord(r, log[q].key, log[q].val)
    BY <1>10, PosNext
  <2>2. log[q].val \in Vals
    BY <1>10, PosNext
  <2> QED BY <1>7, <2>2, RecordIs
<1>13. Moved(ks, i) = SubSeq(Decrypt(Region(o, l), f.status).out, a + 1, l)
  BY <1>5, <1>9
<1> HIDE DEF f, h, o, e, n, a, l, t, r
<1>14. e + n <= Len(t) /\ SubSeq(t, e + 1, e + n) = r
  <2>1. n = Len(Rec(log[q])) /\ e = Pos(log, q - 1)
    BY <1>11 DEF r
  <2>2. e + n <= Len(TextOf(log)) /\ SubSeq(TextOf(log), e + 1, e + n) = Rec(log[q])
    BY ONLY <1>10, <2>1, WholeRecord, q \in 1 .. Len(log)
  <2> QED BY <2>2 DEF t, r
<1>15. Len(t) = Len(cipher) /\ t \in Seq(Byte)
  BY <1>10 DEF IsCfb
<1>16. Decrypt(Region(o, l), f.status).out = SubSeq(t, o + 1, o + l)
  <2>1. o + l <= Len(cipher) /\ o \in Nat /\ l \in Nat
    BY <1>9, <1>14, <1>15
  <2>2. Decrypt(Region(o, l), StatusAt(cipher, crypter.key, iv, o))
          = [out |-> SubSeq(t, o + 1, o + l), status |-> StatusAt(cipher, crypter.key, iv, o + l)]
    <3>1. PieceRead(t, crypter.key, iv, o, l)
      BY ONLY <1>10, <2>1, ReadAt
    <3> QED BY ONLY <3>1 DEF PieceRead
  <2> DEFINE y == SubSeq(t, o + 1, o + l)
             w == StatusAt(cipher, crypter.key, iv, o + l)
             d == Decrypt(Region(o, l), StatusAt(cipher, crypter.key, iv, o))
  <2>3. d = [out |-> y, status |-> w]
    BY <2>2
  <2>4. d = Decrypt(Region(o, l), f.status)
    BY <1>11
  <2> HIDE DEF y, w, d
  <2>5. d.out = y
    BY <2>3
  <2> QED BY <2>4, <2>5 DEF y
<1>17. Moved(ks, i) = SubSeq(SubSeq(t, o + 1, o + (a + n)), a + 1, a + n)
  BY <1>9, <1>13, <1>16
<1>18. SubSeq(SubSeq(t, o + 1, o + (a + n)), a + 1, a + n) = SubSeq(t, (o + a) + 1, (o + a) + n)
  <2>1. o + (a + n) <= Len(t)
    BY <1>9, <1>14
  <2> QED BY ONLY <1>9, <1>15, <2>1, SubSub
<1>19. Moved(ks, i) = r
  BY <1>9, <1>14, <1>17, <1>18
<1> QED BY <1>12, <1>19 DEF ks

-----------------------------------------------------------------------------
\* The encrypter has made x of the text t: the stream so far, and its status.
Sealed(x, t, ck, v) ==
    /\ x \in [out : Seq(Byte), status : Status] /\ IsCfb(x.out, t, ck, v)
    /\ x.status = StatusAt(x.out, ck, v, Len(x.out))

\* One more piece.
Goes(x, p) ==
    LET e == Encrypt(p, x.status) IN [out |-> x.out \o e.out, status |-> e.status]

\* The pieces of a rewritten region: the size holder and the records of l.
PiecesOf(p, l) ==
    /\ Len(p) = Len(l) + 1 /\ p[1] = SizeHolder
    /\ \A i \in 1 .. Len(l) : p[i + 1] = Rec(l[i])

\* Each call of the encrypter continues the stream and keeps what it has.
LEMMA SealedNext ==
    ASSUME NEW x, NEW t, NEW ck, NEW v, Sealed(x, t, ck, v), NEW p \in Seq(Byte)
    PROVE  /\ Sealed(Goes(x, p), t \o p, ck, v) /\ Goes(x, p) \in [out : Seq(Byte), status : Status]
           /\ Len(x.out) <= Len(Goes(x, p).out) /\ Agree(x.out, Goes(x, p).out, Len(x.out))
<1> DEFINE c == x.out
           s == StatusAt(c, ck, v, Len(c))
           e == Encrypt(p, s)
           b == e.out
           w == c \o b
           z == e.status
           y == [out |-> w, status |-> z]
           n == Len(c)
           m == Len(p)
           u == t \o p
<1>1. IsCfb(c, t, ck, v) /\ x.status = s
  BY DEF Sealed
<1>2. /\ b \in Seq(Byte) /\ Len(b) = m /\ IsCfb(w, u, ck, v) /\ z = StatusAt(w, ck, v, n + m)
  <2>1. LET f == Encrypt(p, StatusAt(c, ck, v, Len(c))) IN
        /\ f.out \in Seq(Byte) /\ Len(f.out) = Len(p)
        /\ IsCfb(c \o f.out, t \o p, ck, v)
        /\ f.status = StatusAt(c \o f.out, ck, v, Len(c) + Len(p))
    BY ONLY <1>1, p \in Seq(Byte), EncryptIs
  <2> QED BY <2>1
<1>3. Goes(x, p) = y
  BY <1>1 DEF Goes
<1>4. c \in Seq(Byte) /\ n \in Nat /\ m \in Nat /\ ck \in CryptKeys /\ v \in Block
  BY <1>1, LenProperties DEF IsCfb
<1> HIDE DEF b, n, m, s, u, z
<1>5. Joins(w, c, b, n, m)
  <2>1. c \in Seq(Byte) /\ b \in Seq(Byte) /\ n \in Nat /\ m \in Nat /\ Len(c) = n /\ Len(b) = m
    BY <1>2, <1>4 DEF n
  <2> HIDE DEF c
  <2> QED BY ONLY <2>1, JoinsIs
<1> HIDE DEF w, e, c
<1>6. w \in Seq(Byte) /\ Len(w) = n + m /\ Agree(c, w, n)
  BY <1>5 DEF Joins, Agree
<1>7. z \in Status
  <2>1. n + m \in 0 .. Len(w)
    BY <1>4, <1>6
  <2> QED BY <1>2, <1>4, <1>6, <2>1, StatusType
<1>8. y \in [out : Seq(Byte), status : Status] /\ y.out = w /\ y.status = z
  BY <1>6, <1>7
<1> HIDE DEF y
<1>9. Sealed(y, u, ck, v)
  BY <1>2, <1>6, <1>8 DEF Sealed
<1>10. n <= Len(w)
  BY <1>4, <1>6
<1> QED BY <1>3, <1>6, <1>8, <1>9, <1>10 DEF u, n, c

\* Nothing encrypted is the encryption of nothing.
LEMMA SealedFirst ==
    ASSUME NEW ck \in CryptKeys, NEW v \in Block
    PROVE  /\ IsCfb(<<>>, <<>>, ck, v)
           /\ Sealed([out |-> <<>>, status |-> Reset(ck, v)], <<>>, ck, v)
<1>1. <<>> \in Seq(Byte) /\ Len(<<>>) = 0
  BY EmptySeq
<1>2. IsCfb(<<>>, <<>>, ck, v)
  <2>1. \A b \in Nat, r \in 0 .. BlockLen - 1 : ~ (Base(b) + r < 0)
    BY BaseNat, BlockAssumption
  <2> QED BY <1>1, <2>1 DEF IsCfb
<1>3. Reset(ck, v) = StatusAt(<<>>, ck, v, 0)
  BY StatusAtStart
<1>4. Reset(ck, v) \in Status
  <2> DEFINE c == <<>>
  <2>1. 0 \in 0 .. Len(c) /\ c \in Seq(Byte)
    BY <1>1
  <2> HIDE DEF c
  <2>2. StatusAt(c, ck, v, 0) \in Status
    BY ONLY <2>1, StatusType, ck \in CryptKeys, v \in Block
  <2> QED BY <1>3, <2>2 DEF c
<1> DEFINE x == [out |-> <<>>, status |-> Reset(ck, v)]
<1>5. x \in [out : Seq(Byte), status : Status] /\ x.out = <<>> /\ x.status = Reset(ck, v)
  BY <1>1, <1>4
<1> HIDE DEF x
<1>6. Sealed(x, <<>>, ck, v)
  BY <1>1, <1>2, <1>3, <1>5 DEF Sealed
<1> QED BY <1>2, <1>6 DEF x

\* The encrypter's calls, one by one.
AllRun(f, pieces, s) ==
    f = [i \in 0 .. Len(pieces) |->
            IF i = 0 THEN [out |-> <<>>, status |-> s]
            ELSE LET before == f[i - 1]
                     e == Encrypt(pieces[i], before.status)
                 IN  [out |-> before.out \o e.out, status |-> e.status]]

\* EncryptAll, as its values.
LEMMA EncryptAllRuns ==
    ASSUME NEW ck \in CryptKeys, NEW v \in Block, NEW pieces \in Seq(Seq(Byte))
    PROVE  LET f == EncryptAll(pieces, Reset(ck, v)) IN
           /\ f[0] = [out |-> <<>>, status |-> Reset(ck, v)]
           /\ \A i \in 1 .. Len(pieces) : f[i] = Goes(f[i - 1], pieces[i])
<1> DEFINE X == {x \in [out : Seq(Byte), status : Status] : \E t \in Seq(Byte) : Sealed(x, t, ck, v)}
           n == Len(pieces)
           base == [out |-> <<>>, status |-> Reset(ck, v)]
           g == [i \in Nat |-> [x \in X |-> IF i \in 1 .. n THEN Goes(x, pieces[i]) ELSE x]]
<1>1. n \in Nat
  BY LenProperties
<1>2. base \in X
  <2>1. Sealed(base, <<>>, ck, v) /\ <<>> \in Seq(Byte)
    BY SealedFirst, EmptySeq
  <2> QED BY <2>1 DEF Sealed
<1>3. ASSUME NEW i \in 1 .. n, NEW x \in X PROVE Goes(x, pieces[i]) \in X
  <2>1. pieces[i] \in Seq(Byte)
    BY ElementOfSeq
  <2>2. PICK t \in Seq(Byte) : Sealed(x, t, ck, v)
    OBVIOUS
  <2> DEFINE y == Goes(x, pieces[i])
             u == t \o pieces[i]
  <2>3. Sealed(y, u, ck, v) /\ y \in [out : Seq(Byte), status : Status]
    BY <2>1, <2>2, SealedNext
  <2>4. u \in Seq(Byte)
    BY <2>1, ConcatProperties
  <2> QED BY <2>3, <2>4
<1> HIDE DEF X, base
<1>4. g \in [Nat -> [X -> X]]
  <2> SUFFICES ASSUME NEW i \in Nat, NEW x \in X
               PROVE  (IF i \in 1 .. n THEN Goes(x, pieces[i]) ELSE x) \in X
    OBVIOUS
  <2> QED BY <1>3
<1>5. PICK f \in [0 .. n -> X] : GoesOn(f, n, base, g)
  <2> HIDE DEF g, n
  <2> QED BY <1>1, <1>2, <1>4, Recursion
<1>6. f = [i \in 0 .. n |-> f[i]]
  OBVIOUS
<1>7. f[0] = base /\ \A i \in 1 .. n : f[i] = Goes(f[i - 1], pieces[i])
  <2>1. f[0] = base /\ \A i \in 1 .. n : f[i] = g[i][f[i - 1]]
    BY <1>5 DEF GoesOn
  <2>2. ASSUME NEW i \in 1 .. n PROVE f[i] = Goes(f[i - 1], pieces[i])
    <3>1. i - 1 \in 0 .. n /\ i \in Nat
      BY <1>1
    <3>2. f[i - 1] \in X
      BY <1>5, <3>1
    <3> QED BY <2>1, <3>1, <3>2
  <2> QED BY <2>1, <2>2
<1>8. AllRun(f, pieces, Reset(ck, v))
  <2>1. ASSUME NEW i \in 0 .. n
        PROVE  f[i] = IF i = 0 THEN [out |-> <<>>, status |-> Reset(ck, v)]
                      ELSE LET before == f[i - 1]
                               e == Encrypt(pieces[i], before.status)
                           IN  [out |-> before.out \o e.out, status |-> e.status]
    <3>1. CASE i = 0
      BY <1>7, <3>1 DEF base
    <3>2. CASE i \in 1 .. n
      <4>1. f[i] = Goes(f[i - 1], pieces[i]) /\ i # 0
        BY <1>1, <1>7, <3>2
      <4> HIDE DEF g, n
      <4> QED BY ONLY <4>1 DEF Goes
    <3>3. i = 0 \/ i \in 1 .. n
      BY <1>1
    <3> QED BY <3>1, <3>2, <3>3
  <2> QED BY <1>6, <2>1 DEF AllRun
<1> DEFINE h == EncryptAll(pieces, Reset(ck, v))
<1>9. AllRun(h, pieces, Reset(ck, v))
  <2>1. h = CHOOSE y : AllRun(y, pieces, Reset(ck, v))
    BY DEF EncryptAll, AllRun
  <2> QED BY <1>8, <2>1
<1>10. h = [i \in 0 .. n |-> IF i = 0 THEN base ELSE Goes(h[i - 1], pieces[i])]
  BY <1>9 DEF AllRun, Goes, base
<1> HIDE DEF h, g
<1>11. h[0] = base /\ \A i \in 1 .. n : h[i] = Goes(h[i - 1], pieces[i])
  <2>1. 0 \in 0 .. n
    BY <1>1
  <2>2. \A i \in 1 .. n : i \in 0 .. n /\ i # 0
    BY <1>1
  <2> QED BY <1>10, <2>1, <2>2
<1> QED BY <1>11 DEF h, base

-----------------------------------------------------------------------------
\* What a rewrite encrypts: the text of its records, and at every piece the
\* encrypter's length and status are those of the record's place.
LEMMA EncryptAllIs ==
    ASSUME NEW ck \in CryptKeys, NEW v \in Block, NEW l \in Seq(Holding),
           NEW pieces \in Seq(Seq(Byte)), PiecesOf(pieces, l),
           NEW f, f = EncryptAll(pieces, Reset(ck, v))
    PROVE  /\ Sealed(f[Len(l) + 1], Through(l)[Len(l)], ck, v)
           /\ \A i \in 0 .. Len(l) :
                 /\ Len(f[i + 1].out) = Pos(l, i)
                 /\ f[i + 1].status = StatusAt(f[Len(l) + 1].out, ck, v, Pos(l, i))
<1> DEFINE n == Len(l)
           last == n + 1
           s == [i \in 0 .. n |-> f[i + 1]]
<1>1. n \in Nat /\ Len(pieces) = last
  BY LenProperties DEF PiecesOf
<1>2. /\ f[0] = [out |-> <<>>, status |-> Reset(ck, v)]
      /\ \A i \in 1 .. last : f[i] = Goes(f[i - 1], pieces[i])
  BY <1>1, EncryptAllRuns
<1>3. s[0] = Goes([out |-> <<>>, status |-> Reset(ck, v)], SizeHolder)
  <2>1. 1 \in 1 .. last /\ 1 - 1 = 0 /\ 0 + 1 = 1 /\ 0 \in 0 .. n
    BY <1>1
  <2>2. f[1] = Goes(f[0], pieces[1])
    BY <1>2, <2>1
  <2>3. pieces[1] = SizeHolder
    BY DEF PiecesOf
  <2> QED BY <1>2, <2>1, <2>2, <2>3
<1>4. ASSUME NEW d \in 0 .. n - 1 PROVE s[d + 1] = Goes(s[d], Rec(l[d + 1]))
  <2> DEFINE e == d + 1
             k == e + 1
  <2>1. e \in 1 .. n /\ k \in 1 .. last /\ k - 1 = e /\ e \in 0 .. n /\ d \in 0 .. n
    BY <1>1
  <2>2. f[k] = Goes(f[e], pieces[k])
    BY <1>2, <2>1
  <2>3. pieces[k] = Rec(l[e])
    BY <2>1 DEF PiecesOf
  <2>4. s[e] = f[k] /\ s[d] = f[e]
    BY <2>1
  <2> HIDE DEF s, e, k
  <2>5. s[e] = Goes(s[d], Rec(l[e]))
    BY <2>2, <2>3, <2>4
  <2> QED BY <2>5 DEF e
<1>5. \A i \in 0 .. n : s[i] = f[i + 1]
  OBVIOUS
<1> HIDE DEF s, n, last
<1>6. \A i \in 0 .. n : Sealed(s[i], Through(l)[i], ck, v)
  <2> DEFINE S == {i \in 0 .. n : Sealed(s[i], Through(l)[i], ck, v)}
  <2>1. 0 \in S
    <3> DEFINE x == [out |-> <<>>, status |-> Reset(ck, v)]
    <3>1. Sealed(x, <<>>, ck, v)
      BY SealedFirst
    <3>2. SizeHolder \in Seq(Byte) /\ Through(l)[0] = SizeHolder
      <4>1. Through(l)[0] = SizeHolder
        BY ThroughIs
      <4>2. 1 \in Byte
        BY CryptAssumption
      <4>3. SizeHolder \in Seq(Byte)
        BY ONLY <4>2 DEF SizeHolder
      <4> QED BY <4>1, <4>3
    <3> HIDE DEF x
    <3>3. Sealed(Goes(x, SizeHolder), <<>> \o SizeHolder, ck, v)
      BY <3>1, <3>2, SealedNext
    <3>4. <<>> \o SizeHolder = SizeHolder
      BY DEF SizeHolder
    <3>5. s[0] = Goes(x, SizeHolder)
      BY <1>3 DEF x
    <3>6. Sealed(s[0], Through(l)[0], ck, v)
      BY <3>2, <3>3, <3>4, <3>5
    <3> QED BY <1>1, <3>6
  <2>2. ASSUME NEW d \in 0 .. n - 1, d \in S PROVE d + 1 \in S
    <3> DEFINE e == d + 1
    <3>1. e \in 1 .. n /\ e \in 0 .. n /\ e - 1 = d /\ e \in 1 .. Len(l)
      BY <1>1 DEF n
    <3>2. Sealed(s[d], Through(l)[d], ck, v)
      BY <2>2
    <3>3. s[e] = Goes(s[d], Rec(l[e]))
      BY <1>4
    <3> HIDE DEF e, S
    <3>4. Through(l)[e] = Through(l)[d] \o Rec(l[e])
      BY <3>1, ThroughIs
    <3>5. Rec(l[e]) \in Seq(Byte)
      <4>1. IsRecord(Rec(l[e]), l[e].key, l[e].val)
        BY <3>1, PosNext
      <4> QED BY <4>1 DEF IsRecord
    <3>6. Sealed(s[e], Through(l)[e], ck, v)
      BY <3>2, <3>3, <3>4, <3>5, SealedNext
    <3>7. e \in S
      BY <3>1, <3>6 DEF S
    <3> QED BY <3>7 DEF e
  <2> HIDE DEF S
  <2>3. \A i \in 0 .. n : i \in S
    BY <1>1, <2>1, <2>2, UpTo
  <2> QED BY <2>3 DEF S
<1>7. ASSUME NEW i \in 0 .. n PROVE Agree(s[i].out, s[n].out, Len(s[i].out)) /\ Len(s[i].out) <= Len(s[n].out)
  <2> DEFINE p == n - i
             y(d) == s[i + d].out
             b == Len(s[i].out)
             S == {d \in 0 .. p : Agree(y(0), y(d), b) /\ b <= Len(y(d))}
  <2>0. p \in Nat /\ i + p = n /\ i + 0 = i
    BY <1>1
  <2>a. b \in Nat
    <3>1. IsCfb(s[i].out, Through(l)[i], ck, v)
      BY <1>6 DEF Sealed
    <3> QED BY <3>1, LenProperties DEF IsCfb
  <2>1. 0 \in S
    BY <2>0, <2>a DEF Agree
  <2>2. ASSUME NEW d \in 0 .. p - 1, d \in S PROVE d + 1 \in S
    <3> DEFINE e == d + 1
               g == i + d
               h == i + e
    <3>1. e \in 0 .. p /\ g \in 0 .. n - 1 /\ g \in 0 .. n /\ h = g + 1 /\ h \in 1 .. Len(l)
      BY <1>1, <2>0 DEF n
    <3>2. Agree(y(0), s[g].out, b) /\ b <= Len(s[g].out)
      BY <2>2
    <3>3. s[h] = Goes(s[g], Rec(l[h]))
      BY <1>4, <3>1
    <3> HIDE DEF e, S, g, h, b
    <3>4. Sealed(s[g], Through(l)[g], ck, v)
      BY <1>6, <3>1
    <3>5. Rec(l[h]) \in Seq(Byte)
      <4>1. IsRecord(Rec(l[h]), l[h].key, l[h].val)
        BY <3>1, PosNext
      <4> QED BY <4>1 DEF IsRecord
    <3>6. Len(s[g].out) <= Len(s[h].out) /\ Agree(s[g].out, s[h].out, Len(s[g].out))
      BY <3>3, <3>4, <3>5, SealedNext
    <3>7. Len(s[g].out) \in Nat /\ Len(s[h].out) \in Nat
      <4>1. Sealed(s[h], Through(l)[h], ck, v)
        <5>1. h \in 0 .. n
          BY <1>1, <3>1 DEF n
        <5> QED BY <1>6, <5>1
      <4> QED BY <3>4, <4>1, LenProperties DEF Sealed
    <3>8. Agree(y(0), s[h].out, b) /\ b <= Len(s[h].out)
      <4> DEFINE a == y(0)
                 w == s[g].out
                 z == s[h].out
                 q == Len(w)
      <4>1. Agree(a, w, b) /\ b <= q /\ Agree(w, z, q) /\ q \in Nat /\ b \in Nat /\ Len(z) \in Nat /\ q <= Len(z)
        BY <2>a, <3>2, <3>6, <3>7 DEF b
      <4> HIDE DEF a, w, z, q
      <4>2. Agree(a, z, b) /\ b <= Len(z)
        BY ONLY <4>1 DEF Agree
      <4> QED BY <4>2 DEF a, z
    <3>9. e \in S
      BY <3>1, <3>8 DEF S, h, b
    <3> QED BY <3>9 DEF e
  <2> HIDE DEF S, p
  <2>3. \A d \in 0 .. p : d \in S
    BY <2>0, <2>1, <2>2, UpTo
  <2>4. p \in S
    BY <2>0, <2>3
  <2> QED BY <2>0, <2>4 DEF S
<1>8. n \in 0 .. n /\ s[n] = f[Len(l) + 1]
  BY <1>1, <1>5 DEF n
<1>9. ASSUME NEW i \in 0 .. n
      PROVE  Len(s[i].out) = Pos(l, i) /\ s[i].status = StatusAt(s[n].out, ck, v, Pos(l, i))
  <2>1. Sealed(s[i], Through(l)[i], ck, v)
    BY <1>6
  <2> DEFINE a == s[i].out
             z == s[n].out
             b == Len(a)
  <2>2. b = Pos(l, i) /\ b \in Nat /\ s[i].status = StatusAt(a, ck, v, b)
    BY <2>1, LenProperties DEF Sealed, IsCfb, Pos
  <2>3. Agree(a, z, b)
    BY <1>7
  <2> HIDE DEF a, z, b
  <2>4. StatusAt(a, ck, v, b) = StatusAt(z, ck, v, b)
    <3>1. b \in 0 .. b
      BY <2>2
    <3> QED BY <2>2, <2>3, <3>1, StatusAgree
  <2> QED BY <2>2, <2>4 DEF a, z, b
<1>10. Sealed(s[n], Through(l)[n], ck, v)
  BY <1>6, <1>8
<1> QED BY <1>5, <1>8, <1>9, <1>10 DEF n

-----------------------------------------------------------------------------
\* The keys a rewrite writes: the kept ones in order and then the others.
KeyAt(ps, i) == IF i <= Len(InOrder) THEN InOrder[i] ELSE ps[i - Len(InOrder)]

\* The log of the rewritten region.
Written(ps) ==
    [i \in 1 .. Len(InOrder) + Len(ps) |->
        [key |-> KeyAt(ps, i), val |-> Latest(actual)[KeyAt(ps, i)]]]

\* What a rewrite encrypts, piece by piece.
Pieces(ps) ==
    <<SizeHolder>> \o [i \in 1 .. Len(InOrder) |-> Moved(InOrder, i)]
    \o [i \in 1 .. Len(ps) |-> Record(ps[i], dic[ps[i]].val)]

\* A key that has a value: one record of the log is its latest.
HasLatest(m, k) ==
    \E i \in 1 .. Len(log) :
        /\ i <= m /\ k \in Keys /\ k = log[i].key /\ Latest(actual)[k] = log[i].val
        /\ log[i].val # <<>> /\ log[i].val \in Vals
        /\ (k \in Kept => isValueStoredAsOffset(Len(log[i].val)) /\ dic[k].keySize = Len(KeyText[k])
                            /\ dic[k].valSize = Len(log[i].val))
        /\ (k \in Prepared => k \notin Kept /\ dic[k] = Direct(log[i].val)
                                /\ ~ isValueStoredAsOffset(Len(log[i].val)))

\* A key that is kept or prepared has a latest record, another has no holder.
LEMMA ValuedKey ==
    ASSUME NEW m, Good(m), NEW k \in Keys
    PROVE  /\ k \in Kept \cup Prepared => HasLatest(m, k)
           /\ k \notin Kept \cup Prepared => dic[k] = NoHolder
<1>0. log \in Seq(Holding)
  BY DEF Good
<1>1. CASE k \in Kept
  <2>1. PICK i \in 1 .. Len(log) :
              /\ i <= m /\ k = log[i].key /\ k \in Keys
              /\ dic[k].keySize = Len(KeyText[k]) /\ dic[k].valSize = Len(log[i].val)
              /\ log[i].val # <<>> /\ isValueStoredAsOffset(Len(log[i].val))
              /\ Latest(actual)[k] = log[i].val
    BY <1>1, KeptIs
  <2>2. log[i].val \in Vals
    BY <1>0, PosNext
  <2>3. k \notin Prepared
    BY <1>1 DEF Kept, Prepared
  <2>4. HasLatest(m, k)
    BY <2>1, <2>2, <2>3 DEF HasLatest
  <2> QED BY <1>1, <2>4
<1>2. CASE k \in Prepared
  <2>1. k \notin Kept
    BY <1>2 DEF Kept, Prepared
  <2>2. dic[k] # NoHolder /\ k \in Keys
    BY <1>2 DEF Prepared, NoHolder
  <2>3. PICK i \in 1 .. m : PreparedAt(m, k, i)
    BY <1>2, <2>1, <2>2, KeyCases
  <2>4. /\ i \in 1 .. Len(log) /\ k = log[i].key /\ log[i].val # <<>>
        /\ Latest(actual)[k] = log[i].val /\ dic[k] = Direct(log[i].val)
    BY <2>3 DEF PreparedAt, IsLatest
  <2>5. log[i].val \in Vals
    BY <1>0, <2>4, PosNext
  <2>6. ~ isValueStoredAsOffset(Len(log[i].val))
    <3>1. IsLast(log, m, k, i)
      BY <2>3 DEF PreparedAt, IsLatest
    <3>2. HolderIs(dic[k], k, m, log, cipher, crypter.key, iv)
      BY <2>2 DEF Good, AllHeld
    <3>3. PICK j \in 1 .. m : IsLast(log, m, k, j) /\ dic[k] = HolderOf(log, j, k, cipher, crypter.key, iv)
      BY <2>2, <3>2 DEF HolderIs
    <3>4. j = i
      <4>1. m \in Nat
        BY LenProperties DEF Good, Stands
      <4> QED BY <3>1, <3>3, <4>1 DEF IsLast
    <3>5. dic[k].type = "direct"
      BY <2>4 DEF Direct
    <3> DEFINE x == log[i].val
               o == Pos(log, i - 1)
               s == StatusAt(cipher, crypter.key, iv, o)
    <3>6. dic[k] = NewHolder(k, x, o, s)
      BY <3>3, <3>4 DEF HolderOf
    <3>7. x # <<>>
      BY <2>4
    <3> HIDE DEF x, o, s
    <3>8. ~ isValueStoredAsOffset(Len(x))
      <4>1. Offset(o, Len(KeyText[k]), Len(x), s).type = "offset"
        BY DEF Offset
      <4> QED BY <3>5, <3>6, <3>7, <4>1 DEF NewHolder
    <3> QED BY <3>8 DEF x
  <2>7. i <= m
    BY <2>3
  <2>8. HasLatest(m, k)
    BY <2>1, <2>2, <2>4, <2>5, <2>6, <2>7 DEF HasLatest
  <2> QED BY <1>2, <2>8
<1>3. CASE k \notin Kept \cup Prepared
  BY <1>3, KeyCases
<1> QED BY <1>1, <1>2, <1>3

\* The log of a rewritten region: every key that has a value, once.
LEMMA WrittenIs ==
    ASSUME NEW m, Good(m), NEW ps \in SetToSeqs(Prepared)
    PROVE  LET l == Written(ps) IN
           /\ l \in Seq(Holding) /\ Len(l) = Len(InOrder) + Len(ps)
           /\ Len(InOrder) \in Nat /\ Len(ps) \in Nat
           /\ Names(InOrder, Kept) /\ Names(ps, Prepared)
           /\ \A i \in 1 .. Len(l) :
                 /\ l[i].key = KeyAt(ps, i) /\ l[i].val = Latest(actual)[KeyAt(ps, i)]
                 /\ KeyAt(ps, i) \in Kept \cup Prepared /\ HasLatest(m, KeyAt(ps, i))
           /\ \A i, j \in 1 .. Len(l) : l[i].key = l[j].key => i = j
           /\ \A k \in Kept \cup Prepared : \E i \in 1 .. Len(l) : l[i].key = k
<1> DEFINE l == Written(ps)
           n == Len(InOrder)
           p == Len(ps)
           K(i) == KeyAt(ps, i)
<1>1. Names(InOrder, Kept)
  BY InOrderIs
<1>2. Names(ps, Prepared)
  <2>1. IsFiniteSet(Prepared)
    <3>1. Prepared \in SUBSET Keys
      BY DEF Prepared
    <3> QED BY <3>1, CryptAssumption, FS_Subset
  <2> QED BY <2>1, SeqsName
<1>3. n \in Nat /\ p \in Nat
  BY <1>1, <1>2 DEF Names
<1>4. Kept \cap Prepared = {} /\ Kept \cup Prepared \subseteq Keys
  BY DEF Kept, Prepared
<1>5. ASSUME NEW i \in 1 .. n + p
      PROVE  \/ i \in 1 .. n /\ K(i) = InOrder[i] /\ K(i) \in Kept
             \/ i - n \in 1 .. p /\ K(i) = ps[i - n] /\ K(i) \in Prepared
  <2>1. CASE i <= n
    <3>1. i \in 1 .. n /\ K(i) = InOrder[i]
      BY <1>3, <2>1 DEF KeyAt
    <3> QED BY <1>1, <3>1 DEF Names
  <2>2. CASE ~ (i <= n)
    <3> DEFINE j == i - n
    <3>1. j \in 1 .. p /\ K(i) = ps[j]
      BY <1>3, <2>2 DEF KeyAt
    <3> HIDE DEF j
    <3>2. ps[j] \in Prepared
      BY <1>2, <3>1 DEF Names
    <3> QED BY <3>1, <3>2 DEF j
  <2> QED BY <2>1, <2>2
<1>6. ASSUME NEW i \in 1 .. n + p
      PROVE  K(i) \in Kept \cup Prepared /\ K(i) \in Keys /\ HasLatest(m, K(i))
  <2>1. K(i) \in Kept \cup Prepared /\ K(i) \in Keys
    BY <1>4, <1>5
  <2> HIDE DEF K
  <2> QED BY <2>1, ValuedKey
<1>7. \A i \in 1 .. n + p : l[i] = [key |-> K(i), val |-> Latest(actual)[K(i)]]
  BY DEF Written
<1> HIDE DEF K
<1>8. ASSUME NEW i \in 1 .. n + p PROVE l[i].key = K(i) /\ l[i].val = Latest(actual)[K(i)]
  <2> HIDE DEF l, n, p
  <2> DEFINE a == K(i)
             b == Latest(actual)[K(i)]
  <2>1. l[i] = [key |-> a, val |-> b]
    BY <1>7
  <2> HIDE DEF a, b
  <2>2. l[i].key = a /\ l[i].val = b
    BY <2>1
  <2> QED BY <2>2 DEF a, b
<1>9. \A i \in 1 .. n + p : l[i] \in Holding
  <2> SUFFICES ASSUME NEW i \in 1 .. n + p PROVE l[i] \in Holding
    OBVIOUS
  <2>1. K(i) \in Keys /\ Latest(actual)[K(i)] \in Vals
    BY <1>6 DEF HasLatest
  <2> DEFINE a == K(i)
             b == Latest(actual)[K(i)]
  <2>2. l[i] = [key |-> a, val |-> b]
    BY <1>7
  <2>3. a \in Keys /\ b \in Vals
    BY <2>1
  <2> HIDE DEF a, b, l, n, p
  <2> QED BY <2>2, <2>3 DEF Holding
<1>10. l \in Seq(Holding) /\ Len(l) = n + p
  <2>1. n + p \in Nat
    BY <1>3
  <2>2. l = [i \in 1 .. n + p |-> l[i]]
    BY DEF Written
  <2> DEFINE q == n + p
  <2> HIDE DEF l, q
  <2>3. l \in [1 .. q -> Holding] /\ q \in Nat
    BY <1>9, <2>1, <2>2 DEF q
  <2>4. l \in Seq(Holding) /\ Len(l) = q
    BY ONLY <2>3, IsASeq
  <2> QED BY <2>4 DEF q
<1>11. ASSUME NEW i \in 1 .. n + p, NEW j \in 1 .. n + p, K(i) = K(j) PROVE i = j
  <2>1. CASE i \in 1 .. n /\ K(i) = InOrder[i] /\ K(i) \in Kept
    <3>1. j \in 1 .. n /\ K(j) = InOrder[j]
      BY <1>4, <1>5, <1>11, <2>1
    <3> QED BY <1>1, <1>11, <2>1, <3>1 DEF Names
  <2>2. CASE i - n \in 1 .. p /\ K(i) = ps[i - n] /\ K(i) \in Prepared
    <3>1. j - n \in 1 .. p /\ K(j) = ps[j - n]
      BY <1>4, <1>5, <1>11, <2>2
    <3> DEFINE a == i - n
               b == j - n
    <3>2. a \in 1 .. p /\ b \in 1 .. p /\ ps[a] = ps[b]
      BY <1>11, <2>2, <3>1
    <3> HIDE DEF a, b
    <3>3. a = b
      BY <1>2, <3>2 DEF Names
    <3> QED BY <1>3, <3>3 DEF a, b
  <2> QED BY <1>5, <2>1, <2>2
<1>12. ASSUME NEW k \in Kept \cup Prepared PROVE \E i \in 1 .. n + p : K(i) = k
  <2>1. CASE k \in Kept
    <3>1. PICK i \in 1 .. n : InOrder[i] = k
      BY <1>1, <2>1 DEF Names
    <3>2. i \in 1 .. n + p /\ i <= n
      BY <1>3
    <3>3. K(i) = k
      BY <3>1, <3>2 DEF K, KeyAt
    <3> QED BY <3>2, <3>3
  <2>2. CASE k \in Prepared
    <3>1. PICK j \in 1 .. p : ps[j] = k
      BY <1>2, <2>2 DEF Names
    <3> DEFINE i == n + j
    <3>2. i \in 1 .. n + p /\ ~ (i <= n) /\ i - n = j
      BY <1>3
    <3> HIDE DEF i
    <3>3. K(i) = k
      BY <3>1, <3>2 DEF K, KeyAt
    <3> QED BY <3>2, <3>3
  <2> QED BY <2>1, <2>2
<1> HIDE DEF l
<1>13. \A i \in 1 .. n + p :
          /\ l[i].key = KeyAt(ps, i) /\ l[i].val = Latest(actual)[KeyAt(ps, i)]
          /\ KeyAt(ps, i) \in Kept \cup Prepared /\ HasLatest(m, KeyAt(ps, i))
  BY <1>6, <1>8 DEF K
<1>14. \A i, j \in 1 .. n + p : l[i].key = l[j].key => i = j
  BY <1>8, <1>11
<1>15. \A k \in Kept \cup Prepared : \E i \in 1 .. n + p : l[i].key = k
  BY <1>8, <1>12
<1> QED BY <1>1, <1>2, <1>3, <1>10, <1>13, <1>14, <1>15 DEF l

-----------------------------------------------------------------------------
\* The same for sequences over any set.
JoinsIn(S, w, s, t, m, n) ==
    /\ w \in Seq(S) /\ Len(w) = m + n
    /\ \A i \in 1 .. m : w[i] = s[i]
    /\ \A i \in 1 .. n : w[m + i] = t[i]

\* Concatenation in any set of sequences, as one fact.
LEMMA JoinsInIs ==
    ASSUME NEW S, NEW s \in Seq(S), NEW t \in Seq(S), NEW m \in Nat, NEW n \in Nat,
           Len(s) = m, Len(t) = n
    PROVE  JoinsIn(S, s \o t, s, t, m, n)
<1> DEFINE w == s \o t
<1>1. /\ w \in Seq(S) /\ Len(w) = m + n
      /\ \A i \in 1 .. m : w[i] = s[i]
      /\ \A i \in 1 .. n : w[m + i] = t[i]
  BY SMTT(30)
<1> HIDE DEF w
<1>2. JoinsIn(S, w, s, t, m, n)
  BY <1>1 DEF JoinsIn
<1> QED BY <1>2 DEF w

\* Three sequences, one after the other.
ThreeIn(S, w, x, b, c, n, p) ==
    /\ w \in Seq(S) /\ Len(w) = (n + p) + 1 /\ w[1] = x
    /\ \A i \in 1 .. n : w[i + 1] = b[i]
    /\ \A i \in 1 .. p : w[(n + i) + 1] = c[i]

\* And of an element and two sequences.
LEMMA ThreeIs ==
    ASSUME NEW S, NEW x \in S, NEW b \in Seq(S), NEW c \in Seq(S), NEW n \in Nat, NEW p \in Nat,
           Len(b) = n, Len(c) = p, NEW w, w = (<<x>> \o b) \o c
    PROVE  ThreeIn(S, w, x, b, c, n, p)
<1> DEFINE a == <<x>>
           o == 1
           u == a \o b
           q == o + n
<1>1. a \in Seq(S) /\ Len(a) = o /\ a[1] = x /\ o \in Nat
  OBVIOUS
<1>o. o = 1 /\ q = 1 + n /\ q \in Nat
  OBVIOUS
<1> HIDE DEF a, o
<1>2. /\ u \in Seq(S) /\ Len(u) = o + n
      /\ \A i \in 1 .. o : u[i] = a[i]
      /\ \A i \in 1 .. n : u[o + i] = b[i]
  <2>1. JoinsIn(S, u, a, b, o, n)
    BY <1>1, JoinsInIs
  <2> QED BY <2>1 DEF JoinsIn
<1>3. w = u \o c
  BY DEF a
<1> HIDE DEF u, q
<1>4. Len(u) = q
  BY <1>2 DEF q
<1>6. /\ w \in Seq(S) /\ Len(w) = q + p
      /\ \A i \in 1 .. q : w[i] = u[i]
      /\ \A i \in 1 .. p : w[q + i] = c[i]
  <2>1. JoinsIn(S, w, u, c, q, p)
    BY <1>2, <1>3, <1>4, <1>o, JoinsInIs
  <2> QED BY <2>1 DEF JoinsIn
<1>7. Len(w) = (n + p) + 1
  BY <1>6, <1>o
<1>8. w[1] = x
  <2>1. 1 \in 1 .. q /\ 1 \in 1 .. o
    BY <1>o
  <2> QED BY <1>1, <1>2, <1>6, <2>1
<1>9. ASSUME NEW i \in 1 .. n PROVE w[i + 1] = b[i]
  <2> DEFINE j == i + 1
  <2>1. j \in 1 .. q /\ j = o + i
    BY <1>o
  <2> HIDE DEF j
  <2>2. w[j] = u[j] /\ u[o + i] = b[i]
    BY <1>2, <1>6, <2>1
  <2>3. w[j] = b[i]
    BY <2>1, <2>2
  <2> QED BY <2>3 DEF j
<1>10. ASSUME NEW i \in 1 .. p PROVE w[(n + i) + 1] = c[i]
  <2> DEFINE j == (n + i) + 1
  <2>1. j = q + i
    BY <1>o
  <2>2. w[q + i] = c[i]
    BY <1>6
  <2> HIDE DEF j
  <2>3. w[j] = c[i]
    BY <2>1, <2>2
  <2> QED BY <2>3 DEF j
<1> QED BY <1>6, <1>7, <1>8, <1>9, <1>10 DEF ThreeIn

\* What doFullWriteBack hands to the encrypter, call by call, is the size holder
\* and then every record.
LEMMA PiecesAre ==
    ASSUME NEW m, Good(m), NEW ps \in SetToSeqs(Prepared)
    PROVE  Pieces(ps) \in Seq(Seq(Byte)) /\ PiecesOf(Pieces(ps), Written(ps))
<1> DEFINE l == Written(ps)
           n == Len(InOrder)
           p == Len(ps)
           b == [i \in 1 .. n |-> Moved(InOrder, i)]
           c == [i \in 1 .. p |-> Record(ps[i], dic[ps[i]].val)]
           w == Pieces(ps)
           S == Seq(Byte)
           N == Len(l)
<1>1. /\ l \in Seq(Holding) /\ N = n + p /\ n \in Nat /\ p \in Nat
      /\ \A i \in 1 .. N :
            /\ l[i].key = KeyAt(ps, i) /\ l[i].val = Latest(actual)[KeyAt(ps, i)]
            /\ KeyAt(ps, i) \in Kept \cup Prepared /\ HasLatest(m, KeyAt(ps, i))
  BY WrittenIs, Zenon
<1>p. Names(ps, Prepared)
  BY WrittenIs, Zenon
<1>2. ASSUME NEW i \in 1 .. N PROVE Rec(l[i]) \in Seq(Byte)
  <2>1. IsRecord(Rec(l[i]), l[i].key, l[i].val)
    BY <1>1, PosNext
  <2> QED BY <2>1 DEF IsRecord
<1>3. ASSUME NEW i \in 1 .. n PROVE Moved(InOrder, i) = Rec(l[i]) /\ i \in 1 .. N
  <2>1. i \in 1 .. N /\ KeyAt(ps, i) = InOrder[i]
    BY <1>1 DEF KeyAt
  <2>2. Moved(InOrder, i) = Record(InOrder[i], Latest(actual)[InOrder[i]])
    BY MovedIs
  <2> HIDE DEF l, N
  <2> QED BY <1>1, <2>1, <2>2 DEF Rec
<1>4. ASSUME NEW i \in 1 .. p PROVE Record(ps[i], dic[ps[i]].val) = Rec(l[n + i]) /\ n + i \in 1 .. N
  <2> DEFINE j == n + i
  <2>1. j \in 1 .. N /\ ~ (j <= n) /\ j - n = i
    BY <1>1
  <2> HIDE DEF j
  <2>2. KeyAt(ps, j) = ps[i]
    BY <2>1 DEF KeyAt
  <2>3. ps[i] \in Prepared
    BY <1>p DEF Names
  <2>4. HasLatest(m, ps[i])
    BY <1>1, <2>1, <2>2
  <2>5. PICK h \in 1 .. Len(log) : dic[ps[i]] = Direct(log[h].val) /\ Latest(actual)[ps[i]] = log[h].val
    BY <2>3, <2>4 DEF HasLatest
  <2>6. dic[ps[i]].val = Latest(actual)[ps[i]]
    BY <2>5 DEF Direct
  <2> HIDE DEF l, N
  <2>7. Record(ps[i], dic[ps[i]].val) = Rec(l[j])
    BY <1>1, <2>1, <2>2, <2>6 DEF Rec
  <2> QED BY <2>1, <2>7 DEF j
<1>5. w = (<<SizeHolder>> \o b) \o c
  BY DEF Pieces
<1>6. SizeHolder \in S
  <2>1. 1 \in Byte
    BY CryptAssumption
  <2> QED BY ONLY <2>1 DEF SizeHolder
<1>7. b \in Seq(S) /\ Len(b) = n
  <2>1. b \in [1 .. n -> S]
    BY <1>2, <1>3
  <2> HIDE DEF b, n, S
  <2> QED BY ONLY <1>1, <2>1, IsASeq
<1>8. c \in Seq(S) /\ Len(c) = p
  <2>1. ASSUME NEW i \in 1 .. p PROVE Record(ps[i], dic[ps[i]].val) \in S
    <3> DEFINE j == n + i
    <3>1. j \in 1 .. N /\ Record(ps[i], dic[ps[i]].val) = Rec(l[j])
      BY <1>4
    <3> HIDE DEF j, l, N
    <3> QED BY <1>2, <3>1
  <2>2. c \in [1 .. p -> S]
    BY <2>1
  <2> HIDE DEF c, p, S
  <2> QED BY ONLY <1>1, <2>2, IsASeq
<1>9. \A i \in 1 .. n : b[i] = Rec(l[i])
  BY <1>3
<1>10. \A i \in 1 .. p : c[i] = Rec(l[n + i])
  BY <1>4
<1> HIDE DEF l, b, c, w, S, n, p, N
<1>11. /\ w \in Seq(S) /\ Len(w) = (n + p) + 1 /\ w[1] = SizeHolder
       /\ \A i \in 1 .. n : w[i + 1] = b[i]
       /\ \A i \in 1 .. p : w[(n + i) + 1] = c[i]
  <2>1. ThreeIn(S, w, SizeHolder, b, c, n, p)
    BY ONLY <1>1, <1>5, <1>6, <1>7, <1>8, ThreeIs
  <2> QED BY <2>1 DEF ThreeIn
<1>12. ASSUME NEW i \in 1 .. N PROVE w[i + 1] = Rec(l[i])
  <2>1. CASE i <= n
    <3>1. i \in 1 .. n
      BY <1>1, <2>1
    <3> QED BY <1>9, <1>11, <3>1
  <2>2. CASE ~ (i <= n)
    <3> DEFINE j == i - n
    <3>1. j \in 1 .. p /\ n + j = i
      BY <1>1, <2>2
    <3> HIDE DEF j
    <3>2. w[(n + j) + 1] = c[j] /\ c[j] = Rec(l[n + j])
      BY <1>10, <1>11, <3>1
    <3> QED BY <3>1, <3>2
  <2> QED BY <2>1, <2>2
<1>13. Len(w) = N + 1
  BY <1>1, <1>11
<1>14. PiecesOf(w, l)
  BY <1>11, <1>12, <1>13 DEF PiecesOf, N
<1> QED BY <1>11, <1>14 DEF w, S, l

-----------------------------------------------------------------------------
\* What a rewrite leaves of k's holder.
MovedHolder(k, done) ==
    LET i == CHOOSE i \in 1 .. Len(InOrder) : InOrder[i] = k
    IN  Offset(Len(done[i].out), dic[k].keySize, dic[k].valSize, done[i].status)

\* The dictionary after a rewrite.
MovedDic(done) == [k \in Keys |-> IF k \in Kept THEN MovedHolder(k, done) ELSE dic[k]]

\* WriteBack, part by part.
LEMMA WriteBackParts ==
    ASSUME NEW ck, NEW v, NEW ps, NEW done, done = EncryptAll(Pieces(ps), Reset(ck, v)),
           NEW n, n = Len(Pieces(ps))
    PROVE  LET w == WriteBack(ck, v, ps) IN
           /\ w.cipher = done[n].out /\ w.crypter = done[n].status
           /\ w.dic = MovedDic(done) /\ w.log = Written(ps)
<1>1. WriteBack(ck, v, ps)
        = [cipher |-> done[n].out, crypter |-> done[n].status,
           dic |-> MovedDic(done), log |-> Written(ps)]
  BY DEF WriteBack, Pieces, Written, KeyAt, MovedDic, MovedHolder
<1> DEFINE a == done[n].out
           b == done[n].status
           c == MovedDic(done)
           d == Written(ps)
<1>2. WriteBack(ck, v, ps) = [cipher |-> a, crypter |-> b, dic |-> c, log |-> d]
  BY <1>1
<1> HIDE DEF a, b, c, d
<1>3. LET w == WriteBack(ck, v, ps) IN w.cipher = a /\ w.crypter = b /\ w.dic = c /\ w.log = d
  BY <1>2
<1> QED BY <1>3 DEF a, b, c, d

\* A rewritten region is the encryption of its records under the new key and
\* vector, and the rewritten dictionary what they say.
THEOREM WriteBackIs ==
    ASSUME NEW m, Good(m), NEW ck \in CryptKeys, NEW v \in Block, NEW ps \in SetToSeqs(Prepared),
           NEW w, w = WriteBack(ck, v, ps)
    PROVE  /\ w.log = Written(ps) /\ w.log \in Seq(Holding)
           /\ IsCfb(w.cipher, Through(w.log)[Len(w.log)], ck, v)
           /\ w.crypter = StatusAt(w.cipher, ck, v, Len(w.cipher)) /\ w.crypter \in Status
           /\ IsDic(w.dic) /\ AllHeld(w.dic, Len(w.log), w.log, w.cipher, ck, v)
           /\ Len(w.cipher) = Pos(w.log, Len(w.log))
<1> DEFINE l == Written(ps)
           pieces == Pieces(ps)
           N == Len(l)
           done == EncryptAll(pieces, Reset(ck, v))
           last == N + 1
           c == done[last].out
           n == Len(InOrder)
<1>1. /\ l \in Seq(Holding) /\ N = n + Len(ps) /\ n \in Nat /\ Len(ps) \in Nat
      /\ Names(InOrder, Kept)
      /\ \A i \in 1 .. N :
            /\ l[i].key = KeyAt(ps, i) /\ l[i].val = Latest(actual)[KeyAt(ps, i)]
            /\ KeyAt(ps, i) \in Kept \cup Prepared /\ HasLatest(m, KeyAt(ps, i))
      /\ \A i, j \in 1 .. N : l[i].key = l[j].key => i = j
      /\ \A k \in Kept \cup Prepared : \E i \in 1 .. N : l[i].key = k
  BY WrittenIs, Zenon
<1>2. pieces \in Seq(Seq(Byte)) /\ PiecesOf(pieces, l) /\ Len(pieces) = last
  BY PiecesAre DEF PiecesOf
<1>3. w.cipher = c /\ w.crypter = done[last].status /\ w.dic = MovedDic(done) /\ w.log = l
  <2> HIDE DEF done, last
  <2>1. done = EncryptAll(Pieces(ps), Reset(ck, v)) /\ last = Len(Pieces(ps))
    BY <1>2 DEF done
  <2> QED BY ONLY <2>1, WriteBackParts, w = WriteBack(ck, v, ps)
<1> HIDE DEF l, pieces, done
<1>4. /\ Sealed(done[last], Through(l)[N], ck, v)
      /\ \A i \in 0 .. N : Len(done[i + 1].out) = Pos(l, i) /\ done[i + 1].status = StatusAt(c, ck, v, Pos(l, i))
  <2>1. done = EncryptAll(pieces, Reset(ck, v))
    BY DEF done
  <2>2. l \in Seq(Holding)
    BY <1>1
  <2>3. /\ Sealed(done[Len(l) + 1], Through(l)[Len(l)], ck, v)
        /\ \A i \in 0 .. Len(l) :
              /\ Len(done[i + 1].out) = Pos(l, i)
              /\ done[i + 1].status = StatusAt(done[Len(l) + 1].out, ck, v, Pos(l, i))
    BY ONLY <1>2, <2>1, <2>2, EncryptAllIs, ck \in CryptKeys, v \in Block
  <2> QED BY <2>3
<1>5. /\ IsCfb(c, Through(l)[N], ck, v) /\ done[last].status = StatusAt(c, ck, v, Len(c))
      /\ done[last] \in [out : Seq(Byte), status : Status]
  BY <1>4 DEF Sealed
<1>6. N \in Nat /\ N \in 0 .. N
  BY <1>1
<1>7. Len(c) = Pos(l, N)
  BY <1>4, <1>6
<1>8. IsDic(MovedDic(done))
  BY DEF IsDic, MovedDic
<1> HIDE DEF c, last, N, n
<1>9. ASSUME NEW k \in Keys PROVE HolderIs(MovedDic(done)[k], k, N, l, c, ck, v)
  <2> DEFINE h == MovedDic(done)[k]
  <2>1. CASE k \in Kept
    <3> DEFINE i == CHOOSE i \in 1 .. n : InOrder[i] = k
               j == i - 1
               o == Pos(l, j)
               s == StatusAt(c, ck, v, o)
    <3>1. i \in 1 .. n /\ InOrder[i] = k
      <4>1. \E q \in 1 .. n : InOrder[q] = k
        BY <1>1, <2>1 DEF Names, n
      <4> QED BY <4>1
    <3>2. h = Offset(Len(done[i].out), dic[k].keySize, dic[k].valSize, done[i].status)
      BY <2>1 DEF MovedDic, MovedHolder, n
    <3> HIDE DEF i
    <3>3. i \in 1 .. N /\ j \in 0 .. N /\ j + 1 = i /\ KeyAt(ps, i) = k
      BY <1>1, <3>1 DEF KeyAt, n
    <3> HIDE DEF j, o, s, h
    <3>4. Len(done[i].out) = o /\ done[i].status = s
      BY <1>4, <3>3 DEF o, s
    <3>5. l[i].key = k /\ l[i].val = Latest(actual)[k] /\ HasLatest(m, k)
      BY <1>1, <3>3
    <3>6. /\ isValueStoredAsOffset(Len(l[i].val)) /\ dic[k].keySize = Len(KeyText[k])
          /\ dic[k].valSize = Len(l[i].val) /\ l[i].val # <<>>
      BY <2>1, <3>5 DEF HasLatest
    <3>7. h = NewHolder(k, l[i].val, o, s)
      BY <3>2, <3>4, <3>6 DEF NewHolder
    <3>8. h = HolderOf(l, i, k, c, ck, v)
      BY <3>7 DEF HolderOf, o, s, j
    <3>9. IsLast(l, N, k, i)
      BY <1>1, <1>6, <3>3, <3>5 DEF IsLast
    <3> QED BY <3>3, <3>8, <3>9 DEF HolderIs, h
  <2>2. CASE k \in Prepared
    <3>1. PICK i \in 1 .. N : l[i].key = k
      BY <1>1, <2>2
    <3>2. l[i].val = Latest(actual)[k] /\ HasLatest(m, k)
      BY <1>1, <3>1
    <3>3. k \notin Kept /\ dic[k] = Direct(l[i].val) /\ l[i].val # <<>> /\ ~ isValueStoredAsOffset(Len(l[i].val))
      BY <2>2, <3>2 DEF HasLatest
    <3>4. h = dic[k]
      BY <3>3 DEF MovedDic
    <3> HIDE DEF h
    <3>5. h = HolderOf(l, i, k, c, ck, v)
      BY <3>3, <3>4 DEF HolderOf, NewHolder
    <3>6. IsLast(l, N, k, i)
      BY <1>1, <1>6, <3>1 DEF IsLast
    <3> QED BY <3>5, <3>6 DEF HolderIs, h
  <2>3. CASE k \notin Kept \cup Prepared
    <3>1. dic[k] = NoHolder
      BY <2>3, ValuedKey
    <3>2. h = NoHolder
      BY <2>3, <3>1 DEF MovedDic
    <3>3. NoneOf(l, N, k)
      BY <1>1, <2>3 DEF NoneOf
    <3> QED BY <3>2, <3>3 DEF HolderIs
  <2> QED BY <2>1, <2>2, <2>3
<1>10. AllHeld(MovedDic(done), N, l, c, ck, v)
  BY <1>9 DEF AllHeld
<1>11. done[last].status \in Status
  BY <1>5
<1> QED BY <1>1, <1>3, <1>5, <1>7, <1>8, <1>10, <1>11 DEF l, N

-----------------------------------------------------------------------------
\* The record a byte of the text belongs to.
InRecord(l, x, i) == i \in 1 .. Len(l) /\ Pos(l, i - 1) < x /\ x <= Pos(l, i)

\* Every byte after the size holder belongs to a record.
LEMMA SomeRecord ==
    ASSUME NEW l \in Seq(Holding), NEW x \in 2 .. Pos(l, Len(l))
    PROVE  \E i \in 1 .. Len(l) : InRecord(l, x, i)
<1> DEFINE N == Len(l)
           S == {j \in 0 .. N : Pos(l, j) < x}
<1>1. N \in Nat /\ Pos(l, 0) = 1 /\ N \in 0 .. N /\ Pos(l, N) \in Nat /\ 0 \in 0 .. N
  <2>1. N \in Nat
    BY LenProperties
  <2>2. N \in 0 .. Len(l) /\ 0 \in 0 .. Len(l)
    BY <2>1
  <2>3. Pos(l, N) \in Nat /\ Pos(l, 0) = 1
    BY <2>2, PosType
  <2> QED BY <2>1, <2>2, <2>3
<1>2. 0 \in S
  BY <1>1
<1> HIDE DEF N
<1>3. PICK j \in S : \A y \in S : y <= j
  <2>1. S \subseteq 0 .. N /\ S # {}
    BY <1>2
  <2> HIDE DEF S
  <2> QED BY <1>1, <2>1, MaxIn
<1>4. j # N
  BY <1>1, <1>3 DEF N
<1> DEFINE i == j + 1
<1>5. i \in 1 .. Len(l) /\ i - 1 = j /\ i \in 0 .. N /\ i > j
  BY <1>1, <1>3, <1>4 DEF N
<1>6. Pos(l, i) \in Nat
  <2> HIDE DEF i
  <2> QED BY <1>5, PosType DEF N
<1>7. Pos(l, j) < x
  BY <1>3
<1> HIDE DEF i
<1>8. ~ (Pos(l, i) < x)
  <2>1. i \notin S
    BY <1>1, <1>3, <1>5
  <2> QED BY <1>5, <2>1
<1> QED BY <1>5, <1>6, <1>7, <1>8 DEF InRecord

\* Records taken from another log, none twice, are not longer together.
LEMMA FitsIn ==
    ASSUME NEW l \in Seq(Holding), NEW k \in Seq(Holding),
           NEW src \in [1 .. Len(l) -> 1 .. Len(k)],
           \A i, j \in 1 .. Len(l) : src[i] = src[j] => i = j,
           \A i \in 1 .. Len(l) : Rec(l[i]) = Rec(k[src[i]])
    PROVE  Pos(l, Len(l)) <= Pos(k, Len(k))
<1> DEFINE N == Len(l)
           K == Len(k)
           A == 2 .. Pos(l, N)
           B == 2 .. Pos(k, K)
           at == [x \in A |-> CHOOSE i \in 1 .. N : InRecord(l, x, i)]
           g == [x \in A |-> Pos(k, src[at[x]] - 1) + (x - Pos(l, at[x] - 1))]
<1>1. /\ N \in Nat /\ K \in Nat /\ Pos(l, N) \in Nat /\ Pos(k, K) \in Nat
      /\ Pos(l, N) >= 1 /\ Pos(k, K) >= 1
  <2>1. N \in Nat /\ K \in Nat
    BY LenProperties
  <2>2. N \in 0 .. Len(l) /\ 0 \in 0 .. Len(l) /\ K \in 0 .. Len(k) /\ 0 \in 0 .. Len(k)
        /\ N \in 0 .. N /\ K \in 0 .. K
    BY <2>1
  <2>3. Pos(l, N) \in Nat /\ Pos(k, K) \in Nat /\ Pos(l, 0) = 1 /\ Pos(k, 0) = 1
    BY <2>2, PosType
  <2>4. Pos(l, 0) <= Pos(l, N) /\ Pos(k, 0) <= Pos(k, K)
    BY <2>2, PosOrder
  <2> QED BY <2>1, <2>3, <2>4
<1>2. ASSUME NEW x \in A PROVE at[x] \in 1 .. N /\ InRecord(l, x, at[x])
  <2>1. \E i \in 1 .. N : InRecord(l, x, i)
    BY SomeRecord
  <2> QED BY <2>1
<1> HIDE DEF at
<1>3. ASSUME NEW x \in A
      PROVE  /\ g[x] \in Nat /\ g[x] > Pos(k, src[at[x]] - 1) /\ g[x] <= Pos(k, src[at[x]])
             /\ g[x] = Pos(k, src[at[x]] - 1) + (x - Pos(l, at[x] - 1))
             /\ Pos(l, at[x] - 1) \in Nat /\ Pos(k, src[at[x]] - 1) \in Nat /\ x \in Nat
             /\ Pos(k, src[at[x]]) \in Nat /\ src[at[x]] \in 1 .. K
  <2> DEFINE i == at[x]
             s == src[i]
             h == i - 1
             r == s - 1
  <2>1. i \in 1 .. Len(l) /\ s \in 1 .. Len(k) /\ InRecord(l, x, i) /\ x \in Nat
    BY <1>1, <1>2
  <2>2. h \in 0 .. Len(l) /\ r \in 0 .. Len(k) /\ i \in 0 .. Len(l) /\ s \in 0 .. Len(k)
    BY <1>1, <2>1
  <2>3. g[x] = Pos(k, r) + (x - Pos(l, h))
    OBVIOUS
  <2>4. Pos(l, h) < x /\ x <= Pos(l, i)
    BY <2>1 DEF InRecord
  <2>5. Rec(l[i]) = Rec(k[s])
    BY <2>1
  <2>6. /\ Pos(l, i) = Pos(l, i - 1) + Len(Rec(l[i])) /\ Len(Rec(l[i])) \in Nat
        /\ Pos(k, s) = Pos(k, s - 1) + Len(Rec(k[s]))
    <3> HIDE DEF i, s
    <3> QED BY <2>1, PosNext
  <2>7. Pos(l, h) \in Nat /\ Pos(l, i) \in Nat /\ Pos(k, r) \in Nat /\ Pos(k, s) \in Nat
    <3> HIDE DEF i, s, h, r
    <3> QED BY <2>2, PosType
  <2>8. Pos(l, i) = Pos(l, h) + Len(Rec(l[i])) /\ Pos(k, s) = Pos(k, r) + Len(Rec(l[i]))
    BY <2>5, <2>6
  <2> HIDE DEF g
  <2> DEFINE p == Pos(l, h)
             q == Pos(k, r)
             m == Len(Rec(l[i]))
             y == g[x]
             pi == Pos(l, i)
             ps == Pos(k, s)
  <2>9. /\ y = q + (x - p) /\ p < x /\ x <= pi /\ pi = p + m /\ ps = q + m
        /\ p \in Nat /\ q \in Nat /\ m \in Nat /\ x \in Nat
    BY <2>1, <2>3, <2>4, <2>6, <2>7, <2>8
  <2> HIDE DEF p, q, m, y, pi, ps, i, s, h, r
  <2>10. y \in Nat /\ y > q /\ y <= ps
    BY <2>9
  <2> QED BY <2>1, <2>3, <2>7, <2>10 DEF p, q, m, y, pi, ps, i, s, h, r
<1> HIDE DEF g
<1>4. ASSUME NEW x \in A PROVE g[x] \in B
  <2> DEFINE s == src[at[x]]
             r == s - 1
  <2>1. /\ g[x] \in Nat /\ g[x] > Pos(k, r) /\ g[x] <= Pos(k, s) /\ s \in 1 .. K
        /\ Pos(k, r) \in Nat /\ Pos(k, s) \in Nat
    BY <1>3
  <2>2. s \in 0 .. Len(k) /\ K \in s .. Len(k) /\ r \in 0 .. Len(k) /\ 0 \in 0 .. Len(k) /\ r \in 0 .. Len(k)
    BY <1>1, <2>1
  <2> HIDE DEF s, r
  <2>3. Pos(k, s) <= Pos(k, K) /\ Pos(k, 0) <= Pos(k, r) /\ Pos(k, 0) = 1
    BY <1>1, <2>2, PosOrder, PosType
  <2> QED BY <1>1, <2>1, <2>3
<1>5. ASSUME NEW x \in A, NEW y \in A, g[x] = g[y] PROVE x = y
  <2> DEFINE s == src[at[x]]
             r == src[at[y]]
             s1 == s - 1
             r1 == r - 1
  <2>1. /\ g[x] > Pos(k, s1) /\ g[x] <= Pos(k, s) /\ s \in 1 .. K /\ Pos(k, s1) \in Nat /\ Pos(k, s) \in Nat
        /\ g[x] \in Nat
    BY <1>3
  <2>2. /\ g[x] > Pos(k, r1) /\ g[x] <= Pos(k, r) /\ r \in 1 .. K /\ Pos(k, r1) \in Nat /\ Pos(k, r) \in Nat
    BY <1>3, <1>5
  <2> HIDE DEF s, r
  <2>3. /\ s \in 0 .. Len(k) /\ r \in 0 .. Len(k) /\ s1 \in 0 .. Len(k) /\ r1 \in 0 .. Len(k)
        /\ s1 + 1 = s /\ r1 + 1 = r /\ s \in Nat /\ r \in Nat
    <3>1. K \in Nat /\ K = Len(k) /\ s \in 1 .. K /\ r \in 1 .. K
      BY <1>1, <2>1, <2>2
    <3> HIDE DEF K
    <3> QED BY <3>1
  <2> HIDE DEF s1, r1
  <2>4. ~ (s < r)
    <3> SUFFICES ASSUME s < r PROVE FALSE
      OBVIOUS
    <3>1. r1 \in s .. Len(k)
      BY <1>1, <2>3
    <3>2. Pos(k, s) <= Pos(k, r1)
      BY <2>3, <3>1, PosOrder
    <3> QED BY <2>1, <2>2, <3>2
  <2>5. ~ (r < s)
    <3> SUFFICES ASSUME r < s PROVE FALSE
      OBVIOUS
    <3>1. s1 \in r .. Len(k)
      BY <1>1, <2>3
    <3>2. Pos(k, r) <= Pos(k, s1)
      BY <2>3, <3>1, PosOrder
    <3> QED BY <2>1, <2>2, <3>2
  <2>6. s = r
    BY <2>3, <2>4, <2>5
  <2>7. at[x] = at[y]
    BY <1>2, <2>6 DEF s, r
  <2> DEFINE a == at[x]
             p == Pos(l, a - 1)
             q == Pos(k, src[a] - 1)
             gx == g[x]
             gy == g[y]
  <2>8. g[x] = q + (x - p) /\ g[y] = q + (y - p) /\ p \in Nat /\ q \in Nat /\ x \in Nat /\ y \in Nat
    <3>1. /\ g[x] = Pos(k, src[at[x]] - 1) + (x - Pos(l, at[x] - 1))
          /\ Pos(l, at[x] - 1) \in Nat /\ Pos(k, src[at[x]] - 1) \in Nat /\ x \in Nat
      BY <1>3
    <3>2. g[y] = Pos(k, src[at[y]] - 1) + (y - Pos(l, at[y] - 1)) /\ y \in Nat
      BY <1>3
    <3>3. g[y] = Pos(k, src[at[x]] - 1) + (y - Pos(l, at[x] - 1))
      BY ONLY <2>7, <3>2, Zenon
    <3> QED BY <3>1, <3>2, <3>3, Zenon
  <2>9. gx = gy /\ gx = q + (x - p) /\ gy = q + (y - p) /\ p \in Nat /\ q \in Nat /\ x \in Nat /\ y \in Nat
    BY <1>5, <2>8
  <2> HIDE DEF a, p, q, gx, gy
  <2>10. q + (x - p) = q + (y - p) /\ p \in Nat /\ q \in Nat /\ x \in Nat /\ y \in Nat
    BY ONLY <2>9, Zenon
  <2> QED BY ONLY <2>10
<1> HIDE DEF A, B
<1>6. g \in Injection(A, B)
  <2>1. g = [x \in A |-> g[x]]
    BY DEF g
  <2> QED BY <1>4, <1>5, <2>1 DEF Injection, IsInjective
<1>7. /\ IsFiniteSet(A) /\ IsFiniteSet(B)
      /\ Cardinality(A) = (IF 2 > Pos(l, N) THEN 0 ELSE Pos(l, N) - 2 + 1)
      /\ Cardinality(B) = (IF 2 > Pos(k, K) THEN 0 ELSE Pos(k, K) - 2 + 1)
  <2>1. \A e \in Nat : IsFiniteSet(2 .. e) /\ Cardinality(2 .. e) = (IF 2 > e THEN 0 ELSE e - 2 + 1)
    <3> SUFFICES ASSUME NEW e \in Nat
                 PROVE  IsFiniteSet(2 .. e) /\ Cardinality(2 .. e) = (IF 2 > e THEN 0 ELSE e - 2 + 1)
      OBVIOUS
    <3>1. 2 \in Int /\ e \in Int
      OBVIOUS
    <3> QED BY ONLY <3>1, FS_Interval
  <2> QED BY <1>1, <2>1 DEF A, B
<1>8. Cardinality(A) <= Cardinality(B)
  BY <1>6, <1>7, FS_Injection
<1> QED BY <1>1, <1>7, <1>8

-----------------------------------------------------------------------------
\* A rewritten region is not empty if a key has a value, and not longer than the
\* one it replaces.
LEMMA RewriteFits ==
    ASSUME NEW m, Good(m), NEW ck \in CryptKeys, NEW v \in Block, NEW ps \in SetToSeqs(Prepared),
           NEW w, w = WriteBack(ck, v, ps), Present # {}
    PROVE  w.log # <<>> /\ Len(w.cipher) <= Len(cipher)
<1> DEFINE l == Written(ps)
           N == Len(l)
           src == [i \in 1 .. N |-> CHOOSE h \in 1 .. Len(log) : log[h].key = l[i].key /\ log[h].val = l[i].val]
<1>1. /\ l \in Seq(Holding)
      /\ \A i \in 1 .. N :
            /\ l[i].key = KeyAt(ps, i) /\ l[i].val = Latest(actual)[KeyAt(ps, i)]
            /\ KeyAt(ps, i) \in Kept \cup Prepared /\ HasLatest(m, KeyAt(ps, i))
      /\ \A i, j \in 1 .. N : l[i].key = l[j].key => i = j
      /\ \A k \in Kept \cup Prepared : \E i \in 1 .. N : l[i].key = k
  BY WrittenIs, Zenon
<1>2. w.log = l /\ Len(w.cipher) = Pos(l, N)
  BY WriteBackIs
<1>3. log \in Seq(Holding) /\ IsCfb(cipher, TextOf(log), crypter.key, iv)
  BY DEF Good
<1> HIDE DEF l
<1>4. PICK k \in Keys : k \in Kept \cup Prepared /\ HasLatest(m, k)
  <2>1. PICK k \in Keys : dic[k].type # "none"
    BY DEF Present
  <2>2. dic[k] # NoHolder
    BY <2>1 DEF NoHolder
  <2> QED BY <2>2, ValuedKey
<1>5. l # <<>>
  <2>1. PICK i \in 1 .. N : l[i].key = k
    BY <1>1, <1>4
  <2> QED BY <1>1, <2>1, EmptySeq
<1>6. log # <<>>
  <2>1. PICK h \in 1 .. Len(log) : TRUE
    BY <1>4 DEF HasLatest
  <2> QED BY <1>3, <2>1, EmptySeq
<1>7. Len(cipher) = Pos(log, Len(log))
  BY <1>3, <1>6, TextIs DEF IsCfb
<1>8. ASSUME NEW i \in 1 .. N
      PROVE  src[i] \in 1 .. Len(log) /\ log[src[i]].key = l[i].key /\ log[src[i]].val = l[i].val
  <2>1. \E h \in 1 .. Len(log) : log[h].key = l[i].key /\ log[h].val = l[i].val
    BY <1>1 DEF HasLatest
  <2> QED BY <2>1
<1>9. src \in [1 .. Len(l) -> 1 .. Len(log)]
  BY <1>8
<1> HIDE DEF src
<1>10. \A i, j \in 1 .. Len(l) : src[i] = src[j] => i = j
  <2> SUFFICES ASSUME NEW i \in 1 .. N, NEW j \in 1 .. N, src[i] = src[j] PROVE i = j
    OBVIOUS
  <2>1. l[i].key = l[j].key
    BY <1>8
  <2> QED BY <1>1, <2>1
<1>11. \A i \in 1 .. Len(l) : Rec(l[i]) = Rec(log[src[i]])
  BY <1>8 DEF Rec
<1>12. Pos(l, N) <= Pos(log, Len(log))
  BY ONLY <1>1, <1>3, <1>9, <1>10, <1>11, FitsIn
<1> QED BY <1>2, <1>5, <1>7, <1>12

-----------------------------------------------------------------------------
\* Whole blocks.
Whole(n) == n % BlockLen = 0

\* Whole blocks end where a block begins.
LEMMA WholeIs ==
    ASSUME NEW n \in Nat
    PROVE  Whole(n) <=> \E b \in Nat : n = Base(b)
<1>1. ASSUME Whole(n) PROVE \E b \in Nat : n = Base(b)
  <2> DEFINE b == n \div BlockLen
             r == n % BlockLen
  <2>1. b \in Nat /\ n = Base(b) + r
    BY DivMod
  <2>2. r = 0
    BY <1>1 DEF Whole
  <2> HIDE DEF b, r
  <2>3. n = Base(b)
    BY <2>1, <2>2, BaseNat
  <2> QED BY <2>1, <2>3
<1>2. ASSUME NEW b \in Nat, n = Base(b) PROVE Whole(n)
  <2>1. (Base(b) + 0) % BlockLen = 0
    BY PlaceOf, BlockAssumption
  <2>2. Base(b) + 0 = n
    BY <1>2, BaseNat
  <2> QED BY <2>1, <2>2 DEF Whole
<1> QED BY <1>1, <1>2

\* Rounding up to whole blocks.
LEMMA UpIs ==
    ASSUME NEW n \in Nat
    PROVE  Up(n) \in Nat /\ Up(n) >= n /\ \E b \in Nat : Up(n) = Base(b)
<1> DEFINE m == n + BlockLen - 1
           b == m \div BlockLen
           r == m % BlockLen
<1>1. BlockLen \in Nat /\ BlockLen >= 1 /\ m \in Nat
  BY BlockAssumption
<1>2. b \in Nat /\ r \in 0 .. BlockLen - 1 /\ m = Base(b) + r
  BY <1>1, DivMod
<1>3. Up(n) = Base(b)
  BY DEF Up, Base
<1>m. m = n + BlockLen - 1
  OBVIOUS
<1> HIDE DEF b, r, m
<1>4. Base(b) \in Nat /\ Base(b) >= n
  BY <1>1, <1>2, <1>m, BaseNat
<1> QED BY <1>2, <1>3, <1>4

\* Where a status stands in its block.
LEMMA NumberIs ==
    ASSUME NEW c, NEW ck, NEW v, NEW n
    PROVE  StatusAt(c, ck, v, n).number = n % BlockLen
BY DEF StatusAt, At

\* What consumeBytes asks for: enough, and up to the end of a block.
Asked(number, n) ==
    LET align == (BlockLen - number) % BlockLen IN
    IF n < align THEN align ELSE align + Up(n - align)

\* It is at least what lacks, and ends between blocks.
LEMMA AskedIs ==
    ASSUME NEW p \in Nat, NEW n \in Nat
    PROVE  LET k == Asked(p % BlockLen, n) IN k \in Nat /\ k >= n /\ Whole(p + k)
<1> DEFINE b == p \div BlockLen
           r == p % BlockLen
           a == (BlockLen - r) % BlockLen
<1>1. b \in Nat /\ r \in 0 .. BlockLen - 1 /\ p = Base(b) + r /\ Base(b) \in Nat
  BY DivMod, BaseNat
<1>2. BlockLen \in Nat /\ BlockLen >= 1
  BY BlockAssumption
<1> HIDE DEF b, r
<1>3. a \in Nat /\ \E e \in Nat : p + a = Base(e)
  <2>1. CASE r = 0
    <3>1. BlockLen - r = Base(1) + 0
      BY <1>2, <2>1 DEF Base
    <3>2. (Base(1) + 0) % BlockLen = 0
      BY <1>2, PlaceOf
    <3>3. a = 0
      BY <3>1, <3>2
    <3> HIDE DEF a
    <3>4. p + a = Base(b)
      BY <1>1, <2>1, <3>3
    <3> QED BY <1>1, <3>3, <3>4
  <2>2. CASE r # 0
    <3>1. BlockLen - r \in 0 .. BlockLen - 1
      BY <1>1, <1>2, <2>2
    <3> DEFINE x == BlockLen - r
    <3>2. (Base(0) + x) % BlockLen = x
      BY <3>1, PlaceOf
    <3>3. Base(0) + x = x
      BY <1>1, <1>2, Base0
    <3>4. a = x
      BY <3>2, <3>3
    <3> HIDE DEF a
    <3>5. p + a = Base(b) + BlockLen
      BY <1>1, <1>2, <3>4
    <3>6. p + a = Base(b + 1)
      BY <1>1, <3>5, BaseNext
    <3> QED BY <1>1, <3>1, <3>4, <3>6
  <2> QED BY <2>1, <2>2
<1>4. Asked(r, n) = IF n < a THEN a ELSE a + Up(n - a)
  BY DEF Asked
<1> HIDE DEF a
<1> DEFINE k == Asked(r, n)
<1>5. PICK e \in Nat : p + a = Base(e)
  BY <1>3
<1>6. CASE n < a
  <2>1. k = a /\ a \in Nat
    BY <1>3, <1>4, <1>6
  <2> HIDE DEF k
  <2>2. k \in Nat /\ k >= n /\ p + k = Base(e) /\ p + k \in Nat
    BY <1>5, <1>6, <2>1
  <2>3. Whole(p + k)
    BY <2>2, WholeIs
  <2> QED BY <2>2, <2>3 DEF k, r
<1>7. CASE ~ (n < a)
  <2> DEFINE m == n - a
             u == Up(m)
  <2>1. m \in Nat /\ n = a + m
    BY <1>3, <1>7
  <2>2. k = a + u
    BY <1>4, <1>7
  <2> HIDE DEF m
  <2>3. u \in Nat /\ u >= m /\ \E f \in Nat : u = Base(f)
    BY <2>1, UpIs
  <2>4. PICK f \in Nat : u = Base(f)
    BY <2>3
  <2> HIDE DEF k, u
  <2>5. p + k = Base(e) + Base(f)
    BY <1>3, <1>5, <2>2, <2>3, <2>4, BaseNat
  <2>6. p + k = Base(e + f)
    BY <2>5, BaseAdd
  <2>7. k \in Nat /\ k >= n /\ p + k \in Nat /\ e + f \in Nat
    BY <1>3, <2>1, <2>2, <2>3
  <2>8. Whole(p + k)
    BY <2>6, <2>7, WholeIs
  <2> QED BY <2>7, <2>8 DEF k, r
<1> QED BY <1>6, <1>7

-----------------------------------------------------------------------------
\* The readers.
Reader ==
    [position : Nat, decPos : Nat, buf : Seq(Byte), room : Nat, bufPos : Nat, discard : Nat,
     ok : BOOLEAN, crypter : Status]

\* Where in the region the buffer begins.
Offs(d) == d.decPos - Len(d.buf)

\* From its g-th byte on, the buffer b is the text t from o on.
Holds(b, g, t, o) == \A i \in g + 1 .. Len(b) : b[i] = t[o + i]

\* The reader's cipher stands between blocks, or at the end.
Aligned(d) == d.decPos = Size \/ Whole(d.decPos)

\* The reader reads the text t: its buffer is t up to where its cipher is, but
\* for the first g bytes, which it is past, and the cipher stands between blocks
\* unless all has been read.
Reading(d, g, t, ck, v) ==
    /\ d \in Reader /\ g \in 0 .. BlockLen - 1
    /\ d.bufPos <= Len(d.buf) /\ Len(d.buf) <= d.room /\ BlockLen <= d.room
    /\ d.decPos <= Size /\ Len(d.buf) <= d.decPos
    /\ d.position = Offs(d) + d.bufPos
    /\ d.crypter = StatusAt(cipher, ck, v, d.decPos) /\ d.ok = TRUE
    /\ g <= d.bufPos /\ g <= d.discard
    /\ Holds(d.buf, g, t, Offs(d))
    /\ Aligned(d) \/ Left(d) = 0

\* The fields, and how they are related.
LEMMA ReadingParts ==
    ASSUME NEW d, NEW g, NEW t, NEW ck, NEW v, Reading(d, g, t, ck, v)
    PROVE  /\ d.position \in Nat /\ d.decPos \in Nat /\ d.buf \in Seq(Byte) /\ d.room \in Nat
           /\ d.bufPos \in Nat /\ d.discard \in Nat /\ d.ok = TRUE /\ d.crypter \in Status
           /\ Len(d.buf) \in Nat /\ d.bufPos <= Len(d.buf) /\ Len(d.buf) <= d.room
           /\ g \in Nat /\ g <= d.bufPos /\ g <= d.discard /\ g <= BlockLen - 1 /\ BlockLen <= d.room
           /\ Left(d) \in Nat /\ Left(d) = Len(d.buf) - d.bufPos /\ d.position + Left(d) = d.decPos
           /\ Offs(d) \in Nat /\ Offs(d) + Len(d.buf) = d.decPos /\ d.position = Offs(d) + d.bufPos
           /\ d.decPos <= Size
           /\ d.crypter = StatusAt(cipher, ck, v, d.decPos) /\ Holds(d.buf, g, t, Offs(d))
<1>1. d \in Reader
  BY DEF Reading
<1>2. /\ d.position \in Nat /\ d.decPos \in Nat /\ d.buf \in Seq(Byte) /\ d.room \in Nat
      /\ d.bufPos \in Nat /\ d.discard \in Nat /\ d.crypter \in Status
  BY <1>1 DEF Reader
<1>3. Len(d.buf) \in Nat
  BY <1>2, LenProperties
<1>4. /\ g \in 0 .. BlockLen - 1
      /\ d.bufPos <= Len(d.buf) /\ Len(d.buf) <= d.room /\ BlockLen <= d.room
      /\ d.decPos <= Size /\ Len(d.buf) <= d.decPos
      /\ d.position = Offs(d) + d.bufPos
      /\ d.crypter = StatusAt(cipher, ck, v, d.decPos) /\ d.ok = TRUE
      /\ g <= d.bufPos /\ g <= d.discard
      /\ Holds(d.buf, g, t, Offs(d))
  BY DEF Reading
<1> DEFINE p == d.position
           q == d.decPos
           n == Len(d.buf)
           b == d.bufPos
<1>5. Offs(d) = q - n /\ Left(d) = n - b
  BY DEF Offs, Left
<1> HIDE DEF p, q, n, b
<1>6. p \in Nat /\ q \in Nat /\ n \in Nat /\ b \in Nat /\ b <= n /\ n <= q /\ p = Offs(d) + b
  BY <1>2, <1>3, <1>4 DEF p, q, n, b
<1>7. /\ Left(d) \in Nat /\ p + Left(d) = q /\ Offs(d) \in Nat /\ Offs(d) + n = q
  BY <1>5, <1>6
<1>8. g \in Nat /\ g <= BlockLen - 1
  BY <1>4, BlockAssumption
<1> QED BY <1>2, <1>3, <1>4, <1>5, <1>7, <1>8 DEF p, q, n, b

\* Whole blocks of the buffer's beginning are given up.
Dropped(d, back) ==
    IF back = 0 THEN d
    ELSE [d EXCEPT !.buf = SubSeq(@, back + 1, Len(@)), !.bufPos = @ - back, !.discard = 0]

\* Giving them up changes nothing that is read or kept.
LEMMA DropIs ==
    ASSUME NEW d, NEW g, NEW t, NEW ck, NEW v, Reading(d, g, t, ck, v), d.discard <= d.bufPos,
           NEW back \in Nat, Whole(back), back <= d.discard, NEW r, r = Dropped(d, back)
    PROVE  /\ \E h \in 0 .. BlockLen - 1 : Reading(r, h, t, ck, v)
           /\ r.position = d.position /\ r.decPos = d.decPos /\ r.crypter = d.crypter
           /\ Left(r) = Left(d) /\ r.discard <= r.bufPos
           /\ r.bufPos - r.discard >= d.bufPos - d.discard
<1>1. CASE back = 0
  <2>1. r = d
    BY <1>1 DEF Dropped
  <2>2. d.bufPos \in Nat /\ d.discard \in Nat
    BY ReadingParts
  <2>3. g \in 0 .. BlockLen - 1
    BY DEF Reading
  <2> QED BY <2>1, <2>2, <2>3
<1>2. CASE back # 0
  <2> DEFINE p == d.position
             q == d.decPos
             n == Len(d.buf)
             b == d.bufPos
             k == d.discard
             w == d.room
             l == Left(d)
             o == Offs(d)
             m == n - back
             c == b - back
             x == SubSeq(d.buf, back + 1, n)
  <2>1. /\ p \in Nat /\ q \in Nat /\ n \in Nat /\ b \in Nat /\ k \in Nat /\ w \in Nat /\ l \in Nat
        /\ b <= n /\ n <= w /\ o \in Nat /\ o + n = q /\ p = o + b /\ q <= Size /\ g <= b /\ g <= k
        /\ g \in Nat /\ g <= BlockLen - 1 /\ BlockLen <= w /\ p + l = q /\ l = n - b
    BY ReadingParts
  <2>2. /\ d.ok = TRUE /\ (Aligned(d) \/ l = 0) /\ d.buf \in Seq(Byte) /\ d \in Reader
        /\ d.crypter = StatusAt(cipher, ck, v, q) /\ Holds(d.buf, g, t, o) /\ d.crypter \in Status
    BY ReadingParts DEF Reading
  <2>k. back <= k /\ k <= b
    OBVIOUS
  <2>m. m = n - back /\ c = b - back
    OBVIOUS
  <2>x. r = [d EXCEPT !.buf = x, !.bufPos = c, !.discard = 0]
    BY <1>2 DEF Dropped
  <2> HIDE DEF p, q, n, b, k, w, l, o, m, c, x
  <2>3. g < back /\ back <= b /\ m \in Nat /\ c \in Nat /\ back + m = n /\ back + c = b /\ c <= m
    <3>1. PICK e \in Nat : back = Base(e)
      BY WholeIs
    <3>2. e # 0
      BY <1>2, <3>1, Base0
    <3>3. back >= BlockLen
      <4>1. e - 1 \in Nat /\ e = (e - 1) + 1
        BY <3>2
      <4>2. Base(e) = Base(e - 1) + BlockLen /\ Base(e - 1) \in Nat
        BY <4>1, BaseNext, BaseNat
      <4> QED BY <3>1, <4>2, BlockAssumption
    <3>4. BlockLen \in Nat
      BY BlockAssumption
    <3>5. back \in Nat
      OBVIOUS
    <3> QED BY ONLY <2>1, <2>k, <2>m, <3>3, <3>4, <3>5
  <2>4. x \in Seq(Byte) /\ Len(x) = m /\ \A i \in 1 .. m : x[i] = d.buf[back + i]
    <3>2. back + m <= Len(d.buf)
      BY <2>1, <2>3 DEF n
    <3>3. /\ SubSeq(d.buf, back + 1, back + m) \in Seq(Byte) /\ Len(SubSeq(d.buf, back + 1, back + m)) = m
          /\ \A i \in 1 .. m : SubSeq(d.buf, back + 1, back + m)[i] = d.buf[back + i]
      BY ONLY <2>2, <2>3, <3>2, SubSeqIs, back \in Nat
    <3>4. x = SubSeq(d.buf, back + 1, back + m)
      BY <2>3 DEF x
    <3> QED BY <3>3, <3>4
  <2>6. /\ r \in Reader /\ r.position = p /\ r.decPos = q /\ r.buf = x /\ r.room = w
        /\ r.bufPos = c /\ r.discard = 0 /\ r.ok = TRUE /\ r.crypter = d.crypter
    <3>1. d \in Reader /\ x \in Seq(Byte) /\ c \in Nat /\ 0 \in Nat
      BY <2>2, <2>3, <2>4
    <3>2. r \in Reader
      BY ONLY <2>x, <3>1 DEF Reader
    <3>3. /\ r.position = d.position /\ r.decPos = d.decPos /\ r.buf = x /\ r.room = d.room
          /\ r.bufPos = c /\ r.discard = 0 /\ r.ok = d.ok /\ r.crypter = d.crypter
      BY ONLY <2>x, <3>1 DEF Reader
    <3> QED BY <2>2, <3>2, <3>3 DEF p, q, w
  <2>7. Offs(r) = o + back /\ Left(r) = l
    <3>1. Offs(r) = q - m /\ Left(r) = m - c
      BY <2>4, <2>6 DEF Offs, Left
    <3> QED BY <2>1, <2>3, <3>1
  <2>8. Holds(x, 0, t, o + back)
    <3> SUFFICES ASSUME NEW i \in 0 + 1 .. Len(x) PROVE x[i] = t[(o + back) + i]
      BY DEF Holds
    <3> DEFINE j == back + i
    <3>0. i \in 1 .. m /\ j = back + i
      BY <2>3, <2>4
    <3> HIDE DEF j
    <3>1. i \in 1 .. m /\ j \in g + 1 .. n /\ (o + back) + i = o + j
      BY <2>1, <2>3, <3>0
    <3>2. x[i] = d.buf[j]
      BY <2>4, <3>1 DEF j
    <3>3. d.buf[j] = t[o + j]
      BY <2>2, <3>1 DEF Holds, n
    <3> QED BY <3>1, <3>2, <3>3
  <2>9. Reading(r, 0, t, ck, v)
    <3>1. c <= m /\ m <= w /\ BlockLen <= w
      BY <2>1, <2>3
    <3>2. q <= Size /\ m <= q /\ p = (o + back) + c
      BY <2>1, <2>3
    <3>3. 0 <= c /\ 0 <= 0 /\ 0 \in 0 .. BlockLen - 1
      BY <2>3, BlockAssumption
    <3>4. Aligned(r) \/ Left(r) = 0
      BY <2>2, <2>6, <2>7 DEF Aligned, q
    <3>5. Holds(r.buf, 0, t, Offs(r)) /\ r.crypter = StatusAt(cipher, ck, v, r.decPos) /\ r.ok = TRUE
      BY <2>2, <2>6, <2>7, <2>8
    <3> QED BY <2>4, <2>6, <2>7, <3>1, <3>2, <3>3, <3>4, <3>5 DEF Reading
  <2>10. r.discard <= r.bufPos /\ r.bufPos - r.discard >= b - k
    BY <2>1, <2>3, <2>6, <2>k
  <2>11. 0 \in 0 .. BlockLen - 1
    BY BlockAssumption
  <2> QED BY <2>6, <2>7, <2>9, <2>10, <2>11 DEF p, q, l, b, k
<1> QED BY <1>1, <1>2

-----------------------------------------------------------------------------
\* An assert that holds changes nothing.
LEMMA CheckIs ==
    ASSUME NEW x \in Reader, x.ok = TRUE, NEW p, p = TRUE
    PROVE  Check(x, p) = x
<1>1. Check(x, p) = [x EXCEPT !.ok = x.ok /\ p]
  BY DEF Check
<1>2. (x.ok /\ p) = TRUE
  OBVIOUS
<1>3. [x EXCEPT !.ok = x.ok /\ p] = [x EXCEPT !.ok = TRUE]
  BY <1>2
<1>4. [x EXCEPT !.ok = TRUE] = x
  BY DEF Reader
<1> QED BY <1>1, <1>3, <1>4

\* The reader decrypts length bytes more.
Filled(r, length, e, ok) ==
    Check([r EXCEPT !.room = Grown(r, length), !.buf = @ \o e.out, !.decPos = @ + length,
                    !.crypter = e.status], ok)

\* From where its cipher is.
FilledBy(r, length) ==
    LET e == Decrypt(Region(r.decPos, length), r.crypter)
    IN  Filled(r, length, e, r.decPos + length = Size \/ e.status.number = 0)

\* The reader goes on reading the text, with more of it ahead.
LEMMA FillIs ==
    ASSUME NEW t, NEW ck, NEW v, IsCfb(cipher, t, ck, v), NEW r, NEW g, Reading(r, g, t, ck, v),
           NEW length \in Nat, r.decPos + length <= Size,
           r.decPos + length = Size \/ Whole(r.decPos + length),
           NEW f, f = FilledBy(r, length)
    PROVE  /\ Reading(f, g, t, ck, v) /\ Aligned(f)
           /\ f.position = r.position /\ f.bufPos = r.bufPos /\ f.discard = r.discard
           /\ f.decPos = r.decPos + length /\ Left(f) = Left(r) + length
<1> DEFINE p == r.position
           q == r.decPos
           n == Len(r.buf)
           b == r.bufPos
           w == r.room
           l == Left(r)
           o == Offs(r)
           k == r.discard
           q2 == q + length
           w2 == Grown(r, length)
           y == SubSeq(t, q + 1, q + length)
           s2 == StatusAt(cipher, ck, v, q2)
           x == r.buf \o y
           e == Decrypt(Region(r.decPos, length), r.crypter)
           z == [r EXCEPT !.room = w2, !.buf = x, !.decPos = q2, !.crypter = s2]
<1>1. /\ p \in Nat /\ q \in Nat /\ n \in Nat /\ b \in Nat /\ k \in Nat /\ w \in Nat /\ l \in Nat
      /\ b <= n /\ n <= w /\ o \in Nat /\ o + n = q /\ p = o + b /\ q <= Size /\ g <= b /\ g <= k
      /\ g \in Nat /\ g <= BlockLen - 1 /\ BlockLen <= w /\ p + l = q /\ l = n - b
  BY ReadingParts
<1>2. /\ r.ok = TRUE /\ r.buf \in Seq(Byte) /\ r \in Reader
      /\ r.crypter = StatusAt(cipher, ck, v, q) /\ Holds(r.buf, g, t, o)
  BY ReadingParts DEF Reading
<1>3. /\ cipher \in Seq(Byte) /\ t \in Seq(Byte) /\ Len(t) = Len(cipher) /\ ck \in CryptKeys /\ v \in Block
      /\ Size \in Nat /\ Size = Len(cipher)
  BY LenProperties DEF IsCfb, Size
<1>4. q + length <= Size /\ (q2 = Size \/ Whole(q2)) /\ q2 = q + length /\ q2 \in Nat
  <2>1. q + length <= Size
    OBVIOUS
  <2>2. q2 = Size \/ Whole(q2)
    BY Zenon
  <2>3. q2 = q + length
    OBVIOUS
  <2> HIDE DEF q2, q
  <2>4. q2 \in Nat
    BY ONLY <1>1, <2>3, length \in Nat
  <2> QED BY <2>1, <2>2, <2>3, <2>4
<1>5. w2 = IF w - n < length THEN w + length ELSE w
  BY DEF Grown
<1>6. e = [out |-> y, status |-> s2]
  <2>1. Decrypt(Region(q, length), StatusAt(cipher, ck, v, q))
          = [out |-> SubSeq(t, q + 1, q + length), status |-> StatusAt(cipher, ck, v, q + length)]
    <3> HIDE DEF q
    <3>1. q \in Nat /\ length \in Nat /\ q + length <= Len(cipher)
      BY <1>1, <1>3, <1>4
    <3>2. PieceRead(t, ck, v, q, length)
      BY ONLY <3>1, ReadAt, IsCfb(cipher, t, ck, v)
    <3> QED BY ONLY <3>2 DEF PieceRead
  <2> QED BY <1>2, <2>1
<1>7. f = Check(z, q2 = Size \/ s2.number = 0)
  <2>1. f = Filled(r, length, e, q2 = Size \/ e.status.number = 0)
    BY DEF FilledBy
  <2> HIDE DEF y, s2, w2, e
  <2>2. e.out = y /\ e.status = s2
    BY <1>6
  <2> QED BY <2>1, <2>2 DEF Filled, w2
<1> HIDE DEF p, q, n, b, w, l, o, k, w2, s2, z, e
<1>8. y \in Seq(Byte) /\ Len(y) = length /\ \A i \in 1 .. length : y[i] = t[q + i]
  <2>1. q + length <= Len(t)
    BY <1>3, <1>4
  <2>2. t \in Seq(Byte) /\ q \in Nat /\ length \in Nat
    BY <1>1, <1>3
  <2>3. /\ SubSeq(t, q + 1, q + length) \in Seq(Byte) /\ Len(SubSeq(t, q + 1, q + length)) = length
        /\ \A i \in 1 .. length : SubSeq(t, q + 1, q + length)[i] = t[q + i]
    BY ONLY <2>1, <2>2, SubSeqIs
  <2> QED BY <2>3 DEF y
<1> HIDE DEF y, q2
<1>9. Joins(x, r.buf, y, n, length)
  <2>1. r.buf \in Seq(Byte) /\ Len(r.buf) = n
    BY <1>2 DEF n
  <2> QED BY <1>1, <1>8, <2>1, JoinsIs
<1> HIDE DEF x
<1>10. x \in Seq(Byte) /\ Len(x) = n + length
  BY <1>9 DEF Joins
<1>11. s2 \in Status /\ s2.number = q2 % BlockLen
  <2>1. q2 \in 0 .. Len(cipher)
    BY <1>3, <1>4
  <2> QED BY <1>3, <2>1, StatusType, NumberIs DEF s2
<1>12. w2 \in Nat /\ w2 >= n + length /\ w2 >= w
  BY <1>1, <1>5
<1>13. /\ z \in Reader /\ z.position = p /\ z.decPos = q2 /\ z.buf = x /\ z.room = w2
       /\ z.bufPos = b /\ z.discard = k /\ z.ok = TRUE /\ z.crypter = s2
  <2>1. r \in Reader /\ w2 \in Nat /\ x \in Seq(Byte) /\ q2 \in Nat /\ s2 \in Status
    BY <1>2, <1>4, <1>10, <1>11, <1>12
  <2>2. z \in Reader
    BY ONLY <2>1 DEF z, Reader
  <2>3. /\ z.position = r.position /\ z.decPos = q2 /\ z.buf = x /\ z.room = w2
        /\ z.bufPos = r.bufPos /\ z.discard = r.discard /\ z.ok = r.ok /\ z.crypter = s2
    BY ONLY <2>1 DEF z, Reader
  <2> QED BY <1>2, <2>2, <2>3 DEF p, b, k
<1>14. f = z
  <2> DEFINE c == q2 = Size \/ s2.number = 0
  <2>1. c = TRUE
    BY <1>4, <1>11 DEF Whole
  <2> HIDE DEF c
  <2>2. Check(z, c) = z
    BY <1>13, <2>1, CheckIs
  <2> QED BY <1>7, <2>2 DEF c
<1>15. Offs(z) = o /\ Left(z) = l + length
  <2>1. Offs(z) = q2 - (n + length) /\ Left(z) = (n + length) - b
    BY <1>10, <1>13 DEF Offs, Left
  <2> QED BY <1>1, <1>4, <2>1
<1>16. Holds(x, g, t, o)
  <2> SUFFICES ASSUME NEW i \in g + 1 .. n + length PROVE x[i] = t[o + i]
    BY <1>10 DEF Holds
  <2>1. CASE i <= n
    <3>1. i \in 1 .. n /\ i \in g + 1 .. n
      BY <1>1, <2>1
    <3>2. x[i] = r.buf[i]
      BY <1>9, <3>1 DEF Joins
    <3>3. r.buf[i] = t[o + i]
      BY <1>2, <3>1 DEF Holds, n
    <3> QED BY <3>2, <3>3
  <2>2. CASE ~ (i <= n)
    <3> DEFINE j == i - n
    <3>1. j \in 1 .. length /\ i = n + j /\ o + i = q + j
      BY <1>1, <2>2
    <3> HIDE DEF j
    <3>2. x[n + j] = y[j] /\ y[j] = t[q + j]
      BY <1>8, <1>9, <3>1 DEF Joins
    <3> QED BY <3>1, <3>2
  <2> QED BY <2>1, <2>2
<1>17. Aligned(z)
  BY <1>4, <1>13 DEF Aligned
<1>18. Reading(z, g, t, ck, v)
  <2>1. b <= n + length /\ n + length <= w2 /\ BlockLen <= w2 /\ g \in 0 .. BlockLen - 1
    BY <1>1, <1>12, BlockAssumption
  <2>2. q2 <= Size /\ n + length <= q2 /\ p = o + b /\ g <= b /\ g <= k
    BY <1>1, <1>4
  <2>3. Holds(z.buf, g, t, Offs(z)) /\ z.crypter = StatusAt(cipher, ck, v, z.decPos) /\ z.ok = TRUE
    BY <1>13, <1>15, <1>16 DEF s2
  <2> QED BY <1>10, <1>13, <1>15, <1>17, <2>1, <2>2, <2>3 DEF Reading
<1> QED BY <1>4, <1>13, <1>14, <1>15, <1>17, <1>18 DEF p, q, b, l, k

-----------------------------------------------------------------------------
\* consumeBytes, in parts.  The beginning of a record is marked.
Marked(d, discardPreData) == IF discardPreData THEN [d EXCEPT !.discard = d.bufPos] ELSE d

\* Blocks are given up to make room, and length bytes are decrypted.
Refilled(d, length) ==
    LET e == Decrypt(Region(d.decPos, length), d.crypter)
    IN  Filled(Dropped(d, Recycled(d, length)), length, e,
               d.decPos + length = Size \/ e.status.number = 0)

\* consumeBytes of a reader that has been marked, or need not be.
Consumed(m, n) == IF Left(m) >= n THEN m ELSE Refilled(m, ToDecrypt(m, n - Left(m)))

\* The parts make consumeBytes.
LEMMA ConsumeParts ==
    ASSUME NEW d, NEW n
    PROVE  /\ ConsumeBytes(d, n, TRUE) = Consumed(Marked(d, TRUE), n)
           /\ ConsumeBytes(d, n, FALSE) = Consumed(d, n)
<1>1. ASSUME NEW b PROVE ConsumeBytes(d, n, b) = Consumed(Marked(d, b), n)
  BY ZenonT(30) DEF ConsumeBytes, Consumed, Marked, Refilled, Dropped, Filled
<1>2. Marked(d, FALSE) = d
  BY DEF Marked
<1> QED BY <1>1, <1>2

\* A reader that begins a record where it stands is the same reader.
LEMMA MarkedIs ==
    ASSUME NEW d, NEW g, NEW t, NEW ck, NEW v, Reading(d, g, t, ck, v), NEW m, m = Marked(d, TRUE)
    PROVE  /\ Reading(m, g, t, ck, v) /\ m.position = d.position /\ m.decPos = d.decPos
           /\ m.bufPos = d.bufPos /\ Left(m) = Left(d) /\ m.discard <= m.bufPos
<1>1. d.bufPos \in Nat /\ d.bufPos <= d.bufPos /\ d \in Reader /\ g <= d.bufPos
  <2>1. d.bufPos \in Nat /\ g <= d.bufPos
    BY ReadingParts
  <2> QED BY <2>1 DEF Reading
<1>2. m = [d EXCEPT !.discard = d.bufPos]
  BY DEF Marked
<1>3. /\ m \in Reader /\ m.position = d.position /\ m.decPos = d.decPos /\ m.buf = d.buf
      /\ m.room = d.room /\ m.bufPos = d.bufPos /\ m.discard = d.bufPos /\ m.ok = d.ok
      /\ m.crypter = d.crypter
  BY ONLY <1>1, <1>2 DEF Reader
<1>4. Left(m) = Left(d) /\ Offs(m) = Offs(d)
  BY <1>3 DEF Left, Offs
<1>5. Reading(m, g, t, ck, v)
  BY <1>1, <1>3, <1>4 DEF Reading, Aligned
<1> QED BY <1>1, <1>3, <1>4, <1>5

\* What may be dropped is whole blocks before the record.
LEMMA RecycledIs ==
    ASSUME NEW d, d.discard \in Nat, NEW length
    PROVE  Recycled(d, length) \in Nat /\ Whole(Recycled(d, length)) /\ Recycled(d, length) <= d.discard
<1> DEFINE b == d.discard \div BlockLen
           r == d.discard % BlockLen
<1>1. b \in Nat /\ r \in 0 .. BlockLen - 1 /\ d.discard = Base(b) + r /\ Base(b) \in Nat
  BY DivMod, BaseNat
<1>2. Recycled(d, length) = Base(b) \/ Recycled(d, length) = 0
  BY DEF Recycled, Base
<1> HIDE DEF b, r
<1>3. Whole(0) /\ Whole(Base(b))
  <2>1. Base(0) = 0 /\ 0 \in Nat
    BY Base0
  <2> QED BY <1>1, <2>1, WholeIs
<1>4. 0 <= d.discard /\ Base(b) <= d.discard
  BY <1>1, BlockAssumption
<1> QED BY <1>1, <1>2, <1>3, <1>4

\* The reader e reads where d did, with n bytes more decrypted, or all there are,
\* and has given up nothing of the record being read.
ReadsOn(d, n, e, t, ck, v) ==
    /\ \E h \in 0 .. BlockLen - 1 : Reading(e, h, t, ck, v)
    /\ e.position = d.position /\ e.discard <= e.bufPos
    /\ e.bufPos - e.discard >= d.bufPos - d.discard
    /\ Left(e) >= n \/ Left(e) = Size - d.position
    /\ n >= 1 \/ Aligned(d) => Aligned(e)

\* consumeBytes leaves the reader reading where it was, with at least n bytes
\* decrypted, or all there are; it gives up nothing of the record being read.
LEMMA ConsumeIs ==
    ASSUME NEW t, NEW ck, NEW v, IsCfb(cipher, t, ck, v), NEW m, NEW g, Reading(m, g, t, ck, v),
           m.discard <= m.bufPos, NEW n \in Nat, NEW e, e = Consumed(m, n)
    PROVE  ReadsOn(m, n, e, t, ck, v)
<1> SUFFICES /\ \E h \in 0 .. BlockLen - 1 : Reading(e, h, t, ck, v)
             /\ e.position = m.position /\ e.discard <= e.bufPos
             /\ e.bufPos - e.discard >= m.bufPos - m.discard
             /\ Left(e) >= n \/ Left(e) = Size - m.position
             /\ n >= 1 \/ Aligned(m) => Aligned(e)
  BY DEF ReadsOn
<1>2. e = IF Left(m) >= n THEN m ELSE Refilled(m, ToDecrypt(m, n - Left(m)))
  BY DEF Consumed
<1>1. Reading(m, g, t, ck, v)
  OBVIOUS
<1>3. /\ m.position \in Nat /\ m.decPos \in Nat /\ m.bufPos \in Nat /\ m.discard \in Nat
      /\ Left(m) \in Nat /\ m.position + Left(m) = m.decPos /\ m.decPos <= Size
      /\ m.crypter = StatusAt(cipher, ck, v, m.decPos)
  BY <1>1, ReadingParts
<1>4. g \in 0 .. BlockLen - 1 /\ (Aligned(m) \/ Left(m) = 0)
  BY <1>1 DEF Reading
<1>5. CASE Left(m) >= n
  <2>1. e = m
    BY <1>2, <1>5
  <2>2. \E h \in 0 .. BlockLen - 1 : Reading(e, h, t, ck, v)
    BY <1>1, <1>4, <2>1
  <2>3. e.bufPos - e.discard >= m.bufPos - m.discard
    BY <1>3, <2>1
  <2>4. n >= 1 \/ Aligned(m) => Aligned(e)
    <3>1. ASSUME n >= 1 PROVE Aligned(m)
      BY <1>3, <1>4, <1>5, <3>1
    <3> QED BY <2>1, <3>1
  <2> QED BY <1>1, <1>5, <2>1, <2>2, <2>3, <2>4
<1>6. CASE ~ (Left(m) >= n)
  <2> DEFINE l == Left(m)
             k == n - l
             q == m.decPos
             want == Asked(q % BlockLen, k)
             length == ToDecrypt(m, k)
             back == Recycled(m, length)
             r == Dropped(m, back)
             x == Decrypt(Region(q, length), m.crypter)
  <2>1. e = Refilled(m, length)
    BY <1>2, <1>6
  <2>s. Size \in Nat
    BY LenProperties DEF Size, IsCfb
  <2>2. length = Least(Size - q, want)
    <3>1. m.crypter.number = q % BlockLen
      BY <1>3, NumberIs
    <3>2. ToDecrypt(m, k) = Least(Size - m.decPos, Asked(m.crypter.number, k))
      BY DEF ToDecrypt, Asked
    <3> QED BY <3>1, <3>2
  <2>3. k \in Nat /\ k + l = n /\ k >= 1
    BY <1>3, <1>6
  <2>f. e = Filled(r, length, x, q + length = Size \/ x.status.number = 0)
    BY <2>1 DEF Refilled
  <2> HIDE DEF k, length
  <2>4. want \in Nat /\ want >= k /\ Whole(q + want)
    BY <1>3, <2>3, AskedIs
  <2> HIDE DEF want
  <2>5. /\ length \in Nat /\ q + length <= Size /\ (q + length = Size \/ Whole(q + length))
        /\ (length >= k \/ q + length = Size)
    <3>1. CASE Size - q < want
      <4>1. length = Size - q
        BY <2>2, <3>1 DEF Least
      <4> HIDE DEF q
      <4>2. q \in Nat /\ q <= Size
        BY <1>3 DEF q
      <4>3. length \in Nat /\ q + length = Size
        BY <2>s, <4>1, <4>2
      <4> QED BY <2>s, <4>3
    <3>2. CASE ~ (Size - q < want)
      <4>1. length = want
        BY <2>2, <3>2 DEF Least
      <4> HIDE DEF q
      <4>2. q \in Nat /\ q <= Size
        BY <1>3 DEF q
      <4>3. q + length <= Size
        BY <2>s, <2>4, <3>2, <4>1, <4>2
      <4> QED BY <2>4, <4>1, <4>3
    <3> QED BY <3>1, <3>2
  <2>6. back \in Nat /\ Whole(back) /\ back <= m.discard
    BY <1>3, RecycledIs
  <2> HIDE DEF back
  <2>7. /\ \E h \in 0 .. BlockLen - 1 : Reading(r, h, t, ck, v)
        /\ r.position = m.position /\ r.decPos = q /\ r.crypter = m.crypter
        /\ Left(r) = l /\ r.discard <= r.bufPos
        /\ r.bufPos - r.discard >= m.bufPos - m.discard
    BY <1>1, <2>6, DropIs
  <2>8. PICK h \in 0 .. BlockLen - 1 : Reading(r, h, t, ck, v)
    BY <2>7
  <2> HIDE DEF r
  <2>9. /\ Reading(e, h, t, ck, v) /\ Aligned(e)
        /\ e.position = r.position /\ e.bufPos = r.bufPos /\ e.discard = r.discard
        /\ e.decPos = r.decPos + length /\ Left(e) = Left(r) + length
    <3>2. /\ r.decPos + length <= Size /\ (r.decPos + length = Size \/ Whole(r.decPos + length))
      BY <2>5, <2>7
    <3>3. e = FilledBy(r, length)
      BY <2>7, <2>f DEF FilledBy
    <3> HIDE DEF x
    <3> QED BY ONLY IsCfb(cipher, t, ck, v), <2>8, <2>5, <3>2, <3>3, FillIs
  <2>10. Left(e) >= n \/ Left(e) = Size - m.position
    <3>1. Left(e) = l + length /\ m.position + l = q /\ l \in Nat
      BY <1>1, <1>3, <2>7, <2>9
    <3>2. q \in Nat /\ m.position \in Nat
      BY <1>1, <1>3
    <3> DEFINE a == Left(e)
               p == m.position
    <3> HIDE DEF l, q, a, p
    <3>3. a = l + length /\ p + l = q /\ l \in Nat /\ q \in Nat /\ p \in Nat
      BY <3>1, <3>2 DEF a, p
    <3>4. a >= n \/ a = Size - p
      BY <2>s, <2>3, <2>5, <3>3
    <3> QED BY <3>4 DEF a, p
  <2>11. e.bufPos - e.discard >= m.bufPos - m.discard
    BY <2>7, <2>9
  <2> QED BY <1>1, <2>7, <2>8, <2>9, <2>10, <2>11
<1> QED BY <1>5, <1>6

-----------------------------------------------------------------------------
\* Taking bytes the buffer holds.
LEMMA TakeIs ==
    ASSUME NEW d, NEW g, NEW t, NEW ck, NEW v, Reading(d, g, t, ck, v),
           NEW n \in Nat, n <= Left(d), NEW r, r = Take(d, n)
    PROVE  /\ Reading(r, g, t, ck, v)
           /\ r.position = d.position + n /\ r.decPos = d.decPos /\ r.bufPos = d.bufPos + n
           /\ r.discard = d.discard /\ r.buf = d.buf /\ Left(r) = Left(d) - n
           /\ r.crypter = d.crypter /\ (Aligned(d) => Aligned(r))
<1> DEFINE p == d.position
           q == d.decPos
           m == Len(d.buf)
           b == d.bufPos
           w == d.room
           l == Left(d)
           o == Offs(d)
           k == d.discard
           p2 == p + n
           b2 == b + n
<1>1. /\ p \in Nat /\ q \in Nat /\ m \in Nat /\ b \in Nat /\ k \in Nat /\ w \in Nat /\ l \in Nat
      /\ b <= m /\ m <= w /\ o \in Nat /\ o + m = q /\ p = o + b /\ q <= Size /\ g <= b /\ g <= k
      /\ g \in Nat /\ g <= BlockLen - 1 /\ BlockLen <= w /\ p + l = q /\ l = m - b
  BY ReadingParts
<1>2. /\ d.ok = TRUE /\ d.buf \in Seq(Byte) /\ d \in Reader /\ g \in 0 .. BlockLen - 1
      /\ d.crypter = StatusAt(cipher, ck, v, q) /\ Holds(d.buf, g, t, o) /\ (Aligned(d) \/ l = 0)
  BY ReadingParts DEF Reading
<1>3. r = [d EXCEPT !.bufPos = b2, !.position = p2]
  BY DEF Take
<1>n. n \in Nat /\ n <= l /\ p2 = p + n /\ b2 = b + n
  OBVIOUS
<1> HIDE DEF p, q, m, b, w, l, o, k, p2, b2
<1>4. p2 \in Nat /\ b2 \in Nat /\ p2 = o + b2 /\ b2 <= m /\ g <= b2
  BY ONLY <1>1, <1>n
<1>5. /\ r \in Reader /\ r.position = p2 /\ r.decPos = q /\ r.buf = d.buf /\ r.room = w
      /\ r.bufPos = b2 /\ r.discard = k /\ r.ok = TRUE /\ r.crypter = d.crypter
  <2>1. r \in Reader
    BY ONLY <1>2, <1>3, <1>4 DEF Reader
  <2>2. /\ r.position = p2 /\ r.decPos = d.decPos /\ r.buf = d.buf /\ r.room = d.room
        /\ r.bufPos = b2 /\ r.discard = d.discard /\ r.ok = d.ok /\ r.crypter = d.crypter
    BY ONLY <1>2, <1>3, <1>4 DEF Reader
  <2> QED BY <1>2, <2>1, <2>2 DEF q, w, k
<1>6. Offs(r) = o /\ Left(r) = m - b2 /\ Offs(d) = o
  BY <1>5 DEF Offs, Left, q, m, o
<1>7. Left(r) = l - n
  BY ONLY <1>1, <1>n, <1>6
<1>8. (Aligned(d) => Aligned(r)) /\ (Aligned(r) \/ Left(r) = 0)
  <2>1. Aligned(d) => Aligned(r)
    BY <1>5 DEF Aligned, q
  <2>2. l = 0 => Left(r) = 0
    BY ONLY <1>1, <1>n, <1>7
  <2> QED BY <1>2, <2>1, <2>2
<1>9. Reading(r, g, t, ck, v)
  <2>1. Len(r.buf) = m /\ m <= q
    BY <1>1, <1>5, SMTT(30) DEF m
  <2> QED BY <1>1, <1>2, <1>4, <1>5, <1>6, <1>8, <2>1 DEF Reading
<1> QED BY <1>5, <1>7, <1>8, <1>9, <1>n DEF p, q, b, l, k

\* readRawByte, with a byte left: its asserts hold.
LEMMA RawByteIs ==
    ASSUME NEW d, NEW g, NEW t, NEW ck, NEW v, Reading(d, g, t, ck, v), Left(d) >= 1
    PROVE  ReadRawByte(d) = Take(d, 1) /\ d.position < Size
<1> DEFINE x == Take(d, 1)
           c == d.position <= d.decPos /\ d.position < Size /\ d.bufPos < d.room
<1>1. ReadRawByte(d) = Check(x, c)
  BY DEF ReadRawByte
<1>s. Size \in Int
  BY LenProperties DEF Size
<1>2. d.position <= d.decPos /\ d.position < Size /\ d.bufPos < d.room
  <2> DEFINE p == d.position
             q == d.decPos
             b == d.bufPos
             m == Len(d.buf)
             w == d.room
             l == Left(d)
  <2>1. /\ p \in Nat /\ q \in Nat /\ m \in Nat /\ b \in Nat /\ w \in Nat /\ l \in Nat
        /\ m <= w /\ q <= Size /\ p + l = q /\ l = m - b /\ l >= 1
    BY ReadingParts
  <2> HIDE DEF p, q, b, m, w, l
  <2>2. p <= q /\ p < Size /\ b < w
    BY ONLY <1>s, <2>1
  <2> QED BY <2>2 DEF p, q, b, w
<1>3. c = TRUE
  BY <1>2
<1>4. x \in Reader /\ x.ok = TRUE
  <2>1. 1 \in Nat /\ 1 <= Left(d) /\ x = Take(d, 1)
    BY ReadingParts
  <2> HIDE DEF x
  <2>2. Reading(x, g, t, ck, v)
    BY <2>1, TakeIs
  <2> QED BY <2>2 DEF Reading
<1> HIDE DEF c, x
<1>5. Check(x, c) = x
  BY <1>3, <1>4, CheckIs
<1> QED BY <1>1, <1>2, <1>5 DEF x

\* What the buffer holds ahead of the reader is the text there.
LEMMA HeldIs ==
    ASSUME NEW d, NEW g, NEW t, NEW ck, NEW v, Reading(d, g, t, ck, v), IsCfb(cipher, t, ck, v),
           NEW n \in Nat, n <= Left(d)
    PROVE  /\ \A i \in 1 .. n : d.buf[d.bufPos + i] = t[d.position + i]
           /\ SubSeq(d.buf, d.bufPos + 1, d.bufPos + n) = SubSeq(t, d.position + 1, d.position + n)
           /\ d.position + n <= Len(t)
<1> DEFINE p == d.position
           q == d.decPos
           m == Len(d.buf)
           b == d.bufPos
           l == Left(d)
           o == Offs(d)
<1>1. /\ p \in Nat /\ q \in Nat /\ m \in Nat /\ b \in Nat /\ l \in Nat /\ o \in Nat
      /\ b <= m /\ o + m = q /\ p = o + b /\ q <= Size /\ g <= b
      /\ g \in Nat /\ p + l = q /\ l = m - b /\ n <= l /\ n \in Nat
  BY ReadingParts
<1>2. d.buf \in Seq(Byte) /\ Holds(d.buf, g, t, o)
  BY ReadingParts DEF Reading
<1>3. /\ t \in Seq(Byte) /\ Len(t) = Size /\ Size \in Nat
  BY LenProperties DEF IsCfb, Size
<1> HIDE DEF p, q, m, b, l, o
<1>4. ASSUME NEW i \in 1 .. n PROVE d.buf[b + i] = t[p + i]
  <2> DEFINE j == b + i
  <2>1. j = b + i
    OBVIOUS
  <2> HIDE DEF j
  <2>2. j \in g + 1 .. m /\ p + i = o + j
    BY ONLY <1>1, <2>1, i \in 1 .. n
  <2>3. d.buf[j] = t[o + j]
    BY <1>2, <2>2 DEF Holds, m
  <2> QED BY <2>1, <2>2, <2>3
<1>5. b + n <= m /\ p + n <= Len(t)
  BY ONLY <1>1, <1>3
<1>6. SubSeq(d.buf, b + 1, b + n) = SubSeq(t, p + 1, p + n)
  <2> DEFINE x == SubSeq(d.buf, b + 1, b + n)
             y == SubSeq(t, p + 1, p + n)
  <2>m. Len(d.buf) = m
    BY DEF m
  <2>1. x \in Seq(Byte) /\ Len(x) = n /\ \A i \in 1 .. n : x[i] = d.buf[b + i]
    BY ONLY <1>1, <1>2, <1>5, <2>m, SubSeqIs DEF x
  <2>2. y \in Seq(Byte) /\ Len(y) = n /\ \A i \in 1 .. n : y[i] = t[p + i]
    BY ONLY <1>1, <1>3, <1>5, SubSeqIs DEF y
  <2> HIDE DEF x, y
  <2>3. \A i \in 1 .. n : x[i] = y[i]
    BY <1>4, <2>1, <2>2
  <2>4. x = y
    BY <2>1, <2>2, <2>3, SeqSame
  <2> QED BY <2>4 DEF x, y
<1> QED BY <1>4, <1>5, <1>6 DEF p, b

-----------------------------------------------------------------------------
\* The last stretch of what skipBytes decrypts ends where that does and begins
\* before what lacks has been skipped.
LEMMA StretchIs ==
    ASSUME NEW n \in Nat, n >= 1, NEW size \in Nat, n <= size, size <= Up(n),
           NEW x, x = LastStretch(size)
    PROVE  x \in 1 .. BlockLen /\ x <= size /\ size - n < x
<1>1. BlockLen \in Nat /\ BlockLen >= 1 /\ 0 \in 0 .. BlockLen - 1
  BY BlockAssumption
<1>2. Up(n) \in Nat /\ Up(n) >= n
  BY UpIs
<1>3. PICK c \in Nat : Up(n) = Base(c) /\ Base(c) < n + BlockLen
  <2> DEFINE m == n + BlockLen - 1
             b == m \div BlockLen
             r == m % BlockLen
  <2>1. m \in Nat
    BY <1>1
  <2>2. b \in Nat /\ r \in 0 .. BlockLen - 1 /\ m = Base(b) + r
    BY <2>1, DivMod
  <2>3. Up(n) = Base(b)
    BY DEF Up, Base
  <2>m. m = n + BlockLen - 1
    OBVIOUS
  <2> HIDE DEF b, r, m
  <2>4. Base(b) < n + BlockLen
    BY <1>1, <2>2, <2>m, BaseNat
  <2> QED BY <2>2, <2>3, <2>4
<1>4. c # 0
  BY <1>2, <1>3, Base0
<1> DEFINE d == c - 1
<1>5. d \in Nat /\ d + 1 = c
  BY <1>4
<1> HIDE DEF d
<1>6. Base(d) \in Nat /\ Base(c) = Base(d) + BlockLen
  BY <1>5, BaseNat, BaseNext
<1> DEFINE r == size - Base(d)
<1>r. r = size - Base(d)
  OBVIOUS
<1> HIDE DEF r
<1>7. r \in 1 .. BlockLen /\ size = Base(d) + r /\ Base(d) < n
  BY ONLY <1>1, <1>2, <1>3, <1>6, <1>r, n \in Nat, size \in Nat, n <= size, size <= Up(n)
<1>8. x = r
  <2>1. CASE r = BlockLen
    <3>1. size = Base(c) + 0 /\ c \in Nat
      BY <1>1, <1>6, <1>7, <2>1
    <3>2. size % BlockLen = 0
      BY <1>1, <3>1, PlaceOf
    <3> QED BY <2>1, <3>2 DEF LastStretch
  <2>2. CASE r # BlockLen
    <3>1. r \in 0 .. BlockLen - 1 /\ r # 0
      BY <1>1, <1>7, <2>2
    <3>2. size % BlockLen = r
      BY <1>5, <1>7, <3>1, PlaceOf
    <3> QED BY <3>1, <3>2 DEF LastStretch
  <2> QED BY <2>1, <2>2
<1>9. x <= size /\ size - n < x
  BY ONLY <1>6, <1>7, <1>8, n \in Nat, size \in Nat
<1> QED BY <1>7, <1>8, <1>9

\* skipBytes when the buffer lacks bytes: what it decrypts, and what stays.
SkippedBy(d, n, size, x) ==
    LET e == Decrypt(Region(d.decPos, size), d.crypter)
        place == x - (size - (n - Left(d)))
    IN  Check([d EXCEPT !.position = @ + n, !.buf = SubSeq(e.out, size - x + 1, size),
                        !.bufPos = place, !.decPos = @ + size, !.crypter = e.status],
              d.crypter.number = 0 /\ place <= x)

\* skipBytes, in parts.
LEMMA SkipParts ==
    ASSUME NEW d, NEW n
    PROVE  LET size == Least(Up(n - Left(d)), Size - d.decPos)
           IN  SkipBytes(d, n) = IF n - Left(d) <= 0 THEN Take(d, n)
                                 ELSE SkippedBy(d, n, size, LastStretch(size))
BY Zenon DEF SkipBytes, SkippedBy, Skipped

\* skipBytes past what is decrypted: the buffer becomes the last stretch.
LEMMA SkippedIs ==
    ASSUME NEW t, NEW ck, NEW v, IsCfb(cipher, t, ck, v), NEW d, NEW g, Reading(d, g, t, ck, v),
           Aligned(d), NEW n \in Nat, NEW k \in Nat, k >= 1, n = Left(d) + k,
           NEW size \in Nat, k <= size, size <= Up(k), d.decPos + size <= Size,
           d.decPos + size = Size \/ size = Up(k),
           NEW x, x = LastStretch(size), NEW r, r = SkippedBy(d, n, size, x)
    PROVE  Reading(r, 0, t, ck, v) /\ r.position = d.position + n
<1> DEFINE p == d.position
           q == d.decPos
           w == d.room
           l == Left(d)
           a == size - x
           place == x - (size - (n - Left(d)))
           p2 == p + n
           q2 == q + size
           o2 == q + a
           s2 == StatusAt(cipher, ck, v, q2)
           y == SubSeq(t, q + 1, q + size)
           e == Decrypt(Region(d.decPos, size), d.crypter)
           b2 == SubSeq(y, a + 1, size)
           z == [d EXCEPT !.position = p2, !.buf = b2, !.bufPos = place, !.decPos = q2,
                          !.crypter = s2]
<1>1. /\ p \in Nat /\ q \in Nat /\ w \in Nat /\ l \in Nat /\ q <= Size /\ BlockLen <= w
      /\ p + l = q /\ n = l + k
  BY ReadingParts
<1>2. /\ d.ok = TRUE /\ d \in Reader /\ d.crypter = StatusAt(cipher, ck, v, q)
      /\ Aligned(d)
  BY ReadingParts DEF Reading
<1>3. /\ cipher \in Seq(Byte) /\ t \in Seq(Byte) /\ Len(t) = Size /\ ck \in CryptKeys /\ v \in Block
      /\ Size \in Nat /\ Size = Len(cipher)
  BY LenProperties DEF IsCfb, Size
<1>4. /\ q + size <= Size /\ (q2 = Size \/ size = Up(k)) /\ q2 = q + size /\ p2 = p + n
      /\ a = size - x /\ place = x - (size - (n - l)) /\ o2 = q + a
      /\ k >= 1 /\ k <= size /\ k \in Nat /\ size \in Nat /\ n \in Nat
  OBVIOUS
<1>5. x \in 1 .. BlockLen /\ x <= size /\ size - k < x
  BY StretchIs
<1>6. e = [out |-> y, status |-> s2]
  <2>1. Decrypt(Region(q, size), StatusAt(cipher, ck, v, q))
          = [out |-> SubSeq(t, q + 1, q + size), status |-> StatusAt(cipher, ck, v, q + size)]
    <3> HIDE DEF q
    <3>1. q \in Nat /\ size \in Nat /\ q + size <= Len(cipher)
      BY <1>1, <1>3, <1>4
    <3>2. PieceRead(t, ck, v, q, size)
      BY ONLY <3>1, ReadAt, IsCfb(cipher, t, ck, v)
    <3> QED BY ONLY <3>2 DEF PieceRead
  <2> QED BY <1>2, <2>1
<1>7. r = Check(z, d.crypter.number = 0 /\ place <= x)
  <2>1. r = Check([d EXCEPT !.position = @ + n, !.buf = SubSeq(e.out, size - x + 1, size),
                            !.bufPos = place, !.decPos = @ + size, !.crypter = e.status],
                  d.crypter.number = 0 /\ place <= x)
    BY Zenon DEF SkippedBy
  <2> HIDE DEF e, y, s2, place
  <2>2. e.out = y /\ e.status = s2
    BY <1>6
  <2> QED BY <2>1, <2>2, Zenon
<1> HIDE DEF p, q, w, l, e, a, place, p2, q2, o2, s2, z
<1>8. y \in Seq(Byte) /\ Len(y) = size /\ \A i \in 1 .. size : y[i] = t[q + i]
  <2>1. q + size <= Len(t) /\ t \in Seq(Byte) /\ q \in Nat /\ size \in Nat
    BY <1>1, <1>3, <1>4
  <2>3. /\ SubSeq(t, q + 1, q + size) \in Seq(Byte) /\ Len(SubSeq(t, q + 1, q + size)) = size
        /\ \A i \in 1 .. size : SubSeq(t, q + 1, q + size)[i] = t[q + i]
    BY ONLY <2>1, SubSeqIs
  <2> QED BY <2>3 DEF y
<1> HIDE DEF y
<1>9. /\ a \in Nat /\ a + x = size /\ x \in Nat /\ place \in Nat /\ place <= x
      /\ p2 \in Nat /\ q2 \in Nat /\ o2 \in Nat /\ o2 + x = q2 /\ p2 = o2 + place
      /\ x <= w /\ q2 <= Size /\ x <= q2
  BY ONLY <1>1, <1>3, <1>4, <1>5, BlockAssumption
<1>10. b2 \in Seq(Byte) /\ Len(b2) = x /\ \A i \in 1 .. x : b2[i] = t[o2 + i]
  <2> HIDE DEF b2
  <2>1. /\ SubSeq(y, a + 1, a + x) \in Seq(Byte) /\ Len(SubSeq(y, a + 1, a + x)) = x
        /\ \A i \in 1 .. x : SubSeq(y, a + 1, a + x)[i] = y[a + i]
    <3>1. a + x <= Len(y) /\ y \in Seq(Byte) /\ a \in Nat /\ x \in Nat
      BY <1>8, <1>9
    <3> QED BY ONLY <3>1, SubSeqIs
  <2>2. b2 = SubSeq(y, a + 1, a + x)
    BY <1>9 DEF b2
  <2>3. ASSUME NEW i \in 1 .. x PROVE y[a + i] = t[o2 + i]
    <3> DEFINE j == a + i
    <3>1. j = a + i
      OBVIOUS
    <3> HIDE DEF j
    <3>2. j \in 1 .. size /\ o2 + i = q + j
      BY ONLY <1>1, <1>4, <1>9, <3>1, i \in 1 .. x
    <3> QED BY <1>8, <3>1, <3>2
  <2> QED BY <2>1, <2>2, <2>3
<1> HIDE DEF b2
<1>11. s2 \in Status
  <2>1. q2 \in 0 .. Len(cipher)
    BY <1>3, <1>9
  <2> QED BY <1>3, <2>1, StatusType DEF s2
<1>12. /\ z \in Reader /\ z.position = p2 /\ z.decPos = q2 /\ z.buf = b2 /\ z.room = w
       /\ z.bufPos = place /\ z.ok = TRUE /\ z.crypter = s2 /\ z.discard \in Nat
  <2>1. d \in Reader /\ p2 \in Nat /\ b2 \in Seq(Byte) /\ q2 \in Nat /\ s2 \in Status /\ place \in Nat
    BY <1>2, <1>9, <1>10, <1>11
  <2>2. z \in Reader
    BY ONLY <2>1 DEF z, Reader
  <2>3. /\ z.position = p2 /\ z.decPos = q2 /\ z.buf = b2 /\ z.room = d.room
        /\ z.bufPos = place /\ z.ok = d.ok /\ z.crypter = s2 /\ z.discard = d.discard
    BY ONLY <2>1 DEF z, Reader
  <2>4. d.discard \in Nat
    BY <1>2 DEF Reader
  <2> QED BY <1>2, <2>2, <2>3, <2>4 DEF w
<1>13. Whole(q)
  <2>1. q < Size
    BY <1>1, <1>3, <1>4
  <2> QED BY <1>1, <1>2, <1>3, <2>1 DEF Aligned, q
<1>14. r = z
  <2> DEFINE c == d.crypter.number = 0 /\ place <= x
  <2>1. d.crypter.number = q % BlockLen
    BY <1>2, NumberIs
  <2>2. c = TRUE
    BY <1>9, <1>13, <2>1 DEF Whole
  <2> HIDE DEF c
  <2>3. Check(z, c) = z
    BY <1>12, <2>2, CheckIs
  <2> QED BY <1>7, <2>3 DEF c
<1>15. Offs(z) = o2
  <2>1. Offs(z) = q2 - x
    BY <1>10, <1>12 DEF Offs
  <2> QED BY <1>9, <2>1
<1>16. Holds(z.buf, 0, t, o2)
  <2> SUFFICES ASSUME NEW i \in 0 + 1 .. x PROVE b2[i] = t[o2 + i]
    BY <1>10, <1>12 DEF Holds
  <2>1. i \in 1 .. x
    OBVIOUS
  <2> QED BY <1>10, <2>1
<1>17. Aligned(z)
  <2>1. CASE q2 = Size
    BY <1>12, <2>1 DEF Aligned
  <2>2. CASE size = Up(k)
    <3>1. PICK b \in Nat : q = Base(b)
      BY <1>1, <1>13, WholeIs
    <3>2. PICK c \in Nat : size = Base(c)
      BY <1>4, <2>2, UpIs
    <3>3. q2 = Base(b + c) /\ b + c \in Nat
      BY <1>4, <3>1, <3>2, BaseAdd
    <3>4. Whole(q2)
      BY <1>9, <3>3, WholeIs
    <3> QED BY <1>12, <3>4 DEF Aligned
  <2> QED BY <1>4, <2>1, <2>2
<1>18. Reading(z, 0, t, ck, v)
  <2>1. 0 \in 0 .. BlockLen - 1 /\ 0 <= place /\ 0 <= z.discard
    BY <1>9, <1>12, BlockAssumption
  <2>2. z.crypter = StatusAt(cipher, ck, v, z.decPos)
    BY <1>12 DEF s2
  <2> QED BY <1>1, <1>9, <1>10, <1>12, <1>15, <1>16, <1>17, <2>1, <2>2 DEF Reading
<1> QED BY <1>4, <1>12, <1>14, <1>18 DEF p

\* skipBytes leaves the reader reading n bytes further.
LEMMA SkipIs ==
    ASSUME NEW t, NEW ck, NEW v, IsCfb(cipher, t, ck, v), NEW d, NEW g, Reading(d, g, t, ck, v),
           Aligned(d), NEW n \in Nat, d.position + n <= Size, NEW r, r = SkipBytes(d, n)
    PROVE  (\E h \in 0 .. BlockLen - 1 : Reading(r, h, t, ck, v)) /\ r.position = d.position + n
<1> DEFINE p == d.position
           q == d.decPos
           l == Left(d)
           k == n - l
           size == Least(Up(k), Size - q)
           x == LastStretch(size)
<1>1. p \in Nat /\ q \in Nat /\ l \in Nat /\ q <= Size /\ p + l = q
  BY ReadingParts
<1>2. Size \in Nat
  BY LenProperties DEF Size, IsCfb
<1>3. r = IF k <= 0 THEN Take(d, n) ELSE SkippedBy(d, n, size, x)
  BY SkipParts, Zenon
<1>4. g \in 0 .. BlockLen - 1 /\ 0 \in 0 .. BlockLen - 1
  BY BlockAssumption DEF Reading
<1>5. k = n - l /\ n \in Nat /\ p + n <= Size
  OBVIOUS
<1>6. size = Least(Up(k), Size - q)
  OBVIOUS
<1>7. x = LastStretch(size)
  OBVIOUS
<1> HIDE DEF p, q, l, k, size, x
<1>8. CASE k <= 0
  <2>1. n <= Left(d) /\ r = Take(d, n)
    BY <1>1, <1>3, <1>5, <1>8 DEF l
  <2>2. Reading(r, g, t, ck, v) /\ r.position = d.position + n
    BY <2>1, TakeIs
  <2> QED BY <1>4, <2>2
<1>9. CASE ~ (k <= 0)
  <2>1. k \in Nat /\ k >= 1 /\ n = l + k /\ q + k <= Size
    BY ONLY <1>1, <1>2, <1>5, <1>9
  <2>2. Up(k) \in Nat /\ Up(k) >= k
    BY <2>1, UpIs
  <2>3. /\ size \in Nat /\ k <= size /\ size <= Up(k) /\ q + size <= Size
        /\ (q + size = Size \/ size = Up(k))
    BY ONLY <1>1, <1>2, <1>6, <2>1, <2>2 DEF Least
  <2>4. r = SkippedBy(d, n, size, x)
    BY <1>3, <1>9
  <2>5. n = Left(d) + k /\ d.decPos + size <= Size /\ (d.decPos + size = Size \/ size = Up(k))
    BY <2>1, <2>3 DEF l, q
  <2>6. IsCfb(cipher, t, ck, v) /\ Reading(d, g, t, ck, v) /\ Aligned(d)
    OBVIOUS
  <2>7. Reading(r, 0, t, ck, v) /\ r.position = d.position + n
    BY ONLY <1>5, <1>7, <2>1, <2>3, <2>4, <2>5, <2>6, SkippedIs
  <2> QED BY <1>4, <2>7
<1> QED BY <1>8, <1>9

-----------------------------------------------------------------------------
\* statusBeforeDecrypt: rolled back over what has been read of the record and
\* whatever was read ahead, the cipher stands where the record begins.
LEMMA StatusBeforeIs ==
    ASSUME NEW t, NEW ck, NEW v, IsCfb(cipher, t, ck, v), NEW d, NEW g, Reading(d, g, t, ck, v),
           NEW n \in Nat, d.bufPos - n >= g
    PROVE  StatusBefore(d, n) = StatusAt(cipher, ck, v, d.position - n)
<1> DEFINE p == d.position
           q == d.decPos
           m == Len(d.buf)
           b == d.bufPos
           l == Left(d)
           o == Offs(d)
           back == n + l
           a == p - n
           c == m - back
           x == SubSeq(cipher, a + 1, a + back)
           y == SubSeq(d.buf, c + 1, c + back)
<1>1. /\ p \in Nat /\ q \in Nat /\ m \in Nat /\ b \in Nat /\ l \in Nat /\ o \in Nat
      /\ b <= m /\ o + m = q /\ p = o + b /\ q <= Size /\ g <= b
      /\ g \in Nat /\ p + l = q /\ l = m - b /\ n \in Nat /\ b - n >= g
  BY ReadingParts
<1>2. /\ d.buf \in Seq(Byte) /\ Holds(d.buf, g, t, o) /\ d.crypter = StatusAt(cipher, ck, v, q)
  BY ReadingParts DEF Reading
<1>3. /\ cipher \in Seq(Byte) /\ t \in Seq(Byte) /\ Len(t) = Size /\ Size \in Nat
      /\ Len(cipher) = Size
  BY LenProperties DEF IsCfb, Size
<1>b. back = n + l /\ a = p - n /\ c = m - back
  OBVIOUS
<1>s. StatusBefore(d, n) = Rollback(Region(q - back, back), SubSeq(d.buf, m - back + 1, m), d.crypter)
  BY DEF StatusBefore
<1>m. Len(d.buf) = m
  OBVIOUS
<1> HIDE DEF p, q, m, b, l, o, back, a, c
<1>4. /\ back \in Nat /\ a \in Nat /\ c \in Nat /\ a + back = q /\ c + back = m /\ c >= g
      /\ a = o + c /\ q - back = a
  BY ONLY <1>1, <1>b
<1>5. x \in Seq(Byte) /\ Len(x) = back /\ \A i \in 1 .. back : x[i] = cipher[a + i]
  <2>1. a + back <= Len(cipher) /\ cipher \in Seq(Byte) /\ a \in Nat /\ back \in Nat
    BY <1>1, <1>3, <1>4
  <2> QED BY ONLY <2>1, SubSeqIs DEF x
<1>6. y \in Seq(Byte) /\ Len(y) = back /\ \A i \in 1 .. back : y[i] = d.buf[c + i]
  <2>1. c + back <= Len(d.buf) /\ d.buf \in Seq(Byte) /\ c \in Nat /\ back \in Nat
    BY <1>2, <1>4, <1>m
  <2> QED BY ONLY <2>1, SubSeqIs DEF y
<1>7. Region(q - back, back) = x /\ SubSeq(d.buf, m - back + 1, m) = y
  <2>1. Region(q - back, back) = SubSeq(cipher, (q - back) + 1, (q - back) + back)
    BY DEF Region
  <2>2. SubSeq(d.buf, m - back + 1, m) = SubSeq(d.buf, c + 1, c + back)
    BY <1>4, <1>b
  <2> QED BY <1>4, <2>1, <2>2
<1> HIDE DEF x, y
<1>8. IsPiece(x, cipher, a, back)
  BY <1>1, <1>3, <1>4, <1>5 DEF IsPiece
<1>9. IsPiece(y, t, a, back)
  <2>1. ASSUME NEW i \in 1 .. back PROVE y[i] = t[a + i]
    <3> DEFINE j == c + i
    <3>1. j = c + i
      OBVIOUS
    <3> HIDE DEF j
    <3>2. j \in g + 1 .. m /\ o + j = a + i
      BY ONLY <1>1, <1>4, <3>1, i \in 1 .. back
    <3>3. d.buf[j] = t[o + j]
      BY <1>2, <1>m, <3>2 DEF Holds
    <3> QED BY <1>6, <3>1, <3>2, <3>3
  <2> QED BY <1>1, <1>3, <1>4, <1>6, <2>1 DEF IsPiece
<1>10. Rollback(x, y, StatusAt(cipher, ck, v, a + back)) = StatusAt(cipher, ck, v, a)
  BY <1>8, <1>9, RollbackIs
<1>11. StatusBefore(d, n) = StatusAt(cipher, ck, v, a)
  BY <1>2, <1>4, <1>7, <1>10, <1>s
<1> QED BY <1>11, <1>b DEF p

\* A reader of these fields has read up to n and holds nothing.
LEMMA OpenIs ==
    ASSUME NEW t, NEW ck, NEW v, IsCfb(cipher, t, ck, v), NEW n \in Nat, n <= Size,
           NEW c, c = StatusAt(cipher, ck, v, n), NEW d \in Reader,
           d.position = n, d.decPos = n, d.buf = [i \in 1 .. c.number |-> 0], d.room = 2 * BlockLen,
           d.bufPos = c.number, d.discard = c.number, d.ok = TRUE, d.crypter = c
    PROVE  \E g \in 0 .. BlockLen - 1 : Reading(d, g, t, ck, v)
<1> DEFINE g == c.number
           b == n \div BlockLen
<1>1. cipher \in Seq(Byte) /\ ck \in CryptKeys /\ v \in Block /\ n \in 0 .. Len(cipher)
  BY LenProperties DEF IsCfb, Size
<1>2. g \in 0 .. BlockLen - 1 /\ g = n % BlockLen
  BY <1>1, NumberIs, BlockAssumption
<1>3. n = Base(b) + g /\ Base(b) \in Nat
  BY <1>2, DivMod, BaseNat
<1>4. Len(d.buf) = g
  <2>1. g \in Nat
    BY <1>2, BlockAssumption
  <2>2. Len([i \in 1 .. g |-> 0]) = g
    BY <2>1
  <2> QED BY <2>2
<1>5. g \in Nat /\ g <= n /\ g <= 2 * BlockLen /\ BlockLen <= 2 * BlockLen /\ g <= g
  <2> DEFINE m == Base(b)
  <2>1. BlockLen \in Nat /\ BlockLen >= 1 /\ m \in Nat /\ n = m + g
    BY <1>3, BlockAssumption
  <2>2. g \in 0 .. BlockLen - 1
    BY <1>2
  <2> HIDE DEF g, b, m
  <2> QED BY ONLY <2>1, <2>2, n \in Nat
<1>6. Offs(d) = n - g /\ Left(d) = g - g
  BY <1>4 DEF Offs, Left
<1> HIDE DEF g, b
<1>7. Left(d) = 0 /\ n = Offs(d) + g
  BY ONLY <1>5, <1>6, n \in Nat
<1>8. Holds(d.buf, g, t, Offs(d))
  <2>1. g + 1 .. Len(d.buf) = {}
    BY ONLY <1>4, <1>5
  <2> QED BY <2>1, Zenon DEF Holds
<1>9. Reading(d, g, t, ck, v)
  BY <1>2, <1>4, <1>5, <1>7, <1>8 DEF Reading, g
<1> QED BY <1>2, <1>9

\* The constructor.
LEMMA NewReaderIs ==
    ASSUME NEW c \in Status, NEW d, d = NewReader(c)
    PROVE  /\ d \in Reader
           /\ d.position = 0 /\ d.decPos = 0 /\ d.buf = [i \in 1 .. c.number |-> 0]
           /\ d.room = 2 * BlockLen /\ d.bufPos = c.number /\ d.discard = c.number
           /\ d.ok = TRUE /\ d.crypter = c
<1> DEFINE g == c.number
           buf == [i \in 1 .. g |-> 0]
           room == 2 * BlockLen
<1>1. g \in Nat /\ room \in Nat
  BY BlockAssumption DEF Status
<1>2. buf \in Seq(Byte)
  BY <1>1, BlockAssumption DEF Byte
<1>3. d = [position |-> 0, decPos |-> 0, buf |-> buf, room |-> room, bufPos |-> g, discard |-> g,
           ok |-> TRUE, crypter |-> c]
  BY DEF NewReader
<1> HIDE DEF g, buf, room
<1>4. d \in Reader
  BY <1>1, <1>2, <1>3 DEF Reader
<1>5. /\ d.position = 0 /\ d.decPos = 0 /\ d.buf = buf
      /\ d.room = room /\ d.bufPos = g /\ d.discard = g /\ d.ok = TRUE /\ d.crypter = c
  BY <1>3
<1> QED BY <1>4, <1>5 DEF g, buf, room

\* A load opens the region at its beginning.
LEMMA OpenAtStart ==
    ASSUME NEW t, NEW ck, NEW v, IsCfb(cipher, t, ck, v), NEW d, d = NewReader(Reset(ck, v))
    PROVE  /\ \E g \in 0 .. BlockLen - 1 : Reading(d, g, t, ck, v)
           /\ d.position = 0 /\ d.discard <= d.bufPos /\ d.crypter = Reset(ck, v)
<1> DEFINE c == Reset(ck, v)
<1>1. c = StatusAt(cipher, ck, v, 0) /\ c \in Status /\ c.number = 0
  <2>1. cipher \in Seq(Byte) /\ ck \in CryptKeys /\ v \in Block /\ 0 \in 0 .. Len(cipher)
    BY LenProperties DEF IsCfb
  <2>2. c = StatusAt(cipher, ck, v, 0)
    BY StatusAtStart
  <2>3. StatusAt(cipher, ck, v, 0) \in Status
    BY <2>1, StatusType
  <2> QED BY <2>2, <2>3 DEF Reset
<1>2. d = NewReader(c)
  OBVIOUS
<1> HIDE DEF c
<1>3. /\ d \in Reader
      /\ d.position = 0 /\ d.decPos = 0 /\ d.buf = [i \in 1 .. c.number |-> 0]
      /\ d.room = 2 * BlockLen /\ d.bufPos = c.number /\ d.discard = c.number
      /\ d.ok = TRUE /\ d.crypter = c
  BY <1>1, <1>2, NewReaderIs
<1>4. 0 \in Nat /\ 0 <= Size
  BY LenProperties DEF Size, IsCfb
<1>5. \E g \in 0 .. BlockLen - 1 : Reading(d, g, t, ck, v)
  BY <1>1, <1>3, <1>4, OpenIs
<1> QED BY <1>1, <1>3, <1>5 DEF c

\* Another load continues where the crypter stands: seek's assert holds.
LEMMA OpenAtIs ==
    ASSUME NEW t, NEW ck, NEW v, IsCfb(cipher, t, ck, v), NEW n \in Nat, n <= Size,
           NEW c, c = StatusAt(cipher, ck, v, n), NEW d, d = Seek(NewReader(c), n)
    PROVE  /\ \E g \in 0 .. BlockLen - 1 : Reading(d, g, t, ck, v)
           /\ d.position = n /\ d.crypter = c
<1> DEFINE e == NewReader(c)
           p == e.position + n
           q == e.decPos + n
           z == [e EXCEPT !.position = p, !.decPos = q]
           ok == n % BlockLen = e.crypter.number
<1>1. cipher \in Seq(Byte) /\ ck \in CryptKeys /\ v \in Block /\ n \in 0 .. Len(cipher)
  BY LenProperties DEF IsCfb, Size
<1>2. c \in Status /\ c.number = n % BlockLen
  BY <1>1, StatusType, NumberIs
<1>3. d = Check(z, ok)
  BY DEF Seek
<1>4. e = NewReader(c) /\ p = e.position + n /\ q = e.decPos + n
  OBVIOUS
<1> HIDE DEF e, p, q
<1>5. /\ e \in Reader
      /\ e.position = 0 /\ e.decPos = 0 /\ e.buf = [i \in 1 .. c.number |-> 0]
      /\ e.room = 2 * BlockLen /\ e.bufPos = c.number /\ e.discard = c.number
      /\ e.ok = TRUE /\ e.crypter = c
  <2>1. c \in Status /\ e = NewReader(c)
    BY <1>2, <1>4
  <2> QED BY ONLY <2>1, NewReaderIs
<1>6. p = n /\ q = n
  BY <1>4, <1>5
<1>7. z \in Reader
  BY <1>5, <1>6 DEF Reader
<1>8. /\ z.position = p /\ z.decPos = q /\ z.buf = e.buf /\ z.room = e.room /\ z.bufPos = e.bufPos
      /\ z.discard = e.discard /\ z.ok = e.ok /\ z.crypter = e.crypter
  BY <1>5, <1>6 DEF Reader
<1>9. ok = TRUE
  BY <1>2, <1>5
<1> HIDE DEF z, ok
<1>10. d = z
  BY <1>3, <1>5, <1>7, <1>8, <1>9, CheckIs
<1>11. d \in Reader /\ d.position = n /\ d.decPos = n /\ d.buf = [i \in 1 .. c.number |-> 0]
       /\ d.room = 2 * BlockLen /\ d.bufPos = c.number /\ d.discard = c.number
       /\ d.ok = TRUE /\ d.crypter = c
  BY <1>5, <1>6, <1>7, <1>8, <1>10
<1>12. \E g \in 0 .. BlockLen - 1 : Reading(d, g, t, ck, v)
  BY ONLY <1>11, OpenIs, IsCfb(cipher, t, ck, v), n \in Nat, n <= Size, c = StatusAt(cipher, ck, v, n)
<1> QED BY <1>11, <1>12

-----------------------------------------------------------------------------
\* The file: its region is the encryption of its log's text and fits.
Store(c, v, ck, l) ==
    /\ v \in IVs /\ l \in Seq(Holding) /\ IsCfb(c, TextOf(l), ck, v) /\ Len(c) <= MaxRegion

\* The dictionary is what the records in the region's first n bytes say.
Held(c, v, ck, l, d, n) ==
    \E m \in 0 .. Len(l) : Stands(n, m, l) /\ AllHeld(d, m, l, c, ck, v)

\* Reading, with the region as a parameter.
InStep(c, d, g, t, ck, v) ==
    /\ d \in Reader /\ g \in 0 .. BlockLen - 1
    /\ d.bufPos <= Len(d.buf) /\ Len(d.buf) <= d.room /\ BlockLen <= d.room
    /\ d.decPos <= Len(c) /\ Len(d.buf) <= d.decPos
    /\ d.position = Offs(d) + d.bufPos
    /\ d.crypter = StatusAt(c, ck, v, d.decPos) /\ d.ok = TRUE
    /\ g <= d.bufPos /\ g <= d.discard
    /\ Holds(d.buf, g, t, Offs(d))
    /\ (d.decPos = Len(c) \/ Whole(d.decPos)) \/ Left(d) = 0

\* The reader reads the text of the log l.
Reads(c, d, l, ck, v) == \E g \in 0 .. BlockLen - 1 : InStep(c, d, g, TextOf(l), ck, v)

\* Between a key and its value: the record's beginning is still in the buffer,
\* behind the bytes the reader keeps.
AtValue(c, v, ck, l, d, h, in) ==
    \E m \in 0 .. Len(l) :
        /\ m < Len(l) /\ AllHeld(d, m, l, c, ck, v)
        /\ h = [offset |-> Pos(l, m), key |-> KeyText[l[m + 1].key]]
        /\ in.position = Pos(l, m) + 1 + Len(KeyText[l[m + 1].key])
        /\ in.decPos = Len(c) \/ Whole(in.decPos)
        /\ in.bufPos - in.discard >= in.position - Pos(l, m)

\* Between calls: the cipher stands at the end of what is loaded, and the
\* dictionary is what has been loaded says.
AtRest ==
    /\ input = NoInput
    /\ loaded = TRUE => crypter = StatusAt(cipher, crypter.key, iv, actual)
    /\ loaded = FALSE => actual = 0
    /\ Held(cipher, iv, crypter.key, log, dic, actual)

\* During a load: the reader reads the text, and the dictionary is what the
\* records before the one being read say.
Loading ==
    /\ loaded = TRUE /\ actual = Len(cipher) /\ crypter = input.crypter
    /\ Reads(cipher, input, log, crypter.key, iv)
    /\ pc = "holder" => /\ input.position = 0 /\ input.discard <= input.bufPos
                        /\ Len(cipher) # 0 /\ Held(cipher, iv, crypter.key, log, dic, 0)
    /\ pc = "key" => /\ input.position # Len(cipher) /\ input.position # 0
                     /\ Held(cipher, iv, crypter.key, log, dic, input.position)
    /\ pc = "value" => AtValue(cipher, iv, crypter.key, log, dic, holder, input)

\* The inductive invariant.
CryptInv ==
    /\ multi \in BOOLEAN /\ loaded \in BOOLEAN /\ crypter \in Status /\ broken = FALSE
    /\ pc \in {"idle", "holder", "key", "value"}
    /\ actual \in 0 .. Len(cipher) /\ IsDic(dic)
    /\ Store(cipher, iv, crypter.key, log)
    /\ pc = "idle" => AtRest
    /\ pc # "idle" => Loading

-----------------------------------------------------------------------------
\* The two ways to say that a reader reads the region.
LEMMA InStepIs ==
    ASSUME NEW d, NEW g, NEW t, NEW ck, NEW v
    PROVE  InStep(cipher, d, g, t, ck, v) <=> Reading(d, g, t, ck, v)
BY DEF InStep, Reading, Aligned, Size

\* And so to say that it reads the region's text.
LEMMA ReadsIs ==
    ASSUME NEW d, NEW ck, NEW v
    PROVE  /\ Reads(cipher, d, log, ck, v)
                => \E g \in 0 .. BlockLen - 1 : Reading(d, g, text, ck, v)
           /\ \A g \in 0 .. BlockLen - 1 :
                 Reading(d, g, text, ck, v) => Reads(cipher, d, log, ck, v)
BY InStepIs DEF Reads, text

\* A status has the key it was made with.
LEMMA KeyIs == ASSUME NEW c, NEW ck, NEW v, NEW n PROVE StatusAt(c, ck, v, n).key = ck
BY DEF StatusAt, At

\* What the file's invariant says of its parts.
LEMMA StoreParts ==
    ASSUME Store(cipher, iv, crypter.key, log)
    PROVE  /\ log \in Seq(Holding) /\ IsCfb(cipher, text, crypter.key, iv)
           /\ IsCfb(cipher, TextOf(log), crypter.key, iv)
           /\ Size \in Nat /\ Size = Len(cipher) /\ Size = Len(text) /\ cipher \in Seq(Byte)
           /\ (log # <<>> => Size = Pos(log, Len(log)))
           /\ (log = <<>> => Size = 0)
           /\ iv \in IVs /\ iv \in Block /\ crypter.key \in CryptKeys /\ Size <= MaxRegion
           /\ Len(log) \in Nat
<1>1. log \in Seq(Holding) /\ IsCfb(cipher, TextOf(log), crypter.key, iv) /\ iv \in IVs
      /\ Len(cipher) <= MaxRegion
  BY DEF Store
<1>2. /\ cipher \in Seq(Byte) /\ Len(cipher) = Len(TextOf(log)) /\ iv \in Block
      /\ crypter.key \in CryptKeys
  BY <1>1 DEF IsCfb
<1>3. /\ log = <<>> => TextOf(log) = <<>>
      /\ log # <<>> => Len(TextOf(log)) = Pos(log, Len(log))
  BY <1>1, TextIs
<1>4. Len(cipher) \in Nat /\ Len(log) \in Nat
  BY <1>1, <1>2, LenProperties
<1> QED BY <1>1, <1>2, <1>3, <1>4 DEF text, Size

\* Nothing read, nothing held.
LEMMA NoneHeld ==
    ASSUME NEW c, NEW v, NEW ck, NEW l \in Seq(Holding)
    PROVE  LET d == [k \in Keys |-> NoHolder]
           IN  IsDic(d) /\ Held(c, v, ck, l, d, 0)
<1> DEFINE d == [k \in Keys |-> NoHolder]
<1>1. IsDic(d)
  BY DEF IsDic
<1>2. \A k \in Keys : HolderIs(d[k], k, 0, l, c, ck, v)
  BY DEF HolderIs, NoneOf
<1>3. 0 \in 0 .. Len(l)
  BY LenProperties
<1>4. Stands(0, 0, l)
  BY <1>3 DEF Stands
<1> QED BY <1>1, <1>2, <1>3, <1>4 DEF Held, AllHeld

\* At rest, the store has loaded some of its records.
LEMMA RestIsGood ==
    ASSUME CryptInv, pc = "idle"
    PROVE  \E m \in 0 .. Len(log) : Good(m)
BY DEF CryptInv, AtRest, Held, Store, Good

\* With the whole region loaded, these are all.
LEMMA AllLoaded ==
    ASSUME CryptInv, UpToDate, NEW m \in 0 .. Len(log), Good(m)
    PROVE  m = Len(log)
<1>1. Store(cipher, iv, crypter.key, log) /\ actual = Len(cipher) /\ Stands(actual, m, log)
  BY DEF CryptInv, UpToDate, Good
<1>2. /\ log \in Seq(Holding) /\ Len(log) \in Nat /\ Len(cipher) = Size
      /\ (log # <<>> => Size = Pos(log, Len(log)))
  BY <1>1, StoreParts
<1>3. CASE log = <<>>
  BY <1>2, <1>3
<1>4. CASE log # <<>>
  <2>1. Len(log) \in 0 .. Len(log) /\ 0 \in 0 .. Len(log)
    BY <1>2
  <2>2. Pos(log, 0) = 1 /\ Pos(log, 0) <= Pos(log, Len(log)) /\ Pos(log, Len(log)) \in Nat
    BY <1>2, <2>1, PosType, PosOrder
  <2>3. actual = Pos(log, Len(log)) /\ actual # 0
    BY <1>1, <1>2, <1>4, <2>2
  <2>4. actual = Pos(log, m)
    BY <1>1, <2>3 DEF Stands
  <2> QED BY <1>2, <2>1, <2>3, <2>4, PosOne
<1> QED BY <1>3, <1>4

-----------------------------------------------------------------------------
\* Put, after which all is loaded and as it should be: the record is encrypted
\* with the status of the end of what precedes it.
LEMMA PutKeeps ==
    ASSUME CryptInv, pc = "idle", loaded = TRUE,
           NEW region, NEW l \in Seq(Holding), NEW k \in Keys, NEW v \in Vals, NEW s, NEW d,
           NEW ck, NEW v2 \in IVs, iv' = v2, IsCfb(region, Through(l)[Len(l)], ck, v2),
           s = StatusAt(region, ck, v2, Len(region)),
           IsDic(d), OthersHeld(d, k, l, region, ck, v2),
           Put(region, l, k, <<Len(KeyText[k])>> \o KeyText[k], v, s, d),
           UNCHANGED <<multi, loaded, pc, input, holder, broken>>
    PROVE  CryptInv'
<1> DEFINE e == Encrypt(Record(k, v), s)
           c2 == region \o e.out
           l2 == Append(l, [key |-> k, val |-> v])
           d2 == WithHolder(d, k, NewHolder(k, v, Len(region), s))
<1>1. /\ l2 \in Seq(Holding) /\ l2 # <<>> /\ IsCfb(c2, TextOf(l2), ck, v2)
      /\ e.status = StatusAt(c2, ck, v2, Len(c2))
      /\ IsDic(d2) /\ AllHeld(d2, Len(l2), l2, c2, ck, v2)
  <2> HIDE DEF e, c2, l2, d2
  <2>1. /\ e = Encrypt(Record(k, v), s) /\ c2 = region \o e.out
        /\ l2 = Append(l, [key |-> k, val |-> v])
        /\ d2 = WithHolder(d, k, NewHolder(k, v, Len(region), s))
    BY DEF e, c2, l2, d2
  <2>2. Writes(l, region, ck, v2, k, v, d, s, e, c2, l2, d2)
    BY <2>1 DEF Writes
  <2> QED BY ONLY <2>2, Appended
<1>2. /\ cipher' = c2 /\ actual' = Len(cipher') /\ crypter' = e.status /\ dic' = d2 /\ log' = l2
      /\ Len(cipher') <= MaxRegion
  BY DEF Put, Record, WithHolder
<1>3. iv' = v2 /\ multi' = multi /\ loaded' = TRUE /\ pc' = "idle" /\ input' = input /\ broken' = broken
  OBVIOUS
<1> HIDE DEF e, c2, l2, d2
<1>4. /\ c2 \in Seq(Byte) /\ Len(c2) \in Nat /\ Len(c2) = Len(TextOf(l2)) /\ ck \in CryptKeys
      /\ v2 \in Block
  BY <1>1, LenProperties DEF IsCfb
<1>5. crypter' = StatusAt(c2, ck, v2, Len(c2)) /\ crypter'.key = ck /\ crypter' \in Status
  <2>1. crypter' = StatusAt(c2, ck, v2, Len(c2))
    BY <1>1, <1>2
  <2>2. Len(c2) \in 0 .. Len(c2)
    BY <1>4
  <2>3. StatusAt(c2, ck, v2, Len(c2)) \in Status
    BY <1>4, <2>2, StatusType
  <2> QED BY <2>1, <2>3, KeyIs
<1>6. Held(c2, v2, ck, l2, d2, Len(c2))
  <2>1. Len(l2) \in 0 .. Len(l2)
    BY <1>1, LenProperties
  <2>2. Len(c2) = Pos(l2, Len(l2))
    BY <1>1, <1>4, TextIs
  <2>3. Stands(Len(c2), Len(l2), l2)
    BY <2>1, <2>2 DEF Stands
  <2> QED BY <1>1, <2>1, <2>3 DEF Held
<1>7. Store(c2, v2, ck, l2)
  BY <1>1, <1>2 DEF Store
<1>8. AtRest'
  <2>1. input' = NoInput'
    BY <1>3 DEF CryptInv, AtRest, NoInput, NoHolder
  <2>2. Held(cipher, iv, crypter.key, log, dic, actual)'
    BY <1>2, <1>3, <1>5, <1>6
  <2>3. crypter' = StatusAt(cipher, crypter.key, iv, actual)'
    BY <1>2, <1>3, <1>5
  <2>4. loaded' # FALSE
    BY <1>3
  <2> QED BY <2>1, <2>2, <2>3, <2>4 DEF AtRest
<1>9. Store(cipher, iv, crypter.key, log)' /\ IsDic(dic)'
  BY <1>1, <1>2, <1>3, <1>5, <1>7
<1>10. actual' \in 0 .. Len(cipher')
  BY <1>2, <1>4
<1>11. (multi \in BOOLEAN /\ loaded \in BOOLEAN /\ broken = FALSE)'
  BY <1>3 DEF CryptInv
<1> QED BY <1>3, <1>5, <1>8, <1>9, <1>10, <1>11 DEF CryptInv

\* A key that is not present has no holder.
LEMMA NotPresent ==
    ASSUME NEW m, Good(m), NEW k \in Keys, k \notin Present
    PROVE  dic[k] = NoHolder
<1>1. dic[k].type = "none"
  BY DEF Present
<1>2. k \notin Kept /\ k \notin Prepared
  BY <1>1 DEF Kept, Prepared
<1> QED BY <1>2, KeyCases

\* doAppendDataWithKey.
LEMMA AppendKeeps ==
    ASSUME CryptInv, NEW k \in Keys, NEW v \in Vals, AppendData(k, v)
    PROVE  CryptInv'
<1>1. /\ UpToDate /\ pc = "idle" /\ loaded = TRUE /\ actual = Len(cipher) /\ Present # {}
      /\ Put(cipher, log, k, KeyOnFile(k), v, crypter, dic)
      /\ iv' = iv /\ UNCHANGED <<multi, loaded, pc, input, holder, broken>>
  BY DEF AppendData, Writable, NeedsRoom, UpToDate, CryptInv
<1>2. PICK m \in 0 .. Len(log) : Good(m)
  BY <1>1, RestIsGood
<1>3. m = Len(log)
  BY <1>1, <1>2, AllLoaded
<1>4. /\ log \in Seq(Holding) /\ IsCfb(cipher, TextOf(log), crypter.key, iv) /\ IsDic(dic)
      /\ AllHeld(dic, Len(log), log, cipher, crypter.key, iv)
  BY <1>2, <1>3 DEF Good
<1>5. log # <<>>
  <2>1. PICK j \in Keys : j \in Present
    BY <1>1 DEF Present
  <2>2. dic[j] # NoHolder
    BY <2>1 DEF Present, NoHolder
  <2>3. j \in Kept \cup Prepared
    BY <1>2, <2>2, KeyCases
  <2>4. HasLatest(m, j)
    BY <1>2, <2>3, ValuedKey
  <2> QED BY <2>4 DEF HasLatest
<1>6. IsCfb(cipher, Through(log)[Len(log)], crypter.key, iv)
  BY <1>4, <1>5, TextIs
<1>7. crypter = StatusAt(cipher, crypter.key, iv, Len(cipher)) /\ iv \in IVs
  BY <1>1 DEF CryptInv, AtRest, Store
<1>8. OthersHeld(dic, k, log, cipher, crypter.key, iv)
  BY <1>4 DEF OthersHeld, AllHeld
<1>9. KeyOnFile(k) = <<Len(KeyText[k])>> \o KeyText[k]
  <2>1. HolderIs(dic[k], k, m, log, cipher, crypter.key, iv)
    BY <1>3, <1>4 DEF AllHeld
  <2> QED BY <1>2, <1>4, <2>1, KeyReads
<1>10. Put(cipher, log, k, <<Len(KeyText[k])>> \o KeyText[k], v, crypter, dic)
  BY <1>1, <1>9
<1> QED BY ONLY CryptInv, k \in Keys, v \in Vals, <1>1, <1>4, <1>6, <1>7, <1>8, <1>10, PutKeeps

\* The same after expandAndWriteBack.
LEMMA AppendWithRoomKeeps ==
    ASSUME CryptInv, NEW k \in Keys, NEW v \in Vals, AppendWithRoom(k, v)
    PROVE  CryptInv'
<1> DEFINE W(ps) == WriteBack(crypter.key, iv', ps)
<1>1. /\ UpToDate /\ pc = "idle" /\ loaded = TRUE
      /\ iv' \in IVs /\ UNCHANGED <<multi, loaded, pc, input, holder, broken>>
  BY DEF AppendWithRoom, Writable, UpToDate, CryptInv
<1>2. PICK ps \in SetToSeqs(Prepared) :
        Put(W(ps).cipher, W(ps).log, k, KeyOnFile(k), v, W(ps).crypter, W(ps).dic)
  BY DEF AppendWithRoom
<1>3. PICK m \in 0 .. Len(log) : Good(m)
  BY <1>1, RestIsGood
<1> DEFINE w == W(ps)
           ck == crypter.key
           v2 == iv'
<1>4. w = WriteBack(ck, v2, ps) /\ ck \in CryptKeys /\ v2 \in IVs /\ v2 \in Block
  BY <1>1, CryptAssumption DEF CryptInv, Store, IsCfb
<1>5. Put(w.cipher, w.log, k, KeyOnFile(k), v, w.crypter, w.dic)
  BY <1>2
<1>6. iv' = v2
  OBVIOUS
<1> HIDE DEF w, ck, v2
<1>7. /\ w.log \in Seq(Holding)
      /\ IsCfb(w.cipher, Through(w.log)[Len(w.log)], ck, v2)
      /\ w.crypter = StatusAt(w.cipher, ck, v2, Len(w.cipher))
      /\ IsDic(w.dic) /\ AllHeld(w.dic, Len(w.log), w.log, w.cipher, ck, v2)
  BY <1>3, <1>4, WriteBackIs
<1>8. OthersHeld(w.dic, k, w.log, w.cipher, ck, v2)
  BY <1>7 DEF OthersHeld, AllHeld
<1>9. KeyOnFile(k) = <<Len(KeyText[k])>> \o KeyText[k]
  <2>1. /\ log \in Seq(Holding) /\ IsCfb(cipher, TextOf(log), crypter.key, iv)
        /\ HolderIs(dic[k], k, m, log, cipher, crypter.key, iv)
    BY <1>3 DEF Good, AllHeld
  <2> QED BY <1>3, <2>1, KeyReads
<1>10. Put(w.cipher, w.log, k, <<Len(KeyText[k])>> \o KeyText[k], v, w.crypter, w.dic)
  BY <1>5, <1>9
<1> QED BY ONLY CryptInv, k \in Keys, v \in Vals, <1>1, <1>4, <1>6, <1>7, <1>8, <1>10, PutKeeps

\* doOverrideDataWithKey.
LEMMA OverrideKeeps ==
    ASSUME CryptInv, NEW k \in Keys, NEW v \in Vals, Override(k, v)
    PROVE  CryptInv'
<1> DEFINE ck == crypter.key
           e == Encrypt(SizeHolder, Reset(ck, iv))
           c == e.out
           l == <<>>
<1>1. /\ pc = "idle" /\ loaded = TRUE /\ Present \subseteq {k}
      /\ Put(e.out, l, k, KeyOnFile(k), v, e.status, dic)
      /\ iv' = iv /\ UNCHANGED <<multi, loaded, pc, input, holder, broken>>
  BY DEF Override, Overrides, Writable, UpToDate, CryptInv
<1>2. PICK m \in 0 .. Len(log) : Good(m)
  BY <1>1, RestIsGood
<1>3. /\ log \in Seq(Holding) /\ IsCfb(cipher, TextOf(log), ck, iv) /\ IsDic(dic)
      /\ AllHeld(dic, m, log, cipher, ck, iv) /\ ck \in CryptKeys /\ iv \in Block /\ iv \in IVs
  BY <1>2 DEF Good, IsCfb, CryptInv, Store
<1>4. /\ l \in Seq(Holding) /\ Len(l) = 0 /\ Through(l)[Len(l)] = SizeHolder
  <2>1. l \in Seq(Holding) /\ Len(l) = 0
    OBVIOUS
  <2> QED BY <2>1, ThroughIs
<1>h. SizeHolder \in Seq(Byte) /\ <<>> \o SizeHolder = SizeHolder
  BY CryptAssumption DEF SizeHolder
<1>5. /\ IsCfb(c, SizeHolder, ck, iv) /\ e.status = StatusAt(c, ck, iv, Len(c))
  <2> DEFINE x == [out |-> <<>>, status |-> Reset(ck, iv)]
  <2>1. Sealed(x, <<>>, ck, iv)
    BY <1>3, SealedFirst
  <2>2. Sealed(Goes(x, SizeHolder), <<>> \o SizeHolder, ck, iv)
    <3> HIDE DEF x
    <3> QED BY <1>h, <2>1, SealedNext
  <2>3. Goes(x, SizeHolder) = [out |-> <<>> \o e.out, status |-> e.status]
    BY DEF Goes
  <2>4. e.out \in Seq(Byte)
    <3>1. IsCfb(<<>>, <<>>, ck, iv)
      BY <1>3, SealedFirst
    <3>2. Reset(ck, iv) = StatusAt(<<>>, ck, iv, Len(<<>>))
      BY StatusAtStart
    <3>3. Encrypt(SizeHolder, StatusAt(<<>>, ck, iv, Len(<<>>))).out \in Seq(Byte)
      <4> HIDE DEF e
      <4> QED BY <1>h, <3>1, EncryptIs, Zenon
    <3> QED BY <3>2, <3>3
  <2> HIDE DEF e
  <2>5. <<>> \o e.out = e.out
    BY <2>4
  <2>6. Goes(x, SizeHolder) = [out |-> c, status |-> e.status]
    BY <2>3, <2>5
  <2> HIDE DEF x, c
  <2> QED BY <1>h, <2>2, <2>6 DEF Sealed
<1>6. OthersHeld(dic, k, l, c, ck, iv)
  <2> SUFFICES ASSUME NEW j \in Keys \ {k} PROVE HolderIs(dic[j], j, Len(l), l, c, ck, iv)
    BY DEF OthersHeld
  <2>1. dic[j] = NoHolder
    BY <1>1, <1>2, NotPresent
  <2>2. NoneOf(l, Len(l), j)
    BY <1>4 DEF NoneOf
  <2> QED BY <2>1, <2>2 DEF HolderIs
<1>7. KeyOnFile(k) = <<Len(KeyText[k])>> \o KeyText[k]
  <2>1. HolderIs(dic[k], k, m, log, cipher, ck, iv)
    BY <1>3 DEF AllHeld
  <2> QED BY <1>2, <1>3, <2>1, KeyReads
<1> DEFINE s == e.status
<1>8. Put(c, l, k, <<Len(KeyText[k])>> \o KeyText[k], v, s, dic)
  BY <1>1, <1>7
<1>9. s = StatusAt(c, ck, iv, Len(c)) /\ IsCfb(c, Through(l)[Len(l)], ck, iv)
  BY <1>4, <1>5
<1> HIDE DEF ck, e, c, l, s
<1> QED BY ONLY CryptInv, k \in Keys, v \in Vals, <1>1, <1>3, <1>4, <1>6, <1>8, <1>9, PutKeeps

-----------------------------------------------------------------------------
\* The head of a load's loop keeps the invariant if the reader reads the region
\* and the dictionary is what has been read says.
LEMMA ContinueKeeps ==
    ASSUME CryptInv, loaded' = TRUE, actual' = Len(cipher), UNCHANGED <<cipher, iv, multi, log>>,
           IsDic(dic'), NEW d, d.position # 0, NEW g \in 0 .. BlockLen - 1, Reading(d, g, text, crypter.key, iv),
           Held(cipher, iv, crypter.key, log, dic', d.position), Continue(d)
    PROVE  CryptInv'
<1> DEFINE ck == crypter.key
<1>1. /\ Store(cipher, iv, ck, log) /\ multi \in BOOLEAN /\ broken = FALSE
  BY DEF CryptInv
<1>2. /\ Size \in Nat /\ Size = Len(cipher) /\ IsCfb(cipher, text, ck, iv)
  BY <1>1, StoreParts
<1>3. /\ d.position \in Nat /\ d.decPos \in Nat /\ d.ok = TRUE /\ d.crypter \in Status
      /\ Left(d) \in Nat /\ d.position + Left(d) = d.decPos /\ d.decPos <= Size
      /\ d.crypter = StatusAt(cipher, ck, iv, d.decPos)
  <2>1. Reading(d, g, text, ck, iv)
    OBVIOUS
  <2> HIDE DEF ck
  <2> QED BY ONLY <2>1, ReadingParts
<1>4. d.crypter.key = ck
  BY <1>3, KeyIs
<1>5. /\ crypter' = d.crypter /\ (broken' <=> (broken \/ ~d.ok))
      /\ (d.position = Size => pc' = "idle" /\ input' = NoInput)
      /\ (d.position # Size => pc' = "key" /\ input' = d)
  BY DEF Continue
<1>6. broken' = FALSE
  <2>1. broken' = (broken \/ ~d.ok)
    BY DEF Continue
  <2> QED BY <1>1, <1>3, <2>1
<1>7. cipher' = cipher /\ iv' = iv /\ multi' = multi /\ log' = log /\ crypter'.key = ck
  BY <1>4, <1>5
<1> HIDE DEF ck
<1>8. Store(cipher, iv, crypter.key, log)' /\ IsDic(dic)' /\ actual' \in 0 .. Len(cipher')
  BY <1>1, <1>2, <1>7
<1>9. /\ multi' \in BOOLEAN /\ loaded' \in BOOLEAN /\ crypter' \in Status
  BY <1>1, <1>3, <1>5, <1>7
<1>10. CASE d.position = Size
  <2>1. d.decPos = Size
    BY ONLY <1>2, <1>3, <1>10
  <2>2. crypter' = StatusAt(cipher', crypter'.key, iv', actual')
    BY <1>2, <1>3, <1>5, <1>7, <2>1
  <2>3. Held(cipher', iv', crypter'.key, log', dic', actual')
    BY <1>2, <1>7, <1>10 DEF ck
  <2>4. input' = NoInput'
    BY <1>5, <1>10 DEF NoInput, NoHolder
  <2>5. AtRest'
    BY <2>2, <2>3, <2>4 DEF AtRest
  <2>6. pc' = "idle"
    BY <1>5, <1>10
  <2> QED BY <1>6, <1>8, <1>9, <2>5, <2>6 DEF CryptInv
<1>11. CASE d.position # Size
  <2>1. Reads(cipher, d, log, ck, iv)
    BY ReadsIs DEF ck
  <2>2. input' = d /\ pc' = "key"
    BY <1>5, <1>11
  <2>3. Reads(cipher', input', log', crypter'.key, iv')
    BY <1>7, <2>1, <2>2
  <2>4. Held(cipher', iv', crypter'.key, log', dic', input'.position)
    BY <1>7, <2>2 DEF ck
  <2>5. input'.position # Len(cipher') /\ input'.position # 0
    BY <1>2, <1>7, <1>11, <2>2
  <2>6. actual' = Len(cipher') /\ crypter' = input'.crypter
    BY <1>5, <1>7, <2>2
  <2>7. Loading'
    BY <2>2, <2>3, <2>4, <2>5, <2>6 DEF Loading
  <2> QED BY <1>6, <1>8, <1>9, <2>2, <2>7 DEF CryptInv
<1> QED BY <1>10, <1>11

\* A byte more has been read: at least one was left.
LEMMA SomeLeft ==
    ASSUME NEW n \in Nat, n >= 1, NEW l \in Nat, NEW p \in Nat, NEW s \in Nat,
           l >= n \/ l = s - p, p < s
    PROVE  l >= 1
OBVIOUS

\* clearMemoryCache leaves a store that is to be loaded.
LEMMA ClearKeeps ==
    ASSUME CryptInv, pc = "idle", NEW c, NEW v, NEW ck, NEW l, Store(c, v, ck, l),
           Clear(c, v, ck), log' = l
    PROVE  CryptInv'
<1>1. /\ cipher' = c /\ iv' = v /\ loaded' = FALSE /\ actual' = 0
      /\ dic' = [k \in Keys |-> NoHolder] /\ crypter' = Reset(ck, v)
      /\ multi' = multi /\ pc' = pc /\ input' = input /\ broken' = broken
  BY DEF Clear
<1>2. /\ c \in Seq(Byte) /\ Len(c) \in Nat /\ ck \in CryptKeys /\ v \in Block /\ l \in Seq(Holding)
  BY LenProperties DEF Store, IsCfb
<1>3. crypter' \in Status /\ crypter'.key = ck
  <2>1. 0 \in 0 .. Len(c)
    BY <1>2
  <2>2. StatusAt(c, ck, v, 0) \in Status
    BY <1>2, <2>1, StatusType
  <2> QED BY <1>1, <2>2, StatusAtStart DEF Reset
<1>4. IsDic(dic') /\ Held(c, v, ck, l, dic', 0)
  BY <1>1, <1>2, NoneHeld
<1>5. AtRest'
  <2>1. input' = NoInput'
    BY <1>1 DEF CryptInv, AtRest, NoInput, NoHolder
  <2>2. Held(cipher', iv', crypter'.key, log', dic', actual')
    BY <1>1, <1>3, <1>4
  <2> QED BY <1>1, <2>1, <2>2 DEF AtRest
<1>6. Store(cipher', iv', crypter'.key, log')
  BY <1>1, <1>3
<1>7. actual' \in 0 .. Len(cipher') /\ multi' \in BOOLEAN /\ loaded' \in BOOLEAN /\ broken' = FALSE
  <2>1. multi \in BOOLEAN /\ broken = FALSE
    BY DEF CryptInv
  <2>2. 0 \in 0 .. Len(c)
    BY <1>2
  <2> QED BY <1>1, <2>1, <2>2
<1> QED BY <1>1, <1>3, <1>4, <1>5, <1>6, <1>7 DEF CryptInv

\* clearMemoryCache by itself.
LEMMA ClearCacheKeeps == ASSUME CryptInv, ClearMemoryCache PROVE CryptInv'
<1>1. pc = "idle" /\ Clear(cipher, iv, crypter.key) /\ log' = log
  BY DEF ClearMemoryCache
<1>2. Store(cipher, iv, crypter.key, log)
  BY DEF CryptInv
<1> QED BY <1>1, <1>2, ClearKeeps

\* reKey to another key.
LEMMA ReKeyKeeps ==
    ASSUME CryptInv, NEW ck \in CryptKeys, ReKey(ck)
    PROVE  CryptInv'
<1>1. UpToDate /\ pc = "idle"
  BY DEF ReKey, UpToDate
<1>2. PICK v \in IVs, ps \in SetToSeqs(Prepared) :
        LET w == IF Present = {} THEN [cipher |-> <<>>, log |-> <<>>]
                 ELSE WriteBack(ck, v, ps)
        IN  Clear(w.cipher, v, ck) /\ log' = w.log
  BY DEF ReKey
<1>3. PICK m \in 0 .. Len(log) : Good(m)
  BY <1>1, RestIsGood
<1>4. v \in Block /\ MaxRegion \in Nat
  BY CryptAssumption
<1>5. CASE Present = {}
  <2>1. Clear(<<>>, v, ck) /\ log' = <<>>
    BY <1>2, <1>5
  <2>2. TextOf(<<>>) = <<>> /\ <<>> \in Seq(Holding) /\ Len(<<>>) = 0
    BY DEF TextOf
  <2>3. IsCfb(<<>>, <<>>, ck, v)
    BY <1>4, SealedFirst
  <2>4. Store(<<>>, v, ck, <<>>)
    BY <1>4, <2>2, <2>3 DEF Store
  <2> QED BY <1>1, <2>1, <2>4, ClearKeeps
<1>6. CASE Present # {}
  <2> DEFINE w == WriteBack(ck, v, ps)
  <2>1. Clear(w.cipher, v, ck) /\ log' = w.log
    BY <1>2, <1>6
  <2>2. w = WriteBack(ck, v, ps)
    OBVIOUS
  <2> HIDE DEF w
  <2>3. w.log \in Seq(Holding) /\ IsCfb(w.cipher, Through(w.log)[Len(w.log)], ck, v)
    BY <1>3, <1>4, <2>2, WriteBackIs
  <2>4. w.log # <<>> /\ Len(w.cipher) <= Len(cipher)
    BY <1>3, <1>4, <1>6, <2>2, RewriteFits
  <2>5. Len(w.cipher) <= MaxRegion
    <3>1. Len(cipher) <= MaxRegion /\ Len(cipher) \in Nat /\ Len(w.cipher) \in Nat
      BY <2>3, LenProperties DEF CryptInv, Store, IsCfb
    <3> QED BY ONLY <1>4, <2>4, <3>1
  <2>6. Store(w.cipher, v, ck, w.log)
    BY <2>3, <2>4, <2>5, TextIs DEF Store
  <2> QED BY <1>1, <2>1, <2>6, ClearKeeps
<1> QED BY <1>5, <1>6

-----------------------------------------------------------------------------
\* Another process appends: what has been loaded stays as it is.
LEMMA OtherKeeps ==
    ASSUME CryptInv, NEW k \in Keys, NEW x \in Vals, OtherAppends(k, x)
    PROVE  CryptInv'
<1> DEFINE ck == crypter.key
           r == Record(k, x)
           h == [key |-> k, val |-> x]
           s == CfbMode(text, ck, iv)[Len(text)].status
           e == Encrypt(r, s)
           c2 == cipher \o e.out
           l2 == Append(log, h)
<1>1. /\ pc = "idle" /\ log # <<>> /\ Len(text \o r) <= MaxRegion /\ log' = l2 /\ cipher' = c2
      /\ UNCHANGED <<iv, multi, loaded, actual, crypter, dic, pc, input, holder, broken>>
  BY DEF OtherAppends
<1>2. /\ Store(cipher, iv, ck, log) /\ IsDic(dic) /\ actual \in 0 .. Len(cipher) /\ AtRest
      /\ multi \in BOOLEAN /\ loaded \in BOOLEAN /\ crypter \in Status /\ broken = FALSE
  BY <1>1 DEF CryptInv
<1>3. /\ log \in Seq(Holding) /\ IsCfb(cipher, text, ck, iv) /\ Len(cipher) = Len(text)
      /\ Len(cipher) = Pos(log, Len(log)) /\ Len(log) \in Nat /\ cipher \in Seq(Byte)
      /\ Len(cipher) \in Nat /\ iv \in IVs /\ text \in Seq(Byte)
  BY <1>1, <1>2, StoreParts DEF Size, IsCfb
<1>4. s = StatusAt(cipher, ck, iv, Len(cipher))
  <2> HIDE DEF ck
  <2>1. Len(text) \in 0 .. Len(text)
    BY <1>3
  <2>2. CfbMode(text, ck, iv)[Len(text)].status = StatusAt(cipher, ck, iv, Len(text))
    <3>1. IsCfb(cipher, text, ck, iv)
      BY <1>3
    <3> QED BY ONLY <2>1, <3>1, CfbModeIs
  <2> QED BY <1>3, <2>2
<1>5. h \in Holding /\ Rec(h) = r
  BY DEF Holding, Rec
<1>6. r \in Seq(Byte)
  BY RecordIs DEF IsRecord
<1>7. /\ l2 \in Seq(Holding) /\ Len(l2) = Len(log) + 1 /\ l2 # <<>>
      /\ Agree(log, l2, Len(log)) /\ TextOf(l2) = text \o r
  <2> HIDE DEF h, r
  <2>1. /\ l2 \in Seq(Holding) /\ Len(l2) = Len(log) + 1 /\ l2 # <<>>
        /\ Agree(log, l2, Len(log)) /\ TextOf(l2) = Through(log)[Len(log)] \o Rec(h)
    BY <1>3, <1>5, LogGrows
  <2>2. text = Through(log)[Len(log)]
    BY <1>1, <1>3, TextIs DEF text
  <2> QED BY <1>5, <2>1, <2>2
<1> HIDE DEF h, r
<1>8. e.out \in Seq(Byte) /\ IsCfb(c2, TextOf(l2), ck, iv)
  <2>1. LET f == Encrypt(r, StatusAt(cipher, ck, iv, Len(cipher))) IN
        /\ f.out \in Seq(Byte) /\ Len(f.out) = Len(r)
        /\ IsCfb(cipher \o f.out, text \o r, ck, iv)
        /\ f.status = StatusAt(cipher \o f.out, ck, iv, Len(cipher) + Len(r))
    <3> HIDE DEF ck
    <3>1. IsCfb(cipher, text, ck, iv)
      BY <1>3
    <3> QED BY ONLY <1>6, <3>1, EncryptIs
  <2> HIDE DEF s
  <2> QED BY ONLY <1>4, <1>7, <2>1, Zenon DEF e, c2
<1>9. Agree(cipher, c2, Len(cipher)) /\ Len(c2) <= MaxRegion /\ Len(c2) \in Nat
      /\ Len(cipher) <= Len(c2)
  <2> DEFINE y == e.out
             a == Len(cipher)
             b == Len(y)
  <2>1. y \in Seq(Byte) /\ c2 = cipher \o y
    BY <1>8
  <2>2. a \in Nat /\ b \in Nat
    BY <1>3, <2>1, LenProperties
  <2>3. Len(c2) = Len(text \o r)
    BY <1>7, <1>8 DEF IsCfb
  <2> HIDE DEF y, a, b, c2
  <2>4. Joins(c2, cipher, y, a, b)
    BY <1>3, <2>1, <2>2, JoinsIs DEF a, b
  <2>5. Agree(cipher, c2, a) /\ Len(c2) = a + b
    BY <2>4 DEF Joins, Agree
  <2> QED BY <1>1, <2>2, <2>3, <2>5 DEF a
<1> HIDE DEF c2, l2, e, s
<1>10. Held(c2, iv, ck, l2, dic, actual)
  <2>1. PICK m \in 0 .. Len(log) : Stands(actual, m, log) /\ AllHeld(dic, m, log, cipher, ck, iv)
    BY <1>2 DEF AtRest, Held
  <2>2. m \in Nat /\ m <= Len(log) /\ m <= Len(l2) /\ Len(log) \in 0 .. Len(log) /\ m \in 0 .. m
        /\ Len(log) \in m .. Len(log) /\ m \in 0 .. Len(l2)
    BY <1>3, <1>7
  <2>3. Agree(log, l2, m)
    BY <1>3, <1>7, <2>2 DEF Agree
  <2>4. Pos(log, m) \in Nat /\ Pos(log, m) <= Len(cipher) /\ Pos(l2, m) = Pos(log, m)
    <3>1. Pos(log, m) \in Nat
      BY <1>3, PosType
    <3>2. Pos(log, m) <= Pos(log, Len(log))
      BY <1>3, <2>2, PosOrder
    <3>3. Pos(log, m) = Pos(l2, m)
      BY <1>3, <1>7, <2>2, <2>3, ThroughAgree
    <3> QED BY <1>3, <3>1, <3>2, <3>3
  <2>5. Agree(cipher, c2, Pos(log, m))
    BY <1>3, <1>9, <2>4 DEF Agree
  <2>6. AllHeld(dic, m, l2, c2, ck, iv)
    <3> SUFFICES ASSUME NEW j \in Keys PROVE HolderIs(dic[j], j, m, l2, c2, ck, iv)
      BY DEF AllHeld
    <3>1. HolderIs(dic[j], j, m, log, cipher, ck, iv)
      BY <2>1 DEF AllHeld
    <3> HIDE DEF ck
    <3> QED BY ONLY <1>3, <1>7, <2>2, <2>3, <2>5, <3>1, HolderStable
  <2>7. Stands(actual, m, l2)
    BY <2>1, <2>2, <2>4 DEF Stands
  <2> QED BY <2>2, <2>6, <2>7 DEF Held
<1>11. loaded = TRUE => crypter = StatusAt(c2, ck, iv, actual)
  <2>1. loaded = TRUE => crypter = StatusAt(cipher, ck, iv, actual)
    BY <1>2 DEF AtRest
  <2>2. StatusAt(cipher, ck, iv, actual) = StatusAt(c2, ck, iv, actual)
    BY <1>2, <1>3, <1>9, StatusAgree
  <2> QED BY <2>1, <2>2
<1>12. AtRest'
  <2>1. input' = NoInput' /\ (loaded' = FALSE => actual' = 0)
    BY <1>1, <1>2 DEF AtRest, NoInput, NoHolder
  <2>2. crypter' = crypter /\ iv' = iv /\ dic' = dic /\ actual' = actual /\ loaded' = loaded
        /\ crypter'.key = ck
    BY <1>1
  <2>3. Held(cipher', iv', crypter'.key, log', dic', actual')
    BY <1>1, <1>10, <2>2
  <2>4. loaded' = TRUE => crypter' = StatusAt(cipher', crypter'.key, iv', actual')
    BY <1>1, <1>11, <2>2
  <2> QED BY <2>1, <2>3, <2>4 DEF AtRest
<1>13. Store(cipher', iv', crypter'.key, log')
  <2>1. Store(c2, iv, ck, l2)
    BY <1>3, <1>7, <1>8, <1>9 DEF Store
  <2> QED BY <1>1, <2>1
<1>14. actual' \in 0 .. Len(cipher')
  <2>1. actual \in 0 .. Len(c2)
    BY <1>2, <1>3, <1>9
  <2> QED BY <1>1, <2>1
<1>15. (multi \in BOOLEAN /\ loaded \in BOOLEAN /\ crypter \in Status /\ broken = FALSE /\ pc = "idle"
        /\ IsDic(dic))'
  BY <1>1, <1>2
<1> QED BY <1>12, <1>13, <1>14, <1>15 DEF CryptInv

\* loadFromFile.
LEMMA LoadKeeps == ASSUME CryptInv, LoadFromFile PROVE CryptInv'
<1> DEFINE ck == crypter.key
           c == Reset(ck, iv)
           d == NewReader(c)
<1>1. /\ pc = "idle" /\ loaded = FALSE /\ loaded' = TRUE /\ actual' = Size /\ crypter' = c
      /\ (Size = 0 => pc' = "idle" /\ input' = NoInput)
      /\ (Size # 0 => pc' = "holder" /\ input' = NewReader(crypter'))
      /\ UNCHANGED <<cipher, iv, multi, dic, holder, broken, log>>
  BY DEF LoadFromFile, CryptInv
<1>2. /\ Store(cipher, iv, ck, log) /\ IsDic(dic) /\ AtRest /\ multi \in BOOLEAN /\ broken = FALSE
  BY <1>1 DEF CryptInv
<1>3. /\ Size \in Nat /\ Size = Len(cipher) /\ IsCfb(cipher, text, ck, iv) /\ cipher \in Seq(Byte)
      /\ iv \in Block /\ ck \in CryptKeys
  BY <1>2, StoreParts
<1>4. Held(cipher, iv, ck, log, dic, 0)
  BY <1>1, <1>2 DEF AtRest
<1>5. c \in Status /\ c.key = ck /\ c = StatusAt(cipher, ck, iv, 0)
  <2>1. 0 \in 0 .. Len(cipher)
    BY <1>3
  <2>2. StatusAt(cipher, ck, iv, 0) \in Status
    BY <1>3, <2>1, StatusType
  <2> QED BY <2>2, StatusAtStart DEF Reset
<1>6. (Size # 0) => input' = d
  BY <1>1
<1>7. /\ \E g \in 0 .. BlockLen - 1 : Reading(d, g, text, ck, iv)
      /\ d.position = 0 /\ d.discard <= d.bufPos /\ d.crypter = c
  <2>1. d = NewReader(Reset(ck, iv))
    OBVIOUS
  <2> HIDE DEF d, ck
  <2>2. /\ \E g \in 0 .. BlockLen - 1 : Reading(d, g, text, ck, iv)
        /\ d.position = 0 /\ d.discard <= d.bufPos /\ d.crypter = Reset(ck, iv)
    BY ONLY <1>3, <2>1, OpenAtStart
  <2> QED BY <2>2
<1> HIDE DEF d, c
<1>8. crypter'.key = ck /\ crypter' \in Status /\ cipher' = cipher /\ iv' = iv /\ dic' = dic /\ log' = log
  BY <1>1, <1>5
<1>9. /\ Store(cipher', iv', crypter'.key, log') /\ IsDic(dic') /\ actual' \in 0 .. Len(cipher')
      /\ multi' \in BOOLEAN /\ loaded' = TRUE /\ broken' = FALSE
  BY <1>1, <1>2, <1>3, <1>8
<1>10. Held(cipher', iv', crypter'.key, log', dic', 0)
  BY <1>4, <1>8
<1>11. CASE Size = 0
  <2>1. crypter' = StatusAt(cipher', crypter'.key, iv', actual')
    BY <1>1, <1>5, <1>8, <1>11
  <2>2. input' = NoInput'
    BY <1>1, <1>11 DEF NoInput, NoHolder
  <2>3. AtRest'
    BY <1>1, <1>10, <1>11, <2>1, <2>2 DEF AtRest
  <2> QED BY <1>1, <1>8, <1>9, <1>11, <2>3 DEF CryptInv
<1>12. CASE Size # 0
  <2>1. Reads(cipher, d, log, ck, iv)
    BY <1>7, ReadsIs
  <2>2. Reads(cipher', input', log', crypter'.key, iv')
    BY <1>6, <1>8, <1>12, <2>1
  <2>3. /\ actual' = Len(cipher') /\ crypter' = input'.crypter /\ input'.position = 0
        /\ input'.discard <= input'.bufPos /\ Len(cipher') # 0 /\ pc' = "holder"
    BY <1>1, <1>3, <1>6, <1>7, <1>8, <1>12
  <2>4. Loading'
    BY <1>9, <1>10, <2>2, <2>3 DEF Loading
  <2> QED BY <1>8, <1>9, <2>3, <2>4 DEF CryptInv
<1> QED BY <1>11, <1>12

\* partialLoadFromFile.
LEMMA PartialKeeps == ASSUME CryptInv, PartialLoadFromFile PROVE CryptInv'
<1> DEFINE ck == crypter.key
           d == Seek(NewReader(crypter), actual)
<1>1. /\ pc = "idle" /\ loaded = TRUE /\ 0 < actual /\ actual < Size /\ actual' = Size /\ Continue(d)
      /\ UNCHANGED <<cipher, iv, multi, loaded, dic, holder, log>>
  BY DEF PartialLoadFromFile, CryptInv
<1>2. /\ Store(cipher, iv, ck, log) /\ IsDic(dic) /\ AtRest /\ actual \in 0 .. Len(cipher)
  BY <1>1 DEF CryptInv
<1>3. Size \in Nat /\ Size = Len(cipher) /\ IsCfb(cipher, text, ck, iv)
  BY <1>2, StoreParts
<1>4. /\ crypter = StatusAt(cipher, ck, iv, actual) /\ Held(cipher, iv, ck, log, dic, actual)
      /\ actual \in Nat /\ actual <= Size
  BY <1>1, <1>2, <1>3 DEF AtRest
<1>5. d = Seek(NewReader(crypter), actual)
  OBVIOUS
<1> HIDE DEF ck, d
<1>6. /\ \E g \in 0 .. BlockLen - 1 : Reading(d, g, text, ck, iv)
      /\ d.position = actual /\ d.crypter = crypter
  BY ONLY <1>3, <1>4, <1>5, OpenAtIs
<1>7. PICK g \in 0 .. BlockLen - 1 : Reading(d, g, text, ck, iv)
  BY <1>6
<1>8. /\ loaded' = TRUE /\ actual' = Len(cipher) /\ UNCHANGED <<cipher, iv, multi, log>> /\ IsDic(dic')
      /\ Reading(d, g, text, crypter.key, iv) /\ d.position # 0
      /\ Held(cipher, iv, crypter.key, log, dic', d.position)
  BY <1>1, <1>2, <1>3, <1>4, <1>6, <1>7 DEF ck
<1> QED BY ONLY CryptInv, <1>1, <1>7, <1>8, ContinueKeeps

-----------------------------------------------------------------------------
\* The same, but that only what is ahead of d is kept.
ReadsNew(d, n, e, t, ck, v) ==
    /\ \E h \in 0 .. BlockLen - 1 : Reading(e, h, t, ck, v)
    /\ e.position = d.position /\ e.discard <= e.bufPos
    /\ Left(e) >= n \/ Left(e) = Size - d.position
    /\ n >= 1 => Aligned(e)

\* consumeBytes for a record's beginning.
LEMMA ConsumeNew ==
    ASSUME NEW t, NEW ck, NEW v, IsCfb(cipher, t, ck, v), NEW d, NEW g, Reading(d, g, t, ck, v),
           NEW n \in Nat, NEW e, e = ConsumeBytes(d, n, TRUE)
    PROVE  ReadsNew(d, n, e, t, ck, v)
<1> DEFINE m == Marked(d, TRUE)
<1>1. e = Consumed(m, n) /\ m = Marked(d, TRUE)
  BY ConsumeParts
<1> HIDE DEF m
<1>2. /\ Reading(m, g, t, ck, v) /\ m.position = d.position /\ m.discard <= m.bufPos
  BY <1>1, MarkedIs
<1>3. ReadsOn(m, n, e, t, ck, v)
  BY <1>1, <1>2, ConsumeIs
<1> QED BY ONLY <1>2, <1>3 DEF ReadsOn, ReadsNew

\* consumeBytes within a record.
LEMMA ConsumeOn ==
    ASSUME NEW t, NEW ck, NEW v, IsCfb(cipher, t, ck, v), NEW d, NEW g, Reading(d, g, t, ck, v),
           d.discard <= d.bufPos, NEW n \in Nat, NEW e, e = ConsumeBytes(d, n, FALSE)
    PROVE  ReadsOn(d, n, e, t, ck, v)
<1>1. e = Consumed(d, n)
  BY ConsumeParts
<1> QED BY <1>1, ConsumeIs

\* The reader r has read a byte more than in.
ByteRead(in, r, t, ck, v) ==
    /\ \E h \in 0 .. BlockLen - 1 : Reading(r, h, t, ck, v)
    /\ r.position = in.position + 1 /\ Aligned(r)
    /\ r.bufPos - r.discard >= (in.bufPos - in.discard) + 1
    /\ r.buf[r.bufPos] = t[in.position + 1]

\* A byte is read from a reader that is not at the end of the region.
LEMMA ByteIs ==
    ASSUME NEW t, NEW ck, NEW v, IsCfb(cipher, t, ck, v), NEW in, NEW g, Reading(in, g, t, ck, v),
           in.discard <= in.bufPos, in.position < Size,
           NEW d, d = ConsumeBytes(in, Ahead, FALSE), NEW r, r = ReadRawByte(d)
    PROVE  ByteRead(in, r, t, ck, v)
<1>1. Ahead \in Nat /\ Ahead >= 1 /\ Size \in Nat
  BY CryptAssumption, BlockAssumption, LenProperties DEF Size, IsCfb
<1>2. /\ \E h \in 0 .. BlockLen - 1 : Reading(d, h, t, ck, v)
      /\ d.position = in.position /\ d.discard <= d.bufPos
      /\ d.bufPos - d.discard >= in.bufPos - in.discard
      /\ Left(d) >= Ahead \/ Left(d) = Size - in.position
      /\ Ahead >= 1 \/ Aligned(in) => Aligned(d)
  <2>1. Ahead \in Nat
    BY <1>1
  <2>2. ReadsOn(in, Ahead, d, t, ck, v)
    BY <2>1, ConsumeOn
  <2> QED BY <2>2 DEF ReadsOn
<1>3. PICK h \in 0 .. BlockLen - 1 : Reading(d, h, t, ck, v)
  BY <1>2
<1>4. /\ d.position \in Nat /\ d.bufPos \in Nat /\ d.discard \in Nat /\ Left(d) \in Nat
  BY <1>3, ReadingParts
<1>i. in.position \in Nat /\ in.bufPos \in Nat /\ in.discard \in Nat
  BY ReadingParts
<1>5. Left(d) >= 1
  BY <1>1, <1>2, <1>4, <1>i, SomeLeft
<1>6. r = Take(d, 1)
  BY <1>3, <1>5, RawByteIs
<1>7. /\ Reading(r, h, t, ck, v) /\ r.position = d.position + 1 /\ r.bufPos = d.bufPos + 1
      /\ r.discard = d.discard /\ r.buf = d.buf /\ (Aligned(d) => Aligned(r))
  <2>1. 1 \in Nat /\ 1 <= Left(d)
    BY ONLY <1>4, <1>5
  <2> QED BY ONLY <1>3, <1>6, <2>1, TakeIs
<1>8. d.buf[d.bufPos + 1] = t[d.position + 1]
  <2>1. 1 \in Nat /\ 1 <= Left(d) /\ 1 \in 1 .. 1
    BY ONLY <1>4, <1>5
  <2>2. \A i \in 1 .. 1 : d.buf[d.bufPos + i] = t[d.position + i]
    BY <1>3, <2>1, HeldIs
  <2> QED BY <2>1, <2>2
<1>9. Aligned(r)
  BY <1>1, <1>2, <1>7
<1>10. r.bufPos - r.discard >= (in.bufPos - in.discard) + 1
  <2> DEFINE a == d.bufPos
             b == d.discard
             c == in.bufPos
             e == in.discard
  <2>1. a \in Nat /\ b \in Nat /\ c \in Nat /\ e \in Nat /\ a - b >= c - e
    BY <1>2, <1>4, <1>i
  <2>2. r.bufPos = a + 1 /\ r.discard = b
    BY <1>7
  <2> HIDE DEF a, b, c, e
  <2>3. (a + 1) - b >= (c - e) + 1
    BY ONLY <2>1
  <2> QED BY <2>2, <2>3 DEF c, e
<1> QED BY <1>2, <1>3, <1>7, <1>8, <1>9, <1>10 DEF ByteRead

\* decodeOneMap reads the size holder.
LEMMA HolderKeeps == ASSUME CryptInv, ReadHolder PROVE CryptInv'
<1> DEFINE ck == crypter.key
           d == ConsumeBytes(input, Ahead, FALSE)
           r == ReadRawByte(d)
<1>1. /\ pc = "holder" /\ Continue(r)
      /\ UNCHANGED <<cipher, iv, multi, loaded, actual, dic, holder, log>>
  BY DEF ReadHolder
<1>2. /\ Store(cipher, iv, ck, log) /\ IsDic(dic) /\ loaded = TRUE /\ actual = Len(cipher)
      /\ Reads(cipher, input, log, ck, iv)
      /\ input.position = 0 /\ input.discard <= input.bufPos
      /\ Len(cipher) # 0 /\ Held(cipher, iv, ck, log, dic, 0)
  BY <1>1 DEF CryptInv, Loading
<1>3. /\ Size \in Nat /\ Size = Len(cipher) /\ IsCfb(cipher, text, ck, iv) /\ log \in Seq(Holding)
  BY <1>2, StoreParts
<1>4. PICK g \in 0 .. BlockLen - 1 : Reading(input, g, text, ck, iv)
  BY <1>2, ReadsIs
<1>5. d = ConsumeBytes(input, Ahead, FALSE) /\ r = ReadRawByte(d)
  OBVIOUS
<1> HIDE DEF d, r, ck
<1>6. (\E h \in 0 .. BlockLen - 1 : Reading(r, h, text, ck, iv)) /\ r.position = 0 + 1
  <2>1. input.position < Size
    BY <1>2, <1>3
  <2>2. IsCfb(cipher, text, ck, iv)
    BY <1>3
  <2>3. ByteRead(input, r, text, ck, iv)
    BY <1>2, <1>4, <1>5, <2>1, <2>2, ByteIs
  <2> QED BY <1>2, <2>3 DEF ByteRead
<1>7. PICK h \in 0 .. BlockLen - 1 : Reading(r, h, text, ck, iv)
  BY <1>6
<1>8. Held(cipher, iv, ck, log, dic, 1)
  <2>1. PICK m \in 0 .. Len(log) : Stands(0, m, log) /\ AllHeld(dic, m, log, cipher, ck, iv)
    BY <1>2 DEF Held
  <2>2. Pos(log, 0) = 1 /\ Pos(log, 0) <= Pos(log, m) /\ 0 \in 0 .. Len(log) /\ Pos(log, m) \in Nat
    <3>1. 0 \in 0 .. Len(log) /\ m \in 0 .. Len(log)
      BY <2>1
    <3> QED BY <1>3, <3>1, PosType, PosOrder
  <2>3. m = 0
    BY <2>1, <2>2 DEF Stands
  <2>4. Stands(1, 0, log)
    BY <2>2 DEF Stands
  <2> QED BY <2>1, <2>2, <2>3, <2>4 DEF Held
<1>9. /\ loaded' = TRUE /\ actual' = Len(cipher) /\ UNCHANGED <<cipher, iv, multi, log>> /\ IsDic(dic')
      /\ Reading(r, h, text, crypter.key, iv) /\ r.position # 0
      /\ Held(cipher, iv, crypter.key, log, dic', r.position)
  BY <1>1, <1>2, <1>6, <1>7, <1>8 DEF ck
<1> QED BY ONLY CryptInv, <1>1, <1>7, <1>9, ContinueKeeps

\* t from o on is r, in the part of length q from a on.
PartAt(t, r, o, a, q) ==
    /\ (o + a) + q <= Len(t) /\ SubSeq(t, (o + a) + 1, (o + a) + q) = SubSeq(r, a + 1, a + q)

\* At o, after m records, the text has one of k with the value x, n and z bytes.
HasRecord(l, m, k, x, o, n, z) ==
    /\ k \in Keys /\ x \in Vals /\ n \in Nat /\ n >= 1 /\ z \in Nat /\ o \in Nat
    /\ k = l[m + 1].key /\ x = l[m + 1].val /\ o = Pos(l, m) /\ n = Len(KeyText[k]) /\ z = Len(x)
    /\ m + 1 \in 0 .. Len(l)
    /\ Pos(l, m + 1) = o + (n + 2 + z) /\ o + (n + 2 + z) <= Len(TextOf(l))
    /\ TextOf(l)[o + 1] = n
    /\ SubSeq(TextOf(l), (o + 1) + 1, (o + 1) + n) = KeyText[k]
    /\ TextOf(l)[o + (n + 2)] = z
    /\ SubSeq(TextOf(l), (o + (n + 2)) + 1, (o + (n + 2)) + z) = x

\* The record that begins at a place of the text, part by part.
LEMMA RecordOf ==
    ASSUME NEW l \in Seq(Holding), NEW t, t = TextOf(l), NEW m \in 0 .. Len(l), m < Len(l),
           NEW k, k = l[m + 1].key, NEW x, x = l[m + 1].val,
           NEW o, o = Pos(l, m), NEW n, n = Len(KeyText[k]), NEW z, z = Len(x)
    PROVE  HasRecord(l, m, k, x, o, n, z)
<1> DEFINE i == m + 1
           r == Rec(l[i])
<1>1. i \in 1 .. Len(l) /\ i - 1 = m /\ i \in 0 .. Len(l) /\ Len(l) \in Nat
  BY LenProperties
<1>2. k = l[i].key /\ x = l[i].val
  OBVIOUS
<1>i. i = m + 1
  OBVIOUS
<1> HIDE DEF i, r
<1>3. /\ k \in Keys /\ x \in Vals /\ IsRecord(r, k, x) /\ Len(r) \in Nat
      /\ Pos(l, i) = o + Len(r) /\ o \in Nat
  <2>1. /\ l[i].key \in Keys /\ l[i].val \in Vals /\ IsRecord(Rec(l[i]), l[i].key, l[i].val)
        /\ Len(Rec(l[i])) \in Nat /\ Pos(l, i) = Pos(l, i - 1) + Len(Rec(l[i]))
    BY <1>1, PosNext
  <2>2. Pos(l, m) \in Nat
    BY PosType
  <2> QED BY <1>1, <1>2, <2>1, <2>2 DEF r
<1>4. /\ n \in Nat /\ n >= 1 /\ z \in Nat /\ Len(r) = n + 2 + z /\ r \in Seq(Byte)
      /\ r[1] = n /\ r[n + 2] = z
  BY <1>3 DEF IsRecord
<1>5. /\ SubSeq(r, 2, 1 + n) = KeyText[k] /\ SubSeq(r, n + 3, n + 2 + z) = x
  <2>1. /\ SubSeq(r, 2, 1 + Len(KeyText[k])) = KeyText[k]
        /\ SubSeq(r, Len(KeyText[k]) + 3, Len(KeyText[k]) + 2 + Len(x)) = x
    BY ONLY <1>3, RecordParts, ZenonT(40)
  <2> QED BY <2>1
<1>6. ASSUME NEW a \in Nat, NEW q \in Nat, a + q <= n + 2 + z
      PROVE  PartAt(t, r, o, a, q)
  <2> DEFINE p == o + a
  <2>1. p = Pos(l, i - 1) + a
    BY <1>1
  <2>2. a + q <= Len(Rec(l[i]))
    BY ONLY <1>4, <1>6 DEF r
  <2> HIDE DEF p
  <2>3. p \in Nat /\ p + q <= Len(TextOf(l))
        /\ SubSeq(TextOf(l), p + 1, p + q) = SubSeq(Rec(l[i]), a + 1, a + q)
    <3>1. i \in 1 .. Len(l)
      BY <1>1
    <3> QED BY ONLY l \in Seq(Holding), a \in Nat, q \in Nat, <3>1, <2>1, <2>2, RecordText, ZenonT(40)
  <2> QED BY <2>3 DEF p, r, PartAt
<1>7. o + (n + 2 + z) <= Len(t)
  <2>1. 0 \in Nat /\ n + 2 + z \in Nat /\ 0 + (n + 2 + z) <= n + 2 + z
    BY ONLY <1>4
  <2>2. (o + 0) + (n + 2 + z) <= Len(t)
    BY ONLY <2>1, <1>6 DEF PartAt
  <2> QED BY ONLY <1>3, <1>4, <2>2
<1>8. SubSeq(t, (o + 1) + 1, (o + 1) + n) = KeyText[k]
  <2>1. 1 \in Nat /\ n \in Nat /\ 1 + n <= n + 2 + z
    BY ONLY <1>4
  <2>2. SubSeq(t, (o + 1) + 1, (o + 1) + n) = SubSeq(r, 1 + 1, 1 + n)
    BY ONLY <1>6, <2>1 DEF PartAt
  <2>3. 1 + 1 = 2
    OBVIOUS
  <2> QED BY ONLY <1>5, <2>2, <2>3
<1>9. SubSeq(t, (o + (n + 2)) + 1, (o + (n + 2)) + z) = x
  <2>1. n + 2 \in Nat /\ z \in Nat /\ (n + 2) + z <= n + 2 + z
    BY ONLY <1>4
  <2>2. SubSeq(t, (o + (n + 2)) + 1, (o + (n + 2)) + z) = SubSeq(r, (n + 2) + 1, (n + 2) + z)
    BY ONLY <1>6, <2>1 DEF PartAt
  <2>3. (n + 2) + 1 = n + 3
    BY ONLY <1>4
  <2> QED BY <1>5, <2>2, <2>3
<1>10. t[o + 1] = n /\ t[o + (n + 2)] = z
  <2>1. l # <<>>
    BY <1>1
  <2>2. t = Through(l)[Len(l)]
    BY <2>1, TextIs
  <2>3. Len(l) \in i .. Len(l) /\ 1 \in 1 .. Len(r) /\ n + 2 \in 1 .. Len(r)
    BY ONLY <1>1, <1>4
  <2>4. \A y \in 1 .. Len(r) : t[o + y] = r[y]
    <3> SUFFICES ASSUME NEW y \in 1 .. Len(r) PROVE t[o + y] = r[y]
      OBVIOUS
    <3>1. Through(l)[Len(l)][Pos(l, i - 1) + y] = Rec(l[i])[y]
      BY <1>1, <2>3, RecordAt DEF r
    <3> QED BY <1>1, <2>2, <3>1 DEF r
  <2> QED BY <1>4, <2>3, <2>4
<1> QED BY <1>1, <1>3, <1>4, <1>7, <1>8, <1>9, <1>10 DEF i, HasRecord

-----------------------------------------------------------------------------
\* Every record that is not the last is followed by one.
LEMMA RecordHere ==
    ASSUME NEW l \in Seq(Holding), NEW m \in 0 .. Len(l), m < Len(l)
    PROVE  \E k, x, o, n, z : HasRecord(l, m, k, x, o, n, z)
<1> DEFINE k == l[m + 1].key
           x == l[m + 1].val
           o == Pos(l, m)
           n == Len(KeyText[k])
           z == Len(x)
           t == TextOf(l)
<1>1. /\ k = l[m + 1].key /\ x = l[m + 1].val /\ o = Pos(l, m) /\ n = Len(KeyText[k])
      /\ z = Len(x) /\ t = TextOf(l)
  OBVIOUS
<1> HIDE DEF k, x, o, n, z, t
<1>2. HasRecord(l, m, k, x, o, n, z)
  BY <1>1, RecordOf
<1> QED BY <1>2

\* Where a reader that is not at the end stands, a record begins.
LEMMA NextRecord ==
    ASSUME Store(cipher, iv, crypter.key, log), NEW p \in Nat, p # Len(cipher),
           NEW m \in 0 .. Len(log), Stands(p, m, log), p >= 1, p <= Size
    PROVE  m < Len(log) /\ p = Pos(log, m)
<1>1. /\ log \in Seq(Holding) /\ Len(log) \in Nat /\ Size = Len(cipher) /\ Size \in Nat
      /\ (log # <<>> => Size = Pos(log, Len(log))) /\ (log = <<>> => Size = 0)
  BY StoreParts
<1>2. p = Pos(log, m)
  BY DEF Stands
<1>3. log # <<>>
  <2>1. Size >= 1
    BY ONLY <1>1, p \in Nat, p >= 1, p <= Size
  <2> QED BY <1>1, <2>1
<1>4. m # Len(log)
  BY <1>1, <1>2, <1>3
<1> QED BY <1>1, <1>2, <1>4

\* The reader d is at the key k of n bytes at o; after holds it, r is past it.
KeyGot(d, after, r, k, o, n, t, ck, v) ==
    /\ Peek(d) = n /\ n <= Size - o - 1
    /\ SubSeq(after.buf, after.bufPos + 1, after.bufPos + n) = KeyText[k]
    /\ after.ok = TRUE /\ after.crypter = r.crypter
    /\ \E h \in 0 .. BlockLen - 1 : Reading(r, h, t, ck, v)
    /\ r.position = o + 1 + n /\ Aligned(r) /\ r.bufPos - r.discard >= r.position - o

\* What readNSString does to the reader where a record begins: the key it reads
\* is the record's, and the record's beginning is still in the buffer.
LEMMA KeyRead ==
    ASSUME NEW l, NEW t, t = TextOf(l), NEW ck, NEW v, IsCfb(cipher, t, ck, v),
           NEW m, NEW k, NEW x, NEW o, NEW n, NEW z, HasRecord(l, m, k, x, o, n, z),
           NEW in, NEW g, Reading(in, g, t, ck, v), in.position = o,
           NEW d, d = ConsumeBytes(in, Ahead, TRUE),
           NEW after, after = ConsumeBytes(ReadRawByte(d), n, FALSE), NEW r, r = Take(after, n)
    PROVE  KeyGot(d, after, r, k, o, n, t, ck, v)
<1>1. /\ n \in Nat /\ n >= 1 /\ z \in Nat /\ o \in Nat /\ o + (n + 2 + z) <= Len(t)
      /\ t[o + 1] = n /\ SubSeq(t, (o + 1) + 1, (o + 1) + n) = KeyText[k]
  BY DEF HasRecord
<1>2. /\ Size \in Nat /\ Size = Len(t)
  BY LenProperties DEF IsCfb, Size
<1>a. Ahead \in Nat /\ Ahead >= 1
  BY CryptAssumption, BlockAssumption
<1>3. /\ \E h \in 0 .. BlockLen - 1 : Reading(d, h, t, ck, v)
      /\ d.position = in.position /\ d.discard <= d.bufPos
      /\ Left(d) >= Ahead \/ Left(d) = Size - in.position
      /\ Ahead >= 1 => Aligned(d)
  <2>1. ReadsNew(in, Ahead, d, t, ck, v)
    BY <1>a, ConsumeNew
  <2> QED BY <2>1 DEF ReadsNew
<1>4. PICK h1 \in 0 .. BlockLen - 1 : Reading(d, h1, t, ck, v)
  BY <1>3
<1>5. d.position \in Nat /\ d.bufPos \in Nat /\ d.discard \in Nat /\ Left(d) \in Nat
  BY <1>4, ReadingParts
<1>6. Left(d) >= 1 /\ Aligned(d) /\ d.position = o
  <2>1. o < Size
    BY ONLY <1>1, <1>2
  <2>2. Left(d) >= Ahead \/ Left(d) = Size - o
    BY <1>3
  <2>3. Left(d) >= 1
    BY ONLY <1>1, <1>2, <1>a, <1>5, <2>1, <2>2
  <2> QED BY <1>3, <1>a, <2>3
<1> DEFINE b == ReadRawByte(d)
<1>7. b = Take(d, 1)
  BY <1>4, <1>6, RawByteIs
<1>b. after = ConsumeBytes(b, n, FALSE)
  OBVIOUS
<1> HIDE DEF b
<1>8. /\ Reading(b, h1, t, ck, v) /\ b.position = d.position + 1 /\ b.bufPos = d.bufPos + 1
      /\ b.discard = d.discard /\ (Aligned(d) => Aligned(b))
  <2>1. 1 \in Nat /\ 1 <= Left(d)
    BY ONLY <1>5, <1>6
  <2> QED BY ONLY <1>4, <1>7, <2>1, TakeIs
<1>9. Peek(d) = n
  <2>1. 1 \in Nat /\ 1 <= Left(d) /\ 1 \in 1 .. 1
    BY ONLY <1>5, <1>6
  <2>2. \A i \in 1 .. 1 : d.buf[d.bufPos + i] = t[d.position + i]
    BY <1>4, <2>1, HeldIs
  <2>3. d.buf[d.bufPos + 1] = t[d.position + 1]
    BY ONLY <2>1, <2>2
  <2> QED BY <1>1, <1>6, <2>3 DEF Peek
<1>10. b.discard <= b.bufPos /\ b.bufPos - b.discard >= 1 /\ b.bufPos \in Nat /\ b.discard \in Nat
  BY ONLY <1>3, <1>5, <1>8
<1>11. ReadsOn(b, n, after, t, ck, v)
  BY <1>1, <1>8, <1>10, <1>b, ConsumeOn
<1>12. /\ \E h \in 0 .. BlockLen - 1 : Reading(after, h, t, ck, v)
       /\ after.position = b.position /\ after.bufPos - after.discard >= b.bufPos - b.discard
       /\ Left(after) >= n \/ Left(after) = Size - b.position
       /\ n >= 1 \/ Aligned(b) => Aligned(after)
  BY <1>11 DEF ReadsOn
<1>13. PICK h2 \in 0 .. BlockLen - 1 : Reading(after, h2, t, ck, v)
  BY <1>12
<1>14. /\ after.position \in Nat /\ after.bufPos \in Nat /\ after.discard \in Nat
       /\ Left(after) \in Nat /\ after.ok = TRUE
  BY <1>13, ReadingParts
<1>15. after.position = o + 1 /\ n <= Left(after) /\ after.bufPos - after.discard >= 1 /\ Aligned(after)
  <2>1. after.position = o + 1
    BY ONLY <1>6, <1>8, <1>12
  <2>2. Left(after) >= n \/ Left(after) = Size - (o + 1)
    BY ONLY <1>6, <1>8, <1>12
  <2>3. n <= Left(after)
    BY ONLY <1>1, <1>2, <1>14, <2>2
  <2>4. after.bufPos - after.discard >= 1
    BY ONLY <1>10, <1>12, <1>14
  <2> QED BY <1>1, <1>12, <2>1, <2>3, <2>4
<1>16. /\ Reading(r, h2, t, ck, v) /\ r.position = after.position + n /\ r.bufPos = after.bufPos + n
       /\ r.discard = after.discard /\ r.crypter = after.crypter /\ (Aligned(after) => Aligned(r))
  <2>1. n \in Nat /\ n <= Left(after) /\ r = Take(after, n)
    BY <1>1, <1>15
  <2> QED BY ONLY <1>13, <2>1, TakeIs
<1>17. SubSeq(after.buf, after.bufPos + 1, after.bufPos + n) = KeyText[k]
  <2>1. n \in Nat /\ n <= Left(after) /\ IsCfb(cipher, t, ck, v)
    BY <1>1, <1>15
  <2>2. SubSeq(after.buf, after.bufPos + 1, after.bufPos + n)
          = SubSeq(t, after.position + 1, after.position + n)
    BY ONLY <1>13, <2>1, HeldIs
  <2> QED BY ONLY <1>1, <1>15, <2>2
<1>18. n <= Size - o - 1
  BY ONLY <1>1, <1>2
<1>19. r.position = o + 1 + n /\ r.bufPos - r.discard >= r.position - o
  BY ONLY <1>1, <1>14, <1>15, <1>16
<1>20. \E h \in 0 .. BlockLen - 1 : Reading(r, h, t, ck, v)
  BY <1>16
<1> QED BY <1>9, <1>14, <1>15, <1>16, <1>17, <1>18, <1>19, <1>20 DEF KeyGot

-----------------------------------------------------------------------------
\* decodeOneMap reads a key.
LEMMA KeyKeeps == ASSUME CryptInv, ReadKey PROVE CryptInv'
<1> DEFINE ck == crypter.key
           d == ConsumeBytes(input, Ahead, TRUE)
           size == Peek(d)
           after == ConsumeBytes(ReadRawByte(d), size, FALSE)
           r == Take(after, size)
           p == input.position
<1>1. /\ pc = "key"
      /\ size <= Size - p - 1 =>
           /\ holder' = [offset |-> p, key |-> SubSeq(after.buf, after.bufPos + 1, after.bufPos + size)]
           /\ input' = r /\ crypter' = after.crypter /\ broken' = (broken \/ ~after.ok)
           /\ pc' = "value" /\ dic' = dic
      /\ UNCHANGED <<cipher, iv, multi, loaded, actual, log>>
  BY DEF ReadKey
<1>2. /\ Store(cipher, iv, ck, log) /\ IsDic(dic) /\ loaded = TRUE /\ actual = Len(cipher)
      /\ Reads(cipher, input, log, ck, iv) /\ multi \in BOOLEAN /\ broken = FALSE
      /\ p # Len(cipher) /\ p # 0 /\ Held(cipher, iv, ck, log, dic, p)
  BY <1>1 DEF CryptInv, Loading
<1>3. /\ Size \in Nat /\ Size = Len(cipher) /\ IsCfb(cipher, text, ck, iv) /\ log \in Seq(Holding)
  BY <1>2, StoreParts
<1>4. PICK g \in 0 .. BlockLen - 1 : Reading(input, g, text, ck, iv)
  BY <1>2, ReadsIs
<1>5. PICK m \in 0 .. Len(log) : Stands(p, m, log) /\ AllHeld(dic, m, log, cipher, ck, iv)
  BY <1>2 DEF Held
<1>6. m < Len(log) /\ p = Pos(log, m)
  <2>1. p \in Nat /\ p >= 1 /\ p <= Size
    <3>1. p \in Nat /\ Left(input) \in Nat /\ p + Left(input) = input.decPos /\ input.decPos <= Size
          /\ input.decPos \in Nat
      BY <1>4, ReadingParts
    <3> HIDE DEF p
    <3> QED BY ONLY <1>2, <1>3, <3>1
  <2> HIDE DEF p
  <2> QED BY <1>2, <1>5, <2>1, NextRecord
<1>7. PICK k, x, o, n, z : HasRecord(log, m, k, x, o, n, z)
  BY <1>3, <1>6, RecordHere
<1>8. /\ k = log[m + 1].key /\ o = p /\ n = Len(KeyText[k]) /\ n \in Nat /\ o = Pos(log, m)
  BY <1>6, <1>7 DEF HasRecord
<1>9. KeyGot(d, after, r, k, o, n, text, ck, iv)
  <2> DEFINE a2 == ConsumeBytes(ReadRawByte(d), n, FALSE)
             r2 == Take(a2, n)
  <2>1. d = ConsumeBytes(input, Ahead, TRUE) /\ input.position = o /\ text = TextOf(log)
    BY <1>8 DEF text
  <2>2. a2 = ConsumeBytes(ReadRawByte(d), n, FALSE) /\ r2 = Take(a2, n)
    OBVIOUS
  <2>3. IsCfb(cipher, text, ck, iv)
    BY <1>3
  <2> HIDE DEF d, after, r, ck, p, a2, r2, size
  <2>4. KeyGot(d, a2, r2, k, o, n, text, ck, iv)
    BY <1>4, <1>7, <2>1, <2>2, <2>3, KeyRead
  <2>5. size = n
    BY <2>4 DEF KeyGot, size
  <2> QED BY <2>4, <2>5 DEF after, r, a2, r2
<1> HIDE DEF d, after, r, size, p, ck
<1>10. /\ size = n /\ n <= Size - p - 1
       /\ SubSeq(after.buf, after.bufPos + 1, after.bufPos + n) = KeyText[k]
       /\ after.ok = TRUE /\ after.crypter = r.crypter
       /\ r.position = p + 1 + n /\ Aligned(r) /\ r.bufPos - r.discard >= r.position - p
  BY <1>8, <1>9 DEF KeyGot, size
<1>11. PICK h \in 0 .. BlockLen - 1 : Reading(r, h, text, ck, iv)
  BY <1>9 DEF KeyGot
<1>12. /\ holder' = [offset |-> p, key |-> KeyText[k]] /\ input' = r /\ crypter' = r.crypter
       /\ broken' = (broken \/ ~after.ok) /\ pc' = "value" /\ dic' = dic
       /\ cipher' = cipher /\ iv' = iv /\ multi' = multi /\ loaded' = loaded /\ actual' = actual
       /\ log' = log
  BY <1>1, <1>10
<1>13. broken' = FALSE
  BY <1>2, <1>10, <1>12
<1>14. crypter'.key = ck /\ crypter' \in Status
  <2>1. r.crypter \in Status /\ r.crypter = StatusAt(cipher, ck, iv, r.decPos)
    BY <1>11, ReadingParts
  <2> QED BY <1>12, <2>1, KeyIs
<1>15. Reads(cipher', input', log', crypter'.key, iv')
  <2>1. Reads(cipher, r, log, ck, iv)
    BY <1>11, ReadsIs
  <2> QED BY <1>12, <1>14, <2>1
<1>16. AtValue(cipher, iv, ck, log, dic, holder', r)
  <2> DEFINE c == KeyText[log[m + 1].key]
  <2>1. /\ holder' = [offset |-> Pos(log, m), key |-> c]
        /\ r.position = Pos(log, m) + 1 + Len(c)
        /\ r.bufPos - r.discard >= r.position - Pos(log, m)
    BY <1>6, <1>8, <1>10, <1>12
  <2>2. r.decPos = Len(cipher) \/ Whole(r.decPos)
    BY <1>3, <1>10 DEF Aligned
  <2> QED BY <1>5, <1>6, <2>1, <2>2 DEF AtValue
<1>17. Loading'
  <2>1. AtValue(cipher', iv', crypter'.key, log', dic', holder', input')
    BY <1>12, <1>14, <1>16
  <2>2. loaded' = TRUE /\ actual' = Len(cipher') /\ crypter' = input'.crypter /\ pc' = "value"
    BY <1>2, <1>12
  <2> QED BY <1>15, <2>1, <2>2 DEF Loading
<1>18. Store(cipher', iv', crypter'.key, log') /\ IsDic(dic') /\ actual' \in 0 .. Len(cipher')
  BY <1>2, <1>3, <1>12, <1>14
<1>19. multi' \in BOOLEAN /\ loaded' \in BOOLEAN
  BY <1>2, <1>12
<1> QED BY <1>12, <1>13, <1>14, <1>17, <1>18, <1>19 DEF CryptInv

\* The dictionary takes the holder h of the value of k.
Bound(d, k, h) == [j \in Keys |-> IF KeyText[j] = KeyText[k] THEN h ELSE d[j]]

\* The value's holder, and the others after its record: the dictionary of the
\* records read so far.
LEMMA BoundIs ==
    ASSUME NEW l \in Seq(Holding), NEW m \in Nat, NEW n, n = m + 1, NEW k \in Keys, k = l[n].key,
           NEW d, AllHeld(d, m, l, cipher, crypter.key, iv),
           NEW h, h = NewHolder(k, l[n].val, Pos(l, m), StatusAt(cipher, crypter.key, iv, Pos(l, m))),
           NEW e, e = Bound(d, k, h)
    PROVE  IsDic(e) /\ AllHeld(e, n, l, cipher, crypter.key, iv)
<1>1. IsDic(e)
  BY DEF IsDic, Bound
<1>2. ASSUME NEW j \in Keys PROVE HolderIs(e[j], j, n, l, cipher, crypter.key, iv)
  <2>1. CASE j = k
    <3>1. e[j] = h /\ l[n].key = j
      BY <2>1 DEF Bound
    <3>2. h = NewHolder(j, l[n].val, Pos(l, m), StatusAt(cipher, crypter.key, iv, Pos(l, m)))
      BY <2>1
    <3> QED BY <3>1, <3>2, HolderNew
  <2>2. CASE j # k
    <3>1. KeyText[j] # KeyText[k]
      BY <2>2, CryptAssumption
    <3>2. e[j] = d[j] /\ l[n].key # j
      BY <2>2, <3>1 DEF Bound
    <3>3. HolderIs(d[j], j, m, l, cipher, crypter.key, iv)
      BY DEF AllHeld
    <3> QED BY <3>2, <3>3, HolderMore
  <2> QED BY <2>1, <2>2
<1> QED BY <1>1, <1>2 DEF AllHeld

-----------------------------------------------------------------------------
\* The reader d is behind the size z of the value, and the record is still in
\* the buffer.
AtBytes(d, o, n, z, t, ck, v) ==
    /\ \E h \in 0 .. BlockLen - 1 : Reading(d, h, t, ck, v) /\ d.bufPos - (2 + n) >= h
    /\ d.position = o + (n + 2) /\ Aligned(d) /\ d.discard <= d.bufPos
    /\ d.bufPos >= 2 + n
    /\ d.buf[d.bufPos] = z /\ z <= Size - d.position

\* The reader r is behind the record.
PastValue(r, o, n, z, t, ck, v) ==
    /\ \E h \in 0 .. BlockLen - 1 : Reading(r, h, t, ck, v)
    /\ r.position = o + (n + 2 + z)

\* The z bytes ahead of d, as copied from its buffer, are x.
Copies(d, z, x) == SubSeq(d.buf, d.bufPos + 1, d.bufPos + z) = x

\* readData reads the size: it is the record's.
LEMMA ValueBegins ==
    ASSUME NEW l, NEW t, t = TextOf(l), NEW ck, NEW v, IsCfb(cipher, t, ck, v),
           NEW m, NEW k, NEW x, NEW o, NEW n, NEW z, HasRecord(l, m, k, x, o, n, z),
           NEW in, NEW g, Reading(in, g, t, ck, v), in.position = o + 1 + n,
           in.bufPos - in.discard >= in.position - o,
           NEW d, d = ReadRawByte(ConsumeBytes(in, Ahead, FALSE))
    PROVE  AtBytes(d, o, n, z, t, ck, v)
<1>1. /\ n \in Nat /\ n >= 1 /\ z \in Nat /\ o \in Nat /\ o + (n + 2 + z) <= Len(t)
      /\ t[o + (n + 2)] = z
  BY DEF HasRecord
<1>2. Size \in Nat /\ Size = Len(t)
  BY LenProperties DEF IsCfb, Size
<1>3. in.position \in Nat /\ in.bufPos \in Nat /\ in.discard \in Nat
  BY ReadingParts
<1>4. in.bufPos - in.discard >= n + 1 /\ in.discard <= in.bufPos /\ in.position < Size
      /\ in.position + 1 = o + (n + 2)
  <2> DEFINE a == in.bufPos
             b == in.discard
             p == in.position
  <2>1. a \in Nat /\ b \in Nat /\ p = o + 1 + n /\ a - b >= p - o
    BY <1>3
  <2> HIDE DEF a, b, p
  <2>2. a - b >= n + 1 /\ b <= a /\ p < Size /\ p + 1 = o + (n + 2)
    BY ONLY <1>1, <1>2, <2>1
  <2> QED BY <2>2 DEF a, b, p
<1> DEFINE e == ConsumeBytes(in, Ahead, FALSE)
<1>5. e = ConsumeBytes(in, Ahead, FALSE) /\ d = ReadRawByte(e)
  OBVIOUS
<1> HIDE DEF e
<1>6. ByteRead(in, d, t, ck, v)
  BY ONLY IsCfb(cipher, t, ck, v), Reading(in, g, t, ck, v), <1>4, <1>5, ByteIs
<1>7. PICK h \in 0 .. BlockLen - 1 : Reading(d, h, t, ck, v)
  BY <1>6 DEF ByteRead
<1>8. /\ d.position = in.position + 1 /\ Aligned(d)
      /\ d.bufPos - d.discard >= (in.bufPos - in.discard) + 1
      /\ d.buf[d.bufPos] = t[in.position + 1]
  BY <1>6 DEF ByteRead
<1>9. d.bufPos \in Nat /\ d.discard \in Nat /\ h \in Nat /\ h <= d.discard
  BY <1>7, ReadingParts
<1>10. d.bufPos - (2 + n) >= h /\ d.discard <= d.bufPos /\ d.bufPos >= 2 + n
  <2> DEFINE a == d.bufPos
             b == d.discard
             a0 == in.bufPos
             b0 == in.discard
             w == a0 - b0
  <2>2. a0 \in Nat /\ b0 \in Nat
    BY <1>3
  <2>3. a \in Nat /\ b \in Nat /\ h \in Nat /\ h <= b /\ a - b >= w + 1 /\ w >= n + 1
    BY <1>4, <1>8, <1>9
  <2> HIDE DEF a, b, a0, b0
  <2>4. w \in Int
    BY ONLY <2>2
  <2> HIDE DEF w
  <2>1. w \in Int /\ w >= n + 1 /\ a \in Nat /\ b \in Nat /\ h \in Nat /\ h <= b /\ a - b >= w + 1
    BY <2>3, <2>4
  <2>5. a - (2 + n) >= h /\ b <= a /\ a >= 2 + n
    BY ONLY <1>1, <2>1
  <2> QED BY <2>5 DEF a, b
<1>11. d.position = o + (n + 2) /\ d.buf[d.bufPos] = z
  BY <1>1, <1>4, <1>8
<1>12. z <= Size - d.position
  BY ONLY <1>1, <1>2, <1>11
<1> QED BY <1>7, <1>8, <1>10, <1>11, <1>12 DEF AtBytes

\* A large value: the cipher is rolled back to its record, and it is skipped.
LEMMA LargeRead ==
    ASSUME NEW t, NEW ck, NEW v, IsCfb(cipher, t, ck, v), NEW o \in Nat, NEW n \in Nat, NEW z \in Nat,
           NEW d, AtBytes(d, o, n, z, t, ck, v), NEW r, r = SkipBytes(d, z)
    PROVE  /\ PastValue(r, o, n, z, t, ck, v)
           /\ CanRollBack(d, 2 + n) /\ StatusBefore(d, 2 + n) = StatusAt(cipher, ck, v, o)
<1>1. PICK h \in 0 .. BlockLen - 1 : Reading(d, h, t, ck, v) /\ d.bufPos - (2 + n) >= h
  BY DEF AtBytes
<1>2. /\ d.position = o + (n + 2) /\ Aligned(d) /\ d.bufPos >= 2 + n /\ z <= Size - d.position
  BY DEF AtBytes
<1>3. Size \in Nat /\ 2 + n \in Nat
  BY LenProperties DEF IsCfb, Size
<1>4. d.position + z <= Size
  BY ONLY <1>2, <1>3, o \in Nat, n \in Nat, z \in Nat
<1>5. (\E g \in 0 .. BlockLen - 1 : Reading(r, g, t, ck, v)) /\ r.position = d.position + z
  BY <1>1, <1>2, <1>4, SkipIs
<1>6. r.position = o + (n + 2 + z)
  BY ONLY <1>2, <1>5, o \in Nat, n \in Nat, z \in Nat
<1>7. StatusBefore(d, 2 + n) = StatusAt(cipher, ck, v, o)
  <2> DEFINE q == 2 + n
  <2>1. q \in Nat /\ d.bufPos - q >= h
    BY <1>1, <1>3
  <2>2. d.position - q = o
    BY ONLY <1>2, o \in Nat, n \in Nat
  <2> HIDE DEF q
  <2>3. StatusBefore(d, q) = StatusAt(cipher, ck, v, d.position - q)
    BY ONLY <1>1, <2>1, IsCfb(cipher, t, ck, v), StatusBeforeIs
  <2> QED BY <2>2, <2>3 DEF q
<1> QED BY <1>2, <1>5, <1>6, <1>7 DEF PastValue, CanRollBack

\* A small one: it is read into the buffer and copied.
LEMMA SmallRead ==
    ASSUME NEW l, NEW t, t = TextOf(l), NEW ck, NEW v, IsCfb(cipher, t, ck, v),
           NEW m, NEW k, NEW x, NEW o, NEW n, NEW z, HasRecord(l, m, k, x, o, n, z),
           NEW d, AtBytes(d, o, n, z, t, ck, v), NEW got, got = ConsumeBytes(d, z, FALSE),
           NEW r, r = Take(got, z)
    PROVE  PastValue(r, o, n, z, t, ck, v) /\ Copies(got, z, x)
<1>1. /\ n \in Nat /\ n >= 1 /\ z \in Nat /\ o \in Nat /\ o + (n + 2 + z) <= Len(t)
      /\ SubSeq(t, (o + (n + 2)) + 1, (o + (n + 2)) + z) = x
  BY DEF HasRecord
<1>2. Size \in Nat /\ Size = Len(t)
  BY LenProperties DEF IsCfb, Size
<1>3. PICK h \in 0 .. BlockLen - 1 : Reading(d, h, t, ck, v)
  BY DEF AtBytes
<1>4. d.position = o + (n + 2) /\ d.discard <= d.bufPos
  BY DEF AtBytes
<1>5. ReadsOn(d, z, got, t, ck, v)
  BY ONLY IsCfb(cipher, t, ck, v), <1>1, <1>3, <1>4, got = ConsumeBytes(d, z, FALSE), ConsumeOn
<1>6. PICK g \in 0 .. BlockLen - 1 : Reading(got, g, t, ck, v)
  BY <1>5 DEF ReadsOn
<1>7. got.position = d.position /\ (Left(got) >= z \/ Left(got) = Size - d.position)
  BY <1>5 DEF ReadsOn
<1>8. z <= Left(got)
  <2>1. Left(got) \in Nat
    BY <1>6, ReadingParts
  <2>2. Left(got) >= z \/ Left(got) = Size - (o + (n + 2))
    BY <1>4, <1>7
  <2> QED BY ONLY <1>1, <1>2, <2>1, <2>2
<1>9. SubSeq(got.buf, got.bufPos + 1, got.bufPos + z) = SubSeq(t, got.position + 1, got.position + z)
  BY ONLY IsCfb(cipher, t, ck, v), <1>1, <1>6, <1>8, HeldIs
<1>10. Reading(r, g, t, ck, v) /\ r.position = got.position + z
  BY ONLY <1>1, <1>6, <1>8, r = Take(got, z), TakeIs
<1>11. r.position = o + (n + 2 + z)
  BY ONLY <1>1, <1>4, <1>7, <1>10
<1> QED BY <1>1, <1>4, <1>7, <1>9, <1>10, <1>11 DEF PastValue, Copies

\* The record has been read, and its value's holder is in the dictionary.
LEMMA ValueEnds ==
    ASSUME CryptInv, loaded = TRUE, actual = Len(cipher), NEW m \in 0 .. Len(log),
           AllHeld(dic, m, log, cipher, crypter.key, iv),
           NEW k, NEW x, NEW o, NEW n, NEW z, HasRecord(log, m, k, x, o, n, z),
           NEW h, h = NewHolder(k, x, o, StatusAt(cipher, crypter.key, iv, o)),
           dic' = Bound(dic, k, h),
           NEW r, PastValue(r, o, n, z, text, crypter.key, iv), Continue(r),
           UNCHANGED <<cipher, iv, multi, loaded, actual, log>>
    PROVE  CryptInv'
<1> DEFINE i == m + 1
           p == r.position
<1>1. Store(cipher, iv, crypter.key, log)
  BY DEF CryptInv
<1>2. log \in Seq(Holding) /\ Len(log) \in Nat
  BY <1>1, StoreParts
<1>3. /\ k \in Keys /\ n \in Nat /\ z \in Nat /\ o \in Nat /\ k = log[i].key /\ x = log[i].val
      /\ o = Pos(log, m) /\ i \in 0 .. Len(log) /\ Pos(log, i) = o + (n + 2 + z)
  BY DEF HasRecord
<1>4. i = m + 1 /\ m \in Nat
  BY <1>2
<1>5. p = o + (n + 2 + z)
  BY DEF PastValue
<1>6. PICK g \in 0 .. BlockLen - 1 : Reading(r, g, text, crypter.key, iv)
  BY DEF PastValue
<1> HIDE DEF i
<1>7. IsDic(dic') /\ AllHeld(dic', i, log, cipher, crypter.key, iv)
  <2>1. h = NewHolder(k, log[i].val, Pos(log, m), StatusAt(cipher, crypter.key, iv, Pos(log, m)))
    BY <1>3
  <2> DEFINE e == dic'
  <2>2. e = Bound(dic, k, h)
    OBVIOUS
  <2> HIDE DEF e
  <2>3. IsDic(e) /\ AllHeld(e, i, log, cipher, crypter.key, iv)
    <3>1. log \in Seq(Holding) /\ m \in Nat /\ i = m + 1 /\ k \in Keys /\ k = log[i].key
      BY <1>2, <1>3, <1>4

    <3> QED BY ONLY AllHeld(dic, m, log, cipher, crypter.key, iv), <3>1, <2>1, <2>2, BoundIs
  <2> QED BY <2>3 DEF e
<1>8. Stands(p, i, log)
  BY <1>3, <1>5 DEF Stands
<1>9. Held(cipher, iv, crypter.key, log, dic', p)
  BY <1>3, <1>7, <1>8 DEF Held
<1>10. r.position # 0
  <2>1. p # 0
    BY ONLY <1>3, <1>5
  <2> QED BY <2>1
<1>11. loaded' = TRUE /\ actual' = Len(cipher) /\ UNCHANGED <<cipher, iv, multi, log>>
  OBVIOUS
<1> QED BY ONLY CryptInv, Continue(r), <1>6, <1>7, <1>9, <1>10, <1>11, ContinueKeeps

-----------------------------------------------------------------------------
\* decodeOneMap reads a value.
LEMMA ValueKeeps == ASSUME CryptInv, ReadValue PROVE CryptInv'
<1> DEFINE ck == crypter.key
           d == ReadRawByte(ConsumeBytes(input, Ahead, FALSE))
           size == d.buf[d.bufPos]
           before == 2 + Len(holder.key)
           got == ConsumeBytes(d, size, FALSE)
           skip == SkipBytes(d, size)
           take == Take(got, size)
           part == SubSeq(got.buf, got.bufPos + 1, got.bufPos + size)
           large == Offset(holder.offset, Len(holder.key), size, StatusBefore(d, before))
           small == IF size = 0 THEN NoHolder ELSE Direct(part)
           Bind(h) == dic' = [j \in Keys |-> IF KeyText[j] = holder.key THEN h ELSE dic[j]]
<1>1. /\ pc = "value"
      /\ size > Size - d.position \/ (isValueStoredAsOffset(size) /\ ~CanRollBack(d, before))
         \/ IF isValueStoredAsOffset(size) THEN Bind(large) /\ Continue(skip)
            ELSE Bind(small) /\ Continue(take)
      /\ UNCHANGED <<cipher, iv, multi, loaded, actual, log>>
  BY DEF ReadValue
<1>2. /\ Store(cipher, iv, ck, log) /\ loaded = TRUE /\ actual = Len(cipher)
      /\ Reads(cipher, input, log, ck, iv)
      /\ AtValue(cipher, iv, ck, log, dic, holder, input)
  BY <1>1 DEF CryptInv, Loading
<1>3. /\ Size \in Nat /\ IsCfb(cipher, text, ck, iv) /\ log \in Seq(Holding) /\ text = TextOf(log)
  BY <1>2, StoreParts DEF text
<1>4. PICK g \in 0 .. BlockLen - 1 : Reading(input, g, text, ck, iv)
  BY <1>2, ReadsIs
<1>5. PICK m \in 0 .. Len(log) :
        /\ m < Len(log) /\ AllHeld(dic, m, log, cipher, ck, iv)
        /\ holder = [offset |-> Pos(log, m), key |-> KeyText[log[m + 1].key]]
        /\ input.position = Pos(log, m) + 1 + Len(KeyText[log[m + 1].key])
        /\ input.bufPos - input.discard >= input.position - Pos(log, m)
  BY <1>2 DEF AtValue
<1>6. PICK k, x, o, n, z : HasRecord(log, m, k, x, o, n, z)
  BY <1>3, <1>5, RecordHere
<1>7. /\ k = log[m + 1].key /\ o = Pos(log, m) /\ n = Len(KeyText[k]) /\ n \in Nat /\ o \in Nat
      /\ z \in Nat /\ z = Len(x) /\ k \in Keys /\ x \in Vals
  BY <1>6 DEF HasRecord
<1>8. /\ holder.offset = o /\ holder.key = KeyText[k] /\ Len(holder.key) = n /\ before = 2 + n
      /\ input.position = o + 1 + n /\ input.bufPos - input.discard >= input.position - o
  BY <1>5, <1>7
<1>9. AtBytes(d, o, n, z, text, ck, iv)
  <2>1. d = ReadRawByte(ConsumeBytes(input, Ahead, FALSE))
    OBVIOUS
  <2> HIDE DEF d, ck
  <2> QED BY ONLY <1>3, <1>4, <1>6, <1>8, <2>1, ValueBegins
<1>10. /\ size = z /\ z <= Size - d.position /\ got = ConsumeBytes(d, size, FALSE)
       /\ skip = SkipBytes(d, size) /\ take = Take(got, size)
       /\ part = SubSeq(got.buf, got.bufPos + 1, got.bufPos + size)
       /\ large = Offset(holder.offset, Len(holder.key), size, StatusBefore(d, before))
       /\ (size = 0 => small = NoHolder) /\ (size # 0 => small = Direct(part))
       /\ \A h : Bind(h) => dic' = Bound(dic, k, h)
  <2>1. \A h : Bind(h) => dic' = Bound(dic, k, h)
    BY <1>8 DEF Bound
  <2>2. size = z /\ z <= Size - d.position
    BY <1>9 DEF AtBytes
  <2> HIDE DEF d, Bind
  <2> QED BY <2>1, <2>2
<1>p. d.position \in Nat
  <2> HIDE DEF d, ck
  <2>1. d.position = o + (n + 2)
    BY <1>9 DEF AtBytes
  <2>3. o \in Nat /\ n \in Nat
    BY <1>7
  <2>2. o + (n + 2) \in Nat
    BY ONLY <2>3
  <2> QED BY ONLY <2>1, <2>2
<1> HIDE DEF d, size, before, got, skip, take, part, large, small, Bind, ck
<1>11. CASE isValueStoredAsOffset(z)
  <2>1. /\ PastValue(skip, o, n, z, text, ck, iv)
        /\ CanRollBack(d, 2 + n) /\ StatusBefore(d, 2 + n) = StatusAt(cipher, ck, iv, o)
    <3>1. skip = SkipBytes(d, z)
      BY <1>10
    <3> QED BY ONLY <1>3, <1>7, <1>9, <3>1, LargeRead
  <2>2. dic' = Bound(dic, k, large) /\ Continue(skip)
    <3>1. ~(size > Size - d.position)
      BY ONLY <1>3, <1>7, <1>10, <1>p
    <3> QED BY <1>1, <1>8, <1>10, <1>11, <2>1, <3>1
  <2>3. x # <<>>
    <3>1. z > Medium /\ Medium \in Nat
      BY <1>11, CryptAssumption DEF isValueStoredAsOffset
    <3>2. z # 0
      BY ONLY <1>7, <3>1
    <3> QED BY <1>7, <3>2
  <2>4. large = NewHolder(k, x, o, StatusAt(cipher, ck, iv, o))
    BY <1>7, <1>8, <1>10, <1>11, <2>1, <2>3 DEF NewHolder
  <2> QED BY <1>1, <1>2, <1>5, <1>6, <2>1, <2>2, <2>4, ValueEnds DEF ck
<1>12. CASE ~isValueStoredAsOffset(z)
  <2>1. PastValue(take, o, n, z, text, ck, iv) /\ part = x
    <3>1. got = ConsumeBytes(d, z, FALSE) /\ take = Take(got, z)
      BY <1>10
    <3>2. IsCfb(cipher, text, ck, iv) /\ text = TextOf(log)
      BY <1>3
    <3>3. PastValue(take, o, n, z, text, ck, iv) /\ Copies(got, z, x)
      BY ONLY <3>2, <1>6, <1>9, <3>1, SmallRead
    <3> QED BY <1>10, <3>3 DEF Copies
  <2>2. dic' = Bound(dic, k, small) /\ Continue(take)
    <3>1. ~(size > Size - d.position)
      BY ONLY <1>3, <1>7, <1>10, <1>p
    <3> QED BY <1>1, <1>10, <1>12, <3>1
  <2>3. small = NewHolder(k, x, o, StatusAt(cipher, ck, iv, o))
    <3>1. z = 0 <=> x = <<>>
      <4>1. x \in Seq(Byte)
        BY <1>7, CryptAssumption
      <4> QED BY ONLY <1>7, <4>1
    <3> QED BY <1>7, <1>10, <1>12, <2>1, <3>1 DEF NewHolder
  <2> QED BY <1>1, <1>2, <1>5, <1>6, <2>1, <2>2, <2>3, ValueEnds DEF ck
<1> QED BY <1>11, <1>12

-----------------------------------------------------------------------------
\* The invariant holds at first: there is no region.
LEMMA CryptStarts == Init => CryptInv
<1> SUFFICES ASSUME Init PROVE CryptInv
  OBVIOUS
<1>1. /\ iv \in IVs /\ multi \in BOOLEAN /\ cipher = <<>> /\ log = <<>> /\ actual = 0
      /\ loaded = TRUE /\ dic = [k \in Keys |-> NoHolder]
      /\ pc = "idle" /\ input = NoInput /\ broken = FALSE
  BY DEF Init
<1>2. PICK ck \in CryptKeys : crypter = Reset(ck, iv)
  BY DEF Init
<1>3. iv \in Block /\ MaxRegion \in Nat
  BY <1>1, CryptAssumption
<1>4. crypter.key = ck /\ crypter \in Status
  BY <1>2, <1>3, BlockAssumption DEF Reset, Status
<1>5. <<>> \in Seq(Holding) /\ TextOf(<<>>) = <<>> /\ Len(<<>>) = 0
  BY DEF TextOf
<1>6. Store(cipher, iv, crypter.key, log)
  <2>1. IsCfb(<<>>, <<>>, ck, iv)
    BY <1>3, SealedFirst
  <2> QED BY <1>1, <1>3, <1>4, <1>5, <2>1 DEF Store
<1>7. IsDic(dic) /\ Held(cipher, iv, crypter.key, log, dic, actual)
  <2> DEFINE d == dic
             l == log
  <2>1. l \in Seq(Holding) /\ d = [k \in Keys |-> NoHolder]
    BY <1>1, <1>5
  <2> HIDE DEF d, l
  <2>2. IsDic(d) /\ Held(cipher, iv, crypter.key, l, d, 0)
    BY <2>1, NoneHeld
  <2> QED BY <1>1, <2>2 DEF d, l
<1>8. crypter = StatusAt(cipher, crypter.key, iv, actual)
  BY <1>1, <1>2, <1>4, StatusAtStart
<1>9. AtRest
  BY <1>1, <1>7, <1>8 DEF AtRest
<1> QED BY <1>1, <1>4, <1>5, <1>6, <1>7, <1>9 DEF CryptInv

\* And every step keeps it.
LEMMA CryptSteps == CryptInv /\ [Next]_vars => CryptInv'
<1> SUFFICES ASSUME CryptInv, [Next]_vars PROVE CryptInv'
  OBVIOUS
<1>1. CASE UNCHANGED vars
  BY <1>1 DEF vars, CryptInv, AtRest, Loading, NoInput, NoHolder
<1>2. ASSUME NEW k \in Keys, NEW v \in Vals,
             AppendData(k, v) \/ AppendWithRoom(k, v) \/ Override(k, v) \/ OtherAppends(k, v)
      PROVE  CryptInv'
  BY <1>2, AppendKeeps, AppendWithRoomKeeps, OverrideKeeps, OtherKeeps
<1>3. ASSUME NEW ck \in CryptKeys, ReKey(ck) PROVE CryptInv'
  BY <1>3, ReKeyKeeps
<1>4. CASE ClearMemoryCache
  BY <1>4, ClearCacheKeeps
<1>5. CASE LoadFromFile
  BY <1>5, LoadKeeps
<1>6. CASE PartialLoadFromFile
  BY <1>6, PartialKeeps
<1>7. CASE ReadHolder
  BY <1>7, HolderKeeps
<1>8. CASE ReadKey
  BY <1>8, KeyKeeps
<1>9. CASE ReadValue
  BY <1>9, ValueKeeps
<1> QED BY <1>1, <1>2, <1>3, <1>4, <1>5, <1>6, <1>7, <1>8, <1>9 DEF Next

\* The inductive invariant holds throughout.
THEOREM SpecCryptInv == Spec => []CryptInv
BY CryptStarts, CryptSteps, PTL DEF Spec

-----------------------------------------------------------------------------
\* The region is the encryption of its records.
LEMMA RegionIs == CryptInv => RegionIsText
<1> SUFFICES ASSUME CryptInv PROVE RegionIsText
  OBVIOUS
<1> DEFINE n == Len(text)
           ck == crypter.key
<1>1. Store(cipher, iv, ck, log)
  BY DEF CryptInv
<1>2. IsCfb(cipher, text, ck, iv) /\ Size = n /\ Size = Len(cipher) /\ Size \in Nat
      /\ cipher \in Seq(Byte)
  BY <1>1, StoreParts
<1> HIDE DEF n, ck
<1>3. n \in 0 .. Len(text)
  BY <1>2 DEF n
<1>4. CfbMode(text, ck, iv)[n].cipher = SubSeq(cipher, 1, n)
  BY <1>2, <1>3, CfbModeIs
<1>5. SubSeq(cipher, 1, n) = cipher
  BY <1>2
<1> QED BY <1>4, <1>5 DEF RegionIsText, n, ck

\* No region is left with a broken stream, whatever has been done to the store.
THEOREM SpecRegionIsText == Spec => []RegionIsText
BY SpecCryptInv, RegionIs, PTL

\* No assert of the reader fails, and no load throws.
LEMMA AssertsAre == CryptInv => AssertsHold
BY DEF CryptInv, AssertsHold

\* The reader's asserts hold and the load of a store throws nothing.
THEOREM SpecAssertsHold == Spec => []AssertsHold
BY SpecCryptInv, AssertsAre, PTL

\* What has been loaded reads back.
LEMMA ValuesAre == CryptInv => ValuesReadBack
<1> SUFFICES ASSUME CryptInv, pc = "idle", loaded
             PROVE  Latest(actual) = [k \in Keys |-> IF dic[k] = NoHolder THEN <<>> ELSE ValueOf(dic[k])]
  BY DEF ValuesReadBack
<1>1. PICK m \in 0 .. Len(log) : Good(m)
  BY RestIsGood
<1>2. ASSUME NEW k \in Keys
      PROVE  Latest(actual)[k] = IF dic[k] = NoHolder THEN <<>> ELSE ValueOf(dic[k])
  <2> DEFINE h == dic[k]
  <2>1. HolderIs(h, k, m, log, cipher, crypter.key, iv)
    BY <1>1 DEF Good, AllHeld
  <2>2. /\ log \in Seq(Holding) /\ IsCfb(cipher, TextOf(log), crypter.key, iv)
        /\ Stands(actual, m, log)
    BY <1>1 DEF Good
  <2> HIDE DEF h
  <2>3. Latest(actual)[k] = IF h = NoHolder THEN <<>> ELSE ValueOf(h)
    BY ONLY <2>1, <2>2, k \in Keys, DicReads
  <2> QED BY <2>3 DEF h
<1>3. Latest(actual) = [k \in Keys |-> Latest(actual)[k]]
  <2> DEFINE of(k) == {i \in 1 .. Len(log) : log[i].key = k /\ Len(Through(log)[i]) <= actual}
             last(k) == IF of(k) = {} THEN <<>>
                        ELSE log[CHOOSE i \in of(k) : \A j \in of(k) : j <= i].val
  <2>1. Latest(actual) = [k \in Keys |-> last(k)]
    BY DEF Latest
  <2> HIDE DEF last
  <2> QED BY <2>1
<1> QED BY <1>2, <1>3

\* Every value reads back as it was last written in the part that is loaded.
THEOREM SpecValuesReadBack == Spec => []ValuesReadBack
BY SpecCryptInv, ValuesAre, PTL

\* The buffer of a load is the text, from the record being read on.
LEMMA BufferIs == CryptInv => BufferIsPlain
<1> SUFFICES ASSUME CryptInv, pc # "idle" PROVE BufferIsPlain
  BY DEF BufferIsPlain
<1>1. PICK g \in 0 .. BlockLen - 1 : Reading(input, g, text, crypter.key, iv)
  BY ReadsIs DEF CryptInv, Loading
<1>2. /\ g \in Nat /\ g <= input.discard /\ input.discard \in Nat /\ Len(input.buf) \in Nat
      /\ input.position = Offs(input) + input.bufPos
      /\ Holds(input.buf, g, text, Offs(input))
  BY <1>1, ReadingParts
<1>3. ASSUME NEW i \in input.discard + 1 .. Len(input.buf)
      PROVE  input.buf[i] = text[Offs(input) + i]
  <2> DEFINE e == input.discard
             b == Len(input.buf)
  <2>1. e \in Nat /\ b \in Nat /\ i \in e + 1 .. b /\ g <= e /\ g \in Nat
    BY <1>2
  <2> HIDE DEF e, b
  <2>2. i \in g + 1 .. b
    BY ONLY <2>1
  <2> QED BY <1>2, <2>2 DEF Holds, b
<1> QED BY <1>2, <1>3 DEF BufferIsPlain, Offs

\* While a load runs its buffer is the plaintext it needs.
THEOREM SpecBufferIsPlain == Spec => []BufferIsPlain
BY SpecCryptInv, BufferIs, PTL

-----------------------------------------------------------------------------
\* s is the first n bytes of t.
StartOf(s, t, n) == s \in Seq(Byte) /\ Len(s) = n /\ Agree(s, t, n)

\* The first bytes of an encryption are the encryption of the first bytes.
LEMMA PrefixIs ==
    ASSUME NEW c, NEW t, NEW ck, NEW v, IsCfb(c, t, ck, v), NEW n \in Nat, n <= Len(c),
           NEW c1, StartOf(c1, c, n), NEW t1, StartOf(t1, t, n)
    PROVE  IsCfb(c1, t1, ck, v) /\ StatusAt(c1, ck, v, n) = StatusAt(c, ck, v, n)
<1>1. /\ ck \in CryptKeys /\ v \in Block /\ c \in Seq(Byte) /\ t \in Seq(Byte) /\ Len(t) = Len(c)
      /\ Len(c) \in Nat /\ n \in Nat /\ n <= Len(c)
  BY LenProperties DEF IsCfb
<1>2. /\ c1 \in Seq(Byte) /\ Len(c1) = n /\ \A i \in 1 .. n : c1[i] = c[i]
  BY DEF StartOf, Agree
<1>3. /\ t1 \in Seq(Byte) /\ Len(t1) = n /\ \A i \in 1 .. n : t1[i] = t[i]
  BY DEF StartOf, Agree
<1>4. ASSUME NEW b \in Nat, NEW r \in 0 .. BlockLen - 1, Base(b) + r < Len(t1)
      PROVE  c1[Base(b) + r + 1] = ByteXor(Stream(c1, ck, v, b)[r], t1[Base(b) + r + 1])
  <2> DEFINE p == Base(b) + r
             q == p + 1
  <2>1. Base(b) \in Nat /\ r \in Nat
    BY BaseNat, BlockAssumption
  <2>2. p \in Nat /\ p < n /\ q \in 1 .. n /\ p < Len(t) /\ Base(b) <= n /\ Base(b) \in Nat
    BY <1>1, <1>3, <1>4, <2>1
  <2>3. c[q] = ByteXor(Stream(c, ck, v, b)[r], t[q])
    BY <1>4, <2>2 DEF IsCfb
  <2>4. Stream(c1, ck, v, b) = Stream(c, ck, v, b)
    <3>1. \A i \in 1 .. n : c1[i] = c[i]
      BY <1>2
    <3>2. Chain(c1, v, b) = Chain(c, v, b)
      BY ONLY b \in Nat, n \in Nat, <2>2, <3>1, ChainOfPrefix
    <3> QED BY <3>2 DEF Stream
  <2>5. c1[q] = c[q] /\ t1[q] = t[q]
    BY <1>2, <1>3, <2>2
  <2> HIDE DEF p
  <2> QED BY <2>3, <2>4, <2>5 DEF p
<1>5. IsCfb(c1, t1, ck, v)
  BY <1>1, <1>2, <1>3, <1>4 DEF IsCfb
<1>6. StatusAt(c1, ck, v, n) = StatusAt(c, ck, v, n)
  <2>1. Agree(c1, c, n) /\ n \in 0 .. n
    BY <1>1, <1>2 DEF Agree
  <2> QED BY <1>1, <2>1, StatusAgree
<1> QED BY <1>3, <1>5, <1>6

\* Between calls the cipher stands at the end of what is loaded.
LEMMA CrypterIs == CryptInv => CrypterAtEnd
<1> SUFFICES ASSUME CryptInv, pc = "idle", loaded
             PROVE  crypter = CfbMode(SubSeq(text, 1, actual), crypter.key, iv)[actual].status
  BY DEF CrypterAtEnd
<1> DEFINE ck == crypter.key
           c1 == SubSeq(cipher, 1, actual)
           t1 == SubSeq(text, 1, actual)
<1>1. /\ Store(cipher, iv, ck, log) /\ actual \in 0 .. Len(cipher) /\ loaded = TRUE
      /\ crypter = StatusAt(cipher, ck, iv, actual)
  BY DEF CryptInv, AtRest
<1>2. IsCfb(cipher, text, ck, iv) /\ Len(cipher) \in Nat
  BY <1>1, StoreParts
<1>3. actual \in Nat /\ actual <= Len(cipher) /\ StartOf(c1, cipher, actual) /\ StartOf(t1, text, actual)
  <2>1. cipher \in Seq(Byte) /\ text \in Seq(Byte) /\ Len(text) = Len(cipher)
    BY <1>2 DEF IsCfb
  <2>2. actual \in Nat /\ actual <= Len(cipher)
    BY <1>1, <1>2
  <2> HIDE DEF ck
  <2> QED BY ONLY <1>2, <2>1, <2>2 DEF StartOf, Agree, c1, t1
<1> HIDE DEF ck, c1, t1
<1>4. /\ IsCfb(c1, t1, ck, iv) /\ Len(t1) = actual
      /\ StatusAt(c1, ck, iv, actual) = StatusAt(cipher, ck, iv, actual)
  <2>1. Len(t1) = actual
    BY <1>3 DEF StartOf
  <2>2. IsCfb(c1, t1, ck, iv) /\ StatusAt(c1, ck, iv, actual) = StatusAt(cipher, ck, iv, actual)
    BY ONLY <1>2, <1>3, PrefixIs
  <2> QED BY <2>1, <2>2
<1>5. CfbMode(t1, ck, iv)[actual].status = StatusAt(c1, ck, iv, actual)
  <2>1. actual \in 0 .. Len(t1)
    BY <1>1, <1>2, <1>4
  <2> QED BY ONLY <1>4, <2>1, CfbModeIs
<1> QED BY <1>1, <1>4, <1>5 DEF t1, ck

\* m_crypter continues the stream where what has been loaded ends.
THEOREM SpecCrypterAtEnd == Spec => []CrypterAtEnd
BY SpecCryptInv, CrypterIs, PTL

-----------------------------------------------------------------------------
\* A holder the records justify points into what they take up.
LEMMA HolderPlace ==
    ASSUME NEW l \in Seq(Holding), NEW c, NEW t, NEW ck, NEW v, IsCfb(c, TextOf(l), ck, v),
           NEW m \in 0 .. Len(l), NEW k \in Keys, NEW h, HolderIs(h, k, m, l, c, ck, v)
    PROVE  \/ h = NoHolder
           \/ h.type = "direct" /\ h.val \in Seq(Byte)
           \/ /\ h.type = "offset" /\ h.status \in Status /\ m # 0
              /\ h.offset + PairSize(h) \in Nat /\ h.offset + PairSize(h) <= Pos(l, m)
<1>1. CASE h = NoHolder
  BY <1>1
<1>2. ASSUME NEW i \in 1 .. m, IsLast(l, m, k, i), h = HolderOf(l, i, k, c, ck, v)
      PROVE  \/ h = NoHolder
             \/ h.type = "direct" /\ h.val \in Seq(Byte)
             \/ /\ h.type = "offset" /\ h.status \in Status /\ m # 0
                /\ h.offset + PairSize(h) \in Nat /\ h.offset + PairSize(h) <= Pos(l, m)
  <2> DEFINE x == l[i].val
             o == Pos(l, i - 1)
             s == StatusAt(c, ck, v, o)
             n == Len(KeyText[k])
             z == Len(x)
  <2>1. Len(l) \in Nat /\ i \in 1 .. Len(l) /\ i \in 0 .. Len(l) /\ i - 1 \in 0 .. Len(l)
        /\ m \in i .. Len(l) /\ m # 0
    BY LenProperties
  <2>2. /\ l[i].key = k /\ x \in Vals /\ IsRecord(Rec(l[i]), k, x)
        /\ Pos(l, i) = o + Len(Rec(l[i])) /\ o \in Nat /\ Pos(l, i) \in Nat /\ Pos(l, m) \in Nat
        /\ Pos(l, i) <= Pos(l, m)
    <3>1. l[i].key = k
      BY <1>2 DEF IsLast
    <3>2. o \in Nat /\ Pos(l, i) \in Nat /\ Pos(l, m) \in Nat
      BY <2>1, PosType
    <3>3. Pos(l, i) <= Pos(l, m)
      BY <2>1, PosOrder
    <3> QED BY <2>1, <3>1, <3>2, <3>3, PosNext
  <2>3. n \in Nat /\ z \in Nat /\ o + (n + 2 + z) <= Pos(l, m) /\ x \in Seq(Byte)
    <3>1. n \in Nat /\ z \in Nat /\ Len(Rec(l[i])) = n + 2 + z
      BY <2>2 DEF IsRecord
    <3>2. x \in Seq(Byte)
      BY <2>2, CryptAssumption
    <3> HIDE DEF n, z, o, x
    <3> QED BY <2>2, <3>1, <3>2
  <2>4. s \in Status
    <3>1. /\ c \in Seq(Byte) /\ ck \in CryptKeys /\ v \in Block /\ Len(c) = Len(TextOf(l))
          /\ Len(c) \in Nat
      BY LenProperties DEF IsCfb
    <3>2. o <= Len(c)
      <4>1. l # <<>>
        BY <2>1
      <4>2. Len(c) = Pos(l, Len(l))
        BY <3>1, <4>1, TextIs
      <4>3. o <= Pos(l, Len(l))
        <5>1. i - 1 \in 0 .. Len(l) /\ Len(l) \in (i - 1) .. Len(l)
          BY <2>1
        <5> DEFINE j == i - 1
        <5>2. j \in 0 .. Len(l) /\ Len(l) \in j .. Len(l)
          BY <5>1
        <5> HIDE DEF j
        <5>3. Pos(l, j) <= Pos(l, Len(l))
          BY <5>2, PosOrder
        <5> QED BY <5>3 DEF j
      <4> QED BY <4>2, <4>3
    <3>3. o \in 0 .. Len(c)
      BY <2>2, <3>1, <3>2
    <3> HIDE DEF o
    <3> QED BY <3>1, <3>3, StatusType
  <2>5. h = NewHolder(k, x, o, s)
    BY <1>2 DEF HolderOf
  <2> HIDE DEF s, o, x
  <2>6. CASE x = <<>>
    BY <2>5, <2>6 DEF NewHolder
  <2>7. CASE x # <<>> /\ ~isValueStoredAsOffset(z)
    BY <2>3, <2>5, <2>7 DEF NewHolder, Direct
  <2>8. CASE x # <<>> /\ isValueStoredAsOffset(z)
    <3>1. h = Offset(o, n, z, s)
      BY <2>5, <2>8 DEF NewHolder
    <3> HIDE DEF n, z
    <3>2. h.type = "offset" /\ h.offset = o /\ h.keySize = n /\ h.valSize = z /\ h.status = s
      BY ONLY <3>1 DEF Offset
    <3>3. o + (2 + n + z) <= Pos(l, m) /\ o + (2 + n + z) \in Nat
      BY ONLY <2>2, <2>3
    <3> QED BY <2>1, <2>4, <3>2, <3>3 DEF PairSize
  <2> QED BY <2>6, <2>7, <2>8
<1> QED BY <1>1, <1>2 DEF HolderIs

\* At rest and while a load runs alike, the dictionary is what the first m
\* records say, which are in the part that is loaded.
LEMMA DicHeld ==
    ASSUME CryptInv
    PROVE  \E m \in 0 .. Len(log) :
              AllHeld(dic, m, log, cipher, crypter.key, iv) /\ (m # 0 => Pos(log, m) <= actual)
<1>1. Store(cipher, iv, crypter.key, log) /\ actual \in 0 .. Len(cipher)
  BY DEF CryptInv
<1>2. /\ log \in Seq(Holding) /\ Len(log) \in Nat /\ Size = Len(cipher) /\ Size \in Nat
      /\ (log # <<>> => Size = Pos(log, Len(log)))
  BY <1>1, StoreParts
<1>3. CASE pc = "idle"
  <2>1. PICK m \in 0 .. Len(log) :
          Stands(actual, m, log) /\ AllHeld(dic, m, log, cipher, crypter.key, iv)
    BY <1>3 DEF CryptInv, AtRest, Held
  <2>2. m # 0 => Pos(log, m) = actual
    BY <2>1 DEF Stands
  <2>3. m # 0 => Pos(log, m) <= actual
    BY <1>1, <1>2, <2>2
  <2> QED BY <2>1, <2>3
<1>4. CASE pc # "idle"
  <2>1. actual = Len(cipher) /\ Loading
    BY <1>4 DEF CryptInv, Loading
  <2>2. PICK m \in 0 .. Len(log) : AllHeld(dic, m, log, cipher, crypter.key, iv)
    BY <1>4, <2>1 DEF CryptInv, Loading, Held, AtValue
  <2>3. m # 0 => Pos(log, m) <= Pos(log, Len(log))
    BY <1>2, PosOrder
  <2>4. m # 0 => log # <<>>
    BY <1>2
  <2> QED BY <1>2, <2>1, <2>2, <2>3, <2>4
<1> QED BY <1>3, <1>4

\* Types, and the reader's places.
LEMMA TypesAre == CryptInv => TypeOK
<1> SUFFICES ASSUME CryptInv PROVE TypeOK
  OBVIOUS
<1>1. /\ Store(cipher, iv, crypter.key, log) /\ actual \in 0 .. Len(cipher)
      /\ multi \in BOOLEAN /\ loaded \in BOOLEAN /\ crypter \in Status
      /\ pc \in {"idle", "holder", "key", "value"}
  BY DEF CryptInv
<1>2. /\ cipher \in Seq(Byte) /\ Size <= MaxRegion /\ iv \in IVs /\ Size = Len(cipher) /\ Size \in Nat
      /\ log \in Seq(Holding) /\ IsCfb(cipher, TextOf(log), crypter.key, iv)
  BY <1>1, StoreParts
<1>3. ASSUME NEW k \in Keys
      PROVE  \/ dic[k] = NoHolder
             \/ dic[k].type = "direct" /\ dic[k].val \in Seq(Byte)
             \/ /\ dic[k].type = "offset" /\ dic[k].status \in Status
                /\ dic[k].offset + PairSize(dic[k]) <= actual
  <2> DEFINE h == dic[k]
             p == h.offset + PairSize(h)
  <2>1. PICK m \in 0 .. Len(log) :
          AllHeld(dic, m, log, cipher, crypter.key, iv) /\ (m # 0 => Pos(log, m) <= actual)
    BY DicHeld
  <2>2. HolderIs(h, k, m, log, cipher, crypter.key, iv)
    BY <2>1 DEF AllHeld
  <2>h. h = dic[k]
    OBVIOUS
  <2> HIDE DEF h
  <2>3. \/ h = NoHolder
        \/ h.type = "direct" /\ h.val \in Seq(Byte)
        \/ /\ h.type = "offset" /\ h.status \in Status /\ m # 0 /\ p \in Nat /\ p <= Pos(log, m)
    BY ONLY <1>2, <2>2, k \in Keys, HolderPlace
  <2>4. Pos(log, m) \in Nat /\ actual \in Nat
    BY <1>1, <1>2, PosType
  <2>5. ASSUME m # 0, p \in Nat, p <= Pos(log, m) PROVE p <= actual
    BY ONLY <2>1, <2>4, <2>5
  <2> QED BY <2>1, <2>3, <2>5, <2>h DEF p
<1>4. /\ input.bufPos \in 0 .. Len(input.buf) /\ Len(input.buf) <= input.room
      /\ input.position \in 0 .. input.decPos /\ input.decPos <= Size
  <2>1. CASE pc = "idle"
    <3>1. input = NoInput
      BY <2>1 DEF CryptInv, AtRest
    <3>2. /\ input.bufPos = 0 /\ input.buf = <<>> /\ input.room = 0
          /\ input.position = 0 /\ input.decPos = 0
      BY <3>1 DEF NoInput
    <3> QED BY <1>2, <3>2
  <2>2. CASE pc # "idle"
    <3>1. PICK g \in 0 .. BlockLen - 1 : Reading(input, g, text, crypter.key, iv)
      BY <2>2, ReadsIs DEF CryptInv, Loading
    <3>2. /\ input.position \in Nat /\ input.decPos \in Nat /\ input.bufPos \in Nat
          /\ Len(input.buf) \in Nat /\ input.bufPos <= Len(input.buf) /\ Len(input.buf) <= input.room
          /\ Left(input) \in Nat /\ input.position + Left(input) = input.decPos
          /\ input.decPos <= Size
      BY <3>1, ReadingParts
    <3>3. input.position <= input.decPos
      BY ONLY <3>2
    <3>4. input.bufPos \in 0 .. Len(input.buf) /\ input.position \in 0 .. input.decPos
      BY ONLY <3>2, <3>3
    <3> QED BY <3>2, <3>4
  <2> QED BY <2>1, <2>2
<1> QED BY <1>1, <1>2, <1>3, <1>4 DEF TypeOK

\* The types, and the places of holders and of the reader.
THEOREM SpecTypeOK == Spec => []TypeOK
BY SpecCryptInv, TypesAre, PTL
=============================================================================
