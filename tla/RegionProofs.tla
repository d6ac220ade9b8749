---------------------------- MODULE RegionProofs ----------------------------
(***************************************************************************)
(* What a region of the data file decodes to (Cells), and the arithmetic   *)
(* of growing and trimming it (Sizing): the lemmas the proofs about the    *)
(* stores rest on.                                                         *)
(***************************************************************************)
EXTENDS Sizing, FiniteSetTheorems, WellFoundedInduction, TLAPS

\* Every non-empty set of naturals has a least element.
LEMMA LeastNat ==
    ASSUME NEW T, T \subseteq Nat, T # {}
    PROVE  \E x \in T : \A y \in T : x <= y
<1> DEFINE R == OpToRel(<, Nat)
<1>1. IsWellFoundedOn(R, Nat)
  BY NatLessThanWellFounded
<1>2. \A x, y \in Nat : x < y => <<x, y>> \in R
  BY DEF OpToRel
<1> HIDE DEF R
<1>3. PICK x \in T : \A y \in T : ~ (<<y, x>> \in R)
  BY <1>1, WFMin
<1>4. ASSUME NEW y \in T PROVE x <= y
  <2>1. x \in Nat /\ y \in Nat
    OBVIOUS
  <2>2. ~ (y < x)
    BY <1>2, <1>3, <2>1
  <2> QED BY <2>1, <2>2
<1> QED BY <1>4

\* Every non-empty set of naturals up to n has a greatest element.
LEMMA GreatestNat ==
    ASSUME NEW n \in Nat, NEW T, T \subseteq 0 .. n, T # {}
    PROVE  \E x \in T : \A y \in T : y <= x
<1> DEFINE U == {i \in 0 .. n : n - i \in T}
<1>1. U \subseteq Nat
  OBVIOUS
<1>2. U # {}
  <2>1. PICK x \in T : TRUE
    OBVIOUS
  <2>2. n - x \in 0 .. n /\ n - (n - x) = x
    OBVIOUS
  <2> QED BY <2>2
<1>3. PICK u \in U : \A v \in U : u <= v
  BY <1>1, <1>2, LeastNat
<1>4. ASSUME NEW y \in T PROVE y <= n - u
  <2>1. n - y \in U
    OBVIOUS
  <2> QED BY <2>1, <1>3
<1> QED BY <1>4

\* The fields of a record.
LEMMA RecFields ==
    ASSUME NEW k, NEW v
    PROVE  Rec(k, v).key = k /\ Rec(k, v).val = v
BY DEF Rec

\* A record of a key of the dictionary is a value or a removal.
LEMMA CellOfKey ==
    ASSUME NEW c \in Cell, c.key \in Keys
    PROVE  c.val \in Vals \cup {Nil} /\ c = Rec(c.key, c.val)
BY CellsAssumption DEF Cell, Holder, Zero, Rec

\* LastRec finds the last record of a key, and only that.
LEMMA LastRecFound ==
    ASSUME NEW m, NEW n \in Nat, NEW k, \E i \in 2 .. n : m[i].key = k
    PROVE  /\ LastRec(m, n, k) \in 2 .. n
           /\ m[LastRec(m, n, k)].key = k
           /\ \A j \in LastRec(m, n, k) + 1 .. n : m[j].key # k
<1> DEFINE T == {i \in 2 .. n : m[i].key = k}
<1>1. T \subseteq 0 .. n /\ T # {}
  OBVIOUS
<1>2. \E i \in T : \A j \in T : j <= i
  <2> HIDE DEF T
  <2> QED BY <1>1, GreatestNat
<1>3. PICK i \in T : \A j \in T : j <= i
  BY <1>2
<1>4. ASSUME NEW j \in i + 1 .. n PROVE m[j].key # k
  <2>1. j \in 2 .. n /\ ~ (j <= i)
    OBVIOUS
  <2> QED BY <2>1, <1>3
<1> QED BY <1>3, <1>4 DEF LastRec

\* The record of key k at i, with none of k after it, is the last one.
LEMMA LastRecIs ==
    ASSUME NEW m, NEW n \in Nat, NEW k,
           NEW i \in 2 .. n, m[i].key = k, \A j \in i + 1 .. n : m[j].key # k
    PROVE  LastRec(m, n, k) = i
<1> DEFINE r == LastRec(m, n, k)
<1>1. r \in 2 .. n /\ m[r].key = k /\ \A j \in r + 1 .. n : m[j].key # k
  BY LastRecFound
<1> HIDE DEF r
<1>2. ~ (r < i) /\ ~ (i < r)
  BY <1>1
<1> QED BY <1>1, <1>2 DEF r

\* A key without a record has no last one.
LEMMA LastRecNone ==
    ASSUME NEW m, NEW n \in Nat, NEW k, \A i \in 2 .. n : m[i].key # k
    PROVE  LastRec(m, n, k) = 0
BY DEF LastRec

\* The dictionary of a region leads every key it has to a record of that key.
LEMMA DecodeFacts ==
    ASSUME NEW m \in [Cap -> Cell], NEW n \in 0 .. MaxCap
    PROVE  /\ Decode(m, n) \in [Keys -> 0 .. MaxCap]
           /\ \A k \in Keys : Decode(m, n)[k] # 0 =>
                 /\ Decode(m, n)[k] \in 2 .. n
                 /\ m[Decode(m, n)[k]].key = k
                 /\ m[Decode(m, n)[k]].val \in Vals
<1>0. n \in Nat /\ MaxCap \in Nat /\ \A i \in 2 .. n : i \in Cap
  BY CellsAssumption DEF Cap
<1>1. ASSUME NEW k \in Keys, Decode(m, n)[k] # 0
      PROVE  /\ Decode(m, n)[k] \in 2 .. n
             /\ m[Decode(m, n)[k]].key = k
             /\ m[Decode(m, n)[k]].val \in Vals
  <2>1. Decode(m, n)[k] = LastRec(m, n, k) /\ LastRec(m, n, k) # 0
        /\ m[LastRec(m, n, k)].val # Nil
    BY <1>1 DEF Decode
  <2>2. \E i \in 2 .. n : m[i].key = k
    BY <2>1 DEF LastRec
  <2>3. LastRec(m, n, k) \in 2 .. n /\ m[LastRec(m, n, k)].key = k
    BY <1>0, <2>2, LastRecFound
  <2>4. m[LastRec(m, n, k)] \in Cell
    BY <1>0, <2>3
  <2> QED BY <2>1, <2>3, <2>4, CellOfKey
<1>2. ASSUME NEW k \in Keys PROVE Decode(m, n)[k] \in 0 .. MaxCap
  BY <1>0, <1>1
<1>3. Decode(m, n) = [k \in Keys |-> Decode(m, n)[k]]
  BY DEF Decode
<1> QED BY <1>1, <1>2, <1>3

\* The content of a region is a map.
LEMMA ContentType ==
    ASSUME NEW m \in [Cap -> Cell], NEW n \in 0 .. MaxCap
    PROVE  Content(m, n) \in [Keys -> Vals \cup {Nil}]
BY DecodeFacts DEF Content, View

\* Two regions with the same records have the same dictionary and the same map.
LEMMA SameRecords ==
    ASSUME NEW m1, NEW m2, NEW n \in Nat, \A i \in 2 .. n : m1[i] = m2[i]
    PROVE  Decode(m1, n) = Decode(m2, n) /\ Content(m1, n) = Content(m2, n)
<1>1. ASSUME NEW k \in Keys PROVE LastRec(m1, n, k) = LastRec(m2, n, k)
  <2>1. CASE \E i \in 2 .. n : m1[i].key = k
    <3> DEFINE r == LastRec(m1, n, k)
    <3>1. r \in 2 .. n /\ m1[r].key = k /\ \A j \in r + 1 .. n : m1[j].key # k
      BY <2>1, LastRecFound
    <3> HIDE DEF r
    <3>2. m2[r].key = k /\ \A j \in r + 1 .. n : m2[j].key # k
      BY <3>1
    <3>3. LastRec(m2, n, k) = r
      BY <3>1, <3>2, LastRecIs
    <3> QED BY <3>3 DEF r
  <2>2. CASE \A i \in 2 .. n : m1[i].key # k
    BY <2>2, LastRecNone
  <2> QED BY <2>1, <2>2
<1>2. \A k \in Keys : LastRec(m1, n, k) = 0 \/ LastRec(m1, n, k) \in 2 .. n
  BY LastRecFound, LastRecNone
<1>3. Decode(m1, n) = Decode(m2, n)
  BY <1>1, <1>2 DEF Decode
<1>4. \A k \in Keys : Decode(m1, n)[k] = 0 \/ Decode(m1, n)[k] \in 2 .. n
  BY <1>2 DEF Decode
<1> QED BY <1>3, <1>4 DEF Content, View

\* The digest determines the length of the region and its map.
LEMMA CrcDetermines ==
    ASSUME NEW m1, NEW m2, NEW a \in Nat, NEW b \in Nat, Crc(m1, a) = Crc(m2, b)
    PROVE  a = b /\ Content(m1, a) = Content(m2, b)
<1>1. DOMAIN Crc(m1, a) = 1 .. a /\ DOMAIN Crc(m2, b) = 1 .. b
  BY DEF Crc
<1>2. a = b
  BY <1>1
<1>3. \A i \in 1 .. a : m1[i] = m2[i]
  BY <1>2 DEF Crc
<1> QED BY <1>2, <1>3, SameRecords

\* A dictionary decoded from a region leads to the records of the region's map.
LEMMA DecodedRecords ==
    ASSUME NEW m \in [Cap -> Cell], NEW n \in 0 .. MaxCap, NEW k \in Keys
    PROVE  /\ Decode(m, n)[k] # 0 =>
                 /\ Decode(m, n)[k] \in 2 .. n
                 /\ m[Decode(m, n)[k]] = Rec(k, Content(m, n)[k])
                 /\ Content(m, n)[k] # Nil
           /\ Decode(m, n)[k] = 0 => Content(m, n)[k] = Nil
<1> DEFINE d == Decode(m, n)[k]
<1>1. CASE d = 0
  BY <1>1 DEF Content, View
<1>2. CASE d # 0
  <2>1. d \in 2 .. n /\ m[d].key = k /\ m[d].val \in Vals
    BY <1>2, DecodeFacts
  <2> HIDE DEF d
  <2>2. m[d] \in Cell
    BY <2>1, CellsAssumption DEF Cap
  <2>3. m[d] = Rec(k, m[d].val)
    BY <2>1, <2>2, CellOfKey
  <2>4. Content(m, n)[k] = m[d].val
    BY <1>2 DEF Content, View, d
  <2> QED BY <1>2, <2>1, <2>3, <2>4, CellsAssumption DEF d
<1> QED BY <1>1, <1>2

\* A region that holds exactly the records o leads to decodes to o.
LEMMA DecodeExact ==
    ASSUME NEW m, NEW n \in Nat, NEW o,
           o \in [Keys -> Nat],
           \A k \in Keys : o[k] # 0 =>
              o[k] \in 2 .. n /\ m[o[k]].key = k /\ m[o[k]].val # Nil,
           \A i \in 2 .. n : \E k \in Keys : o[k] = i
    PROVE  Decode(m, n) = o
<1>1. ASSUME NEW k \in Keys, NEW i \in 2 .. n, m[i].key = k PROVE i = o[k]
  <2>1. PICK j \in Keys : o[j] = i
    OBVIOUS
  <2>2. j = k
    BY <2>1, <1>1
  <2> QED BY <2>1, <2>2
<1>2. ASSUME NEW k \in Keys PROVE Decode(m, n)[k] = o[k]
  <2>1. CASE o[k] = 0
    <3>1. \A i \in 2 .. n : m[i].key # k
      BY <2>1, <1>1
    <3> QED BY <2>1, <3>1, LastRecNone DEF Decode
  <2>2. CASE o[k] # 0
    <3>1. \A j \in o[k] + 1 .. n : m[j].key # k
      BY <2>2, <1>1
    <3>2. LastRec(m, n, k) = o[k]
      BY <2>2, <3>1, LastRecIs
    <3> QED BY <2>2, <3>2 DEF Decode
  <2> QED BY <2>1, <2>2
<1> QED BY <1>2 DEF Decode

\* Appending a record changes the dictionary, and the map, at its key and
\* nowhere else.
LEMMA DecodeAppend ==
    ASSUME NEW m, NEW w, NEW n \in Nat, n >= 1, NEW k \in Keys, NEW v,
           w[n + 1] = Rec(k, v), \A i \in 2 .. n : w[i] = m[i]
    PROVE  /\ Decode(w, n + 1) = [Decode(m, n) EXCEPT ![k] = IF v = Nil THEN 0 ELSE n + 1]
           /\ Content(w, n + 1) = [Content(m, n) EXCEPT ![k] = v]
<1>1. /\ w[n + 1].key = k /\ w[n + 1].val = v
      /\ \A i \in 2 .. n : w[i] = m[i]
  BY RecFields
<1>2. LastRec(w, n + 1, k) = n + 1
  <2>1. n + 1 \in 2 .. n + 1 /\ \A j \in n + 1 + 1 .. n + 1 : w[j].key # k
    OBVIOUS
  <2> QED BY <1>1, <2>1, LastRecIs
<1>3. ASSUME NEW j \in Keys, j # k PROVE LastRec(w, n + 1, j) = LastRec(m, n, j)
  <2>1. CASE \E i \in 2 .. n : m[i].key = j
    <3> DEFINE r == LastRec(m, n, j)
    <3>1. r \in 2 .. n /\ m[r].key = j /\ \A i \in r + 1 .. n : m[i].key # j
      BY <2>1, LastRecFound
    <3> HIDE DEF r
    <3>2. r \in 2 .. n + 1 /\ w[r].key = j /\ \A i \in r + 1 .. n + 1 : w[i].key # j
      BY <3>1, <1>1, <1>3
    <3>3. LastRec(w, n + 1, j) = r
      BY <3>2, LastRecIs
    <3> QED BY <3>3 DEF r
  <2>2. CASE \A i \in 2 .. n : m[i].key # j
    <3>1. \A i \in 2 .. n + 1 : w[i].key # j
      BY <2>2, <1>1, <1>3
    <3> QED BY <2>2, <3>1, LastRecNone
  <2> QED BY <2>1, <2>2
<1>4. \A j \in Keys : LastRec(m, n, j) = 0 \/ LastRec(m, n, j) \in 2 .. n
  BY LastRecFound, LastRecNone
<1>5. ASSUME NEW j \in Keys, j # k PROVE Decode(w, n + 1)[j] = Decode(m, n)[j]
  BY <1>1, <1>3, <1>4, <1>5 DEF Decode
<1>6. Decode(w, n + 1)[k] = IF v = Nil THEN 0 ELSE n + 1
  BY <1>1, <1>2 DEF Decode
<1> DEFINE d == Decode(m, n)
           e == Decode(w, n + 1)
<1>7. e = [d EXCEPT ![k] = IF v = Nil THEN 0 ELSE n + 1]
  BY <1>5, <1>6 DEF Decode
<1>8. Content(w, n + 1) = View(w, e) /\ Content(m, n) = View(m, d)
  BY DEF Content
<1>9. d \in [Keys -> Nat] /\ \A j \in Keys : d[j] # 0 => d[j] \in 2 .. n
  BY <1>4 DEF Decode
<1> HIDE DEF d, e
<1>10. ASSUME NEW j \in Keys, j # k PROVE View(w, e)[j] = View(m, d)[j]
  <2>1. e[j] = d[j]
    BY <1>7, <1>9, <1>10
  <2> QED BY <2>1, <1>1, <1>9 DEF View
<1>11. View(w, e)[k] = v
  BY <1>1, <1>7, <1>9 DEF View
<1>12. View(w, e) = [View(m, d) EXCEPT ![k] = v]
  BY <1>10, <1>11 DEF View
<1> QED BY <1>7, <1>8, <1>12 DEF d, e

\* The digest of a region with one more record.
LEMMA CrcAppend ==
    ASSUME NEW m \in [Cap -> Cell], NEW n \in Nat, n + 1 \in Cap, NEW c \in Cell
    PROVE  Crc([m EXCEPT ![n + 1] = c], n + 1) = Append(Crc(m, n), c)
<1>1. \A i \in 1 .. n : i \in Cap /\ i # n + 1
  BY CellsAssumption DEF Cap
<1>2. Crc(m, n) \in Seq(Cell) /\ Len(Crc(m, n)) = n
  BY <1>1 DEF Crc
<1> QED BY <1>1, <1>2 DEF Crc

\* The empty region has no records.
LEMMA EmptyRegion ==
    ASSUME NEW m
    PROVE  Crc(m, 0) = <<>> /\ Decode(m, 0) = NoOffsets /\ Content(m, 0) = EmptyMap
<1>1. Crc(m, 0) = <<>>
  BY DEF Crc
<1>2. \A k \in Keys : LastRec(m, 0, k) = 0
  BY DEF LastRec
<1>3. Decode(m, 0) = NoOffsets
  BY <1>2 DEF Decode, NoOffsets
<1> QED BY <1>1, <1>3 DEF Content, View, NoOffsets, EmptyMap

\* Cutting (or enlarging) a file keeps the region it still has room for.
LEMMA CutKeeps ==
    ASSUME NEW m \in [Cap -> Cell], NEW size \in Cap
    PROVE  /\ Cut(m, size) \in [Cap -> Cell]
           /\ \A n \in Nat : n + Fixed32Size <= size =>
                 /\ Crc(Cut(m, size), n) = Crc(m, n)
                 /\ Decode(Cut(m, size), n) = Decode(m, n)
                 /\ Content(Cut(m, size), n) = Content(m, n)
<1>1. Cut(m, size) \in [Cap -> Cell]
  BY DEF Cut, Cell
<1>2. ASSUME NEW n \in Nat, n + Fixed32Size <= size
      PROVE  /\ Crc(Cut(m, size), n) = Crc(m, n)
             /\ Decode(Cut(m, size), n) = Decode(m, n)
             /\ Content(Cut(m, size), n) = Content(m, n)
  <2>1. \A i \in 1 .. n : Cut(m, size)[i] = m[i]
    BY <1>2, CellsAssumption DEF Cut, Cap, Fixed32Size
  <2>2. Crc(Cut(m, size), n) = Crc(m, n)
    BY <2>1 DEF Crc
  <2>3. \A i \in 2 .. n : Cut(m, size)[i] = m[i]
    BY <2>1
  <2> QED BY <2>2, <2>3, SameRecords
<1> QED BY <1>1, <1>2

-----------------------------------------------------------------------------
\* A dictionary counts no keys exactly when it has none.
LEMMA CountNat ==
    ASSUME NEW o
    PROVE  /\ Count(o) \in Nat
           /\ Count(o) = 0 <=> \A k \in Keys : o[k] = 0
<1>1. IsFiniteSet({k \in Keys : o[k] # 0})
  BY SizingAssumption, FS_Subset
<1> QED BY <1>1, FS_CardinalityType, FS_EmptySet DEF Count

\* The reserve for later items is never negative.
LEMMA FutureUsageNat ==
    ASSUME NEW o
    PROVE  LenNeeded(o) = Count(o) + 3 /\ FutureUsage(o) \in Nat
<1>1. Count(o) \in Nat
  BY CountNat
<1>2. LenNeeded(o) = Count(o) + 3
  BY <1>1 DEF LenNeeded, SizeOfDic, ItemSizeHolderSize, Fixed32Size
<1>3. LaterDicCount(o) \in Nat /\ LaterDicCount(o) > 0
  BY <1>1 DEF LaterDicCount
<1>4. AvgItemSize(o) \in Nat
  BY <1>1, <1>2, <1>3 DEF AvgItemSize
<1>5. LaterDicCount(o) \div 2 \in Nat
  BY <1>3
<1>6. (IF FutureItems > LaterDicCount(o) \div 2 THEN FutureItems ELSE LaterDicCount(o) \div 2) \in Nat
  BY <1>5, SizingAssumption
<1>7. \A a, b \in Nat : a * b \in Nat
  OBVIOUS
<1> QED BY <1>2, <1>4, <1>6, <1>7 DEF FutureUsage

\* A doubled file is larger, and holds what it was doubled for.
LEMMA DoubledGrows ==
    ASSUME NEW o, NEW size \in Cap, NEW new \in Cap, Doubled(o, size, new)
    PROVE  new >= size /\ new > LenNeeded(o)
<1>1. LenNeeded(o) \in Nat /\ FutureUsage(o) \in Nat
  BY FutureUsageNat, CountNat
<1>2. new > LenNeeded(o)
  BY <1>1 DEF Doubled, Cap
<1>3. PICK d \in Powers : new = 2 * (size * d)
  BY DEF Doubled
<1>4. d \in Nat /\ d >= 1 /\ size \in Nat
  BY DEF Powers, Cap
<1>5. \A a, b \in Nat : b >= 1 => a * b >= a
  OBVIOUS
<1>6. size * d >= size /\ size * d \in Nat
  BY <1>4, <1>5
<1> QED BY <1>2, <1>3, <1>4, <1>6

\* A trimmed file still holds the region, and is not below the capacity.
LEMMA TrimKeeps ==
    ASSUME NEW used \in Nat, NEW size \in Cap, NEW new \in Cap,
           used + Fixed32Size <= size, TrimSize(used, size, new)
    PROVE  used + Fixed32Size <= new /\ expectedCapacity <= new
<1>1. PICK half \in Cap : /\ Halved(used, size, half)
                          /\ new = IF half > expectedCapacity THEN half ELSE expectedCapacity
  BY DEF TrimSize
<1>2. used + 1 <= half
  <2>1. CASE half = size
    BY <2>1 DEF Fixed32Size
  <2>2. CASE half # size
    <3>1. PICK d \in Powers : /\ size \div d > (used + 1) * 2
                              /\ half = (size \div d) \div 2
      BY <1>1, <2>2 DEF Halved, Fixed32Size
    <3>2. size \div d \in Int
      BY DEF Powers, Cap
    <3> DEFINE x == size \div d
    <3> HIDE DEF x
    <3>3. x \in Int /\ x > (used + 1) * 2 /\ half = x \div 2
      BY <3>1, <3>2 DEF x
    <3> QED BY <3>3
  <2> QED BY <2>1, <2>2
<1> QED BY <1>1, <1>2, SizingAssumption DEF Cap, Fixed32Size

-----------------------------------------------------------------------------
\* A dictionary of records of the first n cells.
Leads(o, m, n) ==
    /\ o \in [Keys -> 0 .. MaxCap]
    /\ \A k \in Keys : o[k] # 0 =>
          o[k] \in 2 .. n /\ m[o[k]].key = k /\ m[o[k]].val # Nil

\* A dictionary leads to different records for different keys, so there are no
\* more of them than cells behind the holder.
LEMMA CountBound ==
    ASSUME NEW m, NEW n \in Nat, NEW o, Leads(o, m, n)
    PROVE  Count(o) = 0 \/ Count(o) < n
<1> DEFINE D == {k \in Keys : o[k] # 0}
           f == [k \in D |-> o[k]]
<1>1. IsFiniteSet(2 .. n) /\ Cardinality(2 .. n) = IF 2 > n THEN 0 ELSE n - 1
  BY FS_Interval
<1>2. f \in Injection(D, 2 .. n)
  <2>1. f \in [D -> 2 .. n]
    BY DEF Leads
  <2>2. \A j, k \in D : f[j] = f[k] => j = k
    BY DEF Leads
  <2> QED BY <2>1, <2>2 DEF Injection, IsInjective
<1>3. Cardinality(D) <= Cardinality(2 .. n)
  BY <1>1, <1>2, FS_Injection
<1>4. Count(o) \in Nat /\ Count(o) = Cardinality(D)
  BY CountNat DEF Count
<1> QED BY <1>1, <1>3, <1>4

\* How many records lie at or before the one of key k.
Rank(o, k) == Cardinality({j \in Keys : o[j] # 0 /\ o[j] <= o[k]})

\* The ranks of the records are 1 to their number, each once.
LEMMA Ranks ==
    ASSUME NEW m, NEW n \in Nat, NEW o, Leads(o, m, n)
    PROVE  /\ \A k \in Keys : o[k] # 0 => Rank(o, k) \in 1 .. Count(o)
           /\ \A j, k \in Keys : o[j] # 0 /\ o[k] # 0 /\ Rank(o, j) = Rank(o, k) => j = k
           /\ \A i \in 1 .. Count(o) : \E k \in Keys : o[k] # 0 /\ Rank(o, k) = i
<1> DEFINE D == {k \in Keys : o[k] # 0}
           B(k) == {j \in Keys : o[j] # 0 /\ o[j] <= o[k]}
           f == [k \in D |-> Rank(o, k)]
<1>1. IsFiniteSet(D) /\ Count(o) = Cardinality(D) /\ Count(o) \in Nat
  BY SizingAssumption, FS_Subset, CountNat DEF Count
<1>2. \A k \in D : o[k] \in 2 .. n
  BY DEF Leads
<1>3. ASSUME NEW k \in D
      PROVE  IsFiniteSet(B(k)) /\ Rank(o, k) = Cardinality(B(k)) /\ Rank(o, k) \in 1 .. Count(o)
  <2>1. B(k) \in SUBSET D
    OBVIOUS
  <2>2. IsFiniteSet(B(k)) /\ Cardinality(B(k)) <= Cardinality(D)
    BY <1>1, <2>1, FS_Subset
  <2>3. k \in B(k)
    BY <1>2
  <2>4. Cardinality(B(k)) \in Nat /\ Cardinality(B(k)) # 0
    BY <2>2, <2>3, FS_CardinalityType, FS_EmptySet
  <2> QED BY <1>1, <2>2, <2>4 DEF Rank
<1>4. ASSUME NEW j \in D, NEW k \in D, Rank(o, j) = Rank(o, k), o[j] <= o[k] PROVE j = k
  <2>1. B(j) \in SUBSET B(k)
    <3>1. \A i \in D : o[i] <= o[j] => o[i] <= o[k]
      BY <1>2, <1>4
    <3> QED BY <3>1
  <2>2. IsFiniteSet(B(k)) /\ Cardinality(B(k)) = Cardinality(B(j))
    BY <1>3, <1>4
  <2>3. B(k) = B(j)
    BY <2>1, <2>2, FS_Subset
  <2>4. k \in B(k)
    BY <1>2
  <2>5. k \in B(j)
    BY <2>3, <2>4
  <2>6. o[j] = o[k]
    BY <1>2, <1>4, <2>5
  <2> QED BY <2>6 DEF Leads
<1>5. \A j, k \in D : Rank(o, j) = Rank(o, k) => j = k
  <2> SUFFICES ASSUME NEW j \in D, NEW k \in D, Rank(o, j) = Rank(o, k) PROVE j = k
    OBVIOUS
  <2>1. o[j] <= o[k] \/ o[k] <= o[j]
    BY <1>2
  <2>2. CASE o[j] <= o[k]
    BY <1>4, <2>2
  <2>3. CASE o[k] <= o[j]
    BY <1>4, <2>3
  <2> QED BY <2>1, <2>2, <2>3
<1>6. f \in Injection(D, 1 .. Count(o))
  <2>1. f \in [D -> 1 .. Count(o)]
    BY <1>3
  <2>2. \A j, k \in D : f[j] = f[k] => j = k
    BY <1>5
  <2> QED BY <2>1, <2>2 DEF Injection, IsInjective
<1>7. IsFiniteSet(1 .. Count(o)) /\ Cardinality(1 .. Count(o)) = Count(o)
  BY <1>1, FS_Interval
<1>8. f \in Surjection(D, 1 .. Count(o))
  BY <1>1, <1>6, <1>7, FS_Injection
<1>9. \A i \in 1 .. Count(o) : \E k \in D : f[k] = i
  BY <1>8 DEF Surjection
<1> QED BY <1>3, <1>5, <1>9

\* memmoveDictionary packs exactly the records of the dictionary behind the
\* holder: the region it leaves decodes to the offsets it gives them, and to the
\* map the dictionary stood for.
LEMMA CompactedRegion ==
    ASSUME NEW m \in [Cap -> Cell], NEW n \in 0 .. MaxCap, NEW o, NEW h \in Holders,
           Leads(o, m, n)
    PROVE  /\ SizeOfDic(o) = Count(o) + 1 /\ SizeOfDic(o) \in 1 .. MaxCap
           /\ SizeOfDic(o) = 1 \/ SizeOfDic(o) <= n
           /\ Compacted(m, o, h) \in [Cap -> Cell]
           /\ Decode(Compacted(m, o, h), SizeOfDic(o)) = Packed(o)
           /\ Content(Compacted(m, o, h), SizeOfDic(o)) = View(m, o)
<1> DEFINE w == Compacted(m, o, h)
           s == SizeOfDic(o)
           q == Packed(o)
<1>1. /\ MaxCap \in Nat /\ MaxCap > 3 /\ n \in Nat /\ n <= MaxCap
      /\ Count(o) \in Nat /\ s = Count(o) + 1
  BY CellsAssumption, CountNat DEF SizeOfDic, ItemSizeHolderSize
<1>2. (s = 1 \/ s <= n) /\ s \in 1 .. MaxCap
  <2>1. Count(o) = 0 \/ Count(o) < n
    BY <1>1, CountBound
  <2> QED BY <1>1, <2>1
<1>3. \A k \in Keys : q[k] = IF o[k] = 0 THEN 0 ELSE 1 + Rank(o, k)
  BY DEF Packed, Rank, ItemSizeHolderSize
<1>4. /\ \A k \in Keys : o[k] # 0 => Rank(o, k) \in 1 .. Count(o)
      /\ \A j, k \in Keys : o[j] # 0 /\ o[k] # 0 /\ Rank(o, j) = Rank(o, k) => j = k
      /\ \A i \in 1 .. Count(o) : \E k \in Keys : o[k] # 0 /\ Rank(o, k) = i
  <2> HIDE DEF w, s, q
  <2>1. n \in Nat /\ Leads(o, m, n)
    BY <1>1
  <2>2. /\ \A k \in Keys : o[k] # 0 => Rank(o, k) \in 1 .. Count(o)
        /\ \A j, k \in Keys : o[j] # 0 /\ o[k] # 0 /\ Rank(o, j) = Rank(o, k) => j = k
        /\ \A i \in 1 .. Count(o) : \E k \in Keys : o[k] # 0 /\ Rank(o, k) = i
    BY ONLY <2>1, Ranks
  <2> QED BY <2>2
<1>5. \A k \in Keys : IF o[k] = 0 THEN q[k] = 0 ELSE q[k] \in 2 .. s
  <2> SUFFICES ASSUME NEW k \in Keys
               PROVE  IF o[k] = 0 THEN q[k] = 0 ELSE q[k] \in 2 .. s
    OBVIOUS
  <2> HIDE DEF w, s, q
  <2>1. o[k] # 0 => Rank(o, k) \in 1 .. Count(o)
    BY <1>4
  <2>2. q[k] = IF o[k] = 0 THEN 0 ELSE 1 + Rank(o, k)
    BY <1>3
  <2> QED BY <1>1, <2>1, <2>2
<1>6. \A j, k \in Keys : q[k] # 0 /\ q[j] = q[k] => j = k
  BY <1>1, <1>3, <1>4
<1>7. \A i \in 2 .. s : \E k \in Keys : q[k] = i
  <2> SUFFICES ASSUME NEW i \in 2 .. s PROVE \E k \in Keys : q[k] = i
    OBVIOUS
  <2>1. i - 1 \in 1 .. Count(o)
    BY <1>1
  <2>2. PICK k \in Keys : o[k] # 0 /\ Rank(o, k) = i - 1
    BY <1>4, <2>1
  <2> QED BY <1>3, <2>2
<1>8. q \in [Keys -> Nat]
  <2>1. q = [k \in Keys |-> q[k]]
    BY DEF Packed
  <2>2. ASSUME NEW k \in Keys PROVE q[k] \in Nat
    <3> HIDE DEF w, q, s
    <3> QED BY <1>1, <1>5
  <2> QED BY <2>1, <2>2
<1>9. \A i \in Cap :
        w[i] = IF i = 1 THEN Holder(h)
               ELSE IF \E k \in Keys : q[k] = i
                    THEN m[o[CHOOSE k \in Keys : q[k] = i]]
                    ELSE m[i]
  BY DEF Compacted
<1>10. \A k \in Keys : o[k] # 0 => w[q[k]] = m[o[k]] /\ o[k] \in Cap
  <2> SUFFICES ASSUME NEW k \in Keys, o[k] # 0 PROVE w[q[k]] = m[o[k]] /\ o[k] \in Cap
    OBVIOUS
  <2> HIDE DEF w, q, s
  <2>1. q[k] \in 2 .. s /\ q[k] \in Cap /\ q[k] # 1 /\ q[k] # 0
    BY <1>1, <1>2, <1>5 DEF Cap
  <2>2. (CHOOSE j \in Keys : q[j] = q[k]) = k
    BY <1>6, <2>1
  <2>3. w[q[k]] = m[o[CHOOSE j \in Keys : q[j] = q[k]]]
    BY <1>9, <2>1
  <2>4. o[k] \in 2 .. n
    BY DEF Leads
  <2>5. o[k] \in Cap
    BY <1>1, <2>4 DEF Cap
  <2> QED BY <2>2, <2>3, <2>5
<1>11. w \in [Cap -> Cell]
  <2>1. ASSUME NEW i \in Cap PROVE w[i] \in Cell
    <3>1. CASE i = 1
      BY <1>9, <3>1 DEF Cell
    <3>2. CASE i # 1 /\ \E k \in Keys : q[k] = i
      <4>1. PICK k \in Keys : q[k] = i
        BY <3>2
      <4>2. o[k] # 0
        BY <1>5, <4>1 DEF Cap
      <4> QED BY <1>10, <4>1, <4>2
    <3>3. CASE i # 1 /\ ~ \E k \in Keys : q[k] = i
      BY <1>9, <3>3
    <3> QED BY <3>1, <3>2, <3>3
  <2>2. w = [i \in Cap |-> w[i]]
    BY DEF Compacted
  <2> QED BY <2>1, <2>2
<1> HIDE DEF w, q, s
<1>12. \A k \in Keys : q[k] # 0 => q[k] \in 2 .. s /\ w[q[k]].key = k /\ w[q[k]].val # Nil
  BY <1>5, <1>10 DEF Leads
<1>13. Decode(w, s) = q
  BY <1>1, <1>7, <1>8, <1>12, DecodeExact
<1>14. ASSUME NEW k \in Keys PROVE View(w, q)[k] = View(m, o)[k]
  <2>1. CASE o[k] = 0
    BY <1>5, <2>1 DEF View
  <2>2. CASE o[k] # 0
    <3>1. q[k] # 0 /\ w[q[k]] = m[o[k]]
      BY <1>1, <1>5, <1>10, <2>2
    <3> QED BY <2>2, <3>1 DEF View
  <2> QED BY <2>1, <2>2
<1>15. View(w, q) = View(m, o)
  BY <1>14 DEF View
<1>16. Content(w, s) = View(m, o)
  BY <1>13, <1>15 DEF Content
<1> QED BY <1>1, <1>2, <1>11, <1>13, <1>16 DEF w, q, s

\* A key with a record at j: nothing before it counts.
LEMMA DecodeBehind ==
    ASSUME NEW m, NEW w, NEW n \in Nat, NEW j \in 1 .. n, \A i \in j .. n : w[i] = m[i],
           NEW k \in Keys, m[j].key = k
    PROVE  Decode(w, n)[k] = Decode(m, n)[k]
<1>1. CASE j = 1
  <2>1. \A i \in 2 .. n : w[i] = m[i]
    BY <1>1
  <2> QED BY <2>1, SameRecords
<1>2. CASE j # 1
  <2> DEFINE r == LastRec(m, n, k)
  <2>1. \E i \in 2 .. n : m[i].key = k
    BY <1>2
  <2>2. r \in 2 .. n /\ m[r].key = k /\ \A i \in r + 1 .. n : m[i].key # k
    BY <2>1, LastRecFound
  <2> HIDE DEF r
  <2>3. r >= j
    BY <2>2
  <2>4. r \in j .. n /\ \A i \in r .. n : i \in j .. n
    BY <2>2, <2>3
  <2>5. w[r].key = k /\ w[r].val = m[r].val /\ \A i \in r + 1 .. n : w[i].key # k
    BY <2>2, <2>4
  <2>6. LastRec(w, n, k) = r
    <3>1. n \in Nat /\ r \in 2 .. n /\ w[r].key = k
      BY <2>2, <2>5
    <3>2. \A i \in r + 1 .. n : w[i].key # k
      BY <2>5
    <3> QED BY ONLY <3>1, <3>2, LastRecIs
  <2> QED BY <2>5, <2>6 DEF Decode, r
<1> QED BY <1>1, <1>2

\* A key with no record behind the first a cells: only they count.
LEMMA DecodeBefore ==
    ASSUME NEW c, NEW w, NEW a \in Nat, NEW n \in Nat, a <= n, \A i \in 1 .. a : w[i] = c[i],
           NEW k \in Keys, \A i \in a + 1 .. n : w[i].key # k
    PROVE  Decode(w, n)[k] = Decode(c, a)[k]
<1>1. CASE \E i \in 2 .. a : c[i].key = k
  <2> DEFINE r == LastRec(c, a, k)
  <2>1. r \in 2 .. a /\ c[r].key = k /\ \A i \in r + 1 .. a : c[i].key # k
    BY <1>1, LastRecFound
  <2> HIDE DEF r
  <2>2. r \in 2 .. n /\ w[r] = c[r]
    BY <2>1
  <2>3. \A i \in r + 1 .. n : w[i].key # k
    BY <2>1
  <2>4. LastRec(w, n, k) = r
    BY <2>1, <2>2, <2>3, LastRecIs
  <2> QED BY <2>2, <2>4 DEF Decode, r
<1>2. CASE \A i \in 2 .. a : c[i].key # k
  <2>1. \A i \in 2 .. n : w[i].key # k
    BY <1>2
  <2>2. LastRec(w, n, k) = 0 /\ LastRec(c, a, k) = 0
    BY <1>2, <2>1, LastRecNone
  <2> QED BY <2>2 DEF Decode
<1> QED BY <1>1, <1>2

\* The digest of a region is the region; it has the same dictionary and map.
LEMMA CrcIsRegion ==
    ASSUME NEW m \in [Cap -> Cell], NEW n \in 0 .. MaxCap
    PROVE  /\ Crc(m, n) \in [1 .. n -> Cell]
           /\ Decode(Crc(m, n), n) = Decode(m, n)
           /\ Content(Crc(m, n), n) = Content(m, n)
<1>1. n \in Nat /\ \A i \in 1 .. n : i \in Cap
  BY CellsAssumption DEF Cap
<1>2. \A i \in 1 .. n : Crc(m, n)[i] = m[i]
  BY DEF Crc
<1>3. \A i \in 2 .. n : Crc(m, n)[i] = m[i]
  BY <1>1, <1>2
<1>4. Crc(m, n) \in [1 .. n -> Cell]
  BY <1>1 DEF Crc
<1> QED BY <1>1, <1>3, <1>4, SameRecords

\* The dictionary of a region that is kept on its own.
LEMMA RegionLeads ==
    ASSUME NEW n \in 0 .. MaxCap, NEW c \in [1 .. n -> Cell]
    PROVE  Leads(Decode(c, n), c, n)
<1> DEFINE m == [i \in Cap |-> IF i <= n THEN c[i] ELSE Zero]
<1>1. n \in Nat /\ n <= MaxCap /\ MaxCap \in Nat
  BY CellsAssumption
<1>2. m \in [Cap -> Cell]
  BY <1>1 DEF Cap, Cell
<1>3. \A i \in 1 .. n : m[i] = c[i]
  BY <1>1 DEF Cap
<1> HIDE DEF m
<1>4. Decode(m, n) = Decode(c, n)
  BY <1>1, <1>3, SameRecords
<1>5. /\ Decode(m, n) \in [Keys -> 0 .. MaxCap]
      /\ \A k \in Keys : Decode(m, n)[k] # 0 =>
            /\ Decode(m, n)[k] \in 2 .. n
            /\ m[Decode(m, n)[k]].key = k
            /\ m[Decode(m, n)[k]].val \in Vals
  BY <1>2, DecodeFacts
<1>6. ASSUME NEW k \in Keys, Decode(c, n)[k] # 0
      PROVE  /\ Decode(c, n)[k] \in 2 .. n
             /\ c[Decode(c, n)[k]].key = k /\ c[Decode(c, n)[k]].val # Nil
  <2>1. Decode(c, n)[k] \in 2 .. n /\ Decode(c, n)[k] \in 1 .. n
    BY <1>1, <1>4, <1>5, <1>6
  <2> QED BY <1>3, <1>4, <1>5, <1>6, <2>1, CellsAssumption
<1> QED BY <1>4, <1>5, <1>6 DEF Leads
=============================================================================
