----------------------------- MODULE ExpireProofs -----------------------------
(***************************************************************************)
(* Expiry keeps its promise, for any keys, values, threads, durations and  *)
(* opens, whenever it is switched, whether or not files can grow, and for  *)
(* a clock of any width.  The invariant (ExpireInv) says that a loaded     *)
(* instance knows the flag, and that what memory has lost of the file has  *)
(* expired; the values themselves need not have the form the flag says.    *)
(***************************************************************************)
EXTENDS Expire, SequenceTheorems, TLAPS

Calls == {None} \cup
    {c \in [op : CallOps, key : Keys \cup {None}, val : Vals \cup {None}, time : Words] :
        CallOK(c)}

Dictionaries == [Keys -> Data \cup {None}]

\* What memory has lost of m, g, has expired.
GoneOK(g, m) ==
    /\ g \subseteq Keys
    /\ \A k \in g : flag /\ m[k] # None /\ Expired(m[k])

ExpireInv ==
    /\ flag \in BOOLEAN /\ loaded \in BOOLEAN
    /\ enable \in BOOLEAN /\ fresh \in BOOLEAN
    /\ dic \in Dictionaries
    /\ GoneOK(gone, dic)
    /\ loaded => enable = flag
    /\ ~loaded => gone = {}
    /\ secs \in Durations \cup {Never}
    /\ now \in 0 .. MaxTime
    /\ call \in [Threads -> Calls]

-----------------------------------------------------------------------------
(* Values with a due date.                                                  *)

\* Words are numbers, and some.
LEMMA WordsAre == Words \subseteq Nat /\ Never \in Words /\ 0 .. MaxTime \subseteq Words
BY TimeAssumption DEF Words, Never

\* No data and no value is None.
LEMMA NoneIsNoData == None \notin Data /\ Data \subseteq Seq(Nat) /\ Vals \subseteq Data
<1>1. ASSUME NEW s \in Seq(Words)
      PROVE  s \in Seq(Nat)
  <2>1. Words \subseteq Nat
    BY WordsAre
  <2> QED
    BY ONLY <2>1, s \in Seq(Words), SeqMonotonic
<1> QED
  BY <1>1, ValsAssumption, NoneAssumption DEF Data

\* A word is told from what it follows.
LEMMA AppendedWord ==
    ASSUME NEW v \in Data, NEW n \in Words
    PROVE  /\ Append(v, n) \in Data
           /\ HasWord(Append(v, n))
           /\ Word(Append(v, n)) = n
           /\ Body(Append(v, n)) = v
           /\ Len(Append(v, n)) = Len(v) + 1
<1>1. v \in Seq(Words) /\ v # <<>>
  BY DEF Data
<1>2. /\ Append(v, n) \in Seq(Words)
      /\ Len(Append(v, n)) = Len(v) + 1
      /\ Append(v, n)[Len(v) + 1] = n
  BY <1>1, AppendProperties
<1>3. Len(v) \in Nat /\ Len(v) # 0
  BY <1>1, EmptySeq, LenProperties
<1>4. SubSeq(Append(v, n), 1, Len(v)) = SubSeq(v, 1, Len(v))
  <2>1. Append(v, n) = v \o <<n>>
    BY <1>1, AppendIsConcat
  <2>2. <<n>> \in Seq(Words) /\ Len(v) \in 1 .. Len(v) /\ 1 \in 1 .. Len(v)
    BY <1>3
  <2> QED
    BY <1>1, <2>1, <2>2, SubSeqOfConcat1
<1>5. SubSeq(v, 1, Len(v)) = v
  BY <1>1, SubSeqFull
<1>6. Append(v, n) # <<>>
  BY <1>2, <1>3, EmptySeq
<1> QED
  BY <1>2, <1>3, <1>4, <1>5, <1>6 DEF HasWord, Word, Body, Data

\* And data that has one is what precedes it with the word.
LEMMA CutWord ==
    ASSUME NEW d \in Data, HasWord(d)
    PROVE  /\ Body(d) \in Data /\ Word(d) \in Words
           /\ d = Append(Body(d), Word(d))
           /\ Len(Body(d)) = Len(d) - 1
<1> DEFINE n == Len(d)
<1>1. d \in Seq(Words) /\ d # <<>> /\ n \in Nat /\ n >= 2
  BY LenProperties DEF Data, HasWord
<1>2. /\ SubSeq(d, 1, n - 1) \in Seq(Words)
      /\ Len(SubSeq(d, 1, n - 1)) = n - 1
  <2>1. 1 \in 1 .. n /\ n - 1 \in 1 .. n /\ n - 1 >= 1
    BY <1>1
  <2> QED
    BY <1>1, <2>1
<1>3. Body(d) \in Data
  <2>1. Body(d) \in Seq(Words) /\ Len(Body(d)) = n - 1 /\ n - 1 # 0
    BY <1>1, <1>2 DEF Body
  <2>2. Body(d) # <<>>
    BY <2>1, EmptySeq
  <2> QED
    BY <2>1, <2>2 DEF Data
<1>4. d[n] \in Words
  BY <1>1
<1>5. d = Append(SubSeq(d, 1, n - 1), d[n])
  BY <1>1, <1>2, <1>4
<1> QED
  BY <1>2, <1>3, <1>4, <1>5 DEF Body, Word

\* What a buffer starts with, of which another is the beginning.
LEMMA StartsOfBody ==
    ASSUME NEW d \in Data, NEW n \in Words, NEW w \in Data
    PROVE  /\ Starts(d, d) /\ Starts(Append(d, n), d)
           /\ Starts(Append(d, n), w) => Starts(d, w) \/ w = Append(d, n)
           /\ Starts(d, w) => Starts(Append(d, n), w) /\ Len(w) <= Len(d)
<1> DEFINE a == Append(d, n)
<1>1. /\ d \in Seq(Words) /\ d # <<>> /\ w \in Seq(Words) /\ w # <<>>
      /\ Len(d) \in Nat /\ Len(w) \in Nat /\ Len(d) # 0 /\ Len(w) # 0
  BY LenProperties, EmptySeq DEF Data
<1>2. a \in Seq(Words) /\ Len(a) = Len(d) + 1
  BY <1>1, AppendProperties
<1>3. SubSeq(d, 1, Len(d)) = d /\ SubSeq(a, 1, Len(a)) = a
  BY <1>1, <1>2, SubSeqFull
<1>4. SubSeq(a, 1, Len(d)) = d
  BY AppendedWord DEF Body
<1>5. ASSUME Len(w) <= Len(d)
      PROVE  SubSeq(a, 1, Len(w)) = SubSeq(d, 1, Len(w))
  <2>1. a = d \o <<n>>
    BY <1>1, AppendIsConcat
  <2>2. <<n>> \in Seq(Words) /\ Len(w) \in 1 .. Len(d) /\ 1 \in 1 .. Len(w)
    BY <1>1, <1>5
  <2> QED
    BY <1>1, <2>1, <2>2, SubSeqOfConcat1
<1>6. Starts(d, d) /\ Starts(a, d)
  BY <1>1, <1>2, <1>3, <1>4 DEF Starts
<1>7. ASSUME Starts(a, w)
      PROVE  Starts(d, w) \/ w = a
  <2>1. CASE Len(w) <= Len(d)
    BY <1>5, <1>7, <2>1 DEF Starts
  <2>2. CASE ~(Len(w) <= Len(d))
    <3>1. Len(w) = Len(a)
      <4>1. Len(w) <= Len(a)
        BY <1>7 DEF Starts
      <4> QED
        BY ONLY <1>1, <1>2, <2>2, <4>1
    <3> QED
      BY <1>3, <1>7, <3>1 DEF Starts
  <2> QED
    BY <2>1, <2>2
<1>8. ASSUME Starts(d, w)
      PROVE  Starts(a, w) /\ Len(w) <= Len(d)
  <2>1. Len(w) <= Len(d)
    BY <1>8 DEF Starts
  <2>2. Len(w) <= Len(a)
    BY <1>1, <1>2, <2>1
  <2> QED
    BY <1>5, <1>8, <2>1, <2>2 DEF Starts
<1> QED
  BY <1>6, <1>7, <1>8

\* A value with a due date is none without, and the other way round.
LEMMA DatedIsNotPlain ==
    /\ \A v \in Vals, n \in Words : Append(v, n) \in DatedVals /\ Append(v, n) \notin Vals
    /\ \A v \in Vals : v \notin DatedVals
    /\ DatedVals \subseteq Data
<1>1. ASSUME NEW v \in Vals, NEW n \in Words
      PROVE  Append(v, n) \notin Vals
  <2>1. v \in Data
    BY NoneIsNoData
  <2>2. Starts(Append(v, n), v) /\ Len(Append(v, n)) # Len(v)
    <3>1. v \in Seq(Words)
      BY <2>1 DEF Data
    <3>2. Len(v) \in Nat
      BY <3>1, LenProperties
    <3> QED
      BY <2>1, <3>2, StartsOfBody, AppendedWord
  <2> QED
    BY <2>2, ValsAssumption
<1>2. ASSUME NEW d \in DatedVals
      PROVE  d \in Data /\ d \notin Vals
  <2>1. PICK v \in Vals, n \in Words : d = Append(v, n)
    BY DEF DatedVals
  <2>2. v \in Data
    BY NoneIsNoData
  <2>3. Append(v, n) \in Data
    BY <2>2, AppendedWord
  <2> QED
    BY <1>1, <2>1, <2>3
<1>3. \A v \in Vals, n \in Words : Append(v, n) \in DatedVals
  BY DEF DatedVals
<1> QED
  BY <1>1, <1>2, <1>3

\* The elements of DatedVals.
LEMMA DatedVal ==
    ASSUME NEW d \in Data
    PROVE  /\ d \in DatedVals => HasWord(d) /\ Body(d) \in Vals /\ Word(d) \in Words
           /\ HasWord(d) /\ Body(d) \in Vals => d \in DatedVals
<1>1. ASSUME d \in DatedVals
      PROVE  HasWord(d) /\ Body(d) \in Vals /\ Word(d) \in Words
  <2>1. PICK v \in Vals, n \in Words : d = Append(v, n)
    BY <1>1 DEF DatedVals
  <2> QED
    BY <2>1, NoneIsNoData, AppendedWord
<1>2. ASSUME HasWord(d), Body(d) \in Vals
      PROVE  d \in DatedVals
  BY <1>2, CutWord DEF DatedVals
<1> QED
  BY <1>1, <1>2

\* What data decodes to.
LEMMA DecodesTo ==
    /\ \A buf : Decodes(buf) \subseteq Vals \cup {None}
    /\ \A v \in Vals :
          /\ Decodes(v) = {v}
          /\ \A n \in Words : Decodes(Append(v, n)) = {v}
          /\ HasWord(v) => Decodes(Body(v)) = {None}
<1>1. \A buf : Decodes(buf) \subseteq Vals \cup {None}
  BY DEF Decodes
<1>2. ASSUME NEW v \in Vals
      PROVE  Decodes(v) = {v}
  <2>1. Starts(v, v)
    BY NoneIsNoData, StartsOfBody, WordsAre
  <2>2. \A w \in Vals : Starts(v, w) => w = v
    BY ValsAssumption
  <2> HIDE DEF Starts
  <2> QED
    BY <2>1, <2>2 DEF Decodes
<1>3. ASSUME NEW v \in Vals, NEW n \in Words
      PROVE  Decodes(Append(v, n)) = {v}
  <2>1. Starts(Append(v, n), v)
    BY NoneIsNoData, StartsOfBody
  <2>2. ASSUME NEW w \in Vals, Starts(Append(v, n), w)
        PROVE  w = v
    <3>1. v \in Data /\ w \in Data /\ w # Append(v, n)
      BY NoneIsNoData, DatedIsNotPlain
    <3>2. Starts(v, w)
      BY <2>2, <3>1, StartsOfBody
    <3> QED
      BY <3>2, ValsAssumption
  <2> QED
    BY <2>1, <2>2 DEF Decodes
<1>4. ASSUME NEW v \in Vals, HasWord(v)
      PROVE  Decodes(Body(v)) = {None}
  <2> DEFINE b == Body(v)
             n == Word(v)
  <2>1. /\ v \in Data /\ b \in Data /\ n \in Words
        /\ v = Append(b, n) /\ Len(b) = Len(v) - 1
    BY <1>4, NoneIsNoData, CutWord
  <2> HIDE DEF b, n
  <2>2. Starts(v, b)
    BY <2>1, StartsOfBody
  <2>3. ASSUME NEW w \in Vals, Starts(b, w)
        PROVE  FALSE
    <3>1. w \in Data
      BY NoneIsNoData
    <3>2. Starts(Append(b, n), w) /\ Len(w) <= Len(b)
      BY <2>1, <2>3, <3>1, StartsOfBody
    <3>3. Starts(v, w)
      BY <2>1, <3>2
    <3>4. w = v
      BY <3>3, ValsAssumption
    <3>5. Len(v) \in Nat
      BY <2>1, LenProperties DEF Data
    <3> QED
      BY <2>1, <3>2, <3>4, <3>5
  <2>4. Decodes(b) = {None}
    BY <2>2, <2>3 DEF Decodes
  <2> QED
    BY <2>4 DEF b
<1> QED
  BY <1>1, <1>2, <1>3, <1>4

\* Due() is a word.
LEMMA DueIsWord ==
    ASSUME now \in 0 .. MaxTime, NEW d \in Words
    PROVE  Due(d) \in Words
<1>1. d \in Nat /\ now \in Nat /\ TimeWrap \in Nat /\ TimeWrap > 0
  BY TimeAssumption DEF Words
<1>2. ((now + d) % TimeWrap) \in 0 .. TimeWrap - 1
  BY <1>1
<1> QED
  BY <1>2 DEF Due, Words

-----------------------------------------------------------------------------
(* Changes of the dictionary.                                               *)

\* n is m, of which keys that have expired may have gone.
Fewer(n, m) ==
    \A k \in Keys :
        n[k] = m[k] \/ (n[k] = None /\ m[k] # None /\ flag /\ Expired(m[k]))

\* What an instance does about due dates is what the file's flag says.
LEMMA OnIsFlag == ASSUME ExpireInv PROVE On = flag
BY DEF ExpireInv, On

\* What memory has lost has expired, and so has what it is about to lose.
LEMMA ViewIsFewer ==
    ASSUME ExpireInv
    PROVE  /\ View \in Dictionaries /\ Fewer(View, dic)
           /\ Filtered \in Dictionaries /\ Fewer(Filtered, dic)
           /\ \A k \in Keys : View[k] # None => View[k] = dic[k] /\ k \notin gone
           /\ \A k \in Overdue : k \in Keys /\ View[k] # None /\ flag /\ Expired(View[k])
<1>1. dic \in Dictionaries /\ GoneOK(gone, dic)
  BY DEF ExpireInv
<1>2. View \in Dictionaries
  BY <1>1 DEF View, Without, Dictionaries
<1>3. Fewer(View, dic)
  BY <1>1 DEF View, Without, Dictionaries, GoneOK, Fewer
<1>4. \A k \in Keys : View[k] # None => View[k] = dic[k] /\ k \notin gone
  BY DEF View, Without
<1>5. \A k \in Overdue : k \in Keys /\ View[k] # None /\ flag /\ Expired(View[k])
  BY OnIsFlag DEF Overdue, ExpiredKeys, Present
<1> HIDE DEF View
<1>6. Filtered \in Dictionaries
  BY <1>2 DEF Filtered, Without, Dictionaries
<1>7. Fewer(Filtered, dic)
  <2>1. \A k \in Keys : Filtered[k] = View[k] \/ (Filtered[k] = None /\ k \in Overdue)
    BY DEF Filtered, Without
  <2> QED
    BY <1>3, <1>4, <1>5, <2>1 DEF Fewer
<1> QED
  BY <1>2, <1>3, <1>4, <1>5, <1>6, <1>7

\* A file that cannot grow: what memory loses then has expired.
LEMMA GrowFailsKeeps ==
    ASSUME ExpireInv, GrowFails
    PROVE  dic' = dic /\ GoneOK(gone', dic')
<1>1. dic \in Dictionaries /\ GoneOK(gone, dic)
  BY DEF ExpireInv
<1> QED
  BY <1>1, ViewIsFewer DEF GrowFails, GoneOK

\* What a value stored does to file and memory.
LEMMA StoreDataKeeps ==
    ASSUME ExpireInv, NEW k \in Keys, NEW data \in Data, NEW ok \in BOOLEAN,
           StoreData(k, data, ok)
    PROVE  /\ dic' \in Dictionaries /\ GoneOK(gone', dic')
           /\ loaded' = TRUE /\ enable' = flag /\ fresh' \in BOOLEAN
           /\ ok => Fewer(dic', [dic EXCEPT ![k] = data]) /\ dic'[k] = data
           /\ ~ok => dic' = dic
<1>1. dic \in Dictionaries /\ GoneOK(gone, dic) /\ fresh \in BOOLEAN
  BY DEF ExpireInv
<1>2. loaded' = TRUE /\ enable' = flag /\ fresh' \in BOOLEAN
  BY <1>1, OnIsFlag DEF StoreData, Load
<1>3. CASE ok /\ dic' = [dic EXCEPT ![k] = data] /\ gone' = gone \ {k}
  BY <1>1, <1>2, <1>3 DEF GoneOK, Dictionaries, Fewer
<1>4. CASE ok /\ dic' = [Filtered EXCEPT ![k] = data] /\ gone' = {}
  <2>1. Filtered \in Dictionaries /\ Fewer(Filtered, dic)
    BY ViewIsFewer
  <2> HIDE DEF Filtered
  <2> QED
    BY <1>1, <1>2, <1>4, <2>1 DEF GoneOK, Dictionaries, Fewer
<1>5. CASE ~ok /\ GrowFails
  BY <1>1, <1>2, <1>5, GrowFailsKeeps
<1> QED
  BY <1>3, <1>4, <1>5 DEF StoreData

\* What a removal does to them.
LEMMA RemoveDataKeeps ==
    ASSUME ExpireInv, NEW k \in Keys, NEW ok \in BOOLEAN, RemoveData(k, ok)
    PROVE  /\ dic' \in Dictionaries /\ GoneOK(gone', dic') /\ fresh' \in BOOLEAN
           /\ ok => Fewer(dic', [dic EXCEPT ![k] = None]) /\ dic'[k] = None
           /\ ~ok => dic' = dic
<1>1. dic \in Dictionaries /\ GoneOK(gone, dic) /\ fresh \in BOOLEAN
  BY DEF ExpireInv
<1>2. CASE ~ok /\ UNCHANGED <<dic, gone, fresh>>
  BY <1>1, <1>2
<1>3. CASE /\ ok /\ View[k] # None
           /\ dic' = Without(dic, {k}) /\ fresh' = FALSE /\ gone' = gone
  <2>1. k \notin gone
    BY <1>3, ViewIsFewer
  <2> QED
    BY <1>1, <1>3, <2>1 DEF GoneOK, Dictionaries, Fewer, Without
<1>4. CASE ok /\ dic' = Without(Filtered, {k}) /\ fresh' = TRUE /\ gone' = {}
  <2>1. Filtered \in Dictionaries /\ Fewer(Filtered, dic)
    BY ViewIsFewer
  <2> HIDE DEF Filtered
  <2> QED
    BY <1>1, <1>4, <2>1 DEF GoneOK, Dictionaries, Fewer, Without
<1>5. CASE ~ok /\ GrowFails /\ fresh' = FALSE
  BY <1>1, <1>5, GrowFailsKeeps
<1> QED
  BY <1>2, <1>3, <1>4, <1>5 DEF RemoveData

\* And what a full write-back does.
LEMMA FullWritebackKeeps ==
    ASSUME ExpireInv, NEW b \in BOOLEAN, FullWriteback(b)
    PROVE  /\ dic' \in Dictionaries /\ GoneOK(gone', dic') /\ fresh' \in BOOLEAN
           /\ Fewer(dic', dic)
<1>1. dic \in Dictionaries /\ GoneOK(gone, dic) /\ fresh \in BOOLEAN
  BY DEF ExpireInv
<1>2. CASE UNCHANGED <<dic, gone, fresh>>
  BY <1>1, <1>2 DEF Fewer
<1>3. CASE dic' = Filtered /\ gone' = {} /\ fresh' = (Present(Filtered) # {})
  BY <1>1, <1>3, ViewIsFewer DEF GoneOK
<1> QED
  BY <1>2, <1>3 DEF FullWriteback

\* Due dates are appended to what there is, or cut off.
LEMMA AllDatedIs ==
    ASSUME ExpireInv, NEW d \in Words
    PROVE  AllDated(d) \in Dictionaries
<1>1. now \in 0 .. MaxTime
  BY DEF ExpireInv
<1>2. Due(d) \in Words
  BY <1>1, DueIsWord
<1>3. View \in Dictionaries
  BY ViewIsFewer
<1> HIDE DEF View
<1>4. ASSUME NEW k \in Keys, View[k] # None
      PROVE  Append(View[k], Due(d)) \in Data
  <2>1. View[k] \in Data
    BY <1>3, <1>4 DEF Dictionaries
  <2> QED
    BY <1>2, <2>1, AppendedWord
<1> QED
  BY <1>4 DEF AllDated, Dated, Dictionaries

LEMMA NoneDatedIs ==
    ASSUME ExpireInv
    PROVE  NoneDated \in Dictionaries
<1>1. View \in Dictionaries
  BY ViewIsFewer
<1> HIDE DEF View
<1>2. ASSUME NEW k \in Keys, View[k] # None, HasWord(View[k])
      PROVE  Body(View[k]) \in Data
  <2>1. View[k] \in Data
    BY <1>1, <1>2 DEF Dictionaries
  <2> QED
    BY <1>2, <2>1, CutWord
<1> QED
  BY <1>2 DEF NoneDated, Dictionaries

\* What switching on does, with and without success.
LEMMA EnableWithKeeps ==
    ASSUME ExpireInv, NEW d \in Words, NEW ok \in BOOLEAN, EnableWith(d, ok)
    PROVE  /\ dic' \in Dictionaries /\ loaded' \in BOOLEAN /\ fresh' \in BOOLEAN
           /\ flag' \in BOOLEAN /\ enable' = TRUE
           /\ loaded' => flag' = TRUE
           /\ gone' = {} \/ (gone' = gone /\ dic' = dic /\ flag' = flag /\ loaded')
           /\ flag' = ok \/ (flag /\ flag')
           /\ ok /\ ~flag => dic' = AllDated(d)
           /\ flag \/ ~ok => dic' = dic
           /\ flag => ok
<1>1. dic \in Dictionaries /\ fresh \in BOOLEAN /\ flag \in BOOLEAN /\ GoneOK(gone, dic)
  BY DEF ExpireInv
<1>2. CASE ok /\ flag /\ JustMeta(TRUE)
  BY <1>1, <1>2 DEF JustMeta, EnableWith
<1>3. CASE ok /\ ~flag /\ Present(dic) = {} /\ JustMeta(TRUE)
  <2>1. \A k \in Keys : dic[k] = None
    BY <1>3 DEF Present
  <2>2. gone = {}
    BY <1>1, <1>3 DEF GoneOK
  <2>3. dic = AllDated(d)
    BY <1>1, <2>1 DEF Dictionaries, AllDated, View, Without
  <2> QED
    BY <1>1, <1>3, <2>2, <2>3 DEF JustMeta, EnableWith
<1>4. CASE ok /\ ~flag /\ flag' = TRUE /\ dic' = AllDated(d) /\ Forget
  BY <1>1, <1>4, AllDatedIs DEF Forget, EnableWith
<1>5. CASE ~ok /\ ~flag /\ WriteBackFails
  BY <1>1, <1>5 DEF WriteBackFails, Forget, EnableWith
<1> QED
  BY <1>2, <1>3, <1>4, <1>5 DEF EnableWith

\* What switching off does.
LEMMA DisableAllKeeps ==
    ASSUME ExpireInv, DisableAll
    PROVE  /\ dic' \in Dictionaries /\ loaded' \in BOOLEAN /\ fresh' \in BOOLEAN
           /\ flag' = FALSE /\ enable' = FALSE /\ gone' = {}
           /\ flag => dic' = NoneDated
           /\ ~flag => dic' = dic
<1>1. dic \in Dictionaries /\ fresh \in BOOLEAN /\ flag \in BOOLEAN /\ GoneOK(gone, dic)
  BY DEF ExpireInv
<1>2. CASE ~flag /\ JustMeta(FALSE)
  BY <1>1, <1>2 DEF JustMeta, GoneOK, DisableAll
<1>3. CASE flag /\ Present(dic) = {} /\ JustMeta(FALSE)
  <2>1. \A k \in Keys : dic[k] = None
    BY <1>3 DEF Present
  <2>2. gone = {}
    BY <1>1, <2>1 DEF GoneOK
  <2>3. dic = NoneDated
    BY <1>1, <2>1 DEF Dictionaries, NoneDated, View, Without
  <2> QED
    BY <1>1, <1>3, <2>2, <2>3 DEF JustMeta, DisableAll
<1>4. CASE flag /\ flag' = FALSE /\ dic' = NoneDated /\ Forget
  BY <1>1, <1>4, NoneDatedIs DEF Forget, DisableAll
<1> QED
  BY <1>1, <1>2, <1>3, <1>4 DEF DisableAll

-----------------------------------------------------------------------------
(* Every step keeps ExpireInv.                                              *)

\* A call is one of the calls there are.
LEMMA CallIs ==
    ASSUME ExpireInv, NEW t \in Threads, call[t] # None
    PROVE  CallOK(call[t])
BY DEF ExpireInv, Calls

\* A call goes on, or ends.
LEMMA CallKeeps ==
    ASSUME ExpireInv, NEW t \in Threads, NEW op, NEW k, NEW v, NEW n,
           CallOK([op |-> op, key |-> k, val |-> v, time |-> n]), Call(t, op, k, v, n)
    PROVE  call' \in [Threads -> Calls]
<1> DEFINE r == [op |-> op, key |-> k, val |-> v, time |-> n]
<1>1. r \in Calls
  BY DEF CallOK, Calls
<1>2. call \in [Threads -> Calls] /\ call' = [call EXCEPT ![t] = r]
  BY DEF ExpireInv, Call
<1> HIDE DEF r
<1> QED
  BY <1>1, <1>2

LEMMA ReturnKeeps ==
    ASSUME ExpireInv, NEW t \in Threads, NEW ok, Return(t, ok)
    PROVE  call' \in [Threads -> Calls]
BY DEF ExpireInv, Return, Calls

\* A new file satisfies ExpireInv.
LEMMA InitExpireInv == Init => ExpireInv
<1> SUFFICES ASSUME Init PROVE ExpireInv
  OBVIOUS
<1>1. flag \in BOOLEAN /\ loaded \in BOOLEAN /\ fresh \in BOOLEAN /\ enable \in BOOLEAN
  BY Zenon DEF Init
<1>2. now \in 0 .. MaxTime
  BY TimeAssumption DEF Init, Words
<1>3. /\ secs \in Durations \cup {Never} /\ dic \in Dictionaries /\ gone = {}
      /\ call \in [Threads -> Calls] /\ ~loaded
  BY DEF Init, Dictionaries, Calls
<1> QED
  BY <1>1, <1>2, <1>3 DEF ExpireInv, GoneOK

\* A call begins, and what follows from the switch as it sees it.
LEMMA BeginKeeps ==
    ASSUME ExpireInv, NEW t \in Threads, Begin(t)
    PROVE  call' \in [Threads -> Calls]
<1>1. secs \in Words /\ Durations \subseteq Words /\ Never \in Words
      /\ Inputs \subseteq Keys \X Vals
  BY WordsAre, InputsAssumption DEF ExpireInv
<1>2. ASSUME NEW i \in Inputs, NEW d \in Words, NEW op \in {"set", "import"},
             Call(t, op, i[1], i[2], d)
      PROVE  call' \in [Threads -> Calls]
  <2>1. i[1] \in Keys /\ i[2] \in Vals
    BY <1>1
  <2>2. CallOK([op |-> op, key |-> i[1], val |-> i[2], time |-> d])
    BY <2>1 DEF CallOK, CallOps, SetOps
  <2> QED
    BY <1>2, <2>2, CallKeeps
<1>3. ASSUME NEW k \in Keys, Call(t, "remove", k, None, Never)
      PROVE  call' \in [Threads -> Calls]
  <2>1. CallOK([op |-> "remove", key |-> k, val |-> None, time |-> Never])
    BY <1>1 DEF CallOK, CallOps, SetOps
  <2> QED
    BY <1>3, <2>1, CallKeeps
<1>4. ASSUME NEW d \in Durations, Call(t, "enable", None, None, d)
      PROVE  call' \in [Threads -> Calls]
  <2>1. CallOK([op |-> "enable", key |-> None, val |-> None, time |-> d])
    BY <1>1 DEF CallOK, CallOps, SetOps
  <2> QED
    BY <1>4, <2>1, CallKeeps
<1>5. ASSUME Call(t, "disable", None, None, Never)
      PROVE  call' \in [Threads -> Calls]
  <2>1. CallOK([op |-> "disable", key |-> None, val |-> None, time |-> Never])
    BY <1>1 DEF CallOK, CallOps, SetOps
  <2> QED
    BY <1>5, <2>1, CallKeeps
<1>6. CASE BeginSet(t)
  BY <1>1, <1>2, <1>6 DEF BeginSet
<1>7. CASE BeginOther(t)
  BY <1>1, <1>2, <1>3, <1>4, <1>5, <1>7 DEF BeginOther
<1> QED
  BY <1>6, <1>7 DEF Begin

LEMMA EncodeKeeps ==
    ASSUME ExpireInv, NEW t \in Threads, SetSize(t) \/ SetWrite(t)
    PROVE  call' \in [Threads -> Calls]
<1> DEFINE c == call[t]
<1>1. c # None /\ c.op \in SetOps
  BY DEF SetSize, SetWrite, In, SetOps
<1>2. CallOK(c)
  BY <1>1, CallIs
<1>3. c.key \in Keys /\ c.val \in Vals /\ c.time \in Words
  BY <1>1, <1>2 DEF CallOK
<1>4. ASSUME NEW op \in SetOps, NEW n \in Words, op = "plain" => n = Never,
             Call(t, op, c.key, c.val, n)
      PROVE  call' \in [Threads -> Calls]
  <2>1. CallOK([op |-> op, key |-> c.key, val |-> c.val, time |-> n])
    BY <1>3, <1>4 DEF CallOK, CallOps, SetOps
  <2> QED
    BY <1>4, <2>1, CallKeeps
<1>5. CASE SetSize(t)
  <2>1. Call(t, "roomy", c.key, c.val, c.time) \/ Call(t, "tight", c.key, c.val, c.time)
    BY <1>5 DEF SetSize
  <2> HIDE DEF c
  <2> QED
    BY <1>3, <1>4, <2>1 DEF SetOps
<1>6. CASE SetWrite(t)
  <2>1. now \in 0 .. MaxTime
    BY DEF ExpireInv
  <2>2. Due(c.time) \in Words /\ Never \in Words
    BY <1>3, <2>1, DueIsWord, WordsAre
  <2>3. \/ Call(t, "dated", c.key, c.val, Due(c.time))
        \/ \E n \in Words : Call(t, "torn", c.key, c.val, n)
        \/ Call(t, "plain", c.key, c.val, Never)
        \/ Return(t, FALSE)
    BY <1>6 DEF SetWrite
  <2> HIDE DEF c
  <2> QED
    BY <1>4, <2>2, <2>3, ReturnKeeps DEF SetOps
<1> QED
  BY <1>5, <1>6

\* Every step that stores, removes, reads or counts under the lock.
StoredOK ==
    /\ dic' \in Dictionaries /\ GoneOK(gone', dic')
    /\ enable' = flag /\ fresh' \in BOOLEAN
    /\ loaded' = TRUE

LEMMA StoredKeeps ==
    ASSUME ExpireInv, StoredOK, UNCHANGED <<flag, secs, now>>,
           call' \in [Threads -> Calls]
    PROVE  ExpireInv'
<1>1. enable' \in BOOLEAN
  BY Zenon DEF ExpireInv, StoredOK
<1>2. GoneOK(gone, dic)'
  BY DEF StoredOK, GoneOK, Expired
<1> QED
  BY <1>1, <1>2 DEF ExpireInv, StoredOK, Dictionaries

\* The data a set or an import stores.
StoredData(c) == IF c.op = "plain" THEN c.val ELSE Append(c.val, c.time)
ImportedData(c) == IF On THEN Dated(c.val, secs) ELSE c.val

LEMMA StoredDataIs ==
    ASSUME ExpireInv, NEW t \in Threads, In(t, SetOps \cup {"import"})
    PROVE  /\ call[t].key \in Keys /\ call[t].val \in Vals /\ call[t].time \in Words
           /\ StoredData(call[t]) \in Data /\ ImportedData(call[t]) \in Data
<1>1. CallOK(call[t]) /\ call[t].op \in SetOps \cup {"import"}
  BY CallIs DEF In
<1>2. call[t].key \in Keys /\ call[t].val \in Vals /\ call[t].time \in Words
  BY <1>1 DEF CallOK
<1>3. call[t].val \in Data
  BY <1>2, NoneIsNoData
<1>4. now \in 0 .. MaxTime /\ secs \in Words
  BY WordsAre, InputsAssumption DEF ExpireInv
<1>5. Due(secs) \in Words
  BY <1>4, DueIsWord
<1> QED
  BY <1>2, <1>3, <1>5, AppendedWord DEF StoredData, ImportedData, Dated

LEMMA SetStoreOK ==
    ASSUME ExpireInv, NEW t \in Threads, SetStore(t)
    PROVE  StoredOK /\ call' \in [Threads -> Calls]
<1>1. In(t, SetOps \cup {"import"})
  BY DEF SetStore, In, SetOps
<1>2. PICK ok \in BOOLEAN : StoreData(call[t].key, StoredData(call[t]), ok) /\ Return(t, ok)
  BY DEF SetStore, StoredData
<1>3. call[t].key \in Keys /\ StoredData(call[t]) \in Data
  BY <1>1, StoredDataIs
<1> QED
  BY <1>2, <1>3, StoreDataKeeps, ReturnKeeps DEF StoredOK

LEMMA ImportOK ==
    ASSUME ExpireInv, NEW t \in Threads, Import(t)
    PROVE  StoredOK /\ call' \in [Threads -> Calls]
<1>1. In(t, SetOps \cup {"import"})
  BY DEF Import, In
<1>2. PICK ok \in BOOLEAN : StoreData(call[t].key, ImportedData(call[t]), ok) /\ Return(t, ok)
  BY DEF Import, ImportedData
<1>3. call[t].key \in Keys /\ ImportedData(call[t]) \in Data
  BY <1>1, StoredDataIs
<1> QED
  BY <1>2, <1>3, StoreDataKeeps, ReturnKeeps DEF StoredOK

LEMMA RemoveOK ==
    ASSUME ExpireInv, NEW t \in Threads, Remove(t)
    PROVE  StoredOK /\ call' \in [Threads -> Calls] /\ call[t].key \in Keys
<1>1. call[t].key \in Keys
  BY CallIs DEF Remove, In, CallOK
<1>2. PICK ok \in BOOLEAN : RemoveData(call[t].key, ok) /\ Return(t, ok)
  BY DEF Remove
<1>3. loaded' = TRUE /\ enable' = flag
  BY OnIsFlag DEF Remove, Load
<1> QED
  BY <1>1, <1>2, <1>3, RemoveDataKeeps, ReturnKeeps DEF StoredOK

\* Reads, counts and trims change no call, and only expired keys go.
LEMMA QuietOK ==
    ASSUME ExpireInv, (\E k \in Keys : Get(k)) \/ CountFiltered \/ Trim
    PROVE  StoredOK /\ UNCHANGED <<flag, secs, now, call>> /\ Fewer(dic', dic)
<1>1. loaded' = TRUE /\ enable' = flag /\ UNCHANGED <<flag, secs, now, call>>
  BY OnIsFlag DEF Get, CountFiltered, Trim, Load
<1>2. dic \in Dictionaries /\ GoneOK(gone, dic) /\ fresh \in BOOLEAN
  BY DEF ExpireInv
<1>3. CASE UNCHANGED <<dic, gone, fresh>>
  BY <1>1, <1>2, <1>3 DEF StoredOK, Fewer
<1>4. CASE FullWriteback(TRUE) \/ FullWriteback(FALSE)
  BY <1>1, <1>4, FullWritebackKeeps DEF StoredOK
<1>5. ASSUME NEW k \in Keys, k \in Overdue, NEW ok \in BOOLEAN, RemoveData(k, ok)
      PROVE  StoredOK /\ Fewer(dic', dic)
  <2>1. dic[k] # None /\ flag /\ Expired(dic[k])
    BY <1>5, ViewIsFewer
  <2>2. /\ dic' \in Dictionaries /\ GoneOK(gone', dic') /\ fresh' \in BOOLEAN
        /\ ok => Fewer(dic', [dic EXCEPT ![k] = None]) /\ dic'[k] = None
        /\ ~ok => dic' = dic
    BY <1>5, RemoveDataKeeps
  <2>3. ASSUME ok PROVE Fewer(dic', dic)
    BY <1>2, <2>1, <2>2, <2>3 DEF Fewer, Dictionaries
  <2>4. ASSUME ~ok PROVE Fewer(dic', dic)
    BY <2>2, <2>4 DEF Fewer
  <2> QED
    BY <1>1, <2>2, <2>3, <2>4 DEF StoredOK
<1> QED
  BY <1>1, <1>3, <1>4, <1>5 DEF Get, CountFiltered, Trim

\* Switching, the process's end and its next opening.
LEMMA SwitchKeeps ==
    ASSUME ExpireInv,
           \/ \E d \in Durations, ok \in BOOLEAN : EnableWith(d, ok)
           \/ DisableAll,
           UNCHANGED now, call' \in [Threads -> Calls]
    PROVE  ExpireInv'
<1>1. CASE \E d \in Durations, ok \in BOOLEAN : EnableWith(d, ok)
  <2>1. PICK d \in Durations, ok \in BOOLEAN : EnableWith(d, ok)
    BY <1>1
  <2>2. d \in Words
    BY InputsAssumption
  <2>3. /\ dic' \in Dictionaries /\ loaded' \in BOOLEAN /\ fresh' \in BOOLEAN
        /\ flag' \in BOOLEAN /\ enable' = TRUE
        /\ loaded' => flag' = TRUE
        /\ gone' = {} \/ (gone' = gone /\ dic' = dic /\ flag' = flag /\ loaded')
    BY <2>1, <2>2, EnableWithKeeps
  <2>4. secs' \in Durations \cup {Never}
    BY <2>1 DEF EnableWith
  <2>5. GoneOK(gone, dic)'
    BY <2>3 DEF ExpireInv, GoneOK, Expired
  <2>6. enable' = TRUE
    BY <2>1 DEF EnableWith
  <2>7. enable' \in BOOLEAN
    BY <2>6, Zenon
  <2>8. loaded' => enable' = flag'
    BY <2>3, <2>6
  <2>9. ~loaded' => gone' = {}
    BY <2>3
  <2> QED
    BY <2>3, <2>4, <2>5, <2>7, <2>8, <2>9 DEF ExpireInv, Dictionaries
<1>2. CASE DisableAll
  <2>1. /\ dic' \in Dictionaries /\ loaded' \in BOOLEAN /\ fresh' \in BOOLEAN
        /\ flag' = FALSE /\ enable' = FALSE /\ gone' = {} /\ secs' = Never
    BY <1>2, DisableAllKeeps DEF DisableAll
  <2>2. enable' \in BOOLEAN /\ flag' \in BOOLEAN
    BY <2>1, Zenon
  <2> QED
    BY <2>1, <2>2 DEF ExpireInv, GoneOK, Dictionaries
<1> QED
  BY <1>1, <1>2

LEMMA ReopenCall ==
    ASSUME NEW t \in Others, NEW config \in Opens, NEW d \in Durations, Reopen(t, config, d)
    PROVE  call' \in [Threads -> Calls]
<1>1. config # "unset" => config \in {"on", "off"}
  BY InputsAssumption
<1>2. d \in Words
  BY InputsAssumption
<1> DEFINE r == [op |-> config, key |-> None, val |-> None, time |-> d]
<1>3. config # "unset" => r \in Calls
  BY <1>1, <1>2 DEF Calls, CallOK, CallOps, SetOps
<1>4. call' = [u \in Threads |-> IF u = t /\ config # "unset" THEN r ELSE None]
  BY DEF Reopen
<1>5. None \in Calls
  BY DEF Calls
<1> HIDE DEF r
<1> QED
  BY <1>3, <1>4, <1>5

LEMMA ConfigureKeeps ==
    ASSUME ExpireInv, NEW t \in Threads, Configure(t)
    PROVE  ExpireInv'
<1>1. \E ok : Return(t, ok)
  BY DEF Configure
<1>2. call' \in [Threads -> Calls]
  BY <1>1, ReturnKeeps
<1>3. In(t, {"on"}) => call[t].time \in Durations
  BY CallIs DEF In, CallOK
<1>4. now' = now
  BY DEF Configure
<1>5. CASE In(t, {"on"}) /\ flag /\ enable' = TRUE /\ secs' = call[t].time
           /\ UNCHANGED <<flag, dic, gone, loaded, fresh>>
  <2>1. enable' \in BOOLEAN /\ (loaded' => enable' = flag')
    BY <1>5, Zenon
  <2> QED
    BY <1>2, <1>3, <1>4, <1>5, <2>1 DEF ExpireInv, GoneOK, Expired, Dictionaries
<1>6. CASE In(t, {"on"}) /\ \E ok \in BOOLEAN : EnableWith(call[t].time, ok)
  BY <1>2, <1>3, <1>4, <1>6, SwitchKeeps
<1>7. CASE DisableAll
  BY <1>2, <1>4, <1>7, SwitchKeeps
<1>8. CASE ~flag /\ enable' = FALSE /\ UNCHANGED <<flag, dic, gone, loaded, secs, fresh>>
  <2>1. enable' \in BOOLEAN /\ (loaded' => enable' = flag')
    BY <1>8, Zenon DEF ExpireInv
  <2> QED
    BY <1>2, <1>4, <1>8, <2>1 DEF ExpireInv, GoneOK, Expired, Dictionaries
<1> QED
  BY <1>5, <1>6, <1>7, <1>8 DEF Configure

\* Time passes, or nothing but the calls changes: what has expired stays so.
LEMMA RestKeeps ==
    ASSUME ExpireInv, UNCHANGED <<flag, dic, instVars>>,
           now' = now \/ (now < MaxTime /\ now' = now + 1),
           call' \in [Threads -> Calls]
    PROVE  ExpireInv'
<1>1. now \in Nat /\ MaxTime \in Nat /\ now <= MaxTime
  BY WordsAre, TimeAssumption DEF ExpireInv, Words
<1>2. now' \in 0 .. MaxTime /\ now <= now'
  BY <1>1
<1>3. GoneOK(gone, dic)'
  <2>1. ASSUME NEW k \in gone
        PROVE  Expired(dic[k])'
    <3>1. k \in Keys /\ dic[k] # None /\ Expired(dic[k])
      BY DEF ExpireInv, GoneOK
    <3>2. dic[k] \in Data /\ HasWord(dic[k])
      BY <3>1 DEF ExpireInv, Dictionaries, Expired
    <3>3. Word(dic[k]) \in Nat
      BY <3>2, CutWord, WordsAre
    <3> DEFINE w == Word(dic[k])
    <3>4. w <= now /\ w # Never
      BY <3>1 DEF Expired
    <3> HIDE DEF w
    <3>5. w \in Nat /\ now' \in Nat
      BY <1>1, <3>3 DEF w
    <3>6. w <= now'
      BY ONLY <1>1, <1>2, <3>4, <3>5
    <3>7. dic' = dic
      BY DEF instVars
    <3> QED
      BY <3>2, <3>4, <3>6, <3>7 DEF Expired, w
  <2> QED
    BY <2>1 DEF GoneOK, ExpireInv, instVars
<1> QED
  BY <1>2, <1>3 DEF ExpireInv, instVars, Dictionaries

\* Every step keeps ExpireInv.
LEMMA NextExpireInv ==
    ASSUME ExpireInv, [Next]_vars
    PROVE  ExpireInv'
<1>1. ASSUME NEW t \in Threads, Begin(t) \/ SetSize(t) \/ SetWrite(t)
      PROVE  ExpireInv'
  <2>1. call' \in [Threads -> Calls]
    BY <1>1, BeginKeeps, EncodeKeeps
  <2>2. UNCHANGED <<flag, dic, instVars, now>>
    BY <1>1 DEF Begin, SetSize, SetWrite
  <2> QED
    BY <2>1, <2>2, RestKeeps
<1>2. ASSUME NEW t \in Threads, SetStore(t) \/ Import(t) \/ Remove(t)
      PROVE  ExpireInv'
  <2>1. StoredOK /\ call' \in [Threads -> Calls]
    BY <1>2, SetStoreOK, ImportOK, RemoveOK
  <2>2. UNCHANGED <<flag, secs, now>>
    BY <1>2 DEF SetStore, Import, Remove
  <2> QED
    BY <2>1, <2>2, StoredKeeps
<1>3. ASSUME (\E k \in Keys : Get(k)) \/ CountFiltered \/ Trim
      PROVE  ExpireInv'
  <2>1. StoredOK /\ UNCHANGED <<flag, secs, now, call>>
    BY <1>3, QuietOK
  <2>2. call' \in [Threads -> Calls]
    BY <2>1 DEF ExpireInv
  <2> QED
    BY <2>1, <2>2, StoredKeeps
<1>4. ASSUME ClearMemoryCache
      PROVE  ExpireInv'
  <2>1. /\ loaded' = FALSE /\ fresh' = FALSE /\ gone' = {}
        /\ UNCHANGED <<flag, dic, enable, secs, now, call>>
    BY <1>4 DEF ClearMemoryCache, Forget
  <2> QED
    BY <2>1 DEF ExpireInv, GoneOK, Dictionaries
<1>5. ASSUME NEW t \in Threads, Enable(t) \/ Disable(t)
      PROVE  ExpireInv'
  <2>1. call' \in [Threads -> Calls]
    BY <1>5, ReturnKeeps DEF Enable, Disable
  <2>2. Enable(t) => call[t].time \in Durations
    BY CallIs DEF Enable, In, CallOK
  <2> QED
    BY <1>5, <2>1, <2>2, SwitchKeeps DEF Enable, Disable
<1>6. ASSUME NEW t \in Others, NEW config \in Opens, NEW d \in Durations, Reopen(t, config, d)
      PROVE  ExpireInv'
  <2>1. call' \in [Threads -> Calls]
    BY <1>6, ReopenCall
  <2>2. /\ loaded' = FALSE /\ fresh' = FALSE /\ gone' = {} /\ enable' = FALSE
        /\ secs' = Never /\ UNCHANGED <<flag, dic, now>>
    BY <1>6 DEF Reopen, Forget
  <2>3. enable' \in BOOLEAN
    BY <2>2, Zenon
  <2> QED
    BY <2>1, <2>2, <2>3 DEF ExpireInv, GoneOK, Dictionaries
<1>7. ASSUME Tick \/ UNCHANGED vars
      PROVE  ExpireInv'
  <2>1. UNCHANGED <<flag, dic, instVars, call>>
    BY <1>7 DEF Tick, vars
  <2>2. now' = now \/ (now < MaxTime /\ now' = now + 1)
    BY <1>7 DEF Tick, vars
  <2>3. call' \in [Threads -> Calls]
    BY <2>1 DEF ExpireInv
  <2> QED
    BY <2>1, <2>2, <2>3, RestKeeps
<1> QED
  BY <1>1, <1>2, <1>3, <1>4, <1>5, <1>6, <1>7, ConfigureKeeps DEF Next, ThreadNext

(***************************************************************************)
(* Whenever expiry is switched, however files fail to grow and however     *)
(* they are opened: a loaded instance knows the flag, and what memory has  *)
(* lost of the file has expired.                                           *)
(***************************************************************************)
THEOREM SpecExpireInv == Spec => []ExpireInv
<1>1. ExpireInv /\ [Next]_vars => ExpireInv'
  BY NextExpireInv
<1> QED
  BY <1>1, InitExpireInv, PTL DEF Spec

\* No data in the file is ever empty, the mark of a removed key.
THEOREM SpecExpireTypeOK == Spec => []TypeOK
<1>1. ExpireInv => TypeOK
  <2> SUFFICES ASSUME ExpireInv PROVE TypeOK
    OBVIOUS
  <2>1. /\ \A k \in Keys : dic[k] # None => dic[k] \in Data
        /\ gone \subseteq Present(dic)
    BY DEF ExpireInv, Dictionaries, GoneOK, Present
  <2>2. flag \in BOOLEAN /\ loaded \in BOOLEAN /\ enable \in BOOLEAN /\ fresh \in BOOLEAN
    BY Zenon DEF ExpireInv
  <2>3. \A t \in Threads : call[t] # None => CallOK(call[t])
    BY CallIs
  <2> QED
    BY <2>1, <2>2, <2>3 DEF ExpireInv, TypeOK
<1> QED
  BY <1>1, SpecExpireInv, PTL

\* A loaded instance does about due dates what the meta file says: after a
\* write-back that failed as after an open that says nothing.
THEOREM SpecLoadedKnowsFlag == Spec => []LoadedKnowsFlag
<1>1. ExpireInv => LoadedKnowsFlag
  BY DEF ExpireInv, LoadedKnowsFlag
<1> QED
  BY <1>1, SpecExpireInv, PTL

-----------------------------------------------------------------------------
(* The refinement of TimedMap.                                              *)

\* The entry that data is in a file whose flag is b, and a file's map.
EntryAt(b, data) ==
    IF data = None THEN None
    ELSE IF b /\ data \in DatedVals THEN [val |-> Body(data), due |-> Word(data)]
    ELSE IF ~b /\ data \in Vals THEN [val |-> data, due |-> Never]
    ELSE Lost
MapAt(b, m) == [k \in Keys |-> EntryAt(b, m[k])]

LEMMA MapIs ==
    /\ [k \in Keys |-> Entry(k)] = MapAt(flag, dic)
    /\ [k \in Keys |-> Entry(k)]' = MapAt(flag', dic')
BY DEF MapAt, EntryAt, Entry

\* An entry is lost or has a value and a due date, and data there is is one.
LEMMA EntryIs ==
    ASSUME NEW b \in BOOLEAN, NEW data \in Data
    PROVE  /\ EntryAt(b, data) # None
           /\ EntryAt(b, data) # Lost =>
                 /\ EntryAt(b, data) \in [val : Vals, due : Words]
                 /\ b => /\ HasWord(data) /\ Body(data) \in Vals
                         /\ EntryAt(b, data) = [val |-> Body(data), due |-> Word(data)]
                 /\ ~b => data \in Vals /\ EntryAt(b, data) = [val |-> data, due |-> Never]
<1>1. data # None /\ None # Lost
  BY NoneIsNoData, NoneAssumption
<1>2. [val : Vals, due : Words] \subseteq [val : Seq(Nat), due : Nat]
  BY NoneIsNoData, WordsAre
<1>3. CASE b /\ data \in DatedVals
  <2>1. HasWord(data) /\ Body(data) \in Vals /\ Word(data) \in Words
    BY <1>3, DatedVal
  <2>2. EntryAt(b, data) = [val |-> Body(data), due |-> Word(data)]
    BY <1>1, <1>3 DEF EntryAt
  <2>3. EntryAt(b, data) \in [val : Vals, due : Words]
    BY <2>1, <2>2
  <2> QED
    BY <1>2, <1>3, <2>1, <2>2, <2>3, NoneAssumption
<1>4. CASE ~b /\ data \in Vals
  <2>1. EntryAt(b, data) = [val |-> data, due |-> Never]
    BY <1>1, <1>4 DEF EntryAt
  <2>2. EntryAt(b, data) \in [val : Vals, due : Words]
    BY <1>4, <2>1, WordsAre
  <2> QED
    BY <1>2, <1>4, <2>1, <2>2, NoneAssumption
<1>5. CASE ~(b /\ data \in DatedVals) /\ ~(~b /\ data \in Vals)
  BY <1>1, <1>5 DEF EntryAt
<1> QED
  BY <1>3, <1>4, <1>5

\* A record is not one of the two special entries.
LEMMA EntryIsNone ==
    ASSUME NEW b \in BOOLEAN, NEW v \in Vals, NEW n \in Words
    PROVE  /\ EntryAt(b, None) = None
           /\ EntryAt(b, v) = IF b THEN Lost ELSE [val |-> v, due |-> Never]
           /\ EntryAt(b, Append(v, n)) = IF b THEN [val |-> v, due |-> n] ELSE Lost
<1>1. v \in Data /\ Append(v, n) \in Data /\ v # None /\ Append(v, n) # None
  BY NoneIsNoData, AppendedWord
<1>2. /\ v \notin DatedVals /\ Append(v, n) \in DatedVals /\ Append(v, n) \notin Vals
  BY DatedIsNotPlain
<1>3. Body(Append(v, n)) = v /\ Word(Append(v, n)) = n
  BY <1>1, AppendedWord
<1> DEFINE a == Append(v, n)
<1> HIDE DEF a
<1>4. EntryAt(b, a) = IF b THEN [val |-> v, due |-> n] ELSE Lost
  BY <1>1, <1>2, <1>3 DEF EntryAt, a
<1>5. EntryAt(b, v) = IF b THEN Lost ELSE [val |-> v, due |-> Never]
  BY <1>1, <1>2 DEF EntryAt
<1> QED
  BY <1>4, <1>5 DEF EntryAt, a

\* What expires in a file that is on is over, or was lost.
LEMMA ExpiredIsOver ==
    ASSUME NEW data \in Data, Expired(data)
    PROVE  EntryAt(TRUE, data) = Lost \/ Promise!Over(EntryAt(TRUE, data))
<1>1. CASE EntryAt(TRUE, data) # Lost
  <2> DEFINE x == EntryAt(TRUE, data)
  <2>1. x # None /\ x # Lost /\ x = [val |-> Body(data), due |-> Word(data)]
    BY <1>1, EntryIs
  <2>2. Word(data) # Never /\ Word(data) <= now
    BY DEF Expired
  <2> HIDE DEF x
  <2>3. x.due = Word(data)
    BY <2>1
  <2> QED
    BY <2>1, <2>2, <2>3 DEF Promise!Over, x
<1> QED
  BY <1>1

\* Expired keys may be gone from the map.
LEMMA FewerIsMay ==
    ASSUME ExpireInv, flag' = flag, dic' \in Dictionaries,
           NEW m \in Dictionaries, Fewer(dic', m)
    PROVE  Promise!May(MapAt(flag, m))
<1>1. flag \in BOOLEAN
  BY DEF ExpireInv
<1>2. ASSUME NEW k \in Keys
      PROVE  \/ EntryAt(flag, dic'[k]) = EntryAt(flag, m[k])
             \/ /\ EntryAt(flag, dic'[k]) = None
                /\ EntryAt(flag, m[k]) = Lost \/ Promise!Over(EntryAt(flag, m[k]))
  <2>1. CASE dic'[k] = m[k]
    BY <2>1
  <2>2. CASE dic'[k] = None /\ m[k] # None /\ flag /\ Expired(m[k])
    <3>1. m[k] \in Data /\ flag = TRUE
      BY <1>1, <2>2 DEF Dictionaries
    <3>2. EntryAt(TRUE, m[k]) = Lost \/ Promise!Over(EntryAt(TRUE, m[k]))
      BY <2>2, <3>1, ExpiredIsOver
    <3>3. EntryAt(flag, dic'[k]) = None
      BY <2>2 DEF EntryAt
    <3> QED
      BY <3>1, <3>2, <3>3
  <2> QED
    BY <2>1, <2>2 DEF Fewer
<1>3. [k \in Keys |-> Entry(k)]' = MapAt(flag, dic')
  BY MapIs
<1>4. \A k \in Keys : MapAt(flag, dic')[k] = EntryAt(flag, dic'[k])
  BY DEF MapAt
<1>5. \A k \in Keys : MapAt(flag, m)[k] = EntryAt(flag, m[k])
  BY DEF MapAt
<1>6. MapAt(flag, dic') = [k \in Keys |-> MapAt(flag, dic')[k]]
  BY DEF MapAt
<1> QED
  BY <1>2, <1>3, <1>4, <1>5, <1>6 DEF Promise!May

\* And a key may be given an entry.
LEMMA FewerIsPut ==
    ASSUME ExpireInv, flag' = flag, dic' \in Dictionaries,
           NEW k \in Keys, NEW data \in Data \cup {None},
           Fewer(dic', [dic EXCEPT ![k] = data]), dic'[k] = data
    PROVE  Promise!Put(k, EntryAt(flag, data))
<1>1. dic \in Dictionaries
  BY DEF ExpireInv
<1>2. [dic EXCEPT ![k] = data] \in Dictionaries
  BY <1>1 DEF Dictionaries
<1>3. Promise!May(MapAt(flag, [dic EXCEPT ![k] = data]))
  BY <1>2, FewerIsMay
<1>4. MapAt(flag, [dic EXCEPT ![k] = data])
         = [MapAt(flag, dic) EXCEPT ![k] = EntryAt(flag, data)]
  BY <1>1 DEF MapAt, Dictionaries
<1>5. [j \in Keys |-> Entry(j)]'[k] = EntryAt(flag, data)
  BY MapIs DEF MapAt
<1> QED
  BY <1>3, <1>4, <1>5, MapIs DEF Promise!Put

\* A dictionary that stays.
LEMMA StaysIsMay ==
    ASSUME ExpireInv, flag' = flag, dic' = dic
    PROVE  Promise!May([k \in Keys |-> Entry(k)])
<1>1. dic \in Dictionaries /\ Fewer(dic', dic)
  BY DEF ExpireInv, Fewer
<1> QED
  BY <1>1, FewerIsMay, MapIs

\* A map that stays.
LEMMA MapStays ==
    ASSUME flag' = flag, dic' = dic
    PROVE  UNCHANGED [k \in Keys |-> Entry(k)]
BY DEF Entry

\* A value with a due date is an entry, and it may get another.
LEMMA ValIsEntry ==
    ASSUME NEW v \in Vals, NEW n \in Words, NEW w \in Words
    PROVE  /\ [val |-> v, due |-> n] \notin {None, Lost}
           /\ [[val |-> v, due |-> n] EXCEPT !.due = w] = [val |-> v, due |-> w]
<1>1. v \in Seq(Nat) /\ n \in Nat
  BY WordsAre, NoneIsNoData
<1>2. [val |-> v, due |-> n] \in [val : Seq(Nat), due : Nat]
  BY <1>1
<1>3. [[val |-> v, due |-> n] EXCEPT !.due = w] = [val |-> v, due |-> w]
  OBVIOUS
<1> QED
  BY <1>2, <1>3, NoneAssumption

-----------------------------------------------------------------------------
(* Every action is one of the map's.                                        *)

MapVars == <<[k \in Keys |-> Entry(k)], flag, enable, secs, now, call, answer>>

LEMMA StutterIsStutter ==
    ASSUME UNCHANGED <<flag, dic, enable, secs, now, call, answer>>
    PROVE  UNCHANGED MapVars
BY DEF MapVars, Entry

\* While nothing but a thread's call changes.
LEMMA UnlockedStep ==
    ASSUME ExpireInv, NEW t \in Threads, Begin(t) \/ SetSize(t) \/ SetWrite(t)
    PROVE  Promise!Begin(t) \/ Promise!Look(t) \/ Promise!Encode(t)
<1>1. UNCHANGED <<[k \in Keys |-> Entry(k)], flag, enable, secs, now>>
  <2>1. flag' = flag /\ dic' = dic /\ enable' = enable /\ secs' = secs /\ now' = now
    BY DEF Begin, SetSize, SetWrite, instVars
  <2> QED
    BY <2>1, MapStays
<1>2. CASE Begin(t)
  <2>1. call[t] = None /\ answer' = None /\ call \in [Threads -> Calls]
    BY <1>2 DEF Begin, ExpireInv
  <2>2. \E k \in Keys \cup {None}, v \in Vals \cup {None}, d \in Durations \cup {Never},
           op \in Promise!Asked : Call(t, op, k, v, d)
    <3>1. CASE BeginSet(t)
      <4>1. PICK i \in Inputs, d \in Durations \cup {secs} : Call(t, "set", i[1], i[2], d)
        BY <3>1 DEF BeginSet
      <4>2. i[1] \in Keys /\ i[2] \in Vals /\ d \in Durations \cup {Never}
        BY InputsAssumption DEF ExpireInv
      <4> QED
        BY <4>1, <4>2 DEF Promise!Asked
    <3>2. ASSUME NEW i \in Inputs, Call(t, "import", i[1], i[2], Never)
          PROVE  \E k \in Keys \cup {None}, v \in Vals \cup {None},
                    d \in Durations \cup {Never}, op \in Promise!Asked : Call(t, op, k, v, d)
      <4>1. i[1] \in Keys /\ i[2] \in Vals
        BY InputsAssumption
      <4> QED
        BY <3>2, <4>1 DEF Promise!Asked
    <3>3. CASE BeginOther(t)
      BY <3>2, <3>3 DEF BeginOther, Promise!Asked
    <3> QED
      BY <1>2, <3>1, <3>3 DEF Begin
  <2>3. call'[t] # None
    <3>1. PICK k \in Keys \cup {None}, v \in Vals \cup {None}, n \in Durations \cup {Never},
               op \in Promise!Asked : Call(t, op, k, v, n)
      BY <2>2
    <3>2. call'[t] = [op |-> op, key |-> k, val |-> v, time |-> n]
      BY <2>1, <3>1 DEF Call
    <3>3. op \in {"set", "remove", "import", "enable", "disable"}
      BY DEF Promise!Asked
    <3>4. n \in Nat
      BY WordsAre, InputsAssumption
    <3> QED
      BY <3>2, <3>3, <3>4, NoneAssumption
  <2> QED
    BY <1>1, <2>1, <2>2, <2>3 DEF Promise!Begin, Promise!Call, Call
<1>3. CASE SetSize(t)
  BY <1>1, <1>3 DEF SetSize, Promise!Look, Promise!In, In, Promise!Call, Call
<1>4. CASE SetWrite(t)
  BY <1>1, <1>4 DEF SetWrite, Promise!Encode, Promise!In, In, Promise!Call, Call,
                   Promise!Return, Return, Silent, Promise!Due, Due, Words
<1> QED
  BY <1>2, <1>3, <1>4


\* The entry that a call's data is.
LEMMA StoreStep ==
    ASSUME ExpireInv, NEW t \in Threads, SetStore(t)
    PROVE  Promise!Store(t)
<1> DEFINE c == call[t]
           e == IF (c.op # "plain") = flag THEN [val |-> c.val, due |-> c.time] ELSE Lost
<1>1. /\ In(t, {"dated", "plain", "torn"}) /\ In(t, SetOps \cup {"import"})
      /\ UNCHANGED <<flag, secs, now>>
  BY DEF SetStore, In, SetOps
<1>2. PICK ok \in BOOLEAN : StoreData(c.key, StoredData(c), ok) /\ Return(t, ok)
  BY DEF SetStore, StoredData
<1>3. /\ c.key \in Keys /\ c.val \in Vals /\ c.time \in Words /\ StoredData(c) \in Data
      /\ c.op = "plain" => c.time = Never
  BY <1>1, StoredDataIs, CallIs DEF In, CallOK
<1>4. /\ dic' \in Dictionaries /\ enable' = flag
      /\ ok => Fewer(dic', [dic EXCEPT ![c.key] = StoredData(c)]) /\ dic'[c.key] = StoredData(c)
      /\ ~ok => dic' = dic
  <2> DEFINE k == c.key
             data == StoredData(c)
  <2>1. k \in Keys /\ data \in Data /\ StoreData(k, data, ok)
    BY <1>2, <1>3
  <2> HIDE DEF k, data, c
  <2>2. /\ dic' \in Dictionaries /\ enable' = flag
        /\ ok => Fewer(dic', [dic EXCEPT ![k] = data]) /\ dic'[k] = data
        /\ ~ok => dic' = dic
    BY <2>1, StoreDataKeeps
  <2> QED
    BY <2>2 DEF k, data, c
<1>5. EntryAt(flag, StoredData(c)) = e
  <2>1. flag \in BOOLEAN
    BY DEF ExpireInv
  <2>2. /\ EntryAt(flag, c.val) = IF flag THEN Lost ELSE [val |-> c.val, due |-> Never]
        /\ EntryAt(flag, Append(c.val, c.time))
             = IF flag THEN [val |-> c.val, due |-> c.time] ELSE Lost
    BY <1>3, <2>1, EntryIsNone
  <2>3. CASE c.op = "plain"
    BY <1>3, <2>1, <2>2, <2>3 DEF StoredData
  <2>4. CASE c.op # "plain"
    BY <2>1, <2>2, <2>4 DEF StoredData
  <2> QED
    BY <2>3, <2>4
<1> HIDE DEF e
<1>6. CASE ok
  <2>1. Promise!Put(c.key, e)
    BY <1>1, <1>3, <1>4, <1>5, <1>6, FewerIsPut
  <2> QED
    BY <1>1, <1>2, <1>4, <1>6, <2>1
       DEF Promise!Store, Promise!In, In, Promise!Return, Return, Silent, e
<1>7. CASE ~ok
  <2>1. Promise!May([k \in Keys |-> Entry(k)])
    BY <1>1, <1>4, <1>7, StaysIsMay
  <2> QED
    BY <1>1, <1>2, <1>4, <1>7, <2>1
       DEF Promise!Store, Promise!In, In, Promise!Return, Return, Silent
<1> QED
  BY <1>6, <1>7

LEMMA ImportStep ==
    ASSUME ExpireInv, NEW t \in Threads, Import(t)
    PROVE  Promise!Import(t)
<1> DEFINE c == call[t]
           e == [val |-> c.val, due |-> IF flag THEN Promise!Due(secs) ELSE Never]
<1>1. /\ In(t, {"import"}) /\ In(t, SetOps \cup {"import"})
      /\ UNCHANGED <<flag, secs, now>>
  BY DEF Import, In
<1>2. PICK ok \in BOOLEAN : StoreData(c.key, ImportedData(c), ok) /\ Return(t, ok)
  BY DEF Import, ImportedData
<1>3. c.key \in Keys /\ c.val \in Vals /\ ImportedData(c) \in Data
  BY <1>1, StoredDataIs
<1>4. /\ dic' \in Dictionaries /\ enable' = flag
      /\ ok => /\ Fewer(dic', [dic EXCEPT ![c.key] = ImportedData(c)])
               /\ dic'[c.key] = ImportedData(c)
      /\ ~ok => dic' = dic
  <2> DEFINE k == c.key
             data == ImportedData(c)
  <2>1. k \in Keys /\ data \in Data /\ StoreData(k, data, ok)
    BY <1>2, <1>3
  <2> HIDE DEF k, data, c
  <2>2. /\ dic' \in Dictionaries /\ enable' = flag
        /\ ok => Fewer(dic', [dic EXCEPT ![k] = data]) /\ dic'[k] = data
        /\ ~ok => dic' = dic
    BY <2>1, StoreDataKeeps
  <2> QED
    BY <2>2 DEF k, data, c
<1>5. EntryAt(flag, ImportedData(c)) = e
  <2>1. flag \in BOOLEAN /\ On = flag
    BY OnIsFlag DEF ExpireInv
  <2>2. now \in 0 .. MaxTime /\ secs \in Words
    BY WordsAre, InputsAssumption DEF ExpireInv
  <2>3. Due(secs) \in Words
    BY <2>2, DueIsWord
  <2>4. /\ EntryAt(flag, c.val) = IF flag THEN Lost ELSE [val |-> c.val, due |-> Never]
        /\ EntryAt(flag, Append(c.val, Due(secs)))
             = IF flag THEN [val |-> c.val, due |-> Due(secs)] ELSE Lost
    BY <1>3, <2>1, <2>3, EntryIsNone
  <2>5. Promise!Due(secs) = Due(secs)
    BY DEF Promise!Due, Due
  <2> HIDE DEF c
  <2>6. CASE flag
    BY <2>1, <2>4, <2>5, <2>6 DEF ImportedData, Dated
  <2>7. CASE ~flag
    BY <2>1, <2>4, <2>7 DEF ImportedData
  <2> QED
    BY <2>6, <2>7
<1> HIDE DEF e
<1>6. CASE ok
  <2>1. Promise!Put(c.key, e)
    BY <1>1, <1>3, <1>4, <1>5, <1>6, FewerIsPut
  <2> QED
    BY <1>1, <1>2, <1>4, <1>6, <2>1
       DEF Promise!Import, Promise!In, In, Promise!Return, Return, Silent, e
<1>7. CASE ~ok
  <2>1. Promise!May([k \in Keys |-> Entry(k)])
    BY <1>1, <1>4, <1>7, StaysIsMay
  <2> QED
    BY <1>1, <1>2, <1>4, <1>7, <2>1
       DEF Promise!Import, Promise!In, In, Promise!Return, Return, Silent
<1> QED
  BY <1>6, <1>7

LEMMA RemoveStep ==
    ASSUME ExpireInv, NEW t \in Threads, Remove(t)
    PROVE  Promise!Remove(t)
<1> DEFINE k == call[t].key
<1>1. In(t, {"remove"}) /\ UNCHANGED <<flag, secs, now>> /\ enable' = flag
  BY OnIsFlag DEF Remove, Load
<1>2. PICK ok \in BOOLEAN : RemoveData(k, ok) /\ Return(t, ok)
  BY DEF Remove
<1>3. k \in Keys
  BY RemoveOK
<1>4. /\ dic' \in Dictionaries
      /\ ok => Fewer(dic', [dic EXCEPT ![k] = None]) /\ dic'[k] = None
      /\ ~ok => dic' = dic
  BY <1>2, <1>3, RemoveDataKeeps
<1>5. EntryAt(flag, None) = None
  BY DEF EntryAt
<1>6. CASE ok
  <2>1. Promise!Put(k, None)
    BY <1>1, <1>3, <1>4, <1>5, <1>6, FewerIsPut
  <2> QED
    BY <1>1, <1>2, <1>6, <2>1
       DEF Promise!Remove, Promise!In, In, Promise!Return, Return, Silent
<1>7. CASE ~ok
  <2>1. Promise!May([j \in Keys |-> Entry(j)])
    BY <1>1, <1>4, <1>7, StaysIsMay
  <2> QED
    BY <1>1, <1>2, <1>7, <2>1
       DEF Promise!Remove, Promise!In, In, Promise!Return, Return, Silent
<1> QED
  BY <1>6, <1>7

\* What quiet steps do to the map.
LEMMA QuietIsMay ==
    ASSUME ExpireInv, (\E k \in Keys : Get(k)) \/ CountFiltered \/ Trim
    PROVE  /\ Promise!May([k \in Keys |-> Entry(k)])
           /\ enable' = flag /\ UNCHANGED <<flag, secs, now, call>>
<1>1. StoredOK /\ UNCHANGED <<flag, secs, now, call>> /\ Fewer(dic', dic)
  BY QuietOK
<1>2. dic \in Dictionaries /\ dic' \in Dictionaries /\ enable' = flag
  BY <1>1 DEF ExpireInv, StoredOK
<1>3. Promise!May(MapAt(flag, dic))
  BY <1>1, <1>2, FewerIsMay
<1> QED
  BY <1>1, <1>2, <1>3, MapIs

\* What a read finds is what the map lets it find.
LEMMA FoundIsRead ==
    ASSUME ExpireInv, NEW k \in Keys
    PROVE  Found(k) \subseteq Promise!Reads(k)
<1> DEFINE x == EntryAt(flag, dic[k])
<1>1. [j \in Keys |-> Entry(j)][k] = x
  BY MapIs DEF MapAt
<1>2. /\ flag \in BOOLEAN /\ enable \in BOOLEAN /\ On = flag
      /\ dic \in Dictionaries /\ GoneOK(gone, dic)
  BY OnIsFlag DEF ExpireInv
<1>3. Promise!Reads(k) =
        IF x = Lost THEN Vals \cup {None}
        ELSE IF x = None THEN {None}
        ELSE IF enable # flag THEN {None, x.val}
        ELSE IF Promise!Over(x) THEN {None} ELSE {x.val}
  BY <1>1 DEF Promise!Reads
<1>4. View[k] = IF k \in gone THEN None ELSE dic[k]
  BY DEF View, Without
<1>5. None # Lost
  BY NoneAssumption
<1> HIDE DEF x, View
<1>6. CASE dic[k] = None
  <2>1. x = None /\ View[k] = None
    BY <1>4, <1>6 DEF x, EntryAt
  <2> QED
    BY <1>3, <1>5, <2>1 DEF Found
<1>7. CASE dic[k] # None /\ x = Lost
  <2>1. Found(k) \subseteq Vals \cup {None}
    BY DecodesTo DEF Found
  <2> QED
    BY <1>3, <1>7, <2>1
<1>8. CASE dic[k] # None /\ x # Lost
  <2> DEFINE d == dic[k]
  <2>1. d \in Data
    BY <1>2, <1>8 DEF Dictionaries
  <2>2. /\ x # None /\ x \in [val : Vals, due : Words]
        /\ flag => HasWord(d) /\ Body(d) \in Vals /\ x = [val |-> Body(d), due |-> Word(d)]
        /\ ~flag => d \in Vals /\ x = [val |-> d, due |-> Never]
    BY <1>2, <1>8, <2>1, EntryIs DEF x
  <2>3. Promise!Over(x) <=> x.due # Never /\ x.due <= now
    BY <1>8, <2>2 DEF Promise!Over
  <2>4. flag => /\ Decodes(d) = {x.val} /\ Decodes(Body(d)) = {x.val}
                /\ Expired(d) <=> Promise!Over(x)
    <3>1. ASSUME flag PROVE d = Append(Body(d), Word(d)) /\ Word(d) \in Words
      BY <2>1, <2>2, <3>1, CutWord
    <3>2. ASSUME flag PROVE Decodes(Body(d)) = {Body(d)}
      BY <2>2, <3>2, DecodesTo
    <3>3. ASSUME flag PROVE Decodes(d) = {Body(d)}
      <4> DEFINE b == Body(d)
                 w == Word(d)
      <4>1. b \in Vals /\ w \in Words /\ d = Append(b, w)
        BY <2>2, <3>1, <3>3
      <4> HIDE DEF b, w, d
      <4>2. Decodes(Append(b, w)) = {b}
        BY <4>1, DecodesTo
      <4> QED
        BY <4>1, <4>2 DEF b
    <3> HIDE DEF d
    <3> QED
      BY <2>2, <2>3, <3>2, <3>3 DEF Expired
  <2>5. ~flag => /\ Decodes(d) = {x.val} /\ ~Promise!Over(x)
                 /\ HasWord(d) => Decodes(Body(d)) = {None}
    BY <2>2, <2>3, DecodesTo
  <2>6. CASE k \in gone
    <3>1. flag /\ Expired(d)
      BY <1>2, <2>6 DEF GoneOK
    <3>2. Found(k) = {None}
      BY <1>4, <2>6 DEF Found
    <3> QED
      BY <1>3, <1>8, <2>2, <2>4, <3>1, <3>2
  <2>7. CASE k \notin gone
    <3>1. View[k] = d /\ d # None
      BY <1>4, <1>8, <2>7
    <3>2. Found(k) = IF ~enable \/ ~HasWord(d) THEN Decodes(d)
                     ELSE IF flag /\ Expired(d) THEN {None} ELSE Decodes(Body(d))
      BY <1>2, <3>1 DEF Found
    <3> HIDE DEF d
    <3> QED
      BY <1>2, <1>3, <1>8, <2>2, <2>4, <2>5, <3>2
  <2> QED
    BY <2>6, <2>7
<1> QED
  BY <1>6, <1>7, <1>8

LEMMA ReadStep ==
    ASSUME ExpireInv, NEW k \in Keys, Get(k)
    PROVE  Promise!Read(k)
<1>1. PICK v \in Found(k) : answer' = [key |-> k, val |-> v]
  BY DEF Get
<1>2. v \in Promise!Reads(k)
  BY FoundIsRead
<1> QED
  BY <1>1, <1>2, QuietIsMay DEF Promise!Read

\* A count finds what is not over, and no more than the file holds.
LEMMA CountStep ==
    ASSUME ExpireInv, CountFiltered
    PROVE  Promise!Count
<1> DEFINE S == Present(View)'
           mp == [k \in Keys |-> Entry(k)]
<1>1. StoredOK /\ Fewer(dic', dic) /\ flag' = flag
  BY QuietOK
<1>2. dic \in Dictionaries /\ dic' \in Dictionaries /\ GoneOK(gone', dic') /\ flag \in BOOLEAN
  BY <1>1 DEF ExpireInv, StoredOK
<1>3. S = {k \in Keys : (IF k \in gone' THEN None ELSE dic'[k]) # None}
  BY DEF Present, View, Without
<1>4. answer' = [keys |-> S] /\ S \in SUBSET Keys
  BY <1>3 DEF CountFiltered
<1>5. ASSUME NEW k \in Keys
      PROVE  mp[k] = EntryAt(flag, dic[k]) /\ mp'[k] = EntryAt(flag, dic'[k])
  BY <1>1, MapIs DEF MapAt
<1> HIDE DEF S, mp
<1>6. ASSUME NEW k \in Keys, mp[k] \notin {None, Lost}, ~Promise!Over(mp[k])
      PROVE  k \in S
  <2>1. dic[k] \in Data
    BY <1>2, <1>5, <1>6 DEF EntryAt, Dictionaries
  <2>2. ~(flag /\ Expired(dic[k]))
    <3>1. ASSUME flag, Expired(dic[k])
          PROVE  FALSE
      <4>1. flag = TRUE
        BY <1>2, <3>1
      <4>2. EntryAt(TRUE, dic[k]) = Lost \/ Promise!Over(EntryAt(TRUE, dic[k]))
        BY <2>1, <3>1, ExpiredIsOver
      <4> QED
        BY <1>5, <1>6, <4>1, <4>2
    <3> QED
      BY <3>1
  <2>3. dic'[k] = dic[k]
    BY <1>1, <2>2 DEF Fewer
  <2>4. k \notin gone'
    BY <1>2, <2>2, <2>3 DEF GoneOK
  <2> QED
    BY <1>3, <2>1, <2>3, <2>4, NoneIsNoData
<1>7. ASSUME NEW k \in S
      PROVE  k \in Keys /\ mp'[k] # None
  <2>1. k \in Keys /\ dic'[k] # None
    BY <1>3
  <2>2. dic'[k] \in Data
    BY <1>2, <2>1 DEF Dictionaries
  <2> QED
    BY <1>2, <1>5, <2>1, <2>2, EntryIs
<1> QED
  BY <1>4, <1>6, <1>7, QuietIsMay DEF Promise!Count, mp

LEMMA SweepStep ==
    ASSUME ExpireInv, Trim \/ ClearMemoryCache
    PROVE  Promise!Sweep
<1>1. CASE Trim
  <2>1. answer' = None
    BY <1>1 DEF Trim
  <2> QED
    BY <1>1, <2>1, QuietIsMay DEF Promise!Sweep
<1>2. CASE ClearMemoryCache
  <2>1. UNCHANGED <<flag, dic, enable, secs, now, call>> /\ answer' = None
    BY <1>2 DEF ClearMemoryCache
  <2> QED
    BY <2>1, StaysIsMay DEF Promise!Sweep
<1> QED
  BY <1>1, <1>2

\* What of a file with no due dates gets one: every value, and nothing is found
\* that was lost.
LEMMA AllDatedEntry ==
    ASSUME ExpireInv, flag = FALSE, NEW d \in Words, NEW k \in Keys
    PROVE  LET m == EntryAt(FALSE, dic[k])
           IN  EntryAt(TRUE, AllDated(d)[k]) =
                  IF m \in {None, Lost} THEN m ELSE [m EXCEPT !.due = Due(d)]
<1> DEFINE m == EntryAt(FALSE, dic[k])
<1>1. dic \in Dictionaries /\ GoneOK(gone, dic) /\ now \in 0 .. MaxTime
  BY DEF ExpireInv
<1>2. Due(d) \in Words
  BY <1>1, DueIsWord
<1>3. View[k] = dic[k]
  BY <1>1 DEF GoneOK, View, Without
<1>4. AllDated(d)[k] = IF dic[k] = None THEN None ELSE Append(dic[k], Due(d))
  BY <1>3 DEF AllDated, Dated
<1>5. CASE dic[k] = None
  BY <1>4, <1>5 DEF EntryAt
<1>6. CASE dic[k] \in Vals
  <2>1. /\ EntryAt(TRUE, Append(dic[k], Due(d))) = [val |-> dic[k], due |-> Due(d)]
        /\ m = [val |-> dic[k], due |-> Never]
    BY <1>2, <1>6, EntryIsNone
  <2> DEFINE v == dic[k]
             e == [val |-> v, due |-> Never]
             n == [val |-> v, due |-> Due(d)]
  <2>2. e \notin {None, Lost} /\ [e EXCEPT !.due = Due(d)] = n
    BY <1>2, <1>6, ValIsEntry, WordsAre
  <2>3. v # None
    BY <1>6, NoneIsNoData
  <2>4. EntryAt(TRUE, AllDated(d)[k]) = n /\ m = e
    BY <1>4, <2>1, <2>3
  <2> HIDE DEF m, e, n
  <2> QED
    BY <2>2, <2>4 DEF m
<1>7. CASE dic[k] # None /\ dic[k] \notin Vals
  <2>1. dic[k] \in Data
    BY <1>1, <1>7 DEF Dictionaries
  <2> DEFINE a == Append(dic[k], Due(d))
  <2>2. a \in Data /\ Body(a) = dic[k]
    BY <1>2, <2>1, AppendedWord
  <2>3. a \notin DatedVals /\ a # None
    BY <1>7, <2>2, DatedVal, NoneIsNoData
  <2> HIDE DEF a
  <2>4. EntryAt(TRUE, a) = Lost
    BY <2>3 DEF EntryAt
  <2>5. m = Lost
    BY <1>7 DEF EntryAt
  <2> QED
    BY <1>4, <1>7, <2>4, <2>5 DEF a
<1> QED
  BY <1>1, <1>5, <1>6, <1>7 DEF Dictionaries

\* And what of a file with due dates loses its own.
LEMMA NoneDatedEntry ==
    ASSUME ExpireInv, flag = TRUE, NEW k \in Keys
    PROVE  LET m == EntryAt(TRUE, dic[k])
               n == EntryAt(FALSE, NoneDated[k])
           IN  \/ n = IF m \in {None, Lost} THEN m ELSE [m EXCEPT !.due = Never]
               \/ n = None /\ (m = Lost \/ Promise!Over(m))
<1> DEFINE m == EntryAt(TRUE, dic[k])
           n == EntryAt(FALSE, NoneDated[k])
<1>1. dic \in Dictionaries /\ GoneOK(gone, dic)
  BY DEF ExpireInv
<1>2. View[k] = IF k \in gone THEN None ELSE dic[k]
  BY DEF View, Without
<1>3. NoneDated[k] = IF View[k] = None \/ ~HasWord(View[k]) THEN None ELSE Body(View[k])
  BY DEF NoneDated
<1> HIDE DEF View, NoneDated
<1>4. CASE dic[k] = None
  <2>1. m = None /\ n = None
    BY <1>2, <1>3, <1>4 DEF EntryAt
  <2> QED
    BY <2>1
<1>5. CASE dic[k] # None /\ k \in gone
  <2>1. dic[k] \in Data /\ Expired(dic[k])
    BY <1>1, <1>5 DEF Dictionaries, GoneOK
  <2>2. n = None
    BY <1>2, <1>3, <1>5 DEF EntryAt
  <2> QED
    BY <2>1, <2>2, ExpiredIsOver
<1>6. CASE dic[k] # None /\ k \notin gone
  <2>1. dic[k] \in Data /\ View[k] = dic[k]
    BY <1>1, <1>2, <1>6 DEF Dictionaries
  <2>2. CASE ~HasWord(dic[k])
    <3>1. n = None
      BY <1>3, <2>1, <2>2 DEF EntryAt
    <3>2. m = Lost
      BY <1>6, <2>1, <2>2, DatedVal DEF EntryAt
    <3> QED
      BY <3>1, <3>2
  <2>3. CASE HasWord(dic[k])
    <3> DEFINE b == Body(dic[k])
    <3>1. b \in Data /\ b # None /\ NoneDated[k] = b
      BY <1>3, <1>6, <2>1, <2>3, CutWord, NoneIsNoData
    <3>2. dic[k] \in DatedVals <=> b \in Vals
      BY <2>1, <2>3, DatedVal
    <3>3. CASE b \in Vals
      <4>1. m = [val |-> b, due |-> Word(dic[k])]
        BY <1>6, <3>2, <3>3 DEF EntryAt
      <4> DEFINE e == [val |-> b, due |-> Word(dic[k])]
                 f == [val |-> b, due |-> Never]
      <4>2. e \notin {None, Lost} /\ [e EXCEPT !.due = Never] = f
        <5>1. Word(dic[k]) \in Words
          BY <2>1, <2>3, CutWord
        <5> HIDE DEF b
        <5> QED
          BY <3>3, <5>1, ValIsEntry, WordsAre
      <4>3. n = [val |-> b, due |-> Never]
        <5> HIDE DEF b
        <5> QED
          BY <3>1, <3>3 DEF EntryAt
      <4>4. m = e /\ n = f
        BY <4>1, <4>3
      <4> HIDE DEF m, n, e, f
      <4> QED
        BY <4>2, <4>4 DEF m, n
    <3>4. CASE b \notin Vals
      <4>1. m = Lost
        BY <1>6, <3>2, <3>4 DEF EntryAt
      <4>2. n = Lost
        <5> HIDE DEF b
        <5> QED
          BY <3>1, <3>4 DEF EntryAt
      <4> QED
        BY <4>1, <4>2
    <3> QED
      BY <3>3, <3>4
  <2> QED
    BY <2>2, <2>3
<1> QED
  BY <1>4, <1>5, <1>6

LEMMA SwitchOnStep ==
    ASSUME ExpireInv, NEW t \in Threads, Enable(t) \/ Configure(t), In(t, {"enable", "on"})
    PROVE  Promise!SwitchOn(t)
<1> DEFINE d == call[t].time
<1>1. d \in Words /\ flag \in BOOLEAN
  BY CallIs, InputsAssumption DEF In, CallOK, ExpireInv
<1>2. now' = now
  BY DEF Enable, Configure
<1>3. CASE flag /\ enable' = TRUE /\ secs' = d /\ flag' = flag /\ dic' = dic /\ Return(t, TRUE)
  BY <1>2, <1>3, MapStays
     DEF Promise!SwitchOn, Promise!In, In, Promise!Return, Return, Silent
<1>4. ASSUME NEW ok \in BOOLEAN, EnableWith(d, ok), Return(t, ok)
      PROVE  Promise!SwitchOn(t)
  <2>1. /\ dic' \in Dictionaries /\ flag' \in BOOLEAN /\ enable' = TRUE
        /\ flag' = ok \/ (flag /\ flag')
        /\ ok /\ ~flag => dic' = AllDated(d)
        /\ flag \/ ~ok => dic' = dic
        /\ flag => ok
    BY <1>1, <1>4, EnableWithKeeps
  <2>2. secs' = d
    BY <1>4 DEF EnableWith
  <2>3. CASE flag
    <3>1. ok = TRUE /\ flag' = flag /\ dic' = dic
      BY <1>1, <2>1, <2>3
    <3> QED
      BY <1>3, <1>4, <2>1, <2>2, <2>3, <3>1
  <2>4. CASE ~flag /\ ~ok
    <3>1. ok = FALSE /\ flag' = flag /\ dic' = dic
      BY <1>1, <2>1, <2>4
    <3> QED
      BY <1>2, <1>4, <2>1, <2>2, <2>4, <3>1, MapStays
         DEF Promise!SwitchOn, Promise!In, In, Promise!Return, Return, Silent
  <2>5. CASE ~flag /\ ok
    <3>1. flag = FALSE /\ ok = TRUE /\ flag' = TRUE /\ dic' = AllDated(d)
      BY <1>1, <2>1, <2>5
    <3>2. Promise!Date(Promise!Due(d))
      <4> DEFINE mp == [k \in Keys |-> Entry(k)]
      <4>1. mp = MapAt(FALSE, dic) /\ mp' = MapAt(TRUE, AllDated(d))
        BY <3>1, MapIs
      <4>2. Promise!Due(d) = Due(d)
        BY DEF Promise!Due, Due
      <4>3. ASSUME NEW k \in Keys
            PROVE  mp'[k] = IF mp[k] \in {None, Lost} THEN mp[k]
                            ELSE [mp[k] EXCEPT !.due = Due(d)]
        <5>1. mp[k] = EntryAt(FALSE, dic[k]) /\ mp'[k] = EntryAt(TRUE, AllDated(d)[k])
          BY <4>1 DEF MapAt
        <5> HIDE DEF mp, d
        <5> QED
          BY <1>1, <3>1, <5>1, AllDatedEntry
      <4>4. mp' = [k \in Keys |-> mp'[k]]
        BY <4>1 DEF MapAt
      <4> QED
        BY <4>2, <4>3, <4>4 DEF Promise!Date
    <3> QED
      BY <1>2, <1>4, <2>1, <2>2, <3>1, <3>2
         DEF Promise!SwitchOn, Promise!In, In, Promise!Return, Return, Silent
  <2> QED
    BY <2>3, <2>4, <2>5
<1> QED
  BY <1>3, <1>4 DEF Enable, Configure, DisableAll, In

LEMMA SwitchOffStep ==
    ASSUME ExpireInv, NEW t \in Threads, Disable(t) \/ Configure(t), In(t, {"disable", "off"})
    PROVE  Promise!SwitchOff(t)
<1>1. now' = now /\ Return(t, TRUE) /\ flag \in BOOLEAN
  BY DEF Disable, Configure, In, ExpireInv
<1>2. CASE ~flag /\ flag' = FALSE /\ enable' = FALSE /\ secs' \in {Never, secs} /\ dic' = dic
  <2>1. flag' = flag
    BY <1>1, <1>2
  <2>2. UNCHANGED [k \in Keys |-> Entry(k)]
    BY <1>2, <2>1, MapStays
  <2> QED
    BY <1>1, <1>2, <2>2
       DEF Promise!SwitchOff, Promise!In, In, Promise!Return, Return, Silent
<1>3. CASE DisableAll
  <2>1. /\ flag' = FALSE /\ enable' = FALSE /\ secs' = Never
        /\ flag => dic' = NoneDated
        /\ ~flag => dic' = dic
    BY <1>3, DisableAllKeeps DEF DisableAll
  <2>2. CASE ~flag
    BY <1>2, <2>1, <2>2
  <2>3. CASE flag
    <3>1. flag = TRUE /\ dic' = NoneDated
      BY <1>1, <2>1, <2>3
    <3>2. Promise!Date(Never)
      <4> DEFINE mp == [k \in Keys |-> Entry(k)]
      <4>1. mp = MapAt(TRUE, dic) /\ mp' = MapAt(FALSE, NoneDated)
        BY <2>1, <3>1, MapIs
      <4>2. ASSUME NEW k \in Keys
            PROVE  \/ mp'[k] = IF mp[k] \in {None, Lost} THEN mp[k]
                               ELSE [mp[k] EXCEPT !.due = Never]
                   \/ mp'[k] = None /\ (mp[k] = Lost \/ Promise!Over(mp[k]))
        <5>1. mp[k] = EntryAt(TRUE, dic[k]) /\ mp'[k] = EntryAt(FALSE, NoneDated[k])
          BY <4>1 DEF MapAt
        <5> HIDE DEF mp
        <5> QED
          BY <3>1, <5>1, NoneDatedEntry
      <4>3. mp' = [k \in Keys |-> mp'[k]]
        BY <4>1 DEF MapAt
      <4> QED
        BY <4>2, <4>3 DEF Promise!Date
    <3> QED
      BY <1>1, <2>1, <2>3, <3>2
         DEF Promise!SwitchOff, Promise!In, In, Promise!Return, Return, Silent
  <2> QED
    BY <2>2, <2>3
<1> QED
  BY <1>1, <1>2, <1>3 DEF Disable, Configure, In

LEMMA ReopenStep ==
    ASSUME NEW t \in Others, NEW config \in Opens, NEW d \in Durations, Reopen(t, config, d)
    PROVE  Promise!Reopen
<1>1. enable' = FALSE /\ secs' = Never /\ answer' = None /\ UNCHANGED <<flag, dic, now>>
  BY DEF Reopen
<1>2. UNCHANGED [k \in Keys |-> Entry(k)]
  BY <1>1, MapStays
<1>3. CASE config = "unset"
  <2>1. call' = [u \in Threads |-> None]
    BY <1>3 DEF Reopen
  <2> QED
    BY <1>1, <1>2, <2>1 DEF Promise!Reopen
<1>4. CASE config # "unset"
  <2>1. t \in Threads /\ config \in {"on", "off"}
    BY <1>4, InputsAssumption
  <2>2. call' = [u \in Threads |->
                   IF u = t THEN [op |-> config, key |-> None, val |-> None, time |-> d]
                   ELSE None]
    BY <1>4 DEF Reopen
  <2> QED
    BY <1>1, <1>2, <2>1, <2>2 DEF Promise!Reopen
<1> QED
  BY <1>3, <1>4

LEMMA TickStep == ASSUME Tick PROVE Promise!Tick
BY MapStays DEF Tick, instVars, Promise!Tick

LEMMA NextRefines ==
    ASSUME ExpireInv, [Next]_vars
    PROVE  [Promise!Next]_MapVars
<1>1. ASSUME NEW t \in Threads, ThreadNext(t)
      PROVE  Promise!Next
  <2>1. CASE Begin(t) \/ SetSize(t) \/ SetWrite(t)
    BY <2>1, UnlockedStep DEF Promise!Next
  <2>2. CASE SetStore(t) \/ Import(t) \/ Remove(t)
    BY <2>2, StoreStep, ImportStep, RemoveStep DEF Promise!Next
  <2>3. CASE Enable(t)
    <3>1. In(t, {"enable", "on"})
      BY <2>3 DEF Enable, In
    <3> QED
      BY <2>3, <3>1, SwitchOnStep DEF Promise!Next
  <2>4. CASE Disable(t)
    <3>1. In(t, {"disable", "off"})
      BY <2>4 DEF Disable, In
    <3> QED
      BY <2>4, <3>1, SwitchOffStep DEF Promise!Next
  <2> QED
    BY <1>1, <2>1, <2>2, <2>3, <2>4 DEF ThreadNext
<1>2. ASSUME NEW t \in Threads, Configure(t)
      PROVE  Promise!Next
  <2>1. In(t, {"enable", "on"}) \/ In(t, {"disable", "off"})
    BY <1>2 DEF Configure, In
  <2> QED
    BY <1>2, <2>1, SwitchOnStep, SwitchOffStep DEF Promise!Next
<1>3. ASSUME NEW k \in Keys, Get(k)
      PROVE  Promise!Next
  BY <1>3, ReadStep DEF Promise!Next
<1>4. CASE CountFiltered \/ Trim \/ ClearMemoryCache
  BY <1>4, CountStep, SweepStep DEF Promise!Next
<1>5. ASSUME NEW t \in Others, NEW config \in Opens, NEW d \in Durations, Reopen(t, config, d)
      PROVE  Promise!Next
  BY <1>5, ReopenStep DEF Promise!Next
<1>6. CASE Tick
  BY <1>6, TickStep DEF Promise!Next
<1>7. CASE UNCHANGED vars
  <2>1. UNCHANGED <<flag, dic, enable, secs, now, call, answer>>
    BY <1>7 DEF vars, instVars
  <2> QED
    BY <2>1, StutterIsStutter
<1> QED
  BY <1>1, <1>2, <1>3, <1>4, <1>5, <1>6, <1>7 DEF Next

(***************************************************************************)
(* The instance keeps TimedMap's promise: for any keys, values, threads,   *)
(* durations and opens, with threads between their looks at the switch and *)
(* their store while another switches it, with write-backs that fail, and  *)
(* for a clock of any width.                                               *)
(***************************************************************************)
THEOREM ExpireImplementsTimedMap == Spec => ImplementsTimedMap
<1>1. Init => Promise!Init
  <2> SUFFICES ASSUME Init PROVE Promise!Init
    OBVIOUS
  <2>1. [k \in Keys |-> Entry(k)] = [k \in Keys |-> None]
    BY DEF Init, Entry
  <2> QED
    BY <2>1 DEF Init, Promise!Init
<1>2. ExpireInv /\ [Next]_vars => [Promise!Next]_MapVars
  BY NextRefines
<1>3. ExpireInv /\ [Next]_vars => [Promise!Next]_(Promise!vars)
  BY <1>2 DEF MapVars, Promise!vars
<1> QED
  BY <1>1, <1>3, SpecExpireInv, PTL DEF Spec, Promise!Spec, ImplementsTimedMap
=============================================================================
