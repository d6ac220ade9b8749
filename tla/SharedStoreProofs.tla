-------------------------- MODULE SharedStoreProofs --------------------------
(***************************************************************************)
(* Theorems about SharedStore, for any number of processes, keys and       *)
(* values, any file size and any bounds.  SharedInv is the inductive       *)
(* invariant.  What a process has in memory is a region of some file that  *)
(* once was, whose digest is its content; the file holds the region last   *)
(* confirmed, and the one the meta describes unless an append was cut      *)
(* short; and the owner's region is the file's, step by step.              *)
(***************************************************************************)
EXTENDS SharedStore, RegionProofs, SequenceTheorems

Ops == [name : {"none", "set", "remove", "removeMany", "clear", "trim"},
        key : Keys \cup {NoKey}, val : Vals \cup {Nil}]

\* TypeOK in parts, with what TLC need not be told: a file has more than three
\* cells, and nobody has the lock of a torn one.
FileTyped ==
    /\ mem \in [Cap -> Cell] /\ fileSize \in Cap /\ fileSize > 3
    /\ metaSize \in 0 .. MaxCap /\ lastSize \in 0 .. MaxCap

ProcTyped ==
    /\ loaded \in [Procs -> BOOLEAN] /\ current \in [Procs -> BOOLEAN]
    /\ hasFW \in [Procs -> BOOLEAN]
    /\ mapped \in [Procs -> 0 .. MaxCap]
    /\ off \in [Procs -> [Keys -> 0 .. MaxCap]]
    /\ actual \in [Procs -> 0 .. MaxCap] /\ out \in [Procs -> 0 .. MaxCap]
    /\ crc = [p \in Procs |-> crc[p]]

OpTyped ==
    /\ owner \in Procs \cup {NoProc}
    /\ pc \in {"idle", "ensure", "rewrite", "put", "metaCrc", "metaSize", "shrink"}
    /\ owner = NoProc => pc = "idle"
    /\ pc = "idle" => owner = NoProc
    /\ ensures \in 0 .. 2 /\ op \in Ops

HistTyped ==
    /\ before \in Maps /\ target \in Maps /\ snap \in Maps /\ torn \in BOOLEAN
    /\ torn => owner = NoProc
    /\ upgrading \in SUBSET Procs
    /\ ops \in 0 .. MaxOps /\ kills \in 0 .. MaxKills /\ waits \in 0 .. MaxWaits

Typed == FileTyped /\ ProcTyped /\ OpTyped /\ HistTyped

\* What process p has in memory is a region as it was loaded: the digest, the
\* dictionary decoded from it and the write position belong together, whatever
\* has become of the file since.
Region(p) == crc[p] \in [1 .. actual[p] -> Cell]

Decoded(p) == out[p] = actual[p] /\ off[p] = Decode(crc[p], actual[p])

Own(p) == Region(p) /\ Decoded(p) /\ (loaded[p] => actual[p] < mapped[p])

\* A process that has the current sequence has mapped the region last confirmed.
Sees(p) == current[p] => loaded[p] /\ lastSize < mapped[p]

Others == \A p \in Procs : p # owner => Own(p) /\ Sees(p)

\* The region last confirmed is in the file, and snap is its map.
LastHeld == Valid(mem, fileSize, lastSize, lastCrc) /\ snap = Content(mem, lastSize)

\* The meta describes the file, and an append spoils nothing last confirmed.
MetaWhole ==
    /\ Valid(mem, fileSize, metaSize, metaCrc)
    /\ metaSize # 0 => lastSize <= metaSize

\* The digest of an append is stored and its size is not.
MetaHalf == metaCrc \in [1 .. metaSize + 1 -> Cell]

\* p's region is the file's.
InFile(p) == crc[p] = Crc(mem, actual[p]) /\ Fits(actual[p], fileSize)

\* p's region is the one the meta describes.
Agrees(p) == metaSize = actual[p] /\ metaCrc = crc[p]

Quiet(p) == LastHeld /\ MetaWhole /\ Agrees(p) /\ Own(p) /\ Sees(p)

\* A set or a removal is under way.
Appending ==
    /\ op.key \in Keys
    /\ \/ op.name = "set" /\ op.val \in Vals
       \/ op.name = "remove" /\ op.val = Nil
    /\ target = [before EXCEPT ![op.key] = op.val]

Pending(p) == Appending /\ ensures \in 1 .. 2 /\ before = Content(mem, metaSize)

\* The map a rewrite in place leaves behind.
Wanted(m) == op.name \in {"trim", "clear", "removeMany"} /\ m = target

\* The owner has appended its record, and stores the meta of it.
JustAppended(p) ==
    /\ after = "appended" /\ ~inc /\ Appending
    /\ LastHeld /\ Region(p) /\ InFile(p)
    /\ out[p] = actual[p] /\ actual[p] < mapped[p] /\ Sees(p)
    /\ actual[p] = metaSize + 1 /\ lastSize <= metaSize
    /\ before = Content(mem, metaSize)
    /\ Decode(mem, actual[p]) = [off[p] EXCEPT ![op.key] = IF op.name = "set" THEN actual[p] ELSE 0]
    /\ Content(mem, actual[p]) = [before EXCEPT ![op.key] = op.val]

\* The owner has rewritten the file in place, and stores the meta of it.
Rewritten(p) ==
    /\ after # "appended" /\ inc /\ Region(p) /\ InFile(p) /\ actual[p] < mapped[p]
    /\ \/ /\ after = "ensured" /\ Appending /\ ensures \in 1 .. 2 /\ Decoded(p)
          /\ Content(mem, actual[p]) = before
          /\ actual[p] >= 1 /\ actual[p] + 2 < mapped[p]
       \/ after = "done" /\ Decoded(p) /\ Wanted(Content(mem, actual[p]))
       \/ after = "cleared" /\ actual[p] = 0 /\ Wanted(EmptyMap)

InEnsure(p) == Quiet(p) /\ Pending(p)

InRewrite(p) == Quiet(p) /\ Pending(p) /\ LenNeeded(off[p]) < mapped[p]

InPut(p) ==
    /\ Quiet(p) /\ Appending /\ before = Content(mem, metaSize)
    /\ actual[p] >= 1 /\ actual[p] + 2 < mapped[p]

InShrink(p) == Quiet(p) /\ lastSize <= metaSize

InMetaCrc(p) == (JustAppended(p) /\ MetaWhole) \/ Rewritten(p)

InMetaSize(p) == metaCrc = crc[p] /\ (JustAppended(p) \/ Rewritten(p))

\* What the owner's program counter says of the two files and its memory.
Owned(p) ==
    /\ loaded[p] /\ current[p] /\ p \notin upgrading
    /\ \/ pc = "ensure" /\ InEnsure(p)
       \/ pc = "rewrite" /\ InRewrite(p)
       \/ pc = "put" /\ InPut(p)
       \/ pc = "shrink" /\ InShrink(p)
       \/ pc = "metaCrc" /\ InMetaCrc(p)
       \/ pc = "metaSize" /\ InMetaSize(p)

InPhase ==
    \/ owner = NoProc /\ LastHeld /\ (MetaWhole \/ MetaHalf)
    \/ \E p \in Procs : owner = p /\ Owned(p)

SharedInv == Typed /\ (torn \/ (Others /\ InPhase))

-----------------------------------------------------------------------------
\* What the types say of the lengths of files and regions.
LEMMA Lengths ==
    ASSUME Typed
    PROVE  /\ MaxCap \in Nat /\ MaxCap > 3 /\ mem \in [Cap -> Cell]
           /\ fileSize \in Nat /\ fileSize > 3 /\ fileSize <= MaxCap
           /\ metaSize \in 0 .. MaxCap /\ lastSize \in 0 .. MaxCap
           /\ \A p \in Procs :
                 /\ actual[p] \in 0 .. MaxCap /\ mapped[p] \in 0 .. MaxCap
                 /\ off[p] \in [Keys -> 0 .. MaxCap]
BY CellsAssumption DEF Typed, FileTyped, ProcTyped, Cap

\* Two regions with the same cells have the same digest, dictionary and map.
LEMMA SameCells ==
    ASSUME NEW m, NEW w, NEW n \in Nat, \A i \in 1 .. n : w[i] = m[i]
    PROVE  /\ Crc(w, n) = Crc(m, n)
           /\ Decode(w, n) = Decode(m, n)
           /\ Content(w, n) = Content(m, n)
<1>1. Crc(w, n) = Crc(m, n)
  BY DEF Crc
<1>2. \A i \in 2 .. n : w[i] = m[i]
  OBVIOUS
<1> QED BY <1>1, <1>2, SameRecords

\* A load finds the region a whole meta describes.
LEMMA WholeIsRead ==
    ASSUME MetaWhole
    PROVE  LoadCase = "valid" /\ Recovered = Content(mem, metaSize)
BY DEF MetaWhole, LoadCase, Recovered, LoadSize

\* The digest of a half-stored append fits no shorter region, so a load finds
\* the region last confirmed.
LEMMA HalfIsLast ==
    ASSUME Typed, LastHeld, MetaHalf
    PROVE  ~ MetaWhole /\ LoadCase = "last" /\ Recovered = snap
<1>1. metaSize \in Nat
  BY Lengths
<1>2. DOMAIN metaCrc = 1 .. metaSize + 1
  BY DEF MetaHalf
<1>3. \A n \in Nat : DOMAIN Crc(mem, n) = 1 .. n
  BY DEF Crc
<1>4. \A n \in Nat : n <= metaSize => Crc(mem, n) # metaCrc
  <2> SUFFICES ASSUME NEW n \in Nat, n <= metaSize, Crc(mem, n) = metaCrc PROVE FALSE
    OBVIOUS
  <2>1. 1 .. n = 1 .. metaSize + 1
    BY <1>2, <1>3
  <2>2. metaSize + 1 \in 1 .. metaSize + 1 /\ metaSize + 1 \notin 1 .. n
    BY <1>1
  <2> QED BY <2>1, <2>2
<1>5. Crc(mem, metaSize) # metaCrc /\ Crc(mem, 0) # metaCrc
  BY <1>1, <1>4
<1>6. LoadCase = "last"
  BY <1>5 DEF LoadCase, Valid, LastHeld
<1> QED BY <1>5, <1>6 DEF MetaWhole, Valid, Recovered, LoadSize, LastHeld

\* A region a process has and the meta describes is not that of a half-stored
\* append.
LEMMA AgreesIsWhole ==
    ASSUME Typed, NEW p \in Procs, Region(p), Agrees(p), LastHeld, MetaWhole \/ MetaHalf
    PROVE  MetaWhole
<1>1. metaSize \in Nat
  BY Lengths
<1>2. ASSUME MetaHalf PROVE FALSE
  <2>1. 1 .. metaSize = 1 .. metaSize + 1
    BY <1>2 DEF Region, Agrees, MetaHalf
  <2>2. metaSize + 1 \in 1 .. metaSize + 1 /\ metaSize + 1 \notin 1 .. metaSize
    BY <1>1
  <2> QED BY <2>1, <2>2
<1> QED BY <1>2

\* A quiet process has the region that is in the file.
LEMMA QuietFacts ==
    ASSUME Typed, NEW p \in Procs, Quiet(p)
    PROVE  /\ metaSize = actual[p] /\ metaCrc = crc[p] /\ crc[p] = Crc(mem, actual[p])
           /\ actual[p] \in 0 .. MaxCap /\ actual[p] + 1 <= fileSize
           /\ Region(p) /\ InFile(p)
           /\ out[p] = actual[p] /\ off[p] = Decode(mem, actual[p])
           /\ View(mem, off[p]) = Content(mem, actual[p])
           /\ Leads(off[p], mem, actual[p])
           /\ metaSize # 0 => lastSize <= metaSize
           /\ lastSize + 1 <= fileSize /\ lastCrc = Crc(mem, lastSize)
           /\ snap = Content(mem, lastSize)
<1>1. /\ metaSize = actual[p] /\ metaCrc = crc[p]
      /\ Crc(mem, metaSize) = metaCrc /\ Fits(metaSize, fileSize)
      /\ metaSize # 0 => lastSize <= metaSize
      /\ lastSize + 1 <= fileSize /\ lastCrc = Crc(mem, lastSize)
      /\ snap = Content(mem, lastSize)
  BY DEF Quiet, Agrees, MetaWhole, LastHeld, Valid, Fits, Fixed32Size
<1>2. Region(p) /\ out[p] = actual[p] /\ off[p] = Decode(crc[p], actual[p])
  BY DEF Quiet, Own, Decoded
<1>3. actual[p] \in 0 .. MaxCap /\ mem \in [Cap -> Cell]
  BY Lengths
<1>4. InFile(p) /\ actual[p] + 1 <= fileSize
  BY <1>1 DEF InFile, Fits, Fixed32Size
<1>5. off[p] = Decode(mem, actual[p])
  BY <1>1, <1>2, <1>3, CrcIsRegion
<1>6. View(mem, off[p]) = Content(mem, actual[p])
  BY <1>5 DEF Content
<1>7. Leads(off[p], mem, actual[p])
  BY <1>3, <1>5, DecodeFacts, CellsAssumption DEF Leads
<1> QED BY <1>1, <1>2, <1>3, <1>4, <1>5, <1>6, <1>7

-----------------------------------------------------------------------------
\* Process q is left alone.
Same(q) ==
    /\ off'[q] = off[q] /\ actual'[q] = actual[q] /\ crc'[q] = crc[q] /\ out'[q] = out[q]
    /\ loaded'[q] = loaded[q] /\ mapped'[q] = mapped[q]

\* What holds of a process goes on holding while it is left alone, unless
\* another region is confirmed and it still has the current sequence.
LEMMA LeftAlone ==
    ASSUME NEW q \in Procs, Same(q)
    PROVE  /\ Own(q) => Own(q)'
           /\ Sees(q) /\ (current'[q] => current[q] /\ lastSize' = lastSize) => Sees(q)'
<1>1. Own(q) => Own(q)'
  BY DEF Same, Own, Region, Decoded
<1>2. ASSUME Sees(q), current'[q] => current[q] /\ lastSize' = lastSize PROVE Sees(q)'
  BY <1>2 DEF Same, Sees
<1> QED BY <1>1, <1>2

\* The region last confirmed, and its map, while the file keeps its cells.
LEMMA LastKept ==
    ASSUME Typed, LastHeld, UNCHANGED <<lastCrc, lastSize, snap>>, lastSize + 1 <= fileSize',
           fileSize' \in Nat, \A i \in 1 .. lastSize : mem'[i] = mem[i]
    PROVE  LastHeld'
<1>1. lastSize \in Nat /\ lastCrc = Crc(mem, lastSize) /\ snap = Content(mem, lastSize)
  BY Lengths DEF LastHeld, Valid
<1>2. Crc(mem', lastSize) = Crc(mem, lastSize) /\ Content(mem', lastSize) = Content(mem, lastSize)
  BY <1>1, SameCells
<1>3. Fits(lastSize, fileSize')
  BY <1>1 DEF Fits, Fixed32Size
<1> QED BY <1>1, <1>2, <1>3 DEF LastHeld, Valid

\* The same of a meta that describes the file.
LEMMA WholeKept ==
    ASSUME Typed, MetaWhole, UNCHANGED <<metaCrc, metaSize, lastSize>>, metaSize + 1 <= fileSize',
           fileSize' \in Nat, \A i \in 1 .. metaSize : mem'[i] = mem[i]
    PROVE  MetaWhole' /\ Content(mem', metaSize') = Content(mem, metaSize)
<1>1. metaSize \in Nat /\ metaCrc = Crc(mem, metaSize)
  BY Lengths DEF MetaWhole, Valid
<1>2. Crc(mem', metaSize) = Crc(mem, metaSize) /\ Content(mem', metaSize) = Content(mem, metaSize)
  BY <1>1, SameCells
<1>3. Fits(metaSize, fileSize')
  BY <1>1 DEF Fits, Fixed32Size
<1> QED BY <1>1, <1>2, <1>3 DEF MetaWhole, Valid

\* A process stays quiet while the files keep its cells and it is left alone.
LEMMA QuietKept ==
    ASSUME Typed, NEW p \in Procs, Quiet(p), UNCHANGED <<metaVars, snap>>,
           fileSize' \in Nat, lastSize + 1 <= fileSize', metaSize + 1 <= fileSize',
           \A i \in 1 .. lastSize : mem'[i] = mem[i],
           \A i \in 1 .. metaSize : mem'[i] = mem[i],
           crc'[p] = crc[p], actual'[p] = actual[p], off'[p] = off[p], out'[p] = actual[p],
           loaded'[p] = loaded[p], current'[p] = current[p],
           loaded[p] => actual[p] < mapped'[p] /\ lastSize < mapped'[p]
    PROVE  Quiet(p)' /\ Content(mem', metaSize') = Content(mem, metaSize)
<1>1. LastHeld'
  BY LastKept DEF Quiet, metaVars
<1>2. MetaWhole' /\ Content(mem', metaSize') = Content(mem, metaSize)
  BY WholeKept DEF Quiet, metaVars
<1>3. Own(p)' /\ Sees(p)' /\ Agrees(p)'
  BY DEF Quiet, Own, Region, Decoded, Sees, Agrees, metaVars
<1> QED BY <1>1, <1>2, <1>3 DEF Quiet

\* What the invariant says when no operation is under way.
LEMMA WhenIdle ==
    ASSUME SharedInv, Free
    PROVE  /\ Typed /\ owner = NoProc /\ pc = "idle" /\ ~torn
           /\ \A p \in Procs : Own(p) /\ Sees(p)
           /\ LastHeld /\ (MetaWhole \/ MetaHalf)
<1>1. /\ Typed /\ owner = NoProc /\ pc = "idle" /\ ~torn /\ Others /\ InPhase
  BY DEF SharedInv, Free, Typed, OpTyped
<1>2. \A p \in Procs : p # owner
  BY <1>1, SharedAssumption
<1> QED BY <1>1, <1>2 DEF Others, InPhase

\* What the invariant says while p has the lock.
LEMMA WhenOwned ==
    ASSUME SharedInv, NEW p \in Procs, owner = p
    PROVE  /\ Typed /\ ~torn /\ Owned(p)
           /\ \A q \in Procs : q # p => Own(q) /\ Sees(q)
<1>1. Typed /\ ~torn
  BY SharedAssumption DEF SharedInv, Typed, HistTyped
<1> QED BY <1>1, SharedAssumption DEF SharedInv, Others, InPhase

\* The invariant after a step that leaves no operation under way.
LEMMA IdleAgain ==
    ASSUME Typed', owner' = NoProc, \A p \in Procs : Own(p)' /\ Sees(p)',
           LastHeld', MetaWhole' \/ MetaHalf'
    PROVE  SharedInv'
BY DEF SharedInv, Others, InPhase

\* The invariant after a step that leaves p with the lock.
LEMMA OwnedAgain ==
    ASSUME Typed', NEW p \in Procs, owner' = p, Owned(p)',
           \A q \in Procs : q # p => Own(q)' /\ Sees(q)'
    PROVE  SharedInv'
BY DEF SharedInv, Others, InPhase

-----------------------------------------------------------------------------
\* A file nobody has created yet, and processes that have loaded nothing.
LEMMA InitSharedInv == Init => SharedInv
<1> SUFFICES ASSUME Init PROVE SharedInv
  OBVIOUS
<1>1. FileTyped
  BY SizingAssumption, CellsAssumption DEF Init, FileTyped, Cell, Cap
<1>2. ProcTyped
  BY CellsAssumption DEF Init, ProcTyped, NoOffsets
<1>3. OpTyped
  BY SharedAssumption DEF Init, OpTyped, Ops, NoOp
<1>4. HistTyped
  <2>1. EmptyMap \in Maps
    BY DEF EmptyMap, Maps
  <2>2. torn \in BOOLEAN /\ ~torn
    BY Zenon DEF Init
  <2> QED BY <2>1, <2>2, SharedAssumption DEF Init, HistTyped
<1>5. Typed
  BY <1>1, <1>2, <1>3, <1>4 DEF Typed
<1>6. /\ Crc(mem, 0) = <<>> /\ Decode(<<>>, 0) = NoOffsets /\ Content(mem, 0) = EmptyMap
      /\ Fits(0, fileSize)
  BY <1>1, EmptyRegion DEF FileTyped, Cap, Fits, Fixed32Size
<1>7. LastHeld /\ MetaWhole
  BY <1>6 DEF Init, LastHeld, MetaWhole, Valid
<1>8. ASSUME NEW p \in Procs PROVE Own(p) /\ Sees(p)
  <2>1. <<>> \in [1 .. 0 -> Cell]
    BY <1>1, <1>6, CrcIsRegion, CellsAssumption DEF FileTyped
  <2>2. Region(p)
    BY <2>1 DEF Init, Region
  <2> QED BY <1>6, <2>2 DEF Init, Own, Decoded, Sees
<1> QED BY <1>5, <1>7, <1>8 DEF SharedInv, Others, InPhase, Init

\* A region and what follows it are a region.
LEMMA ReadOn ==
    ASSUME NEW a \in Nat, NEW c \in [1 .. a -> Cell], NEW d \in Nat, NEW t \in [1 .. d -> Cell]
    PROVE  /\ c \o t \in [1 .. a + d -> Cell]
           /\ \A i \in 1 .. a : (c \o t)[i] = c[i]
           /\ \A i \in 1 .. d : (c \o t)[a + i] = t[i]
<1>1. c \in Seq(Cell) /\ Len(c) = a /\ t \in Seq(Cell) /\ Len(t) = d
  OBVIOUS
<1>2. /\ c \o t \in Seq(Cell) /\ Len(c \o t) = Len(c) + Len(t)
      /\ \A i \in 1 .. Len(c) + Len(t) : (c \o t)[i] = IF i <= Len(c) THEN c[i] ELSE t[i - Len(c)]
  BY <1>1, ConcatProperties
<1> DEFINE w == c \o t
<1> HIDE DEF w
<1>3. /\ w \in Seq(Cell) /\ Len(w) = a + d
      /\ \A i \in 1 .. a + d : w[i] = IF i <= a THEN c[i] ELSE t[i - a]
  BY <1>1, <1>2 DEF w
<1>4. \A i \in 1 .. a : w[i] = c[i]
  BY <1>3
<1>5. ASSUME NEW i \in 1 .. d PROVE w[a + i] = t[i]
  <2>1. a + i \in 1 .. a + d /\ (a + i) - a = i /\ ~ (a + i <= a)
    OBVIOUS
  <2> QED BY <1>3, <2>1
<1>6. w \in [1 .. a + d -> Cell]
  BY <1>3
<1> QED BY <1>4, <1>5, <1>6 DEF w

\* partialLoadFromFile leaves the dictionary of the whole region: of what was
\* known and of what has been appended to it.
LEMMA PartialLoadStep ==
    ASSUME SharedInv, NEW p \in Procs, PartialLoad(p)
    PROVE  SharedInv'
<1>1. /\ Typed /\ owner = NoProc /\ pc = "idle" /\ ~torn
      /\ \A q \in Procs : Own(q) /\ Sees(q)
      /\ LastHeld /\ (MetaWhole \/ MetaHalf)
  BY WhenIdle DEF PartialLoad, Ready
<1> DEFINE a == actual[p]
           o == [k \in Keys |-> IF \E i \in a + 1 .. metaSize : mem[i].key = k
                                THEN Decode(mem, metaSize)[k] ELSE off[p][k]]
<1>2. /\ UNCHANGED <<fileVars, metaVars, loaded, mapped, current, opVars, histVars, loadVars>>
      /\ off' = [off EXCEPT ![p] = o] /\ out' = [out EXCEPT ![p] = @ + (metaSize - a)]
      /\ actual' = [actual EXCEPT ![p] = metaSize] /\ crc' = [crc EXCEPT ![p] = metaCrc]
      /\ hasFW' = [hasFW EXCEPT ![p] = FALSE]
  BY DEF PartialLoad
<1>3. /\ loaded[p] /\ metaSize > a /\ Fits(metaSize, mapped[p])
      /\ metaCrc = crc[p] \o [i \in 1 .. metaSize - a |-> mem[a + i]]
  BY DEF PartialLoad, Appended
<1>4. /\ a \in 0 .. MaxCap /\ metaSize \in 0 .. MaxCap /\ mem \in [Cap -> Cell] /\ MaxCap \in Nat
      /\ crc[p] \in [1 .. a -> Cell] /\ out[p] = a /\ off[p] = Decode(crc[p], a)
  BY <1>1, Lengths DEF Own, Region, Decoded
<1>5. /\ metaCrc \in [1 .. metaSize -> Cell]
      /\ \A i \in 1 .. a : metaCrc[i] = crc[p][i]
      /\ \A i \in a + 1 .. metaSize : metaCrc[i] = mem[i]
  <2> DEFINE t == [i \in 1 .. metaSize - a |-> mem[a + i]]
  <2>1. ASSUME NEW i \in 1 .. metaSize - a PROVE a + i \in Cap /\ mem[a + i] \in Cell
    <3>1. a + i \in Nat /\ 1 <= a + i /\ a + i <= MaxCap
      BY <1>4
    <3>2. a + i \in Cap
      BY <1>4, <3>1 DEF Cap
    <3> QED BY <1>4, <3>2
  <2>2. t \in [1 .. metaSize - a -> Cell] /\ metaSize - a \in Nat
    BY <1>3, <1>4, <2>1
  <2>3. \A i \in 1 .. metaSize - a : t[i] = mem[a + i]
    OBVIOUS
  <2>4. metaCrc = crc[p] \o t
    BY <1>3
  <2>5. a \in Nat /\ a + (metaSize - a) = metaSize
    BY <1>4
  <2> HIDE DEF t
  <2>6. /\ metaCrc \in [1 .. a + (metaSize - a) -> Cell]
        /\ \A i \in 1 .. a : metaCrc[i] = crc[p][i]
        /\ \A i \in 1 .. metaSize - a : metaCrc[a + i] = t[i]
    <3> DEFINE d == metaSize - a
               c == crc[p]
    <3>1. a \in Nat /\ c \in [1 .. a -> Cell] /\ d \in Nat /\ t \in [1 .. d -> Cell]
      BY <1>4, <2>2, <2>5
    <3> HIDE DEF a, c, d
    <3>2. /\ c \o t \in [1 .. a + d -> Cell]
          /\ \A i \in 1 .. a : (c \o t)[i] = c[i]
          /\ \A i \in 1 .. d : (c \o t)[a + i] = t[i]
      BY ONLY <3>1, ReadOn
    <3> QED BY <2>4, <3>2 DEF c, d
  <2>7. ASSUME NEW i \in a + 1 .. metaSize PROVE metaCrc[i] = mem[i]
    <3>1. i - a \in 1 .. metaSize - a /\ a + (i - a) = i
      BY <1>4
    <3> QED BY <2>3, <2>6, <3>1
  <2> QED BY <2>5, <2>6, <2>7
<1>6. o = Decode(metaCrc, metaSize)
  <2>1. a \in Nat /\ metaSize \in Nat /\ a <= metaSize
    BY <1>3, <1>4
  <2>2. ASSUME NEW k \in Keys PROVE o[k] = Decode(metaCrc, metaSize)[k]
    <3> DEFINE n == metaSize
               w == metaCrc
               m == mem
    <3>1. /\ a \in Nat /\ n \in Nat /\ a <= n /\ off[p] = Decode(crc[p], a)
          /\ \A i \in 1 .. a : w[i] = crc[p][i]
          /\ \A i \in a + 1 .. n : w[i] = m[i]
      BY <1>4, <1>5, <2>1
    <3>2. /\ (\E i \in a + 1 .. n : m[i].key = k) => o[k] = Decode(m, n)[k]
          /\ (\A i \in a + 1 .. n : m[i].key # k) => o[k] = off[p][k]
      OBVIOUS
    <3> HIDE DEF a, o, n, w, m
    <3>3. CASE \E i \in a + 1 .. n : m[i].key = k
      <4>1. PICK i \in a + 1 .. n : m[i].key = k
        BY <3>3
      <4>2. i \in 1 .. n /\ \A j \in i .. n : w[j] = m[j]
        BY <3>1, <4>1
      <4>3. Decode(w, n)[k] = Decode(m, n)[k]
        BY <3>1, <4>1, <4>2, DecodeBehind
      <4> QED BY <3>2, <3>3, <4>3 DEF w, n
    <3>4. CASE \A i \in a + 1 .. n : m[i].key # k
      <4>1. \A i \in a + 1 .. n : w[i].key # k
        BY <3>1, <3>4
      <4>2. Decode(w, n)[k] = Decode(crc[p], a)[k]
        BY <3>1, <4>1, DecodeBefore
      <4> QED BY <3>1, <3>2, <3>4, <4>2 DEF w, n
    <3> QED BY <3>3, <3>4
  <2>3. Decode(metaCrc, metaSize) = [k \in Keys |-> Decode(metaCrc, metaSize)[k]]
    BY DEF Decode
  <2> QED BY <2>2, <2>3
<1>7. o \in [Keys -> 0 .. MaxCap]
  BY <1>4, <1>5, <1>6, RegionLeads DEF Leads
<1> HIDE DEF o
<1>8. Typed'
  <2>1. out[p] + (metaSize - a) = metaSize
    BY <1>4
  <2>2. out' = [out EXCEPT ![p] = metaSize]
    BY <1>2, <2>1
  <2>3. ProcTyped'
    BY <1>1, <1>2, <1>4, <1>7, <2>2 DEF Typed, ProcTyped
  <2> QED BY <1>1, <1>2, <2>3
      DEF Typed, FileTyped, OpTyped, HistTyped, fileVars, metaVars, opVars, histVars, loadVars
<1>9. ASSUME NEW q \in Procs PROVE Own(q)' /\ Sees(q)'
  <2>1. CASE q = p
    <3>1. /\ crc'[p] = metaCrc /\ actual'[p] = metaSize /\ out'[p] = metaSize /\ off'[p] = o
          /\ loaded'[p] = loaded[p] /\ mapped'[p] = mapped[p] /\ current'[p] = current[p]
          /\ lastSize' = lastSize
      BY <1>1, <1>2, <1>4 DEF Typed, ProcTyped, metaVars
    <3>2. Own(p)'
      BY <1>3, <1>5, <1>6, <3>1 DEF Own, Region, Decoded, Fits
    <3>3. Sees(p)'
      BY <1>1, <3>1 DEF Sees
    <3> QED BY <2>1, <3>2, <3>3
  <2>2. CASE q # p
    <3>1. Same(q) /\ current'[q] = current[q] /\ lastSize' = lastSize
      BY <1>1, <1>2, <2>2 DEF Same, Typed, ProcTyped, metaVars
    <3> QED BY <1>1, <3>1, LeftAlone
  <2> QED BY <2>1, <2>2
<1>10. LastHeld' /\ (MetaWhole' \/ MetaHalf')
  BY <1>1, <1>2 DEF LastHeld, MetaWhole, MetaHalf, fileVars, metaVars, histVars
<1>11. owner' = NoProc
  BY <1>1, <1>2 DEF opVars
<1> QED BY <1>8, <1>9, <1>10, <1>11, IdleAgain

\* The upgrade of a load's lock: at most one more load waits.
LEMMA UpgradeTyped ==
    ASSUME Typed, NEW p \in Procs, NEW n, Upgrade(p, n)
    PROVE  upgrading' \in SUBSET Procs /\ waits' \in 0 .. MaxWaits
<1>1. upgrading \in SUBSET Procs /\ waits \in 0 .. MaxWaits /\ MaxWaits \in Nat
  BY SharedAssumption DEF Typed, HistTyped
<1>2. CASE UNCHANGED loadVars
  BY <1>1, <1>2 DEF loadVars
<1>3. CASE waits < MaxWaits /\ waits' = waits + 1 /\ upgrading' = upgrading \cup {p}
  BY <1>1, <1>3
<1> QED BY <1>2, <1>3 DEF Upgrade

\* A load leaves p with a region of the file, whatever the meta becomes.
LEMMA LoadStep ==
    ASSUME SharedInv, NEW p \in Procs, NEW n \in 0 .. MaxCap, n + 1 <= fileSize, Load(p, n),
           metaSize' \in 0 .. MaxCap, MetaWhole' \/ MetaHalf'
    PROVE  SharedInv'
<1>1. /\ Typed /\ owner = NoProc /\ pc = "idle" /\ ~torn
      /\ \A q \in Procs : Own(q) /\ Sees(q)
      /\ LastHeld
  BY WhenIdle DEF Load, Ready
<1>2. /\ UNCHANGED <<fileVars, lastCrc, lastSize, opVars, histVars>>
      /\ mapped' = [mapped EXCEPT ![p] = fileSize] /\ off' = [off EXCEPT ![p] = Decode(mem, n)]
      /\ actual' = [actual EXCEPT ![p] = n] /\ crc' = [crc EXCEPT ![p] = Crc(mem, n)]
      /\ out' = [out EXCEPT ![p] = n] /\ hasFW' = [hasFW EXCEPT ![p] = FALSE]
      /\ current' = [current EXCEPT ![p] = TRUE] /\ loaded' = [loaded EXCEPT ![p] = TRUE]
      /\ Upgrade(p, n)
  BY DEF Load
<1>3. /\ mem \in [Cap -> Cell] /\ fileSize \in 0 .. MaxCap /\ n \in Nat /\ lastSize \in Nat
      /\ lastSize < fileSize
  BY <1>1, Lengths DEF LastHeld, Valid, Fits
<1>4. /\ Crc(mem, n) \in [1 .. n -> Cell] /\ Decode(mem, n) = Decode(Crc(mem, n), n)
      /\ Decode(mem, n) \in [Keys -> 0 .. MaxCap]
  BY <1>3, CrcIsRegion, DecodeFacts
<1>5. Typed'
  <2>1. ProcTyped'
    BY <1>1, <1>2, <1>3, <1>4 DEF Typed, ProcTyped
  <2>2. FileTyped' /\ OpTyped'
    BY <1>1, <1>2 DEF Typed, FileTyped, OpTyped, fileVars, opVars
  <2>3. HistTyped'
    BY <1>1, <1>2, UpgradeTyped DEF Typed, HistTyped, opVars, histVars
  <2> QED BY <2>1, <2>2, <2>3 DEF Typed
<1>6. ASSUME NEW q \in Procs PROVE Own(q)' /\ Sees(q)'
  <2>1. CASE q = p
    <3>1. /\ crc'[p] = Crc(mem, n) /\ actual'[p] = n /\ out'[p] = n /\ off'[p] = Decode(mem, n)
          /\ loaded'[p] /\ mapped'[p] = fileSize /\ lastSize' = lastSize
      BY <1>1, <1>2 DEF Typed, ProcTyped
    <3>2. Own(p)' /\ Sees(p)'
      BY <1>3, <1>4, <3>1 DEF Own, Region, Decoded, Sees
    <3> QED BY <2>1, <3>2
  <2>2. CASE q # p
    <3>1. Same(q) /\ current'[q] = current[q] /\ lastSize' = lastSize
      BY <1>1, <1>2, <2>2 DEF Same, Typed, ProcTyped
    <3> QED BY <1>1, <3>1, LeftAlone
  <2> QED BY <2>1, <2>2
<1>7. LastHeld'
  BY <1>1, <1>2 DEF LastHeld, fileVars, histVars
<1>8. owner' = NoProc
  BY <1>1, <1>2 DEF opVars
<1> QED BY <1>5, <1>6, <1>7, <1>8, IdleAgain

\* loadFromFile of the region the meta describes.
LEMMA LoadValidStep ==
    ASSUME SharedInv, NEW p \in Procs, LoadValid(p)
    PROVE  SharedInv'
<1>1. Load(p, metaSize) /\ UNCHANGED <<metaCrc, metaSize>> /\ LoadCase = "valid"
  BY DEF LoadValid
<1>2. Typed /\ LastHeld /\ (MetaWhole \/ MetaHalf)
  BY <1>1, WhenIdle DEF Load, Ready
<1>3. MetaWhole /\ metaSize \in 0 .. MaxCap /\ metaSize + 1 <= fileSize
  BY <1>1, <1>2, HalfIsLast, Lengths DEF MetaWhole, Valid, Fits, Fixed32Size
<1>4. MetaWhole'
  BY <1>1, <1>3 DEF MetaWhole, Load, fileVars
<1> QED BY <1>1, <1>3, <1>4, LoadStep

\* loadFromFile of the region last confirmed, which the meta then describes.
LEMMA LoadFallbackStep ==
    ASSUME SharedInv, NEW p \in Procs, LoadFallback(p)
    PROVE  SharedInv'
<1>1. Load(p, lastSize) /\ metaSize' = lastSize /\ metaCrc' = lastCrc
  BY DEF LoadFallback
<1>2. Typed /\ LastHeld
  BY <1>1, WhenIdle DEF Load, Ready
<1>3. lastSize \in 0 .. MaxCap /\ lastSize + 1 <= fileSize
  BY <1>2, Lengths DEF LastHeld, Valid, Fits, Fixed32Size
<1>4. MetaWhole'
  BY <1>1, <1>2, <1>3 DEF MetaWhole, LastHeld, Load, fileVars
<1> QED BY <1>1, <1>3, <1>4, LoadStep

\* The region a load stores as empty is a region.
LEMMA StoreEmptyStep ==
    ASSUME SharedInv, NEW p \in Procs, StoreEmpty(p)
    PROVE  SharedInv'
<1>1. /\ Typed /\ owner = NoProc /\ pc = "idle" /\ ~torn
      /\ \A q \in Procs : Own(q) /\ Sees(q)
      /\ LastHeld
  BY WhenIdle DEF StoreEmpty
<1>2. /\ upgrading' = upgrading \ {p} /\ metaSize' = 0 /\ metaCrc' = <<>>
      /\ UNCHANGED <<fileVars, lastCrc, lastSize, procVars, opVars, histVars, waits>>
  BY DEF StoreEmpty
<1>3. Typed'
  BY <1>1, <1>2, CellsAssumption
  DEF Typed, FileTyped, ProcTyped, OpTyped, HistTyped, fileVars, procVars, logVars, opVars, histVars
<1>4. ASSUME NEW q \in Procs PROVE Own(q)' /\ Sees(q)'
  <2>1. Same(q) /\ current'[q] = current[q] /\ lastSize' = lastSize
    BY <1>2 DEF Same, procVars, logVars
  <2> QED BY <1>1, <2>1, LeftAlone
<1>5. LastHeld'
  BY <1>1, <1>2 DEF LastHeld, fileVars, histVars
<1>6. Fits(0, fileSize) /\ Crc(mem, 0) = <<>>
  BY <1>1, Lengths, EmptyRegion DEF Fits, Fixed32Size
<1>7. MetaWhole'
  BY <1>2, <1>6 DEF MetaWhole, Valid, fileVars
<1> QED BY <1>1, <1>2, <1>3, <1>4, <1>5, <1>7, IdleAgain DEF opVars

\* A process that keeps nothing of the file.
LEMMA Forgotten ==
    ASSUME Typed, NEW p \in Procs, Forget(p)
    PROVE  /\ ProcTyped' /\ Own(p)' /\ Sees(p)'
           /\ \A q \in Procs : q # p => Same(q) /\ current'[q] = current[q]
<1>1. NoOffsets \in [Keys -> 0 .. MaxCap]
  BY CellsAssumption DEF NoOffsets
<1>2. ProcTyped'
  <2>1. /\ loaded' \in [Procs -> BOOLEAN] /\ current' \in [Procs -> BOOLEAN]
        /\ hasFW' \in [Procs -> BOOLEAN]
    BY DEF Typed, ProcTyped, Forget
  <2>2. 0 \in 0 .. MaxCap
    BY CellsAssumption
  <2>3. /\ mapped' \in [Procs -> 0 .. MaxCap] /\ actual' \in [Procs -> 0 .. MaxCap]
        /\ out' \in [Procs -> 0 .. MaxCap]
    BY <2>2 DEF Typed, ProcTyped, Forget
  <2>4. off' \in [Procs -> [Keys -> 0 .. MaxCap]]
    BY <1>1 DEF Typed, ProcTyped, Forget
  <2>5. crc' = [q \in Procs |-> crc'[q]]
    BY DEF Typed, ProcTyped, Forget
  <2> QED BY <2>1, <2>3, <2>4, <2>5 DEF ProcTyped
<1>3. /\ crc'[p] = <<>> /\ actual'[p] = 0 /\ out'[p] = 0 /\ off'[p] = NoOffsets
      /\ loaded'[p] = FALSE /\ current'[p] = FALSE
  BY DEF Typed, ProcTyped, Forget
<1>4. <<>> \in [1 .. 0 -> Cell] /\ Decode(<<>>, 0) = NoOffsets
  BY Lengths, EmptyRegion, CrcIsRegion
<1>5. Own(p)' /\ Sees(p)'
  BY <1>3, <1>4 DEF Own, Region, Decoded, Sees
<1>6. ASSUME NEW q \in Procs, q # p PROVE Same(q) /\ current'[q] = current[q]
  BY <1>6 DEF Same, Typed, ProcTyped, Forget
<1> QED BY <1>2, <1>5, <1>6

\* A process that forgets what it loaded, between two operations.
LEMMA ClearMemoryCacheStep ==
    ASSUME SharedInv, NEW p \in Procs, ClearMemoryCache(p)
    PROVE  SharedInv'
<1>1. /\ Typed /\ owner = NoProc /\ pc = "idle" /\ ~torn
      /\ \A q \in Procs : Own(q) /\ Sees(q)
      /\ LastHeld /\ (MetaWhole \/ MetaHalf)
  BY WhenIdle DEF ClearMemoryCache, Ready
<1>2. Forget(p) /\ UNCHANGED <<fileVars, metaVars, opVars, histVars, loadVars>>
  BY DEF ClearMemoryCache
<1>3. /\ ProcTyped' /\ Own(p)' /\ Sees(p)'
      /\ \A q \in Procs : q # p => Same(q) /\ current'[q] = current[q]
  BY <1>1, <1>2, Forgotten
<1>4. Typed'
  BY <1>1, <1>2, <1>3
  DEF Typed, FileTyped, OpTyped, HistTyped, fileVars, metaVars, opVars, histVars, loadVars
<1>5. \A q \in Procs : Own(q)' /\ Sees(q)'
  BY <1>1, <1>2, <1>3, LeftAlone DEF metaVars
<1>6. LastHeld' /\ (MetaWhole' \/ MetaHalf')
  BY <1>1, <1>2 DEF LastHeld, MetaWhole, MetaHalf, fileVars, metaVars, histVars
<1> QED BY <1>1, <1>2, <1>4, <1>5, <1>6, IdleAgain DEF opVars

-----------------------------------------------------------------------------
\* A phase lasts while the files and the owner are left alone.
LEMMA OwnedKept ==
    ASSUME NEW p \in Procs, Owned(p), UNCHANGED <<fileVars, metaVars, opVars, before, target, snap>>,
           Same(p), current'[p] = current[p], p \notin upgrading'
    PROVE  Owned(p)'
<1>1. /\ mem' = mem /\ fileSize' = fileSize
      /\ metaSize' = metaSize /\ metaCrc' = metaCrc /\ lastSize' = lastSize /\ lastCrc' = lastCrc
      /\ pc' = pc /\ op' = op /\ ensures' = ensures /\ inc' = inc /\ after' = after
      /\ before' = before /\ target' = target /\ snap' = snap
      /\ off'[p] = off[p] /\ actual'[p] = actual[p] /\ crc'[p] = crc[p] /\ out'[p] = out[p]
      /\ loaded'[p] = loaded[p] /\ mapped'[p] = mapped[p] /\ current'[p] = current[p]
  BY DEF fileVars, metaVars, opVars, Same
<1>2. LastHeld' = LastHeld /\ MetaWhole' = MetaWhole
  BY <1>1 DEF LastHeld, MetaWhole
<1>3. (Region(p)' = Region(p)) /\ (Decoded(p)' = Decoded(p)) /\ (InFile(p)' = InFile(p))
  BY <1>1 DEF Region, Decoded, InFile
<1>4. (Own(p)' = Own(p)) /\ (Sees(p)' = Sees(p)) /\ (Agrees(p)' = Agrees(p))
  BY <1>1, <1>3 DEF Own, Sees, Agrees
<1>5. (Quiet(p)' = Quiet(p)) /\ (Appending' = Appending) /\ (Pending(p)' = Pending(p))
  BY <1>1, <1>2, <1>4 DEF Quiet, Appending, Pending
<1>6. JustAppended(p)' = JustAppended(p)
  BY <1>1, <1>2, <1>3, <1>4, <1>5 DEF JustAppended
<1>7. Rewritten(p)' = Rewritten(p)
  BY <1>1, <1>3, <1>5 DEF Rewritten, Wanted
<1>8. /\ (InEnsure(p)' = InEnsure(p)) /\ (InRewrite(p)' = InRewrite(p)) /\ (InPut(p)' = InPut(p))
      /\ (InShrink(p)' = InShrink(p))
      /\ (InMetaCrc(p)' = InMetaCrc(p)) /\ (InMetaSize(p)' = InMetaSize(p))
  BY <1>1, <1>2, <1>5, <1>6, <1>7
  DEF InEnsure, InRewrite, InPut, InShrink, InMetaCrc, InMetaSize, LenNeeded, SizeOfDic, Count
<1> QED BY <1>1, <1>5, <1>8 DEF Owned

\* What an operation leaves behind when it returns.
LEMMA LeaveTyped ==
    ASSUME Leave
    PROVE  OpTyped' /\ owner' = NoProc /\ before' \in Maps /\ target' \in Maps
<1>1. op' \in Ops
  BY DEF Leave, NoOp, Ops
<1>2. before' \in Maps /\ target' \in Maps
  BY DEF Leave, EmptyMap, Maps
<1> QED BY <1>1, <1>2 DEF Leave, OpTyped

\* The owner is killed: what it had stored stays, and describes a region unless
\* it was rewriting the file in place.
LEMMA DieStep ==
    ASSUME SharedInv, NEW p \in Procs, Die(p), kills' \in 0 .. MaxKills
    PROVE  SharedInv'
<1>1. /\ Typed /\ ~torn /\ Owned(p) /\ owner = p
      /\ \A q \in Procs : q # p => Own(q) /\ Sees(q)
  BY WhenOwned DEF Die
<1>2. /\ Forget(p) /\ Leave /\ torn' = (torn \/ InPlace)
      /\ UNCHANGED <<fileVars, metaVars, snap, ops, loadVars>>
  BY DEF Die
<1>3. /\ ProcTyped' /\ Own(p)' /\ Sees(p)'
      /\ \A q \in Procs : q # p => Same(q) /\ current'[q] = current[q]
  BY <1>1, <1>2, Forgotten
<1>4. Typed'
  <2>1. OpTyped' /\ owner' = NoProc /\ before' \in Maps /\ target' \in Maps
    BY <1>2, LeaveTyped
  <2>2. torn' \in BOOLEAN
    BY <1>2, Zenon
  <2>3. HistTyped'
    BY <1>1, <1>2, <2>1, <2>2 DEF Typed, HistTyped, loadVars
  <2> QED BY <1>1, <1>2, <1>3, <2>1, <2>3 DEF Typed, FileTyped, fileVars, metaVars
<1>5. \A q \in Procs : Own(q)' /\ Sees(q)'
  BY <1>1, <1>2, <1>3, LeftAlone DEF metaVars
<1>6. CASE InPlace
  BY <1>2, <1>4, <1>6 DEF SharedInv
<1>7. CASE ~InPlace
  <2>1. LastHeld /\ (MetaWhole \/ MetaHalf)
    <3>1. CASE pc \in {"ensure", "rewrite", "put", "shrink"}
      BY <1>1, <3>1 DEF Owned, InEnsure, InRewrite, InPut, InShrink, Quiet
    <3>2. CASE pc = "metaCrc"
      BY <1>1, <1>7, <3>2 DEF Owned, InMetaCrc, InPlace, JustAppended, Rewritten
    <3>3. CASE pc = "metaSize"
      <4>1. JustAppended(p) /\ metaCrc = crc[p]
        BY <1>1, <1>7, <3>3 DEF Owned, InMetaSize, InPlace, Rewritten
      <4> QED BY <4>1 DEF JustAppended, Region, MetaHalf
    <3>4. pc \in {"ensure", "rewrite", "put", "shrink", "metaCrc", "metaSize"}
      BY <1>1 DEF Owned
    <3> QED BY <3>1, <3>2, <3>3, <3>4
  <2>2. LastHeld' /\ (MetaWhole' \/ MetaHalf')
    BY <1>2, <2>1 DEF LastHeld, MetaWhole, MetaHalf, fileVars, metaVars
  <2>3. owner' = NoProc
    BY <1>2 DEF Leave
  <2> QED BY <1>4, <1>5, <2>2, <2>3, IdleAgain
<1> QED BY <1>6, <1>7

\* A process that waits for the exclusive lock is killed.
LEMMA DieUpgradingStep ==
    ASSUME SharedInv, NEW p \in Procs, DieUpgrading(p), kills' \in 0 .. MaxKills
    PROVE  SharedInv'
<1>1. /\ p \in upgrading /\ Forget(p) /\ upgrading' = upgrading \ {p}
      /\ UNCHANGED <<fileVars, metaVars, opVars, before, target, snap, torn, ops, waits>>
  BY DEF DieUpgrading
<1>2. Typed
  BY DEF SharedInv
<1>3. /\ ProcTyped' /\ Own(p)' /\ Sees(p)'
      /\ \A q \in Procs : q # p => Same(q) /\ current'[q] = current[q]
  BY <1>1, <1>2, Forgotten
<1>4. Typed'
  BY <1>1, <1>2, <1>3 DEF Typed, FileTyped, OpTyped, HistTyped, fileVars, metaVars, opVars
<1>5. CASE torn
  BY <1>1, <1>4, <1>5 DEF SharedInv
<1>6. CASE ~torn /\ owner = NoProc
  <2>1. /\ \A q \in Procs : Own(q) /\ Sees(q)
        /\ LastHeld /\ (MetaWhole \/ MetaHalf)
    BY <1>6, WhenIdle DEF Free
  <2>2. \A q \in Procs : Own(q)' /\ Sees(q)'
    BY <1>1, <1>3, <2>1, LeftAlone DEF metaVars
  <2>3. LastHeld' /\ (MetaWhole' \/ MetaHalf')
    BY <1>1, <2>1 DEF LastHeld, MetaWhole, MetaHalf, fileVars, metaVars
  <2> QED BY <1>1, <1>4, <1>6, <2>2, <2>3, IdleAgain DEF opVars
<1>7. ASSUME NEW q \in Procs, owner = q PROVE SharedInv'
  <2>1. Owned(q) /\ \A r \in Procs : r # q => Own(r) /\ Sees(r)
    BY <1>7, WhenOwned
  <2>2. p # q /\ q \notin upgrading'
    BY <1>1, <2>1 DEF Owned
  <2>3. Owned(q)'
    BY <1>1, <1>3, <2>1, <2>2, OwnedKept
  <2>4. \A r \in Procs : r # q => Own(r)' /\ Sees(r)'
    BY <1>1, <1>3, <2>1, LeftAlone DEF metaVars
  <2> QED BY <1>1, <1>4, <1>7, <2>3, <2>4, OwnedAgain DEF opVars
<1> QED BY <1>2, <1>5, <1>6, <1>7 DEF Typed, OpTyped

\* A kill is counted; a bus error is not.
LEMMA KillStep ==
    ASSUME SharedInv, NEW p \in Procs, Kill(p) \/ BusError(p)
    PROVE  SharedInv'
<1>1. kills \in 0 .. MaxKills /\ MaxKills \in Nat
  BY SharedAssumption DEF SharedInv, Typed, HistTyped
<1>2. CASE Kill(p)
  <2>1. kills' \in 0 .. MaxKills
    BY <1>1, <1>2 DEF Kill
  <2> QED BY <1>2, <2>1, DieStep, DieUpgradingStep DEF Kill
<1>3. CASE BusError(p)
  <2>1. kills' \in 0 .. MaxKills
    BY <1>1, <1>3 DEF BusError
  <2> QED BY <1>3, <2>1, DieStep DEF BusError
<1> QED BY <1>2, <1>3

-----------------------------------------------------------------------------
\* What a load finds is a map.
LEMMA RecoveredType ==
    ASSUME Typed
    PROVE  Recovered \in Maps
<1>1. LoadSize \in 0 .. MaxCap
  <2>1. LoadCase \in {"valid", "oldStyle", "last", "discard"}
    BY DEF LoadCase
  <2> QED BY <2>1, CellsAssumption DEF LoadSize, Typed, FileTyped
<1> QED BY <1>1, ContentType DEF Recovered, Maps, Typed, FileTyped

\* What holds when p begins an operation: p is quiet, since its copies of the
\* digest and the size are the meta's.
LEMMA Begins ==
    ASSUME SharedInv, NEW p \in Procs, NEW name, NEW k, NEW v, NEW m \in Maps,
           Begin(p, name, k, v, m)
    PROVE  /\ Typed /\ pc = "idle" /\ Quiet(p) /\ loaded[p] /\ current[p] /\ p \notin upgrading
           /\ \A q \in Procs : Own(q) /\ Sees(q)
           /\ owner' = p /\ op' = [name |-> name, key |-> k, val |-> v]
           /\ before' = Content(mem, metaSize) /\ Recovered = Content(mem, metaSize)
           /\ target' = m /\ before' \in Maps /\ target' \in Maps
           /\ UNCHANGED <<metaVars, loaded, current, snap, torn, kills, loadVars>>
           /\ HistTyped'
<1>1. /\ Typed /\ owner = NoProc /\ pc = "idle" /\ ~torn
      /\ \A q \in Procs : Own(q) /\ Sees(q)
      /\ LastHeld /\ (MetaWhole \/ MetaHalf) /\ p \notin upgrading
  BY WhenIdle DEF Begin, Ready
<1>2. /\ InSync(p) /\ ops < MaxOps /\ ops' = ops + 1 /\ owner' = p /\ before' = Recovered
      /\ target' = m
      /\ op' = [name |-> name, key |-> k, val |-> v]
      /\ UNCHANGED <<metaVars, loaded, current, snap, torn, kills, loadVars>>
  BY DEF Begin
<1>3. Agrees(p) /\ loaded[p] /\ current[p]
  BY <1>2 DEF InSync, Agrees
<1>4. MetaWhole
  BY <1>1, <1>3, AgreesIsWhole DEF Own
<1>5. Quiet(p)
  BY <1>1, <1>3, <1>4 DEF Quiet
<1>6. before' = Content(mem, metaSize)
  BY <1>2, <1>4, WholeIsRead
<1>7. before' \in Maps /\ target' \in Maps
  BY <1>1, <1>2, <1>6, Lengths, ContentType DEF Maps
<1>8. HistTyped'
  BY <1>1, <1>2, <1>7, SharedAssumption DEF Typed, HistTyped, loadVars
<1> QED BY <1>1, <1>2, <1>3, <1>5, <1>6, <1>7, <1>8

\* The operation that begins is a typed one.
LEMMA BeginTyped ==
    ASSUME NEW p \in Procs, owner' = p,
           NEW name \in {"set", "remove", "removeMany", "clear", "trim"},
           NEW k \in Keys \cup {NoKey}, NEW v \in Vals \cup {Nil},
           op' = [name |-> name, key |-> k, val |-> v],
           pc' \in {"ensure", "metaCrc", "shrink"}, ensures' \in 0 .. 2
    PROVE  OpTyped' /\ op'.name = name /\ op'.key = k /\ op'.val = v
<1>1. op' \in Ops
  BY DEF Ops
<1> QED BY <1>1, SharedAssumption DEF OpTyped

\* A set or a removal begins: nothing but the operation itself changes.
LEMMA AppendBegins ==
    ASSUME SharedInv, NEW p \in Procs, NEW name \in {"set", "remove"},
           NEW k \in Keys, NEW v \in Vals \cup {Nil},
           name = "set" => v \in Vals, name = "remove" => v = Nil,
           Begin(p, name, k, v, [Recovered EXCEPT ![k] = v]), pc' = "ensure", ensures' \in 1 .. 2,
           hasFW' \in [Procs -> BOOLEAN], UNCHANGED <<fileVars, mapped, logVars>>
    PROVE  SharedInv'
<1>1. /\ Typed /\ Quiet(p) /\ loaded[p] /\ current[p] /\ p \notin upgrading
      /\ \A q \in Procs : Own(q) /\ Sees(q)
      /\ owner' = p /\ op' = [name |-> name, key |-> k, val |-> v]
      /\ before' = Content(mem, metaSize)
      /\ target' = [before' EXCEPT ![k] = v]
      /\ UNCHANGED <<metaVars, loaded, current, snap, torn, kills, loadVars>>
      /\ HistTyped'
  <2>1. [Recovered EXCEPT ![k] = v] \in Maps
    BY RecoveredType DEF SharedInv, Maps
  <2> QED BY <2>1, Begins
<1>2. OpTyped' /\ op'.name = name /\ op'.key = k /\ op'.val = v
  BY <1>1, BeginTyped
<1>3. Typed'
  BY <1>1, <1>2 DEF Typed, FileTyped, ProcTyped, fileVars, metaVars, logVars
<1>4. /\ metaSize = actual[p] /\ out[p] = actual[p] /\ metaSize + 1 <= fileSize
      /\ lastSize + 1 <= fileSize /\ fileSize \in Nat
  BY <1>1, QuietFacts, Lengths
<1>5. /\ mem' = mem /\ fileSize' = fileSize /\ crc' = crc /\ actual' = actual /\ off' = off
      /\ out' = out /\ mapped' = mapped /\ loaded' = loaded /\ current' = current
  BY <1>1 DEF fileVars, logVars
<1>6. loaded[p] => actual[p] < mapped[p] /\ lastSize < mapped[p]
  BY <1>1 DEF Own, Sees
<1>7. Quiet(p)' /\ Content(mem', metaSize') = Content(mem, metaSize)
  BY <1>1, <1>4, <1>5, <1>6, QuietKept
<1>8. Owned(p)'
  <2>1. Appending'
    BY <1>1, <1>2 DEF Appending
  <2>2. Pending(p)'
    BY <1>1, <1>7, <2>1 DEF Pending
  <2> QED BY <1>1, <1>5, <1>7, <2>2 DEF Owned, InEnsure, loadVars
<1>9. \A q \in Procs : q # p => Own(q)' /\ Sees(q)'
  BY <1>1, <1>5, LeftAlone DEF Same, metaVars
<1> QED BY <1>1, <1>3, <1>8, <1>9, OwnedAgain

\* setDataForKey has found the key, or not.
LEMMA SetBeginStep ==
    ASSUME SharedInv, NEW p \in Procs, NEW k \in Keys, NEW v \in Vals, SetBegin(p, k, v)
    PROVE  SharedInv'
<1>1. hasFW' \in [Procs -> BOOLEAN]
  BY DEF SharedInv, Typed, ProcTyped, SetBegin
<1>2. ensures' \in 1 .. 2 /\ pc' = "ensure"
  BY DEF SetBegin
<1> QED BY <1>1, <1>2, AppendBegins DEF SetBegin

\* removeDataForKey has found the key.
LEMMA RemoveBeginStep ==
    ASSUME SharedInv, NEW p \in Procs, NEW k \in Keys, RemoveBegin(p, k)
    PROVE  SharedInv'
<1>1. hasFW' \in [Procs -> BOOLEAN]
  BY DEF SharedInv, Typed, ProcTyped, RemoveBegin
<1>2. ensures' \in 1 .. 2 /\ pc' = "ensure"
  BY DEF RemoveBegin
<1> QED BY <1>1, <1>2, AppendBegins DEF RemoveBegin

-----------------------------------------------------------------------------
\* truncate, in whatever mapping, keeps every region the file and the mapping
\* had and the new file has room for.
LEMMA TruncateKeeps ==
    ASSUME Typed, NEW p \in Procs, NEW size \in Cap, size > 3, mapped[p] \in Cap,
           Truncate(p, size)
    PROVE  /\ mem' \in [Cap -> Cell] /\ fileSize' \in Cap /\ fileSize' > 3
           /\ mapped' = [mapped EXCEPT ![p] = size] /\ mapped' \in [Procs -> 0 .. MaxCap]
           /\ mapped'[p] = size /\ \A q \in Procs : q # p => mapped'[q] = mapped[q]
           /\ \A n \in Nat : n + 1 <= fileSize /\ n + 1 <= mapped[p] /\ n + 1 <= size =>
                 n + 1 <= fileSize' /\ \A i \in 1 .. n : mem'[i] = mem[i]
<1>1. /\ mem \in [Cap -> Cell] /\ fileSize \in Cap /\ fileSize > 3
      /\ mapped \in [Procs -> 0 .. MaxCap] /\ MaxCap \in Nat
  BY CellsAssumption DEF Typed, FileTyped, ProcTyped
<1>2. mapped' = [mapped EXCEPT ![p] = size]
  BY DEF Truncate
<1>3. /\ mapped' \in [Procs -> 0 .. MaxCap] /\ mapped'[p] = size
      /\ \A q \in Procs : q # p => mapped'[q] = mapped[q]
  BY <1>1, <1>2 DEF Cap
<1> DEFINE c == IF size < mapped[p] THEN size ELSE mapped[p]
<1>4. CASE size # mapped[p] /\ fileSize' = size /\ mem' = Cut(mem, c)
  <2>1. c \in Cap
    OBVIOUS
  <2>2. Cut(mem, c) \in [Cap -> Cell]
    BY <1>1, <2>1, CutKeeps
  <2>3. ASSUME NEW n \in Nat, n + 1 <= mapped[p], n + 1 <= size
        PROVE  \A i \in 1 .. n : mem'[i] = mem[i]
    <3>1. ASSUME NEW i \in 1 .. n PROVE i \in Cap /\ i + 1 <= c
      <4>1. i \in Nat /\ i >= 1 /\ i + 1 <= mapped[p] /\ i + 1 <= size
            /\ mapped[p] \in Nat /\ size \in Nat /\ size <= MaxCap
        BY <1>1, <2>3 DEF Cap
      <4> QED BY <1>1, <4>1 DEF Cap
    <3> HIDE DEF c
    <3> QED BY <1>4, <3>1 DEF Cut, Fixed32Size
  <2> QED BY <1>2, <1>3, <1>4, <2>2, <2>3
<1>5. CASE size = mapped[p] /\ UNCHANGED fileVars
  BY <1>1, <1>2, <1>3, <1>5 DEF fileVars
<1> QED BY <1>4, <1>5 DEF Truncate

\* clearAll leaves an empty region, whose meta is still to be stored.
LEMMA ClearRegion ==
    ASSUME Typed, NEW p \in Procs, mapped[p] \in Cap, NEW keepSpace, Clear(p, keepSpace)
    PROVE  /\ mem' \in [Cap -> Cell] /\ fileSize' \in Cap /\ fileSize' > 3
           /\ actual'[p] = 0 /\ Region(p)' /\ InFile(p)' /\ actual'[p] < mapped'[p]
           /\ pc' = "metaCrc" /\ inc' /\ after' = "cleared"
           /\ mapped' \in [Procs -> 0 .. MaxCap] /\ actual' \in [Procs -> 0 .. MaxCap]
           /\ crc' = [q \in Procs |-> crc'[q]] /\ off' = off /\ out' = out
           /\ \A q \in Procs : q # p => /\ actual'[q] = actual[q] /\ crc'[q] = crc[q]
                                        /\ mapped'[q] = mapped[q]
<1>1. /\ actual' = [actual EXCEPT ![p] = 0] /\ crc' = [crc EXCEPT ![p] = <<>>]
      /\ off' = off /\ out' = out /\ pc' = "metaCrc" /\ inc' = TRUE /\ after' = "cleared"
  BY DEF Clear, WriteMeta
<1>2. /\ mem \in [Cap -> Cell] /\ fileSize \in Cap /\ fileSize > 3
      /\ mapped \in [Procs -> 0 .. MaxCap] /\ actual \in [Procs -> 0 .. MaxCap]
      /\ crc = [q \in Procs |-> crc[q]] /\ MaxCap \in Nat
  BY CellsAssumption DEF Typed, FileTyped, ProcTyped
<1>3. /\ mem' \in [Cap -> Cell] /\ fileSize' \in Cap /\ fileSize' > 3
      /\ mapped' \in [Procs -> 0 .. MaxCap] /\ mapped'[p] \in Cap
      /\ \A q \in Procs : q # p => mapped'[q] = mapped[q]
  <2>1. CASE Truncate(p, expectedCapacity)
    BY <2>1, TruncateKeeps, SizingAssumption
  <2>2. CASE UNCHANGED <<fileVars, mapped>>
    BY <1>2, <2>2 DEF fileVars
  <2> QED BY <2>1, <2>2 DEF Clear
<1>4. /\ actual'[p] = 0 /\ crc'[p] = <<>> /\ actual' \in [Procs -> 0 .. MaxCap]
      /\ crc' = [q \in Procs |-> crc'[q]]
      /\ \A q \in Procs : q # p => actual'[q] = actual[q] /\ crc'[q] = crc[q]
  <2>1. actual'[p] = 0 /\ actual' \in [Procs -> 0 .. MaxCap]
    BY <1>1, <1>2
  <2>2. crc'[p] = <<>>
    BY <1>1, <1>2
  <2>3. crc' = [q \in Procs |-> crc'[q]]
    BY <1>1, <1>2
  <2>4. ASSUME NEW q \in Procs, q # p PROVE actual'[q] = actual[q] /\ crc'[q] = crc[q]
    BY <1>1, <1>2, <2>4
  <2> QED BY <2>1, <2>2, <2>3, <2>4
<1>5. Crc(mem', 0) = <<>> /\ <<>> \in [1 .. 0 -> Cell]
  BY <1>2, EmptyRegion, CrcIsRegion
<1>6. Region(p)' /\ InFile(p)'
  BY <1>3, <1>4, <1>5 DEF Region, InFile, Fits, Fixed32Size, Cap
<1> QED BY <1>1, <1>3, <1>4, <1>6 DEF Cap

\* doFullWriteBack leaves the region of the dictionary it writes.
LEMMA WriteBackRegion ==
    ASSUME Typed, NEW p \in Procs, actual[p] + 1 <= fileSize, NEW o, Leads(o, mem, actual[p]),
           NEW ret, WriteBack(p, o, ret), fileSize' = fileSize
    PROVE  /\ mem' \in [Cap -> Cell]
           /\ actual'[p] = Count(o) + 1 /\ actual'[p] \in 1 .. MaxCap
           /\ actual'[p] = 1 \/ actual'[p] <= actual[p]
           /\ Region(p)' /\ InFile(p)' /\ Decoded(p)'
           /\ Content(mem', actual'[p]) = View(mem, o)
           /\ pc' = "metaCrc" /\ inc' /\ after' = ret
           /\ off' \in [Procs -> [Keys -> 0 .. MaxCap]] /\ actual' \in [Procs -> 0 .. MaxCap]
           /\ out' \in [Procs -> 0 .. MaxCap] /\ crc' = [q \in Procs |-> crc'[q]]
           /\ \A q \in Procs : q # p => /\ off'[q] = off[q] /\ actual'[q] = actual[q]
                                        /\ crc'[q] = crc[q] /\ out'[q] = out[q]
<1> PICK h \in Holders : mem' = Compacted(mem, o, h)
  BY DEF WriteBack
<1> DEFINE n == SizeOfDic(o)
           m == Compacted(mem, o, h)
<1>1. /\ mem' = m /\ off' = [off EXCEPT ![p] = Packed(o)]
      /\ actual' = [actual EXCEPT ![p] = n] /\ out' = [out EXCEPT ![p] = n]
      /\ crc' = [crc EXCEPT ![p] = Crc(m, n)]
      /\ pc' = "metaCrc" /\ inc' = TRUE /\ after' = ret
  BY DEF WriteBack, WriteMeta
<1>2. /\ mem \in [Cap -> Cell] /\ fileSize \in Nat /\ fileSize > 3
      /\ off \in [Procs -> [Keys -> 0 .. MaxCap]] /\ actual \in [Procs -> 0 .. MaxCap]
      /\ out \in [Procs -> 0 .. MaxCap] /\ crc = [q \in Procs |-> crc[q]]
      /\ actual[p] \in 0 .. MaxCap /\ MaxCap \in Nat
  BY Lengths DEF Typed, ProcTyped
<1>3. /\ n = Count(o) + 1 /\ n \in 1 .. MaxCap /\ (n = 1 \/ n <= actual[p])
      /\ m \in [Cap -> Cell] /\ Decode(m, n) = Packed(o) /\ Content(m, n) = View(mem, o)
  BY <1>2, CompactedRegion
<1> HIDE DEF n, m
<1>4. n \in 0 .. MaxCap /\ n \in Nat /\ n + 1 <= fileSize
  BY <1>2, <1>3
<1>5. Packed(o) \in [Keys -> 0 .. MaxCap]
  BY <1>3, <1>4, DecodeFacts
<1>6. Crc(m, n) \in [1 .. n -> Cell] /\ Decode(Crc(m, n), n) = Packed(o)
  BY <1>3, <1>4, CrcIsRegion
<1>7. /\ off'[p] = Packed(o) /\ actual'[p] = n /\ out'[p] = n /\ crc'[p] = Crc(m, n)
      /\ \A q \in Procs : q # p => /\ off'[q] = off[q] /\ actual'[q] = actual[q]
                                   /\ crc'[q] = crc[q] /\ out'[q] = out[q]
  BY <1>1, <1>2
<1>8. /\ off' \in [Procs -> [Keys -> 0 .. MaxCap]] /\ actual' \in [Procs -> 0 .. MaxCap]
      /\ out' \in [Procs -> 0 .. MaxCap] /\ crc' = [q \in Procs |-> crc'[q]]
  BY <1>1, <1>2, <1>4, <1>5
<1>9. Region(p)' /\ InFile(p)' /\ Decoded(p)'
  <2>1. Region(p)' /\ Decoded(p)'
    BY <1>6, <1>7 DEF Region, Decoded
  <2>2. Fits(n, fileSize)
    BY <1>2, <1>4 DEF Fits, Fixed32Size
  <2>3. InFile(p)'
    BY <1>1, <1>7, <2>2 DEF InFile
  <2> QED BY <2>1, <2>3
<1>10. Content(mem', actual'[p]) = View(mem, o)
  BY <1>1, <1>3, <1>7
<1> QED BY <1>1, <1>3, <1>7, <1>8, <1>9, <1>10

-----------------------------------------------------------------------------
\* An operation begins by rewriting the file in place: what it leaves there
\* has still to be described by the meta.
LEMMA InPlaceBegins ==
    ASSUME SharedInv, NEW p \in Procs, NEW name \in {"removeMany", "clear", "trim"},
           NEW m \in Maps, Begin(p, name, NoKey, Nil, m), pc' = "metaCrc", ensures' = ensures, Rewritten(p)',
           mem' \in [Cap -> Cell], fileSize' \in Cap, fileSize' > 3,
           hasFW' \in [Procs -> BOOLEAN], mapped' \in [Procs -> 0 .. MaxCap],
           off' \in [Procs -> [Keys -> 0 .. MaxCap]], actual' \in [Procs -> 0 .. MaxCap],
           out' \in [Procs -> 0 .. MaxCap], crc' = [q \in Procs |-> crc'[q]],
           \A q \in Procs : q # p => /\ off'[q] = off[q] /\ actual'[q] = actual[q]
                                     /\ crc'[q] = crc[q] /\ out'[q] = out[q]
                                     /\ mapped'[q] = mapped[q]
    PROVE  SharedInv'
<1>1. /\ Typed /\ loaded[p] /\ current[p] /\ p \notin upgrading
      /\ \A q \in Procs : Own(q) /\ Sees(q)
      /\ owner' = p /\ op' = [name |-> name, key |-> NoKey, val |-> Nil]
      /\ UNCHANGED <<metaVars, loaded, current, snap, torn, kills, loadVars>>
      /\ HistTyped'
  BY Begins
<1>2. OpTyped'
  BY <1>1, BeginTyped DEF Typed, OpTyped
<1>3. Typed'
  BY <1>1, <1>2 DEF Typed, FileTyped, ProcTyped, metaVars
<1>4. Owned(p)'
  BY <1>1 DEF Owned, InMetaCrc, loadVars
<1>5. \A q \in Procs : q # p => Own(q)' /\ Sees(q)'
  BY <1>1, LeftAlone DEF Same, metaVars
<1> QED BY <1>1, <1>3, <1>4, <1>5, OwnedAgain

\* clearAll, as an operation or at the end of a fullWriteback that has nothing
\* to write.
LEMMA ClearBegins ==
    ASSUME SharedInv, NEW p \in Procs, NEW name \in {"removeMany", "clear", "trim"},
           NEW m \in Maps, Begin(p, name, NoKey, Nil, m), ensures' = ensures, hasFW' \in [Procs -> BOOLEAN],
           NEW keepSpace, Clear(p, keepSpace), Wanted(EmptyMap)'
    PROVE  SharedInv'
<1>1. Typed /\ loaded[p] /\ Own(p)
  BY Begins
<1>2. mapped[p] \in Cap
  BY <1>1, Lengths DEF Own, Cap
<1>3. /\ mem' \in [Cap -> Cell] /\ fileSize' \in Cap /\ fileSize' > 3
      /\ actual'[p] = 0 /\ Region(p)' /\ InFile(p)' /\ actual'[p] < mapped'[p]
      /\ pc' = "metaCrc" /\ inc' /\ after' = "cleared"
      /\ mapped' \in [Procs -> 0 .. MaxCap] /\ actual' \in [Procs -> 0 .. MaxCap]
      /\ crc' = [q \in Procs |-> crc'[q]] /\ off' = off /\ out' = out
      /\ \A q \in Procs : q # p => /\ actual'[q] = actual[q] /\ crc'[q] = crc[q]
                                   /\ mapped'[q] = mapped[q]
  BY <1>1, <1>2, ClearRegion
<1>4. Rewritten(p)'
  BY <1>3 DEF Rewritten
<1>5. off' \in [Procs -> [Keys -> 0 .. MaxCap]] /\ out' \in [Procs -> 0 .. MaxCap]
  BY <1>1, <1>3 DEF Typed, ProcTyped
<1> QED BY <1>3, <1>4, <1>5, InPlaceBegins

\* fullWriteback of a dictionary that leads to records of the file.
LEMMA FullWriteBackBegins ==
    ASSUME SharedInv, NEW p \in Procs, NEW name \in {"removeMany", "trim"},
           NEW m \in Maps, Begin(p, name, NoKey, Nil, m), ensures' = ensures, hasFW' \in [Procs -> BOOLEAN],
           NEW o, Leads(o, mem, actual[p]), FullWriteBack(p, o),
           NEW M, M = View(mem, o), Wanted(M)'
    PROVE  SharedInv'
<1>1. Typed /\ loaded[p] /\ Own(p) /\ Quiet(p)
  BY Begins
<1>2. /\ actual[p] \in Nat /\ actual[p] + 1 <= fileSize /\ mapped[p] \in Nat
      /\ actual[p] < mapped[p]
  BY <1>1, Lengths, QuietFacts DEF Own
<1>3. Count(o) \in Nat /\ (Count(o) = 0 <=> \A k \in Keys : o[k] = 0)
  BY CountNat
<1>4. CASE Count(o) > 0 /\ WriteBack(p, o, "done") /\ UNCHANGED <<fileSize, mapped>>
  <2>1. /\ mem' \in [Cap -> Cell] /\ actual'[p] = Count(o) + 1
        /\ Region(p)' /\ InFile(p)' /\ Decoded(p)' /\ Content(mem', actual'[p]) = View(mem, o)
        /\ pc' = "metaCrc" /\ inc' /\ after' = "done"
        /\ off' \in [Procs -> [Keys -> 0 .. MaxCap]] /\ actual' \in [Procs -> 0 .. MaxCap]
        /\ out' \in [Procs -> 0 .. MaxCap] /\ crc' = [q \in Procs |-> crc'[q]]
        /\ \A q \in Procs : q # p => /\ off'[q] = off[q] /\ actual'[q] = actual[q]
                                     /\ crc'[q] = crc[q] /\ out'[q] = out[q]
    BY <1>1, <1>2, <1>4, WriteBackRegion
  <2>2. Count(o) < actual[p]
    BY <1>2, <1>3, <1>4, CountBound
  <2>3. actual'[p] < mapped'[p]
    BY <1>2, <1>3, <1>4, <2>1, <2>2
  <2>4. Wanted(Content(mem, actual[p]))'
    BY <2>1 DEF Wanted
  <2>5. Rewritten(p)'
    BY <2>1, <2>3, <2>4 DEF Rewritten
  <2>6. /\ fileSize' \in Cap /\ fileSize' > 3 /\ mapped' \in [Procs -> 0 .. MaxCap]
        /\ \A q \in Procs : q # p => mapped'[q] = mapped[q]
    BY <1>1, <1>4 DEF Typed, FileTyped, ProcTyped
  <2> QED BY <2>1, <2>5, <2>6, InPlaceBegins
<1>5. CASE Count(o) = 0 /\ Clear(p, FALSE)
  <2>1. View(mem, o) = EmptyMap
    BY <1>3, <1>5 DEF View, EmptyMap
  <2>2. Wanted(EmptyMap)'
    BY <2>1
  <2> QED BY <1>5, <2>2, ClearBegins
<1> QED BY <1>4, <1>5 DEF FullWriteBack

\* removeValuesForKeys: the file becomes the map without the keys.
LEMMA RemoveManyBeginStep ==
    ASSUME SharedInv, NEW p \in Procs, NEW S \in SUBSET Keys, RemoveManyBegin(p, S)
    PROVE  SharedInv'
<1> PICK m : m = [k \in Keys |-> IF k \in S THEN Nil ELSE Recovered[k]]
  OBVIOUS
<1>0. m \in Maps
  BY RecoveredType DEF SharedInv, Maps
<1>1. /\ Begin(p, "removeMany", NoKey, Nil, m) /\ hasFW' = [hasFW EXCEPT ![p] = FALSE]
      /\ FullWriteBack(p, Erased(p, S)) /\ ensures' = ensures
  BY DEF RemoveManyBegin
<1>2. /\ Typed /\ Quiet(p) /\ Recovered = Content(mem, metaSize) /\ target' = m
      /\ op' = [name |-> "removeMany", key |-> NoKey, val |-> Nil]
  BY <1>0, <1>1, Begins
<1>3. hasFW' \in [Procs -> BOOLEAN]
  BY <1>1, <1>2 DEF Typed, ProcTyped
<1>4. /\ metaSize = actual[p] /\ View(mem, off[p]) = Content(mem, actual[p])
      /\ Leads(off[p], mem, actual[p])
  BY <1>2, QuietFacts
<1>5. Erased(p, S) \in [Keys -> 0 .. MaxCap]
  BY <1>4, CellsAssumption DEF Erased, Leads
<1>6. \A k \in Keys : Erased(p, S)[k] = IF k \in S THEN 0 ELSE off[p][k]
  BY DEF Erased
<1>7. Leads(Erased(p, S), mem, actual[p])
  BY <1>4, <1>5, <1>6 DEF Leads
<1> PICK M : M = View(mem, Erased(p, S))
  OBVIOUS
<1>8. M = [k \in Keys |-> IF k \in S THEN Nil ELSE View(mem, off[p])[k]]
  BY <1>6 DEF View
<1>9. M = target'
  BY <1>2, <1>4, <1>8
<1>10. Wanted(M)'
  BY <1>2, <1>9 DEF Wanted
<1> QED BY <1>0, <1>1, <1>3, <1>7, <1>10, FullWriteBackBegins

\* clearAll.
LEMMA ClearAllStep ==
    ASSUME SharedInv, NEW p \in Procs, NEW keepSpace, ClearAll(p, keepSpace)
    PROVE  SharedInv'
<1>0. EmptyMap \in Maps
  BY DEF EmptyMap, Maps
<1>1. /\ Begin(p, "clear", NoKey, Nil, EmptyMap) /\ Clear(p, keepSpace)
      /\ hasFW' = hasFW /\ ensures' = ensures
  BY DEF ClearAll
<1>2. Typed /\ op' = [name |-> "clear", key |-> NoKey, val |-> Nil] /\ target' = EmptyMap
  BY <1>0, <1>1, Begins
<1>3. hasFW' \in [Procs -> BOOLEAN] /\ Wanted(EmptyMap)'
  BY <1>1, <1>2 DEF Typed, ProcTyped, Wanted
<1> QED BY <1>0, <1>1, <1>3, ClearBegins

\* trim: the same map, in fewer cells, or a file that is only cut.
LEMMA TrimStep ==
    ASSUME SharedInv, NEW p \in Procs, Trim(p)
    PROVE  SharedInv'
<1>0. Recovered \in Maps
  BY RecoveredType DEF SharedInv
<1>1. Begin(p, "trim", NoKey, Nil, Recovered) /\ hasFW' = hasFW /\ ensures' = ensures
  BY DEF Trim
<1>2. /\ Typed /\ Quiet(p) /\ loaded[p] /\ current[p] /\ p \notin upgrading
      /\ \A q \in Procs : Own(q) /\ Sees(q)
      /\ owner' = p /\ op' = [name |-> "trim", key |-> NoKey, val |-> Nil]
      /\ target' = Content(mem, metaSize)
      /\ UNCHANGED <<metaVars, loaded, current, snap, torn, kills, loadVars>>
      /\ HistTyped'
  BY <1>0, <1>1, Begins
<1>3. /\ metaSize = actual[p] /\ out[p] = actual[p] /\ metaSize + 1 <= fileSize
      /\ lastSize + 1 <= fileSize /\ fileSize \in Nat
      /\ View(mem, off[p]) = Content(mem, actual[p]) /\ Leads(off[p], mem, actual[p])
  BY <1>2, QuietFacts, Lengths
<1>4. CASE pc' = "shrink" /\ UNCHANGED <<fileVars, mapped, logVars, inc, after>>
  <2>1. OpTyped'
    BY <1>1, <1>2, <1>4, BeginTyped DEF Typed, OpTyped
  <2>2. Typed'
    BY <1>1, <1>2, <1>4, <2>1 DEF Typed, FileTyped, ProcTyped, fileVars, metaVars, logVars
  <2>3. /\ mem' = mem /\ fileSize' = fileSize /\ crc' = crc /\ actual' = actual /\ off' = off
        /\ out' = out /\ mapped' = mapped /\ loaded' = loaded /\ current' = current
    BY <1>2, <1>4 DEF fileVars, logVars
  <2>4. actual[p] < mapped[p] /\ lastSize < mapped[p]
    BY <1>2 DEF Own, Sees
  <2>5. Quiet(p)'
    BY <1>2, <1>3, <2>3, <2>4, QuietKept
  <2>6. lastSize' <= metaSize'
    BY <1>1, <1>2, <1>3 DEF Trim, Quiet, MetaWhole, metaVars
  <2>7. Owned(p)'
    BY <1>2, <1>4, <2>3, <2>5, <2>6 DEF Owned, InShrink, loadVars
  <2>8. \A q \in Procs : q # p => Own(q)' /\ Sees(q)'
    BY <1>2, <2>3, LeftAlone DEF Same, metaVars
  <2> QED BY <1>2, <2>2, <2>7, <2>8, OwnedAgain
<1>5. CASE FullWriteBack(p, off[p])
  <2> PICK M : M = View(mem, off[p])
    OBVIOUS
  <2>1. Wanted(M)'
    BY <1>2, <1>3 DEF Wanted
  <2>2. hasFW' \in [Procs -> BOOLEAN]
    BY <1>1, <1>2 DEF Typed, ProcTyped
  <2> QED BY <1>0, <1>1, <1>3, <1>5, <2>1, <2>2, FullWriteBackBegins
<1> QED BY <1>4, <1>5 DEF Trim

-----------------------------------------------------------------------------
\* ensureMemorySize finds room, and a dictionary that is not empty.
LEMMA EnsureEnoughStep ==
    ASSUME SharedInv, NEW p \in Procs, EnsureEnough(p)
    PROVE  SharedInv'
<1>1. /\ owner = p /\ pc = "ensure" /\ ~NeedsWriteBack(off[p], mapped[p], out[p])
      /\ ensures' = ensures - 1 /\ pc' = IF ensures = 1 THEN "put" ELSE "ensure"
      /\ UNCHANGED <<fileVars, metaVars, procVars, owner, op, inc, after, histVars, loadVars>>
  BY DEF EnsureEnough, Rewrites
<1>2. /\ Typed /\ Owned(p) /\ InEnsure(p)
      /\ \A q \in Procs : q # p => Own(q) /\ Sees(q)
  BY <1>1, WhenOwned DEF Owned
<1>3. /\ loaded[p] /\ current[p] /\ p \notin upgrading /\ Quiet(p) /\ Appending
      /\ ensures \in 1 .. 2 /\ before = Content(mem, metaSize)
  BY <1>2 DEF Owned, InEnsure, Pending
<1>4. /\ mem' = mem /\ fileSize' = fileSize
      /\ metaSize' = metaSize /\ metaCrc' = metaCrc /\ lastSize' = lastSize /\ lastCrc' = lastCrc
      /\ off' = off /\ actual' = actual /\ crc' = crc /\ out' = out
      /\ loaded' = loaded /\ mapped' = mapped /\ current' = current /\ hasFW' = hasFW
      /\ owner' = owner /\ op' = op /\ before' = before /\ target' = target /\ snap' = snap
      /\ torn' = torn /\ ops' = ops /\ kills' = kills /\ upgrading' = upgrading /\ waits' = waits
  BY <1>1 DEF fileVars, metaVars, procVars, logVars, histVars, loadVars
<1>5. Typed'
  <2>1. pc' \in {"put", "ensure"} /\ ensures' \in 0 .. 2
    BY <1>1, <1>3
  <2>2. OpTyped'
    BY <1>1, <1>2, <1>4, <2>1, SharedAssumption DEF Typed, OpTyped
  <2>3. FileTyped' /\ ProcTyped' /\ HistTyped'
    BY <1>2, <1>4 DEF Typed, FileTyped, ProcTyped, HistTyped
  <2> QED BY <2>2, <2>3 DEF Typed
<1>6. /\ metaSize = actual[p] /\ out[p] = actual[p] /\ Leads(off[p], mem, actual[p])
      /\ metaSize + 1 <= fileSize /\ lastSize + 1 <= fileSize /\ fileSize \in Nat
      /\ actual[p] \in Nat /\ mapped[p] \in Nat
  BY <1>2, <1>3, QuietFacts, Lengths
<1>7. Quiet(p)' /\ Content(mem', metaSize') = Content(mem, metaSize)
  <2>1. actual[p] < mapped[p] /\ lastSize < mapped[p]
    BY <1>3 DEF Quiet, Own, Sees
  <2>2. UNCHANGED <<metaVars, snap>>
    BY <1>4 DEF metaVars
  <2> QED BY <1>2, <1>3, <1>4, <1>6, <2>1, <2>2, QuietKept
<1>8. actual[p] >= 1 /\ actual[p] + 2 < mapped[p]
  <2>1. Count(off[p]) # 0 /\ actual[p] + 2 < mapped[p]
    BY <1>1, <1>6 DEF NeedsWriteBack, SpaceLeft, Fixed32Size
  <2>2. PICK k \in Keys : off[p][k] # 0
    BY <2>1, CountNat
  <2>3. off[p][k] \in 2 .. actual[p]
    BY <1>6, <2>2 DEF Leads
  <2> QED BY <1>6, <2>1, <2>3
<1>9. Owned(p)'
  <2>1. Appending' /\ before' = Content(mem', metaSize')
    BY <1>3, <1>4, <1>7 DEF Appending
  <2>2. CASE ensures = 1
    BY <1>1, <1>3, <1>4, <1>7, <1>8, <2>1, <2>2 DEF Owned, InPut
  <2>3. CASE ensures = 2
    BY <1>1, <1>3, <1>4, <1>7, <2>1, <2>3 DEF Owned, InEnsure, Pending
  <2> QED BY <1>3, <2>2, <2>3
<1>10. \A q \in Procs : q # p => Own(q)' /\ Sees(q)'
  BY <1>2, <1>4, LeftAlone DEF Same
<1> QED BY <1>1, <1>4, <1>5, <1>9, <1>10, OwnedAgain

\* The file grows, or is long enough, for the dictionary and one more record.
LEMMA ExpandStep ==
    ASSUME SharedInv, NEW p \in Procs, Expand(p)
    PROVE  SharedInv'
<1>1. /\ owner = p /\ pc = "ensure" /\ pc' = "rewrite"
      /\ UNCHANGED <<metaVars, loaded, logVars, hasFW, current, owner, op, ensures, inc, after,
                     histVars, loadVars>>
  BY DEF Expand
<1>2. /\ Typed /\ Owned(p) /\ InEnsure(p)
      /\ \A q \in Procs : q # p => Own(q) /\ Sees(q)
  BY <1>1, WhenOwned DEF Owned
<1>3. loaded[p] /\ current[p] /\ p \notin upgrading /\ Quiet(p) /\ Pending(p)
  BY <1>2 DEF Owned, InEnsure
<1>4. /\ metaSize' = metaSize /\ metaCrc' = metaCrc /\ lastSize' = lastSize /\ lastCrc' = lastCrc
      /\ off' = off /\ actual' = actual /\ crc' = crc /\ out' = out
      /\ loaded' = loaded /\ current' = current /\ hasFW' = hasFW
      /\ owner' = owner /\ op' = op /\ ensures' = ensures /\ before' = before /\ target' = target /\ snap' = snap
      /\ torn' = torn /\ ops' = ops /\ kills' = kills /\ upgrading' = upgrading /\ waits' = waits
  BY <1>1 DEF metaVars, logVars, histVars, loadVars
<1>5. /\ metaSize = actual[p] /\ out[p] = actual[p] /\ metaSize \in Nat /\ lastSize \in Nat
      /\ metaSize + 1 <= fileSize /\ lastSize + 1 <= fileSize
      /\ actual[p] < mapped[p] /\ lastSize < mapped[p]
      /\ fileSize \in Cap /\ fileSize > 3 /\ mapped[p] \in Cap /\ mem \in [Cap -> Cell]
      /\ LenNeeded(off[p]) \in Nat /\ LenNeeded(off[p]) >= 3
  <2>1. /\ metaSize = actual[p] /\ out[p] = actual[p]
        /\ metaSize + 1 <= fileSize /\ lastSize + 1 <= fileSize
    BY <1>2, <1>3, QuietFacts
  <2>2. actual[p] < mapped[p] /\ lastSize < mapped[p]
    BY <1>3 DEF Quiet, Own, Sees
  <2>3. /\ metaSize \in Nat /\ lastSize \in Nat /\ fileSize \in Cap /\ fileSize > 3
        /\ mapped[p] \in Cap /\ mem \in [Cap -> Cell]
    BY <1>2, <2>1, <2>2, Lengths DEF Cap
  <2>4. LenNeeded(off[p]) \in Nat /\ LenNeeded(off[p]) >= 3
    BY FutureUsageNat, CountNat
  <2> QED BY <2>1, <2>2, <2>3, <2>4
<1> DEFINE Grown ==
      /\ mem' \in [Cap -> Cell] /\ fileSize' \in Cap /\ fileSize' > 3
      /\ mapped' \in [Procs -> 0 .. MaxCap] /\ mapped[p] <= mapped'[p]
      /\ LenNeeded(off[p]) < mapped'[p]
      /\ \A q \in Procs : q # p => mapped'[q] = mapped[q]
      /\ \A n \in Nat : n + 1 <= fileSize /\ n + 1 <= mapped[p] =>
            n + 1 <= fileSize' /\ \A i \in 1 .. n : mem'[i] = mem[i]
<1>6. Grown
  <2>1. CASE ~MustExpand(off[p], mapped[p]) /\ UNCHANGED <<fileVars, mapped>>
    <3>1. LenNeeded(off[p]) < mapped[p]
      BY <1>5, <2>1 DEF MustExpand, Cap
    <3> QED BY <1>2, <1>5, <2>1, <3>1 DEF fileVars, Typed, ProcTyped, Cap
  <2>2. ASSUME NEW size \in Cap, Doubled(off[p], mapped[p], size), Truncate(p, size)
        PROVE  Grown
    <3>1. size >= mapped[p] /\ size > LenNeeded(off[p])
      BY <1>5, <2>2, DoubledGrows
    <3>2. size > 3
      BY <1>5, <3>1 DEF Cap
    <3>3. /\ mem' \in [Cap -> Cell] /\ fileSize' \in Cap /\ fileSize' > 3
          /\ mapped' \in [Procs -> 0 .. MaxCap]
          /\ mapped'[p] = size /\ \A q \in Procs : q # p => mapped'[q] = mapped[q]
          /\ \A n \in Nat : n + 1 <= fileSize /\ n + 1 <= mapped[p] /\ n + 1 <= size =>
                n + 1 <= fileSize' /\ \A i \in 1 .. n : mem'[i] = mem[i]
      BY <1>2, <1>5, <2>2, <3>2, TruncateKeeps
    <3>4. \A n \in Nat : n + 1 <= mapped[p] => n + 1 <= size
      BY <1>5, <3>1 DEF Cap
    <3> QED BY <3>1, <3>3, <3>4
  <2> QED BY <2>1, <2>2 DEF Expand
<1>7. Typed'
  BY <1>1, <1>2, <1>4, <1>6, SharedAssumption DEF Typed, FileTyped, ProcTyped, OpTyped, HistTyped
<1>8. Quiet(p)' /\ Content(mem', metaSize') = Content(mem, metaSize)
  <2>1. /\ fileSize' \in Nat /\ lastSize + 1 <= fileSize' /\ metaSize + 1 <= fileSize'
        /\ \A i \in 1 .. lastSize : mem'[i] = mem[i]
        /\ \A i \in 1 .. metaSize : mem'[i] = mem[i]
    <3>1. lastSize + 1 <= mapped[p] /\ metaSize + 1 <= mapped[p]
      BY <1>5 DEF Cap
    <3>2. fileSize' \in Nat
      BY <1>6 DEF Cap
    <3>3. /\ lastSize \in Nat /\ lastSize + 1 <= fileSize
          /\ metaSize \in Nat /\ metaSize + 1 <= fileSize
      BY <1>5
    <3>4. \A n \in Nat : n + 1 <= fileSize /\ n + 1 <= mapped[p] =>
             n + 1 <= fileSize' /\ \A i \in 1 .. n : mem'[i] = mem[i]
      BY <1>6
    <3> QED BY ONLY <3>1, <3>2, <3>3, <3>4
  <2>2. actual[p] < mapped'[p] /\ lastSize < mapped'[p]
    BY <1>5, <1>6, <1>7 DEF Typed, ProcTyped, Cap
  <2>3. UNCHANGED <<metaVars, snap>>
    BY <1>4 DEF metaVars
  <2> QED BY <1>2, <1>3, <1>4, <1>5, <2>1, <2>2, <2>3, QuietKept
<1>9. Owned(p)'
  <2>1. Pending(p)'
    BY <1>3, <1>4, <1>8 DEF Pending, Appending
  <2>2. LenNeeded(off'[p]) < mapped'[p]
    BY <1>4, <1>6
  <2>3. InRewrite(p)'
    BY <1>8, <2>1, <2>2 DEF InRewrite, LenNeeded, SizeOfDic, Count
  <2> QED BY <1>1, <1>3, <1>4, <2>3 DEF Owned
<1>10. \A q \in Procs : q # p => Own(q)' /\ Sees(q)'
  BY <1>2, <1>4, <1>6, LeftAlone DEF Same
<1> QED BY <1>1, <1>4, <1>7, <1>9, <1>10, OwnedAgain

\* The file cannot grow: nothing has changed.
LEMMA ExpandFailsStep ==
    ASSUME SharedInv, NEW p \in Procs, ExpandFails(p)
    PROVE  SharedInv'
<1>1. /\ owner = p /\ pc = "ensure" /\ Leave
      /\ UNCHANGED <<fileVars, metaVars, procVars, snap, torn, ops, kills, loadVars>>
  BY DEF ExpandFails
<1>2. /\ Typed /\ ~torn /\ Quiet(p)
      /\ \A q \in Procs : q # p => Own(q) /\ Sees(q)
  BY <1>1, WhenOwned DEF Owned, InEnsure
<1>3. OpTyped' /\ owner' = NoProc /\ before' \in Maps /\ target' \in Maps
  BY <1>1, LeaveTyped
<1>4. Typed'
  BY <1>1, <1>2, <1>3
  DEF Typed, FileTyped, ProcTyped, HistTyped, fileVars, metaVars, procVars, logVars, loadVars
<1>5. ASSUME NEW q \in Procs PROVE Own(q)' /\ Sees(q)'
  <2>1. Own(q) /\ Sees(q)
    BY <1>2 DEF Quiet
  <2>2. Same(q) /\ current'[q] = current[q] /\ lastSize' = lastSize
    BY <1>1 DEF Same, procVars, logVars, metaVars
  <2> QED BY <2>1, <2>2, LeftAlone
<1>6. LastHeld' /\ MetaWhole'
  BY <1>1, <1>2 DEF Quiet, LastHeld, MetaWhole, fileVars, metaVars
<1> QED BY <1>3, <1>4, <1>5, <1>6, IdleAgain

\* doFullWriteBack of an operation that appends next.
LEMMA RewriteStep ==
    ASSUME SharedInv, NEW p \in Procs, Rewrite(p)
    PROVE  SharedInv'
<1>1. /\ owner = p /\ pc = "rewrite" /\ WriteBack(p, off[p], "ensured")
      /\ UNCHANGED <<fileSize, metaVars, loaded, mapped, hasFW, current, owner, op, ensures,
                     histVars, loadVars>>
  BY DEF Rewrite
<1>2. /\ Typed /\ Owned(p) /\ InRewrite(p)
      /\ \A q \in Procs : q # p => Own(q) /\ Sees(q)
  BY <1>1, WhenOwned DEF Owned
<1>3. /\ loaded[p] /\ current[p] /\ p \notin upgrading /\ Quiet(p) /\ Appending
      /\ ensures \in 1 .. 2 /\ before = Content(mem, metaSize) /\ LenNeeded(off[p]) < mapped[p]
  BY <1>2 DEF Owned, InRewrite, Pending
<1>4. /\ metaSize = actual[p] /\ actual[p] + 1 <= fileSize /\ Leads(off[p], mem, actual[p])
      /\ View(mem, off[p]) = Content(mem, actual[p])
  BY <1>2, <1>3, QuietFacts
<1>5. /\ mem' \in [Cap -> Cell]
      /\ actual'[p] = Count(off[p]) + 1 /\ actual'[p] \in 1 .. MaxCap
      /\ Region(p)' /\ InFile(p)' /\ Decoded(p)'
      /\ Content(mem', actual'[p]) = View(mem, off[p])
      /\ pc' = "metaCrc" /\ inc' /\ after' = "ensured"
      /\ off' \in [Procs -> [Keys -> 0 .. MaxCap]] /\ actual' \in [Procs -> 0 .. MaxCap]
      /\ out' \in [Procs -> 0 .. MaxCap] /\ crc' = [q \in Procs |-> crc'[q]]
      /\ \A q \in Procs : q # p => /\ off'[q] = off[q] /\ actual'[q] = actual[q]
                                   /\ crc'[q] = crc[q] /\ out'[q] = out[q]
  BY <1>1, <1>2, <1>4, WriteBackRegion
<1>6. Typed'
  BY <1>1, <1>2, <1>5, SharedAssumption
  DEF Typed, FileTyped, ProcTyped, OpTyped, HistTyped, metaVars, histVars, loadVars
<1>7. actual'[p] >= 1 /\ actual'[p] + 2 < mapped'[p] /\ actual'[p] < mapped'[p]
  <2>1. LenNeeded(off[p]) = Count(off[p]) + 3 /\ Count(off[p]) \in Nat /\ mapped[p] \in Nat
    BY <1>2, FutureUsageNat, CountNat, Lengths
  <2> QED BY <1>1, <1>3, <1>5, <2>1
<1>8. Rewritten(p)'
  <2>1. op' = op /\ before' = before /\ target' = target /\ ensures' = ensures
    BY <1>1 DEF histVars
  <2>2. Appending' /\ ensures' \in 1 .. 2
    BY <1>3, <2>1 DEF Appending
  <2>3. Content(mem', actual'[p]) = before'
    BY <1>3, <1>4, <1>5, <2>1
  <2> QED BY <1>5, <1>7, <2>2, <2>3 DEF Rewritten
<1>9. Owned(p)'
  BY <1>1, <1>3, <1>5, <1>8 DEF Owned, InMetaCrc, loadVars
<1>10. \A q \in Procs : q # p => Own(q)' /\ Sees(q)'
  BY <1>1, <1>2, <1>5, LeftAlone DEF Same, metaVars
<1> QED BY <1>1, <1>6, <1>9, <1>10, OwnedAgain

\* doAppendDataWithKey writes behind the region, and the digest follows.
LEMMA PutStep ==
    ASSUME SharedInv, NEW p \in Procs, Put(p)
    PROVE  SharedInv'
<1>1. /\ owner = p /\ pc = "put" /\ out[p] + 1 <= fileSize - Fixed32Size
      /\ mem' = [mem EXCEPT ![out[p] + 1] = Rec(op.key, op.val)]
      /\ out' = [out EXCEPT ![p] = @ + 1] /\ actual' = [actual EXCEPT ![p] = @ + 1]
      /\ crc' = [crc EXCEPT ![p] = Append(@, mem'[actual[p] + 1])]
      /\ pc' = "metaCrc" /\ inc' = FALSE /\ after' = "appended"
      /\ UNCHANGED <<fileSize, metaVars, loaded, mapped, off, hasFW, current, owner, op, ensures,
                     histVars, loadVars>>
  BY DEF Put, WriteMeta
<1>2. /\ Typed /\ Owned(p) /\ InPut(p)
      /\ \A q \in Procs : q # p => Own(q) /\ Sees(q)
  BY <1>1, WhenOwned DEF Owned
<1>3. /\ loaded[p] /\ current[p] /\ p \notin upgrading /\ Quiet(p) /\ Appending
      /\ before = Content(mem, metaSize) /\ actual[p] >= 1 /\ actual[p] + 2 < mapped[p]
  BY <1>2 DEF Owned, InPut
<1> DEFINE n == actual[p]
           r == Rec(op.key, op.val)
<1>4. /\ metaSize = n /\ out[p] = n /\ n \in Nat /\ n >= 1 /\ n + 1 \in Cap
      /\ mapped[p] \in Nat /\ n + 2 <= fileSize /\ fileSize \in Nat
      /\ crc[p] = Crc(mem, n) /\ off[p] = Decode(mem, n) /\ mem \in [Cap -> Cell]
      /\ metaSize # 0 => lastSize <= metaSize
      /\ lastSize \in Nat /\ lastSize + 1 <= fileSize /\ metaSize + 1 <= fileSize
  <2>1. /\ metaSize = n /\ out[p] = n /\ crc[p] = Crc(mem, n) /\ off[p] = Decode(mem, n)
        /\ metaSize # 0 => lastSize <= metaSize
        /\ lastSize + 1 <= fileSize /\ metaSize + 1 <= fileSize
    BY <1>2, <1>3, QuietFacts
  <2>2. /\ n \in Nat /\ mapped[p] \in Nat /\ fileSize \in Nat /\ fileSize <= MaxCap
        /\ mem \in [Cap -> Cell] /\ MaxCap \in Nat /\ lastSize \in Nat
    BY <1>2, Lengths
  <2>3. n + 2 <= fileSize
    BY <1>1, <2>1, <2>2 DEF Fixed32Size
  <2>4. n + 1 \in Cap
    BY <2>2, <2>3 DEF Cap
  <2> QED BY <1>3, <2>1, <2>2, <2>3, <2>4
<1>5. /\ op.key \in Keys /\ op.val \in Vals \cup {Nil}
      /\ op.name \in {"set", "remove"} /\ (op.val = Nil <=> op.name = "remove") /\ r \in Cell
  BY <1>3, CellsAssumption DEF Appending, Rec, Cell
<1> HIDE DEF r
<1>6. /\ mem' = [mem EXCEPT ![n + 1] = r] /\ mem' \in [Cap -> Cell] /\ mem'[n + 1] = r
      /\ \A i \in Cap : i # n + 1 => mem'[i] = mem[i]
  BY <1>1, <1>4, <1>5 DEF r
<1>7. \A i \in 1 .. n : mem'[i] = mem[i]
  <2>1. ASSUME NEW i \in 1 .. n PROVE i \in Cap /\ i # n + 1
    <3>1. i \in Nat /\ 1 <= i /\ i <= n /\ n \in Nat /\ n + 1 <= MaxCap /\ MaxCap \in Nat
      BY <1>4, CellsAssumption DEF Cap
    <3> QED BY <3>1 DEF Cap
  <2> QED BY <1>6, <2>1
<1>8. /\ actual'[p] = n + 1 /\ out'[p] = n + 1 /\ off'[p] = off[p]
      /\ crc'[p] = Crc(mem', n + 1)
  <2>1. actual'[p] = n + 1 /\ out'[p] = n + 1 /\ off'[p] = off[p]
    BY <1>1, <1>2, <1>4 DEF Typed, ProcTyped
  <2>2. crc'[p] = Append(crc[p], mem'[n + 1])
    BY <1>1, <1>2 DEF Typed, ProcTyped
  <2>3. Crc([mem EXCEPT ![n + 1] = r], n + 1) = Append(Crc(mem, n), r)
    BY <1>4, <1>5, CrcAppend
  <2> QED BY <1>4, <1>6, <2>1, <2>2, <2>3
<1>9. \A q \in Procs : q # p => /\ off'[q] = off[q] /\ actual'[q] = actual[q]
                                /\ crc'[q] = crc[q] /\ out'[q] = out[q] /\ mapped'[q] = mapped[q]
                                /\ loaded'[q] = loaded[q] /\ current'[q] = current[q]
  BY <1>1, <1>2 DEF Typed, ProcTyped
<1>10. Typed'
  <2>1. n + 1 \in 0 .. MaxCap
    BY <1>4 DEF Cap
  <2>2. actual' \in [Procs -> 0 .. MaxCap] /\ out' \in [Procs -> 0 .. MaxCap]
    BY <1>1, <1>2, <1>4, <2>1 DEF Typed, ProcTyped
  <2>3. crc' = [q \in Procs |-> crc'[q]]
    <3>1. PICK c : crc' = [crc EXCEPT ![p] = c]
      BY <1>1
    <3>2. crc = [q \in Procs |-> crc[q]]
      BY <1>2 DEF Typed, ProcTyped
    <3> QED BY <3>1, <3>2
  <2> QED BY <1>1, <1>2, <1>6, <2>2, <2>3, SharedAssumption
      DEF Typed, FileTyped, ProcTyped, OpTyped, HistTyped, metaVars, histVars, loadVars
<1>11. Region(p)' /\ InFile(p)'
  <2>1. n + 1 \in 0 .. MaxCap
    BY <1>4 DEF Cap
  <2>2. Crc(mem', n + 1) \in [1 .. n + 1 -> Cell]
    BY <1>6, <2>1, CrcIsRegion
  <2>3. Fits(n + 1, fileSize)
    BY <1>4 DEF Fits, Fixed32Size
  <2> QED BY <1>1, <1>8, <2>2, <2>3 DEF Region, InFile
<1>12. /\ Decode(mem', n + 1) = [Decode(mem, n) EXCEPT ![op.key] = IF op.val = Nil THEN 0 ELSE n + 1]
       /\ Content(mem', n + 1) = [Content(mem, n) EXCEPT ![op.key] = op.val]
  <2>1. mem'[n + 1] = Rec(op.key, op.val) /\ \A i \in 2 .. n : mem'[i] = mem[i]
    BY <1>6, <1>7 DEF r
  <2> QED BY <1>4, <1>5, <2>1, DecodeAppend
<1>13. LastHeld' /\ MetaWhole' /\ Content(mem', metaSize) = Content(mem, metaSize)
  <2>1. lastSize <= n /\ \A i \in 1 .. lastSize : i \in 1 .. n
    BY <1>4
  <2>2. LastHeld'
    BY <1>1, <1>2, <1>3, <1>4, <1>7, <2>1, LastKept DEF Quiet, metaVars, histVars
  <2>3. MetaWhole' /\ Content(mem', metaSize') = Content(mem, metaSize)
    BY <1>1, <1>2, <1>3, <1>4, <1>7, WholeKept DEF Quiet, metaVars
  <2> QED BY <1>1, <2>2, <2>3 DEF metaVars
<1>14. JustAppended(p)'
  <2>1. /\ after' = "appended" /\ ~inc' /\ Appending' /\ out'[p] = actual'[p]
        /\ before' = before /\ target' = target /\ lastSize' <= metaSize' /\ actual'[p] = metaSize' + 1
    BY <1>1, <1>3, <1>4, <1>8 DEF Appending, metaVars, histVars
  <2>2. actual'[p] < mapped'[p]
    BY <1>1, <1>3, <1>4, <1>8
  <2>3. Sees(p)'
    BY <1>1, <1>3 DEF Quiet, Sees, metaVars
  <2>4. before' = Content(mem', metaSize')
    BY <1>1, <1>3, <1>13, <2>1 DEF metaVars
  <2>5. Decode(mem', actual'[p])
          = [off'[p] EXCEPT ![op'.key] = IF op'.name = "set" THEN actual'[p] ELSE 0]
    BY <1>1, <1>4, <1>5, <1>8, <1>12
  <2>6. Content(mem', actual'[p]) = [before' EXCEPT ![op'.key] = op'.val]
    BY <1>1, <1>3, <1>4, <1>8, <1>12, <2>1
  <2> QED BY <1>11, <1>13, <2>1, <2>2, <2>3, <2>4, <2>5, <2>6 DEF JustAppended
<1>15. Owned(p)'
  BY <1>1, <1>3, <1>13, <1>14 DEF Owned, InMetaCrc, loadVars
<1>16. \A q \in Procs : q # p => Own(q)' /\ Sees(q)'
  BY <1>1, <1>2, <1>9, LeftAlone DEF Same, metaVars
<1> QED BY <1>1, <1>10, <1>15, <1>16, OwnedAgain

\* The first of the two stores of writeActualSize.
LEMMA StoreCrcStep ==
    ASSUME SharedInv, NEW p \in Procs, StoreCrc(p)
    PROVE  SharedInv'
<1>1. /\ owner = p /\ pc = "metaCrc" /\ metaCrc' = crc[p] /\ pc' = "metaSize"
      /\ UNCHANGED <<fileVars, metaSize, lastCrc, lastSize, procVars, owner, op, ensures, inc,
                     after, histVars, loadVars>>
  BY DEF StoreCrc
<1>2. /\ Typed /\ Owned(p) /\ InMetaCrc(p) /\ loaded[p] /\ current[p] /\ p \notin upgrading
      /\ \A q \in Procs : q # p => Own(q) /\ Sees(q)
  BY <1>1, WhenOwned DEF Owned
<1>3. /\ mem' = mem /\ fileSize' = fileSize
      /\ metaSize' = metaSize /\ lastSize' = lastSize /\ lastCrc' = lastCrc
      /\ off' = off /\ actual' = actual /\ crc' = crc /\ out' = out
      /\ loaded' = loaded /\ mapped' = mapped /\ current' = current /\ hasFW' = hasFW
      /\ owner' = owner /\ op' = op /\ ensures' = ensures /\ inc' = inc /\ after' = after
      /\ before' = before /\ target' = target /\ snap' = snap
      /\ torn' = torn /\ ops' = ops /\ kills' = kills /\ upgrading' = upgrading /\ waits' = waits
  BY <1>1 DEF fileVars, procVars, logVars, histVars, loadVars
<1>4. Typed'
  BY <1>1, <1>2, <1>3, SharedAssumption DEF Typed, FileTyped, ProcTyped, OpTyped, HistTyped
<1>5. /\ (Region(p)' = Region(p)) /\ (InFile(p)' = InFile(p)) /\ (Decoded(p)' = Decoded(p))
      /\ (LastHeld' = LastHeld) /\ (Sees(p)' = Sees(p)) /\ (Appending' = Appending)
  BY <1>3 DEF Region, InFile, Decoded, LastHeld, Sees, Appending
<1>6. (JustAppended(p) => JustAppended(p)') /\ (Rewritten(p) => Rewritten(p)')
  <2>1. ASSUME JustAppended(p) PROVE JustAppended(p)'
    BY <1>3, <1>5, <2>1 DEF JustAppended
  <2>2. ASSUME Rewritten(p) PROVE Rewritten(p)'
    BY <1>3, <1>5, <2>2 DEF Rewritten, Wanted
  <2> QED BY <2>1, <2>2
<1>7. Owned(p)'
  BY <1>1, <1>2, <1>3, <1>6 DEF Owned, InMetaCrc, InMetaSize
<1>8. \A q \in Procs : q # p => Own(q)' /\ Sees(q)'
  BY <1>2, <1>3, LeftAlone DEF Same
<1> QED BY <1>1, <1>3, <1>4, <1>7, <1>8, OwnedAgain

\* The second store, after a rewrite: the region in the file is the one
\* confirmed, and only p's copy of the sequence is the file's.
LEMMA Confirmed ==
    ASSUME SharedInv, NEW p \in Procs, NEW ret, ret # "appended", StoreSize(p, ret),
           UNCHANGED fileVars
    PROVE  /\ Typed /\ ~torn /\ p \notin upgrading /\ loaded[p] /\ Rewritten(p) /\ after = ret
           /\ owner = p /\ pc = "metaSize"
           /\ LastHeld' /\ MetaWhole'
           /\ metaSize' = actual[p] /\ metaCrc' = crc[p] /\ lastSize' = actual[p]
           /\ snap' = Content(mem, actual[p])
           /\ FileTyped' /\ snap' \in Maps /\ current' \in [Procs -> BOOLEAN]
           /\ current'[p] /\ \A q \in Procs : q # p => ~current'[q]
           /\ UNCHANGED <<loaded, torn, ops, kills, loadVars>>
           /\ \A q \in Procs : q # p => Own(q)
<1>1. /\ owner = p /\ pc = "metaSize" /\ after = ret /\ metaSize' = actual[p]
      /\ UNCHANGED <<metaCrc, loaded, torn, ops, kills, loadVars>>
  BY DEF StoreSize
<1>2. /\ Typed /\ ~torn /\ Owned(p) /\ InMetaSize(p) /\ loaded[p] /\ p \notin upgrading
      /\ \A q \in Procs : q # p => Own(q)
  BY <1>1, WhenOwned DEF Owned
<1>3. metaCrc = crc[p] /\ Rewritten(p)
  BY <1>1, <1>2 DEF InMetaSize, JustAppended
<1>4. /\ lastSize' = actual[p] /\ lastCrc' = crc[p] /\ snap' = Content(mem, actual[p])
      /\ current' = [q \in Procs |-> q = p]
  BY <1>3 DEF Rewritten, StoreSize
<1>5. /\ current' \in [Procs -> BOOLEAN] /\ current'[p]
      /\ \A q \in Procs : q # p => ~current'[q]
  <2>1. \A q \in Procs : (q = p) \in BOOLEAN
    OBVIOUS
  <2>2. current' \in [Procs -> BOOLEAN]
    BY <1>4, <2>1
  <2>3. current'[p] /\ \A q \in Procs : q # p => ~current'[q]
    BY <1>4
  <2> QED BY <2>2, <2>3
<1>6. actual[p] \in 0 .. MaxCap /\ crc[p] = Crc(mem, actual[p]) /\ Fits(actual[p], fileSize)
  BY <1>2, <1>3, Lengths DEF Rewritten, InFile
<1>7. LastHeld' /\ MetaWhole'
  BY <1>1, <1>3, <1>4, <1>6 DEF LastHeld, MetaWhole, Valid, fileVars
<1>8. FileTyped'
  BY <1>1, <1>2, <1>4, <1>6 DEF Typed, FileTyped, fileVars
<1>9. snap' \in Maps
  BY <1>2, <1>4, <1>6, Lengths, ContentType DEF Maps
<1> QED BY <1>1, <1>2, <1>3, <1>4, <1>5, <1>7, <1>8, <1>9

\* writeActualSize of expandAndWriteBack has returned.
LEMMA WriteBackDoneStep ==
    ASSUME SharedInv, NEW p \in Procs, WriteBackDone(p)
    PROVE  SharedInv'
<1>1. /\ StoreSize(p, "ensured") /\ hasFW' = [hasFW EXCEPT ![p] = TRUE]
      /\ ensures' = ensures - 1 /\ pc' = IF ensures = 1 THEN "put" ELSE "ensure"
      /\ UNCHANGED <<fileVars, mapped, logVars, owner, op, inc, after, before, target>>
  BY DEF WriteBackDone
<1>2. /\ Typed /\ ~torn /\ p \notin upgrading /\ loaded[p] /\ Rewritten(p) /\ after = "ensured"
      /\ owner = p /\ LastHeld' /\ MetaWhole'
      /\ metaSize' = actual[p] /\ metaCrc' = crc[p] /\ lastSize' = actual[p]
      /\ FileTyped' /\ snap' \in Maps /\ current' \in [Procs -> BOOLEAN]
      /\ current'[p] /\ \A q \in Procs : q # p => ~current'[q]
      /\ UNCHANGED <<loaded, torn, ops, kills, loadVars>>
      /\ \A q \in Procs : q # p => Own(q)
  BY <1>1, Confirmed
<1>3. /\ Region(p) /\ Decoded(p) /\ actual[p] < mapped[p] /\ Appending /\ ensures \in 1 .. 2
      /\ Content(mem, actual[p]) = before /\ actual[p] >= 1 /\ actual[p] + 2 < mapped[p]
  BY <1>2 DEF Rewritten
<1>4. /\ mem' = mem /\ off' = off /\ actual' = actual /\ crc' = crc /\ out' = out
      /\ mapped' = mapped /\ loaded' = loaded /\ upgrading' = upgrading /\ waits' = waits
  BY <1>1, <1>2 DEF fileVars, logVars, loadVars
<1>5. Typed'
  <2>1. pc' \in {"put", "ensure"} /\ ensures' \in 0 .. 2
    BY <1>1, <1>3
  <2>2. OpTyped'
    BY <1>1, <1>2, <2>1, SharedAssumption DEF Typed, OpTyped
  <2>3. ProcTyped'
    BY <1>1, <1>2, <1>4 DEF Typed, ProcTyped
  <2>4. HistTyped'
    BY <1>1, <1>2, <1>4 DEF Typed, HistTyped
  <2> QED BY <1>2, <2>2, <2>3, <2>4 DEF Typed
<1>6. Quiet(p)'
  BY <1>2, <1>3, <1>4 DEF Quiet, Own, Region, Decoded, Sees, Agrees
<1>7. Appending' /\ before' = Content(mem', metaSize')
  BY <1>1, <1>2, <1>3, <1>4 DEF Appending
<1>8. Owned(p)'
  <2>1. CASE ensures = 1
    BY <1>1, <1>2, <1>3, <1>4, <1>6, <1>7, <2>1 DEF Owned, InPut
  <2>2. CASE ensures = 2
    BY <1>1, <1>2, <1>3, <1>4, <1>6, <1>7, <2>2 DEF Owned, InEnsure, Pending
  <2> QED BY <1>3, <2>1, <2>2
<1>9. \A q \in Procs : q # p => Own(q)' /\ Sees(q)'
  BY <1>2, <1>4, LeftAlone DEF Same, Sees
<1> QED BY <1>1, <1>2, <1>5, <1>8, <1>9, OwnedAgain

\* The appended record is described by the meta: the dictionary has it too.
LEMMA AppendDoneStep ==
    ASSUME SharedInv, NEW p \in Procs, AppendDone(p)
    PROVE  SharedInv' /\ MetaWhole'
<1>1. /\ StoreSize(p, "appended") /\ Leave
      /\ UNCHANGED <<fileVars, mapped, actual, crc, out>>
      /\ owner = p /\ pc = "metaSize" /\ after = "appended" /\ metaSize' = actual[p]
      /\ UNCHANGED <<metaCrc, loaded, torn, ops, kills, loadVars>>
  BY DEF AppendDone, StoreSize
<1>2. /\ Typed /\ ~torn /\ Owned(p) /\ InMetaSize(p) /\ loaded[p] /\ current[p]
      /\ \A q \in Procs : q # p => Own(q) /\ Sees(q)
  BY <1>1, WhenOwned DEF Owned
<1>3. JustAppended(p) /\ metaCrc = crc[p]
  BY <1>1, <1>2 DEF InMetaSize, Rewritten
<1>4. UNCHANGED <<lastSize, lastCrc, current, snap>>
  BY <1>1, <1>3 DEF StoreSize, JustAppended
<1>5. /\ op.key \in Keys /\ op.name \in {"set", "remove"}
      /\ Region(p) /\ InFile(p) /\ out[p] = actual[p] /\ actual[p] < mapped[p] /\ Sees(p)
      /\ actual[p] = metaSize + 1 /\ lastSize <= metaSize /\ LastHeld
      /\ Decode(mem, actual[p])
            = [off[p] EXCEPT ![op.key] = IF op.name = "set" THEN actual[p] ELSE 0]
  BY <1>3 DEF JustAppended, Appending
<1>6. /\ actual[p] \in 0 .. MaxCap /\ metaSize \in Nat /\ lastSize \in Nat
      /\ off \in [Procs -> [Keys -> 0 .. MaxCap]] /\ mem \in [Cap -> Cell]
      /\ hasFW \in [Procs -> BOOLEAN] /\ 0 \in 0 .. MaxCap
  BY <1>2, Lengths DEF Typed, ProcTyped
<1>7. /\ off'[p] = Decode(mem, actual[p]) /\ off' \in [Procs -> [Keys -> 0 .. MaxCap]]
      /\ hasFW' \in [Procs -> BOOLEAN] /\ \A q \in Procs : q # p => off'[q] = off[q]
  <2>1. CASE /\ op.name = "set" /\ off' = [off EXCEPT ![p][op.key] = actual[p]]
             /\ hasFW' = [hasFW EXCEPT ![p] = FALSE]
    BY <1>5, <1>6, <2>1
  <2>2. CASE op.name = "remove" /\ off' = [off EXCEPT ![p][op.key] = 0] /\ UNCHANGED hasFW
    BY <1>5, <1>6, <2>2
  <2> QED BY <2>1, <2>2 DEF AppendDone
<1>8. Typed'
  <2>1. OpTyped' /\ owner' = NoProc /\ before' \in Maps /\ target' \in Maps
    BY <1>1, LeaveTyped
  <2>2. FileTyped'
    BY <1>1, <1>2, <1>4, <1>6 DEF Typed, FileTyped, fileVars
  <2>3. ProcTyped'
    BY <1>1, <1>2, <1>4, <1>7 DEF Typed, ProcTyped
  <2>4. HistTyped'
    BY <1>1, <1>2, <1>4, <2>1 DEF Typed, HistTyped, loadVars
  <2> QED BY <2>1, <2>2, <2>3, <2>4 DEF Typed
<1>9. LastHeld' /\ MetaWhole'
  <2>1. LastHeld'
    BY <1>1, <1>4, <1>5 DEF LastHeld, fileVars
  <2>2. lastSize <= actual[p]
    BY <1>5, <1>6
  <2>3. MetaWhole'
    BY <1>1, <1>3, <1>4, <1>5, <2>2 DEF MetaWhole, Valid, InFile, fileVars
  <2> QED BY <2>1, <2>3
<1>10. Own(p)' /\ Sees(p)'
  <2>1. Decode(mem, actual[p]) = Decode(crc[p], actual[p])
    BY <1>5, <1>6, CrcIsRegion DEF InFile
  <2>2. Own(p)'
    BY <1>1, <1>5, <1>7, <2>1 DEF Own, Region, Decoded
  <2>3. Sees(p)'
    BY <1>1, <1>4, <1>5 DEF Sees
  <2> QED BY <2>2, <2>3
<1>11. ASSUME NEW q \in Procs, q # p PROVE Own(q)' /\ Sees(q)'
  <2>1. Same(q) /\ current'[q] = current[q] /\ lastSize' = lastSize
    BY <1>1, <1>4, <1>7, <1>11 DEF Same
  <2> QED BY <1>2, <1>11, <2>1, LeftAlone
<1> QED BY <1>1, <1>8, <1>9, <1>10, <1>11, IdleAgain DEF Leave

\* Back in fullWriteback's caller: trim goes on, the others return.
LEMMA ReturnStep ==
    ASSUME SharedInv, NEW p \in Procs, owner = p, pc = "metaSize", Return,
           Typed /\ ~torn /\ p \notin upgrading /\ loaded[p],
           FileTyped', ProcTyped', snap' \in Maps, Quiet(p)', lastSize' = metaSize',
           current'[p], UNCHANGED <<loaded, torn, ops, kills, loadVars>>,
           \A q \in Procs : q # p => Own(q)' /\ Sees(q)'
    PROVE  SharedInv'
<1>1. torn' = torn /\ ops' = ops /\ kills' = kills /\ upgrading' = upgrading /\ waits' = waits
  BY DEF loadVars
<1>2. CASE pc' = "shrink" /\ UNCHANGED <<owner, op, ensures, inc, after, before, target>>
  <2>1. Typed'
    BY <1>1, <1>2, SharedAssumption DEF Typed, OpTyped, HistTyped
  <2>2. lastSize' <= metaSize'
    BY <2>1 DEF Typed, FileTyped
  <2>3. Owned(p)'
    BY <1>1, <1>2, <2>2 DEF Owned, InShrink
  <2> QED BY <1>2, <2>1, <2>3, OwnedAgain
<1>3. CASE Leave
  <2>1. OpTyped' /\ owner' = NoProc /\ before' \in Maps /\ target' \in Maps
    BY <1>3, LeaveTyped
  <2>2. Typed'
    BY <1>1, <2>1 DEF Typed, HistTyped
  <2>3. \A q \in Procs : Own(q)' /\ Sees(q)'
    BY DEF Quiet
  <2> QED BY <2>1, <2>2, <2>3, IdleAgain DEF Quiet
<1> QED BY <1>2, <1>3 DEF Return

\* writeActualSize of fullWriteback has returned.
LEMMA FullWriteBackDoneStep ==
    ASSUME SharedInv, NEW p \in Procs, FullWriteBackDone(p)
    PROVE  SharedInv'
<1>1. /\ StoreSize(p, "done") /\ hasFW' = [hasFW EXCEPT ![p] = TRUE] /\ Return
      /\ UNCHANGED <<fileVars, mapped, logVars>>
  BY DEF FullWriteBackDone
<1>2. /\ Typed /\ ~torn /\ p \notin upgrading /\ loaded[p] /\ Rewritten(p) /\ after = "done"
      /\ owner = p /\ pc = "metaSize" /\ LastHeld' /\ MetaWhole'
      /\ metaSize' = actual[p] /\ metaCrc' = crc[p] /\ lastSize' = actual[p]
      /\ FileTyped' /\ snap' \in Maps /\ current' \in [Procs -> BOOLEAN]
      /\ current'[p] /\ \A q \in Procs : q # p => ~current'[q]
      /\ UNCHANGED <<loaded, torn, ops, kills, loadVars>>
      /\ \A q \in Procs : q # p => Own(q)
  BY <1>1, Confirmed
<1>3. Region(p) /\ Decoded(p) /\ actual[p] < mapped[p]
  BY <1>2 DEF Rewritten
<1>4. /\ mem' = mem /\ off' = off /\ actual' = actual /\ crc' = crc /\ out' = out
      /\ mapped' = mapped /\ loaded' = loaded
  BY <1>1, <1>2 DEF fileVars, logVars
<1>5. ProcTyped'
  BY <1>1, <1>2, <1>4 DEF Typed, ProcTyped
<1>6. Quiet(p)'
  BY <1>2, <1>3, <1>4 DEF Quiet, Own, Region, Decoded, Sees, Agrees
<1>7. \A q \in Procs : q # p => Own(q)' /\ Sees(q)'
  BY <1>2, <1>4, LeftAlone DEF Same, Sees
<1>8. lastSize' = metaSize'
  BY <1>2
<1> QED BY <1>1, <1>2, <1>5, <1>6, <1>7, <1>8, ReturnStep

\* The empty region is described by the meta and loaded again.
LEMMA ClearDoneStep ==
    ASSUME SharedInv, NEW p \in Procs, ClearDone(p)
    PROVE  SharedInv'
<1>1. /\ StoreSize(p, "cleared") /\ Return
      /\ off' = [off EXCEPT ![p] = NoOffsets] /\ out' = [out EXCEPT ![p] = 0]
      /\ hasFW' = [hasFW EXCEPT ![p] = FALSE] /\ mapped' = [mapped EXCEPT ![p] = fileSize]
      /\ UNCHANGED <<fileVars, actual, crc>>
  BY DEF ClearDone
<1>2. /\ Typed /\ ~torn /\ p \notin upgrading /\ loaded[p] /\ Rewritten(p) /\ after = "cleared"
      /\ owner = p /\ pc = "metaSize" /\ LastHeld' /\ MetaWhole'
      /\ metaSize' = actual[p] /\ metaCrc' = crc[p] /\ lastSize' = actual[p]
      /\ FileTyped' /\ snap' \in Maps /\ current' \in [Procs -> BOOLEAN]
      /\ current'[p] /\ \A q \in Procs : q # p => ~current'[q]
      /\ UNCHANGED <<loaded, torn, ops, kills, loadVars>>
      /\ \A q \in Procs : q # p => Own(q)
  BY <1>1, Confirmed
<1>3. Region(p) /\ InFile(p) /\ actual[p] = 0
  BY <1>2 DEF Rewritten
<1>4. /\ fileSize \in 0 .. MaxCap /\ fileSize > 3 /\ 0 \in 0 .. MaxCap
      /\ NoOffsets \in [Keys -> 0 .. MaxCap]
  <2>1. 0 \in 0 .. MaxCap
    BY CellsAssumption
  <2> QED BY <1>2, <2>1, Lengths DEF NoOffsets
<1>5. /\ off'[p] = NoOffsets /\ out'[p] = 0 /\ mapped'[p] = fileSize
      /\ \A q \in Procs : q # p => /\ off'[q] = off[q] /\ out'[q] = out[q]
                                   /\ mapped'[q] = mapped[q]
  BY <1>1, <1>2 DEF Typed, ProcTyped
<1>6. ProcTyped'
  BY <1>1, <1>2, <1>4 DEF Typed, ProcTyped
<1>7. Quiet(p)'
  <2>1. crc[p] = Crc(mem, 0) /\ Decode(crc[p], 0) = NoOffsets
    BY <1>3, EmptyRegion DEF InFile
  <2>2. Own(p)'
    BY <1>1, <1>3, <1>4, <1>5, <2>1 DEF Own, Region, Decoded
  <2>3. Sees(p)' /\ Agrees(p)'
    BY <1>1, <1>2, <1>3, <1>4, <1>5 DEF Sees, Agrees
  <2> QED BY <1>2, <2>2, <2>3 DEF Quiet
<1>8. \A q \in Procs : q # p => Own(q)' /\ Sees(q)'
  BY <1>1, <1>2, <1>5, LeftAlone DEF Same, Sees
<1>9. lastSize' = metaSize'
  BY <1>2
<1> QED BY <1>1, <1>2, <1>6, <1>7, <1>8, <1>9, ReturnStep

\* trim cuts the file behind the region, in the file and in the mapping.
LEMMA ShrinkStep ==
    ASSUME SharedInv, NEW p \in Procs, Shrink(p)
    PROVE  SharedInv' /\ MetaWhole' /\ Content(mem', metaSize') = Content(mem, metaSize)
<1>1. /\ owner = p /\ pc = "shrink" /\ Leave
      /\ UNCHANGED <<metaVars, loaded, off, actual, crc, hasFW, current, snap, torn, ops, kills,
                     loadVars>>
  BY DEF Shrink
<1>2. /\ Typed /\ ~torn /\ Owned(p) /\ InShrink(p) /\ loaded[p]
      /\ \A q \in Procs : q # p => Own(q) /\ Sees(q)
  BY <1>1, WhenOwned DEF Owned
<1>3. Quiet(p) /\ lastSize <= metaSize
  BY <1>2 DEF InShrink
<1>4. /\ metaSize = actual[p] /\ out[p] = actual[p] /\ metaSize + 1 <= fileSize
      /\ actual[p] \in Nat /\ lastSize \in Nat /\ actual[p] < mapped[p]
      /\ mapped[p] \in Cap /\ fileSize \in Cap /\ fileSize > 3 /\ mem \in [Cap -> Cell]
      /\ mapped \in [Procs -> 0 .. MaxCap] /\ out \in [Procs -> 0 .. MaxCap]
      /\ actual[p] \in 0 .. MaxCap
  <2>1. /\ metaSize = actual[p] /\ out[p] = actual[p] /\ metaSize + 1 <= fileSize
    BY <1>2, <1>3, QuietFacts
  <2>2. actual[p] < mapped[p]
    BY <1>2, <1>3 DEF Quiet, Own
  <2>3. actual[p] \in 0 .. MaxCap /\ mapped[p] \in 0 .. MaxCap /\ MaxCap \in Nat
    BY <1>2, Lengths
  <2>4. mapped[p] \in Cap
    BY <2>2, <2>3 DEF Cap
  <2> QED BY <1>2, <2>1, <2>2, <2>3, <2>4 DEF Typed, FileTyped, ProcTyped
<1> DEFINE Cutting ==
      /\ mem' \in [Cap -> Cell] /\ fileSize' \in Cap /\ fileSize' > 3
      /\ mapped' \in [Procs -> 0 .. MaxCap] /\ out' \in [Procs -> 0 .. MaxCap]
      /\ out'[p] = actual[p] /\ actual[p] < mapped'[p]
      /\ \A q \in Procs : q # p => mapped'[q] = mapped[q] /\ out'[q] = out[q]
      /\ metaSize + 1 <= fileSize' /\ \A i \in 1 .. metaSize : mem'[i] = mem[i]
<1>5. Cutting
  <2>1. CASE UNCHANGED <<fileVars, mapped, out>>
    BY <1>4, <2>1 DEF fileVars
  <2>2. ASSUME NEW size \in Cap, TrimSize(actual[p], mapped[p], size), Truncate(p, size),
               out' = [out EXCEPT ![p] = actual[p]]
        PROVE  Cutting
    <3>1. actual[p] + Fixed32Size <= mapped[p]
      BY <1>4 DEF Fixed32Size, Cap
    <3>2. actual[p] + 1 <= size /\ expectedCapacity <= size
      BY <1>4, <2>2, <3>1, TrimKeeps DEF Fixed32Size
    <3>3. size > 3
      BY <3>2, SizingAssumption DEF Cap
    <3>4. /\ mem' \in [Cap -> Cell] /\ fileSize' \in Cap /\ fileSize' > 3
          /\ mapped' \in [Procs -> 0 .. MaxCap]
          /\ mapped'[p] = size /\ \A q \in Procs : q # p => mapped'[q] = mapped[q]
          /\ \A n \in Nat : n + 1 <= fileSize /\ n + 1 <= mapped[p] /\ n + 1 <= size =>
                n + 1 <= fileSize' /\ \A i \in 1 .. n : mem'[i] = mem[i]
      BY <1>2, <1>4, <2>2, <3>3, TruncateKeeps
    <3>5. metaSize + 1 <= fileSize' /\ \A i \in 1 .. metaSize : mem'[i] = mem[i]
      BY <1>4, <3>1, <3>2, <3>4 DEF Fixed32Size
    <3>6. /\ out' \in [Procs -> 0 .. MaxCap] /\ out'[p] = actual[p]
          /\ \A q \in Procs : q # p => out'[q] = out[q]
      BY <1>4, <2>2
    <3>7. actual[p] < mapped'[p]
      BY <1>4, <3>2, <3>4 DEF Cap
    <3> QED BY <3>4, <3>5, <3>6, <3>7
  <2> QED BY <2>1, <2>2 DEF Shrink
<1>6. Typed'
  <2>1. OpTyped' /\ owner' = NoProc /\ before' \in Maps /\ target' \in Maps
    BY <1>1, LeaveTyped
  <2>2. FileTyped' /\ ProcTyped'
    BY <1>1, <1>2, <1>5 DEF Typed, FileTyped, ProcTyped, metaVars
  <2>3. HistTyped'
    BY <1>1, <1>2, <2>1 DEF Typed, HistTyped, loadVars
  <2> QED BY <2>1, <2>2, <2>3 DEF Typed
<1>7. Quiet(p)' /\ Content(mem', metaSize') = Content(mem, metaSize)
  <2>1. fileSize' \in Nat /\ lastSize + 1 <= fileSize' /\ lastSize < mapped'[p]
    BY <1>3, <1>4, <1>5, <1>6 DEF Cap, Typed, ProcTyped
  <2>2. \A i \in 1 .. lastSize : mem'[i] = mem[i]
    <3>1. \A i \in 1 .. lastSize : i \in 1 .. metaSize
      BY <1>3, <1>4
    <3> QED BY <1>5, <3>1
  <2>3. UNCHANGED <<metaVars, snap>>
    BY <1>1
  <2> QED BY <1>1, <1>2, <1>3, <1>5, <2>1, <2>2, <2>3, QuietKept
<1>8. ASSUME NEW q \in Procs PROVE Own(q)' /\ Sees(q)'
  <2>1. CASE q = p
    BY <1>7, <2>1 DEF Quiet
  <2>2. CASE q # p
    <3>1. Same(q) /\ current'[q] = current[q] /\ lastSize' = lastSize
      BY <1>1, <1>5, <2>2 DEF Same, metaVars
    <3> QED BY <1>2, <2>2, <3>1, LeftAlone
  <2> QED BY <2>1, <2>2
<1> QED BY <1>1, <1>6, <1>7, <1>8, IdleAgain DEF Leave, Quiet

-----------------------------------------------------------------------------
\* So does a step that changes nothing.
LEMMA Stutter ==
    ASSUME SharedInv, UNCHANGED vars
    PROVE  SharedInv'
<1>1. UNCHANGED <<fileVars, metaVars, procVars, opVars, histVars, loadVars>>
  BY DEF vars
<1>2. Typed /\ Typed'
  <2>1. Typed
    BY DEF SharedInv
  <2> QED BY <1>1, <2>1 DEF Typed, FileTyped, ProcTyped, OpTyped, HistTyped,
             fileVars, metaVars, procVars, logVars, opVars, histVars, loadVars
<1>3. \A q \in Procs : /\ Same(q) /\ current'[q] = current[q]
                       /\ (Own(q) => Own(q)') /\ (Sees(q) => Sees(q)')
  <2> SUFFICES ASSUME NEW q \in Procs
               PROVE  /\ Same(q) /\ current'[q] = current[q]
                      /\ (Own(q) => Own(q)') /\ (Sees(q) => Sees(q)')
    OBVIOUS
  <2>1. Same(q) /\ current'[q] = current[q] /\ lastSize' = lastSize
    BY <1>1 DEF Same, procVars, logVars, metaVars
  <2> QED BY <2>1, LeftAlone
<1>4. CASE torn
  BY <1>1, <1>2, <1>4 DEF SharedInv, histVars
<1>5. CASE ~torn /\ owner = NoProc
  <2>1. /\ \A q \in Procs : Own(q) /\ Sees(q)
        /\ LastHeld /\ (MetaWhole \/ MetaHalf)
    BY <1>5, WhenIdle DEF Free
  <2>2. LastHeld' /\ (MetaWhole' \/ MetaHalf')
    BY <1>1, <2>1 DEF LastHeld, MetaWhole, MetaHalf, fileVars, metaVars, histVars
  <2> QED BY <1>1, <1>2, <1>3, <1>5, <2>1, <2>2, IdleAgain DEF opVars
<1>6. ASSUME NEW p \in Procs, owner = p PROVE SharedInv'
  <2>1. Owned(p) /\ \A q \in Procs : q # p => Own(q) /\ Sees(q)
    BY <1>6, WhenOwned
  <2>2. p \notin upgrading'
    BY <1>1, <2>1 DEF Owned, loadVars
  <2>3. Owned(p)'
    BY <1>1, <1>3, <2>1, <2>2, OwnedKept DEF histVars
  <2> QED BY <1>1, <1>2, <1>3, <1>6, <2>1, <2>3, OwnedAgain DEF opVars
<1> QED BY <1>2, <1>4, <1>5, <1>6 DEF Typed, OpTyped

\* Every step keeps the invariant.
LEMMA NextSharedInv ==
    ASSUME SharedInv, [Next]_vars
    PROVE  SharedInv'
<1>1. CASE Next
  <2>1. ASSUME NEW p \in Procs, PartialLoad(p) PROVE SharedInv'
    BY <2>1, PartialLoadStep
  <2>2. ASSUME NEW p \in Procs, LoadValid(p) PROVE SharedInv'
    BY <2>2, LoadValidStep
  <2>3. ASSUME NEW p \in Procs, LoadFallback(p) PROVE SharedInv'
    BY <2>3, LoadFallbackStep
  <2>4. ASSUME NEW p \in Procs, StoreEmpty(p) PROVE SharedInv'
    BY <2>4, StoreEmptyStep
  <2>5. ASSUME NEW p \in Procs, NEW k \in Keys, NEW v \in Vals, SetBegin(p, k, v) PROVE SharedInv'
    BY <2>5, SetBeginStep
  <2>6. ASSUME NEW p \in Procs, NEW k \in Keys, RemoveBegin(p, k) PROVE SharedInv'
    BY <2>6, RemoveBeginStep
  <2>7. ASSUME NEW p \in Procs, NEW S \in SUBSET Keys, RemoveManyBegin(p, S) PROVE SharedInv'
    BY <2>7, RemoveManyBeginStep
  <2>8. ASSUME NEW p \in Procs, NEW keepSpace \in BOOLEAN, ClearAll(p, keepSpace) PROVE SharedInv'
    BY <2>8, ClearAllStep
  <2>9. ASSUME NEW p \in Procs, Trim(p) PROVE SharedInv'
    BY <2>9, TrimStep
  <2>10. ASSUME NEW p \in Procs, EnsureEnough(p) PROVE SharedInv'
    BY <2>10, EnsureEnoughStep
  <2>11. ASSUME NEW p \in Procs, Expand(p) PROVE SharedInv'
    BY <2>11, ExpandStep
  <2>12. ASSUME NEW p \in Procs, ExpandFails(p) PROVE SharedInv'
    BY <2>12, ExpandFailsStep
  <2>13. ASSUME NEW p \in Procs, Rewrite(p) PROVE SharedInv'
    BY <2>13, RewriteStep
  <2>14. ASSUME NEW p \in Procs, Put(p) PROVE SharedInv'
    BY <2>14, PutStep
  <2>15. ASSUME NEW p \in Procs, StoreCrc(p) PROVE SharedInv'
    BY <2>15, StoreCrcStep
  <2>16. ASSUME NEW p \in Procs, WriteBackDone(p) PROVE SharedInv'
    BY <2>16, WriteBackDoneStep
  <2>17. ASSUME NEW p \in Procs, AppendDone(p) PROVE SharedInv'
    BY <2>17, AppendDoneStep
  <2>18. ASSUME NEW p \in Procs, FullWriteBackDone(p) PROVE SharedInv'
    BY <2>18, FullWriteBackDoneStep
  <2>19. ASSUME NEW p \in Procs, ClearDone(p) PROVE SharedInv'
    BY <2>19, ClearDoneStep
  <2>20. ASSUME NEW p \in Procs, Shrink(p) PROVE SharedInv'
    BY <2>20, ShrinkStep
  <2>21. ASSUME NEW p \in Procs, ClearMemoryCache(p) PROVE SharedInv'
    BY <2>21, ClearMemoryCacheStep
  <2>22. ASSUME NEW p \in Procs, Kill(p) \/ BusError(p) PROVE SharedInv'
    BY <2>22, KillStep
  <2>23. CASE Stopped
    BY <2>23, Stutter DEF Stopped
  <2> QED BY <1>1, <2>1, <2>2, <2>3, <2>4, <2>5, <2>6, <2>7, <2>8, <2>9, <2>10, <2>11, <2>12,
             <2>13, <2>14, <2>15, <2>16, <2>17, <2>18, <2>19, <2>20, <2>21, <2>22, <2>23 DEF Next
<1>2. CASE UNCHANGED vars
  BY <1>2, Stutter
<1> QED BY <1>1, <1>2

\* The invariant holds throughout, for any number of processes, keys and values
\* and any capacity of the file and the disk.
THEOREM SpecSharedInv == Spec => []SharedInv
<1>1. Init => SharedInv
  BY InitSharedInv
<1>2. SharedInv /\ [Next]_vars => SharedInv'
  BY NextSharedInv
<1> QED BY <1>1, <1>2, PTL DEF Spec

-----------------------------------------------------------------------------
\* The variables have their types; the lock is held by the process, if any,
\* whose operation is under way.
THEOREM SpecTypeOK == Spec => []TypeOK
<1>1. SharedInv => TypeOK
  <2> SUFFICES ASSUME SharedInv PROVE TypeOK
    OBVIOUS
  <2>1. (owner = NoProc) = (pc = "idle")
    BY DEF SharedInv, Typed, OpTyped
  <2> QED BY <2>1 DEF SharedInv, Typed, FileTyped, ProcTyped, OpTyped, HistTyped, TypeOK
<1> QED BY <1>1, SpecSharedInv, PTL

\* What a process whose copies of the sequence, the digest and the size are the
\* meta's reads from its own dictionary is the map in the file, whoever appended,
\* rewrote, cut or cleared it in between, and whoever was killed in an append
\* (checkLoadData and partialLoadFromFile).
THEOREM SpecInSyncReadsFile == Spec => []InSyncReadsFile
<1>1. SharedInv => InSyncReadsFile
  <2> SUFFICES ASSUME SharedInv, owner = NoProc, ~torn, NEW p \in Procs, InSync(p)
               PROVE  View(mem, off[p]) = Recovered /\ out[p] = actual[p]
    BY DEF InSyncReadsFile
  <2>1. Typed /\ Own(p) /\ Sees(p) /\ LastHeld /\ (MetaWhole \/ MetaHalf)
    BY WhenIdle DEF Free
  <2>2. Agrees(p)
    BY DEF InSync, Agrees
  <2>3. MetaWhole
    BY <2>1, <2>2, AgreesIsWhole DEF Own
  <2>4. Quiet(p)
    BY <2>1, <2>2, <2>3 DEF Quiet
  <2> QED BY <2>1, <2>3, <2>4, QuietFacts, WholeIsRead
<1> QED BY <1>1, SpecSharedInv, PTL

\* Outside a rewrite in place the last confirmed region is in the file, and the
\* meta describes the file or an append that was not finished.
LEMMA MetaOutsideRewrite ==
    ASSUME SharedInv, ~torn, ~InPlace
    PROVE  Typed /\ LastHeld /\ (MetaWhole \/ MetaHalf)
<1>1. CASE owner = NoProc
  BY <1>1, WhenIdle DEF Free
<1>2. ASSUME NEW p \in Procs, owner = p PROVE Typed /\ LastHeld /\ (MetaWhole \/ MetaHalf)
  <2>1. Typed /\ Owned(p)
    BY <1>2, WhenOwned
  <2>2. CASE pc \in {"ensure", "rewrite", "put", "shrink"}
    BY <2>1, <2>2 DEF Owned, InEnsure, InRewrite, InPut, InShrink, Quiet
  <2>3. CASE pc = "metaCrc"
    BY <2>1, <2>3 DEF Owned, InMetaCrc, InPlace, JustAppended, Rewritten
  <2>4. CASE pc = "metaSize"
    <3>1. JustAppended(p) /\ metaCrc = crc[p]
      BY <2>1, <2>4 DEF Owned, InMetaSize, InPlace, Rewritten
    <3> QED BY <2>1, <3>1 DEF JustAppended, Region, MetaHalf
  <2>5. pc \in {"ensure", "rewrite", "put", "shrink", "metaCrc", "metaSize"}
    BY <2>1 DEF Owned
  <2> QED BY <2>2, <2>3, <2>4, <2>5
<1> QED BY <1>1, <1>2 DEF SharedInv, Typed, OpTyped

\* No kill short of one inside a rewrite in place makes checkDataValid discard
\* the file: what a load finds is the region of the meta or the last confirmed.
THEOREM SpecNothingIsDiscarded == Spec => []NothingIsDiscarded
<1>1. SharedInv => NothingIsDiscarded
  <2> SUFFICES ASSUME SharedInv, ~torn, ~InPlace PROVE LoadCase \in {"valid", "last"}
    BY DEF NothingIsDiscarded
  <2> QED BY MetaOutsideRewrite, WholeIsRead, HalfIsLast
<1> QED BY <1>1, SpecSharedInv, PTL

-----------------------------------------------------------------------------
\* All the processes together implement one map.  The file gives it while no
\* operation is under way, and while the owner still has to change the file.

\* A load depends on the two files alone.
LEMMA SameFiles ==
    ASSUME UNCHANGED <<fileVars, metaVars>>
    PROVE  Recovered' = Recovered
<1>1. /\ mem' = mem /\ fileSize' = fileSize
      /\ metaSize' = metaSize /\ metaCrc' = metaCrc /\ lastSize' = lastSize /\ lastCrc' = lastCrc
  BY DEF fileVars, metaVars
<1>2. LoadCase' = LoadCase
  BY <1>1 DEF LoadCase
<1> QED BY <1>1, <1>2 DEF Recovered, LoadSize

\* WholeIsRead of the files a step leaves.
LEMMA WholeIsReadNext ==
    ASSUME MetaWhole'
    PROVE  Recovered' = Content(mem', metaSize')
BY DEF MetaWhole, LoadCase, Recovered, LoadSize

\* What the map is before the owner changes the file.
LEMMA OwnersMap ==
    ASSUME SharedInv, NEW p \in Procs, owner = p
    PROVE  /\ ~torn
           /\ pc \in {"ensure", "rewrite", "put"} => Recovered = before
           /\ pc \in {"ensure", "rewrite", "put", "shrink"} =>
                 Shared = Recovered /\ Recovered = Content(mem, metaSize)
           /\ pc \in {"metaCrc", "metaSize"} => Shared = before
           /\ pc \in {"ensure", "rewrite", "put", "shrink", "metaCrc", "metaSize"}
<1>1. ~torn /\ Owned(p)
  BY WhenOwned
<1>2. pc \in {"ensure", "rewrite", "put", "shrink"} => MetaWhole
  BY <1>1 DEF Owned, InEnsure, InRewrite, InPut, InShrink, Quiet
<1>3. pc \in {"ensure", "rewrite", "put"} => before = Content(mem, metaSize)
  BY <1>1 DEF Owned, InEnsure, InRewrite, InPut, Pending
<1> QED BY <1>1, <1>2, <1>3, WholeIsRead DEF Shared, Owned

\* The map, and what is promised of it, is as it was.
Unmoved == UNCHANGED <<Shared, snap, torn, kills, Busy, Goal>>

\* What it takes to be idle, and to be busy, in terms of this module.
LEMMA BusyFacts ==
    /\ pc \in {"idle", "shrink"} => Busy = FALSE /\ Goal = EmptyMap
    /\ pc \notin {"idle", "shrink"} => Busy = TRUE /\ Goal = target
BY DEF Busy, Goal

LEMMA BusyFactsNext ==
    /\ pc' \in {"idle", "shrink"} => Busy' = FALSE /\ Goal' = EmptyMap
    /\ pc' \notin {"idle", "shrink"} => Busy' = TRUE /\ Goal' = target'
BY DEF Busy, Goal, EmptyMap

\* A load, or the end of a process between two operations, leaves the map alone;
\* so does the store of an empty region when that is what a load finds.
LEMMA ReadersStutter ==
    ASSUME SharedInv, NEW p \in Procs,
           \/ PartialLoad(p) \/ LoadValid(p) \/ LoadFallback(p) \/ ClearMemoryCache(p)
           \/ StoreEmpty(p) /\ Recovered = EmptyMap
    PROVE  Unmoved
<1>1. Free /\ UNCHANGED <<opVars, histVars>> /\ UNCHANGED fileVars
  BY DEF PartialLoad, LoadValid, LoadFallback, ClearMemoryCache, StoreEmpty, Load, Ready
<1>2. Typed /\ pc = "idle" /\ ~torn /\ LastHeld
  BY <1>1, WhenIdle
<1>3. pc' = "idle" /\ ~torn' /\ torn' = torn /\ kills' = kills /\ snap' = snap
  BY <1>1, <1>2 DEF opVars, histVars
<1>4. Recovered' = Recovered
  <2>1. CASE PartialLoad(p) \/ LoadValid(p) \/ ClearMemoryCache(p)
    <3>1. UNCHANGED <<fileVars, metaVars>>
      BY <2>1 DEF PartialLoad, LoadValid, ClearMemoryCache, Load, metaVars
    <3> QED BY <3>1, SameFiles
  <2>2. CASE LoadFallback(p)
    <3>1. /\ metaSize' = lastSize /\ metaCrc' = lastCrc
          /\ lastSize' = lastSize /\ lastCrc' = lastCrc
          /\ Recovered = Content(mem, lastSize)
      BY <2>2 DEF LoadFallback, Load, Recovered, LoadSize
    <3>2. lastSize \in Nat /\ mem' = mem /\ fileSize' = fileSize
      BY <1>1, <1>2, Lengths DEF fileVars
    <3>3. MetaWhole'
      BY <1>2, <3>1, <3>2 DEF MetaWhole, LastHeld
    <3> QED BY <3>1, <3>2, <3>3, WholeIsReadNext
  <2>3. CASE StoreEmpty(p) /\ Recovered = EmptyMap
    <3>1. metaSize' = 0 /\ metaCrc' = <<>> /\ mem' = mem /\ fileSize' = fileSize
      BY <2>3 DEF StoreEmpty, fileVars
    <3>2. Fits(0, fileSize) /\ Crc(mem, 0) = <<>> /\ Content(mem, 0) = EmptyMap
      BY <1>2, Lengths, EmptyRegion DEF Fits, Fixed32Size
    <3>3. MetaWhole'
      BY <3>1, <3>2 DEF MetaWhole, Valid
    <3> QED BY <2>3, <3>1, <3>2, <3>3, WholeIsReadNext
  <2> QED BY <2>1, <2>2, <2>3
<1>5. Busy' = Busy /\ Goal' = Goal
  BY <1>2, <1>3, BusyFacts, BusyFactsNext
<1> QED BY <1>2, <1>3, <1>4, <1>5 DEF Unmoved, Shared

\* The operation that begins has not changed the map yet: of what it writes in
\* place at once, the meta says nothing.  What it is to make of the map is m.
LEMMA BeginsStart ==
    ASSUME SharedInv, NEW p \in Procs, NEW name, NEW k, NEW v, NEW m, Begin(p, name, k, v, m),
           pc' = "metaCrc" \/ (pc' \in {"ensure", "shrink"} /\ UNCHANGED fileVars)
    PROVE  /\ Shared = Recovered /\ Recovered \in Maps
           /\ pc' = "shrink" => Unmoved
           /\ pc' # "shrink" => Abstract!Start(m)
<1>1. /\ ~torn /\ pc = "idle" /\ before' = Recovered /\ target' = m
      /\ UNCHANGED <<metaVars, snap, torn, kills>>
  BY WhenIdle DEF Begin, Ready
<1>2. Shared = Recovered /\ Recovered \in Maps
  BY <1>1, RecoveredType DEF Shared, SharedInv
<1>3. Shared' = Shared
  <2>1. CASE pc' = "metaCrc"
    BY <1>1, <1>2, <2>1 DEF Shared
  <2>2. CASE pc' \in {"ensure", "shrink"} /\ UNCHANGED fileVars
    <3>1. Recovered' = Recovered
      BY <1>1, <2>2, SameFiles
    <3> QED BY <1>1, <1>2, <2>2, <3>1 DEF Shared
  <2> QED BY <2>1, <2>2
<1>4. Busy = FALSE /\ Goal = EmptyMap
  BY <1>1, BusyFacts
<1>5. ASSUME pc' = "shrink" PROVE Unmoved
  <2>1. Busy' = FALSE /\ Goal' = EmptyMap
    BY <1>5, BusyFactsNext
  <2> QED BY <1>1, <1>3, <1>4, <2>1 DEF Unmoved
<1>6. ASSUME pc' # "shrink" PROVE Abstract!Start(m)
  <2>1. Busy' = TRUE /\ Goal' = m
    BY <1>1, <1>6, BusyFactsNext
  <2> QED BY <1>1, <1>3, <1>4, <2>1 DEF Abstract!Start
<1> QED BY <1>2, <1>5, <1>6

\* What begins is a set, or the removal of no, one, some or all the keys.
LEMMA BeginsAreStarts ==
    ASSUME SharedInv, NEW p \in Procs,
           \/ \E k \in Keys, v \in Vals : SetBegin(p, k, v)
           \/ \E k \in Keys : RemoveBegin(p, k)
           \/ \E S \in SUBSET Keys : RemoveManyBegin(p, S)
           \/ \E keepSpace \in BOOLEAN : ClearAll(p, keepSpace)
           \/ Trim(p)
    PROVE  Abstract!Next \/ Unmoved
<1>1. ASSUME NEW o, FullWriteBack(p, o) PROVE pc' = "metaCrc"
  BY <1>1 DEF FullWriteBack, WriteBack, Clear, WriteMeta
<1>2. ASSUME NEW k \in Keys, NEW v \in Vals, SetBegin(p, k, v) PROVE Abstract!Next
  <2>1. Begin(p, "set", k, v, [Recovered EXCEPT ![k] = v]) /\ pc' = "ensure" /\ UNCHANGED fileVars
    BY <1>2 DEF SetBegin
  <2>2. Shared = Recovered /\ Abstract!Start([Recovered EXCEPT ![k] = v])
    BY <2>1, BeginsStart
  <2>3. Abstract!Set(k, v)
    BY <2>2 DEF Abstract!Set
  <2> QED BY <2>3 DEF Abstract!Next
<1>3. ASSUME NEW k \in Keys, RemoveBegin(p, k) PROVE Abstract!Next
  <2>1. Begin(p, "remove", k, Nil, [Recovered EXCEPT ![k] = Nil]) /\ pc' = "ensure" /\ UNCHANGED fileVars
    BY <1>3 DEF RemoveBegin
  <2>2. /\ Shared = Recovered /\ Recovered \in Maps
        /\ Abstract!Start([Recovered EXCEPT ![k] = Nil])
    BY <2>1, BeginsStart
  <2>3. [Recovered EXCEPT ![k] = Nil] = [j \in Keys |-> IF j \in {k} THEN Nil ELSE Shared[j]]
    BY <2>2 DEF Maps
  <2>4. Abstract!Remove({k})
    BY <2>2, <2>3 DEF Abstract!Remove
  <2>5. {k} \in SUBSET Keys
    OBVIOUS
  <2> QED BY <2>4, <2>5 DEF Abstract!Next
<1>4. ASSUME NEW S \in SUBSET Keys, RemoveManyBegin(p, S) PROVE Abstract!Next
  <2> PICK m : m = [j \in Keys |-> IF j \in S THEN Nil ELSE Recovered[j]]
    OBVIOUS
  <2>1. Begin(p, "removeMany", NoKey, Nil, m) /\ pc' = "metaCrc"
    BY <1>1, <1>4 DEF RemoveManyBegin
  <2>2. Shared = Recovered /\ Abstract!Start(m)
    BY <2>1, BeginsStart
  <2>3. Abstract!Remove(S)
    BY <2>2 DEF Abstract!Remove
  <2> QED BY <2>3 DEF Abstract!Next
<1>5. ASSUME NEW keepSpace \in BOOLEAN, ClearAll(p, keepSpace) PROVE Abstract!Next
  <2>1. Begin(p, "clear", NoKey, Nil, EmptyMap) /\ pc' = "metaCrc"
    BY <1>5 DEF ClearAll, Clear, WriteMeta
  <2>2. Abstract!Start(EmptyMap)
    BY <2>1, BeginsStart
  <2>3. EmptyMap = [j \in Keys |-> IF j \in Keys THEN Nil ELSE Shared[j]]
    BY DEF EmptyMap
  <2>4. Abstract!Remove(Keys)
    BY <2>2, <2>3 DEF Abstract!Remove
  <2> QED BY <2>4 DEF Abstract!Next
<1>6. CASE Trim(p)
  <2>1. /\ Begin(p, "trim", NoKey, Nil, Recovered)
        /\ pc' = "metaCrc" \/ (pc' = "shrink" /\ UNCHANGED fileVars)
    BY <1>1, <1>6 DEF Trim
  <2>2. /\ Shared = Recovered /\ Recovered \in Maps
        /\ pc' = "shrink" => Unmoved
        /\ pc' # "shrink" => Abstract!Start(Recovered)
    BY <2>1, BeginsStart
  <2>3. Recovered = [j \in Keys |-> IF j \in {} THEN Nil ELSE Shared[j]]
    BY <2>2 DEF Maps
  <2>4. Unmoved \/ Abstract!Remove({})
    BY <2>2, <2>3 DEF Abstract!Remove
  <2> QED BY <2>4 DEF Abstract!Next
<1> QED BY <1>2, <1>3, <1>4, <1>5, <1>6

\* The steps of the owner up to the store that makes its change the map.
LEMMA OwnersStutter ==
    ASSUME SharedInv, SharedInv', NEW p \in Procs,
           EnsureEnough(p) \/ Expand(p) \/ Rewrite(p) \/ Put(p) \/ StoreCrc(p) \/ Shrink(p)
    PROVE  Unmoved
<1>1. owner = p
  BY DEF EnsureEnough, Expand, Rewrite, Put, StoreCrc, Shrink
<1>2. /\ ~torn
      /\ pc \in {"ensure", "rewrite", "put"} => Recovered = before
      /\ pc \in {"ensure", "rewrite", "put", "shrink"} =>
            Shared = Recovered /\ Recovered = Content(mem, metaSize)
      /\ pc \in {"metaCrc", "metaSize"} => Shared = before
  BY <1>1, OwnersMap
<1>3. CASE EnsureEnough(p)
  <2>1. /\ UNCHANGED <<fileVars, metaVars>> /\ snap' = snap /\ torn' = torn /\ kills' = kills
        /\ target' = target /\ pc = "ensure" /\ pc' \in {"put", "ensure"}
    BY <1>3 DEF EnsureEnough, histVars
  <2>2. Busy' = Busy /\ Goal' = Goal
    BY <2>1, BusyFacts, BusyFactsNext
  <2> QED BY <1>2, <2>1, <2>2, SameFiles DEF Unmoved, Shared
<1>4. CASE Expand(p)
  <2>1. /\ UNCHANGED histVars /\ snap' = snap /\ torn' = torn /\ kills' = kills
        /\ before' = before /\ target' = target
        /\ pc = "ensure" /\ pc' = "rewrite" /\ owner' = p
    BY <1>4 DEF Expand, histVars
  <2>2. InRewrite(p)'
    BY <1>2, <2>1, SharedAssumption DEF SharedInv, InPhase, Owned
  <2>3. MetaWhole' /\ before' = Content(mem', metaSize')
    BY <2>2 DEF InRewrite, Quiet, Pending
  <2>4. Recovered' = before
    BY <2>1, <2>3, WholeIsReadNext
  <2>5. Busy' = Busy /\ Goal' = Goal
    BY <2>1, BusyFacts, BusyFactsNext
  <2> QED BY <1>2, <2>1, <2>4, <2>5 DEF Unmoved, Shared
<1>5. CASE Rewrite(p) \/ Put(p)
  <2>1. /\ snap' = snap /\ torn' = torn /\ kills' = kills /\ before' = before
        /\ target' = target /\ pc \in {"rewrite", "put"} /\ pc' = "metaCrc"
    BY <1>5 DEF Rewrite, Put, WriteBack, WriteMeta, histVars
  <2>2. Busy' = Busy /\ Goal' = Goal
    BY <2>1, BusyFacts, BusyFactsNext
  <2> QED BY <1>2, <2>1, <2>2 DEF Unmoved, Shared
<1>6. CASE StoreCrc(p)
  <2>1. /\ snap' = snap /\ torn' = torn /\ kills' = kills /\ before' = before
        /\ target' = target /\ pc = "metaCrc" /\ pc' = "metaSize"
    BY <1>6 DEF StoreCrc, histVars
  <2>2. Busy' = Busy /\ Goal' = Goal
    BY <2>1, BusyFacts, BusyFactsNext
  <2> QED BY <1>2, <2>1, <2>2 DEF Unmoved, Shared
<1>7. CASE Shrink(p)
  <2>1. /\ snap' = snap /\ torn' = torn /\ kills' = kills /\ pc = "shrink" /\ pc' = "idle"
    BY <1>7 DEF Shrink, Leave
  <2>2. MetaWhole' /\ Content(mem', metaSize') = Content(mem, metaSize)
    BY <1>7, ShrinkStep
  <2>3. Recovered' = Recovered
    BY <1>2, <2>1, <2>2, WholeIsReadNext
  <2>4. Busy' = Busy /\ Goal' = Goal
    BY <2>1, BusyFacts, BusyFactsNext
  <2> QED BY <1>2, <2>1, <2>3, <2>4 DEF Unmoved, Shared
<1> QED BY <1>3, <1>4, <1>5, <1>6, <1>7

\* A file that cannot grow, or a page that is no longer there, ends the
\* operation and changes nothing.
LEMMA FailuresFail ==
    ASSUME SharedInv, NEW p \in Procs, ExpandFails(p) \/ BusError(p)
    PROVE  Abstract!Next
<1>1. /\ owner = p /\ UNCHANGED <<fileVars, metaVars>> /\ snap' = snap /\ kills' = kills
      /\ pc \in {"ensure", "put"} /\ pc' = "idle" /\ torn' \in {torn, torn \/ InPlace}
  BY DEF ExpandFails, BusError, Die, Leave
<1>2. ~torn /\ Shared = Recovered
  BY <1>1, OwnersMap
<1>3. torn' = torn
  BY <1>1, <1>2 DEF InPlace, SharedInv, Typed, HistTyped
<1>4. Shared' = Shared
  BY <1>1, <1>2, <1>3, SameFiles DEF Shared
<1>5. Busy = TRUE /\ Busy' = FALSE /\ Goal' = EmptyMap
  BY <1>1, BusyFacts, BusyFactsNext
<1>6. Abstract!Fail
  BY <1>1, <1>3, <1>4, <1>5 DEF Abstract!Fail, Abstract!End, Abstract!EmptyMap, EmptyMap
<1> QED BY <1>6 DEF Abstract!Next

\* The last store of expandAndWriteBack confirms the map as it is.
LEMMA WriteBackDoneConfirms ==
    ASSUME SharedInv, NEW p \in Procs, WriteBackDone(p)
    PROVE  Abstract!Next
<1>1. /\ StoreSize(p, "ensured") /\ UNCHANGED fileVars /\ before' = before /\ target' = target
      /\ pc' \in {"put", "ensure"}
  BY DEF WriteBackDone
<1>2. /\ ~torn /\ Rewritten(p) /\ after = "ensured" /\ owner = p /\ pc = "metaSize" /\ Typed
      /\ MetaWhole' /\ metaSize' = actual[p] /\ snap' = Content(mem, actual[p])
      /\ torn' = torn /\ kills' = kills
  BY <1>1, Confirmed
<1>3. Content(mem, actual[p]) = before /\ before \in Maps
  BY <1>2 DEF Rewritten, Typed, HistTyped
<1>4. Shared = before /\ Shared' = before
  BY <1>1, <1>2, <1>3, OwnersMap, WholeIsReadNext DEF Shared, fileVars
<1>5. Busy = TRUE /\ Busy' = TRUE /\ Goal = target /\ Goal' = target
  BY <1>1, <1>2, BusyFacts, BusyFactsNext
<1>6. Abstract!Confirm
  BY <1>2, <1>3, <1>4, <1>5 DEF Abstract!Confirm
<1> QED BY <1>6 DEF Abstract!Next

\* What a step that ends an operation is, in terms of this module.
LEMMA AbstractFinish ==
    ASSUME pc = "metaSize", pc' \in {"idle", "shrink"}, ~torn, torn' = torn, kills' = kills,
           Shared' = target, snap' = snap \/ snap' = target
    PROVE  Abstract!Next
<1>1. Busy = TRUE /\ Goal = target /\ Busy' = FALSE /\ Goal' = EmptyMap
  BY BusyFacts, BusyFactsNext
<1>2. Abstract!Finish
  BY <1>1 DEF Abstract!Finish, Abstract!End, Abstract!EmptyMap, EmptyMap
<1> QED BY <1>2 DEF Abstract!Next

\* The last store of an append makes its one change.
LEMMA AppendDoneFinishes ==
    ASSUME SharedInv, NEW p \in Procs, AppendDone(p)
    PROVE  Abstract!Next
<1>1. /\ StoreSize(p, "appended") /\ UNCHANGED fileVars /\ pc' = "idle"
      /\ owner = p /\ pc = "metaSize" /\ after = "appended" /\ metaSize' = actual[p]
      /\ torn' = torn /\ kills' = kills
  BY DEF AppendDone, StoreSize, Leave
<1>2. Typed /\ ~torn /\ JustAppended(p)
  BY <1>1, WhenOwned DEF Owned, InMetaSize, Rewritten
<1>3. ~inc /\ Content(mem, actual[p]) = target
  BY <1>2 DEF JustAppended, Appending
<1>4. snap' = snap
  BY <1>1, <1>3 DEF StoreSize
<1>5. MetaWhole'
  BY AppendDoneStep
<1>6. Recovered' = target
  BY <1>1, <1>3, <1>5, WholeIsReadNext DEF fileVars
<1>7. Shared' = target
  BY <1>1, <1>2, <1>6 DEF Shared
<1> QED BY <1>1, <1>2, <1>4, <1>7, AbstractFinish

\* The last store of a rewrite leaves out the keys it was to leave out, and no
\* other, and confirms the rest.
LEMMA RewriteDoneFinishes ==
    ASSUME SharedInv, NEW p \in Procs, FullWriteBackDone(p) \/ ClearDone(p)
    PROVE  Abstract!Next
<1>1. PICK ret \in {"done", "cleared"} :
         StoreSize(p, ret) /\ Return /\ UNCHANGED fileVars
  BY DEF FullWriteBackDone, ClearDone
<1>2. /\ ~torn /\ Rewritten(p) /\ after = ret /\ owner = p /\ pc = "metaSize" /\ Typed
      /\ MetaWhole' /\ metaSize' = actual[p] /\ snap' = Content(mem, actual[p])
      /\ torn' = torn /\ kills' = kills
  BY <1>1, Confirmed
<1>3. pc' \in {"shrink", "idle"}
  BY <1>1 DEF Return, Leave
<1>4. Content(mem, actual[p]) = target
  <2>1. Content(mem, 0) = EmptyMap
    BY EmptyRegion
  <2> QED BY <1>1, <1>2, <2>1 DEF Rewritten, Wanted
<1>5. Recovered' = target
  BY <1>1, <1>2, <1>4, WholeIsReadNext DEF fileVars
<1>6. Shared' = target
  BY <1>2, <1>3, <1>5 DEF Shared
<1> QED BY <1>2, <1>3, <1>4, <1>6, AbstractFinish

\* A kill leaves the map, or takes it back to the one last confirmed, unless the
\* file was being rewritten in place.
LEMMA KillKills ==
    ASSUME SharedInv, NEW p \in Procs, Kill(p)
    PROVE  Abstract!Next
<1>1. kills' = kills + 1
  BY DEF Kill
<1>2. CASE Die(p)
  <2>1. /\ owner = p /\ pc' = "idle" /\ torn' = (torn \/ InPlace) /\ snap' = snap
        /\ UNCHANGED <<fileVars, metaVars>>
    BY <1>2 DEF Die, Leave
  <2>2. ~torn /\ Typed /\ Owned(p)
    BY <2>1, WhenOwned
  <2>3. Busy' = FALSE /\ Goal' = EmptyMap
    BY <2>1, BusyFactsNext
  <2>4. CASE InPlace
    <3>1. torn' = TRUE
      BY <2>1, <2>4
    <3>2. Shared' = EmptyMap
      BY <3>1 DEF Shared
    <3>3. Busy = TRUE
      BY <2>4, BusyFacts DEF InPlace
    <3>4. Abstract!Tear
      BY <1>1, <2>3, <3>1, <3>2, <3>3 DEF Abstract!Tear, Abstract!End, Abstract!EmptyMap, EmptyMap
    <3> QED BY <3>4 DEF Abstract!Next
  <2>5. CASE ~InPlace
    <3>1. torn' = torn
      BY <2>1, <2>2, <2>5 DEF Typed, HistTyped
    <3>2. Shared' = Recovered
      BY <2>1, <2>2, <3>1, SameFiles DEF Shared
    <3>3. CASE pc = "shrink"
      <4>1. Shared' = Shared
        BY <2>1, <3>2, <3>3, OwnersMap
      <4>2. Busy = FALSE /\ Goal = EmptyMap
        BY <3>3, BusyFacts
      <4>3. (IF torn' THEN EmptyMap ELSE snap') = (IF torn THEN EmptyMap ELSE snap)
        BY <2>1, <3>1
      <4>4. EmptyMap = Abstract!EmptyMap
        BY DEF EmptyMap, Abstract!EmptyMap
      <4>5. Abstract!KillReader
        BY <1>1, <2>1, <2>3, <3>1, <4>1, <4>2, <4>3, <4>4 DEF Abstract!KillReader
      <4> QED BY <4>5 DEF Abstract!Next
    <3>4. CASE pc # "shrink"
      <4>1. Recovered = Shared \/ Recovered = snap
        <5>1. CASE pc \in {"ensure", "rewrite", "put"}
          BY <2>1, <5>1, OwnersMap
        <5>2. CASE pc = "metaCrc"
          <6>1. MetaWhole /\ before = Content(mem, metaSize)
            BY <2>2, <2>5, <5>2 DEF Owned, InMetaCrc, InPlace, JustAppended, Rewritten
          <6> QED BY <2>1, <5>2, <6>1, OwnersMap, WholeIsRead
        <5>3. CASE pc = "metaSize"
          <6>1. JustAppended(p) /\ metaCrc = crc[p]
            BY <2>2, <2>5, <5>3 DEF Owned, InMetaSize, InPlace, Rewritten
          <6>2. LastHeld /\ MetaHalf
            BY <6>1 DEF JustAppended, Region, MetaHalf
          <6> QED BY <2>2, <6>2, HalfIsLast
        <5> QED BY <2>1, <3>4, <5>1, <5>2, <5>3, OwnersMap
      <4>2. Busy = TRUE
        BY <2>2, <3>4, BusyFacts DEF Owned
      <4>3. Abstract!Kill
        BY <1>1, <2>1, <2>2, <2>3, <3>1, <3>2, <4>1, <4>2
        DEF Abstract!Kill, Abstract!End, Abstract!EmptyMap, EmptyMap
      <4> QED BY <4>3 DEF Abstract!Next
    <3> QED BY <3>3, <3>4
  <2> QED BY <2>4, <2>5
<1>3. CASE DieUpgrading(p)
  <2>1. UNCHANGED <<fileVars, metaVars, opVars, before, target, snap, torn>>
    BY <1>3 DEF DieUpgrading
  <2>2. Shared' = Shared /\ Busy' = Busy /\ Goal' = Goal
    BY <2>1, SameFiles DEF Shared, Busy, Goal, opVars
  <2>3. Abstract!KillReader
    BY <1>1, <2>1, <2>2 DEF Abstract!KillReader
  <2> QED BY <2>3 DEF Abstract!Next
<1> QED BY <1>2, <1>3 DEF Kill

\* Every step is a step of the one map, or leaves it as it was, but for the
\* store of an empty region over one that is not.
LEMMA NextIsAbstract ==
    ASSUME SharedInv, SharedInv', [Next]_vars,
           [\A p \in Procs : StoreEmpty(p) => Recovered = EmptyMap]_vars
    PROVE  Abstract!Next \/ Unmoved
<1>1. CASE UNCHANGED vars
  <2>1. /\ UNCHANGED <<fileVars, metaVars>> /\ snap' = snap /\ torn' = torn /\ kills' = kills
        /\ pc' = pc /\ before' = before /\ target' = target
    BY <1>1 DEF vars, opVars, histVars
  <2> QED BY <2>1, SameFiles DEF Unmoved, Shared, Busy, Goal
<1>2. CASE Next /\ ~UNCHANGED vars
  <2>1. ASSUME NEW p \in Procs,
               \/ PartialLoad(p) \/ LoadValid(p) \/ LoadFallback(p) \/ ClearMemoryCache(p)
               \/ StoreEmpty(p)
        PROVE  Unmoved
    BY <1>2, <2>1, ReadersStutter
  <2>2. ASSUME NEW p \in Procs,
               \/ \E k \in Keys, v \in Vals : SetBegin(p, k, v)
               \/ \E k \in Keys : RemoveBegin(p, k)
               \/ \E S \in SUBSET Keys : RemoveManyBegin(p, S)
               \/ \E keepSpace \in BOOLEAN : ClearAll(p, keepSpace)
               \/ Trim(p)
        PROVE  Abstract!Next \/ Unmoved
    BY <2>2, BeginsAreStarts
  <2>3. ASSUME NEW p \in Procs,
               EnsureEnough(p) \/ Expand(p) \/ Rewrite(p) \/ Put(p) \/ StoreCrc(p) \/ Shrink(p)
        PROVE  Unmoved
    BY <2>3, OwnersStutter
  <2>4. ASSUME NEW p \in Procs,
               \/ ExpandFails(p) \/ BusError(p) \/ WriteBackDone(p) \/ AppendDone(p)
               \/ FullWriteBackDone(p) \/ ClearDone(p) \/ Kill(p)
        PROVE  Abstract!Next
    BY <2>4, FailuresFail, WriteBackDoneConfirms, AppendDoneFinishes, RewriteDoneFinishes, KillKills
  <2>5. ~Stopped
    BY <1>2 DEF Stopped
  <2> QED BY <1>2, <2>1, <2>2, <2>3, <2>4, <2>5 DEF Next
<1> QED BY <1>1, <1>2

\* All the processes together implement one map that changes as the operation
\* under way asks and all at once, as long as what a load stores as empty is
\* empty ("file not valid or empty, discard everything", KFKV_IO.mm:109).  This
\* is not so when a process that had to wait for the exclusive lock stores the
\* empty region it saw before: the promise has no step for that, and it is the
\* only step that breaks the promise.
THEOREM SharedImplementsKVMap == Spec /\ OnlyEmptyIsDiscarded => ImplementsKVMap
<1>1. Init => Abstract!Init
  <2> SUFFICES ASSUME Init PROVE Abstract!Init
    OBVIOUS
  <2>1. /\ ~torn /\ pc = "idle" /\ snap = EmptyMap /\ kills = 0 /\ torn = FALSE
        /\ metaSize = 0 /\ metaCrc = <<>> /\ fileSize = expectedCapacity
    BY DEF Init
  <2>2. Fits(0, fileSize) /\ Crc(mem, 0) = <<>> /\ Content(mem, 0) = EmptyMap
    BY <2>1, EmptyRegion, SizingAssumption DEF Fits, Fixed32Size, Cap
  <2>3. Recovered = EmptyMap
    BY <2>1, <2>2, WholeIsRead DEF MetaWhole, Valid
  <2>4. Busy = FALSE /\ Goal = EmptyMap
    BY <2>1, BusyFacts
  <2> QED BY <2>1, <2>3, <2>4 DEF Abstract!Init, Abstract!EmptyMap, EmptyMap, Shared
<1>2. SharedInv /\ SharedInv' /\ [Next]_vars
      /\ [\A p \in Procs : StoreEmpty(p) => Recovered = EmptyMap]_vars
      => [Abstract!Next]_(Abstract!vars)
  <2>1. Unmoved => UNCHANGED Abstract!vars
    BY DEF Unmoved, Abstract!vars
  <2> QED BY <2>1, NextIsAbstract
<1> QED BY <1>1, <1>2, SpecSharedInv, PTL
       DEF Spec, OnlyEmptyIsDiscarded, ImplementsKVMap, Abstract!Spec

\* No load waits for the exclusive lock when the bound on such loads is zero (the
\* run that checks ImplementsKVMap): then the promise holds as it is.
NoWaiter == upgrading = {} /\ waits = 0

\* It takes a wait for there to be a waiter.
LEMMA NobodyWaits ==
    ASSUME MaxWaits = 0
    PROVE  Spec => []NoWaiter
<1>1. Init => NoWaiter
  BY DEF Init, NoWaiter
<1>2. NoWaiter /\ [Next]_vars => NoWaiter'
  <2> SUFFICES ASSUME upgrading = {}, waits = 0, [Next]_vars
               PROVE  upgrading' = {} /\ waits' = 0
    BY DEF NoWaiter
  <2>1. ASSUME NEW p \in Procs, NEW n, Load(p, n) PROVE UNCHANGED loadVars
    BY <2>1 DEF Load, Upgrade
  <2>2. ASSUME NEW p \in Procs, NEW name, NEW k, NEW v, NEW m, Begin(p, name, k, v, m)
        PROVE  UNCHANGED loadVars
    BY <2>2 DEF Begin
  <2>3. ASSUME NEW p \in Procs, NEW ret, StoreSize(p, ret) PROVE UNCHANGED loadVars
    BY <2>3 DEF StoreSize
  <2>4. ASSUME NEW p \in Procs, Die(p) PROVE UNCHANGED loadVars
    BY <2>4 DEF Die
  <2>5. ASSUME NEW p \in Procs PROVE ~StoreEmpty(p) /\ ~DieUpgrading(p)
    BY DEF StoreEmpty, DieUpgrading
  <2>6. CASE UNCHANGED vars
    BY <2>6 DEF vars, loadVars
  <2>7. ASSUME NEW p \in Procs, PartialLoad(p) \/ LoadValid(p) \/ LoadFallback(p)
        PROVE  UNCHANGED loadVars
    BY <2>1, <2>7 DEF PartialLoad, LoadValid, LoadFallback
  <2>8. ASSUME NEW p \in Procs,
               \/ \E k \in Keys, v \in Vals : SetBegin(p, k, v)
               \/ \E k \in Keys : RemoveBegin(p, k)
               \/ \E S \in SUBSET Keys : RemoveManyBegin(p, S)
               \/ \E keepSpace \in BOOLEAN : ClearAll(p, keepSpace)
               \/ Trim(p)
        PROVE  UNCHANGED loadVars
    BY <2>2, <2>8 DEF SetBegin, RemoveBegin, RemoveManyBegin, ClearAll, Trim
  <2>9. ASSUME NEW p \in Procs,
               \/ EnsureEnough(p) \/ Expand(p) \/ ExpandFails(p) \/ Rewrite(p) \/ Put(p)
               \/ StoreCrc(p) \/ Shrink(p) \/ ClearMemoryCache(p)
        PROVE  UNCHANGED loadVars
    BY <2>9 DEF EnsureEnough, Expand, ExpandFails, Rewrite, Put, StoreCrc, Shrink, ClearMemoryCache
  <2>10. ASSUME NEW p \in Procs,
                \/ WriteBackDone(p) \/ AppendDone(p) \/ FullWriteBackDone(p) \/ ClearDone(p)
         PROVE  UNCHANGED loadVars
    BY <2>3, <2>10 DEF WriteBackDone, AppendDone, FullWriteBackDone, ClearDone
  <2>11. ASSUME NEW p \in Procs, Kill(p) \/ BusError(p)
         PROVE  UNCHANGED loadVars
    BY <2>4, <2>5, <2>11 DEF Kill, BusError
  <2>12. CASE Next
    <3>1. UNCHANGED loadVars \/ UNCHANGED vars
      BY <2>5, <2>7, <2>8, <2>9, <2>10, <2>11, <2>12 DEF Next, Stopped
    <3> QED BY <3>1 DEF loadVars, vars
  <2> QED BY <2>6, <2>12
<1> QED BY <1>1, <1>2, PTL DEF Spec

\* The refinement that the run of two processes checks, whose loads never wait.
THEOREM UnwaitedImplementsKVMap ==
    ASSUME MaxWaits = 0
    PROVE  Spec => ImplementsKVMap
<1>1. NoWaiter => [\A p \in Procs : StoreEmpty(p) => Recovered = EmptyMap]_vars
  BY DEF StoreEmpty, NoWaiter
<1>2. Spec => OnlyEmptyIsDiscarded
  BY <1>1, NobodyWaits, PTL DEF OnlyEmptyIsDiscarded
<1> QED BY <1>2, SharedImplementsKVMap, PTL
=============================================================================
