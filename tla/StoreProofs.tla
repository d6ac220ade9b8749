----------------------------- MODULE StoreProofs -----------------------------
(***************************************************************************)
(* Theorems about Store, for any number of keys and values and any file    *)
(* size.  StoreInv is the inductive invariant: what the files, the memory  *)
(* and the history hold in each phase of an operation.                     *)
(***************************************************************************)
EXTENDS Store, RegionProofs

\* TypeOK, with the fields TLC need not be told and the least file size.
Typed ==
    /\ TypeOK
    /\ op \in [name : {"none", "set", "remove", "removeMany", "clear", "trim", "recover"},
               key : Keys \cup {NoKey}, val : Vals \cup {Nil}]
    /\ fileSize >= expectedCapacity
    /\ ~loaded => pc = "idle"

\* m_actualSize and m_crcDigest describe a region the file holds.
Region == crc = Crc(mem, actual) /\ Fits(actual, fileSize)

\* The dictionary and the write position are those of the region.
Decoded == out = actual /\ off = Decode(mem, actual)

\* The meta describes the region too, and its map is the current one.
Quiet ==
    /\ Region /\ Decoded
    /\ metaSize = actual /\ metaCrc = crc
    /\ Content(mem, actual) = cur

\* ensureMemorySize() is still to be called; twice when the key is known.
Pending == ensures \in 1 .. 2 /\ (ensures = 2 => off[op.key] # 0)

\* A set or a removal is under way.
Appending ==
    /\ op.key \in Keys
    /\ \/ op.name = "set" /\ op.val \in Vals
       \/ op.name = "remove" /\ op.val = Nil
    /\ target = [cur EXCEPT ![op.key] = op.val]

Rewriting ==
    /\ op.name \in {"removeMany", "trim", "recover"}
    /\ op.name # "removeMany" => cur = target

\* The map a write-back writes.
Want == IF op.name \in {"set", "remove"} THEN cur ELSE target

\* memmoveDictionary: the records in front of wp are the moved ones, those to
\* move are all behind it, and each still has its value.
Moving ==
    /\ \A k \in Keys : off[k] # 0 =>
          off[k] \in 2 .. fileSize - 1 /\ mem[off[k]] = Rec(k, Want[k]) /\ Want[k] # Nil
    /\ \A k \in Keys : off[k] = 0 => Want[k] = Nil /\ k \notin todo
    /\ \A k \in todo : off[k] >= wp
    /\ \A k \in Keys \ todo : off[k] < wp
    /\ \A i \in 2 .. wp - 1 : \E k \in Keys \ todo : off[k] = i
    /\ wp \in 2 .. fileSize
    /\ \/ /\ after = "ensured" /\ Appending /\ Pending
          /\ Count(off) = wp - 2 + Cardinality(todo)
          /\ Count(off) + 3 < fileSize
       \/ after = "done" /\ Rewriting

\* The meta describes a region the file still has.
Intact == Valid(mem, fileSize, metaSize, metaCrc)

\* writeActualSize is about to store, or has stored the digest.
Storing ==
    /\ Region
    /\ \/ /\ after = "ensured" /\ Appending /\ Pending
          /\ Decoded /\ Content(mem, actual) = cur
          /\ actual >= 1 /\ actual + 2 < fileSize
       \/ /\ after = "appended" /\ Appending
          /\ out = actual
          /\ Decode(mem, actual) = [off EXCEPT ![op.key] = IF op.name = "set" THEN actual ELSE 0]
          /\ Content(mem, actual) = target
          /\ pc = "metaCrc" => Intact /\ Content(mem, metaSize) = cur
       \/ /\ after = "overridden" /\ Appending
          /\ out = actual
          /\ Decode(mem, actual) = [off EXCEPT ![op.key] = IF op.name = "set" THEN actual ELSE 0]
          /\ Content(mem, actual) = target
       \/ /\ after = "done" /\ Rewriting
          /\ Decoded /\ Content(mem, actual) = target
       \/ /\ after = "cleared" /\ actual = 0 /\ target = EmptyMap
       \/ /\ after = "loaded" /\ cur = target
          /\ Decoded /\ Content(mem, actual) = cur

InPhase ==
    \/ pc = "idle" /\ ~loaded /\ cur = target /\ Recovered = cur
    \/ pc \in {"idle", "shrink"} /\ loaded /\ cur = target /\ Quiet
    \/ pc = "ensure" /\ Quiet /\ Appending /\ Pending
    \/ pc = "put" /\ Quiet /\ Appending /\ actual >= 1 /\ actual + 2 <= fileSize
    \/ /\ pc = "override" /\ Quiet /\ Appending /\ op.name = "set"
       /\ \A k \in Keys \ {op.key} : off[k] = 0
    \/ /\ pc = "overrideRecord" /\ Appending /\ op.name = "set"
       /\ \A k \in Keys \ {op.key} : off[k] = 0 /\ cur[k] = Nil
    \/ pc = "move" /\ Moving
    \/ pc = "metaCrc" /\ Storing
    \/ pc = "metaSize" /\ Storing /\ metaCrc = crc

StoreInv == Typed /\ InPhase

-----------------------------------------------------------------------------
\* The region a load takes fits the file, and is empty when it is discarded.
LEMMA LoadSizeFits ==
    ASSUME Typed
    PROVE  /\ LoadSize \in 0 .. MaxCap /\ Fits(LoadSize, fileSize)
           /\ LoadCase \in {"oldStyle", "broken"} => LoadSize = 0
<1>1. /\ fileSize \in Nat /\ fileSize > 3 /\ fileSize <= MaxCap /\ MaxCap \in Nat
      /\ metaSize \in 0 .. MaxCap /\ lastSize \in 0 .. MaxCap
  BY CellsAssumption, SizingAssumption DEF Typed, TypeOK, Cap
<1>2. LoadCase \in {"valid", "oldStyle", "last", "broken"}
  BY DEF LoadCase
<1>3. LoadCase = "valid" => Fits(metaSize, fileSize)
  BY DEF LoadCase, Valid
<1>4. LoadCase = "last" => Fits(lastSize, fileSize)
  BY DEF LoadCase, Valid
<1>5. Fits(0, fileSize)
  BY <1>1 DEF Fits, Fixed32Size
<1>6. CASE LoadCase = "valid"
  BY <1>1, <1>3, <1>6 DEF LoadSize
<1>7. CASE LoadCase = "last"
  BY <1>1, <1>4, <1>7 DEF LoadSize
<1>8. CASE LoadCase \in {"oldStyle", "broken"}
  BY <1>1, <1>5, <1>8 DEF LoadSize
<1> QED BY <1>2, <1>6, <1>7, <1>8

\* What a load finds is a map.
LEMMA RecoveredType ==
    ASSUME Typed
    PROVE  Recovered \in Maps
BY LoadSizeFits, ContentType DEF Recovered, Maps, Typed, TypeOK

\* A load of a quiet store finds the current map.
LEMMA QuietIsDurable ==
    ASSUME Quiet
    PROVE  Recovered = cur
BY DEF Quiet, Region, Recovered, LoadSize, LoadCase, Valid

\* In a quiet store the dictionary leads to the records of the current map.
LEMMA QuietRecords ==
    ASSUME Typed, Quiet
    PROVE  /\ View(mem, off) = cur
           /\ actual \in Nat /\ actual + 1 <= fileSize
           /\ \A k \in Keys : off[k] # 0 =>
                 off[k] \in 2 .. actual /\ mem[off[k]] = Rec(k, cur[k]) /\ cur[k] # Nil
           /\ \A k \in Keys : off[k] = 0 => cur[k] = Nil
<1>1. mem \in [Cap -> Cell] /\ actual \in 0 .. MaxCap
  BY DEF Typed, TypeOK
<1>2. off = Decode(mem, actual) /\ Content(mem, actual) = cur
  BY DEF Quiet, Decoded
<1>3. actual + 1 <= fileSize
  BY DEF Quiet, Region, Fits, Fixed32Size
<1> QED BY <1>1, <1>2, <1>3, DecodedRecords DEF Content

\* What an operation leaves behind when it returns.
LEMMA IdleTyped ==
    ASSUME Idle
    PROVE  /\ pc' = "idle" /\ ensures' \in 0 .. 2
           /\ op'.name = "none" /\ op'.key = NoKey /\ op'.val = Nil
           /\ op' \in [name : {"none", "set", "remove", "removeMany", "clear", "trim", "recover"},
                      key : Keys \cup {NoKey}, val : Vals \cup {Nil}]
           /\ todo' \in SUBSET Keys /\ wp' \in 0 .. MaxCap /\ inc' \in BOOLEAN /\ after' = "none"
<1>1. wp' \in 0 .. MaxCap
  BY CellsAssumption DEF Idle
<1>2. inc' \in BOOLEAN
  BY Zenon DEF Idle
<1>3. /\ op'.name = "none" /\ op'.key = NoKey /\ op'.val = Nil
      /\ op' \in [name : {"none", "set", "remove", "removeMany", "clear", "trim", "recover"},
                  key : Keys \cup {NoKey}, val : Vals \cup {Nil}]
  BY DEF Idle, NoOp
<1> QED BY <1>1, <1>2, <1>3 DEF Idle

\* What InPhase says of a loaded store that is idle.
LEMMA IdleLoaded ==
    ASSUME InPhase, pc = "idle", loaded
    PROVE  Quiet /\ cur = target
BY DEF InPhase

\* What InPhase says of a store that is not loaded.
LEMMA IdleUnloaded ==
    ASSUME InPhase, pc = "idle", ~loaded
    PROVE  cur = target /\ Recovered = cur
BY DEF InPhase

\* memmoveDictionary starts with every record of the dictionary to move.
LEMMA WriteBackStarts ==
    ASSUME NEW ret, StartWriteBack(off', ret), fileSize' \in Nat, fileSize' > 3,
           \A k \in Keys : off'[k] # 0 =>
              off'[k] \in 2 .. fileSize' - 1 /\ mem'[off'[k]] = Rec(k, Want'[k]) /\ Want'[k] # Nil,
           \A k \in Keys : off'[k] = 0 => Want'[k] = Nil,
           \/ /\ ret = "ensured" /\ Appending' /\ Pending'
              /\ Count(off') + 3 < fileSize'
           \/ ret = "done" /\ Rewriting'
    PROVE  pc' = "move" /\ Moving' /\ kept' = FALSE /\ kept' \in BOOLEAN
<1>0. kept' = FALSE
  BY DEF StartWriteBack
<1>k. kept' \in BOOLEAN
  BY <1>0, Zenon
<1>1. /\ pc' = "move" /\ wp' = 2 /\ after' = ret
      /\ todo' = {k \in Keys : off'[k] # 0}
  BY DEF StartWriteBack, ItemSizeHolderSize
<1>2. /\ \A k \in Keys : off'[k] = 0 => k \notin todo'
      /\ \A k \in todo' : off'[k] >= wp'
      /\ \A k \in Keys \ todo' : off'[k] < wp'
      /\ \A i \in 2 .. wp' - 1 : \E k \in Keys \ todo' : off'[k] = i
      /\ wp' \in 2 .. fileSize'
  BY <1>1
<1>3. Cardinality(todo') = Count(off')
  BY <1>1 DEF Count
<1>4. Count(off') \in Nat
  BY CountNat
<1>5. Count(off') = wp' - 2 + Cardinality(todo')
  BY <1>1, <1>3, <1>4
<1> QED BY <1>0, <1>k, <1>1, <1>2, <1>5 DEF Moving

\* clearAll leaves an empty region.
LEMMA ClearStarts ==
    ASSUME Typed, NEW keepSpace, StartClear(keepSpace), target' = EmptyMap
    PROVE  /\ pc' = "metaCrc" /\ Storing'
           /\ mem' \in [Cap -> Cell] /\ fileSize' \in Cap /\ fileSize' >= expectedCapacity
           /\ actual' = 0 /\ kept' = FALSE /\ kept' \in BOOLEAN
<1>0. kept' = FALSE
  BY DEF StartClear
<1>k. kept' \in BOOLEAN
  BY <1>0, Zenon
<1>1. pc' = "metaCrc" /\ after' = "cleared" /\ actual' = 0 /\ crc' = <<>>
  BY DEF StartClear, WriteMeta
<1>2. mem' \in [Cap -> Cell] /\ fileSize' \in Cap /\ fileSize' >= expectedCapacity
  <2>1. CASE Truncate(expectedCapacity)
    BY <2>1, CutKeeps, SizingAssumption DEF Typed, TypeOK, Truncate, Cap
  <2>2. CASE UNCHANGED fileVars
    BY <2>2 DEF Typed, TypeOK, fileVars
  <2> QED BY <2>1, <2>2 DEF StartClear
<1>3. Fits(0, fileSize')
  BY <1>2, SizingAssumption DEF Fits, Fixed32Size, Cap
<1>4. Crc(mem', 0) = <<>>
  BY EmptyRegion
<1>5. Region'
  BY <1>1, <1>3, <1>4 DEF Region
<1> QED BY <1>0, <1>k, <1>1, <1>2, <1>5 DEF Storing

-----------------------------------------------------------------------------
\* A file of the expected capacity and no records satisfies the invariant.
LEMMA InitStoreInv == Init => StoreInv
<1> SUFFICES ASSUME Init PROVE StoreInv
  OBVIOUS
<1>1. Typed
  <2>1. mem \in [Cap -> Cell]
    BY DEF Init, Cell
  <2>2. off \in [Keys -> 0 .. MaxCap] /\ EmptyMap \in Maps
    BY CellsAssumption DEF Init, NoOffsets, EmptyMap, Maps
  <2>3. fileSize \in Cap /\ fileSize >= expectedCapacity
    BY SizingAssumption DEF Init, Cap
  <2>4. /\ op.name = "none" /\ op.key = NoKey /\ op.val = Nil
        /\ op \in [name : {"none", "set", "remove", "removeMany", "clear", "trim", "recover"},
                   key : Keys \cup {NoKey}, val : Vals \cup {Nil}]
    BY DEF Init, NoOp
  <2>5. /\ metaSize \in 0 .. MaxCap /\ lastSize \in 0 .. MaxCap /\ actual \in 0 .. MaxCap
        /\ out \in 0 .. MaxCap /\ wp \in 0 .. MaxCap /\ ensures \in 0 .. 2
    BY CellsAssumption DEF Init
  <2>6. /\ loaded \in BOOLEAN /\ hasFW \in BOOLEAN /\ inc \in BOOLEAN /\ kept \in BOOLEAN
        /\ pc = "idle" /\ after = "none" /\ todo \in SUBSET Keys
    BY DEF Init
  <2>7. cur \in Maps /\ target \in Maps /\ snap \in Maps
    BY <2>2 DEF Init
  <2> QED BY <2>1, <2>2, <2>3, <2>4, <2>5, <2>6, <2>7 DEF Typed, TypeOK
<1>2. Recovered = EmptyMap
  <2>1. \A n \in {0} : Crc(mem, n) = <<>> /\ Content(mem, n) = EmptyMap
    BY EmptyRegion
  <2>2. Fits(0, fileSize)
    BY SizingAssumption DEF Init, Fits, Fixed32Size, Cap
  <2>3. LoadCase = "valid"
    BY <2>1, <2>2 DEF LoadCase, Valid, Init
  <2> QED BY <2>1, <2>3 DEF Recovered, LoadSize, Init
<1> QED BY <1>1, <1>2 DEF StoreInv, InPhase, Init

\* loadFromFile, when the meta describes the file.
LEMMA LoadValidStep ==
    ASSUME StoreInv, LoadValid
    PROVE  StoreInv'
<1> USE DEF StoreInv
<1>1. Typed /\ pc = "idle" /\ ~loaded /\ cur = target /\ Recovered = cur
  BY IdleUnloaded DEF LoadValid, LoadDone
<1>2. /\ mem' = mem /\ fileSize' = fileSize /\ metaSize' = metaSize /\ metaCrc' = metaCrc
      /\ cur' = cur /\ target' = target /\ pc' = "idle" /\ loaded'
      /\ actual' = metaSize /\ out' = metaSize /\ crc' = metaCrc
      /\ off' = Decode(mem, metaSize)
  BY <1>1 DEF LoadValid, LoadDone, fileVars, metaVars, mapVars
<1>3. Valid(mem, fileSize, metaSize, metaCrc) /\ Recovered = Content(mem, metaSize)
  BY DEF LoadValid, LoadCase, Recovered, LoadSize
<1>4. Quiet'
  BY <1>1, <1>2, <1>3 DEF Quiet, Region, Decoded, Valid
<1>5. off' \in [Keys -> 0 .. MaxCap]
  BY <1>1, <1>2, DecodeFacts DEF Typed, TypeOK
<1>6. Typed'
  BY <1>1, <1>2, <1>5 DEF Typed, TypeOK, LoadValid, LoadDone, fileVars, metaVars, mapVars
<1> QED BY <1>1, <1>2, <1>4, <1>6 DEF InPhase

\* loadFromFile, when it writes the meta of the region it took.
LEMMA LoadWritesBack ==
    ASSUME StoreInv, NEW increase \in BOOLEAN, LoadDone(LoadSize), crc' = Crc(mem, LoadSize),
           WriteMeta(increase, "loaded"), UNCHANGED <<todo, wp>>
    PROVE  StoreInv'
<1>1. Typed /\ pc = "idle" /\ ~loaded /\ cur = target /\ Recovered = cur
  BY IdleUnloaded DEF LoadDone, StoreInv
<1>2. LoadSize \in 0 .. MaxCap /\ Fits(LoadSize, fileSize)
  BY <1>1, LoadSizeFits
<1>3. off' \in [Keys -> 0 .. MaxCap]
  BY <1>1, <1>2, DecodeFacts DEF Typed, TypeOK, LoadDone
<1>4. /\ mem' = mem /\ fileSize' = fileSize /\ cur' = cur /\ target' = target
      /\ pc' = "metaCrc" /\ after' = "loaded" /\ loaded'
      /\ actual' = LoadSize /\ out' = LoadSize /\ off' = Decode(mem, LoadSize)
  BY DEF LoadDone, WriteMeta, fileVars, mapVars
<1>5. Typed'
  BY <1>1, <1>2, <1>3, <1>4 DEF Typed, TypeOK, LoadDone, WriteMeta, fileVars, metaVars, mapVars
<1>6. Storing'
  BY <1>1, <1>2, <1>4 DEF Storing, Region, Decoded, Recovered
<1> QED BY <1>4, <1>5, <1>6 DEF StoreInv, InPhase

\* loadFromFile, when it takes the region of the last full write-back.
LEMMA LoadFallbackStep ==
    ASSUME StoreInv, LoadFallback
    PROVE  StoreInv'
BY LoadWritesBack DEF LoadFallback

\* loadFromFile, when it discards everything.
LEMMA LoadDiscardStep ==
    ASSUME StoreInv, LoadDiscard
    PROVE  StoreInv'
<1>1. LoadSize = 0
  BY LoadSizeFits DEF StoreInv, LoadDiscard
<1>2. Crc(mem, LoadSize) = <<>>
  BY <1>1, EmptyRegion
<1>3. (metaSize > 0) \in BOOLEAN
  OBVIOUS
<1> QED BY <1>1, <1>2, <1>3, LoadWritesBack DEF LoadDiscard

\* What greedyDecodeMap takes for the dictionary leads to what it takes for
\* the records.
LEMMA MisreadRecords ==
    ASSUME Typed, NEW n \in 0 .. MaxCap, NEW o \in [Keys -> {0} \cup 2 .. n], NEW v \in [Keys -> Vals],
           \A j, k \in Keys : o[j] = o[k] => j = k \/ o[k] = 0
    PROVE  /\ Misread(o, v) \in [Cap -> Cell]
           /\ \A k \in Keys : o[k] # 0 =>
                 o[k] \in 2 .. n /\ Misread(o, v)[o[k]] = Rec(k, v[k]) /\ v[k] # Nil
<1>1. mem \in [Cap -> Cell] /\ MaxCap \in Nat /\ n \in Nat /\ n <= MaxCap
  BY CellsAssumption DEF Typed, TypeOK
<1>2. ASSUME NEW i \in Cap PROVE Misread(o, v)[i] \in Cell
  <2>1. CASE \E k \in Keys : o[k] = i
    <3>1. PICK k \in Keys : Misread(o, v)[i] = Rec(k, v[k])
      BY <2>1 DEF Misread
    <3> QED BY <3>1 DEF Cell, Rec
  <2>2. CASE ~ \E k \in Keys : o[k] = i
    BY <1>1, <2>2 DEF Misread
  <2> QED BY <2>1, <2>2
<1>3. ASSUME NEW k \in Keys, o[k] # 0
      PROVE  o[k] \in 2 .. n /\ Misread(o, v)[o[k]] = Rec(k, v[k]) /\ v[k] # Nil
  <2>1. o[k] \in 2 .. n
    BY <1>3
  <2>2. o[k] \in Cap
    BY <1>1, <2>1 DEF Cap
  <2>3. (CHOOSE j \in Keys : o[j] = o[k]) = k
    BY <1>3
  <2> QED BY <2>1, <2>2, <2>3, CellsAssumption DEF Misread
<1>4. Misread(o, v) \in [Cap -> Cell]
  BY <1>2 DEF Misread
<1> QED BY <1>3, <1>4

\* loadFromFile, when OnErrorRecover has it decode what there is.
LEMMA LoadRecoverStep ==
    ASSUME StoreInv, LoadRecover
    PROVE  StoreInv'
<1>1. Typed /\ pc = "idle" /\ ~loaded /\ cur = target /\ Recovered = cur
  BY IdleUnloaded DEF LoadRecover, StoreInv
<1>2. RecoverSize \in 0 .. MaxCap /\ RecoverSize + 1 <= fileSize
  <2>1. /\ fileSize \in Nat /\ fileSize > 3 /\ fileSize <= MaxCap
        /\ metaSize \in 0 .. MaxCap /\ MaxCap \in Nat
    BY <1>1, CellsAssumption, SizingAssumption DEF Typed, TypeOK, Cap
  <2> QED BY <2>1 DEF RecoverSize, Fits, Fixed32Size
<1>3. /\ op' = [NoOp EXCEPT !.name = "recover"] /\ loaded' /\ target' = cur'
      /\ UNCHANGED <<snap, metaVars, hasFW, ensures>>
  BY DEF LoadRecover
<1>4. op'.name = "recover" /\ Rewriting' /\ Want' = cur'
  BY <1>3 DEF Rewriting, Want, NoOp
<1>5. ASSUME NEW o \in [Keys -> {0} \cup 2 .. RecoverSize], NEW v \in [Keys -> Vals],
             \A j, k \in Keys : o[j] = o[k] => j = k \/ o[k] = 0,
             mem' = Misread(o, v), UNCHANGED <<fileSize, crc, inc>>, off' = o, cur' = View(mem', o),
             actual' = RecoverSize, out' = RecoverSize, StartWriteBack(o, "done")
      PROVE  StoreInv'
  <2>1. /\ mem' \in [Cap -> Cell]
        /\ \A k \in Keys : o[k] # 0 =>
              o[k] \in 2 .. RecoverSize /\ mem'[o[k]] = Rec(k, v[k]) /\ v[k] # Nil
    BY <1>1, <1>2, <1>5, MisreadRecords
  <2>2. /\ \A k \in Keys : o[k] # 0 => cur'[k] = v[k]
        /\ \A k \in Keys : o[k] = 0 => cur'[k] = Nil
        /\ cur' \in Maps
    <3>1. ASSUME NEW k \in Keys, o[k] # 0 PROVE cur'[k] = v[k]
      BY <1>5, <2>1, <3>1, RecFields DEF View
    <3>2. ASSUME NEW k \in Keys, o[k] = 0 PROVE cur'[k] = Nil
      BY <1>5, <3>2 DEF View
    <3>3. cur' \in Maps
      <4>1. \A k \in Keys : cur'[k] \in Vals \cup {Nil}
        BY <3>1, <3>2
      <4> QED BY <1>5, <4>1 DEF View, Maps
    <3> QED BY <3>1, <3>2, <3>3
  <2>3. fileSize' = fileSize /\ fileSize \in Nat /\ fileSize > 3
    BY <1>1, <1>5, SizingAssumption DEF Typed, TypeOK, Cap
  <2>4. \A k \in Keys : off'[k] # 0 =>
          off'[k] \in 2 .. fileSize' - 1 /\ mem'[off'[k]] = Rec(k, Want'[k]) /\ Want'[k] # Nil
    BY <1>2, <1>4, <1>5, <2>1, <2>2, <2>3
  <2>5. \A k \in Keys : off'[k] = 0 => Want'[k] = Nil
    BY <1>4, <1>5, <2>2
  <2>6. StartWriteBack(off', "done")
    BY <1>5
  <2>7. pc' = "move" /\ Moving' /\ kept' \in BOOLEAN
    BY <1>4, <2>3, <2>4, <2>5, <2>6, WriteBackStarts
  <2>8. off' \in [Keys -> 0 .. MaxCap]
    <3>1. MaxCap \in Nat
      BY CellsAssumption
    <3> QED BY <1>2, <1>5, <3>1
  <2>9. Typed'
    BY <1>1, <1>2, <1>3, <1>5, <2>1, <2>2, <2>3, <2>7, <2>8, CellsAssumption
    DEF Typed, TypeOK, StartWriteBack, NoOp, metaVars, ItemSizeHolderSize, Cap
  <2> QED BY <2>7, <2>9 DEF StoreInv, InPhase
<1>6. CASE off' = NoOffsets /\ cur' = EmptyMap /\ StartClear(FALSE)
  <2>1. target' = EmptyMap /\ EmptyMap \in Maps /\ off' \in [Keys -> 0 .. MaxCap]
    BY <1>3, <1>6, CellsAssumption DEF EmptyMap, Maps, NoOffsets
  <2>2. pc' = "metaCrc" /\ Storing' /\ actual' = 0 /\ kept' \in BOOLEAN
        /\ mem' \in [Cap -> Cell] /\ fileSize' \in Cap /\ fileSize' >= expectedCapacity
    BY <1>1, <1>6, <2>1, ClearStarts
  <2>3. Typed'
    BY <1>1, <1>3, <1>6, <2>1, <2>2, CellsAssumption
    DEF Typed, TypeOK, StartClear, WriteMeta, NoOp, metaVars
  <2> QED BY <2>2, <2>3 DEF StoreInv, InPhase
<1> QED BY <1>5, <1>6 DEF LoadRecover

-----------------------------------------------------------------------------
\* What holds when an operation begins.
LEMMA Begins ==
    ASSUME StoreInv, NEW name, NEW k, NEW v, NEW m, Begin(name, k, v, m)
    PROVE  /\ Typed /\ pc = "idle" /\ loaded /\ Quiet /\ cur = target
           /\ op' = [name |-> name, key |-> k, val |-> v] /\ target' = m
           /\ cur' = cur /\ snap' = snap /\ loaded' = loaded
           /\ metaSize' = metaSize /\ metaCrc' = metaCrc
           /\ lastSize' = lastSize /\ lastCrc' = lastCrc
BY IdleLoaded DEF StoreInv, Begin, metaVars

\* setDataForKey overrides in place only when no other key has a record.
LEMMA SetBeginStep ==
    ASSUME StoreInv, NEW k \in Keys, NEW v \in Vals, SetBegin(k, v)
    PROVE  StoreInv'
<1>1. /\ Typed /\ pc = "idle" /\ loaded /\ Quiet /\ cur = target
      /\ op' = [name |-> "set", key |-> k, val |-> v] /\ target' = [cur EXCEPT ![k] = v]
      /\ cur' = cur /\ snap' = snap /\ loaded' = loaded
      /\ metaSize' = metaSize /\ metaCrc' = metaCrc /\ lastSize' = lastSize /\ lastCrc' = lastCrc
  BY Begins DEF SetBegin
<1>2. UNCHANGED <<fileVars, off, logVars, hasFW, todo, wp, inc, after, kept>>
  BY DEF SetBegin
<1>3. Quiet'
  BY <1>1, <1>2 DEF Quiet, Region, Decoded, fileVars, logVars
<1>4. op'.name = "set" /\ op'.key = k /\ op'.val = v
  BY <1>1
<1>5. Appending'
  BY <1>1, <1>4 DEF Appending
<1>6. \/ /\ ToOverride(k) /\ pc' = "override" /\ ensures' = 0
      \/ pc' = "ensure" /\ ensures' = IF off[k] # 0 THEN 2 ELSE 1
  BY DEF SetBegin
<1>7. Typed'
  <2>1. target' \in Maps
    BY <1>1 DEF Typed, TypeOK, Maps
  <2>2. op' \in [name : {"none", "set", "remove", "removeMany", "clear", "trim", "recover"},
                 key : Keys \cup {NoKey}, val : Vals \cup {Nil}]
    BY <1>1
  <2>3. ensures' \in 0 .. 2 /\ pc' \in {"override", "ensure"}
    BY <1>6
  <2> QED BY <1>1, <1>2, <1>4, <2>1, <2>2, <2>3 DEF Typed, TypeOK, fileVars, logVars
<1>8. CASE ToOverride(k) /\ pc' = "override"
  <2>1. \A j \in Keys \ {k} : off[j] = 0
    <3>1. CASE Count(off) = 0
      BY <3>1, CountNat
    <3>2. CASE off[k] # 0 /\ Count(off) = 1
      <4> DEFINE D == {j \in Keys : off[j] # 0}
      <4>1. IsFiniteSet(D)
        BY SizingAssumption, FS_Subset
      <4>2. \E x : D = {x}
        BY <3>2, <4>1, FS_Singleton DEF Count
      <4> QED BY <3>2, <4>2
    <3> QED BY <1>8, <3>1, <3>2 DEF ToOverride
  <2> QED BY <1>2, <1>3, <1>4, <1>5, <1>7, <1>8, <2>1 DEF StoreInv, InPhase
<1>9. CASE pc' = "ensure" /\ ensures' = IF off[k] # 0 THEN 2 ELSE 1
  <2>1. Pending'
    BY <1>2, <1>4, <1>9 DEF Pending
  <2> QED BY <1>3, <1>5, <1>7, <1>9, <2>1 DEF StoreInv, InPhase
<1> QED BY <1>6, <1>8, <1>9

\* removeDataForKey begins with a record to remove.
LEMMA RemoveBeginStep ==
    ASSUME StoreInv, NEW k \in Keys, RemoveBegin(k)
    PROVE  StoreInv'
<1>1. /\ Typed /\ pc = "idle" /\ loaded /\ Quiet /\ cur = target
      /\ op' = [name |-> "remove", key |-> k, val |-> Nil] /\ target' = [cur EXCEPT ![k] = Nil]
      /\ cur' = cur /\ snap' = snap /\ loaded' = loaded
      /\ metaSize' = metaSize /\ metaCrc' = metaCrc /\ lastSize' = lastSize /\ lastCrc' = lastCrc
  BY Begins DEF RemoveBegin
<1>2. /\ UNCHANGED <<fileVars, off, logVars, todo, wp, inc, after, kept>>
      /\ off[k] # 0 /\ hasFW' = FALSE /\ pc' = "ensure" /\ ensures' = 2
  BY DEF RemoveBegin
<1>3. Quiet'
  BY <1>1, <1>2 DEF Quiet, Region, Decoded, fileVars, logVars
<1>4. op'.name = "remove" /\ op'.key = k /\ op'.val = Nil
  BY <1>1
<1>5. Appending' /\ Pending'
  BY <1>1, <1>2, <1>4 DEF Appending, Pending
<1>6. Typed'
  <2>1. target' \in Maps
    BY <1>1 DEF Typed, TypeOK, Maps
  <2>2. op' \in [name : {"none", "set", "remove", "removeMany", "clear", "trim", "recover"},
                 key : Keys \cup {NoKey}, val : Vals \cup {Nil}]
    BY <1>1
  <2>3. hasFW' \in BOOLEAN
    BY <1>2, Zenon
  <2>4. ensures' \in 0 .. 2
    BY <1>2
  <2> QED BY <1>1, <1>2, <1>4, <2>1, <2>2, <2>3, <2>4 DEF Typed, TypeOK, fileVars, logVars
<1> QED BY <1>2, <1>3, <1>5, <1>6 DEF StoreInv, InPhase

\* A write-back or a clearAll that an operation begins with, in the state the
\* operation found.
LEMMA BeginsRewrite ==
    ASSUME StoreInv, NEW name \in {"removeMany", "trim"}, NEW m \in Maps,
           Begin(name, NoKey, Nil, m), name = "trim" => m = cur,
           off' \in [Keys -> 0 .. MaxCap], ensures' = ensures, hasFW' \in BOOLEAN,
           \A k \in Keys : off'[k] = 0 \/ (off'[k] = off[k] /\ m[k] = cur[k]),
           \A k \in Keys : off'[k] = 0 => m[k] = Nil,
           \/ /\ Count(off') > 0 /\ StartWriteBack(off', "done")
              /\ UNCHANGED <<fileVars, logVars, inc>>
           \/ Count(off') = 0 /\ StartClear(FALSE)
    PROVE  StoreInv'
<1>1. /\ Typed /\ pc = "idle" /\ loaded /\ Quiet /\ cur = target
      /\ op' = [name |-> name, key |-> NoKey, val |-> Nil] /\ target' = m
      /\ cur' = cur /\ snap' = snap /\ loaded' = loaded
      /\ metaSize' = metaSize /\ metaCrc' = metaCrc /\ lastSize' = lastSize /\ lastCrc' = lastCrc
  BY Begins
<1>2. op'.name = name /\ op'.key = NoKey /\ op'.val = Nil
      /\ op' \in [name : {"none", "set", "remove", "removeMany", "clear", "trim", "recover"},
                  key : Keys \cup {NoKey}, val : Vals \cup {Nil}]
  BY <1>1
<1>3. Rewriting' /\ Want' = m
  BY <1>1, <1>2 DEF Rewriting, Want
<1>4. CASE StartWriteBack(off', "done") /\ UNCHANGED <<fileVars, logVars, inc>>
  <2>1. mem' = mem /\ fileSize' = fileSize /\ fileSize \in Nat /\ fileSize > 3
    BY <1>1, <1>4, SizingAssumption DEF fileVars, Typed, TypeOK, Cap
  <2>2. /\ actual \in Nat /\ actual + 1 <= fileSize
        /\ \A k \in Keys : off[k] # 0 =>
              off[k] \in 2 .. actual /\ mem[off[k]] = Rec(k, cur[k]) /\ cur[k] # Nil
    BY <1>1, QuietRecords
  <2>3. \A k \in Keys : off'[k] # 0 =>
          off'[k] \in 2 .. fileSize' - 1 /\ mem'[off'[k]] = Rec(k, Want'[k]) /\ Want'[k] # Nil
    BY <1>3, <2>1, <2>2
  <2>4. pc' = "move" /\ Moving' /\ kept' \in BOOLEAN
    BY <1>3, <1>4, <2>1, <2>3, WriteBackStarts
  <2>5. Typed'
    BY <1>1, <1>2, <1>4, <2>1, <2>4, CellsAssumption
    DEF Typed, TypeOK, StartWriteBack, ItemSizeHolderSize, Cap, logVars
  <2> QED BY <2>4, <2>5 DEF StoreInv, InPhase
<1>5. CASE Count(off') = 0 /\ StartClear(FALSE)
  <2>1. \A k \in Keys : off'[k] = 0
    BY <1>5, CountNat
  <2>2. target' = EmptyMap
    BY <1>1, <2>1 DEF EmptyMap, Maps
  <2>3. pc' = "metaCrc" /\ Storing' /\ actual' = 0 /\ kept' \in BOOLEAN
        /\ mem' \in [Cap -> Cell] /\ fileSize' \in Cap /\ fileSize' >= expectedCapacity
    BY <1>1, <1>5, <2>2, ClearStarts
  <2>4. Typed'
    BY <1>1, <1>2, <1>5, <2>3, CellsAssumption DEF Typed, TypeOK, StartClear, WriteMeta
  <2> QED BY <2>3, <2>4 DEF StoreInv, InPhase
<1> QED BY <1>4, <1>5

\* removeValuesForKeys begins with the dictionary it wants to keep.
LEMMA RemoveManyBeginStep ==
    ASSUME StoreInv, NEW S \in SUBSET Keys, RemoveManyBegin(S)
    PROVE  StoreInv'
<1> DEFINE m == [k \in Keys |-> IF k \in S THEN Nil ELSE cur[k]]
<1>1. /\ Begin("removeMany", NoKey, Nil, m)
      /\ off' = [k \in Keys |-> IF k \in S THEN 0 ELSE off[k]]
      /\ hasFW' = FALSE /\ ensures' = ensures
      /\ \/ /\ Count(off') > 0 /\ StartWriteBack(off', "done")
            /\ UNCHANGED <<fileVars, logVars, inc>>
         \/ Count(off') = 0 /\ StartClear(FALSE)
  BY DEF RemoveManyBegin
<1> HIDE DEF m
<1>2. Typed /\ Quiet
  BY <1>1, Begins
<1>3. m \in Maps /\ off' \in [Keys -> 0 .. MaxCap]
  BY <1>1, <1>2, CellsAssumption DEF Typed, TypeOK, Maps, m
<1>4. \A k \in Keys : off[k] = 0 => cur[k] = Nil
  BY <1>2, QuietRecords
<1>5. /\ \A k \in Keys : off'[k] = 0 \/ (off'[k] = off[k] /\ m[k] = cur[k])
      /\ \A k \in Keys : off'[k] = 0 => m[k] = Nil
  BY <1>1, <1>4 DEF m
<1>6. hasFW' \in BOOLEAN /\ "removeMany" \in {"removeMany", "trim"} /\ "removeMany" # "trim"
  BY <1>1
<1> QED BY <1>1, <1>3, <1>5, <1>6, BeginsRewrite

\* clearAll begins with the empty region.
LEMMA ClearAllStep ==
    ASSUME StoreInv, NEW keepSpace \in BOOLEAN, ClearAll(keepSpace)
    PROVE  StoreInv'
<1>1. /\ Typed /\ pc = "idle" /\ loaded /\ Quiet /\ cur = target
      /\ op' = [name |-> "clear", key |-> NoKey, val |-> Nil] /\ target' = EmptyMap
      /\ cur' = cur /\ snap' = snap /\ loaded' = loaded
      /\ metaSize' = metaSize /\ metaCrc' = metaCrc /\ lastSize' = lastSize /\ lastCrc' = lastCrc
  BY Begins DEF ClearAll
<1>2. op'.name = "clear" /\ op'.key = NoKey /\ op'.val = Nil
      /\ op' \in [name : {"none", "set", "remove", "removeMany", "clear", "trim", "recover"},
                  key : Keys \cup {NoKey}, val : Vals \cup {Nil}]
  BY <1>1
<1>3. StartClear(keepSpace) /\ UNCHANGED <<off, hasFW, ensures>>
  BY DEF ClearAll
<1>4. pc' = "metaCrc" /\ Storing' /\ actual' = 0 /\ kept' \in BOOLEAN
      /\ mem' \in [Cap -> Cell] /\ fileSize' \in Cap /\ fileSize' >= expectedCapacity
  BY <1>1, <1>3, ClearStarts
<1>5. EmptyMap \in Maps
  BY DEF EmptyMap, Maps
<1>6. Typed'
  BY <1>1, <1>2, <1>3, <1>4, <1>5, CellsAssumption DEF Typed, TypeOK, StartClear, WriteMeta
<1> QED BY <1>4, <1>6 DEF StoreInv, InPhase

\* trim begins with a write-back, unless there was one.
LEMMA TrimStep ==
    ASSUME StoreInv, Trim
    PROVE  StoreInv'
<1>1. /\ Typed /\ pc = "idle" /\ loaded /\ Quiet /\ cur = target
      /\ op' = [name |-> "trim", key |-> NoKey, val |-> Nil] /\ target' = cur
      /\ cur' = cur /\ snap' = snap /\ loaded' = loaded
      /\ metaSize' = metaSize /\ metaCrc' = metaCrc /\ lastSize' = lastSize /\ lastCrc' = lastCrc
  BY Begins DEF Trim
<1>2. UNCHANGED <<off, hasFW, ensures>>
  BY DEF Trim
<1>3. CASE pc' = "shrink" /\ UNCHANGED <<fileVars, logVars, todo, wp, inc, after, kept>>
  <2>1. Quiet'
    BY <1>1, <1>2, <1>3 DEF Quiet, Region, Decoded, fileVars, logVars
  <2>2. op'.name = "trim" /\ op'.key = NoKey /\ op'.val = Nil
        /\ op' \in [name : {"none", "set", "remove", "removeMany", "clear", "trim", "recover"},
                    key : Keys \cup {NoKey}, val : Vals \cup {Nil}]
    BY <1>1
  <2>3. Typed'
    BY <1>1, <1>2, <1>3, <2>2 DEF Typed, TypeOK, fileVars, logVars
  <2> QED BY <1>1, <1>3, <2>1, <2>3 DEF StoreInv, InPhase
<1>4. CASE \/ /\ Count(off') > 0 /\ StartWriteBack(off', "done")
              /\ UNCHANGED <<fileVars, logVars, inc>>
           \/ Count(off') = 0 /\ StartClear(FALSE)
  <2>1. Begin("trim", NoKey, Nil, cur)
    BY DEF Trim
  <2>2. /\ cur \in Maps /\ off' \in [Keys -> 0 .. MaxCap] /\ ensures' = ensures /\ hasFW' \in BOOLEAN
        /\ off' = off
    BY <1>1, <1>2 DEF Typed, TypeOK
  <2>3. \A k \in Keys : off[k] = 0 => cur[k] = Nil
    BY <1>1, QuietRecords
  <2> QED BY <1>4, <2>1, <2>2, <2>3, BeginsRewrite
<1> QED BY <1>2, <1>3, <1>4 DEF Trim

-----------------------------------------------------------------------------
\* ensureMemorySize is called in a quiet store.
LEMMA Ensures ==
    ASSUME StoreInv, pc = "ensure"
    PROVE  Typed /\ Quiet /\ Appending /\ Pending /\ loaded
BY DEF StoreInv, InPhase, Typed

\* Where there is room for it the append fits.
LEMMA EnsureEnoughStep ==
    ASSUME StoreInv, EnsureEnough
    PROVE  StoreInv'
<1>1. Typed /\ Quiet /\ Appending /\ Pending /\ loaded
  BY Ensures DEF EnsureEnough
<1>2. /\ UNCHANGED <<fileVars, metaVars, loaded, off, logVars, hasFW, op, todo, wp, inc, after, mapVars>>
      /\ ensures' = ensures - 1 /\ pc' = IF ensures = 1 THEN "put" ELSE "ensure"
  BY DEF EnsureEnough
<1>3. Quiet' /\ Appending'
  BY <1>1, <1>2
  DEF Quiet, Region, Decoded, Appending, fileVars, logVars, metaVars, mapVars
<1>4. Typed'
  BY <1>1, <1>2 DEF Typed, TypeOK, Pending, fileVars, logVars, metaVars, mapVars
<1>5. ensures = 2 => Pending'
  BY <1>1, <1>2 DEF Pending
<1>6. actual >= 1 /\ actual + 2 <= fileSize
  <2>1. /\ actual \in Nat /\ fileSize \in Nat /\ out = actual
        /\ \A k \in Keys : off[k] # 0 => off[k] \in 2 .. actual
    BY <1>1, QuietRecords DEF Quiet, Decoded, Typed, TypeOK, Cap
  <2>2. ~ (1 >= SpaceLeft(fileSize, out)) /\ Count(off) # 0
    BY DEF EnsureEnough, Rewrites, NeedsWriteBack
  <2>3. \E k \in Keys : off[k] # 0
    BY <2>2, CountNat
  <2> QED BY <2>1, <2>2, <2>3 DEF SpaceLeft, Fixed32Size
<1>7. CASE ensures = 1
  BY <1>2, <1>3, <1>4, <1>6, <1>7
  DEF StoreInv, InPhase, fileVars, logVars
<1>8. CASE ensures = 2
  BY <1>2, <1>3, <1>4, <1>5, <1>8 DEF StoreInv, InPhase
<1> QED BY <1>1, <1>7, <1>8 DEF Pending

\* A larger file holds the same region.
LEMMA EnsureWriteBackStep ==
    ASSUME StoreInv, EnsureWriteBack
    PROVE  StoreInv'
<1>1. Typed /\ Quiet /\ Appending /\ Pending /\ loaded
  BY Ensures DEF EnsureWriteBack
<1>2. /\ UNCHANGED <<metaVars, loaded, off, logVars, hasFW, op, ensures, inc, cur, target, snap>>
      /\ StartWriteBack(off, "ensured")
  BY DEF EnsureWriteBack
<1>3. off' = off /\ op' = op /\ cur' = cur /\ ensures' = ensures /\ Appending' /\ Pending'
  BY <1>1, <1>2 DEF Appending, Pending
<1>4. LenNeeded(off) = Count(off) + 3 /\ Count(off) \in Nat
  BY FutureUsageNat, CountNat
<1>5. /\ mem \in [Cap -> Cell] /\ fileSize \in Cap /\ fileSize > 3 /\ fileSize >= expectedCapacity
      /\ actual \in 0 .. MaxCap /\ actual + 1 <= fileSize
      /\ off = Decode(mem, actual) /\ Content(mem, actual) = cur
  BY <1>1, SizingAssumption
  DEF Typed, TypeOK, Quiet, Region, Decoded, Fits, Fixed32Size, Cap
<1>6. /\ mem' \in [Cap -> Cell] /\ fileSize' \in Cap /\ fileSize' >= fileSize
      /\ Count(off) + 3 < fileSize'
      /\ off = Decode(mem', actual) /\ Content(mem', actual) = cur
  <2>1. CASE ~MustExpand(off, fileSize) /\ UNCHANGED fileVars
    BY <1>4, <1>5, <2>1 DEF MustExpand, fileVars, Cap
  <2>2. ASSUME NEW size \in Cap, Doubled(off, fileSize, size), Truncate(size)
        PROVE  /\ mem' \in [Cap -> Cell] /\ fileSize' \in Cap /\ fileSize' >= fileSize
               /\ Count(off) + 3 < fileSize'
               /\ off = Decode(mem', actual) /\ Content(mem', actual) = cur
    <3>1. size >= fileSize /\ size > Count(off) + 3
      BY <1>4, <1>5, <2>2, DoubledGrows
    <3>2. actual \in Nat /\ actual + Fixed32Size <= size
      BY <1>5, <3>1 DEF Fixed32Size, Cap
    <3>3. mem' = Cut(mem, size) /\ fileSize' = size
      BY <2>2 DEF Truncate
    <3> QED BY <1>4, <1>5, <3>1, <3>2, <3>3, CutKeeps DEF Cap
  <2> QED BY <2>1, <2>2 DEF EnsureWriteBack
<1>7. Want' = cur
  BY <1>1, <1>3 DEF Want, Appending
<1>8. \A k \in Keys :
        /\ off[k] # 0 => off[k] \in 2 .. actual /\ mem'[off[k]] = Rec(k, cur[k]) /\ cur[k] # Nil
        /\ off[k] = 0 => cur[k] = Nil
  BY <1>5, <1>6, DecodedRecords
<1>9. fileSize' \in Nat /\ fileSize' > 3 /\ fileSize' >= expectedCapacity /\ actual <= fileSize' - 1
  <2>1. fileSize \in Nat /\ fileSize' \in Nat /\ expectedCapacity \in Nat
    BY <1>5, <1>6, SizingAssumption DEF Cap
  <2>2. actual \in Nat
    BY <1>5, CellsAssumption
  <2>3. fileSize > 3 /\ fileSize >= expectedCapacity /\ actual + 1 <= fileSize /\ fileSize' >= fileSize
    BY <1>5, <1>6, Zenon
  <2>4. fileSize' > 3
    BY <2>1, <2>3
  <2>5. fileSize' >= expectedCapacity
    BY <2>1, <2>3
  <2>6. actual <= fileSize' - 1
    <3>1. \A a, b, c \in Int : a + 1 <= b /\ c >= b => a <= c - 1
      OBVIOUS
    <3>2. actual \in Int /\ fileSize \in Int /\ fileSize' \in Int
      BY <2>1, <2>2
    <3> QED BY <2>3, <3>1, <3>2
  <2> QED BY <2>1, <2>4, <2>5, <2>6
<1>10. \A k \in Keys : off'[k] # 0 =>
          off'[k] \in 2 .. fileSize' - 1 /\ mem'[off'[k]] = Rec(k, Want'[k]) /\ Want'[k] # Nil
  <2> SUFFICES ASSUME NEW k \in Keys, off[k] # 0
               PROVE  off[k] \in 2 .. fileSize' - 1 /\ mem'[off[k]] = Rec(k, cur[k]) /\ cur[k] # Nil
    BY <1>3, <1>7, Zenon
  <2>1. off[k] \in 2 .. actual /\ mem'[off[k]] = Rec(k, cur[k]) /\ cur[k] # Nil
    BY <1>8
  <2>2. \A i \in 2 .. actual : i \in 2 .. fileSize' - 1
    <3>1. actual \in Nat
      BY <1>5, CellsAssumption
    <3>2. \A a, b \in Nat : a <= b - 1 => \A i \in 2 .. a : i \in 2 .. b - 1
      OBVIOUS
    <3>3. fileSize' \in Nat /\ actual <= fileSize' - 1
      BY <1>9
    <3> QED BY <3>1, <3>2, <3>3
  <2> QED BY <2>1, <2>2
<1>11. pc' = "move" /\ Moving' /\ kept' \in BOOLEAN
  BY <1>2, <1>3, <1>6, <1>7, <1>8, <1>9, <1>10, WriteBackStarts
<1>12. Typed'
  BY <1>1, <1>2, <1>6, <1>9, <1>11, CellsAssumption
  DEF Typed, TypeOK, StartWriteBack, ItemSizeHolderSize, Cap, logVars, metaVars
<1> QED BY <1>11, <1>12 DEF StoreInv, InPhase

\* A call that fails leaves the store as it was.
LEMMA EnsureFailsStep ==
    ASSUME StoreInv, EnsureFails
    PROVE  StoreInv'
<1>1. Typed /\ Quiet /\ Appending /\ Pending /\ loaded
  BY Ensures DEF EnsureFails
<1>2. /\ UNCHANGED <<fileVars, metaVars, loaded, off, logVars, hasFW, cur, snap, kept>>
      /\ Idle /\ target' = cur
  BY DEF EnsureFails
<1>3. Quiet'
  BY <1>1, <1>2 DEF Quiet, Region, Decoded, fileVars, logVars, metaVars
<1>4. Typed'
  BY <1>1, <1>2, IdleTyped DEF Typed, TypeOK, fileVars, logVars, metaVars
<1> QED BY <1>1, <1>2, <1>3, <1>4 DEF StoreInv, InPhase, Idle

\* memmoveDictionary moves the first of the records left, over none of the others.
LEMMA MoveStep ==
    ASSUME StoreInv, NEW k \in Keys, Move(k)
    PROVE  StoreInv'
<1>1. Typed /\ Moving
  BY DEF StoreInv, InPhase, Move
<1>2. /\ k \in todo /\ \A j \in todo : off[k] <= off[j]
      /\ mem' = [mem EXCEPT ![wp] = mem[off[k]]] /\ off' = [off EXCEPT ![k] = wp]
      /\ wp' = wp + 1 /\ todo' = todo \ {k}
      /\ UNCHANGED <<fileSize, metaVars, loaded, logVars, hasFW, pc, op, ensures, inc, after, mapVars>>
  BY DEF Move
<1>3. /\ mem \in [Cap -> Cell] /\ off \in [Keys -> 0 .. MaxCap] /\ todo \subseteq Keys
      /\ fileSize \in Cap /\ wp \in 2 .. fileSize /\ MaxCap \in Nat
  BY <1>1, CellsAssumption DEF Typed, TypeOK, Moving
<1>4. /\ off[k] # 0 /\ off[k] \in 2 .. fileSize - 1 /\ off[k] >= wp
      /\ mem[off[k]] = Rec(k, Want[k]) /\ Want[k] # Nil
  BY <1>1, <1>2 DEF Moving
<1>5. wp \in 2 .. fileSize - 1 /\ wp \in Cap /\ off[k] \in Cap
  BY <1>3, <1>4 DEF Cap
<1>6. Want' = Want /\ fileSize' = fileSize
  BY <1>2 DEF Want, mapVars
<1>7. ASSUME NEW j \in Keys, j # k, off[j] # 0 PROVE off'[j] = off[j] /\ mem'[off[j]] = mem[off[j]]
  <2>1. off[j] # wp
    <3>1. CASE j \in todo
      <4>1. off[k] <= off[j] /\ off[k] >= wp
        BY <1>2, <1>4, <3>1
      <4>2. CASE off[j] = wp
        <5>1. off[j] = off[k]
          BY <1>3, <1>4, <4>1, <4>2
        <5>2. mem[off[j]] = Rec(j, Want[j])
          BY <1>1, <1>7 DEF Moving
        <5> QED BY <1>4, <1>7, <5>1, <5>2 DEF Rec
      <4> QED BY <4>2
    <3>2. CASE j \notin todo
      BY <1>1, <1>3, <3>2 DEF Moving
    <3> QED BY <3>1, <3>2
  <2> QED BY <1>1, <1>2, <1>3, <1>7, <2>1 DEF Moving, Cap
<1>8. off'[k] = wp /\ mem'[wp] = Rec(k, Want[k])
  BY <1>2, <1>3, <1>4, <1>5
<1>9. \A j \in Keys : off'[j] # 0 =>
        off'[j] \in 2 .. fileSize' - 1 /\ mem'[off'[j]] = Rec(j, Want'[j]) /\ Want'[j] # Nil
  <2> SUFFICES ASSUME NEW j \in Keys, off'[j] # 0
               PROVE  off'[j] \in 2 .. fileSize - 1 /\ mem'[off'[j]] = Rec(j, Want[j]) /\ Want[j] # Nil
    BY <1>6
  <2>1. CASE j = k
    BY <1>4, <1>5, <1>8, <2>1
  <2>2. CASE j # k
    <3>1. off[j] = off'[j]
      BY <1>2, <1>3, <2>2
    <3> QED BY <1>1, <1>7, <2>2, <3>1 DEF Moving
  <2> QED BY <2>1, <2>2
<1>10. \A j \in Keys : j # k => off'[j] = off[j]
  BY <1>2, <1>3
<1>11. /\ \A j \in Keys : off'[j] = 0 => Want'[j] = Nil /\ j \notin todo'
       /\ \A j \in todo' : off'[j] >= wp'
       /\ \A j \in Keys \ todo' : off'[j] < wp'
  <2>1. ASSUME NEW j \in Keys, off'[j] = 0 PROVE Want'[j] = Nil /\ j \notin todo'
    BY <1>1, <1>2, <1>5, <1>6, <1>8, <1>10, <2>1 DEF Moving
  <2>2. ASSUME NEW j \in todo' PROVE off'[j] >= wp'
    <3>1. j \in Keys /\ j \in todo /\ j # k
      BY <1>2, <1>3
    <3>2. off[j] # 0 /\ off[j] >= wp /\ off[j] \in Nat
      BY <1>1, <1>3, <3>1 DEF Moving
    <3>3. off[j] # wp
      <4>1. CASE off[j] = wp
        <5>1. off[j] = off[k]
          BY <1>2, <1>3, <1>4, <3>1, <4>1
        <5>2. mem[off[j]] = Rec(j, Want[j])
          BY <1>1, <3>1, <3>2 DEF Moving
        <5> QED BY <1>4, <3>1, <5>1, <5>2 DEF Rec
      <4> QED BY <4>1
    <3> QED BY <1>2, <1>3, <1>10, <3>1, <3>2, <3>3
  <2>3. ASSUME NEW j \in Keys \ todo' PROVE off'[j] < wp'
    <3>1. CASE j = k
      BY <1>2, <1>3, <1>8, <3>1
    <3>2. CASE j # k
      BY <1>1, <1>2, <1>3, <1>10, <3>2 DEF Moving
    <3> QED BY <3>1, <3>2
  <2> QED BY <2>1, <2>2, <2>3
<1>12. \A i \in 2 .. wp' - 1 : \E j \in Keys \ todo' : off'[j] = i
  <2> SUFFICES ASSUME NEW i \in 2 .. wp PROVE \E j \in Keys \ todo' : off'[j] = i
    BY <1>2, <1>3
  <2>1. CASE i = wp
    BY <1>2, <1>8, <2>1
  <2>2. CASE i # wp
    <3>1. i \in 2 .. wp - 1
      BY <1>3, <2>2
    <3>2. PICK j \in Keys \ todo : off[j] = i
      BY <1>1, <3>1 DEF Moving
    <3> QED BY <1>2, <1>10, <3>2
  <2> QED BY <2>1, <2>2
<1>13. wp' \in 2 .. fileSize'
  BY <1>2, <1>3, <1>5, <1>6 DEF Cap
<1>14. \/ /\ after' = "ensured" /\ Appending' /\ Pending'
          /\ Count(off') = wp' - 2 + Cardinality(todo')
          /\ Count(off') + 3 < fileSize'
       \/ after' = "done" /\ Rewriting'
  <2>1. CASE after = "done" /\ Rewriting
    BY <1>2, <2>1 DEF Rewriting, mapVars
  <2>2. CASE /\ after = "ensured" /\ Appending /\ Pending
             /\ Count(off) = wp - 2 + Cardinality(todo)
             /\ Count(off) + 3 < fileSize
    <3>1. Appending' /\ after' = "ensured"
      BY <1>2, <2>2 DEF Appending, mapVars
    <3>2. Pending'
      BY <1>2, <1>5, <1>8, <1>10, <2>2 DEF Pending, Appending
    <3>3. {j \in Keys : off'[j] # 0} = {j \in Keys : off[j] # 0}
      BY <1>4, <1>5, <1>8, <1>10
    <3>4. Count(off') = Count(off)
      BY <3>3 DEF Count
    <3>5. IsFiniteSet(todo)
      BY <1>3, SizingAssumption, FS_Subset
    <3>6. Cardinality(todo') = Cardinality(todo) - 1 /\ Cardinality(todo) \in Nat
      BY <1>2, <3>5, FS_RemoveElement, FS_CardinalityType
    <3> QED BY <1>2, <1>3, <2>2, <3>1, <3>2, <3>4, <3>6
  <2> QED BY <1>1, <2>1, <2>2 DEF Moving
<1>15. Moving'
  BY <1>9, <1>11, <1>12, <1>13, <1>14 DEF Moving
<1>16. Typed'
  <2>1. mem' \in [Cap -> Cell] /\ off' \in [Keys -> 0 .. MaxCap]
    BY <1>2, <1>3, <1>5 DEF Cap
  <2>2. todo' \in SUBSET Keys /\ wp' \in 0 .. MaxCap
    BY <1>2, <1>3, <1>5 DEF Cap
  <2> QED BY <1>1, <1>2, <2>1, <2>2 DEF Typed, TypeOK, metaVars, logVars, mapVars
<1> QED BY <1>2, <1>15, <1>16 DEF StoreInv, InPhase, Move

\* The moved records are the whole dictionary.
LEMMA MoveDoneStep ==
    ASSUME StoreInv, MoveDone
    PROVE  StoreInv'
<1>1. Typed /\ Moving
  BY DEF StoreInv, InPhase, MoveDone
<1>2. /\ todo = {} /\ actual' = wp - 1 /\ out' = wp - 1
      /\ \E h \in Holders : mem' = [mem EXCEPT ![1] = Holder(h)]
      /\ crc' = Crc(mem', wp - 1) /\ WriteMeta(TRUE, after)
      /\ UNCHANGED <<fileSize, metaVars, loaded, off, hasFW, op, ensures, todo, wp, mapVars>>
  BY DEF MoveDone
<1>3. /\ mem \in [Cap -> Cell] /\ off \in [Keys -> 0 .. MaxCap] /\ MaxCap \in Nat
      /\ fileSize \in Cap /\ wp \in 2 .. fileSize
  BY <1>1, CellsAssumption DEF Typed, TypeOK, Moving
<1>4. mem' \in [Cap -> Cell] /\ \A i \in 2 .. MaxCap : mem'[i] = mem[i]
  BY <1>2, <1>3 DEF Cap, Cell
<1>5. wp - 1 \in Nat /\ wp - 1 \in 1 .. MaxCap
  BY <1>3 DEF Cap
<1>6. \A k \in Keys :
        /\ off[k] # 0 =>
              off[k] \in 2 .. wp - 1 /\ mem'[off[k]] = Rec(k, Want[k]) /\ Want[k] # Nil
        /\ off[k] = 0 => Want[k] = Nil
  <2> SUFFICES ASSUME NEW k \in Keys
               PROVE  /\ off[k] # 0 =>
                            off[k] \in 2 .. wp - 1 /\ mem'[off[k]] = Rec(k, Want[k]) /\ Want[k] # Nil
                      /\ off[k] = 0 => Want[k] = Nil
    OBVIOUS
  <2>1. off[k] \in 0 .. MaxCap /\ off[k] < wp
    BY <1>1, <1>2, <1>3 DEF Moving
  <2>2. off[k] # 0 => off[k] \in 2 .. fileSize - 1 /\ mem[off[k]] = Rec(k, Want[k]) /\ Want[k] # Nil
    BY <1>1 DEF Moving
  <2>3. off[k] = 0 => Want[k] = Nil
    BY <1>1 DEF Moving
  <2> QED BY <1>3, <1>4, <2>1, <2>2, <2>3
<1>7. \A i \in 2 .. wp - 1 : \E k \in Keys : off[k] = i
  BY <1>1 DEF Moving
<1>8. Decode(mem', wp - 1) = off
  <2>1. off \in [Keys -> Nat]
    BY <1>3
  <2>2. \A k \in Keys : off[k] # 0 =>
          off[k] \in 2 .. wp - 1 /\ mem'[off[k]].key = k /\ mem'[off[k]].val # Nil
    BY <1>6, RecFields
  <2> QED BY <1>5, <1>7, <2>1, <2>2, DecodeExact
<1>9. Content(mem', wp - 1) = Want
  <2>1. Want \in Maps
    BY <1>1 DEF Want, Typed, TypeOK
  <2>2. ASSUME NEW k \in Keys PROVE Content(mem', wp - 1)[k] = Want[k]
    BY <1>6, <1>8, RecFields DEF Content, View
  <2> QED BY <2>1, <2>2 DEF Content, View, Maps
<1>10. Region' /\ Decoded'
  BY <1>2, <1>3, <1>5, <1>8 DEF Region, Decoded, Fits, Fixed32Size, Cap
<1>11. Storing'
  <2>1. CASE /\ after = "ensured" /\ Appending /\ Pending
             /\ Count(off) = wp - 2 + Cardinality(todo)
             /\ Count(off) + 3 < fileSize
    <3>1. Appending' /\ Pending' /\ after' = "ensured" /\ Want = cur /\ cur' = cur
      BY <1>2, <2>1 DEF Appending, Pending, Want, WriteMeta, mapVars
    <3>2. Cardinality(todo) = 0
      BY <1>2, FS_EmptySet
    <3>3. actual' >= 1 /\ actual' + 2 < fileSize'
      BY <1>2, <1>3, <2>1, <3>2 DEF Cap
    <3> QED BY <1>2, <1>9, <1>10, <3>1, <3>3 DEF Storing
  <2>2. CASE after = "done" /\ Rewriting
    <3>1. Rewriting' /\ after' = "done" /\ Want = target /\ target' = target
      BY <1>2, <2>2 DEF Rewriting, Want, WriteMeta, mapVars
    <3> QED BY <1>2, <1>9, <1>10, <3>1 DEF Storing
  <2> QED BY <1>1, <2>1, <2>2 DEF Moving
<1>12. Typed'
  <2>1. inc' \in BOOLEAN /\ pc' = "metaCrc" /\ after' = after
    BY <1>2, Zenon DEF WriteMeta
  <2>2. actual' \in 0 .. MaxCap /\ out' \in 0 .. MaxCap
    BY <1>2, <1>5
  <2>3. loaded
    BY <1>1 DEF Typed, MoveDone
  <2> QED BY <1>1, <1>2, <1>4, <2>1, <2>2, <2>3 DEF Typed, TypeOK, metaVars, mapVars
<1> QED BY <1>2, <1>11, <1>12 DEF StoreInv, InPhase, WriteMeta

\* An append changes the map at its key.
LEMMA PutStep ==
    ASSUME StoreInv, Put
    PROVE  StoreInv'
<1>1. Typed /\ Quiet /\ Appending /\ actual >= 1 /\ actual + 2 <= fileSize /\ loaded
  BY DEF StoreInv, InPhase, Put, Typed
<1>2. /\ mem' = [mem EXCEPT ![out + 1] = Rec(op.key, op.val)] /\ out' = out + 1
      /\ actual' = actual + 1 /\ crc' = Append(crc, mem'[actual + 1])
      /\ WriteMeta(FALSE, "appended")
      /\ UNCHANGED <<fileSize, metaVars, loaded, off, hasFW, op, ensures, todo, wp, mapVars>>
  BY DEF Put
<1>3. /\ mem \in [Cap -> Cell] /\ fileSize \in Cap /\ actual \in Nat /\ MaxCap \in Nat
      /\ actual + 1 \in Cap /\ out = actual
  BY <1>1, CellsAssumption DEF Typed, TypeOK, Cap, Quiet, Decoded
<1>4. op.key \in Keys /\ op.val \in Vals \cup {Nil} /\ (op.val = Nil <=> op.name # "set")
      /\ Rec(op.key, op.val) \in Cell
  BY <1>1, CellsAssumption DEF Appending, Rec, Cell
<1> DEFINE w == [mem EXCEPT ![actual + 1] = Rec(op.key, op.val)]
           n == actual + 1
<1>5. /\ Decode(w, n) = [Decode(mem, actual) EXCEPT ![op.key] = IF op.val = Nil THEN 0 ELSE n]
      /\ Content(w, n) = [Content(mem, actual) EXCEPT ![op.key] = op.val]
  <2>1. w[actual + 1] = Rec(op.key, op.val) /\ \A i \in 2 .. actual : w[i] = mem[i]
    BY <1>3, <1>4 DEF Cap
  <2> HIDE DEF w
  <2> QED BY <1>1, <1>3, <1>4, <2>1, DecodeAppend
<1>6. Crc(w, n) = Append(Crc(mem, actual), Rec(op.key, op.val))
  BY <1>3, <1>4, CrcAppend
<1>7. mem' = w /\ w \in [Cap -> Cell] /\ w[n] = Rec(op.key, op.val) /\ actual' = n /\ out' = n
  BY <1>2, <1>3, <1>4
<1> HIDE DEF w, n
<1>8. off = Decode(mem, actual) /\ crc = Crc(mem, actual) /\ Content(mem, actual) = cur
  BY <1>1 DEF Quiet, Decoded, Region
<1>9. Region'
  <2>1. crc' = Crc(mem', actual')
    BY <1>2, <1>6, <1>7, <1>8 DEF n
  <2>2. Fits(actual', fileSize')
    BY <1>1, <1>2, <1>3 DEF Fits, Fixed32Size, Cap
  <2> QED BY <2>1, <2>2 DEF Region
<1>10. Appending' /\ after' = "appended" /\ pc' = "metaCrc"
  BY <1>1, <1>2 DEF Appending, WriteMeta, mapVars
<1>11. /\ Decode(mem', actual') = [off' EXCEPT ![op'.key] = IF op'.name = "set" THEN actual' ELSE 0]
       /\ Content(mem', actual') = target' /\ out' = actual'
  BY <1>1, <1>2, <1>4, <1>5, <1>7, <1>8 DEF Appending, mapVars
<1>11a. Intact' /\ Content(mem', metaSize') = cur'
  <2>1. \A i \in 1 .. actual : w[i] = mem[i]
    BY <1>3 DEF w, Cap
  <2>2. Crc(w, actual) = Crc(mem, actual)
    BY <2>1 DEF Crc
  <2>3. Content(w, actual) = Content(mem, actual)
    BY <1>3, <2>2, CrcDetermines
  <2>4. /\ metaSize' = actual /\ metaCrc' = Crc(mem, actual) /\ cur' = cur
        /\ fileSize' = fileSize /\ Fits(actual, fileSize)
    BY <1>1, <1>2 DEF Quiet, Region, metaVars, mapVars
  <2> QED BY <1>7, <1>8, <2>2, <2>3, <2>4 DEF Intact, Valid
<1>12. Storing'
  BY <1>9, <1>10, <1>11, <1>11a DEF Storing
<1>13. Typed'
  <2>1. inc' \in BOOLEAN
    BY <1>2, Zenon DEF WriteMeta
  <2>2. actual' \in 0 .. MaxCap /\ out' \in 0 .. MaxCap
    BY <1>2, <1>3 DEF Cap
  <2> QED BY <1>1, <1>2, <1>7, <1>10, <2>1, <2>2 DEF Typed, TypeOK, metaVars, mapVars
<1> QED BY <1>10, <1>12, <1>13 DEF StoreInv, InPhase

\* The holder an override writes disturbs no record the map needs.
LEMMA OverrideHolderStep ==
    ASSUME StoreInv, OverrideHolder
    PROVE  StoreInv'
<1>1. /\ Typed /\ Quiet /\ Appending /\ op.name = "set" /\ loaded
      /\ \A k \in Keys \ {op.key} : off[k] = 0
  BY DEF StoreInv, InPhase, OverrideHolder, Typed
<1>2. /\ \E h \in Holders : mem' = [mem EXCEPT ![1] = Holder(h)]
      /\ pc' = "overrideRecord" /\ kept' = FALSE
      /\ UNCHANGED <<fileSize, metaVars, loaded, off, logVars, hasFW, stepVars, cur, target, snap>>
  BY DEF OverrideHolder
<1>3. \A k \in Keys : off[k] = 0 => cur[k] = Nil
  BY <1>1, QuietRecords
<1>4. Appending'
  BY <1>1, <1>2 DEF Appending, stepVars
<1>5. mem' \in [Cap -> Cell]
  <2>1. mem \in [Cap -> Cell]
    BY <1>1 DEF Typed, TypeOK
  <2>2. PICK h \in Holders : mem' = [mem EXCEPT ![1] = Holder(h)]
    BY <1>2
  <2>3. Holder(h) \in Cell
    BY <2>2 DEF Cell
  <2> QED BY <2>1, <2>2, <2>3
<1>6. kept' \in BOOLEAN
  BY <1>2, Zenon
<1>7. Typed'
  BY <1>1, <1>2, <1>5, <1>6 DEF Typed, TypeOK, metaVars, logVars, stepVars
<1>8. op' = op /\ off' = off /\ cur' = cur
  BY <1>2 DEF stepVars
<1> QED BY <1>1, <1>2, <1>3, <1>4, <1>7, <1>8 DEF StoreInv, InPhase

\* An override leaves the one record it writes.
LEMMA OverrideRecordStep ==
    ASSUME StoreInv, OverrideRecord
    PROVE  StoreInv'
<1>1. /\ Typed /\ Appending /\ op.name = "set" /\ loaded
      /\ \A k \in Keys \ {op.key} : off[k] = 0 /\ cur[k] = Nil
  BY DEF StoreInv, InPhase, OverrideRecord, Typed
<1>2. /\ mem' = [mem EXCEPT ![2] = Rec(op.key, op.val)]
      /\ actual' = 2 /\ out' = 2 /\ crc' = Crc(mem', 2) /\ WriteMeta(FALSE, "overridden")
      /\ UNCHANGED <<fileSize, metaVars, loaded, off, hasFW, op, ensures, todo, wp, mapVars>>
  BY DEF OverrideRecord
<1>3. /\ mem \in [Cap -> Cell] /\ off \in [Keys -> 0 .. MaxCap] /\ MaxCap \in Nat /\ MaxCap > 3
      /\ fileSize \in Nat /\ fileSize > 3
  BY <1>1, CellsAssumption, SizingAssumption DEF Typed, TypeOK, Cap
<1>4. op.key \in Keys /\ op.val \in Vals /\ op.val # Nil
  BY <1>1, CellsAssumption DEF Appending
<1>5. mem' \in [Cap -> Cell] /\ mem'[2] = Rec(op.key, op.val)
  <2>1. Rec(op.key, op.val) \in Cell /\ 2 \in Cap
    BY <1>3, <1>4 DEF Cell, Rec, Cap
  <2> QED BY <1>2, <1>3, <2>1
<1> DEFINE o == [off EXCEPT ![op.key] = 2]
<1>6. o \in [Keys -> Nat] /\ o[op.key] = 2 /\ \A k \in Keys \ {op.key} : o[k] = 0
  BY <1>1, <1>3, <1>4
<1> HIDE DEF o
<1>7. Decode(mem', 2) = o
  <2>1. \A k \in Keys : o[k] # 0 => o[k] \in 2 .. 2 /\ mem'[o[k]].key = k /\ mem'[o[k]].val # Nil
    BY <1>4, <1>5, <1>6 DEF Rec
  <2>2. \A i \in 2 .. 2 : \E k \in Keys : o[k] = i
    BY <1>4, <1>6
  <2> QED BY <1>6, <2>1, <2>2, DecodeExact
<1>8. Content(mem', 2) = target
  <2>1. cur \in Maps /\ target = [cur EXCEPT ![op.key] = op.val]
    BY <1>1 DEF Typed, TypeOK, Appending
  <2>2. \A k \in Keys \ {op.key} : cur[k] = Nil
    BY <1>1
  <2>3. ASSUME NEW k \in Keys PROVE View(mem', o)[k] = target[k]
    BY <1>4, <1>5, <1>6, <2>1, <2>2 DEF View, Rec, Maps
  <2> QED BY <1>7, <2>1, <2>3 DEF Content, View, Maps
<1>9. Region'
  BY <1>2, <1>3 DEF Region, Fits, Fixed32Size
<1>10. Appending' /\ after' = "overridden" /\ pc' = "metaCrc"
  BY <1>1, <1>2 DEF Appending, WriteMeta, mapVars
<1>11. /\ Decode(mem', actual') = [off' EXCEPT ![op'.key] = IF op'.name = "set" THEN actual' ELSE 0]
       /\ Content(mem', actual') = target' /\ out' = actual'
  BY <1>1, <1>2, <1>7, <1>8 DEF o, mapVars
<1>12. Storing'
  BY <1>9, <1>10, <1>11 DEF Storing
<1>13. Typed'
  <2>1. inc' \in BOOLEAN
    BY <1>2, Zenon DEF WriteMeta
  <2>2. actual' \in 0 .. MaxCap /\ out' \in 0 .. MaxCap
    BY <1>2, <1>3
  <2> QED BY <1>1, <1>2, <1>5, <1>10, <2>1, <2>2 DEF Typed, TypeOK, metaVars, mapVars
<1> QED BY <1>10, <1>12, <1>13 DEF StoreInv, InPhase

-----------------------------------------------------------------------------
\* writeActualSize stores the digest first.
LEMMA StoreCrcStep ==
    ASSUME StoreInv, StoreCrc
    PROVE  StoreInv'
<1>1. Typed /\ Storing /\ loaded
  BY DEF StoreInv, InPhase, StoreCrc, Typed
<1>2. /\ metaCrc' = crc /\ pc' = "metaSize"
      /\ UNCHANGED <<fileVars, metaSize, lastVars, loaded, off, logVars, hasFW, stepVars, mapVars>>
  BY DEF StoreCrc
<1>3. Storing' /\ metaCrc' = crc'
  BY <1>1, <1>2
  DEF Storing, Intact, Region, Decoded, Appending, Rewriting, Pending, fileVars, logVars, stepVars, mapVars
<1>4. Typed'
  BY <1>1, <1>2 DEF Typed, TypeOK, fileVars, lastVars, logVars, stepVars, mapVars
<1> QED BY <1>2, <1>3, <1>4 DEF StoreInv, InPhase

\* What holds when the size is stored.
LEMMA StoresSize ==
    ASSUME StoreInv, NEW ret, StoreSize(ret)
    PROVE  /\ Typed /\ Storing /\ metaCrc = crc /\ loaded /\ after = ret
           /\ metaSize' = actual /\ metaCrc' = metaCrc /\ loaded' = loaded
           /\ metaSize' \in 0 .. MaxCap /\ lastSize' \in 0 .. MaxCap /\ snap' \in Maps /\ kept' \in BOOLEAN
<1>1. Typed /\ Storing /\ metaCrc = crc /\ loaded /\ after = ret /\ metaSize' = actual
      /\ metaCrc' = metaCrc /\ loaded' = loaded
  BY DEF StoreInv, InPhase, StoreSize, Typed
<1>2. Content(mem, actual) \in Maps
  BY <1>1, ContentType DEF Typed, TypeOK, Maps
<1>3. kept' \in BOOLEAN
  <2>1. CASE kept' = TRUE
    BY <2>1, Zenon
  <2>2. CASE kept' = kept
    BY <1>1, <2>2 DEF Typed, TypeOK
  <2> QED BY <2>1, <2>2 DEF StoreSize
<1> QED BY <1>1, <1>2, <1>3 DEF StoreSize, Typed, TypeOK, lastVars

\* Back in ensureMemorySize.
LEMMA WriteBackDoneStep ==
    ASSUME StoreInv, WriteBackDone
    PROVE  StoreInv'
<1>1. /\ Typed /\ Storing /\ metaCrc = crc /\ loaded /\ after = "ensured"
      /\ metaSize' = actual /\ metaCrc' = metaCrc /\ loaded' = loaded
      /\ metaSize' \in 0 .. MaxCap /\ lastSize' \in 0 .. MaxCap /\ snap' \in Maps /\ kept' \in BOOLEAN
  BY StoresSize DEF WriteBackDone
<1>2. /\ hasFW' = TRUE /\ ensures' = ensures - 1 /\ pc' = IF ensures = 1 THEN "put" ELSE "ensure"
      /\ UNCHANGED <<fileVars, off, logVars, op, todo, wp, inc, after, cur, target>>
  BY DEF WriteBackDone
<1>3. /\ Region /\ Appending /\ Pending /\ Decoded /\ Content(mem, actual) = cur
      /\ actual >= 1 /\ actual + 2 < fileSize
  BY <1>1 DEF Storing
<1>4. Quiet' /\ Appending'
  BY <1>1, <1>2, <1>3 DEF Quiet, Region, Decoded, Appending, fileVars, logVars
<1>5. Typed'
  <2>1. hasFW' \in BOOLEAN
    BY <1>2, Zenon
  <2>2. ensures' \in 0 .. 2 /\ pc' \in {"put", "ensure"}
    BY <1>2, <1>3 DEF Pending
  <2> QED BY <1>1, <1>2, <2>1, <2>2 DEF Typed, TypeOK, fileVars, logVars
<1>6. CASE ensures = 1
  <2>1. actual' >= 1 /\ actual' + 2 <= fileSize'
    <3>1. actual \in Nat /\ fileSize \in Nat
      BY <1>1, CellsAssumption DEF Typed, TypeOK, Cap
    <3>2. actual >= 1 /\ actual + 2 < fileSize /\ actual' = actual /\ fileSize' = fileSize
      BY <1>2, <1>3 DEF logVars, fileVars
    <3> QED BY <3>1, <3>2
  <2> QED BY <1>2, <1>4, <1>5, <1>6, <2>1 DEF StoreInv, InPhase
<1>7. CASE ensures = 2
  <2>1. Pending'
    BY <1>2, <1>3, <1>7 DEF Pending
  <2> QED BY <1>2, <1>4, <1>5, <1>7, <2>1 DEF StoreInv, InPhase
<1> QED BY <1>3, <1>6, <1>7 DEF Pending

\* Back in setDataForKey and removeDataForKey.
LEMMA AppendDoneStep ==
    ASSUME StoreInv, AppendDone
    PROVE  StoreInv'
<1>1. /\ Typed /\ Storing /\ metaCrc = crc /\ loaded /\ after \in {"appended", "overridden"}
      /\ metaSize' = actual /\ metaCrc' = metaCrc /\ loaded' = loaded
      /\ metaSize' \in 0 .. MaxCap /\ lastSize' \in 0 .. MaxCap /\ snap' \in Maps /\ kept' \in BOOLEAN
  BY StoresSize DEF AppendDone
<1>2. /\ \/ op.name = "set" /\ off' = [off EXCEPT ![op.key] = actual] /\ hasFW' = FALSE
         \/ op.name = "remove" /\ off' = [off EXCEPT ![op.key] = 0] /\ UNCHANGED hasFW
      /\ Idle /\ cur' = target /\ target' = target
      /\ UNCHANGED <<fileVars, logVars>>
  BY DEF AppendDone
<1>3. /\ Region /\ Appending /\ out = actual
      /\ Decode(mem, actual) = [off EXCEPT ![op.key] = IF op.name = "set" THEN actual ELSE 0]
      /\ Content(mem, actual) = target
  BY <1>1 DEF Storing
<1>4. off' = Decode(mem, actual)
  BY <1>2, <1>3
<1>5. Quiet'
  BY <1>1, <1>2, <1>3, <1>4 DEF Quiet, Region, Decoded, fileVars, logVars
<1>6. Typed'
  <2>1. off' \in [Keys -> 0 .. MaxCap]
    BY <1>1, <1>4, DecodeFacts DEF Typed, TypeOK
  <2>2. hasFW' \in BOOLEAN
    <3>1. CASE hasFW' = FALSE
      BY <3>1, Zenon
    <3>2. CASE UNCHANGED hasFW
      BY <1>1, <3>2 DEF Typed, TypeOK
    <3> QED BY <1>2, <3>1, <3>2
  <2> QED BY <1>1, <1>2, <2>1, <2>2, IdleTyped DEF Typed, TypeOK, fileVars, logVars
<1> QED BY <1>1, <1>2, <1>5, <1>6 DEF StoreInv, InPhase, Idle

\* The return from a write-back or a clearAll, to trim or to the caller.
LEMMA RewriteDone ==
    ASSUME Typed, loaded, Quiet', cur' = target', target' = target, UNCHANGED fileVars, loaded' = loaded,
           metaSize' \in 0 .. MaxCap, lastSize' \in 0 .. MaxCap, snap' \in Maps, kept' \in BOOLEAN,
           off' \in [Keys -> 0 .. MaxCap], actual' \in 0 .. MaxCap, out' \in 0 .. MaxCap,
           hasFW' \in BOOLEAN,
           \/ pc' = "shrink" /\ UNCHANGED <<op, ensures, todo, wp, inc, after>>
           \/ Idle
    PROVE  StoreInv'
<1>1. pc' \in {"idle", "shrink"}
  BY DEF Idle
<1>2. CASE UNCHANGED <<op, ensures, todo, wp, inc, after>>
  <2>1. Typed'
    BY <1>1, <1>2 DEF Typed, TypeOK, fileVars
  <2> QED BY <1>1, <2>1 DEF StoreInv, InPhase
<1>3. CASE Idle
  <2>1. Typed'
    BY <1>3, IdleTyped DEF Typed, TypeOK, fileVars
  <2> QED BY <1>1, <2>1 DEF StoreInv, InPhase
<1> QED BY <1>2, <1>3

\* Back in fullWriteback.
LEMMA FullWriteBackDoneStep ==
    ASSUME StoreInv, FullWriteBackDone
    PROVE  StoreInv'
<1>1. /\ Typed /\ Storing /\ metaCrc = crc /\ loaded /\ after = "done"
      /\ metaSize' = actual /\ metaCrc' = metaCrc /\ loaded' = loaded
      /\ metaSize' \in 0 .. MaxCap /\ lastSize' \in 0 .. MaxCap /\ snap' \in Maps /\ kept' \in BOOLEAN
  BY StoresSize DEF FullWriteBackDone
<1>2. /\ hasFW' = TRUE /\ cur' = target /\ target' = target
      /\ UNCHANGED <<fileVars, off, logVars>>
      /\ \/ pc' = "shrink" /\ UNCHANGED <<op, ensures, todo, wp, inc, after>>
         \/ Idle
  BY DEF FullWriteBackDone
<1>3. Region /\ Decoded /\ Content(mem, actual) = target
  BY <1>1 DEF Storing
<1>4. Quiet'
  BY <1>1, <1>2, <1>3 DEF Quiet, Region, Decoded, fileVars, logVars
<1>5. hasFW' \in BOOLEAN
  BY <1>2, Zenon
<1>6. off' \in [Keys -> 0 .. MaxCap] /\ actual' \in 0 .. MaxCap /\ out' \in 0 .. MaxCap
  BY <1>1, <1>2 DEF Typed, TypeOK, logVars
<1> QED BY <1>1, <1>2, <1>4, <1>5, <1>6, RewriteDone

\* Back in clearAll.
LEMMA ClearDoneStep ==
    ASSUME StoreInv, ClearDone
    PROVE  StoreInv'
<1>1. /\ Typed /\ Storing /\ metaCrc = crc /\ loaded /\ after = "cleared"
      /\ metaSize' = actual /\ metaCrc' = metaCrc /\ loaded' = loaded
      /\ metaSize' \in 0 .. MaxCap /\ lastSize' \in 0 .. MaxCap /\ snap' \in Maps /\ kept' \in BOOLEAN
  BY StoresSize DEF ClearDone
<1>2. /\ off' = NoOffsets /\ out' = 0 /\ hasFW' = FALSE /\ cur' = target /\ target' = target
      /\ UNCHANGED <<fileVars, actual, crc>>
      /\ \/ pc' = "shrink" /\ UNCHANGED <<op, ensures, todo, wp, inc, after>>
         \/ Idle
  BY DEF ClearDone
<1>3. Region /\ actual = 0 /\ target = EmptyMap
  BY <1>1 DEF Storing
<1>4. Decode(mem, actual) = NoOffsets /\ Content(mem, actual) = EmptyMap
  BY <1>3, EmptyRegion
<1>5. Quiet'
  BY <1>1, <1>2, <1>3, <1>4 DEF Quiet, Region, Decoded, fileVars
<1>6. hasFW' \in BOOLEAN
  BY <1>2, Zenon
<1>7. off' \in [Keys -> 0 .. MaxCap] /\ actual' \in 0 .. MaxCap /\ out' \in 0 .. MaxCap
  BY <1>1, <1>2, CellsAssumption DEF Typed, TypeOK, NoOffsets
<1> QED BY <1>1, <1>2, <1>5, <1>6, <1>7, RewriteDone

\* Back in loadFromFile.
LEMMA LoadWrittenStep ==
    ASSUME StoreInv, LoadWritten
    PROVE  StoreInv'
<1>1. /\ Typed /\ Storing /\ metaCrc = crc /\ loaded /\ after = "loaded"
      /\ metaSize' = actual /\ metaCrc' = metaCrc /\ loaded' = loaded
      /\ metaSize' \in 0 .. MaxCap /\ lastSize' \in 0 .. MaxCap /\ snap' \in Maps /\ kept' \in BOOLEAN
  BY StoresSize DEF LoadWritten
<1>2. Idle /\ UNCHANGED <<fileVars, off, logVars, hasFW, cur, target>>
  BY DEF LoadWritten
<1>3. Region /\ cur = target /\ Decoded /\ Content(mem, actual) = cur
  BY <1>1 DEF Storing
<1>4. Quiet' /\ cur' = target' /\ target' = target
  BY <1>1, <1>2, <1>3 DEF Quiet, Region, Decoded, fileVars, logVars
<1>5. /\ off' \in [Keys -> 0 .. MaxCap] /\ actual' \in 0 .. MaxCap /\ out' \in 0 .. MaxCap
      /\ hasFW' \in BOOLEAN
  BY <1>1, <1>2 DEF Typed, TypeOK, logVars
<1> QED BY <1>1, <1>2, <1>4, <1>5, RewriteDone

\* trim cuts nothing off the region.
LEMMA ShrinkStep ==
    ASSUME StoreInv, Shrink
    PROVE  StoreInv'
<1>1. Typed /\ Quiet /\ cur = target /\ loaded
  BY DEF StoreInv, InPhase, Shrink
<1>2. Idle /\ UNCHANGED <<metaVars, loaded, off, actual, crc, hasFW, mapVars>>
  BY DEF Shrink
<1>3. /\ mem \in [Cap -> Cell] /\ fileSize \in Cap /\ fileSize >= expectedCapacity
      /\ actual \in Nat /\ actual + Fixed32Size <= fileSize
  BY <1>1, CellsAssumption DEF Typed, TypeOK, Quiet, Region, Fits
<1>4. /\ mem' \in [Cap -> Cell] /\ fileSize' \in Cap /\ fileSize' >= expectedCapacity
      /\ actual + Fixed32Size <= fileSize' /\ out' = actual
      /\ Crc(mem', actual) = Crc(mem, actual)
      /\ Decode(mem', actual) = Decode(mem, actual)
      /\ Content(mem', actual) = Content(mem, actual)
  <2>1. ASSUME NEW size \in Cap, TrimSize(actual, fileSize, size), Truncate(size), out' = actual
        PROVE  /\ mem' \in [Cap -> Cell] /\ fileSize' \in Cap /\ fileSize' >= expectedCapacity
               /\ actual + Fixed32Size <= fileSize' /\ out' = actual
               /\ Crc(mem', actual) = Crc(mem, actual)
               /\ Decode(mem', actual) = Decode(mem, actual)
               /\ Content(mem', actual) = Content(mem, actual)
    <3>1. actual + Fixed32Size <= size /\ expectedCapacity <= size
      BY <1>3, <2>1, TrimKeeps
    <3>2. mem' = Cut(mem, size) /\ fileSize' = size
      BY <2>1 DEF Truncate
    <3>3. size \in Nat /\ expectedCapacity \in Nat
      BY SizingAssumption DEF Cap
    <3> QED BY <1>3, <2>1, <3>1, <3>2, <3>3, CutKeeps
  <2>2. CASE UNCHANGED <<fileVars, out>>
    BY <1>1, <1>3, <2>2 DEF fileVars, Quiet, Decoded
  <2> QED BY <2>1, <2>2 DEF Shrink
<1>5. Fits(actual, fileSize')
  BY <1>3, <1>4 DEF Fits, Fixed32Size, Cap
<1>6. Quiet' /\ cur' = target'
  BY <1>1, <1>2, <1>4, <1>5 DEF Quiet, Region, Decoded, metaVars, mapVars
<1>7. Typed'
  BY <1>1, <1>2, <1>4, IdleTyped DEF Typed, TypeOK, metaVars, mapVars
<1> QED BY <1>1, <1>2, <1>6, <1>7 DEF StoreInv, InPhase, Idle

-----------------------------------------------------------------------------
\* A store that is not loaded.
LEMMA ForgetTyped ==
    ASSUME Forget
    PROVE  /\ ~loaded' /\ loaded' \in BOOLEAN /\ hasFW' \in BOOLEAN
           /\ off' \in [Keys -> 0 .. MaxCap] /\ actual' \in 0 .. MaxCap /\ out' \in 0 .. MaxCap
<1>1. ~loaded' /\ loaded' \in BOOLEAN /\ hasFW' \in BOOLEAN
  BY Zenon DEF Forget
<1>2. off' \in [Keys -> 0 .. MaxCap] /\ actual' \in 0 .. MaxCap /\ out' \in 0 .. MaxCap
  BY CellsAssumption DEF Forget, NoOffsets
<1> QED BY <1>1, <1>2

\* What a load would find is a matter of the files alone.
LEMMA SameRecovered ==
    ASSUME UNCHANGED <<fileVars, metaVars>>
    PROVE  Recovered' = Recovered
BY DEF Recovered, LoadSize, LoadCase, fileVars, metaVars

\* clearMemoryCache drops nothing the files do not have.
LEMMA ClearMemoryCacheStep ==
    ASSUME StoreInv, ClearMemoryCache
    PROVE  StoreInv'
<1>1. Typed /\ pc = "idle" /\ Quiet /\ cur = target
  BY IdleLoaded DEF StoreInv, ClearMemoryCache
<1>2. Forget /\ UNCHANGED <<fileVars, metaVars, pc, stepVars, mapVars>>
  BY DEF ClearMemoryCache
<1>3. Recovered' = cur
  BY <1>1, <1>2, QuietIsDurable, SameRecovered
<1>4. Typed'
  BY <1>1, <1>2, ForgetTyped DEF Typed, TypeOK, fileVars, metaVars, stepVars, mapVars
<1> QED BY <1>1, <1>2, <1>3, <1>4, ForgetTyped DEF StoreInv, InPhase, mapVars

\* After a kill the current map is the one a load finds.
LEMMA KillStep ==
    ASSUME StoreInv, Kill
    PROVE  StoreInv'
<1>1. Typed
  BY DEF StoreInv
<1>2. /\ Forget /\ Idle /\ cur' = Recovered /\ target' = Recovered
      /\ UNCHANGED <<fileVars, metaVars, snap, kept>>
  BY DEF Kill
<1>3. Recovered' = Recovered /\ Recovered \in Maps
  BY <1>1, <1>2, SameRecovered, RecoveredType
<1>4. Typed'
  BY <1>1, <1>2, <1>3, IdleTyped, ForgetTyped DEF Typed, TypeOK, fileVars, metaVars
<1> QED BY <1>2, <1>3, <1>4, IdleTyped, ForgetTyped DEF StoreInv, InPhase

\* The invariant is about the variables of Store only.
LEMMA StutterStep ==
    ASSUME StoreInv, UNCHANGED vars
    PROVE  StoreInv'
<1>1. Recovered' = Recovered
  BY SameRecovered DEF vars
<1>2. Typed'
  BY DEF StoreInv, Typed, TypeOK, vars, fileVars, metaVars, logVars, stepVars, mapVars
<1>3. /\ Quiet => Quiet'
      /\ Moving => Moving'
      /\ Storing => Storing'
      /\ Appending => Appending'
      /\ Pending => Pending'
  BY DEF Quiet, Moving, Storing, Intact, Region, Decoded, Appending, Pending, Rewriting, Want,
         vars, fileVars, metaVars, logVars, stepVars, mapVars
<1> QED BY <1>1, <1>2, <1>3
        DEF StoreInv, InPhase, vars, fileVars, metaVars, logVars, stepVars, mapVars

\* Every step keeps the invariant.
LEMMA NextStoreInv == StoreInv /\ [Next]_vars => StoreInv'
<1> SUFFICES ASSUME StoreInv, [Next]_vars PROVE StoreInv'
  OBVIOUS
<1>1. CASE LoadValid \/ LoadFallback \/ LoadDiscard \/ LoadRecover
  BY <1>1, LoadValidStep, LoadFallbackStep, LoadDiscardStep, LoadRecoverStep
<1>2. CASE \E k \in Keys, v \in Vals : SetBegin(k, v)
  BY <1>2, SetBeginStep
<1>3. CASE \E k \in Keys : RemoveBegin(k)
  BY <1>3, RemoveBeginStep
<1>4. CASE \E S \in SUBSET Keys : RemoveManyBegin(S)
  BY <1>4, RemoveManyBeginStep
<1>5. CASE \E keepSpace \in BOOLEAN : ClearAll(keepSpace)
  BY <1>5, ClearAllStep
<1>6. CASE Trim \/ ClearMemoryCache \/ Kill
  BY <1>6, TrimStep, ClearMemoryCacheStep, KillStep
<1>7. CASE Step
  <2>1. CASE EnsureEnough \/ EnsureWriteBack \/ EnsureFails
    BY <2>1, EnsureEnoughStep, EnsureWriteBackStep, EnsureFailsStep
  <2>2. CASE (\E k \in Keys : Move(k)) \/ MoveDone
    BY <2>2, MoveStep, MoveDoneStep
  <2>3. CASE Put \/ OverrideHolder \/ OverrideRecord \/ StoreCrc \/ Shrink
    BY <2>3, PutStep, OverrideHolderStep, OverrideRecordStep, StoreCrcStep, ShrinkStep
  <2>4. CASE WriteBackDone \/ AppendDone \/ FullWriteBackDone \/ ClearDone \/ LoadWritten
    BY <2>4, WriteBackDoneStep, AppendDoneStep, FullWriteBackDoneStep, ClearDoneStep, LoadWrittenStep
  <2> QED BY <1>7, <2>1, <2>2, <2>3, <2>4 DEF Step
<1>8. CASE UNCHANGED vars
  BY <1>8, StutterStep
<1> QED BY <1>1, <1>2, <1>3, <1>4, <1>5, <1>6, <1>7, <1>8 DEF Next

\* The inductive invariant.
THEOREM SpecStoreInv == Spec => []StoreInv
<1>1. Init => StoreInv
  BY InitStoreInv
<1>2. StoreInv /\ [Next]_vars => StoreInv'
  BY NextStoreInv
<1> QED BY <1>1, <1>2, PTL DEF Spec

\* Sizes, offsets and lengths stay in range, whatever is killed or trimmed.
THEOREM SpecTypeOK == Spec => []TypeOK
<1>1. StoreInv => TypeOK
  BY DEF StoreInv, Typed
<1> QED BY <1>1, SpecStoreInv, PTL

\* Between two operations a load finds exactly the current map: setDataForKey,
\* removeDataForKey, fullWriteback, clearAll and trim leave data and meta in
\* agreement with checkDataValid.
THEOREM SpecDurableWhenIdle == Spec => []DurableWhenIdle
<1>1. StoreInv => DurableWhenIdle
  <2> SUFFICES ASSUME StoreInv, pc = "idle" PROVE Recovered = cur
    BY DEF DurableWhenIdle
  <2>1. CASE loaded
    BY <2>1, IdleLoaded, QuietIsDurable DEF StoreInv
  <2>2. CASE ~loaded
    BY <2>2, IdleUnloaded DEF StoreInv
  <2> QED BY <2>1, <2>2
<1> QED BY <1>1, SpecStoreInv, PTL

\* Between two operations every offset in m_dic leads to the current value.
THEOREM SpecReadsCurrent == Spec => []ReadsCurrent
<1>1. StoreInv => ReadsCurrent
  BY IdleLoaded, QuietRecords DEF StoreInv, ReadsCurrent
<1> QED BY <1>1, SpecStoreInv, PTL

\* doAppendDataWithKey's record in the file, and no word of it in the meta yet:
\* a kill loses nothing, as before the record was stored.
THEOREM SpecAppendIsSafe == Spec => []AppendIsSafe
<1>1. StoreInv => AppendIsSafe
  <2> SUFFICES ASSUME StoreInv,
                      pc \in {"ensure", "put"} \/ (pc = "metaCrc" /\ after = "appended")
               PROVE  Recovered = cur
    BY DEF AppendIsSafe
  <2>1. CASE pc \in {"ensure", "put"}
    BY <2>1, QuietIsDurable DEF StoreInv, InPhase
  <2>2. CASE pc = "metaCrc" /\ after = "appended"
    <3>1. Intact /\ Content(mem, metaSize) = cur
      BY <2>2 DEF StoreInv, InPhase, Storing
    <3> QED BY <3>1 DEF Intact, Recovered, LoadSize, LoadCase
  <2> QED BY <2>1, <2>2
<1> QED BY <1>1, SpecStoreInv, PTL

\* memmoveDictionary overwrites no record it still has to move.
THEOREM SpecMoveKeepsRecords == Spec => []MoveKeepsRecords
<1>1. StoreInv => MoveKeepsRecords
  BY DEF StoreInv, InPhase, MoveKeepsRecords, Moving, Want
<1> QED BY <1>1, SpecStoreInv, PTL

\* doAppendDataWithKey writes at the end of the region, inside the file.
THEOREM SpecPutFits == Spec => []PutFits
<1>1. StoreInv => PutFits
  <2> SUFFICES ASSUME StoreInv, pc = "put" PROVE out = actual /\ out + 1 <= fileSize - Fixed32Size
    BY DEF PutFits
  <2>1. out = actual /\ actual + 2 <= fileSize
    BY DEF StoreInv, InPhase, Quiet, Decoded
  <2>2. actual \in Nat /\ fileSize \in Nat
    BY CellsAssumption DEF StoreInv, Typed, TypeOK, Cap
  <2> QED BY <2>1, <2>2 DEF Fixed32Size
<1> QED BY <1>1, SpecStoreInv, PTL

\* After a write-back the second ensureMemorySize() of appendDataWithKey finds
\* room, and a dictionary that is not empty: it moves nothing.
THEOREM SpecSecondEnsureIsIdle == Spec => SecondEnsureIsIdle
<1>1. StoreInv /\ [Next]_vars => (pc = "metaSize" /\ pc' = "ensure" => ~Rewrites')
  <2> SUFFICES ASSUME StoreInv, Next, pc = "metaSize", pc' = "ensure" PROVE ~Rewrites'
    BY DEF vars
  <2>1. WriteBackDone
    BY DEF Next, Step, LoadValid, LoadFallback, LoadDiscard, LoadRecover, LoadDone, SetBegin,
           RemoveBegin, RemoveManyBegin, ClearAll, Trim, Begin, EnsureEnough, EnsureWriteBack,
           EnsureFails, Move, MoveDone, Put, OverrideHolder, OverrideRecord, StoreCrc, AppendDone, FullWriteBackDone,
           ClearDone, LoadWritten, Shrink, ClearMemoryCache, Kill, Idle
  <2>2. Typed /\ Storing /\ after = "ensured"
    BY <2>1, StoresSize DEF WriteBackDone
  <2>3. Appending /\ Pending /\ ensures # 1 /\ out = actual /\ actual + 2 < fileSize
    BY <2>1, <2>2 DEF Storing, Decoded, WriteBackDone
  <2>4. Count(off) # 0
    BY <2>3, CountNat DEF Appending, Pending
  <2>5. actual \in Nat /\ fileSize \in Nat
    BY <2>2, CellsAssumption DEF Typed, TypeOK, Cap
  <2>6. ~ (1 >= SpaceLeft(fileSize, out))
    BY <2>3, <2>5 DEF SpaceLeft, Fixed32Size
  <2>7. off' = off /\ fileSize' = fileSize /\ out' = out
    BY <2>1 DEF WriteBackDone, fileVars, logVars
  <2> QED BY <2>4, <2>6, <2>7 DEF Rewrites, NeedsWriteBack
<1> QED BY <1>1, SpecStoreInv, PTL DEF Spec, SecondEnsureIsIdle

-----------------------------------------------------------------------------
\* m_lastConfirmedMetaInfo describes a region the file still has, which no
\* load and no append cuts short, as long as no rewrite in place has begun.
Kept ==
    kept => /\ Valid(mem, fileSize, lastSize, lastCrc)
            /\ pc \notin {"move", "overrideRecord"}
            /\ lastSize <= metaSize
            /\ metaCrc = <<>> => lastSize = 0
            /\ loaded => lastSize <= actual

\* The meta is that of the operation's beginning.
Unchanged == Content(metaCrc, metaSize) = cur /\ (metaCrc = <<>> => metaSize = 0)

\* The digests in the .crc file stand for the maps of the last write-back and
\* of the operation's beginning; a digest is the content it was computed from,
\* so Content can be asked of it.  A load that falls back finds that map again.
Known ==
    /\ Content(lastCrc, lastSize) = snap
    /\ op.name # "recover" /\ (pc \in {"move", "overrideRecord"} \/ (pc = "metaCrc" /\ after # "loaded"))
          => Unchanged
    /\ pc = "metaCrc" /\ after = "loaded" => Recovered = cur
    /\ pc \in {"metaCrc", "metaSize"} /\ after = "loaded" =>
          cur = EmptyMap \/ Valid(mem, fileSize, lastSize, lastCrc)

\* A digest stands for the map of the region it was computed from.
LEMMA DigestMap ==
    ASSUME NEW m, NEW n \in Nat
    PROVE  Content(Crc(m, n), n) = Content(m, n)
<1>1. \A i \in 2 .. n : Crc(m, n)[i] = m[i]
  BY DEF Crc
<1> QED BY <1>1, SameRecords

\* A digest of no records is that of an empty region.
LEMMA EmptyDigest ==
    ASSUME NEW m, NEW n \in Nat, Crc(m, n) = <<>>
    PROVE  n = 0
<1>1. Crc(m, 0) = <<>>
  BY EmptyRegion
<1> QED BY <1>1, CrcDetermines

\* The map of a quiet store is the one its digest stands for.
LEMMA QuietUnchanged ==
    ASSUME Typed, Quiet
    PROVE  Unchanged
<1>1. actual \in Nat
  BY CellsAssumption DEF Typed, TypeOK
<1>2. metaCrc = Crc(mem, actual) /\ metaSize = actual /\ Content(mem, actual) = cur
  BY DEF Quiet, Region
<1> QED BY <1>1, <1>2, DigestMap, EmptyDigest DEF Unchanged

\* The lengths, as numbers.
LEMMA Lengths ==
    ASSUME Typed
    PROVE  metaSize \in Nat /\ lastSize \in Nat /\ actual \in Nat /\ fileSize \in Nat
BY CellsAssumption DEF Typed, TypeOK, Cap

\* A load leaves the region of lastConfirmed in the file, and inside its own.
LEMMA LoadKept ==
    ASSUME StoreInv, Kept, LoadValid \/ LoadFallback \/ LoadDiscard \/ LoadRecover
    PROVE  Kept'
<1>1. CASE LoadValid
  BY <1>1 DEF LoadValid, LoadDone, Kept, Valid, fileVars, metaVars, mapVars
<1>2. CASE LoadFallback
  <2>1. LoadCase \in {"oldStyle", "last"}
        /\ pc' = "metaCrc" /\ actual' = LoadSize
        /\ UNCHANGED <<mem, fileSize, metaCrc, metaSize, lastCrc, lastSize, kept>>
    BY <1>2 DEF LoadFallback, LoadDone, WriteMeta, fileVars, metaVars, mapVars
  <2>2. ASSUME kept PROVE lastSize <= LoadSize
    <3>1. CASE LoadCase = "last"
      BY <3>1, Lengths DEF LoadSize, StoreInv
    <3>2. CASE LoadCase = "oldStyle"
      <4>1. Crc(mem, 0) = metaCrc
        BY <3>2 DEF LoadCase, Valid
      <4>2. lastSize = 0
        BY <2>2, <4>1, EmptyRegion DEF Kept
      <4>3. LoadSize = 0
        BY <3>2, LoadSizeFits DEF StoreInv
      <4> QED BY <4>2, <4>3
    <3> QED BY <2>1, <3>1, <3>2
  <2> QED BY <2>1, <2>2 DEF Kept, Valid
<1>3. CASE LoadDiscard \/ LoadRecover
  <2>1. LoadCase = "broken" /\ kept' \in {kept, FALSE}
    BY <1>3 DEF LoadDiscard, LoadRecover, LoadDone, StartWriteBack, StartClear, mapVars
  <2>2. ~kept
    BY <2>1 DEF LoadCase, Kept
  <2> QED BY <2>1, <2>2 DEF Kept
<1> QED BY <1>1, <1>2, <1>3

\* So does every step of an operation.
LEMMA PutKept ==
    ASSUME StoreInv, Kept, Put
    PROVE  Kept'
<1>1. Typed /\ Quiet
  BY DEF StoreInv, InPhase, Put
<1>2. /\ mem' = [mem EXCEPT ![out + 1] = Rec(op.key, op.val)] /\ actual' = actual + 1
      /\ pc' = "metaCrc" /\ loaded' = loaded
      /\ UNCHANGED <<fileSize, metaCrc, metaSize, lastCrc, lastSize, kept>>
  BY DEF Put, WriteMeta, metaVars, mapVars
<1>3. actual \in Nat /\ lastSize \in Nat /\ out = actual /\ mem \in [Cap -> Cell] /\ loaded
  BY <1>1, Lengths DEF Quiet, Decoded, Typed, TypeOK, Put
<1>4. ASSUME kept PROVE Crc(mem', lastSize) = Crc(mem, lastSize) /\ lastSize <= actual'
  <2>1. lastSize <= actual
    BY <1>3, <1>4 DEF Kept
  <2>2. \A i \in 1 .. lastSize : mem'[i] = mem[i]
    BY <1>2, <1>3, <2>1
  <2> QED BY <1>2, <1>3, <2>1, <2>2 DEF Crc
<1> QED BY <1>2, <1>4 DEF Kept, Valid

LEMMA ShrinkKept ==
    ASSUME StoreInv, Kept, Shrink
    PROVE  Kept'
<1>1. Typed /\ Quiet /\ loaded
  BY DEF StoreInv, InPhase, Shrink
<1>2. /\ pc' = "idle" /\ loaded' = loaded /\ actual' = actual
      /\ UNCHANGED <<metaCrc, metaSize, lastCrc, lastSize, kept>>
  BY DEF Shrink, Idle, metaVars, mapVars
<1>3. /\ mem \in [Cap -> Cell] /\ fileSize \in Cap /\ actual \in Nat /\ lastSize \in Nat
      /\ actual + Fixed32Size <= fileSize
  BY <1>1, Lengths DEF Typed, TypeOK, Quiet, Region, Fits
<1>4. ASSUME kept PROVE Valid(mem', fileSize', lastSize, lastCrc)
  <2>1. Valid(mem, fileSize, lastSize, lastCrc) /\ lastSize <= actual
    BY <1>1, <1>4 DEF Kept
  <2>2. ASSUME NEW size \in Cap, TrimSize(actual, fileSize, size), Truncate(size)
        PROVE  Valid(mem', fileSize', lastSize, lastCrc)
    <3>1. actual + Fixed32Size <= size /\ size \in Nat
      BY <1>3, <2>2, TrimKeeps DEF Cap
    <3>2. lastSize + Fixed32Size <= size /\ lastSize < size
      BY <1>3, <2>1, <3>1 DEF Fixed32Size
    <3>3. Crc(Cut(mem, size), lastSize) = Crc(mem, lastSize)
      BY <1>3, <3>2, CutKeeps
    <3> QED BY <2>1, <2>2, <3>2, <3>3 DEF Truncate, Valid, Fits
  <2>3. CASE UNCHANGED fileVars
    BY <2>1, <2>3 DEF fileVars
  <2> QED BY <2>2, <2>3 DEF Shrink
<1> QED BY <1>2, <1>4 DEF Kept

\* So does the storing of the size, which may store lastConfirmed too.
LEMMA StoreSizeKept ==
    ASSUME StoreInv, Kept, NEW ret, StoreSize(ret), UNCHANGED fileVars,
           actual' = actual, pc' \notin {"move", "overrideRecord"}
    PROVE  Kept'
<1>1. /\ Typed /\ Storing /\ metaCrc = crc /\ loaded
      /\ metaSize' = actual /\ metaCrc' = metaCrc /\ loaded' = loaded
  BY StoresSize
<1>2. crc = Crc(mem, actual) /\ Fits(actual, fileSize) /\ actual \in Nat
  BY <1>1, Lengths DEF Storing, Region
<1>3. metaCrc = <<>> => actual = 0
  BY <1>1, <1>2, EmptyDigest
<1>4. CASE UNCHANGED <<lastCrc, lastSize, kept>>
  BY <1>1, <1>4 DEF Kept, Valid, fileVars
<1>5. CASE lastSize' = actual /\ lastCrc' = crc
  BY <1>1, <1>2, <1>3, <1>5 DEF Kept, Valid, fileVars
<1> QED BY <1>4, <1>5 DEF StoreSize, lastVars

LEMMA NextKept ==
    ASSUME StoreInv, Kept, [Next]_vars
    PROVE  Kept'
<1>1. CASE LoadValid \/ LoadFallback \/ LoadDiscard \/ LoadRecover
  BY <1>1, LoadKept
<1>2. CASE kept' = FALSE
  BY <1>2 DEF Kept
<1>3. CASE /\ UNCHANGED <<mem, fileSize, metaCrc, metaSize, lastCrc, lastSize, kept, actual>>
           /\ loaded' \in {loaded, FALSE} /\ pc' \notin {"move", "overrideRecord"}
  BY <1>3 DEF Kept, Valid
<1>4. CASE Put \/ Shrink
  BY <1>4, PutKept, ShrinkKept
<1>5. CASE WriteBackDone \/ AppendDone \/ FullWriteBackDone \/ ClearDone \/ LoadWritten
  <2>1. /\ \E ret : StoreSize(ret)
        /\ UNCHANGED fileVars /\ actual' = actual /\ pc' \notin {"move", "overrideRecord"}
    BY <1>5 DEF WriteBackDone, AppendDone, FullWriteBackDone, ClearDone, LoadWritten, logVars, Idle
  <2> QED BY <2>1, StoreSizeKept
<1>6. CASE (\E k \in Keys : Move(k)) \/ MoveDone \/ OverrideRecord
  BY <1>6 DEF Move, MoveDone, OverrideRecord, Kept, mapVars
<1>7. CASE StoreCrc
  <2>1. Typed /\ Region /\ loaded
    BY <1>7 DEF StoreInv, InPhase, Storing, StoreCrc, Typed
  <2>2. crc = <<>> => actual = 0
    BY <2>1, Lengths, EmptyDigest DEF Region
  <2>3. lastSize \in Nat
    BY <2>1, Lengths
  <2> QED BY <1>7, <2>1, <2>2, <2>3
          DEF StoreCrc, Kept, Valid, fileVars, lastVars, logVars, mapVars
<1>8. CASE ClearMemoryCache \/ Kill
  <2>1. /\ UNCHANGED <<mem, fileSize, metaCrc, metaSize, lastCrc, lastSize, kept>>
        /\ loaded' = FALSE /\ pc' \notin {"move", "overrideRecord"}
    BY <1>8 DEF ClearMemoryCache, Kill, Forget, Idle, fileVars, metaVars, mapVars
  <2> QED BY <2>1 DEF Kept, Valid
<1>9. CASE \/ \E k \in Keys, v \in Vals : SetBegin(k, v)
           \/ \E k \in Keys : RemoveBegin(k)
           \/ EnsureEnough \/ EnsureFails
  BY <1>3, <1>9 DEF SetBegin, RemoveBegin, EnsureEnough, EnsureFails, Begin, Idle,
         fileVars, metaVars, logVars, mapVars
<1>10. CASE \/ \E S \in SUBSET Keys : RemoveManyBegin(S)
            \/ \E keepSpace \in BOOLEAN : ClearAll(keepSpace)
            \/ EnsureWriteBack \/ OverrideHolder
  BY <1>2, <1>10 DEF RemoveManyBegin, ClearAll, EnsureWriteBack, OverrideHolder,
         StartWriteBack, StartClear
<1>11. CASE Trim
  BY <1>2, <1>3, <1>11 DEF Trim, Begin, StartWriteBack, StartClear, fileVars, metaVars, logVars
<1>12. CASE UNCHANGED vars
  BY <1>12 DEF vars, fileVars, metaVars, logVars, mapVars, Kept, Valid
<1> QED BY <1>1, <1>4, <1>5, <1>6, <1>7, <1>8, <1>9, <1>10, <1>11, <1>12 DEF Next, Step

\* Every step that stores lastConfirmed stores the digest of the map it snaps.
LEMMA LastKnown ==
    ASSUME StoreInv, Known, [Next]_vars
    PROVE  Content(lastCrc', lastSize') = snap'
<1>1. CASE UNCHANGED <<lastCrc, lastSize, snap>>
  BY <1>1 DEF Known
<1>2. CASE \E ret : StoreSize(ret)
  <2>1. crc = Crc(mem, actual) /\ actual \in Nat
    BY <1>2, StoresSize, Lengths DEF Storing, Region
  <2>2. Content(crc, actual) = Content(mem, actual)
    BY <2>1, DigestMap
  <2> QED BY <1>1, <1>2, <2>2 DEF StoreSize, lastVars
<1>3. UNCHANGED <<lastCrc, lastSize, snap>> \/ \E ret : StoreSize(ret)
  BY DEF Next, Step, LoadValid, LoadFallback, LoadDiscard, LoadRecover, LoadDone, SetBegin,
         RemoveBegin, RemoveManyBegin, ClearAll, Trim, Begin, EnsureEnough, EnsureWriteBack,
         EnsureFails, Move, MoveDone, Put, OverrideHolder, OverrideRecord, StoreCrc, WriteBackDone, AppendDone,
         FullWriteBackDone, ClearDone, LoadWritten, Shrink, ClearMemoryCache, Kill,
         vars, metaVars, lastVars, mapVars
<1> QED BY <1>1, <1>2, <1>3

\* Every step into a rewrite or an append leaves the meta of its beginning.
LEMMA RewritesKnown ==
    ASSUME StoreInv, Known, [Next]_vars, op'.name # "recover",
           pc' \in {"move", "overrideRecord"} \/ (pc' = "metaCrc" /\ after' # "loaded")
    PROVE  Unchanged'
<1>1. /\ UNCHANGED <<metaCrc, metaSize, cur>>
      /\ \/ /\ op.name # "recover"
            /\ pc \in {"move", "overrideRecord"} \/ (pc = "metaCrc" /\ after # "loaded")
         \/ pc \in {"ensure", "put", "override"} \/ (pc = "idle" /\ loaded)
  <2>1. ~ (LoadValid \/ LoadFallback \/ LoadDiscard)
    BY DEF LoadValid, LoadFallback, LoadDiscard, LoadDone, WriteMeta
  <2>2. ~ LoadRecover
    BY DEF LoadRecover, NoOp
  <2>3. ~ (\/ StoreCrc \/ WriteBackDone \/ AppendDone \/ FullWriteBackDone \/ ClearDone
           \/ LoadWritten \/ Shrink \/ ClearMemoryCache \/ Kill \/ EnsureFails \/ EnsureEnough)
    BY DEF StoreCrc, WriteBackDone, AppendDone, FullWriteBackDone, ClearDone, LoadWritten,
           Shrink, ClearMemoryCache, Kill, EnsureFails, EnsureEnough, Idle, StoreInv, Typed, TypeOK
  <2>4. CASE \/ \E k \in Keys, v \in Vals : SetBegin(k, v)
             \/ \E k \in Keys : RemoveBegin(k)
             \/ \E S \in SUBSET Keys : RemoveManyBegin(S)
             \/ \E keepSpace \in BOOLEAN : ClearAll(keepSpace)
             \/ Trim
    BY <2>4 DEF SetBegin, RemoveBegin, RemoveManyBegin, ClearAll, Trim, Begin, metaVars
  <2>5. CASE (\E k \in Keys : Move(k)) \/ EnsureWriteBack \/ Put \/ OverrideHolder
    BY <2>5 DEF Move, EnsureWriteBack, Put, OverrideHolder, metaVars, mapVars
  <2>6. CASE MoveDone \/ OverrideRecord
    BY <2>6 DEF MoveDone, OverrideRecord, WriteMeta, metaVars, mapVars
  <2>7. CASE UNCHANGED vars
    BY <2>7 DEF vars, metaVars, mapVars, stepVars
  <2> QED BY <2>1, <2>2, <2>3, <2>4, <2>5, <2>6, <2>7 DEF Next, Step
<1>2. CASE pc \in {"ensure", "put", "override"} \/ (pc = "idle" /\ loaded)
  <2>1. Typed /\ Quiet
    BY <1>2 DEF StoreInv, InPhase
  <2> QED BY <1>1, <2>1, QuietUnchanged DEF Unchanged
<1> QED BY <1>1, <1>2 DEF Known, Unchanged

\* A load that falls back or discards changes nothing before it stores the meta.
LEMMA LoadKnown ==
    ASSUME StoreInv, Known, [Next]_vars, pc' \in {"metaCrc", "metaSize"}, after' = "loaded"
    PROVE  /\ pc' = "metaCrc" => Recovered' = cur'
           /\ cur' = EmptyMap \/ Valid(mem', fileSize', lastSize', lastCrc')
<1>1. LoadFallback \/ LoadDiscard \/ UNCHANGED vars \/ (StoreCrc /\ after = "loaded")
  <2>1. ~ (LoadValid \/ LoadRecover)
    BY DEF LoadValid, LoadDone, LoadRecover, StartWriteBack, StartClear, WriteMeta
  <2>2. ~ (\/ \E k \in Keys, v \in Vals : SetBegin(k, v)
           \/ \E k \in Keys : RemoveBegin(k)
           \/ \E S \in SUBSET Keys : RemoveManyBegin(S)
           \/ \E keepSpace \in BOOLEAN : ClearAll(keepSpace)
           \/ Trim)
    BY DEF SetBegin, RemoveBegin, RemoveManyBegin, ClearAll, Trim, Begin, StartWriteBack,
           StartClear, WriteMeta
  <2>3. ~ (\/ EnsureEnough \/ EnsureWriteBack \/ EnsureFails \/ (\E k \in Keys : Move(k))
           \/ Put \/ OverrideHolder \/ OverrideRecord)
    BY DEF EnsureEnough, EnsureWriteBack, EnsureFails, Move, Put, OverrideHolder,
           OverrideRecord, StartWriteBack, WriteMeta, Idle
  <2>4. ~ MoveDone
    BY DEF MoveDone, WriteMeta, StoreInv, InPhase, Moving
  <2>5. ~ (\/ WriteBackDone \/ AppendDone \/ FullWriteBackDone \/ ClearDone \/ LoadWritten \/ Shrink
           \/ ClearMemoryCache \/ Kill)
    BY DEF WriteBackDone, AppendDone, FullWriteBackDone, ClearDone, LoadWritten, Shrink,
           ClearMemoryCache, Kill, Idle, StoreInv, Typed, TypeOK
  <2> QED BY <2>1, <2>2, <2>3, <2>4, <2>5 DEF Next, Step, StoreCrc, stepVars
<1>2. CASE LoadFallback \/ LoadDiscard
  <2>1. /\ Recovered = cur /\ UNCHANGED <<fileVars, metaVars, cur>>
    BY <1>2, IdleUnloaded DEF StoreInv, LoadFallback, LoadDiscard, LoadDone, mapVars
  <2>2. Recovered' = cur'
    BY <2>1, SameRecovered
  <2>3. CASE LoadCase = "last"
    <3>1. Valid(mem, fileSize, lastSize, lastCrc)
      BY <2>3 DEF LoadCase
    <3>2. UNCHANGED <<mem, fileSize, lastSize, lastCrc>>
      BY <2>1 DEF fileVars, metaVars
    <3>3. Valid(mem, fileSize, lastSize, lastCrc)'
      BY <3>1, <3>2 DEF Valid
    <3>4. Valid(mem', fileSize', lastSize', lastCrc')
      BY <3>3
    <3> QED BY <2>2, <3>4
  <2>4. CASE LoadCase \in {"oldStyle", "broken"}
    <3>1. LoadSize = 0
      BY <2>4, LoadSizeFits DEF StoreInv
    <3> QED BY <2>1, <2>2, <3>1, EmptyRegion DEF Recovered
  <2> QED BY <1>2, <2>2, <2>3, <2>4 DEF LoadFallback, LoadDiscard
<1>3. CASE UNCHANGED vars
  <2>1. pc \in {"metaCrc", "metaSize"} /\ after = "loaded" /\ pc' = pc
        /\ UNCHANGED <<fileVars, metaVars, cur>>
    BY <1>3 DEF vars, stepVars, mapVars
  <2> QED BY <2>1, SameRecovered DEF Known, Valid, fileVars, metaVars
<1>4. CASE StoreCrc /\ after = "loaded"
  BY <1>4 DEF StoreCrc, Known, Valid, fileVars, lastVars, mapVars
<1> QED BY <1>1, <1>2, <1>3, <1>4

\* The region of lastConfirmed gives the map that was current then.
LEMMA LastFinds ==
    ASSUME StoreInv, Known, LoadCase = "last"
    PROVE  Recovered = snap
<1>1. Crc(mem, lastSize) = lastCrc /\ Recovered = Content(mem, lastSize)
  BY DEF LoadCase, Valid, Recovered, LoadSize
<1>2. lastSize \in Nat
  BY Lengths DEF StoreInv
<1> QED BY <1>1, <1>2, DigestMap DEF Known

\* What a load would find before a word of the meta is stored.
LEMMA KillBeforeMeta ==
    ASSUME StoreInv, Known, op.name # "recover",
           pc \in {"move", "overrideRecord"} \/ (pc = "metaCrc" /\ after # "loaded")
    PROVE  LoadCase # "oldStyle" /\ (LoadCase = "valid" => Recovered = cur)
<1>1. Unchanged /\ metaSize \in Nat
  BY Lengths DEF Known, StoreInv
<1>2. LoadCase # "oldStyle"
  BY <1>1, EmptyRegion DEF LoadCase, Valid, Unchanged
<1>3. ASSUME LoadCase = "valid" PROVE Recovered = cur
  <2>1. Crc(mem, metaSize) = metaCrc /\ Recovered = Content(mem, metaSize)
    BY <1>3 DEF LoadCase, Valid, Recovered, LoadSize
  <2> QED BY <1>1, <2>1, DigestMap DEF Unchanged
<1> QED BY <1>2, <1>3

\* What a load would find between the two stores of the meta.
LEMMA KillInsideMeta ==
    ASSUME StoreInv, pc = "metaSize", LoadCase \in {"valid", "oldStyle"}
    PROVE  Recovered \in {cur, target}
<1>1. Typed /\ Storing /\ metaCrc = Crc(mem, actual)
  BY DEF StoreInv, InPhase, Storing, Region
<1>2. metaSize \in Nat /\ actual \in Nat
  BY <1>1, Lengths
<1>3. Content(mem, 0) = EmptyMap
  BY EmptyRegion
<1>4. Content(mem, actual) \in {cur, target}
  BY <1>1, <1>3 DEF Storing
<1>5. CASE LoadCase = "valid"
  <2>1. Crc(mem, metaSize) = metaCrc /\ Recovered = Content(mem, metaSize)
    BY <1>5 DEF LoadCase, Valid, Recovered, LoadSize
  <2> QED BY <1>1, <1>2, <1>4, <2>1, CrcDetermines
<1>6. CASE LoadCase = "oldStyle"
  <2>1. Crc(mem, 0) = metaCrc
    BY <1>6 DEF LoadCase, Valid
  <2>2. Recovered = Content(mem, 0)
    BY <1>1, <1>6, LoadSizeFits DEF Recovered
  <2> QED BY <1>1, <1>2, <1>4, <2>1, <2>2, CrcDetermines
<1> QED BY <1>5, <1>6

\* What a load would find inside an operation.
LEMMA KillFinds ==
    ASSUME StoreInv, Kept, Known
    PROVE  KillIsAtomic
<1> SUFFICES ASSUME pc # "idle", op.name # "recover"
             PROVE  \/ LoadCase # "broken" /\ Recovered \in {cur, target, snap}
                    \/ /\ LoadCase = "broken"
                       /\ \/ InPlace
                          \/ ~kept /\ pc = "metaSize" /\ after = "appended"
                          \/ cur = EmptyMap /\ after = "loaded"
  BY DEF KillIsAtomic
<1>1. CASE pc \in {"ensure", "put", "override", "shrink"}
  <2>1. Quiet
    BY <1>1 DEF StoreInv, InPhase
  <2> QED BY <2>1, QuietIsDurable DEF Quiet, Region, LoadCase, Valid
<1>2. CASE pc = "metaCrc" /\ after = "loaded"
  <2>1. Recovered = cur
    BY <1>2 DEF Known
  <2>2. LoadCase = "broken" => Recovered = EmptyMap
    BY LoadSizeFits, EmptyRegion DEF StoreInv, Recovered
  <2> QED BY <1>2, <2>1, <2>2
<1>3. CASE pc \in {"move", "overrideRecord"} \/ (pc = "metaCrc" /\ after # "loaded")
  <2>1. LoadCase # "oldStyle" /\ (LoadCase = "valid" => Recovered = cur)
    BY <1>3, KillBeforeMeta
  <2>2. LoadCase = "last" => Recovered = snap
    BY LastFinds
  <2>3. LoadCase = "broken" => InPlace
    BY <1>3 DEF StoreInv, InPhase, Storing, Intact, LoadCase, InPlace
  <2> QED BY <2>1, <2>2, <2>3 DEF LoadCase
<1>4. CASE pc = "metaSize"
  <2>1. LoadCase \in {"valid", "oldStyle"} => Recovered \in {cur, target}
    BY <1>4, KillInsideMeta
  <2>2. LoadCase = "last" => Recovered = snap
    BY LastFinds
  <2>3. LoadCase = "broken" => \/ InPlace
                               \/ ~kept /\ after = "appended"
                               \/ cur = EmptyMap /\ after = "loaded"
    <3>1. Storing
      BY <1>4 DEF StoreInv, InPhase
    <3>2. LoadCase = "broken" => ~Valid(mem, fileSize, lastSize, lastCrc)
      BY DEF LoadCase
    <3> QED BY <1>4, <3>1, <3>2 DEF Storing, Kept, Known, InPlace
  <2> QED BY <1>4, <2>1, <2>2, <2>3 DEF LoadCase
<1> QED BY <1>1, <1>2, <1>3, <1>4 DEF StoreInv, Typed, TypeOK

\* A process killed anywhere inside an operation leaves the map from before
\* it, from after it or of the last full write-back; what it leaves fits no
\* digest only inside a rewrite in place, or after one whose last confirmed
\* meta was not stored anew.
THEOREM SpecKillIsAtomic == Spec => []KillIsAtomic
<1>1. Init => StoreInv /\ Kept /\ Known
  <2> SUFFICES ASSUME Init PROVE StoreInv /\ Kept /\ Known
    OBVIOUS
  <2>1. Content(lastCrc, lastSize) = snap
    BY EmptyRegion DEF Init
  <2>2. Valid(mem, fileSize, lastSize, lastCrc)
    BY EmptyRegion, SizingAssumption DEF Init, Valid, Fits, Fixed32Size, Cap
  <2> QED BY <2>1, <2>2, InitStoreInv DEF Kept, Known, Init
<1>2. (StoreInv /\ Kept /\ Known) /\ [Next]_vars => (StoreInv /\ Kept /\ Known)'
  BY NextStoreInv, NextKept, LastKnown, RewritesKnown, LoadKnown DEF Known
<1>3. StoreInv /\ Kept /\ Known => KillIsAtomic
  BY KillFinds
<1> QED BY <1>1, <1>2, <1>3, PTL DEF Spec

-----------------------------------------------------------------------------
\* The steps an operation has left, by the phase it is in.
WorkByPhase ==
    LET n == Cardinality(Keys)
        w == ensures * (6 + n)
    IN  /\ n \in Nat /\ w \in Nat
        /\ (ensures = 1 => w = 6 + n) /\ (ensures = 2 => w = 12 + 2 * n)
        /\ Cardinality(todo) \in Nat /\ Cardinality(todo) <= n
        /\ pc = "ensure" => Work = w + 5 + n
        /\ pc = "move" => Work = w + 4 + Cardinality(todo)
        /\ pc = "idle" => Work = w
        /\ pc = "shrink" => Work = w + 1
        /\ pc = "metaSize" => Work = w + 2
        /\ pc = "metaCrc" => Work = w + 3
        /\ pc \in {"put", "overrideRecord"} => Work = w + 4
        /\ pc = "override" => Work = w + 5

LEMMA WorkAt ==
    ASSUME Typed
    PROVE  WorkByPhase
<1> DEFINE n == Cardinality(Keys)
           w == ensures * (6 + n)
<1>1. n \in Nat
  BY SizingAssumption, FS_CardinalityType
<1>2. Cardinality(todo) \in Nat /\ Cardinality(todo) <= n
  BY SizingAssumption, FS_Subset, FS_CardinalityType DEF Typed, TypeOK
<1>3. w \in Nat /\ (ensures = 1 => w = 6 + n) /\ (ensures = 2 => w = 12 + 2 * n)
  <2>1. ensures \in {0, 1, 2}
    BY DEF Typed, TypeOK
  <2> QED BY <1>1, <2>1
<1>4. Work = w + (IF pc = "ensure" THEN 5 + n
                  ELSE IF pc = "move" THEN 4 + Cardinality(todo)
                  ELSE [idle |-> 0, shrink |-> 1, metaSize |-> 2, metaCrc |-> 3,
                        put |-> 4, overrideRecord |-> 4, override |-> 5][pc])
  BY DEF Work
<1> HIDE DEF n, w
<1>5. /\ pc = "ensure" => Work = w + 5 + n
      /\ pc = "move" => Work = w + 4 + Cardinality(todo)
  BY <1>1, <1>2, <1>3, <1>4
<1>6. pc = "idle" => Work = w
  BY <1>3, <1>4
<1>7. /\ pc = "shrink" => Work = w + 1
      /\ pc = "metaSize" => Work = w + 2
      /\ pc = "metaCrc" => Work = w + 3
  BY <1>3, <1>4
<1>8. /\ pc \in {"put", "overrideRecord"} => Work = w + 4
      /\ pc = "override" => Work = w + 5
  BY <1>3, <1>4
<1> QED BY <1>1, <1>2, <1>3, <1>5, <1>6, <1>7, <1>8 DEF n, w, WorkByPhase

\* Every operation ends, for any number of keys: a write-back of any size, an
\* ensureMemorySize() after it that has nothing to do, and the meta.
THEOREM SpecWorkShrinks == Spec => WorkShrinks
<1>0. StoreInv => WorkByPhase
  BY WorkAt DEF StoreInv
<1>1. StoreInv /\ WorkByPhase /\ WorkByPhase' => [Step => Work' < Work /\ Work' >= 0]_vars
  <2> SUFFICES ASSUME StoreInv, WorkByPhase, WorkByPhase', Step
               PROVE  Work' < Work /\ Work' >= 0
    OBVIOUS
  <2> DEFINE n == Cardinality(Keys)
             w == ensures * (6 + n)
             w1 == ensures' * (6 + n)
             c == Cardinality(todo)
             c1 == Cardinality(todo')
  <2>1. /\ n \in Nat /\ w \in Nat /\ w1 \in Nat /\ c \in Nat /\ c1 \in Nat /\ c1 <= n
        /\ (ensures = 1 => w = 6 + n) /\ (ensures = 2 => w = 12 + 2 * n)
        /\ (ensures' = 1 => w1 = 6 + n)
    BY DEF WorkByPhase
  <2>2. /\ pc = "ensure" => Work = w + 5 + n
        /\ pc = "move" => Work = w + 4 + c
        /\ pc = "shrink" => Work = w + 1
        /\ pc = "metaSize" => Work = w + 2
        /\ pc = "metaCrc" => Work = w + 3
        /\ pc \in {"put", "overrideRecord"} => Work = w + 4
        /\ pc = "override" => Work = w + 5
    BY DEF WorkByPhase
  <2>3. /\ pc' = "ensure" => Work' = w1 + 5 + n
        /\ pc' = "move" => Work' = w1 + 4 + c1
        /\ pc' = "idle" => Work' = w1
        /\ pc' = "shrink" => Work' = w1 + 1
        /\ pc' = "metaSize" => Work' = w1 + 2
        /\ pc' = "metaCrc" => Work' = w1 + 3
        /\ pc' \in {"put", "overrideRecord"} => Work' = w1 + 4
    BY DEF WorkByPhase
  <2>4. Idle => w1 = 0
    BY <2>1 DEF Idle
  <2>5. ensures' = ensures => w1 = w
    OBVIOUS
  <2> HIDE DEF n, w, w1, c, c1
  <2>6. CASE EnsureEnough
    <3>1. /\ ensures \in 1 .. 2 /\ pc = "ensure" /\ ensures' = ensures - 1
          /\ pc' = IF ensures = 1 THEN "put" ELSE "ensure"
      BY <2>6 DEF EnsureEnough, StoreInv, InPhase, Pending
    <3>2. ensures = 1 => w1 = 0
      BY <3>1, <2>1 DEF w1, n
    <3> QED BY <2>1, <2>2, <2>3, <3>1, <3>2
  <2>7. CASE EnsureWriteBack
    <3>1. pc = "ensure" /\ pc' = "move" /\ ensures' = ensures
      BY <2>7 DEF EnsureWriteBack, StartWriteBack
    <3> QED BY <2>1, <2>2, <2>3, <2>5, <3>1
  <2>8. CASE EnsureFails
    BY <2>8, <2>1, <2>2, <2>3, <2>4 DEF EnsureFails, Idle
  <2>9. ASSUME NEW k \in Keys, Move(k) PROVE Work' < Work /\ Work' >= 0
    <3>1. /\ pc = "move" /\ pc' = "move" /\ ensures' = ensures
          /\ k \in todo /\ todo' = todo \ {k} /\ IsFiniteSet(todo)
      BY <2>9, SizingAssumption, FS_Subset DEF Move, StoreInv, Typed, TypeOK
    <3>2. c1 = c - 1
      BY <3>1, FS_RemoveElement DEF c, c1
    <3> QED BY <2>1, <2>2, <2>3, <2>5, <3>1, <3>2
  <2>10. CASE MoveDone
    <3>1. pc = "move" /\ pc' = "metaCrc" /\ ensures' = ensures
      BY <2>10 DEF MoveDone, WriteMeta
    <3> QED BY <2>1, <2>2, <2>3, <2>5, <3>1
  <2>11. CASE Put \/ OverrideHolder \/ OverrideRecord \/ StoreCrc
    <3>1. ensures' = ensures
      BY <2>11 DEF Put, OverrideHolder, OverrideRecord, StoreCrc, stepVars
    <3>2. \/ pc \in {"put", "overrideRecord"} /\ pc' = "metaCrc"
          \/ pc = "override" /\ pc' = "overrideRecord"
          \/ pc = "metaCrc" /\ pc' = "metaSize"
      BY <2>11 DEF Put, OverrideHolder, OverrideRecord, StoreCrc, WriteMeta
    <3> QED BY <2>1, <2>2, <2>3, <2>5, <3>1, <3>2
  <2>12. CASE WriteBackDone
    <3>1. /\ ensures \in 1 .. 2 /\ pc = "metaSize" /\ ensures' = ensures - 1
          /\ pc' = IF ensures = 1 THEN "put" ELSE "ensure"
      BY <2>12, StoresSize DEF WriteBackDone, StoreSize, Storing, Pending
    <3>2. ensures = 1 => w1 = 0
      BY <3>1, <2>1 DEF w1, n
    <3> QED BY <2>1, <2>2, <2>3, <3>1, <3>2
  <2>13. CASE AppendDone \/ FullWriteBackDone \/ ClearDone \/ LoadWritten
    <3>1. pc = "metaSize"
      BY <2>13 DEF AppendDone, FullWriteBackDone, ClearDone, LoadWritten, StoreSize
    <3>2. Idle \/ (pc' = "shrink" /\ ensures' = ensures)
      BY <2>13 DEF AppendDone, FullWriteBackDone, ClearDone, LoadWritten
    <3> QED BY <2>1, <2>2, <2>3, <2>4, <2>5, <3>1, <3>2 DEF Idle
  <2>14. CASE Shrink
    BY <2>14, <2>1, <2>2, <2>3, <2>4 DEF Shrink, Idle
  <2> QED BY <2>6, <2>7, <2>8, <2>9, <2>10, <2>11, <2>12, <2>13, <2>14 DEF Step
<1> QED BY <1>0, <1>1, SpecStoreInv, PTL DEF WorkShrinks
=============================================================================
