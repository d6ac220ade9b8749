------------------------------- MODULE Sizing -------------------------------
(***************************************************************************)
(* The arithmetic KFKV_IO.mm grows, fills and trims the data file by, in   *)
(* cells, and the digest checks it trusts a region of the file by.         *)
(***************************************************************************)
EXTENDS Cells, FiniteSets

CONSTANTS expectedCapacity,   \* m_expectedCapacity, in cells
          FutureItems         \* items expandAndWriteBack reserves room for (8)

ASSUME SizingAssumption ==
    /\ IsFiniteSet(Keys)
    /\ expectedCapacity \in Cap /\ expectedCapacity > 3
    /\ FutureItems \in Nat

NoOffsets == [k \in Keys |-> 0]

Count(o) == Cardinality({k \in Keys : o[k] # 0})

SizeOfDic(o) == ItemSizeHolderSize + Count(o)      \* prepareEncode

\* truncate(): what is beyond the new end is gone, new cells are zero.
Cut(m, size) == [i \in Cap |-> IF i + Fixed32Size <= size THEN m[i] ELSE Zero]

\* checkDataValid: a region the file holds, with the digest the meta gives.
Fits(n, size) == n < size /\ n + Fixed32Size <= size

Valid(m, size, n, c) == Fits(n, size) /\ Crc(m, n) = c

\* ensureMemorySize(1) in a file of `size` cells written up to `out`.
SpaceLeft(size, out) == size - Fixed32Size - out

\* Seeded fault: the room that is left is not looked at.
NeedsWriteBack_AnyRoom(o, size, out) == Count(o) = 0

NeedsWriteBack(o, size, out) == 1 >= SpaceLeft(size, out) \/ Count(o) = 0

\* expandAndWriteBack(1, prepareEncode(dic), needSync = ~dic.empty())
LenNeeded(o) == SizeOfDic(o) + Fixed32Size + 1
LaterDicCount(o) == Count(o) + 1
AvgItemSize(o) == (LenNeeded(o) + LaterDicCount(o) - 1) \div LaterDicCount(o)
FutureUsage(o) ==
    AvgItemSize(o)
        * (IF FutureItems > LaterDicCount(o) \div 2 THEN FutureItems ELSE LaterDicCount(o) \div 2)

\* Seeded fault: expands only when the record itself does not fit.
MustExpand_NoReserve(o, size) == LenNeeded(o) > size

MustExpand(o, size) ==
    \/ LenNeeded(o) >= size
    \/ Count(o) # 0 /\ LenNeeded(o) + FutureUsage(o) >= size

Powers == {d \in Cap : \E i \in 0 .. MaxCap : d = 2^i}

\* Doubling a file of `size` cells until it holds that gives `new`.
Doubled(o, size, new) ==
    /\ new > LenNeeded(o) + FutureUsage(o)
    /\ \E d \in Powers :
          new = 2 * (size * d) /\ (d = 1 \/ LenNeeded(o) + FutureUsage(o) >= size * d)

\* trim: halve while more than twice what is used, not below the capacity.
Halved(used, size, half) ==
    /\ half <= (used + Fixed32Size) * 2
    /\ \/ half = size
       \/ \E d \in Powers :
             /\ size \div d > (used + Fixed32Size) * 2
             /\ half = (size \div d) \div 2

TrimSize(used, size, new) ==
    \E half \in Cap :
        /\ Halved(used, size, half)
        /\ new = IF half > expectedCapacity THEN half ELSE expectedCapacity

\* memmoveDictionary as a whole: the live records, in the order of their
\* offsets, behind the holder h; and the offsets they get.
Packed(o) ==
    [k \in Keys |-> IF o[k] = 0 THEN 0
                    ELSE ItemSizeHolderSize + Cardinality({j \in Keys : o[j] # 0 /\ o[j] <= o[k]})]

Compacted(m, o, h) ==
    [i \in Cap |->
        IF i = 1 THEN Holder(h)
        ELSE IF \E k \in Keys : Packed(o)[k] = i
             THEN m[o[CHOOSE k \in Keys : Packed(o)[k] = i]]
             ELSE m[i]]
=============================================================================
