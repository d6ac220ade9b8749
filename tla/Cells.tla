------------------------------- MODULE Cells -------------------------------
(***************************************************************************)
(* What is in a KFKV data file.  The unit of length is the cell: 4 bytes,  *)
(* the size of Fixed32Size, of ItemSizeHolderSize and of the smallest      *)
(* key-value record.  Cell i is at offset 4 * (i - 1) of the data area     *)
(* (basePtr = m_file->getMemory() + Fixed32Size): cell 1 is the item-size  *)
(* holder, every later cell a record.  A record with no value (Nil) is a   *)
(* removal.                                                                *)
(***************************************************************************)
EXTENDS Integers, Sequences

CONSTANTS Keys, Vals,
          Nil,       \* no value: a removal in the file, a missing key in a map
          NoKey,     \* the key of a cell that is not a record
          Holders,   \* what AESCrypt::randomItemSizeHolder() returns
          MaxCap     \* bound: the disk has room for a file of MaxCap cells

ASSUME CellsAssumption ==
    /\ Nil \notin Vals
    /\ NoKey \notin Keys
    /\ Holders # {}
    /\ MaxCap \in Nat /\ MaxCap > 3

Fixed32Size == 1
ItemSizeHolderSize == 1

Rec(k, v) == [key |-> k, val |-> v]

\* An item-size holder; Zero is what truncate() fills a file with.
Holder(h) == Rec(NoKey, h)
Zero == Rec(NoKey, NoKey)

Cell == [key : Keys, val : Vals \cup {Nil}] \cup {Holder(h) : h \in Holders} \cup {Zero}

Cap == 1 .. MaxCap

\* The CRC of the first n cells.  CRC32 is taken to be free of collisions,
\* so the digest is the content itself.
Crc(m, n) == [i \in 1 .. n |-> m[i]]

\* The last record of key k among the first n cells, or 0 (empty keys, thus
\* Zero cells, are skipped and the holder is not a record).
LastRec(m, n, k) ==
    IF \E i \in 2 .. n : m[i].key = k
    THEN CHOOSE i \in 2 .. n :
            m[i].key = k /\ \A j \in i + 1 .. n : m[j].key # k
    ELSE 0

\* decodeOneMap: the dictionary of a region, key -> offset of its live record
\* (0 when the key is not in the dictionary).
Decode(m, n) ==
    [k \in Keys |->
        LET i == LastRec(m, n, k)
        IN  IF i # 0 /\ m[i].val # Nil THEN i ELSE 0]

\* The key-value map a dictionary of offsets stands for.
View(m, o) == [k \in Keys |-> IF o[k] = 0 THEN Nil ELSE m[o[k]].val]

Content(m, n) == View(m, Decode(m, n))

EmptyMap == [k \in Keys |-> Nil]
=============================================================================
