---------------------------- MODULE SharedStore ----------------------------
(***************************************************************************)
(* One KFKV file opened in multi-process mode by several processes         *)
(* (Core/KFKV_IO.mm: checkLoadData, partialLoadFromFile and the writers).  *)
(* A writer owns the exclusive process lock from Begin to Leave, so one    *)
(* operation is under way at a time (FileLock shows that); it can be       *)
(* killed between any two of its stores, and the kernel then releases the  *)
(* lock.  Every other process keeps the dictionary, the digest and the     *)
(* mapping it last loaded, and finds out by comparing its copy of the meta *)
(* with the file's.  The sequence number only ever grows and is only       *)
(* compared for equality: current[p] stands for the comparison.  Init is a *)
(* file that was created and loaded once (its meta has the current         *)
(* version), so the meta is written whole only when the sequence grows.    *)
(* The model stops (torn) when a process is killed while it rewrites the   *)
(* file in place; what one process finds then is in Store.                 *)
(***************************************************************************)
EXTENDS Sizing

CONSTANTS Procs,
          NoProc,
          MaxOps,     \* bound: operations the processes begin
          MaxKills,   \* bound: processes killed inside an operation
          MaxWaits    \* bound: loads of an empty file that wait for the upgrade

ASSUME SharedAssumption ==
    NoProc \notin Procs /\ MaxOps \in Nat /\ MaxKills \in Nat /\ MaxWaits \in Nat

VARIABLES
    mem, fileSize,                        \* the data file
    metaCrc, metaSize, lastCrc, lastSize, \* the .crc file
    \* every process: ~m_needLoadFromFile, m_file->getFileSize(), m_dic,
    \* m_actualSize, m_crcDigest, m_output's position, m_hasFullWriteback,
    \* m_metaInfo->m_sequence = the file's
    loaded, mapped, off, actual, crc, out, hasFW, current,
    owner, pc, op, ensures, inc, after,   \* the operation under way
    before, target, snap,                 \* the map before it, after it, at lastConfirmed
    upgrading,                            \* loads between UnlockFirst and the exclusive lock
    torn,                                 \* a kill left a region half rewritten
    ops, kills, waits                     \* consumption of the bounds

fileVars == <<mem, fileSize>>
metaVars == <<metaCrc, metaSize, lastCrc, lastSize>>
logVars  == <<off, actual, crc, out>>
procVars == <<loaded, mapped, logVars, hasFW, current>>
opVars   == <<owner, pc, op, ensures, inc, after>>
histVars == <<before, target, snap, torn, ops, kills>>
loadVars == <<upgrading, waits>>
vars == <<fileVars, metaVars, procVars, opVars, histVars, loadVars>>

NoOp == [name |-> "none", key |-> NoKey, val |-> Nil]

Init ==
    /\ mem = [i \in Cap |-> Zero] /\ fileSize = expectedCapacity
    /\ metaCrc = <<>> /\ metaSize = 0 /\ lastCrc = <<>> /\ lastSize = 0
    /\ loaded = [p \in Procs |-> FALSE]
    /\ mapped = [p \in Procs |-> 0]
    /\ off = [p \in Procs |-> NoOffsets]
    /\ actual = [p \in Procs |-> 0]
    /\ crc = [p \in Procs |-> <<>>]
    /\ out = [p \in Procs |-> 0]
    /\ hasFW = [p \in Procs |-> FALSE]
    /\ current = [p \in Procs |-> FALSE]
    /\ owner = NoProc /\ pc = "idle" /\ op = NoOp
    /\ ensures = 0 /\ inc = FALSE /\ after = "none"
    /\ before = EmptyMap /\ target = EmptyMap /\ snap = EmptyMap
    /\ torn = FALSE /\ ops = 0 /\ kills = 0
    /\ upgrading = {} /\ waits = 0

-----------------------------------------------------------------------------
\* checkDataValid, in the file as it is now.
LoadCase ==
    IF Valid(mem, fileSize, metaSize, metaCrc) THEN "valid"
    ELSE IF metaSize # 0 /\ Valid(mem, fileSize, 0, metaCrc) THEN "oldStyle"
    ELSE IF Valid(mem, fileSize, lastSize, lastCrc) THEN "last"
    ELSE "discard"

LoadSize ==
    CASE LoadCase = "valid" -> metaSize
      [] LoadCase = "last" -> lastSize
      [] OTHER -> 0

\* The map a process that opens the two files now gets.
Recovered == Content(mem, LoadSize)

\* What checkLoadData compares before p uses its dictionary.
InSync(p) ==
    loaded[p] /\ current[p] /\ crc[p] = metaCrc /\ actual[p] = metaSize

Free == owner = NoProc /\ ~torn

\* p's thread is in none of its own calls.
Ready(p) == Free /\ p \notin upgrading

-----------------------------------------------------------------------------
\* checkLoadData.  The shared process lock is held throughout.

\* Seeded fault: the digest of what was appended is not compared.
Appended_NoDigest(p) ==
    /\ current[p]
    /\ metaSize > actual[p]
    /\ Fits(metaSize, mapped[p])

\* partialLoadFromFile: the records another process appended.
Appended(p) ==
    /\ current[p]
    /\ metaSize > actual[p]
    /\ Fits(metaSize, mapped[p])
    /\ metaCrc = crc[p] \o [i \in 1 .. metaSize - actual[p] |-> mem[actual[p] + i]]

\* Seeded fault: the write position moves by the whole size, not the added one.
PartialLoad_SeeksTotal(p) ==
    /\ Ready(p)
    /\ loaded[p]
    /\ Appended(p)
    /\ off' = [off EXCEPT ![p] = Decode(mem, metaSize)]
    /\ out' = [out EXCEPT ![p] = @ + metaSize]
    /\ actual' = [actual EXCEPT ![p] = metaSize]
    /\ crc' = [crc EXCEPT ![p] = metaCrc]
    /\ hasFW' = [hasFW EXCEPT ![p] = FALSE]
    /\ UNCHANGED <<fileVars, metaVars, loaded, mapped, current, opVars, histVars, loadVars>>

PartialLoad(p) ==
    /\ Ready(p)
    /\ loaded[p]
    /\ Appended(p)
    /\ off' = [off EXCEPT ![p] =
                [k \in Keys |->
                    IF \E i \in actual[p] + 1 .. metaSize : mem[i].key = k
                    THEN Decode(mem, metaSize)[k]
                    ELSE off[p][k]]]
    /\ out' = [out EXCEPT ![p] = @ + (metaSize - actual[p])]
    /\ actual' = [actual EXCEPT ![p] = metaSize]
    /\ crc' = [crc EXCEPT ![p] = metaCrc]
    /\ hasFW' = [hasFW EXCEPT ![p] = FALSE]
    /\ UNCHANGED <<fileVars, metaVars, loaded, mapped, current, opVars, histVars, loadVars>>

\* loadFromFile's branch for an empty region asks for the exclusive lock, to
\* store (0, 0).  A caller that has the lock, or whose upgrade succeeds at once,
\* stores what is there.  While another process reads, it does not succeed:
\* the shared lock is given up (UnlockFirst of FileLock).
Upgrade(p, n) ==
    \/ UNCHANGED loadVars
    \/ /\ n = 0
       /\ \E q \in Procs \ {p} : q \notin upgrading
       /\ waits < MaxWaits
       /\ waits' = waits + 1
       /\ upgrading' = upgrading \cup {p}

\* (clearMemoryCache and) loadFromFile of n cells.
Load(p, n) ==
    /\ Ready(p)
    /\ ~InSync(p)
    /\ ~(loaded[p] /\ Appended(p))
    /\ mapped' = [mapped EXCEPT ![p] = fileSize]
    /\ off' = [off EXCEPT ![p] = Decode(mem, n)]
    /\ actual' = [actual EXCEPT ![p] = n]
    /\ crc' = [crc EXCEPT ![p] = Crc(mem, n)]
    /\ out' = [out EXCEPT ![p] = n]
    /\ hasFW' = [hasFW EXCEPT ![p] = FALSE]
    /\ current' = [current EXCEPT ![p] = TRUE]
    /\ loaded' = [loaded EXCEPT ![p] = TRUE]
    /\ Upgrade(p, n)
    /\ UNCHANGED <<fileVars, lastCrc, lastSize, opVars, histVars>>

LoadValid(p) ==
    /\ LoadCase = "valid"
    /\ Load(p, metaSize)
    /\ UNCHANGED <<metaCrc, metaSize>>

\* writeActualSize(KeepSequence) under the shared lock: every reader that
\* gets here stores the same two values.
LoadFallback(p) ==
    /\ LoadCase = "last"
    /\ Load(p, lastSize)
    /\ metaSize' = lastSize
    /\ metaCrc' = lastCrc

\* "file not valid or empty, discard everything": the exclusive lock has come.
StoreEmpty(p) ==
    /\ Free
    /\ p \in upgrading
    /\ upgrading' = upgrading \ {p}
    /\ metaSize' = 0
    /\ metaCrc' = <<>>
    /\ UNCHANGED <<fileVars, lastCrc, lastSize, procVars, opVars, histVars, waits>>

-----------------------------------------------------------------------------
\* The writers: each has the exclusive lock, and checkLoadData has nothing
\* (more) to do.

\* Seeded fault: a writer that has the lock does not check the meta.
Begin_Unchecked(p, name, k, v, m) ==
    /\ Ready(p)
    /\ loaded[p]
    /\ ops < MaxOps
    /\ ops' = ops + 1
    /\ owner' = p
    /\ op' = [name |-> name, key |-> k, val |-> v]
    /\ before' = Recovered
    /\ target' = m
    /\ UNCHANGED <<metaVars, loaded, current, snap, torn, kills, loadVars>>

Begin(p, name, k, v, m) ==
    /\ Ready(p)
    /\ InSync(p)
    /\ ops < MaxOps
    /\ ops' = ops + 1
    /\ owner' = p
    /\ op' = [name |-> name, key |-> k, val |-> v]
    /\ before' = Recovered
    /\ target' = m
    /\ UNCHANGED <<metaVars, loaded, current, snap, torn, kills, loadVars>>

Leave ==
    /\ owner' = NoProc /\ pc' = "idle" /\ op' = NoOp
    /\ ensures' = 0 /\ inc' = FALSE /\ after' = "none"
    /\ before' = EmptyMap /\ target' = EmptyMap

\* writeActualSize, to return to ret.
WriteMeta(increase, ret) ==
    /\ pc' = "metaCrc"
    /\ inc' = increase
    /\ after' = ret

\* MemoryFile::truncate in a process that maps the file: nothing is done when
\* the size is the mapping's, and what lies beyond the mapping is zero-filled.
Truncate(p, size) ==
    /\ \/ /\ size # mapped[p]
          /\ fileSize' = size
          /\ mem' = Cut(mem, IF size < mapped[p] THEN size ELSE mapped[p])
       \/ size = mapped[p] /\ UNCHANGED fileVars
    /\ mapped' = [mapped EXCEPT ![p] = size]

\* doFullWriteBack: every record moved, then a new holder, then the digest.
WriteBack(p, o, ret) ==
    LET n == SizeOfDic(o)
    IN  /\ \E h \in Holders : mem' = Compacted(mem, o, h)
        /\ off' = [off EXCEPT ![p] = Packed(o)]
        /\ actual' = [actual EXCEPT ![p] = n]
        /\ out' = [out EXCEPT ![p] = n]
        /\ crc' = [crc EXCEPT ![p] = Crc(mem', n)]
        /\ WriteMeta(TRUE, ret)

\* clearAll: truncate (a failure is ignored), then the meta.
Clear(p, keepSpace) ==
    /\ \/ ~keepSpace /\ Truncate(p, expectedCapacity)
       \/ UNCHANGED <<fileVars, mapped>>
    /\ actual' = [actual EXCEPT ![p] = 0]
    /\ crc' = [crc EXCEPT ![p] = <<>>]
    /\ UNCHANGED <<off, out>>
    /\ WriteMeta(TRUE, "cleared")

FullWriteBack(p, o) ==
    \/ /\ Count(o) > 0
       /\ WriteBack(p, o, "done")
       /\ UNCHANGED <<fileSize, mapped>>
    \/ /\ Count(o) = 0
       /\ Clear(p, FALSE)

\* setDataForKey: no override in multi-process mode.
SetBegin(p, k, v) ==
    /\ Begin(p, "set", k, v, [Recovered EXCEPT ![k] = v])
    /\ pc' = "ensure"
    /\ ensures' = IF off[p][k] # 0 THEN 2 ELSE 1
    /\ UNCHANGED <<fileVars, mapped, logVars, hasFW, inc, after>>

RemoveBegin(p, k) ==
    /\ off[p][k] # 0
    /\ Begin(p, "remove", k, Nil, [Recovered EXCEPT ![k] = Nil])
    /\ hasFW' = [hasFW EXCEPT ![p] = FALSE]
    /\ pc' = "ensure" /\ ensures' = 2
    /\ UNCHANGED <<fileVars, mapped, logVars, inc, after>>

Erased(p, S) == [k \in Keys |-> IF k \in S THEN 0 ELSE off[p][k]]

\* removeValuesForKeys: erase from the dictionary, then fullWriteback().  S is
\* the given keys that are in Keys; a name no record has may be given too, so S
\* can be a single key (an array of length one goes to removeValueForKey).
RemoveManyBegin(p, S) ==
    /\ \E k \in S : off[p][k] # 0
    /\ Begin(p, "removeMany", NoKey, Nil,
             [k \in Keys |-> IF k \in S THEN Nil ELSE Recovered[k]])
    /\ hasFW' = [hasFW EXCEPT ![p] = FALSE]
    /\ FullWriteBack(p, Erased(p, S))
    /\ UNCHANGED ensures

ClearAll(p, keepSpace) ==
    /\ ~(mapped[p] = expectedCapacity /\ actual[p] = 0)
    /\ Begin(p, "clear", NoKey, Nil, EmptyMap)
    /\ Clear(p, keepSpace)
    /\ UNCHANGED <<hasFW, ensures>>

\* trim(): fullWriteback() does nothing when there was one already.  With
\* m_actualSize = 0 it is ClearAll(p, FALSE).
Trim(p) ==
    /\ actual[p] # 0
    /\ mapped[p] > expectedCapacity
    /\ Begin(p, "trim", NoKey, Nil, Recovered)
    /\ \/ /\ hasFW[p]
          /\ pc' = "shrink"
          /\ UNCHANGED <<fileVars, mapped, logVars, inc, after>>
       \/ /\ ~hasFW[p]
          /\ FullWriteBack(p, off[p])
    /\ UNCHANGED <<hasFW, ensures>>

-----------------------------------------------------------------------------
\* The steps of the owner.

Rewrites(p) == NeedsWriteBack(off[p], mapped[p], out[p])

EnsureEnough(p) ==
    /\ owner = p /\ pc = "ensure"
    /\ ~Rewrites(p)
    /\ ensures' = ensures - 1
    /\ pc' = IF ensures = 1 THEN "put" ELSE "ensure"
    /\ UNCHANGED <<fileVars, metaVars, procVars, owner, op, inc, after, histVars, loadVars>>

\* expandAndWriteBack: first the larger file ...
Expand(p) ==
    /\ owner = p /\ pc = "ensure"
    /\ Rewrites(p)
    /\ \/ /\ MustExpand(off[p], mapped[p])
          /\ \E size \in Cap : Doubled(off[p], mapped[p], size) /\ Truncate(p, size)
       \/ /\ ~MustExpand(off[p], mapped[p])
          /\ UNCHANGED <<fileVars, mapped>>
    /\ pc' = "rewrite"
    /\ UNCHANGED <<metaVars, loaded, logVars, hasFW, current, owner, op, ensures, inc, after, histVars, loadVars>>

\* "if we can't extend size, rollback to old state"
ExpandFails(p) ==
    /\ owner = p /\ pc = "ensure"
    /\ Rewrites(p)
    /\ MustExpand(off[p], mapped[p])
    /\ Leave
    /\ UNCHANGED <<fileVars, metaVars, procVars, snap, torn, ops, kills, loadVars>>

\* ... then doFullWriteBack.
Rewrite(p) ==
    /\ owner = p /\ pc = "rewrite"
    /\ WriteBack(p, off[p], "ensured")
    /\ UNCHANGED <<fileSize, metaVars, loaded, mapped, hasFW, current, owner, op, ensures, histVars, loadVars>>

\* doAppendDataWithKey: the record, in a page the file has.
Put(p) ==
    /\ owner = p /\ pc = "put"
    /\ out[p] + 1 <= fileSize - Fixed32Size
    /\ mem' = [mem EXCEPT ![out[p] + 1] = Rec(op.key, op.val)]
    /\ out' = [out EXCEPT ![p] = @ + 1]
    /\ actual' = [actual EXCEPT ![p] = @ + 1]
    /\ crc' = [crc EXCEPT ![p] = Append(@, mem'[actual[p] + 1])]
    /\ WriteMeta(FALSE, "appended")
    /\ UNCHANGED <<fileSize, metaVars, loaded, mapped, off, hasFW, current, owner, op, ensures, histVars, loadVars>>

StoreCrc(p) ==
    /\ owner = p /\ pc = "metaCrc"
    /\ metaCrc' = crc[p]
    /\ pc' = "metaSize"
    /\ UNCHANGED <<fileVars, metaSize, lastCrc, lastSize, procVars, owner, op, ensures, inc, after, histVars, loadVars>>

\* Seeded fault: the last confirmed digest is not updated.
StoreSize_OldLastCrc(p, ret) ==
    /\ owner = p /\ pc = "metaSize"
    /\ after = ret
    /\ metaSize' = actual[p]
    /\ \/ /\ inc
          /\ lastSize' = actual[p]
          /\ current' = [q \in Procs |-> q = p]
          /\ snap' = Content(mem, actual[p])
       \/ ~inc /\ UNCHANGED <<lastSize, current, snap>>
    /\ UNCHANGED <<metaCrc, lastCrc, loaded, torn, ops, kills, loadVars>>

\* The other processes' copies of m_sequence are old once it is increased.
StoreSize(p, ret) ==
    /\ owner = p /\ pc = "metaSize"
    /\ after = ret
    /\ metaSize' = actual[p]
    /\ \/ /\ inc
          /\ lastSize' = actual[p] /\ lastCrc' = crc[p]
          /\ current' = [q \in Procs |-> q = p]
          /\ snap' = Content(mem, actual[p])
       \/ ~inc /\ UNCHANGED <<lastSize, lastCrc, current, snap>>
    /\ UNCHANGED <<metaCrc, loaded, torn, ops, kills, loadVars>>

WriteBackDone(p) ==
    /\ StoreSize(p, "ensured")
    /\ hasFW' = [hasFW EXCEPT ![p] = TRUE]
    /\ ensures' = ensures - 1
    /\ pc' = IF ensures = 1 THEN "put" ELSE "ensure"
    /\ UNCHANGED <<fileVars, mapped, logVars, owner, op, inc, after, before, target>>

AppendDone(p) ==
    /\ StoreSize(p, "appended")
    /\ \/ /\ op.name = "set"
          /\ off' = [off EXCEPT ![p][op.key] = actual[p]]
          /\ hasFW' = [hasFW EXCEPT ![p] = FALSE]
       \/ /\ op.name = "remove"
          /\ off' = [off EXCEPT ![p][op.key] = 0]
          /\ UNCHANGED hasFW
    /\ Leave
    /\ UNCHANGED <<fileVars, mapped, actual, crc, out>>

\* Back in fullWriteback's caller.
Return ==
    \/ /\ op.name = "trim"
       /\ pc' = "shrink"
       /\ UNCHANGED <<owner, op, ensures, inc, after, before, target>>
    \/ op.name # "trim" /\ Leave

FullWriteBackDone(p) ==
    /\ StoreSize(p, "done")
    /\ hasFW' = [hasFW EXCEPT ![p] = TRUE]
    /\ Return
    /\ UNCHANGED <<fileVars, mapped, logVars>>

\* clearMemoryCache(keepSpace), loadFromFile().
ClearDone(p) ==
    /\ StoreSize(p, "cleared")
    /\ off' = [off EXCEPT ![p] = NoOffsets]
    /\ out' = [out EXCEPT ![p] = 0]
    /\ hasFW' = [hasFW EXCEPT ![p] = FALSE]
    /\ mapped' = [mapped EXCEPT ![p] = fileSize]
    /\ Return
    /\ UNCHANGED <<fileVars, actual, crc>>

Shrink(p) ==
    /\ owner = p /\ pc = "shrink"
    /\ \/ \E size \in Cap :
             /\ TrimSize(actual[p], mapped[p], size)
             /\ Truncate(p, size)
             /\ out' = [out EXCEPT ![p] = actual[p]]
       \/ UNCHANGED <<fileVars, mapped, out>>       \* truncate() failed
    /\ Leave
    /\ UNCHANGED <<metaVars, loaded, off, actual, crc, hasFW, current, snap, torn, ops, kills, loadVars>>

-----------------------------------------------------------------------------
Forget(p) ==
    /\ loaded' = [loaded EXCEPT ![p] = FALSE]
    /\ mapped' = [mapped EXCEPT ![p] = 0]
    /\ off' = [off EXCEPT ![p] = NoOffsets]
    /\ actual' = [actual EXCEPT ![p] = 0]
    /\ crc' = [crc EXCEPT ![p] = <<>>]
    /\ out' = [out EXCEPT ![p] = 0]
    /\ hasFW' = [hasFW EXCEPT ![p] = FALSE]
    /\ current' = [current EXCEPT ![p] = FALSE]

\* clearMemoryCache(), or the process ends and another is started.
ClearMemoryCache(p) ==
    /\ Ready(p)
    /\ loaded[p]
    /\ Forget(p)
    /\ UNCHANGED <<fileVars, metaVars, opVars, histVars, loadVars>>

\* A write-back or a clearAll has changed the file and not all of the meta.
InPlace == pc \in {"metaCrc", "metaSize"} /\ after # "appended"

Die(p) ==
    /\ owner = p
    /\ Forget(p)
    /\ Leave
    /\ torn' = (torn \/ InPlace)
    /\ UNCHANGED <<fileVars, metaVars, snap, ops, loadVars>>

DieUpgrading(p) ==
    /\ p \in upgrading
    /\ Forget(p)
    /\ upgrading' = upgrading \ {p}
    /\ UNCHANGED <<fileVars, metaVars, opVars, before, target, snap, torn, ops, waits>>

Kill(p) ==
    /\ kills < MaxKills
    /\ kills' = kills + 1
    /\ Die(p) \/ DieUpgrading(p)

\* A store into a page of the mapping that the file no longer has: SIGBUS.
BusError(p) ==
    /\ pc = "put"
    /\ out[p] + 1 > fileSize - Fixed32Size
    /\ Die(p)
    /\ UNCHANGED kills

\* Where the model stops.
Stopped == torn /\ UNCHANGED vars

Next ==
    \/ \E p \in Procs :
        \/ PartialLoad(p)
        \/ LoadValid(p)
        \/ LoadFallback(p)
        \/ StoreEmpty(p)
        \/ \E k \in Keys, v \in Vals : SetBegin(p, k, v)
        \/ \E k \in Keys : RemoveBegin(p, k)
        \/ \E S \in SUBSET Keys : RemoveManyBegin(p, S)
        \/ \E keepSpace \in BOOLEAN : ClearAll(p, keepSpace)
        \/ Trim(p)
        \/ EnsureEnough(p)
        \/ Expand(p)
        \/ ExpandFails(p)
        \/ Rewrite(p)
        \/ Put(p)
        \/ StoreCrc(p)
        \/ WriteBackDone(p)
        \/ AppendDone(p)
        \/ FullWriteBackDone(p)
        \/ ClearDone(p)
        \/ Shrink(p)
        \/ ClearMemoryCache(p)
        \/ Kill(p)
        \/ BusError(p)
    \/ Stopped

Spec == Init /\ [][Next]_vars

-----------------------------------------------------------------------------
Maps == [Keys -> Vals \cup {Nil}]

TypeOK ==
    /\ mem \in [Cap -> Cell] /\ fileSize \in Cap
    /\ metaSize \in 0 .. MaxCap /\ lastSize \in 0 .. MaxCap
    /\ loaded \in [Procs -> BOOLEAN] /\ current \in [Procs -> BOOLEAN]
    /\ hasFW \in [Procs -> BOOLEAN]
    /\ mapped \in [Procs -> 0 .. MaxCap]
    /\ off \in [Procs -> [Keys -> 0 .. MaxCap]]
    /\ actual \in [Procs -> 0 .. MaxCap] /\ out \in [Procs -> 0 .. MaxCap]
    /\ owner \in Procs \cup {NoProc}
    /\ pc \in {"idle", "ensure", "rewrite", "put", "metaCrc", "metaSize", "shrink"}
    /\ (owner = NoProc) = (pc = "idle")
    /\ ensures \in 0 .. 2
    /\ before \in Maps /\ target \in Maps /\ snap \in Maps
    /\ upgrading \in SUBSET Procs
    /\ ops \in 0 .. MaxOps /\ kills \in 0 .. MaxKills /\ waits \in 0 .. MaxWaits

\* What a process reads after checkLoadData is the map that is in the file,
\* whatever the others appended, rewrote, trimmed or cleared in between, and
\* whoever was killed in an append: comparing the sequence, the digest and the
\* size is enough to find every change, and partialLoadFromFile takes no more
\* and no less than what was appended (also its write position).
InSyncReadsFile ==
    owner = NoProc /\ ~torn =>
        \A p \in Procs \ upgrading :
            InSync(p) => View(mem, off[p]) = Recovered /\ out[p] = actual[p]

\* No kill short of one inside an in-place rewrite makes a load discard the
\* file: the last confirmed region outlives all appends (checkDataValid).
NothingIsDiscarded == ~torn /\ ~InPlace => LoadCase \in {"valid", "last"}

\* "file not valid or empty, discard everything" (KFKV_IO.mm:109): what a load
\* that had to wait for the exclusive lock stores as empty, is.
OnlyEmptyIsDiscarded ==
    [][\A p \in Procs : StoreEmpty(p) => Recovered = EmptyMap]_vars

\* "looks like this is no longer needed for we inc sequence on truncate()/
\* trim()/expandAndWriteBack()/fullWriteBack() etc" (KFKV_IO.mm:382-383): a
\* process whose sequence number is current maps no more than the file has.
MapsNoMoreThanFile ==
    owner = NoProc => \A p \in Procs : InSync(p) => mapped[p] <= fileSize

\* The map in the file; while the owner stores the meta, the one before.
Shared ==
    IF torn THEN EmptyMap
    ELSE IF pc \in {"metaCrc", "metaSize"} THEN before
    ELSE Recovered

\* An operation is under way; what trim() does to the file after its write-back
\* is no part of it.
Busy == pc \notin {"idle", "shrink"}

Goal == IF Busy THEN target ELSE EmptyMap

Abstract == INSTANCE KVMap WITH
    map <- Shared,
    confirmed <- IF torn THEN EmptyMap ELSE snap,
    busy <- Busy,
    goal <- Goal

\* All the processes together implement one map, which changes only as the
\* operation under way asks, and all at once: what an append, a compaction in
\* place, a clearAll or a trim leaves in the file, and what the next process
\* reads there, is the map from before it without, or with, the change it was
\* called for.
ImplementsKVMap == Abstract!Spec
=============================================================================
