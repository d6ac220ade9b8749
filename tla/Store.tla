------------------------------- MODULE Store -------------------------------
(***************************************************************************)
(* One KFKV instance of one process (Core/KFKV_IO.mm, KFKV.mm), its data   *)
(* file and its .crc file, one step per store into the mapped files: the   *)
(* process can be killed between any two of them, and what it stored stays *)
(* in the page cache.  m_lock serialises the operations, so at most one    *)
(* (op) is under way.                                                      *)
(***************************************************************************)
EXTENDS Sizing

CONSTANTS Strategies,         \* m_recoverStrategic, or the answers of the
                              \* application's onKFKVCRCCheckFail and -FileLengthError
          CompareBeforeSet,   \* m_enableCompareBeforeSet
          MisreadAt           \* bound: the cells OnErrorRecover finds records at

ASSUME StoreAssumption ==
    /\ Strategies \in SUBSET {"discard", "recover"} \ {{}}
    /\ CompareBeforeSet \in BOOLEAN

VARIABLES
    mem, fileSize,            \* the data area and the length of the data file
    metaCrc, metaSize,        \* .crc file: m_crcDigest, m_actualSize
    lastCrc, lastSize,        \* .crc file: m_lastConfirmedMetaInfo
    loaded,                   \* ~m_needLoadFromFile
    off,                      \* m_dic: the offset of every key's record
    actual, crc, out, hasFW,  \* m_actualSize, m_crcDigest, m_output, m_hasFullWriteback
    pc, op,                   \* the operation under way and where it is
    ensures,                  \* ensureMemorySize() calls it still makes
    todo, wp,                 \* memmoveDictionary: keys to move, writePtr
    inc, after,               \* writeActualSize: increaseSequence, return point
    cur, target, snap,        \* the map before op, after op, at lastConfirmed
    kept                      \* history: no rewrite in place has begun since then

fileVars == <<mem, fileSize>>
lastVars == <<lastCrc, lastSize>>
metaVars == <<metaCrc, metaSize, lastCrc, lastSize>>
logVars  == <<actual, crc, out>>
stepVars == <<op, ensures, todo, wp, inc, after>>
mapVars  == <<cur, target, snap, kept>>
vars == <<fileVars, metaVars, loaded, off, logVars, hasFW, pc, stepVars, mapVars>>

NoOp == [name |-> "none", key |-> NoKey, val |-> Nil]

Init ==
    /\ mem = [i \in Cap |-> Zero]
    /\ fileSize = expectedCapacity
    /\ metaCrc = <<>> /\ metaSize = 0
    /\ lastCrc = <<>> /\ lastSize = 0
    /\ loaded = FALSE
    /\ off = NoOffsets
    /\ actual = 0 /\ crc = <<>> /\ out = 0 /\ hasFW = FALSE
    /\ pc = "idle" /\ op = NoOp /\ ensures = 0
    /\ todo = {} /\ wp = 0 /\ inc = FALSE /\ after = "none"
    /\ cur = EmptyMap /\ target = EmptyMap /\ snap = EmptyMap /\ kept = TRUE

-----------------------------------------------------------------------------
Truncate(size) ==
    /\ fileSize' = size
    /\ mem' = Cut(mem, size)

\* The branch of checkDataValid a load takes.  The old-style header of a file
\* this version created is 0.
LoadCase ==
    IF Valid(mem, fileSize, metaSize, metaCrc) THEN "valid"
    ELSE IF metaSize # 0 /\ Valid(mem, fileSize, 0, metaCrc) THEN "oldStyle"
    ELSE IF Valid(mem, fileSize, lastSize, lastCrc) THEN "last"
    ELSE "broken"

LoadSize ==
    CASE LoadCase = "valid" -> metaSize
      [] LoadCase = "last" -> lastSize
      [] OTHER -> 0

\* The map a process that loads the two files now would get, if it does not
\* recover what fits no digest.
Recovered == Content(mem, LoadSize)

\* What OnErrorRecover decodes; "make sure we don't over read the file".
RecoverSize == IF Fits(metaSize, fileSize) THEN metaSize ELSE fileSize - Fixed32Size

-----------------------------------------------------------------------------
\* Steps shared by the operations.

Idle ==
    /\ pc' = "idle" /\ op' = NoOp /\ ensures' = 0
    /\ todo' = {} /\ wp' = 0 /\ inc' = FALSE /\ after' = "none"

\* writeActualSize(actual, crc, increase), to return to ret.
WriteMeta(increase, ret) ==
    /\ pc' = "metaCrc"
    /\ inc' = increase
    /\ after' = ret

\* doFullWriteBack of dictionary o starts to move its records.
StartWriteBack(o, ret) ==
    /\ pc' = "move"
    /\ todo' = {k \in Keys : o[k] # 0}
    /\ wp' = ItemSizeHolderSize + 1
    /\ kept' = FALSE
    /\ after' = ret

\* clearAll: truncate, then the meta; a truncate that fails is ignored.
StartClear(keepSpace) ==
    /\ \/ ~keepSpace /\ Truncate(expectedCapacity)
       \/ UNCHANGED fileVars
    /\ actual' = 0
    /\ crc' = <<>>
    /\ kept' = FALSE
    /\ UNCHANGED out
    /\ WriteMeta(TRUE, "cleared")
    /\ UNCHANGED <<todo, wp>>

Begin(name, k, v, m) ==
    /\ pc = "idle" /\ loaded
    /\ op' = [name |-> name, key |-> k, val |-> v]
    /\ target' = m
    /\ UNCHANGED <<cur, snap, loaded, metaVars>>

-----------------------------------------------------------------------------
\* checkLoadData -> loadFromFile.

LoadDone(n) ==
    /\ pc = "idle" /\ ~loaded
    /\ loaded' = TRUE
    /\ off' = Decode(mem, n)
    /\ actual' = n
    /\ out' = n
    /\ UNCHANGED <<fileVars, metaVars, hasFW, op, ensures, mapVars>>

LoadValid ==
    /\ LoadCase = "valid"
    /\ LoadDone(metaSize)
    /\ crc' = metaCrc
    /\ UNCHANGED <<pc, todo, wp, inc, after>>

\* The region is the one of the last full write-back, or the empty one of a
\* clearAll cut short; writeActualSize(KeepSequence) makes it the current one.
LoadFallback ==
    /\ LoadCase \in {"oldStyle", "last"}
    /\ LoadDone(LoadSize)
    /\ crc' = Crc(mem, LoadSize)
    /\ WriteMeta(FALSE, "loaded")
    /\ UNCHANGED <<todo, wp>>

\* "file not valid or empty, discard everything"
LoadDiscard ==
    /\ LoadCase = "broken"
    /\ "discard" \in Strategies \/ RecoverSize = 0
    /\ LoadDone(0)
    /\ crc' = <<>>
    /\ WriteMeta(metaSize > 0, "loaded")
    /\ UNCHANGED <<todo, wp>>

\* greedyDecodeMap in a region that fits no digest: it may start inside a
\* record or meet a torn one, so what it takes for the record of a key can be
\* anywhere in the region and have any value.
Misread(o, v) == [i \in Cap |->
    IF \E k \in Keys : o[k] = i THEN LET k == CHOOSE k \in Keys : o[k] = i IN Rec(k, v[k])
    ELSE mem[i]]

\* OnErrorRecover: decode what there is, then fullWriteback().  The digest is
\* computed anew before it is used.
LoadRecover ==
    /\ LoadCase = "broken"
    /\ "recover" \in Strategies /\ RecoverSize # 0
    /\ pc = "idle" /\ ~loaded
    /\ loaded' = TRUE
    /\ op' = [NoOp EXCEPT !.name = "recover"]
    /\ UNCHANGED <<metaVars, hasFW, ensures, snap>>
    /\ \/ \E o \in [Keys -> {0} \cup 2 .. RecoverSize], v \in [Keys -> Vals] :
            /\ \A k \in Keys : o[k] \in MisreadAt \cup {0}
            /\ \A j, k \in Keys : o[j] = o[k] => j = k \/ o[k] = 0
            /\ Count(o) > 0
            /\ mem' = Misread(o, v)
            /\ UNCHANGED <<fileSize, crc, inc>>
            /\ LoadCase' = "broken"          \* decoding changes no byte
            /\ off' = o
            /\ cur' = View(mem', o)
            /\ actual' = RecoverSize /\ out' = RecoverSize
            /\ StartWriteBack(o, "done")
       \/ /\ off' = NoOffsets
          /\ cur' = EmptyMap
          /\ StartClear(FALSE)
    /\ target' = cur'

-----------------------------------------------------------------------------
\* setDataForKey, after the comparison enableCompareBeforeSet asks for.

ToOverride(k) == (off[k] # 0 /\ Count(off) = 1) \/ (Count(off) = 0 /\ actual > 0)

SetBegin(k, v) ==
    /\ ~(CompareBeforeSet /\ off[k] # 0 /\ mem[off[k]].val = v)
    /\ Begin("set", k, v, [cur EXCEPT ![k] = v])
    /\ \/ /\ ToOverride(k)
          /\ 1 + Fixed32Size + ItemSizeHolderSize <= fileSize
          /\ pc' = "override" /\ ensures' = 0
       \/ /\ ~(ToOverride(k) /\ 1 + Fixed32Size + ItemSizeHolderSize <= fileSize)
          /\ pc' = "ensure"
          /\ ensures' = IF off[k] # 0 THEN 2 ELSE 1
    /\ UNCHANGED <<fileVars, off, logVars, hasFW, todo, wp, inc, after, kept>>

\* removeDataForKey: a removal is appended like a value.
RemoveBegin(k) ==
    /\ off[k] # 0
    /\ Begin("remove", k, Nil, [cur EXCEPT ![k] = Nil])
    /\ hasFW' = FALSE
    /\ pc' = "ensure" /\ ensures' = 2
    /\ UNCHANGED <<fileVars, off, logVars, todo, wp, inc, after, kept>>

\* removeValuesForKeys: erase from the dictionary, then fullWriteback().  S is
\* the given keys that are in Keys; a name no record has may be given too, so S
\* can be a single key (an array of length one goes to removeValueForKey).
RemoveManyBegin(S) ==
    /\ \E k \in S : off[k] # 0
    /\ Begin("removeMany", NoKey, Nil, [k \in Keys |-> IF k \in S THEN Nil ELSE cur[k]])
    /\ off' = [k \in Keys |-> IF k \in S THEN 0 ELSE off[k]]
    /\ hasFW' = FALSE
    /\ \/ /\ Count(off') > 0
          /\ StartWriteBack(off', "done")
          /\ UNCHANGED <<fileVars, logVars, inc>>
       \/ /\ Count(off') = 0
          /\ StartClear(FALSE)
    /\ UNCHANGED ensures

\* ensureMemorySize(1): enough room.
Rewrites == NeedsWriteBack(off, fileSize, out)

EnsureEnough ==
    /\ pc = "ensure"
    /\ ~Rewrites
    /\ ensures' = ensures - 1
    /\ pc' = IF ensures = 1 THEN "put" ELSE "ensure"
    /\ UNCHANGED <<fileVars, metaVars, loaded, off, logVars, hasFW, op, todo, wp, inc, after, mapVars>>

\* expandAndWriteBack(1, ...): doFullWriteBack, in a larger file if need be.
EnsureWriteBack ==
    /\ pc = "ensure"
    /\ Rewrites
    /\ \/ ~MustExpand(off, fileSize) /\ UNCHANGED fileVars
       \/ MustExpand(off, fileSize) /\ \E size \in Cap : Doubled(off, fileSize, size) /\ Truncate(size)
    /\ StartWriteBack(off, "ensured")
    /\ UNCHANGED <<metaVars, loaded, off, logVars, hasFW, op, ensures, inc, cur, target, snap>>

\* "if we can't extend size, rollback to old state": the call returns false.
EnsureFails ==
    /\ pc = "ensure"
    /\ Rewrites
    /\ MustExpand(off, fileSize)
    /\ Idle
    /\ target' = cur
    /\ UNCHANGED <<fileVars, metaVars, loaded, off, logVars, hasFW, cur, snap, kept>>

\* Seeded fault: the records are not sorted by offset.
Move_Unsorted(k) ==
    /\ pc = "move"
    /\ k \in todo
    /\ mem' = [mem EXCEPT ![wp] = mem[off[k]]]
    /\ off' = [off EXCEPT ![k] = wp]
    /\ wp' = wp + 1
    /\ todo' = todo \ {k}
    /\ UNCHANGED <<fileSize, metaVars, loaded, logVars, hasFW, pc, op, ensures, inc, after, mapVars>>

\* Seeded fault: the offset of a moved record is not updated.
Move_KeepsOffset(k) ==
    /\ pc = "move"
    /\ k \in todo
    /\ \A j \in todo : off[k] <= off[j]
    /\ mem' = [mem EXCEPT ![wp] = mem[off[k]]]
    /\ wp' = wp + 1
    /\ todo' = todo \ {k}
    /\ UNCHANGED <<fileSize, metaVars, loaded, off, logVars, hasFW, pc, op, ensures, inc, after, mapVars>>

\* memmoveDictionary, one record at a time in the order of their offsets.
Move(k) ==
    /\ pc = "move"
    /\ k \in todo
    /\ \A j \in todo : off[k] <= off[j]
    /\ mem' = [mem EXCEPT ![wp] = mem[off[k]]]
    /\ off' = [off EXCEPT ![k] = wp]
    /\ wp' = wp + 1
    /\ todo' = todo \ {k}
    /\ UNCHANGED <<fileSize, metaVars, loaded, logVars, hasFW, pc, op, ensures, inc, after, mapVars>>

\* A new holder in front, then recalculateCRCDigestWithIV -> writeActualSize.
MoveDone ==
    /\ pc = "move"
    /\ todo = {}
    /\ \E h \in Holders : mem' = [mem EXCEPT ![1] = Holder(h)]
    /\ actual' = wp - 1
    /\ out' = wp - 1
    /\ crc' = Crc(mem', wp - 1)
    /\ WriteMeta(TRUE, after)
    /\ UNCHANGED <<fileSize, metaVars, loaded, off, hasFW, op, ensures, todo, wp, mapVars>>

\* Seeded fault: the key is counted once more than it is written.
Put_SizeTwice ==
    /\ pc = "put"
    /\ mem' = [mem EXCEPT ![out + 1] = Rec(op.key, op.val)]
    /\ out' = out + 1
    /\ actual' = actual + 2
    /\ crc' = Append(crc, mem'[out + 1])
    /\ WriteMeta(FALSE, "appended")
    /\ UNCHANGED <<fileSize, metaVars, loaded, off, hasFW, op, ensures, todo, wp, mapVars>>

\* Seeded fault: the write position is one record short.
Put_OverLast ==
    /\ pc = "put"
    /\ mem' = [mem EXCEPT ![out] = Rec(op.key, op.val)]
    /\ out' = out + 1
    /\ actual' = actual + 1
    /\ crc' = Append(crc, mem'[actual + 1])
    /\ WriteMeta(FALSE, "appended")
    /\ UNCHANGED <<fileSize, metaVars, loaded, off, hasFW, op, ensures, todo, wp, mapVars>>

\* doAppendDataWithKey: the record, then updateCRCDigest -> writeActualSize.
Put ==
    /\ pc = "put"
    /\ mem' = [mem EXCEPT ![out + 1] = Rec(op.key, op.val)]
    /\ out' = out + 1
    /\ actual' = actual + 1
    /\ crc' = Append(crc, mem'[actual + 1])
    /\ WriteMeta(FALSE, "appended")
    /\ UNCHANGED <<fileSize, metaVars, loaded, off, hasFW, op, ensures, todo, wp, mapVars>>

\* doOverrideDataWithKey: rewrite the file from the beginning, in place; first
\* a new holder ...
OverrideHolder ==
    /\ pc = "override"
    /\ \E h \in Holders : mem' = [mem EXCEPT ![1] = Holder(h)]
    /\ pc' = "overrideRecord"
    /\ kept' = FALSE
    /\ UNCHANGED <<fileSize, metaVars, loaded, off, logVars, hasFW, stepVars, cur, target, snap>>

\* ... then the record, and recalculateCRCDigestOnly -> writeActualSize.  The
\* sequence is kept, and with it the last confirmed meta.
OverrideRecord ==
    /\ pc = "overrideRecord"
    /\ mem' = [mem EXCEPT ![2] = Rec(op.key, op.val)]
    /\ actual' = 2
    /\ out' = 2
    /\ crc' = Crc(mem', 2)
    /\ WriteMeta(FALSE, "overridden")
    /\ UNCHANGED <<fileSize, metaVars, loaded, off, hasFW, op, ensures, todo, wp, mapVars>>

-----------------------------------------------------------------------------
\* writeActualSize: the digest is stored before the size it belongs to, by
\* writeCRCAndActualSizeOnly as by the memcpy of the whole KFKVMetaInfo.
StoreCrc ==
    /\ pc = "metaCrc"
    /\ metaCrc' = crc
    /\ pc' = "metaSize"
    /\ UNCHANGED <<fileVars, metaSize, lastVars, loaded, off, logVars, hasFW, stepVars, mapVars>>

\* Seeded fault: the last confirmed digest is not updated.
StoreSize_OldLastCrc(ret) ==
    /\ pc = "metaSize"
    /\ after = ret
    /\ metaSize' = actual
    /\ \/ inc /\ lastSize' = actual /\ snap' = Content(mem, actual) /\ kept' = TRUE
       \/ ~inc /\ UNCHANGED <<lastSize, snap, kept>>
    /\ UNCHANGED <<metaCrc, lastCrc, loaded>>

StoreSize(ret) ==
    /\ pc = "metaSize"
    /\ after = ret
    /\ metaSize' = actual
    /\ \/ /\ inc
          /\ lastSize' = actual /\ lastCrc' = crc
          /\ snap' = Content(mem, actual) /\ kept' = TRUE
       \/ ~inc /\ UNCHANGED <<lastVars, snap, kept>>
    /\ UNCHANGED <<metaCrc, loaded>>

\* Seeded fault: the room is looked at again, in a dictionary that may be empty.
WriteBackDone_Retries ==
    /\ StoreSize("ensured")
    /\ hasFW' = TRUE
    /\ pc' = "ensure"
    /\ UNCHANGED <<fileVars, off, logVars, op, ensures, todo, wp, inc, after, cur, target>>

\* Back in ensureMemorySize's caller.
WriteBackDone ==
    /\ StoreSize("ensured")
    /\ hasFW' = TRUE
    /\ ensures' = ensures - 1
    /\ pc' = IF ensures = 1 THEN "put" ELSE "ensure"
    /\ UNCHANGED <<fileVars, off, logVars, op, todo, wp, inc, after, cur, target>>

\* setDataForKey / removeDataForKey update the dictionary and return.
AppendDone ==
    /\ after \in {"appended", "overridden"} /\ StoreSize(after)
    /\ \/ op.name = "set" /\ off' = [off EXCEPT ![op.key] = actual] /\ hasFW' = FALSE
       \/ op.name = "remove" /\ off' = [off EXCEPT ![op.key] = 0] /\ UNCHANGED hasFW
    /\ Idle
    /\ cur' = target
    /\ UNCHANGED <<fileVars, logVars, target>>

FullWriteBackDone ==
    /\ StoreSize("done")
    /\ hasFW' = TRUE
    /\ \/ op.name = "trim" /\ pc' = "shrink"
          /\ UNCHANGED <<op, ensures, todo, wp, inc, after>>
       \/ op.name # "trim" /\ Idle
    /\ cur' = target
    /\ UNCHANGED <<fileVars, off, logVars, target>>

\* clearAll: clearMemoryCache(keepSpace), loadFromFile().
ClearDone ==
    /\ StoreSize("cleared")
    /\ off' = NoOffsets
    /\ out' = 0
    /\ hasFW' = FALSE
    /\ \/ op.name = "trim" /\ pc' = "shrink"
          /\ UNCHANGED <<op, ensures, todo, wp, inc, after>>
       \/ op.name # "trim" /\ Idle
    /\ cur' = target
    /\ UNCHANGED <<fileVars, actual, crc, target>>

LoadWritten ==
    /\ StoreSize("loaded")
    /\ Idle
    /\ UNCHANGED <<fileVars, off, logVars, hasFW, cur, target>>

-----------------------------------------------------------------------------
ClearAll(keepSpace) ==
    /\ ~(fileSize = expectedCapacity /\ actual = 0)
    /\ Begin("clear", NoKey, Nil, EmptyMap)
    /\ StartClear(keepSpace)
    /\ UNCHANGED <<off, hasFW, ensures>>

\* trim(): fullWriteback(), then cut the file.  With m_actualSize = 0 it is
\* ClearAll(FALSE).
Trim ==
    /\ actual # 0
    /\ fileSize > expectedCapacity
    /\ Begin("trim", NoKey, Nil, cur)
    /\ \/ /\ hasFW
          /\ pc' = "shrink"
          /\ UNCHANGED <<fileVars, logVars, todo, wp, inc, after, kept>>
       \/ /\ ~hasFW /\ Count(off) > 0
          /\ StartWriteBack(off, "done")
          /\ UNCHANGED <<fileVars, logVars, inc>>
       \/ /\ ~hasFW /\ Count(off) = 0
          /\ StartClear(FALSE)
    /\ UNCHANGED <<off, hasFW, ensures>>

Shrink ==
    /\ pc = "shrink"
    /\ \/ \E size \in Cap : TrimSize(actual, fileSize, size) /\ Truncate(size) /\ out' = actual
       \/ UNCHANGED <<fileVars, out>>          \* truncate() failed
    /\ Idle
    /\ UNCHANGED <<metaVars, loaded, off, actual, crc, hasFW, mapVars>>

-----------------------------------------------------------------------------
Forget ==
    /\ loaded' = FALSE
    /\ off' = NoOffsets
    /\ actual' = 0 /\ crc' = <<>> /\ out' = 0 /\ hasFW' = FALSE

\* clearMemoryCache(), on a memory warning, and close() and open again.
ClearMemoryCache ==
    /\ pc = "idle" /\ loaded
    /\ Forget
    /\ UNCHANGED <<fileVars, metaVars, pc, stepVars, mapVars>>

\* The process is killed; the mapped files keep every store it made.
Kill ==
    /\ pc # "idle"
    /\ Forget
    /\ Idle
    /\ cur' = Recovered /\ target' = Recovered
    /\ UNCHANGED <<fileVars, metaVars, snap, kept>>

Step ==
    \/ EnsureEnough
    \/ EnsureWriteBack
    \/ EnsureFails
    \/ \E k \in Keys : Move(k)
    \/ MoveDone
    \/ Put
    \/ OverrideHolder
    \/ OverrideRecord
    \/ StoreCrc
    \/ WriteBackDone
    \/ AppendDone
    \/ FullWriteBackDone
    \/ ClearDone
    \/ LoadWritten
    \/ Shrink

Next ==
    \/ LoadValid
    \/ LoadFallback
    \/ LoadDiscard
    \/ LoadRecover
    \/ \E k \in Keys, v \in Vals : SetBegin(k, v)
    \/ \E k \in Keys : RemoveBegin(k)
    \/ \E S \in SUBSET Keys : RemoveManyBegin(S)
    \/ \E keepSpace \in BOOLEAN : ClearAll(keepSpace)
    \/ Trim
    \/ Step
    \/ ClearMemoryCache
    \/ Kill

Spec == Init /\ [][Next]_vars

-----------------------------------------------------------------------------
Maps == [Keys -> Vals \cup {Nil}]

TypeOK ==
    /\ mem \in [Cap -> Cell]
    /\ fileSize \in Cap
    /\ metaSize \in 0 .. MaxCap /\ lastSize \in 0 .. MaxCap /\ actual \in 0 .. MaxCap
    /\ out \in 0 .. MaxCap
    /\ loaded \in BOOLEAN /\ hasFW \in BOOLEAN /\ inc \in BOOLEAN
    /\ off \in [Keys -> 0 .. MaxCap]
    /\ pc \in {"idle", "override", "overrideRecord", "ensure", "move", "put",
               "metaCrc", "metaSize", "shrink"}
    /\ op.name \in {"none", "set", "remove", "removeMany", "clear", "trim", "recover"}
    /\ op.key \in Keys \cup {NoKey} /\ op.val \in Vals \cup {Nil}
    /\ ensures \in 0 .. 2
    /\ todo \in SUBSET Keys /\ wp \in 0 .. MaxCap
    /\ after \in {"none", "ensured", "appended", "overridden", "done", "cleared", "loaded"}
    /\ cur \in Maps /\ target \in Maps /\ snap \in Maps /\ kept \in BOOLEAN

\* Between two operations the files hold exactly the current map: a process
\* killed there, or whose memory cache is dropped, loses nothing and gets
\* nothing back (the append of doAppendDataWithKey, the in-place rewrites, the
\* trim, and checkDataValid on the other side, agree).
DurableWhenIdle == pc = "idle" => Recovered = cur

\* Between two operations every key's offset leads to its current value: the
\* offsets survived compactions, overrides and truncations (m_dic, m_file).
ReadsCurrent == pc = "idle" /\ loaded => View(mem, off) = cur

\* The bytes of the current region are being changed, or have been and not all
\* of the meta: an expansion, a full write-back, a clearAll or an override.
InPlace ==
    \/ pc \in {"move", "overrideRecord"}
    \/ pc \in {"metaCrc", "metaSize"} /\ after \in {"ensured", "done", "cleared", "overridden"}

\* A process killed inside an operation leaves the map from before it, from
\* after it, or of the last full write-back, never a mixture.  The file fits
\* no digest, and is discarded or recovered as the application says, only
\* after a kill inside an in-place rewrite, or between the two stores of an
\* append that came after an override or after a rewrite cut short: those have
\* overwritten the region the last confirmed meta describes and left that meta
\* (writeActualSize with KeepSequence, checkDataValid).  Discarding such a file
\* can be killed too.  Nothing is said of what OnErrorRecover reads out of it,
\* or of a kill inside the rewrite that follows.
KillIsAtomic ==
    pc # "idle" /\ op.name # "recover" =>
        \/ LoadCase # "broken" /\ Recovered \in {cur, target, snap}
        \/ /\ LoadCase = "broken"
           /\ \/ InPlace
              \/ ~kept /\ pc = "metaSize" /\ after = "appended"
              \/ cur = EmptyMap /\ after = "loaded"

\* An append destroys nothing: outside the rewriting of ensureMemorySize(), and
\* until writeActualSize stores the first of its two values, a kill leaves
\* exactly the map from before it, also when the record is already in the file
\* (doAppendDataWithKey, data first, meta after).
AppendIsSafe ==
    pc \in {"ensure", "put"} \/ (pc = "metaCrc" /\ after = "appended") => Recovered = cur

\* memmoveDictionary never overwrites a record it still has to move.
MoveKeepsRecords ==
    pc = "move" =>
        \A k \in Keys : off[k] # 0 =>
            mem[off[k]] = Rec(k, IF op.name \in {"set", "remove"} THEN cur[k] ELSE target[k])

\* doAppendDataWithKey never writes past the mapped file (CodedOutputData
\* would throw with the write half done).
PutFits == pc = "put" => out = actual /\ out + 1 <= fileSize - Fixed32Size

\* appendDataWithKey takes its key bytes from the file after the first
\* ensureMemorySize(): the second one must not move them.
SecondEnsureIsIdle ==
    [][pc = "metaSize" /\ pc' = "ensure" => ~Rewrites']_vars

\* The steps an operation has left at most: those of every ensureMemorySize()
\* to come, of memmoveDictionary, and of the meta.
Work ==
    ensures * (6 + Cardinality(Keys))
        + (IF pc = "ensure" THEN 5 + Cardinality(Keys)
           ELSE IF pc = "move" THEN 4 + Cardinality(todo)
           ELSE [idle |-> 0, shrink |-> 1, metaSize |-> 2, metaCrc |-> 3,
                 put |-> 4, overrideRecord |-> 4, override |-> 5][pc])

\* Every operation ends: each of its steps leaves less to do, also when a write
\* back of an empty dictionary does not make ensureMemorySize()'s condition
\* false, or two of them follow each other.
WorkShrinks == [][Step => Work' < Work /\ Work' >= 0]_vars
=============================================================================
