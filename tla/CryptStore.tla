----------------------------- MODULE CryptStore -----------------------------
(***************************************************************************)
(* The encrypted region of a store: KFKV_IO.mm with m_crypter, the crypt   *)
(* half of MiniPBCoder, CodedInputDataCrypt and KeyValueHolderCrypt.       *)
(*                                                                         *)
(* The region is one CFB stream.  m_crypter stands where the last load or  *)
(* write ended.  A large value stays in the file, and its holder keeps the *)
(* cipher's status at its record.  A load decrypts through a buffer that   *)
(* reads ahead and drops what it has used, and finds that status by        *)
(* rolling back from wherever the buffer ends.                             *)
(*                                                                         *)
(* A size takes one byte here and so does the ItemSizeHolder.  The file is *)
(* never extended.  log is history: the records the region stands for.      *)
(***************************************************************************)
EXTENDS Cfb, FiniteSets, SequencesExt

CONSTANTS Keys,
          KeyText,     \* the bytes of a key
          Vals,        \* values, as bytes; <<>> removes
          Ahead,       \* bytes readRawVarint32 asks for: 10
          Medium,      \* MediumBufferSize(): a longer value stays in the file
          MaxRegion,   \* the room in the file
          IVs          \* the vectors fillRandomIV may draw

ASSUME CryptAssumption ==
    /\ IsFiniteSet(Keys) /\ 1 \in Byte
    /\ KeyText \in [Keys -> Seq(Byte) \ {<<>>}]
    /\ \A j, k \in Keys : KeyText[j] = KeyText[k] => j = k
    /\ Vals \subseteq Seq(Byte)
    /\ \A k \in Keys : Len(KeyText[k]) \in Byte
    /\ \A v \in Vals : Len(v) \in Byte
    /\ Ahead \in 1 .. BlockLen /\ Medium \in Nat /\ MaxRegion \in Nat
    /\ IVs \subseteq Block

VARIABLES
    cipher,     \* file: the region, m_metaInfo->m_actualSize bytes
    iv,         \* file: m_metaInfo->m_vector
    multi,      \* isMultiProcess()
    loaded,     \* ~m_needLoadFromFile
    actual,     \* m_actualSize
    crypter,    \* m_crypter
    dic,        \* m_dicCrypt
    pc,         \* where decodeOneMap is, while a load runs
    input,      \* its CodedInputDataCrypt
    holder,     \* the offset and key of the record being read
    broken,     \* history: an assert failed or a read left the region
    log         \* history: the key and the value of every record

vars == <<cipher, iv, multi, loaded, actual, crypter, dic, pc, input, holder, broken, log>>

SizeHolder == <<1>>
Record(k, v) == <<Len(KeyText[k])>> \o KeyText[k] \o <<Len(v)>> \o v

\* History: the plaintext through each record of l, the plaintext of the region,
\* and the value of every key in its first n bytes, <<>> if it has none.
Through(l) ==
    LET t[i \in 0 .. Len(l)] ==
            IF i = 0 THEN SizeHolder ELSE t[i - 1] \o Record(l[i].key, l[i].val)
    IN  t
TextOf(l) == IF l = <<>> THEN <<>> ELSE Through(l)[Len(l)]
text == TextOf(log)

Latest(n) ==
    [k \in Keys |->
        LET of == {i \in 1 .. Len(log) : log[i].key = k /\ Len(Through(log)[i]) <= n}
        IN  IF of = {} THEN <<>> ELSE log[CHOOSE i \in of : \A j \in of : j <= i].val]

\* KeyValueHolderCrypt: a small value itself, or where a large one is.
NoHolder == [type |-> "none"]
Direct(v) == [type |-> "direct", val |-> v]
Offset(o, keySize, valSize, s) ==
    [type |-> "offset", offset |-> o, keySize |-> keySize, valSize |-> valSize, status |-> s]

isValueStoredAsOffset(size) == size > Medium
PairSize(h) == 2 + h.keySize + h.valSize

Region(from, n) == SubSeq(cipher, from + 1, from + n)

NoInput == [position |-> 0, decPos |-> 0, buf |-> <<>>, room |-> 0, bufPos |-> 0,
            discard |-> 0, ok |-> TRUE, crypter |-> NoHolder]

Init ==
    /\ iv \in IVs /\ multi \in BOOLEAN
    /\ cipher = <<>> /\ log = <<>> /\ actual = 0 /\ loaded = TRUE
    /\ \E ck \in CryptKeys : crypter = Reset(ck, iv)
    /\ dic = [k \in Keys |-> NoHolder]
    /\ pc = "idle" /\ input = NoInput /\ holder = NoHolder /\ broken = FALSE

-----------------------------------------------------------------------------
(* Reading a value.                                                         *)

\* decryptBuffer: first what precedes the value, one block at a time and what
\* is left of one, then the value.
\* toKFKVBuffer: the crypter's key with the holder's status.
ValueOf(h) ==
    IF h.type = "direct" THEN h.val
    ELSE LET before == 2 + h.keySize
             s == Decrypt(Region(h.offset, before), [h.status EXCEPT !.key = crypter.key]).status
         IN  Decrypt(Region(h.offset + before, h.valSize), s).out

\* appendDataWithKey, overrideDataWithKey: the key of a value that is in the
\* file is decrypted from there.
KeyOnFile(k) ==
    LET h == dic[k] IN
    IF h.type = "offset"
    THEN Decrypt(Region(h.offset, 1 + h.keySize), [h.status EXCEPT !.key = crypter.key]).out
    ELSE <<Len(KeyText[k])>> \o KeyText[k]

-----------------------------------------------------------------------------
(* doFullWriteBack and memmoveDictionary.                                   *)

\* The keys whose values are in the file, by offset, and the others.
Kept == {k \in Keys : dic[k].type = "offset"}
InOrder ==
    CHOOSE ks \in SetToSeqs(Kept) :
        \A i, j \in 1 .. Len(ks) : i < j => dic[ks[i]].offset < dic[ks[j]].offset
Prepared == {k \in Keys : dic[k].type = "direct"}

\* Records that touch are decrypted as one section, with the first's status.
Begins(ks, i) ==
    i = 1 \/ dic[ks[i]].offset # dic[ks[i - 1]].offset + PairSize(dic[ks[i - 1]])

\* Seeded fault: the sections are merged by size alone, gaps and all.
Moved_OverGaps(ks, i) ==
    LET f == dic[ks[1]]
        from == IF i = 1 THEN 0 ELSE PairSize(dic[ks[1]])
        upto == from + PairSize(dic[ks[i]])
    IN  SubSeq(Decrypt(Region(f.offset, upto), f.status).out, from + 1, upto)

\* The i-th record as its section decrypts.
Moved(ks, i) ==
    LET h == dic[ks[i]]
        first == dic[ks[CHOOSE j \in 1 .. i :
                    Begins(ks, j) /\ \A m \in j + 1 .. i : ~Begins(ks, m)]]
        upto == h.offset + PairSize(h) - first.offset
    IN  SubSeq(Decrypt(Region(first.offset, upto), first.status).out,
               h.offset - first.offset + 1, upto)

\* What the encrypter makes of the first i pieces, one call for each.
EncryptAll(pieces, s) ==
    LET done[i \in 0 .. Len(pieces)] ==
            IF i = 0 THEN [out |-> <<>>, status |-> s]
            ELSE LET before == done[i - 1]
                     e == Encrypt(pieces[i], before.status)
                 IN  [out |-> before.out \o e.out, status |-> e.status]
    IN  done

\* The rewritten region for the key ck, a new vector and an order of the
\* prepared values, which the dictionary's hashing decides.
WriteBack(ck, newIV, ps) ==
    LET ks == InOrder
        n == Len(ks)
        pieces == <<SizeHolder>> \o [i \in 1 .. n |-> Moved(ks, i)]
                  \o [i \in 1 .. Len(ps) |-> Record(ps[i], dic[ps[i]].val)]
        done == EncryptAll(pieces, Reset(ck, newIV))
        Kth(k) == CHOOSE i \in 1 .. n : ks[i] = k
    IN  [cipher |-> done[Len(pieces)].out,
         crypter |-> done[Len(pieces)].status,
         dic |-> [k \in Keys |->
                    IF k \in Kept
                    THEN Offset(Len(done[Kth(k)].out), dic[k].keySize, dic[k].valSize,
                                done[Kth(k)].status)
                    ELSE dic[k]],
         log |-> [i \in 1 .. n + Len(ps) |->
                    LET k == IF i <= n THEN ks[i] ELSE ps[i - n] IN
                    [key |-> k, val |-> Latest(actual)[k]]]]

-----------------------------------------------------------------------------
(* Writing.  checkLoadData has run: the whole region is loaded.             *)

UpToDate == pc = "idle" /\ loaded /\ actual = Len(cipher)

\* The holder of a value written at offset o with the crypter in status s.
NewHolder(k, v, o, s) ==
    IF v = <<>> THEN NoHolder
    ELSE IF isValueStoredAsOffset(Len(v)) THEN Offset(o, Len(KeyText[k]), Len(v), s)
    ELSE Direct(v)

Put(region, l, k, key, v, s, d) ==
    LET e == Encrypt(key \o <<Len(v)>> \o v, s) IN
    /\ cipher' = region \o e.out
    /\ actual' = Len(cipher')
    /\ crypter' = e.status
    /\ dic' = [d EXCEPT ![k] = NewHolder(k, v, Len(region), s)]
    /\ log' = Append(l, [key |-> k, val |-> v])
    /\ Len(cipher') <= MaxRegion

Present == {k \in Keys : dic[k].type # "none"}

\* ensureMemorySize
NeedsRoom(k, v) == Present = {} \/ actual + Len(Record(k, v)) > MaxRegion

\* setDataForKey, removeDataForKey: a single process starts again from the
\* beginning when the dictionary holds no other key.
Overrides(k, v) == /\ v # <<>> /\ ~multi /\ Present \subseteq {k}
                   /\ Present = {k} \/ actual > 0

Writable(k, v) == UpToDate /\ (v = <<>> => k \in Present)

\* doAppendDataWithKey: the status is taken once there is room.
AppendData(k, v) ==
    /\ Writable(k, v) /\ ~Overrides(k, v) /\ ~NeedsRoom(k, v)
    /\ Put(cipher, log, k, KeyOnFile(k), v, crypter, dic)
    /\ UNCHANGED <<iv, multi, loaded, pc, input, holder, broken>>

\* Seeded fault: the record is encrypted from where m_crypter was.
AppendWithRoom_OldStatus(k, v) ==
    /\ Writable(k, v) /\ ~Overrides(k, v) /\ NeedsRoom(k, v)
    /\ iv' \in IVs
    /\ \E ps \in SetToSeqs(Prepared) :
        LET w == WriteBack(crypter.key, iv', ps) IN
        Put(w.cipher, w.log, k, KeyOnFile(k), v, crypter, w.dic)
    /\ UNCHANGED <<multi, loaded, pc, input, holder, broken>>

\* The same through expandAndWriteBack; the key has been read before.
AppendWithRoom(k, v) ==
    /\ Writable(k, v) /\ ~Overrides(k, v) /\ NeedsRoom(k, v)
    /\ iv' \in IVs
    /\ \E ps \in SetToSeqs(Prepared) :
        LET w == WriteBack(crypter.key, iv', ps) IN
        Put(w.cipher, w.log, k, KeyOnFile(k), v, w.crypter, w.dic)
    /\ UNCHANGED <<multi, loaded, pc, input, holder, broken>>

\* doOverrideDataWithKey: the stream starts again with the vector it had.
Override(k, v) ==
    /\ Writable(k, v) /\ Overrides(k, v)
    /\ LET e == Encrypt(SizeHolder, Reset(crypter.key, iv)) IN
       Put(e.out, <<>>, k, KeyOnFile(k), v, e.status, dic)
    /\ UNCHANGED <<iv, multi, loaded, pc, input, holder, broken>>

\* clearMemoryCache, with the region c under vector v and the key ck
Clear(c, v, ck) ==
    /\ cipher' = c /\ iv' = v
    /\ loaded' = FALSE /\ actual' = 0
    /\ dic' = [k \in Keys |-> NoHolder]
    /\ crypter' = Reset(ck, v)
    /\ UNCHANGED <<multi, pc, input, holder, broken>>

ClearMemoryCache ==
    /\ pc = "idle" /\ loaded
    /\ Clear(cipher, iv, crypter.key) /\ UNCHANGED log

\* reKey to another key: fullWriteback(newCrypt), which for an empty dictionary
\* is clearAll; then m_crypter is replaced and the cache cleared.
ReKey(ck) ==
    /\ UpToDate /\ ck # crypter.key
    /\ \E newIV \in IVs, ps \in SetToSeqs(Prepared) :
        LET w == IF Present = {} THEN [cipher |-> <<>>, log |-> <<>>]
                 ELSE WriteBack(ck, newIV, ps) IN
        Clear(w.cipher, newIV, ck) /\ log' = w.log

\* Another process appends to the file, with a crypter of its own.
OtherAppends(k, v) ==
    /\ pc = "idle" /\ multi /\ log # <<>>
    /\ Len(text \o Record(k, v)) <= MaxRegion
    /\ log' = Append(log, [key |-> k, val |-> v])
    /\ cipher' = cipher \o
        Encrypt(Record(k, v), CfbMode(text, crypter.key, iv)[Len(text)].status).out
    /\ UNCHANGED <<iv, multi, loaded, actual, crypter, dic, pc, input, holder, broken>>

-----------------------------------------------------------------------------
(* CodedInputDataCrypt.  Each operator takes the reader and returns it.     *)

Size == Len(cipher)
Up(n) == ((n + BlockLen - 1) \div BlockLen) * BlockLen
Check(d, p) == [d EXCEPT !.ok = @ /\ p]
Left(d) == Len(d.buf) - d.bufPos

\* The constructor; the bytes before m_number are never read.
NewReader(c) ==
    [position |-> 0, decPos |-> 0, buf |-> [i \in 1 .. c.number |-> 0], room |-> 2 * BlockLen,
     bufPos |-> c.number, discard |-> c.number, ok |-> TRUE, crypter |-> c]

Seek(d, n) ==
    Check([d EXCEPT !.position = @ + n, !.decPos = @ + n], n % BlockLen = d.crypter.number)

\* How much consumeBytes decrypts when it lacks n bytes: the end of the block
\* begun and then whole blocks, if the region has them.
ToDecrypt(d, n) ==
    LET align == (BlockLen - d.crypter.number) % BlockLen IN
    Least(Size - d.decPos, IF n < align THEN align ELSE align + Up(n - align))

\* How much of the buffer's beginning is given up to make room for length
\* bytes: the whole blocks before the record being read.
\* Seeded fault: the blocks before the reader.
Recycled_ToReader(d, length) ==
    IF d.room - Len(d.buf) < length THEN (d.bufPos \div BlockLen) * BlockLen ELSE 0

Recycled(d, length) ==
    IF d.room - Len(d.buf) < length THEN (d.discard \div BlockLen) * BlockLen ELSE 0

\* realloc
\* Seeded fault: the buffer keeps its size.
Grown_Never(d, length) == d.room

Grown(d, length) == IF d.room - Len(d.buf) < length THEN d.room + length ELSE d.room

ConsumeBytes(d0, n, discardPreData) ==
    LET d == IF discardPreData THEN [d0 EXCEPT !.discard = d0.bufPos] ELSE d0
        length == ToDecrypt(d, n - Left(d))
        back == Recycled(d, length)
        r == IF back = 0 THEN d
             ELSE [d EXCEPT !.buf = SubSeq(@, back + 1, Len(@)), !.bufPos = @ - back, !.discard = 0]
        e == Decrypt(Region(d.decPos, length), d.crypter)
    IN  IF Left(d) >= n THEN d
        ELSE Check([r EXCEPT !.room = Grown(r, length), !.buf = @ \o e.out,
                             !.decPos = @ + length, !.crypter = e.status],
                   d.decPos + length = Size \/ e.status.number = 0)

\* n bytes the buffer holds are taken.
Take(d, n) == [d EXCEPT !.bufPos = @ + n, !.position = @ + n]
ReadRawByte(d) ==
    Check(Take(d, 1), d.position <= d.decPos /\ d.position < Size /\ d.bufPos < d.room)
Peek(d) == d.buf[d.bufPos + 1]

\* Where the reader is in the last stretch skipBytes decrypts, of which spare
\* bytes are not skipped.
LastStretch(size) == IF size % BlockLen = 0 THEN BlockLen ELSE size % BlockLen

\* Seeded fault: as if it were always a whole block.
Skipped_WholeBlock(size, spare) == BlockLen - spare
Skipped(size, spare) == LastStretch(size) - spare

\* skipBytes: what the buffer lacks is decrypted over its beginning, and only
\* the last stretch stays.
SkipBytes(d, n) ==
    LET lacks == n - Left(d)
        size == Least(Up(lacks), Size - d.decPos)
        place == Skipped(size, size - lacks)
        e == Decrypt(Region(d.decPos, size), d.crypter)
    IN  IF lacks <= 0 THEN Take(d, n)
        ELSE Check([d EXCEPT !.position = @ + n,
                             !.buf = SubSeq(e.out, size - LastStretch(size) + 1, size),
                             !.bufPos = place, !.decPos = @ + size, !.crypter = e.status],
                   d.crypter.number = 0 /\ place <= LastStretch(size))

\* statusBeforeDecrypt: back over n bytes read and whatever was read ahead.
CanRollBack(d, n) == d.bufPos >= n
StatusBefore(d, n) ==
    LET back == n + Left(d) IN
    Rollback(Region(d.decPos - back, back), SubSeq(d.buf, Len(d.buf) - back + 1, Len(d.buf)),
             d.crypter)

-----------------------------------------------------------------------------
(* Loading: loadFromFile, partialLoadFromFile, decodeOneMap.  The lock of    *)
(* the file is held throughout, so a full load's tmpDic is dic itself.      *)

\* The loop's head: isAtEnd.
Continue(d) ==
    /\ crypter' = d.crypter
    /\ broken' = (broken \/ ~d.ok)
    /\ pc' = IF d.position = Size THEN "idle" ELSE "key"
    /\ input' = IF d.position = Size THEN NoInput ELSE d

LoadFromFile ==
    /\ pc = "idle" /\ ~loaded
    /\ loaded' = TRUE /\ actual' = Size
    /\ crypter' = Reset(crypter.key, iv)
    /\ pc' = IF Size = 0 THEN "idle" ELSE "holder"
    /\ input' = IF Size = 0 THEN NoInput ELSE NewReader(crypter')
    /\ UNCHANGED <<cipher, iv, multi, dic, holder, broken, log>>

ReadHolder ==
    /\ pc = "holder"
    /\ Continue(ReadRawByte(ConsumeBytes(input, Ahead, FALSE)))
    /\ UNCHANGED <<cipher, iv, multi, loaded, actual, dic, holder, log>>

\* The region has grown since: continue from m_actualSize.
PartialLoadFromFile ==
    /\ pc = "idle" /\ loaded /\ multi /\ 0 < actual /\ actual < Size
    /\ actual' = Size
    /\ Continue(Seek(NewReader(crypter), actual))
    /\ UNCHANGED <<cipher, iv, multi, loaded, dic, holder, log>>

\* A read past the region throws: the load ends with what it has.
Throw ==
    /\ broken' = TRUE /\ pc' = "idle" /\ input' = NoInput /\ holder' = NoHolder
    /\ crypter' = crypter /\ dic' = dic

\* readNSString
ReadKey ==
    /\ pc = "key"
    /\ LET d == ConsumeBytes(input, Ahead, TRUE)
           size == Peek(d)
           after == ConsumeBytes(ReadRawByte(d), size, FALSE)
       IN  IF size <= Size - input.position - 1
           THEN /\ holder' = [offset |-> input.position,
                              key |-> SubSeq(after.buf, after.bufPos + 1, after.bufPos + size)]
                /\ input' = Take(after, size)
                /\ crypter' = after.crypter
                /\ broken' = (broken \/ ~after.ok)
                /\ pc' = "value" /\ dic' = dic
           ELSE Throw
    /\ UNCHANGED <<cipher, iv, multi, loaded, actual, log>>

\* readData: a large value's holder gets the status of its record.  Then the
\* dictionary takes the holder, or drops the key.
ReadValue ==
    /\ pc = "value"
    /\ LET d == ReadRawByte(ConsumeBytes(input, Ahead, FALSE))
           size == d.buf[d.bufPos]
           before == 2 + Len(holder.key)
           got == ConsumeBytes(d, size, FALSE)
           Bind(h) == dic' = [k \in Keys |-> IF KeyText[k] = holder.key THEN h ELSE dic[k]]
       IN  IF size > Size - d.position \/ (isValueStoredAsOffset(size) /\ ~CanRollBack(d, before))
           THEN Throw
           ELSE /\ holder' = NoHolder
                /\ IF isValueStoredAsOffset(size)
                   THEN /\ Bind(Offset(holder.offset, Len(holder.key), size,
                                       StatusBefore(d, before)))
                        /\ Continue(SkipBytes(d, size))
                   ELSE /\ Bind(IF size = 0 THEN NoHolder
                                ELSE Direct(SubSeq(got.buf, got.bufPos + 1, got.bufPos + size)))
                        /\ Continue(Take(got, size))
    /\ UNCHANGED <<cipher, iv, multi, loaded, actual, log>>

-----------------------------------------------------------------------------
Next ==
    \/ \E k \in Keys, v \in Vals :
        AppendData(k, v) \/ AppendWithRoom(k, v) \/ Override(k, v) \/ OtherAppends(k, v)
    \/ \E ck \in CryptKeys : ReKey(ck)
    \/ ClearMemoryCache \/ LoadFromFile \/ PartialLoadFromFile
    \/ ReadHolder \/ ReadKey \/ ReadValue

Spec == Init /\ [][Next]_vars

-----------------------------------------------------------------------------
\* The type invariant; the reader's places are inside its buffer and the
\* region.
TypeOK ==
    /\ cipher \in Seq(Byte) /\ Size <= MaxRegion
    /\ iv \in IVs /\ multi \in BOOLEAN /\ loaded \in BOOLEAN
    /\ actual \in 0 .. Size
    /\ crypter \in Status
    /\ \A k \in Keys :
        \/ dic[k] = NoHolder
        \/ dic[k].type = "direct" /\ dic[k].val \in Seq(Byte)
        \/ /\ dic[k].type = "offset" /\ dic[k].status \in Status
           /\ dic[k].offset + PairSize(dic[k]) <= actual
    /\ pc \in {"idle", "holder", "key", "value"}
    /\ input.bufPos \in 0 .. Len(input.buf) /\ Len(input.buf) <= input.room
    /\ input.position \in 0 .. input.decPos /\ input.decPos <= Size

\* The file always holds the encryption, under the store's key and the file's
\* vector, of its records: no write, compaction or change of key leaves the
\* stream broken at some byte.
RegionIsText == cipher = CfbMode(text, crypter.key, iv)[Len(text)].cipher

\* Between calls the cipher stands exactly where the loaded region ends, in
\* the middle of a block or not, so that the next record continues the stream.
CrypterAtEnd ==
    (pc = "idle" /\ loaded)
        => crypter = CfbMode(SubSeq(text, 1, actual), crypter.key, iv)[actual].status

\* Whatever way a value was stored or loaded, appended, moved, overridden or
\* found by a load that rolled the cipher back, reading it returns what was
\* last written for its key in the region loaded so far.
ValuesReadBack ==
    (pc = "idle" /\ loaded) =>
        Latest(actual) = [k \in Keys |-> IF dic[k] = NoHolder THEN <<>> ELSE ValueOf(dic[k])]

\* While a load runs, the decrypted buffer is the plaintext up to where the
\* cipher is, from the record being read on, and the reader's two positions
\* agree: recycling the buffer, growing it and skipping large values lose
\* nothing that a value or a rollback still needs.
BufferIsPlain ==
    pc # "idle" =>
        LET base == input.decPos - Len(input.buf)
            plain == text
        IN
        /\ base + input.bufPos = input.position
        /\ \A i \in input.discard + 1 .. Len(input.buf) : input.buf[i] = plain[base + i]

\* The reader's asserts hold, its rollback never leaves the buffer, and a load
\* of what the store wrote throws nothing.
AssertsHold == ~broken
=============================================================================
