# KFKV, modelled in TLA+

KFKV is a key-value store for Apple platforms: a dictionary in memory, an
append-only data file mapped with `mmap`, and a `.crc` file (also mapped) that
says how much of the data file is valid.  Several processes may open the same
file.  This directory holds TLA+ models of the parts whose correctness depends
on the order of steps, their TLC instances, and TLAPS proofs.

All modules follow the code for Apple targets (`KFKV_APPLE`, flock locks); the
Android and Windows branches of the sources are not compiled there and are not
modelled.

## 1. The system

| component | state | operations | talks to |
|---|---|---|---|
| `FileLock`, `InterProcessLock` (InterProcessLock.mm/.h) | shared and exclusive counters, a descriptor | lock, try_lock, unlock, destroy | the kernel's flock table, other processes |
| store core (`KFKV_IO.mm`, `KFKV.mm`) | `m_dic` (key -> offset), `m_actualSize`, `m_crcDigest`, `m_output`, `m_hasFullWriteback`, `m_needLoadFromFile` | load, partial load, set, remove, removeValuesForKeys, clearAll, trim, clearMemoryCache, close | MemoryFile, KFKVMetaInfo, MiniPBCoder, the locks |
| `KFKVMetaInfo` | digest, size, sequence, IV, last confirmed (size, digest), flags | write, writeCRCAndActualSizeOnly, read | mapped `.crc` file |
| `MemoryFile` | descriptor, mapping, size | truncate, msync, reload, clearMemoryCache | the kernel |
| `MiniPBCoder`, `CodedInput/OutputData` | a position | decode a region into a dictionary, encode a record | store core |
| expiry (`enableAutoKeyExpire` ...) | a due date behind every value, a flag in the meta, `m_enableKeyExpire` | enable, disable, lazy removal on read, filter on write-back | store core |
| encryption (`AESCrypt`, `CodedInputDataCrypt`, `reKey`) | key, CFB status, IV in the meta, the status a large value's holder keeps | encrypt, decrypt, roll back, reKey | store core |
| `importFrom` | two stores | copy every key | two `m_lock`s |
| instance registry (`KFKV::g_instanceDic`, `KFKVEngine` in libKFKV.mm) | the open stores | kfkvWithID, close, dealloc, removeStorage, onExit | store core, `g_lock`, `g_instanceLock` |
| auto clean-up (libKFKV.mm) | `g_cleanQueue`, a timer | enable, disable, the handler | registry, thread locks |
| backup, restore (KFKV.mm) | files | copy under locks | registry, store core |
| ThreadLock, KFKVBuffer, PBUtility, KFKVLog, KFKVSwift, KFKVAPI | none of their own that matters here | | |
| crc32/zlib, aes/openssl | vendored | | |

Interactions.  Inside a process every operation runs under the recursive mutex
`m_lock`.  In multi-process mode it also takes the process lock on the `.crc`
file (shared for a load, exclusive for a write) and calls `checkLoadData()`,
which compares the meta it last read with the file's and reloads as much as it
must.  A write stores data first, then the digest, then the size.  When there is
no room the file is compacted *in place* (`memmoveDictionary`), possibly after
it was enlarged, and the new region is recorded as "last confirmed" together
with a new sequence number.  An encrypted region is one CFB stream, so a write
continues from the cipher's status after the last byte.  Above the store, an
Objective-C engine is found in one dictionary under `g_lock`, its C++ core in
another under `g_instanceLock`; the engine's dealloc deletes the core.

What is hard: a process can die between any two stores, and the stores survive
in the page cache; an upgrade of the process lock from shared to exclusive gives
the shared lock up on the way; the dictionary is offsets into a file that others
compact, cut and enlarge; the process lock is counted in user space on top of a
kernel lock that knows no counts; `flock()` and `ftruncate()` can fail; the
decrypting reader reads ahead, recycles its buffer and must still find the
cipher's status some bytes back; a due date is told from a value by nothing but
a flag; three mutexes and two dictionaries decide when an instance dies.

What makes each part correct, in one line each:

* lock: two processes never both count an exclusive lock, and counters and kernel
  agree, except inside a process's own upgrade and after the re-take of a failed
  one has failed too (the process then reads without a lock); every lock call
  returns;
* one process: after every operation the files hold exactly the current map; a
  kill inside an operation leaves the old or the new map or the last confirmed
  one, and only a kill inside a rewrite in place can leave a file that fits no
  digest; offsets survive compaction; every operation comes to an end;
* several processes: all operations together are one map, which changes only by
  the operation under way and all at once;
* encryption: the file is always the CFB encryption of its records, and whatever
  way a value was found, it reads back;
* expiry: a value is read until it is due and not from then on, and is lost only
  if its `set()` saw expiry the other way than it is when the value is stored;
* registry: one core per file, a core is deleted when nobody uses it, the
  clean-up takes only what is idle, and threads wait for each other for ever only
  where a call leaves the order of the locks.

`PROJECT.json` lists every hazard at its line, with the property that covers it
or the reason why none does.

## 2. Modules

| module | stands for |
|---|---|
| `RWLock` | what the process lock promises: a readers-writer lock between processes |
| `FileLock` | FileLock/InterProcessLock: counters, nesting, upgrade, failures, kill |
| `FileLockProofs` | theorems about FileLock (TLAPS) |
| `Cells` | what a data file contains, how a region decodes into a dictionary |
| `Sizing` | the arithmetic of growing, compacting, trimming, and the digest check |
| `Store` | one process, its data and meta file, one step per store, killed anywhere |
| `RegionProofs` | lemmas about Cells and Sizing (TLAPS) |
| `StoreProofs` | theorems about Store (TLAPS) |
| `KVMap` | what a shared file promises: one atomic map |
| `SharedStore` | several processes on one file |
| `SharedStoreProofs` | theorems about SharedStore (TLAPS) |
| `TimedMap` | what expiry promises: a map whose entries may carry due dates |
| `Expire` | due dates in values, the flag and the instance, several threads |
| `ExpireProofs` | theorems about Expire (TLAPS) |
| `Cfb` | AES-CFB as the store uses it: encrypt, decrypt, roll back |
| `CfbProofs` | theorems about Cfb (TLAPS) |
| `CryptStore` | the encrypted region: writing, compaction, reKey, the reader |
| `CryptStoreProofs` | theorems about CryptStore (TLAPS) |
| `Registry` | engines, cores, references, three kinds of mutex, the clean-up timer |
| `RegistryProofs` | theorems about Registry (TLAPS) |
| `MCFileLock`, `MCStore`, `MCSharedStore`, `MCExpire`, `MCCrypt`, `MCRegistry` | instances for TLC |

`Store` and `SharedStore` EXTEND `Sizing`, which EXTENDS `Cells`; `CryptStore`
EXTENDS `Cfb`.  `FileLock` INSTANCEs `RWLock`, `SharedStore` INSTANCEs `KVMap`,
`Expire` INSTANCEs `TimedMap`.

### FileLock

`shCount`, `exCount` are `m_sharedLockCount`, `m_exclusiveLockCount`; `flk` is
the kernel's flock table; `pc`, `req` say where `doLock`/`platformLock` is;
`held` counts what the callers believe they have to unlock (`InterProcessLock`
drops the result of `lock()`, so a failed lock is unlocked later all the same).
Every `flock()` call is a step, so other processes act between the upgrade
attempt, the `LOCK_UN` and the blocking `flock()`.  `FlockInterrupted` and
`RecoverInterrupted` are EINTR.  The kernel follows XNU: a failed `LOCK_NB`
conversion keeps the old lock and a downgrade is atomic.

`Access(p)` is what the process's own counters say: nothing, `SH`, `EX`; `up`
between `UnlockFirst` and the end of the call, where a shared lock is counted
that the kernel does not have; `blind` from a failed re-take on (`lost`), where
the same is true and every further `lock(Shared)` nests in the counter without a
`flock()` (InterProcessLock.mm:46-48, 106-120).  `RWLock` has the same modes and
says which of them a process can go to from which (`Then`) and what the others
must not be then (`Admits`): a blind process keeps nobody out, and only its own
failed upgrade makes it blind.

### Cells and Sizing

One cell is 4 bytes: `Fixed32Size`, `ItemSizeHolderSize` and a smallest record
are all one cell, so that every comparison of `ensureMemorySize`,
`expandAndWriteBack`, `checkSizeForOverride`, `checkDataValid` and `trim` is the
code's own, in cells.  A record is a key and a value; `Nil` is the empty value
that removes.  A digest is the content itself: CRC32 is taken to be free of
collisions.  `MaxCap` is the largest file the disk has room for: a `truncate()`
beyond it fails, and any `truncate()` may fail.

### Store

File state: `mem`, `fileSize`, `metaCrc`, `metaSize`, `lastCrc`, `lastSize`.
Memory: `loaded` (`!m_needLoadFromFile`), `off` (`m_dic`), `actual`, `crc`,
`out` (the position of `m_output`), `hasFW`.  `pc`, `op`, `ensures`, `todo`,
`wp`, `inc`, `after` are the program counter of the one operation under way.
`cur`, `target`, `snap`, `kept` are history: the map before the operation, after
it, and at the last confirmed write-back, and whether no rewrite in place has
begun since that one.

| action | code |
|---|---|
| `LoadValid`, `LoadFallback`, `LoadDiscard`, `LoadRecover` | `loadFromFile` for each outcome of `checkDataValid` and each answer in `Strategies` |
| `SetBegin`, `RemoveBegin` | `setDataForKey`, `removeDataForKey` up to the room check, with the choice of override or append |
| `EnsureEnough`, `EnsureWriteBack`, `EnsureFails` | `ensureMemorySize`, `expandAndWriteBack`; called twice when the key bytes come from the file |
| `Move`, `MoveDone` | `memmoveDictionary`, one record a step, then a new random holder and the digest |
| `Put` | `doAppendDataWithKey` |
| `OverrideHolder`, `OverrideRecord` | `doOverrideDataWithKey`: a new random holder, then the record |
| `StoreCrc`, then `WriteBackDone`, `AppendDone`, `FullWriteBackDone`, `ClearDone`, `LoadWritten` | `writeActualSize`: digest, then size (and last confirmed), then what the caller does next |
| `RemoveManyBegin`, `ClearAll`, `Trim`, `Shrink`, `ClearMemoryCache` | as named |
| `Kill` | the process dies inside an operation; the mapped files keep every store |

The whole-struct `memcpy` of `KFKVMetaInfo::write` is two steps, digest and
rest: the loads that could find the size stored and the last confirmed pair not
yet find a valid current pair.  An override keeps the sequence number, so the
last confirmed pair stays in the `.crc` file although the override has just
written over the bytes it describes; `KillIsAtomic` says what that costs.

`OnErrorRecover` decodes a region that fits no digest (`greedyDecodeMap`).  Real
records have different lengths, so what is decoded may begin inside a record or
end in a torn one: `Misread` gives each key no record, or one anywhere in the
region, with any value.  Nothing is claimed of what such a load finds; from the
write-back that follows it on the file has to hold that map like any other.
The write-back is that of the load in `checkLoadData()`, which has reset
`m_needLoadFromFile`; where `loadFromFile()` follows `clearMemoryCache()`, after
another process's change, `fullWriteback()` returns at once (KFKV_IO.mm:1117).

### SharedStore

The same file state once, the same memory per process, plus `mapped` (the size
of the process's mapping) and `current` (its `m_sequence` equals the file's; the
number itself is only ever compared for equality).  A writer owns the exclusive
lock from `Begin` to `Leave` (which `FileLock` shows); loads are one step, since
nothing is written while the shared lock is held, except that a load of an
empty region asks for the exclusive lock and may give the shared lock up
(`Upgrade`, `StoreEmpty`).  `BusError` is a store into a page of the mapping
that the file no longer has.  A kill inside an in-place rewrite sets `torn` and
ends the model; what is found then by one process is in `Store`.

`KVMap` is the abstract map.  An operation begins with the map it is to make
(`Set`, `Remove` set `goal`), and nothing but the operation under way changes the
map: `Finish` turns it into the goal, `Fail` leaves it, `Kill` leaves it or takes
it back to the confirmed one, `Confirm` records it as confirmed; `Tear` ends what
is promised.  The refinement takes the map to change with the store of
`m_actualSize`; while the owner stores the meta it is the map from before.  A
load that empties a file in which another process has just set a key
(finding 1) is no step of `KVMap`.

### Expire

`flag` is `EnableKeyExipre` in the meta file, `enable` is `m_enableKeyExpire`,
`secs` is `m_expiredInSeconds`, `fresh` is `m_hasFullWriteback`, `loaded` is
`!m_needLoadFromFile`.  `dic` is the data of every key in the file, and of those
not in `gone` also in memory: that the two agree otherwise is what `Store` is
about.  A value is a sequence of a short head and words; a due date is one more
word at its end, as in the code, and nothing else marks it, so that `Decodes`
says what a reader can make of a value cut or not cut by a word.  `call` is the
call each thread is in, `answer` what the last call returned.

| action | code |
|---|---|
| `Begin`, `SetSize`, `SetWrite` | `set()` before the lock: it reads `m_expiredInSeconds`, then `m_enableKeyExpire` for the room, then again for the due date (KFKV.mm:459, 466, 470) |
| `SetStore`, `Import`, `Remove` | `setDataForKey`, `importFrom`, `removeDataForKey` under the lock, with the filtering on the way and with no room |
| `Get`, `CountFiltered`, `Trim` | a getter with its lazy removal; `count(true)`, `allKeys(true)`; `trim` |
| `Enable`, `Disable` | `enableAutoKeyExpire`, `disableAutoKeyExpire`, from another thread at any time |
| `Reopen`, `Configure` | a new process; `configAutoExipreIfNeeded` for each setting of `KFKVConfig.enableKeyExpire` |
| `ClearMemoryCache`, `Tick` | as named; the clock, to `MaxTime`, whose sums are modulo `TimeWrap` (2^32) |

Everything under `m_lock` is one step; only `set()` is several, as it encodes the
value before it takes the lock, and each of its looks at the switch is a step.
(The variants for strings and objects look once: two steps with nothing between
them.)  If the two looks differ, the due date finds no room and
`writeRawLittleEndian32` throws, or it has room and is four bytes as `malloc`
left them.  The write-back of `enableAutoKeyExpire` can fail when the file cannot
grow (`WriteBackFails`): `m_enableKeyExpire` is set, the flag is not, the cache is
cleared.  That of `disableAutoKeyExpire` writes less than the file holds and
cannot.  `ensureMemorySize` filters the dictionary before it tries to grow the
file; if that fails the keys are out of memory and still in the file (`gone`).
`assert`s are off, as in a release build.

`TimedMap` is the promise.  An entry is a value with a due date, or `Never`; it
may go once it is due, at any time from then on, and is not read from then on.
Nothing else takes an entry but a removal.  `on` is the switch, `seen` what calls
find it to be.  A set whose looks do not agree with the switch as it is when the
value is stored leaves an entry `Lost`, of which nothing more is promised; so does
no other call.

### Cfb and CryptStore

`Cfb` translates the three loops of `AES_cfb128_encrypt`/`decrypt` and the
backward loop of `Rollback_cfb_decrypt` over blocks of `BlockLen` small bytes;
the block cipher is a parameter, any permutation of the blocks, and so is the
exclusive or of two bytes.  `CfbMode` is the definition of the mode one byte at a
time, against which `CfbProofs` proves the loops and the invariants of
`CryptStore`, checked and proved, say what the store makes of them.

`CryptStore` is the region: `cipher` is what the file holds, `crypter` the
status of `m_crypter`, `dic` the holders of `m_dicCrypt`, in the three forms of
`KeyValueHolderCrypt`.  Writing is `AppendData`, `AppendWithRoom` (through
`doFullWriteBack` and `memmoveDictionary`, with records that touch decrypted as
one section), `Override`, `ReKey`, `ClearMemoryCache`; `OtherAppends` is another
process.  Loading is `LoadFromFile` or `PartialLoadFromFile` and then one step
per field of a record: `ReadHolder`, `ReadKey`, `ReadValue`.  The reader
`input` is `CodedInputDataCrypt` with its buffer: `ConsumeBytes` decrypts ahead
in whole blocks, drops whole blocks before the record being read or reallocates,
`SkipBytes` decrypts over the buffer's beginning, `StatusBefore` rolls back.
`log` is history, the records written; `text`, the plaintext of the region, is
derived from it.

### Registry

An engine (`KFKVEngine`) has a `key`, a `core` (`m_kfkv`) and an `age` (now less
`m_lastAccessTime`); `dic` and `coreDic` are the two `g_instanceDic`s; `held` is
what the application references.  `gLock`, `instLock`, `mLock` are `g_lock`,
`g_instanceLock` and every core's `m_lock`.  User threads get, use, import,
back up, close and drop; the timer's handler scans its queue and enumerates.  A
call that loads the file runs the application's handler under `m_lock`
(KFKV_IO.mm:124, 376, 392), with an mmapID for its argument, and the application
may open that instance from there: `ApplicationHandler` is such a `kfkvWithID`
inside a use, an import or a backup.
The steps are those between two lock operations.  `Engines` and `Cores` bound
how many objects exist at a time.  `CFGetRetainCount() == 1` is `~Held`: that a
strong local of the function itself may raise the count, in a build that is not
optimised, only makes the clean-up never happen.

| action | code |
|---|---|
| `GetCall`, `GetFound`, `GetMissed`, `GetOpen` | `doGetWithID:`, `initWithMMapID:`, `getKFKVWithID` |
| `ApplicationHandler`, `GetReturns` | `kfkvWithID` from `onKFKVContentChange:` or `onKFKVContentLoadSuccessfully:`, and back to the call that was interrupted |
| `DeallocClear`, `CloseCore`, `DeleteCore` | `dealloc`: `clearMemoryCache`, `KFKV::close`, by whoever gave the last reference up |
| `Drop`, `CloseCall`, `Close` | a reference goes out of scope; `-close` |
| `Use`, `UseEnd`; `ImportCall`, `ImportLockSource`; `BackupCall`, `BackupCopy`, `BackupEnd` | who holds which mutex while it works |
| `Enable`, `Disable`, `Fire` | the switch, the timer |
| `CleanUpBegin`, `ScanClosed`, `ScanInUse`, `ScanDrop`, `Enumerate` | `tryAutoCleanUpInstances` |
| `ScanCrash`, `Crash` inside others | a deleted core is used; the model stops |

## 3. Runs

| run | instance | shows |
|---|---|---|
| `file_lock` | 2 processes, 3 nested locks, 3 calls or kills each, 2 interrupted waits, fairness | types, mutual exclusion, counters against the kernel, shared locks kept, refinement of `RWLock`, every lock call returns |
| `store` | 2 keys, 1 value, 2 item-size holders, file of 4 to 8 cells, discard and recover | types, files and memory agree between operations, compaction keeps records, appends fit, what a kill between any two stores leaves, every step leaves less to do |
| `shared_store` | 2 processes, 2 keys, 6 operations, 1 kill | refinement of `KVMap`, no load discards the file |
| `shared_store_load` | 2 processes, 2 keys, 5 operations, 1 kill, 1 load that waits | whoever passed `checkLoadData` reads the file |
| `shared_store_empty` | 2 processes, 6 operations, 1 load that waits | **violated**, finding 1 |
| `shared_store_trim` | 2 processes, 6 operations | **violated**, finding 2 |
| `registry` | 2 ids, 2 user threads, 2 engines, 2 cores | one core per file, which cores can dangle, the clean-up is alone with what it drops, the timer's phase, who can deadlock |
| `registry_cleanup` | 1 id, 1 user thread, fairness | **violated**, finding 3 |
| `crypt` | blocks of 5 bytes of 3 bits, 2 keys, 3 values (one kept in the file), 25 bytes | the stream is never broken, values read back, the reader's buffer and asserts |
| `expire` | 2 keys, 2 values, 1 thread inside `set()`, 1 in the other calls, durations 0 and 1, clock 0 to 1, all opens | types, a loaded instance knows the flag, refinement of `TimedMap` |
| `expire_open` | 1 thread, opens that do not say whether expiry is on | **violated**, finding 4 |
| `expire_count` | 1 thread, opens that switch expiry on | **violated**, finding 5 |

Bounds.  A file of 4 cells doubles once to 8: it holds three records more than
the smallest file, so growing, growing that fails, compaction without growing,
trimming back and running full all happen.  `FutureItems` is 8 in the code; with
1 the reserve is of the same order relative to so small a file.  Two keys
suffice for every relation between a key and "another" key.  `Store` needs no
bound on the number of operations: its state space is finite.  Two holders, of
which each rewrite takes either, make a new one differ from the old or equal it;
with one value a key is there, gone or set again (a second value only renames
what `SpecStoreInv` proves for any); `enableCompareBeforeSet` only leaves sets
out, and the run is without it.  `SharedStore`
bounds the operations (`MaxOps`), because every process's stale dictionary
multiplies the states; six let one process fill the file, the other compact, and
the first come back.  Two processes suffice for `FileLock`'s liveness, where a
third only repeats the wait of the second; its safety is proved for any number.
`CryptStore`'s block of 5 bytes is longer than a size and a key and shorter than
the long value, so that records begin and end at every place of a block, and the
reader skips whole blocks, parts of one, and both; `Ahead` and `Medium` are in
the code's order (`Ahead` less than a block, `Medium` less than the long value).
The region of 25 bytes forces compactions with gaps and without.  `Expire`'s
clock takes one step and due dates are sums modulo 2: a value given at time 0 is
due at 1, one given at 1 gets the date 0 that means never, so a value is read
before it is due, when it is due, and after a wrap; every duration, any clock and
any number of threads is what `ExpireProofs` proves.  One thread inside `set()`
meets all the others, whose calls are single steps under `m_lock`.  `Registry`'s
two ids and two threads give every pair of threads in a call; a second engine on
one core needs two engines.

`FileLock` deadlocks only because calls are bounded, so its deadlock check is
off.  `Registry`'s is off because the system does deadlock (finding 3); what
cannot take part in it is `DeadlocksLeaveLockOrder`.  Everywhere else the
check is on.  Keys, values, processes, ids, threads, engines and cores are
symmetric in the runs that use SYMMETRY, and no liveness run uses it.

Fairness.  `FileLock`'s `FairSpec` is weak fairness of a process's own steps and
of the unlocks that end a scoped lock: a running thread goes on and the kernel
wakes a waiter it can serve.  `Store` needs none: `WorkShrinks` says that an
operation takes a bounded number of steps, whoever schedules them, and nobody has
to be waited for inside one.  `Registry`'s is strong fairness of a thread's steps,
as each may need a mutex: one that is released again and again is given to each
thread that waits; and weak fairness of the clock and the timer.  Kills,
interrupts and new calls are never fair.

Every property has a mutant in `PROJECT.json`: a seeded fault in one action that
the run detects.  The definitions marked "Seeded fault" in the modules are these
and appear in no specification.

## 4. Findings

1. `shared_store_empty`: `loadFromFile` on an empty region takes the exclusive
   process lock on top of the shared one (KFKV_IO.mm:110).  When another reader
   is present, `platformLock` gives the shared lock up first
   (InterProcessLock.mm:99-104).  Another process can set its first key in that
   window; the loader then stores an empty meta (KFKV_IO.mm:119) without looking
   again, and the key is gone although `set` returned true.
2. `shared_store_trim`: KFKV_IO.mm:382-383 says that `trim()` increases the
   sequence number.  It does so only through `fullWriteback()`, which returns
   early after an earlier write-back (KFKV_IO.mm:1114-1116).  Another process
   then keeps a mapping longer than the file.
3. `registry_cleanup`: the clean-up handler drops one engine at a time "to
   prevent from holding g_lock for too long" (libKFKV.mm:931), but it drops it
   while it holds the core's `m_lock`, and dealloc then calls `KFKV::close`,
   which takes `g_instanceLock`.  `backupOneToDirectory` and
   `restoreOneFromDirectory` hold `g_instanceLock` and take `m_lock`.  The two
   wait for each other, `g_lock` is never released, and every later
   `kfkvWithID` waits too.
4. `expire_open`: an open that does not say whether expiry is on leaves
   `m_enableKeyExpire` at false until the first load, although the file's flag
   is on.  A `set` before it stores a value without a due date, and the reads,
   filters and `disableAutoKeyExpire` then take the value's last four bytes for
   one, against their own assertions.
5. `expire_count`: KFKV.h:527 says of `count(true)` "return count of all
   non-expired keys".  It leaves the filtering to `fullWriteback()`, which returns
   at once when nothing was stored since the last write-back (KFKV_IO.mm:1114)
   without looking at any due date.  Time has passed since that write-back, and
   `count(true)` and `allKeys(true)` return keys that a getter no longer finds.

Met on the way, and kept in the models without a run of their own:

* a `set` that has encoded its value while another thread switches expiry loses
  it, too: it is the entry `Lost` of `TimedMap`, and the run `expire` shows that
  no other call makes one;
* after an upgrade and then the re-take of the shared lock were both interrupted,
  a process has `m_sharedLockCount > 0` without a kernel lock, and further shared
  locks are granted at once (`blind` in `RWLock`);
* an application's handler that opens an instance takes `g_lock` under `m_lock`,
  against a dealloc or a clean-up that owns `g_lock` and waits for that `m_lock`
  (`DeadlocksLeaveLockOrder` names it);
* due dates are `uint32_t` sums and wrap: a long enough duration is over at once;
* `disableAutoKeyExpire` revives keys that have expired and not been filtered;
* `importFrom` takes two `m_lock`s in the order of the call: two imports the
  opposite ways wait for each other (`DeadlocksLeaveLockOrder` names it);
* closing an id and opening it again while the first engine is still referenced
  gives the new engine the same core (KFKV.mm:228), which the first one's
  dealloc deletes (`OnlySharedCoresDangle` shows there is no other way).

## 5. Proofs

`FileLockProofs` proves, for any set of processes and any bounds:

* `TypeCorrect`, `FLInvHolds`: the type invariant, and an inductive invariant
  that ties each process's counters, pending request and program counter to its
  kernel lock and says that kernel locks are compatible.  Mutual exclusion is not
  inductive by itself: after `LOCK_UN` the counters still show a shared lock the
  kernel no longer has, so the invariant must say exactly when they may differ.
* `FileLockExcludes`, `CountersAgree`: the two safety invariants of `file_lock`.
  Both name their exceptions, a process in its own upgrade and one whose re-take
  failed, and say of these what holds all the same: they own nothing in the kernel.
* `SharedLockKept`: the action property of `file_lock`.
* `FileLockImplementsRWLock`: every step of FileLock is a step of `RWLock` or a
  stutter under the mapping `Access`, which is the counters' own view, the blind
  process included.

`RegionProofs` holds what the store proofs need to know of the data: which record
of a region is the last one of its key (from the least-element principle on the
naturals), what an append, a cut and an exact packing do to the dictionary and to
the digest, that the digest determines the map, that growing and trimming keep
the region, what a load that continues behind a known region decodes, and, by the
ranks of the records' offsets, what a compaction done as one step leaves.

`StoreProofs` proves, for any finite set of keys, any values, any file size, any
reserve and both strategies (from `CellsAssumption`, `SizingAssumption`,
`StoreAssumption`):

* `SpecStoreInv`: the inductive invariant.  `DurableWhenIdle` and `ReadsCurrent`
  say nothing about the inside of an operation, so `StoreInv` says for every
  phase what holds there.  `Quiet`: memory, file and meta agree on the current
  map.  `Moving`: in front of `wp` lie the moved records and only they, every
  record left to move lies behind and still has its value, and the records yet to
  come fit what was reserved.  `Storing`: the region in memory is the one wanted,
  whether or not the meta has it yet.  The order of the offsets is what makes
  `Moving` inductive: two records never share an offset, since a cell has one key.
* `SpecTypeOK`, `SpecDurableWhenIdle`, `SpecReadsCurrent`, `SpecAppendIsSafe`,
  `SpecMoveKeepsRecords`, `SpecPutFits`, `SpecSecondEnsureIsIdle`: the properties
  of `store`, each from `StoreInv`.  `AppendIsSafe` covers an append until the
  first store into the meta, with its record already in the file.
* `SpecWorkShrinks`: the number of steps an operation still has to take falls with
  every step.
* `SpecKillIsAtomic`: `Known` adds to `StoreInv` which map each digest in the
  `.crc` file stands for, through every interleaving of the stores of digest, size
  and last confirmed pair, and `Kept` which of the two regions a rewrite in place
  has begun to change.  It holds for both strategies and any holders: what a kill
  leaves is one of the three maps, or a file that fits no digest, and that only
  after a rewrite in place has begun.

`SharedStoreProofs` proves, for any processes, keys (finite), values, file size
and bounds (from `CellsAssumption`, `SizingAssumption`, `SharedAssumption`):

* `SpecSharedInv`: the inductive invariant.  `InSyncReadsFile` says nothing of an
  operation under way and nothing of a process that is behind, yet such a process
  decodes only the tail it lacks and goes on with its digest.  So `SharedInv` says
  of every process that its memory is a region as once loaded (`Own`: digest,
  dictionary and write position belong together), of the file that it holds the
  region last confirmed (`LastHeld`) and the one its meta describes (`MetaWhole`),
  or, after a kill between the two stores of an append, a digest one cell longer
  than the size (`MetaHalf`), and of the owner how its region and the file's agree
  before, during and after an append or a rewrite (`Quiet`, `Pending`,
  `JustAppended`, `Rewritten`).
* `SpecTypeOK`, `SpecInSyncReadsFile`, `SpecNothingIsDiscarded`: the invariants of
  the two `shared_` runs that pass.
* `SharedImplementsKVMap`: every step is a step of `KVMap` or a stutter, provided
  that `StoreEmpty` only empties a file whose map is empty (`OnlyEmptyIsDiscarded`).
  The hypothesis is needed: emptying a file that holds a key belongs to no
  operation, so finding 1 is not a step of `KVMap`, and TLC finds the refinement
  itself violated where a load may wait.  `UnwaitedImplementsKVMap` has no
  hypothesis: it is the instance the run checks, in which no load waits for the
  exclusive lock (`MaxWaits = 0`).

`ExpireProofs` proves, for any keys, values that are no beginnings of one another,
threads, durations, opens and clock (from `ValsAssumption`, `NoneAssumption`,
`TimeAssumption`, `InputsAssumption`), with no hypothesis about when expiry is
switched, how a file is opened or whether a write-back succeeds:

* `SpecExpireInv`: the inductive invariant.  `LoadedKnowsFlag` is its core: the
  failed write-back of `enableAutoKeyExpire` leaves instance and flag apart, but
  clears the cache, so that the next operation under the lock takes the flag
  again.  Around it, no data is empty, what memory has lost is overdue, and every
  call carries a key, a value and a word.
* `SpecExpireTypeOK`, `SpecLoadedKnowsFlag`: the two invariants of `expire`.
* `ExpireImplementsTimedMap`: the refinement.  It rests on the lemmas about data:
  that a value is never another value and a word, what a buffer cut by a word too
  many decodes to, and that filtering takes only entries that are over or lost.

`CfbProofs` proves, for any block length, any bytes, any cipher that is a
permutation of the blocks and any exclusive or that undoes itself (from
`BlockAssumption`, `XorAssumption`, `AesAssumption`):

* `EncryptIs`, `DecryptIs`, `RollbackIs`: the three block-wise loops against the
  same closed form of a stream.  `IsCfb` says byte for byte that `c` encrypts `t`;
  `StatusAt(c, key, iv, n)` is the status after n bytes, in the middle of a block
  or not.  Encrypting from the status of the end continues the stream and gives
  the status of the new end; decrypting any piece from the status of its beginning
  gives that piece of the text and the status of its end; rolling back from the
  status of its end gives the status of its beginning.
* `CfbModeIs`: the closed form is what the byte-by-byte definition computes.
* `EncryptFollowsMode`: so encrypting a text from a reset status in one call is
  the mode, and decrypting it gives the text back.

The loops are recursive functions of the number of blocks done; what they compute
is shown to exist (`Recursion`) and then read off block by block from the least
counterexample (`UpTo`), so no induction over data is needed.

`CryptStoreProofs` proves, for any finite set of keys, any key texts and values of
a byte's length, any block, read-ahead, medium size, file size, keys and vectors
(from `CryptAssumption` and those of `Cfb`):

* `SpecCryptInv`: the inductive invariant.  `ValuesReadBack` says nothing of the
  status in a holder until it is read, nor of a load under way, so `CryptInv` ties
  everything to the log: the region encrypts the log's text (`Store`); the
  dictionary is the one a writer of the first m records would have, so every
  holder in the file has its record's own status (`Held`); between calls
  `m_crypter` is the status of the end of what is loaded (`AtRest`).  During a load
  (`Loading`) the reader's buffer is the text up to where its cipher is, but for
  fewer than a block of bytes at its beginning, and the cipher stands between
  blocks unless all is read.  Between a key and its value (`AtValue`) the bytes of
  the record read so far are still behind the reader and ahead of `discard`: that
  is why the rollback to the record's beginning stays inside the buffer.
* `SpecTypeOK`, `SpecRegionIsText`, `SpecCrypterAtEnd`, `SpecValuesReadBack`,
  `SpecBufferIsPlain`, `SpecAssertsHold`: the six invariants of the run on
  `CryptStore`, each from `CryptInv`.
* `WriteBackIs`: a rewrite, section by section, gives a region, holders and a
  cipher for which the invariant holds again, under any new key and vector and any
  order of the values in memory.  That it fits the file is `RewriteFits`: each
  byte it writes comes from a byte of its own of the old region.

`RegistryProofs` proves, for any number of ids (finite), threads, engines and
cores and any idle time:

* `SpecRegistryInv`: the inductive invariant.  `OneCorePerFile` needs to know
  that an engine's core is the dictionary's core of its key (`CoreOfKey`), that
  whoever is about to delete a core still points to a live one, which only the
  owner of `g_instanceLock` can change (`DeletedIsLive`, `Owners`), and that an
  engine on its way to `dealloc` is named by nobody else (`DyingApart`).
* `SpecRegistryTypeOK`, `SpecOneCorePerFile`, `SpecOnlySharedCoresDangle`,
  `SpecCleanUpIsAlone`, `SpecFastOnlyWithWork`, `SpecDeadlocksLeaveLockOrder`:
  the six invariants of `registry`.  The last one is the order of the locks:
  without the clean-up, imports and an application's handler the owner of an
  `m_lock` never waits, so the owner of `g_instanceLock` does not wait for ever,
  and then neither does the owner of `g_lock`.

Not proved, only checked: `CallsReturn`, which needs fairness and ENABLED.

## 6. Not modelled

* Power loss: page cache, disk and `msync`.  A kill leaves the page cache, which
  is what `Store` models; the source says nothing of what a power loss leaves.
* An exception thrown in the middle of a write (`CodedOutputData` full):
  `PutFits` shows the room was checked.
* Live processes after another was killed inside an in-place rewrite
  (`SharedStore` stops there); several processes on an expiring file, with the
  window in which a lazy removal meets another process's renewal, or on a re-keyed
  one beyond the appends of `OtherAppends`.
* What `OnErrorRecover` reads out of a region that fits no digest (`Misread`).
* `reKey` to and from plain text, and a kill inside an encrypted rewrite: the
  rewriting is `Store`'s, the encryption `CryptStore`'s, and no model has both.
* Files written by earlier releases (the old-style header), `isFileValid`.
* What a backup copies and what a restore does to other processes; only their
  locks are modelled.  What an application does in its handler besides opening an
  instance; a handler called by an open itself (`enableAutoKeyExpire` in the
  constructor, under `g_lock` and `g_instanceLock`).  `removeStorage`,
  `initialize`, `onExit`, `onAppTerminate`, and the check whether the application
  is in the background.
* `compareBeforeSet`, `removeValuesForKeys` and `clearAll` on an expiring file,
  `getExpireTimeForKey`; archived Objective-C values cut by a word, of which
  `Decodes` says nothing; that `importFrom` also counts what it could not
  store.
* Typed values and varints (a size takes one byte), CRC32 collisions, the block
  cipher and checksum code (vendored), logging, the Swift and Objective-C
  wrappers (they forward), directory walking, build scripts.
