------------------------------ MODULE Registry ------------------------------
(***************************************************************************)
(* The open instances of one process, and who destroys them.               *)
(*                                                                         *)
(* An instance is two objects: a KFKVEngine (libKFKV.mm), found in the     *)
(* Objective-C g_instanceDic under g_lock and counted by its references,   *)
(* and a kfkv::KFKV (here: core), found in the C++ g_instanceDic under     *)
(* g_instanceLock, which dealloc of the engine deletes.  Every core has a  *)
(* recursive m_lock.  The clean-up timer's handler drops engines that were *)
(* not asked for lately and that nobody references.                        *)
(*                                                                         *)
(* User threads and the handler interleave between lock operations.  Time  *)
(* is the age of an engine, counted up to MaxIdle; an idle time of zero    *)
(* stands for the clean-up switched off (g_maxIdleMS = 0).                 *)
(***************************************************************************)
EXTENDS Naturals, Sequences, FiniteSets

CONSTANTS Ids,      \* the mmap keys
          Users,    \* the application's threads
          Engines,  \* bound: KFKVEngine objects that exist at a time
          Cores,    \* bound: core objects that exist, or are still pointed to
          Handler,  \* the dispatch queue's thread that runs the timer handler
          None,     \* nil, nullptr, an unlocked mutex
          MaxIdle   \* g_maxIdleMS when the clean-up is on, in ticks

Threads == Users \cup {Handler}

ASSUME ThreadsAssumption == Handler \notin Users
ASSUME NoneAssumption ==
    None \notin Ids \cup Engines \cup Cores \cup Threads
ASSUME IdsAssumption == IsFiniteSet(Ids)
ASSUME IdleAssumption == MaxIdle \in Nat \ {0}

VARIABLES dic,       \* Objective-C g_instanceDic: the engine of an id
          coreDic,   \* C++ g_instanceDic: the core of an id
          live,      \* the cores not deleted
          key,       \* m_mmapKey of an engine (and of its core); None: no such engine
          core,      \* m_kfkv of an engine
          age,       \* now - m_lastAccessTime of an engine
          held,      \* the engines a user thread has a reference to
          gLock, instLock, mLock,       \* who owns each mutex
          pc, id, eng,                  \* of each thread: the call it is in
          maxIdle, period, queue, wasCleaning,  \* the clean-up's globals
          shared,    \* history: cores handed to a second engine
          crashed    \* a deleted core was used

dicVars == <<dic, coreDic, live, key, core, shared>>
lockVars == <<gLock, instLock, mLock>>
callVars == <<pc, id, eng>>
timerVars == <<maxIdle, period, queue, wasCleaning>>
vars == <<dicVars, age, held, lockVars, callVars, timerVars, crashed>>

Init ==
    /\ dic = [i \in Ids |-> None]
    /\ coreDic = [i \in Ids |-> None]
    /\ live = {}
    /\ key = [e \in Engines |-> None]
    /\ core = [e \in Engines |-> None]
    /\ age = [e \in Engines |-> 0]
    /\ held = [u \in Users |-> {}]
    /\ gLock = None
    /\ instLock = None
    /\ mLock = [c \in Cores |-> None]
    /\ pc = [t \in Threads |-> "idle"]
    /\ id = [t \in Threads |-> None]
    /\ eng = [t \in Threads |-> None]
    /\ maxIdle = 0
    /\ period = "off"
    /\ queue = <<>>
    /\ wasCleaning = FALSE
    /\ shared = {}
    /\ crashed = FALSE

Goto(t, l) == pc' = [pc EXCEPT ![t] = l] /\ UNCHANGED <<id, eng>>

Return(t) ==
    /\ pc' = [pc EXCEPT ![t] = "idle"]
    /\ id' = [id EXCEPT ![t] = None]
    /\ eng' = [eng EXCEPT ![t] = None]

Call(t, l, i, e) ==
    /\ pc[t] = "idle"
    /\ pc' = [pc EXCEPT ![t] = l]
    /\ id' = [id EXCEPT ![t] = i]
    /\ eng' = [eng EXCEPT ![t] = e]

\* Another reference than the dictionary's: CFGetRetainCount() > 1.
Held(e) == \E u \in Users : e \in held[u]
Idle(e) == age[e] >= maxIdle /\ ~Held(e)

\* A recursive mutex can be taken by its owner again.
Available(t, c) == mLock[c] \in {None, t}

\* t follows a pointer to a core that was deleted.
Crash(t, e) ==
    /\ core[e] \notin live
    /\ crashed' = TRUE
    /\ UNCHANGED <<dicVars, age, held, lockVars, callVars, timerVars>>

-----------------------------------------------------------------------------
(* +[KFKVEngine doGetWithID:] *)
GetCall(u, i) ==
    /\ Call(u, "get", i, None)
    /\ UNCHANGED <<dicVars, age, held, lockVars, timerVars, crashed>>

\* KFKVHandler's onKFKVContentLoadSuccessfully: and onKFKVContentChange: run on
\* the thread that loads a file (checkLoadData, loadFromFile), under its m_lock,
\* and in restoreOneFromDirectory under g_instanceLock too.  The application is
\* given an mmapID there and may open any instance; what it does with it then
\* is not followed.
ApplicationHandler(u, i) ==
    /\ \/ /\ pc[u] \in {"use", "import both"}
          /\ pc' = [pc EXCEPT ![u] = "use get"]
       \/ /\ pc[u] = "copy"
          /\ \E c \in Cores : mLock[c] = u
          /\ pc' = [pc EXCEPT ![u] = "copy get"]
    /\ id' = [id EXCEPT ![u] = i]
    /\ UNCHANGED <<eng, dicVars, age, held, lockVars, timerVars, crashed>>

\* Back to the application, or to the call that called its handler.
GetReturns(u) ==
    \/ pc[u] \in {"get", "open"} /\ Return(u)
    \/ pc[u] \in {"use get", "use open"} /\ Goto(u, "use")
    \/ pc[u] \in {"copy get", "copy open"} /\ Goto(u, "copy")

GetFound(u) ==
    LET e == dic[id[u]] IN
    /\ pc[u] \in {"get", "use get", "copy get"}
    /\ gLock = None
    /\ e # None
    /\ held' = [held EXCEPT ![u] = @ \cup {e}]
    /\ age' = [age EXCEPT ![e] = 0]
    /\ GetReturns(u)
    /\ UNCHANGED <<dicVars, lockVars, timerVars, crashed>>

Unused(c) == c \notin live /\ \A e \in Engines : core[e] # c

\* The bounds Engines and Cores.
Room == (\E e \in Engines : key[e] = None) /\ (\E c \in Cores : Unused(c))

GetMissed(u) ==
    /\ pc[u] \in {"get", "use get", "copy get"}
    /\ gLock = None
    /\ dic[id[u]] = None
    /\ Room
    /\ gLock' = u
    /\ \/ pc[u] = "get" /\ Goto(u, "open")
       \/ pc[u] = "use get" /\ Goto(u, "use open")
       \/ pc[u] = "copy get" /\ Goto(u, "copy open")
    /\ UNCHANGED <<dicVars, age, held, instLock, mLock, timerVars, crashed>>

\* initWithMMapID:, getKFKVWithID: the core in the C++ dictionary, or a new one.
\* Seeded fault: the C++ dictionary is not searched.
CoreFor_New(i, c) == Unused(c)

CoreFor(i, c) == IF coreDic[i] # None THEN c = coreDic[i] ELSE Unused(c)

GetOpen(u) ==
    /\ pc[u] \in {"open", "use open", "copy open"}
    /\ instLock \in {None, u}
    /\ \E e \in Engines, c \in Cores :
         /\ key[e] = None
         /\ CoreFor(id[u], c)
         /\ shared' = IF c \in live THEN shared \cup {c} ELSE shared
         /\ live' = IF coreDic[id[u]] = None THEN live \cup {c} ELSE live
         /\ coreDic' = [coreDic EXCEPT ![id[u]] = c]
         /\ key' = [key EXCEPT ![e] = id[u]]
         /\ core' = [core EXCEPT ![e] = c]
         /\ dic' = [dic EXCEPT ![id[u]] = e]
         /\ held' = [held EXCEPT ![u] = @ \cup {e}]
         /\ age' = [age EXCEPT ![e] = 0]
    /\ gLock' = None
    /\ GetReturns(u)
    /\ UNCHANGED <<instLock, mLock, timerVars, crashed>>

-----------------------------------------------------------------------------
(* -[KFKVEngine dealloc], run by whoever gave the last reference up: *)
(* clearMemoryCache under m_lock, then KFKV::close.                   *)
\* Seeded fault: the m_lock clearMemoryCache took is kept for close.
DeallocClear_KeepsLock(t) ==
    LET c == core[eng[t]] IN
    /\ pc[t] = "dealloc"
    /\ \/ /\ c \in live
          /\ Available(t, c)
          /\ mLock' = [mLock EXCEPT ![c] = t]
          /\ Goto(t, "close core")
          /\ UNCHANGED <<dicVars, age, held, gLock, instLock, timerVars, crashed>>
       \/ Crash(t, eng[t])

DeallocClear(t) ==
    LET c == core[eng[t]] IN
    /\ pc[t] = "dealloc"
    /\ \/ /\ c \in live
          /\ Available(t, c)
          /\ Goto(t, "close core")
          /\ UNCHANGED <<dicVars, age, held, lockVars, timerVars, crashed>>
       \/ Crash(t, eng[t])

\* KFKV::close takes g_instanceLock, then m_lock.
CloseCore(t) ==
    /\ pc[t] = "close core"
    /\ \/ /\ core[eng[t]] \in live
          /\ instLock = None
          /\ instLock' = t
          /\ Goto(t, "delete core")
          /\ UNCHANGED <<dicVars, age, held, gLock, mLock, timerVars, crashed>>
       \/ Crash(t, eng[t])

\* Seeded fault: close() deletes the core and leaves its entry.
Erased_Kept(e) == coreDic

Erased(e) == [coreDic EXCEPT ![key[e]] = None]

\* The caller of the release goes on.  The handler returns, unless that was
\* the last entry: then it looks for new ones.
DeleteCore(t) ==
    LET e == eng[t]
        c == core[e] IN
    /\ pc[t] = "delete core"
    /\ Available(t, c)
    /\ live' = live \ {c}
    /\ coreDic' = Erased(e)
    /\ key' = [key EXCEPT ![e] = None]
    /\ core' = [core EXCEPT ![e] = None]
    /\ mLock' = [mLock EXCEPT ![c] = None]
    /\ instLock' = None
    /\ age' = [age EXCEPT ![e] = 0]
    /\ shared' = IF \E f \in Engines \ {e} : core[f] = c THEN shared ELSE shared \ {c}
    /\ IF t = Handler /\ queue = <<>>
       THEN Goto(t, "enumerate") /\ UNCHANGED <<gLock, wasCleaning>>
       ELSE /\ Return(t)
            /\ gLock' = IF gLock = t THEN None ELSE gLock
            /\ wasCleaning' = IF t = Handler THEN FALSE ELSE wasCleaning
    /\ UNCHANGED <<dic, held, maxIdle, period, queue, crashed>>

-----------------------------------------------------------------------------
(* A reference goes out of scope; the last one deallocates. *)
Drop(u, e) ==
    /\ e \in held[u]
    /\ held' = [held EXCEPT ![u] = @ \ {e}]
    /\ IF dic[key[e]] = e \/ \E v \in Users \ {u} : e \in held[v]
       THEN pc[u] = "idle" /\ UNCHANGED callVars
       ELSE Call(u, "dealloc", None, e)
    /\ UNCHANGED <<dicVars, age, lockVars, timerVars, crashed>>

(* -[KFKVEngine close]: whatever engine the dictionary has under this      *)
(* key loses the dictionary's reference.                                   *)
CloseCall(u, e) ==
    /\ e \in held[u]
    /\ Call(u, "close", key[e], e)
    /\ UNCHANGED <<dicVars, age, held, lockVars, timerVars, crashed>>

Close(u) ==
    LET f == dic[id[u]] IN
    /\ pc[u] = "close"
    /\ gLock = None
    /\ dic' = [dic EXCEPT ![id[u]] = None]
    /\ IF f = None \/ Held(f)
       THEN Return(u) /\ UNCHANGED gLock
       ELSE /\ gLock' = u
            /\ pc' = [pc EXCEPT ![u] = "dealloc"]
            /\ eng' = [eng EXCEPT ![u] = f]
            /\ UNCHANGED id
    /\ UNCHANGED <<coreDic, live, key, core, shared, age, held, instLock, mLock,
                   timerVars, crashed>>

(* Any getter or setter: the core works under its m_lock. *)
Use(u, e) ==
    /\ e \in held[u]
    /\ pc[u] = "idle"
    /\ \/ /\ core[e] \in live
          /\ mLock[core[e]] = None
          /\ mLock' = [mLock EXCEPT ![core[e]] = u]
          /\ Call(u, "use", None, e)
          /\ UNCHANGED <<dicVars, age, held, gLock, instLock, timerVars, crashed>>
       \/ Crash(u, e)

UnlockCores(t) == mLock' = [c \in Cores |-> IF mLock[c] = t THEN None ELSE mLock[c]]

UseEnd(u) ==
    /\ pc[u] \in {"use", "import both"}
    /\ UnlockCores(u)
    /\ Return(u)
    /\ UNCHANGED <<dicVars, age, held, gLock, instLock, timerVars, crashed>>

(* importFrom: the destination's m_lock, then the source's. *)
ImportCall(u, dst, src) ==
    /\ {dst, src} \subseteq held[u]
    /\ dst # src
    /\ {core[dst], core[src]} \subseteq live
    /\ mLock[core[dst]] = None
    /\ mLock' = [mLock EXCEPT ![core[dst]] = u]
    /\ Call(u, "import", None, src)
    /\ UNCHANGED <<dicVars, age, held, gLock, instLock, timerVars, crashed>>

ImportLockSource(u) ==
    LET c == core[eng[u]] IN
    /\ pc[u] = "import"
    /\ \/ /\ c \in live
          /\ Available(u, c)
          /\ mLock' = [mLock EXCEPT ![c] = u]
          /\ Goto(u, "import both")
          /\ UNCHANGED <<dicVars, age, held, gLock, instLock, timerVars, crashed>>
       \/ Crash(u, eng[u])

(* backupOneToDirectory, restoreOneFromDirectory: g_instanceLock, then the *)
(* m_lock of the core in the dictionary, if there is one.                  *)
BackupCall(u, i) ==
    /\ Call(u, "backup", i, None)
    /\ instLock = None
    /\ instLock' = u
    /\ UNCHANGED <<dicVars, age, held, gLock, mLock, timerVars, crashed>>

BackupCopy(u) ==
    LET c == coreDic[id[u]] IN
    /\ pc[u] = "backup"
    /\ c # None => mLock[c] = None
    /\ mLock' = IF c = None THEN mLock ELSE [mLock EXCEPT ![c] = u]
    /\ Goto(u, "copy")
    /\ UNCHANGED <<dicVars, age, held, gLock, instLock, timerVars, crashed>>

BackupEnd(u) ==
    /\ pc[u] = "copy"
    /\ UnlockCores(u)
    /\ instLock' = None
    /\ Return(u)
    /\ UNCHANGED <<dicVars, age, held, gLock, timerVars, crashed>>

-----------------------------------------------------------------------------
(* +enableAutoCleanUp:, +disableAutoCleanUp.  The queue is left alone. *)
\* Seeded fault: minutes are converted twice.
Enable_Twice ==
    /\ gLock = None
    /\ maxIdle' = MaxIdle * 60
    /\ period' = "slow"
    /\ UNCHANGED <<queue, wasCleaning, dicVars, age, held, lockVars, callVars, crashed>>

Enable ==
    /\ gLock = None
    /\ maxIdle' = MaxIdle
    /\ period' = "slow"
    /\ UNCHANGED <<queue, wasCleaning, dicVars, age, held, lockVars, callVars, crashed>>

Disable ==
    /\ gLock = None
    /\ maxIdle' = 0
    /\ period' = "off"
    /\ UNCHANGED <<queue, wasCleaning, dicVars, age, held, lockVars, callVars, crashed>>

(* tryAutoCleanUpInstances: the timer's handler, once it has g_lock. *)
Fire ==
    /\ period # "off"
    /\ Call(Handler, "fire", None, None)
    /\ UNCHANGED <<dicVars, age, held, lockVars, timerVars, crashed>>

CleanUpBegin ==
    /\ pc[Handler] = "fire"
    /\ gLock = None
    /\ gLock' = Handler
    /\ wasCleaning' = (queue # <<>>)
    /\ Goto(Handler, IF queue = <<>> THEN "enumerate" ELSE "scan")
    /\ UNCHANGED <<dicVars, age, held, instLock, mLock, maxIdle, period, queue, crashed>>

\* Pop an entry and go on with the next one, or with the enumeration.
SkipTop ==
    /\ queue' = Tail(queue)
    /\ Goto(Handler, IF Len(queue) = 1 THEN "enumerate" ELSE "scan")
    /\ UNCHANGED <<dicVars, age, held, lockVars, maxIdle, period, wasCleaning, crashed>>

\* "someone else has closed it"
ScanClosed ==
    /\ pc[Handler] = "scan"
    /\ dic[Head(queue)] = None
    /\ SkipTop

\* try_lock_thread failed, or "it must have been access by someone"
ScanInUse ==
    LET e == dic[Head(queue)] IN
    /\ pc[Handler] = "scan"
    /\ e # None
    /\ core[e] \in live
    /\ mLock[core[e]] # None \/ ~Idle(e)
    /\ SkipTop

\* Seeded fault: the time is not looked at again.
ScanIdle_Stale(e) == ~Held(e)

ScanIdle(e) == Idle(e)

\* "clean one at a time, prevent from holding g_lock for too long": the
\* engine loses its only reference while the handler owns the core's m_lock.
ScanDrop ==
    LET i == Head(queue)
        e == dic[i] IN
    /\ pc[Handler] = "scan"
    /\ e # None
    /\ core[e] \in live
    /\ mLock[core[e]] = None
    /\ ScanIdle(e)
    /\ mLock' = [mLock EXCEPT ![core[e]] = Handler]
    /\ dic' = [dic EXCEPT ![i] = None]
    /\ queue' = Tail(queue)
    /\ pc' = [pc EXCEPT ![Handler] = "dealloc"]
    /\ eng' = [eng EXCEPT ![Handler] = e]
    /\ UNCHANGED <<id, coreDic, live, key, core, shared, age, held, gLock, instLock,
                   maxIdle, period, wasCleaning, crashed>>

ScanCrash ==
    /\ pc[Handler] = "scan"
    /\ dic[Head(queue)] # None
    /\ Crash(Handler, dic[Head(queue)])

\* AutoCleanInfo's order: the entry not accessed for the longest time first.
OldestFirst(q) ==
    \A m, n \in DOMAIN q : m < n => q[m] # q[n] /\ age[dic[q[m]]] >= age[dic[q[n]]]

\* The two phases: every few seconds while something is queued.
\* Seeded fault: the phase is not left.
NewPeriod_Stays(q) ==
    IF period = "off" THEN "off" ELSE IF ~wasCleaning /\ q # <<>> THEN "fast" ELSE period

NewPeriod(q) ==
    IF period = "off" THEN "off"
    ELSE IF ~wasCleaning /\ q # <<>> THEN "fast"
    ELSE IF wasCleaning /\ q = <<>> THEN "slow"
    ELSE period

Enumerate ==
    LET found == {i \in Ids : dic[i] # None /\ Idle(dic[i])} IN
    /\ pc[Handler] = "enumerate"
    /\ \E q \in [1 .. Cardinality(found) -> found] :
         /\ OldestFirst(q)
         /\ queue' = q
         /\ period' = NewPeriod(q)
    /\ gLock' = None
    /\ wasCleaning' = FALSE
    /\ Return(Handler)
    /\ UNCHANGED <<dicVars, age, held, instLock, mLock, maxIdle, crashed>>

\* Time passes for every engine.
Tick ==
    /\ \E e \in Engines : key[e] # None /\ age[e] < MaxIdle
    /\ age' = [e \in Engines |->
                 IF key[e] # None /\ age[e] < MaxIdle THEN age[e] + 1 ELSE age[e]]
    /\ UNCHANGED <<dicVars, held, lockVars, callVars, timerVars, crashed>>

-----------------------------------------------------------------------------
\* A call under way goes on.
Step(u) ==
    \/ GetFound(u) \/ GetMissed(u) \/ GetOpen(u)
    \/ Close(u)
    \/ UseEnd(u)
    \/ ImportLockSource(u)
    \/ BackupCopy(u) \/ BackupEnd(u)

Dealloc(t) == DeallocClear(t) \/ CloseCore(t) \/ DeleteCore(t)

HandlerStep ==
    \/ CleanUpBegin
    \/ ScanClosed \/ ScanInUse \/ ScanDrop \/ ScanCrash
    \/ Enumerate

NewCall(u) ==
    \/ \E i \in Ids : GetCall(u, i) \/ BackupCall(u, i) \/ ApplicationHandler(u, i)
    \/ \E e \in Engines : Drop(u, e) \/ CloseCall(u, e) \/ Use(u, e)
    \/ \E dst, src \in Engines : ImportCall(u, dst, src)

Next ==
    /\ ~crashed
    /\ \/ \E u \in Users : NewCall(u) \/ Step(u)
       \/ \E t \in Threads : Dealloc(t)
       \/ HandlerStep
       \/ Enable \/ Disable \/ Fire \/ Tick

Spec == Init /\ [][Next]_vars

\* Threads run, a mutex that is released again and again is given to each
\* thread that waits for it, time passes and the timer fires.
FairSpec ==
    /\ Spec
    /\ \A u \in Users : SF_vars(~crashed /\ (Step(u) \/ Dealloc(u)))
    /\ SF_vars(~crashed /\ (HandlerStep \/ Dealloc(Handler)))
    /\ WF_vars(~crashed /\ Fire)
    /\ WF_vars(~crashed /\ Tick)

-----------------------------------------------------------------------------
\* Where a call can be.
Labels ==
    {"idle", "get", "open", "close", "use", "import", "import both", "backup", "copy",
     "use get", "use open", "copy get", "copy open",
     "dealloc", "close core", "delete core", "fire", "scan", "enumerate"}

TypeOK ==
    /\ dic \in [Ids -> Engines \cup {None}]
    /\ coreDic \in [Ids -> Cores \cup {None}]
    /\ live \subseteq Cores /\ shared \subseteq Cores
    /\ key \in [Engines -> Ids \cup {None}]
    /\ core \in [Engines -> Cores \cup {None}]
    /\ age \in [Engines -> 0 .. MaxIdle]
    /\ held \in [Users -> SUBSET Engines]
    /\ gLock \in Threads \cup {None} /\ instLock \in Threads \cup {None}
    /\ mLock \in [Cores -> Threads \cup {None}]
    /\ pc \in [Threads -> Labels]
    /\ id \in [Threads -> Ids \cup {None}]
    /\ eng \in [Threads -> Engines \cup {None}]
    /\ maxIdle \in {0, MaxIdle}
    /\ period \in {"off", "slow", "fast"}
    /\ queue \in Seq(Ids)
    /\ wasCleaning \in BOOLEAN /\ crashed \in BOOLEAN

\* A file has at most one core, and the C++ dictionary has every core that is
\* alive and no other: two cores on one file would each keep a dictionary and
\* a write position of their own (getKFKVWithID, KFKV::close, KFKV.mm).
OneCorePerFile ==
    /\ \A i \in Ids : coreDic[i] # None => coreDic[i] \in live
    /\ \A c \in live : \E i \in Ids : coreDic[i] = c
    /\ \A i, j \in Ids : coreDic[i] = coreDic[j] /\ coreDic[i] # None => i = j

\* An engine points to a deleted core only if that core was handed to a second
\* engine, opened while the first was closed but not yet gone; whatever the
\* clean-up, backups and other threads do in between (libKFKV.mm, dealloc).
OnlySharedCoresDangle ==
    \A e \in Engines : key[e] # None /\ core[e] \notin live => core[e] \in shared

\* From the moment the handler drops an engine until its core is deleted,
\* nobody has a reference to it, works in its core or opens its id again, and
\* it has been idle for long enough ("if an item is strong referenced by
\* outside, it won't be cleanup", KFKV.h).
CleanUpIsAlone ==
    pc[Handler] \in {"dealloc", "close core", "delete core"} =>
        LET e == eng[Handler] IN
        /\ ~Held(e) /\ age[e] >= maxIdle
        /\ dic[key[e]] = None
        /\ mLock[core[e]] = Handler
        /\ \A u \in Users : pc[u] \notin {"open", "use open", "copy open"} /\ eng[u] # e

\* Once the handler has returned, the fast timer is on only while something
\* is queued: it never wakes the process up for nothing
\* (tryAutoCleanUpInstances, "switch back to check-cleanup phase").
FastOnlyWithWork == period = "fast" /\ gLock # Handler => queue # <<>>

\* The thread that has the mutex t waits for, if t has to wait.
WaitsFor(t) ==
    CASE pc[t] \in {"get", "use get", "copy get", "close", "fire"} -> gLock
      [] pc[t] \in {"open", "use open", "copy open", "close core"} -> instLock
      [] pc[t] \in {"dealloc", "delete core", "import"} ->
            IF core[eng[t]] \in live THEN mLock[core[eng[t]]] ELSE None
      [] pc[t] = "backup" -> IF coreDic[id[t]] # None THEN mLock[coreDic[id[t]]] ELSE None
      [] OTHER -> None

Deadlocked(S) == S # {} /\ \A t \in S : WaitsFor(t) \in S \ {t}

InApplicationHandler(t) == pc[t] \in {"use get", "use open", "copy get", "copy open"}

\* KFKV's calls take g_lock, g_instanceLock and m_lock in this order.  Threads
\* wait for each other for ever only where one of three leaves it: the clean-up
\* (m_lock, then g_instanceLock), two imports from each other's destination, and
\* an application's handler that opens an instance from under the m_lock it is
\* called with (g_lock against a close's dealloc).
DeadlocksLeaveLockOrder ==
    \A S \in SUBSET Threads :
        Deadlocked(S) =>
            Handler \in S \/ \E t \in S : pc[t] = "import" \/ InApplicationHandler(t)

\* "clean one at a time, prevent from holding g_lock for too long": the handler
\* gives g_lock back (libKFKV.mm:931).
HandlerReturns == gLock = Handler ~> gLock # Handler \/ crashed
=============================================================================
