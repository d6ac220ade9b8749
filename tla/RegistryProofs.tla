--------------------------- MODULE RegistryProofs ---------------------------
(***************************************************************************)
(* Theorems about Registry, for any sets of ids, threads, engines and      *)
(* cores: its types, one core per file, which pointers may dangle, which   *)
(* threads a deadlock needs, that the clean-up works alone and when its    *)
(* fast timer is on.                                                       *)
(*                                                                         *)
(* The invariant says what a call's arguments are, which engines a         *)
(* dictionary or a reference may name (Keys: an engine on its way to       *)
(* dealloc is in no dictionary, in no thread's hands and in no other       *)
(* dealloc), who owns a mutex at which label (Owners), what the clean-up   *)
(* has dropped (DroppedIdle) and how the cores, the engines and the C++    *)
(* dictionary fit together (CoreEntries).  Every step but two moves one    *)
(* thread and keeps the cores (StepKeeps); opening an instance and         *)
(* deleting a core are proved apart.                                       *)
(***************************************************************************)
EXTENDS Registry, FiniteSetTheorems, SequenceTheorems, TLAPS

Dying == {"dealloc", "close core", "delete core"}
WithId == {"get", "open", "close", "backup", "copy",
           "use get", "use open", "copy get", "copy open"}
NoEngine == {"idle", "get", "open", "backup", "copy", "copy get", "copy open"}
WithEngine == {"close", "use", "import", "import both", "use get", "use open"}
WithGLock == {"open", "use open", "copy open", "scan", "enumerate"}
WithInstLock == {"delete core", "backup", "copy", "copy get", "copy open"}
WithMLock == {"use", "import", "import both", "copy",
              "use get", "use open", "copy get", "copy open"}

Arguments ==
    \A t \in Threads :
        /\ pc[t] \in WithId => id[t] \in Ids
        /\ pc[t] \in Dying => eng[t] \in Engines

\* A call of a user thread works on an engine that the thread refers to.
References ==
    \A u \in Users :
        /\ pc[u] \in NoEngine => eng[u] = None
        /\ pc[u] \in WithEngine => eng[u] \in held[u]
        /\ pc[u] \notin {"fire", "scan", "enumerate"}

ScanQueue == pc[Handler] = "scan" => queue # <<>>

DicKeys == \A i \in Ids : dic[i] # None => key[dic[i]] = i

HeldKeys == \A u \in Users : \A e \in held[u] : key[e] # None

\* Nothing but t's dealloc names the engine e.
Apart(t, e) ==
    /\ key[e] # None
    /\ \A u \in Users : e \notin held[u]
    /\ \A i \in Ids : dic[i] # e
    /\ \A s \in Threads \ {t} : pc[s] \in Dying => eng[s] # e

DyingApart == \A t \in Threads : pc[t] \in Dying => Apart(t, eng[t])

GLockOwner ==
    /\ \A t \in Threads :
         /\ gLock = t => pc[t] \in WithGLock \cup Dying
         /\ pc[t] \in WithGLock => gLock = t
    /\ pc[Handler] \in Dying => gLock = Handler

InstLockOwner ==
    \A t \in Threads :
        /\ instLock = t => pc[t] \in WithInstLock
        /\ pc[t] \in WithInstLock => instLock = t

MLockUsers == \A c \in Cores : \A u \in Users : mLock[c] = u => pc[u] \in WithMLock

CoreOfKey ==
    \A e \in Engines : core[e] \in live => key[e] \in Ids /\ coreDic[key[e]] = core[e]

SharedCores ==
    \A e, f \in Engines : e # f /\ core[e] = core[f] /\ core[e] # None => core[e] \in shared

DeletedIsLive == \A t \in Threads : pc[t] = "delete core" => core[eng[t]] \in live

\* What the handler has dropped is idle, gone from the dictionary and locked.
DroppedIdle ==
    pc[Handler] \in Dying =>
        LET e == eng[Handler] IN
        /\ age[e] >= maxIdle
        /\ dic[key[e]] = None
        /\ core[e] \in Cores
        /\ mLock[core[e]] = Handler

FastPhase == period = "fast" => IF gLock = Handler THEN wasCleaning ELSE queue # <<>>

Keys == DicKeys /\ HeldKeys /\ DyingApart
Owners == GLockOwner /\ InstLockOwner /\ MLockUsers
CoreEntries == OneCorePerFile /\ OnlySharedCoresDangle /\ CoreOfKey /\ SharedCores

RegistryInv ==
    /\ TypeOK /\ Arguments /\ References /\ ScanQueue /\ DroppedIdle /\ FastPhase
    /\ Keys /\ Owners /\ CoreEntries /\ DeletedIsLive

-----------------------------------------------------------------------------
(* A step of one thread, t, to label l with arguments i and e. *)
Moves(t, l, i, e) ==
    \A s \in Threads :
        /\ pc'[s] = IF s = t THEN l ELSE pc[s]
        /\ id'[s] = IF s = t THEN i ELSE id[s]
        /\ eng'[s] = IF s = t THEN e ELSE eng[s]

CallTypes ==
    /\ pc \in [Threads -> Labels]
    /\ id \in [Threads -> Ids \cup {None}]
    /\ eng \in [Threads -> Engines \cup {None}]

\* After the step nothing but t's dealloc names the engine e.
LetGo(t, e) ==
    /\ key'[e] # None
    /\ \A u \in Users : e \notin held'[u]
    /\ \A i \in Ids : dic'[i] # e
    /\ \A s \in Threads \ {t} : pc'[s] \in Dying => eng'[s] # e

\* The arguments fit the label; a dealloc goes on, or the engine is let go.
FitArguments(t, l, i, e) ==
    /\ l \in WithId => i \in Ids
    /\ l \in Dying => (pc[t] \in Dying /\ e = eng[t]) \/ (e \in Engines /\ LetGo(t, e))
    /\ l = "delete core" => core[e] \in live

\* No engine appears, and references are taken from the dictionary only.
KeepKeys ==
    /\ UNCHANGED key
    /\ \A i \in Ids : dic'[i] \in {dic[i], None}
    /\ \A u \in Users : \A e \in held'[u] :
         e \in held[u] \/ \E i \in Ids : e = dic[i] /\ e # None

\* Only t's references can get fewer, and l says what the engine e is to t.
KeepReferences(t, l, e) ==
    /\ \A u \in Users \ {t} : held[u] \subseteq held'[u]
    /\ t \in Users =>
         /\ l \in NoEngine => e = None
         /\ l \in WithEngine => e \in held'[t]
         /\ l \notin {"fire", "scan", "enumerate"}

\* Only t gets a mutex or gives one up, and l says which ones it has.
KeepOwners(t, l) ==
    /\ \A s \in Threads \ {t} : (gLock' = s => gLock = s) /\ (gLock = s => gLock' = s)
    /\ gLock' = t => l \in WithGLock \cup Dying
    /\ l \in WithGLock => gLock' = t
    /\ t = Handler /\ l \in Dying => gLock' = t
    /\ \A s \in Threads \ {t} :
         (instLock' = s => instLock = s) /\ (instLock = s => instLock' = s)
    /\ instLock' = t => l \in WithInstLock
    /\ l \in WithInstLock => instLock' = t
    /\ \A c \in Cores :
         /\ mLock'[c] \in {mLock[c], None, t}
         /\ t \in Users /\ mLock'[c] = t => l \in WithMLock

\* The sets of the model do not overlap.
LEMMA Distinct ==
    /\ Users \subseteq Threads /\ Handler \in Threads /\ Handler \notin Users
    /\ Threads = Users \cup {Handler}
    /\ None \notin Ids /\ None \notin Engines /\ None \notin Cores /\ None \notin Threads
BY ThreadsAssumption, NoneAssumption DEF Threads

\* What is left of a queue.
LEMMA HeadTail ==
    ASSUME NEW S, NEW q \in Seq(S), q # <<>>
    PROVE  Head(q) \in S /\ Tail(q) \in Seq(S) /\ (Len(q) # 1 => Tail(q) # <<>>)
<1>1. /\ Head(q) \in S /\ Tail(q) \in Seq(S)
      /\ Len(Tail(q)) = Len(q) - 1 /\ Len(q) \in Nat
  BY HeadTailProperties, LenProperties
<1>2. Tail(q) = <<>> => Len(q) = 1
  <2> SUFFICES ASSUME Tail(q) = <<>>
               PROVE  Len(q) = 1
    OBVIOUS
  <2>1. Len(Tail(q)) = 0
    BY EmptySeq
  <2>2. Len(q) - 1 = 0
    BY <1>1, <2>1, Zenon
  <2>3. Len(q) \in Nat
    BY <1>1
  <2> QED
    BY <2>2, <2>3
<1> QED
  BY <1>1, <1>2

\* A call's step in terms of Moves.
LEMMA MoveTypes ==
    ASSUME TypeOK, NEW t \in Threads, NEW l \in Labels, NEW i \in Ids \cup {None},
           NEW e \in Engines \cup {None},
           pc' = [pc EXCEPT ![t] = l], id' = [id EXCEPT ![t] = i], eng' = [eng EXCEPT ![t] = e]
    PROVE  Moves(t, l, i, e) /\ CallTypes'
BY DEF TypeOK, Moves, CallTypes

\* The same for a step that keeps the call's arguments.
LEMMA GotoTypes ==
    ASSUME TypeOK, NEW t \in Threads, NEW l \in Labels, Goto(t, l)
    PROVE  Moves(t, l, id[t], eng[t]) /\ CallTypes'
BY DEF TypeOK, Moves, Goto, CallTypes

\* A step that moves no call leaves any thread where it is.
LEMMA StayTypes ==
    ASSUME TypeOK, NEW t \in Threads, UNCHANGED callVars
    PROVE  Moves(t, pc[t], id[t], eng[t]) /\ CallTypes'
BY DEF TypeOK, Moves, CallTypes, callVars

\* The arguments of a call that moves.
LEMMA ArgumentsKept ==
    ASSUME Arguments, NEW t \in Threads, NEW l, NEW i, NEW e,
           Moves(t, l, i, e), FitArguments(t, l, i, e)
    PROVE  Arguments'
BY DEF Arguments, Moves, FitArguments

\* The engine of a call stays one that the thread refers to.
LEMMA ReferencesKept ==
    ASSUME References, NEW t \in Threads, NEW l, NEW i, NEW e,
           Moves(t, l, i, e), KeepReferences(t, l, e)
    PROVE  References'
BY Distinct DEF References, Moves, KeepReferences

\* An engine that is on its way to dealloc stays apart from the others.
LEMMA KeysKept ==
    ASSUME TypeOK, Arguments, Keys, NEW t \in Threads, NEW l, NEW i, NEW e,
           Moves(t, l, i, e), FitArguments(t, l, i, e), KeepKeys
    PROVE  Keys'
<1>1. DicKeys'
  BY DEF Keys, DicKeys, KeepKeys
<1>2. HeldKeys'
  <2> SUFFICES ASSUME NEW u \in Users, NEW f \in held'[u]
               PROVE  key[f] # None
    BY DEF HeldKeys, KeepKeys
  <2>1. CASE f \in held[u]
    BY <2>1 DEF Keys, HeldKeys
  <2>2. CASE \E j \in Ids : f = dic[j] /\ f # None
    BY <2>2, Distinct DEF Keys, DicKeys
  <2> QED
    BY <2>1, <2>2 DEF KeepKeys
<1>3. DyingApart'
  <2> SUFFICES ASSUME NEW s \in Threads, pc'[s] \in Dying
               PROVE  LetGo(s, eng'[s])
    BY DEF DyingApart, Apart, LetGo
  <2>1. ASSUME NEW r \in Threads, pc[r] \in Dying
        PROVE  /\ key'[eng[r]] # None
               /\ \A u \in Users : eng[r] \notin held'[u]
               /\ \A j \in Ids : dic'[j] # eng[r]
    <3>1. Apart(r, eng[r]) /\ eng[r] \in Engines
      BY <2>1 DEF Keys, DyingApart, Arguments
    <3>2. eng[r] # None
      BY <3>1, Distinct
    <3> QED
      BY <3>1, <3>2 DEF Apart, KeepKeys
  <2>2. CASE s # t
    <3>1. pc[s] \in Dying /\ eng'[s] = eng[s]
      BY <2>2 DEF Moves
    <3>2. ASSUME NEW r \in Threads \ {s}, pc'[r] \in Dying
          PROVE  eng'[r] # eng[s]
      <4>1. CASE r # t \/ (pc[t] \in Dying /\ e = eng[t])
        <5>1. pc[r] \in Dying /\ eng'[r] = eng[r]
          BY <3>2, <4>1 DEF Moves
        <5> QED
          BY <3>1, <5>1 DEF Keys, DyingApart, Apart
      <4>2. CASE r = t /\ LetGo(t, e)
        <5>1. eng'[r] = e
          BY <4>2 DEF Moves
        <5> QED
          BY <2>2, <3>1, <4>2, <5>1 DEF LetGo
      <4> QED
        BY <3>2, <4>1, <4>2 DEF Moves, FitArguments
    <3> QED
      BY <2>1, <3>1, <3>2 DEF LetGo
  <2>3. CASE s = t /\ pc[t] \in Dying /\ e = eng[t]
    <3>1. eng'[s] = eng[t]
      BY <2>3 DEF Moves
    <3>2. ASSUME NEW r \in Threads \ {t}, pc'[r] \in Dying
          PROVE  eng'[r] # eng[t]
      <4>1. pc[r] \in Dying /\ eng'[r] = eng[r]
        BY <3>2 DEF Moves
      <4> QED
        BY <2>3, <4>1 DEF Keys, DyingApart, Apart
    <3> QED
      BY <2>1, <2>3, <3>1, <3>2 DEF LetGo
  <2>4. CASE s = t /\ LetGo(t, e)
    BY <2>4 DEF Moves
  <2> QED
    BY <2>2, <2>3, <2>4 DEF Moves, FitArguments
<1> QED
  BY <1>1, <1>2, <1>3 DEF Keys

\* A mutex has the owner that its label says.
LEMMA OwnersKept ==
    ASSUME Owners, NEW t \in Threads, NEW l, NEW i, NEW e,
           Moves(t, l, i, e), KeepOwners(t, l)
    PROVE  Owners'
<1>1. GLockOwner'
  BY Distinct DEF Owners, GLockOwner, WithGLock, Dying, Moves, KeepOwners
<1>2. InstLockOwner'
  BY DEF Owners, InstLockOwner, Moves, KeepOwners
<1>3. MLockUsers'
  BY Distinct DEF Owners, MLockUsers, Moves, KeepOwners
<1> QED
  BY <1>1, <1>2, <1>3 DEF Owners

\* The cores stay as they are, and so does the core that is being deleted.
LEMMA CoresKept ==
    ASSUME CoreEntries, DeletedIsLive, NEW t \in Threads, NEW l, NEW i, NEW e,
           Moves(t, l, i, e), FitArguments(t, l, i, e),
           UNCHANGED <<coreDic, live, key, core, shared>>
    PROVE  CoreEntries' /\ DeletedIsLive'
<1>1. CoreEntries'
  BY DEF CoreEntries, OneCorePerFile, OnlySharedCoresDangle, CoreOfKey, SharedCores
<1>2. DeletedIsLive'
  BY DEF DeletedIsLive, Moves, FitArguments
<1> QED
  BY <1>1, <1>2

\* A step of one thread that keeps the cores keeps the invariant.
LEMMA StepKeeps ==
    ASSUME RegistryInv, TypeOK', ScanQueue', DroppedIdle', FastPhase',
           NEW t \in Threads, NEW l, NEW i, NEW e,
           Moves(t, l, i, e), FitArguments(t, l, i, e), KeepReferences(t, l, e),
           KeepKeys, KeepOwners(t, l),
           UNCHANGED <<coreDic, live, key, core, shared>>
    PROVE  RegistryInv'
<1>1. Arguments' /\ References' /\ Keys'
  BY ArgumentsKept, ReferencesKept, KeysKept DEF RegistryInv
<1>2. Owners'
  BY OwnersKept DEF RegistryInv
<1>3. CoreEntries' /\ DeletedIsLive'
  BY CoresKept DEF RegistryInv
<1> QED
  BY <1>1, <1>2, <1>3 DEF RegistryInv

\* A call for an instance begins.
LEMMA GetCallKeeps ==
    ASSUME RegistryInv, NEW u \in Users, NEW i \in Ids, GetCall(u, i)
    PROVE  RegistryInv'
<1>1. /\ TypeOK /\ Arguments /\ References /\ ScanQueue /\ DroppedIdle /\ FastPhase
      /\ Keys /\ Owners /\ CoreEntries /\ DeletedIsLive
  BY DEF RegistryInv
<1>2. /\ pc[u] = "idle"
      /\ UNCHANGED <<coreDic, live, key, core, shared, dic, held, gLock, instLock,
                     mLock, queue, age, maxIdle, period, wasCleaning, crashed>>
  BY Distinct DEF GetCall, Call, dicVars, lockVars, timerVars
<1>3. Moves(u, "get", i, None) /\ CallTypes'
  <2>1. /\ u \in Threads /\ "get" \in Labels
        /\ i \in Ids \cup {None} /\ None \in Engines \cup {None}
    BY <1>1, <1>2, Distinct DEF Labels, TypeOK
  <2>2. /\ pc' = [pc EXCEPT ![u] = "get"]
        /\ id' = [id EXCEPT ![u] = i] /\ eng' = [eng EXCEPT ![u] = None]
    BY <1>1, <1>2 DEF GetCall, Call, dicVars, lockVars, timerVars, TypeOK
  <2> QED
    BY <1>1, <2>1, <2>2, MoveTypes
<1>4. TypeOK'
  BY <1>1, <1>2, <1>3, Distinct DEF TypeOK, CallTypes
<1>5. ScanQueue'
  BY <1>1, <1>2, <1>3, Distinct DEF ScanQueue, Moves
<1>6. FitArguments(u, "get", i, None)
  BY <1>1, <1>2, <1>3, Distinct DEF FitArguments, WithId, Dying, Arguments
<1>7. KeepKeys
  BY <1>1, <1>2, Distinct DEF KeepKeys
<1>8. KeepOwners(u, "get")
  BY <1>1, <1>2, Distinct DEF KeepOwners, Owners, GLockOwner, InstLockOwner, MLockUsers,
      WithGLock, WithInstLock, WithMLock, Dying
<1>9. KeepReferences(u, "get", None)
  BY <1>1, <1>2, Distinct DEF KeepReferences, References, NoEngine, WithEngine
<1>10. DroppedIdle'
  BY <1>1, <1>2, <1>3, Distinct DEF DroppedIdle, Owners, GLockOwner, Moves, Dying
<1>11. FastPhase'
  BY <1>1, <1>2, Distinct DEF FastPhase, Owners, GLockOwner, WithGLock
<1> QED
  BY <1>1, <1>2, <1>3, <1>4, <1>5, <1>6, <1>7, <1>8,
     <1>9, <1>10, <1>11, StepKeeps, Distinct

\* A backup takes the lock of the C++ dictionary.
LEMMA BackupCallKeeps ==
    ASSUME RegistryInv, NEW u \in Users, NEW i \in Ids, BackupCall(u, i)
    PROVE  RegistryInv'
<1>1. /\ TypeOK /\ Arguments /\ References /\ ScanQueue /\ DroppedIdle /\ FastPhase
      /\ Keys /\ Owners /\ CoreEntries /\ DeletedIsLive
  BY DEF RegistryInv
<1>2. /\ pc[u] = "idle"
      /\ instLock = None /\ instLock' = u
      /\ UNCHANGED <<coreDic, live, key, core, shared, dic, held, gLock, mLock, queue,
                     age, maxIdle, period, wasCleaning, crashed>>
  BY Distinct DEF BackupCall, Call, dicVars, lockVars, timerVars
<1>3. Moves(u, "backup", i, None) /\ CallTypes'
  <2>1. /\ u \in Threads /\ "backup" \in Labels
        /\ i \in Ids \cup {None} /\ None \in Engines \cup {None}
    BY <1>1, <1>2, Distinct DEF Labels, TypeOK
  <2>2. /\ pc' = [pc EXCEPT ![u] = "backup"]
        /\ id' = [id EXCEPT ![u] = i] /\ eng' = [eng EXCEPT ![u] = None]
    BY <1>1, <1>2 DEF BackupCall, Call, dicVars, lockVars, timerVars, TypeOK
  <2> QED
    BY <1>1, <2>1, <2>2, MoveTypes
<1>4. TypeOK'
  BY <1>1, <1>2, <1>3, Distinct DEF TypeOK, CallTypes
<1>5. ScanQueue'
  BY <1>1, <1>2, <1>3, Distinct DEF ScanQueue, Moves
<1>6. FitArguments(u, "backup", i, None)
  BY <1>1, <1>2, <1>3, Distinct DEF FitArguments, WithId, Dying, Arguments
<1>7. KeepKeys
  BY <1>1, <1>2, Distinct DEF KeepKeys
<1>8. KeepOwners(u, "backup")
  BY <1>1, <1>2, Distinct DEF KeepOwners, Owners, GLockOwner, InstLockOwner, MLockUsers,
      WithGLock, WithInstLock, WithMLock, Dying
<1>9. KeepReferences(u, "backup", None)
  BY <1>1, <1>2, Distinct DEF KeepReferences, References, NoEngine, WithEngine
<1>10. DroppedIdle'
  BY <1>1, <1>2, <1>3, Distinct DEF DroppedIdle, Owners, GLockOwner, Moves, Dying
<1>11. FastPhase'
  BY <1>1, <1>2, Distinct DEF FastPhase, Owners, GLockOwner, WithGLock
<1> QED
  BY <1>1, <1>2, <1>3, <1>4, <1>5, <1>6, <1>7, <1>8,
     <1>9, <1>10, <1>11, StepKeeps, Distinct

\* close is called on an engine that the thread has a reference to.
LEMMA CloseCallKeeps ==
    ASSUME RegistryInv, NEW u \in Users, NEW e \in Engines, CloseCall(u, e)
    PROVE  RegistryInv'
<1>1. /\ TypeOK /\ Arguments /\ References /\ ScanQueue /\ DroppedIdle /\ FastPhase
      /\ Keys /\ Owners /\ CoreEntries /\ DeletedIsLive
  BY DEF RegistryInv
<1>2. /\ pc[u] = "idle" /\ e \in held[u]
      /\ key[e] \in Ids
      /\ UNCHANGED <<coreDic, live, key, core, shared, dic, held, gLock, instLock,
                     mLock, queue, age, maxIdle, period, wasCleaning, crashed>>
  BY <1>1, Distinct DEF CloseCall, Call, Keys, HeldKeys, TypeOK, dicVars, lockVars,
      timerVars
<1>3. Moves(u, "close", key[e], e) /\ CallTypes'
  <2>1. /\ u \in Threads /\ "close" \in Labels
        /\ key[e] \in Ids \cup {None} /\ e \in Engines \cup {None}
    BY <1>1, <1>2, Distinct DEF Labels, TypeOK
  <2>2. /\ pc' = [pc EXCEPT ![u] = "close"]
        /\ id' = [id EXCEPT ![u] = key[e]] /\ eng' = [eng EXCEPT ![u] = e]
    BY <1>1, <1>2 DEF CloseCall, Call, Keys, HeldKeys, TypeOK, dicVars, lockVars,
        timerVars, TypeOK
  <2> QED
    BY <1>1, <2>1, <2>2, MoveTypes
<1>4. TypeOK'
  BY <1>1, <1>2, <1>3, Distinct DEF TypeOK, CallTypes
<1>5. ScanQueue'
  BY <1>1, <1>2, <1>3, Distinct DEF ScanQueue, Moves
<1>6. FitArguments(u, "close", key[e], e)
  BY <1>1, <1>2, <1>3, Distinct DEF FitArguments, WithId, Dying, Arguments
<1>7. KeepKeys
  BY <1>1, <1>2, Distinct DEF KeepKeys
<1>8. KeepOwners(u, "close")
  BY <1>1, <1>2, Distinct DEF KeepOwners, Owners, GLockOwner, InstLockOwner, MLockUsers,
      WithGLock, WithInstLock, WithMLock, Dying
<1>9. KeepReferences(u, "close", e)
  BY <1>1, <1>2, Distinct DEF KeepReferences, References, NoEngine, WithEngine
<1>10. DroppedIdle'
  BY <1>1, <1>2, <1>3, Distinct DEF DroppedIdle, Owners, GLockOwner, Moves, Dying
<1>11. FastPhase'
  BY <1>1, <1>2, Distinct DEF FastPhase, Owners, GLockOwner, WithGLock
<1> QED
  BY <1>1, <1>2, <1>3, <1>4, <1>5, <1>6, <1>7, <1>8,
     <1>9, <1>10, <1>11, StepKeeps, Distinct

\* A getter or a setter takes its core's lock.
LEMMA UseKeeps ==
    ASSUME RegistryInv, NEW u \in Users, NEW e \in Engines, Use(u, e) /\ ~Crash(u, e)
    PROVE  RegistryInv'
<1>1. /\ TypeOK /\ Arguments /\ References /\ ScanQueue /\ DroppedIdle /\ FastPhase
      /\ Keys /\ Owners /\ CoreEntries /\ DeletedIsLive
  BY DEF RegistryInv
<1>2. /\ pc[u] = "idle" /\ e \in held[u]
      /\ mLock' = [mLock EXCEPT ![core[e]] = u]
      /\ \A c \in Cores : mLock'[c] \in {mLock[c], None, u}
      /\ \A c \in Cores : mLock[c] = Handler => mLock'[c] = Handler
      /\ UNCHANGED <<coreDic, live, key, core, shared, dic, held, gLock, instLock,
                     queue, age, maxIdle, period, wasCleaning, crashed>>
  BY <1>1, Distinct DEF TypeOK, Use, Call, dicVars, lockVars, timerVars
<1>3. Moves(u, "use", None, e) /\ CallTypes'
  <2>1. /\ u \in Threads /\ "use" \in Labels
        /\ None \in Ids \cup {None} /\ e \in Engines \cup {None}
    BY <1>1, <1>2, Distinct DEF Labels, TypeOK
  <2>2. /\ pc' = [pc EXCEPT ![u] = "use"]
        /\ id' = [id EXCEPT ![u] = None] /\ eng' = [eng EXCEPT ![u] = e]
    BY <1>1, <1>2 DEF Use, Call, dicVars, lockVars, timerVars, TypeOK
  <2> QED
    BY <1>1, <2>1, <2>2, MoveTypes
<1>4. TypeOK'
  BY <1>1, <1>2, <1>3, Distinct DEF TypeOK, CallTypes
<1>5. ScanQueue'
  BY <1>1, <1>2, <1>3, Distinct DEF ScanQueue, Moves
<1>6. FitArguments(u, "use", None, e)
  BY <1>1, <1>2, <1>3, Distinct DEF FitArguments, WithId, Dying, Arguments
<1>7. KeepKeys
  BY <1>1, <1>2, Distinct DEF KeepKeys
<1>8. KeepOwners(u, "use")
  BY <1>1, <1>2, Distinct DEF KeepOwners, Owners, GLockOwner, InstLockOwner, MLockUsers,
      WithGLock, WithInstLock, WithMLock, Dying
<1>9. KeepReferences(u, "use", e)
  BY <1>1, <1>2, Distinct DEF KeepReferences, References, NoEngine, WithEngine
<1>10. DroppedIdle'
  BY <1>1, <1>2, <1>3, Distinct DEF DroppedIdle, Owners, GLockOwner, Moves, Dying
<1>11. FastPhase'
  BY <1>1, <1>2, Distinct DEF FastPhase, Owners, GLockOwner, WithGLock
<1> QED
  BY <1>1, <1>2, <1>3, <1>4, <1>5, <1>6, <1>7, <1>8,
     <1>9, <1>10, <1>11, StepKeeps, Distinct

\* importFrom locks the destination.
LEMMA ImportCallKeeps ==
    ASSUME RegistryInv, NEW u \in Users, NEW dst \in Engines, NEW src \in Engines, ImportCall(u, dst, src)
    PROVE  RegistryInv'
<1>1. /\ TypeOK /\ Arguments /\ References /\ ScanQueue /\ DroppedIdle /\ FastPhase
      /\ Keys /\ Owners /\ CoreEntries /\ DeletedIsLive
  BY DEF RegistryInv
<1>2. /\ pc[u] = "idle" /\ src \in held[u]
      /\ mLock' = [mLock EXCEPT ![core[dst]] = u]
      /\ \A c \in Cores : mLock'[c] \in {mLock[c], None, u}
      /\ \A c \in Cores : mLock[c] = Handler => mLock'[c] = Handler
      /\ UNCHANGED <<coreDic, live, key, core, shared, dic, held, gLock, instLock,
                     queue, age, maxIdle, period, wasCleaning, crashed>>
  BY <1>1, Distinct DEF TypeOK, ImportCall, Call, dicVars, lockVars, timerVars
<1>3. Moves(u, "import", None, src) /\ CallTypes'
  <2>1. /\ u \in Threads /\ "import" \in Labels
        /\ None \in Ids \cup {None} /\ src \in Engines \cup {None}
    BY <1>1, <1>2, Distinct DEF Labels, TypeOK
  <2>2. /\ pc' = [pc EXCEPT ![u] = "import"]
        /\ id' = [id EXCEPT ![u] = None] /\ eng' = [eng EXCEPT ![u] = src]
    BY <1>1, <1>2 DEF ImportCall, Call, dicVars, lockVars, timerVars, TypeOK
  <2> QED
    BY <1>1, <2>1, <2>2, MoveTypes
<1>4. TypeOK'
  BY <1>1, <1>2, <1>3, Distinct DEF TypeOK, CallTypes
<1>5. ScanQueue'
  BY <1>1, <1>2, <1>3, Distinct DEF ScanQueue, Moves
<1>6. FitArguments(u, "import", None, src)
  BY <1>1, <1>2, <1>3, Distinct DEF FitArguments, WithId, Dying, Arguments
<1>7. KeepKeys
  BY <1>1, <1>2, Distinct DEF KeepKeys
<1>8. KeepOwners(u, "import")
  BY <1>1, <1>2, Distinct DEF KeepOwners, Owners, GLockOwner, InstLockOwner, MLockUsers,
      WithGLock, WithInstLock, WithMLock, Dying
<1>9. KeepReferences(u, "import", src)
  BY <1>1, <1>2, Distinct DEF KeepReferences, References, NoEngine, WithEngine
<1>10. DroppedIdle'
  BY <1>1, <1>2, <1>3, Distinct DEF DroppedIdle, Owners, GLockOwner, Moves, Dying
<1>11. FastPhase'
  BY <1>1, <1>2, Distinct DEF FastPhase, Owners, GLockOwner, WithGLock
<1> QED
  BY <1>1, <1>2, <1>3, <1>4, <1>5, <1>6, <1>7, <1>8,
     <1>9, <1>10, <1>11, StepKeeps, Distinct

\* No engine has the id: the thread opens one and keeps g_lock.
LEMMA GetMissedKeeps ==
    ASSUME RegistryInv, NEW u \in Users, GetMissed(u)
    PROVE  RegistryInv'
<1>1. /\ TypeOK /\ Arguments /\ References /\ ScanQueue /\ DroppedIdle /\ FastPhase
      /\ Keys /\ Owners /\ CoreEntries /\ DeletedIsLive
  BY DEF RegistryInv
<1>2. PICK l \in {"open", "use open", "copy open"} :
        /\ \/ pc[u] = "get" /\ l = "open"
           \/ pc[u] = "use get" /\ l = "use open"
           \/ pc[u] = "copy get" /\ l = "copy open"
        /\ Goto(u, l)
  BY DEF GetMissed
<1>3. /\ gLock = None /\ gLock' = u
      /\ UNCHANGED <<coreDic, live, key, core, shared, dic, held, instLock, mLock,
                     queue, age, maxIdle, period, wasCleaning, crashed>>
  BY Distinct DEF GetMissed, dicVars, lockVars, timerVars
<1>4. Moves(u, l, id[u], eng[u]) /\ CallTypes'
  <2>1. u \in Threads /\ l \in Labels
    BY Distinct DEF Labels
  <2> QED
    BY <1>1, <1>2, <2>1, GotoTypes
<1>5. TypeOK'
  BY <1>1, <1>3, <1>4, Distinct DEF TypeOK, CallTypes
<1>6. ScanQueue'
  BY <1>1, <1>3, <1>4, Distinct DEF ScanQueue, Moves
<1>7. FitArguments(u, l, id[u], eng[u])
  BY <1>1, <1>2, Distinct DEF FitArguments, WithId, Dying, Arguments
<1>8. KeepKeys
  BY <1>1, <1>3, Distinct DEF KeepKeys
<1>9. KeepOwners(u, l)
  BY <1>1, <1>2, <1>3, Distinct DEF KeepOwners, Owners, GLockOwner, InstLockOwner,
      MLockUsers, WithGLock, WithInstLock, WithMLock, Dying
<1>10. KeepReferences(u, l, eng[u])
  BY <1>1, <1>2, <1>3, Distinct DEF KeepReferences, References, NoEngine, WithEngine
<1>11. DroppedIdle'
  BY <1>1, <1>3, <1>4, Distinct DEF DroppedIdle, Owners, GLockOwner, Moves, Dying
<1>12. FastPhase'
  BY <1>1, <1>3, Distinct DEF FastPhase, Owners, GLockOwner, WithGLock
<1> QED
  BY <1>1, <1>3, <1>4, <1>5, <1>6, <1>7, <1>8, <1>9, <1>10, <1>11, <1>12,
     StepKeeps, Distinct

\* The application's handler asks for an instance.
LEMMA ApplicationHandlerKeeps ==
    ASSUME RegistryInv, NEW u \in Users, NEW i \in Ids, ApplicationHandler(u, i)
    PROVE  RegistryInv'
<1>1. /\ TypeOK /\ Arguments /\ References /\ ScanQueue /\ DroppedIdle /\ FastPhase
      /\ Keys /\ Owners /\ CoreEntries /\ DeletedIsLive
  BY DEF RegistryInv
<1>2. PICK l \in {"use get", "copy get"} :
        /\ \/ pc[u] \in {"use", "import both"} /\ l = "use get"
           \/ pc[u] = "copy" /\ l = "copy get"
        /\ pc' = [pc EXCEPT ![u] = l]
  BY DEF ApplicationHandler
<1>3. /\ id' = [id EXCEPT ![u] = i] /\ eng' = eng
      /\ UNCHANGED <<coreDic, live, key, core, shared, dic, held, gLock, instLock, mLock,
                     queue, age, maxIdle, period, wasCleaning, crashed>>
  BY DEF ApplicationHandler, dicVars, lockVars, timerVars
<1>4. Moves(u, l, i, eng[u]) /\ CallTypes'
  <2>1. /\ u \in Threads /\ l \in Labels
        /\ i \in Ids \cup {None} /\ eng[u] \in Engines \cup {None}
    BY <1>1, Distinct DEF Labels, TypeOK
  <2>2. eng' = [eng EXCEPT ![u] = eng[u]]
    BY <1>1, <1>3 DEF TypeOK
  <2> QED
    BY <1>1, <1>2, <1>3, <2>1, <2>2, MoveTypes
<1>5. TypeOK'
  BY <1>1, <1>3, <1>4, Distinct DEF TypeOK, CallTypes
<1>6. ScanQueue'
  BY <1>1, <1>3, <1>4, Distinct DEF ScanQueue, Moves
<1>7. FitArguments(u, l, i, eng[u])
  BY <1>1, <1>2, Distinct DEF FitArguments, WithId, Dying
<1>8. KeepKeys
  BY <1>1, <1>3, Distinct DEF KeepKeys
<1>9. KeepOwners(u, l)
  BY <1>1, <1>2, <1>3, Distinct DEF KeepOwners, Owners, GLockOwner, InstLockOwner,
      MLockUsers, WithGLock, WithInstLock, WithMLock, Dying
<1>10. KeepReferences(u, l, eng[u])
  BY <1>1, <1>2, <1>3, Distinct DEF KeepReferences, References, NoEngine, WithEngine
<1>11. DroppedIdle'
  BY <1>1, <1>3, <1>4, Distinct DEF DroppedIdle, Moves, Dying
<1>12. FastPhase'
  BY <1>1, <1>3 DEF FastPhase
<1> QED
  BY <1>1, <1>3, <1>4, <1>5, <1>6, <1>7, <1>8, <1>9, <1>10, <1>11, <1>12,
     StepKeeps, Distinct

\* A get goes back to the application, or to the call that called its handler.
GoesBack(u, l, i, e) ==
    \/ pc[u] \in {"get", "open"} /\ l = "idle" /\ i = None /\ e = None
    \/ pc[u] \in {"use get", "use open"} /\ l = "use" /\ i = id[u] /\ e = eng[u]
    \/ pc[u] \in {"copy get", "copy open"} /\ l = "copy" /\ i = id[u] /\ e = eng[u]

LEMMA GetReturnsMoves ==
    ASSUME TypeOK, NEW u \in Users, GetReturns(u)
    PROVE  \E l, i, e : GoesBack(u, l, i, e) /\ Moves(u, l, i, e) /\ CallTypes'
<1>1. u \in Threads /\ {"idle", "use", "copy"} \subseteq Labels
  BY Distinct DEF Labels
<1>2. CASE pc[u] \in {"get", "open"} /\ Return(u)
  <2>1. Moves(u, "idle", None, None) /\ CallTypes'
    <3>1. /\ pc' = [pc EXCEPT ![u] = "idle"]
          /\ id' = [id EXCEPT ![u] = None] /\ eng' = [eng EXCEPT ![u] = None]
      BY <1>2 DEF Return
    <3>2. None \in Ids \cup {None} /\ None \in Engines \cup {None}
      OBVIOUS
    <3> QED
      BY <1>1, <3>1, <3>2, MoveTypes
  <2>2. GoesBack(u, "idle", None, None)
    BY <1>2 DEF GoesBack
  <2> QED
    BY <2>1, <2>2
<1>3. CASE pc[u] \in {"use get", "use open"} /\ Goto(u, "use")
  <2>1. Moves(u, "use", id[u], eng[u]) /\ CallTypes'
    BY <1>1, <1>3, GotoTypes
  <2>2. GoesBack(u, "use", id[u], eng[u])
    BY <1>3 DEF GoesBack
  <2> QED
    BY <2>1, <2>2
<1>4. CASE pc[u] \in {"copy get", "copy open"} /\ Goto(u, "copy")
  <2>1. Moves(u, "copy", id[u], eng[u]) /\ CallTypes'
    BY <1>1, <1>4, GotoTypes
  <2>2. GoesBack(u, "copy", id[u], eng[u])
    BY <1>4 DEF GoesBack
  <2> QED
    BY <2>1, <2>2
<1> QED
  BY <1>2, <1>3, <1>4 DEF GetReturns

\* A reference goes out of scope, and another one is left.
LEMMA DropOneKeeps ==
    ASSUME RegistryInv, NEW u \in Users, NEW e \in Engines, Drop(u, e),
           dic[key[e]] = e \/ \E v \in Users \ {u} : e \in held[v]
    PROVE  RegistryInv'
<1>1. /\ TypeOK /\ Arguments /\ References /\ ScanQueue /\ DroppedIdle /\ FastPhase
      /\ Keys /\ Owners /\ CoreEntries /\ DeletedIsLive
  BY DEF RegistryInv
<1>2. /\ pc[u] = "idle"
      /\ callVars' = callVars
      /\ held' = [held EXCEPT ![u] = held[u] \ {e}]
      /\ \A v \in Users \ {u} : held'[v] = held[v]
      /\ UNCHANGED <<coreDic, live, key, core, shared, dic, gLock, instLock, mLock,
                     queue, age, maxIdle, period, wasCleaning, crashed>>
  BY Distinct DEF Drop, dicVars, lockVars, timerVars
<1>3. Moves(u, pc[u], id[u], eng[u]) /\ CallTypes'
  BY <1>1, <1>2, Distinct, StayTypes DEF Drop, dicVars, lockVars, timerVars
<1>4. TypeOK'
  BY <1>1, <1>2, <1>3, Distinct DEF TypeOK, CallTypes
<1>5. ScanQueue'
  BY <1>1, <1>2, <1>3, Distinct DEF ScanQueue, Moves
<1>6. FitArguments(u, pc[u], id[u], eng[u])
  BY <1>1, <1>2, <1>3, Distinct DEF FitArguments, WithId, Dying, Arguments,
      DeletedIsLive
<1>7. KeepKeys
  BY <1>1, <1>2, Distinct DEF KeepKeys
<1>8. KeepOwners(u, pc[u])
  BY <1>1, <1>2, Distinct DEF KeepOwners, Owners, GLockOwner, InstLockOwner, MLockUsers,
      WithGLock, WithInstLock, WithMLock, Dying
<1>9. KeepReferences(u, pc[u], eng[u])
  BY <1>1, <1>2, Distinct DEF KeepReferences, References, NoEngine, WithEngine
<1>10. DroppedIdle'
  BY <1>1, <1>2, <1>3, Distinct DEF DroppedIdle, Owners, GLockOwner, Moves, Dying
<1>11. FastPhase'
  BY <1>1, <1>2, Distinct DEF FastPhase, Owners, GLockOwner, WithGLock
<1> QED
  BY <1>1, <1>2, <1>3, <1>4, <1>5, <1>6, <1>7, <1>8,
     <1>9, <1>10, <1>11, StepKeeps, Distinct

\* The dictionary has an engine for the id.
LEMMA GetFoundKeeps ==
    ASSUME RegistryInv, NEW u \in Users, GetFound(u)
    PROVE  RegistryInv'
<1>1. /\ TypeOK /\ Arguments /\ References /\ ScanQueue /\ DroppedIdle /\ FastPhase
      /\ Keys /\ Owners /\ CoreEntries /\ DeletedIsLive
  BY DEF RegistryInv
<1>2. /\ pc[u] \in {"get", "use get", "copy get"} /\ gLock = None /\ id[u] \in Ids
      /\ dic[id[u]] \in Engines
      /\ held' = [held EXCEPT ![u] = held[u] \cup {dic[id[u]]}]
      /\ \A v \in Users \ {u} : held'[v] = held[v]
      /\ age' = [age EXCEPT ![dic[id[u]]] = 0]
      /\ UNCHANGED <<coreDic, live, key, core, shared, dic, gLock, instLock, mLock,
                     queue, maxIdle, period, wasCleaning, crashed>>
  BY <1>1, Distinct DEF TypeOK, Arguments, WithId, GetFound, dicVars, lockVars,
      timerVars
<1>3. PICK l, i, e : GoesBack(u, l, i, e) /\ Moves(u, l, i, e) /\ CallTypes'
  BY <1>1, GetReturnsMoves DEF GetFound
<1>4. \/ pc[u] = "get" /\ l = "idle" /\ i = None /\ e = None
      \/ pc[u] = "use get" /\ l = "use" /\ i = id[u] /\ e = eng[u]
      \/ pc[u] = "copy get" /\ l = "copy" /\ i = id[u] /\ e = eng[u]
  BY <1>2, <1>3 DEF GoesBack
<1>5. TypeOK'
  <2>1. held' \in [Users -> SUBSET Engines]
    BY <1>1, <1>2 DEF TypeOK
  <2>2. age' \in [Engines -> 0 .. MaxIdle]
    <3>1. age \in [Engines -> 0 .. MaxIdle] /\ 0 \in 0 .. MaxIdle
      BY <1>1, IdleAssumption DEF TypeOK
    <3> QED
      BY <1>2, <3>1
  <2> QED
    BY <1>1, <1>2, <1>3, <2>1, <2>2 DEF TypeOK, CallTypes
<1>6. ScanQueue'
  BY <1>1, <1>2, <1>3, Distinct DEF ScanQueue, Moves
<1>7. FitArguments(u, l, i, e)
  BY <1>1, <1>2, <1>4, Distinct DEF FitArguments, WithId, Dying
<1>8. KeepKeys
  <2>1. \A v \in Users : \A f \in held'[v] : f \in held[v] \/ f = dic[id[u]]
    BY <1>1, <1>2 DEF TypeOK
  <2> QED
    BY <1>2, <2>1, Distinct DEF KeepKeys
<1>9. KeepOwners(u, l)
  BY <1>1, <1>2, <1>4, Distinct DEF KeepOwners, Owners, GLockOwner, InstLockOwner,
      MLockUsers, WithGLock, WithInstLock, WithMLock, Dying
<1>10. KeepReferences(u, l, e)
  <2>1. held[u] \subseteq held'[u]
    BY <1>1, <1>2 DEF TypeOK
  <2>2. \A v \in Users \ {u} : held[v] \subseteq held'[v]
    BY <1>2
  <2> QED
    BY <1>1, <1>4, <2>1, <2>2 DEF KeepReferences, References, NoEngine, WithEngine
<1>11. DroppedIdle'
  BY <1>1, <1>2, <1>3, Distinct DEF DroppedIdle, Owners, GLockOwner, Moves, Dying
<1>12. FastPhase'
  BY <1>1, <1>2, Distinct DEF FastPhase, Owners, GLockOwner, WithGLock
<1> QED
  BY <1>1, <1>2, <1>3, <1>5, <1>6, <1>7, <1>8, <1>9, <1>10, <1>11, <1>12,
     StepKeeps, Distinct

\* close takes an engine out of the dictionary that others refer to.
LEMMA CloseHeldKeeps ==
    ASSUME RegistryInv, NEW u \in Users, Close(u),
           dic[id[u]] = None \/ Held(dic[id[u]])
    PROVE  RegistryInv'
<1>1. /\ TypeOK /\ Arguments /\ References /\ ScanQueue /\ DroppedIdle /\ FastPhase
      /\ Keys /\ Owners /\ CoreEntries /\ DeletedIsLive
  BY DEF RegistryInv
<1>2. /\ pc[u] = "close" /\ gLock = None
      /\ dic' = [dic EXCEPT ![id[u]] = None]
      /\ UNCHANGED <<coreDic, live, key, core, shared, held, gLock, instLock, mLock,
                     queue, age, maxIdle, period, wasCleaning, crashed>>
  BY Distinct DEF Close, Return, dicVars, lockVars, timerVars
<1>3. Moves(u, "idle", None, None) /\ CallTypes'
  <2>1. /\ u \in Threads /\ "idle" \in Labels
        /\ None \in Ids \cup {None} /\ None \in Engines \cup {None}
    BY <1>1, <1>2, Distinct DEF Labels, TypeOK
  <2>2. /\ pc' = [pc EXCEPT ![u] = "idle"]
        /\ id' = [id EXCEPT ![u] = None] /\ eng' = [eng EXCEPT ![u] = None]
    BY <1>1, <1>2 DEF Close, Return, dicVars, lockVars, timerVars, TypeOK
  <2> QED
    BY <1>1, <2>1, <2>2, MoveTypes
<1>4. TypeOK'
  BY <1>1, <1>2, <1>3, Distinct DEF TypeOK, CallTypes
<1>5. ScanQueue'
  BY <1>1, <1>2, <1>3, Distinct DEF ScanQueue, Moves
<1>6. FitArguments(u, "idle", None, None)
  BY <1>1, <1>2, <1>3, Distinct DEF FitArguments, WithId, Dying, Arguments
<1>7. KeepKeys
  BY <1>1, <1>2, Distinct DEF KeepKeys
<1>8. KeepOwners(u, "idle")
  BY <1>1, <1>2, Distinct DEF KeepOwners, Owners, GLockOwner, InstLockOwner, MLockUsers,
      WithGLock, WithInstLock, WithMLock, Dying
<1>9. KeepReferences(u, "idle", None)
  BY <1>1, <1>2, Distinct DEF KeepReferences, References, NoEngine, WithEngine
<1>10. DroppedIdle'
  BY <1>1, <1>2, <1>3, Distinct DEF DroppedIdle, Owners, GLockOwner, Moves, Dying
<1>11. FastPhase'
  BY <1>1, <1>2, Distinct DEF FastPhase, Owners, GLockOwner, WithGLock
<1> QED
  BY <1>1, <1>2, <1>3, <1>4, <1>5, <1>6, <1>7, <1>8,
     <1>9, <1>10, <1>11, StepKeeps, Distinct

\* The core's lock is given up.
LEMMA UseEndKeeps ==
    ASSUME RegistryInv, NEW u \in Users, UseEnd(u)
    PROVE  RegistryInv'
<1>1. /\ TypeOK /\ Arguments /\ References /\ ScanQueue /\ DroppedIdle /\ FastPhase
      /\ Keys /\ Owners /\ CoreEntries /\ DeletedIsLive
  BY DEF RegistryInv
<1>2. /\ pc[u] \in {"use", "import both"}
      /\ \A c \in Cores : mLock'[c] \in {mLock[c], None, u}
      /\ \A c \in Cores : mLock'[c] # u
      /\ mLock' \in [Cores -> Threads \cup {None}]
      /\ \A c \in Cores : mLock[c] = Handler => mLock'[c] = Handler
      /\ UNCHANGED <<coreDic, live, key, core, shared, dic, held, gLock, instLock,
                     queue, age, maxIdle, period, wasCleaning, crashed>>
  BY <1>1, Distinct DEF TypeOK, UseEnd, Return, UnlockCores, dicVars, lockVars,
      timerVars
<1>3. Moves(u, "idle", None, None) /\ CallTypes'
  <2>1. /\ u \in Threads /\ "idle" \in Labels
        /\ None \in Ids \cup {None} /\ None \in Engines \cup {None}
    BY <1>1, <1>2, Distinct DEF Labels, TypeOK
  <2>2. /\ pc' = [pc EXCEPT ![u] = "idle"]
        /\ id' = [id EXCEPT ![u] = None] /\ eng' = [eng EXCEPT ![u] = None]
    BY <1>1, <1>2 DEF UseEnd, Return, UnlockCores, dicVars, lockVars, timerVars, TypeOK
  <2> QED
    BY <1>1, <2>1, <2>2, MoveTypes
<1>4. TypeOK'
  BY <1>1, <1>2, <1>3, Distinct DEF TypeOK, CallTypes
<1>5. ScanQueue'
  BY <1>1, <1>2, <1>3, Distinct DEF ScanQueue, Moves
<1>6. FitArguments(u, "idle", None, None)
  BY <1>1, <1>2, <1>3, Distinct DEF FitArguments, WithId, Dying, Arguments
<1>7. KeepKeys
  BY <1>1, <1>2, Distinct DEF KeepKeys
<1>8. KeepOwners(u, "idle")
  BY <1>1, <1>2, Distinct DEF KeepOwners, Owners, GLockOwner, InstLockOwner, MLockUsers,
      WithGLock, WithInstLock, WithMLock, Dying
<1>9. KeepReferences(u, "idle", None)
  BY <1>1, <1>2, Distinct DEF KeepReferences, References, NoEngine, WithEngine
<1>10. DroppedIdle'
  BY <1>1, <1>2, <1>3, Distinct DEF DroppedIdle, Owners, GLockOwner, Moves, Dying
<1>11. FastPhase'
  BY <1>1, <1>2, Distinct DEF FastPhase, Owners, GLockOwner, WithGLock
<1> QED
  BY <1>1, <1>2, <1>3, <1>4, <1>5, <1>6, <1>7, <1>8,
     <1>9, <1>10, <1>11, StepKeeps, Distinct

\* importFrom locks the source.
LEMMA ImportLockSourceKeeps ==
    ASSUME RegistryInv, NEW u \in Users, ImportLockSource(u),
           ~Crash(u, eng[u])
    PROVE  RegistryInv'
<1>1. /\ TypeOK /\ Arguments /\ References /\ ScanQueue /\ DroppedIdle /\ FastPhase
      /\ Keys /\ Owners /\ CoreEntries /\ DeletedIsLive
  BY DEF RegistryInv
<1>2. /\ pc[u] = "import"
      /\ mLock' = [mLock EXCEPT ![core[eng[u]]] = u]
      /\ \A c \in Cores : mLock'[c] \in {mLock[c], None, u}
      /\ \A c \in Cores : mLock[c] = Handler => mLock'[c] = Handler
      /\ UNCHANGED <<coreDic, live, key, core, shared, dic, held, gLock, instLock,
                     queue, age, maxIdle, period, wasCleaning, crashed>>
  <2>1. /\ pc[u] = "import" /\ mLock' = [mLock EXCEPT ![core[eng[u]]] = u]
        /\ mLock[core[eng[u]]] \in {None, u}
    BY DEF ImportLockSource, Available
  <2>2. UNCHANGED <<coreDic, live, key, core, shared, dic, held, gLock, instLock, queue,
                    age, maxIdle, period, wasCleaning, crashed>>
    BY DEF ImportLockSource, Crash, dicVars, timerVars
  <2>3. \A c \in Cores : mLock'[c] = (IF c = core[eng[u]] THEN u ELSE mLock[c])
    BY <1>1, <2>1 DEF TypeOK
  <2> QED
    BY <2>1, <2>2, <2>3, Distinct
<1>3. Moves(u, "import both", id[u], eng[u]) /\ CallTypes'
  <2>1. u \in Threads /\ ("import both") \in Labels
    BY Distinct DEF Labels
  <2>2. Goto(u, "import both")
    BY <1>2 DEF ImportLockSource, Available, dicVars, lockVars, timerVars
  <2> QED
    BY <1>1, <2>1, <2>2, GotoTypes
<1>4. TypeOK'
  BY <1>1, <1>2, <1>3, Distinct DEF TypeOK, CallTypes
<1>5. ScanQueue'
  BY <1>1, <1>2, <1>3, Distinct DEF ScanQueue, Moves
<1>6. FitArguments(u, "import both", id[u], eng[u])
  BY <1>1, <1>2, <1>3, Distinct DEF FitArguments, WithId, Dying, Arguments
<1>7. KeepKeys
  BY <1>1, <1>2, Distinct DEF KeepKeys
<1>8. KeepOwners(u, "import both")
  BY <1>1, <1>2, Distinct DEF KeepOwners, Owners, GLockOwner, InstLockOwner, MLockUsers,
      WithGLock, WithInstLock, WithMLock, Dying
<1>9. KeepReferences(u, "import both", eng[u])
  BY <1>1, <1>2, Distinct DEF KeepReferences, References, NoEngine, WithEngine
<1>10. DroppedIdle'
  BY <1>1, <1>2, <1>3, Distinct DEF DroppedIdle, Owners, GLockOwner, Moves, Dying
<1>11. FastPhase'
  BY <1>1, <1>2, Distinct DEF FastPhase, Owners, GLockOwner, WithGLock
<1> QED
  BY <1>1, <1>2, <1>3, <1>4, <1>5, <1>6, <1>7, <1>8,
     <1>9, <1>10, <1>11, StepKeeps, Distinct

\* A backup takes the lock of the core it copies.
LEMMA BackupCopyKeeps ==
    ASSUME RegistryInv, NEW u \in Users, BackupCopy(u)
    PROVE  RegistryInv'
<1>1. /\ TypeOK /\ Arguments /\ References /\ ScanQueue /\ DroppedIdle /\ FastPhase
      /\ Keys /\ Owners /\ CoreEntries /\ DeletedIsLive
  BY DEF RegistryInv
<1>2. /\ pc[u] = "backup" /\ id[u] \in Ids
      /\ \A c \in Cores : mLock'[c] \in {mLock[c], None, u}
      /\ mLock' \in [Cores -> Threads \cup {None}]
      /\ \A c \in Cores : mLock[c] = Handler => mLock'[c] = Handler
      /\ UNCHANGED <<coreDic, live, key, core, shared, dic, held, gLock, instLock,
                     queue, age, maxIdle, period, wasCleaning, crashed>>
  BY <1>1, Distinct DEF TypeOK, Arguments, WithId, BackupCopy, dicVars, lockVars,
      timerVars
<1>3. Moves(u, "copy", id[u], eng[u]) /\ CallTypes'
  <2>1. u \in Threads /\ ("copy") \in Labels
    BY Distinct DEF Labels
  <2>2. Goto(u, "copy")
    BY <1>2 DEF BackupCopy, dicVars, lockVars, timerVars
  <2> QED
    BY <1>1, <2>1, <2>2, GotoTypes
<1>4. TypeOK'
  BY <1>1, <1>2, <1>3, Distinct DEF TypeOK, CallTypes
<1>5. ScanQueue'
  BY <1>1, <1>2, <1>3, Distinct DEF ScanQueue, Moves
<1>6. FitArguments(u, "copy", id[u], eng[u])
  BY <1>1, <1>2, <1>3, Distinct DEF FitArguments, WithId, Dying, Arguments
<1>7. KeepKeys
  BY <1>1, <1>2, Distinct DEF KeepKeys
<1>8. KeepOwners(u, "copy")
  BY <1>1, <1>2, Distinct DEF KeepOwners, Owners, GLockOwner, InstLockOwner, MLockUsers,
      WithGLock, WithInstLock, WithMLock, Dying
<1>9. KeepReferences(u, "copy", eng[u])
  BY <1>1, <1>2, Distinct DEF KeepReferences, References, NoEngine, WithEngine
<1>10. DroppedIdle'
  BY <1>1, <1>2, <1>3, Distinct DEF DroppedIdle, Owners, GLockOwner, Moves, Dying
<1>11. FastPhase'
  BY <1>1, <1>2, Distinct DEF FastPhase, Owners, GLockOwner, WithGLock
<1> QED
  BY <1>1, <1>2, <1>3, <1>4, <1>5, <1>6, <1>7, <1>8,
     <1>9, <1>10, <1>11, StepKeeps, Distinct

\* A backup gives both locks up.
LEMMA BackupEndKeeps ==
    ASSUME RegistryInv, NEW u \in Users, BackupEnd(u)
    PROVE  RegistryInv'
<1>1. /\ TypeOK /\ Arguments /\ References /\ ScanQueue /\ DroppedIdle /\ FastPhase
      /\ Keys /\ Owners /\ CoreEntries /\ DeletedIsLive
  BY DEF RegistryInv
<1>2. /\ pc[u] = "copy"
      /\ \A c \in Cores : mLock'[c] \in {mLock[c], None, u}
      /\ \A c \in Cores : mLock'[c] # u
      /\ mLock' \in [Cores -> Threads \cup {None}]
      /\ instLock' = None
      /\ \A c \in Cores : mLock[c] = Handler => mLock'[c] = Handler
      /\ UNCHANGED <<coreDic, live, key, core, shared, dic, held, gLock, queue, age,
                     maxIdle, period, wasCleaning, crashed>>
  BY <1>1, Distinct DEF TypeOK, BackupEnd, Return, UnlockCores, dicVars, lockVars,
      timerVars
<1>3. Moves(u, "idle", None, None) /\ CallTypes'
  <2>1. /\ u \in Threads /\ "idle" \in Labels
        /\ None \in Ids \cup {None} /\ None \in Engines \cup {None}
    BY <1>1, <1>2, Distinct DEF Labels, TypeOK
  <2>2. /\ pc' = [pc EXCEPT ![u] = "idle"]
        /\ id' = [id EXCEPT ![u] = None] /\ eng' = [eng EXCEPT ![u] = None]
    BY <1>1, <1>2 DEF BackupEnd, Return, UnlockCores, dicVars, lockVars, timerVars,
        TypeOK
  <2> QED
    BY <1>1, <2>1, <2>2, MoveTypes
<1>4. TypeOK'
  BY <1>1, <1>2, <1>3, Distinct DEF TypeOK, CallTypes
<1>5. ScanQueue'
  BY <1>1, <1>2, <1>3, Distinct DEF ScanQueue, Moves
<1>6. FitArguments(u, "idle", None, None)
  BY <1>1, <1>2, <1>3, Distinct DEF FitArguments, WithId, Dying, Arguments
<1>7. KeepKeys
  BY <1>1, <1>2, Distinct DEF KeepKeys
<1>8. KeepOwners(u, "idle")
  BY <1>1, <1>2, Distinct DEF KeepOwners, Owners, GLockOwner, InstLockOwner, MLockUsers,
      WithGLock, WithInstLock, WithMLock, Dying
<1>9. KeepReferences(u, "idle", None)
  BY <1>1, <1>2, Distinct DEF KeepReferences, References, NoEngine, WithEngine
<1>10. DroppedIdle'
  BY <1>1, <1>2, <1>3, Distinct DEF DroppedIdle, Owners, GLockOwner, Moves, Dying
<1>11. FastPhase'
  BY <1>1, <1>2, Distinct DEF FastPhase, Owners, GLockOwner, WithGLock
<1> QED
  BY <1>1, <1>2, <1>3, <1>4, <1>5, <1>6, <1>7, <1>8,
     <1>9, <1>10, <1>11, StepKeeps, Distinct

\* dealloc has cleared the core's cache.
LEMMA DeallocClearKeeps ==
    ASSUME RegistryInv, NEW t \in Threads, DeallocClear(t),
           ~Crash(t, eng[t])
    PROVE  RegistryInv'
<1>1. /\ TypeOK /\ Arguments /\ References /\ ScanQueue /\ DroppedIdle /\ FastPhase
      /\ Keys /\ Owners /\ CoreEntries /\ DeletedIsLive
  BY DEF RegistryInv
<1>2. /\ pc[t] = "dealloc"
      /\ UNCHANGED <<coreDic, live, key, core, shared, dic, held, gLock, instLock,
                     mLock, queue, age, maxIdle, period, wasCleaning, crashed>>
  BY Distinct DEF DeallocClear, dicVars, lockVars, timerVars
<1>3. Moves(t, "close core", id[t], eng[t]) /\ CallTypes'
  <2>1. t \in Threads /\ ("close core") \in Labels
    BY Distinct DEF Labels
  <2>2. Goto(t, "close core")
    BY <1>2 DEF DeallocClear, dicVars, lockVars, timerVars
  <2> QED
    BY <1>1, <2>1, <2>2, GotoTypes
<1>4. TypeOK'
  BY <1>1, <1>2, <1>3, Distinct DEF TypeOK, CallTypes
<1>5. ScanQueue'
  BY <1>1, <1>2, <1>3, Distinct DEF ScanQueue, Moves
<1>6. FitArguments(t, "close core", id[t], eng[t])
  BY <1>1, <1>2, <1>3, Distinct DEF FitArguments, WithId, Dying, Arguments
<1>7. KeepKeys
  BY <1>1, <1>2, Distinct DEF KeepKeys
<1>8. KeepOwners(t, "close core")
  BY <1>1, <1>2, Distinct DEF KeepOwners, Owners, GLockOwner, InstLockOwner, MLockUsers,
      WithGLock, WithInstLock, WithMLock, Dying
<1>9. KeepReferences(t, "close core", eng[t])
  BY <1>1, <1>2, Distinct DEF KeepReferences, References, NoEngine, WithEngine
<1>10. DroppedIdle'
  BY <1>1, <1>2, <1>3, Distinct DEF DroppedIdle, Owners, GLockOwner, Moves, Dying
<1>11. FastPhase'
  BY <1>1, <1>2, Distinct DEF FastPhase, Owners, GLockOwner, WithGLock
<1> QED
  BY <1>1, <1>2, <1>3, <1>4, <1>5, <1>6, <1>7, <1>8,
     <1>9, <1>10, <1>11, StepKeeps, Distinct

\* close takes the lock of the C++ dictionary.
LEMMA CloseCoreKeeps ==
    ASSUME RegistryInv, NEW t \in Threads, CloseCore(t),
           ~Crash(t, eng[t])
    PROVE  RegistryInv'
<1>1. /\ TypeOK /\ Arguments /\ References /\ ScanQueue /\ DroppedIdle /\ FastPhase
      /\ Keys /\ Owners /\ CoreEntries /\ DeletedIsLive
  BY DEF RegistryInv
<1>2. /\ pc[t] = "close core"
      /\ core[eng[t]] \in live
      /\ instLock = None /\ instLock' = t
      /\ UNCHANGED <<coreDic, live, key, core, shared, dic, held, gLock, mLock, queue,
                     age, maxIdle, period, wasCleaning, crashed>>
  BY Distinct DEF CloseCore, dicVars, lockVars, timerVars
<1>3. Moves(t, "delete core", id[t], eng[t]) /\ CallTypes'
  <2>1. t \in Threads /\ ("delete core") \in Labels
    BY Distinct DEF Labels
  <2>2. Goto(t, "delete core")
    BY <1>2 DEF CloseCore, dicVars, lockVars, timerVars
  <2> QED
    BY <1>1, <2>1, <2>2, GotoTypes
<1>4. TypeOK'
  BY <1>1, <1>2, <1>3, Distinct DEF TypeOK, CallTypes
<1>5. ScanQueue'
  BY <1>1, <1>2, <1>3, Distinct DEF ScanQueue, Moves
<1>6. FitArguments(t, "delete core", id[t], eng[t])
  BY <1>1, <1>2, <1>3, Distinct DEF FitArguments, WithId, Dying, Arguments
<1>7. KeepKeys
  BY <1>1, <1>2, Distinct DEF KeepKeys
<1>8. KeepOwners(t, "delete core")
  BY <1>1, <1>2, Distinct DEF KeepOwners, Owners, GLockOwner, InstLockOwner, MLockUsers,
      WithGLock, WithInstLock, WithMLock, Dying
<1>9. KeepReferences(t, "delete core", eng[t])
  BY <1>1, <1>2, Distinct DEF KeepReferences, References, NoEngine, WithEngine
<1>10. DroppedIdle'
  BY <1>1, <1>2, <1>3, Distinct DEF DroppedIdle, Owners, GLockOwner, Moves, Dying
<1>11. FastPhase'
  BY <1>1, <1>2, Distinct DEF FastPhase, Owners, GLockOwner, WithGLock
<1> QED
  BY <1>1, <1>2, <1>3, <1>4, <1>5, <1>6, <1>7, <1>8,
     <1>9, <1>10, <1>11, StepKeeps, Distinct

\* The handler has g_lock and looks for work.
LEMMA CleanUpBeginKeeps ==
    ASSUME RegistryInv, CleanUpBegin
    PROVE  RegistryInv'
<1>1. /\ TypeOK /\ Arguments /\ References /\ ScanQueue /\ DroppedIdle /\ FastPhase
      /\ Keys /\ Owners /\ CoreEntries /\ DeletedIsLive
  BY DEF RegistryInv
<1>2. /\ pc[Handler] = "fire"
      /\ gLock = None /\ gLock' = Handler
      /\ wasCleaning' = (queue # <<>>) /\ wasCleaning' \in BOOLEAN
      /\ UNCHANGED <<coreDic, live, key, core, shared, dic, held, instLock, mLock,
                     queue, age, maxIdle, period, crashed>>
  BY Distinct DEF CleanUpBegin, dicVars, lockVars, timerVars
<1>3. /\ Moves(Handler, IF queue = <<>> THEN "enumerate" ELSE "scan", id[Handler], eng[Handler])
      /\ CallTypes'
  <2>1. Handler \in Threads /\ (IF queue = <<>> THEN "enumerate" ELSE "scan") \in Labels
    BY Distinct DEF Labels
  <2>2. Goto(Handler, IF queue = <<>> THEN "enumerate" ELSE "scan")
    BY <1>2 DEF CleanUpBegin, dicVars, lockVars, timerVars
  <2> QED
    BY <1>1, <2>1, <2>2, GotoTypes
<1>4. TypeOK'
  BY <1>1, <1>2, <1>3, Distinct DEF TypeOK, CallTypes
<1>5. ScanQueue'
  BY <1>1, <1>2, <1>3, Distinct DEF ScanQueue, Moves
<1>6. FitArguments(Handler, IF queue = <<>> THEN "enumerate" ELSE "scan", id[Handler], eng[Handler])
  BY <1>1, <1>2, <1>3, Distinct DEF FitArguments, WithId, Dying, Arguments
<1>7. KeepKeys
  BY <1>1, <1>2, Distinct DEF KeepKeys
<1>8. KeepOwners(Handler, IF queue = <<>> THEN "enumerate" ELSE "scan")
  BY <1>1, <1>2, Distinct DEF KeepOwners, Owners, GLockOwner, InstLockOwner, MLockUsers,
      WithGLock, WithInstLock, WithMLock, Dying
<1>9. KeepReferences(Handler, IF queue = <<>> THEN "enumerate" ELSE "scan", eng[Handler])
  BY <1>1, <1>2, Distinct DEF KeepReferences, References, NoEngine, WithEngine
<1>10. DroppedIdle'
  BY <1>1, <1>2, <1>3, Distinct DEF DroppedIdle, Owners, GLockOwner, Moves, Dying
<1>11. FastPhase'
  BY <1>1, <1>2, Distinct DEF FastPhase, Owners, GLockOwner, WithGLock
<1> QED
  BY <1>1, <1>2, <1>3, <1>4, <1>5, <1>6, <1>7, <1>8,
     <1>9, <1>10, <1>11, StepKeeps, Distinct

\* The handler passes over an entry of its queue.
LEMMA SkipKeeps ==
    ASSUME RegistryInv, (ScanClosed \/ ScanInUse)
    PROVE  RegistryInv'
<1>1. /\ TypeOK /\ Arguments /\ References /\ ScanQueue /\ DroppedIdle /\ FastPhase
      /\ Keys /\ Owners /\ CoreEntries /\ DeletedIsLive
  BY DEF RegistryInv
<1>2. /\ pc[Handler] = "scan"
      /\ queue' = Tail(queue) /\ queue' \in Seq(Ids)
      /\ Len(queue) # 1 => queue' # <<>>
      /\ UNCHANGED <<coreDic, live, key, core, shared, dic, held, gLock, instLock,
                     mLock, age, maxIdle, period, wasCleaning, crashed>>
  <2>1. /\ pc[Handler] = "scan" /\ queue' = Tail(queue)
        /\ UNCHANGED <<coreDic, live, key, core, shared, dic, held, gLock, instLock,
                       mLock, age, maxIdle, period, wasCleaning, crashed>>
    BY DEF ScanClosed, ScanInUse, SkipTop, dicVars, lockVars
  <2>2. queue \in Seq(Ids) /\ queue # <<>>
    BY <1>1, <2>1 DEF TypeOK, ScanQueue
  <2> QED
    BY <2>1, <2>2, HeadTail
<1>3. /\ Moves(Handler, IF Len(queue) = 1 THEN "enumerate" ELSE "scan", id[Handler], eng[Handler])
      /\ CallTypes'
  <2>1. Handler \in Threads /\ (IF Len(queue) = 1 THEN "enumerate" ELSE "scan") \in Labels
    BY Distinct DEF Labels
  <2>2. Goto(Handler, IF Len(queue) = 1 THEN "enumerate" ELSE "scan")
    BY <1>2 DEF ScanClosed, ScanInUse, SkipTop, dicVars, lockVars, timerVars
  <2> QED
    BY <1>1, <2>1, <2>2, GotoTypes
<1>4. TypeOK'
  BY <1>1, <1>2, <1>3, Distinct DEF TypeOK, CallTypes
<1>5. ScanQueue'
  BY <1>1, <1>2, <1>3, Distinct DEF ScanQueue, Moves
<1>6. FitArguments(Handler, IF Len(queue) = 1 THEN "enumerate" ELSE "scan",
                   id[Handler], eng[Handler])
  BY <1>1, <1>2, <1>3, Distinct DEF FitArguments, WithId, Dying, Arguments
<1>7. KeepKeys
  BY <1>1, <1>2, Distinct DEF KeepKeys
<1>8. KeepOwners(Handler, IF Len(queue) = 1 THEN "enumerate" ELSE "scan")
  BY <1>1, <1>2, Distinct DEF KeepOwners, Owners, GLockOwner, InstLockOwner, MLockUsers,
      WithGLock, WithInstLock, WithMLock, Dying
<1>9. KeepReferences(Handler, IF Len(queue) = 1 THEN "enumerate" ELSE "scan", eng[Handler])
  BY <1>1, <1>2, Distinct DEF KeepReferences, References, NoEngine, WithEngine
<1>10. DroppedIdle'
  BY <1>1, <1>2, <1>3, Distinct DEF DroppedIdle, Owners, GLockOwner, Moves, Dying
<1>11. FastPhase'
  BY <1>1, <1>2, Distinct DEF FastPhase, Owners, GLockOwner, WithGLock
<1> QED
  BY <1>1, <1>2, <1>3, <1>4, <1>5, <1>6, <1>7, <1>8,
     <1>9, <1>10, <1>11, StepKeeps, Distinct

\* The last reference goes out of scope.
LEMMA DropLastKeeps ==
    ASSUME RegistryInv, NEW u \in Users, NEW e \in Engines, Drop(u, e),
           ~(dic[key[e]] = e \/ \E v \in Users \ {u} : e \in held[v])
    PROVE  RegistryInv'
<1>1. /\ TypeOK /\ Arguments /\ References /\ ScanQueue /\ DroppedIdle /\ FastPhase
      /\ Keys /\ Owners /\ CoreEntries /\ DeletedIsLive
  BY DEF RegistryInv
<1>2. /\ pc[u] = "idle"
      /\ held' = [held EXCEPT ![u] = held[u] \ {e}]
      /\ \A v \in Users \ {u} : held'[v] = held[v]
      /\ UNCHANGED <<coreDic, live, key, core, shared, dic, gLock, instLock, mLock,
                     queue, age, maxIdle, period, wasCleaning, crashed>>
  BY Distinct DEF Drop, Call, dicVars, lockVars, timerVars
<1>3. Moves(u, "dealloc", None, e) /\ CallTypes'
  <2>1. /\ u \in Threads /\ "dealloc" \in Labels
        /\ None \in Ids \cup {None} /\ e \in Engines \cup {None}
    BY <1>1, <1>2, Distinct DEF Labels, TypeOK
  <2>2. /\ pc' = [pc EXCEPT ![u] = "dealloc"]
        /\ id' = [id EXCEPT ![u] = None] /\ eng' = [eng EXCEPT ![u] = e]
    BY <1>1, <1>2 DEF Drop, Call, dicVars, lockVars, timerVars, TypeOK
  <2> QED
    BY <1>1, <2>1, <2>2, MoveTypes
<1>4. TypeOK'
  BY <1>1, <1>2, <1>3, Distinct DEF TypeOK, CallTypes
<1>5. ScanQueue'
  BY <1>1, <1>2, <1>3, Distinct DEF ScanQueue, Moves
<1>6. FitArguments(u, "dealloc", None, e)
  <2>1. key[e] # None /\ e # None
    BY <1>1, Distinct DEF Drop, Keys, HeldKeys
  <2>2. \A v \in Users : e \notin held'[v]
    BY <1>1, <1>2 DEF TypeOK
  <2>3. \A i \in Ids : dic'[i] # e
    BY <1>1, <1>2, <2>1 DEF Keys, DicKeys
  <2>4. \A s \in Threads \ {u} : pc'[s] \in Dying => eng'[s] # e
    BY <1>1, <1>3 DEF Drop, Keys, DyingApart, Apart, Moves
  <2>5. LetGo(u, e)
    BY <1>2, <2>1, <2>2, <2>3, <2>4 DEF LetGo
  <2> QED
    BY <2>5 DEF FitArguments, WithId
<1>7. KeepKeys
  BY <1>1, <1>2, Distinct DEF KeepKeys
<1>8. KeepOwners(u, "dealloc")
  BY <1>1, <1>2, Distinct DEF KeepOwners, Owners, GLockOwner, InstLockOwner, MLockUsers,
      WithGLock, WithInstLock, WithMLock, Dying
<1>9. KeepReferences(u, "dealloc", e)
  BY <1>1, <1>2, Distinct DEF KeepReferences, References, NoEngine, WithEngine
<1>10. DroppedIdle'
  BY <1>1, <1>2, <1>3, Distinct DEF DroppedIdle, Owners, GLockOwner, Moves, Dying
<1>11. FastPhase'
  BY <1>1, <1>2, Distinct DEF FastPhase, Owners, GLockOwner, WithGLock
<1> QED
  BY <1>1, <1>2, <1>3, <1>4, <1>5, <1>6, <1>7, <1>8,
     <1>9, <1>10, <1>11, StepKeeps, Distinct

\* close takes an engine out of the dictionary that nobody else refers to.
LEMMA CloseLastKeeps ==
    ASSUME RegistryInv, NEW u \in Users, Close(u),
           ~(dic[id[u]] = None \/ Held(dic[id[u]]))
    PROVE  RegistryInv'
<1>1. /\ TypeOK /\ Arguments /\ References /\ ScanQueue /\ DroppedIdle /\ FastPhase
      /\ Keys /\ Owners /\ CoreEntries /\ DeletedIsLive
  BY DEF RegistryInv
<1>2. /\ pc[u] = "close" /\ gLock = None /\ id[u] \in Ids /\ dic[id[u]] \in Engines
      /\ dic' = [dic EXCEPT ![id[u]] = None]
      /\ gLock' = u
      /\ UNCHANGED <<coreDic, live, key, core, shared, held, instLock, mLock, queue,
                     age, maxIdle, period, wasCleaning, crashed>>
  BY <1>1, Distinct DEF TypeOK, Arguments, WithId, Close, dicVars, lockVars, timerVars
<1>3. Moves(u, "dealloc", id[u], dic[id[u]]) /\ CallTypes'
  <2>1. /\ u \in Threads /\ "dealloc" \in Labels
        /\ id[u] \in Ids \cup {None} /\ dic[id[u]] \in Engines \cup {None}
    BY <1>1, <1>2, Distinct DEF Labels, TypeOK
  <2>2. /\ pc' = [pc EXCEPT ![u] = "dealloc"]
        /\ id' = [id EXCEPT ![u] = id[u]] /\ eng' = [eng EXCEPT ![u] = dic[id[u]]]
    BY <1>1, <1>2 DEF Close, dicVars, lockVars, timerVars, TypeOK
  <2> QED
    BY <1>1, <2>1, <2>2, MoveTypes
<1>4. TypeOK'
  BY <1>1, <1>2, <1>3, Distinct DEF TypeOK, CallTypes
<1>5. ScanQueue'
  BY <1>1, <1>2, <1>3, Distinct DEF ScanQueue, Moves
<1>6. FitArguments(u, "dealloc", id[u], dic[id[u]])
  <2> DEFINE e == dic[id[u]]
  <2>1. e \in Engines /\ e # None /\ key[e] = id[u]
    BY <1>1, <1>2, Distinct DEF Keys, DicKeys
  <2>2. \A v \in Users : e \notin held'[v]
    BY <1>2 DEF Held
  <2>3. \A i \in Ids : dic'[i] # e
    BY <1>1, <1>2, <2>1 DEF Keys, DicKeys, TypeOK
  <2>4. \A s \in Threads \ {u} : pc'[s] \in Dying => eng'[s] # e
    BY <1>1, <1>2, <1>3 DEF Keys, DyingApart, Apart, Moves
  <2>5. LetGo(u, e)
    BY <1>2, <2>1, <2>2, <2>3, <2>4, Distinct DEF LetGo
  <2> QED
    BY <2>1, <2>5 DEF FitArguments, WithId
<1>7. KeepKeys
  BY <1>1, <1>2, Distinct DEF KeepKeys
<1>8. KeepOwners(u, "dealloc")
  BY <1>1, <1>2, Distinct DEF KeepOwners, Owners, GLockOwner, InstLockOwner, MLockUsers,
      WithGLock, WithInstLock, WithMLock, Dying
<1>9. KeepReferences(u, "dealloc", dic[id[u]])
  BY <1>1, <1>2, Distinct DEF KeepReferences, References, NoEngine, WithEngine
<1>10. DroppedIdle'
  BY <1>1, <1>2, <1>3, Distinct DEF DroppedIdle, Owners, GLockOwner, Moves, Dying
<1>11. FastPhase'
  BY <1>1, <1>2, Distinct DEF FastPhase, Owners, GLockOwner, WithGLock
<1> QED
  BY <1>1, <1>2, <1>3, <1>4, <1>5, <1>6, <1>7, <1>8,
     <1>9, <1>10, <1>11, StepKeeps, Distinct

\* The handler drops an idle engine.
LEMMA ScanDropKeeps ==
    ASSUME RegistryInv, ScanDrop
    PROVE  RegistryInv'
<1>1. /\ TypeOK /\ Arguments /\ References /\ ScanQueue /\ DroppedIdle /\ FastPhase
      /\ Keys /\ Owners /\ CoreEntries /\ DeletedIsLive
  BY DEF RegistryInv
<1>2. /\ pc[Handler] = "scan" /\ queue # <<>>
      /\ Head(queue) \in Ids /\ dic[Head(queue)] \in Engines
      /\ dic' = [dic EXCEPT ![Head(queue)] = None]
      /\ queue' = Tail(queue) /\ queue' \in Seq(Ids)
      /\ mLock' = [mLock EXCEPT ![core[dic[Head(queue)]]] = Handler]
      /\ \A c \in Cores : mLock'[c] \in {mLock[c], None, Handler}
      /\ core[dic[Head(queue)]] \in Cores /\ age[dic[Head(queue)]] >= maxIdle
      /\ UNCHANGED <<coreDic, live, key, core, shared, held, gLock, instLock, age,
                     maxIdle, period, wasCleaning, crashed>>
  <2>1. queue \in Seq(Ids) /\ queue # <<>>
    BY <1>1 DEF ScanDrop, TypeOK, ScanQueue
  <2>2. Head(queue) \in Ids /\ Tail(queue) \in Seq(Ids)
    BY <2>1, HeadTail
  <2> QED
    BY <1>1, <2>1, <2>2 DEF ScanDrop, ScanIdle, Idle, TypeOK, lockVars
<1>3. Moves(Handler, "dealloc", id[Handler], dic[Head(queue)]) /\ CallTypes'
  <2>1. /\ Handler \in Threads /\ "dealloc" \in Labels
        /\ id[Handler] \in Ids \cup {None} /\ dic[Head(queue)] \in Engines \cup {None}
    BY <1>1, <1>2, Distinct DEF Labels, TypeOK
  <2>2. /\ pc' = [pc EXCEPT ![Handler] = "dealloc"]
        /\ id' = [id EXCEPT ![Handler] = id[Handler]]
        /\ eng' = [eng EXCEPT ![Handler] = dic[Head(queue)]]
    BY <1>1, <1>2 DEF ScanDrop, dicVars, lockVars, timerVars, TypeOK
  <2> QED
    BY <1>1, <2>1, <2>2, MoveTypes
<1>4. TypeOK'
  BY <1>1, <1>2, <1>3, Distinct DEF TypeOK, CallTypes
<1>5. ScanQueue'
  BY <1>1, <1>2, <1>3, Distinct DEF ScanQueue, Moves
<1>6. FitArguments(Handler, "dealloc", id[Handler], dic[Head(queue)])
  <2> DEFINE e == dic[Head(queue)]
  <2>1. e \in Engines /\ e # None /\ key[e] = Head(queue)
    BY <1>1, <1>2, Distinct DEF Keys, DicKeys
  <2>2. \A u \in Users : e \notin held'[u]
    BY <1>2 DEF ScanDrop, ScanIdle, Idle, Held
  <2>3. \A i \in Ids : dic'[i] # e
    BY <1>1, <1>2, <2>1 DEF Keys, DicKeys, TypeOK
  <2>4. \A s \in Threads \ {Handler} : pc'[s] \in Dying => eng'[s] # e
    BY <1>1, <1>2, <1>3 DEF Keys, DyingApart, Apart, Moves
  <2>5. LetGo(Handler, e)
    BY <1>2, <2>1, <2>2, <2>3, <2>4, Distinct DEF LetGo
  <2> QED
    BY <2>1, <2>5 DEF FitArguments, WithId
<1>7. KeepKeys
  BY <1>1, <1>2, Distinct DEF KeepKeys
<1>8. KeepOwners(Handler, "dealloc")
  BY <1>1, <1>2, Distinct DEF KeepOwners, Owners, GLockOwner, InstLockOwner, MLockUsers,
      WithGLock, WithInstLock, WithMLock, Dying
<1>9. KeepReferences(Handler, "dealloc", dic[Head(queue)])
  BY <1>1, <1>2, Distinct DEF KeepReferences, References, NoEngine, WithEngine
<1>10. DroppedIdle'
  <2> DEFINE e == dic[Head(queue)]
  <2>1. key[e] = Head(queue) /\ eng'[Handler] = e
    BY <1>1, <1>2, <1>3, Distinct DEF Keys, DicKeys, Moves
  <2>2. dic'[Head(queue)] = None /\ mLock'[core[e]] = Handler
    BY <1>1, <1>2 DEF TypeOK
  <2> QED
    BY <1>2, <2>1, <2>2 DEF DroppedIdle
<1>11. FastPhase'
  BY <1>1, <1>2, Distinct DEF FastPhase, Owners, GLockOwner, WithGLock
<1> QED
  BY <1>1, <1>2, <1>3, <1>4, <1>5, <1>6, <1>7, <1>8,
     <1>9, <1>10, <1>11, StepKeeps, Distinct

\* The handler has listed the idle engines.
LEMMA EnumerateKeeps ==
    ASSUME RegistryInv, Enumerate
    PROVE  RegistryInv'
<1>1. /\ TypeOK /\ Arguments /\ References /\ ScanQueue /\ DroppedIdle /\ FastPhase
      /\ Keys /\ Owners /\ CoreEntries /\ DeletedIsLive
  BY DEF RegistryInv
<1>2. /\ pc[Handler] = "enumerate"
      /\ gLock' = None
      /\ wasCleaning' = FALSE
      /\ queue' \in Seq(Ids)
      /\ period' = NewPeriod(queue') /\ period' \in {"off", "slow", "fast"}
      /\ UNCHANGED <<coreDic, live, key, core, shared, dic, held, instLock, mLock, age,
                     maxIdle, crashed>>
  <2> DEFINE found == {i \in Ids : dic[i] # None /\ Idle(dic[i])}
  <2>1. PICK q \in [1 .. Cardinality(found) -> found] : queue' = q /\ period' = NewPeriod(q)
    BY DEF Enumerate
  <2>2. Cardinality(found) \in Nat
    BY IdsAssumption, FS_Subset, FS_CardinalityType
  <2>3. q \in [1 .. Cardinality(found) -> Ids]
    BY <2>1
  <2>4. queue' \in Seq(Ids)
    <3>1. q \in UNION {[1 .. n -> Ids] : n \in Nat}
      BY <2>2, <2>3, Zenon
    <3>2. q \in Seq(Ids)
      BY <3>1, SeqDef
    <3> QED
      BY <2>1, <3>2
  <2>5. period' \in {"off", "slow", "fast"}
    BY <1>1, <2>1 DEF NewPeriod, TypeOK
  <2>6. wasCleaning' = FALSE /\ gLock' = None /\ pc[Handler] = "enumerate"
    BY DEF Enumerate
  <2>7. UNCHANGED <<coreDic, live, key, core, shared, dic, held, instLock, mLock, age,
                    maxIdle, crashed>>
    BY DEF Enumerate, dicVars
  <2>8. period' = NewPeriod(queue')
    BY <2>1
  <2> QED
    BY <2>4, <2>5, <2>6, <2>7, <2>8
<1>3. Moves(Handler, "idle", None, None) /\ CallTypes'
  <2>1. /\ Handler \in Threads /\ "idle" \in Labels
        /\ None \in Ids \cup {None} /\ None \in Engines \cup {None}
    BY <1>1, <1>2, Distinct DEF Labels, TypeOK
  <2>2. /\ pc' = [pc EXCEPT ![Handler] = "idle"]
        /\ id' = [id EXCEPT ![Handler] = None] /\ eng' = [eng EXCEPT ![Handler] = None]
    BY <1>1, <1>2 DEF Enumerate, Return, dicVars, lockVars, timerVars, TypeOK
  <2> QED
    BY <1>1, <2>1, <2>2, MoveTypes
<1>4. TypeOK'
  BY <1>1, <1>2, <1>3, Distinct DEF TypeOK, CallTypes
<1>5. ScanQueue'
  BY <1>1, <1>2, <1>3, Distinct DEF ScanQueue, Moves
<1>6. FitArguments(Handler, "idle", None, None)
  BY <1>1, <1>2, <1>3, Distinct DEF FitArguments, WithId, Dying, Arguments
<1>7. KeepKeys
  BY <1>1, <1>2, Distinct DEF KeepKeys
<1>8. KeepOwners(Handler, "idle")
  BY <1>1, <1>2, Distinct DEF KeepOwners, Owners, GLockOwner, InstLockOwner, MLockUsers,
      WithGLock, WithInstLock, WithMLock, Dying
<1>9. KeepReferences(Handler, "idle", None)
  BY <1>1, <1>2, Distinct DEF KeepReferences, References, NoEngine, WithEngine
<1>10. DroppedIdle'
  BY <1>1, <1>2, <1>3, Distinct DEF DroppedIdle, Owners, GLockOwner, Moves, Dying
<1>11. FastPhase'
  BY <1>1, <1>2, Distinct DEF FastPhase, Owners, GLockOwner, WithGLock, NewPeriod
<1> QED
  BY <1>1, <1>2, <1>3, <1>4, <1>5, <1>6, <1>7, <1>8,
     <1>9, <1>10, <1>11, StepKeeps, Distinct

\* The clean-up is switched on or off.
LEMMA SwitchKeeps ==
    ASSUME RegistryInv, (Enable \/ Disable)
    PROVE  RegistryInv'
<1>1. /\ TypeOK /\ Arguments /\ References /\ ScanQueue /\ DroppedIdle /\ FastPhase
      /\ Keys /\ Owners /\ CoreEntries /\ DeletedIsLive
  BY DEF RegistryInv
<1>2. /\ gLock = None
      /\ callVars' = callVars
      /\ maxIdle' \in {0, MaxIdle}
      /\ period' \in {"off", "slow"}
      /\ UNCHANGED <<coreDic, live, key, core, shared, dic, held, gLock, instLock,
                     mLock, queue, age, wasCleaning, crashed>>
  BY Distinct DEF Enable, Disable, dicVars, lockVars, timerVars
<1>3. Moves(Handler, pc[Handler], id[Handler], eng[Handler]) /\ CallTypes'
  BY <1>1, <1>2, Distinct, StayTypes DEF Enable, Disable, dicVars, lockVars, timerVars
<1>4. TypeOK'
  BY <1>1, <1>2, <1>3, Distinct DEF TypeOK, CallTypes
<1>5. ScanQueue'
  BY <1>1, <1>2, <1>3, Distinct DEF ScanQueue, Moves
<1>6. FitArguments(Handler, pc[Handler], id[Handler], eng[Handler])
  BY <1>1, <1>2, <1>3, Distinct DEF FitArguments, WithId, Dying, Arguments,
      DeletedIsLive
<1>7. KeepKeys
  BY <1>1, <1>2, Distinct DEF KeepKeys
<1>8. KeepOwners(Handler, pc[Handler])
  BY <1>1, <1>2, Distinct DEF KeepOwners, Owners, GLockOwner, InstLockOwner, MLockUsers,
      WithGLock, WithInstLock, WithMLock, Dying
<1>9. KeepReferences(Handler, pc[Handler], eng[Handler])
  BY <1>1, <1>2, Distinct DEF KeepReferences, References, NoEngine, WithEngine
<1>10. DroppedIdle'
  BY <1>1, <1>2, <1>3, Distinct DEF DroppedIdle, Owners, GLockOwner, Moves, Dying
<1>11. FastPhase'
  BY <1>1, <1>2, Distinct DEF FastPhase, Owners, GLockOwner, WithGLock
<1> QED
  BY <1>1, <1>2, <1>3, <1>4, <1>5, <1>6, <1>7, <1>8,
     <1>9, <1>10, <1>11, StepKeeps, Distinct

\* The timer fires.
LEMMA FireKeeps ==
    ASSUME RegistryInv, Fire
    PROVE  RegistryInv'
<1>1. /\ TypeOK /\ Arguments /\ References /\ ScanQueue /\ DroppedIdle /\ FastPhase
      /\ Keys /\ Owners /\ CoreEntries /\ DeletedIsLive
  BY DEF RegistryInv
<1>2. /\ pc[Handler] = "idle"
      /\ UNCHANGED <<coreDic, live, key, core, shared, dic, held, gLock, instLock,
                     mLock, queue, age, maxIdle, period, wasCleaning, crashed>>
  BY Distinct DEF Fire, Call, dicVars, lockVars, timerVars
<1>3. Moves(Handler, "fire", None, None) /\ CallTypes'
  <2>1. /\ Handler \in Threads /\ "fire" \in Labels
        /\ None \in Ids \cup {None} /\ None \in Engines \cup {None}
    BY <1>1, <1>2, Distinct DEF Labels, TypeOK
  <2>2. /\ pc' = [pc EXCEPT ![Handler] = "fire"]
        /\ id' = [id EXCEPT ![Handler] = None] /\ eng' = [eng EXCEPT ![Handler] = None]
    BY <1>1, <1>2 DEF Fire, Call, dicVars, lockVars, timerVars, TypeOK
  <2> QED
    BY <1>1, <2>1, <2>2, MoveTypes
<1>4. TypeOK'
  BY <1>1, <1>2, <1>3, Distinct DEF TypeOK, CallTypes
<1>5. ScanQueue'
  BY <1>1, <1>2, <1>3, Distinct DEF ScanQueue, Moves
<1>6. FitArguments(Handler, "fire", None, None)
  BY <1>1, <1>2, <1>3, Distinct DEF FitArguments, WithId, Dying, Arguments
<1>7. KeepKeys
  BY <1>1, <1>2, Distinct DEF KeepKeys
<1>8. KeepOwners(Handler, "fire")
  BY <1>1, <1>2, Distinct DEF KeepOwners, Owners, GLockOwner, InstLockOwner, MLockUsers,
      WithGLock, WithInstLock, WithMLock, Dying
<1>9. KeepReferences(Handler, "fire", None)
  BY <1>1, <1>2, Distinct DEF KeepReferences, References, NoEngine, WithEngine
<1>10. DroppedIdle'
  BY <1>1, <1>2, <1>3, Distinct DEF DroppedIdle, Owners, GLockOwner, Moves, Dying
<1>11. FastPhase'
  BY <1>1, <1>2, Distinct DEF FastPhase, Owners, GLockOwner, WithGLock
<1> QED
  BY <1>1, <1>2, <1>3, <1>4, <1>5, <1>6, <1>7, <1>8,
     <1>9, <1>10, <1>11, StepKeeps, Distinct

\* Time passes.
LEMMA TickKeeps ==
    ASSUME RegistryInv, Tick
    PROVE  RegistryInv'
<1>1. /\ TypeOK /\ Arguments /\ References /\ ScanQueue /\ DroppedIdle /\ FastPhase
      /\ Keys /\ Owners /\ CoreEntries /\ DeletedIsLive
  BY DEF RegistryInv
<1>2. /\ callVars' = callVars
      /\ age' \in [Engines -> 0 .. MaxIdle]
      /\ \A e \in Engines : age'[e] >= age[e]
      /\ UNCHANGED <<coreDic, live, key, core, shared, dic, held, gLock, instLock,
                     mLock, queue, maxIdle, period, wasCleaning, crashed>>
  <2>1. age' \in [Engines -> 0 .. MaxIdle]
    BY <1>1, IdleAssumption DEF Tick, TypeOK
  <2>2. \A e \in Engines : age'[e] >= age[e]
    BY <1>1, IdleAssumption DEF Tick, TypeOK
  <2>3. UNCHANGED <<coreDic, live, key, core, shared, dic, held, gLock, instLock, mLock,
                    queue, maxIdle, period, wasCleaning, crashed>>
    BY DEF Tick, dicVars, lockVars, timerVars
  <2>4. callVars' = callVars
    BY DEF Tick
  <2> QED
    BY <2>1, <2>2, <2>3, <2>4
<1>3. Moves(Handler, pc[Handler], id[Handler], eng[Handler]) /\ CallTypes'
  BY <1>1, <1>2, Distinct, StayTypes DEF Tick, dicVars, lockVars, timerVars
<1>4. TypeOK'
  BY <1>1, <1>2, <1>3, Distinct DEF TypeOK, CallTypes
<1>5. ScanQueue'
  BY <1>1, <1>2, <1>3, Distinct DEF ScanQueue, Moves
<1>6. FitArguments(Handler, pc[Handler], id[Handler], eng[Handler])
  BY <1>1, <1>2, <1>3, Distinct DEF FitArguments, WithId, Dying, Arguments,
      DeletedIsLive
<1>7. KeepKeys
  BY <1>1, <1>2, Distinct DEF KeepKeys
<1>8. KeepOwners(Handler, pc[Handler])
  BY <1>1, <1>2, Distinct DEF KeepOwners, Owners, GLockOwner, InstLockOwner, MLockUsers,
      WithGLock, WithInstLock, WithMLock, Dying
<1>9. KeepReferences(Handler, pc[Handler], eng[Handler])
  BY <1>1, <1>2, Distinct DEF KeepReferences, References, NoEngine, WithEngine
<1>10. DroppedIdle'
  <2>1. ASSUME pc[Handler] \in Dying
        PROVE  age'[eng[Handler]] >= maxIdle
    <3>1. eng[Handler] \in Engines /\ age[eng[Handler]] >= maxIdle
      BY <1>1, <2>1, Distinct DEF Arguments, DroppedIdle
    <3>2. age[eng[Handler]] \in Nat /\ age'[eng[Handler]] \in Nat /\ maxIdle \in Nat
      BY <1>1, <1>2, <3>1, IdleAssumption DEF TypeOK
    <3> QED
      BY <1>2, <3>1, <3>2
  <2> QED
    BY <1>1, <1>2, <1>3, <2>1, Distinct DEF DroppedIdle, Moves
<1>11. FastPhase'
  BY <1>1, <1>2, Distinct DEF FastPhase, Owners, GLockOwner, WithGLock
<1> QED
  BY <1>1, <1>2, <1>3, <1>4, <1>5, <1>6, <1>7, <1>8,
     <1>9, <1>10, <1>11, StepKeeps, Distinct

\* An instance is opened: a new engine, for the core of the C++ dictionary or
\* for a new one.
LEMMA GetOpenKeeps ==
    ASSUME RegistryInv, NEW u \in Users, GetOpen(u)
    PROVE  RegistryInv'
<1>1. /\ TypeOK /\ Arguments /\ References /\ ScanQueue /\ DroppedIdle /\ FastPhase
      /\ Keys /\ Owners /\ CoreEntries /\ DeletedIsLive
  BY DEF RegistryInv
<1> DEFINE i == id[u]
<1>2. PICK e \in Engines, c \in Cores :
        /\ key[e] = None
        /\ CoreFor(i, c)
        /\ shared' = IF c \in live THEN shared \cup {c} ELSE shared
        /\ live' = IF coreDic[i] = None THEN live \cup {c} ELSE live
        /\ coreDic' = [coreDic EXCEPT ![i] = c]
        /\ key' = [key EXCEPT ![e] = i]
        /\ core' = [core EXCEPT ![e] = c]
        /\ dic' = [dic EXCEPT ![i] = e]
        /\ held' = [held EXCEPT ![u] = @ \cup {e}]
        /\ age' = [age EXCEPT ![e] = 0]
  BY Zenon DEF GetOpen
<1>3. /\ pc[u] \in {"open", "use open", "copy open"} /\ i \in Ids /\ u \in Threads
      /\ instLock \in {None, u} /\ gLock = u /\ gLock' = None
      /\ UNCHANGED <<instLock, mLock, maxIdle, period, queue, wasCleaning, crashed>>
  BY <1>1, Distinct DEF GetOpen, Arguments, Owners, GLockOwner, WithId,
      WithGLock, timerVars
<1>4. PICK l, k, g :
        /\ Moves(u, l, k, g) /\ CallTypes'
        /\ \/ pc[u] = "open" /\ l = "idle" /\ k = None /\ g = None
           \/ pc[u] = "use open" /\ l = "use" /\ k = id[u] /\ g = eng[u]
           \/ pc[u] = "copy open" /\ l = "copy" /\ k = id[u] /\ g = eng[u]
  <2>1. PICK l, k, g : GoesBack(u, l, k, g) /\ Moves(u, l, k, g) /\ CallTypes'
    BY <1>1, GetReturnsMoves DEF GetOpen
  <2> QED
    BY <1>3, <2>1 DEF GoesBack
<1>5. TypeOK'
  <2>1. /\ dic' \in [Ids -> Engines \cup {None}] /\ coreDic' \in [Ids -> Cores \cup {None}]
        /\ key' \in [Engines -> Ids \cup {None}] /\ core' \in [Engines -> Cores \cup {None}]
    BY <1>1, <1>2, <1>3 DEF TypeOK
  <2>2. live' \subseteq Cores /\ shared' \subseteq Cores
    BY <1>1, <1>2 DEF TypeOK
  <2>3. held' \in [Users -> SUBSET Engines]
    BY <1>1, <1>2 DEF TypeOK
  <2>4. age' \in [Engines -> 0 .. MaxIdle]
    BY <1>1, <1>2, IdleAssumption DEF TypeOK
  <2> QED
    BY <1>1, <1>3, <1>4, <2>1, <2>2, <2>3, <2>4 DEF TypeOK, CallTypes
<1>6. ScanQueue' /\ Arguments'
  <2>1. FitArguments(u, l, k, g)
    BY <1>3, <1>4 DEF FitArguments, WithId, Dying
  <2>2. Arguments'
    BY <1>1, <1>3, <1>4, <2>1, ArgumentsKept
  <2>3. ScanQueue'
    BY <1>1, <1>3, <1>4, Distinct DEF ScanQueue, Moves
  <2> QED
    BY <2>2, <2>3
<1>7. Owners'
  <2>1. KeepOwners(u, l)
    BY <1>1, <1>3, <1>4, Distinct DEF KeepOwners, Owners, GLockOwner, InstLockOwner,
        MLockUsers, WithGLock, WithInstLock, WithMLock, Dying
  <2> QED
    BY <1>1, <1>3, <1>4, <2>1, OwnersKept
<1>8. Keys'
  <2>1. /\ \A f \in Engines : f # e => key'[f] = key[f]
        /\ key'[e] = i /\ i # None /\ e # None
        /\ \A j \in Ids : dic'[j] = (IF j = i THEN e ELSE dic[j])
        /\ \A v \in Users : \A f \in held'[v] : f = e \/ f \in held[v]
    BY <1>1, <1>2, <1>3, Distinct DEF TypeOK
  <2>2. /\ \A j \in Ids : dic[j] # e
        /\ \A v \in Users : e \notin held[v]
    BY <1>1, <1>2, <2>1, Distinct DEF Keys, DicKeys, HeldKeys
  <2>3. DicKeys'
    <3> SUFFICES ASSUME NEW j \in Ids, dic'[j] # None
                 PROVE  key'[dic'[j]] = j
      BY DEF DicKeys
    <3>1. CASE j = i
      BY <2>1, <3>1
    <3>2. CASE j # i
      <4>1. dic'[j] = dic[j] /\ dic[j] \in Engines /\ dic[j] # e
        BY <1>1, <2>1, <2>2, <3>2 DEF TypeOK
      <4> QED
        BY <1>1, <2>1, <4>1 DEF Keys, DicKeys
    <3> QED
      BY <3>1, <3>2
  <2>4. HeldKeys'
    BY <1>1, <2>1, <2>2 DEF Keys, HeldKeys, TypeOK
  <2>5. ASSUME NEW s \in Threads, pc'[s] \in Dying
        PROVE  LetGo(s, eng'[s])
    <3>1. pc[s] \in Dying /\ eng'[s] = eng[s]
      BY <1>4, <2>5 DEF Moves, Dying
    <3>2. Apart(s, eng[s]) /\ eng[s] \in Engines
      BY <1>1, <3>1 DEF Keys, DyingApart, Arguments
    <3>3. eng[s] # e
      BY <1>2, <3>2 DEF Apart
    <3>4. \A r \in Threads \ {s} : pc'[r] \in Dying => eng'[r] # eng[s]
      BY <1>4, <3>2 DEF Apart, Moves, Dying
    <3> QED
      BY <2>1, <3>1, <3>2, <3>3, <3>4 DEF LetGo, Apart
  <2>6. DyingApart'
    BY <2>5 DEF DyingApart, Apart, LetGo
  <2> QED
    BY <2>3, <2>4, <2>6 DEF Keys
<1>9. CoreEntries'
  <2>1. /\ \A f \in Engines : key'[f] = (IF f = e THEN i ELSE key[f])
        /\ \A f \in Engines : core'[f] = (IF f = e THEN c ELSE core[f])
        /\ \A j \in Ids : coreDic'[j] = (IF j = i THEN c ELSE coreDic[j])
        /\ c # None /\ i # None
    BY <1>1, <1>2, <1>3, Distinct DEF TypeOK
  <2>2. CASE coreDic[i] # None
    <3>1. c = coreDic[i] /\ c \in live /\ live' = live /\ shared' = shared \cup {c}
      BY <1>1, <1>2, <1>3, <2>2 DEF CoreFor, CoreEntries, OneCorePerFile
    <3>2. \A j \in Ids : coreDic'[j] = coreDic[j]
      BY <2>1, <3>1
    <3>3. OneCorePerFile'
      BY <1>1, <3>1, <3>2 DEF CoreEntries, OneCorePerFile
    <3>4. OnlySharedCoresDangle'
      BY <1>1, <2>1, <3>1 DEF CoreEntries, OnlySharedCoresDangle
    <3>5. CoreOfKey'
      BY <1>1, <1>3, <2>1, <3>1, <3>2 DEF CoreEntries, CoreOfKey
    <3>6. SharedCores'
      BY <1>1, <2>1, <3>1 DEF CoreEntries, SharedCores
    <3> QED
      BY <3>3, <3>4, <3>5, <3>6 DEF CoreEntries
  <2>3. CASE coreDic[i] = None
    <3>1. /\ c \notin live /\ live' = live \cup {c} /\ shared' = shared
          /\ \A f \in Engines : core[f] # c
      BY <1>2, <2>3 DEF CoreFor, Unused
    <3>2. OneCorePerFile'
      <4>1. \A j \in Ids : coreDic[j] # c
        BY <1>1, <2>1, <3>1 DEF CoreEntries, OneCorePerFile
      <4>2. \A d \in live : \E j \in Ids : coreDic[j] = d /\ j # i
        BY <1>1, <1>2, <2>3, Distinct DEF CoreEntries, OneCorePerFile, TypeOK
      <4>3. \A d \in live' : \E j \in Ids : coreDic'[j] = d
        BY <1>3, <2>1, <3>1, <4>2
      <4>4. \A j \in Ids : coreDic'[j] # None => coreDic'[j] \in live'
        BY <1>1, <2>1, <3>1 DEF CoreEntries, OneCorePerFile
      <4>5. \A j, h \in Ids : coreDic'[j] = coreDic'[h] /\ coreDic'[j] # None => j = h
        BY <1>1, <2>1, <4>1 DEF CoreEntries, OneCorePerFile
      <4> QED
        BY <4>3, <4>4, <4>5 DEF OneCorePerFile
    <3>3. OnlySharedCoresDangle'
      BY <1>1, <2>1, <3>1 DEF CoreEntries, OnlySharedCoresDangle
    <3>4. CoreOfKey'
      <4> SUFFICES ASSUME NEW f \in Engines, core'[f] \in live'
                   PROVE  key'[f] \in Ids /\ coreDic'[key'[f]] = core'[f]
        BY DEF CoreOfKey
      <4>1. CASE f = e
        BY <1>3, <2>1, <4>1
      <4>2. CASE f # e
        <5>1. core[f] \in live
          BY <2>1, <3>1, <4>2
        <5>2. key[f] \in Ids /\ coreDic[key[f]] = core[f]
          BY <1>1, <5>1 DEF CoreEntries, CoreOfKey
        <5>3. core[f] # None
          BY <1>1, <5>1, Distinct DEF TypeOK
        <5> QED
          BY <2>1, <2>3, <4>2, <5>2, <5>3
      <4> QED
        BY <4>1, <4>2
    <3>5. SharedCores'
      BY <1>1, <2>1, <3>1 DEF CoreEntries, SharedCores
    <3> QED
      BY <3>2, <3>3, <3>4, <3>5 DEF CoreEntries
  <2> QED
    BY <2>2, <2>3
<1>10. DeletedIsLive'
  <2>1. \A s \in Threads : pc'[s] # "delete core"
    BY <1>1, <1>3, <1>4, Distinct DEF Owners, InstLockOwner, WithInstLock, Moves
  <2> QED
    BY <2>1 DEF DeletedIsLive
<1>11. References'
  <2>1. KeepReferences(u, l, g)
    BY <1>1, <1>2, <1>3, <1>4 DEF KeepReferences, References, TypeOK, NoEngine, WithEngine
  <2> QED
    BY <1>1, <1>3, <1>4, <2>1, ReferencesKept
<1>12. DroppedIdle' /\ FastPhase'
  <2>1. pc[Handler] \notin Dying /\ pc'[Handler] = pc[Handler] /\ gLock # Handler
    BY <1>1, <1>3, <1>4, Distinct DEF Owners, GLockOwner, Moves
  <2>2. DroppedIdle'
    BY <2>1 DEF DroppedIdle
  <2>3. FastPhase'
    BY <1>1, <1>3, <2>1, Distinct DEF FastPhase
  <2> QED
    BY <2>2, <2>3
<1> QED
  BY <1>5, <1>6, <1>7, <1>8, <1>9, <1>10, <1>11, <1>12 DEF RegistryInv

\* A core is deleted, and with it the engine.
LEMMA DeleteCoreKeeps ==
    ASSUME RegistryInv, NEW t \in Threads, DeleteCore(t)
    PROVE  RegistryInv'
<1>1. /\ TypeOK /\ Arguments /\ References /\ ScanQueue /\ DroppedIdle /\ FastPhase
      /\ Keys /\ Owners /\ CoreEntries /\ DeletedIsLive
  BY DEF RegistryInv
<1> DEFINE e == eng[t]
           c == core[e]
<1>2. /\ pc[t] = "delete core" /\ e \in Engines /\ c \in live
      /\ live' = live \ {c}
      /\ coreDic' = [coreDic EXCEPT ![key[e]] = None]
      /\ key' = [key EXCEPT ![e] = None]
      /\ core' = [core EXCEPT ![e] = None]
      /\ mLock' = [mLock EXCEPT ![c] = None]
      /\ instLock = t /\ instLock' = None
      /\ age' = [age EXCEPT ![e] = 0]
      /\ shared' = IF \E f \in Engines \ {e} : core[f] = c THEN shared ELSE shared \ {c}
      /\ UNCHANGED <<dic, held, maxIdle, period, queue, crashed>>
  <2>1. pc[t] = "delete core" /\ e \in Engines /\ c \in live /\ instLock = t
    BY <1>1 DEF DeleteCore, Arguments, DeletedIsLive, Owners, InstLockOwner, WithInstLock, Dying
  <2> QED
    BY <2>1 DEF DeleteCore, Erased
<1>3. \E l \in {"idle", "enumerate"}, i \in Ids \cup {None}, f \in Engines \cup {None} :
        /\ Moves(t, l, i, f) /\ CallTypes'
        /\ gLock' = IF l = "idle" /\ gLock = t THEN None ELSE gLock
        /\ t \in Users => l = "idle" /\ f = None
        /\ t = Handler /\ l = "idle" => queue # <<>>
        /\ wasCleaning' \in BOOLEAN
        /\ ~(t = Handler /\ l = "idle") => wasCleaning' = wasCleaning
  <2>1. "idle" \in Labels /\ "enumerate" \in Labels
    BY DEF Labels
  <2>2. id[t] \in Ids \cup {None} /\ eng[t] \in Engines \cup {None}
    BY <1>1 DEF TypeOK
  <2>3. CASE t = Handler /\ queue = <<>>
    <3>1. Goto(t, "enumerate") /\ UNCHANGED <<gLock, wasCleaning>>
      BY <2>3 DEF DeleteCore
    <3>2. Moves(t, "enumerate", id[t], eng[t]) /\ CallTypes'
      BY <1>1, <2>1, <3>1, GotoTypes
    <3>3. wasCleaning' \in BOOLEAN
      BY <1>1, <3>1, Zenon DEF TypeOK
    <3> QED
      BY <2>2, <2>3, <3>1, <3>2, <3>3, Distinct
  <2>4. CASE ~(t = Handler /\ queue = <<>>)
    <3>1. /\ Return(t)
          /\ gLock' = IF gLock = t THEN None ELSE gLock
          /\ wasCleaning' = IF t = Handler THEN FALSE ELSE wasCleaning
      BY <2>4 DEF DeleteCore
    <3>2. Moves(t, "idle", None, None) /\ CallTypes'
      BY <1>1, <2>1, <3>1, MoveTypes DEF Return
    <3>3. wasCleaning' \in BOOLEAN
      BY <1>1, <3>1, Zenon DEF TypeOK
    <3>4. t = Handler \/ wasCleaning' = wasCleaning
      BY <3>1
    <3> QED
      BY <2>4, <3>1, <3>2, <3>3, <3>4
  <2> QED
    BY <2>3, <2>4
<1>4. PICK l \in {"idle", "enumerate"}, i \in Ids \cup {None}, f \in Engines \cup {None} :
        /\ Moves(t, l, i, f) /\ CallTypes'
        /\ gLock' = IF l = "idle" /\ gLock = t THEN None ELSE gLock
        /\ t \in Users => l = "idle" /\ f = None
        /\ t = Handler /\ l = "idle" => queue # <<>>
        /\ wasCleaning' \in BOOLEAN
        /\ ~(t = Handler /\ l = "idle") => wasCleaning' = wasCleaning
  BY <1>3
<1>5. TypeOK'
  <2>1. /\ coreDic' \in [Ids -> Cores \cup {None}] /\ key' \in [Engines -> Ids \cup {None}]
        /\ core' \in [Engines -> Cores \cup {None}]
        /\ mLock' \in [Cores -> Threads \cup {None}]
    BY <1>1, <1>2 DEF TypeOK
  <2>2. live' \subseteq Cores /\ shared' \subseteq Cores
    BY <1>1, <1>2 DEF TypeOK
  <2>3. age' \in [Engines -> 0 .. MaxIdle]
    <3>1. 0 \in 0 .. MaxIdle
      BY IdleAssumption
    <3>2. age \in [Engines -> 0 .. MaxIdle] /\ age' = [age EXCEPT ![e] = 0]
      BY <1>1, <1>2 DEF TypeOK
    <3> QED
      BY <3>1, <3>2, Zenon
  <2>4. gLock' \in Threads \cup {None} /\ instLock' \in Threads \cup {None}
    BY <1>1, <1>2, <1>4 DEF TypeOK
  <2> QED
    BY <1>1, <1>2, <1>4, <2>1, <2>2, <2>3, <2>4 DEF TypeOK, CallTypes
<1>6. ScanQueue' /\ Arguments'
  <2>1. FitArguments(t, l, i, f)
    BY DEF FitArguments, WithId, Dying
  <2>2. Arguments'
    BY <1>1, <1>4, <2>1, ArgumentsKept
  <2>3. ScanQueue'
    BY <1>1, <1>2, <1>4, Distinct DEF ScanQueue, Moves
  <2> QED
    BY <2>2, <2>3
<1>7. Owners'
  <2>1. \A d \in Cores : mLock'[d] \in {mLock[d], None}
    BY <1>1, <1>2 DEF TypeOK
  <2>2. KeepOwners(t, l)
    <3>1. l = "enumerate" => gLock = t /\ gLock' = t
      BY <1>1, <1>2, <1>4, Distinct DEF Owners, GLockOwner, Dying
    <3>2. \A s \in Threads \ {t} : (gLock' = s => gLock = s) /\ (gLock = s => gLock' = s)
      BY <1>4, Distinct
    <3>3. gLock' = t => l = "enumerate"
      BY <1>4, Distinct
    <3> QED
      BY <1>1, <1>2, <2>1, <3>1, <3>2, <3>3, Distinct DEF KeepOwners, Owners, MLockUsers,
          WithGLock, WithInstLock, WithMLock, Dying
  <2> QED
    BY <1>1, <1>4, <2>2, OwnersKept
<1>8. Keys'
  <2>1. Apart(t, e)
    BY <1>1, <1>2 DEF Keys, DyingApart, Dying
  <2>2. /\ \A g \in Engines : g # e => key'[g] = key[g]
        /\ \A j \in Ids : dic[j] # None => dic[j] \in Engines
        /\ \A u \in Users : held[u] \subseteq Engines
        /\ UNCHANGED <<dic, held>>
    BY <1>1, <1>2 DEF TypeOK
  <2>3. DicKeys'
    BY <1>1, <2>1, <2>2 DEF Keys, DicKeys, Apart
  <2>4. HeldKeys'
    BY <1>1, <2>1, <2>2 DEF Keys, HeldKeys, Apart
  <2>5. ASSUME NEW s \in Threads, pc'[s] \in Dying
        PROVE  LetGo(s, eng'[s])
    <3>1. s # t /\ pc[s] \in Dying /\ eng'[s] = eng[s]
      BY <1>4, <2>5 DEF Moves, Dying
    <3>2. Apart(s, eng[s]) /\ eng[s] \in Engines
      BY <1>1, <3>1 DEF Keys, DyingApart, Arguments
    <3>3. eng[s] # e
      BY <2>1, <3>1 DEF Apart
    <3>4. \A r \in Threads \ {s} : pc'[r] \in Dying => eng'[r] # eng[s]
      BY <1>4, <3>2 DEF Apart, Moves, Dying
    <3> QED
      BY <1>2, <2>2, <3>1, <3>2, <3>3, <3>4 DEF LetGo, Apart
  <2>6. DyingApart'
    BY <2>5 DEF DyingApart, Apart, LetGo
  <2> QED
    BY <2>3, <2>4, <2>6 DEF Keys
<1>9. CoreEntries'
  <2>1. key[e] \in Ids /\ coreDic[key[e]] = c /\ c # None
    BY <1>1, <1>2, Distinct DEF CoreEntries, CoreOfKey, TypeOK
  <2>2. /\ \A g \in Engines : key'[g] = (IF g = e THEN None ELSE key[g])
        /\ \A g \in Engines : core'[g] = (IF g = e THEN None ELSE core[g])
        /\ \A j \in Ids : coreDic'[j] = (IF j = key[e] THEN None ELSE coreDic[j])
        /\ live' = live \ {c}
    BY <1>1, <1>2 DEF TypeOK
  <2>3. OneCorePerFile'
    <3>1. \A j \in Ids : j # key[e] => coreDic[j] # c
      BY <1>1, <2>1 DEF CoreEntries, OneCorePerFile
    <3>2. \A j \in Ids : coreDic'[j] # None => coreDic'[j] \in live'
      BY <1>1, <2>2, <3>1 DEF CoreEntries, OneCorePerFile
    <3>3. \A d \in live' : \E j \in Ids : coreDic'[j] = d
      <4> SUFFICES ASSUME NEW d \in live'
                   PROVE  \E j \in Ids : coreDic'[j] = d
        OBVIOUS
      <4>1. d \in live /\ d # c
        BY <2>2
      <4>2. PICK j \in Ids : coreDic[j] = d
        BY <1>1, <4>1 DEF CoreEntries, OneCorePerFile
      <4> QED
        BY <2>1, <2>2, <4>1, <4>2
    <3>4. \A j, k \in Ids : coreDic'[j] = coreDic'[k] /\ coreDic'[j] # None => j = k
      BY <1>1, <2>2 DEF CoreEntries, OneCorePerFile
    <3> QED
      BY <3>2, <3>3, <3>4 DEF OneCorePerFile
  <2>4. OnlySharedCoresDangle'
    <3> SUFFICES ASSUME NEW g \in Engines, g # e, key[g] # None, core[g] \notin live \ {c}
                 PROVE  core[g] \in shared'
      BY <2>2 DEF OnlySharedCoresDangle
    <3>1. CASE core[g] = c
      BY <1>1, <1>2, <2>1, <3>1 DEF CoreEntries, SharedCores
    <3>2. CASE core[g] # c
      BY <1>1, <1>2, <3>2 DEF CoreEntries, OnlySharedCoresDangle
    <3> QED
      BY <3>1, <3>2
  <2>5. CoreOfKey'
    <3> SUFFICES ASSUME NEW g \in Engines, core'[g] \in live'
                 PROVE  key'[g] \in Ids /\ coreDic'[key'[g]] = core'[g]
      BY DEF CoreOfKey
    <3>1. g # e
      BY <1>1, <1>2, <2>2, Distinct DEF TypeOK
    <3>2. core[g] \in live /\ core[g] # c /\ core'[g] = core[g]
      BY <2>2, <3>1
    <3>3. key[g] \in Ids /\ coreDic[key[g]] = core[g]
      BY <1>1, <3>2 DEF CoreEntries, CoreOfKey
    <3> QED
      BY <2>1, <2>2, <3>1, <3>2, <3>3
  <2>6. SharedCores'
    <3> SUFFICES ASSUME NEW g \in Engines, NEW h \in Engines, g # h,
                        core'[g] = core'[h], core'[g] # None
                 PROVE  core'[g] \in shared'
      BY DEF SharedCores
    <3>1. g # e /\ h # e /\ core[g] = core[h] /\ core'[g] = core[g] /\ core[g] # None
      BY <2>2
    <3>2. core[g] \in shared
      BY <1>1, <3>1 DEF CoreEntries, SharedCores
    <3>3. core[g] = c => shared' = shared
      BY <1>2, <3>1
    <3>4. core[g] # c => core[g] \in shared'
      BY <1>2, <3>2
    <3> QED
      BY <3>1, <3>2, <3>3, <3>4
  <2> QED
    BY <2>3, <2>4, <2>5, <2>6 DEF CoreEntries
<1>10. DeletedIsLive'
  <2>1. \A s \in Threads : pc'[s] # "delete core"
    BY <1>1, <1>2, <1>4 DEF Owners, InstLockOwner, WithInstLock, Moves
  <2> QED
    BY <2>1 DEF DeletedIsLive
<1>11. References'
  <2>1. KeepReferences(t, l, f)
    BY <1>2, <1>4 DEF KeepReferences, NoEngine, WithEngine
  <2> QED
    BY <1>1, <1>4, <2>1, ReferencesKept
<1>12. DroppedIdle'
  <2> SUFFICES ASSUME pc'[Handler] \in Dying
               PROVE  /\ age'[eng[Handler]] >= maxIdle
                      /\ dic[key'[eng[Handler]]] = None
                      /\ core'[eng[Handler]] \in Cores
                      /\ mLock'[core'[eng[Handler]]] = Handler
                      /\ eng'[Handler] = eng[Handler]
    BY <1>2 DEF DroppedIdle
  <2> DEFINE g == eng[Handler]
  <2>1. Handler # t /\ pc[Handler] \in Dying /\ eng'[Handler] = g
    BY <1>4, Distinct DEF Moves, Dying
  <2>2. g \in Engines /\ g # e
    BY <1>1, <1>2, <2>1, Distinct DEF Arguments, Keys, DyingApart, Apart, Dying
  <2>3. age'[g] = age[g] /\ key'[g] = key[g] /\ core'[g] = core[g]
    BY <1>1, <1>2, <2>2 DEF TypeOK
  <2>4. /\ age[g] >= maxIdle /\ dic[key[g]] = None
        /\ core[g] \in Cores /\ mLock[core[g]] = Handler
    BY <1>1, <2>1 DEF DroppedIdle
  <2>5. core[g] # c
    BY <2>1, <2>4, Distinct DEF DeleteCore, Available
  <2>6. mLock'[core[g]] = Handler
    BY <1>1, <1>2, <2>4, <2>5 DEF TypeOK
  <2> QED
    BY <2>1, <2>3, <2>4, <2>6
<1>13. FastPhase'
  <2>1. CASE t = Handler
    <3>1. gLock = Handler
      BY <1>1, <1>2, <2>1 DEF Owners, GLockOwner, Dying
    <3>2. CASE l = "idle"
      BY <1>1, <1>2, <1>4, <2>1, <3>1, <3>2, Distinct DEF FastPhase
    <3>3. CASE l # "idle"
      <4>1. gLock' = Handler /\ wasCleaning' = wasCleaning
        BY <1>4, <3>1, <3>3
      <4> QED
        BY <1>1, <1>2, <3>1, <4>1 DEF FastPhase
    <3> QED
      BY <3>2, <3>3
  <2>2. CASE t # Handler
    <3>1. wasCleaning' = wasCleaning /\ (gLock' = Handler => gLock = Handler)
          /\ (gLock = Handler => gLock' = Handler)
      BY <1>4, <2>2, Distinct
    <3> QED
      BY <1>1, <1>2, <3>1 DEF FastPhase
  <2> QED
    BY <2>1, <2>2
<1> QED
  BY <1>5, <1>6, <1>7, <1>8, <1>9, <1>10, <1>11, <1>12, <1>13 DEF RegistryInv

\* Following a pointer to a deleted core changes nothing but the verdict.
LEMMA CrashKeeps ==
    ASSUME RegistryInv, NEW t, NEW e, Crash(t, e)
    PROVE  RegistryInv'
<1>1. /\ UNCHANGED <<dic, coreDic, live, key, core, shared, age, held, gLock, instLock,
                     mLock, pc, id, eng, maxIdle, period, queue, wasCleaning>>
      /\ crashed' = TRUE
  BY DEF Crash, dicVars, lockVars, callVars, timerVars
<1>2. TypeOK'
  <2>1. crashed' \in BOOLEAN
    BY <1>1, Zenon
  <2> QED
    BY <1>1, <2>1 DEF RegistryInv, TypeOK
<1>3. Arguments' /\ References' /\ ScanQueue' /\ DroppedIdle' /\ FastPhase'
  BY <1>1 DEF RegistryInv, Arguments, References, ScanQueue, DroppedIdle, FastPhase
<1>4. Keys' /\ Owners'
  BY <1>1 DEF RegistryInv, Keys, DicKeys, HeldKeys, DyingApart, Apart, Owners, GLockOwner,
      InstLockOwner, MLockUsers
<1>5. CoreEntries' /\ DeletedIsLive'
  BY <1>1 DEF RegistryInv, CoreEntries, OneCorePerFile, OnlySharedCoresDangle, CoreOfKey,
      SharedCores, DeletedIsLive
<1> QED
  BY <1>2, <1>3, <1>4, <1>5 DEF RegistryInv

\* A stuttering step changes nothing.
LEMMA StutterKeeps ==
    ASSUME RegistryInv, UNCHANGED vars
    PROVE  RegistryInv'
<1>1. UNCHANGED <<dic, coreDic, live, key, core, shared, age, held, gLock, instLock,
                  mLock, pc, id, eng, maxIdle, period, queue, wasCleaning, crashed>>
  BY DEF vars, dicVars, lockVars, callVars, timerVars
<1>2. TypeOK'
  BY <1>1 DEF RegistryInv, TypeOK
<1>3. Arguments' /\ References' /\ ScanQueue' /\ DroppedIdle' /\ FastPhase'
  BY <1>1 DEF RegistryInv, Arguments, References, ScanQueue, DroppedIdle, FastPhase
<1>4. Keys' /\ Owners'
  BY <1>1 DEF RegistryInv, Keys, DicKeys, HeldKeys, DyingApart, Apart, Owners, GLockOwner,
      InstLockOwner, MLockUsers
<1>5. CoreEntries' /\ DeletedIsLive'
  BY <1>1 DEF RegistryInv, CoreEntries, OneCorePerFile, OnlySharedCoresDangle, CoreOfKey,
      SharedCores, DeletedIsLive
<1> QED
  BY <1>2, <1>3, <1>4, <1>5 DEF RegistryInv

\* Every call that a user thread can begin.
LEMMA NewCallKeeps ==
    ASSUME RegistryInv, NEW u \in Users, NewCall(u)
    PROVE  RegistryInv'
<1>1. ASSUME NEW i \in Ids, GetCall(u, i) \/ BackupCall(u, i) \/ ApplicationHandler(u, i)
      PROVE  RegistryInv'
  BY <1>1, GetCallKeeps, BackupCallKeeps, ApplicationHandlerKeeps
<1>2. ASSUME NEW e \in Engines, Drop(u, e)
      PROVE  RegistryInv'
  BY <1>2, DropOneKeeps, DropLastKeeps
<1>3. ASSUME NEW e \in Engines, CloseCall(u, e) \/ Use(u, e)
      PROVE  RegistryInv'
  BY <1>3, CloseCallKeeps, UseKeeps, CrashKeeps
<1>4. ASSUME NEW dst \in Engines, NEW src \in Engines, ImportCall(u, dst, src)
      PROVE  RegistryInv'
  BY <1>4, ImportCallKeeps
<1> QED
  BY <1>1, <1>2, <1>3, <1>4 DEF NewCall

\* Every step of a call of a user thread.
LEMMA UserStepKeeps ==
    ASSUME RegistryInv, NEW u \in Users, Step(u)
    PROVE  RegistryInv'
<1>1. CASE GetFound(u) \/ GetMissed(u) \/ GetOpen(u)
  BY <1>1, GetFoundKeeps, GetMissedKeeps, GetOpenKeeps
<1>2. CASE Close(u)
  BY <1>2, CloseHeldKeeps, CloseLastKeeps
<1>3. CASE UseEnd(u) \/ ImportLockSource(u)
  BY <1>3, UseEndKeeps, ImportLockSourceKeeps, CrashKeeps
<1>4. CASE BackupCopy(u) \/ BackupEnd(u)
  BY <1>4, BackupCopyKeeps, BackupEndKeeps
<1> QED
  BY <1>1, <1>2, <1>3, <1>4 DEF Step

\* Every step of an engine's dealloc.
LEMMA DeallocKeeps ==
    ASSUME RegistryInv, NEW t \in Threads, Dealloc(t)
    PROVE  RegistryInv'
BY DeallocClearKeeps, CloseCoreKeeps, DeleteCoreKeeps, CrashKeeps DEF Dealloc

\* Every step of the clean-up's handler.
LEMMA HandlerStepKeeps ==
    ASSUME RegistryInv, HandlerStep
    PROVE  RegistryInv'
<1>1. CASE ScanCrash
  BY <1>1, CrashKeeps DEF ScanCrash
<1>2. CASE CleanUpBegin \/ ScanClosed \/ ScanInUse \/ ScanDrop \/ Enumerate
  BY <1>2, CleanUpBeginKeeps, SkipKeeps, ScanDropKeeps, EnumerateKeeps
<1> QED
  BY <1>1, <1>2 DEF HandlerStep

\* Every step keeps the invariant.
LEMMA NextKeeps ==
    ASSUME RegistryInv, [Next]_vars
    PROVE  RegistryInv'
<1>1. CASE UNCHANGED vars
  BY <1>1, StutterKeeps
<1>2. CASE Next
  BY <1>2, NewCallKeeps, UserStepKeeps, DeallocKeeps, HandlerStepKeeps, SwitchKeeps,
     FireKeeps, TickKeeps DEF Next
<1> QED
  BY <1>1, <1>2

\* Nothing is open at the beginning.
LEMMA InitHolds == ASSUME Init PROVE RegistryInv
<1>1. TypeOK
  <2>1. wasCleaning \in BOOLEAN /\ crashed \in BOOLEAN
    BY Zenon DEF Init
  <2>2. queue \in Seq(Ids)
    BY EmptySeq DEF Init
  <2>3. age \in [Engines -> 0 .. MaxIdle]
    BY IdleAssumption DEF Init
  <2> QED
    BY <2>1, <2>2, <2>3, Distinct DEF Init, TypeOK, Labels
<1>2. \A t \in Threads : pc[t] = "idle"
  BY DEF Init
<1>3. Arguments /\ ScanQueue /\ DeletedIsLive /\ DroppedIdle
  BY <1>2, Distinct DEF Arguments, ScanQueue, DeletedIsLive, DroppedIdle, WithId, Dying
<1>4. References /\ FastPhase
  BY <1>2, Distinct DEF Init, References, FastPhase, NoEngine, WithEngine
<1>5. DicKeys /\ HeldKeys
  BY DEF Init, DicKeys, HeldKeys
<1>6. Keys
  BY <1>2, <1>5 DEF Keys, DyingApart, Dying
<1>7. gLock = None /\ instLock = None /\ \A c \in Cores : mLock[c] = None
  BY DEF Init
<1>8. Owners
  BY <1>2, <1>7, Distinct DEF Owners, GLockOwner, InstLockOwner, MLockUsers, WithGLock,
      WithInstLock, Dying
<1>9. OneCorePerFile /\ OnlySharedCoresDangle
  BY DEF Init, OneCorePerFile, OnlySharedCoresDangle
<1>10. CoreOfKey /\ SharedCores
  BY DEF Init, CoreOfKey, SharedCores
<1> QED
  BY <1>1, <1>3, <1>4, <1>6, <1>8, <1>9, <1>10 DEF RegistryInv, CoreEntries

-----------------------------------------------------------------------------
(* The invariant that the theorems below rest on: calls, engines, mutexes  *)
(* and cores fit together in every reachable state.                        *)
THEOREM SpecRegistryInv == Spec => []RegistryInv
<1>1. Init => RegistryInv
  BY InitHolds
<1>2. RegistryInv /\ [Next]_vars => RegistryInv'
  BY NextKeeps
<1> QED
  BY <1>1, <1>2, PTL DEF Spec

(* Every variable of the registry keeps its type.  *)
THEOREM SpecRegistryTypeOK == Spec => []TypeOK
<1>1. RegistryInv => TypeOK
  BY DEF RegistryInv
<1> QED
  BY <1>1, SpecRegistryInv, PTL

(* A file has at most one core, and the C++ dictionary has the cores that  *)
(* are alive and no others (getKFKVWithID and KFKV::close, KFKV.mm).       *)
THEOREM SpecOneCorePerFile == Spec => []OneCorePerFile
<1>1. RegistryInv => OneCorePerFile
  BY DEF RegistryInv, CoreEntries
<1> QED
  BY <1>1, SpecRegistryInv, PTL

(* An engine points to a deleted core only if that core was handed to a    *)
(* second engine (dealloc, libKFKV.mm): the clean-up alone never does it.  *)
THEOREM SpecOnlySharedCoresDangle == Spec => []OnlySharedCoresDangle
<1>1. RegistryInv => OnlySharedCoresDangle
  BY DEF RegistryInv, CoreEntries
<1> QED
  BY <1>1, SpecRegistryInv, PTL

-----------------------------------------------------------------------------
(* Threads wait for each other for ever only where the order of the locks  *)
(* is left: in the clean-up, in imports and in an application's handler    *)
(* that opens an instance.  Elsewhere the owner of g_lock waits for        *)
(* g_instanceLock or for an m_lock, the owner of g_instanceLock waits for  *)
(* an m_lock, and the owner of an m_lock does not wait (libKFKV.mm and     *)
(* KFKV.mm).                                                               *)
THEOREM SpecDeadlocksLeaveLockOrder == Spec => []DeadlocksLeaveLockOrder
<1>1. ASSUME RegistryInv, NEW S \in SUBSET Threads, Deadlocked(S), Handler \notin S,
             \A t \in S : pc[t] # "import" /\ ~InApplicationHandler(t)
      PROVE  FALSE
  <2>1. /\ S \subseteq Users /\ None \notin S /\ S # {}
        /\ \A t \in S : WaitsFor(t) \in S
    BY <1>1, Distinct DEF Deadlocked
  <2>2. TypeOK /\ Arguments /\ Owners
    BY <1>1 DEF RegistryInv
  <2>3. \A t \in S : pc[t] \in Labels
    BY <2>2 DEF TypeOK
  <2>4. \A t \in S : pc[t] \notin WithMLock \cup {"idle", "scan", "enumerate"}
    BY <1>1, <2>1 DEF WithMLock, InApplicationHandler, WaitsFor
  <2>5. \A t \in S : pc[t] \notin {"dealloc", "delete core", "backup"}
    <3>1. \A c \in Cores : mLock[c] \notin S
      BY <2>1, <2>2, <2>4 DEF Owners, MLockUsers
    <3>2. ASSUME NEW t \in S, pc[t] \in {"dealloc", "delete core"}
          PROVE  FALSE
      <4>1. WaitsFor(t) = IF core[eng[t]] \in live THEN mLock[core[eng[t]]] ELSE None
        BY <3>2 DEF WaitsFor
      <4>2. core[eng[t]] \in live => core[eng[t]] \in Cores
        BY <2>2 DEF TypeOK
      <4> QED
        BY <2>1, <3>1, <4>1, <4>2
    <3>3. ASSUME NEW t \in S, pc[t] = "backup"
          PROVE  FALSE
      <4>1. WaitsFor(t) = IF coreDic[id[t]] # None THEN mLock[coreDic[id[t]]] ELSE None
        BY <3>3 DEF WaitsFor
      <4>2. id[t] \in Ids
        BY <2>2, <3>3 DEF Arguments, WithId
      <4>3. coreDic[id[t]] # None => coreDic[id[t]] \in Cores
        BY <2>2, <4>2 DEF TypeOK
      <4> QED
        BY <2>1, <3>1, <4>1, <4>3
    <3> QED
      BY <3>2, <3>3
  <2>6. \A t \in S : pc[t] \notin {"open", "close core"}
    <3>1. instLock \notin S
      BY <2>1, <2>2, <2>4, <2>5 DEF Owners, InstLockOwner, WithInstLock, WithMLock
    <3>2. \A t \in S : pc[t] \in {"open", "close core"} => WaitsFor(t) = instLock
      BY DEF WaitsFor
    <3> QED
      BY <2>1, <3>1, <3>2
  <2>7. \A t \in S : pc[t] \notin {"get", "close", "fire"}
    <3>1. gLock \notin S
      BY <2>1, <2>2, <2>4, <2>5, <2>6 DEF Owners, GLockOwner, WithGLock, WithMLock,
        Dying
    <3>2. \A t \in S : pc[t] \in {"get", "close", "fire"} => WaitsFor(t) = gLock
      BY DEF WaitsFor
    <3> QED
      BY <2>1, <3>1, <3>2
  <2> QED
    BY <1>1, <2>1, <2>3, <2>4, <2>5, <2>6, <2>7 DEF Labels, WithMLock
<1>2. RegistryInv => DeadlocksLeaveLockOrder
  BY <1>1 DEF DeadlocksLeaveLockOrder
<1> QED
  BY <1>2, SpecRegistryInv, PTL

-----------------------------------------------------------------------------
(* From the moment the handler drops an engine until its core is deleted,  *)
(* nobody refers to it, works in its core or opens its id again, and it    *)
(* has been idle for long enough (tryAutoCleanUpInstances, libKFKV.mm).    *)
THEOREM SpecCleanUpIsAlone == Spec => []CleanUpIsAlone
<1>1. ASSUME RegistryInv, pc[Handler] \in Dying
      PROVE  LET e == eng[Handler] IN
             /\ ~Held(e) /\ age[e] >= maxIdle
             /\ dic[key[e]] = None
             /\ mLock[core[e]] = Handler
             /\ \A u \in Users : pc[u] \notin {"open", "use open", "copy open"} /\ eng[u] # e
  <2> DEFINE e == eng[Handler]
  <2>1. /\ TypeOK /\ Arguments /\ References /\ DroppedIdle /\ Keys /\ Owners
    BY <1>1 DEF RegistryInv
  <2>2. age[e] >= maxIdle /\ dic[key[e]] = None /\ mLock[core[e]] = Handler
    BY <1>1, <2>1 DEF DroppedIdle
  <2>3. Apart(Handler, e) /\ e \in Engines /\ e # None
    BY <1>1, <2>1, Distinct DEF Keys, DyingApart, Arguments
  <2>4. \A u \in Users : pc[u] \notin {"open", "use open", "copy open"}
    BY <1>1, <2>1, Distinct DEF Owners, GLockOwner, WithGLock
  <2>5. ASSUME NEW u \in Users
        PROVE  eng[u] # e
    <3>1. pc[u] \in NoEngine \cup WithEngine \cup Dying
      BY <2>1, Distinct DEF TypeOK, References, Labels, NoEngine, WithEngine, Dying
    <3>2. CASE pc[u] \in NoEngine
      BY <2>1, <2>3, <3>2 DEF References
    <3>3. CASE pc[u] \in WithEngine
      BY <2>1, <2>3, <3>3 DEF References, Apart
    <3>4. CASE pc[u] \in Dying
      BY <2>3, <3>4, Distinct DEF Apart
    <3> QED
      BY <3>1, <3>2, <3>3, <3>4
  <2> QED
    BY <2>2, <2>3, <2>4, <2>5 DEF Held, Apart
<1>2. RegistryInv => CleanUpIsAlone
  BY <1>1 DEF CleanUpIsAlone, Dying
<1> QED
  BY <1>2, SpecRegistryInv, PTL

(* Once the handler has returned, the fast timer is on only while an entry *)
(* is queued (tryAutoCleanUpInstances, the two phases, libKFKV.mm).        *)
THEOREM SpecFastOnlyWithWork == Spec => []FastOnlyWithWork
<1>1. RegistryInv => FastOnlyWithWork
  BY DEF RegistryInv, FastPhase, FastOnlyWithWork
<1> QED
  BY <1>1, SpecRegistryInv, PTL
=============================================================================
