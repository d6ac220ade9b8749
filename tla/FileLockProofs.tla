-------------------------- MODULE FileLockProofs --------------------------
(***************************************************************************)
(* For every set of processes and every bound: FileLock is a readers-      *)
(* writer lock.  The invariant FLInv ties each process's two counters to   *)
(* the kernel's table, case by case of where doLock is; the kernel's own   *)
(* exclusion (KernelExcl) then carries over to the counters.               *)
(***************************************************************************)
EXTENDS FileLock, TLAPS

\* The kernel's table is a readers-writer table.
KernelExcl == \A p, q \in Procs : p # q /\ flk[p] = "EX" => flk[q] = "none"

\* How p's counters and its place in doLock relate to p's kernel lock.
LockState(p) ==
    /\ exCount[p] > 0 <=> flk[p] = "EX"
    /\ pc[p] # "idle" => exCount[p] = 0
    /\ pc[p] = "flock" => flk[p] = "none" /\ (shCount[p] > 0 => req[p].type = "EX")
    /\ pc[p] \in {"tryup", "unlockfirst"} => shCount[p] > 0 /\ req[p].type = "EX"
    /\ pc[p] = "recover" => flk[p] = "none" /\ shCount[p] > 0
    /\ pc[p] \in {"idle", "tryup", "unlockfirst"} /\ shCount[p] > 0 /\ exCount[p] = 0 /\ ~lost[p]
         => flk[p] = "SH"
    /\ flk[p] = "SH" => shCount[p] > 0
    /\ lost[p] => flk[p] = "none"

FLInv == TypeOK /\ KernelExcl /\ \A p \in Procs : LockState(p)

\* What the helpers of the handlers leave in the counters.
LEMMA CountKeepsType ==
    ASSUME TypeOK, NEW p \in Procs, NEW t \in LockType, Count(p, t)
    PROVE  shCount' \in [Procs -> Nat] /\ exCount' \in [Procs -> Nat]
<1>1. shCount \in [Procs -> Nat] /\ exCount \in [Procs -> Nat]
  BY DEF TypeOK
<1> QED
  BY <1>1 DEF Count

LEMMA TakeKeepsType ==
    ASSUME TypeOK, NEW p \in Procs, NEW t \in LockType, Take(p, t)
    PROVE  held' \in [Procs -> [LockType -> Nat]]
BY DEF TypeOK, Take, LockType

LEMMA ReleaseKeepsType ==
    ASSUME TypeOK, NEW p \in Procs, NEW t \in LockType, Release(p, t)
    PROVE  held' \in [Procs -> [LockType -> Nat]]
BY DEF TypeOK, Release, LockType

LEMMA ChargeKeepsType ==
    ASSUME TypeOK, NEW p \in Procs, Charge(p)
    PROVE  used' \in [Procs -> Nat] /\ calls' \in [Procs -> Nat]
<1>1. used \in [Procs -> Nat] /\ calls \in [Procs -> Nat]
  BY DEF TypeOK
<1> QED
  BY <1>1 DEF Charge

LEMMA GrantedKeepsType ==
    ASSUME TypeOK, NEW p \in Procs, Granted(p)
    PROVE  TypeOK'
<1>1. req[p].type \in LockType
  BY DEF TypeOK
<1>2. shCount' \in [Procs -> Nat] /\ exCount' \in [Procs -> Nat]
  BY <1>1, CountKeepsType DEF Granted
<1>3. held' \in [Procs -> [LockType -> Nat]]
  BY <1>1, TakeKeepsType DEF Granted
<1>4. flk' \in [Procs -> {"none", "SH", "EX"}]
  BY <1>1 DEF TypeOK, Granted, LockType
<1> QED
  BY <1>2, <1>3, <1>4 DEF TypeOK, Granted, NoReq, LockType

\* Every variable keeps its type (all handlers of InterProcessLock.mm).
THEOREM TypeCorrect == Spec => []TypeOK
<1>1. Init => TypeOK
  BY DEF Init, TypeOK, NoReq, LockType
<1>2. TypeOK /\ [Next]_vars => TypeOK'
  <2> SUFFICES ASSUME TypeOK, [Next]_vars PROVE TypeOK'
    OBVIOUS
  <2> USE DEF TypeOK, LockType, NoReq
  <2>1. ASSUME NEW p \in Procs, NEW t \in LockType, LockNested(p, t) PROVE TypeOK'
    BY <2>1, CountKeepsType, TakeKeepsType, ChargeKeepsType DEF LockNested
  <2>2. ASSUME NEW p \in Procs, NEW t \in LockType, NEW w \in BOOLEAN, LockCall(p, t, w)
        PROVE TypeOK'
    BY <2>2, ChargeKeepsType DEF LockCall
  <2>3. ASSUME NEW p \in Procs, TryUpgrade(p) PROVE TypeOK'
    BY <2>3, GrantedKeepsType DEF TryUpgrade
  <2>4. ASSUME NEW p \in Procs, UnlockFirst(p) PROVE TypeOK'
    BY <2>4 DEF UnlockFirst
  <2>5. ASSUME NEW p \in Procs, FlockGranted(p) PROVE TypeOK'
    BY <2>5, GrantedKeepsType DEF FlockGranted
  <2>6. ASSUME NEW p \in Procs, FlockWouldBlock(p) PROVE TypeOK'
    <3>1. held' \in [Procs -> [LockType -> Nat]]
      <4>1. CASE req[p].wait
        BY <2>6, <4>1, TakeKeepsType DEF FlockWouldBlock, FlockFails
      <4>2. CASE ~req[p].wait
        BY <2>6, <4>2 DEF FlockWouldBlock, FlockFails
      <4> QED
        BY <4>1, <4>2
    <3>2. pc' \in [Procs -> {"idle", "tryup", "unlockfirst", "flock", "recover"}]
      BY <2>6 DEF FlockWouldBlock, FlockFails
    <3> QED
      BY <2>6, <3>1, <3>2 DEF FlockWouldBlock, FlockFails
  <2>7. ASSUME NEW p \in Procs, FlockInterrupted(p) PROVE TypeOK'
    <3>1. held' \in [Procs -> [LockType -> Nat]]
      <4>1. CASE req[p].wait
        BY <2>7, <4>1, TakeKeepsType DEF FlockInterrupted, FlockFails
      <4>2. CASE ~req[p].wait
        BY <2>7, <4>2 DEF FlockInterrupted, FlockFails
      <4> QED
        BY <4>1, <4>2
    <3>2. pc' \in [Procs -> {"idle", "tryup", "unlockfirst", "flock", "recover"}]
      BY <2>7 DEF FlockInterrupted, FlockFails
    <3> QED
      BY <2>7, <3>1, <3>2 DEF FlockInterrupted, FlockFails
  <2>8. ASSUME NEW p \in Procs, RecoverShared(p) PROVE TypeOK'
    BY <2>8 DEF RecoverShared
  <2>9. ASSUME NEW p \in Procs, RecoverInterrupted(p) PROVE TypeOK'
    BY <2>9 DEF RecoverInterrupted
  <2>10. ASSUME NEW p \in Procs, NEW t \in LockType, UnlockNothing(p, t) PROVE TypeOK'
    BY <2>10, ReleaseKeepsType DEF UnlockNothing, Release
  <2>11. ASSUME NEW p \in Procs, UnlockShared(p) PROVE TypeOK'
    <3>1. flk' \in [Procs -> {"none", "SH", "EX"}] /\ lost' \in [Procs -> BOOLEAN]
      BY <2>11 DEF UnlockShared
    <3>2. shCount' \in [Procs -> Nat] /\ exCount' \in [Procs -> Nat]
      BY <2>11 DEF UnlockShared
    <3> QED
      BY <2>11, <3>1, <3>2, ReleaseKeepsType DEF UnlockShared, Release
  <2>12. ASSUME NEW p \in Procs, UnlockExclusive(p) PROVE TypeOK'
    <3>1. flk' \in [Procs -> {"none", "SH", "EX"}]
      BY <2>12 DEF UnlockExclusive
    <3>2. shCount' \in [Procs -> Nat] /\ exCount' \in [Procs -> Nat]
      BY <2>12 DEF UnlockExclusive
    <3> QED
      BY <2>12, <3>1, <3>2, ReleaseKeepsType DEF UnlockExclusive, Release
  <2>13. ASSUME NEW p \in Procs, Kill(p) PROVE TypeOK'
    BY <2>13 DEF Kill
  <2>14. CASE UNCHANGED vars
    BY <2>14 DEF vars
  <2> QED
    BY <2>1, <2>2, <2>3, <2>4, <2>5, <2>6, <2>7, <2>8, <2>9, <2>10, <2>11, <2>12, <2>13, <2>14
    DEF Next, Progress
<1> QED
  BY <1>1, <1>2, PTL DEF Spec
\* The counters stay tied to the kernel's table.
LEMMA FLInvInductive == FLInv /\ TypeOK' /\ [Next]_vars => FLInv'
<1> SUFFICES ASSUME FLInv, TypeOK', [Next]_vars
             PROVE  KernelExcl' /\ \A q \in Procs : LockState(q)'
  BY DEF FLInv
<1> USE DEF FLInv, TypeOK, LockType, NoReq
<1>1. ASSUME NEW p \in Procs, NEW t \in LockType, LockNested(p, t)
     PROVE  KernelExcl' /\ \A q \in Procs : LockState(q)'
  <2>1. KernelExcl'
    BY <1>1 DEF LockNested, Nested, Count, KernelExcl, LockState
  <2>2. ASSUME NEW q \in Procs PROVE LockState(q)'
    <3>1. CASE q = p
      BY <1>1, <3>1 DEF LockNested, Nested, Count, LockState
    <3>2. CASE q # p
      BY <1>1, <3>2 DEF LockNested, Nested, Count, LockState
    <3> QED
      BY <3>1, <3>2
  <2> QED
    BY <2>1, <2>2
<1>2. ASSUME NEW p \in Procs, NEW t \in LockType, NEW w \in BOOLEAN,
               LockCall(p, t, w)
     PROVE  KernelExcl' /\ \A q \in Procs : LockState(q)'
  <2>1. KernelExcl'
    BY <1>2 DEF LockCall, Nested, KernelExcl, LockState
  <2>2. ASSUME NEW q \in Procs PROVE LockState(q)'
    <3>1. CASE q = p
      BY <1>2, <3>1 DEF LockCall, Nested, LockState
    <3>2. CASE q # p
      BY <1>2, <3>2 DEF LockCall, Nested, LockState
    <3> QED
      BY <3>1, <3>2
  <2> QED
    BY <2>1, <2>2
<1>3. ASSUME NEW p \in Procs, TryUpgrade(p)
     PROVE  KernelExcl' /\ \A q \in Procs : LockState(q)'
  <2>1. KernelExcl'
    BY <1>3 DEF TryUpgrade, Granted, Count, Compatible, KernelExcl, LockState
  <2>2. ASSUME NEW q \in Procs PROVE LockState(q)'
    <3>1. CASE q = p
      BY <1>3, <3>1 DEF TryUpgrade, Granted, Count, Compatible, LockState
    <3>2. CASE q # p
      BY <1>3, <3>2 DEF TryUpgrade, Granted, Count, Compatible, LockState
    <3> QED
      BY <3>1, <3>2
  <2> QED
    BY <2>1, <2>2
<1>4. ASSUME NEW p \in Procs, UnlockFirst(p)
     PROVE  KernelExcl' /\ \A q \in Procs : LockState(q)'
  <2>1. KernelExcl'
    BY <1>4 DEF UnlockFirst, KernelExcl, LockState
  <2>2. ASSUME NEW q \in Procs PROVE LockState(q)'
    <3>1. CASE q = p
      BY <1>4, <3>1 DEF UnlockFirst, LockState
    <3>2. CASE q # p
      BY <1>4, <3>2 DEF UnlockFirst, LockState
    <3> QED
      BY <3>1, <3>2
  <2> QED
    BY <2>1, <2>2
<1>5. ASSUME NEW p \in Procs, FlockGranted(p)
     PROVE  KernelExcl' /\ \A q \in Procs : LockState(q)'
  <2>1. KernelExcl'
    BY <1>5 DEF FlockGranted, Granted, Count, Compatible, KernelExcl, LockState
  <2>2. ASSUME NEW q \in Procs PROVE LockState(q)'
    <3>1. CASE q = p
      BY <1>5, <3>1 DEF FlockGranted, Granted, Count, Compatible, LockState
    <3>2. CASE q # p
      BY <1>5, <3>2 DEF FlockGranted, Granted, Count, Compatible, LockState
    <3> QED
      BY <3>1, <3>2
  <2> QED
    BY <2>1, <2>2
<1>6. ASSUME NEW p \in Procs, FlockWouldBlock(p)
     PROVE  KernelExcl' /\ \A q \in Procs : LockState(q)'
  <2>1. KernelExcl'
    BY <1>6 DEF FlockWouldBlock, FlockFails, unLockFirstIfNeeded, KernelExcl, LockState
  <2>2. ASSUME NEW q \in Procs PROVE LockState(q)'
    <3>1. CASE q = p
      BY <1>6, <3>1 DEF FlockWouldBlock, FlockFails, unLockFirstIfNeeded, LockState
    <3>2. CASE q # p
      BY <1>6, <3>2 DEF FlockWouldBlock, FlockFails, unLockFirstIfNeeded, LockState
    <3> QED
      BY <3>1, <3>2
  <2> QED
    BY <2>1, <2>2
<1>7. ASSUME NEW p \in Procs, FlockInterrupted(p)
     PROVE  KernelExcl' /\ \A q \in Procs : LockState(q)'
  <2>1. KernelExcl'
    BY <1>7 DEF FlockInterrupted, FlockFails, unLockFirstIfNeeded, KernelExcl, LockState
  <2>2. ASSUME NEW q \in Procs PROVE LockState(q)'
    <3>1. CASE q = p
      BY <1>7, <3>1 DEF FlockInterrupted, FlockFails, unLockFirstIfNeeded, LockState
    <3>2. CASE q # p
      BY <1>7, <3>2 DEF FlockInterrupted, FlockFails, unLockFirstIfNeeded, LockState
    <3> QED
      BY <3>1, <3>2
  <2> QED
    BY <2>1, <2>2
<1>8. ASSUME NEW p \in Procs, RecoverShared(p)
     PROVE  KernelExcl' /\ \A q \in Procs : LockState(q)'
  <2>1. KernelExcl'
    BY <1>8 DEF RecoverShared, Compatible, KernelExcl, LockState
  <2>2. ASSUME NEW q \in Procs PROVE LockState(q)'
    <3>1. CASE q = p
      BY <1>8, <3>1 DEF RecoverShared, Compatible, LockState
    <3>2. CASE q # p
      BY <1>8, <3>2 DEF RecoverShared, Compatible, LockState
    <3> QED
      BY <3>1, <3>2
  <2> QED
    BY <2>1, <2>2
<1>9. ASSUME NEW p \in Procs, RecoverInterrupted(p)
     PROVE  KernelExcl' /\ \A q \in Procs : LockState(q)'
  <2>1. KernelExcl'
    BY <1>9 DEF RecoverInterrupted, KernelExcl, LockState
  <2>2. ASSUME NEW q \in Procs PROVE LockState(q)'
    <3>1. CASE q = p
      BY <1>9, <3>1 DEF RecoverInterrupted, LockState
    <3>2. CASE q # p
      BY <1>9, <3>2 DEF RecoverInterrupted, LockState
    <3> QED
      BY <3>1, <3>2
  <2> QED
    BY <2>1, <2>2
<1>10. ASSUME NEW p \in Procs, NEW t \in LockType, UnlockNothing(p, t)
     PROVE  KernelExcl' /\ \A q \in Procs : LockState(q)'
  <2>1. KernelExcl'
    BY <1>10 DEF UnlockNothing, Release, KernelExcl, LockState
  <2>2. ASSUME NEW q \in Procs PROVE LockState(q)'
    <3>1. CASE q = p
      BY <1>10, <3>1 DEF UnlockNothing, Release, LockState
    <3>2. CASE q # p
      BY <1>10, <3>2 DEF UnlockNothing, Release, LockState
    <3> QED
      BY <3>1, <3>2
  <2> QED
    BY <2>1, <2>2
<1>11. ASSUME NEW p \in Procs, UnlockShared(p)
     PROVE  KernelExcl' /\ \A q \in Procs : LockState(q)'
  <2>1. KernelExcl'
    BY <1>11 DEF UnlockShared, Release, KernelExcl, LockState
  <2>2. ASSUME NEW q \in Procs PROVE LockState(q)'
    <3>1. CASE q = p
      BY <1>11, <3>1 DEF UnlockShared, Release, LockState
    <3>2. CASE q # p
      BY <1>11, <3>2 DEF UnlockShared, Release, LockState
    <3> QED
      BY <3>1, <3>2
  <2> QED
    BY <2>1, <2>2
<1>12. ASSUME NEW p \in Procs, UnlockExclusive(p)
     PROVE  KernelExcl' /\ \A q \in Procs : LockState(q)'
  <2>1. KernelExcl'
    BY <1>12 DEF UnlockExclusive, Release, KernelExcl, LockState
  <2>2. ASSUME NEW q \in Procs PROVE LockState(q)'
    <3>1. CASE q = p
      BY <1>12, <3>1 DEF UnlockExclusive, Release, LockState
    <3>2. CASE q # p
      BY <1>12, <3>2 DEF UnlockExclusive, Release, LockState
    <3> QED
      BY <3>1, <3>2
  <2> QED
    BY <2>1, <2>2
<1>13. ASSUME NEW p \in Procs, Kill(p)
     PROVE  KernelExcl' /\ \A q \in Procs : LockState(q)'
  <2>1. KernelExcl'
    BY <1>13 DEF Kill, KernelExcl, LockState
  <2>2. ASSUME NEW q \in Procs PROVE LockState(q)'
    <3>1. CASE q = p
      BY <1>13, <3>1 DEF Kill, LockState
    <3>2. CASE q # p
      BY <1>13, <3>2 DEF Kill, LockState
    <3> QED
      BY <3>1, <3>2
  <2> QED
    BY <2>1, <2>2
<1>14. CASE UNCHANGED vars
  BY <1>14 DEF vars, KernelExcl, LockState
<1> QED
  BY <1>1, <1>2, <1>3, <1>4, <1>5, <1>6, <1>7, <1>8, <1>9, <1>10, <1>11, <1>12, <1>13, <1>14 DEF Next, Progress

\* The inductive invariant holds in every reachable state.
THEOREM FLInvHolds == Spec => []FLInv
<1>1. Init => FLInv
  BY DEF Init, FLInv, TypeOK, KernelExcl, LockState, NoReq, LockType
<1>2. FLInv /\ TypeOK' /\ [Next]_vars => FLInv'
  BY FLInvInductive
<1> QED
  BY <1>1, <1>2, TypeCorrect, PTL DEF Spec

\* However many processes share the file, whatever they nest, whichever are
\* killed and whichever flock() is interrupted, the re-take of a failed upgrade
\* included: no two count an exclusive lock, and the only ones to count a
\* shared lock beside it are inside their own upgrade or blind since one of
\* theirs failed (doLock, platformLock, unlock in InterProcessLock.mm).
THEOREM FileLockExcludes == Spec => []MutualExclusion
<1>1. FLInv => MutualExclusion
  BY DEF FLInv, MutualExclusion, KernelExcl, LockState, TypeOK, Access
<1> QED
  BY <1>1, FLInvHolds, PTL

\* Counters and kernel disagree only in a process's upgrade and after its
\* failed re-take; there the process holds nothing that could keep others
\* waiting, and elsewhere the last unlock() gives the kernel's lock back.
THEOREM CountersAgree == Spec => []CountersMatchKernel
<1>1. FLInv => CountersMatchKernel
  <2> SUFFICES ASSUME FLInv, NEW p \in Procs
               PROVE  /\ Access(p) \in {"SH", "EX"} => flk[p] = Access(p)
                      /\ Access(p) \in {"up", "blind"} => flk[p] = "none"
                      /\ flk[p] # "none" => shCount[p] + exCount[p] > 0
    BY DEF CountersMatchKernel
  <2>1. LockState(p) /\ shCount[p] \in Nat /\ exCount[p] \in Nat
        /\ flk[p] \in {"none", "SH", "EX"}
        /\ pc[p] \in {"idle", "tryup", "unlockfirst", "flock", "recover"}
    BY DEF FLInv, TypeOK
  <2>2. Access(p) \in {"SH", "EX"} => flk[p] = Access(p)
    BY <2>1 DEF LockState, Access
  <2>3. Access(p) \in {"up", "blind"} => flk[p] = "none"
    BY <2>1 DEF LockState, Access
  <2>4. flk[p] # "none" => shCount[p] + exCount[p] > 0
    BY <2>1 DEF LockState
  <2> QED
    BY <2>2, <2>3, <2>4
<1> QED
  BY <1>1, FLInvHolds, PTL

\* The kernel's shared lock is only given up under a positive count by the
\* process's own upgrade ("let's be gentleman").
THEOREM SharedLockKept == Spec => SharedKept
<1>1. FLInv /\ [Next]_vars =>
        [\A p \in Procs :
           flk[p] # "none" /\ flk'[p] = "none" /\ shCount'[p] > 0
              => pc[p] = "unlockfirst" /\ req[p].type = "EX"]_vars
  <2> SUFFICES ASSUME FLInv, Next, NEW q \in Procs,
                      flk[q] # "none", flk'[q] = "none", shCount'[q] > 0
               PROVE  pc[q] = "unlockfirst" /\ req[q].type = "EX"
    BY DEF FLInv
  <2> USE DEF FLInv, TypeOK, LockType
  <2>1. ASSUME NEW p \in Procs, UnlockFirst(p)
        PROVE  pc[q] = "unlockfirst" /\ req[q].type = "EX"
    BY <2>1 DEF UnlockFirst, LockState
  <2>2. ASSUME NEW p \in Procs, UnlockShared(p) \/ UnlockExclusive(p) \/ Kill(p)
        PROVE  FALSE
    <3>1. CASE UnlockShared(p)
      BY <3>1 DEF UnlockShared
    <3>2. CASE UnlockExclusive(p)
      BY <3>2 DEF UnlockExclusive
    <3>3. CASE Kill(p)
      BY <3>3 DEF Kill
    <3> QED
      BY <2>2, <3>1, <3>2, <3>3
  <2>3. ASSUME NEW p \in Procs, TryUpgrade(p) \/ FlockGranted(p) \/ RecoverShared(p)
        PROVE  FALSE
    <3>1. CASE TryUpgrade(p)
      BY <3>1 DEF TryUpgrade, Granted
    <3>2. CASE FlockGranted(p)
      BY <3>2 DEF FlockGranted, Granted
    <3>3. CASE RecoverShared(p)
      BY <3>3 DEF RecoverShared
    <3> QED
      BY <2>3, <3>1, <3>2, <3>3
  <2>4. ASSUME NEW p \in Procs,
               \/ \E t \in LockType : LockNested(p, t) \/ UnlockNothing(p, t)
               \/ \E t \in LockType, w \in BOOLEAN : LockCall(p, t, w)
               \/ FlockWouldBlock(p) \/ FlockInterrupted(p) \/ RecoverInterrupted(p)
        PROVE  UNCHANGED flk
    BY <2>4 DEF LockNested, UnlockNothing, LockCall, FlockWouldBlock, FlockInterrupted,
                FlockFails, RecoverInterrupted
  <2> QED
    BY <2>1, <2>2, <2>3, <2>4 DEF Next, Progress
<1> QED
  BY <1>1, FLInvHolds, PTL DEF Spec, SharedKept

\* The two counters of every process implement the readers-writer lock of
\* RWLock: each step of FileLock is one of its steps or leaves every access as
\* it was, and a process comes to read blind only out of its failed upgrade.
THEOREM FileLockImplementsRWLock == Spec => ImplementsRWLock
<1> DEFINE acc == [p \in Procs |-> Access(p)]
<1>1. Init => RW!Init
  BY DEF Init, RW!Init, Access
<1>2. FLInv /\ FLInv' /\ [Next]_vars => [RW!Next]_acc
  <2> SUFFICES ASSUME FLInv, FLInv', [Next]_vars, acc' # acc
               PROVE  RW!Next
    OBVIOUS
  <2>1. ASSUME NEW p \in Procs, NEW q \in Procs, p # q, Access(p)' = "EX"
        PROVE  Access(q)' \notin {"SH", "EX"}
    <3>1. LockState(p)' /\ LockState(q)' /\ KernelExcl' /\ TypeOK'
      BY DEF FLInv
    <3>2. exCount'[p] > 0 /\ flk'[p] = "EX"
      BY <2>1, <3>1 DEF Access, LockState
    <3>3. flk'[q] = "none"
      BY <2>1, <3>1, <3>2 DEF KernelExcl
    <3> QED
      BY <3>1, <3>3 DEF LockState, Access, TypeOK
  <2>2. \A p \in Procs : Access(p)' \in RW!Modes
    BY DEF Access, RW!Modes
  <2>3. PICK p \in Procs : /\ \A q \in Procs \ {p} : Access(q)' = Access(q)
                           /\ Access(p)' = Access(p) \/ Access(p)' \in RW!Then(Access(p))
    <3> DEFINE Goes(p) == Access(p)' = Access(p) \/ Access(p)' \in RW!Then(Access(p))
    <3> USE DEF FLInv, TypeOK, LockType, Access, RW!Then
    <3>1. ASSUME NEW p \in Procs, NEW t \in LockType, NEW w \in BOOLEAN,
                 LockNested(p, t) \/ LockCall(p, t, w)
          PROVE  (\A q \in Procs \ {p} : Access(q)' = Access(q)) /\ Goes(p)
      <4>1. CASE LockNested(p, t)
        <5>1. \A q \in Procs \ {p} : Access(q)' = Access(q)
          BY <4>1 DEF LockNested, Count
        <5>2. Goes(p)
          BY <4>1 DEF LockNested, Nested, Count, LockState
        <5> QED BY <5>1, <5>2
      <4>2. CASE LockCall(p, t, w)
        <5>1. \A q \in Procs \ {p} : Access(q)' = Access(q)
          BY <4>2 DEF LockCall
        <5>2. Goes(p)
          BY <4>2 DEF LockCall, Nested, LockState
        <5> QED BY <5>1, <5>2
      <4> QED BY <3>1, <4>1, <4>2
    <3>2. ASSUME NEW p \in Procs, Progress(p)
          PROVE  (\A q \in Procs \ {p} : Access(q)' = Access(q)) /\ Goes(p)
      <4>1. CASE TryUpgrade(p)
        <5>1. \A q \in Procs \ {p} : Access(q)' = Access(q)
          BY <4>1 DEF TryUpgrade, Granted, Count
        <5>2. Goes(p)
          BY <4>1 DEF TryUpgrade, Granted, Count, LockState
        <5> QED BY <5>1, <5>2
      <4>2. CASE UnlockFirst(p)
        <5>1. \A q \in Procs \ {p} : Access(q)' = Access(q)
          BY <4>2 DEF UnlockFirst
        <5>2. Goes(p)
          BY <4>2 DEF UnlockFirst, LockState
        <5> QED BY <5>1, <5>2
      <4>3. CASE FlockGranted(p)
        <5>1. \A q \in Procs \ {p} : Access(q)' = Access(q)
          BY <4>3 DEF FlockGranted, Granted, Count
        <5>2. Goes(p)
          BY <4>3 DEF FlockGranted, Granted, Count, LockState
        <5> QED BY <5>1, <5>2
      <4>4. CASE FlockWouldBlock(p)
        <5>1. \A q \in Procs \ {p} : Access(q)' = Access(q)
          BY <4>4 DEF FlockWouldBlock, FlockFails, unLockFirstIfNeeded
        <5>2. Goes(p)
          BY <4>4 DEF FlockWouldBlock, FlockFails, unLockFirstIfNeeded, LockState
        <5> QED BY <5>1, <5>2
      <4>5. CASE RecoverShared(p)
        <5>1. \A q \in Procs \ {p} : Access(q)' = Access(q)
          BY <4>5 DEF RecoverShared
        <5>2. Goes(p)
          BY <4>5 DEF RecoverShared, LockState
        <5> QED BY <5>1, <5>2
      <4>6. CASE \E t \in LockType : UnlockNothing(p, t)
        <5>1. \A q \in Procs \ {p} : Access(q)' = Access(q)
          BY <4>6 DEF UnlockNothing, Release
        <5>2. Goes(p)
          BY <4>6 DEF UnlockNothing, Release, LockState
        <5> QED BY <5>1, <5>2
      <4>7. CASE UnlockShared(p)
        <5>1. \A q \in Procs \ {p} : Access(q)' = Access(q)
          BY <4>7 DEF UnlockShared, Release
        <5>2. Goes(p)
          BY <4>7 DEF UnlockShared, Release, LockState
        <5> QED BY <5>1, <5>2
      <4>8. CASE UnlockExclusive(p)
        <5>1. \A q \in Procs \ {p} : Access(q)' = Access(q)
          BY <4>8 DEF UnlockExclusive, Release
        <5>2. Goes(p)
          BY <4>8 DEF UnlockExclusive, Release, LockState
        <5> QED BY <5>1, <5>2
      <4> QED
        BY ONLY <3>2, <4>1, <4>2, <4>3, <4>4, <4>5, <4>6, <4>7, <4>8 DEF Progress
    <3>3. ASSUME NEW p \in Procs, FlockInterrupted(p) \/ RecoverInterrupted(p) \/ Kill(p)
          PROVE  (\A q \in Procs \ {p} : Access(q)' = Access(q)) /\ Goes(p)
      <4>1. CASE FlockInterrupted(p)
        <5>1. \A q \in Procs \ {p} : Access(q)' = Access(q)
          BY <4>1 DEF FlockInterrupted, FlockFails, unLockFirstIfNeeded
        <5>2. Goes(p)
          BY <4>1 DEF FlockInterrupted, FlockFails, unLockFirstIfNeeded, LockState
        <5> QED BY <5>1, <5>2
      <4>2. CASE RecoverInterrupted(p)
        <5>1. \A q \in Procs \ {p} : Access(q)' = Access(q)
          BY <4>2 DEF RecoverInterrupted
        <5>2. Goes(p)
          BY <4>2 DEF RecoverInterrupted, LockState
        <5> QED BY <5>1, <5>2
      <4>3. CASE Kill(p)
        <5>1. \A q \in Procs \ {p} : Access(q)' = Access(q)
          BY <4>3 DEF Kill
        <5>2. Goes(p)
          BY <4>3 DEF Kill, LockState
        <5> QED BY <5>1, <5>2
      <4> QED BY <3>3, <4>1, <4>2, <4>3
    <3>4. Next
      BY DEF vars
    <3> HIDE DEF Goes
    <3>5. PICK p \in Procs : (\A q \in Procs \ {p} : Access(q)' = Access(q)) /\ Goes(p)
      BY ONLY <3>1, <3>2, <3>3, <3>4, TRUE \in BOOLEAN DEF Next
    <3> QED BY ONLY <3>5 DEF Goes
  <2>4. RW!Admits(p, Access(p)')
    BY <2>1, <2>3 DEF RW!Admits
  <2>5. acc' = [acc EXCEPT ![p] = Access(p)']
    BY <2>3
  <2>6. Access(p)' # Access(p)
    BY <2>3, acc' # acc
  <2>7. Access(p)' \in RW!Then(acc[p])
    BY <2>3, <2>6
  <2> QED
    BY <2>2, <2>4, <2>5, <2>7 DEF RW!Next, RW!Change
<1> QED
  BY <1>1, <1>2, FLInvHolds, PTL DEF Spec, RW!Spec, ImplementsRWLock
===========================================================================
