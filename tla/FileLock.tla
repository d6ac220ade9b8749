----------------------------- MODULE FileLock -----------------------------
(***************************************************************************)
(* kfkv::FileLock (Core/InterProcessLock.mm): a recursive, upgradable      *)
(* readers-writer lock on top of flock(2), one FileLock per process, all   *)
(* on the same .crc file.  The object keeps two counters; only their first *)
(* and last transitions reach the kernel.  Inside a process the calls are  *)
(* serialised by KFKV::m_lock, so a process has one call under way.        *)
(*                                                                         *)
(* flk is the kernel's table.  The flock rules are those of XNU: a failed  *)
(* LOCK_NB conversion keeps the old lock, EX -> SH never waits.            *)
(***************************************************************************)
EXTENDS Naturals

CONSTANTS Procs,     \* the processes that opened the file
          MaxNest,   \* bound: locks one public KFKV call takes
          MaxCalls,  \* bound: public calls (and kills) per process
          MaxErr     \* bound: flock() waits cut short by a signal

ASSUME BoundsAssumption == MaxNest \in Nat /\ MaxCalls \in Nat /\ MaxErr \in Nat

VARIABLES flk,       \* kernel: the flock each process's descriptor holds
          shCount,   \* m_sharedLockCount
          exCount,   \* m_exclusiveLockCount
          pc,        \* where doLock/platformLock is
          req,       \* the arguments of the doLock under way
          held,      \* the locks the callers believe they have to unlock
          lost,      \* its last re-take failed ("fail to recover shared-lock")
          used, calls, errs   \* consumption of the three bounds

vars == <<flk, shCount, exCount, pc, req, held, lost, used, calls, errs>>

LockType == {"SH", "EX"}
NoReq == [type |-> "SH", wait |-> TRUE]

Init ==
    /\ flk = [p \in Procs |-> "none"]
    /\ shCount = [p \in Procs |-> 0]
    /\ exCount = [p \in Procs |-> 0]
    /\ pc = [p \in Procs |-> "idle"]
    /\ req = [p \in Procs |-> NoReq]
    /\ held = [p \in Procs |-> [t \in LockType |-> 0]]
    /\ lost = [p \in Procs |-> FALSE]
    /\ used = [p \in Procs |-> 0]
    /\ calls = [p \in Procs |-> 0]
    /\ errs = 0

\* The kernel grants t to p: no conflicting lock of another descriptor.
Compatible(p, t) ==
    \A q \in Procs \ {p} : flk[q] # "EX" /\ (t = "EX" => flk[q] = "none")

\* "prevent deadlock": an exclusive request on top of a shared lock.
unLockFirstIfNeeded(p) == req[p].type = "EX" /\ shCount[p] > 0

NothingHeld(p) == held[p]["SH"] = 0 /\ held[p]["EX"] = 0

\* One more lock of the public call under way, or the first of a new call.
Charge(p) ==
    \/ /\ NothingHeld(p)
       /\ calls[p] < MaxCalls
       /\ calls' = [calls EXCEPT ![p] = @ + 1]
       /\ used' = [used EXCEPT ![p] = 1]
    \/ /\ ~NothingHeld(p)
       /\ used[p] < MaxNest
       /\ used' = [used EXCEPT ![p] = @ + 1]
       /\ UNCHANGED calls

Take(p, t) == held' = [held EXCEPT ![p][t] = @ + 1]

Count(p, t) ==
    \/ t = "SH" /\ shCount' = [shCount EXCEPT ![p] = @ + 1] /\ UNCHANGED exCount
    \/ t = "EX" /\ exCount' = [exCount EXCEPT ![p] = @ + 1] /\ UNCHANGED shCount

\* Seeded fault: an exclusive request nests in a shared lock.
Nested_InShared(p, t) == exCount[p] > 0 \/ shCount[p] > 0

Nested(p, t) == exCount[p] > 0 \/ (t = "SH" /\ shCount[p] > 0)

-----------------------------------------------------------------------------
\* doLock, early returns: "don't want ... to break any existing locks".
LockNested(p, t) ==
    /\ pc[p] = "idle"
    /\ Nested(p, t)
    /\ Charge(p)
    /\ Count(p, t)
    /\ Take(p, t)
    /\ UNCHANGED <<flk, pc, req, lost, errs>>

\* doLock goes on to platformLock.
LockCall(p, t, w) ==
    /\ pc[p] = "idle"
    /\ ~Nested(p, t)
    /\ Charge(p)
    /\ req' = [req EXCEPT ![p] = [type |-> t, wait |-> w]]
    /\ pc' = [pc EXCEPT ![p] = IF t = "EX" /\ shCount[p] > 0 THEN "tryup" ELSE "flock"]
    /\ UNCHANGED <<flk, shCount, exCount, held, lost, errs>>

\* flock() succeeded: doLock counts and returns true.
Granted(p) ==
    /\ flk' = [flk EXCEPT ![p] = req[p].type]
    /\ Count(p, req[p].type)
    /\ Take(p, req[p].type)
    /\ pc' = [pc EXCEPT ![p] = "idle"]
    /\ lost' = [lost EXCEPT ![p] = FALSE]
    /\ req' = [req EXCEPT ![p] = NoReq]
    /\ UNCHANGED <<used, calls, errs>>

\* flock(m_fd, realLockType | LOCK_NB) before giving up the shared lock.
TryUpgrade(p) ==
    /\ pc[p] = "tryup"
    /\ \/ Compatible(p, "EX") /\ Granted(p)
       \/ /\ ~Compatible(p, "EX")
          /\ pc' = [pc EXCEPT ![p] = "unlockfirst"]
          /\ UNCHANGED <<flk, shCount, exCount, req, held, lost, used, calls, errs>>

\* Seeded fault: the shared lock is kept while waiting for the exclusive one.
UnlockFirst_KeepsLock(p) ==
    /\ pc[p] = "unlockfirst"
    /\ pc' = [pc EXCEPT ![p] = "flock"]
    /\ UNCHANGED <<flk, shCount, exCount, req, held, lost, used, calls, errs>>

\* "let's be gentleman: unlock my shared-lock to prevent deadlock"
UnlockFirst(p) ==
    /\ pc[p] = "unlockfirst"
    /\ flk' = [flk EXCEPT ![p] = "none"]
    /\ pc' = [pc EXCEPT ![p] = "flock"]
    /\ UNCHANGED <<shCount, exCount, req, held, lost, used, calls, errs>>

FlockGranted(p) ==
    /\ pc[p] = "flock"
    /\ Compatible(p, req[p].type)
    /\ Granted(p)

\* Seeded fault: a lock() whose flock() failed is counted all the same.
FlockFails_Counted(p) ==
    /\ pc' = [pc EXCEPT ![p] = IF unLockFirstIfNeeded(p) THEN "recover" ELSE "idle"]
    /\ \/ req[p].wait /\ Take(p, req[p].type) /\ Count(p, req[p].type)
       \/ ~req[p].wait /\ UNCHANGED <<held, shCount, exCount>>
    /\ req' = [req EXCEPT ![p] = NoReq]
    /\ UNCHANGED <<flk, lost, used, calls>>

\* platformLock's failure branch.  InterProcessLock::lock() drops the result,
\* so its caller goes on and unlocks later; try_lock()'s caller sees false.
FlockFails(p) ==
    /\ pc' = [pc EXCEPT ![p] = IF unLockFirstIfNeeded(p) THEN "recover" ELSE "idle"]
    /\ \/ req[p].wait /\ Take(p, req[p].type)
       \/ ~req[p].wait /\ UNCHANGED held
    /\ req' = [req EXCEPT ![p] = NoReq]
    /\ UNCHANGED <<flk, shCount, exCount, lost, used, calls>>

FlockWouldBlock(p) ==
    /\ pc[p] = "flock"
    /\ ~req[p].wait
    /\ ~Compatible(p, req[p].type)
    /\ FlockFails(p)
    /\ UNCHANGED errs

FlockInterrupted(p) ==
    /\ pc[p] = "flock"
    /\ req[p].wait
    /\ ~Compatible(p, req[p].type)
    /\ errs < MaxErr
    /\ errs' = errs + 1
    /\ FlockFails(p)

\* "try recover my shared-lock": a blocking LOCK_SH, for try_lock() too.
RecoverShared(p) ==
    /\ pc[p] = "recover"
    /\ Compatible(p, "SH")
    /\ flk' = [flk EXCEPT ![p] = "SH"]
    /\ lost' = [lost EXCEPT ![p] = FALSE]
    /\ pc' = [pc EXCEPT ![p] = "idle"]
    /\ UNCHANGED <<shCount, exCount, req, held, used, calls, errs>>

\* "let's hope this never happen"
RecoverInterrupted(p) ==
    /\ pc[p] = "recover"
    /\ ~Compatible(p, "SH")
    /\ errs < MaxErr
    /\ errs' = errs + 1
    /\ lost' = [lost EXCEPT ![p] = TRUE]
    /\ pc' = [pc EXCEPT ![p] = "idle"]
    /\ UNCHANGED <<flk, shCount, exCount, req, held, used, calls>>

-----------------------------------------------------------------------------
Release(p, t) ==
    /\ pc[p] = "idle"
    /\ held[p][t] > 0
    /\ held' = [held EXCEPT ![p][t] = @ - 1]
    /\ UNCHANGED <<pc, req, used, calls, errs>>

\* unlock() of a lock that was never got: returns false.
UnlockNothing(p, t) ==
    /\ Release(p, t)
    /\ t = "SH" => shCount[p] = 0
    /\ t = "EX" => exCount[p] = 0
    /\ UNCHANGED <<flk, shCount, exCount, lost>>

\* Seeded fault: the count is not looked at.
UnlockShared_Uncounted(p) ==
    /\ Release(p, "SH")
    /\ shCount' = [shCount EXCEPT ![p] = @ - 1]
    /\ UNCHANGED exCount
    /\ \/ (shCount[p] > 1 \/ exCount[p] > 0) /\ UNCHANGED <<flk, lost>>
       \/ /\ shCount[p] <= 1 /\ exCount[p] = 0
          /\ flk' = [flk EXCEPT ![p] = "none"]
          /\ lost' = [lost EXCEPT ![p] = FALSE]

\* Seeded fault: the first unlock() of a nested shared lock reaches the kernel.
UnlockShared_First(p) ==
    /\ Release(p, "SH")
    /\ shCount[p] > 0
    /\ shCount' = [shCount EXCEPT ![p] = @ - 1]
    /\ UNCHANGED exCount
    /\ \/ exCount[p] > 0 /\ UNCHANGED <<flk, lost>>
       \/ /\ exCount[p] = 0
          /\ flk' = [flk EXCEPT ![p] = "none"]
          /\ lost' = [lost EXCEPT ![p] = FALSE]

UnlockShared(p) ==
    /\ Release(p, "SH")
    /\ shCount[p] > 0
    /\ shCount' = [shCount EXCEPT ![p] = @ - 1]
    /\ UNCHANGED exCount
    /\ \/ (shCount[p] > 1 \/ exCount[p] > 0) /\ UNCHANGED <<flk, lost>>
       \/ /\ shCount[p] = 1 /\ exCount[p] = 0
          /\ flk' = [flk EXCEPT ![p] = "none"]
          /\ lost' = [lost EXCEPT ![p] = FALSE]

\* Seeded fault: the kernel lock is dropped although the shared one is counted.
UnlockExclusive_DropsShared(p) ==
    /\ Release(p, "EX")
    /\ exCount[p] > 0
    /\ exCount' = [exCount EXCEPT ![p] = @ - 1]
    /\ UNCHANGED <<shCount, lost>>
    /\ \/ exCount[p] > 1 /\ UNCHANGED flk
       \/ exCount[p] = 1 /\ flk' = [flk EXCEPT ![p] = "none"]

\* "restore shared-lock when all exclusive-locks are done"
UnlockExclusive(p) ==
    /\ Release(p, "EX")
    /\ exCount[p] > 0
    /\ exCount' = [exCount EXCEPT ![p] = @ - 1]
    /\ UNCHANGED <<shCount, lost>>
    /\ \/ exCount[p] > 1 /\ UNCHANGED flk
       \/ /\ exCount[p] = 1
          /\ flk' = [flk EXCEPT ![p] = IF shCount[p] > 0 THEN "SH" ELSE "none"]

\* The process is killed, or closes the file (~FileLock), and starts afresh:
\* the kernel drops its lock with its last descriptor.
Kill(p) ==
    /\ calls[p] < MaxCalls
    /\ calls' = [calls EXCEPT ![p] = @ + 1]
    /\ flk' = [flk EXCEPT ![p] = "none"]
    /\ shCount' = [shCount EXCEPT ![p] = 0]
    /\ exCount' = [exCount EXCEPT ![p] = 0]
    /\ pc' = [pc EXCEPT ![p] = "idle"]
    /\ held' = [held EXCEPT ![p] = [t \in LockType |-> 0]]
    /\ lost' = [lost EXCEPT ![p] = FALSE]
    /\ used' = [used EXCEPT ![p] = 0]
    /\ req' = [req EXCEPT ![p] = NoReq]
    /\ UNCHANGED errs

\* The steps of a call under way, and the unlocks that end it.
Progress(p) ==
    \/ TryUpgrade(p)
    \/ UnlockFirst(p)
    \/ FlockGranted(p)
    \/ FlockWouldBlock(p)
    \/ RecoverShared(p)
    \/ \E t \in LockType : UnlockNothing(p, t)
    \/ UnlockShared(p)
    \/ UnlockExclusive(p)

Next ==
    \E p \in Procs :
        \/ \E t \in LockType : LockNested(p, t)
        \/ \E t \in LockType, w \in BOOLEAN : LockCall(p, t, w)
        \/ Progress(p)
        \/ FlockInterrupted(p)
        \/ RecoverInterrupted(p)
        \/ Kill(p)

Spec == Init /\ [][Next]_vars

\* A running process goes on, and the locks a public call takes are scoped:
\* they are released.  The kernel wakes a waiter it can serve.
FairSpec == Spec /\ \A p \in Procs : WF_vars(Progress(p))

-----------------------------------------------------------------------------
TypeOK ==
    /\ flk \in [Procs -> {"none", "SH", "EX"}]
    /\ shCount \in [Procs -> Nat]
    /\ exCount \in [Procs -> Nat]
    /\ pc \in [Procs -> {"idle", "tryup", "unlockfirst", "flock", "recover"}]
    /\ req \in [Procs -> [type : LockType, wait : BOOLEAN]]
    /\ held \in [Procs -> [LockType -> Nat]]
    /\ lost \in [Procs -> BOOLEAN]
    /\ used \in [Procs -> Nat]
    /\ calls \in [Procs -> Nat]
    /\ errs \in Nat

\* What p's own counters say it has (see RWLock): between UnlockFirst and the
\* end of the call the shared lock is only counted, and so it is from a failed
\* re-take on, while further lock(Shared) calls nest in it without flock().
Access(p) ==
    IF exCount[p] > 0 THEN "EX"
    ELSE IF shCount[p] = 0 THEN "none"
    ELSE IF pc[p] \in {"flock", "recover"} THEN "up"
    ELSE IF lost[p] THEN "blind" ELSE "SH"

\* Two processes never both count an exclusive lock, whatever flock() calls
\* were interrupted and whichever process was killed; and a process counts a
\* shared one beside it only inside its own upgrade, or blind: since its own
\* upgrade failed and its re-take too (doLock / unlock, InterProcessLock.mm).
MutualExclusion ==
    \A p, q \in Procs : p # q /\ exCount[p] > 0 => Access(q) \in {"none", "up", "blind"}

\* Counters and kernel disagree in a process's upgrade and after its failed
\* re-take, and nowhere else: every other counted lock is the kernel's, a
\* process that counts without the kernel never holds another one up, and no
\* kernel lock is left that nobody counts.
CountersMatchKernel ==
    \A p \in Procs :
        /\ Access(p) \in {"SH", "EX"} => flk[p] = Access(p)
        /\ Access(p) \in {"up", "blind"} => flk[p] = "none"
        /\ flk[p] # "none" => shCount[p] + exCount[p] > 0

\* A step takes the kernel's shared lock from a process that still counts it
\* only inside that process's own upgrade, which nobody else can start
\* ("don't want shared-lock to break any existing locks").
SharedKept ==
    [][\A p \in Procs :
         flk[p] # "none" /\ flk'[p] = "none" /\ shCount'[p] > 0
            => pc[p] = "unlockfirst" /\ req[p].type = "EX"]_vars

\* Every lock(), try_lock() call returns: processes that upgrade at the same
\* time do not wait for each other for ever ("prevent deadlock").
CallsReturn == \A p \in Procs : pc[p] # "idle" ~> pc[p] = "idle"

RW == INSTANCE RWLock WITH mode <- [p \in Procs |-> Access(p)]

\* The counters implement the readers-writer lock of RWLock, and a process
\* comes to read blind in no other way than RWLock's.
ImplementsRWLock == RW!Spec
===========================================================================
