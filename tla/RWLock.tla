------------------------------ MODULE RWLock ------------------------------
(***************************************************************************)
(* What the inter-process lock promises its callers: a readers-writer lock *)
(* between processes, but for the upgrade.  mode[p] is what process p's    *)
(* counters say it has.  "up": p gave its shared access up to wait for the *)
(* exclusive one, so an upgrade is not atomic.  "blind": the wait failed   *)
(* and so did taking the shared lock back; p reads, keeps nobody out, and  *)
(* stays so until it has unlocked everything or takes the exclusive lock.  *)
(* Only an upgrade leads there.                                            *)
(***************************************************************************)
CONSTANT Procs

VARIABLE mode

Modes == {"none", "SH", "EX", "up", "blind"}

\* The modes a process can go to.
Then(m) ==
    CASE m = "none"  -> {"SH", "EX"}
      [] m = "SH"    -> {"none", "EX", "up"}
      [] m = "EX"    -> {"none", "SH"}
      [] m = "up"    -> {"none", "SH", "EX", "blind"}
      [] m = "blind" -> {"none", "EX", "up"}

\* A process comes to read while nobody writes, and to write while nobody
\* reads or writes -- save the blind.
Admits(p, m) ==
    \A q \in Procs \ {p} :
        /\ m = "SH" => mode[q] # "EX"
        /\ m = "EX" => mode[q] \notin {"SH", "EX"}

Init == mode = [p \in Procs |-> "none"]

Change(p, m) ==
    /\ m \in Then(mode[p])
    /\ Admits(p, m)
    /\ mode' = [mode EXCEPT ![p] = m]

Next == \E p \in Procs, m \in Modes : Change(p, m)

Spec == Init /\ [][Next]_mode
===========================================================================
