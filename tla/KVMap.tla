------------------------------- MODULE KVMap -------------------------------
(***************************************************************************)
(* What a KFKV file promises to all the processes that open it: one map,   *)
(* changed by one operation at a time, all of it at once when it ends.  A  *)
(* process killed inside an operation can take the map back to the one     *)
(* last confirmed (the last full write-back); nothing else is lost or      *)
(* comes back, until a process is killed while it rewrites the file in     *)
(* place: from then on (torn) nothing is promised.                         *)
(***************************************************************************)
EXTENDS Naturals

CONSTANTS Keys, Vals, Nil

VARIABLES
    map, confirmed,
    busy, goal,      \* an operation is under way, and the map it is to make
    torn, kills

vars == <<map, confirmed, busy, goal, torn, kills>>

EmptyMap == [k \in Keys |-> Nil]

Init ==
    /\ map = EmptyMap /\ confirmed = EmptyMap
    /\ busy = FALSE /\ goal = EmptyMap
    /\ torn = FALSE /\ kills = 0

Start(m) ==
    /\ ~busy /\ ~torn
    /\ busy' = TRUE
    /\ goal' = m
    /\ UNCHANGED <<map, confirmed, torn, kills>>

Set(k, v) == Start([map EXCEPT ![k] = v])

\* Remove({}) is an operation that is to leave the map as it is.
Remove(S) == Start([k \in Keys |-> IF k \in S THEN Nil ELSE map[k]])

\* Inside an operation, the map as it still is can be confirmed.
Confirm ==
    /\ busy
    /\ confirmed' = map
    /\ UNCHANGED <<map, busy, goal, torn, kills>>

End == busy /\ busy' = FALSE /\ goal' = EmptyMap

Finish ==
    /\ End
    /\ map' = goal
    /\ confirmed' \in {confirmed, goal}
    /\ UNCHANGED <<torn, kills>>

\* The operation changes nothing: its caller is told, or dies of a signal.
Fail ==
    /\ End
    /\ UNCHANGED <<map, confirmed, torn, kills>>

\* The process is killed: the map is as it was, or the one last confirmed.
Kill ==
    /\ End
    /\ kills' = kills + 1
    /\ map' \in {map, confirmed}
    /\ UNCHANGED <<confirmed, torn>>

\* A process that is in no operation is killed.
KillReader ==
    /\ kills' = kills + 1
    /\ UNCHANGED <<map, confirmed, busy, goal, torn>>

Tear ==
    /\ End
    /\ torn' = TRUE
    /\ kills' = kills + 1
    /\ map' = EmptyMap /\ confirmed' = EmptyMap

Next ==
    \/ \E k \in Keys, v \in Vals : Set(k, v)
    \/ \E S \in SUBSET Keys : Remove(S)
    \/ Confirm
    \/ Finish
    \/ Fail
    \/ Kill
    \/ KillReader
    \/ Tear

Spec == Init /\ [][Next]_vars
=============================================================================
