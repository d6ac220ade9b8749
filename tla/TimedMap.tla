------------------------------ MODULE TimedMap ------------------------------
(***************************************************************************)
(* What key expiry promises: a map whose entries can carry a due date.     *)
(* From its due date on an entry is not read any more; it may go at any    *)
(* time from then on, and nothing but its due date makes an entry go       *)
(* unless the application removes it.  Due dates are given as an entry is  *)
(* put, or to all the entries as expiry is switched on, and are forgotten  *)
(* as it is switched off.  Sums of seconds wrap at TimeWrap.               *)
(*                                                                         *)
(* Calls take the switch as they find it (seen), which is not always as it *)
(* is (on): a value put by a call that found it the other way is Lost, and *)
(* a read that finds it the other way may miss a value, or one's end.      *)
(***************************************************************************)
EXTENDS Naturals

CONSTANTS Keys, Vals, Threads, Durations, TimeWrap, Never, None, Lost

VARIABLES map,    \* of each key: None, Lost, or a value and its due date
          on,     \* entries carry due dates
          seen,   \* what a call finds on to be
          secs,   \* the duration of a call that gives none
          now,
          call,   \* of each thread: the call it is in
          answer  \* what the call that has just ended returned

vars == <<map, on, seen, secs, now, call, answer>>

Init ==
    /\ map = [k \in Keys |-> None]
    /\ on = FALSE
    /\ seen = FALSE
    /\ secs = Never
    /\ now = 0
    /\ call = [t \in Threads |-> None]
    /\ answer = None

Over(e) == e \notin {None, Lost} /\ e.due # Never /\ e.due <= now
Due(d) == IF d = Never THEN Never ELSE (now + d) % TimeWrap

\* m, of which entries that are over or lost may have gone.
May(m) ==
    /\ map' = [k \in Keys |-> map'[k]]
    /\ \A k \in Keys :
          \/ map'[k] = m[k]
          \/ map'[k] = None /\ (m[k] = Lost \/ Over(m[k]))

In(t, ops) == call[t] # None /\ call[t].op \in ops
Call(t, op, k, v, n) ==
    call' = [call EXCEPT ![t] = [op |-> op, key |-> k, val |-> v, time |-> n]]

\* A call ends and says whether it did what it was asked, if it ever says so.
Return(t, ok) ==
    /\ answer' = IF call[t].op \in {"import", "on", "off"} THEN None ELSE [ok |-> ok]
    /\ call' = [call EXCEPT ![t] = None]

Asked == {"set", "remove", "import", "enable", "disable"}

Begin(t) ==
    /\ call[t] = None /\ call'[t] # None /\ answer' = None
    /\ UNCHANGED <<map, on, seen, secs, now>>
    /\ \E k \in Keys \cup {None}, v \in Vals \cup {None}, d \in Durations \cup {Never} :
          \E op \in Asked : Call(t, op, k, v, d)

\* A set looks at the switch twice: as it makes room for a due date, and as it
\* writes one.  If it finds a change, it fails or writes any due date.
Look(t) ==
    /\ In(t, {"set"})
    /\ Call(t, IF seen THEN "roomy" ELSE "tight", call[t].key, call[t].val, call[t].time)
    /\ answer' = None
    /\ UNCHANGED <<map, on, seen, secs, now>>

Encode(t) ==
    /\ In(t, {"roomy", "tight"})
    /\ LET c == call[t]
           As(op, due) == Call(t, op, c.key, c.val, due) /\ answer' = None
       IN  \/ c.op = "roomy" /\ seen /\ As("dated", Due(c.time))
           \/ c.op = "roomy" /\ ~seen /\ \E due \in 0 .. TimeWrap - 1 : As("torn", due)
           \/ c.op = "tight" /\ ~seen /\ As("plain", Never)
           \/ c.op = "tight" /\ seen /\ Return(t, FALSE)
    /\ UNCHANGED <<map, on, seen, secs, now>>

\* What the calls do under the lock, from where on they know the switch.
Put(k, e) == May([map EXCEPT ![k] = e]) /\ map'[k] = e

Store(t) ==
    /\ In(t, {"dated", "plain", "torn"})
    /\ LET c == call[t]
           e == IF (c.op # "plain") = on THEN [val |-> c.val, due |-> c.time] ELSE Lost
       IN  \/ Put(c.key, e) /\ Return(t, TRUE)
           \/ May(map) /\ Return(t, FALSE)
    /\ seen' = on
    /\ UNCHANGED <<on, secs, now>>

Import(t) ==
    /\ In(t, {"import"})
    /\ LET c == call[t]
           e == [val |-> c.val, due |-> IF on THEN Due(secs) ELSE Never]
       IN  \/ Put(c.key, e) /\ Return(t, TRUE)
           \/ May(map) /\ Return(t, FALSE)
    /\ seen' = on
    /\ UNCHANGED <<on, secs, now>>

Remove(t) ==
    /\ In(t, {"remove"})
    /\ \/ Put(call[t].key, None) /\ Return(t, TRUE)
       \/ May(map) /\ Return(t, FALSE)
    /\ seen' = on
    /\ UNCHANGED <<on, secs, now>>

\* What a read of k may return.
Reads(k) ==
    IF map[k] = Lost THEN Vals \cup {None}
    ELSE IF map[k] = None THEN {None}
    ELSE IF seen # on THEN {None, map[k].val}
    ELSE IF Over(map[k]) THEN {None}
    ELSE {map[k].val}

Read(k) ==
    /\ seen' = on
    /\ UNCHANGED <<on, secs, now, call>>
    /\ \E v \in Reads(k) : answer' = [key |-> k, val |-> v]
    /\ May(map)

\* A count finds every entry that is not over, and no key that has none.
Count ==
    /\ seen' = on
    /\ UNCHANGED <<on, secs, now, call>>
    /\ \E S \in SUBSET Keys :
          /\ answer' = [keys |-> S]
          /\ \A k \in Keys :
                /\ map[k] \notin {None, Lost} /\ ~Over(map[k]) => k \in S
                /\ k \in S => map'[k] # None
    /\ May(map)

Sweep ==
    /\ seen' \in {seen, on} /\ answer' = None
    /\ UNCHANGED <<on, secs, now, call>>
    /\ May(map)

\* All the entries get a due date, or lose theirs.
Date(due) ==
    LET dated == [k \in Keys |-> IF map[k] \in {None, Lost} THEN map[k]
                                 ELSE [map[k] EXCEPT !.due = due]]
    IN  /\ map' = [k \in Keys |-> map'[k]]
        /\ \A k \in Keys :
              \/ map'[k] = dated[k]
              \/ map'[k] = None /\ (map[k] = Lost \/ Over(map[k]))

SwitchOn(t) ==
    /\ In(t, {"enable", "on"})
    /\ seen' = TRUE /\ secs' = call[t].time
    /\ \/ on /\ UNCHANGED <<map, on>> /\ Return(t, TRUE)
       \/ ~on /\ on' = TRUE /\ Date(Due(call[t].time)) /\ Return(t, TRUE)
       \/ ~on /\ UNCHANGED <<map, on>> /\ Return(t, FALSE)
    /\ UNCHANGED now

SwitchOff(t) ==
    /\ In(t, {"disable", "off"})
    /\ on' = FALSE /\ seen' = FALSE /\ secs' \in IF on THEN {Never} ELSE {Never, secs}
    /\ IF on THEN Date(Never) ELSE UNCHANGED map
    /\ Return(t, TRUE)
    /\ UNCHANGED now

\* All calls end, and a new process opens the file: it may ask for the switch.
Reopen ==
    /\ seen' = FALSE /\ secs' = Never /\ answer' = None
    /\ UNCHANGED <<map, on, now>>
    /\ \/ call' = [t \in Threads |-> None]
       \/ \E t \in Threads, op \in {"on", "off"}, d \in Durations :
             call' = [u \in Threads |->
                        IF u = t THEN [op |-> op, key |-> None, val |-> None, time |-> d]
                        ELSE None]

Tick == now' = now + 1 /\ answer' = None /\ UNCHANGED <<map, on, seen, secs, call>>

Next ==
    \/ \E t \in Threads :
          \/ Begin(t) \/ Look(t) \/ Encode(t)
          \/ Store(t) \/ Import(t) \/ Remove(t)
          \/ SwitchOn(t) \/ SwitchOff(t)
    \/ \E k \in Keys : Read(k)
    \/ Count
    \/ Sweep
    \/ Reopen
    \/ Tick

Spec == Init /\ [][Next]_vars
=============================================================================
