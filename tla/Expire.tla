-------------------------------- MODULE Expire --------------------------------
(***************************************************************************)
(* Automatic expiry of keys: one instance in one process, several threads. *)
(*                                                                         *)
(* Whether a file's values carry a due date is a flag of its meta file;    *)
(* whether the instance writes and expects one is m_enableKeyExpire, which *)
(* the constructor leaves FALSE and a load copies from the flag.  The due  *)
(* date is the last word (four bytes) of a value's data and is told from   *)
(* the rest of the value by nothing else.                                  *)
(*                                                                         *)
(* A call waits for m_lock in call; what it does under the lock is one     *)
(* step.  set() looks at m_enableKeyExpire twice before it takes the lock, *)
(* each look a step.  Calls that store nothing but expiry's own removals   *)
(* (a read, count, trim) are one step.  Store shows that file and memory   *)
(* hold the same dictionary, but for the keys a failed write-back dropped. *)
(* Time counts up to MaxTime; sums of it are uint32_t and wrap.            *)
(***************************************************************************)
EXTENDS Naturals, Sequences, FiniteSets

CONSTANTS Keys,
          Vals,      \* encoded values: a head of less than four bytes, then words
          Threads,   \* the application's threads
          Setters,   \* bound: the threads that call set()
          Others,    \* bound: the threads that call the rest
          Inputs,    \* bound: the pairs <<key, value>> set or imported
          Durations, \* the expireDuration of a call
          Opens,     \* KFKVConfig.enableKeyExpire at an open: "unset", "on", "off"
          MaxTime,   \* bound: ticks of the clock
          TimeWrap,  \* 2^32
          None,
          Lost       \* TimedMap's value that cannot be told from its due date

Never == 0  \* ExpireNever
Words == 0 .. TimeWrap - 1

\* buf starts with v.
Starts(buf, v) == Len(v) <= Len(buf) /\ SubSeq(buf, 1, Len(v)) = v

\* Every encoding says where it ends, so none is the beginning of another.
ASSUME ValsAssumption ==
    /\ Vals \subseteq Seq(Words) /\ <<>> \notin Vals
    /\ \A v, w \in Vals : Starts(w, v) => v = w
ASSUME NoneAssumption ==
    /\ None \notin Seq(Nat) /\ Lost # None
    /\ None \notin [val : Seq(Nat), due : Nat] /\ Lost \notin [val : Seq(Nat), due : Nat]
    /\ None \notin [op : {"set", "remove", "import", "enable", "disable"},
                    key : Keys \cup {None}, val : Vals \cup {None}, time : Nat]
ASSUME TimeAssumption == TimeWrap \in Nat \ {0} /\ MaxTime \in Words
ASSUME InputsAssumption ==
    /\ Durations \subseteq Words /\ Opens \subseteq {"unset", "on", "off"}
    /\ Inputs \subseteq Keys \X Vals
    /\ Setters \subseteq Threads /\ Others \subseteq Threads

VARIABLES flag,    \* EnableKeyExipre in the meta file
          dic,     \* a key's data in the file and, but for gone, in m_dic
          gone,    \* keys in the file that m_dic has lost
          loaded,  \* ~m_needLoadFromFile
          enable,  \* m_enableKeyExpire
          secs,    \* m_expiredInSeconds
          fresh,   \* m_hasFullWriteback
          now,     \* time(nullptr)
          call,    \* of each thread: the call it is in
          answer   \* what the call that has just ended returned

instVars == <<gone, loaded, enable, secs, fresh>>
vars == <<flag, dic, instVars, now, call, answer>>

Init ==
    /\ flag = FALSE
    /\ dic = [k \in Keys |-> None]
    /\ gone = {}
    /\ loaded = FALSE
    /\ enable = FALSE
    /\ secs = Never
    /\ fresh = FALSE
    /\ now = 0
    /\ call = [t \in Threads |-> None]
    /\ answer = None

--------------------------------------------------------------------------------
(* The due date in a value's data.                                             *)

Due(d) == IF d = Never THEN Never ELSE (now + d) % TimeWrap
Dated(v, d) == Append(v, Due(d))

\* raw.length() >= Fixed32Size
HasWord(data) == Len(data) >= 2
Word(data) == data[Len(data)]
Body(data) == SubSeq(data, 1, Len(data) - 1)

\* Seeded fault: a value lives through the second it is due in.
Expired_Late(data) == HasWord(data) /\ Word(data) # Never /\ Word(data) < now
Expired(data) == HasWord(data) /\ Word(data) # Never /\ Word(data) <= now

\* What a buffer can decode to: the value it starts with, nothing if it ends
\* too soon, and what is no value decodes to nothing or to any value.
Decodes(buf) ==
    IF \E v \in Vals : Starts(buf, v) THEN {v \in Vals : Starts(buf, v)}
    ELSE IF \E v \in Vals : Starts(v, buf) THEN {None}
    ELSE Vals \cup {None}

Without(m, S) == [k \in Keys |-> IF k \in S THEN None ELSE m[k]]
Present(m) == {k \in Keys : m[k] # None}
ExpiredKeys(m) == {k \in Present(m) : Expired(m[k])}

\* m_dic and m_dicCrypt.
View == Without(dic, gone)

\* checkLoadData: a load takes m_enableKeyExpire from the meta file.
On == IF loaded THEN enable ELSE flag
Load == loaded' = TRUE /\ enable' = On

\* filterExpiredKeys
Overdue == IF On THEN ExpiredKeys(View) ELSE {}
Filtered == Without(View, Overdue)

--------------------------------------------------------------------------------
(* Calls.                                                                      *)

In(t, ops) == call[t] # None /\ call[t].op \in ops

Call(t, op, k, v, n) ==
    call' = [call EXCEPT ![t] = [op |-> op, key |-> k, val |-> v, time |-> n]]

\* importFrom counts what it could not store, and an open returns the instance
\* however its configuration went.
Silent == {"import", "on", "off"}

Return(t, ok) ==
    /\ answer' = IF call[t].op \in Silent THEN None ELSE [ok |-> ok]
    /\ call' = [call EXCEPT ![t] = None]

\* Nobody has the instance while it is opened.
Opened == \A t \in Threads : ~In(t, {"on", "off"})

\* set() without a duration reads m_expiredInSeconds.
BeginSet(t) ==
    \E i \in Inputs, d \in Durations \cup {secs} : Call(t, "set", i[1], i[2], d)

BeginOther(t) ==
    \/ \E k \in Keys : Call(t, "remove", k, None, Never)
    \/ \E i \in Inputs : Call(t, "import", i[1], i[2], Never)
    \/ \E d \in Durations : Call(t, "enable", None, None, d)
    \/ Call(t, "disable", None, None, Never)

Begin(t) ==
    /\ call[t] = None
    /\ \/ t \in Setters /\ BeginSet(t)
       \/ t \in Others /\ BeginOther(t)
    /\ answer' = None
    /\ UNCHANGED <<flag, dic, instVars, now>>

\* set() sizes its buffer by what it sees of m_enableKeyExpire.
SetSize(t) ==
    /\ In(t, {"set"})
    /\ Call(t, IF enable THEN "roomy" ELSE "tight", call[t].key, call[t].val, call[t].time)
    /\ answer' = None
    /\ UNCHANGED <<flag, dic, instVars, now>>

\* And fills it by what it sees then: the due date finds no room
\* (writeRawLittleEndian32 throws), or its room is left as malloc gave it.
\* set() of a string is the two looks with nothing between them.
SetWrite(t) ==
    /\ In(t, {"roomy", "tight"})
    /\ LET c == call[t]
           roomy == c.op = "roomy"
           Then(op, n) == Call(t, op, c.key, c.val, n) /\ answer' = None
       IN  \/ roomy /\ enable /\ Then("dated", Due(c.time))
           \/ roomy /\ ~enable /\ \E n \in Words : Then("torn", n)
           \/ ~roomy /\ ~enable /\ Then("plain", Never)
           \/ ~roomy /\ enable /\ Return(t, FALSE)
    /\ UNCHANGED <<flag, dic, instVars, now>>

--------------------------------------------------------------------------------
(* Operations under m_lock.                                                    *)

\* ensureMemorySize without room in the file: the expired keys go, and if the
\* file cannot grow then, they have gone from memory only.
GrowFails == UNCHANGED dic /\ gone' = gone \cup Overdue

\* setDataForKey.  Without room, or with an empty dictionary, the dictionary is
\* written back first; a key alone in it is written over.
StoreData(k, data, ok) ==
    /\ \/ /\ ok /\ Present(View) # {}
          /\ dic' = [dic EXCEPT ![k] = data]
          /\ gone' = gone \ {k}
       \/ /\ ok
          /\ dic' = [Filtered EXCEPT ![k] = data]
          /\ gone' = {}
       \/ ~ok /\ GrowFails
    /\ Load
    /\ fresh' = (~ok /\ fresh)

SetStore(t) ==
    /\ In(t, {"dated", "plain", "torn"})
    /\ \E ok \in BOOLEAN :
          /\ LET c == call[t]
             IN  StoreData(c.key, IF c.op = "plain" THEN c.val ELSE Append(c.val, c.time), ok)
          /\ Return(t, ok)
    /\ UNCHANGED <<flag, secs, now>>

\* importFrom a file of one key: its value gets the instance's duration.
Import(t) ==
    /\ In(t, {"import"})
    /\ \E ok \in BOOLEAN :
          /\ LET c == call[t] IN StoreData(c.key, IF On THEN Dated(c.val, secs) ELSE c.val, ok)
          /\ Return(t, ok)
    /\ UNCHANGED <<flag, secs, now>>

\* removeDataForKey: the removal is appended, for which there may be no room.
RemoveData(k, ok) ==
    \/ ~ok /\ View[k] = None /\ UNCHANGED <<dic, gone, fresh>>
    \/ /\ ok /\ View[k] # None
       /\ dic' = Without(dic, {k})
       /\ fresh' = FALSE
       /\ UNCHANGED gone
    \/ /\ ok /\ View[k] # None
       /\ dic' = Without(Filtered, {k})
       /\ fresh' = TRUE
       /\ gone' = {}
    \/ ~ok /\ View[k] # None /\ GrowFails /\ fresh' = FALSE

Remove(t) ==
    /\ In(t, {"remove"})
    /\ \E ok \in BOOLEAN : RemoveData(call[t].key, ok) /\ Return(t, ok)
    /\ Load
    /\ UNCHANGED <<flag, secs, now>>

\* getDataForKey looks at m_enableKeyExpire before it loads; with expiry on a
\* read that finds an expired key removes it.
Found(k) ==
    IF View[k] = None THEN {None}
    ELSE IF ~enable \/ ~HasWord(View[k]) THEN Decodes(View[k])
    ELSE IF On /\ Expired(View[k]) THEN {None}
    ELSE Decodes(Body(View[k]))

Get(k) ==
    /\ \E v \in Found(k) : answer' = [key |-> k, val |-> v]
    /\ IF enable /\ k \in Overdue
       THEN \E ok \in BOOLEAN : RemoveData(k, ok)
       ELSE UNCHANGED <<dic, gone, fresh>>
    /\ Load
    /\ UNCHANGED <<flag, secs, now, call>>

\* fullWriteback: nothing if nothing changed since the last one; with nothing
\* left clearAll, after which it counts for nothing.
FullWriteback(onlyWhileExpire) ==
    \/ /\ fresh \/ (onlyWhileExpire /\ Overdue = {})
       /\ UNCHANGED <<dic, gone, fresh>>
    \/ /\ ~fresh /\ ~(onlyWhileExpire /\ Overdue = {})
       /\ dic' = Filtered
       /\ gone' = {}
       /\ fresh' = (Present(Filtered) # {})

\* count(true), allKeys(true)
CountFiltered ==
    /\ IF On THEN FullWriteback(TRUE) ELSE UNCHANGED <<dic, gone, fresh>>
    /\ answer' = [keys |-> Present(View')]
    /\ Load
    /\ UNCHANGED <<flag, secs, now, call>>

\* trim of a file that has grown
Trim ==
    /\ FullWriteback(FALSE)
    /\ Load
    /\ answer' = None
    /\ UNCHANGED <<flag, secs, now, call>>

\* clearMemoryCache
Forget == loaded' = FALSE /\ fresh' = FALSE /\ gone' = {}

ClearMemoryCache ==
    /\ loaded
    /\ Forget
    /\ answer' = None
    /\ UNCHANGED <<flag, dic, enable, secs, now, call>>

--------------------------------------------------------------------------------
(* Switching.                                                                  *)

AllDated(d) == [k \in Keys |-> IF View[k] = None THEN None ELSE Dated(View[k], d)]

\* Seeded fault: what is too short to be cut is cut all the same.
NoneDated_CutsShort == [k \in Keys |-> IF View[k] = None THEN None ELSE Body(View[k])]

\* A value too short for a due date is dropped.
NoneDated ==
    [k \in Keys |-> IF View[k] = None \/ ~HasWord(View[k]) THEN None ELSE Body(View[k])]

\* Seeded fault: a write-back that fails leaves the cache as it is.
WriteBackFails_KeepsCache == loaded' = TRUE /\ UNCHANGED <<flag, dic, gone, fresh>>

\* doFullWriteBack(vec) clears the cache, also when the file could not grow and
\* the meta file has not been written.
WriteBackFails == UNCHANGED <<flag, dic>> /\ Forget

\* The instance has loaded the file, and neither needs a change but the flag's.
JustMeta(on) == flag' = on /\ loaded' = TRUE /\ UNCHANGED <<dic, gone, fresh>>

\* enableAutoKeyExpire: m_enableKeyExpire is set before anything else.
EnableWith(d, ok) ==
    /\ enable' = TRUE /\ secs' = d
    /\ \/ ok /\ (flag \/ Present(dic) = {}) /\ JustMeta(TRUE)
       \/ ok /\ ~flag /\ flag' = TRUE /\ dic' = AllDated(d) /\ Forget
       \/ ~ok /\ ~flag /\ Present(View) # {} /\ WriteBackFails

\* disableAutoKeyExpire: what it rewrites is less than the file holds.
DisableAll ==
    /\ enable' = FALSE /\ secs' = Never
    /\ \/ (~flag \/ Present(dic) = {}) /\ JustMeta(FALSE)
       \/ flag /\ flag' = FALSE /\ dic' = NoneDated /\ Forget

Enable(t) ==
    /\ In(t, {"enable"})
    /\ \E ok \in BOOLEAN : EnableWith(call[t].time, ok) /\ Return(t, ok)
    /\ UNCHANGED now

Disable(t) == In(t, {"disable"}) /\ DisableAll /\ Return(t, TRUE) /\ UNCHANGED now

\* The process ends with all its calls, and a new one opens the file.
Reopen(t, config, d) ==
    /\ enable' = FALSE /\ secs' = Never
    /\ Forget
    /\ call' = [u \in Threads |->
                   IF u = t /\ config # "unset"
                   THEN [op |-> config, key |-> None, val |-> None, time |-> d]
                   ELSE None]
    /\ answer' = None
    /\ UNCHANGED <<flag, dic, now>>

\* configAutoExipreIfNeeded, which reads the meta file.
Configure(t) ==
    /\ \/ /\ In(t, {"on"}) /\ flag
          /\ enable' = TRUE /\ secs' = call[t].time
          /\ UNCHANGED <<flag, dic, gone, loaded, fresh>>
          /\ Return(t, TRUE)
       \/ /\ In(t, {"on"}) /\ ~flag
          /\ \E ok \in BOOLEAN : EnableWith(call[t].time, ok) /\ Return(t, ok)
       \/ In(t, {"off"}) /\ flag /\ DisableAll /\ Return(t, TRUE)
       \/ /\ In(t, {"off"}) /\ ~flag
          /\ enable' = FALSE
          /\ UNCHANGED <<flag, dic, gone, loaded, secs, fresh>>
          /\ Return(t, TRUE)
    /\ UNCHANGED now

Tick ==
    /\ now < MaxTime
    /\ now' = now + 1
    /\ answer' = None
    /\ UNCHANGED <<flag, dic, instVars, call>>

ThreadNext(t) ==
    \/ Begin(t)
    \/ SetSize(t) \/ SetWrite(t) \/ SetStore(t)
    \/ Import(t) \/ Remove(t)
    \/ Enable(t) \/ Disable(t)

Next ==
    \/ /\ Opened
       /\ \/ \E t \in Threads : ThreadNext(t)
          \/ \E k \in Keys : Get(k)
          \/ CountFiltered \/ Trim \/ ClearMemoryCache
          \/ \E t \in Others, config \in Opens, d \in Durations : Reopen(t, config, d)
    \/ \E t \in Threads : Configure(t)
    \/ Tick

Spec == Init /\ [][Next]_vars

--------------------------------------------------------------------------------
(* Properties.                                                                 *)

DatedVals == {Append(v, n) : v \in Vals, n \in Words}
Data == Seq(Words) \ {<<>>}

\* What set() encodes and what has been encoded, and the other calls.
SetOps == {"set", "roomy", "tight", "dated", "plain", "torn"}
CallOps == SetOps \cup {"remove", "import", "enable", "disable", "on", "off"}

CallOK(c) ==
    /\ c \in [op : CallOps, key : Keys \cup {None}, val : Vals \cup {None}, time : Words]
    /\ c.op \in SetOps \cup {"import"} => c.key \in Keys /\ c.val \in Vals
    /\ c.op = "remove" => c.key \in Keys
    /\ c.op \in {"enable", "on"} => c.time \in Durations
    /\ c.op = "plain" => c.time = Never

\* The values the variables take: no data in the file is empty, the mark of a
\* removed key (disableAutoKeyExpire cuts four bytes off whatever it finds).
TypeOK ==
    /\ flag \in BOOLEAN /\ loaded \in BOOLEAN
    /\ enable \in BOOLEAN /\ fresh \in BOOLEAN
    /\ \A k \in Keys : dic[k] # None => dic[k] \in Data
    /\ gone \subseteq Present(dic)
    /\ secs \in Durations \cup {Never}
    /\ now \in 0 .. MaxTime
    /\ \A t \in Threads : call[t] # None => CallOK(call[t])

\* An instance that has loaded its file does about due dates what the meta file
\* says, though enableAutoKeyExpire sets m_enableKeyExpire before a write-back
\* that may fail, and an open leaves it FALSE.
LoadedKnowsFlag == loaded => enable = flag

\* In a file whose meta file says so every value ends in a due date, in any
\* other file none does: getDataWithoutMTimeForKey, filterExpiredKeys and
\* disableAutoKeyExpire assert the first and cut the last word off whatever it
\* is, though set() decides before it takes the lock.
ValuesCarryDueDates ==
    \A k \in Present(dic) : dic[k] \in IF flag THEN DatedVals ELSE Vals

\* "filterExpire: return count of all non-expired keys": count(true) and
\* allKeys(true) leave out the keys whose due date has come.
CountLeavesExpiredOut ==
    \A S \in SUBSET Keys : answer = [keys |-> S] =>
        \A k \in S : ~(flag /\ Expired(dic[k]))

\* The file as the map with due dates that it promises to be.
Entry(k) ==
    IF dic[k] = None THEN None
    ELSE IF flag /\ dic[k] \in DatedVals THEN [val |-> Body(dic[k]), due |-> Word(dic[k])]
    ELSE IF ~flag /\ dic[k] \in Vals THEN [val |-> dic[k], due |-> Never]
    ELSE Lost

Promise == INSTANCE TimedMap WITH
               map <- [k \in Keys |-> Entry(k)], on <- flag, seen <- enable

\* With threads inside set() while others read, count, trim, import, remove
\* and switch, with files that cannot grow, and through restarts: a read
\* returns the last value stored until it is due and not from then on, nothing
\* goes before it is due, and only a set, an import or switching expiry on
\* gives a due date.  A value is lost only if its set() saw expiry the other
\* way than it is when the value is stored.
ImplementsTimedMap == Promise!Spec
================================================================================
