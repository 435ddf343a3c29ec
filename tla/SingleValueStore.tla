-------------------------- MODULE SingleValueStore --------------------------
(***************************************************************************)
(* The single-value operations of a persistent KeyStore. They take no key  *)
(* lock: SetSingleValue writes the cache and then the database, DeleteKey  *)
(* and StorePurge remove from the cache and then from the database, and    *)
(* GetSingleValue looks into the cache and then into the database.         *)
(*                                                                         *)
(* Each write has a name of its own: a Set is named by its value, a        *)
(* removal by one of Removals, so that what a Get returns tells which      *)
(* writes it can come from.                                                *)
(***************************************************************************)
EXTENDS Naturals

CONSTANTS
  Threads, Keys,
  Values,     \* every Set writes another one
  Removals,   \* names of DeleteKey and StorePurge calls
  NoOp,
  None,       \* no value; as the name of a write, the empty store's
  MayFail     \* a Put or Remove of the database may throw

ASSUME NamesAssumption == Values \cap Removals = {} /\ None \notin Values \cup Removals
ASSUME MayFailAssumption == MayFail \in BOOLEAN

VARIABLES
  pc,       \* "idle", "called", "half" (cache done, database not), "done"
  op,       \* the call: its kind, its keys and the name of its write
  result,   \* what a Get returns
  cache, db,
  used,     \* history: the names of all writes so far
  settled,  \* history, per key: ended writes that no later write has replaced
  before    \* history, per thread and key: settled when its call began

vars == <<pc, op, result, cache, db, used, settled, before>>

Writes == Values \cup Removals

\* Mutant: a removal leaves something behind.
LeftBehind(w) == w

Written(w) == IF w \in Values THEN w ELSE None

Ops == [kind : {"set"}, keys : {{k} : k \in Keys}, write : Values]
  \cup [kind : {"remove"}, keys : {{k} : k \in Keys}, write : Removals]
  \cup [kind : {"purge"}, keys : {Keys}, write : Removals]
  \cup [kind : {"get"}, keys : {{k} : k \in Keys}, write : {None}]

IsWrite(o) == o.kind # "get"
KeyOf(o) == CHOOSE k \in o.keys : TRUE

Init ==
  /\ pc = [t \in Threads |-> "idle"]
  /\ op = [t \in Threads |-> NoOp]
  /\ result = [t \in Threads |-> None]
  /\ cache = [k \in Keys |-> None]
  /\ db = [k \in Keys |-> None]
  /\ used = {}
  /\ settled = [k \in Keys |-> {None}]
  /\ before = [t \in Threads |-> [k \in Keys |-> {}]]
-----------------------------------------------------------------------------
Call(t) ==
  /\ pc[t] = "idle"
  /\ \E o \in Ops :
       /\ o.write \notin used
       /\ op' = [op EXCEPT ![t] = o]
       /\ used' = IF IsWrite(o) THEN used \cup {o.write} ELSE used
  /\ pc' = [pc EXCEPT ![t] = "called"]
  /\ before' = [before EXCEPT ![t] = settled]
  /\ UNCHANGED <<result, cache, db, settled>>

\* Mutant: the database keeps what it had.
KeepPersisted(k, v) == db[k]

CachedAfter(k, v) == v
PersistedAfter(k, v) == v

\* _memoryCache.Upsert, Remove or Clear.
WriteCache(t) ==
  LET o == op[t] IN
  /\ pc[t] = "called" /\ IsWrite(o)
  /\ cache' = [k \in Keys |-> IF k \in o.keys THEN CachedAfter(k, Written(o.write)) ELSE cache[k]]
  /\ pc' = [pc EXCEPT ![t] = "half"]
  /\ UNCHANGED <<op, result, db, used, settled, before>>

\* _database?.Write of the Put or the Removes.
WriteDatabase(t) ==
  LET o == op[t] IN
  /\ pc[t] = "half" /\ IsWrite(o)
  /\ db' = [k \in Keys |-> IF k \in o.keys THEN PersistedAfter(k, Written(o.write)) ELSE db[k]]
  /\ pc' = [pc EXCEPT ![t] = "done"]
  /\ UNCHANGED <<op, result, cache, used, settled, before>>

FoundInDatabase(k) == db[k]

\* TryGet succeeds.
GetHit(t) ==
  /\ pc[t] = "called" /\ ~IsWrite(op[t])
  /\ cache[KeyOf(op[t])] # None
  /\ result' = [result EXCEPT ![t] = cache[KeyOf(op[t])]]
  /\ pc' = [pc EXCEPT ![t] = "done"]
  /\ UNCHANGED <<op, cache, db, used, settled, before>>

\* TryGet fails; the database is read later, and the cache is not filled.
GetMiss(t) ==
  /\ pc[t] = "called" /\ ~IsWrite(op[t])
  /\ cache[KeyOf(op[t])] = None
  /\ pc' = [pc EXCEPT ![t] = "half"]
  /\ UNCHANGED <<op, result, cache, db, used, settled, before>>
GetFromDatabase(t) ==
  /\ pc[t] = "half" /\ ~IsWrite(op[t])
  /\ result' = [result EXCEPT ![t] = FoundInDatabase(KeyOf(op[t]))]
  /\ pc' = [pc EXCEPT ![t] = "done"]
  /\ UNCHANGED <<op, cache, db, used, settled, before>>

Ended(t) ==
  /\ pc' = [pc EXCEPT ![t] = "idle"]
  /\ op' = [op EXCEPT ![t] = NoOp]
  /\ result' = [result EXCEPT ![t] = None]
  /\ before' = [before EXCEPT ![t] = [k \in Keys |-> {}]]

\* The call returns: its write replaces those that had ended before it began.
Return(t) ==
  /\ pc[t] = "done"
  /\ settled' = IF ~IsWrite(op[t]) THEN settled ELSE
       [k \in Keys |-> IF k \in op[t].keys
                       THEN (settled[k] \ before[t][k]) \cup {op[t].write} ELSE settled[k]]
  /\ Ended(t)
  /\ UNCHANGED <<cache, db, used>>

\* The writes under way on k.
Underway(k) == {op[t].write : t \in {u \in Threads : pc[u] # "idle" /\ IsWrite(op[u])
                                                     /\ k \in op[u].keys}}

\* The database throws after the cache was written. The caller gets the
\* exception; the write may show or not, and replaces nothing.
DatabaseFails(t) ==
  /\ MayFail
  /\ pc[t] = "half" /\ IsWrite(op[t])
  /\ settled' = [k \in Keys |-> IF k \in op[t].keys THEN settled[k] \cup {op[t].write}
                                                    ELSE settled[k]]
  /\ Ended(t)
  /\ UNCHANGED <<cache, db, used>>

\* A cached value expires, or FlushCache drops them all.
Expire(k) ==
  /\ cache[k] # None
  /\ cache' = [cache EXCEPT ![k] = None]
  /\ UNCHANGED <<pc, op, result, db, used, settled, before>>
FlushCache ==
  /\ cache' = [k \in Keys |-> None]
  /\ UNCHANGED <<pc, op, result, db, used, settled, before>>

\* The process ends and is started again; what was under way may show or not.
Crash ==
  /\ pc' = [t \in Threads |-> "idle"]
  /\ op' = [t \in Threads |-> NoOp]
  /\ result' = [t \in Threads |-> None]
  /\ cache' = [k \in Keys |-> None]
  /\ settled' = [k \in Keys |-> settled[k] \cup Underway(k)]
  /\ before' = [t \in Threads |-> [k \in Keys |-> {}]]
  /\ UNCHANGED <<db, used>>

Next ==
  \/ \E t \in Threads :
       \/ Call(t) \/ WriteCache(t) \/ WriteDatabase(t) \/ GetHit(t) \/ GetMiss(t)
       \/ GetFromDatabase(t) \/ Return(t) \/ DatabaseFails(t)
  \/ \E k \in Keys : Expire(k)
  \/ FlushCache
  \/ Crash

Spec == Init /\ [][Next]_vars
-----------------------------------------------------------------------------
TypeOK ==
  /\ pc \in [Threads -> {"idle", "called", "half", "done"}]
  /\ op \in [Threads -> Ops \cup {NoOp}]
  /\ result \in [Threads -> Values \cup {None}]
  /\ cache \in [Keys -> Values \cup {None}]
  /\ db \in [Keys -> Values \cup {None}]
  /\ used \subseteq Writes
  /\ settled \in [Keys -> SUBSET (Writes \cup {None})]
  /\ before \in [Threads -> [Keys -> SUBSET (Writes \cup {None})]]
  /\ \A t \in Threads : pc[t] # "idle" => op[t] \in Ops

\* The values a Get of k may return: those of ended writes that no write has
\* replaced which began after they ended, and of writes under way.
Admissible(k) == {Written(w) : w \in settled[k] \cup Underway(k)}

\* Reads are regular although nothing orders the cache and the database: no
\* Get returns a value that a whole later Set or removal has replaced.
RegularReads ==
  [][\A t \in Threads : pc[t] # "done" /\ pc'[t] = "done" /\ ~IsWrite(op[t])
       => result'[t] \in Admissible(KeyOf(op[t]))]_vars

\* Whatever the interleaving, a write with nothing beside it leaves the cache
\* and the database with one value: a divergence heals with the next Set.
SoleWriteAgrees ==
  \A k \in Keys, w \in Writes \cup {None} :
    Underway(k) = {} /\ settled[k] = {w} /\ cache[k] # None => cache[k] = db[k]

\* "Key-values are stored on disk and survive service restarts": with no write
\* under way, what a Get returns is what it returns after a restart.
SurvivesRestart ==
  \A k \in Keys : Underway(k) = {} /\ cache[k] # None => cache[k] = db[k]
=============================================================================
