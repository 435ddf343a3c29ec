----------------------------- MODULE ListStore -----------------------------
(***************************************************************************)
(* The list operations of KeyStore: a cache in front of a database, each   *)
(* operation on a list under the lock of its key (AtomicKeyOperation, here *)
(* the KeyMutex it implements), DeleteKey and StorePurge under no lock.    *)
(*                                                                         *)
(* The cache holds references: an operation that finds a list edits the    *)
(* cached object itself. Taking the lock, TryGet and that edit are one     *)
(* action: until its Upsert the thread does nothing else another thread    *)
(* could tell apart from the lock being taken a moment later.              *)
(***************************************************************************)
EXTENDS ListEdits

CONSTANTS
  Threads, NoThread, NoOp, NoKey,
  Persistent,   \* PersistenceScheme: with a database or only the cache
  CacheLoss,    \* cached lists expire and FlushCache is called
  Destructive,  \* DeleteKey and StorePurge are called
  MayFail,      \* a Put may throw
  MayCrash,     \* the process may end and start again
  ClientIds,    \* Ids of items that callers supply and may supply again
  MaxUses       \* bound: how often such an Id is pushed

ASSUME ThreadsAssumption == NoThread \notin Threads
ASSUME FlagsAssumption ==
  {Persistent, CacheLoss, Destructive, MayFail, MayCrash} \subseteq BOOLEAN
ASSUME ClientIdsAssumption == ClientIds \subseteq Items /\ MaxUses \in Nat
ASSUME NoOpAssumption == NoOp \notin Updates \cup Reads
ASSUME NoKeyAssumption == NoKey \notin Keys

VARIABLES
  owner,   \* the key lock
  pc,      \* where each thread is
  op,      \* the operation it executes
  list,    \* its local variable list
  cache,   \* _memoryCache
  db,      \* _database
  uses,    \* history: how often an Id was pushed; Guid.NewGuid() gives one never used
  deleted  \* history: the items some DeleteListItemByKey named

vars == <<owner, pc, op, list, cache, db, uses, deleted>>

Lock == INSTANCE KeyMutex

Removals == [kind : {"removeKey"}, key : Keys, item : {NoItem}]
              \cup [kind : {"purge"}, key : {NoKey}, item : {NoItem}]
Operations == Updates \cup Reads \cup (IF Destructive THEN Removals ELSE {})

IsUpdate(o) == o.kind \in {"pushFirst", "pushLast", "deleteItem"}
IsPush(o) == o.kind \in {"pushFirst", "pushLast"}
IsRemoval(o) == o.kind \in {"removeKey", "purge"}

\* The keys a DeleteKey or StorePurge removes.
Doomed(o) == IF o.kind = "purge" THEN Keys ELSE {o.key}

Init ==
  /\ Lock!Init
  /\ pc = [t \in Threads |-> "idle"]
  /\ op = [t \in Threads |-> NoOp]
  /\ list = [t \in Threads |-> NoList]
  /\ cache = [k \in Keys |-> NoList]
  /\ db = [k \in Keys |-> NoList]
  /\ uses = [x \in Items |-> 0]
  /\ deleted = {}
-----------------------------------------------------------------------------
\* Guid.NewGuid(), or KkListItem.Id used as it is.
MayPush(x) == uses[x] < (IF x \in ClientIds THEN MaxUses ELSE 1)

Call(t) ==
  /\ pc[t] = "idle"
  /\ \E o \in Operations :
       /\ IsPush(o) => MayPush(o.item)
       /\ op' = [op EXCEPT ![t] = o]
       /\ uses' = IF IsPush(o) THEN [uses EXCEPT ![o.item] = @ + 1] ELSE uses
       /\ deleted' = IF o.kind = "deleteItem" THEN deleted \cup {o.item} ELSE deleted
  /\ pc' = [pc EXCEPT ![t] = "waiting"]
  /\ UNCHANGED <<owner, list, cache, db>>

\* Mutant: `_database?.Write` is forgotten.
NotStored(o) == IF IsUpdate(o) THEN "cache" ELSE "done"

\* Where a thread goes once it has its list: `_database?.Write` does nothing
\* without a database.
AfterEdit(o) == IF ~IsUpdate(o) THEN "done" ELSE IF Persistent THEN "store" ELSE "cache"

\* Mutant: the lock is granted although another thread holds it.
GrantedToAnyone(t, k) == owner' = [owner EXCEPT ![k] = t]

Granted(t, k) == Lock!Acquire(t, k)

\* The lock is granted and TryGet succeeds: the cached list is edited in place.
EnterHit(t) ==
  LET o == op[t] IN
  /\ pc[t] = "waiting" /\ ~IsRemoval(o)
  /\ Granted(t, o.key)
  /\ cache[o.key] # NoList
  /\ list' = [list EXCEPT ![t] = Edited(o, cache[o.key])]
  /\ cache' = [cache EXCEPT ![o.key] = Edited(o, @)]
  /\ pc' = [pc EXCEPT ![t] = AfterEdit(o)]
  /\ UNCHANGED <<op, db, uses, deleted>>

\* The lock is granted and TryGet fails.
EnterMiss(t) ==
  LET o == op[t] IN
  /\ pc[t] = "waiting" /\ ~IsRemoval(o)
  /\ Granted(t, o.key)
  /\ cache[o.key] = NoList
  /\ pc' = [pc EXCEPT ![t] = "load"]
  /\ UNCHANGED <<op, list, cache, db, uses, deleted>>

\* Mutant: a missing cache entry is taken for a missing list.
FoundNothing(k) == NoList

Found(k) == db[k]

\* The list is read from the database, or made if there is none, and edited.
Load(t) ==
  LET o == op[t] IN
  /\ pc[t] = "load"
  /\ list' = [list EXCEPT ![t] = Edited(o, Found(o.key))]
  /\ pc' = [pc EXCEPT ![t] = AfterEdit(o)]
  /\ UNCHANGED <<owner, op, cache, db, uses, deleted>>

Put(t) ==
  /\ pc[t] = "store"
  /\ db' = [db EXCEPT ![op[t].key] = list[t]]
  /\ pc' = [pc EXCEPT ![t] = "cache"]
  /\ UNCHANGED <<owner, op, list, cache, uses, deleted>>

Ended(t) ==
  /\ pc' = [pc EXCEPT ![t] = "idle"]
  /\ op' = [op EXCEPT ![t] = NoOp]
  /\ list' = [list EXCEPT ![t] = NoList]

\* Mutant: an exception leaves the key locked.
KeepLock(t) == UNCHANGED owner

GiveUpLock(t) == Lock!Release(t, op[t].key)

\* The Put throws, and the exception leaves Execute.
PutFails(t) ==
  /\ MayFail
  /\ pc[t] = "store"
  /\ GiveUpLock(t)
  /\ Ended(t)
  /\ UNCHANGED <<cache, db, uses, deleted>>

Upsert(k, l) == cache' = [cache EXCEPT ![k] = l]

UpsertList(t) ==
  /\ pc[t] = "cache"
  /\ Upsert(op[t].key, list[t])
  /\ pc' = [pc EXCEPT ![t] = "done"]
  /\ UNCHANGED <<owner, op, list, db, uses, deleted>>

Return(t) ==
  /\ pc[t] = "done" /\ ~IsRemoval(op[t])
  /\ Lock!Release(t, op[t].key)
  /\ Ended(t)
  /\ UNCHANGED <<cache, db, uses, deleted>>
-----------------------------------------------------------------------------
\* DeleteKey and StorePurge: first the cache, then the database.
RemoveFromCache(t) ==
  /\ pc[t] = "waiting" /\ IsRemoval(op[t])
  /\ cache' = [k \in Keys |-> IF k \in Doomed(op[t]) THEN NoList ELSE cache[k]]
  /\ pc' = [pc EXCEPT ![t] = "remove"]
  /\ UNCHANGED <<owner, op, list, db, uses, deleted>>

RemoveFromDatabase(t) ==
  /\ pc[t] = "remove"
  /\ db' = [k \in Keys |-> IF k \in Doomed(op[t]) THEN NoList ELSE db[k]]
  /\ Ended(t)
  /\ UNCHANGED <<owner, cache, uses, deleted>>

\* A cached list expires, or FlushCache drops it with the others.
Expire(k) ==
  /\ CacheLoss
  /\ cache[k] # NoList
  /\ cache' = [cache EXCEPT ![k] = NoList]
  /\ UNCHANGED <<owner, pc, op, list, db, uses, deleted>>

FlushCache ==
  /\ CacheLoss
  /\ cache' = [k \in Keys |-> NoList]
  /\ UNCHANGED <<owner, pc, op, list, db, uses, deleted>>

\* The process ends and is started again: only the database is left.
Crash ==
  /\ MayCrash
  /\ owner' = [k \in Keys |-> NoThread]
  /\ pc' = [t \in Threads |-> "idle"]
  /\ op' = [t \in Threads |-> NoOp]
  /\ list' = [t \in Threads |-> NoList]
  /\ cache' = [k \in Keys |-> NoList]
  /\ UNCHANGED <<db, uses, deleted>>

Next ==
  \/ \E t \in Threads :
       \/ Call(t) \/ EnterHit(t) \/ EnterMiss(t) \/ Load(t) \/ Put(t) \/ PutFails(t)
       \/ UpsertList(t) \/ Return(t) \/ RemoveFromCache(t) \/ RemoveFromDatabase(t)
  \/ \E k \in Keys : Expire(k)
  \/ FlushCache
  \/ Crash

Spec == Init /\ [][Next]_vars

\* A thread that runs in Execute goes on; nothing makes callers call.
Fairness == \A t \in Threads :
  /\ WF_vars(Load(t)) /\ WF_vars(Put(t) \/ PutFails(t))
  /\ WF_vars(UpsertList(t)) /\ WF_vars(Return(t))
FairSpec == Spec /\ Fairness
-----------------------------------------------------------------------------
\* A thread inside Execute.
Inside(t) == pc[t] \in {"load", "store", "cache", "done"}

\* The types, and who holds which key.
TypeOK ==
  /\ owner \in [Keys -> Threads \cup {NoThread}]
  /\ pc \in [Threads -> {"idle", "waiting", "load", "store", "cache", "done", "remove"}]
  /\ op \in [Threads -> Operations \cup {NoOp}]
  /\ list \in [Threads -> Lists \cup {NoList}]
  /\ cache \in [Keys -> Lists \cup {NoList}]
  /\ db \in [Keys -> Lists \cup {NoList}]
  /\ uses \in [Items -> Nat]
  /\ deleted \subseteq Items
  /\ \A t \in Threads : pc[t] # "idle" => op[t] \in Operations
  /\ \A t \in Threads, k \in Keys : owner[k] = t <=> Inside(t) /\ op[t].key = k

\* The list that the next operation on k finds.
Stored(k) == IF Persistent THEN db[k] ELSE cache[k]

\* When nobody holds the key, a cached list is the one in the database: an
\* edit of the cached object and a list that is new are always followed by the
\* Put of the same list. A DeleteKey or StorePurge between the Put and the Upsert
\* of a list operation leaves a cached list and none in the database.
CacheAgrees ==
  Persistent => \A k \in Keys :
    owner[k] = NoThread /\ cache[k] # NoList => cache[k] = db[k] \/ (Destructive /\ db[k] = NoList)

\* An item leaves a list only because a DeleteListItemByKey named it or the
\* whole key is being removed: no push overwrites what another one added.
NoLostItem ==
  [][\A k \in Keys : \A x \in Elements(Stored(k)) \ Elements(Stored(k))' :
       \/ x \in deleted'
       \/ \E t \in Threads : /\ pc[t] \in {"waiting", "remove"}
                            /\ IsRemoval(op[t]) /\ k \in Doomed(op[t])]_vars

\* An item enters a list only while it is being pushed on it: what was deleted
\* does not come back with a list that some thread read before.
NoGhostItem ==
  [][\A k \in Keys : \A x \in Elements(Stored(k))' \ Elements(Stored(k)) :
       \E t \in Threads : pc[t] # "idle" /\ IsPush(op[t]) /\ op[t].item = x /\ op[t].key = k]_vars

\* A key without a list gets one with what is being pushed: the values that
\* DeleteKey ("Removes the value") or StorePurge ("Removes all values from a
\* key-store") removed are gone.
RemovedStaysRemoved ==
  [][\A k \in Keys : Stored(k) = NoList => \A x \in Elements(Stored(k))' :
       \E t \in Threads : pc[t] # "idle" /\ IsPush(op[t]) /\ op[t].item = x /\ op[t].key = k]_vars

\* An item is in the store as often as it was pushed, at most: no push takes
\* effect twice, although it edits a cached list and stores it as well.
Places(l, x) == Cardinality({i \in 1..Len(OrNew(l)) : OrNew(l)[i] = x})
PushedOnce ==
  \A x \in Items, k \in Keys : Places(Stored(k), x) <= uses[x]

\* A thread that got the lock of a key gives it up, however its Put ends.
LockGivenUp ==
  \A t \in Threads, k \in Keys : owner[k] = t ~> owner[k] # t

\* The operations are atomic: the update takes effect with the Put (with the
\* edit or the Upsert of the cached list in a store without a database).
Applied(t) ==
  pc[t] = "done" \/ (pc[t] = "cache" /\ Stored(op[t].key) # NoList)
CallOf(t) ==
  [status |-> IF pc[t] = "idle" THEN "idle" ELSE IF Applied(t) THEN "done" ELSE "pending",
   op |-> op[t],
   reply |-> IF Applied(t) THEN Reply(op[t], list[t]) ELSE NoItem]
Abstract == INSTANCE ListSpec WITH
  lists <- [k \in Keys |-> Stored(k)], calls <- [t \in Threads |-> CallOf(t)]
ImplementsListSpec == Abstract!Spec
=============================================================================
