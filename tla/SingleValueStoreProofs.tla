----------------------- MODULE SingleValueStoreProofs -----------------------
(***************************************************************************)
(* Theorems about the single-value operations of KeyStore, for all threads *)
(* and keys and any number of writes: although nothing orders the cache    *)
(* and the database, no Get returns a value that a later write has         *)
(* replaced, and a write with nothing beside it brings the two together.   *)
(***************************************************************************)
EXTENDS SingleValueStore, TLAPS

\* The threads that are in SetSingleValue, DeleteKey or StorePurge.
Writing(t) == pc[t] # "idle" /\ IsWrite(op[t])

\* Every write has a name of its own. What has ended when a call begins has
\* another one than any write under way.
NamesOK ==
  /\ \A k \in Keys : settled[k] \subseteq used \cup {None}
  /\ \A t \in Threads, k \in Keys : before[t][k] \subseteq used \cup {None}
  /\ \A t \in Threads : Writing(t) => op[t].write \in used
  /\ \A t, u \in Threads : Writing(t) /\ Writing(u) /\ op[t].write = op[u].write => t = u
  /\ \A t \in Threads, k \in Keys : Writing(t) => op[t].write \notin settled[k]
  /\ \A t, u \in Threads, k \in Keys : Writing(t) => op[t].write \notin before[u][k]

\* The writes that a value of k may be of.
Visible(k) == settled[k] \cup Underway(k)

\* A cached value is of one of them, and once a write has been to the cache
\* not of one that had ended before it began.
CacheOK ==
  \A k \in Keys : cache[k] # None =>
    /\ cache[k] \in Visible(k)
    /\ \A t \in Threads : Writing(t) /\ pc[t] # "called" /\ k \in op[t].keys
         => cache[k] \notin before[t][k]

\* The same of the database and the writes that have been there. That there is
\* no value may be the work of any removal: w is one it can be of.
DatabaseOK ==
  \A k \in Keys : \E w \in Visible(k) :
    /\ db[k] = Written(w)
    /\ \A t \in Threads : Writing(t) /\ pc[t] = "done" /\ k \in op[t].keys => w \notin before[t][k]

Inv == TypeOK /\ NamesOK /\ CacheOK /\ DatabaseOK
-----------------------------------------------------------------------------
\* What the calls look like.
LEMMA Calls ==
  ASSUME NEW o \in Ops
  PROVE  /\ o.keys \subseteq Keys
         /\ o.kind \in {"set", "remove", "purge", "get"}
         /\ IsWrite(o) => o.write \in Writes
         /\ ~IsWrite(o) => o.write = None /\ KeyOf(o) \in Keys
BY DEF Ops, IsWrite, KeyOf, Writes

LEMMA WrittenType ==
  /\ \A w \in Writes \cup {None} : Written(w) \in Values \cup {None}
  /\ \A w \in Values : Written(w) = w
BY DEF Written, Writes

\* Which writes are under way.
LEMMA UnderwayIs ==
  ASSUME NEW k, NEW w
  PROVE  w \in Underway(k) <=> \E t \in Threads : Writing(t) /\ k \in op[t].keys /\ op[t].write = w
BY DEF Underway, Writing

LEMMA UnderwayIsNext ==
  ASSUME NEW k, NEW w
  PROVE  w \in Underway(k)' <=> \E t \in Threads : Writing(t)' /\ k \in op'[t].keys /\ op'[t].write = w
BY DEF Underway, Writing

\* At first nothing is written: None stands for the empty store.
LEMMA Initially == Init => Inv
<1> SUFFICES ASSUME Init PROVE Inv
  OBVIOUS
<1> USE DEF Init
<1>1. TypeOK
  BY DEF TypeOK
<1>2. NamesOK /\ CacheOK
  BY DEF NamesOK, CacheOK, Writing
<1>3. DatabaseOK
  <2>1. Written(None) = None
    BY NamesAssumption DEF Written, Writes
  <2>2. \A k \in Keys : None \in Visible(k) /\ db[k] = None
    BY DEF Visible
  <2>3. \A t \in Threads : ~Writing(t)
    BY DEF Writing
  <2> QED BY <2>1, <2>2, <2>3 DEF DatabaseOK
<1> QED BY <1>1, <1>2, <1>3 DEF Inv

\* A call begins.
LEMMA CallKeeps ==
  ASSUME Inv, NEW t \in Threads, Call(t)
  PROVE  Inv'
<1> USE NamesAssumption, Calls, WrittenType DEF Inv, Call
<1>1. PICK o \in Ops :
        /\ pc[t] = "idle" /\ o.write \notin used
        /\ op' = [op EXCEPT ![t] = o]
        /\ used' = IF IsWrite(o) THEN used \cup {o.write} ELSE used
        /\ pc' = [pc EXCEPT ![t] = "called"]
        /\ before' = [before EXCEPT ![t] = settled]
        /\ UNCHANGED <<result, cache, db, settled>>
  BY DEF Call
<1>2. /\ op'[t] = o /\ pc'[t] = "called" /\ before'[t] = settled
      /\ ~Writing(t) /\ (Writing(t)' <=> IsWrite(o)) /\ (IsWrite(o) => o.write \in used')
      /\ \A u \in Threads \ {t} : /\ op'[u] = op[u] /\ pc'[u] = pc[u] /\ before'[u] = before[u]
                                  /\ Writing(u)' <=> Writing(u)
      /\ used \subseteq used' /\ used' \subseteq Writes /\ settled' = settled
      /\ IsWrite(o) => o.write \notin used \cup {None}
  BY <1>1 DEF TypeOK, Writing, Writes
<1>3. TypeOK'
  BY <1>1, <1>2 DEF TypeOK
<1>4. NamesOK'
  <2>1. \A u \in Threads : Writing(u)' => op'[u].write \in used'
    BY <1>2 DEF NamesOK
  <2>2. \A u, v \in Threads : Writing(u)' /\ Writing(v)' /\ op'[u].write = op'[v].write => u = v
    BY <1>1, <1>2 DEF NamesOK
  <2>3. \A u \in Threads, k \in Keys : Writing(u)' => op'[u].write \notin settled[k]
    <3> SUFFICES ASSUME NEW u \in Threads, NEW k \in Keys, Writing(u)'
                 PROVE  op'[u].write \notin settled[k]
      OBVIOUS
    <3>1. CASE u = t
      BY <1>2, <3>1 DEF NamesOK
    <3>2. CASE u # t
      BY <1>2, <3>2 DEF NamesOK
    <3> QED BY <3>1, <3>2
  <2>4. \A u, v \in Threads, k \in Keys : Writing(u)' => op'[u].write \notin before'[v][k]
    <3> SUFFICES ASSUME NEW u \in Threads, NEW v \in Threads, NEW k \in Keys, Writing(u)'
                 PROVE  op'[u].write \notin before'[v][k]
      OBVIOUS
    <3>1. CASE v = t
      BY <1>2, <2>3, <3>1
    <3>2. CASE v # t /\ u = t
      BY <1>2, <3>2 DEF NamesOK
    <3>3. CASE v # t /\ u # t
      BY <1>2, <3>3 DEF NamesOK
    <3> QED BY <3>1, <3>2, <3>3
  <2>5. /\ \A k \in Keys : settled'[k] \subseteq used' \cup {None}
        /\ \A u \in Threads, k \in Keys : before'[u][k] \subseteq used' \cup {None}
    BY <1>2 DEF NamesOK
  <2> QED BY <1>2, <2>1, <2>2, <2>3, <2>4, <2>5 DEF NamesOK
<1>5. \A k \in Keys : Visible(k) \subseteq Visible(k)'
  BY <1>2, UnderwayIs, UnderwayIsNext DEF Visible
<1>6. CacheOK'
  BY <1>1, <1>2, <1>5 DEF CacheOK
<1>7. DatabaseOK'
  BY <1>1, <1>2, <1>5 DEF DatabaseOK
<1> QED BY <1>3, <1>4, <1>6, <1>7 DEF Inv

\* A write reaches the cache,
LEMMA WriteCacheKeeps ==
  ASSUME Inv, NEW t \in Threads, WriteCache(t)
  PROVE  Inv'
<1> USE NamesAssumption, Calls, WrittenType DEF Inv, WriteCache, CachedAfter
<1>1. TypeOK'
  BY DEF TypeOK
<1>2. /\ pc' = [pc EXCEPT ![t] = "half"] /\ pc[t] # "idle" /\ op' = op /\ before' = before /\ settled' = settled
      /\ \A u \in Threads : Writing(u)' <=> Writing(u)
      /\ \A k \in Keys : Visible(k)' = Visible(k)
  <2>1. \A u \in Threads : Writing(u)' <=> Writing(u)
    BY DEF TypeOK, Writing
  <2> QED BY <2>1, UnderwayIs, UnderwayIsNext DEF TypeOK, Visible
<1>3. NamesOK' /\ DatabaseOK'
  BY <1>2 DEF TypeOK, NamesOK, DatabaseOK
<1>4. CacheOK'
  <2> SUFFICES ASSUME NEW k \in Keys, cache'[k] # None
               PROVE  /\ cache'[k] \in Visible(k)
                      /\ \A u \in Threads : Writing(u) /\ pc'[u] # "called" /\ k \in op[u].keys
                           => cache'[k] \notin before[u][k]
    BY <1>2 DEF CacheOK
  <2>1. CASE k \in op[t].keys
    <3>1. Writing(t) /\ op[t] \in Ops /\ cache'[k] = Written(op[t].write)
      BY <2>1 DEF TypeOK, Writing
    <3>2. cache'[k] = op[t].write
      BY <3>1 DEF Written, Writes
    <3>3. op[t].write \in Underway(k)
      BY <2>1, <3>1, UnderwayIs
    <3> QED BY <3>1, <3>2, <3>3 DEF Visible, NamesOK
  <2>2. CASE k \notin op[t].keys
    BY <1>2, <2>2 DEF TypeOK, CacheOK
  <2> QED BY <2>1, <2>2
<1> QED BY <1>1, <1>3, <1>4 DEF Inv

\* and the database.
LEMMA WriteDatabaseKeeps ==
  ASSUME Inv, NEW t \in Threads, WriteDatabase(t)
  PROVE  Inv'
<1> USE NamesAssumption, Calls, WrittenType DEF Inv, WriteDatabase, PersistedAfter
<1>1. TypeOK'
  BY DEF TypeOK
<1>2. /\ pc' = [pc EXCEPT ![t] = "done"] /\ pc[t] # "idle" /\ op' = op /\ before' = before /\ settled' = settled
      /\ \A u \in Threads : Writing(u)' <=> Writing(u)
      /\ \A k \in Keys : Visible(k)' = Visible(k)
  <2>1. \A u \in Threads : Writing(u)' <=> Writing(u)
    BY DEF TypeOK, Writing
  <2> QED BY <2>1, UnderwayIs, UnderwayIsNext DEF TypeOK, Visible
<1>3. NamesOK' /\ CacheOK'
  BY <1>2 DEF TypeOK, NamesOK, CacheOK
<1>4. DatabaseOK'
  <2> SUFFICES ASSUME NEW k \in Keys
               PROVE  \E w \in Visible(k) :
                        /\ db'[k] = Written(w)
                        /\ \A u \in Threads : Writing(u) /\ pc'[u] = "done" /\ k \in op[u].keys
                             => w \notin before[u][k]
    BY <1>2 DEF DatabaseOK
  <2>1. CASE k \in op[t].keys
    <3>1. Writing(t) /\ db'[k] = Written(op[t].write)
      BY <2>1 DEF TypeOK, Writing
    <3>2. op[t].write \in Visible(k)
      BY <2>1, <3>1, UnderwayIs DEF Visible
    <3> QED BY <3>1, <3>2 DEF NamesOK
  <2>2. CASE k \notin op[t].keys
    BY <1>2, <2>2 DEF TypeOK, DatabaseOK
  <2> QED BY <2>1, <2>2
<1> QED BY <1>1, <1>3, <1>4 DEF Inv

\* A Get finds its value in the cache,
LEMMA GetHitKeeps ==
  ASSUME Inv, NEW t \in Threads, GetHit(t)
  PROVE  Inv'
<1> USE NamesAssumption, Calls, WrittenType DEF Inv, GetHit
<1>1. TypeOK'
  BY DEF TypeOK
<1>2. NamesOK'
  BY DEF TypeOK, NamesOK, Writing
<1>3. CacheOK'
  BY UnderwayIs, UnderwayIsNext DEF TypeOK, NamesOK, CacheOK, Writing, Visible
<1>4. DatabaseOK'
  BY UnderwayIs, UnderwayIsNext DEF TypeOK, NamesOK, DatabaseOK, Writing, Visible
<1> QED BY <1>1, <1>2, <1>3, <1>4 DEF Inv

\* or does not,
LEMMA GetMissKeeps ==
  ASSUME Inv, NEW t \in Threads, GetMiss(t)
  PROVE  Inv'
<1> USE NamesAssumption, Calls, WrittenType DEF Inv, GetMiss
<1>1. TypeOK'
  BY DEF TypeOK
<1>2. /\ pc' = [pc EXCEPT ![t] = "half"] /\ pc[t] # "idle" /\ op' = op /\ before' = before /\ settled' = settled
      /\ \A u \in Threads : Writing(u)' <=> Writing(u)
      /\ \A k \in Keys : Visible(k)' = Visible(k)
  <2>1. \A u \in Threads : Writing(u)' <=> Writing(u)
    BY DEF TypeOK, Writing
  <2> QED BY <2>1, UnderwayIs, UnderwayIsNext DEF TypeOK, Visible
<1>3. NamesOK' /\ CacheOK'
  BY <1>2 DEF TypeOK, NamesOK, CacheOK, Writing
<1>4. DatabaseOK'
  BY <1>2 DEF TypeOK, DatabaseOK, Writing
<1> QED BY <1>1, <1>3, <1>4 DEF Inv

\* and takes what the database has.
LEMMA GetFromDatabaseKeeps ==
  ASSUME Inv, NEW t \in Threads, GetFromDatabase(t)
  PROVE  Inv'
<1> USE NamesAssumption, Calls, WrittenType DEF Inv, GetFromDatabase, FoundInDatabase
<1>1. TypeOK'
  BY DEF TypeOK
<1>2. NamesOK'
  BY DEF TypeOK, NamesOK, Writing
<1>3. CacheOK'
  BY UnderwayIs, UnderwayIsNext DEF TypeOK, NamesOK, CacheOK, Writing, Visible
<1>4. DatabaseOK'
  BY UnderwayIs, UnderwayIsNext DEF TypeOK, NamesOK, DatabaseOK, Writing, Visible
<1> QED BY <1>1, <1>2, <1>3, <1>4 DEF Inv

\* A call returns.
LEMMA ReturnKeeps ==
  ASSUME Inv, NEW t \in Threads, Return(t)
  PROVE  Inv'
<1> USE NamesAssumption, Calls, WrittenType DEF Inv, Return, Ended
<1>1. TypeOK'
  BY DEF TypeOK
<1>2. NamesOK'
  BY DEF TypeOK, NamesOK, Writing
<1>3. /\ ~Writing(t)' /\ before'[t] = [k \in Keys |-> {}]
      /\ \A u \in Threads \ {t} : /\ op'[u] = op[u] /\ pc'[u] = pc[u] /\ before'[u] = before[u]
                                  /\ Writing(u)' <=> Writing(u)
  BY DEF TypeOK, Writing
<1>4. ASSUME NEW k \in Keys, NEW w \in Visible(k), Writing(t) /\ k \in op[t].keys => w \notin before[t][k]
      PROVE  w \in Visible(k)'
  <2>1. CASE w \in settled[k]
    BY <1>4, <2>1 DEF TypeOK, Writing, Visible
  <2>2. CASE w \in Underway(k)
    <3>1. PICK u \in Threads : Writing(u) /\ k \in op[u].keys /\ op[u].write = w
      BY <2>2, UnderwayIs
    <3>2. CASE u = t
      BY <3>1, <3>2 DEF TypeOK, Writing, Visible
    <3>3. CASE u # t
      BY <1>3, <3>1, <3>3, UnderwayIsNext DEF Visible
    <3> QED BY <3>2, <3>3
  <2> QED BY <2>1, <2>2 DEF Visible
<1>5. CacheOK'
  BY <1>3, <1>4 DEF CacheOK
<1>6. DatabaseOK'
  BY <1>3, <1>4 DEF DatabaseOK
<1> QED BY <1>1, <1>2, <1>5, <1>6 DEF Inv

\* It throws.
LEMMA DatabaseFailsKeeps ==
  ASSUME Inv, NEW t \in Threads, DatabaseFails(t)
  PROVE  Inv'
<1> USE NamesAssumption, Calls, WrittenType DEF Inv, DatabaseFails, Ended
<1>1. TypeOK'
  BY DEF TypeOK
<1>2. NamesOK'
  BY DEF TypeOK, NamesOK, Writing
<1>3. /\ ~Writing(t)' /\ before'[t] = [k \in Keys |-> {}]
      /\ \A u \in Threads \ {t} : /\ op'[u] = op[u] /\ pc'[u] = pc[u] /\ before'[u] = before[u]
                                  /\ Writing(u)' <=> Writing(u)
  BY DEF TypeOK, Writing
<1>4. \A k \in Keys : Visible(k) \subseteq Visible(k)'
  <2> SUFFICES ASSUME NEW k \in Keys, NEW w \in Visible(k) PROVE w \in Visible(k)'
    OBVIOUS
  <2>1. CASE w \in settled[k]
    BY <2>1 DEF TypeOK, Visible
  <2>2. CASE w \in Underway(k)
    <3>1. PICK u \in Threads : Writing(u) /\ k \in op[u].keys /\ op[u].write = w
      BY <2>2, UnderwayIs
    <3>2. CASE u = t
      BY <3>1, <3>2 DEF TypeOK, Visible
    <3>3. CASE u # t
      BY <1>3, <3>1, <3>3, UnderwayIsNext DEF Visible
    <3> QED BY <3>2, <3>3
  <2> QED BY <2>1, <2>2 DEF Visible
<1>5. CacheOK'
  BY <1>3, <1>4 DEF CacheOK
<1>6. DatabaseOK'
  BY <1>3, <1>4 DEF DatabaseOK
<1> QED BY <1>1, <1>2, <1>5, <1>6 DEF Inv

\* A cached value expires.
LEMMA ExpireKeeps ==
  ASSUME Inv, NEW k \in Keys, Expire(k)
  PROVE  Inv'
<1> USE NamesAssumption, Calls, WrittenType DEF Inv, Expire
<1>1. TypeOK'
  BY DEF TypeOK
<1>2. NamesOK'
  BY DEF TypeOK, NamesOK, Writing
<1>3. CacheOK'
  BY UnderwayIs, UnderwayIsNext DEF TypeOK, NamesOK, CacheOK, Writing, Visible
<1>4. DatabaseOK'
  BY UnderwayIs, UnderwayIsNext DEF TypeOK, NamesOK, DatabaseOK, Writing, Visible
<1> QED BY <1>1, <1>2, <1>3, <1>4 DEF Inv

\* The cache is emptied.
LEMMA FlushCacheKeeps ==
  ASSUME Inv, FlushCache
  PROVE  Inv'
<1> USE NamesAssumption, Calls, WrittenType DEF Inv, FlushCache
<1>1. TypeOK'
  BY DEF TypeOK
<1>2. NamesOK'
  BY DEF TypeOK, NamesOK, Writing
<1>3. CacheOK'
  BY UnderwayIs, UnderwayIsNext DEF TypeOK, NamesOK, CacheOK, Writing, Visible
<1>4. DatabaseOK'
  BY SMTT(40), UnderwayIs, UnderwayIsNext DEF TypeOK, NamesOK, DatabaseOK, Writing, Visible
<1> QED BY <1>1, <1>2, <1>3, <1>4 DEF Inv

\* The process ends and starts again.
LEMMA CrashKeeps ==
  ASSUME Inv, Crash
  PROVE  Inv'
<1> USE NamesAssumption, Calls, WrittenType DEF Inv, Crash
<1>1. \A k \in Keys : Underway(k) \subseteq used /\ used \subseteq Writes
  <2> SUFFICES ASSUME NEW k \in Keys, NEW w \in Underway(k) PROVE w \in used
    BY DEF TypeOK
  <2> QED BY UnderwayIs DEF NamesOK
<1>2. settled' = [k \in Keys |-> Visible(k)]
  BY DEF Visible
<1>3. \A t \in Threads : ~Writing(t)'
  BY DEF Writing
<1>4. TypeOK'
  <2>1. settled' \in [Keys -> SUBSET (Writes \cup {None})]
    BY <1>1, <1>2 DEF TypeOK, Visible
  <2> QED BY <2>1 DEF TypeOK
<1>5. NamesOK'
  <2>1. \A k \in Keys : settled'[k] \subseteq used' \cup {None}
    BY <1>1, <1>2 DEF NamesOK, Visible
  <2> QED BY <1>3, <2>1 DEF NamesOK
<1>6. CacheOK'
  BY DEF CacheOK
<1>7. DatabaseOK'
  BY <1>2, <1>3 DEF DatabaseOK, Visible
<1> QED BY <1>4, <1>5, <1>6, <1>7 DEF Inv

LEMMA Stays == Inv /\ [Next]_vars => Inv'
<1> SUFFICES ASSUME Inv, [Next]_vars PROVE Inv'
  OBVIOUS
<1>1. CASE Next
  <2>1. ASSUME NEW t \in Threads,
               \/ Call(t) \/ WriteCache(t) \/ WriteDatabase(t) \/ GetHit(t) \/ GetMiss(t)
               \/ GetFromDatabase(t) \/ Return(t) \/ DatabaseFails(t)
        PROVE  Inv'
    BY <2>1, CallKeeps, WriteCacheKeeps, WriteDatabaseKeeps, GetHitKeeps, GetMissKeeps,
       GetFromDatabaseKeeps, ReturnKeeps, DatabaseFailsKeeps
  <2> QED BY <1>1, <2>1, ExpireKeeps, FlushCacheKeeps, CrashKeeps DEF Next
<1>2. CASE UNCHANGED vars
  BY <1>2 DEF vars, Inv, TypeOK, NamesOK, CacheOK, DatabaseOK, Visible, Underway, Writing
<1> QED BY <1>1, <1>2

\* So it holds in every state.
LEMMA Always == Spec => []Inv
BY Initially, Stays, PTL DEF Spec

\* The types.
THEOREM TypeCorrect == Spec => []TypeOK
<1>1. Inv => TypeOK
  BY DEF Inv
<1> QED BY <1>1, Always, PTL

\* A write of SetSingleValue, DeleteKey or StorePurge that had nothing beside it
\* leaves the cache and the database with one value.
THEOREM DivergenceHeals == Spec => []SoleWriteAgrees
<1>1. Inv => SoleWriteAgrees
  <2> SUFFICES ASSUME Inv, NEW k \in Keys, NEW w \in Writes \cup {None},
                      Underway(k) = {}, settled[k] = {w}, cache[k] # None
               PROVE  cache[k] = db[k]
    BY DEF SoleWriteAgrees
  <2>1. cache[k] = w /\ db[k] = Written(w)
    BY DEF Inv, CacheOK, DatabaseOK, Visible
  <2>2. cache[k] \in Values
    BY DEF Inv, TypeOK
  <2> QED BY <2>1, <2>2, WrittenType
<1> QED BY <1>1, Always, PTL

\* GetSingleValue returns the value of a write under way or of one that no later
\* write has replaced, from wherever it takes it.
THEOREM GetsAreRegular == Spec => RegularReads
<1>1. Inv /\ [Next]_vars => [\A t \in Threads :
        pc[t] # "done" /\ pc'[t] = "done" /\ ~IsWrite(op[t]) => result'[t] \in Admissible(KeyOf(op[t]))]_vars
  <2> SUFFICES ASSUME Inv, Next, NEW t \in Threads,
                      pc[t] # "done", pc'[t] = "done", ~IsWrite(op[t])
               PROVE  result'[t] \in Admissible(KeyOf(op[t]))
    OBVIOUS
  <2>1. GetHit(t) \/ GetFromDatabase(t)
    BY DEF Next, Inv, TypeOK, Call, WriteCache, WriteDatabase, GetHit, GetMiss, GetFromDatabase, Return,
           DatabaseFails, Ended, Expire, FlushCache, Crash
  <2>2. op[t] \in Ops /\ KeyOf(op[t]) \in Keys
    BY <2>1, Calls DEF Inv, TypeOK, GetHit, GetFromDatabase
  <2>3. \E w \in Visible(KeyOf(op[t])) : result'[t] = Written(w)
    <3>1. CASE GetHit(t)
      <4>1. result'[t] = cache[KeyOf(op[t])] /\ result'[t] \in Values
        BY <2>2, <3>1 DEF GetHit, Inv, TypeOK
      <4> QED BY <2>2, <3>1, <4>1, WrittenType DEF Inv, CacheOK, GetHit
    <3>2. CASE GetFromDatabase(t)
      <4>1. result'[t] = db[KeyOf(op[t])]
        BY <3>2 DEF GetFromDatabase, FoundInDatabase, Inv, TypeOK
      <4> QED BY <2>2, <4>1 DEF Inv, DatabaseOK
    <3> QED BY <2>1, <3>1, <3>2
  <2> QED BY <2>3 DEF Admissible, Visible
<1> QED BY <1>1, Always, PTL DEF Spec, RegularReads
=============================================================================
