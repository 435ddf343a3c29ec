------------------------ MODULE StoreRegistryProofs ------------------------
(***************************************************************************)
(* Theorems about KkServer, for every set of handlers, names and stores:   *)
(* stores.json lists what the dictionary has unless a save has failed, a   *)
(* store that is found has its database, a new one is empty, what was      *)
(* acknowledged is kept, and only failed saves bring a deleted store back. *)
(***************************************************************************)
EXTENDS StoreRegistry, TLAPS

\* The handlers that have the write lock, and that create a store.
Writing(h) == pc[h] \in {"creating", "opening", "deleting"}
Creating(h) == pc[h] \in {"creating", "opening"}
Using(h) == pc[h] = "using"

\* The lock, and what a handler that is not idle knows.
LockOK ==
  /\ \A h \in Handlers : Writing(h) => writer = h
  /\ Heartbeat \in readers => Stopper \notin readers
  /\ \A h \in Handlers : pc[h] # "idle" => name[h] \in Names
  /\ \A h \in Handlers : Using(h) => ref[h] \in Incarnations

\* Where a store is known under a name.
Named(o, n) ==
  \/ stores[n] = o
  \/ meta # Torn /\ meta[n] = o
  \/ \E h \in Handlers : Using(h) /\ ref[h] = o /\ name[h] = n

\* A store that is known was made; the file lists persistent stores, and only they
\* have a database.
BornOK ==
  /\ \A o \in Incarnations, n \in Names : Named(o, n) => scheme[o] # "unborn"
  /\ \A o \in acked : scheme[o] # "unborn"
  /\ meta # Torn => \A n \in Names : meta[n] # NoStore => scheme[meta[n]] = "persistent"
  /\ \A o \in Incarnations : base[o] # "none" => scheme[o] = "persistent"

\* A store has one name, also if the file or a request has it and the dictionary
\* does not.
NameOK == \A o \in Incarnations, m, n \in Names : Named(o, m) /\ Named(o, n) => m = n

\* A process that has ended has nothing left.
DeadOK ==
  ~Live =>
    /\ stores = Empty /\ writer = NoName /\ readers = {} /\ ~beat
    /\ \A h \in Handlers : pc[h] = "idle"
    /\ \A o \in Incarnations : base[o] = "none"

\* stores.json is half written while somebody writes it, and current else, unless
\* a save has failed; even then it lists the stores that have got a database.
MetaOK ==
  Live /\ path =>
    /\ meta # Torn /\ ~stale => meta = Saved
    /\ meta = Torn /\ ~stale => readers # {} \/ \E h \in Handlers : pc[h] \in {"creating", "deleting"}
    /\ \A h \in Handlers : pc[h] = "opening" => meta # Torn /\ ~stale
    /\ \A h \in Handlers : pc[h] \in {"creating", "deleting"} => meta = Torn
    /\ Heartbeat \in readers => snapshot = Saved
    /\ meta # Torn => \A n \in Names :
         stores[n] # NoStore /\ base[stores[n]] # "none" => meta[n] = stores[n]

\* Without a PersistencePath there are no files, and no persistent store that
\* was created without an exception.
PathOK ==
  ~path =>
    /\ meta = Empty /\ readers = {} /\ ~beat /\ ~stale
    /\ \A n \in Names : dir[n] = NoDir
    /\ \A h \in Handlers : ~Creating(h)
    /\ \A n \in Names : IsPersistent(stores[n]) => stores[n] \in broken
    /\ \A o \in Incarnations : base[o] = "none"

\* A store under creation has no database yet, and nobody else has found it.
CreatingOK ==
  \A h \in Handlers : Creating(h) =>
    /\ IsPersistent(stores[name[h]])
    /\ base[stores[name[h]]] = "none"
    /\ stores[name[h]] \notin acked
    /\ \A g \in Handlers : Using(g) => ref[g] # stores[name[h]]

\* A persistent store has its database, except while it is created and after
\* Stop. An open database is that of a store in the dictionary, in its directory.
BaseOK ==
  /\ \A n \in Names : IsPersistent(stores[n]) /\ stores[n] \notin broken =>
       \/ \E h \in Handlers : Creating(h) /\ name[h] = n
       \/ base[stores[n]] = "open"
       \/ process \in {"stopping", "half"} /\ base[stores[n]] = "disposed"
  /\ \A o \in Incarnations : base[o] = "open" => \E n \in Names : stores[n] = o
  /\ \A n \in Names : stores[n] # NoStore /\ base[stores[n]] = "open" /\ stores[n] \notin broken
       => dir[n] # NoDir
  /\ \A h \in Handlers : Using(h) /\ IsPersistent(ref[h]) /\ ref[h] \notin broken
       => base[ref[h]] # "none"

\* What was acknowledged is in the directory, of stores in the dictionary and of
\* those that a next process finds in the file.
AckedOK ==
  /\ AckedIsStoredUnlessBroken
  /\ meta # Torn =>
       \A n \in Names : meta[n] \in acked \ broken => meta[n] \in Held(dir[n])

\* The directory of a name without a database holds nothing, unless a deletion
\* has failed or is not through.
Clean(n) ==
  \/ Held(dir[n]) = {}
  \/ n \in leftover
  \/ \E g \in Handlers : pc[g] \in {"deleting", "rmdir"} /\ name[g] = n
CleanOK ==
  /\ Live => \A n \in Names :
       ~IsPersistent(stores[n]) \/ (\E h \in Handlers : Creating(h) /\ name[h] = n) => Clean(n)
  /\ meta # Torn => \A n \in Names : meta[n] = NoStore => Clean(n)

Inv ==
  /\ TypeOK /\ LockOK /\ BornOK /\ NameOK /\ DeadOK /\ MetaOK
  /\ PathOK /\ CreatingOK /\ BaseOK /\ AckedOK /\ CleanOK

\* A new store goes into the dictionary.
LEMMA CreateStoreKeeps ==
  ASSUME Inv, NEW h \in Handlers, NEW n \in Names, CreateStore(h, n)
  PROVE  Inv'
<1> USE NullAssumption, ThreadsAssumption, FilesAssumption DEF Inv, lock, saver, caller,
      history, CreateStore, WriteGranted
<1>1. TypeOK'
  BY DEF TypeOK, LockOK, Writing, Using, CreatingOK, Creating, IsPersistent, DeadOK, Live
<1>2. LockOK'
  BY DEF TypeOK, LockOK, Writing, Using
<1>3. BornOK'
  <2>1. PICK o \in Incarnations, s \in {"persistent", "ephemeral"} :
          /\ scheme[o] = "unborn"
          /\ stores' = [stores EXCEPT ![n] = o]
          /\ scheme' = [scheme EXCEPT ![o] = s]
    OBVIOUS
  <2>2. \A u \in Incarnations, m \in Names : Named(u, m)' => Named(u, m) \/ u = o
    BY <2>1 DEF Named, TypeOK, LockOK, Writing, Using
  <2>3. \A u \in Incarnations : scheme[u] # "unborn" => scheme'[u] = scheme[u]
    BY <2>1 DEF TypeOK
  <2>4. scheme'[o] # "unborn"
    BY <2>1 DEF TypeOK
  <2>5. (meta # Torn => \A m \in Names : meta[m] # NoStore => scheme[meta[m]] = "persistent")'
    BY <2>3 DEF BornOK, TypeOK
  <2> QED BY <2>2, <2>3, <2>4, <2>5 DEF BornOK, TypeOK
<1>4. NameOK'
  <2>1. PICK o \in Incarnations :
          /\ scheme[o] = "unborn"
          /\ stores' = [stores EXCEPT ![n] = o]
    OBVIOUS
  <2>2. \A m \in Names : ~Named(o, m)
    BY <2>1 DEF BornOK
  <2>3. \A u \in Incarnations, m \in Names : Named(u, m)' => Named(u, m) \/ (u = o /\ m = n)
    BY <2>1 DEF Named, TypeOK, LockOK, Writing, Using
  <2> QED BY <2>2, <2>3 DEF NameOK
<1>5. DeadOK'
  BY DEF DeadOK, Live, Empty
<1>6. MetaOK'
  <2>1. PICK o \in Incarnations, s \in {"persistent", "ephemeral"} :
          /\ scheme[o] = "unborn"
          /\ stores' = [stores EXCEPT ![n] = o]
          /\ scheme' = [scheme EXCEPT ![o] = s]
          /\ \/ /\ s = "persistent" /\ path
                /\ meta' = Torn
                /\ writer' = h
                /\ pc' = [pc EXCEPT ![h] = "creating"]
                /\ name' = [name EXCEPT ![h] = n]
                /\ UNCHANGED <<broken, stale>>
             \/ /\ s = "persistent" /\ (path => SaveMayFail)
                /\ broken' = broken \cup {o}
                /\ stale' = path
                /\ UNCHANGED <<meta, writer, pc, name>>
             \/ s = "ephemeral" /\ UNCHANGED <<meta, writer, pc, name, broken, stale>>
    OBVIOUS
  <2>2. /\ \A m \in Names : stores[m] # o
        /\ \A g \in Handlers : Using(g) => ref[g] # o
        /\ base[o] = "none" /\ o \notin acked
    BY <2>1 DEF BornOK, TypeOK, Named, Using, LockOK
  <2>3. \A m \in Names : stores[m] # NoStore => scheme'[stores[m]] = scheme[stores[m]]
    BY <2>1, <2>2 DEF TypeOK
  <2>4. path /\ s = "ephemeral" => Saved' = Saved
    BY <2>1, <2>3 DEF Saved, IsPersistent, TypeOK
  <2>5. \A g \in Handlers : ~Writing(g)
    BY DEF LockOK, Writing
  <2>6. \A m \in Names : stores'[m] # NoStore /\ base'[stores'[m]] # "none" => stores[m] = stores'[m]
    BY <2>1, <2>2 DEF TypeOK
  <2>7. CASE s = "persistent" /\ meta' = Torn /\ pc' = [pc EXCEPT ![h] = "creating"]
    BY <2>1, <2>5, <2>6, <2>7 DEF MetaOK, Live, Writing, TypeOK
  <2>8. CASE stale' = path /\ UNCHANGED <<meta, writer, pc, name>>
    BY <2>1, <2>5, <2>6, <2>8 DEF MetaOK, Live, Writing, TypeOK
  <2>9. CASE s = "ephemeral" /\ UNCHANGED <<meta, writer, pc, name, stale>>
    BY <2>1, <2>4, <2>5, <2>6, <2>9 DEF MetaOK, Live, Writing, TypeOK
  <2> QED BY <2>1, <2>7, <2>8, <2>9
<1>7. PathOK'
  BY DEF TypeOK, PathOK, Creating, IsPersistent, Empty, LockOK, Writing
<1>8. CreatingOK'
  <2>1. PICK o \in Incarnations, s \in {"persistent", "ephemeral"} :
          /\ scheme[o] = "unborn"
          /\ stores' = [stores EXCEPT ![n] = o]
          /\ scheme' = [scheme EXCEPT ![o] = s]
          /\ \/ /\ s = "persistent" /\ path
                /\ meta' = Torn
                /\ writer' = h
                /\ pc' = [pc EXCEPT ![h] = "creating"]
                /\ name' = [name EXCEPT ![h] = n]
                /\ UNCHANGED <<broken, stale>>
             \/ /\ s = "persistent" /\ (path => SaveMayFail)
                /\ broken' = broken \cup {o}
                /\ stale' = path
                /\ UNCHANGED <<meta, writer, pc, name>>
             \/ s = "ephemeral" /\ UNCHANGED <<meta, writer, pc, name, broken, stale>>
    OBVIOUS
  <2>2. /\ \A m \in Names : stores[m] # o
        /\ \A g \in Handlers : Using(g) => ref[g] # o
        /\ base[o] = "none" /\ o \notin acked
    BY <2>1 DEF BornOK, TypeOK, Named, Using, LockOK
  <2>3. \A g \in Handlers : ~Creating(g)
    BY DEF LockOK, Writing, Creating
  <2>4. \A g \in Handlers : Using(g)' => Using(g)
    BY <2>1 DEF Using, TypeOK
  <2> QED BY <2>1, <2>2, <2>3, <2>4 DEF CreatingOK, Creating, IsPersistent, TypeOK
<1>9. BaseOK'
  <2>1. PICK o \in Incarnations, s \in {"persistent", "ephemeral"} :
          /\ scheme[o] = "unborn"
          /\ stores' = [stores EXCEPT ![n] = o]
          /\ scheme' = [scheme EXCEPT ![o] = s]
          /\ \/ /\ s = "persistent" /\ path
                /\ meta' = Torn
                /\ writer' = h
                /\ pc' = [pc EXCEPT ![h] = "creating"]
                /\ name' = [name EXCEPT ![h] = n]
                /\ UNCHANGED <<broken, stale>>
             \/ /\ s = "persistent" /\ (path => SaveMayFail)
                /\ broken' = broken \cup {o}
                /\ stale' = path
                /\ UNCHANGED <<meta, writer, pc, name>>
             \/ s = "ephemeral" /\ UNCHANGED <<meta, writer, pc, name, broken, stale>>
    OBVIOUS
  <2>2. /\ \A m \in Names : stores[m] # o
        /\ \A g \in Handlers : Using(g) => ref[g] # o
        /\ base[o] = "none" /\ o \notin acked
    BY <2>1 DEF BornOK, TypeOK, Named, Using, LockOK
  <2>3. \A g \in Handlers : ~Creating(g)
    BY DEF LockOK, Writing, Creating
  <2>4. \A u \in Incarnations : u # o => IsPersistent(u)' = IsPersistent(u)
    BY <2>1 DEF IsPersistent, TypeOK
  <2>5. \A g \in Handlers : Using(g)' => Using(g)
    BY <2>1 DEF Using, TypeOK
  <2>6. s = "persistent" /\ o \notin broken' => Creating(h)' /\ name'[h] = n
    BY <2>1 DEF Creating, TypeOK
  <2>7. s = "ephemeral" => ~IsPersistent(o)'
    BY <2>1 DEF IsPersistent, TypeOK
  <2>8. broken \subseteq broken'
    BY <2>1
  <2> QED BY <2>1, <2>2, <2>3, <2>4, <2>5, <2>6, <2>7, <2>8 DEF BaseOK, TypeOK, IsPersistent
<1>10. AckedOK'
  BY DEF TypeOK, LockOK, AckedOK, AckedIsStoredUnlessBroken, IsPersistent, Held, BornOK
<1>11. CleanOK'
  BY DEF TypeOK, LockOK, Writing, CleanOK, Clean, Creating, Live, IsPersistent, Held, MetaOK, Saved, PathOK, DeadOK
<1> QED BY <1>1, <1>2, <1>3, <1>4, <1>5, <1>6, <1>7, <1>8, <1>9, <1>10, <1>11

\* CreateStore has saved stores.json,
LEMMA CreateSavedKeeps ==
  ASSUME Inv, NEW h \in Handlers, CreateSaved(h)
  PROVE  Inv'
<1> USE NullAssumption, ThreadsAssumption, FilesAssumption DEF Inv, lock, saver, caller,
      history, CreateSaved, Saved
<1>1. \A o \in Incarnations, m \in Names : Named(o, m)' => Named(o, m)
  BY DEF Named, TypeOK, LockOK, Writing, Using, IsPersistent
<1>2. TypeOK'
  BY DEF TypeOK, LockOK, Writing, Using, CreatingOK, Creating, IsPersistent, DeadOK, Live
<1>3. LockOK'
  BY DEF TypeOK, LockOK, Writing, Using
<1>4. BornOK'
  BY <1>1 DEF TypeOK, LockOK, Writing, BornOK, CreatingOK, Creating, IsPersistent, MetaOK, PathOK, Live, Saved, Empty, DeadOK, Using
<1>5. NameOK'
  BY <1>1 DEF NameOK
<1>6. DeadOK'
  BY DEF DeadOK, Live, Empty
<1>7. MetaOK'
  BY DEF TypeOK, MetaOK, Live, Saved, IsPersistent, LockOK, Writing, Using, DeadOK, BornOK, CreatingOK, Creating
<1>8. PathOK'
  BY DEF TypeOK, PathOK, Creating, IsPersistent, Empty, LockOK, Writing
<1>9. CreatingOK'
  BY DEF TypeOK, CreatingOK, Creating, Using, IsPersistent, LockOK, Writing, DeadOK, Live
<1>10. BaseOK'
  BY DEF TypeOK, LockOK, Writing, Using, DeadOK, Live, Creating, IsPersistent, CreatingOK, BaseOK, BornOK
<1>11. AckedOK'
  BY DEF TypeOK, LockOK, AckedOK, AckedIsStoredUnlessBroken, IsPersistent, Held, BornOK
<1>12. CleanOK'
  BY DEF TypeOK, LockOK, Writing, CleanOK, Clean, Creating, Live, IsPersistent, Held, MetaOK, Saved, PathOK, DeadOK
<1> QED BY <1>2, <1>3, <1>4, <1>5, <1>6, <1>7, <1>8, <1>9, <1>10, <1>11, <1>12

\* or has failed to.
LEMMA CreateSaveFailsKeeps ==
  ASSUME Inv, NEW h \in Handlers, CreateSaveFails(h)
  PROVE  Inv'
<1> USE NullAssumption, ThreadsAssumption, FilesAssumption DEF Inv, lock, saver, caller,
      history, CreateSaveFails, Finish
<1>1. \A o \in Incarnations, m \in Names : Named(o, m)' => Named(o, m)
  BY DEF Named, TypeOK, LockOK, Writing, Using
<1>2. TypeOK'
  BY DEF TypeOK, LockOK, Writing, Using, CreatingOK, Creating, IsPersistent, DeadOK, Live
<1>3. LockOK'
  BY DEF TypeOK, LockOK, Writing, Using
<1>4. BornOK'
  BY <1>1 DEF TypeOK, LockOK, Writing, BornOK, CreatingOK, Creating, IsPersistent, MetaOK, PathOK, Live, Saved, Empty, DeadOK, Using
<1>5. NameOK'
  BY <1>1 DEF NameOK
<1>6. DeadOK'
  BY DEF DeadOK, Live, Empty
<1>7. MetaOK'
  BY DEF TypeOK, MetaOK, Live, Saved, IsPersistent, LockOK, Writing, Using, DeadOK, BornOK, CreatingOK, Creating
<1>8. PathOK'
  BY DEF TypeOK, PathOK, Creating, IsPersistent, Empty, LockOK, Writing
<1>9. CreatingOK'
  BY DEF TypeOK, CreatingOK, Creating, Using, IsPersistent, LockOK, Writing, DeadOK, Live
<1>10. BaseOK'
  BY DEF TypeOK, LockOK, Writing, Using, DeadOK, Live, Creating, IsPersistent, CreatingOK, BaseOK, BornOK
<1>11. AckedOK'
  BY DEF TypeOK, LockOK, AckedOK, AckedIsStoredUnlessBroken, IsPersistent, Held, BornOK
<1>12. CleanOK'
  BY DEF TypeOK, LockOK, Writing, CleanOK, Clean, Creating, Live, IsPersistent, Held, MetaOK, Saved, PathOK, DeadOK
<1> QED BY <1>2, <1>3, <1>4, <1>5, <1>6, <1>7, <1>8, <1>9, <1>10, <1>11, <1>12

\* CreateStore opens the database.
LEMMA CreateOpenKeeps ==
  ASSUME Inv, NEW h \in Handlers, CreateOpen(h)
  PROVE  Inv'
<1> USE NullAssumption, ThreadsAssumption, FilesAssumption DEF Inv, lock, saver, caller,
      history, CreateOpen, Finish, Opened
<1>1. \A o \in Incarnations, m \in Names : Named(o, m)' => Named(o, m)
  BY DEF Named, TypeOK, LockOK, Writing, Using
<1>2. TypeOK'
  BY DEF TypeOK, LockOK, Writing, Using, CreatingOK, Creating, IsPersistent, DeadOK, Live
<1>3. LockOK'
  BY DEF TypeOK, LockOK, Writing, Using
<1>4. BornOK'
  BY <1>1 DEF TypeOK, LockOK, Writing, BornOK, CreatingOK, Creating, IsPersistent, MetaOK, PathOK, Live, Saved, Empty, DeadOK, Using
<1>5. NameOK'
  BY <1>1 DEF NameOK
<1>6. DeadOK'
  BY DEF DeadOK, Live, Empty
<1>7. MetaOK'
  BY DEF TypeOK, MetaOK, Live, Saved, IsPersistent, LockOK, Writing, Using, DeadOK, BornOK, CreatingOK, Creating
<1>8. PathOK'
  BY DEF TypeOK, PathOK, Creating, IsPersistent, Empty, LockOK, Writing
<1>9. CreatingOK'
  BY DEF TypeOK, CreatingOK, Creating, Using, IsPersistent, LockOK, Writing, DeadOK, Live
<1>10. BaseOK'
  BY DEF TypeOK, LockOK, Writing, Using, DeadOK, Live, Creating, IsPersistent, CreatingOK, BaseOK, BornOK
<1>11. AckedOK'
  BY DEF TypeOK, LockOK, AckedOK, AckedIsStoredUnlessBroken, IsPersistent, Held, BornOK
<1>12. CleanOK'
  BY DEF TypeOK, LockOK, Writing, CleanOK, Clean, Creating, Live, IsPersistent, Held, MetaOK, Saved, PathOK, DeadOK
<1> QED BY <1>2, <1>3, <1>4, <1>5, <1>6, <1>7, <1>8, <1>9, <1>10, <1>11, <1>12

\* CreateStore throws when the database cannot be opened.
LEMMA OpenFailsKeeps ==
  ASSUME Inv, NEW h \in Handlers, OpenFails(h)
  PROVE  Inv'
<1> USE NullAssumption, ThreadsAssumption, FilesAssumption DEF Inv, lock, saver, caller,
      history, OpenFails, Finish
<1>1. \A o \in Incarnations, m \in Names : Named(o, m)' => Named(o, m)
  BY DEF Named, TypeOK, LockOK, Writing, Using
<1>2. TypeOK'
  BY DEF TypeOK, LockOK, Writing, Using, CreatingOK, Creating, IsPersistent, DeadOK, Live
<1>3. LockOK'
  BY DEF TypeOK, LockOK, Writing, Using
<1>4. BornOK'
  BY <1>1 DEF TypeOK, LockOK, Writing, BornOK, CreatingOK, Creating, IsPersistent, MetaOK, PathOK, Live, Saved, Empty, DeadOK, Using
<1>5. NameOK'
  BY <1>1 DEF NameOK
<1>6. DeadOK'
  BY DEF DeadOK, Live, Empty
<1>7. MetaOK'
  BY DEF TypeOK, MetaOK, Live, Saved, IsPersistent, LockOK, Writing, Using, DeadOK, BornOK, CreatingOK, Creating
<1>8. PathOK'
  BY DEF TypeOK, PathOK, Creating, IsPersistent, Empty, LockOK, Writing
<1>9. CreatingOK'
  BY DEF TypeOK, CreatingOK, Creating, Using, IsPersistent, LockOK, Writing, DeadOK, Live
<1>10. BaseOK'
  BY DEF TypeOK, LockOK, Writing, Using, DeadOK, Live, Creating, IsPersistent, CreatingOK, BaseOK, BornOK
<1>11. AckedOK'
  BY DEF TypeOK, LockOK, AckedOK, AckedIsStoredUnlessBroken, IsPersistent, Held, BornOK
<1>12. CleanOK'
  BY DEF TypeOK, LockOK, Writing, CleanOK, Clean, Creating, Live, IsPersistent, Held, MetaOK, Saved, PathOK, DeadOK
<1> QED BY <1>2, <1>3, <1>4, <1>5, <1>6, <1>7, <1>8, <1>9, <1>10, <1>11, <1>12

\* A store leaves the dictionary.
LEMMA DeleteStoreKeeps ==
  ASSUME Inv, NEW h \in Handlers, NEW n \in Names, DeleteStore(h, n)
  PROVE  Inv'
<1> USE NullAssumption, ThreadsAssumption, FilesAssumption DEF Inv, lock, saver, caller,
      history, DeleteStore, Disposed, WriteGranted
<1>1. \A o \in Incarnations, m \in Names : Named(o, m)' => Named(o, m)
  BY DEF Named, TypeOK, LockOK, Writing, Using
<1>2. TypeOK'
  <2>1. base' \in [Incarnations -> {"none", "open", "disposed"}] /\ stores' \in [Names -> Incarnations \cup {NoStore}]
    BY DEF TypeOK
  <2>2. /\ meta' \in [Names -> Incarnations \cup {NoStore}] \cup {Torn}
        /\ pc' \in [Handlers -> {"idle", "creating", "opening", "deleting", "rmdir", "using"}]
        /\ name' \in [Handlers -> Names \cup {NoName}]
    BY DEF TypeOK
  <2>3. writer' \in Handlers \cup {NoName} /\ (writer' # NoName => readers' = {} /\ pc'[writer'] = "deleting")
    BY DEF TypeOK
  <2>4. leftover' \subseteq Names /\ stale' \in BOOLEAN
    BY DEF TypeOK
  <2> QED BY <2>1, <2>2, <2>3, <2>4 DEF TypeOK
<1>3. LockOK'
  BY DEF TypeOK, LockOK, Writing, Using
<1>4. BornOK'
  BY <1>1 DEF TypeOK, LockOK, Writing, BornOK, CreatingOK, Creating, IsPersistent, MetaOK, PathOK, Live, Saved, Empty, DeadOK, Using
<1>5. NameOK'
  BY <1>1 DEF NameOK
<1>6. DeadOK'
  BY DEF DeadOK, Live, Empty
<1>7. MetaOK'
  BY DEF TypeOK, MetaOK, Live, Saved, IsPersistent, LockOK, Writing, Using, DeadOK, BornOK, CreatingOK, Creating
<1>8. PathOK'
  BY DEF TypeOK, PathOK, Creating, IsPersistent, Empty, LockOK, Writing
<1>9. CreatingOK'
  BY DEF TypeOK, CreatingOK, Creating, Using, IsPersistent, LockOK, Writing, DeadOK, Live
<1>10. BaseOK'
  <2>1. stores[n] \in Incarnations /\ base' = [base EXCEPT ![stores[n]] = Disposed(stores[n])]
    BY DEF TypeOK
  <2>2. base'[stores[n]] # "open" /\ (base[stores[n]] # "none" => base'[stores[n]] # "none")
    BY <2>1 DEF TypeOK
  <2>3. \A u \in Incarnations : u # stores[n] => base'[u] = base[u]
    BY <2>1 DEF TypeOK
  <2>4. \A m \in Names : stores'[m] # NoStore => stores'[m] = stores[m] /\ m # n /\ stores[m] # stores[n]
    BY <2>1 DEF TypeOK, NameOK, Named
  <2>5. \A m \in Names : stores[m] # NoStore /\ m # n => stores'[m] = stores[m]
    BY <2>1 DEF TypeOK
  <2>6. \A g \in Handlers : ~Creating(g) /\ (Using(g)' => Using(g))
    BY DEF LockOK, Writing, Creating, Using, TypeOK
  <2>7. \A g \in Handlers : Using(g) => ref[g] \in Incarnations
    BY DEF LockOK
  <2> QED BY <2>1, <2>2, <2>3, <2>4, <2>5, <2>6, <2>7 DEF BaseOK, IsPersistent, TypeOK, Using
<1>11. AckedOK'
  BY DEF TypeOK, LockOK, AckedOK, AckedIsStoredUnlessBroken, IsPersistent, Held, BornOK
<1>12. CleanOK'
  BY DEF TypeOK, LockOK, Writing, CleanOK, Clean, Creating, Live, IsPersistent, Held, MetaOK, Saved, PathOK, DeadOK
<1> QED BY <1>2, <1>3, <1>4, <1>5, <1>6, <1>7, <1>8, <1>9, <1>10, <1>11, <1>12

\* DeleteStore has saved stores.json,
LEMMA DeleteSavedKeeps ==
  ASSUME Inv, NEW h \in Handlers, DeleteSaved(h)
  PROVE  Inv'
<1> USE NullAssumption, ThreadsAssumption, FilesAssumption DEF Inv, lock, saver, caller,
      history, DeleteSaved, Saved
<1>1. \A o \in Incarnations, m \in Names : Named(o, m)' => Named(o, m)
  BY DEF Named, TypeOK, LockOK, Writing, Using, IsPersistent
<1>2. TypeOK'
  BY DEF TypeOK, LockOK, Writing, Using, CreatingOK, Creating, IsPersistent, DeadOK, Live
<1>3. LockOK'
  BY DEF TypeOK, LockOK, Writing, Using
<1>4. BornOK'
  BY <1>1 DEF TypeOK, LockOK, Writing, BornOK, CreatingOK, Creating, IsPersistent, MetaOK, PathOK, Live, Saved, Empty, DeadOK, Using
<1>5. NameOK'
  BY <1>1 DEF NameOK
<1>6. DeadOK'
  BY DEF DeadOK, Live, Empty
<1>7. MetaOK'
  BY DEF TypeOK, MetaOK, Live, Saved, IsPersistent, LockOK, Writing, Using, DeadOK, BornOK, CreatingOK, Creating
<1>8. PathOK'
  BY DEF TypeOK, PathOK, Creating, IsPersistent, Empty, LockOK, Writing
<1>9. CreatingOK'
  BY DEF TypeOK, CreatingOK, Creating, Using, IsPersistent, LockOK, Writing, DeadOK, Live
<1>10. BaseOK'
  BY DEF TypeOK, LockOK, Writing, Using, DeadOK, Live, Creating, IsPersistent, CreatingOK, BaseOK, BornOK
<1>11. AckedOK'
  BY DEF TypeOK, LockOK, AckedOK, AckedIsStoredUnlessBroken, IsPersistent, Held, BornOK
<1>12. CleanOK'
  BY DEF TypeOK, LockOK, Writing, CleanOK, Clean, Creating, Live, IsPersistent, Held, MetaOK, Saved, PathOK, DeadOK
<1> QED BY <1>2, <1>3, <1>4, <1>5, <1>6, <1>7, <1>8, <1>9, <1>10, <1>11, <1>12

\* or has failed to.
LEMMA DeleteSaveFailsKeeps ==
  ASSUME Inv, NEW h \in Handlers, DeleteSaveFails(h)
  PROVE  Inv'
<1> USE NullAssumption, ThreadsAssumption, FilesAssumption DEF Inv, lock, saver, caller,
      history, DeleteSaveFails, Finish
<1>1. \A o \in Incarnations, m \in Names : Named(o, m)' => Named(o, m)
  BY DEF Named, TypeOK, LockOK, Writing, Using
<1>2. TypeOK'
  BY DEF TypeOK, LockOK, Writing, Using, CreatingOK, Creating, IsPersistent, DeadOK, Live
<1>3. LockOK'
  BY DEF TypeOK, LockOK, Writing, Using
<1>4. BornOK'
  BY <1>1 DEF TypeOK, LockOK, Writing, BornOK, CreatingOK, Creating, IsPersistent, MetaOK, PathOK, Live, Saved, Empty, DeadOK, Using
<1>5. NameOK'
  BY <1>1 DEF NameOK
<1>6. DeadOK'
  BY DEF DeadOK, Live, Empty
<1>7. MetaOK'
  BY DEF TypeOK, MetaOK, Live, Saved, IsPersistent, LockOK, Writing, Using, DeadOK, BornOK, CreatingOK, Creating
<1>8. PathOK'
  BY DEF TypeOK, PathOK, Creating, IsPersistent, Empty, LockOK, Writing
<1>9. CreatingOK'
  BY DEF TypeOK, CreatingOK, Creating, Using, IsPersistent, LockOK, Writing, DeadOK, Live
<1>10. BaseOK'
  BY DEF TypeOK, LockOK, Writing, Using, DeadOK, Live, Creating, IsPersistent, CreatingOK, BaseOK, BornOK
<1>11. AckedOK'
  BY DEF TypeOK, LockOK, AckedOK, AckedIsStoredUnlessBroken, IsPersistent, Held, BornOK
<1>12. CleanOK'
  BY DEF TypeOK, LockOK, Writing, CleanOK, Clean, Creating, Live, IsPersistent, Held, MetaOK, Saved, PathOK, DeadOK
<1> QED BY <1>2, <1>3, <1>4, <1>5, <1>6, <1>7, <1>8, <1>9, <1>10, <1>11, <1>12

\* DeleteStore removes the directory, or part of it, or nothing.
LEMMA DeleteDirectoryKeeps ==
  ASSUME Inv, NEW h \in Handlers, DeleteDirectory(h)
  PROVE  Inv'
<1> USE NullAssumption, ThreadsAssumption, FilesAssumption DEF Inv, lock, saver, caller,
      history, DeleteDirectory, Finish, Removed, Taken
<1>1. \A o \in Incarnations, m \in Names : Named(o, m)' => Named(o, m)
  BY DEF Named, TypeOK, LockOK, Writing, Using
<1>2. TypeOK'
  <2>1. name[h] \in Names /\ pc[h] # "idle"
    BY DEF LockOK
  <2>2. dir' \in [Names -> (SUBSET Incarnations) \cup {NoDir}]
    BY <2>1 DEF TypeOK
  <2>3. Held(dir[name[h]]) \subseteq Incarnations
    BY <2>1 DEF TypeOK, Held
  <2>4. broken' \subseteq Incarnations /\ leftover' \subseteq Names
    BY <2>1, <2>3 DEF TypeOK
  <2>5. writer # NoName => writer # h /\ pc'[writer] = pc[writer]
    BY DEF TypeOK
  <2> QED BY <2>2, <2>4, <2>5 DEF TypeOK
<1>3. LockOK'
  BY DEF TypeOK, LockOK, Writing, Using
<1>4. BornOK'
  BY <1>1 DEF TypeOK, LockOK, Writing, BornOK, CreatingOK, Creating, IsPersistent, MetaOK, PathOK, Live, Saved, Empty, DeadOK, Using
<1>5. NameOK'
  BY <1>1 DEF NameOK
<1>6. DeadOK'
  BY DEF DeadOK, Live, Empty
<1>7. MetaOK'
  BY DEF TypeOK, MetaOK, Live, Saved, IsPersistent, LockOK, Writing, Using, DeadOK, BornOK, CreatingOK, Creating
<1>8. PathOK'
  BY DEF TypeOK, PathOK, Creating, IsPersistent, Empty, LockOK, Writing
<1>9. CreatingOK'
  BY DEF TypeOK, CreatingOK, Creating, Using, IsPersistent, LockOK, Writing, DeadOK, Live
<1>10. BaseOK'
  BY DEF TypeOK, LockOK, Writing, Using, DeadOK, Live, Creating, IsPersistent, CreatingOK, BaseOK, BornOK
<1>11. AckedOK'
  BY DEF TypeOK, LockOK, AckedOK, AckedIsStoredUnlessBroken, IsPersistent, Held, BornOK
<1>12. CleanOK'
  BY DEF TypeOK, LockOK, Writing, CleanOK, Clean, Creating, Live, IsPersistent, Held, MetaOK, Saved, PathOK, DeadOK
<1> QED BY <1>2, <1>3, <1>4, <1>5, <1>6, <1>7, <1>8, <1>9, <1>10, <1>11, <1>12

\* A handler gets a reference to a store.
LEMMA GetKeyStoreKeeps ==
  ASSUME Inv, NEW h \in Handlers, NEW n \in Names, GetKeyStore(h, n)
  PROVE  Inv'
<1> USE NullAssumption, ThreadsAssumption, FilesAssumption DEF Inv, lock, saver, caller,
      history, GetKeyStore, ReadGranted
<1>1. \A o \in Incarnations, m \in Names : Named(o, m)' => Named(o, m)
  BY DEF Named, TypeOK, LockOK, Writing, Using
<1>2. TypeOK'
  BY DEF TypeOK, LockOK, Writing, Using, CreatingOK, Creating, IsPersistent, DeadOK, Live
<1>3. LockOK'
  BY DEF TypeOK, LockOK, Writing, Using
<1>4. BornOK'
  BY <1>1 DEF TypeOK, LockOK, Writing, BornOK, CreatingOK, Creating, IsPersistent, MetaOK, PathOK, Live, Saved, Empty, DeadOK, Using
<1>5. NameOK'
  BY <1>1 DEF NameOK
<1>6. DeadOK'
  BY DEF DeadOK, Live, Empty
<1>7. MetaOK'
  BY DEF TypeOK, MetaOK, Live, Saved, IsPersistent, LockOK, Writing, Using, DeadOK, BornOK, CreatingOK, Creating
<1>8. PathOK'
  BY DEF TypeOK, PathOK, Creating, IsPersistent, Empty, LockOK, Writing
<1>9. CreatingOK'
  BY DEF TypeOK, CreatingOK, Creating, Using, IsPersistent, LockOK, Writing, DeadOK, Live
<1>10. BaseOK'
  BY DEF TypeOK, LockOK, Writing, Using, DeadOK, Live, Creating, IsPersistent, CreatingOK, BaseOK, BornOK
<1>11. AckedOK'
  BY DEF TypeOK, LockOK, AckedOK, AckedIsStoredUnlessBroken, IsPersistent, Held, BornOK
<1>12. CleanOK'
  BY DEF TypeOK, LockOK, Writing, CleanOK, Clean, Creating, Live, IsPersistent, Held, MetaOK, Saved, PathOK, DeadOK
<1> QED BY <1>2, <1>3, <1>4, <1>5, <1>6, <1>7, <1>8, <1>9, <1>10, <1>11, <1>12

\* A write adds its store to the directory, if there is one, and removes nothing.
LEMMA WriteAdds ==
  ASSUME Inv, NEW h \in Handlers, Write(h)
  PROVE  /\ \A n \in Names : dir[n] # NoDir => dir'[n] # NoDir
         /\ \A n \in Names : Held(dir[n]) \subseteq Held(dir'[n])
         /\ base[ref[h]] = "open" /\ dir[name[h]] # NoDir => ref[h] \in Held(dir'[name[h]])
<1> DEFINE n == name[h]
           D == dir[n] \cup {ref[h]}
<1>1. n \in Names /\ ref[h] \in Incarnations /\ dir \in [Names -> (SUBSET Incarnations) \cup {NoDir}]
  BY DEF Inv, TypeOK, LockOK, Using, Write
<1>2. CASE base[ref[h]] = "open" /\ dir[n] # NoDir
  <2>1. dir' = [dir EXCEPT ![n] = D]
    BY <1>2 DEF Write
  <2>2. dir[n] \in SUBSET Incarnations /\ D \in SUBSET Incarnations
    BY <1>1, <1>2
  <2>3. D # NoDir
    BY <2>2, FilesAssumption
  <2>4. Held(D) = D /\ Held(dir[n]) = dir[n] /\ dir[n] \subseteq D /\ ref[h] \in D
    BY <1>2, <2>3 DEF Held
  <2> HIDE DEF D
  <2> QED BY <1>1, <2>1, <2>3, <2>4
<1>3. CASE ~(base[ref[h]] = "open" /\ dir[n] # NoDir)
  <2>1. dir' = dir
    BY <1>3 DEF Write
  <2> QED BY <1>3, <2>1
<1> QED BY <1>2, <1>3

\* A handler uses it.
LEMMA WriteKeeps ==
  ASSUME Inv, NEW h \in Handlers, Write(h)
  PROVE  Inv'
<1> USE NullAssumption, ThreadsAssumption, FilesAssumption DEF Inv, lock, saver, caller,
      history, Write, Finish
<1>1. \A o \in Incarnations, m \in Names : Named(o, m)' => Named(o, m)
  BY DEF Named, TypeOK, LockOK, Writing, Using
<1>2. TypeOK'
  BY DEF TypeOK, LockOK, Writing, Using, CreatingOK, Creating, IsPersistent, DeadOK, Live
<1>3. LockOK'
  BY DEF TypeOK, LockOK, Writing, Using
<1>4. BornOK'
  <2>1. ref[h] \in Incarnations /\ scheme[ref[h]] # "unborn"
    BY DEF LockOK, Using, Named, BornOK
  <2> QED BY <1>1, <2>1 DEF BornOK
<1>5. NameOK'
  BY <1>1 DEF NameOK
<1>6. DeadOK'
  BY DEF DeadOK, Live, Empty
<1>7. MetaOK'
  BY DEF TypeOK, MetaOK, Live, Saved, IsPersistent, LockOK, Writing, Using, DeadOK, BornOK, CreatingOK, Creating
<1>8. PathOK'
  BY DEF TypeOK, PathOK, Creating, IsPersistent, Empty, LockOK, Writing
<1>9. CreatingOK'
  BY DEF TypeOK, CreatingOK, Creating, Using, IsPersistent, LockOK, Writing, DeadOK, Live
<1>10. BaseOK'
  <2>1. \A n \in Names : dir[n] # NoDir => dir'[n] # NoDir
    BY WriteAdds
  <2> QED BY <2>1 DEF TypeOK, LockOK, BaseOK, Creating, IsPersistent, Using
<1>11. AckedOK'
  <2>1. \A n \in Names : Held(dir[n]) \subseteq Held(dir'[n])
    BY WriteAdds
  <2>2. ref[h] \in Incarnations /\ name[h] \in Names /\ Named(ref[h], name[h])
    BY DEF TypeOK, LockOK, Using, Named
  <2>3. ASSUME IsPersistent(ref[h]), base[ref[h]] # "disposed", ref[h] \notin broken
        PROVE  ref[h] \in Held(dir'[name[h]])
    <3>1. base[ref[h]] = "open"
      BY <2>2, <2>3 DEF BaseOK, Using, TypeOK
    <3>2. PICK m \in Names : stores[m] = ref[h]
      BY <2>2, <3>1 DEF BaseOK
    <3>3. m = name[h]
      BY <2>2, <3>2 DEF Named, NameOK
    <3>4. dir[name[h]] # NoDir
      BY <2>2, <2>3, <3>1, <3>2, <3>3 DEF BaseOK
    <3> QED BY <3>1, <3>4, WriteAdds
  <2>4. \A n \in Names : stores[n] = ref[h] \/ (meta # Torn /\ meta[n] = ref[h]) => n = name[h]
    BY <2>2 DEF Named, NameOK
  <2>5. AckedIsStoredUnlessBroken'
    BY <2>1, <2>2, <2>3, <2>4 DEF AckedOK, AckedIsStoredUnlessBroken, IsPersistent
  <2>6. ASSUME meta # Torn, NEW n \in Names, meta[n] \in acked' \ broken
        PROVE  meta[n] \in Held(dir'[n])
    BY <2>1, <2>2, <2>3, <2>4, <2>6 DEF AckedOK, BornOK, IsPersistent
  <2> QED BY <2>5, <2>6 DEF AckedOK
<1>12. CleanOK'
  <2>1. CASE ~(base[ref[h]] = "open" /\ dir[name[h]] # NoDir)
    <3>1. dir' = dir
      BY <2>1
    <3> QED BY ZenonT(60), <3>1 DEF TypeOK, CleanOK, Clean, Creating, Live, IsPersistent, LockOK
  <2>2. CASE base[ref[h]] = "open"
    <3>1. PICK m \in Names : stores[m] = ref[h]
      BY <2>2 DEF BaseOK, LockOK, Using
    <3>2. m = name[h]
      BY <3>1 DEF Named, NameOK, Using, LockOK
    <3>3. Live /\ path
      BY <2>2 DEF DeadOK, PathOK, LockOK, Using
    <3>4. IsPersistent(stores[m]) /\ (meta # Torn => meta[m] # NoStore)
      BY <2>2, <3>1, <3>3 DEF MetaOK, BornOK, IsPersistent, LockOK, Using
    <3>5. \A g \in Handlers : Creating(g)' => name'[g] # m
      BY <3>1 DEF CreatingOK, Creating, Using, TypeOK
    <3>6. \A n \in Names : n # m => dir'[n] = dir[n]
      BY <3>2 DEF TypeOK
    <3>7. \A n \in Names : n # m /\ Clean(n) => Clean(n)'
      BY <3>6 DEF Clean, TypeOK
    <3>8. \A g \in Handlers, n \in Names : Creating(g)' /\ name'[g] = n => Creating(g) /\ name[g] = n
      BY DEF Creating, TypeOK
    <3> QED BY <3>3, <3>4, <3>5, <3>7, <3>8 DEF CleanOK, IsPersistent, Live
  <2> QED BY <2>1, <2>2
<1> QED BY <1>2, <1>3, <1>4, <1>5, <1>6, <1>7, <1>8, <1>9, <1>10, <1>11, <1>12

\* The heartbeat is about to save.
LEMMA HeartbeatDueKeeps ==
  ASSUME Inv, HeartbeatDue
  PROVE  Inv'
<1> USE NullAssumption, ThreadsAssumption, FilesAssumption DEF Inv, lock, saver, caller,
      history, HeartbeatDue
<1>1. \A o \in Incarnations, m \in Names : Named(o, m)' => Named(o, m)
  BY DEF Named, TypeOK, LockOK, Writing, Using
<1>2. TypeOK'
  BY DEF TypeOK, LockOK, Writing, Using, CreatingOK, Creating, IsPersistent, DeadOK, Live
<1>3. LockOK'
  BY DEF TypeOK, LockOK, Writing, Using
<1>4. BornOK'
  BY <1>1 DEF TypeOK, LockOK, Writing, BornOK, CreatingOK, Creating, IsPersistent, MetaOK, PathOK, Live, Saved, Empty, DeadOK, Using
<1>5. NameOK'
  BY <1>1 DEF NameOK
<1>6. DeadOK'
  BY DEF DeadOK, Live, Empty
<1>7. MetaOK'
  BY DEF TypeOK, MetaOK, Live, Saved, IsPersistent, LockOK, Writing, Using, DeadOK, BornOK, CreatingOK, Creating
<1>8. PathOK'
  BY DEF TypeOK, PathOK, Creating, IsPersistent, Empty, LockOK, Writing
<1>9. CreatingOK'
  BY DEF TypeOK, CreatingOK, Creating, Using, IsPersistent, LockOK, Writing, DeadOK, Live
<1>10. BaseOK'
  BY DEF TypeOK, LockOK, Writing, Using, DeadOK, Live, Creating, IsPersistent, CreatingOK, BaseOK, BornOK
<1>11. AckedOK'
  BY DEF TypeOK, LockOK, AckedOK, AckedIsStoredUnlessBroken, IsPersistent, Held, BornOK
<1>12. CleanOK'
  BY DEF TypeOK, LockOK, Writing, CleanOK, Clean, Creating, Live, IsPersistent, Held, MetaOK, Saved, PathOK, DeadOK
<1> QED BY <1>2, <1>3, <1>4, <1>5, <1>6, <1>7, <1>8, <1>9, <1>10, <1>11, <1>12

\* It begins to,
LEMMA HeartbeatSaveKeeps ==
  ASSUME Inv, HeartbeatSave
  PROVE  Inv'
<1> USE NullAssumption, ThreadsAssumption, FilesAssumption DEF Inv, lock, saver, caller,
      history, HeartbeatSave, ReadGranted
<1>1. \A o \in Incarnations, m \in Names : Named(o, m)' => Named(o, m)
  BY DEF Named, TypeOK, LockOK, Writing, Using
<1>2. TypeOK'
  BY DEF TypeOK, Saved, IsPersistent
<1>3. LockOK'
  BY DEF TypeOK, LockOK, Writing, Using
<1>4. BornOK'
  BY <1>1 DEF TypeOK, LockOK, Writing, BornOK, CreatingOK, Creating, IsPersistent, MetaOK, PathOK, Live, Saved, Empty, DeadOK, Using
<1>5. NameOK'
  BY <1>1 DEF NameOK
<1>6. DeadOK'
  BY DEF DeadOK, Live, Empty
<1>7. MetaOK'
  BY DEF TypeOK, MetaOK, Live, Saved, IsPersistent, LockOK, Writing, Using, DeadOK, BornOK, CreatingOK, Creating
<1>8. PathOK'
  BY DEF TypeOK, PathOK, Creating, IsPersistent, Empty, LockOK, Writing
<1>9. CreatingOK'
  BY DEF TypeOK, CreatingOK, Creating, Using, IsPersistent, LockOK, Writing, DeadOK, Live
<1>10. BaseOK'
  BY DEF TypeOK, LockOK, Writing, Using, DeadOK, Live, Creating, IsPersistent, CreatingOK, BaseOK, BornOK
<1>11. AckedOK'
  BY DEF TypeOK, LockOK, AckedOK, AckedIsStoredUnlessBroken, IsPersistent, Held, BornOK
<1>12. CleanOK'
  BY DEF TypeOK, LockOK, Writing, CleanOK, Clean, Creating, Live, IsPersistent, Held, MetaOK, Saved, PathOK, DeadOK
<1> QED BY <1>2, <1>3, <1>4, <1>5, <1>6, <1>7, <1>8, <1>9, <1>10, <1>11, <1>12

\* and has.
LEMMA HeartbeatSavedKeeps ==
  ASSUME Inv, HeartbeatSaved
  PROVE  Inv'
<1> USE NullAssumption, ThreadsAssumption, FilesAssumption DEF Inv, lock, saver, caller,
      history, HeartbeatSaved
<1>1. \A o \in Incarnations, m \in Names : Named(o, m)' => Named(o, m)
  BY DEF Named, TypeOK, LockOK, Writing, Using, MetaOK, DeadOK, PathOK, Saved, IsPersistent
<1>2. TypeOK'
  BY DEF TypeOK, Empty
<1>3. LockOK'
  BY DEF TypeOK, LockOK, Writing, Using
<1>4. BornOK'
  <2>1. path => meta' = Saved
    BY DEF MetaOK, DeadOK
  <2> QED BY <1>1, <2>1 DEF BornOK, PathOK, Saved, IsPersistent
<1>5. NameOK'
  BY <1>1 DEF NameOK
<1>6. DeadOK'
  BY DEF DeadOK, Live, Empty
<1>7. MetaOK'
  BY DEF TypeOK, MetaOK, Live, Saved, IsPersistent, LockOK, Writing, Using, DeadOK, BornOK, CreatingOK, Creating
<1>8. PathOK'
  BY DEF TypeOK, PathOK, Creating, IsPersistent, Empty, LockOK, Writing
<1>9. CreatingOK'
  BY DEF TypeOK, CreatingOK, Creating, Using, IsPersistent, LockOK, Writing, DeadOK, Live
<1>10. BaseOK'
  BY DEF TypeOK, LockOK, Writing, Using, DeadOK, Live, Creating, IsPersistent, CreatingOK, BaseOK, BornOK
<1>11. AckedOK'
  <2>1. meta' \in [Names -> Incarnations \cup {NoStore}] /\ \A n \in Names : meta'[n] # NoStore => IsPersistent(stores[n]) /\ meta'[n] = stores[n]
    BY DEF MetaOK, DeadOK, PathOK, Saved, IsPersistent, TypeOK
  <2> QED BY <2>1 DEF AckedOK, AckedIsStoredUnlessBroken, IsPersistent, TypeOK
<1>12. CleanOK'
  BY DEF TypeOK, LockOK, Writing, CleanOK, Clean, Creating, Live, IsPersistent, Held, MetaOK, Saved, PathOK, DeadOK
<1> QED BY <1>2, <1>3, <1>4, <1>5, <1>6, <1>7, <1>8, <1>9, <1>10, <1>11, <1>12

\* Stop disposes the databases and begins to save,
LEMMA StopKeeps ==
  ASSUME Inv, Stop
  PROVE  Inv'
<1> USE NullAssumption, ThreadsAssumption, FilesAssumption DEF Inv, lock, saver, caller,
      history, Stop, Disposed, ReadGranted
<1>1. \A o \in Incarnations, m \in Names : Named(o, m)' => Named(o, m)
  BY DEF Named, TypeOK, LockOK, Writing, Using
<1>2. TypeOK'
  BY DEF TypeOK, LockOK, Writing, Using, CreatingOK, Creating, IsPersistent, DeadOK, Live
<1>3. LockOK'
  BY DEF TypeOK, LockOK, Writing, Using
<1>4. BornOK'
  BY <1>1 DEF TypeOK, LockOK, Writing, BornOK, CreatingOK, Creating, IsPersistent, MetaOK, PathOK, Live, Saved, Empty, DeadOK, Using
<1>5. NameOK'
  BY <1>1 DEF NameOK
<1>6. DeadOK'
  BY DEF DeadOK, Live, Empty
<1>7. MetaOK'
  <2>1. \A o \in Incarnations : base'[o] # "none" => base[o] # "none"
    BY DEF TypeOK
  <2>2. \A h \in Handlers : ~Writing(h)
    BY DEF LockOK
  <2>3. Saved' = Saved
    BY DEF Saved, IsPersistent
  <2> QED BY SMTT(40), <2>1, <2>2, <2>3 DEF TypeOK, MetaOK, Live, Writing
<1>8. PathOK'
  BY DEF TypeOK, PathOK, Creating, IsPersistent, Empty, LockOK, Writing
<1>9. CreatingOK'
  BY DEF TypeOK, CreatingOK, Creating, Using, IsPersistent, LockOK, Writing, DeadOK, Live
<1>10. BaseOK'
  BY DEF TypeOK, LockOK, Writing, Using, DeadOK, Live, Creating, IsPersistent, CreatingOK, BaseOK, BornOK
<1>11. AckedOK'
  BY DEF TypeOK, LockOK, AckedOK, AckedIsStoredUnlessBroken, IsPersistent, Held, BornOK
<1>12. CleanOK'
  BY DEF TypeOK, LockOK, Writing, CleanOK, Clean, Creating, Live, IsPersistent, Held, MetaOK, Saved, PathOK, DeadOK
<1> QED BY <1>2, <1>3, <1>4, <1>5, <1>6, <1>7, <1>8, <1>9, <1>10, <1>11, <1>12

\* has saved,
LEMMA StopSavedKeeps ==
  ASSUME Inv, StopSaved
  PROVE  Inv'
<1> USE NullAssumption, ThreadsAssumption, FilesAssumption DEF Inv, lock, saver, caller,
      history, StopSaved, Saved
<1>1. \A o \in Incarnations, m \in Names : Named(o, m)' => Named(o, m)
  BY DEF Named, TypeOK, LockOK, Writing, Using, IsPersistent
<1>2. TypeOK'
  BY DEF TypeOK, LockOK, Writing, Using, CreatingOK, Creating, IsPersistent, DeadOK, Live
<1>3. LockOK'
  BY DEF TypeOK, LockOK, Writing, Using
<1>4. BornOK'
  BY <1>1 DEF TypeOK, LockOK, Writing, BornOK, CreatingOK, Creating, IsPersistent, MetaOK, PathOK, Live, Saved, Empty, DeadOK, Using
<1>5. NameOK'
  BY <1>1 DEF NameOK
<1>6. DeadOK'
  BY DEF DeadOK, Live, Empty
<1>7. MetaOK'
  BY DEF TypeOK, MetaOK, Live, Saved, IsPersistent, LockOK, Writing, Using, DeadOK, BornOK, CreatingOK, Creating
<1>8. PathOK'
  BY DEF TypeOK, PathOK, Creating, IsPersistent, Empty, LockOK, Writing
<1>9. CreatingOK'
  BY DEF TypeOK, CreatingOK, Creating, Using, IsPersistent, LockOK, Writing, DeadOK, Live
<1>10. BaseOK'
  BY DEF TypeOK, LockOK, Writing, Using, DeadOK, Live, Creating, IsPersistent, CreatingOK, BaseOK, BornOK
<1>11. AckedOK'
  BY DEF TypeOK, LockOK, AckedOK, AckedIsStoredUnlessBroken, IsPersistent, Held, BornOK
<1>12. CleanOK'
  BY DEF TypeOK, LockOK, Writing, CleanOK, Clean, Creating, Live, IsPersistent, Held, MetaOK, Saved, PathOK, DeadOK
<1> QED BY <1>2, <1>3, <1>4, <1>5, <1>6, <1>7, <1>8, <1>9, <1>10, <1>11, <1>12

\* or has failed to.
LEMMA StopSaveFailsKeeps ==
  ASSUME Inv, StopSaveFails
  PROVE  Inv'
<1> USE NullAssumption, ThreadsAssumption, FilesAssumption DEF Inv, lock, saver, caller,
      history, StopSaveFails
<1>1. \A o \in Incarnations, m \in Names : Named(o, m)' => Named(o, m)
  BY DEF Named, TypeOK, LockOK, Writing, Using
<1>2. TypeOK'
  BY DEF TypeOK, LockOK, Writing, Using, CreatingOK, Creating, IsPersistent, DeadOK, Live
<1>3. LockOK'
  BY DEF TypeOK, LockOK, Writing, Using
<1>4. BornOK'
  BY <1>1 DEF TypeOK, LockOK, Writing, BornOK, CreatingOK, Creating, IsPersistent, MetaOK, PathOK, Live, Saved, Empty, DeadOK, Using
<1>5. NameOK'
  BY <1>1 DEF NameOK
<1>6. DeadOK'
  BY DEF DeadOK, Live, Empty
<1>7. MetaOK'
  BY DEF TypeOK, MetaOK, Live, Saved, IsPersistent, LockOK, Writing, Using, DeadOK, BornOK, CreatingOK, Creating
<1>8. PathOK'
  BY DEF TypeOK, PathOK, Creating, IsPersistent, Empty, LockOK, Writing
<1>9. CreatingOK'
  BY DEF TypeOK, CreatingOK, Creating, Using, IsPersistent, LockOK, Writing, DeadOK, Live
<1>10. BaseOK'
  BY DEF TypeOK, LockOK, Writing, Using, DeadOK, Live, Creating, IsPersistent, CreatingOK, BaseOK, BornOK
<1>11. AckedOK'
  BY DEF TypeOK, LockOK, AckedOK, AckedIsStoredUnlessBroken, IsPersistent, Held, BornOK
<1>12. CleanOK'
  BY DEF TypeOK, LockOK, Writing, CleanOK, Clean, Creating, Live, IsPersistent, Held, MetaOK, Saved, PathOK, DeadOK
<1> QED BY <1>2, <1>3, <1>4, <1>5, <1>6, <1>7, <1>8, <1>9, <1>10, <1>11, <1>12

\* The process ends, in whatever way.
LEMMA GoneKeeps ==
  ASSUME Inv, Live, Gone
  PROVE  Inv'
<1> USE NullAssumption, ThreadsAssumption, FilesAssumption DEF Inv, lock, saver, caller,
      history, Gone
<1>1. \A o \in Incarnations, m \in Names : Named(o, m)' => Named(o, m)
  BY DEF Named, TypeOK, LockOK, Writing, Using, Empty
<1>2. TypeOK'
  <2>1. leftover' \subseteq Names
    BY DEF TypeOK, LockOK
  <2>2. acked' \subseteq Incarnations
    BY DEF TypeOK
  <2> QED BY <2>1, <2>2 DEF TypeOK, Empty
<1>3. LockOK'
  BY DEF TypeOK, LockOK, Writing, Using
<1>4. BornOK'
  BY <1>1 DEF TypeOK, LockOK, Writing, BornOK, CreatingOK, Creating, IsPersistent, MetaOK, PathOK, Live, Saved, Empty, DeadOK, Using
<1>5. NameOK'
  BY <1>1 DEF NameOK
<1>6. DeadOK'
  BY DEF DeadOK, Live, Empty
<1>7. MetaOK'
  BY DEF TypeOK, MetaOK, Live, Saved, IsPersistent, LockOK, Writing, Using, DeadOK, BornOK, CreatingOK, Creating
<1>8. PathOK'
  BY DEF TypeOK, PathOK, Creating, IsPersistent, Empty, LockOK, Writing
<1>9. CreatingOK'
  BY DEF TypeOK, CreatingOK, Creating, Using, IsPersistent, LockOK, Writing, DeadOK, Live
<1>10. BaseOK'
  BY DEF BaseOK, IsPersistent, Creating, Using, Empty
<1>11. AckedOK'
  BY DEF AckedOK, AckedIsStoredUnlessBroken, IsPersistent, Empty
<1>12. CleanOK'
  <2>1. \A n \in Names, g \in Handlers : pc[g] = "rmdir" /\ name[g] = n => n \in leftover'
    BY DEF TypeOK
  <2>2. ~Live'
    BY DEF Live
  <2> SUFFICES ASSUME meta # Torn, NEW n \in Names, meta[n] = NoStore PROVE Clean(n)'
    BY <2>2 DEF CleanOK
  <2>3. CASE path
    <3>1. \A g \in Handlers : pc[g] # "deleting"
      BY <2>3 DEF MetaOK
    <3>2. Clean(n)
      BY DEF CleanOK
    <3> QED BY <2>1, <3>1, <3>2 DEF Clean
  <2>4. CASE ~path
    BY <2>4 DEF PathOK, Clean, Held
  <2> QED BY <2>3, <2>4 DEF TypeOK
<1> QED BY <1>2, <1>3, <1>4, <1>5, <1>6, <1>7, <1>8, <1>9, <1>10, <1>11, <1>12

\* Start puts stores of the file into the dictionary and opens some: all of the file
\* in a new process, and in one that ends up running.
LEMMA LoadKeeps ==
  ASSUME Inv, MayLoad, NEW names \in SUBSET Names, NEW opened \in SUBSET names, Load(names, opened),
         \A n \in names : meta[n] # NoStore /\ stores[n] = NoStore,
         process = "down" \/ process' = "running" => \A n \in Names : meta[n] # NoStore => n \in names,
         process' \in {"running", "half"},
         broken' = broken \cup {o \in Incarnations : \E n \in names \ opened : meta[n] = o},
         UNCHANGED <<path, scheme, meta, lock, saver, caller, acked, leftover, stale>>
  PROVE  Inv'
<1> USE NullAssumption, ThreadsAssumption, FilesAssumption DEF Inv, lock, saver, caller, MayLoad,
      Load, WriteGranted
<1> DEFINE Added == {meta[n] : n \in names}
           Opens == {meta[n] : n \in opened}
<1>1. /\ meta \in [Names -> Incarnations \cup {NoStore}] /\ meta # Torn /\ writer = NoName /\ readers = {}
      /\ \A h \in Handlers : ~Writing(h)
      /\ Live'
  BY DEF TypeOK, LockOK, Writing, Live
<1>2. /\ \A n \in names : stores'[n] = meta[n]
      /\ \A n \in Names \ names : stores'[n] = stores[n] /\ dir'[n] = dir[n]
      /\ \A o \in Opens : base'[o] = "open"
      /\ \A o \in Added \ Opens : base'[o] = "none"
      /\ \A o \in Incarnations \ Added : base'[o] = base[o]
      /\ Opens \subseteq Added /\ Added \subseteq Incarnations
      /\ broken \subseteq broken' /\ Added \ Opens \subseteq broken'
  BY <1>1 DEF TypeOK
<1>3. /\ \A n \in Names : Held(dir'[n]) = Held(dir[n]) /\ (dir[n] # NoDir => dir'[n] # NoDir)
      /\ \A n \in opened : dir'[n] # NoDir
  BY DEF Opened, Held, TypeOK
<1>4. \A o \in Incarnations, m \in Names : Named(o, m)' => Named(o, m)
  BY <1>1, <1>2 DEF Named, Using
<1>5. \A o \in Added, m \in Names : stores[m] # o /\ (stores'[m] = o => m \in names)
  <2> SUFFICES ASSUME NEW k \in names, NEW m \in Names, stores[m] = meta[k] \/ stores'[m] = meta[k]
               PROVE  stores[m] # meta[k] /\ m \in names
    BY <1>2
  <2>1. meta[k] \in Incarnations /\ Named(meta[k], k)
    BY <1>1 DEF Named
  <2>2. Named(meta[k], m)
    BY <1>2, <2>1 DEF Named, TypeOK
  <2>3. m = k
    BY <2>1, <2>2 DEF NameOK
  <2> QED BY <2>1, <2>3
<1>6. \A n \in Names : stores'[n] \in Incarnations /\ stores'[n] \notin Added => stores'[n] = stores[n] /\ n \notin names
  BY <1>2
<1> HIDE DEF Added, Opens
<1>7. TypeOK'
  <2>1. stores' \in [Names -> Incarnations \cup {NoStore}]
    BY <1>1 DEF TypeOK
  <2>2. dir' \in [Names -> (SUBSET Incarnations) \cup {NoDir}]
    BY DEF TypeOK, Opened
  <2> QED BY <1>1, <2>1, <2>2 DEF TypeOK
<1>8. LockOK' /\ NameOK' /\ DeadOK'
  BY <1>1, <1>4 DEF LockOK, Writing, Using, NameOK, DeadOK
<1>9. BornOK'
  <2>1. \A o \in Added : scheme[o] = "persistent"
    BY <1>1 DEF BornOK, Added
  <2> QED BY <1>2, <1>4, <2>1 DEF BornOK, TypeOK
<1>10. \A n \in names : meta[n] \in Incarnations /\ scheme[meta[n]] = "persistent" /\ meta[n] \in Added
  BY <1>1 DEF BornOK, Added
<1>11. MetaOK'
  <2> SUFFICES ASSUME path PROVE MetaOK'
    BY DEF MetaOK
  <2>1. ~stale => meta = Saved'
    <3>1. CASE process = "down"
      <4>1. \A n \in Names : Saved'[n] = meta[n]
        BY <1>1, <1>2, <1>10, <3>1 DEF Saved, IsPersistent, DeadOK, Live, Empty
      <4> QED BY <1>1, <4>1 DEF Saved
    <3>2. CASE process = "stopping"
      <4>1. SUFFICES ASSUME ~stale PROVE meta = Saved'
        OBVIOUS
      <4>2. meta = Saved
        BY <1>1, <3>2, <4>1 DEF MetaOK, Live
      <4>3. names = {}
        BY <4>2 DEF Saved
      <4>4. stores' = stores
        BY <4>3 DEF TypeOK
      <4> QED BY <4>2, <4>4 DEF Saved, IsPersistent
    <3> QED BY <3>1, <3>2
  <2>2. ASSUME NEW n \in Names, stores'[n] # NoStore, base'[stores'[n]] # "none"
        PROVE  meta[n] = stores'[n]
    <3>1. CASE n \in names
      BY <1>2, <3>1
    <3>2. CASE n \notin names
      <4>1. stores'[n] = stores[n] /\ stores[n] \in Incarnations
        BY <1>2, <2>2, <3>2 DEF TypeOK
      <4>2. stores[n] \notin Added
        BY <1>5
      <4>3. base[stores[n]] # "none"
        BY <1>2, <2>2, <4>1, <4>2
      <4>4. Live
        BY <4>1, <4>3 DEF DeadOK
      <4> QED BY <1>1, <2>2, <4>1, <4>3, <4>4 DEF MetaOK
    <3> QED BY <3>1, <3>2
  <2> QED BY <1>1, <2>1, <2>2 DEF MetaOK, Writing, TypeOK
<1>12. PathOK'
  <2> SUFFICES ASSUME ~path PROVE PathOK'
    BY DEF PathOK
  <2>1. names = {}
    BY DEF PathOK, Empty
  <2>2. stores' = stores /\ base' = base /\ dir' = dir
    BY <2>1 DEF TypeOK
  <2> QED BY <1>2, <2>2 DEF PathOK, Creating, IsPersistent
<1>13. CreatingOK'
  BY <1>1 DEF CreatingOK, Creating, Writing
<1>14. BaseOK'
  <2>1. ASSUME NEW n \in Names, scheme[stores'[n]] = "persistent", stores'[n] # NoStore, stores'[n] \notin broken'
        PROVE  \/ base'[stores'[n]] = "open"
               \/ process' \in {"stopping", "half"} /\ base'[stores'[n]] = "disposed"
    <3>1. stores'[n] \in Incarnations
      BY <1>7, <2>1 DEF TypeOK
    <3>2. CASE stores'[n] \in Added
      BY <1>2, <2>1, <3>2
    <3>3. CASE stores'[n] \notin Added
      <4>1. stores'[n] = stores[n] /\ n \notin names
        BY <1>6, <3>1, <3>3
      <4>2. IsPersistent(stores[n]) /\ stores[n] \notin broken /\ base'[stores[n]] = base[stores[n]]
        BY <1>2, <2>1, <3>1, <3>3, <4>1 DEF IsPersistent
      <4>3. base[stores[n]] \in {"open", "disposed"}
        BY <1>1, <4>2 DEF BaseOK, Creating, Writing
      <4>4. process' = "running" => FALSE
        <5>1. Live /\ path
          BY <3>1, <4>1, <4>3 DEF DeadOK, PathOK
        <5>2. meta[n] = stores[n]
          BY <1>1, <3>1, <4>1, <4>3, <5>1 DEF MetaOK
        <5> QED BY <3>1, <4>1, <5>2
      <4> QED BY <4>1, <4>2, <4>3, <4>4
    <3> QED BY <3>2, <3>3
  <2>2. ASSUME NEW o \in Incarnations, base'[o] = "open"
        PROVE  \E n \in Names : stores'[n] = o
    <3>1. CASE o \in Added
      BY <1>2, <3>1 DEF Added
    <3>2. CASE o \notin Added
      <4>1. PICK n \in Names : stores[n] = o
        BY <1>2, <2>2, <3>2 DEF BaseOK
      <4> QED BY <1>2, <4>1
    <3> QED BY <3>1, <3>2
  <2>3. ASSUME NEW n \in Names, stores'[n] # NoStore, base'[stores'[n]] = "open", stores'[n] \notin broken'
        PROVE  dir'[n] # NoDir
    <3>1. stores'[n] \in Incarnations
      BY <1>7, <2>3 DEF TypeOK
    <3>2. CASE stores'[n] \in Added
      <4>1. PICK k \in opened : stores'[n] = meta[k]
        BY <1>2, <2>3, <3>2 DEF Opens
      <4>2. Named(meta[k], n) /\ Named(meta[k], k)
        BY <1>1, <1>2, <1>5, <3>2, <4>1 DEF Named
      <4>3. n = k
        BY <3>1, <4>1, <4>2 DEF NameOK
      <4> QED BY <1>3, <4>3
    <3>3. CASE stores'[n] \notin Added
      BY <1>2, <1>3, <1>6, <2>3, <3>1, <3>3 DEF BaseOK
    <3> QED BY <3>2, <3>3
  <2>4. ASSUME NEW h \in Handlers, Using(h), IsPersistent(ref[h]), ref[h] \notin broken'
        PROVE  base'[ref[h]] # "none"
    <3>1. ref[h] \in Incarnations /\ ref[h] \notin Added
      BY <2>4 DEF LockOK, Using, Added
    <3> QED BY <1>2, <2>4, <3>1 DEF BaseOK
  <2>5. \A h \in Handlers : Using(h)' = Using(h) /\ Creating(h)' = Creating(h)
    BY DEF Using, Creating
  <2>6. \A o : IsPersistent(o)' = IsPersistent(o)
    BY DEF IsPersistent
  <2> QED BY <2>1, <2>2, <2>3, <2>4, <2>5, <2>6 DEF BaseOK, IsPersistent
<1>15. AckedOK'
  BY <1>2, <1>3, <1>6, <1>7, <1>10 DEF AckedOK, AckedIsStoredUnlessBroken, IsPersistent, TypeOK
<1>16. CleanOK'
  <2>1. \A n \in Names : Clean(n) => Clean(n)'
    BY <1>3 DEF Clean
  <2>2. ASSUME NEW n \in Names,
               \/ stores'[n] = NoStore \/ scheme[stores'[n]] # "persistent"
               \/ \E h \in Handlers : Creating(h)' /\ name'[h] = n
        PROVE  Clean(n)
    <3>1. stores'[n] = NoStore \/ scheme[stores'[n]] # "persistent"
      BY <1>1, <2>2 DEF Creating, Writing
    <3>2. n \notin names
      BY <1>2, <1>10, <3>1
    <3>3. CASE Live
      BY <1>2, <3>1, <3>2, <3>3 DEF CleanOK, IsPersistent
    <3>4. CASE ~Live
      <4>1. process = "down"
        BY <3>4 DEF Live
      <4>2. meta[n] = NoStore
        BY <3>2, <4>1
      <4> QED BY <1>1, <4>2 DEF CleanOK
    <3> QED BY <3>3, <3>4
  <2> QED BY <2>1, <2>2 DEF CleanOK, IsPersistent
<1> QED BY <1>7, <1>8, <1>9, <1>11, <1>12, <1>13, <1>14, <1>15, <1>16

\* A server starts, or starts again,
LEMMA StartKeeps ==
  ASSUME Inv, Start
  PROVE  Inv'
<1> DEFINE L == {n \in Names : meta[n] # NoStore}
<1>1. MayLoad /\ Load(L, L) /\ \A n \in L : stores[n] = NoStore
  BY DEF Start, Started
<1>2. broken' = broken \cup {o \in Incarnations : \E n \in L \ L : meta[n] = o}
  BY DEF Start, history
<1>3. process' = "running" /\ UNCHANGED <<path, scheme, meta, lock, saver, caller, acked, leftover, stale>>
  BY DEF Start, history
<1> QED BY <1>1, <1>2, <1>3, LoadKeeps

\* fails at a database,
LEMMA StartThrowsKeeps ==
  ASSUME Inv, StartThrows
  PROVE  Inv'
<1> DEFINE L == {n \in Names : meta[n] # NoStore}
<1>1. PICK opened \in SUBSET L :
        /\ Load(L, opened)
        /\ broken' = broken \cup {o \in Incarnations : \E n \in Names \ opened : meta[n] = o}
  BY DEF StartThrows
<1>2. MayLoad /\ \A n \in L : stores[n] = NoStore
  BY DEF StartThrows
<1>3. broken' = broken \cup {o \in Incarnations : \E n \in L \ opened : meta[n] = o}
  BY <1>1, NullAssumption
<1>4. process' = "half" /\ UNCHANGED <<path, scheme, meta, lock, saver, caller, acked, leftover, stale>>
  BY DEF StartThrows
<1> QED BY <1>1, <1>2, <1>3, <1>4, LoadKeeps

\* at a store that is there,
LEMMA StartAgainThrowsKeeps ==
  ASSUME Inv, StartAgainThrows
  PROVE  Inv'
<1>1. PICK added \in SUBSET {n \in Names : meta[n] # NoStore /\ stores[n] = NoStore} :
        /\ Load(added, {})
        /\ broken' = broken \cup {o \in Incarnations : \E n \in added : meta[n] = o}
  BY DEF StartAgainThrows
<1>2. MayLoad /\ process = "stopping" /\ process' = "half"
  BY DEF StartAgainThrows
<1>3. UNCHANGED <<path, scheme, meta, lock, saver, caller, acked, leftover, stale>>
  BY DEF StartAgainThrows
<1>4. added \in SUBSET Names /\ {} \in SUBSET added /\ added \ {} = added
  OBVIOUS
<1> QED BY <1>1, <1>2, <1>3, <1>4, LoadKeeps

\* or at the file.
LEMMA StartFailsKeeps ==
  ASSUME Inv, StartFails
  PROVE  Inv'
<1> USE NullAssumption, ThreadsAssumption, FilesAssumption DEF Inv, lock, saver, caller,
      history, StartFails
<1>1. \A o \in Incarnations, m \in Names : Named(o, m)' => Named(o, m)
  BY DEF Named, TypeOK, LockOK, Writing, Using
<1>2. TypeOK'
  BY DEF TypeOK, LockOK, Writing, Using, CreatingOK, Creating, IsPersistent, DeadOK, Live
<1>3. LockOK'
  BY DEF TypeOK, LockOK, Writing, Using
<1>4. BornOK'
  BY <1>1 DEF TypeOK, LockOK, Writing, BornOK, CreatingOK, Creating, IsPersistent, MetaOK, PathOK, Live, Saved, Empty, DeadOK, Using
<1>5. NameOK'
  BY <1>1 DEF NameOK
<1>6. DeadOK'
  BY DEF DeadOK, Live, Empty
<1>7. MetaOK'
  BY DEF TypeOK, MetaOK, Live, Saved, IsPersistent, LockOK, Writing, Using, DeadOK, BornOK, CreatingOK, Creating
<1>8. PathOK'
  BY DEF TypeOK, PathOK, Creating, IsPersistent, Empty, LockOK, Writing
<1>9. CreatingOK'
  BY DEF TypeOK, CreatingOK, Creating, Using, IsPersistent, LockOK, Writing, DeadOK, Live
<1>10. BaseOK'
  BY DEF TypeOK, LockOK, Writing, Using, DeadOK, Live, Creating, IsPersistent, CreatingOK, BaseOK, BornOK
<1>11. AckedOK'
  BY DEF TypeOK, LockOK, AckedOK, AckedIsStoredUnlessBroken, IsPersistent, Held, BornOK
<1>12. CleanOK'
  BY DEF TypeOK, LockOK, Writing, CleanOK, Clean, Creating, Live, IsPersistent, Held, MetaOK, Saved, PathOK, DeadOK
<1> QED BY <1>2, <1>3, <1>4, <1>5, <1>6, <1>7, <1>8, <1>9, <1>10, <1>11, <1>12

\* A server starts without stores, files or callers.
LEMMA Initially == Init => Inv
<1> SUFFICES ASSUME Init PROVE Inv
  OBVIOUS
<1>1. path \in BOOLEAN
  BY FlagsAssumption DEF Init
<1>2. TypeOK
  BY <1>1, NullAssumption DEF Init, TypeOK, Empty
<1>3. LockOK /\ BornOK /\ NameOK /\ DeadOK /\ CreatingOK
  BY NullAssumption DEF Init, LockOK, Writing, Using, BornOK, NameOK, Named, DeadOK, Live, Empty, CreatingOK, Creating
<1>4. MetaOK /\ PathOK /\ BaseOK
  <2>1. Empty # Torn /\ Saved = Empty
    BY FilesAssumption DEF Init, Saved, IsPersistent, Empty
  <2>2. MetaOK
    BY <2>1 DEF Init, MetaOK
  <2> QED BY <2>2 DEF Init, PathOK, Creating, BaseOK, IsPersistent, Empty
<1>5. AckedOK /\ CleanOK
  BY FilesAssumption DEF Init, AckedOK, AckedIsStoredUnlessBroken, Live, Empty, Held, CleanOK, Clean
<1> QED BY <1>2, <1>3, <1>4, <1>5 DEF Inv

\* Every step keeps the invariant.
LEMMA Stays == Inv /\ [Next]_vars => Inv'
<1> SUFFICES ASSUME Inv, [Next]_vars PROVE Inv'
  OBVIOUS
<1>1. CASE Next
  <2>1. ASSUME NEW h \in Handlers, NEW n \in Names, CreateStore(h, n) \/ DeleteStore(h, n) \/ GetKeyStore(h, n)
        PROVE  Inv'
    BY <2>1, CreateStoreKeeps, DeleteStoreKeeps, GetKeyStoreKeeps
  <2>2. ASSUME NEW h \in Handlers,
               \/ CreateSaved(h) \/ CreateSaveFails(h) \/ CreateOpen(h) \/ OpenFails(h)
               \/ DeleteSaved(h) \/ DeleteSaveFails(h) \/ DeleteDirectory(h) \/ Write(h)
        PROVE  Inv'
    BY <2>2, CreateSavedKeeps, CreateSaveFailsKeeps, CreateOpenKeeps, OpenFailsKeeps, DeleteSavedKeeps,
       DeleteSaveFailsKeeps, DeleteDirectoryKeeps, WriteKeeps
  <2>3. CASE HeartbeatDue \/ HeartbeatSave \/ HeartbeatSaved \/ Stop \/ StopSaved \/ StopSaveFails
    BY <2>3, HeartbeatDueKeeps, HeartbeatSaveKeeps, HeartbeatSavedKeeps, StopKeeps, StopSavedKeeps, StopSaveFailsKeeps
  <2>4. CASE HeartbeatDies \/ Exit \/ Crash
    <3>1. Live /\ Gone
      BY <2>4 DEF HeartbeatDies, Exit, Crash, Live, Inv, DeadOK
    <3> QED BY <3>1, GoneKeeps
  <2>5. CASE Start \/ StartThrows \/ StartAgainThrows \/ StartFails
    BY <2>5, StartKeeps, StartThrowsKeeps, StartAgainThrowsKeeps, StartFailsKeeps
  <2> QED BY <1>1, <2>1, <2>2, <2>3, <2>4, <2>5 DEF Next
<1>2. CASE UNCHANGED vars
  <2> USE <1>2 DEF vars, lock, saver, caller, history, Named, Taken
  <2>1. TypeOK' /\ LockOK' /\ BornOK' /\ NameOK' /\ DeadOK' /\ PathOK'
    BY DEF Inv, TypeOK, LockOK, Writing, Using, BornOK, NameOK, DeadOK, Live, Empty, PathOK, Creating,
           IsPersistent
  <2>2. MetaOK' /\ CreatingOK' /\ BaseOK'
    BY DEF Inv, MetaOK, Live, Saved, IsPersistent, CreatingOK, Creating, Using, BaseOK
  <2>3. AckedOK' /\ CleanOK'
    BY DEF Inv, AckedOK, AckedIsStoredUnlessBroken, Live, IsPersistent, Held, CleanOK, Clean, Creating
  <2> QED BY <2>1, <2>2, <2>3 DEF Inv
<1> QED BY <1>1, <1>2

\* So it holds in every state.
LEMMA Always == Spec => []Inv
BY Initially, Stays, PTL DEF Spec

\* The types, and what the reader/writer lock of the dictionary excludes.
THEOREM TypeCorrect == Spec => []TypeOK
<1>1. Inv => TypeOK
  BY DEF Inv
<1> QED BY <1>1, Always, PTL

\* stores.json lists exactly the persistent stores whenever nobody is saving it and
\* the last save did not throw, whichever of CreateStore, DeleteStore, the heartbeat
\* and Stop made it, and whichever saves have failed before.
THEOREM FileKeepsUp == Spec => []FileIsCurrent
<1>1. Inv => FileIsCurrent
  BY NullAssumption DEF Inv, LockOK, Writing, MetaOK, FileIsCurrent
<1> QED BY <1>1, Always, PTL

\* A persistent store that GetKeyStore finds has its database open, over any
\* sequence of crashes and starts, unless its CreateStore or a Start threw or its
\* directory was deleted late.
THEOREM FoundStoresAreOpen == Spec => []FoundIsOpen
<1>1. Inv => FoundIsOpen
  BY NullAssumption DEF Inv, LockOK, Writing, Creating, BaseOK, FoundIsOpen
<1> QED BY <1>1, Always, PTL

\* CreateStore opens an empty database, unless a deletion of a store of that name
\* has failed (to save the file or to remove the directory), died, or is not through.
THEOREM NewStoresAreEmpty == Spec => []CreatedEmpty
<1>1. Inv => CreatedEmpty
  <2> SUFFICES ASSUME Inv, NEW h \in Handlers, pc[h] = "opening"
               PROVE  \/ Held(dir[name[h]]) = {}
                      \/ name[h] \in leftover
                      \/ \E g \in Handlers : pc[g] = "rmdir" /\ name[g] = name[h]
    BY DEF CreatedEmpty
  <2>1. Live /\ name[h] \in Names /\ Clean(name[h])
    BY DEF Inv, DeadOK, LockOK, CleanOK, Creating
  <2>2. \A g \in Handlers : pc[g] # "deleting"
    BY DEF Inv, LockOK, Writing
  <2> QED BY <2>1, <2>2 DEF Clean
<1> QED BY <1>1, Always, PTL

\* A value that was acknowledged by a persistent store is in its directory, over
\* crashes and starts, unless the store was broken by a CreateStore or Start that
\* threw or by a late DeleteStore.
THEOREM AcknowledgedIsKept == Spec => []AckedIsStoredUnlessBroken
<1>1. Inv => AckedIsStoredUnlessBroken
  BY DEF Inv, AckedOK
<1> QED BY <1>1, Always, PTL

\* The refinement. What the catalog is, after a step that leaves what it is made of.
LEMMA CatalogKept ==
  ASSUME UNCHANGED <<path, stores, scheme>>, Live, Live'
  PROVE  Catalog' = Catalog /\ Made' = Made
BY DEF Catalog, Made, Saved, IsPersistent, Empty

\* The catalog of a server is never lost.
LEMMA CatalogThere ==
  ASSUME TypeOK, Live
  PROVE  /\ Catalog \in [Names -> Incarnations \cup {NoStore}]
         /\ Catalog # Torn
<1>1. Catalog \in [Names -> Incarnations \cup {NoStore}]
  BY DEF TypeOK, Catalog, Saved, IsPersistent, Empty
<1> QED BY <1>1, FilesAssumption

\* Whoever is granted the lock when no thread reads finds nobody saving.
LEMMA NobodySaves ==
  ASSUME Inv, writer = NoName, readers = {}
  PROVE  ~Saving /\ \A h \in Handlers : ~Writing(h)
BY NullAssumption DEF Inv, LockOK, Writing, Saving

\* A step that changes no store and no file.
LEMMA IdleSimulated ==
  ASSUME Live, Live', UNCHANGED <<path, stores, scheme, meta, readers>>,
         \A h \in Handlers : pc'[h] \in {"creating", "deleting"} <=> pc[h] \in {"creating", "deleting"}
  PROVE  UNCHANGED Contract!vars
<1>1. Catalog' = Catalog /\ Made' = Made
  BY CatalogKept
<1>2. Saving' = Saving
  BY DEF Saving
<1> QED BY <1>1, <1>2 DEF Contract!vars

\* stores.json is opened to write the same stores again.
LEMMA BeginSimulated ==
  ASSUME Live, Live', UNCHANGED <<path, stores, scheme>>, ~Saving, Saving', meta' = Torn
  PROVE  Contract!Next
<1>1. Catalog' = Catalog /\ Made' = Made
  BY CatalogKept
<1>2. Contract!Write
  BY <1>1 DEF Contract!Write, Contract!BeginWrite, Saving
<1> QED BY <1>2 DEF Contract!Next

\* A save is done, or has failed.
LEMMA EndSimulated ==
  ASSUME Live, Live', UNCHANGED <<path, stores, scheme>>, path, Saving, ~Saving',
         meta' = Saved \/ (SaveMayFail /\ meta' = meta)
  PROVE  Contract!Next
<1>1. Catalog' = Catalog /\ Made' = Made /\ Catalog = Saved
  BY CatalogKept DEF Catalog
<1>2. Saving' = FALSE
  BY DEF Saving
<1>3. CASE meta' = Saved
  <2>1. Contract!Written
    BY <1>1, <1>2, <1>3 DEF Contract!Written
  <2> QED BY <2>1 DEF Contract!Next
<1>4. CASE SaveMayFail /\ meta' = meta
  <2>1. Contract!WriteFails
    BY <1>1, <1>2, <1>4 DEF Contract!WriteFails
  <2> QED BY <2>1 DEF Contract!Next
<1> QED BY <1>3, <1>4

\* Stop saves while it is stopping, and no second Stop begins then.
StopOK == Stopper \in readers => process \in {"stopping", "half"}

\* So it is, and stays so.
LEMMA StopStays == Inv /\ StopOK /\ [Next]_vars => StopOK'
<1> SUFFICES ASSUME Inv, StopOK, [Next]_vars PROVE StopOK'
  OBVIOUS
<1> USE DEF StopOK
<1>1. CASE process' = process /\ (Stopper \in readers' => Stopper \in readers)
  BY <1>1
<1>2. CASE Gone
  BY <1>2 DEF Gone
<1>3. CASE Start \/ StartThrows \/ StartAgainThrows \/ StartFails
  BY <1>3 DEF Start, StartThrows, StartAgainThrows, StartFails, MayLoad, WriteGranted, lock
<1>4. CASE Stop
  BY <1>4 DEF Stop
<1>5. CASE HeartbeatDue \/ HeartbeatSave \/ HeartbeatSaved \/ StopSaved \/ StopSaveFails
  BY <1>1, <1>5, ThreadsAssumption DEF HeartbeatDue, HeartbeatSave, HeartbeatSaved, StopSaved, StopSaveFails, lock
<1>6. ASSUME NEW h \in Handlers,
             \/ \E n \in Names : CreateStore(h, n) \/ DeleteStore(h, n) \/ GetKeyStore(h, n)
             \/ CreateSaved(h) \/ CreateSaveFails(h) \/ CreateOpen(h) \/ OpenFails(h)
             \/ DeleteSaved(h) \/ DeleteSaveFails(h) \/ DeleteDirectory(h) \/ Write(h)
      PROVE  process' = process /\ readers' = readers
  BY <1>6 DEF CreateStore, DeleteStore, GetKeyStore, CreateSaved, CreateSaveFails, CreateOpen, OpenFails,
              DeleteSaved, DeleteSaveFails, DeleteDirectory, Write, lock
<1>7. CASE UNCHANGED vars
  BY <1>1, <1>7 DEF vars, lock
<1> QED BY <1>1, <1>2, <1>3, <1>4, <1>5, <1>6, <1>7 DEF Next, HeartbeatDies, Exit, Crash

\* CreateStore
LEMMA CreateSimulated ==
  ASSUME Inv, NEW h \in Handlers, NEW n \in Names, CreateStore(h, n)
  PROVE  Contract!Next
<1>1. PICK o \in Incarnations, s \in {"persistent", "ephemeral"} :
        /\ scheme[o] = "unborn"
        /\ scheme' = [scheme EXCEPT ![o] = s]
        /\ stores' = [stores EXCEPT ![n] = o]
        /\ \/ /\ s = "persistent" /\ path
              /\ meta' = Torn
              /\ pc' = [pc EXCEPT ![h] = "creating"]
           \/ s = "persistent" /\ (path => SaveMayFail) /\ UNCHANGED <<meta, pc>>
           \/ s = "ephemeral" /\ UNCHANGED <<meta, pc>>
  BY DEF CreateStore
<1>2. Live /\ Live' /\ stores[n] = NoStore /\ path' = path /\ readers' = readers /\ TypeOK /\ TypeOK'
  BY CreateStoreKeeps DEF CreateStore, Live, Inv
<1>3. ~Saving
  BY NobodySaves DEF CreateStore, WriteGranted
<1>4. o \notin Made /\ Made' = Made \cup {o}
  BY <1>1, <1>2 DEF Made, TypeOK
<1>5. \A m \in Names : m # n => Saved'[m] = Saved[m]
  <2>1. \A m \in Names : stores[m] \in Incarnations => scheme[stores[m]] # "unborn"
    BY DEF Inv, BornOK, Named
  <2> QED BY <1>1, <1>2, <2>1 DEF Saved, IsPersistent, TypeOK
<1>6. Saved[n] = NoStore /\ Saved'[n] = IF s = "persistent" THEN o ELSE NoStore
  BY <1>1, <1>2, NullAssumption DEF Saved, IsPersistent, TypeOK
<1>7. CASE s = "persistent" /\ path
  <2>1. Catalog = Saved /\ Catalog' = Saved'
    BY <1>2, <1>7 DEF Catalog
  <2>2. Saved' = [Saved EXCEPT ![n] = o]
    BY <1>5, <1>6, <1>7 DEF Saved
  <2>3. Contract!BeginWrite \/ Contract!CannotWrite
    <3>1. CASE meta' = Torn /\ pc' = [pc EXCEPT ![h] = "creating"]
      <4>1. Saving'
        BY <1>2, <1>7, <3>1 DEF Saving, TypeOK
      <4> QED BY <1>3, <3>1, <4>1 DEF Contract!BeginWrite, Saving
    <3>2. CASE SaveMayFail /\ UNCHANGED <<meta, pc>>
      BY <1>2, <1>3, <3>2 DEF Contract!CannotWrite, Saving
    <3> QED BY <1>1, <1>7, <3>1, <3>2
  <2>4. Contract!Create(n, o)
    BY <1>2, <1>4, <1>6, <2>1, <2>2, <2>3, CatalogThere DEF Contract!Create
  <2> QED BY <2>4 DEF Contract!Next
<1>8. CASE ~(s = "persistent" /\ path)
  <2>1. Saving' = Saving /\ meta' = meta
    BY <1>1, <1>2, <1>8 DEF Saving
  <2>2. Catalog' = Catalog
    <3>1. CASE ~path
      BY <1>2, <3>1 DEF Catalog, Empty
    <3>2. CASE path
      <4>1. Saved' = Saved
        BY <1>5, <1>6, <1>8, <3>2 DEF Saved
      <4> QED BY <1>2, <3>2, <4>1 DEF Catalog
    <3> QED BY <3>1, <3>2
  <2>3. Contract!CreateElsewhere(o)
    BY <1>4, <2>1, <2>2 DEF Contract!CreateElsewhere
  <2> QED BY <2>3 DEF Contract!Next
<1> QED BY <1>7, <1>8

\* DeleteStore
LEMMA DeleteSimulated ==
  ASSUME Inv, NEW h \in Handlers, NEW n \in Names, DeleteStore(h, n)
  PROVE  [Contract!Next]_(Contract!vars)
<1>1. /\ Live /\ Live' /\ path' = path /\ scheme' = scheme /\ readers' = readers
      /\ stores' = [stores EXCEPT ![n] = NoStore]
      /\ \/ meta' = (IF path THEN Torn ELSE meta) /\ pc' = [pc EXCEPT ![h] = "deleting"]
         \/ SaveMayFail /\ path /\ UNCHANGED <<meta, pc>>
      /\ TypeOK
  BY DEF DeleteStore, Live, Inv
<1>2. ~Saving
  BY NobodySaves DEF DeleteStore, WriteGranted
<1>3. Made' = Made
  BY <1>1 DEF Made
<1>4. Saved' = [Saved EXCEPT ![n] = NoStore]
  BY <1>1 DEF Saved, IsPersistent, TypeOK
<1>5. CASE ~path
  <2>1. Catalog' = Catalog /\ Saving' = FALSE /\ Saving = FALSE /\ meta' = meta
    BY <1>1, <1>5 DEF Catalog, Saving, Empty
  <2> QED BY <1>3, <2>1 DEF Contract!vars
<1>6. CASE path
  <2>1. Catalog = Saved /\ Catalog' = Saved'
    BY <1>1, <1>6 DEF Catalog
  <2>2. Contract!BeginWrite \/ (Contract!CannotWrite /\ Saving' = Saving /\ meta' = meta)
    <3>1. CASE meta' = Torn /\ pc' = [pc EXCEPT ![h] = "deleting"]
      <4>1. Saving'
        BY <1>1, <1>6, <3>1 DEF Saving, TypeOK
      <4> QED BY <1>2, <3>1, <4>1 DEF Contract!BeginWrite, Saving
    <3>2. CASE SaveMayFail /\ UNCHANGED <<meta, pc>>
      BY <1>1, <1>2, <3>2 DEF Contract!CannotWrite, Saving
    <3> QED BY <1>1, <1>6, <3>1, <3>2
  <2>3. CASE Saved[n] # NoStore
    <3>1. Contract!Delete(n)
      BY <1>1, <1>3, <1>4, <2>1, <2>2, <2>3, CatalogThere DEF Contract!Delete
    <3> QED BY <3>1 DEF Contract!Next
  <2>4. CASE Saved[n] = NoStore
    <3>1. Saved' = Saved
      BY <1>4, <2>4 DEF Saved
    <3>2. Contract!Write \/ UNCHANGED Contract!vars
      BY <1>3, <2>1, <2>2, <3>1 DEF Contract!Write, Contract!vars
    <3> QED BY <3>2 DEF Contract!Next
  <2> QED BY <2>3, <2>4
<1> QED BY <1>5, <1>6

\* CreateStore and DeleteStore save the file, and go on or throw.
LEMMA HandlerSaveSimulated ==
  ASSUME Inv, NEW h \in Handlers, CreateSaved(h) \/ CreateSaveFails(h) \/ DeleteSaved(h) \/ DeleteSaveFails(h)
  PROVE  [Contract!Next]_(Contract!vars)
<1>1. /\ pc[h] \in {"creating", "deleting"} /\ writer = h /\ readers = {}
      /\ Live /\ Live' /\ UNCHANGED <<path, process, stores, scheme, readers>>
  BY NullAssumption DEF CreateSaved, CreateSaveFails, DeleteSaved, DeleteSaveFails, lock, Inv, DeadOK, Live, LockOK, Writing,
     TypeOK
<1>2. /\ pc'[h] \notin {"creating", "deleting"}
      /\ \A g \in Handlers : g # h => pc'[g] = pc[g] /\ pc[g] \notin {"creating", "deleting"}
  BY <1>1 DEF CreateSaved, CreateSaveFails, DeleteSaved, DeleteSaveFails, Finish, Inv, TypeOK, LockOK, Writing
<1>3. CASE path
  <2>1. Saving /\ ~Saving'
    BY <1>1, <1>2, <1>3 DEF Saving
  <2>2. meta' = Saved \/ (SaveMayFail /\ meta' = meta)
    BY <1>3 DEF CreateSaved, CreateSaveFails, DeleteSaved, DeleteSaveFails
  <2> QED BY <1>1, <1>3, <2>1, <2>2, EndSimulated
<1>4. CASE ~path
  <2>1. ~Creating(h)
    BY <1>4 DEF Inv, PathOK
  <2>2. meta' = meta
    BY <1>4, <2>1 DEF CreateSaved, CreateSaveFails, DeleteSaved, DeleteSaveFails, Creating
  <2>3. Catalog' = Catalog /\ Made' = Made /\ Saving = FALSE /\ Saving' = FALSE
    BY <1>1, <1>4, CatalogKept DEF Saving
  <2> QED BY <2>2, <2>3 DEF Contract!vars
<1> QED BY <1>3, <1>4

\* The heartbeat and Stop save it.
LEMMA ReaderSaveSimulated ==
  ASSUME Inv, StopOK, HeartbeatSave \/ HeartbeatSaved \/ Stop \/ StopSaved \/ StopSaveFails
  PROVE  [Contract!Next]_(Contract!vars)
<1>1. /\ Live /\ Live' /\ UNCHANGED <<path, stores, scheme, pc>>
      /\ readers # {} \/ readers' # {} => writer = NoName
      /\ readers \subseteq {Heartbeat, Stopper}
  BY DEF HeartbeatSave, HeartbeatSaved, Stop, StopSaved, StopSaveFails, caller, Live, Inv, DeadOK, TypeOK, ReadGranted
<1>2. readers # {} => path
  BY DEF Inv, PathOK
<1>3. \A h \in Handlers : readers # {} \/ readers' # {} => pc[h] \notin {"creating", "deleting"}
  BY <1>1, NullAssumption DEF Inv, LockOK, Writing
<1>4. CASE HeartbeatSave
  <2>1. path
    BY <1>4 DEF HeartbeatSave, Inv, PathOK
  <2>2. ~Saving /\ Saving' /\ meta' = Torn
    BY <1>1, <1>3, <1>4, <2>1 DEF HeartbeatSave, Saving
  <2> QED BY <1>1, <2>2, BeginSimulated
<1>5. CASE HeartbeatSaved
  <2>1. path /\ meta' = Saved
    BY <1>1, <1>2, <1>5 DEF HeartbeatSaved, Inv, MetaOK
  <2>2. readers' = {}
    BY <1>1, <1>5 DEF HeartbeatSaved, Inv, LockOK
  <2>3. Saving /\ ~Saving'
    BY <1>1, <1>3, <1>5, <2>1, <2>2 DEF HeartbeatSaved, Saving
  <2> QED BY <1>1, <2>1, <2>3, EndSimulated
<1>6. CASE StopSaved \/ StopSaveFails
  <2>1. path /\ readers' = {}
    BY <1>1, <1>2, <1>6 DEF StopSaved, StopSaveFails, Inv, LockOK
  <2>2. Saving /\ ~Saving'
    BY <1>1, <1>3, <1>6, <2>1 DEF StopSaved, StopSaveFails, Saving
  <2>3. meta' = Saved \/ (SaveMayFail /\ meta' = meta)
    BY <1>6 DEF StopSaved, StopSaveFails
  <2> QED BY <1>1, <2>1, <2>2, <2>3, EndSimulated
<1>7. CASE Stop
  <2>1. CASE path /\ Heartbeat \notin readers /\ meta' = Torn /\ readers' = readers \cup {Stopper}
    <3>1. readers = {}
      BY <1>1, <1>7, <2>1 DEF Stop, StopOK
    <3>2. ~Saving /\ Saving'
      BY <1>1, <1>3, <2>1, <3>1 DEF Saving
    <3> QED BY <1>1, <2>1, <3>2, BeginSimulated
  <2>2. CASE UNCHANGED <<meta, readers>>
    BY <1>1, <2>2, IdleSimulated
  <2> QED BY <1>7, <2>1, <2>2 DEF Stop
<1> QED BY <1>4, <1>5, <1>6, <1>7

\* The process ends.
LEMMA GoneSimulated ==
  ASSUME Inv, Live, Gone
  PROVE  [Contract!Next]_(Contract!vars)
<1>1. UNCHANGED <<path, scheme, meta>> /\ ~Live'
  BY DEF Gone, Live
<1>2. Made' = Made /\ Saving' = FALSE
  BY <1>1 DEF Made, Saving, Gone
<1>3. CASE ~path
  <2>1. Catalog' = Catalog /\ Saving = FALSE
    BY <1>1, <1>3 DEF Catalog, Saving
  <2> QED BY <1>1, <1>2, <2>1 DEF Contract!vars
<1>4. CASE path
  <2>1. Catalog' = meta
    BY <1>1, <1>4 DEF Catalog
  <2>2. Contract!Restart
    BY <1>1, <1>2, <2>1 DEF Contract!Restart
  <2> QED BY <2>2 DEF Contract!Next
<1> QED BY <1>3, <1>4

\* Stores are loaded from the file.
LEMMA LoadSimulated ==
  ASSUME Inv, MayLoad, NEW names \in SUBSET Names, NEW opened, Load(names, opened),
         \A n \in names : meta[n] # NoStore /\ stores[n] = NoStore,
         process = "down" => \A n \in Names : meta[n] # NoStore => n \in names,
         process' \in {"running", "half"},
         UNCHANGED <<path, scheme, meta, lock, caller>>
  PROVE  [Contract!Next]_(Contract!vars)
<1>1. /\ meta \in [Names -> Incarnations \cup {NoStore}] /\ meta # Torn /\ Live'
      /\ readers = {} /\ writer = NoName
      /\ stores' = [n \in Names |-> IF n \in names THEN meta[n] ELSE stores[n]]
  BY DEF Inv, TypeOK, MayLoad, WriteGranted, Live, Load
<1>2. Made' = Made /\ Saving' = FALSE /\ Saving = FALSE
  BY <1>1, NobodySaves DEF Made, Saving, lock, caller
<1>3. CASE ~path
  BY <1>2, <1>3 DEF Catalog, Contract!vars
<1>4. CASE path
  <2>1. \A n \in Names : Saved'[n] = IF n \in names THEN meta[n] ELSE Saved[n]
    BY <1>1 DEF Saved, IsPersistent, Inv, BornOK
  <2>2. Catalog' = Saved'
    BY <1>1, <1>4 DEF Catalog
  <2>3. CASE process = "down"
    <3>1. \A n \in Names : Saved'[n] = meta[n]
      BY <1>1, <2>1, <2>3 DEF Saved, IsPersistent, Inv, DeadOK, Live, Empty
    <3>2. Saved' = meta
      BY <1>1, <3>1 DEF Saved
    <3>3. Catalog = meta
      BY <1>4, <2>3 DEF Catalog, Live
    <3> QED BY <1>2, <2>2, <3>2, <3>3 DEF Contract!vars
  <2>4. CASE process # "down"
    <3>1. Live
      BY <2>4 DEF MayLoad, Live
    <3>2. Catalog = Saved
      BY <1>4, <3>1 DEF Catalog
    <3>3. \A n \in names : Saved[n] = NoStore
      BY DEF Saved, IsPersistent
    <3>4. Saved' = [n \in Names |-> IF n \in names THEN meta[n] ELSE Saved[n]]
      BY <2>1 DEF Saved
    <3>5. Contract!StartAgain
      BY <1>1, <1>2, <2>2, <3>1, <3>2, <3>3, <3>4, CatalogThere DEF Contract!StartAgain, Inv
    <3> QED BY <3>5 DEF Contract!Next
  <2> QED BY <2>3, <2>4
<1> QED BY <1>3, <1>4

\* Every way to start.
LEMMA StartSimulated ==
  ASSUME Inv, Start \/ StartThrows \/ StartAgainThrows
  PROVE  [Contract!Next]_(Contract!vars)
<1> DEFINE L == {n \in Names : meta[n] # NoStore}
<1>1. MayLoad /\ process' \in {"running", "half"} /\ UNCHANGED <<path, scheme, meta, lock, caller>>
  BY DEF Start, StartThrows, StartAgainThrows
<1>2. CASE Start \/ StartThrows
  <2>1. PICK opened : Load(L, opened)
    BY <1>2 DEF Start, StartThrows
  <2>2. \A n \in L : stores[n] = NoStore
    BY <1>2 DEF Start, StartThrows
  <2> QED BY <1>1, <2>1, <2>2, LoadSimulated
<1>3. CASE StartAgainThrows
  <2>1. PICK added \in SUBSET {n \in Names : meta[n] # NoStore /\ stores[n] = NoStore} : Load(added, {})
    BY <1>3 DEF StartAgainThrows
  <2>2. process # "down" /\ added \in SUBSET Names
    BY <1>3 DEF StartAgainThrows
  <2> QED BY <1>1, <2>1, <2>2, LoadSimulated
<1> QED BY <1>2, <1>3

\* Every step is one of the catalog, or leaves it alone.
LEMMA StepSimulated == Inv /\ StopOK /\ [Next]_vars => [Contract!Next]_(Contract!vars)
<1> SUFFICES ASSUME Inv, StopOK, [Next]_vars PROVE [Contract!Next]_(Contract!vars)
  OBVIOUS
<1>1. ASSUME NEW h \in Handlers, NEW n \in Names, CreateStore(h, n) \/ DeleteStore(h, n)
      PROVE  [Contract!Next]_(Contract!vars)
  BY <1>1, CreateSimulated, DeleteSimulated
<1>2. ASSUME NEW h \in Handlers,
             \/ \E n \in Names : GetKeyStore(h, n)
             \/ CreateOpen(h) \/ OpenFails(h) \/ DeleteDirectory(h) \/ Write(h)
      PROVE  [Contract!Next]_(Contract!vars)
  <2>1. Live /\ Live' /\ UNCHANGED <<path, stores, scheme, meta, readers>>
    BY <1>2 DEF GetKeyStore, CreateOpen, OpenFails, DeleteDirectory, Write, Live, Inv, DeadOK, lock
  <2>2. \A g \in Handlers : pc'[g] \in {"creating", "deleting"} <=> pc[g] \in {"creating", "deleting"}
    BY <1>2 DEF GetKeyStore, CreateOpen, OpenFails, DeleteDirectory, Write, Finish, Inv, TypeOK
  <2> QED BY <2>1, <2>2, IdleSimulated
<1>3. ASSUME NEW h \in Handlers, CreateSaved(h) \/ CreateSaveFails(h) \/ DeleteSaved(h) \/ DeleteSaveFails(h)
      PROVE  [Contract!Next]_(Contract!vars)
  BY <1>3, HandlerSaveSimulated
<1>4. CASE HeartbeatSave \/ HeartbeatSaved \/ Stop \/ StopSaved \/ StopSaveFails
  BY <1>4, ReaderSaveSimulated
<1>5. CASE HeartbeatDue
  <2>1. Live /\ Live' /\ UNCHANGED <<path, stores, scheme, meta, readers, pc>>
    BY <1>5 DEF HeartbeatDue, Live, lock, caller
  <2> QED BY <2>1, IdleSimulated
<1>6. CASE HeartbeatDies \/ Exit \/ Crash
  <2>1. Live /\ Gone
    BY <1>6 DEF HeartbeatDies, Exit, Crash, Live, Inv, DeadOK
  <2> QED BY <2>1, GoneSimulated
<1>7. CASE Start \/ StartThrows \/ StartAgainThrows
  BY <1>7, StartSimulated
<1>8. CASE StartFails
  <2>1. Live' = Live /\ UNCHANGED <<path, stores, scheme, meta, readers, pc>>
    BY <1>8 DEF StartFails, Live, lock, caller
  <2> QED BY <2>1 DEF Catalog, Made, Saving, Saved, IsPersistent, Empty, Contract!vars
<1>9. CASE UNCHANGED vars
  BY <1>9 DEF vars, lock, caller, Catalog, Made, Saving, Live, Saved, IsPersistent, Empty, Contract!vars
<1> QED BY <1>1, <1>2, <1>3, <1>4, <1>5, <1>6, <1>7, <1>8, <1>9 DEF Next

\* KkServer keeps a catalog of persistent stores that only CreateStore and
\* DeleteStore change, and begins each process with the copy that the last save
\* has written: the saves of the heartbeat and of Stop, under a read lock beside one
\* another, crashes at any step and starts undo nothing. A store comes back or
\* vanishes only when File.WriteAllText has thrown (SaveMayFail), and all of them
\* vanish when the process ends with the file half written.
THEOREM CatalogIsKept == Spec => ImplementsStoreCatalog
<1>1. Init => Contract!Init
  BY DEF Init, Contract!Init, Catalog, Made, Saving, Saved, IsPersistent, Empty, Live
<1>2. Init => StopOK
  BY DEF Init, StopOK
<1> QED BY <1>1, <1>2, StepSimulated, StopStays, Always, PTL DEF Spec, ImplementsStoreCatalog, Contract!Spec
=============================================================================
