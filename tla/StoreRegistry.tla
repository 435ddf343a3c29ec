---------------------------- MODULE StoreRegistry ----------------------------
(***************************************************************************)
(* KkServer: the dictionary of key-stores under a reader/writer lock, the  *)
(* file stores.json that lists the persistent ones, one database directory *)
(* per store name, the heartbeat that saves the file again, and the ways   *)
(* the process stops and starts.                                           *)
(*                                                                         *)
(* A store is its incarnation: what CreateStore makes, whatever objects    *)
(* stand for it after restarts. A directory is the set of incarnations     *)
(* whose values it holds. File.WriteAllText empties the file and then      *)
(* fills it: between the two steps stores.json is Torn. Each may throw: the *)
(* file stays as it was, or half written.                                  *)
(***************************************************************************)
EXTENDS Naturals, FiniteSets

CONSTANTS
  Handlers,       \* threads that answer client requests
  Heartbeat,      \* the heartbeat thread
  Stopper,        \* the thread that calls Stop
  Names, Incarnations,
  NoStore, NoName, NoDir, Torn,
  PersistencePaths, \* whether one is configured: what to check
  OpenMayFail,      \* RocksDb.Open may fail
  SaveMayFail,      \* File.WriteAllText may fail
  DeleteMayFail,    \* Directory.Delete may fail; DeleteStore swallows that
  MayCrash          \* the process may end at any moment

ASSUME ThreadsAssumption == Heartbeat # Stopper /\ {Heartbeat, Stopper} \cap Handlers = {}
ASSUME NullAssumption == NoStore \notin Incarnations /\ NoName \notin Names \cup Handlers
ASSUME FilesAssumption ==
  Torn \notin [Names -> Incarnations \cup {NoStore}] /\ \A d \in SUBSET Incarnations : NoDir # d
ASSUME FlagsAssumption == PersistencePaths \cup {OpenMayFail, SaveMayFail, DeleteMayFail, MayCrash} \subseteq BOOLEAN

VARIABLES
  path,     \* PersistencePath is configured
  process,  \* "running", "stopping" (Stop was called), "half" (Start threw, with
            \* _keepRunning set), "down", or "failed" (the file cannot be read)
  stores,   \* _keyStores: name to store
  scheme,   \* PersistenceScheme, "unborn" for an incarnation not yet made
  base,     \* _database of a store: "none", "open" or "disposed"
  meta,     \* stores.json: name to persistent store, or Torn
  dir,      \* the database directories
  writer,   \* the handler in _keyStores.Write, or NoName
  readers,  \* the threads that save stores.json in _keyStores.Read
  beat,     \* the heartbeat thread is about to save or saving
  snapshot, \* what it saves (storeMetas)
  pc, name, ref,  \* per handler: where it is, its store name, its KeyStore
  acked,    \* history: stores to which a caller has successfully written
  broken,   \* history: stores whose CreateStore or Start threw, or whose directory
            \* was deleted with values or an open database in it
  leftover, \* history: names whose directory a deletion has failed to remove
  stale     \* history: the last save of stores.json failed

lock == <<writer, readers>>
saver == <<beat, snapshot>>
caller == <<pc, name, ref>>
history == <<acked, broken, leftover, stale>>
vars == <<path, process, stores, scheme, base, meta, dir, lock, saver, caller, history>>

Empty == [n \in Names |-> NoStore]

Init ==
  /\ path \in PersistencePaths
  /\ process = "running"
  /\ stores = Empty
  /\ scheme = [o \in Incarnations |-> "unborn"]
  /\ base = [o \in Incarnations |-> "none"]
  /\ meta = Empty
  /\ dir = [n \in Names |-> NoDir]
  /\ writer = NoName
  /\ readers = {}
  /\ beat = FALSE
  /\ snapshot = Empty
  /\ pc = [h \in Handlers |-> "idle"]
  /\ name = [h \in Handlers |-> NoName]
  /\ ref = [h \in Handlers |-> NoStore]
  /\ acked = {}
  /\ broken = {}
  /\ leftover = {}
  /\ stale = FALSE

IsPersistent(o) == o # NoStore /\ scheme[o] = "persistent"
Held(d) == IF d = NoDir THEN {} ELSE d

\* Mutant: the database is always a new one.
CreatedAnew(d) == {}

\* RocksDb.Open(SetCreateIfMissing): what is in the directory, if it exists.
Opened(d) == IF d = NoDir THEN {} ELSE d

\* What CheckpointPersistentStores writes.
Saved == [n \in Names |-> IF IsPersistent(stores[n]) THEN stores[n] ELSE NoStore]

\* Mutant: Directory.Delete is not recursive; that it throws is swallowed.
NotRecursive(d) == IF d = {} THEN NoDir ELSE d

\* Directory.Delete(databasePath, true)
Removed(d) == NoDir

\* A KkServer object that callers can reach: also after Stop, which leaves the
\* web API running.
Live == process \in {"running", "stopping", "half"}

ReadGranted == writer = NoName

\* Mutant: a writer does not wait for the readers.
WriteOverReaders == writer = NoName

WriteGranted == writer = NoName /\ readers = {}

Finish(h) ==
  /\ pc' = [pc EXCEPT ![h] = "idle"]
  /\ name' = [name EXCEPT ![h] = NoName]
  /\ ref' = [ref EXCEPT ![h] = NoStore]
-----------------------------------------------------------------------------
\* CreateStore of a name that exists does nothing, and so do DeleteStore and
\* GetKeyStore of one that does not.

\* A new store is in the dictionary before anything can fail. Without a
\* PersistencePath, or if the file cannot be opened, CreateStore of a persistent
\* one throws and leaves it there.
CreateStore(h, n) ==
  /\ Live /\ pc[h] = "idle" /\ WriteGranted
  /\ stores[n] = NoStore
  /\ \E o \in Incarnations, s \in {"persistent", "ephemeral"} :
       /\ scheme[o] = "unborn"
       /\ scheme' = [scheme EXCEPT ![o] = s]
       /\ stores' = [stores EXCEPT ![n] = o]
       /\ \/ /\ s = "persistent" /\ path
             /\ meta' = Torn
             /\ writer' = h
             /\ pc' = [pc EXCEPT ![h] = "creating"]
             /\ name' = [name EXCEPT ![h] = n]
             /\ UNCHANGED <<broken, stale>>
          \/ /\ s = "persistent" /\ (path => SaveMayFail)
             /\ broken' = broken \cup {o}
             /\ stale' = path
             /\ UNCHANGED <<meta, writer, pc, name>>
          \/ s = "ephemeral" /\ UNCHANGED <<meta, writer, pc, name, broken, stale>>
  /\ UNCHANGED <<path, process, base, dir, readers, saver, ref, acked, leftover>>

CreateSaved(h) ==
  /\ pc[h] = "creating"
  /\ meta' = Saved
  /\ stale' = FALSE
  /\ pc' = [pc EXCEPT ![h] = "opening"]
  /\ UNCHANGED <<path, process, stores, scheme, base, dir, lock, saver, name, ref, acked, broken, leftover>>

\* WriteAllText throws out of CreateStore: the file stays half written, and the
\* store in the dictionary, without a database.
CreateSaveFails(h) ==
  /\ SaveMayFail
  /\ pc[h] = "creating"
  /\ stale' = TRUE
  /\ broken' = broken \cup {stores[name[h]]}
  /\ writer' = NoName
  /\ Finish(h)
  /\ UNCHANGED <<path, process, stores, scheme, base, meta, dir, readers, saver, acked, leftover>>

\* KeyStore.Start opens the database that is in the directory or a new one.
CreateOpen(h) ==
  LET n == name[h] IN
  /\ pc[h] = "opening"
  /\ base' = [base EXCEPT ![stores[n]] = "open"]
  /\ dir' = [dir EXCEPT ![n] = Opened(@)]
  /\ writer' = NoName
  /\ Finish(h)
  /\ UNCHANGED <<path, process, stores, scheme, meta, readers, saver, history>>

\* RocksDb.Open throws: the store stays in the dictionary, without a database.
\* (An empty directory that is left is taken for none.)
OpenFails(h) ==
  /\ OpenMayFail
  /\ pc[h] = "opening"
  /\ broken' = broken \cup {stores[name[h]]}
  /\ writer' = NoName
  /\ Finish(h)
  /\ UNCHANGED <<path, process, stores, scheme, base, meta, dir, readers, saver, acked, leftover, stale>>

Disposed(o) == IF base[o] = "open" THEN "disposed" ELSE base[o]

\* DeleteStore: the database is disposed and the store leaves the dictionary. If
\* Stop has disposed it already that throws (or ends the process: see Crash). If
\* the file cannot be opened that throws too: the file still lists the store, and
\* its directory stays.
DeleteStore(h, n) ==
  LET o == stores[n] IN
  /\ Live /\ pc[h] = "idle" /\ WriteGranted
  /\ o # NoStore /\ base[o] # "disposed"
  /\ base' = [base EXCEPT ![o] = Disposed(o)]
  /\ stores' = [stores EXCEPT ![n] = NoStore]
  /\ \/ /\ meta' = IF path THEN Torn ELSE meta
        /\ writer' = h
        /\ pc' = [pc EXCEPT ![h] = "deleting"]
        /\ name' = [name EXCEPT ![h] = n]
        /\ UNCHANGED <<leftover, stale>>
     \/ /\ SaveMayFail /\ path
        /\ leftover' = leftover \cup {n}
        /\ stale' = TRUE
        /\ UNCHANGED <<meta, writer, pc, name>>
  /\ UNCHANGED <<path, process, scheme, dir, readers, saver, ref, acked, broken>>

\* Checkpoint done, the lock is released.
DeleteSaved(h) ==
  /\ pc[h] = "deleting"
  /\ meta' = IF path THEN Saved ELSE meta
  /\ stale' = FALSE
  /\ writer' = NoName
  /\ pc' = [pc EXCEPT ![h] = "rmdir"]
  /\ UNCHANGED <<path, process, stores, scheme, base, dir, readers, saver, name, ref, acked, broken, leftover>>

\* WriteAllText throws out of DeleteStore: the directory stays.
DeleteSaveFails(h) ==
  /\ SaveMayFail /\ path
  /\ pc[h] = "deleting"
  /\ stale' = TRUE
  /\ leftover' = leftover \cup {name[h]}
  /\ writer' = NoName
  /\ Finish(h)
  /\ UNCHANGED <<path, process, stores, scheme, base, meta, dir, readers, saver, acked, broken>>

\* What is lost with a directory: the values in it, and a database opened in it.
Taken(n) == Held(dir[n]) \cup {o \in Incarnations : o = stores[n] /\ base[o] # "none"}

\* Directory.Delete, under no lock; its failure is swallowed, and may come after
\* part of the directory is gone.
DeleteDirectory(h) ==
  LET n == name[h] IN
  /\ pc[h] = "rmdir"
  /\ \/ /\ dir' = [dir EXCEPT ![n] = Removed(@)]
        /\ broken' = broken \cup Taken(n)
        /\ leftover' = leftover \ {n}
     \/ /\ DeleteMayFail
        /\ \/ UNCHANGED <<dir, broken>>
           \/ /\ dir[n] # NoDir
              /\ \E d \in SUBSET dir[n] : dir' = [dir EXCEPT ![n] = d]
              /\ broken' = broken \cup Taken(n)
        /\ leftover' = leftover \cup {n}
  /\ Finish(h)
  /\ UNCHANGED <<path, process, stores, scheme, base, meta, lock, saver, acked, stale>>

\* GetKeyStore: the reference is used after the read lock is released.
GetKeyStore(h, n) ==
  /\ Live /\ pc[h] = "idle" /\ ReadGranted
  /\ stores[n] # NoStore
  /\ pc' = [pc EXCEPT ![h] = "using"]
  /\ name' = [name EXCEPT ![h] = n]
  /\ ref' = [ref EXCEPT ![h] = stores[n]]
  /\ UNCHANGED <<path, process, stores, scheme, base, meta, dir, lock, saver, history>>

\* A value is written to it. A store without a database takes it into its
\* cache; a directory deleted under an open database loses it; a disposed
\* database throws (if it does not end the process: see Crash).
Write(h) ==
  LET o == ref[h] IN
  /\ pc[h] = "using"
  /\ acked' = IF base[o] = "disposed" THEN acked ELSE acked \cup {o}
  /\ dir' = IF base[o] = "open" /\ dir[name[h]] # NoDir
            THEN [dir EXCEPT ![name[h]] = @ \cup {o}] ELSE dir
  /\ Finish(h)
  /\ UNCHANGED <<path, process, stores, scheme, base, meta, lock, saver, broken, leftover, stale>>
-----------------------------------------------------------------------------
\* The heartbeat thread saw _keepRunning and half a minute pass.
HeartbeatDue ==
  /\ process = "running" /\ path /\ ~beat
  /\ beat' = TRUE
  /\ UNCHANGED <<path, process, stores, scheme, base, meta, dir, lock, snapshot, caller, history>>

\* It saves stores.json under the read lock.
HeartbeatSave ==
  /\ beat /\ ReadGranted /\ readers = {}
  /\ readers' = {Heartbeat}
  /\ snapshot' = Saved
  /\ meta' = Torn
  /\ UNCHANGED <<path, process, stores, scheme, base, dir, writer, beat, caller, history>>

HeartbeatSaved ==
  /\ Heartbeat \in readers
  /\ readers' = readers \ {Heartbeat}
  /\ meta' = snapshot
  /\ stale' = FALSE
  /\ beat' = FALSE
  /\ snapshot' = Empty
  /\ UNCHANGED <<path, process, stores, scheme, base, dir, writer, caller, acked, broken, leftover>>

\* Stop disposes every database under the read lock and then saves. If the
\* heartbeat has the file open, or it cannot be opened, WriteAllText throws out
\* of Stop.
Stop ==
  /\ process = "running" /\ ReadGranted
  /\ base' = [o \in Incarnations |-> Disposed(o)]
  /\ process' = "stopping"
  /\ \/ /\ path /\ Heartbeat \notin readers
        /\ meta' = Torn
        /\ readers' = readers \cup {Stopper}
        /\ UNCHANGED stale
     \/ (~path \/ Heartbeat \in readers) /\ UNCHANGED <<meta, readers, stale>>
     \/ SaveMayFail /\ path /\ stale' = TRUE /\ UNCHANGED <<meta, readers>>
  /\ UNCHANGED <<path, stores, scheme, dir, writer, saver, caller, acked, broken, leftover>>

StopSaved ==
  /\ Stopper \in readers
  /\ meta' = Saved
  /\ stale' = FALSE
  /\ readers' = readers \ {Stopper}
  /\ UNCHANGED <<path, process, stores, scheme, base, dir, writer, saver, caller, acked, broken, leftover>>

StopSaveFails ==
  /\ SaveMayFail
  /\ Stopper \in readers
  /\ stale' = TRUE
  /\ readers' = readers \ {Stopper}
  /\ UNCHANGED <<path, process, stores, scheme, base, meta, dir, writer, saver, caller, acked, broken, leftover>>

\* What is left of the process when it ends.
Gone ==
  /\ process' = "down"
  /\ stores' = Empty
  /\ base' = [o \in Incarnations |-> "none"]
  /\ writer' = NoName
  /\ readers' = {}
  /\ beat' = FALSE
  /\ snapshot' = Empty
  /\ pc' = [h \in Handlers |-> "idle"]
  /\ name' = [h \in Handlers |-> NoName]
  /\ ref' = [h \in Handlers |-> NoStore]
  /\ acked' = {o \in acked : IsPersistent(o)}
  /\ leftover' = leftover \cup {name[h] : h \in {g \in Handlers : pc[g] = "rmdir"}}
  /\ stale' = FALSE
  /\ UNCHANGED <<path, scheme, meta, dir, broken>>

\* The heartbeat's save throws, because Stop has the file open for writing or for
\* another reason: nothing catches the exception, and the process ends.
HeartbeatDies ==
  /\ beat
  /\ \/ readers = {Stopper}
     \/ SaveMayFail /\ ReadGranted
  /\ Gone

\* The stopped process ends once the foreground threads have.
Exit ==
  /\ process \in {"stopping", "half"} /\ readers = {}
  /\ \A h \in Handlers : pc[h] = "idle"
  /\ Gone

Crash ==
  /\ MayCrash
  /\ Live
  /\ Gone

\* Mutant: a store without a directory is not started.
StartedIfDirectory(n) == meta[n] # NoStore /\ dir[n] # NoDir

Started(n) == meta[n] # NoStore

\* Start, of a new process or of a KkServer that was stopped, has the dictionary.
\* (That the file is read before the lock is asked for is left out.)
MayLoad == process \in {"down", "stopping"} /\ meta # Torn /\ WriteGranted

\* Stores that the file lists go into the dictionary, and some get a database. A
\* request that still has the disposed object of one has thrown by then.
Load(names, opened) ==
  /\ \A h \in Handlers, n \in names : pc[h] = "using" => ref[h] # meta[n]
  /\ stores' = [n \in Names |-> IF n \in names THEN meta[n] ELSE stores[n]]
  /\ base' = [o \in Incarnations |->
       IF \E n \in opened : meta[n] = o THEN "open"
       ELSE IF \E n \in names : meta[n] = o THEN "none" ELSE base[o]]
  /\ dir' = [n \in Names |-> IF n \in opened THEN Opened(dir[n]) ELSE dir[n]]

\* Every store that the file lists is new in the dictionary and gets its database.
Start ==
  /\ MayLoad
  /\ \A n \in Names : meta[n] # NoStore => stores[n] = NoStore
  /\ Load({n \in Names : meta[n] # NoStore}, {n \in Names : Started(n)})
  /\ process' = "running"
  /\ UNCHANGED <<path, scheme, meta, lock, saver, caller, history>>

\* RocksDb.Open throws, or after it RmServer.Start: the dictionary is filled, some
\* of the databases are open, and there is no heartbeat.
StartThrows ==
  /\ OpenMayFail
  /\ MayLoad
  /\ \A n \in Names : meta[n] # NoStore => stores[n] = NoStore
  /\ \E opened \in SUBSET {n \in Names : meta[n] # NoStore} :
       /\ Load({n \in Names : meta[n] # NoStore}, opened)
       /\ broken' = broken \cup {o \in Incarnations : \E n \in Names \ opened : meta[n] = o}
  /\ process' = "half"
  /\ UNCHANGED <<path, scheme, meta, lock, saver, caller, acked, leftover, stale>>

\* After Stop a store that the file lists is still in the dictionary: mqd.Add
\* throws, after stores that a failed save has left in the file alone.
StartAgainThrows ==
  /\ process = "stopping" /\ MayLoad
  /\ \E n \in Names : meta[n] # NoStore /\ stores[n] # NoStore
  /\ \E added \in SUBSET {n \in Names : meta[n] # NoStore /\ stores[n] = NoStore} :
       /\ Load(added, {})
       /\ broken' = broken \cup {o \in Incarnations : \E n \in added : meta[n] = o}
  /\ process' = "half"
  /\ UNCHANGED <<path, scheme, meta, lock, saver, caller, acked, leftover, stale>>

\* JsonSerializer throws on half a file, at every attempt to start.
StartFails ==
  /\ process \in {"down", "stopping"} /\ meta = Torn /\ Stopper \notin readers
  /\ process' = IF process = "down" THEN "failed" ELSE "half"
  /\ UNCHANGED <<path, stores, scheme, base, meta, dir, lock, saver, caller, history>>

Next ==
  \/ \E h \in Handlers :
       \/ \E n \in Names : CreateStore(h, n) \/ DeleteStore(h, n) \/ GetKeyStore(h, n)
       \/ CreateSaved(h) \/ CreateSaveFails(h) \/ CreateOpen(h) \/ OpenFails(h)
       \/ DeleteSaved(h) \/ DeleteSaveFails(h) \/ DeleteDirectory(h) \/ Write(h)
  \/ HeartbeatDue \/ HeartbeatSave \/ HeartbeatSaved \/ HeartbeatDies
  \/ Stop \/ StopSaved \/ StopSaveFails \/ Exit \/ Crash
  \/ Start \/ StartThrows \/ StartAgainThrows \/ StartFails

Spec == Init /\ [][Next]_vars
-----------------------------------------------------------------------------
\* The types, and what the reader/writer lock excludes.
TypeOK ==
  /\ path \in BOOLEAN
  /\ process \in {"down", "running", "stopping", "half", "failed"}
  /\ stores \in [Names -> Incarnations \cup {NoStore}]
  /\ scheme \in [Incarnations -> {"unborn", "persistent", "ephemeral"}]
  /\ base \in [Incarnations -> {"none", "open", "disposed"}]
  /\ meta \in [Names -> Incarnations \cup {NoStore}] \cup {Torn}
  /\ dir \in [Names -> (SUBSET Incarnations) \cup {NoDir}]
  /\ writer \in Handlers \cup {NoName}
  /\ readers \subseteq {Heartbeat, Stopper}
  /\ beat \in BOOLEAN
  /\ snapshot \in [Names -> Incarnations \cup {NoStore}]
  /\ pc \in [Handlers -> {"idle", "creating", "opening", "deleting", "rmdir", "using"}]
  /\ name \in [Handlers -> Names \cup {NoName}]
  /\ ref \in [Handlers -> Incarnations \cup {NoStore}]
  /\ acked \subseteq Incarnations /\ broken \subseteq Incarnations /\ leftover \subseteq Names
  /\ stale \in BOOLEAN
  /\ writer # NoName => readers = {} /\ pc[writer] \in {"creating", "opening", "deleting"}

\* Whenever nobody is saving it and the last save did not fail, stores.json lists
\* exactly the persistent stores of the dictionary: no save puts back what a later
\* one removed, any save makes up for one of another thread that failed, and if the
\* heartbeat keeps Stop from saving, what it saves itself is right.
FileIsCurrent ==
  Live /\ path /\ writer = NoName /\ readers = {} /\ ~stale => meta = Saved

\* Every persistent store that a request can find has its database open,
\* however often the process crashed or was started again, unless its CreateStore
\* or a Start threw, or a late deletion took its directory.
FoundIsOpen ==
  process = "running" /\ writer = NoName =>
    \A n \in Names : IsPersistent(stores[n]) /\ stores[n] \notin broken => base[stores[n]] = "open"

\* "Creates a new empty key-store": the database that CreateStore opens holds
\* old values only if a deletion has failed (in its save, or in the removal of the
\* directory), died before it was through, or is still to remove them.
CreatedEmpty ==
  \A h \in Handlers : pc[h] = "opening" =>
    \/ Held(dir[name[h]]) = {}
    \/ name[h] \in leftover
    \/ \E g \in Handlers : pc[g] = "rmdir" /\ name[g] = name[h]

\* A value written to a persistent store that exists is in its directory, over
\* crashes and restarts, also of a store that is there again because the save of
\* its deletion failed, unless CreateStore or Start threw before it had a database
\* or a late DeleteStore removed from the directory.
AckedIsStoredUnlessBroken ==
  \A n \in Names : IsPersistent(stores[n]) /\ stores[n] \in acked \ broken
    => stores[n] \in Held(dir[n])

\* The persistent stores: those of the dictionary, and those that the file lists
\* once the process has ended. Without a PersistencePath there are none.
Catalog == IF ~path THEN Empty ELSE IF Live THEN Saved ELSE meta
Made == {o \in Incarnations : scheme[o] # "unborn"}
Saving == path /\ (readers # {} \/ \E h \in Handlers : pc[h] \in {"creating", "deleting"})
Contract == INSTANCE StoreCatalog WITH
  catalog <- Catalog, stored <- meta, made <- Made, writing <- Saving, Lost <- Torn

\* CreateStore and DeleteStore are the only ones to change which stores there are
\* while the process lives, and a process begins with what the last save that did
\* not fail has written. Whatever the heartbeat, Stop, crashes and starts do with
\* the file beside them, a deletion is undone and a store vanishes only if a save
\* failed, or if all stores vanish with a file half written.
ImplementsStoreCatalog == Contract!Spec

\* "Key-values are stored on disk and survive service restarts": what was
\* written to a persistent store that still exists is in its directory.
AckedIsStored ==
  \A n \in Names : IsPersistent(stores[n]) /\ stores[n] \in acked /\ writer = NoName
    => stores[n] \in Held(dir[n])
=============================================================================
