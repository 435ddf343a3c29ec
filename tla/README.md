# KitKey: specifications, model checking and proofs

TLA+ models of KitKey, a key-value store server (`NTDLS.KitKey.Server`), its
client library (`NTDLS.KitKey.Client`) and the service that hosts it
(`KitKey.Service`). The models are translated from the source; `PROJECT.json`
names, for each definition, the lines it stands for.

## 1. The system

| part | state | operations |
|---|---|---|
| `AtomicKeyOperation` | `_locks`: key to reference-counted monitor | `Execute(key, function)` |
| `KeyStore`, lists | `_memoryCache`, `_database` (RocksDB) | `PushFirst/Last` (value, item), `DeleteListItemByKey`, `GetList/First/Last`, `DeleteKey`, `StorePurge`, `FlushCache`, expiry |
| `KeyStore`, single values | the same | `SetSingleValue`, `GetSingleValue`, `DeleteKey`, `StorePurge`, `FlushCache`, expiry |
| `KkServer` | `_keyStores` (dictionary under a reader/writer lock), `stores.json`, one database directory per persistent store, `_keepRunning` | `CreateStore`, `DeleteStore`, `GetKeyStore`, `CheckpointPersistentStores`, `HeartbeatThread`, `Start`, `Stop` |
| query handlers | none | one method per query: try, call the server, reply |
| `KkClient` | `_explicitDisconnect`, `_lastReconnect*`, the `RmClient` connection | `Connect`, `ConnectAsync`, `Disconnect`, event handlers, one method per query |
| `KitKey.Service` | `Configs._cache` and `accounts.json`, `service.json` | Razor pages, web API, API-key middleware |

How they interact. An application calls a method of `KkClient`; it sends a query
through `RmClient` (an external library); a thread of the server runs the query's
handler, which calls `KkServer`; that looks the store up under the read lock,
gives the lock up, and calls `KeyStore`. List operations run inside
`AtomicKeyOperation.Execute`; `SetSingleValue`, `DeleteKey` and `StorePurge` do
not. The heartbeat thread and `Stop` save `stores.json` beside all that. The web
pages and the web API call `KkServer` directly.

What is hard, and what makes each part correct:

* **AtomicKeyOperation**: a monitor is created and removed while other threads
  ask for it; `function()` may throw, and there is no `finally`. Correct when
  there is never more than one thread per key and somebody always gets on.
* **Lists**: a read-modify-write over two places, editing the cached object in
  place; entries expire, the process ends at any step, and removals take no lock.
  Correct when each operation is atomic and nothing is lost, doubled or comes back.
* **Single values**: two writes to two places under no lock. Correct when a read
  returns no replaced value and cache and database do not stay apart.
* **Registry**: dictionary, file and directories change one after the other, by
  several threads, with crashes in between. Correct when the file lists what the
  dictionary has, every store found is open, a new store is empty, and
  acknowledged values survive.
* **Client connection**: flags shared by threads that neither lock nor wait for
  each other. Correct when a lost connection comes back and a `Disconnect` sticks.
* **List calls**: sixteen hand-written routes from client method to `KeyStore`.
  Correct when each does what its documentation says.
* **Service accounts**: every page gets the one cached `List<Account>` by
  reference, edits it under no lock, and writes all of it to `accounts.json`; an
  account's API keys are a list object that a saved account takes over. Correct
  when a request that shares its account with no other does what it says,
  other accounts stay, and the file ends up with what the cache has.

`PROJECT.json` lists the hazards line by line, with the properties for each.

## 2. Modules

| module | models | state and actions |
|---|---|---|
| `KeyMutex` | what `Execute` promises | `owner[k]`; `Acquire`, `Release` |
| `AtomicKeyOperation` | the class | `locks` = `_locks`, `count` = `_count`, `ref` = the local `referenceCounter`; `Enter`, `Leave` = the two `lock(_locks)` blocks; `Acquire`, `Return`, `Throw` = the monitor around `function()` |
| `Sublists` | `RemoveAll` and `Where` of .NET's lists | pure operators, of `ListEdits` and `AccountStore` |
| `ListEdits` | what list operations do to a list and return | pure operators, shared by `ListSpec`, `ListStore` and `ClientListApi` |
| `ListSpec` | what a store promises for lists | `lists`, `calls`; `Invoke`, `Apply`, `Return`, `Crash` |
| `ListStore` | `KeyStore` with lists | `cache`, `db`, `list` = the local variable; one action per access to shared state. Uses `KeyMutex` in the place of `AtomicKeyOperation` |
| `SingleValueStore` | `KeyStore` with single values | `cache`, `db`; `WriteCache` then `WriteDatabase`; `GetHit`, or `GetMiss` then `GetFromDatabase` |
| `StoreCatalog` | what `KkServer` promises of its persistent stores | `catalog`, `stored` = its copy in the file, `made`, `writing`; `Create`, `Delete`, `Write`, `Written`, `WriteFails`, `Restart`, `StartAgain` |
| `StoreRegistry` | `KkServer` and the process around it | `stores` = `_keyStores`, `meta` = `stores.json`, `dir` = the directories, `base` = each store's `_database`, `writer`/`readers` = the lock, `path` = whether there is a `PersistencePath`, `process` = `_keepRunning` and what became of `Start`; a save is two steps, either of which may throw (`CreateSaveFails`, `DeleteSaveFails`, `StopSaveFails`, `HeartbeatDies`) |
| `AccountStore` | `Configs` for accounts, and the pages Login, Account, CreateAccount, DeleteAccount and those for API keys | `cached` = the entry of `_cache`, `lists` and `keyLists` = the `List<T>` objects, `file` = `accounts.json`; one action per call on a list, on the cache or on the file; `Walks` = what a look sees of a list that another request edits |
| `ClientConnection` | `KkClient`'s connection | `explicit` = `_explicitDisconnect`, `connected` = `IsConnected`, `pc` = the threads; the events are queued in `raised` |
| `ClientListApi` | client method, query, handler, server method | `list`, `answer` = value and `bool` returned, and `believed`: what the documentation makes of the calls; `Update`, `Read`, `Fails` |
| `*Proofs` | the module before `Proofs` | inductive invariants, lemmas, theorems; `SublistsProofs` only lemmas on lists |
| `MC*` | | symmetry sets, the views of `MCAccountStore` and `MCStoreRegistry`, and assumptions that check `Without` and `Picked` against `SelectSeq` |

Composition: `AtomicKeyOperation` implements `KeyMutex` (proved); `ListStore`
runs on `KeyMutex` and implements `ListSpec` (proved; checked for stores with a database);
`StoreRegistry` implements `StoreCatalog` (proved).
`ClientListApi` uses the operators of `ListEdits`, which `ListStore` implements
under concurrency.

Atomicity. An action is what runs between two points where another thread can
see or change shared state. The blocks under `lock(_locks)` are one action each.
In `ListStore` the lock, `TryGet` and the in-place edit are one action: the
`Insert`, `Add` or `RemoveAll` is to a list no other operation may touch before
the lock is given up, and the cache entry itself is looked at once. RocksDB's
`Get`, `Put` and `Remove` and a cache call are atomic; the removal of all keys
by a purge runs under the database's write lock and is one action. In
`StoreRegistry` and `AccountStore` writing a file is two steps, with the file
`Torn` in between; either step may throw. In `AccountStore` each look at a list and
each edit is one action. Two edits of one `List<T>` that really coincide are the
action `Collide`, which loses one of them or leaves a hole. A look that runs beside
an edit of another request throws or, if that is a `RemoveAll`, sees any mixture of
old and moved entries (`Shifting`): an account may be missing from it, or be there
twice.

Code that is not in the repository is modelled from its use: `RmClient` raises
`OnConnected` on the connecting thread and `OnDisconnected` on another one;
`OptimisticCriticalResource` is a reader/writer lock; `PartitionedMemoryCache`
loses entries by time; RocksDB keeps what was Put when the process ends. A second
writer finds a file that `WriteAllText` has open closed to it and throws, as .NET
does; `AccountStore` also has the outcome of systems where two may write at once.

## 3. Runs

Passing runs:

| cfg | question | bounds |
|---|---|---|
| `MCAtomicKeyOperation` | is the table one mutex per key, with exact counts, and does a waiting key get on? | 3 threads, 2 keys, 4 counters, 1 throw per counter: two threads meet on a key while a third makes and removes entries, and a leaked counter is left over |
| `MCListStore` | are the operations atomic, with expiry and crashes? | 3 threads, 1 key, 2 items, one of them pushed twice under its own Id: a push, a delete and a read in any order |
| `MCListStoreFailures` | what holds beside `DeleteKey` and `StorePurge`, and when a `Put` throws? | 2 threads, 1 key, 2 items |
| `MCSingleValueStore` | are reads regular, do cache and database agree again? | 3 threads, 1 key, 2 sets and 2 removals, each once |
| `MCStoreRegistry` | do file, dictionary, directories and databases fit together, with and without a `PersistencePath`, over crashes, failing saves, opens and deletions, new processes and a second `Start` of one object? | 2 handlers, 2 names, 3 stores ever made: a name is used again while the other name changes the file too; 868,788 states, 1.5 minutes |
| `MCAccountStore` | does a request do what it says beside another one, and does the file follow? | 2 requests at a time, 2 edits in all and any number of looks, 2 accounts, 2 API keys, 1 password, 3 list objects, up to 2 accounts in the file before; 1,146,981 states, 2 minutes |
| `ClientConnection` | does a settled `Disconnect` stick, does a lost connection come back? | 1 application thread, 1 `ConnectAsync` thread, 3 reconnecting threads, 2 losses |

One key is enough for the stores: every step of an operation touches its own key
only, except a purge or flush, which treats all alike. Three threads allow two
operations to interfere while a third observes. In `MCAccountStore` two
overlapping edits show every interference of two requests; what a later request
makes of the state they leave is seen through the accounts the file may start
with. Its view drops the contents of list objects nobody refers to: they are
filled before they are read again. The view of `MCStoreRegistry` drops what was known
of stores that no file, dictionary or request refers to any more, but not whether a
directory still has values of one. `Memory` asks for a free list object; were
there none, TLC would stop at the `CHOOSE` of one, so the run also shows that the
sets of objects are large enough.

Bounds in the models: `MaxLeaks` (throws per counter), `MaxUses` (how often a
caller's Id is pushed), `MaxDrops` (losses and server stops), `MaxRaised` (events
left unhandled when `Disconnect` is called), `MaxLength` (list length), `MaxEdits`
(requests that edit accounts), and the finite sets `Counters`, `Items`, `Values`,
`Removals`, `Incarnations`, `ListRefs`, `KeyRefs`.
`broken`, `acked`, `leftover`, `stale`, `wish`, `believed`, `settled`, `before`, `used`, `uses`,
`deleted`, `leaks`, `drops`, `made`, `edits`, `sole`, `contested` and `clean` are
history variables: no guard of a code step reads them, except that bounds use the
counters, that new ids (`Guid.NewGuid()`) and names of writes are those not in
`made`, `used` or `uses`, and that a page is posted for an id in `made`.

`CHECK_DEADLOCK FALSE` is set for `StoreRegistry` only: with every store name
used up and the process in `failed`, nothing more happens.

Runs that show a disagreement between the code and what it says of itself:

| cfg | property | what happens |
|---|---|---|
| `MCListStorePurge` | `RemovedStaysRemoved` | a push that loaded its list before `StorePurge` or `DeleteKey` puts the whole list back |
| `MCSingleValueStoreRestart` | `SurvivesRestart` | two sets cross: cache and database keep different values, a restart shows it |
| `MCStoreRegistryLoss` | `AckedIsStored` | `DeleteStore`, which removes the directory under no lock, removes that of the store created since under the same name, with its acknowledged values |
| `ClientConnectionRace` | `StaysDisconnected` | a reconnecting thread that looked at the flag before `Disconnect` connects after it (1 reconnecting thread, no `ConnectAsync` thread, 1 loss) |
| `ClientListApiItems` | `ReadsAsDocumented` | `PushLast` and `PushFirst` of items are exchanged |

The models have more such behaviour, described here and not run on its own:

* `CreateStore` of a name whose directory is still to be deleted opens the old
  values (`StoreRegistry`: `DeleteSaved`, `CreateOpen`, before `DeleteDirectory`).
* Without a `PersistencePath`, `CreateStore` of a persistent store throws and
  leaves it in the dictionary, usable and on no disk (`CreateStore` with `path` false).
* A request that has got its store finds the database disposed by `DeleteStore`
  or `Stop` (`GetKeyStore`, `DeleteStore`, `Write`).
* The heartbeat and `Stop` both save under a read lock. The second to open
  `stores.json` throws, in the heartbeat thread unhandled: the process ends with
  the file half written and no later `Start` can read it (`HeartbeatDies`,
  `StartFails`). The other way round `Stop` throws (`Stop`).
* A save that fails in `DeleteStore` leaves the store in the file, with its
  directory: after a restart it is there again. In `CreateStore` it leaves the store
  in the dictionary only, without a database: after a restart it is gone. The next
  save of any thread makes up for it (`DeleteSaveFails`, `CreateSaveFails`, `stale`).
  The first `CreateStore` of all fails so if the `PersistencePath` does not exist:
  only `KeyStore.Start`, which comes later, makes it.
* `Start` that cannot open one of the databases throws with the dictionary filled,
  `_keepRunning` set and no heartbeat, and a second `Start` does nothing
  (`StartThrows`; `process = "half"`).
* `Start` after `Stop` on one `KkServer` adds its stores to the dictionary again
  and throws, with `_keepRunning` set and every database disposed
  (`StartAgainThrows`), or throws on half a file (`StartFails`).
* A `Directory.Delete` that fails may have removed a part (`DeleteDirectory`).
* `KkClient(configuration)` registers no handlers (`Registered = FALSE`), so it
  never reconnects, whatever `AutoReconnect` says.
* `ConnectAsync` after a `Disconnect` ends at its loop condition (`CheckConnector`).
* `TryGetLast` returns the first item (`KkClient.cs:375`), and the `Try` methods for
  lists always return true, also for a key that is not there: `?? new()` leaves no null
  (`KkClient.cs:337`, `:354`, `:371`; `QueryOf`, `OrBlank`, `Read`).
* An item pushed with the caller's `Id` may be in a list twice, although the `Id` is
  documented as generated by the server (`ClientIds`).
* An item whose push failed at the `Put` stays in the cached list; readers see it,
  and the next successful push stores it (`PutFails`).
* A removal between the `Put` and the `Upsert` of a list operation leaves a cached list
  and none in the database (`CacheAgrees` exempts that, where there are removals).
* In a store without a database, a list that expires between an operation's
  `TryGet` and its `Upsert` comes back with the `Upsert`.
* Of two saves of one account, one may find the account removed by the other's
  `RemoveAll`: it saves it with no API keys (`?? new()`), and then there may be two
  of it, on which `Single()` throws from then on (`ReadKeys`, `FindKeys`).
* `FirstOrDefault` beside a `RemoveAll` for another account may miss its own account,
  although it is in the list all the time: the save then stores it without its old
  password hash or with no API keys (`ReadHash`, `ReadKeys`, `Walks`). The model
  counts such an account as contested (`Looked`).
* With an empty cache several requests read a list of their own; edits of all but
  the one cached last are out of sight (`ReadFile`, `FillCache`). Two logins
  without a file each make a default account (`LoginCreates`).
* Two writes of `accounts.json` may cross: the file has the older text until the
  next save (`Serialize`, `WriteFile`). A write that fails, or a crash in it,
  leaves half a file, and `GetAccounts` throws from then on (`Throw`, `Restart`).
* `CreateAccount` checks the password and stores none (`AddAccount`).
* Coinciding calls on one `List<T>` lose an edit or leave a hole (`Collide`). On a
  list with a hole `Add` goes on and looks and `RemoveAll` throw (`Added`, `Sound`).

## 4. Fairness

Only what the scheduler and the code promise. `AtomicKeyOperation`: a thread
that can go on does (weak fairness per step); a free monitor is granted to some
waiting thread, and no order among them is assumed, so `KeyProgress` says that
some thread gets in, not every one. `ListStore`: a thread inside `Execute` goes on;
nothing is assumed of callers, expiry or crashes. `ClientConnection`: threads
run, a raised event is handled, and a server that stopped is started again;
after `MaxDrops` it stays up, which is the condition under which a client can be
expected to reconnect at all.

## 5. Proofs

`AtomicKeyOperationProofs` proves for all finite sets of threads and any keys
and counters that the class keeps `TypeOK`, `MutualExclusion`,
`OneCounterPerKey`, `RefCountExact` and `EntriesReclaimed`, and that it
implements `KeyMutex`. None of them is inductive: that the last user removes the
entry safely needs the exact count (a counter with a user and a count of 1 has no
other), the count needs that a counter serves one key, and that needs that
threads in between use the table's counter. The inductive invariant `IInv` is
their conjunction with `CountersNotShared` (no two keys have one counter); mutual
exclusion and the refinement follow from it. The assumptions are the named ones
of the module: a finite set of threads and null values outside the sets.

`ListStoreProofs` proves for every set of threads, keys and items:

| theorem | states | for stores and runs with |
| --- | --- | --- |
| `TypeCorrect` | `TypeOK` | any |
| `NothingLost` | `NoLostItem` | a database; removals, failing Puts, crashes, expiry included |
| `CacheIsCoherent` | `CacheAgrees` | no failing Put; with removals the database may also have no list |
| `ListsAreAtomic` | `ImplementsListSpec` | a database, no failing Put, no removals |
| `NothingComesBack` | `NoGhostItem` | the same |
| `NothingLostInMemory` | `NoLostItem` | no database, no expiry; removals included |
| `ListsAreAtomicInMemory` | `ImplementsListSpec` | no database, no expiry, no removals |
| `NothingComesBackInMemory` | `NoGhostItem` | the same |
| `NoPushTwice` | `PushedOnce` | any, with finitely many threads |

The conditions are hypotheses on the model's flags (`Persistent`, `Destructive`,
`MayFail`, `CacheLoss`, `MayCrash`), and each is needed: a Put that throws leaves
the cached list ahead of the database, a removal takes no lock, and without a
database what expires is lost. The common invariant `Inv` adds to the
types what a thread inside `Execute` executes; `HeldOK` says that while a thread
has a list of its own the cache has no other one. On top of them, `NothingLost`
needs that the cached lists and the lists on their way to the database cover the
stored one up to deleted items (`CoversOK`): `NoLostItem` speaks of a single
`Put`, and what that `Put` writes was decided when the list was found.
`CacheIsCoherent` needs that cache and database differ only between a thread's
edit and the end of its Upsert (`ApartOK`, `StoredOK`); without removals it is proved
with no exemption, from the invariant of the refinement (`CoherentInv`). The refinement needs that
the list at the Put is the operation applied to the stored list of that moment,
not only of the moment it was read (`CarriedOK`). Without a database an operation
takes effect at the edit of the cached list, or at the Upsert of a new one, which
is then the operation applied to no list (`FreshOK`). `NoPushTwice` counts places:
every copy of a list, in the cache, the database or a thread, leaves room for the
pushes that are called and not yet applied to it (`RoomOK`), so that the one
that is applied next still fits under the number of times the item was pushed.

`SublistsProofs` holds the lemmas on lists that these proofs and those about
accounts cite. The models write `RemoveAll` and `Where` with the rank of each picked
place (`Picked`) instead of `SelectSeq`, which is recursive. The lemmas say that the
result is a list of entries of the old one, each in a place of its own and in their
order, what becomes of it when the list gets longer, and that two filters one after
the other are one; `MCListStore` and `MCAccountStore` check on all short lists that
it is what `SelectSeq` selects.

`SingleValueStoreProofs` proves `TypeOK`, `SoleWriteAgrees` and `RegularReads` for
any threads, keys, values and removals, failing Puts included. The invariant says
what the values are of: what the cache has (`CacheOK`), and what the database has
(`DatabaseOK`), is of a write under way or of one that has not been replaced since
it ended; and once a write has been to either place, what is there is not of a
write that had ended before it began. `NamesOK` keeps the writes apart.

`ClientConnectionProofs` proves `TypeOK` and `DisconnectSticks` for any number of
threads, losses and events, with or without handlers and `AutoReconnect`. The
invariant adds to the types that events come only from losses and from `Disconnect`
(`RaisedOK`) and that only the application is in `Disconnect` (`CallsOK`); on it
rests that no step of a reconnecting thread, a `ConnectAsync` loop or a left-over
event leads out of the settled state.

`StoreRegistryProofs` proves `TypeOK`, `FileIsCurrent`, `FoundIsOpen`, `CreatedEmpty`
and `AckedIsStoredUnlessBroken` for any handlers, names and stores, over all
crashes and starts. One invariant carries all of them, a part per relation: the
lock and what its holders know (`LockOK`), references are to stores that were made
and have one name (`BornOK`, `NameOK`), an ended process has nothing (`DeadOK`), the
file against the dictionary (`MetaOK`), no path (`PathOK`), a store under creation
is nobody else's (`CreatingOK`), databases against dictionary and directories
(`BaseOK`), acknowledged values (`AckedOK`) and what a directory may hold (`CleanOK`).
The properties depend on each other: that a write goes into the directory needs
the open database to be that of the store of this name, which after a restart
needs the file to have been current.

From the same invariant, with `StopOK` (no second `Stop` saves beside the first), it
proves that `StoreRegistry` implements `StoreCatalog` (`CatalogIsKept`). The catalog is
what the dictionary has of persistent stores while a server object can be reached,
and what `stores.json` has once the process has ended; without a `PersistencePath` it
is empty. `CreateStore` and `DeleteStore` take effect on it where they change the
dictionary. Saves leave it alone, and so do starts and the end of the process, because
the file is current whenever it is not half written and the last save has not thrown
(`stale`). The catalog has the file as `stored`: a process that ends leaves that
(`Restart`), which is the catalog, or nothing, half written, as `StartFails` finds it, or
what a failed save has left behind. A second `Start` may add what such a save left in
the file (`StartAgain`).

`ClientListApiProofs` proves, over any number of calls and lists of any length, that
with every list call but `PushFirstItem`, `PushLastItem` and `TryGetLast` the lists and
the values read are as documented (`ValuesRead`: `ValuesAsDocumented`), and that without
the other `Try` methods, whose `bool` is wrong for a key that is not there, all that is
returned is (`DoesAsDocumented`: `ReadsAsDocumented`). The run `ClientListApiItems` shows
what the item pushes do instead.

`AccountStoreProofs` proves for any requests, accounts, keys and list objects, over
restarts, failing writes and edits that coincide:

| theorem | states | inductive invariant |
| --- | --- | --- |
| `FileKeepsUp` | `FileFollowsCache` | `Inv` |
| `TypeCorrect` | `TypeOK` | `EffectInv` |
| `OthersUntouched` | `UncontestedUntouched` | `EffectInv` |
| `SoloEffect` | `SoloRequestsTakeEffect` | `SoloInv` |

`Inv` needs no types of what the lists hold, only who may change which object: a
request with no other edit beside it is alone with the cached list (`AloneOK`), so
what it serialized is what the cache still has when it writes (`WrittenOK`), and
what is read back from a saved file is what was saved (`SavedOK`, `FileOK`).

`EffectInv` adds what the lists, the file and the locals hold (`Typed`) and what a
request has at which step (`StageOK`). Its heart is `SharingOK`, without which an edit
of one account's keys could be an edit of another's: in the lists that are in use an
object with API keys belongs to one id in one list, and a request that has such an
object has that of its own account. That survives a save, which puts the keys of the
old account into the new one, because it looks for them under its own id and because
new objects are nobody's. Before anything is cached, requests have changed nothing,
except that a login may have made the default account, which it has to itself
(`UncachedOK`, `LoginOK`). `MadeOK`, that every id in use was made before, says that
a new account's id is nobody's: `SoloInv` needs it.

`UncontestedUntouched` and `SoloRequestsTakeEffect` speak of what the service has of an
account (`View`). With a cached list that is what is picked of it by the account's id
(`ViewOK`), and an edit for another id leaves it, by the lemmas on filters. `SoloInv`
adds to `EffectInv` that requests on one account contest it (`NamesakesOK`), that all
requests that edit have the cached list as long as any account is uncontested
(`CurrentOK`), and how far a request has come with its account (`ProgressOK`): nothing
changed, removed, added with the old hash and the old keys, or its key list edited,
as a function of what it found when it began. Two things are outside what
`SoloRequestsTakeEffect` says: an account that a look beside a `RemoveAll` has not found
counts as contested, and so says the theorem nothing of it; and it speaks of no list with
a hole.

The hypotheses `HoleIsNoList` and `MarksAreNoLists` say that the constants which stand
for a list with a hole, half a file and no file are not themselves lists.

Only model-checked: liveness (`KeyProgress`, `LockGivenUp`, `Reconnects`), which is
out of the provers' reach. Every invariant and action property of the passing runs
is the statement of a theorem; the theorems on stores without a database state the
properties that `MCListStore` checks for stores with one.

## 6. Not modelled

* Value types and conversions (`EnsureProperType`, `GenericToBytes`,
  `GenericFromBytes`): functions of one value. A `DateTime` from the database has
  `Kind` Utc, one from the cache the kind it was set with.
* `KeyStoreStatistics`: plain `++` from all threads, so increments may be lost, and
  `DatabaseHits` also counts reads that found nothing (`KeyStore.cs:296`, `:546`).
  Nothing says what the counters promise.
* `GetStores`, `GetConfiguration`: they read and change nothing.
* `Start` looks at `stores.json` and takes the lock in one step; the code reads the
  file just before. A server object has one heartbeat in the model, also after a
  second `Start`. `Stop` of a server whose `Start` threw is not there; its process may
  end.
* A collision of two calls on one `List<T>` leaves the edit lost or a hole; doubled
  entries are left out.
* `service.json`: the same `Read` and `Write` as `accounts.json`, with one object.
* The service's pages and web API: each is a call of `KkServer`. That they go on
  after `Stop` is in `StoreRegistry` (`Live`).
* The query protocol of `RmClient`/`RmServer` (timeouts, framing, compression). An
  application that repeats a push after a timeout sends the same `Id` again: that
  is `ClientIds`, and `PushedOnce` says what becomes of it.
* `ConnectAsync` after a `Disconnect` is in `ClientConnection`; no property is about it.

## 7. What is left

1. A composition of `KkServer.GetKeyStore` with `ListStore`: list operations on a
   store that is deleted under them. `StoreRegistry` has it for single writes.
2. `KeyStoreStatistics`, once something says what the numbers mean.
