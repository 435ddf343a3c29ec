---------------------------- MODULE AccountStore ----------------------------
(***************************************************************************)
(* The accounts of KitKey.Service: one List<Account>, cached by Configs    *)
(* and handed to every page by reference. A request edits the list object  *)
(* itself, call by call and under no lock, puts the list into the cache,   *)
(* serializes it and writes accounts.json. An account has its API keys in  *)
(* a list object of its own; saving an account replaces the account and    *)
(* keeps that object.                                                      *)
(*                                                                         *)
(* lists and keyLists are the heap. A List<T> is not made for two threads: *)
(* two calls that edit one list at once may lose an edit or leave a hole   *)
(* on which every later look at the list throws (Collide, Broken), and a   *)
(* look at a list that another call edits may miss what is in it (Walks).  *)
(***************************************************************************)
EXTENDS Sublists, Functions

CONSTANTS
  Requests,            \* threads that answer requests
  Ids, Keys, Hashes,   \* of accounts, API keys, passwords
  ListRefs, KeyRefs,   \* list objects
  None,                \* null: no object, no password, no name
  Absent, Torn,        \* accounts.json: not there, half written
  Broken,              \* a list with a hole, in memory or in the file
  MayFail,             \* writing the file may fail
  MayCrash,            \* the process may end and start again
  MaxEdits             \* bound: requests that edit

ASSUME FlagsAssumption == {MayFail, MayCrash} \subseteq BOOLEAN /\ MaxEdits \in Nat
ASSUME NoneAssumption == None \notin Ids \cup Keys \cup Hashes \cup ListRefs \cup KeyRefs

VARIABLES
  cached,    \* _cache[FileType.Accounts]
  lists,     \* List<Account> objects: sequences of [id, hash, keys]
  keyLists,  \* List<AccountApiKey> objects: sequences of keys
  file,      \* accounts.json
  pc, req,   \* per request: its next step and what was posted
  list, hash, keys, json,  \* its locals: accounts, PasswordHash, ApiKeys, json
  made,      \* history: the ids and keys that Guid.NewGuid() returned
  edits,     \* history: how many requests that edit there were
  before,    \* history: the account as it was when the request began
  sole,      \* history: requests that no other one that edits has overlapped
  contested, \* history: since the service was last at rest, the ids that two
             \* requests had at a time or that a look did not find as they are,
             \* and all if a list was put in place of another or two calls collided
  clean      \* history: the last write was that of a request in sole

heap == <<cached, lists, keyLists>>
locals == <<list, hash, keys, json>>
history == <<made, edits, before, sole, contested, clean>>
vars == <<heap, file, pc, req, locals, history>>

Look == [kind |-> "look", id |-> None, key |-> None, hash |-> None]
Operations ==
  [kind : {"save"}, id : Ids, key : {None}, hash : Hashes \cup {None}]
    \cup [kind : {"create", "delete"}, id : Ids, key : {None}, hash : {None}]
    \cup [kind : {"newKey", "editKey", "deleteKey"}, id : Ids, key : Keys, hash : {None}]
    \cup {Look} \cup [kind : {"login"}, id : Ids \cup {None}, key : {None}, hash : {None}]

Edits(o) == o.kind # "look"
Underway == {r \in Requests : pc[r] # "idle"}

\* What an earlier process may have left in accounts.json: up to two accounts,
\* each with an API key of its own or none.
Account == [id : Ids, hash : Hashes, keys : {<<>>} \cup {<<k>> : k \in Keys}]
Left ==
  {c \in UNION {[1..n -> Account] : n \in 0..2} : \A i, j \in DOMAIN c :
     i # j => c[i].id # c[j].id /\ (c[i].keys # c[j].keys \/ c[i].keys = <<>>)}

Init ==
  /\ cached = None
  /\ lists = [l \in ListRefs |-> <<>>]
  /\ keyLists = [k \in KeyRefs |-> <<>>]
  /\ file \in {Absent} \cup Left
  /\ pc = [r \in Requests |-> "idle"]
  /\ req = [r \in Requests |-> Look]
  /\ list = [r \in Requests |-> None]
  /\ hash = [r \in Requests |-> None]
  /\ keys = [r \in Requests |-> None]
  /\ json = [r \in Requests |-> None]
  /\ edits = 0
  /\ made = IF file = Absent THEN {}
            ELSE UNION {{file[i].id} \cup {k \in Keys : file[i].keys = <<k>>} : i \in DOMAIN file}
  /\ before = [r \in Requests |-> None]
  /\ sole = {}
  /\ contested = {}
  /\ clean = TRUE
-----------------------------------------------------------------------------
\* What JsonSerializer makes of accounts s with API keys k, and of a list object.
Text(s, k) ==
  IF s = Broken THEN Broken
  ELSE [i \in DOMAIN s |-> [id |-> s[i].id, hash |-> s[i].hash, keys |-> k[s[i].keys]]]
Snapshot(l) == Text(lists[l], keyLists)

IsList(c) == c \notin {Absent, Torn, Broken}

\* accounts.Where(o => o.Id == a), and what is left without it.
Named(s, a) == Picked(s, {i \in DOMAIN s : s[i].id = a})

\* Mutant: the account is gone with all the others.
ClearedOf(s, a) == <<>>

Unnamed(s, a) == Picked(s, {i \in DOMAIN s : s[i].id # a})

\* The objects in use, and which are free for new ones.
Used(l) == IF lists[l] = Broken THEN {} ELSE {lists[l][i].keys : i \in DOMAIN lists[l]}
LiveLists == ({cached} \cup {list[r] : r \in Requests}) \ {None}
FreeLists == ListRefs \ LiveLists

\* Mutant: a new account may get the list object of another one's keys.
AnyKeys == KeyRefs

FreeKeys == KeyRefs \ ((UNION {Used(l) : l \in LiveLists}) \cup {keys[r] : r \in Requests})

\* Where a new object goes: memory suffices, and TLC stops if ListRefs or KeyRefs
\* are too small for a choice.
FreeList == CHOOSE l \in FreeLists : TRUE
FreeKey == CHOOSE k \in FreeKeys : TRUE
FreeKeysFor(D) == CHOOSE f \in Injection(D, FreeKeys) : TRUE
Memory == FreeList \in FreeLists /\ FreeKey \in FreeKeys

\* Deserialize: a list object and, for each account, one for its keys.
Deserialized(c, l) ==
  \E ref \in {FreeKeysFor(DOMAIN c)} \cap Injection(DOMAIN c, FreeKeys) :
    /\ lists' = [lists EXCEPT ![l] = [i \in DOMAIN c |-> [id |-> c[i].id, hash |-> c[i].hash, keys |-> ref[i]]]]
    /\ keyLists' = [k \in KeyRefs |-> IF \E i \in DOMAIN c : ref[i] = k
                                      THEN c[CHOOSE i \in DOMAIN c : ref[i] = k].keys ELSE keyLists[k]]

\* What the service holds of account a: in its cache or, not yet read, its file.
Held == IF cached = None THEN file ELSE Snapshot(cached)
View(a) == IF IsList(Held) THEN Named(Held, a) ELSE <<>>

Goto(r, l) == pc' = [pc EXCEPT ![r] = l]

\* c is what is contested while others are under way.
Contested(r, c) == IF Underway = {r} THEN {} ELSE c

Ended(r) ==
  /\ Goto(r, "idle")
  /\ req' = [req EXCEPT ![r] = Look]
  /\ list' = [list EXCEPT ![r] = None]
  /\ hash' = [hash EXCEPT ![r] = None]
  /\ keys' = [keys EXCEPT ![r] = None]
  /\ json' = [json EXCEPT ![r] = None]
  /\ before' = [before EXCEPT ![r] = None]

\* Where a request goes once it has the list.
FirstStep(o) ==
  CASE o.kind = "save" -> IF o.hash = None THEN "hash" ELSE "keys"
    [] o.kind = "create" -> "add"
    [] o.kind = "delete" -> "remove"
    [] OTHER -> "find"
-----------------------------------------------------------------------------
\* A request arrives. Guid.NewGuid() names a new account and a new API key; the
\* key to edit or delete is one that was made. A look is any request that only
\* reads; once the list is cached it changes nothing.
Begin(r) ==
  /\ pc[r] = "idle"
  /\ \E o \in Operations :
       /\ o.kind = "look" => cached = None
       /\ o.kind = "login" => o.id = None
       /\ o.kind = "create" => o.id \notin made
       /\ o.kind \in {"save", "delete", "newKey", "editKey", "deleteKey"} => o.id \in made
       /\ o.kind = "newKey" => o.key \notin made
       /\ o.kind \in {"editKey", "deleteKey"} => o.key \in made
       /\ edits' = IF Edits(o) THEN edits + 1 ELSE edits
       /\ edits' <= MaxEdits
       /\ req' = [req EXCEPT ![r] = o]
       /\ hash' = [hash EXCEPT ![r] = o.hash]
       /\ made' = made \cup (IF o.kind = "create" THEN {o.id} ELSE IF o.kind = "newKey" THEN {o.key} ELSE {})
       /\ before' = [before EXCEPT ![r] = IF o.id = None THEN None ELSE View(o.id)]
       /\ contested' = contested \cup (Ids \cap {o.id} \cap {req[q].id : q \in Underway})
       /\ sole' = IF ~Edits(o) THEN sole ELSE
                  IF \E q \in Underway : Edits(req[q]) THEN {} ELSE {r}
       /\ Goto(r, IF o.kind = "login" THEN "exists" ELSE "fetch")
  /\ UNCHANGED <<heap, file, list, keys, json, clean>>

\* Login: without a file a default account is made, else it only looks.
LoginLooks(r) ==
  /\ pc[r] = "exists" /\ file # Absent
  /\ Goto(r, "fetch")
  /\ req' = [req EXCEPT ![r] = Look]
  /\ sole' = sole \ {r}
  /\ UNCHANGED <<heap, file, locals, made, edits, before, contested, clean>>
LoginCreates(r) ==
  /\ pc[r] = "exists" /\ file = Absent /\ Memory
  /\ \E a \in Ids \ made, h \in Hashes, l \in {FreeList} :
       /\ made' = made \cup {a}
       /\ lists' = [lists EXCEPT ![l] = <<[id |-> a, hash |-> h, keys |-> FreeKey]>>]
       /\ keyLists' = [keyLists EXCEPT ![FreeKey] = <<>>]
       /\ list' = [list EXCEPT ![r] = l]
       /\ req' = [req EXCEPT ![r].id = a]
       /\ hash' = [hash EXCEPT ![r] = h]
  /\ Goto(r, "set")
  /\ UNCHANGED <<cached, file, keys, json, edits, before, sole, contested, clean>>

\* GetAccounts: the cached list, by reference.
Fetch(r) ==
  /\ pc[r] = "fetch" /\ cached # None
  /\ IF Edits(req[r])
     THEN /\ Goto(r, FirstStep(req[r]))
          /\ list' = [list EXCEPT ![r] = cached]
          /\ UNCHANGED <<req, hash, keys, json, before, contested>>
     ELSE Ended(r) /\ contested' = Contested(r, contested)
  /\ UNCHANGED <<heap, file, made, edits, sole, clean>>

\* Or, with nothing cached, a list read from the file.
ReadFile(r) ==
  /\ pc[r] = "fetch" /\ cached = None /\ Memory
  /\ file \notin {Absent, Torn}
  /\ \E l \in {FreeList} :
       /\ list' = [list EXCEPT ![r] = l]
       /\ IF file = Broken
          THEN lists' = [lists EXCEPT ![l] = Broken] /\ UNCHANGED keyLists
          ELSE Deserialized(file, l)
  /\ Goto(r, "fill")
  /\ UNCHANGED <<cached, file, req, hash, keys, json, history>>

\* _cache.Set. If it puts another list in place of the cached one, edits of
\* either are lost to the other's users.
Replaces(r) == cached \notin {None, list[r]}
Set(r) ==
  /\ cached' = list[r]
  /\ sole' = IF Replaces(r) THEN {} ELSE sole
  /\ clean' = (clean /\ ~Replaces(r))

FillCache(r) ==
  /\ pc[r] = "fill"
  /\ Set(r)
  /\ IF Edits(req[r])
     THEN /\ Goto(r, FirstStep(req[r]))
          /\ contested' = IF Replaces(r) THEN Ids ELSE contested
          /\ UNCHANGED <<req, locals, before>>
     ELSE Ended(r) /\ contested' = Contested(r, IF Replaces(r) THEN Ids ELSE contested)
  /\ UNCHANGED <<lists, keyLists, file, made, edits>>
-----------------------------------------------------------------------------
Accounts(r) == lists[list[r]]
Sound(r) == Accounts(r) # Broken

\* Who edits a list object at the same time as r looks at it or edits it.
Editors(r, l) == {q \in Requests \ {r} : list[q] = l /\ pc[q] \in {"remove", "add"}}
KeyEditors(r, k) == {q \in Requests \ {r} : keys[q] = k /\ pc[q] \in {"removeKey", "addKey"}}

\* What a walk along a list may see while RemoveAll, from the front to the back,
\* makes new of old: at each place the old entry or already the new one.
Shifted(old, new, n, D) == [i \in 1..n |-> IF i \in D THEN new[i] ELSE old[i]]
Shifting(old, new) == {Shifted(old, new, n, D) : n \in Len(new)..Len(old), D \in SUBSET DOMAIN new}

\* What r may see of list l: the list or, beside an edit, a list that misses
\* accounts, has them twice or has a hole.
Walks(r, l) ==
  {lists[l]} \cup UNION {
    {Broken} \cup (IF pc[q] = "remove" /\ lists[l] # Broken
                  THEN Shifting(lists[l], Unnamed(lists[l], req[q].id)) ELSE {}) : q \in Editors(r, l)}

\* The same of the lists of API keys.
KeyWalks(r) ==
  {keyLists} \cup UNION {
    {[keyLists EXCEPT ![k] = w] : w \in {Broken} \cup UNION {
      IF pc[q] = "removeKey" /\ keyLists[k] # Broken
      THEN Shifting(keyLists[k], Without(keyLists[k], req[q].key)) ELSE {} : q \in KeyEditors(r, k)}}
    : k \in {k \in KeyRefs : KeyEditors(r, k) # {}}}

\* A look at list l saw s of it: not all of its account, perhaps.
Looked(r, s, l) ==
  contested' = contested \cup (IF Named(s, req[r].id) = Named(lists[l], req[r].id) THEN {} ELSE {req[r].id})

\* Mutant: the old password is not preserved.
HashLost(found) == None

\* accounts.FirstOrDefault(...)?.PasswordHash
HashOf(found) == IF found = <<>> THEN None ELSE found[1].hash

\* OnPostSaveAccount preserves the old password hash when none is posted,
ReadHash(r) ==
  /\ pc[r] = "hash"
  /\ \E s \in Walks(r, list[r]) \ {Broken} :
       /\ hash' = [hash EXCEPT ![r] = HashOf(Named(s, req[r].id))]
       /\ Looked(r, s, list[r])
  /\ Goto(r, "keys")
  /\ UNCHANGED <<heap, file, req, list, keys, json, made, edits, before, sole, clean>>

\* and, with another look at the list, the old API keys: `?? new()` if the
\* account is not found.
ReadKeys(r) ==
  /\ pc[r] = "keys" /\ Memory
  /\ \E s \in Walks(r, list[r]) \ {Broken} :
       LET found == Named(s, req[r].id) IN
       /\ IF found # <<>>
          THEN keys' = [keys EXCEPT ![r] = found[1].keys] /\ UNCHANGED keyLists
          ELSE keys' = [keys EXCEPT ![r] = FreeKey] /\ keyLists' = [keyLists EXCEPT ![FreeKey] = <<>>]
       /\ Looked(r, s, list[r])
  /\ Goto(r, "remove")
  /\ UNCHANGED <<cached, lists, file, req, list, hash, json, made, edits, before, sole, clean>>

\* The step after an edit of a list.
AfterEdit(r) ==
  CASE pc[r] = "remove" /\ req[r].kind = "save" -> "add"
    [] pc[r] = "removeKey" /\ req[r].kind = "editKey" -> "addKey"
    [] OTHER -> "set"

\* List<T>.Add does not look at what is there: a list with a hole keeps it.
Added(s, x) == IF s = Broken THEN Broken ELSE Append(s, x)

\* accounts.RemoveAll(o => o.Id == AccountId)
RemoveAccount(r) ==
  /\ pc[r] = "remove" /\ Sound(r)
  /\ lists' = [lists EXCEPT ![list[r]] = Unnamed(@, req[r].id)]
  /\ Goto(r, AfterEdit(r))
  /\ UNCHANGED <<cached, keyLists, file, req, locals, history>>

\* accounts.Add(Account). CreateAccount checks the password and drops it.
AddAccount(r) ==
  LET k == IF req[r].kind = "save" THEN keys[r] ELSE FreeKey IN
  /\ pc[r] = "add" /\ Memory
  /\ lists' = [lists EXCEPT ![list[r]] = Added(@, [id |-> req[r].id, hash |-> hash[r], keys |-> k])]
  /\ keyLists' = IF req[r].kind = "save" THEN keyLists ELSE [keyLists EXCEPT ![k] = <<>>]
  /\ Goto(r, AfterEdit(r))
  /\ UNCHANGED <<cached, file, req, locals, history>>

\* accounts.Single(...).ApiKeys; CreateAPIKey gets the accounts once more.
Searched(r) == IF req[r].kind = "newKey" THEN cached ELSE list[r]
IsSingle(r, s) == s # Broken /\ Len(Named(s, req[r].id)) = 1
FindKeys(r) ==
  /\ pc[r] = "find"
  /\ \E s \in Walks(r, Searched(r)) :
       /\ IsSingle(r, s)
       /\ keys' = [keys EXCEPT ![r] = Named(s, req[r].id)[1].keys]
       /\ Looked(r, s, Searched(r))
  /\ Goto(r, IF req[r].kind = "newKey" THEN "addKey" ELSE "removeKey")
  /\ UNCHANGED <<heap, file, req, list, hash, json, made, edits, before, sole, clean>>

SoundKeys(r) == keyLists[keys[r]] # Broken

\* ApiKeys.RemoveAll, ApiKeys.Add
RemoveKey(r) ==
  /\ pc[r] = "removeKey" /\ SoundKeys(r)
  /\ keyLists' = [keyLists EXCEPT ![keys[r]] = Without(@, req[r].key)]
  /\ Goto(r, AfterEdit(r))
  /\ UNCHANGED <<cached, lists, file, req, locals, history>>
AddKey(r) ==
  /\ pc[r] = "addKey"
  /\ keyLists' = [keyLists EXCEPT ![keys[r]] = Added(@, req[r].key)]
  /\ Goto(r, AfterEdit(r))
  /\ UNCHANGED <<cached, lists, file, req, locals, history>>

\* Two requests edit one list at the same time: the edit of r is lost, and it
\* may leave a hole in the list.
AtAccounts(r) == pc[r] = "add" \/ (pc[r] = "remove" /\ Sound(r))
AtKeys(r) == pc[r] = "addKey" \/ (pc[r] = "removeKey" /\ SoundKeys(r))
Collide(r, q) ==
  /\ r # q
  /\ \/ /\ AtAccounts(r) /\ AtAccounts(q) /\ list[r] = list[q]
        /\ lists' \in {lists, [lists EXCEPT ![list[r]] = Broken]}
        /\ UNCHANGED keyLists
     \/ /\ AtKeys(r) /\ AtKeys(q) /\ keys[r] = keys[q]
        /\ keyLists' \in {keyLists, [keyLists EXCEPT ![keys[r]] = Broken]}
        /\ UNCHANGED lists
  /\ Goto(r, AfterEdit(r))
  /\ contested' = Ids
  /\ sole' = {}
  /\ clean' = FALSE
  /\ UNCHANGED <<cached, file, req, locals, made, edits, before>>
-----------------------------------------------------------------------------
\* PutAccounts: the cache,
SetCache(r) ==
  /\ pc[r] = "set"
  /\ Set(r)
  /\ contested' = IF Replaces(r) THEN Ids ELSE contested
  /\ Goto(r, "serialize")
  /\ UNCHANGED <<lists, keyLists, file, req, locals, made, edits, before>>

\* the list as it then sees it, whoever is editing it,
Serialize(r) ==
  /\ pc[r] = "serialize"
  /\ \E s \in Walks(r, list[r]), k \in KeyWalks(r) : json' = [json EXCEPT ![r] = Text(s, k)]
  /\ Goto(r, "open")
  /\ UNCHANGED <<heap, file, req, list, hash, keys, history>>

\* and WriteAllText, which empties the file,
OpenFile(r) ==
  /\ pc[r] = "open"
  /\ file' = Torn
  /\ Goto(r, "write")
  /\ UNCHANGED <<heap, req, locals, history>>

\* Mutant: an error of the write is swallowed.
WriteSwallowed(r) ==
  /\ pc[r] = "write"
  /\ file' \in {json[r], file}
  /\ clean' = (r \in sole)
  /\ Ended(r)
  /\ contested' = Contested(r, contested)
  /\ UNCHANGED <<heap, made, edits, sole>>

\* and fills it. Where two may have the file open for writing (not on Windows)
\* the longer text leaves its end behind the shorter one.
WriteFile(r) ==
  /\ pc[r] = "write"
  /\ file' \in {json[r]} \cup (IF \E q \in Underway \ {r} : pc[q] = "write" THEN {Torn} ELSE {})
  /\ clean' = (r \in sole)
  /\ Ended(r)
  /\ contested' = Contested(r, contested)
  /\ UNCHANGED <<heap, made, edits, sole>>

BeingWritten == \E r \in Requests : pc[r] = "write"

\* The steps that may throw, and when. The page shows the exception; what the
\* request did to the list stays done.
MayThrow(r) ==
  CASE pc[r] = "fetch" -> cached = None /\ (file \in {Absent, Torn} \/ BeingWritten)
    [] pc[r] \in {"hash", "keys"} -> Broken \in Walks(r, list[r])
    [] pc[r] = "find" -> \E s \in Walks(r, Searched(r)) : ~IsSingle(r, s)
    [] pc[r] \in {"remove", "add"} -> Editors(r, list[r]) # {} \/ (pc[r] = "remove" /\ ~Sound(r))
    [] pc[r] \in {"removeKey", "addKey"} -> KeyEditors(r, keys[r]) # {} \/ (pc[r] = "removeKey" /\ ~SoundKeys(r))
    [] pc[r] = "serialize" -> Editors(r, list[r]) # {} \/ \E k \in Used(list[r]) : KeyEditors(r, k) # {}
    [] pc[r] = "open" -> MayFail \/ BeingWritten
    [] pc[r] = "write" -> MayFail
    [] OTHER -> FALSE
Throw(r) ==
  /\ MayThrow(r)
  /\ clean' = (clean /\ pc[r] \in {"fetch", "hash", "keys", "find"})
  /\ Ended(r)
  /\ contested' = Contested(r, contested)
  /\ UNCHANGED <<heap, file, made, edits, sole>>

\* The process ends and is started again: only the file is left.
Restart ==
  /\ MayCrash
  /\ cached' = None
  /\ pc' = [r \in Requests |-> "idle"]
  /\ req' = [r \in Requests |-> Look]
  /\ list' = [r \in Requests |-> None]
  /\ hash' = [r \in Requests |-> None]
  /\ keys' = [r \in Requests |-> None]
  /\ json' = [r \in Requests |-> None]
  /\ before' = [r \in Requests |-> None]
  /\ sole' = {}
  /\ contested' = {}
  /\ clean' = TRUE
  /\ UNCHANGED <<lists, keyLists, file, made, edits>>

Next ==
  \/ \E r \in Requests :
       \/ Begin(r) \/ LoginLooks(r) \/ LoginCreates(r) \/ Fetch(r) \/ ReadFile(r) \/ FillCache(r)
       \/ ReadHash(r) \/ ReadKeys(r) \/ RemoveAccount(r) \/ AddAccount(r)
       \/ FindKeys(r) \/ RemoveKey(r) \/ AddKey(r) \/ \E q \in Requests : Collide(r, q)
       \/ SetCache(r) \/ Serialize(r) \/ OpenFile(r) \/ WriteFile(r) \/ Throw(r)
  \/ Restart

Spec == Init /\ [][Next]_vars
-----------------------------------------------------------------------------
\* The types; two accounts of one list never share the object with their keys.
TypeOK ==
  /\ cached \in ListRefs \cup {None}
  /\ \A l \in ListRefs : lists[l] = Broken \/ lists[l] \in Seq([id : Ids, hash : Hashes \cup {None}, keys : KeyRefs])
  /\ \A l \in ListRefs : lists[l] # Broken => \A i, j \in DOMAIN lists[l] :
       lists[l][i].keys = lists[l][j].keys => lists[l][i].id = lists[l][j].id
  /\ \A k \in KeyRefs : keyLists[k] = Broken \/ keyLists[k] \in Seq(Keys)
  /\ pc \in [Requests -> {"idle", "exists", "fetch", "fill", "hash", "keys", "remove", "add", "find",
                          "removeKey", "addKey", "set", "serialize", "open", "write"}]
  /\ req \in [Requests -> Operations]
  /\ list \in [Requests -> ListRefs \cup {None}]
  /\ hash \in [Requests -> Hashes \cup {None}]
  /\ keys \in [Requests -> KeyRefs \cup {None}]
  /\ made \subseteq Ids \cup Keys
  /\ sole \subseteq Requests /\ contested \subseteq Ids /\ clean \in BOOLEAN

\* What a request makes of its account, and of none if there is none: a save
\* without a password keeps the old one.
Expected(o, h, found) ==
  CASE o.kind = "save" -> <<[id |-> o.id, 
                             hash |-> IF o.hash = None /\ found # <<>> THEN found[1].hash ELSE o.hash,
                             keys |-> IF found = <<>> THEN <<>> ELSE found[1].keys]>>
    [] o.kind = "login" -> <<[id |-> o.id, hash |-> h, keys |-> <<>>]>>
    [] o.kind = "create" -> <<[id |-> o.id, hash |-> None, keys |-> <<>>]>>
    [] o.kind = "delete" -> <<>>
    [] o.kind = "newKey" -> <<[found[1] EXCEPT !.keys = Added(@, o.key)]>>
    [] o.kind = "editKey" -> <<[found[1] EXCEPT !.keys = Append(Without(@, o.key), o.key)]>>
    [] o.kind = "deleteKey" -> <<[found[1] EXCEPT !.keys = Without(@, o.key)]>>

\* A request on an account that no other request has at that time does to it
\* what it says, "Preserve old password hash" and "Preserve old api keys"
\* included, while others edit the rest of the same list object. Two things may
\* keep it from that: a look that misses the account beside a RemoveAll of
\* another one (the account is contested then), and a list with a hole.
SoloRequestsTakeEffect ==
  \A r \in Requests :
    pc[r] \in {"serialize", "open", "write"} /\ req[r].id \in Ids \ contested /\ Sound(r) =>
      View(req[r].id) = Expected(req[r], hash[r], before[r])

\* Nobody else changes it: an account that no request under way names stays as
\* it is, over the edits and the failures of others and the first filling of the
\* cache, unless the cached list is put in place of another or is lost.
UncontestedUntouched ==
  [][\A a \in Ids : View(a)' # View(a) =>
       \/ a \in contested'
       \/ \E r \in Underway : req[r].id = a
       \/ cached # None /\ cached' # cached]_vars

\* Whatever has gone apart before, a request with no other beside it leaves the
\* file with what the cache holds.
FileFollowsCache ==
  Underway = {} /\ clean /\ cached # None => file = Snapshot(cached)
=============================================================================
