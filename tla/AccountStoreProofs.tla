------------------------- MODULE AccountStoreProofs -------------------------
(***************************************************************************)
(* The accounts of the service, for every set of requests, accounts and    *)
(* API keys and any number of edits:                                       *)
(*   - accounts.json follows the cached list (FileKeepsUp). Its invariant  *)
(*     Inv needs no type of what the lists hold, only who may change which *)
(*     list object;                                                        *)
(*   - the types, and that no two accounts share the list of their API     *)
(*     keys (TypeCorrect, invariant EffectInv);                            *)
(*   - what nobody names stays as it is (OthersUntouched);                 *)
(*   - a request alone with its account does to it what it says            *)
(*     (SoloEffect, invariant SoloInv).                                    *)
(***************************************************************************)
EXTENDS AccountStore, SublistsProofs

\* A step of the service: Next without Restart.
Step(r) ==
  \/ Begin(r) \/ LoginLooks(r) \/ LoginCreates(r) \/ Fetch(r) \/ ReadFile(r) \/ FillCache(r)
  \/ ReadHash(r) \/ ReadKeys(r) \/ RemoveAccount(r) \/ AddAccount(r)
  \/ FindKeys(r) \/ RemoveKey(r) \/ AddKey(r) \/ \E q \in Requests : Collide(r, q)
  \/ SetCache(r) \/ Serialize(r) \/ OpenFile(r) \/ WriteFile(r) \/ Throw(r)

Labels == {"idle", "exists", "fetch", "fill", "hash", "keys", "remove", "add", "find",
           "removeKey", "addKey", "set", "serialize", "open", "write"}

\* Where a request has not changed anything yet.
Early == {"idle", "exists", "fetch", "fill", "hash", "keys", "find"}

Kinds == {"save", "create", "delete", "newKey", "editKey", "deleteKey", "look", "login"}
Posts == [kind : Kinds, id : Ids \cup {None}, key : Keys \cup {None}, hash : Hashes \cup {None}]

\* The types that say nothing of what is in the lists.
Shapes ==
  /\ cached \in ListRefs \cup {None}
  /\ DOMAIN lists = ListRefs
  /\ pc \in [Requests -> Labels]
  /\ req \in [Requests -> Posts]
  /\ list \in [Requests -> ListRefs \cup {None}]
  /\ DOMAIN json = Requests
  /\ sole \subseteq Requests
  /\ clean \in BOOLEAN

\* Only requests that edit leave the way of a look, and they have a list.
PathOK ==
  \A r \in Requests :
    /\ pc[r] \notin {"idle", "fetch", "fill"} => Edits(req[r])
    /\ pc[r] \notin {"idle", "exists", "fetch"} => list[r] \in ListRefs

\* Beside a request in sole there are only looks.
AloneOK ==
  \A r \in sole, q \in Requests : q # r /\ pc[q] # "idle" => ~Edits(req[q])

\* So the list it writes is the cached one, as it is.
WrittenOK ==
  \A r \in sole :
    /\ pc[r] \in {"serialize", "open", "write"} => list[r] = cached
    /\ pc[r] \in {"open", "write"} => json[r] = Snapshot(cached)

\* What JsonSerializer writes, it can read.
Saved(c) ==
  c = Broken \/ c = [i \in DOMAIN c |-> [id |-> c[i].id, hash |-> c[i].hash, keys |-> c[i].keys]]
SavedOK ==
  /\ file \in {Absent, Torn} \/ Saved(file)
  /\ \A r \in Requests : pc[r] \in {"open", "write"} => Saved(json[r])

\* While nothing is changed after a clean write, the file has what the cache
\* has or, with an empty cache, what every list on its way there has.
Quiet == clean /\ \A r \in Requests : pc[r] \in Early
FileOK ==
  Quiet =>
    IF cached # None THEN file = Snapshot(cached)
    ELSE \A r \in Requests : pc[r] = "fill" =>
           file = Snapshot(list[r]) /\ Used(list[r]) \subseteq KeyRefs

\* The inductive invariant behind FileFollowsCache.
Inv == Shapes /\ PathOK /\ AloneOK /\ WrittenOK /\ SavedOK /\ FileOK

USE DEF Ended, Goto

\* What requests post.
LEMMA OperationFacts ==
  ASSUME NEW o \in Operations
  PROVE  /\ o \in Posts
         /\ o.kind = "login" => Edits(o)
         /\ FirstStep(o) \in {"hash", "keys", "add", "remove", "find"}
         /\ ~Edits(o) => o.kind = "look"
<1>1. o \in Posts
  <2>1. CASE o \in [kind : {"save"}, id : Ids, key : {None}, hash : Hashes \cup {None}]
    BY <2>1 DEF Posts, Kinds
  <2>2. CASE o \in [kind : {"create", "delete"}, id : Ids, key : {None}, hash : {None}]
    BY <2>2 DEF Posts, Kinds
  <2>3. CASE o \in [kind : {"newKey", "editKey", "deleteKey"}, id : Ids, key : Keys, hash : {None}]
    BY <2>3 DEF Posts, Kinds
  <2>4. CASE o = Look
    BY <2>4 DEF Posts, Kinds, Look
  <2>5. CASE o \in [kind : {"login"}, id : Ids \cup {None}, key : {None}, hash : {None}]
    BY <2>5 DEF Posts, Kinds
  <2> QED BY <2>1, <2>2, <2>3, <2>4, <2>5 DEF Operations
<1>2. o.kind \in {"save", "create", "delete", "newKey", "editKey", "deleteKey", "look", "login"}
  BY DEF Operations, Look
<1> QED BY <1>1, <1>2 DEF FirstStep, Edits

LEMMA FirstStepType ==
  ASSUME NEW o
  PROVE  FirstStep(o) \in {"hash", "keys", "add", "remove", "find"}
BY DEF FirstStep

LEMMA AfterEditType ==
  ASSUME NEW r
  PROVE  AfterEdit(r) \in {"add", "addKey", "set"}
BY DEF AfterEdit

LEMMA LookFacts == Look \in Operations /\ ~Edits(Look)
BY DEF Look, Operations, Edits

\* A step of one request leaves what the others have.
LEMMA Frame ==
  ASSUME Shapes, NEW r \in Requests, Step(r), NEW q \in Requests, q # r
  PROVE  pc'[q] = pc[q] /\ req'[q] = req[q] /\ list'[q] = list[q] /\ json'[q] = json[q]
<1> USE DEF Shapes, locals
<1>1. CASE Begin(r) BY <1>1 DEF Begin
<1>2. CASE LoginLooks(r) BY <1>2 DEF LoginLooks
<1>3. CASE LoginCreates(r) BY <1>3 DEF LoginCreates
<1>4. CASE Fetch(r) BY <1>4 DEF Fetch
<1>5. CASE ReadFile(r) BY <1>5 DEF ReadFile
<1>6. CASE FillCache(r) BY <1>6 DEF FillCache
<1>7. CASE ReadHash(r) BY <1>7 DEF ReadHash
<1>8. CASE ReadKeys(r) BY <1>8 DEF ReadKeys
<1>9. CASE RemoveAccount(r) BY <1>9 DEF RemoveAccount
<1>10. CASE AddAccount(r) BY <1>10 DEF AddAccount
<1>11. CASE FindKeys(r) BY <1>11 DEF FindKeys
<1>12. CASE RemoveKey(r) BY <1>12 DEF RemoveKey
<1>13. CASE AddKey(r) BY <1>13 DEF AddKey
<1>14. CASE \E u \in Requests : Collide(r, u) BY <1>14 DEF Collide
<1>15. CASE SetCache(r) BY <1>15 DEF SetCache
<1>16. CASE Serialize(r) BY <1>16 DEF Serialize
<1>17. CASE OpenFile(r) BY <1>17 DEF OpenFile
<1>18. CASE WriteFile(r) BY <1>18 DEF WriteFile
<1>19. CASE Throw(r) BY <1>19 DEF Throw
<1> QED BY <1>1, <1>2, <1>3, <1>4, <1>5, <1>6, <1>7, <1>8, <1>9, <1>10, <1>11, <1>12, <1>13,
           <1>14, <1>15, <1>16, <1>17, <1>18, <1>19 DEF Step

\* What a step of r does to r, as far as the parts of the invariant look at it.
LEMMA OwnStep ==
  ASSUME Shapes, PathOK, NEW r \in Requests, Step(r)
  PROVE  /\ Shapes'
         /\ pc'[r] \notin {"idle", "fetch", "fill"} => Edits(req'[r])
         /\ pc'[r] \notin {"idle", "exists", "fetch"} => list'[r] \in ListRefs
         /\ Begin(r) \/ (sole' \subseteq sole /\ pc[r] # "idle" /\ (Edits(req'[r]) => Edits(req[r])))
<1> USE DEF Shapes, PathOK, Labels, locals, heap, history
<1> DEFINE Goal == /\ Shapes'
                   /\ pc'[r] \notin {"idle", "fetch", "fill"} => Edits(req'[r])
                   /\ pc'[r] \notin {"idle", "exists", "fetch"} => list'[r] \in ListRefs
                   /\ Begin(r) \/ (sole' \subseteq sole /\ pc[r] # "idle" /\ (Edits(req'[r]) => Edits(req[r])))
<1>0. Look \in Posts /\ ~Edits(Look)
  BY LookFacts, OperationFacts
<1>1. CASE Begin(r)
  <2>1. PICK o \in Operations :
          /\ req' = [req EXCEPT ![r] = o]
          /\ sole' = IF ~Edits(o) THEN sole ELSE IF \E q \in Underway : Edits(req[q]) THEN {} ELSE {r}
          /\ pc' = [pc EXCEPT ![r] = IF o.kind = "login" THEN "exists" ELSE "fetch"]
    BY <1>1 DEF Begin
  <2>2. UNCHANGED <<cached, lists, file, list, json, clean>>
    BY <1>1 DEF Begin
  <2>3. /\ o \in Posts
        /\ o.kind = "login" => Edits(o)
    BY OperationFacts
  <2> QED BY <1>1, <2>1, <2>2, <2>3
<1>2. CASE LoginLooks(r)
  BY <1>0, <1>2 DEF LoginLooks
<1>3. CASE LoginCreates(r)
  <2>1. PICK a \in Ids : req' = [req EXCEPT ![r].id = a]
    BY <1>3 DEF LoginCreates
  <2>2. /\ req'[r] \in Posts
        /\ req'[r].kind = req[r].kind
    <3>1. req[r] \in Posts /\ req'[r] = [req[r] EXCEPT !.id = a]
      BY <2>1
    <3> QED BY <3>1 DEF Posts
  <2>3. PICK l \in FreeLists : list' = [list EXCEPT ![r] = l] /\ DOMAIN lists' = DOMAIN lists
    BY <1>3 DEF LoginCreates, Memory
  <2>4. pc' = [pc EXCEPT ![r] = "set"] /\ pc[r] = "exists" /\ UNCHANGED <<cached, json, sole, clean>>
    BY <1>3 DEF LoginCreates
  <2>5. Edits(req'[r]) <=> Edits(req[r])
    BY <2>2 DEF Edits
  <2> QED BY <2>1, <2>2, <2>3, <2>4, <2>5 DEF FreeLists
<1>4. CASE Fetch(r)
  <2>1. CASE Edits(req[r])
    BY <1>4, <2>1, FirstStepType DEF Fetch
  <2>2. CASE ~Edits(req[r])
    BY <1>0, <1>4, <2>2 DEF Fetch
  <2> QED BY <2>1, <2>2
<1>5. CASE ReadFile(r)
  <2>1. PICK l \in FreeLists : list' = [list EXCEPT ![r] = l] /\ DOMAIN lists' = DOMAIN lists
    BY <1>5 DEF ReadFile, Memory, Deserialized
  <2>2. pc' = [pc EXCEPT ![r] = "fill"] /\ pc[r] = "fetch" /\ UNCHANGED <<cached, req, json, sole, clean>>
    BY <1>5 DEF ReadFile
  <2> QED BY <2>1, <2>2 DEF FreeLists
<1>6. CASE FillCache(r)
  <2>1. pc[r] = "fill" /\ list[r] \in ListRefs /\ cached' = list[r] /\ sole' \subseteq sole /\ clean' \in BOOLEAN
    BY <1>6 DEF FillCache, Set
  <2>2. CASE Edits(req[r])
    BY <1>6, <2>1, <2>2, FirstStepType DEF FillCache
  <2>3. CASE ~Edits(req[r])
    BY <1>0, <1>6, <2>1, <2>3 DEF FillCache
  <2> QED BY <2>2, <2>3
<1>7. CASE ReadHash(r) BY <1>7 DEF ReadHash
<1>8. CASE ReadKeys(r) BY <1>8 DEF ReadKeys
<1>9. CASE RemoveAccount(r) BY <1>9, AfterEditType DEF RemoveAccount
<1>10. CASE AddAccount(r) BY <1>10, AfterEditType DEF AddAccount
<1>11. CASE FindKeys(r) BY <1>11 DEF FindKeys
<1>12. CASE RemoveKey(r) BY <1>12, AfterEditType DEF RemoveKey
<1>13. CASE AddKey(r) BY <1>13, AfterEditType DEF AddKey
<1>14. CASE \E q \in Requests : Collide(r, q)
  BY <1>14, AfterEditType DEF Collide, AtAccounts, AtKeys
<1>15. CASE SetCache(r)
  <2>1. pc[r] = "set" /\ list[r] \in ListRefs /\ cached' = list[r] /\ sole' \subseteq sole /\ clean' \in BOOLEAN
    BY <1>15 DEF SetCache, Set
  <2> QED BY <1>15, <2>1 DEF SetCache
<1>16. CASE Serialize(r) BY <1>16 DEF Serialize
<1>17. CASE OpenFile(r) BY <1>17 DEF OpenFile
<1>18. CASE WriteFile(r) BY <1>0, <1>18 DEF WriteFile
<1>19. CASE Throw(r) 
  <2>1. pc[r] # "idle"
    BY <1>19 DEF Throw, MayThrow
  <2> QED BY <1>0, <1>19, <2>1 DEF Throw
<1> QED BY <1>1, <1>2, <1>3, <1>4, <1>5, <1>6, <1>7, <1>8, <1>9, <1>10, <1>11, <1>12, <1>13,
           <1>14, <1>15, <1>16, <1>17, <1>18, <1>19 DEF Step

\* At first the cache is empty and no request is under way.
LEMMA InitInv == Init => Inv
<1> SUFFICES ASSUME Init PROVE Inv
  OBVIOUS
<1>1. Shapes
  BY LookFacts, OperationFacts DEF Init, Shapes, Labels
<1>2. PathOK /\ AloneOK /\ WrittenOK
  BY DEF Init, PathOK, AloneOK, WrittenOK
<1>3. SavedOK
  <2>1. CASE file \in Left
    <3>1. PICK n \in 0..2 : file \in [1..n -> Account]
      BY <2>1 DEF Left
    <3>2. \A i \in 1..n : file[i] = [id |-> file[i].id, hash |-> file[i].hash, keys |-> file[i].keys]
      BY <3>1 DEF Account
    <3>3. Saved(file)
      BY <3>1, <3>2 DEF Saved
    <3> QED BY <3>3 DEF Init, SavedOK
  <2> QED BY <2>1 DEF Init, SavedOK
<1>4. FileOK
  BY DEF Init, FileOK
<1> QED BY <1>1, <1>2, <1>3, <1>4 DEF Inv

\* A restart empties the cache.
LEMMA RestartInv == Inv /\ Restart => Inv'
<1> SUFFICES ASSUME Inv, Restart PROVE Inv'
  OBVIOUS
<1> USE DEF Restart
<1>1. Shapes'
  BY LookFacts, OperationFacts DEF Inv, Shapes, Labels
<1>2. PathOK' /\ AloneOK' /\ WrittenOK'
  BY DEF PathOK, AloneOK, WrittenOK
<1>3. SavedOK'
  BY DEF Inv, SavedOK, Saved
<1>4. FileOK'
  BY DEF FileOK
<1> QED BY <1>1, <1>2, <1>3, <1>4 DEF Inv

LEMMA StutterInv == Inv /\ UNCHANGED vars => Inv'
BY DEF vars, heap, locals, history, Inv, Shapes, PathOK, AloneOK, WrittenOK, SavedOK, Saved,
       FileOK, Quiet, Snapshot, Text, Used

\* Every step of a request leads on along its page.
LEMMA StepPath ==
  ASSUME Inv, NEW r \in Requests, Step(r)
  PROVE  PathOK'
<1>1. ASSUME NEW q \in Requests
      PROVE  /\ pc'[q] \notin {"idle", "fetch", "fill"} => Edits(req'[q])
             /\ pc'[q] \notin {"idle", "exists", "fetch"} => list'[q] \in ListRefs
  <2>1. CASE q = r BY <2>1, OwnStep DEF Inv
  <2>2. CASE q # r BY <2>2, Frame DEF Inv, PathOK
  <2> QED BY <2>1, <2>2
<1> QED BY <1>1 DEF PathOK, Edits

\* A request begins to edit beside another one that edits, and neither is in sole.
LEMMA StepAlone ==
  ASSUME Inv, NEW r \in Requests, Step(r)
  PROVE  AloneOK'
<1> SUFFICES ASSUME NEW u \in sole', NEW q \in Requests, q # u, pc'[q] # "idle"
             PROVE  ~Edits(req'[q])
  BY DEF AloneOK, Edits
<1>0. Shapes /\ PathOK /\ AloneOK /\ Shapes'
  BY OwnStep DEF Inv
<1>1. CASE Begin(r)
  <2>1. PICK o \in Operations :
          /\ req' = [req EXCEPT ![r] = o]
          /\ sole' = IF ~Edits(o) THEN sole ELSE IF \E p \in Underway : Edits(req[p]) THEN {} ELSE {r}
    BY <1>1 DEF Begin
  <2>2. q # r => pc'[q] = pc[q] /\ req'[q] = req[q]
    BY <1>0, Frame
  <2>3. req'[r] = o
    BY <1>0, <2>1 DEF Shapes
  <2>4. CASE Edits(o)
    <3>1. u = r /\ q # r /\ ~\E p \in Underway : Edits(req[p])
      BY <2>1, <2>4
    <3> QED BY <2>2, <3>1 DEF Underway
  <2>5. CASE ~Edits(o)
    <3>1. u \in sole
      BY <2>1, <2>5
    <3> QED BY <1>0, <2>2, <2>3, <2>5, <3>1 DEF AloneOK
  <2> QED BY <2>4, <2>5
<1>2. CASE ~Begin(r)
  <2>1. sole' \subseteq sole /\ pc[r] # "idle" /\ (Edits(req'[r]) => Edits(req[r]))
    BY <1>0, <1>2, OwnStep
  <2>2. CASE q = r
    BY <1>0, <2>1, <2>2 DEF AloneOK
  <2>3. CASE q # r
    BY <1>0, <2>1, <2>3, Frame DEF AloneOK
  <2> QED BY <2>2, <2>3
<1> QED BY <1>1, <1>2

\* Nobody edits beside a request in sole: what it sees of a list is the list.
LEMMA WalkAlone ==
  ASSUME Inv, NEW r \in sole, NEW l
  PROVE  Walks(r, l) = {lists[l]} /\ KeyWalks(r) = {keyLists}
<1>1. \A q \in Requests \ {r} : pc[q] \in {"idle", "fetch", "fill"}
  BY DEF Inv, AloneOK, PathOK
<1>2. \A k : Editors(r, l) = {} /\ KeyEditors(r, k) = {}
  BY <1>1 DEF Editors, KeyEditors
<1> QED BY <1>2 DEF Walks, KeyWalks

\* Beside a request in sole that is about to write, a look changes nothing that
\* is written, or it takes the request out of sole.
LEMMA StepWritten ==
  ASSUME Inv, NEW r \in Requests, Step(r)
  PROVE  WrittenOK'
<1> DEFINE Same == cached' = cached /\ lists' = lists /\ keyLists' = keyLists
<1>0. Shapes /\ PathOK /\ AloneOK /\ WrittenOK /\ Shapes'
  BY OwnStep DEF Inv
<1> SUFFICES ASSUME NEW u \in sole', pc'[u] \in {"serialize", "open", "write"}
             PROVE  /\ list'[u] = cached'
                    /\ pc'[u] \in {"open", "write"} => json'[u] = Snapshot(cached)'
  BY DEF WrittenOK
<1>1. u \in Requests
  <2>1. sole' \subseteq Requests
    BY <1>0 DEF Shapes
  <2> QED BY <2>1
<1>a. Same => Snapshot(cached)' = Snapshot(cached)
  BY DEF Snapshot, Text
<1>2. CASE u = r
  <2> USE <1>2
  <2>1. CASE SetCache(r)
    BY <1>0, <2>1 DEF SetCache, Set, Shapes, locals
  <2>2. CASE Serialize(r)
    <3>0. pc[r] = "serialize" /\ pc' = [pc EXCEPT ![r] = "open"] /\ Same /\ list' = list /\ sole' = sole
      BY <2>2 DEF Serialize, heap, history
    <3>1. json' = [json EXCEPT ![r] = Snapshot(list[r])]
      <4>1. Walks(r, list[r]) = {lists[list[r]]} /\ KeyWalks(r) = {keyLists}
        BY <3>0, WalkAlone
      <4> QED BY <2>2, <4>1 DEF Serialize, Snapshot
    <3>2. list[r] = cached
      BY <1>0, <3>0 DEF WrittenOK
    <3> QED BY <1>0, <1>1, <1>a, <3>0, <3>1, <3>2 DEF Shapes
  <2>3. CASE OpenFile(r)
    <3>1. /\ pc[r] = "open" /\ Same /\ list' = list /\ json' = json /\ sole' = sole
      BY <2>3 DEF OpenFile, heap, history, locals
    <3> QED BY <1>0, <1>a, <3>1 DEF WrittenOK
  <2>4. CASE ~(SetCache(r) \/ Serialize(r) \/ OpenFile(r))
    <3>1. pc'[r] \notin {"serialize", "open", "write"}
      BY <1>0, <2>4, FirstStepType, AfterEditType
         DEF Step, Shapes, Begin, LoginLooks, LoginCreates, Fetch, ReadFile, FillCache, ReadHash, ReadKeys,
             RemoveAccount, AddAccount, FindKeys, RemoveKey, AddKey, Collide, WriteFile, Throw
    <3> QED BY <3>1
  <2> QED BY <2>1, <2>2, <2>3, <2>4
<1>3. CASE u # r
  <2> USE <1>3
  <2>1. pc'[u] = pc[u] /\ req'[u] = req[u] /\ list'[u] = list[u] /\ json'[u] = json[u]
    BY <1>0, <1>1, Frame
  <2>2. Edits(req[u]) /\ u \in Underway /\ pc[u] \in {"serialize", "open", "write"}
    BY <1>0, <1>1, <2>1 DEF PathOK, Underway
  <2>3. u \in sole
    <3>1. CASE Begin(r)
      <4>1. PICK o \in Operations :
              sole' = IF ~Edits(o) THEN sole ELSE IF \E p \in Underway : Edits(req[p]) THEN {} ELSE {r}
        BY <3>1 DEF Begin
      <4> QED BY <2>2, <4>1
    <3>2. CASE ~Begin(r)
      BY <1>0, <3>2, OwnStep
    <3> QED BY <3>1, <3>2
  <2>4. list[u] = cached /\ cached # None /\ (pc[u] \in {"open", "write"} => json[u] = Snapshot(cached))
    <3>1. list[u] \in ListRefs
      BY <1>0, <1>1, <2>2 DEF PathOK
    <3> QED BY <1>0, <2>2, <2>3, <3>1, NoneAssumption DEF WrittenOK
  <2>5. pc[r] \in {"idle", "fetch", "fill"}
    BY <1>0, <1>1, <2>3 DEF AloneOK, PathOK
  <2>6. Same
    <3>1. CASE Begin(r) BY <3>1 DEF Begin, heap
    <3>2. CASE Fetch(r) BY <3>2 DEF Fetch, heap
    <3>3. CASE FillCache(r)
      <4>1. cached' = list[r] /\ sole' = (IF Replaces(r) THEN {} ELSE sole) /\ UNCHANGED <<lists, keyLists>>
        BY <3>3 DEF FillCache, Set
      <4> QED BY <2>4, <4>1 DEF Replaces
    <3>4. CASE Throw(r) BY <3>4 DEF Throw, heap
    <3>5. ~ReadFile(r)
      BY <2>4 DEF ReadFile
    <3> QED BY <2>5, <3>1, <3>2, <3>3, <3>4, <3>5
         DEF Step, LoginLooks, LoginCreates, ReadHash, ReadKeys, RemoveAccount, AddAccount, FindKeys,
             RemoveKey, AddKey, Collide, AtAccounts, AtKeys, SetCache, Serialize, OpenFile, WriteFile
  <2> QED BY <1>a, <2>1, <2>4, <2>6
<1> QED BY <1>2, <1>3

\* What is written is what was serialized.
LEMMA StepSaved ==
  ASSUME Inv, NEW r \in Requests, Step(r)
  PROVE  SavedOK'
<1>0. Shapes /\ PathOK /\ SavedOK
  BY DEF Inv
<1>1. ASSUME NEW t, NEW k PROVE Saved(Text(t, k))
  BY DEF Saved, Text
<1>2. file' \in {Absent, Torn} \/ Saved(file')
  <2>1. CASE OpenFile(r) BY <2>1 DEF OpenFile
  <2>2. CASE WriteFile(r) BY <1>0, <2>2 DEF WriteFile, SavedOK
  <2>3. CASE ~(OpenFile(r) \/ WriteFile(r))
    <3>1. file' = file
      BY <2>3 DEF Step, Begin, LoginLooks, LoginCreates, Fetch, ReadFile, FillCache, ReadHash, ReadKeys,
             RemoveAccount, AddAccount, FindKeys, RemoveKey, AddKey, Collide, SetCache, Serialize, Throw
    <3> QED BY <1>0, <3>1 DEF SavedOK
  <2> QED BY <2>1, <2>2, <2>3
<1>3. ASSUME NEW q \in Requests, pc'[q] \in {"open", "write"} PROVE Saved(json'[q])
  <2>1. CASE q # r BY <1>0, <1>3, <2>1, Frame DEF SavedOK
  <2>2. CASE q = r /\ Serialize(r)
    <3>1. PICK t, k : json'[r] = Text(t, k)
      BY <1>0, <2>2 DEF Serialize, Shapes
    <3> QED BY <1>1, <2>2, <3>1
  <2>3. CASE q = r /\ OpenFile(r)
    BY <1>0, <2>3 DEF OpenFile, locals, SavedOK
  <2>4. CASE q = r /\ ~(Serialize(r) \/ OpenFile(r))
    <3>1. pc'[r] \notin {"open", "write"}
      BY <1>0, <2>4, FirstStepType, AfterEditType
         DEF Step, Shapes, Begin, LoginLooks, LoginCreates, Fetch, ReadFile, FillCache, ReadHash, ReadKeys,
             RemoveAccount, AddAccount, FindKeys, RemoveKey, AddKey, Collide, SetCache, WriteFile, Throw
    <3> QED BY <1>3, <2>4, <3>1
  <2> QED BY <2>1, <2>2, <2>3, <2>4
<1> QED BY <1>2, <1>3 DEF SavedOK, Saved

\* A list with a hole is no list: the value that stands for it is no function.
HoleIsNoList == \A S, T : Broken \notin [S -> T]

\* Deserialize and serialize give back what the file had, and the objects that
\* the new list is made of belong to nobody else.
LEMMA ReadBack ==
  ASSUME Inv, HoleIsNoList, NEW r \in Requests, ReadFile(r)
  PROVE  /\ \E l \in ListRefs : list'[r] = l /\ file = Snapshot(l)' /\ Used(l)' \subseteq KeyRefs
         /\ \A m \in LiveLists : Used(m) \subseteq KeyRefs =>
              Snapshot(m)' = Snapshot(m) /\ Used(m)' = Used(m)
<1>0. Shapes /\ SavedOK
  BY DEF Inv
<1>1. PICK l :
      /\ l \in ListRefs /\ l \notin LiveLists /\ list'[r] = l
      /\ file \notin {Absent, Torn} /\ file' = file
      /\ IF file = Broken
         THEN lists' = [lists EXCEPT ![l] = Broken] /\ UNCHANGED keyLists
         ELSE Deserialized(file, l)
  BY <1>0 DEF ReadFile, Memory, FreeLists, Shapes
<1>2. CASE file = Broken
  <2>1. lists' = [lists EXCEPT ![l] = Broken] /\ keyLists' = keyLists
    BY <1>1, <1>2
  <2>2. lists'[l] = Broken
    BY <1>0, <1>1, <2>1 DEF Shapes
  <2>3. \A m : m # l => lists'[m] = lists[m]
    BY <2>1
  <2>4. Snapshot(l)' = Broken /\ Used(l)' = {}
    BY <1>1, <2>2 DEF Snapshot, Text, Used
  <2>5. \A m \in LiveLists : Snapshot(m)' = Snapshot(m) /\ Used(m)' = Used(m)
    BY <1>1, <2>1, <2>3 DEF Snapshot, Used
  <2> QED BY <1>1, <1>2, <2>4, <2>5
<1>3. CASE file # Broken
  <2> DEFINE D == DOMAIN file
  <2>1. PICK ref :
          /\ ref \in [D -> FreeKeys]
          /\ \A i, j \in D : ref[i] = ref[j] => i = j
          /\ lists' = [lists EXCEPT ![l] = [i \in D |-> [id |-> file[i].id, hash |-> file[i].hash, keys |-> ref[i]]]]
          /\ keyLists' = [k \in KeyRefs |-> IF \E i \in D : ref[i] = k
                                            THEN file[CHOOSE i \in D : ref[i] = k].keys ELSE keyLists[k]]
    BY <1>1, <1>3 DEF Deserialized, Injection, IsInjective
  <2> DEFINE new == [i \in D |-> [id |-> file[i].id, hash |-> file[i].hash, keys |-> ref[i]]]
  <2>2. file = [i \in D |-> [id |-> file[i].id, hash |-> file[i].hash, keys |-> file[i].keys]]
    BY <1>0, <1>1, <1>3 DEF SavedOK, Saved
  <2>3. lists'[l] = new
    BY <1>0, <1>1, <2>1 DEF Shapes
  <2>4. new # Broken
    <3> DEFINE S == {new[i] : i \in D}
    <3>1. new \in [D -> S]
      OBVIOUS
    <3> HIDE DEF new, S
    <3> QED BY <3>1 DEF HoleIsNoList
  <2>5. FreeKeys \subseteq KeyRefs
    BY DEF FreeKeys
  <2>6. \A i \in D : keyLists'[ref[i]] = file[i].keys
    <3>1. ASSUME NEW i \in D PROVE keyLists'[ref[i]] = file[i].keys
      <4>1. ref[i] \in KeyRefs
        BY <2>1, <2>5
      <4>2. (CHOOSE j \in D : ref[j] = ref[i]) = i
        BY <2>1
      <4> QED BY <2>1, <4>1, <4>2
    <3> QED BY <3>1
  <2>7. Snapshot(l)' = [i \in D |-> [id |-> file[i].id, hash |-> file[i].hash, keys |-> file[i].keys]]
    <3>1. DOMAIN new = D /\ \A i \in D : new[i].id = file[i].id /\ new[i].hash = file[i].hash /\ new[i].keys = ref[i]
      OBVIOUS
    <3> HIDE DEF new, D
    <3>2. Snapshot(l)' = [i \in DOMAIN new |-> [id |-> new[i].id, hash |-> new[i].hash,
                                                        keys |-> keyLists'[new[i].keys]]]
      BY <1>1, <2>3, <2>4 DEF Snapshot, Text
    <3>3. \A i \in D : [id |-> new[i].id, hash |-> new[i].hash, keys |-> keyLists'[new[i].keys]]
                         = [id |-> file[i].id, hash |-> file[i].hash, keys |-> file[i].keys]
      BY <2>6, <3>1
    <3> QED BY <3>1, <3>2, <3>3
  <2>8. Used(l)' \subseteq KeyRefs
    <3>1. DOMAIN new = D /\ \A i \in D : new[i].keys = ref[i] /\ ref[i] \in KeyRefs
      BY <2>1, <2>5
    <3> HIDE DEF new, D
    <3> QED BY <1>1, <2>3, <2>4, <3>1 DEF Used
  <2>9. ASSUME NEW m \in LiveLists, Used(m) \subseteq KeyRefs
        PROVE  Snapshot(m)' = Snapshot(m) /\ Used(m)' = Used(m)
    <3>1. lists'[m] = lists[m]
      BY <1>1, <2>1
    <3>2. ASSUME NEW k \in Used(m) PROVE keyLists'[k] = keyLists[k]
      <4>1. k \notin FreeKeys
        BY DEF FreeKeys
      <4> QED BY <2>1, <2>9, <4>1
    <3>3. ASSUME lists[m] # Broken, NEW i \in DOMAIN lists[m]
          PROVE  keyLists'[lists[m][i].keys] = keyLists[lists[m][i].keys]
      BY <3>2, <3>3 DEF Used
    <3> QED BY <3>1, <3>3 DEF Snapshot, Text, Used
  <2> QED BY <1>1, <2>2, <2>7, <2>8, <2>9
<1> QED BY <1>2, <1>3

\* The file follows the cache.
LEMMA StepFile ==
  ASSUME Inv, HoleIsNoList, NEW r \in Requests, Step(r)
  PROVE  FileOK'
<1> SUFFICES ASSUME Quiet'
             PROVE  /\ cached' # None => file' = Snapshot(cached)'
                    /\ cached' = None => \A q \in Requests : pc'[q] = "fill" =>
                         file' = Snapshot(list[q])' /\ Used(list[q])' \subseteq KeyRefs
  BY DEF FileOK
<1> DEFINE Goal == /\ cached' # None => file' = Snapshot(cached)'
                   /\ cached' = None => \A q \in Requests : pc'[q] = "fill" =>
                        file' = Snapshot(list[q])' /\ Used(list[q])' \subseteq KeyRefs
<1>0. Shapes /\ PathOK /\ AloneOK /\ WrittenOK /\ FileOK /\ Shapes'
  BY OwnStep DEF Inv
<1>a. clean' = TRUE /\ \A q \in Requests : pc'[q] \in Early
  BY <1>0 DEF Quiet, Shapes
<1>1. CASE WriteFile(r)
  <2>1. /\ pc[r] = "write" /\ r \in sole
        /\ file' \in {json[r]} \cup (IF \E q \in Underway \ {r} : pc[q] = "write" THEN {Torn} ELSE {})
        /\ UNCHANGED <<cached, lists, keyLists>>
    BY <1>a, <1>1 DEF WriteFile, heap
  <2>2. ~\E q \in Underway \ {r} : pc[q] = "write"
    BY <1>0, <2>1 DEF AloneOK, PathOK, Underway
  <2>3. file' = Snapshot(cached) /\ cached \in ListRefs
    BY <1>0, <2>1, <2>2 DEF WrittenOK, PathOK
  <2>4. Snapshot(cached)' = Snapshot(cached) /\ cached # None
    BY <2>1, <2>3, NoneAssumption DEF Snapshot
  <2> QED BY <2>1, <2>3, <2>4
<1>2. CASE ~WriteFile(r)
  <2>1. clean = TRUE /\ pc[r] \in Early
    <3>1. CASE Begin(r) BY <1>a, <3>1 DEF Begin, Early
    <3>2. CASE LoginLooks(r) BY <1>a, <3>2 DEF LoginLooks, Early
    <3>3. CASE LoginCreates(r) BY <1>a, <3>3 DEF LoginCreates, Early
    <3>4. CASE Fetch(r) BY <1>a, <3>4 DEF Fetch, Early
    <3>5. CASE ReadFile(r) BY <1>a, <3>5 DEF ReadFile, Early, history
    <3>6. CASE FillCache(r) BY <1>0, <1>a, <3>6 DEF FillCache, Set, Early, Shapes
    <3>7. CASE ReadHash(r) BY <1>a, <3>7 DEF ReadHash, Early, history
    <3>8. CASE ReadKeys(r) BY <1>a, <3>8 DEF ReadKeys, Early, history
    <3>9. CASE FindKeys(r) BY <1>a, <3>9 DEF FindKeys, Early, history
    <3>10. CASE Throw(r) BY <1>0, <1>a, <3>10 DEF Throw, Early, Shapes
    <3>11. CASE RemoveAccount(r) \/ AddAccount(r) \/ RemoveKey(r) \/ AddKey(r) \/ SetCache(r) \/ Serialize(r) \/ OpenFile(r)
      <4>1. pc'[r] \in {"add", "addKey", "set", "serialize", "open", "write"}
        BY <1>0, <3>11, AfterEditType
           DEF Shapes, RemoveAccount, AddAccount, RemoveKey, AddKey, SetCache, Serialize, OpenFile
      <4> QED BY <1>a, <4>1 DEF Early
    <3>12. CASE \E q \in Requests : Collide(r, q) BY <1>a, <3>12 DEF Collide
    <3> QED BY <1>2, <3>1, <3>2, <3>3, <3>4, <3>5, <3>6, <3>7, <3>8, <3>9, <3>10, <3>11, <3>12 DEF Step
  <2>2. \A q \in Requests : pc[q] \in Early
    <3>1. ASSUME NEW q \in Requests PROVE pc[q] \in Early
      <4>1. CASE q = r BY <2>1, <4>1
      <4>2. CASE q # r BY <1>0, <1>a, <4>2, Frame
      <4> QED BY <4>1, <4>2
    <3> QED BY <3>1
  <2>3. /\ cached # None => file = Snapshot(cached)
        /\ cached = None => \A q \in Requests : pc[q] = "fill" =>
             file = Snapshot(list[q]) /\ Used(list[q]) \subseteq KeyRefs
    BY <1>0, <2>1, <2>2 DEF FileOK, Quiet
  <2>4. CASE ReadFile(r)
    <3>1. cached = None /\ cached' = None /\ file' = file
      BY <2>4 DEF ReadFile
    <3>2. ASSUME NEW q \in Requests, pc'[q] = "fill"
          PROVE  file' = Snapshot(list[q])' /\ Used(list[q])' \subseteq KeyRefs
      <4>1. CASE q = r
        <5>1. PICK l \in ListRefs : list'[r] = l /\ file = Snapshot(l)' /\ Used(l)' \subseteq KeyRefs
          BY <2>4, ReadBack
        <5> QED BY <3>1, <4>1, <5>1 DEF Snapshot, Used
      <4>2. CASE q # r
        <5>1. pc[q] = "fill" /\ list'[q] = list[q]
          BY <1>0, <3>2, <4>2, Frame
        <5>2. list[q] \in LiveLists
          BY <1>0, <5>1, NoneAssumption DEF PathOK, LiveLists
        <5>3. file = Snapshot(list[q]) /\ Used(list[q]) \subseteq KeyRefs
          BY <2>3, <3>1, <5>1
        <5>4. PICK m \in LiveLists : Used(m) \subseteq KeyRefs /\ file = Snapshot(m) /\ list'[q] = m
          BY <5>1, <5>2, <5>3
        <5>5. Snapshot(m)' = Snapshot(m) /\ Used(m)' = Used(m)
          BY <2>4, <5>4, ReadBack
        <5> QED BY <3>1, <5>4, <5>5 DEF Snapshot, Used
      <4> QED BY <4>1, <4>2
    <3> QED BY <3>1, <3>2
  <2>5. CASE FillCache(r)
    <3>1. /\ pc[r] = "fill" /\ cached' = list[r] /\ ~Replaces(r)
          /\ UNCHANGED <<lists, keyLists, file>>
      BY <1>a, <2>5 DEF FillCache, Set
    <3>2. cached \in {None, list[r]} /\ list[r] \in ListRefs
      BY <1>0, <3>1 DEF Replaces, PathOK
    <3>3. file = Snapshot(list[r]) /\ list[r] # None
      BY <2>3, <3>1, <3>2, NoneAssumption
    <3>4. Snapshot(cached)' = Snapshot(list[r])
      BY <3>1 DEF Snapshot
    <3> QED BY <3>1, <3>3, <3>4
  <2>6. CASE Begin(r) \/ LoginLooks(r) \/ Fetch(r) \/ ReadHash(r) \/ FindKeys(r) \/ Throw(r)
    <3>1. UNCHANGED <<cached, lists, keyLists, file>>
      BY <2>6 DEF Begin, LoginLooks, Fetch, ReadHash, FindKeys, Throw, heap
    <3>2. pc'[r] # "fill"
      BY <1>0, <2>6, FirstStepType DEF Shapes, Begin, LoginLooks, Fetch, ReadHash, FindKeys, Throw
    <3>3. ASSUME NEW q \in Requests, pc'[q] = "fill"
          PROVE  pc[q] = "fill" /\ list'[q] = list[q]
      <4>1. q # r
        BY <3>2, <3>3
      <4> QED BY <1>0, <3>3, <4>1, Frame
    <3>4. Snapshot(cached)' = Snapshot(cached)
      BY <3>1 DEF Snapshot
    <3>5. ASSUME NEW q \in Requests, list'[q] = list[q]
          PROVE  Snapshot(list[q])' = Snapshot(list[q]) /\ Used(list[q])' = Used(list[q])
      BY <3>1, <3>5 DEF Snapshot, Used
    <3> QED BY <2>3, <3>1, <3>3, <3>4, <3>5
  <2>7. CASE LoginCreates(r) \/ ReadKeys(r) 
    <3>1. pc'[r] \in {"set", "remove"}
      BY <1>0, <2>7 DEF Shapes, LoginCreates, ReadKeys
    <3> QED BY <1>a, <3>1 DEF Early
  <2>8. ~(\/ RemoveAccount(r) \/ AddAccount(r) \/ RemoveKey(r) \/ AddKey(r) \/ SetCache(r) \/ Serialize(r)
          \/ OpenFile(r) \/ \E q \in Requests : Collide(r, q))
    BY <2>1 DEF Early, RemoveAccount, AddAccount, RemoveKey, AddKey, SetCache, Serialize, OpenFile,
                Collide, AtAccounts, AtKeys
  <2> QED BY <1>2, <2>4, <2>5, <2>6, <2>7, <2>8 DEF Step
<1> QED BY <1>1, <1>2

\* Every step keeps the whole of it.
LEMMA NextInv == HoleIsNoList /\ Inv /\ [Next]_vars => Inv'
<1> SUFFICES ASSUME HoleIsNoList, Inv, [Next]_vars PROVE Inv'
  OBVIOUS
<1>1. ASSUME NEW r \in Requests, Step(r) PROVE Inv'
  <2>1. Shapes'
    BY <1>1, OwnStep DEF Inv
  <2> QED BY <1>1, <2>1, StepPath, StepAlone, StepWritten, StepSaved, StepFile DEF Inv
<1> QED BY <1>1, RestartInv, StutterInv DEF Next, Step

\* accounts.json has what the cache has whenever no request is under way after a
\* write by a request that none edited beside, whatever had gone apart before:
\* PutAccounts sets the cache, then writes all of it.
THEOREM FileKeepsUp ==
  ASSUME HoleIsNoList
  PROVE  Spec => []FileFollowsCache
<1>1. Inv => FileFollowsCache
  BY DEF Inv, Shapes, FileOK, Quiet, Early, FileFollowsCache, Underway
<1> QED BY <1>1, InitInv, NextInv, PTL DEF Spec

-----------------------------------------------------------------------------
\* What the lists hold, and who has which list object: every account its own
\* list of API keys, every request that of its account only.

\* An account in memory and in the file.
Entry == [id : Ids, hash : Hashes \cup {None}, keys : KeyRefs]
SavedEntry == [id : Ids, hash : Hashes \cup {None}, keys : {Broken} \cup Seq(Keys)]

\* A list has accounts, or a hole; so has the file, unless it is absent or torn.
Typed ==
  /\ lists \in [ListRefs -> {Broken} \cup Seq(Entry)]
  /\ keyLists \in [KeyRefs -> {Broken} \cup Seq(Keys)]
  /\ file \in {Absent, Torn, Broken} \cup Seq(SavedEntry)
  /\ \A r \in Requests : pc[r] \in {"open", "write"} => json[r] \in {Broken} \cup Seq(SavedEntry)
  /\ req \in [Requests -> Operations]
  /\ hash \in [Requests -> Hashes \cup {None}]
  /\ keys \in [Requests -> KeyRefs \cup {None}]
  /\ DOMAIN before = Requests
  /\ made \subseteq Ids \cup Keys
  /\ contested \subseteq Ids

\* Where a request has neither a list nor an API key list yet.
Listless == {"idle", "exists", "fetch"}
Keyless == Listless \cup {"fill", "hash", "keys", "find"}

\* Which requests come to which steps, and what they have there.
Stage(r) ==
    LET k == req[r].kind IN
    /\ pc[r] \in Listless => list[r] = None
    /\ pc[r] \in Keyless => keys[r] = None
    /\ pc[r] = "idle" => req[r] = Look
    /\ pc[r] = "exists" => k = "login" /\ req[r].id = None
    /\ pc[r] \in {"fetch", "fill"} => k # "login"
    /\ pc[r] \notin Listless \cup {"fill"} => req[r].id \in Ids
    /\ pc[r] = "hash" => k = "save" /\ req[r].hash = None
    /\ pc[r] = "keys" => k = "save"
    /\ pc[r] = "remove" => k \in {"save", "delete"}
    /\ pc[r] = "add" => k \in {"save", "create"}
    /\ pc[r] = "find" => k \in {"newKey", "editKey", "deleteKey"}
    /\ pc[r] = "removeKey" => k \in {"editKey", "deleteKey"} /\ keys[r] \in KeyRefs
    /\ pc[r] = "addKey" => k \in {"newKey", "editKey"} /\ keys[r] \in KeyRefs
    /\ pc[r] \in {"remove", "add"} /\ k = "save" => keys[r] \in KeyRefs
StageOK == \A r \in Requests : Stage(r)

\* Account a of list object l has its API keys in list object k.
Holds(l, a, k) ==
  lists[l] # Broken /\ \E i \in DOMAIN lists[l] : lists[l][i].id = a /\ lists[l][i].keys = k

\* No two accounts share the object with their keys, in one list or in two that
\* are in use; and a request has only that of its own account.
SharingOK ==
  /\ \A l \in ListRefs, a, b \in Ids, k \in KeyRefs : Holds(l, a, k) /\ Holds(l, b, k) => a = b
  /\ \A l, m \in LiveLists, a, b \in Ids, k \in KeyRefs : Holds(l, a, k) /\ Holds(m, b, k) => l = m
  /\ \A r \in Requests, l \in LiveLists, a \in Ids :
       keys[r] # None /\ Holds(l, a, keys[r]) => a = req[r].id /\ (req[r].kind = "save" => l = list[r])
  /\ \A r, q \in Requests : keys[r] = keys[q] /\ keys[r] # None =>
       /\ req[r].id = req[q].id
       /\ req[r].kind = "save" /\ req[q].kind = "save" => list[r] = list[q]

\* A login that has made the default account.
LoggingIn(r) == pc[r] = "set" /\ req[r].kind = "login"

\* Before anything is cached, requests hold what the file has, or there is no
\* file and they have made the default account.
UncachedOK ==
  cached = None => \A r \in Requests :
    /\ pc[r] \in Listless \cup {"fill"} \/ (LoggingIn(r) /\ file = Absent)
    /\ pc[r] = "fill" => file = Snapshot(list[r])

\* Nobody else has the default account.
LoginOK ==
  \A r \in Requests : LoggingIn(r) =>
    /\ list[r] # cached
    /\ \A q \in Requests \ {r} : list[q] # list[r]
    /\ \E k \in KeyRefs : lists[list[r]] = <<[id |-> req[r].id, hash |-> hash[r], keys |-> k]>>

\* Only ids that were made are used.
MadeOK ==
  /\ \A r \in Requests : req[r].id \in Ids => req[r].id \in made
  /\ \A l \in ListRefs : lists[l] # Broken => \A i \in DOMAIN lists[l] : lists[l][i].id \in made
  /\ IsList(file) => \A i \in DOMAIN file : file[i].id \in made
  /\ \A r \in Requests : pc[r] \in {"open", "write"} /\ IsList(json[r]) =>
       \A i \in DOMAIN json[r] : json[r][i].id \in made

\* The inductive invariant behind TypeOK.
EffectInv == Inv /\ Typed /\ StageOK /\ SharingOK /\ UncachedOK /\ LoginOK /\ MadeOK

\* The accounts of an id, and the others, of a list of accounts.
LEMMA NamedFacts ==
  ASSUME NEW T, NEW s \in Seq(T), NEW a
  PROVE  /\ Named(s, a) \in Seq(T) /\ Unnamed(s, a) \in Seq(T)
         /\ \A n \in DOMAIN Named(s, a) : \E i \in DOMAIN s : s[i].id = a /\ Named(s, a)[n] = s[i]
         /\ \A n \in DOMAIN Unnamed(s, a) : \E i \in DOMAIN s : s[i].id # a /\ Unnamed(s, a)[n] = s[i]
         /\ \A i \in DOMAIN s : s[i].id = a => \E n \in DOMAIN Named(s, a) : Named(s, a)[n] = s[i]
<1> DEFINE S == {i \in DOMAIN s : s[i].id = a}
           U == {i \in DOMAIN s : s[i].id # a}
<1>1. S \in SUBSET DOMAIN s /\ U \in SUBSET DOMAIN s
  OBVIOUS
<1>2. /\ Picked(s, S) \in Seq(T) /\ DOMAIN Picked(s, S) = 1..Cardinality(S)
      /\ \A n \in 1..Cardinality(S) : Nth(S, n) \in S /\ Picked(s, S)[n] = s[Nth(S, n)]
      /\ \A i \in S : \E n \in 1..Cardinality(S) : Picked(s, S)[n] = s[i]
  <2> HIDE DEF S
  <2> QED BY <1>1, PickedPlaces
<1>3. /\ Picked(s, U) \in Seq(T) /\ DOMAIN Picked(s, U) = 1..Cardinality(U)
      /\ \A n \in 1..Cardinality(U) : Nth(U, n) \in U /\ Picked(s, U)[n] = s[Nth(U, n)]
  <2> HIDE DEF U
  <2> QED BY <1>1, PickedPlaces
<1> QED BY <1>2, <1>3 DEF Named, Unnamed

\* A walk along a list while entries are removed sees entries of the list.
LEMMA ShiftingFacts ==
  ASSUME NEW T, NEW old \in Seq(T), NEW new \in Seq(T), NEW s \in Shifting(old, new),
         \A i \in DOMAIN new : \E j \in DOMAIN old : new[i] = old[j]
  PROVE  s \in Seq(T) /\ \A i \in DOMAIN s : \E j \in DOMAIN old : s[i] = old[j]
<1>1. PICK n \in Len(new)..Len(old), D \in SUBSET DOMAIN new :
        s = Shifted(old, new, n, D)
  BY DEF Shifting
<1>2. /\ Len(new) \in Nat /\ Len(old) \in Nat /\ n \in Nat /\ 1..n \subseteq DOMAIN old
      /\ DOMAIN old = 1..Len(old)
  BY <1>1, LenProperties
<1>3. \A i \in 1..n : \E j \in DOMAIN old : s[i] = old[j]
  BY <1>1, <1>2 DEF Shifted
<1>4. s \in [1..n -> T]
  BY <1>1, <1>2, <1>3, ElementOfSeq DEF Shifted
<1> QED BY <1>1, <1>2, <1>3, <1>4

\* What a request sees of a list: a hole, or accounts of the list.
LEMMA WalkFacts ==
  ASSUME Typed, NEW l \in ListRefs, NEW r, NEW s \in Walks(r, l), s # Broken
  PROVE  /\ lists[l] # Broken /\ lists[l] \in Seq(Entry) /\ s \in Seq(Entry)
         /\ \A i \in DOMAIN s : \E j \in DOMAIN lists[l] : s[i] = lists[l][j]
<1>1. lists[l] # Broken
  BY DEF Walks
<1>2. lists[l] \in Seq(Entry)
  BY <1>1 DEF Typed
<1>3. CASE s = lists[l]
  BY <1>1, <1>2, <1>3
<1>4. CASE s # lists[l]
  <2>1. PICK q \in Editors(r, l) : s \in Shifting(lists[l], Unnamed(lists[l], req[q].id))
    BY <1>4 DEF Walks
  <2>2. /\ Unnamed(lists[l], req[q].id) \in Seq(Entry)
        /\ \A i \in DOMAIN Unnamed(lists[l], req[q].id) :
             \E j \in DOMAIN lists[l] : Unnamed(lists[l], req[q].id)[i] = lists[l][j]
    BY <1>2, NamedFacts
  <2> QED BY <1>1, <1>2, <2>1, <2>2, ShiftingFacts
<1> QED BY <1>3, <1>4

\* What it sees of the lists of API keys.
LEMMA KeyWalkFacts ==
  ASSUME Typed, NEW r, NEW k \in KeyWalks(r)
  PROVE  k \in [KeyRefs -> {Broken} \cup Seq(Keys)]
<1>1. keyLists \in [KeyRefs -> {Broken} \cup Seq(Keys)]
  BY DEF Typed
<1>2. CASE k # keyLists
  <2>1. PICK j \in KeyRefs : \E w :
          /\ k = [keyLists EXCEPT ![j] = w]
          /\ w = Broken \/ \E q \in KeyEditors(r, j) : keyLists[j] # Broken /\ w \in Shifting(keyLists[j], Without(keyLists[j], req[q].key))
    BY <1>2 DEF KeyWalks
  <2>2. PICK w :
          /\ k = [keyLists EXCEPT ![j] = w]
          /\ w = Broken \/ \E q \in KeyEditors(r, j) : keyLists[j] # Broken /\ w \in Shifting(keyLists[j], Without(keyLists[j], req[q].key))
    BY <2>1
  <2>3. ASSUME NEW x, keyLists[j] # Broken, w \in Shifting(keyLists[j], Without(keyLists[j], x))
        PROVE  w \in Seq(Keys)
    <3>1. keyLists[j] \in Seq(Keys)
      BY <1>1, <2>3
    <3>2. /\ Without(keyLists[j], x) \in Seq(Keys)
          /\ \A i \in DOMAIN Without(keyLists[j], x) : \E m \in DOMAIN keyLists[j] : Without(keyLists[j], x)[i] = keyLists[j][m]
      <4>1. PICK s \in Seq(Keys) : s = keyLists[j]
        BY <3>1
      <4>2. Without(s, x) \in Seq(Keys) /\ \A n \in 1..Len(Without(s, x)) : \E m \in 1..Len(s) : Without(s, x)[n] = s[m]
        BY WithoutIsList
      <4>3. DOMAIN s = 1..Len(s) /\ DOMAIN Without(s, x) = 1..Len(Without(s, x))
        BY <4>2, LenProperties
      <4> QED BY <4>1, <4>2, <4>3
    <3> QED BY <2>3, <3>1, <3>2, ShiftingFacts
  <2> QED BY <1>1, <2>2, <2>3
<1> QED BY <1>1, <1>2

\* accounts.Add(e)
LEMMA NamedAppend ==
  ASSUME NEW T, NEW s \in Seq(T), NEW e \in T, NEW a
  PROVE  Named(Append(s, e), a) = IF e.id = a THEN Append(Named(s, a), e) ELSE Named(s, a)
<1> DEFINE S == {i \in DOMAIN s : s[i].id = a}
           t == Append(s, e)
           S1 == {i \in DOMAIN t : t[i].id = a}
<1>1. /\ Len(s) \in Nat /\ DOMAIN s = 1..Len(s) /\ DOMAIN t = 1..(Len(s) + 1)
      /\ \A i \in 1..Len(s) : t[i] = s[i]
      /\ t[Len(s) + 1] = e
  BY AppendProperties, LenProperties
<1>2. S1 = IF e.id = a THEN S \cup {Len(s) + 1} ELSE S
  <2> HIDE DEF t
  <2> QED BY <1>1
<1>3. S \in SUBSET DOMAIN s
  OBVIOUS
<1>4. Named(t, a) = Picked(t, S1) /\ Named(s, a) = Picked(s, S)
  BY DEF Named
<1>5. Picked(t, S) = Picked(s, S) /\ Picked(t, S \cup {Len(s) + 1}) = Append(Picked(s, S), e)
  <2> HIDE DEF S
  <2> QED BY <1>3, PickedAppend
<1> HIDE DEF S, S1
<1> QED BY <1>2, <1>4, <1>5

\* accounts.RemoveAll(o => o.Id == b)
LEMMA NamedUnnamed ==
  ASSUME NEW T, NEW s \in Seq(T), NEW a, NEW b
  PROVE  Named(Unnamed(s, b), a) = IF a = b THEN <<>> ELSE Named(s, a)
<1> DEFINE U == {i \in DOMAIN s : s[i].id # b}
           p == Picked(s, U)
           S == {i \in DOMAIN s : s[i].id = a /\ a # b}
           V == {n \in DOMAIN p : p[n].id = a}
<1>1. U \in SUBSET DOMAIN s /\ S \in SUBSET U
  OBVIOUS
<1>2. /\ DOMAIN p = 1..Cardinality(U)
      /\ \A n \in 1..Cardinality(U) : Nth(U, n) \in U /\ p[n] = s[Nth(U, n)]
  <2> HIDE DEF U
  <2> QED BY <1>1, PickedPlaces
<1>3. V = {n \in DOMAIN p : Nth(U, n) \in S}
  <2>1. \A n \in DOMAIN p : p[n].id = a <=> Nth(U, n) \in S
    <3> HIDE DEF p
    <3> QED BY <1>2
  <2> QED BY <2>1
<1>4. Named(Unnamed(s, b), a) = Picked(p, V)
  BY DEF Named, Unnamed
<1>5. Picked(p, {n \in DOMAIN p : Nth(U, n) \in S}) = Picked(s, S)
  <2> HIDE DEF U, S
  <2> QED BY <1>1, PickedOfPicked
<1>6. CASE a = b
  <2>1. S = {}
    BY <1>6
  <2> QED BY <1>3, <1>4, <1>5, <1>6, <2>1, PickedNone
<1>7. CASE a # b
  <2>1. Named(s, a) = Picked(s, S)
    BY <1>7 DEF Named
  <2> QED BY <1>3, <1>4, <1>5, <1>7, <2>1
<1> QED BY <1>6, <1>7

\* What is written of the accounts in s while the API keys are as in kl.
Shown(s, kl) == [i \in DOMAIN s |-> [id |-> s[i].id, hash |-> s[i].hash, keys |-> kl[s[i].keys]]]

\* What is written of an account is what its places in the list say.
LEMMA NamedShown ==
  ASSUME NEW T, NEW s \in Seq(T), NEW kl, NEW a
  PROVE  Named(Shown(s, kl), a) = Shown(Named(s, a), kl)
<1> DEFINE S == {i \in DOMAIN s : s[i].id = a}
           t == Shown(s, kl)
<1>1. DOMAIN t = DOMAIN s /\ \A i \in DOMAIN s : t[i].id = s[i].id
  BY DEF Shown
<1>2. {i \in DOMAIN t : t[i].id = a} = S
  BY <1>1
<1>3. Named(t, a) = Picked(t, S) /\ Named(s, a) = Picked(s, S)
  BY <1>2 DEF Named
<1>4. S \in SUBSET DOMAIN s
  OBVIOUS
<1>5. /\ DOMAIN Picked(s, S) = 1..Cardinality(S)
      /\ \A n \in 1..Cardinality(S) : Nth(S, n) \in DOMAIN s /\ Picked(s, S)[n] = s[Nth(S, n)]
  <2> HIDE DEF S
  <2> QED BY <1>4, PickedPlaces
<1> HIDE DEF S, t
<1>6. Picked(t, S) = [n \in 1..Cardinality(S) |-> t[Nth(S, n)]]
  BY DEF Picked
<1>7. \A n \in 1..Cardinality(S) : t[Nth(S, n)] =
        [id |-> Picked(s, S)[n].id, hash |-> Picked(s, S)[n].hash, keys |-> kl[Picked(s, S)[n].keys]]
  BY <1>5 DEF t, Shown
<1>8. Shown(Picked(s, S), kl) = [n \in 1..Cardinality(S) |->
        [id |-> Picked(s, S)[n].id, hash |-> Picked(s, S)[n].hash, keys |-> kl[Picked(s, S)[n].keys]]]
  BY <1>5 DEF Shown
<1> QED BY <1>3, <1>6, <1>7, <1>8 DEF t

\* What a page or a query can be asked for.
LEMMA OperationParts ==
  ASSUME NEW o \in Operations
  PROVE  /\ o.id \in Ids \cup {None} /\ o.hash \in Hashes \cup {None}
         /\ o.kind \notin {"look", "login"} => o.id \in Ids
         /\ o.kind \in {"newKey", "editKey", "deleteKey"} => o.key \in Keys
         /\ o.kind # "save" => o.hash = None
         /\ o.kind = "look" => o = Look
         /\ o.kind = "login" => \A a \in Ids : [o EXCEPT !.id = a] \in Operations
         /\ o.kind \in {"save", "create", "delete", "newKey", "editKey", "deleteKey", "look", "login"}
<1> DEFINE Goal == /\ o.id \in Ids \cup {None} /\ o.hash \in Hashes \cup {None}
                   /\ o.kind \notin {"look", "login"} => o.id \in Ids
                   /\ o.kind \in {"newKey", "editKey", "deleteKey"} => o.key \in Keys
                   /\ o.kind # "save" => o.hash = None
                   /\ o.kind = "look" => o = Look
                   /\ o.kind = "login" => \A a \in Ids : [o EXCEPT !.id = a] \in Operations
                   /\ o.kind \in {"save", "create", "delete", "newKey", "editKey", "deleteKey", "look", "login"}
<1>1. ASSUME o \in [kind : {"save"}, id : Ids, key : {None}, hash : Hashes \cup {None}] PROVE Goal
  BY <1>1
<1>2. ASSUME o \in [kind : {"create", "delete"}, id : Ids, key : {None}, hash : {None}] PROVE Goal
  BY <1>2
<1>3. ASSUME o \in [kind : {"newKey", "editKey", "deleteKey"}, id : Ids, key : Keys, hash : {None}] PROVE Goal
  BY <1>3
<1>4. ASSUME o = Look PROVE Goal
  BY <1>4 DEF Look
<1>5. ASSUME o \in [kind : {"login"}, id : Ids \cup {None}, key : {None}, hash : {None}] PROVE Goal
  <2>1. \A a \in Ids : [o EXCEPT !.id = a] \in [kind : {"login"}, id : Ids \cup {None}, key : {None}, hash : {None}]
    BY <1>5
  <2>2. \A a \in Ids : [o EXCEPT !.id = a] \in Operations
    BY <2>1 DEF Operations
  <2> QED BY <1>5, <2>2
<1> QED BY <1>1, <1>2, <1>3, <1>4, <1>5 DEF Operations

\* Which steps of a request lie before one.
LEMMA FirstStepIs ==
  ASSUME NEW o
  PROVE  /\ FirstStep(o) = "hash" => o.kind = "save" /\ o.hash = None
         /\ FirstStep(o) = "keys" => o.kind = "save" /\ o.hash # None
         /\ FirstStep(o) = "add" => o.kind = "create"
         /\ FirstStep(o) = "remove" => o.kind = "delete"
         /\ FirstStep(o) = "find" => o.kind \notin {"save", "create", "delete"}
BY DEF FirstStep

\* The objects that are free.
LEMMA FreeFacts ==
  ASSUME Memory
  PROVE  /\ FreeList \in ListRefs /\ FreeList \notin LiveLists
         /\ FreeKey \in KeyRefs /\ FreeKey \notin UNION {Used(l) : l \in LiveLists}
         /\ \A r \in Requests : keys[r] # FreeKey
<1>1. FreeList \in FreeLists /\ FreeKey \in FreeKeys
  BY DEF Memory
<1> HIDE DEF FreeList, FreeKey
<1> QED BY <1>1 DEF FreeLists, FreeKeys

\* Deserialize makes new objects and leaves the others as they are.
LEMMA ReadIn ==
  ASSUME Shapes, Typed, HoleIsNoList, NEW r \in Requests, ReadFile(r)
  PROVE  \E l \in FreeLists, new \in {Broken} \cup Seq(Entry) :
           /\ list' = [list EXCEPT ![r] = l]
           /\ lists' = [lists EXCEPT ![l] = new]
           /\ keyLists' \in [KeyRefs -> {Broken} \cup Seq(Keys)]
           /\ \A k \in KeyRefs \ FreeKeys : keyLists'[k] = keyLists[k]
           /\ file = Broken <=> new = Broken
           /\ file # Broken => /\ file = Shown(new, keyLists')
                               /\ \A i \in DOMAIN new : new[i].keys \in FreeKeys
                               /\ \A i, j \in DOMAIN new : new[i].keys = new[j].keys => i = j
<1>1. PICK l \in FreeLists :
      /\ list' = [list EXCEPT ![r] = l]
      /\ file \notin {Absent, Torn}
      /\ IF file = Broken
         THEN lists' = [lists EXCEPT ![l] = Broken] /\ UNCHANGED keyLists
         ELSE Deserialized(file, l)
  BY DEF ReadFile, Memory
<1>2. CASE file = Broken
  <2>1. lists' = [lists EXCEPT ![l] = Broken] /\ keyLists' = keyLists
    BY <1>1, <1>2
  <2>2. Broken \in {Broken} \cup Seq(Entry)
    OBVIOUS
  <2> QED BY <1>1, <1>2, <2>1, <2>2 DEF Typed
<1>3. CASE file # Broken
  <2> DEFINE D == DOMAIN file
  <2>0. file \in Seq(SavedEntry) /\ D = 1..Len(file) /\ Len(file) \in Nat /\ \A i \in D : file[i] \in SavedEntry
    BY <1>1, <1>3, LenProperties DEF Typed
  <2>1. PICK ref :
          /\ ref \in [D -> FreeKeys]
          /\ \A i, j \in D : ref[i] = ref[j] => i = j
          /\ lists' = [lists EXCEPT ![l] = [i \in D |-> [id |-> file[i].id, hash |-> file[i].hash, keys |-> ref[i]]]]
          /\ keyLists' = [k \in KeyRefs |-> IF \E i \in D : ref[i] = k
                                            THEN file[CHOOSE i \in D : ref[i] = k].keys ELSE keyLists[k]]
    BY <1>1, <1>3 DEF Deserialized, Injection, IsInjective
  <2> DEFINE new == [i \in D |-> [id |-> file[i].id, hash |-> file[i].hash, keys |-> ref[i]]]
  <2>2. FreeKeys \subseteq KeyRefs
    BY DEF FreeKeys
  <2>3. \A i \in D : [id |-> file[i].id, hash |-> file[i].hash, keys |-> ref[i]] \in Entry
    BY <2>0, <2>1, <2>2 DEF Entry, SavedEntry
  <2>4. new \in [1..Len(file) -> Entry]
    BY <2>0, <2>3
  <2>5. new \in Seq(Entry) /\ new # Broken
    <3> HIDE DEF new
    <3>1. Broken \notin [1..Len(file) -> Entry]
      BY DEF HoleIsNoList
    <3>2. new # Broken
      BY <2>4, <3>1
    <3> QED BY <2>0, <2>4, <3>2
  <2>6. \A i \in D : (CHOOSE j \in D : ref[j] = ref[i]) = i
    BY <2>1
  <2>7. \A i \in D : keyLists'[ref[i]] = file[i].keys
    <3>1. ASSUME NEW i \in D PROVE keyLists'[ref[i]] = file[i].keys
      <4>1. ref[i] \in KeyRefs
        BY <2>1, <2>2
      <4> QED BY <2>1, <2>6, <4>1
    <3> QED BY <3>1
  <2>8. keyLists' \in [KeyRefs -> {Broken} \cup Seq(Keys)]
    <3>1. ASSUME NEW k \in KeyRefs PROVE keyLists'[k] \in {Broken} \cup Seq(Keys)
      <4>1. CASE \E i \in D : ref[i] = k
        <5>1. PICK i \in D : ref[i] = k
          BY <4>1
        <5> QED BY <2>0, <2>7, <5>1 DEF SavedEntry
      <4>2. CASE ~\E i \in D : ref[i] = k
        <5>1. keyLists'[k] = keyLists[k]
          BY <2>1, <4>2
        <5> QED BY <5>1 DEF Typed
      <4> QED BY <4>1, <4>2
    <3>2. keyLists' = [k \in KeyRefs |-> keyLists'[k]]
      BY <2>1
    <3> QED BY <3>1, <3>2
  <2>9. \A k \in KeyRefs \ FreeKeys : keyLists'[k] = keyLists[k]
    BY <2>1
  <2>10. DOMAIN new = D /\ \A i \in D : new[i].id = file[i].id /\ new[i].hash = file[i].hash /\ new[i].keys = ref[i]
    OBVIOUS
  <2>11. lists' = [lists EXCEPT ![l] = new]
    BY <2>1
  <2>12. file = Shown(new, keyLists')
    <3> HIDE DEF new
    <3>1. Shown(new, keyLists') = [i \in D |-> [id |-> file[i].id, hash |-> file[i].hash, keys |-> file[i].keys]]
      BY <2>7, <2>10 DEF Shown
    <3>2. \A i \in D : [id |-> file[i].id, hash |-> file[i].hash, keys |-> file[i].keys] = file[i]
      BY <2>0 DEF SavedEntry
    <3>3. file = [i \in D |-> file[i]]
      BY <2>0
    <3> QED BY <3>1, <3>2, <3>3
  <2>13. \A i \in DOMAIN new : new[i].keys \in FreeKeys
    <3> HIDE DEF new
    <3> QED BY <2>1, <2>10
  <2>14. \A i, j \in DOMAIN new : new[i].keys = new[j].keys => i = j
    <3> HIDE DEF new
    <3> QED BY <2>1, <2>10
  <2> HIDE DEF new, D
  <2> QED BY <1>1, <1>3, <2>5, <2>8, <2>9, <2>11, <2>12, <2>13, <2>14
<1> QED BY <1>2, <1>3

\* What is serialized can be read.
LEMMA TextIs ==
  ASSUME NEW t \in Seq(Entry), NEW k \in [KeyRefs -> {Broken} \cup Seq(Keys)]
  PROVE  Shown(t, k) \in Seq(SavedEntry)
<1>1. DOMAIN t = 1..Len(t) /\ Len(t) \in Nat /\ \A i \in 1..Len(t) : t[i] \in Entry
  BY LenProperties, ElementOfSeq
<1>2. \A i \in 1..Len(t) : [id |-> t[i].id, hash |-> t[i].hash, keys |-> k[t[i].keys]] \in SavedEntry
  BY <1>1 DEF Entry, SavedEntry
<1>3. Shown(t, k) \in [1..Len(t) -> SavedEntry]
  BY <1>1, <1>2 DEF Shown
<1> QED BY <1>1, <1>3

LEMMA SnapshotIs ==
  Typed => \A l \in ListRefs :
    /\ lists[l] = Broken => Snapshot(l) = Broken
    /\ lists[l] # Broken => /\ lists[l] \in Seq(Entry)
                            /\ Snapshot(l) = Shown(lists[l], keyLists)
                            /\ Snapshot(l) \in Seq(SavedEntry)
<1> SUFFICES ASSUME Typed, NEW l \in ListRefs, lists[l] # Broken
             PROVE  /\ lists[l] \in Seq(Entry)
                    /\ Snapshot(l) = Shown(lists[l], keyLists)
                    /\ Snapshot(l) \in Seq(SavedEntry)
  BY DEF Snapshot, Text
<1>1. lists[l] \in Seq(Entry) /\ keyLists \in [KeyRefs -> {Broken} \cup Seq(Keys)]
  BY DEF Typed
<1>2. Snapshot(l) = Shown(lists[l], keyLists)
  BY DEF Snapshot, Text, Shown
<1>3. Snapshot(l) \in Seq(SavedEntry)
  BY <1>1, <1>2, TextIs
<1> QED BY <1>1, <1>2, <1>3

\* A step of one request leaves the rest of what the others have, too.
LEMMA FrameLocals ==
  ASSUME Shapes, Typed, NEW r \in Requests, Step(r), NEW q \in Requests, q # r
  PROVE  hash'[q] = hash[q] /\ keys'[q] = keys[q] /\ before'[q] = before[q]
<1> USE DEF Typed, locals, history
<1>1. CASE Begin(r) BY <1>1 DEF Begin
<1>2. CASE LoginLooks(r) BY <1>2 DEF LoginLooks
<1>3. CASE LoginCreates(r) BY <1>3 DEF LoginCreates
<1>4. CASE Fetch(r) BY <1>4 DEF Fetch
<1>5. CASE ReadFile(r) BY <1>5 DEF ReadFile
<1>6. CASE FillCache(r) BY <1>6 DEF FillCache
<1>7. CASE ReadHash(r) BY <1>7 DEF ReadHash
<1>8. CASE ReadKeys(r) BY <1>8 DEF ReadKeys
<1>9. CASE RemoveAccount(r) BY <1>9 DEF RemoveAccount
<1>10. CASE AddAccount(r) BY <1>10 DEF AddAccount
<1>11. CASE FindKeys(r) BY <1>11 DEF FindKeys
<1>12. CASE RemoveKey(r) BY <1>12 DEF RemoveKey
<1>13. CASE AddKey(r) BY <1>13 DEF AddKey
<1>14. CASE \E u \in Requests : Collide(r, u) BY <1>14 DEF Collide
<1>15. CASE SetCache(r) BY <1>15 DEF SetCache
<1>16. CASE Serialize(r) BY <1>16 DEF Serialize
<1>17. CASE OpenFile(r) BY <1>17 DEF OpenFile
<1>18. CASE WriteFile(r) BY <1>18 DEF WriteFile
<1>19. CASE Throw(r) BY <1>19 DEF Throw
<1> QED BY <1>1, <1>2, <1>3, <1>4, <1>5, <1>6, <1>7, <1>8, <1>9, <1>10, <1>11, <1>12, <1>13,
           <1>14, <1>15, <1>16, <1>17, <1>18, <1>19 DEF Step

\* What a request finds of an account in what it sees of a list: nothing, or an
\* account of that list.
LEMMA FoundAccount ==
  ASSUME Typed, NEW l \in ListRefs, NEW r, NEW s \in Walks(r, l), s # Broken, NEW a
  PROVE  LET N == Named(s, a) IN
         /\ N \in Seq(Entry)
         /\ N # <<>> => /\ N[1] \in Entry /\ N[1].keys \in KeyRefs /\ N[1].hash \in Hashes \cup {None}
                        /\ Holds(l, a, N[1].keys)
         /\ HashOf(N) \in Hashes \cup {None}
<1> DEFINE N == Named(s, a)
<1>1. /\ lists[l] # Broken /\ s \in Seq(Entry)
      /\ \A i \in DOMAIN s : \E j \in DOMAIN lists[l] : s[i] = lists[l][j]
  BY WalkFacts
<1>2. N \in Seq(Entry) /\ \A n \in DOMAIN N : \E i \in DOMAIN s : s[i].id = a /\ N[n] = s[i]
  BY <1>1, NamedFacts
<1> HIDE DEF N
<1>3. ASSUME N # <<>> PROVE 1 \in DOMAIN N /\ N[1] \in Entry
  BY <1>2, <1>3, LenProperties, EmptySeq
<1>4. ASSUME N # <<>>
      PROVE  N[1].keys \in KeyRefs /\ N[1].hash \in Hashes \cup {None} /\ Holds(l, a, N[1].keys)
  <2>1. N[1].keys \in KeyRefs /\ N[1].hash \in Hashes \cup {None}
    BY <1>3, <1>4 DEF Entry
  <2>2. PICK i \in DOMAIN s : s[i].id = a /\ N[1] = s[i]
    BY <1>2, <1>3, <1>4
  <2>3. PICK j \in DOMAIN lists[l] : s[i] = lists[l][j]
    BY <1>1
  <2>4. Holds(l, a, N[1].keys)
    BY <1>1, <2>2, <2>3 DEF Holds
  <2> QED BY <2>1, <2>4
<1> QED BY <1>2, <1>3, <1>4 DEF N, HashOf

\* The account whose API keys a request edits is one of the list.
LEMMA FoundKeys ==
  ASSUME Typed, NEW l \in ListRefs, NEW r, NEW s \in Walks(r, l), IsSingle(r, s)
  PROVE  /\ s # Broken
         /\ Named(s, req[r].id)[1].keys \in KeyRefs
         /\ Holds(l, req[r].id, Named(s, req[r].id)[1].keys)
<1> DEFINE N == Named(s, req[r].id)
<1>1. s # Broken /\ Len(N) = 1
  BY DEF IsSingle
<1>2. /\ N \in Seq(Entry)
      /\ N # <<>> => N[1].keys \in KeyRefs /\ Holds(l, req[r].id, N[1].keys)
  BY <1>1, FoundAccount
<1> HIDE DEF N
<1>3. N # <<>>
  <2>1. Len(<<>>) = 0
    OBVIOUS
  <2> QED BY <1>1, <2>1
<1> QED BY <1>1, <1>2, <1>3 DEF N

\* What a look marks as contested is the request's own account.
LEMMA LookMarks ==
  ASSUME Shapes, Typed, NEW r \in Requests, Stage(r), ReadHash(r) \/ ReadKeys(r) \/ FindKeys(r)
  PROVE  contested \subseteq contested' /\ contested' \subseteq Ids
<1>1. req[r].id \in Ids
  BY DEF ReadHash, ReadKeys, FindKeys, Stage, Listless
<1>2. contested' \in {contested, contested \cup {req[r].id}}
  BY DEF ReadHash, ReadKeys, FindKeys, Looked
<1> QED BY <1>1, <1>2 DEF Typed

\* Every step of a request takes it to a step that has what it needs.
LEMMA StepStage ==
  ASSUME EffectInv, NEW r \in Requests, Step(r)
  PROVE  StageOK'
<1>0. Shapes /\ PathOK /\ Typed /\ StageOK /\ UncachedOK /\ Stage(r)
  BY DEF EffectInv, Inv, StageOK
<1>00. req[r] \in Operations /\ Look \in Operations
  BY <1>0, LookFacts DEF Typed
<1>000. None \notin Ids /\ None \notin KeyRefs
  BY NoneAssumption
<1>a. ASSUME NEW q \in Requests, q # r PROVE Stage(q)'
  <2>1. pc'[q] = pc[q] /\ req'[q] = req[q] /\ list'[q] = list[q] /\ keys'[q] = keys[q]
    BY <1>0, <1>a, Frame, FrameLocals
  <2>2. Stage(q)
    BY <1>0 DEF StageOK
  <2> QED BY <2>1, <2>2 DEF Stage
<1>b. Stage(r)'
  <2> USE DEF Shapes, Typed, Stage, Listless, Keyless, locals, heap, history
  <2>1. CASE Begin(r)
    <3>1. PICK o \in Operations :
            /\ o.kind = "login" => o.id = None
            /\ req' = [req EXCEPT ![r] = o]
            /\ pc' = [pc EXCEPT ![r] = IF o.kind = "login" THEN "exists" ELSE "fetch"]
      BY <2>1 DEF Begin
    <3>2. pc[r] = "idle" /\ list' = list /\ keys' = keys
      BY <2>1 DEF Begin
    <3> QED BY <1>0, <3>1, <3>2
  <2>2. CASE LoginLooks(r)
    <3>1. pc'[r] = "fetch" /\ req'[r] = Look /\ list'[r] = list[r] /\ keys'[r] = keys[r] /\ pc[r] = "exists"
      BY <1>0, <2>2 DEF LoginLooks
    <3> QED BY <1>0, <3>1 DEF Look
  <2>3. CASE LoginCreates(r)
    <3>1. PICK a \in Ids : req' = [req EXCEPT ![r].id = a]
      BY <2>3 DEF LoginCreates
    <3>2. pc[r] = "exists" /\ pc'[r] = "set" /\ keys' = keys /\ req'[r].id = a
      <4>1. req'[r] = [req[r] EXCEPT !.id = a] /\ req[r] \in Posts
        BY <1>0, <3>1
      <4>2. req'[r].id = a
        BY <4>1 DEF Posts
      <4> QED BY <1>0, <2>3, <4>2 DEF LoginCreates
    <3> QED BY <1>0, <3>2
  <2>4. CASE Fetch(r)
    <3>1. CASE Edits(req[r])
      <4>1. pc[r] = "fetch" /\ pc'[r] = FirstStep(req[r]) /\ req'[r] = req[r] /\ keys'[r] = keys[r]
        BY <1>0, <2>4, <3>1 DEF Fetch
      <4>2. req[r].kind \notin {"look", "login"}
        BY <1>0, <3>1, <4>1 DEF Edits
      <4> QED BY <1>0, <1>00, <4>1, <4>2, FirstStepType, FirstStepIs, OperationParts
    <3>2. CASE ~Edits(req[r])
      BY <1>0, <2>4, <3>2 DEF Fetch, Look
    <3> QED BY <3>1, <3>2
  <2>5. CASE ReadFile(r)
    <3>1. pc[r] = "fetch" /\ pc'[r] = "fill" /\ req' = req /\ keys' = keys
      BY <1>0, <2>5 DEF ReadFile
    <3> QED BY <1>0, <3>1
  <2>6. CASE FillCache(r)
    <3>1. CASE Edits(req[r])
      <4>1. pc[r] = "fill" /\ pc'[r] = FirstStep(req[r]) /\ req'[r] = req[r] /\ keys'[r] = keys[r]
        BY <1>0, <2>6, <3>1 DEF FillCache
      <4>2. req[r].kind \notin {"look", "login"}
        BY <1>0, <3>1, <4>1 DEF Edits
      <4> QED BY <1>0, <1>00, <4>1, <4>2, FirstStepType, FirstStepIs, OperationParts
    <3>2. CASE ~Edits(req[r])
      BY <1>0, <2>6, <3>2 DEF FillCache, Look
    <3> QED BY <3>1, <3>2
  <2>7. CASE ReadHash(r)
    BY <1>0, <2>7 DEF ReadHash
  <2>8. CASE ReadKeys(r)
    <3>1. list[r] \in ListRefs /\ pc[r] = "keys"
      BY <1>0, <2>8 DEF ReadKeys, PathOK
    <3>2. keys'[r] \in KeyRefs
      <4>1. FreeKey \in KeyRefs
        BY <2>8, FreeFacts DEF ReadKeys
      <4>2. PICK s \in Walks(r, list[r]) \ {Broken} :
              keys'[r] = IF Named(s, req[r].id) # <<>> THEN Named(s, req[r].id)[1].keys ELSE FreeKey
        BY <1>0, <2>8 DEF ReadKeys
      <4>3. LET N == Named(s, req[r].id) IN N # <<>> => N[1].keys \in KeyRefs
        BY <1>0, <3>1, FoundAccount
      <4> QED BY <4>1, <4>2, <4>3
    <3>3. pc'[r] = "remove" /\ req'[r] = req[r]
      BY <1>0, <2>8 DEF ReadKeys
    <3> QED BY <1>0, <3>1, <3>2, <3>3
  <2>9. CASE RemoveAccount(r)
    <3>1. pc[r] = "remove" /\ pc'[r] = AfterEdit(r) /\ req' = req /\ keys' = keys /\ list' = list
      BY <1>0, <2>9 DEF RemoveAccount
    <3> QED BY <1>0, <3>1 DEF AfterEdit
  <2>10. CASE AddAccount(r)
    <3>1. pc[r] = "add" /\ pc'[r] = AfterEdit(r) /\ req' = req /\ keys' = keys /\ list' = list
      BY <1>0, <2>10 DEF AddAccount
    <3> QED BY <1>0, <3>1 DEF AfterEdit
  <2>11. CASE FindKeys(r)
    <3>1. /\ pc[r] = "find" /\ req' = req
          /\ pc'[r] = IF req[r].kind = "newKey" THEN "addKey" ELSE "removeKey"
      BY <1>0, <2>11 DEF FindKeys
    <3>2. Searched(r) \in ListRefs
      BY <1>0, <3>1 DEF PathOK, UncachedOK, LoggingIn, Searched
    <3>3. keys'[r] \in KeyRefs
      <4>1. PICK s \in Walks(r, Searched(r)) : IsSingle(r, s) /\ keys'[r] = Named(s, req[r].id)[1].keys
        BY <1>0, <2>11 DEF FindKeys
      <4> QED BY <1>0, <3>2, <4>1, FoundKeys
    <3> QED BY <1>0, <3>1, <3>3
  <2>12. CASE RemoveKey(r)
    <3>1. pc[r] = "removeKey" /\ pc'[r] = AfterEdit(r) /\ req' = req /\ keys' = keys /\ list' = list
      BY <1>0, <2>12 DEF RemoveKey
    <3> QED BY <1>0, <3>1 DEF AfterEdit
  <2>13. CASE AddKey(r)
    <3>1. pc[r] = "addKey" /\ pc'[r] = AfterEdit(r) /\ req' = req /\ keys' = keys /\ list' = list
      BY <1>0, <2>13 DEF AddKey
    <3> QED BY <1>0, <3>1 DEF AfterEdit
  <2>14. CASE \E q \in Requests : Collide(r, q)
    <3>1. /\ pc[r] \in {"remove", "add", "removeKey", "addKey"} /\ pc'[r] = AfterEdit(r)
          /\ req' = req /\ keys' = keys /\ list' = list
      BY <1>0, <2>14 DEF Collide, AtAccounts, AtKeys
    <3> QED BY <1>0, <3>1 DEF AfterEdit
  <2>15. CASE SetCache(r) BY <1>0, <2>15 DEF SetCache
  <2>16. CASE Serialize(r) BY <1>0, <2>16 DEF Serialize
  <2>17. CASE OpenFile(r) BY <1>0, <2>17 DEF OpenFile
  <2>18. CASE WriteFile(r) BY <1>0, <2>18 DEF WriteFile, Look
  <2>19. CASE Throw(r) BY <1>0, <2>19 DEF Throw, Look
  <2> QED BY <2>1, <2>2, <2>3, <2>4, <2>5, <2>6, <2>7, <2>8, <2>9, <2>10, <2>11, <2>12, <2>13,
             <2>14, <2>15, <2>16, <2>17, <2>18, <2>19 DEF Step
<1> QED BY <1>a, <1>b DEF StageOK

\* Every step leaves lists of accounts and lists of keys, or a mark.
LEMMA StepTyped ==
  ASSUME EffectInv, HoleIsNoList, NEW r \in Requests, Step(r)
  PROVE  Typed'
<1>0. Shapes /\ PathOK /\ Typed /\ StageOK /\ UncachedOK /\ Stage(r) /\ Shapes'
  BY OwnStep DEF EffectInv, Inv, StageOK
<1>00. req[r] \in Operations /\ Look \in Operations /\ DOMAIN before' = Requests
  <2>1. DOMAIN before' = Requests
    BY <1>0 DEF Step, Begin, LoginLooks, LoginCreates, Fetch, ReadFile, FillCache, ReadHash, ReadKeys,
             RemoveAccount, AddAccount, FindKeys, RemoveKey, AddKey, Collide, SetCache, Serialize, OpenFile,
             WriteFile, Throw, Typed, history
  <2> QED BY <1>0, <2>1, LookFacts DEF Typed
<1>1. CASE Begin(r)
  <2>1. PICK o \in Operations :
          /\ req' = [req EXCEPT ![r] = o]
          /\ hash' = [hash EXCEPT ![r] = o.hash]
          /\ made' = made \cup (IF o.kind = "create" THEN {o.id} ELSE IF o.kind = "newKey" THEN {o.key} ELSE {})
          /\ contested' = contested \cup (Ids \cap {o.id} \cap {req[q].id : q \in Underway})
    BY <1>1 DEF Begin
  <2>2. pc' = [pc EXCEPT ![r] = IF req'[r].kind = "login" THEN "exists" ELSE "fetch"]
    BY <1>0, <1>1 DEF Begin, Typed
  <2>3. UNCHANGED <<lists, keyLists, file, keys, json>>
    BY <1>1 DEF Begin, heap
  <2>4. o.hash \in Hashes \cup {None} /\ (o.kind = "create" => o.id \in Ids) /\ (o.kind = "newKey" => o.key \in Keys)
    BY OperationParts
  <2>5. req' \in [Requests -> Operations] /\ hash' \in [Requests -> Hashes \cup {None}]
        /\ made' \subseteq Ids \cup Keys /\ contested' \subseteq Ids
    BY <1>0, <2>1, <2>4 DEF Typed
  <2> QED BY <1>0, <1>00, <2>2, <2>3, <2>5 DEF Typed, Shapes
<1>2. CASE LoginLooks(r)
  BY <1>0, <1>00, <1>2 DEF LoginLooks, Typed, Shapes, heap, locals
<1>3. CASE LoginCreates(r)
  <2>1. PICK a \in Ids, h \in Hashes, l \in {FreeList} :
          /\ made' = made \cup {a}
          /\ lists' = [lists EXCEPT ![l] = <<[id |-> a, hash |-> h, keys |-> FreeKey]>>]
          /\ keyLists' = [keyLists EXCEPT ![FreeKey] = <<>>]
          /\ req' = [req EXCEPT ![r].id = a]
          /\ hash' = [hash EXCEPT ![r] = h]
    BY <1>3 DEF LoginCreates
  <2>2. /\ pc' = [pc EXCEPT ![r] = "set"] /\ UNCHANGED <<file, keys, json, contested>>
        /\ FreeKey \in KeyRefs /\ req[r].kind = "login"
    BY <1>0, <1>3, FreeFacts DEF LoginCreates, Stage
  <2>3. [req[r] EXCEPT !.id = a] \in Operations
    BY <1>00, <2>2, OperationParts
  <2>4. <<[id |-> a, hash |-> h, keys |-> FreeKey]>> \in Seq(Entry)
    <3>1. [id |-> a, hash |-> h, keys |-> FreeKey] \in Entry
      BY <2>2 DEF Entry
    <3> QED BY <3>1
  <2>5. <<>> \in Seq(Keys)
    OBVIOUS
  <2>6. req' \in [Requests -> Operations] /\ hash' \in [Requests -> Hashes \cup {None}]
    BY <1>0, <2>1, <2>3 DEF Typed
  <2>7. lists' \in [ListRefs -> {Broken} \cup Seq(Entry)] /\ keyLists' \in [KeyRefs -> {Broken} \cup Seq(Keys)]
    BY <1>0, <2>1, <2>4, <2>5 DEF Typed
  <2> QED BY <1>0, <1>00, <2>1, <2>2, <2>6, <2>7 DEF Typed, Shapes
<1>4. CASE Fetch(r)
  <2>1. /\ req' \in [Requests -> Operations] /\ hash' \in [Requests -> Hashes \cup {None}]
        /\ keys' \in [Requests -> KeyRefs \cup {None}] /\ contested' \subseteq Ids
    BY <1>0, <1>00, <1>4 DEF Fetch, Typed, Contested
  <2>2. pc'[r] \notin {"open", "write"}
    BY <1>0, <1>4, FirstStepType DEF Fetch, Shapes
  <2>3. ASSUME NEW q \in Requests, pc'[q] \in {"open", "write"} PROVE json'[q] = json[q] /\ pc[q] \in {"open", "write"}
    BY <1>0, <2>2, <2>3, Frame
  <2> QED BY <1>0, <1>00, <1>4, <2>1, <2>3 DEF Fetch, Typed, heap
<1>5. CASE ReadFile(r)
  <2>1. PICK l \in FreeLists, new \in {Broken} \cup Seq(Entry) :
           /\ lists' = [lists EXCEPT ![l] = new]
           /\ keyLists' \in [KeyRefs -> {Broken} \cup Seq(Keys)]
    BY <1>0, <1>5, ReadIn
  <2>2. lists' \in [ListRefs -> {Broken} \cup Seq(Entry)]
    BY <1>0, <2>1 DEF Typed
  <2>3. pc' = [pc EXCEPT ![r] = "fill"] /\ UNCHANGED <<file, req, hash, keys, json, made, contested>>
    BY <1>5 DEF ReadFile, history
  <2> QED BY <1>0, <1>00, <2>1, <2>2, <2>3 DEF Typed, Shapes
<1>6. CASE FillCache(r)
  <2>1. /\ req' \in [Requests -> Operations] /\ hash' \in [Requests -> Hashes \cup {None}]
        /\ keys' \in [Requests -> KeyRefs \cup {None}] /\ contested' \subseteq Ids
    BY <1>0, <1>00, <1>6 DEF FillCache, Typed, Contested, locals
  <2>2. pc'[r] \notin {"open", "write"}
    BY <1>0, <1>6, FirstStepType DEF FillCache, Shapes
  <2>3. ASSUME NEW q \in Requests, pc'[q] \in {"open", "write"} PROVE json'[q] = json[q] /\ pc[q] \in {"open", "write"}
    BY <1>0, <2>2, <2>3, Frame
  <2> QED BY <1>0, <1>00, <1>6, <2>1, <2>3 DEF FillCache, Typed
<1>7. CASE ReadHash(r)
  <2>1. list[r] \in ListRefs
    BY <1>0, <1>7 DEF ReadHash, PathOK
  <2>2. PICK s \in Walks(r, list[r]) \ {Broken} : hash' = [hash EXCEPT ![r] = HashOf(Named(s, req[r].id))]
    BY <1>7 DEF ReadHash
  <2>3. hash' \in [Requests -> Hashes \cup {None}]
    <3>1. HashOf(Named(s, req[r].id)) \in Hashes \cup {None}
      BY <1>0, <2>1, FoundAccount
    <3> QED BY <1>0, <2>2, <3>1 DEF Typed
  <2>4. contested' \subseteq Ids
    BY <1>0, <1>7, LookMarks
  <2> QED BY <1>0, <1>00, <1>7, <2>3, <2>4 DEF ReadHash, Typed, Shapes, heap
<1>8. CASE ReadKeys(r)
  <2>1. list[r] \in ListRefs /\ FreeKey \in KeyRefs
    BY <1>0, <1>8, FreeFacts DEF ReadKeys, PathOK
  <2>2. PICK s \in Walks(r, list[r]) \ {Broken} :
          IF Named(s, req[r].id) # <<>>
          THEN keys' = [keys EXCEPT ![r] = Named(s, req[r].id)[1].keys] /\ UNCHANGED keyLists
          ELSE keys' = [keys EXCEPT ![r] = FreeKey] /\ keyLists' = [keyLists EXCEPT ![FreeKey] = <<>>]
    BY <1>8 DEF ReadKeys
  <2>3. <<>> \in Seq(Keys)
    OBVIOUS
  <2>4. keys' \in [Requests -> KeyRefs \cup {None}] /\ keyLists' \in [KeyRefs -> {Broken} \cup Seq(Keys)]
    <3>1. LET N == Named(s, req[r].id) IN N # <<>> => N[1].keys \in KeyRefs
      BY <1>0, <2>1, FoundAccount
    <3> QED BY <1>0, <2>1, <2>2, <2>3, <3>1 DEF Typed
  <2>5. contested' \subseteq Ids
    BY <1>0, <1>8, LookMarks
  <2> QED BY <1>0, <1>00, <1>8, <2>4, <2>5 DEF ReadKeys, Typed, Shapes
<1>9. CASE RemoveAccount(r)
  <2>1. list[r] \in ListRefs /\ lists[list[r]] \in Seq(Entry) 
    BY <1>0, <1>9 DEF RemoveAccount, PathOK, Sound, Accounts, Typed
  <2>2. Unnamed(lists[list[r]], req[r].id) \in Seq(Entry)
    BY <2>1, NamedFacts
  <2>3. lists' \in [ListRefs -> {Broken} \cup Seq(Entry)]
    BY <1>0, <1>9, <2>1, <2>2 DEF RemoveAccount, Typed
  <2> QED BY <1>0, <1>00, <1>9, <2>3, AfterEditType DEF RemoveAccount, Typed, Shapes, locals, history
<1>10. CASE AddAccount(r)
  <2> DEFINE k == IF req[r].kind = "save" THEN keys[r] ELSE FreeKey
             e == [id |-> req[r].id, hash |-> hash[r], keys |-> k]
  <2>1. list[r] \in ListRefs /\ lists[list[r]] \in {Broken} \cup Seq(Entry) /\ FreeKey \in KeyRefs
    BY <1>0, <1>10, FreeFacts DEF AddAccount, PathOK, Typed
  <2>2. e \in Entry
    BY <1>0, <1>10, <2>1 DEF AddAccount, Stage, Entry, Typed, Listless
  <2>3. Added(lists[list[r]], e) \in {Broken} \cup Seq(Entry) /\ <<>> \in Seq(Keys)
    BY <2>1, <2>2, AppendProperties DEF Added
  <2>4. /\ lists' = [lists EXCEPT ![list[r]] = Added(@, e)]
        /\ keyLists' = IF req[r].kind = "save" THEN keyLists ELSE [keyLists EXCEPT ![FreeKey] = <<>>]
    BY <1>10 DEF AddAccount
  <2>5. lists' \in [ListRefs -> {Broken} \cup Seq(Entry)] /\ keyLists' \in [KeyRefs -> {Broken} \cup Seq(Keys)]
    <3> HIDE DEF e
    <3> QED BY <1>0, <2>1, <2>3, <2>4 DEF Typed
  <2> QED BY <1>0, <1>00, <1>10, <2>5, AfterEditType DEF AddAccount, Typed, Shapes, locals, history
<1>11. CASE FindKeys(r)
  <2>1. Searched(r) \in ListRefs
    BY <1>0, <1>11 DEF FindKeys, PathOK, UncachedOK, LoggingIn, Shapes, Listless, Searched
  <2>2. PICK s \in Walks(r, Searched(r)) : IsSingle(r, s) /\ keys' = [keys EXCEPT ![r] = Named(s, req[r].id)[1].keys]
    BY <1>11 DEF FindKeys
  <2>3. Named(s, req[r].id)[1].keys \in KeyRefs
    BY <1>0, <2>1, <2>2, FoundKeys
  <2>4. keys' \in [Requests -> KeyRefs \cup {None}]
    BY <1>0, <2>2, <2>3 DEF Typed
  <2>5. contested' \subseteq Ids
    BY <1>0, <1>11, LookMarks
  <2> QED BY <1>0, <1>00, <1>11, <2>4, <2>5 DEF FindKeys, Typed, Shapes, heap
<1>12. CASE RemoveKey(r)
  <2>1. keys[r] \in KeyRefs /\ keyLists[keys[r]] \in Seq(Keys)
    BY <1>0, <1>12 DEF RemoveKey, SoundKeys, Stage, Typed
  <2>2. Without(keyLists[keys[r]], req[r].key) \in Seq(Keys)
    BY <2>1, WithoutIsList
  <2>3. keyLists' \in [KeyRefs -> {Broken} \cup Seq(Keys)]
    BY <1>0, <1>12, <2>1, <2>2 DEF RemoveKey, Typed
  <2> QED BY <1>0, <1>00, <1>12, <2>3, AfterEditType DEF RemoveKey, Typed, Shapes, locals, history
<1>13. CASE AddKey(r)
  <2>1. keys[r] \in KeyRefs /\ keyLists[keys[r]] \in {Broken} \cup Seq(Keys)
    BY <1>0, <1>13 DEF AddKey, Stage, Typed
  <2>2. req[r].key \in Keys
    BY <1>0, <1>00, <1>13, OperationParts DEF AddKey, Stage
  <2>3. Added(keyLists[keys[r]], req[r].key) \in {Broken} \cup Seq(Keys)
    BY <2>1, <2>2, AppendProperties DEF Added
  <2>4. keyLists' \in [KeyRefs -> {Broken} \cup Seq(Keys)]
    BY <1>0, <1>13, <2>1, <2>3 DEF AddKey, Typed
  <2> QED BY <1>0, <1>00, <1>13, <2>4, AfterEditType DEF AddKey, Typed, Shapes, locals, history
<1>14. CASE \E q \in Requests : Collide(r, q)
  <2>1. PICK q \in Requests : Collide(r, q)
    BY <1>14
  <2>2. lists' \in [ListRefs -> {Broken} \cup Seq(Entry)] /\ keyLists' \in [KeyRefs -> {Broken} \cup Seq(Keys)]
    <3>1. CASE lists' = lists /\ keyLists' = keyLists
      BY <1>0, <3>1 DEF Typed
    <3>2. CASE lists' = [lists EXCEPT ![list[r]] = Broken] /\ keyLists' = keyLists
      BY <1>0, <3>2 DEF Typed
    <3>3. CASE keyLists' = [keyLists EXCEPT ![keys[r]] = Broken] /\ lists' = lists
      BY <1>0, <3>3 DEF Typed
    <3> QED BY <2>1, <3>1, <3>2, <3>3 DEF Collide
  <2>3. /\ pc' = [pc EXCEPT ![r] = AfterEdit(r)] /\ AfterEdit(r) \notin {"open", "write"}
        /\ contested' = Ids /\ UNCHANGED <<file, req, hash, keys, json, made>>
    BY <2>1, AfterEditType DEF Collide, locals
  <2> QED BY <1>0, <1>00, <2>2, <2>3 DEF Typed, Shapes
<1>15. CASE SetCache(r) BY <1>0, <1>00, <1>15 DEF SetCache, Typed, Shapes, locals
<1>16. CASE Serialize(r)
  <2>1. list[r] \in ListRefs
    BY <1>0, <1>16 DEF Serialize, PathOK
  <2>2. PICK s \in Walks(r, list[r]), k \in KeyWalks(r) : json' = [json EXCEPT ![r] = Text(s, k)]
    BY <1>16 DEF Serialize
  <2>3. Text(s, k) \in {Broken} \cup Seq(SavedEntry)
    <3>1. CASE s = Broken
      BY <3>1 DEF Text
    <3>2. CASE s # Broken
      <4>1. s \in Seq(Entry) /\ k \in [KeyRefs -> {Broken} \cup Seq(Keys)]
        BY <1>0, <2>1, <3>2, WalkFacts, KeyWalkFacts
      <4>2. Text(s, k) = Shown(s, k)
        BY <3>2 DEF Text, Shown
      <4> QED BY <4>1, <4>2, TextIs
    <3> QED BY <3>1, <3>2
  <2> QED BY <1>0, <1>00, <1>16, <2>2, <2>3 DEF Serialize, Typed, Shapes, heap, history
<1>17. CASE OpenFile(r) BY <1>0, <1>00, <1>17 DEF OpenFile, Typed, Shapes, heap, locals, history
<1>18. CASE WriteFile(r)
  <2>1. file' \in {Absent, Torn, Broken} \cup Seq(SavedEntry)
    BY <1>0, <1>18 DEF WriteFile, Typed
  <2>2. /\ req' \in [Requests -> Operations] /\ hash' \in [Requests -> Hashes \cup {None}]
        /\ keys' \in [Requests -> KeyRefs \cup {None}] /\ contested' \subseteq Ids
    BY <1>0, <1>00, <1>18 DEF WriteFile, Typed, Contested
  <2>3. ASSUME NEW q \in Requests, pc'[q] \in {"open", "write"} PROVE json'[q] = json[q] /\ pc[q] \in {"open", "write"}
    BY <1>0, <1>18, <2>3 DEF WriteFile, Shapes
  <2> QED BY <1>0, <1>00, <1>18, <2>1, <2>2, <2>3 DEF WriteFile, Typed, heap
<1>19. CASE Throw(r)
  <2>2. /\ req' \in [Requests -> Operations] /\ hash' \in [Requests -> Hashes \cup {None}]
        /\ keys' \in [Requests -> KeyRefs \cup {None}] /\ contested' \subseteq Ids
    BY <1>0, <1>00, <1>19 DEF Throw, Typed, Contested
  <2>3. ASSUME NEW q \in Requests, pc'[q] \in {"open", "write"} PROVE json'[q] = json[q] /\ pc[q] \in {"open", "write"}
    BY <1>0, <1>19, <2>3 DEF Throw, Shapes
  <2> QED BY <1>0, <1>00, <1>19, <2>2, <2>3 DEF Throw, Typed, heap
<1> QED BY <1>1, <1>2, <1>3, <1>4, <1>5, <1>6, <1>7, <1>8, <1>9, <1>10, <1>11, <1>12, <1>13,
           <1>14, <1>15, <1>16, <1>17, <1>18, <1>19 DEF Step

\* While the lists that are in use gain nothing and no request finds API keys,
\* nobody shares more than before.
LEMMA SharingKept ==
  ASSUME Shapes, Typed, Shapes', Typed', SharingOK,
         LiveLists' \subseteq LiveLists,
         \A l \in ListRefs, a \in Ids, k \in KeyRefs : Holds(l, a, k)' => Holds(l, a, k),
         \A r \in Requests :
           \/ keys'[r] = None
           \/ /\ keys'[r] = keys[r] /\ list'[r] = list[r]
              /\ req'[r].id = req[r].id /\ req'[r].kind = req[r].kind
  PROVE  SharingOK'
<1>0. LiveLists \subseteq ListRefs
  BY DEF LiveLists, Shapes
<1>1. \A r \in Requests : keys'[r] \in KeyRefs \cup {None}
  BY DEF Typed
<1>2. \A l \in ListRefs, a, b \in Ids, k \in KeyRefs : Holds(l, a, k)' /\ Holds(l, b, k)' => a = b
  BY DEF SharingOK
<1>3. \A l, m \in LiveLists', a, b \in Ids, k \in KeyRefs : Holds(l, a, k)' /\ Holds(m, b, k)' => l = m
  BY <1>0 DEF SharingOK
<1>4. ASSUME NEW r \in Requests, NEW l \in LiveLists', NEW a \in Ids, keys'[r] # None, Holds(l, a, keys[r])'
      PROVE  a = req'[r].id /\ (req'[r].kind = "save" => l = list'[r])
  <2>1. PICK k \in KeyRefs : k = keys'[r] /\ keys[r] = k
    BY <1>1, <1>4
  <2>2. Holds(l, a, k)'
    BY <1>4, <2>1 DEF Holds
  <2>3. Holds(l, a, keys[r]) /\ keys[r] # None /\ l \in LiveLists
    BY <1>0, <1>4, <2>1, <2>2
  <2> QED BY <1>4, <2>3 DEF SharingOK
<1>5. \A r, q \in Requests : keys'[r] = keys'[q] /\ keys'[r] # None =>
       /\ req'[r].id = req'[q].id
       /\ req'[r].kind = "save" /\ req'[q].kind = "save" => list'[r] = list'[q]
  BY DEF SharingOK
<1> QED BY <1>2, <1>3, <1>4, <1>5 DEF SharingOK, Holds

\* A new list has objects of its own.
LEMMA SharingOfNew ==
  ASSUME Shapes, Typed, Shapes', Typed', SharingOK,
         NEW r \in Requests, NEW l \in FreeLists,
         keys' = keys, keys[r] = None, cached' = cached,
         list' = [list EXCEPT ![r] = l],
         \A q \in Requests : q # r => req'[q] = req[q],
         \A m \in ListRefs, a \in Ids, k \in KeyRefs :
           Holds(m, a, k)' => IF m = l THEN k \in FreeKeys ELSE Holds(m, a, k),
         \A a, b \in Ids, k \in KeyRefs : Holds(l, a, k)' /\ Holds(l, b, k)' => a = b
  PROVE  SharingOK'
<1>0. LiveLists \subseteq ListRefs /\ LiveLists' \subseteq LiveLists \cup {l} /\ l \in ListRefs /\ l \notin LiveLists
  BY DEF LiveLists, FreeLists, Shapes
<1>1. \A q \in Requests : keys[q] \in KeyRefs \cup {None} /\ keys[q] \notin FreeKeys
  BY DEF Typed, FreeKeys
<1>2. ASSUME NEW m \in LiveLists, NEW a \in Ids, NEW k \in FreeKeys, Holds(m, a, k) PROVE FALSE
  <2>1. k \in Used(m)
    BY <1>2 DEF Holds, Used
  <2> QED BY <2>1 DEF FreeKeys
<1>3. \A m \in ListRefs, a, b \in Ids, k \in KeyRefs : Holds(m, a, k)' /\ Holds(m, b, k)' => a = b
  BY DEF SharingOK
<1>4. ASSUME NEW m \in LiveLists', NEW n \in LiveLists', NEW a \in Ids, NEW b \in Ids, NEW k \in KeyRefs,
             Holds(m, a, k)', Holds(n, b, k)'
      PROVE  m = n
  <2>1. CASE m = l /\ n # l
    BY <1>0, <1>2, <1>4, <2>1
  <2>2. CASE m # l /\ n = l
    BY <1>0, <1>2, <1>4, <2>2
  <2>3. CASE m # l /\ n # l
    BY <1>0, <1>4, <2>3 DEF SharingOK
  <2> QED BY <2>1, <2>2, <2>3
<1>5. ASSUME NEW q \in Requests, NEW m \in LiveLists', NEW a \in Ids, keys'[q] # None, Holds(m, a, keys[q])'
      PROVE  a = req'[q].id /\ (req'[q].kind = "save" => m = list'[q])
  <2>1. PICK k \in KeyRefs : k = keys[q] /\ k \notin FreeKeys
    BY <1>1, <1>5
  <2>2. Holds(m, a, k)'
    BY <1>5, <2>1 DEF Holds
  <2>3. q # r /\ m # l /\ m \in LiveLists /\ list'[q] = list[q]
    BY <1>0, <1>5, <2>1, <2>2 DEF Shapes
  <2>4. Holds(m, a, keys[q]) /\ keys[q] # None
    BY <1>0, <1>5, <2>1, <2>2, <2>3
  <2> QED BY <2>3, <2>4 DEF SharingOK
<1>6. ASSUME NEW u \in Requests, NEW q \in Requests, keys'[u] = keys'[q], keys'[u] # None
      PROVE  /\ req'[u].id = req'[q].id
             /\ req'[u].kind = "save" /\ req'[q].kind = "save" => list'[u] = list'[q]
  <2>1. u # r /\ q # r /\ list'[u] = list[u] /\ list'[q] = list[q]
    BY <1>6 DEF Shapes
  <2> QED BY <1>6, <2>1 DEF SharingOK
<1> QED BY <1>3, <1>4, <1>5, <1>6 DEF SharingOK, Holds

\* A request that reads finds the API keys of its account, or makes a list for them.
LEMMA SharingOfFound ==
  ASSUME Shapes, Typed, Shapes', Typed', SharingOK,
         NEW r \in Requests, NEW k \in KeyRefs,
         LiveLists' = LiveLists, lists' = lists, req' = req, list' = list, req[r].id \in Ids,
         keys' = [keys EXCEPT ![r] = k],
         \/ k \in FreeKeys
         \/ \E l \in LiveLists : Holds(l, req[r].id, k) /\ (req[r].kind = "save" => l = list[r])
  PROVE  SharingOK'
<1>0. LiveLists \subseteq ListRefs
  BY DEF LiveLists, Shapes
<1>1. \A l, a, m : Holds(l, a, m)' <=> Holds(l, a, m)
  BY DEF Holds
<1>2. ASSUME k \in FreeKeys
      PROVE  (\A l \in LiveLists, a \in Ids : ~Holds(l, a, k)) /\ \A q \in Requests : keys[q] # k
  <2>1. ASSUME NEW l \in LiveLists, NEW a \in Ids, Holds(l, a, k) PROVE FALSE
    <3>1. k \in Used(l)
      BY <2>1 DEF Holds, Used
    <3> QED BY <1>2, <3>1 DEF FreeKeys
  <2> QED BY <1>2, <2>1 DEF FreeKeys
<1>3. /\ \A l \in LiveLists, a \in Ids :
           Holds(l, a, k) => a = req[r].id /\ (req[r].kind = "save" => l = list[r])
      /\ \A q \in Requests : keys[q] = k =>
           /\ req[q].id = req[r].id
           /\ req[q].kind = "save" /\ req[r].kind = "save" => list[q] = list[r]
  <2>1. CASE k \in FreeKeys
    BY <1>2, <2>1
  <2>2. CASE \E l \in LiveLists : Holds(l, req[r].id, k) /\ (req[r].kind = "save" => l = list[r])
    <3>1. PICK l \in LiveLists : Holds(l, req[r].id, k) /\ (req[r].kind = "save" => l = list[r])
      BY <2>2
    <3>2. \A m \in LiveLists, a \in Ids : Holds(m, a, k) => a = req[r].id /\ m = l
      BY <1>0, <3>1 DEF SharingOK
    <3>3. ASSUME NEW q \in Requests, keys[q] = k
          PROVE  req[r].id = req[q].id /\ (req[q].kind = "save" => l = list[q])
      <4>1. keys[q] # None /\ Holds(l, req[r].id, keys[q])
        BY <3>1, <3>3, NoneAssumption
      <4> QED BY <4>1 DEF SharingOK
    <3> QED BY <3>1, <3>2, <3>3
  <2> QED BY <2>1, <2>2
<1>4. \A q \in Requests : keys'[q] = IF q = r THEN k ELSE keys[q]
  BY DEF Typed
<1>5. \A l \in ListRefs, a, b \in Ids, m \in KeyRefs : Holds(l, a, m) /\ Holds(l, b, m) => a = b
  BY DEF SharingOK
<1>6. \A l, n \in LiveLists, a, b \in Ids, m \in KeyRefs : Holds(l, a, m) /\ Holds(n, b, m) => l = n
  BY DEF SharingOK
<1>7. \A q \in Requests, l \in LiveLists, a \in Ids :
        keys'[q] # None /\ Holds(l, a, keys'[q]) => a = req[q].id /\ (req[q].kind = "save" => l = list[q])
  BY <1>3, <1>4 DEF SharingOK
<1>8. \A u, q \in Requests : keys'[u] = keys'[q] /\ keys'[u] # None =>
        /\ req[u].id = req[q].id
        /\ req[u].kind = "save" /\ req[q].kind = "save" => list[u] = list[q]
  BY <1>3, <1>4 DEF SharingOK
<1>9. \A l, a, q : Holds(l, a, keys[q])' <=> Holds(l, a, keys'[q])
  BY DEF Holds
<1> QED BY <1>1, <1>5, <1>6, <1>7, <1>8, <1>9 DEF SharingOK

\* An account that is added has the keys of its request, or new ones.
LEMMA SharingOfAdded ==
  ASSUME Shapes, Typed, Shapes', Typed', SharingOK,
         NEW r \in Requests, NEW k \in KeyRefs,
         LiveLists' = LiveLists, list[r] \in LiveLists, req' = req, list' = list, keys' = keys, req[r].id \in Ids,
         \A l \in ListRefs, a \in Ids, m \in KeyRefs :
           Holds(l, a, m)' => Holds(l, a, m) \/ (l = list[r] /\ a = req[r].id /\ m = k),
         k \in FreeKeys \/ (k = keys[r] /\ req[r].kind = "save")
  PROVE  SharingOK'
<1>0. LiveLists \subseteq ListRefs
  BY DEF LiveLists, Shapes
<1>1. /\ \A l \in LiveLists, a \in Ids : Holds(l, a, k) => a = req[r].id /\ l = list[r]
      /\ \A q \in Requests : keys[q] = k =>
           /\ req[q].id = req[r].id
           /\ req[q].kind = "save" => list[q] = list[r]
  <2>1. CASE k \in FreeKeys
    <3>1. ASSUME NEW l \in LiveLists, NEW a \in Ids, Holds(l, a, k) PROVE FALSE
      <4>1. k \in Used(l)
        BY <3>1 DEF Holds, Used
      <4> QED BY <2>1, <4>1 DEF FreeKeys
    <3> QED BY <2>1, <3>1 DEF FreeKeys
  <2>2. CASE k = keys[r] /\ req[r].kind = "save"
    <3>1. k # None
      BY NoneAssumption
    <3> QED BY <2>2, <3>1 DEF SharingOK
  <2> QED BY <2>1, <2>2
<1>2. \A q \in Requests : keys[q] \in KeyRefs \cup {None}
  BY DEF Typed
<1>3. \A l \in ListRefs, a, b \in Ids, m \in KeyRefs : Holds(l, a, m)' /\ Holds(l, b, m)' => a = b
  BY <1>1 DEF SharingOK
<1>4. \A l, n \in LiveLists', a, b \in Ids, m \in KeyRefs : Holds(l, a, m)' /\ Holds(n, b, m)' => l = n
  BY <1>0, <1>1 DEF SharingOK
<1>5. ASSUME NEW q \in Requests, NEW l \in LiveLists', NEW a \in Ids, keys'[q] # None, Holds(l, a, keys[q])'
      PROVE  a = req[q].id /\ (req[q].kind = "save" => l = list[q])
  <2>1. PICK m \in KeyRefs : m = keys[q]
    BY <1>2, <1>5
  <2>2. Holds(l, a, m)'
    BY <1>5, <2>1 DEF Holds
  <2>3. CASE Holds(l, a, m)
    BY <1>5, <2>1, <2>3 DEF SharingOK
  <2>4. CASE l = list[r] /\ a = req[r].id /\ m = k
    BY <1>1, <2>1, <2>4
  <2> QED BY <1>0, <2>2, <2>3, <2>4
<1>6. \A u, q \in Requests : keys'[u] = keys'[q] /\ keys'[u] # None =>
        /\ req[u].id = req[q].id
        /\ req[u].kind = "save" /\ req[q].kind = "save" => list[u] = list[q]
  BY DEF SharingOK
<1> QED BY <1>3, <1>4, <1>5, <1>6 DEF SharingOK, Holds

\* The objects of a list in use are not free.
LEMMA HeldIsUsed ==
  ASSUME NEW l \in LiveLists, NEW a, NEW k, Holds(l, a, k)
  PROVE  k \notin FreeKeys
<1>1. k \in Used(l)
  BY DEF Holds, Used
<1> QED BY <1>1 DEF FreeKeys

\* No step makes two accounts share the object with their keys.
LEMMA StepSharing ==
  ASSUME EffectInv, HoleIsNoList, NEW r \in Requests, Step(r)
  PROVE  SharingOK'
<1>0. Shapes /\ PathOK /\ Typed /\ StageOK /\ UncachedOK /\ Stage(r) /\ Shapes' /\ Typed' /\ SharingOK
  BY OwnStep, StepTyped DEF EffectInv, Inv, StageOK
<1>00. None \notin ListRefs /\ None \notin Ids
  BY NoneAssumption
<1>m. ASSUME \/ Begin(r) \/ LoginLooks(r) \/ Fetch(r) \/ FillCache(r) \/ ReadHash(r) \/ RemoveAccount(r)
             \/ RemoveKey(r) \/ AddKey(r) \/ \E q \in Requests : Collide(r, q)
             \/ SetCache(r) \/ Serialize(r) \/ OpenFile(r) \/ WriteFile(r) \/ Throw(r)
      PROVE  SharingOK'
  <2>1. ASSUME NEW q \in Requests
        PROVE  \/ keys'[q] = None
               \/ /\ keys'[q] = keys[q] /\ list'[q] = list[q]
                  /\ req'[q].id = req[q].id /\ req'[q].kind = req[q].kind
    <3>1. CASE q # r
      BY <1>0, <3>1, Frame, FrameLocals
    <3>2. CASE q = r /\ pc[r] \in Keyless
      <4>1. keys[r] = None
        BY <1>0, <3>2 DEF Stage
      <4> QED BY <1>0, <1>m, <3>2, <4>1
              DEF Begin, LoginLooks, Fetch, FillCache, ReadHash, RemoveAccount, RemoveKey, AddKey, Collide,
                  SetCache, Serialize, OpenFile, WriteFile, Throw, locals, Typed
    <3>3. CASE q = r /\ pc[r] \notin Keyless
      BY <1>0, <1>m, <3>3
         DEF Begin, LoginLooks, Fetch, FillCache, ReadHash, RemoveAccount, RemoveKey, AddKey, Collide,
             SetCache, Serialize, OpenFile, WriteFile, Throw, locals, Typed, Keyless, Listless
    <3> QED BY <3>1, <3>2, <3>3
  <2>2. /\ cached' = cached \/ (cached' = list[r] /\ list[r] \in ListRefs)
        /\ list'[r] = list[r] \/ list'[r] = None \/ (list'[r] = cached /\ cached # None)
    BY <1>0, <1>m
       DEF Begin, LoginLooks, Fetch, FillCache, ReadHash, RemoveAccount, RemoveKey, AddKey, Collide,
           SetCache, Serialize, OpenFile, WriteFile, Throw, locals, heap, Shapes, Set, PathOK
  <2>3. LiveLists' \subseteq LiveLists
    <3>1. \A q \in Requests : q # r => list'[q] = list[q]
      BY <1>0, Frame
    <3> QED BY <1>00, <2>2, <3>1 DEF LiveLists
  <2>4. ASSUME NEW l \in ListRefs, NEW a \in Ids, NEW k \in KeyRefs, Holds(l, a, k)' PROVE Holds(l, a, k)
    <3>1. CASE RemoveAccount(r)
      <4>1. /\ list[r] \in ListRefs /\ lists[list[r]] \in Seq(Entry) /\ lists[list[r]] # Broken
            /\ lists' = [lists EXCEPT ![list[r]] = Unnamed(@, req[r].id)]
        BY <1>0, <3>1 DEF RemoveAccount, PathOK, Sound, Accounts, Typed
      <4>2. CASE l = list[r]
        <5>1. lists'[l] = Unnamed(lists[l], req[r].id)
          BY <1>0, <4>1, <4>2 DEF Typed
        <5>2. PICK n \in DOMAIN lists'[l] : lists'[l][n].id = a /\ lists'[l][n].keys = k
          BY <2>4 DEF Holds
        <5>3. \E i \in DOMAIN lists[l] : lists'[l][n] = lists[l][i]
          BY <4>1, <4>2, <5>1, <5>2, NamedFacts
        <5> QED BY <4>1, <4>2, <5>2, <5>3 DEF Holds
      <4>3. CASE l # list[r]
        BY <1>0, <2>4, <4>1, <4>3 DEF Typed, Holds
      <4> QED BY <4>2, <4>3
    <3>2. CASE \E q \in Requests : Collide(r, q)
      <4>1. lists'[l] = lists[l] \/ lists'[l] = Broken
        BY <1>0, <3>2 DEF Collide, Typed
      <4> QED BY <2>4, <4>1 DEF Holds
    <3>3. CASE ~(RemoveAccount(r) \/ \E q \in Requests : Collide(r, q))
      <4>1. lists' = lists
        BY <1>m, <3>3 DEF Begin, LoginLooks, Fetch, FillCache, ReadHash, RemoveKey, AddKey,
             SetCache, Serialize, OpenFile, WriteFile, Throw, heap
      <4> QED BY <2>4, <4>1 DEF Holds
    <3> QED BY <3>1, <3>2, <3>3
  <2> QED BY <1>0, <2>1, <2>3, <2>4, SharingKept
<1>1. CASE LoginCreates(r)
  <2>1. PICK a \in Ids, h \in Hashes, l \in FreeLists :
          /\ lists' = [lists EXCEPT ![l] = <<[id |-> a, hash |-> h, keys |-> FreeKey]>>]
          /\ list' = [list EXCEPT ![r] = l]
    <3>1. PICK a \in Ids \ made, h \in Hashes, l \in {FreeList} :
            /\ lists' = [lists EXCEPT ![l] = <<[id |-> a, hash |-> h, keys |-> FreeKey]>>]
            /\ list' = [list EXCEPT ![r] = l]
      BY <1>1 DEF LoginCreates
    <3>2. l \in FreeLists
      BY <1>1 DEF LoginCreates, Memory
    <3> QED BY <3>1, <3>2
  <2>2. keys' = keys /\ cached' = cached /\ keys[r] = None /\ FreeKey \in FreeKeys
    BY <1>0, <1>1 DEF LoginCreates, Stage, Keyless, Listless, Memory
  <2>3. \A q \in Requests : q # r => req'[q] = req[q]
    BY <1>0, Frame
  <2>4. l \in ListRefs /\ l \notin LiveLists
    BY DEF FreeLists
  <2>5. \A m \in ListRefs : lists'[m] = IF m = l THEN <<[id |-> a, hash |-> h, keys |-> FreeKey]>> ELSE lists[m]
    BY <1>0, <2>1, <2>4 DEF Typed
  <2>6. \A b, k : Holds(l, b, k)' => b = a /\ k = FreeKey
    <3>1. lists'[l] = <<[id |-> a, hash |-> h, keys |-> FreeKey]>>
      BY <2>4, <2>5
    <3> HIDE DEF FreeKey
    <3> QED BY <3>1 DEF Holds
  <2>8. \A b, c \in Ids, k \in KeyRefs : Holds(l, b, k)' /\ Holds(l, c, k)' => b = c
    BY <2>6
  <2>7. \A m \in ListRefs, b \in Ids, k \in KeyRefs : Holds(m, b, k)' => IF m = l THEN k \in FreeKeys ELSE Holds(m, b, k)
    <3>1. ASSUME NEW m \in ListRefs, NEW b \in Ids, NEW k \in KeyRefs, Holds(m, b, k)', m # l PROVE Holds(m, b, k)
      BY <2>5, <3>1 DEF Holds
    <3> HIDE DEF FreeKey
    <3> QED BY <2>2, <2>6, <3>1
  <2> HIDE DEF FreeKey
  <2> QED BY <1>0, <2>1, <2>2, <2>3, <2>7, <2>8, SharingOfNew
<1>2. CASE ReadFile(r)
  <2>1. PICK l \in FreeLists, new \in {Broken} \cup Seq(Entry) :
           /\ list' = [list EXCEPT ![r] = l]
           /\ lists' = [lists EXCEPT ![l] = new]
           /\ file = Broken <=> new = Broken
           /\ file # Broken => /\ \A i \in DOMAIN new : new[i].keys \in FreeKeys
                               /\ \A i, j \in DOMAIN new : new[i].keys = new[j].keys => i = j
    BY ZenonT(60), <1>0, <1>2, ReadIn
  <2>2. keys' = keys /\ cached' = cached /\ keys[r] = None /\ req' = req
    BY <1>0, <1>2 DEF ReadFile, Stage, Keyless, Listless
  <2>3. l \in ListRefs
    BY DEF FreeLists
  <2>4. \A m \in ListRefs : lists'[m] = IF m = l THEN new ELSE lists[m]
    BY <1>0, <2>1, <2>3 DEF Typed
  <2>5. \A b, c \in Ids, k \in KeyRefs : Holds(l, b, k)' /\ Holds(l, c, k)' => b = c /\ k \in FreeKeys
    BY <2>1, <2>3, <2>4 DEF Holds
  <2>6. \A m \in ListRefs, b \in Ids, k \in KeyRefs : Holds(m, b, k)' => IF m = l THEN k \in FreeKeys ELSE Holds(m, b, k)
    BY <2>4, <2>5 DEF Holds
  <2> QED BY <1>0, <2>1, <2>2, <2>5, <2>6, SharingOfNew
<1>3. CASE ReadKeys(r)
  <2>1. /\ list[r] \in ListRefs /\ FreeKey \in FreeKeys /\ FreeKey \in KeyRefs
        /\ list[r] \in LiveLists /\ req[r].id \in Ids
    BY <1>0, <1>00, <1>3, FreeFacts
       DEF ReadKeys, PathOK, LiveLists, Memory, Stage, Listless
  <2>2. PICK s \in Walks(r, list[r]) \ {Broken} :
          IF Named(s, req[r].id) # <<>>
          THEN keys' = [keys EXCEPT ![r] = Named(s, req[r].id)[1].keys]
          ELSE keys' = [keys EXCEPT ![r] = FreeKey]
    BY <1>3 DEF ReadKeys
  <2> DEFINE N == Named(s, req[r].id)
  <2>3. N # <<>> => N[1].keys \in KeyRefs /\ Holds(list[r], req[r].id, N[1].keys)
    BY <1>0, <2>1, FoundAccount
  <2>4. UNCHANGED <<cached, lists, req, list>>
    BY <1>3 DEF ReadKeys
  <2>5. LiveLists' = LiveLists
    BY <2>4 DEF LiveLists
  <2>6. CASE N = <<>>
    <3>1. keys' = [keys EXCEPT ![r] = FreeKey]
      BY <2>2, <2>6
    <3> HIDE DEF FreeKey
    <3> QED BY <1>0, <2>1, <2>4, <2>5, <3>1, SharingOfFound
  <2>7. CASE N # <<>>
    <3>1. keys' = [keys EXCEPT ![r] = N[1].keys]
      BY <2>2, <2>7
    <3> HIDE DEF N
    <3> QED BY <1>0, <2>1, <2>3, <2>4, <2>5, <2>7, <3>1, SharingOfFound
  <2> QED BY <2>6, <2>7
<1>4. CASE FindKeys(r)
  <2> DEFINE l == Searched(r)
  <2>1. l \in ListRefs /\ req[r].id \in Ids /\ req[r].kind # "save"
    BY <1>0, <1>4 DEF FindKeys, PathOK, UncachedOK, LoggingIn, Shapes, Listless, Stage, Searched
  <2>2. PICK s \in Walks(r, l) : IsSingle(r, s) /\ keys' = [keys EXCEPT ![r] = Named(s, req[r].id)[1].keys]
    BY <1>4 DEF FindKeys
  <2>3. UNCHANGED <<cached, lists, req, list>>
    BY <1>4 DEF FindKeys, heap
  <2>4. LiveLists' = LiveLists /\ l \in LiveLists
    BY <1>00, <2>1, <2>3 DEF LiveLists, Searched
  <2>5. PICK k \in KeyRefs : k = Named(s, req[r].id)[1].keys /\ Holds(l, req[r].id, k)
    BY <1>0, <2>1, <2>2, FoundKeys
  <2> HIDE DEF l
  <2> QED BY <1>0, <2>1, <2>2, <2>3, <2>4, <2>5, SharingOfFound
<1>5. CASE AddAccount(r)
  <2> DEFINE k == IF req[r].kind = "save" THEN keys[r] ELSE FreeKey
             e == [id |-> req[r].id, hash |-> hash[r], keys |-> k]
  <2>1. /\ list[r] \in ListRefs /\ FreeKey \in FreeKeys /\ FreeKey \in KeyRefs
        /\ list[r] \in LiveLists /\ req[r].id \in Ids
        /\ lists' = [lists EXCEPT ![list[r]] = Added(@, e)]
        /\ UNCHANGED <<cached, req, list, keys>>
    BY <1>0, <1>00, <1>5, FreeFacts
       DEF AddAccount, PathOK, LiveLists, Memory, Stage, Listless, locals
  <2>2. k \in KeyRefs /\ (k \in FreeKeys \/ (k = keys[r] /\ req[r].kind = "save"))
    BY <1>0, <1>5, <2>1 DEF AddAccount, Stage
  <2>3. LiveLists' = LiveLists
    BY <2>1 DEF LiveLists
  <2>4. e \in Entry /\ e.id = req[r].id /\ e.keys = k
    BY <1>0, <2>1, <2>2 DEF Entry, Typed
  <2> HIDE DEF e, k
  <2>5. \A l \in ListRefs : lists'[l] = IF l = list[r] THEN Added(lists[l], e) ELSE lists[l]
    BY <1>0, <2>1 DEF Typed
  <2>6. ASSUME NEW l \in ListRefs, NEW a \in Ids, NEW m \in KeyRefs, Holds(l, a, m)'
        PROVE  Holds(l, a, m) \/ (l = list[r] /\ a = req[r].id /\ m = k)
    <3>1. CASE l = list[r]
      <4>3. lists[l] # Broken /\ lists[l] \in Seq(Entry)
        BY <1>0, <2>5, <2>6, <3>1 DEF Added, Holds, Typed
      <4>1. PICK n \in DOMAIN Append(lists[l], e) : Append(lists[l], e)[n].id = a /\ Append(lists[l], e)[n].keys = m
        BY <2>5, <2>6, <3>1, <4>3 DEF Holds, Added
      <4>2. (n \in DOMAIN lists[l] /\ Append(lists[l], e)[n] = lists[l][n]) \/ Append(lists[l], e)[n] = e
        BY <2>1, <2>4, <3>1, <4>1, <4>3, AppendProperties, LenProperties
      <4> QED BY <2>4, <3>1, <4>1, <4>2, <4>3 DEF Holds
    <3>2. CASE l # list[r]
      BY <2>5, <2>6, <3>2 DEF Holds
    <3> QED BY <3>1, <3>2
  <2> HIDE DEF FreeKey
  <2> QED BY <1>0, <2>1, <2>2, <2>3, <2>6, SharingOfAdded
<1> QED BY <1>m, <1>1, <1>2, <1>3, <1>4, <1>5 DEF Step

\* The steps that make objects leave those in use as they are.
LEMMA LiveKept ==
  ASSUME Shapes, Typed, HoleIsNoList, NEW r \in Requests, LoginCreates(r) \/ ReadFile(r) \/ ReadKeys(r)
  PROVE  /\ \A k \in KeyRefs \ FreeKeys : keyLists'[k] = keyLists[k]
         /\ \A m \in LiveLists : lists'[m] = lists[m] /\ Snapshot(m)' = Snapshot(m)
<1>0. LiveLists \subseteq ListRefs
  BY DEF LiveLists, Shapes
<1>1. /\ \A k \in KeyRefs \ FreeKeys : keyLists'[k] = keyLists[k]
      /\ \A m \in LiveLists : lists'[m] = lists[m]
  <2>1. CASE ReadFile(r)
    <3>1. PICK l \in FreeLists, new \in {Broken} \cup Seq(Entry) :
           /\ lists' = [lists EXCEPT ![l] = new]
           /\ \A k \in KeyRefs \ FreeKeys : keyLists'[k] = keyLists[k]
      BY <2>1, ReadIn
    <3> QED BY <3>1 DEF FreeLists
  <2>2. CASE LoginCreates(r)
    <3>1. FreeList \notin LiveLists /\ FreeKey \in FreeKeys /\ keyLists' = [keyLists EXCEPT ![FreeKey] = <<>>]
      BY <2>2, FreeFacts DEF LoginCreates, Memory
    <3>2. \E new : lists' = [lists EXCEPT ![FreeList] = new]
      BY <2>2 DEF LoginCreates
    <3> HIDE DEF FreeKey, FreeList
    <3> QED BY <3>1, <3>2
  <2>3. CASE ReadKeys(r)
    <3>1. FreeKey \in FreeKeys /\ (keyLists' = [keyLists EXCEPT ![FreeKey] = <<>>] \/ keyLists' = keyLists)
          /\ lists' = lists
      BY <2>3 DEF ReadKeys, Memory
    <3>2. \A k \in KeyRefs : k # FreeKey => keyLists'[k] = keyLists[k]
      <4> HIDE DEF FreeKey
      <4> QED BY <3>1 DEF Typed
    <3> HIDE DEF FreeKey
    <3> QED BY <3>1, <3>2
  <2> QED BY <2>1, <2>2, <2>3
<1>2. ASSUME NEW m \in LiveLists PROVE Snapshot(m)' = Snapshot(m)
  <2>1. lists'[m] = lists[m]
    BY <1>1
  <2>2. ASSUME lists[m] # Broken, NEW i \in DOMAIN lists[m]
        PROVE  keyLists'[lists[m][i].keys] = keyLists[lists[m][i].keys]
    <3>1. lists[m][i] \in Entry
      <4>1. lists[m] \in Seq(Entry)
        BY <1>0, <2>2 DEF Typed
      <4> QED BY <2>2, <4>1, LenProperties
    <3>2. lists[m][i].keys \in KeyRefs /\ lists[m][i].keys \notin FreeKeys
      BY <2>2, <3>1, HeldIsUsed DEF Entry, Holds
    <3> QED BY <1>1, <3>2
  <2> QED BY <2>1, <2>2 DEF Snapshot, Text
<1> QED BY <1>1, <1>2

\* A request edits the list that it has, and no other one in use.
LEMMA ListsOfOthers ==
  ASSUME Shapes, Typed, HoleIsNoList, NEW r \in Requests, Step(r)
  PROVE  /\ \A m \in LiveLists : m # list[r] => lists'[m] = lists[m]
         /\ list'[r] \in {list[r], None, cached} \cup FreeLists
         /\ cached' \in {cached, list[r]}
<1>1. ASSUME NEW m \in LiveLists, m # list[r] PROVE lists'[m] = lists[m]
  <2>1. CASE LoginCreates(r) \/ ReadFile(r) \/ ReadKeys(r)
    BY <2>1, LiveKept
  <2>2. CASE RemoveAccount(r) \/ AddAccount(r) \/ \E q \in Requests : Collide(r, q)
    <3>1. lists' = lists \/ \E new : lists' = [lists EXCEPT ![list[r]] = new]
      BY <2>2 DEF RemoveAccount, AddAccount, Collide
    <3>2. m \in ListRefs
      BY DEF LiveLists, Shapes
    <3> QED BY <1>1, <3>1, <3>2 DEF Typed
  <2>3. CASE ~(LoginCreates(r) \/ ReadFile(r) \/ RemoveAccount(r) \/ AddAccount(r) \/ \E q \in Requests : Collide(r, q))
    <3>1. lists' = lists
      BY <2>3 DEF Step, Begin, LoginLooks, Fetch, FillCache, ReadHash, ReadKeys, FindKeys, RemoveKey, AddKey,
             SetCache, Serialize, OpenFile, WriteFile, Throw, heap
    <3> QED BY <3>1
  <2> QED BY <2>1, <2>2, <2>3
<1>2. list'[r] \in {list[r], None, cached} \cup FreeLists
  <2>1. CASE LoginCreates(r)
    BY <2>1 DEF LoginCreates, Memory, Shapes
  <2>2. CASE ReadFile(r)
    BY <2>2 DEF ReadFile, Memory, Shapes
  <2>3. CASE ~(LoginCreates(r) \/ ReadFile(r))
    BY <2>3 DEF Step, Begin, LoginLooks, Fetch, FillCache, ReadHash, ReadKeys, RemoveAccount, AddAccount, FindKeys,
           RemoveKey, AddKey, Collide, SetCache, Serialize, OpenFile, WriteFile, Throw, locals, Shapes
  <2> QED BY <2>1, <2>2, <2>3
<1>3. cached' \in {cached, list[r]}
  BY DEF Step, Begin, LoginLooks, LoginCreates, Fetch, ReadFile, FillCache, ReadHash, ReadKeys, RemoveAccount,
         AddAccount, FindKeys, RemoveKey, AddKey, Collide, SetCache, Set, Serialize, OpenFile, WriteFile, Throw, heap
<1> QED BY <1>1, <1>2, <1>3

\* Login has the default account to itself until the cache has it.
LEMMA StepLogin ==
  ASSUME EffectInv, HoleIsNoList, NEW r \in Requests, Step(r)
  PROVE  LoginOK'
<1>0. Shapes /\ PathOK /\ Typed /\ StageOK /\ Stage(r) /\ Shapes' /\ Typed' /\ LoginOK
  BY OwnStep, StepTyped DEF EffectInv, Inv, StageOK
<1> SUFFICES ASSUME NEW q \in Requests, LoggingIn(q)'
             PROVE  /\ list'[q] # cached'
                    /\ \A p \in Requests \ {q} : list'[p] # list'[q]
                    /\ \E k \in KeyRefs : lists'[list'[q]] = <<[id |-> req'[q].id, hash |-> hash'[q], keys |-> k]>>
  BY DEF LoginOK, LoggingIn
<1>1. CASE q = r
  <2>1. LoginCreates(r)
    <3>1. pc'[r] = "set" /\ req'[r].kind = "login"
      BY <1>1 DEF LoggingIn
    <3>2. CASE RemoveAccount(r) \/ AddAccount(r) \/ RemoveKey(r) \/ AddKey(r) \/ \E p \in Requests : Collide(r, p)
      BY <1>0, <3>1, <3>2 DEF RemoveAccount, AddAccount, RemoveKey, AddKey, Collide, AtAccounts, AtKeys, Stage
    <3> QED BY <1>0, <3>1, <3>2, FirstStepType
            DEF Step, Begin, LoginLooks, Fetch, ReadFile, FillCache, ReadHash, ReadKeys, FindKeys, SetCache,
                Serialize, OpenFile, WriteFile, Throw, Shapes
  <2>2. PICK a \in Ids, h \in Hashes, l \in FreeLists :
          /\ lists' = [lists EXCEPT ![l] = <<[id |-> a, hash |-> h, keys |-> FreeKey]>>]
          /\ list' = [list EXCEPT ![r] = l]
          /\ req' = [req EXCEPT ![r].id = a]
          /\ hash' = [hash EXCEPT ![r] = h]
    <3>1. PICK a \in Ids \ made, h \in Hashes, l \in {FreeList} :
            /\ lists' = [lists EXCEPT ![l] = <<[id |-> a, hash |-> h, keys |-> FreeKey]>>]
            /\ list' = [list EXCEPT ![r] = l]
            /\ req' = [req EXCEPT ![r].id = a]
            /\ hash' = [hash EXCEPT ![r] = h]
      BY <2>1 DEF LoginCreates
    <3>2. l \in FreeLists
      BY <2>1 DEF LoginCreates, Memory
    <3> QED BY <3>1, <3>2
  <2>3. cached' = cached /\ FreeKey \in KeyRefs
    BY <2>1, FreeFacts DEF LoginCreates
  <2>4. l \in ListRefs /\ l \notin LiveLists /\ l # None
    BY NoneAssumption DEF FreeLists
  <2>5. list'[r] = l /\ hash'[r] = h /\ req'[r].id = a
    <3>1. req[r] \in Posts
      BY <1>0 DEF Shapes
    <3>2. req'[r] = [req[r] EXCEPT !.id = a]
      BY <1>0, <2>2 DEF Shapes
    <3>3. req'[r].id = a
      BY <3>1, <3>2 DEF Posts
    <3> QED BY <1>0, <2>2, <3>3 DEF Shapes, Typed
  <2>6. l # cached /\ \A p \in Requests : list[p] # l
    BY <2>4 DEF LiveLists
  <2>7. lists'[l] = <<[id |-> a, hash |-> h, keys |-> FreeKey]>>
    BY <1>0, <2>2, <2>4 DEF Typed
  <2>8. \A p \in Requests \ {r} : list'[p] = list[p]
    BY <1>0, Frame
  <2> HIDE DEF FreeKey
  <2> QED BY <1>1, <2>3, <2>5, <2>6, <2>7, <2>8
<1>2. CASE q # r
  <2>1. pc'[q] = pc[q] /\ req'[q] = req[q] /\ list'[q] = list[q] /\ hash'[q] = hash[q]
    BY <1>0, <1>2, Frame, FrameLocals
  <2>2. LoggingIn(q) /\ list[q] \in ListRefs /\ list[q] # None
    BY <1>0, <2>1, NoneAssumption DEF LoggingIn, PathOK
  <2>3. PICK k \in KeyRefs : lists[list[q]] = <<[id |-> req[q].id, hash |-> hash[q], keys |-> k]>>
    BY <1>0, <2>2 DEF LoginOK
  <2>4. list[q] # cached /\ \A p \in Requests \ {q} : list[p] # list[q]
    BY <1>0, <2>2 DEF LoginOK
  <2>5. list[q] \in LiveLists /\ list[q] \notin FreeLists
    BY <2>2 DEF LiveLists, FreeLists
  <2>6. lists'[list[q]] = lists[list[q]]
    BY <1>0, <1>2, <2>4, <2>5, ListsOfOthers
  <2>7. cached' # list[q] /\ list'[r] # list[q]
    BY <1>0, <1>2, <2>2, <2>4, <2>5, ListsOfOthers
  <2>8. \A p \in Requests : p # r => list'[p] = list[p]
    BY <1>0, Frame
  <2> QED BY <2>1, <2>3, <2>4, <2>6, <2>7, <2>8
<1> QED BY <1>1, <1>2

\* Until something is cached, nothing of the service is changed.
LEMMA StepUncached ==
  ASSUME EffectInv, HoleIsNoList, NEW r \in Requests, Step(r)
  PROVE  UncachedOK'
<1>0. Shapes /\ PathOK /\ Typed /\ StageOK /\ Stage(r) /\ Shapes' /\ UncachedOK
  BY OwnStep DEF EffectInv, Inv, StageOK
<1> SUFFICES ASSUME cached' = None, NEW q \in Requests
             PROVE  /\ pc'[q] \in Listless \cup {"fill"} \/ (LoggingIn(q)' /\ file' = Absent)
                    /\ pc'[q] = "fill" => file' = Snapshot(list[q])'
  BY DEF UncachedOK, LoggingIn
<1>1. ~FillCache(r) /\ ~SetCache(r)
  BY <1>0, NoneAssumption DEF FillCache, SetCache, Set, PathOK
<1>2. cached = None
  BY <1>1 DEF Step, Begin, LoginLooks, LoginCreates, Fetch, ReadFile, ReadHash, ReadKeys, RemoveAccount,
         AddAccount, FindKeys, RemoveKey, AddKey, Collide, Serialize, OpenFile, WriteFile, Throw, heap
<1>3. pc[r] \in Listless \cup {"fill", "set"}
  BY <1>0, <1>2 DEF UncachedOK, LoggingIn
<1>4. Begin(r) \/ LoginLooks(r) \/ LoginCreates(r) \/ ReadFile(r) \/ Throw(r)
  BY <1>1, <1>2, <1>3 DEF Step, Fetch, ReadHash, ReadKeys, RemoveAccount, Listless,
         AddAccount, FindKeys, RemoveKey, AddKey, Collide, AtAccounts, AtKeys, Serialize, OpenFile, WriteFile
<1>5. file' = file
  BY <1>4 DEF Begin, LoginLooks, LoginCreates, ReadFile, Throw
<1>6. CASE q # r
  <2>1. pc'[q] = pc[q] /\ req'[q] = req[q] /\ list'[q] = list[q]
    BY <1>0, <1>6, Frame
  <2>2. /\ pc[q] \in Listless \cup {"fill"} \/ (LoggingIn(q) /\ file = Absent)
        /\ pc[q] = "fill" => file = Snapshot(list[q])
    BY <1>0, <1>2 DEF UncachedOK
  <2>3. ASSUME pc[q] = "fill" PROVE Snapshot(list[q])' = Snapshot(list[q])
    <3>1. PICK l \in LiveLists : l = list[q]
      BY <1>0, <2>3, NoneAssumption DEF PathOK, LiveLists
    <3>2. Snapshot(l)' = Snapshot(l)
      <4>1. CASE LoginCreates(r) \/ ReadFile(r)
        BY <1>0, <4>1, LiveKept
      <4>2. CASE Begin(r) \/ LoginLooks(r) \/ Throw(r)
        BY <4>2 DEF Begin, LoginLooks, Throw, heap, Snapshot, Text
      <4> QED BY <1>4, <4>1, <4>2
    <3>3. Snapshot(list[q])' = Snapshot(l)'
      BY <2>1, <3>1 DEF Snapshot, Text
    <3> QED BY <3>1, <3>2, <3>3
  <2> QED BY <1>5, <2>1, <2>2, <2>3 DEF LoggingIn
<1>7. CASE q = r
  <2>1. CASE LoginCreates(r)
    <3>1. pc'[r] = "set" /\ file = Absent /\ req'[r].kind = req[r].kind
      <4>1. PICK a : req' = [req EXCEPT ![r].id = a]
        BY <2>1 DEF LoginCreates
      <4>2. req'[r] = [req[r] EXCEPT !.id = a] /\ req[r] \in Posts
        BY <1>0, <4>1 DEF Shapes
      <4>3. req'[r].kind = req[r].kind
        BY <4>2 DEF Posts
      <4> QED BY <1>0, <2>1, <4>3 DEF LoginCreates, Shapes
    <3>2. req[r].kind = "login"
      BY <1>0, <2>1 DEF LoginCreates, Stage
    <3> QED BY <1>5, <1>7, <3>1, <3>2 DEF LoggingIn
  <2>2. CASE ReadFile(r)
    <3>1. PICK l \in FreeLists, new \in {Broken} \cup Seq(Entry) :
           /\ list' = [list EXCEPT ![r] = l]
           /\ lists' = [lists EXCEPT ![l] = new]
           /\ file = Broken <=> new = Broken
           /\ file # Broken => file = Shown(new, keyLists')
      BY <1>0, <2>2, ReadIn
    <3>2. pc'[r] = "fill" /\ list'[r] = l /\ lists'[l] = new
      BY <1>0, <2>2, <3>1 DEF ReadFile, Shapes, FreeLists
    <3>3. Snapshot(list[r])' = file
      BY <3>1, <3>2 DEF Snapshot, Text, Shown
    <3> QED BY <1>5, <1>7, <3>2, <3>3
  <2>3. CASE Begin(r) \/ LoginLooks(r) \/ Throw(r)
    BY <1>0, <1>7, <2>3 DEF Begin, LoginLooks, Throw, Shapes, Listless
  <2> QED BY <1>4, <2>1, <2>2, <2>3
<1> QED BY <1>6, <1>7

\* Nothing that was made is forgotten.
LEMMA MadeGrows ==
  ASSUME Typed, NEW r \in Requests, Step(r)
  PROVE  made \subseteq made'
<1>1. CASE Begin(r) BY <1>1 DEF Begin
<1>2. CASE LoginCreates(r) BY <1>2 DEF LoginCreates
<1>3. CASE ~(Begin(r) \/ LoginCreates(r))
  BY <1>3 DEF Step, LoginLooks, Fetch, ReadFile, FillCache, ReadHash, ReadKeys, RemoveAccount, AddAccount,
         FindKeys, RemoveKey, AddKey, Collide, SetCache, Serialize, OpenFile, WriteFile, Throw, history
<1> QED BY <1>1, <1>2, <1>3

\* Every id in use was made: SaveAccount makes one, the others take what they were shown.
LEMMA StepMade ==
  ASSUME EffectInv, HoleIsNoList, NEW r \in Requests, Step(r)
  PROVE  MadeOK'
<1>0. Shapes /\ PathOK /\ Typed /\ StageOK /\ Stage(r) /\ Shapes' /\ Typed' /\ MadeOK /\ made \subseteq made'
  BY OwnStep, StepTyped, MadeGrows DEF EffectInv, Inv, StageOK
<1>00. None \notin Ids /\ req[r] \in Operations
  BY <1>0, NoneAssumption DEF Typed
<1>1. ASSUME NEW q \in Requests, req'[q].id \in Ids PROVE req'[q].id \in made'
  <2>1. CASE q # r
    BY <1>0, <1>1, <2>1, Frame DEF MadeOK
  <2>2. CASE q = r /\ Begin(r)
    <3>1. PICK o \in Operations :
            /\ o.kind \in {"save", "delete", "newKey", "editKey", "deleteKey"} => o.id \in made
            /\ o.kind = "login" => o.id = None
            /\ req' = [req EXCEPT ![r] = o]
            /\ made' = made \cup (IF o.kind = "create" THEN {o.id} ELSE IF o.kind = "newKey" THEN {o.key} ELSE {})
      BY <2>2 DEF Begin
    <3>2. req'[r] = o
      BY <1>0, <3>1 DEF Typed
    <3>3. o.kind = "look" => o.id = None
      BY OperationParts DEF Look
    <3>4. o.kind \in {"save", "create", "delete", "newKey", "editKey", "deleteKey", "look", "login"}
      BY OperationParts
    <3> QED BY <1>00, <1>1, <2>2, <3>1, <3>2, <3>3, <3>4
  <2>3. CASE q = r /\ LoginCreates(r)
    <3>1. PICK a : req' = [req EXCEPT ![r].id = a] /\ made' = made \cup {a}
      BY <2>3 DEF LoginCreates
    <3>2. req'[r] = [req[r] EXCEPT !.id = a] /\ req[r] \in Posts
      BY <1>0, <3>1 DEF Shapes
    <3>3. req'[r].id = a
      BY <3>2 DEF Posts
    <3> QED BY <2>3, <3>1, <3>3
  <2>4. CASE q = r /\ ~(Begin(r) \/ LoginCreates(r))
    <3>1. req'[r] = req[r] \/ req'[r] = Look
      BY <1>0, <2>4 DEF Step, LoginLooks, Fetch, ReadFile, FillCache, ReadHash, ReadKeys, RemoveAccount, AddAccount,
         FindKeys, RemoveKey, AddKey, Collide, SetCache, Serialize, OpenFile, WriteFile, Throw, locals, Shapes
    <3>2. Look.id = None
      BY DEF Look
    <3> QED BY <1>0, <1>00, <1>1, <2>4, <3>1, <3>2 DEF MadeOK
  <2> QED BY <2>1, <2>2, <2>3, <2>4
<1>2. ASSUME NEW l \in ListRefs, lists'[l] # Broken, NEW i \in DOMAIN lists'[l] PROVE lists'[l][i].id \in made'
  <2>0. lists[l] # Broken => \A j \in DOMAIN lists[l] : lists[l][j].id \in made'
    BY <1>0 DEF MadeOK
  <2>1. CASE LoginCreates(r)
    <3>1. PICK a, h, m, k : /\ lists' = [lists EXCEPT ![m] = <<[id |-> a, hash |-> h, keys |-> k]>>]
                            /\ made' = made \cup {a}
      BY <2>1 DEF LoginCreates
    <3> QED BY <1>0, <1>2, <2>0, <3>1 DEF Typed
  <2>2. CASE ReadFile(r)
    <3>1. PICK m \in FreeLists, new \in {Broken} \cup Seq(Entry) :
           /\ lists' = [lists EXCEPT ![m] = new]
           /\ file = Broken <=> new = Broken
           /\ file # Broken => file = Shown(new, keyLists')
      BY <1>0, <2>2, ReadIn
    <3>2. CASE l # m
      BY <1>0, <1>2, <2>0, <3>1, <3>2 DEF Typed
    <3>3. CASE l = m
      <4>1. lists'[l] = new /\ file = Shown(new, keyLists') /\ IsList(file)
        BY <1>0, <1>2, <2>2, <3>1, <3>3 DEF ReadFile, IsList, Typed
      <4>2. \A j \in DOMAIN new : j \in DOMAIN file /\ file[j].id = new[j].id
        BY <4>1 DEF Shown
      <4> QED BY <1>0, <1>2, <4>1, <4>2 DEF MadeOK
    <3> QED BY <3>2, <3>3
  <2>3. CASE RemoveAccount(r)
    <3>1. /\ list[r] \in ListRefs /\ lists[list[r]] \in Seq(Entry) /\ lists[list[r]] # Broken
          /\ lists' = [lists EXCEPT ![list[r]] = Unnamed(@, req[r].id)]
      BY <1>0, <2>3 DEF RemoveAccount, PathOK, Sound, Accounts, Typed
    <3>2. CASE l = list[r]
      <4>1. lists'[l] = Unnamed(lists[l], req[r].id)
        BY <1>0, <3>1, <3>2 DEF Typed
      <4>2. \E j \in DOMAIN lists[l] : lists'[l][i] = lists[l][j]
        BY <1>2, <3>1, <3>2, <4>1, NamedFacts
      <4> QED BY <2>0, <3>1, <3>2, <4>2
    <3>3. CASE l # list[r]
      BY <1>0, <1>2, <2>0, <3>1, <3>3 DEF Typed
    <3> QED BY <3>2, <3>3
  <2>4. CASE AddAccount(r)
    <3>1. PICK e : /\ e.id = req[r].id
                   /\ lists' = [lists EXCEPT ![list[r]] = Added(@, e)]
      <4>1. ASSUME NEW k PROVE [id |-> req[r].id, hash |-> hash[r], keys |-> k].id = req[r].id
        OBVIOUS
      <4> QED BY <2>4, <4>1 DEF AddAccount
    <3>2. list[r] \in ListRefs /\ req[r].id \in made'
      BY <1>0, <2>4 DEF AddAccount, PathOK, Stage, Listless, MadeOK
    <3>3. CASE l = list[r]
      <4>0. lists[l] # Broken /\ lists[l] \in Seq(Entry)
        BY <1>0, <1>2, <3>1, <3>2, <3>3 DEF Added, Typed
      <4>1. lists'[l] = Append(lists[l], e)
        BY <1>0, <3>1, <3>2, <3>3, <4>0 DEF Typed, Added
      <4>2. (i \in DOMAIN lists[l] /\ lists'[l][i] = lists[l][i]) \/ lists'[l][i] = e
        <5> DEFINE s == lists[l]
        <5>1. s \in Seq(Entry) /\ i \in DOMAIN Append(s, e)
          BY <1>2, <4>0, <4>1
        <5>2. Len(s) \in Nat /\ DOMAIN s = 1..Len(s)
          BY <5>1, LenProperties
        <5> HIDE DEF s
        <5>3. (i \in DOMAIN s /\ Append(s, e)[i] = s[i]) \/ Append(s, e)[i] = e
          BY <5>1, <5>2
        <5> QED BY <4>1, <5>3 DEF s
      <4> QED BY <2>0, <3>1, <3>2, <3>3, <4>0, <4>2
    <3>4. CASE l # list[r]
      BY <1>0, <1>2, <2>0, <3>1, <3>4 DEF Typed
    <3> QED BY <3>3, <3>4
  <2>5. CASE \E q \in Requests : Collide(r, q)
    <3>1. lists'[l] = lists[l] \/ lists'[l] = Broken
      BY <1>0, <2>5 DEF Collide, Typed
    <3> QED BY <1>2, <2>0, <3>1
  <2>6. CASE ~(LoginCreates(r) \/ ReadFile(r) \/ RemoveAccount(r) \/ AddAccount(r) \/ \E q \in Requests : Collide(r, q))
    <3>1. lists' = lists
      BY <2>6 DEF Step, Begin, LoginLooks, Fetch, FillCache, ReadHash, ReadKeys, FindKeys, RemoveKey, AddKey,
             SetCache, Serialize, OpenFile, WriteFile, Throw, heap
    <3> QED BY <1>2, <2>0, <3>1
  <2> QED BY <2>1, <2>2, <2>3, <2>4, <2>5, <2>6
<1>3. IsList(file') => \A i \in DOMAIN file' : file'[i].id \in made'
  <2>1. CASE OpenFile(r) BY <2>1 DEF OpenFile, IsList
  <2>2. CASE WriteFile(r) BY <1>0, <2>2 DEF WriteFile, IsList, MadeOK
  <2>3. CASE ~(OpenFile(r) \/ WriteFile(r))
    <3>1. file' = file
      BY <2>3 DEF Step, Begin, LoginLooks, LoginCreates, Fetch, ReadFile, FillCache, ReadHash, ReadKeys,
             RemoveAccount, AddAccount, FindKeys, RemoveKey, AddKey, Collide, SetCache, Serialize, Throw
    <3> QED BY <1>0, <3>1 DEF MadeOK
  <2> QED BY <2>1, <2>2, <2>3
<1>4. ASSUME NEW q \in Requests, pc'[q] \in {"open", "write"}, IsList(json'[q]), NEW i \in DOMAIN json'[q]
      PROVE  json'[q][i].id \in made'
  <2>1. CASE q # r BY <1>0, <1>4, <2>1, Frame DEF MadeOK
  <2>2. CASE q = r /\ Serialize(r)
    <3>1. list[r] \in ListRefs
      BY <1>0, <2>2 DEF Serialize, PathOK
    <3>2. PICK s \in Walks(r, list[r]), k \in KeyWalks(r) : json'[r] = Text(s, k)
      BY <1>0, <2>2 DEF Serialize, Shapes
    <3>3. s # Broken
      BY <1>4, <2>2, <3>2 DEF Text, IsList
    <3>4. i \in DOMAIN s /\ json'[r][i].id = s[i].id
      BY <1>4, <2>2, <3>2, <3>3 DEF Text
    <3>5. lists[list[r]] # Broken /\ \E j \in DOMAIN lists[list[r]] : s[i] = lists[list[r]][j]
      BY <1>0, <3>1, <3>3, <3>4, WalkFacts
    <3> QED BY <1>0, <2>2, <3>1, <3>4, <3>5 DEF MadeOK
  <2>3. CASE q = r /\ OpenFile(r)
    BY <1>0, <1>4, <2>3 DEF OpenFile, locals, MadeOK
  <2>4. CASE q = r /\ ~(Serialize(r) \/ OpenFile(r))
    <3>1. pc'[r] \notin {"open", "write"}
      BY <1>0, <2>4, FirstStepType, AfterEditType
         DEF Step, Shapes, Begin, LoginLooks, LoginCreates, Fetch, ReadFile, FillCache, ReadHash, ReadKeys,
             RemoveAccount, AddAccount, FindKeys, RemoveKey, AddKey, Collide, SetCache, WriteFile, Throw
    <3> QED BY <1>4, <2>4, <3>1
  <2> QED BY <2>1, <2>2, <2>3, <2>4
<1> QED BY <1>1, <1>2, <1>3, <1>4 DEF MadeOK, IsList

\* The service starts with an empty cache and whatever accounts.json it was left.
LEMMA InitEffect == Init => EffectInv
<1> SUFFICES ASSUME Init PROVE EffectInv
  OBVIOUS
<1>1. Inv
  BY InitInv
<1>2. Typed
  <2>1. lists \in [ListRefs -> {Broken} \cup Seq(Entry)] /\ keyLists \in [KeyRefs -> {Broken} \cup Seq(Keys)]
    <3>1. <<>> \in Seq(Entry) /\ <<>> \in Seq(Keys)
      OBVIOUS
    <3> QED BY <3>1 DEF Init
  <2>2. file \in {Absent, Torn, Broken} \cup Seq(SavedEntry)
    <3>1. CASE file \in Left
      <4>1. PICK n \in 0..2 : file \in [1..n -> Account]
        BY <3>1 DEF Left
      <4>2. {<<>>} \cup {<<k>> : k \in Keys} \subseteq Seq(Keys)
        <5>1. <<>> \in Seq(Keys) /\ \A k \in Keys : <<k>> \in Seq(Keys)
          OBVIOUS
        <5> QED BY <5>1
      <4>3. Account \subseteq SavedEntry
        BY <4>2 DEF Account, SavedEntry
      <4>4. file \in Seq(SavedEntry)
        BY <4>1, <4>3
      <4> QED BY <4>4
    <3> QED BY <3>1 DEF Init
  <2>3. made \subseteq Ids \cup Keys
    <3>1. CASE file = Absent BY <3>1 DEF Init
    <3>2. CASE file \in Left /\ file # Absent
      <4>1. made = UNION {{file[i].id} \cup {k \in Keys : file[i].keys = <<k>>} : i \in DOMAIN file}
        BY <3>2 DEF Init
      <4>2. \A i \in DOMAIN file : file[i].id \in Ids
        <5>1. PICK n \in 0..2 : file \in [1..n -> Account]
          BY <3>2 DEF Left
        <5> QED BY <5>1 DEF Account
      <4> QED BY <4>1, <4>2
    <3> QED BY <3>1, <3>2 DEF Init
  <2> QED BY <2>1, <2>2, <2>3, LookFacts DEF Init, Typed
<1>3. StageOK
  BY DEF Init, StageOK, Stage, Listless, Keyless
<1>4. LiveLists = {} /\ \A l, a, k : l \in ListRefs => ~Holds(l, a, k)
  BY DEF Init, LiveLists, Holds
<1>5. SharingOK
  <2>1. \A r \in Requests : keys[r] = None
    BY DEF Init
  <2> QED BY <1>4, <2>1 DEF SharingOK
<1>6. UncachedOK /\ LoginOK
  BY DEF Init, UncachedOK, LoginOK, LoggingIn, Listless
<1>7. MadeOK
  <2>1. IsList(file) => \A i \in DOMAIN file : file[i].id \in made
    <3>1. ASSUME IsList(file), NEW i \in DOMAIN file PROVE file[i].id \in made
      <4>1. made = UNION {{file[j].id} \cup {k \in Keys : file[j].keys = <<k>>} : j \in DOMAIN file}
        BY <3>1 DEF Init, IsList
      <4> QED BY <3>1, <4>1
    <3> QED BY <3>1
  <2>2. Look.id \notin Ids
    BY NoneAssumption DEF Look
  <2>3. \A r \in Requests : req[r].id \notin Ids /\ pc[r] \notin {"open", "write"}
    BY <2>2 DEF Init
  <2>4. \A l \in ListRefs : DOMAIN lists[l] = {}
    BY DEF Init
  <2> QED BY <2>1, <2>3, <2>4 DEF MadeOK
<1> QED BY <1>1, <1>2, <1>3, <1>5, <1>6, <1>7 DEF EffectInv

\* A restart leaves accounts.json and no request.
LEMMA RestartEffect == EffectInv /\ Restart => EffectInv'
<1> SUFFICES ASSUME EffectInv, Restart PROVE EffectInv'
  OBVIOUS
<1>0. Shapes /\ Typed /\ SharingOK /\ MadeOK
  BY DEF EffectInv, Inv
<1>1. Inv'
  BY RestartInv DEF EffectInv
<1>2. Typed'
  BY <1>0, LookFacts DEF Restart, Typed
<1>3. StageOK'
  BY DEF Restart, StageOK, Stage, Listless, Keyless
<1>4. SharingOK'
  <2>1. LiveLists' = {} /\ \A l, a, k : Holds(l, a, k)' <=> Holds(l, a, k)
    BY DEF Restart, LiveLists, Holds
  <2>2. \A q \in Requests : keys'[q] = None
    BY DEF Restart
  <2> QED BY <1>0, <2>1, <2>2 DEF SharingOK
<1>5. UncachedOK' /\ LoginOK'
  BY DEF Restart, UncachedOK, LoginOK, LoggingIn, Listless
<1>6. MadeOK'
  <2>1. Look.id \notin Ids
    BY NoneAssumption DEF Look
  <2> QED BY <1>0, <2>1 DEF Restart, MadeOK, IsList
<1> QED BY <1>1, <1>2, <1>3, <1>4, <1>5, <1>6 DEF EffectInv

LEMMA StutterEffect == EffectInv /\ UNCHANGED vars => EffectInv'
<1> SUFFICES ASSUME EffectInv, UNCHANGED vars PROVE EffectInv'
  OBVIOUS
<1>1. Inv'
  BY StutterInv DEF EffectInv
<1>2. UNCHANGED <<cached, lists, keyLists, file, pc, req, list, hash, keys, json, made, edits, before, contested>>
  BY DEF vars, heap, locals, history
<1>3. (Typed /\ StageOK)'
  BY <1>2 DEF EffectInv, Typed, StageOK, Stage
<1>4. SharingOK'
  BY <1>2 DEF EffectInv, SharingOK, LiveLists, Holds
<1>5. (UncachedOK /\ LoginOK /\ MadeOK)'
  BY <1>2 DEF EffectInv, UncachedOK, LoginOK, LoggingIn, Snapshot, MadeOK, IsList
<1> QED BY <1>1, <1>3, <1>4, <1>5 DEF EffectInv

\* Every step keeps the whole of it.
LEMMA NextEffect == HoleIsNoList /\ EffectInv /\ [Next]_vars => EffectInv'
<1> SUFFICES ASSUME HoleIsNoList, EffectInv, [Next]_vars PROVE EffectInv'
  OBVIOUS
<1>1. ASSUME NEW r \in Requests, Step(r) PROVE EffectInv'
  <2>1. Inv'
    BY NextInv, <1>1 DEF EffectInv, Next, Step
  <2> QED BY <1>1, <2>1, StepTyped, StepStage, StepSharing, StepUncached, StepLogin, StepMade DEF EffectInv
<1> QED BY <1>1, RestartEffect, StutterEffect DEF Next, Step

\* Whatever the pages make of the cached List<Account>, edits that coincide and
\* writes that fail included, it stays a list of accounts or gets a hole, and no
\* accounts with two ids have one object as their ApiKeys: a save takes over the
\* ApiKeys of an account with its own id only, and `new()` gives an object to one.
THEOREM TypeCorrect ==
  ASSUME HoleIsNoList
  PROVE  Spec => []TypeOK
<1>1. EffectInv => TypeOK
  <2> SUFFICES ASSUME EffectInv PROVE TypeOK
    OBVIOUS
  <2>0. Shapes /\ Typed /\ SharingOK
    BY DEF EffectInv, Inv
  <2>1. \A l \in ListRefs : lists[l] = Broken \/ lists[l] \in Seq([id : Ids, hash : Hashes \cup {None}, keys : KeyRefs])
    BY <2>0 DEF Typed, Entry
  <2>2. ASSUME NEW l \in ListRefs, lists[l] # Broken, NEW i \in DOMAIN lists[l], NEW j \in DOMAIN lists[l],
               lists[l][i].keys = lists[l][j].keys
        PROVE  lists[l][i].id = lists[l][j].id
    <3>1. lists[l][i] \in Entry /\ lists[l][j] \in Entry
      <4>1. lists[l] \in Seq(Entry)
        BY <2>0, <2>2 DEF Typed
      <4> QED BY <2>2, <4>1, LenProperties
    <3>2. PICK a \in Ids, b \in Ids, k \in KeyRefs : a = lists[l][i].id /\ b = lists[l][j].id /\ k = lists[l][i].keys
      BY <3>1 DEF Entry
    <3>3. Holds(l, a, k) /\ Holds(l, b, k)
      BY <2>2, <3>2 DEF Holds
    <3> QED BY <2>0, <3>2, <3>3 DEF SharingOK
  <2>3. \A k \in KeyRefs : keyLists[k] = Broken \/ keyLists[k] \in Seq(Keys)
    BY <2>0 DEF Typed
  <2> QED BY <2>0, <2>1, <2>2, <2>3 DEF Shapes, Typed, Labels, TypeOK
<1> QED BY <1>1, InitEffect, NextEffect, PTL DEF Spec

-----------------------------------------------------------------------------
\* What the service has of an account, and who changes it.

\* No file, half a file and a list with a hole are no lists: the values that
\* stand for them are no functions.
MarksAreNoLists == HoleIsNoList /\ \A S, T : Absent \notin [S -> T] /\ Torn \notin [S -> T]

\* What list object l has of account a, with its API keys.
Seen(l, a) == IF lists[l] = Broken THEN <<>> ELSE Shown(Named(lists[l], a), keyLists)

\* What a list is, no mark is.
LEMMA ListIsNoMark ==
  ASSUME NEW T, NEW s \in Seq(T)
  PROVE  /\ HoleIsNoList => s # Broken
         /\ MarksAreNoLists => s \notin {Absent, Torn, Broken}
<1>1. PICK D : s \in [D -> T]
  BY LenProperties
<1>2. HoleIsNoList => Broken \notin [D -> T]
  BY DEF HoleIsNoList
<1>3. MarksAreNoLists => Absent \notin [D -> T] /\ Torn \notin [D -> T] /\ HoleIsNoList
  BY DEF MarksAreNoLists
<1> QED BY <1>1, <1>2, <1>3

\* What the service holds of an account once a list is cached.
ViewOK == cached # None => \A a : View(a) = Seen(cached, a)

\* With a cached list, the service has of an account what that list has.
LEMMA ViewIs ==
  ASSUME MarksAreNoLists
  PROVE  Shapes /\ Typed => ViewOK
<1> SUFFICES ASSUME Shapes, Typed, cached # None, NEW a
             PROVE  View(a) = Seen(cached, a)
  BY DEF ViewOK
<1>1. cached \in ListRefs
  BY DEF Shapes
<1>2. CASE lists[cached] = Broken
  <2>1. Snapshot(cached) = Broken
    BY <1>2 DEF Snapshot, Text
  <2> QED BY <1>2, <2>1 DEF View, Held, IsList, Seen
<1>3. CASE lists[cached] # Broken
  <2>1. /\ lists[cached] \in Seq(Entry)
        /\ Snapshot(cached) = Shown(lists[cached], keyLists)
        /\ Snapshot(cached) \in Seq(SavedEntry)
    BY <1>1, <1>3, SnapshotIs
  <2>3. IsList(Snapshot(cached))
    BY <2>1, ListIsNoMark DEF IsList
  <2>4. Named(Shown(lists[cached], keyLists), a) = Shown(Named(lists[cached], a), keyLists)
    BY <2>1, NamedShown
  <2> QED BY <1>3, <2>1, <2>3, <2>4 DEF View, Held, Seen
<1> QED BY <1>2, <1>3

\* So it has after a step.
LEMMA ViewThen ==
  ASSUME MarksAreNoLists
  PROVE  (Shapes /\ Typed => ViewOK)'
<1>1. Shapes /\ Typed => ViewOK
  BY ViewIs
<1> QED BY <1>1, PTL

\* A request edits the API keys that it has found, and no others in use.
LEMMA KeysOfOthers ==
  ASSUME EffectInv, HoleIsNoList, NEW r \in Requests, Step(r), ~\E q \in Requests : Collide(r, q),
         NEW k \in KeyRefs \ FreeKeys
  PROVE  keyLists'[k] = keyLists[k] \/ (k = keys[r] /\ pc[r] \in {"removeKey", "addKey"})
<1>0. Shapes /\ Typed
  BY DEF EffectInv, Inv
<1>1. CASE LoginCreates(r) \/ ReadFile(r) \/ ReadKeys(r)
  BY <1>0, <1>1, LiveKept
<1>2. CASE AddAccount(r)
  <2>1. FreeKey \in FreeKeys /\ (keyLists' = keyLists \/ keyLists' = [keyLists EXCEPT ![FreeKey] = <<>>])
    BY <1>2 DEF AddAccount, Memory
  <2>2. k # FreeKey
    BY <2>1
  <2> HIDE DEF FreeKey
  <2> QED BY <1>0, <2>1, <2>2 DEF Typed
<1>3. CASE RemoveKey(r) \/ AddKey(r)
  <2>1. (\E new : keyLists' = [keyLists EXCEPT ![keys[r]] = new]) /\ pc[r] \in {"removeKey", "addKey"}
    BY <1>3 DEF RemoveKey, AddKey
  <2> QED BY <1>0, <2>1 DEF Typed
<1>4. CASE ~(LoginCreates(r) \/ ReadFile(r) \/ ReadKeys(r) \/ AddAccount(r) \/ RemoveKey(r) \/ AddKey(r))
  <2>1. keyLists' = keyLists
    BY <1>4 DEF Step, Begin, LoginLooks, Fetch, FillCache, ReadHash, RemoveAccount, FindKeys, SetCache,
           Serialize, OpenFile, WriteFile, Throw, heap
  <2> QED BY <2>1
<1> QED BY <1>1, <1>2, <1>3, <1>4

\* A step of a request changes nothing of the accounts of others, in no list.
LEMMA OthersAccounts ==
  ASSUME EffectInv, HoleIsNoList, NEW r \in Requests, Step(r), ~\E q \in Requests : Collide(r, q),
         NEW m \in LiveLists, NEW a \in Ids, a # req[r].id
  PROVE  /\ lists'[m] = Broken <=> lists[m] = Broken
         /\ lists[m] # Broken => Named(lists'[m], a) = Named(lists[m], a)
         /\ Seen(m, a)' = Seen(m, a)
<1>0. Shapes /\ PathOK /\ Typed /\ Typed' /\ SharingOK /\ m \in ListRefs
  BY StepTyped DEF EffectInv, Inv, LiveLists, Shapes
<1>1. lists'[m] = Broken <=> lists[m] = Broken
  <2>1. CASE m # list[r]
    BY <1>0, <2>1, ListsOfOthers
  <2>2. CASE m = list[r] /\ (RemoveAccount(r) \/ AddAccount(r))
    <3>1. ASSUME lists[m] # Broken PROVE lists'[m] # Broken
      <4>0. lists[m] \in Seq(Entry)
        BY <1>0, <3>1 DEF Typed
      <4>1. CASE RemoveAccount(r)
        <5>1. lists'[m] = Unnamed(lists[m], req[r].id)
          BY <1>0, <2>2, <4>1 DEF RemoveAccount, Typed
        <5>2. lists'[m] \in Seq(Entry)
          BY <4>0, <5>1, NamedFacts
        <5> QED BY <5>2, ListIsNoMark
      <4>2. CASE AddAccount(r)
        <5>1. PICK e : lists'[m] = Append(lists[m], e)
          BY <1>0, <2>2, <3>1, <4>2 DEF AddAccount, Added, Typed
        <5>2. lists[m] \in Seq(Entry \cup {e}) /\ e \in Entry \cup {e}
          BY <4>0
        <5>3. Append(lists[m], e) \in Seq(Entry \cup {e})
          BY <5>2, AppendProperties
        <5> QED BY <5>1, <5>3, ListIsNoMark
      <4> QED BY <2>2, <4>1, <4>2
    <3>2. ASSUME lists[m] = Broken PROVE lists'[m] = Broken
      <4>1. AddAccount(r)
        BY <2>2, <3>2 DEF RemoveAccount, Sound, Accounts
      <4> QED BY <1>0, <2>2, <3>2, <4>1 DEF AddAccount, Added, Typed
    <3> QED BY <3>1, <3>2
  <2>3. CASE m = list[r] /\ ~(RemoveAccount(r) \/ AddAccount(r))
    <3>1. CASE LoginCreates(r) \/ ReadFile(r)
      BY <1>0, <3>1, LiveKept
    <3>2. CASE ~(LoginCreates(r) \/ ReadFile(r))
      <4>1. lists' = lists
        BY <2>3, <3>2 DEF Step, Begin, LoginLooks, Fetch, FillCache, ReadHash, ReadKeys, FindKeys, RemoveKey,
               AddKey, SetCache, Serialize, OpenFile, WriteFile, Throw, heap
      <4> QED BY <4>1
    <3> QED BY <3>1, <3>2
  <2> QED BY <2>1, <2>2, <2>3
<1>2. ASSUME lists[m] # Broken PROVE Named(lists'[m], a) = Named(lists[m], a)
  <2>0. lists[m] \in Seq(Entry)
    BY <1>0, <1>2 DEF Typed
  <2>1. CASE m = list[r] /\ RemoveAccount(r)
    <3>1. lists'[m] = Unnamed(lists[m], req[r].id)
      BY <1>0, <2>1 DEF RemoveAccount, Typed
    <3> QED BY <2>0, <3>1, NamedUnnamed
  <2>2. CASE m = list[r] /\ AddAccount(r)
    <3>1. PICK e : lists'[m] = Append(lists[m], e) /\ e.id = req[r].id
      <4>1. ASSUME NEW k PROVE [id |-> req[r].id, hash |-> hash[r], keys |-> k].id = req[r].id
        OBVIOUS
      <4> QED BY <1>0, <1>2, <2>2, <4>1 DEF AddAccount, Added, Typed
    <3>2. lists[m] \in Seq(Entry \cup {e}) /\ e \in Entry \cup {e}
      BY <2>0
    <3> QED BY <3>1, <3>2, NamedAppend
  <2>3. CASE ~(m = list[r] /\ (RemoveAccount(r) \/ AddAccount(r)))
    <3>1. lists'[m] = lists[m]
      <4>1. CASE m # list[r]
        BY <1>0, <4>1, ListsOfOthers
      <4>2. CASE m = list[r] /\ (LoginCreates(r) \/ ReadFile(r))
        BY <1>0, <4>2, LiveKept
      <4>3. CASE m = list[r] /\ ~(LoginCreates(r) \/ ReadFile(r))
        <5>1. lists' = lists
          BY <2>3, <4>3 DEF Step, Begin, LoginLooks, Fetch, FillCache, ReadHash, ReadKeys, FindKeys, RemoveKey,
                 AddKey, SetCache, Serialize, OpenFile, WriteFile, Throw, heap
        <5> QED BY <5>1
      <4> QED BY <4>1, <4>2, <4>3
    <3> QED BY <3>1
  <2> QED BY <2>1, <2>2, <2>3
<1>3. ASSUME lists[m] # Broken PROVE Shown(Named(lists[m], a), keyLists') = Shown(Named(lists[m], a), keyLists)
  <2> DEFINE N == Named(lists[m], a)
  <2>1. N \in Seq(Entry) /\ \A n \in DOMAIN N : \E i \in DOMAIN lists[m] : lists[m][i].id = a /\ N[n] = lists[m][i]
    <3>1. lists[m] \in Seq(Entry)
      BY <1>0, <1>3 DEF Typed
    <3> QED BY <3>1, NamedFacts
  <2> HIDE DEF N
  <2>2. ASSUME NEW n \in DOMAIN N PROVE keyLists'[N[n].keys] = keyLists[N[n].keys]
    <3>1. N[n] \in Entry
      BY <2>1, <2>2, LenProperties
    <3>2. PICK k \in KeyRefs : k = N[n].keys /\ Holds(m, a, k)
      BY <1>3, <2>1, <2>2, <3>1 DEF Holds, Entry
    <3>3. k \in KeyRefs \ FreeKeys
      BY <3>2, HeldIsUsed
    <3>4. k = keys[r] => a = req[r].id
      BY <1>0, <3>2, NoneAssumption DEF SharingOK
    <3> QED BY <3>2, <3>3, <3>4, KeysOfOthers
  <2>3. Shown(N, keyLists') = Shown(N, keyLists)
    BY <2>2 DEF Shown
  <2> QED BY <2>3 DEF N
<1>4. Seen(m, a)' = IF lists'[m] = Broken THEN <<>> ELSE Shown(Named(lists'[m], a), keyLists')
  BY DEF Seen
<1>5. Seen(m, a)' = Seen(m, a)
  <2>1. CASE lists[m] = Broken
    BY <1>1, <1>4, <2>1 DEF Seen
  <2>2. CASE lists[m] # Broken
    <3>1. Seen(m, a)' = Shown(Named(lists'[m], a), keyLists')
      BY <1>1, <1>4, <2>2
    <3>2. Seen(m, a) = Shown(Named(lists[m], a), keyLists)
      BY <2>2 DEF Seen
    <3> QED BY <1>2, <1>3, <2>2, <3>1, <3>2
  <2> QED BY <2>1, <2>2
<1> QED BY <1>1, <1>2, <1>5

\* What requests do before anything is cached.
LEMMA UncachedSteps ==
  ASSUME EffectInv, NEW r \in Requests, Step(r), cached = None
  PROVE  \/ Begin(r) \/ LoginLooks(r) \/ LoginCreates(r) \/ ReadFile(r) \/ Throw(r)
         \/ FillCache(r) /\ file = Snapshot(list[r]) /\ list[r] \in ListRefs
         \/ SetCache(r) /\ LoggingIn(r) /\ file = Absent /\ list[r] \in ListRefs
<1>1. PathOK /\ UncachedOK
  BY DEF EffectInv, Inv
<1>2. /\ pc[r] \in Listless \cup {"fill"} \/ (LoggingIn(r) /\ file = Absent)
      /\ pc[r] = "fill" => file = Snapshot(list[r])
  BY <1>1 DEF UncachedOK
<1>3. pc[r] \in {"fill", "set"} => list[r] \in ListRefs
  BY <1>1 DEF PathOK
<1>4. pc[r] \in Listless \cup {"fill", "set"}
  BY <1>2 DEF LoggingIn
<1>5. Begin(r) \/ LoginLooks(r) \/ LoginCreates(r) \/ ReadFile(r) \/ Throw(r) \/ FillCache(r) \/ SetCache(r)
  BY <1>4 DEF Step, Fetch, ReadHash, ReadKeys, RemoveAccount, Listless,
         AddAccount, FindKeys, RemoveKey, AddKey, Collide, AtAccounts, AtKeys, Serialize, OpenFile, WriteFile
<1> QED BY <1>2, <1>3, <1>5 DEF FillCache, SetCache, Listless

\* A request that is not under way names no account.
LEMMA IdleHasNone ==
  ASSUME EffectInv, NEW r \in Requests, pc[r] = "idle"
  PROVE  req[r] = Look /\ req[r].id \notin Ids
BY NoneAssumption DEF EffectInv, StageOK, Stage, Look

\* One step changes nothing of an account that its request does not name.
LEMMA StepUntouched ==
  ASSUME EffectInv, MarksAreNoLists, NEW r \in Requests, Step(r),
         NEW a \in Ids, a \notin contested', a # req[r].id,
         cached = None \/ cached' = cached
  PROVE  View(a)' = View(a)
<1>0. Shapes /\ Typed /\ Shapes' /\ Typed' /\ LoginOK /\ HoleIsNoList
  BY OwnStep, StepTyped DEF EffectInv, Inv, MarksAreNoLists
<1>1. ~\E q \in Requests : Collide(r, q)
  BY DEF Collide
<1>3. \A b : Seen(cached, b)' = IF lists'[cached'] = Broken THEN <<>> ELSE Shown(Named(lists'[cached'], b), keyLists')
  BY DEF Seen
<1>4. cached' # None => View(a)' = Seen(cached, a)'
  <2>1. ViewOK'
    BY <1>0, ViewThen
  <2> QED BY <2>1 DEF ViewOK
<1>5. CASE cached # None
  <2>1. cached \in LiveLists
    BY <1>5 DEF LiveLists
  <2>2. Seen(cached, a)' = Seen(cached, a)
    <3>1. PICK m \in LiveLists : m = cached /\ m = cached'
      BY <1>5, <2>1
    <3>2. Seen(m, a)' = Seen(m, a)
      BY <1>0, <1>1, OthersAccounts
    <3> QED BY <3>1, <3>2 DEF Seen
  <2> QED BY <1>0, <1>4, <1>5, <2>2, ViewIs DEF ViewOK
<1>6. CASE cached = None
  <2>1. CASE Begin(r) \/ LoginLooks(r) \/ LoginCreates(r) \/ ReadFile(r) \/ Throw(r)
    <3>1. cached' = cached /\ file' = file
      BY <2>1 DEF Begin, LoginLooks, LoginCreates, ReadFile, Throw, heap
    <3> QED BY <1>6, <3>1 DEF View, Held
  <2>2. CASE FillCache(r) /\ file = Snapshot(list[r]) /\ list[r] \in ListRefs
    <3>1. UNCHANGED <<lists, keyLists>> /\ cached' = list[r]
      BY <2>2 DEF FillCache, Set
    <3>2. Snapshot(cached)' = Snapshot(list[r]) /\ cached' # None
      BY <2>2, <3>1, NoneAssumption DEF Snapshot
    <3> QED BY <1>6, <2>2, <3>2 DEF View, Held
  <2>3. CASE SetCache(r) /\ LoggingIn(r) /\ file = Absent /\ list[r] \in ListRefs
    <3>1. PICK k \in KeyRefs : lists[list[r]] = <<[id |-> req[r].id, hash |-> hash[r], keys |-> k]>>
      BY <1>0, <2>3 DEF LoginOK
    <3>2. cached' = list[r] /\ lists' = lists /\ cached' # None
      BY <2>3, NoneAssumption DEF SetCache, Set
    <3> DEFINE s == lists[list[r]]
    <3>3. s \in Seq({s[1]}) /\ DOMAIN s = {1} /\ s[1].id = req[r].id
      BY <3>1
    <3>4. {i \in DOMAIN s : s[i].id = a} = {}
      <4> HIDE DEF s
      <4> QED BY <3>3
    <3>5. Named(s, a) = <<>>
      BY <3>4, PickedNone DEF Named
    <3>6. Seen(cached, a)' = <<>>
      <4>1. Shown(<<>>, keyLists') = <<>>
        BY DEF Shown
      <4> HIDE DEF Shown, Named
      <4> QED BY <1>3, <3>2, <3>5, <4>1
    <3>7. View(a) = <<>>
      BY <1>6, <2>3 DEF View, Held, IsList
    <3> QED BY <1>4, <3>2, <3>6, <3>7
  <2> QED BY <1>6, <2>1, <2>2, <2>3, UncachedSteps
<1> QED BY <1>5, <1>6

\* The pages share one List<Account> and lock nothing, yet a request touches only
\* the account it names: RemoveAll, Add and the edits of ApiKeys leave every other
\* account and its API keys as they were, and so do Read's filling of the cache
\* and a failing write.
THEOREM OthersUntouched ==
  ASSUME MarksAreNoLists
  PROVE  Spec => UncontestedUntouched
<1> DEFINE Untouched ==
      \A a \in Ids : View(a)' # View(a) =>
        \/ a \in contested'
        \/ \E r \in Underway : req[r].id = a
        \/ cached # None /\ cached' # cached
<1>1. ASSUME EffectInv, [Next]_vars PROVE [Untouched]_vars
  <2>1. CASE UNCHANGED vars
    BY <2>1
  <2>2. CASE Restart
    <3>1. cached # None \/ (cached' = None /\ cached = None /\ file' = file)
      BY <2>2 DEF Restart
    <3>2. cached' = None
      BY <2>2 DEF Restart
    <3>3. ASSUME cached = None, NEW a \in Ids PROVE View(a)' = View(a)
      BY <3>1, <3>3 DEF View, Held
    <3> QED BY <3>2, <3>3
  <2>3. ASSUME NEW r \in Requests, Step(r) PROVE Untouched
    <3>1. ASSUME NEW a \in Ids, ~\E q \in Underway : req[q].id = a PROVE a # req[r].id
      BY <1>1, <3>1, IdleHasNone DEF Underway
    <3> QED BY <1>1, <2>3, <3>1, StepUntouched
  <2> QED BY <1>1, <2>1, <2>2, <2>3 DEF Next, Step
<1>2. HoleIsNoList
  BY DEF MarksAreNoLists
<1> QED BY <1>1, <1>2, InitEffect, NextEffect, PTL DEF Spec, UncontestedUntouched

-----------------------------------------------------------------------------
\* What a request does to the account that it names.

\* Requests on one account.
NamesakesOK ==
  \A r, q \in Underway : r # q /\ req[r].id = req[q].id /\ req[r].id \in Ids => req[r].id \in contested

\* While any account is not contested, all that edit have the cached list.
CurrentOK ==
  contested # Ids => \A r \in Requests :
    pc[r] \notin Listless \cup {"fill"} /\ ~LoggingIn(r) => list[r] = cached

\* The password hash and the API keys that a save is to store.
HashKept(r) == IF req[r].hash = None /\ before[r] # <<>> THEN before[r][1].hash ELSE req[r].hash
KeysKept(r) == IF before[r] = <<>> THEN <<>> ELSE before[r][1].keys

\* The keys that a request has found are those of its account, the only one of that id.
HasKeys(r) ==
  /\ lists[cached] # Broken
  /\ Len(Named(lists[cached], req[r].id)) = 1
  /\ Named(lists[cached], req[r].id)[1].keys = keys[r]
  /\ Len(before[r]) = 1

\* How far request r has come with its account a.
Progress(r) ==
  LET o == req[r]
      v == View(o.id) IN
  /\ pc[r] \in {"fetch", "fill", "hash", "keys", "remove", "find", "removeKey"} => v = before[r]
  /\ pc[r] = "add" => v = <<>>
  /\ pc[r] = "add" /\ o.kind # "save" => hash[r] = o.hash
  /\ pc[r] \in {"fetch", "fill", "hash"} => hash[r] = o.hash
  /\ pc[r] = "keys" => hash[r] = HashKept(r)
  /\ pc[r] \in {"remove", "add"} /\ o.kind = "save" =>
       hash[r] = HashKept(r) /\ keyLists[keys[r]] = KeysKept(r)
  /\ pc[r] \in {"fetch", "fill", "add"} /\ o.kind = "create" => before[r] = <<>>
  /\ pc[r] \in {"removeKey", "addKey"} => HasKeys(r)
  /\ pc[r] = "addKey" => v = IF o.kind = "newKey" THEN before[r]
                             ELSE <<[before[r][1] EXCEPT !.keys = Without(@, o.key)]>>
  /\ pc[r] = "addKey" /\ o.kind = "editKey" => Without(before[r][1].keys, o.key) # Broken
  /\ pc[r] \in {"set", "serialize", "open", "write"} /\ ~LoggingIn(r) /\ Sound(r) =>
       v = Expected(o, hash[r], before[r])
  /\ LoggingIn(r) => keyLists[lists[list[r]][1].keys] = <<>>

ProgressOK == \A r \in Underway : req[r].id \in Ids \ contested => Progress(r)

\* The inductive invariant behind SoloRequestsTakeEffect.
SoloInv == EffectInv /\ NamesakesOK /\ CurrentOK /\ ProgressOK

\* What is contested stays so until the service is at rest.
LEMMA ContestedKept ==
  ASSUME Shapes, Typed, NEW r \in Requests, Step(r),
         pc'[r] # "idle" \/ \E q \in Underway : q # r
  PROVE  contested \subseteq contested'
<1>1. CASE Begin(r) BY <1>1 DEF Begin
<1>2. CASE Fetch(r) BY <1>2 DEF Fetch, Contested, Shapes
<1>3. CASE FillCache(r)
  <2>1. contested' \in {contested, Ids}
    BY <1>3 DEF FillCache, Contested, Shapes
  <2> QED BY <2>1 DEF Typed
<1>4. CASE \E q \in Requests : Collide(r, q) BY <1>4 DEF Collide, Typed
<1>5. CASE SetCache(r) BY <1>5 DEF SetCache, Typed
<1>6. CASE WriteFile(r) BY <1>6 DEF WriteFile, Contested, Shapes
<1>7. CASE Throw(r) BY <1>7 DEF Throw, Contested, Shapes
<1>8. CASE ReadHash(r) \/ ReadKeys(r) \/ FindKeys(r)
  BY <1>8 DEF ReadHash, ReadKeys, FindKeys, Looked
<1>9. CASE ~(\/ Begin(r) \/ Fetch(r) \/ FillCache(r) \/ SetCache(r) \/ WriteFile(r) \/ Throw(r)
            \/ ReadHash(r) \/ ReadKeys(r) \/ FindKeys(r) \/ \E q \in Requests : Collide(r, q))
  <2>1. contested' = contested
    BY <1>9 DEF Step, LoginLooks, LoginCreates, ReadFile, RemoveAccount, AddAccount, RemoveKey, AddKey,
           Serialize, OpenFile, history
  <2> QED BY <2>1
<1> QED BY <1>1, <1>2, <1>3, <1>4, <1>5, <1>6, <1>7, <1>8, <1>9

\* A list is put in place of the cached one, and then everything is contested.
LEMMA CacheKept ==
  ASSUME Shapes, NEW r \in Requests, Step(r), NEW q \in Underway, q # r, contested' # Ids, cached # None
  PROVE  cached' = cached
<1>1. CASE FillCache(r)
  <2>1. cached' = list[r] /\ ~Replaces(r)
    BY <1>1 DEF FillCache, Set, Contested
  <2> QED BY <2>1 DEF Replaces
<1>2. CASE SetCache(r)
  <2>1. cached' = list[r] /\ ~Replaces(r)
    BY <1>2 DEF SetCache, Set
  <2> QED BY <2>1 DEF Replaces
<1>3. CASE ~(FillCache(r) \/ SetCache(r))
  BY <1>3 DEF Step, Begin, LoginLooks, LoginCreates, Fetch, ReadFile, ReadHash, ReadKeys, RemoveAccount,
         AddAccount, FindKeys, RemoveKey, AddKey, Collide, Serialize, OpenFile, WriteFile, Throw, heap
<1> QED BY <1>1, <1>2, <1>3

\* What a request does to its own name, while it is under way.
LEMMA OwnName ==
  ASSUME EffectInv, NEW r \in Requests, Step(r), pc'[r] # "idle", req'[r].id \in Ids
  PROVE  \/ Begin(r) \/ LoginCreates(r)
         \/ req'[r] = req[r] /\ pc[r] # "idle"
<1>0. Shapes /\ PathOK
  BY DEF EffectInv, Inv
<1>1. ~LoginLooks(r)
  <2>1. LoginLooks(r) => req'[r] = Look
    BY <1>0 DEF LoginLooks, Shapes
  <2> QED BY <2>1, NoneAssumption DEF Look
<1>2. CASE Begin(r) \/ LoginCreates(r)
  BY <1>2
<1>3. CASE ~(Begin(r) \/ LoginCreates(r))
  <2>1. pc[r] # "idle"
    BY <1>0, <1>3, OwnStep
  <2>2. req'[r] = req[r]
    BY <1>0, <1>1, <1>3 DEF Step, Fetch, ReadFile, FillCache, ReadHash, ReadKeys, RemoveAccount, AddAccount,
         FindKeys, RemoveKey, AddKey, Collide, SetCache, Serialize, OpenFile, WriteFile, Throw, locals, Shapes
  <2> QED BY <2>1, <2>2
<1> QED BY <1>2, <1>3

\* Two requests come to name one account only by making it contested.
LEMMA StepNamesakes ==
  ASSUME SoloInv, NEW r \in Requests, Step(r)
  PROVE  NamesakesOK'
<1>0. EffectInv /\ Shapes /\ Typed /\ MadeOK /\ NamesakesOK
  BY DEF SoloInv, EffectInv, Inv
<1>1. ASSUME NEW u \in Requests, NEW v \in Requests, u # v, pc'[u] # "idle", pc'[v] # "idle",
             req'[u].id = req'[v].id, req'[u].id \in Ids, v # r
      PROVE  req'[u].id \in contested'
  <2>1. pc'[v] = pc[v] /\ req'[v] = req[v] /\ v \in Underway
    BY <1>0, <1>1, Frame DEF Underway
  <2>2. contested \subseteq contested'
    BY <1>0, <1>1, <2>1, ContestedKept
  <2>3. CASE u # r \/ (req'[r] = req[r] /\ pc[r] # "idle")
    <3>1. req'[u] = req[u] /\ u \in Underway
      <4>1. CASE u # r
        BY <1>0, <1>1, <4>1, Frame DEF Underway
      <4>2. CASE u = r /\ req'[r] = req[r] /\ pc[r] # "idle"
        BY <4>2 DEF Underway
      <4> QED BY <2>3, <4>1, <4>2
    <3> QED BY <1>0, <1>1, <2>1, <2>2, <3>1 DEF NamesakesOK
  <2>4. CASE u = r /\ Begin(r)
    <3>1. PICK o \in Operations :
            /\ req' = [req EXCEPT ![r] = o]
            /\ contested' = contested \cup (Ids \cap {o.id} \cap {req[q].id : q \in Underway})
      BY <2>4 DEF Begin
    <3>2. req'[r] = o
      BY <1>0, <3>1 DEF Shapes
    <3>3. o.id \in Ids \cap {o.id} \cap {req[q].id : q \in Underway}
      BY <1>1, <2>1, <2>4, <3>2
    <3> QED BY <2>4, <3>1, <3>2, <3>3
  <2>5. CASE u = r /\ LoginCreates(r)
    <3>1. PICK a \in Ids \ made : req' = [req EXCEPT ![r].id = a]
      BY <2>5 DEF LoginCreates
    <3>2. req'[r] = [req[r] EXCEPT !.id = a] /\ req[r] \in Posts
      BY <1>0, <3>1 DEF Shapes
    <3>3. req'[r].id = a
      BY <3>2 DEF Posts
    <3>4. req[v].id \in made
      BY <1>0, <1>1, <2>1 DEF MadeOK
    <3> QED BY <1>1, <2>1, <2>5, <3>1, <3>3, <3>4
  <2> QED BY <1>0, <1>1, <2>3, <2>4, <2>5, OwnName
<1>2. ASSUME NEW u \in Requests, NEW v \in Requests, u # v, pc'[u] # "idle", pc'[v] # "idle",
             req'[u].id = req'[v].id, req'[u].id \in Ids
      PROVE  req'[u].id \in contested'
  <2>1. CASE v # r
    BY <1>1, <1>2, <2>1
  <2>2. CASE v = r
    BY <1>1, <1>2, <2>2
  <2> QED BY <2>1, <2>2
<1> QED BY <1>2 DEF NamesakesOK, Underway

\* A request gets hold of the cached list, and no other takes its place.
LEMMA StepCurrent ==
  ASSUME SoloInv, HoleIsNoList, NEW r \in Requests, Step(r)
  PROVE  CurrentOK'
<1>0. EffectInv /\ Shapes /\ PathOK /\ Typed /\ CurrentOK /\ StageOK /\ Stage(r)
  BY DEF SoloInv, EffectInv, Inv, StageOK
<1> SUFFICES ASSUME contested' # Ids, NEW q \in Requests, pc'[q] \notin Listless \cup {"fill"}, ~LoggingIn(q)'
             PROVE  list'[q] = cached'
  BY DEF CurrentOK, LoggingIn
<1>1. contested \subseteq contested' => contested # Ids
  <2>1. contested' \subseteq Ids
    <3>1. Typed'
      BY <1>0, StepTyped
    <3> QED BY <3>1 DEF Typed
  <2> QED BY <2>1
<1>2. CASE q # r
  <2>1. pc'[q] = pc[q] /\ req'[q] = req[q] /\ list'[q] = list[q]
    BY <1>0, <1>2, Frame
  <2>2. q \in Underway /\ pc[q] \notin Listless \cup {"fill"} /\ ~LoggingIn(q) /\ list[q] \in ListRefs
    BY <1>0, <2>1 DEF Underway, Listless, LoggingIn, PathOK
  <2>3. list[q] = cached /\ cached # None
    BY <1>0, <1>1, <1>2, <2>2, ContestedKept, NoneAssumption DEF CurrentOK
  <2>4. cached' = cached
    BY <1>0, <1>2, <2>2, <2>3, CacheKept
  <2> QED BY <2>1, <2>3, <2>4
<1>3. CASE q = r
  <2>0. pc'[r] \notin Listless \cup {"fill"} /\ ~LoggingIn(r)'
    BY <1>3 DEF LoggingIn
  <2>1. CASE Fetch(r) \/ FillCache(r) \/ SetCache(r)
    BY <1>0, <1>3, <2>0, <2>1 DEF Fetch, FillCache, SetCache, Set, Shapes, heap, locals, Listless
  <2>2. CASE Begin(r) \/ LoginLooks(r) \/ ReadFile(r) \/ WriteFile(r) \/ Throw(r)
    BY <1>0, <2>0, <2>2 DEF Begin, LoginLooks, ReadFile, WriteFile, Throw, Shapes, Listless
  <2>3. CASE LoginCreates(r)
    <3>1. PICK a : req' = [req EXCEPT ![r].id = a]
      BY <2>3 DEF LoginCreates
    <3>2. req'[r] = [req[r] EXCEPT !.id = a] /\ req[r] \in Posts
      BY <1>0, <3>1 DEF Shapes
    <3>3. req'[r].kind = req[r].kind
      BY <3>2 DEF Posts
    <3> QED BY <1>0, <2>0, <2>3, <3>3 DEF LoginCreates, Shapes, LoggingIn, Stage
  <2>4. CASE \/ ReadHash(r) \/ ReadKeys(r) \/ RemoveAccount(r) \/ AddAccount(r) \/ FindKeys(r) \/ RemoveKey(r)
             \/ AddKey(r) \/ Serialize(r) \/ OpenFile(r) \/ \E u \in Requests : Collide(r, u)
    <3>1. /\ pc[r] \notin Listless \cup {"fill", "set"} 
          /\ list' = list /\ cached' = cached
      BY <2>4 DEF ReadHash, ReadKeys, RemoveAccount, AddAccount, FindKeys, RemoveKey, AddKey, Serialize,
             OpenFile, Collide, AtAccounts, AtKeys, heap, locals, Listless
    <3>2. pc'[r] # "idle"
      BY <2>0 DEF Listless
    <3> QED BY <1>0, <1>1, <1>3, <3>1, <3>2, ContestedKept DEF CurrentOK, LoggingIn
  <2> QED BY <2>1, <2>2, <2>3, <2>4 DEF Step
<1> QED BY <1>2, <1>3

\* A request gets on with its account while others do what they do to theirs.
LEMMA OthersProgress ==
  ASSUME SoloInv, MarksAreNoLists, NEW r \in Requests, Step(r),
         NEW q \in Requests, q # r, pc'[q] # "idle", req'[q].id \in Ids \ contested'
  PROVE  Progress(q)'
<1>0. EffectInv /\ Shapes /\ PathOK /\ Typed /\ CurrentOK /\ NamesakesOK /\ StageOK /\ Stage(q) /\ LoginOK
      /\ SharingOK /\ HoleIsNoList
  BY DEF SoloInv, EffectInv, Inv, StageOK, MarksAreNoLists
<1> DEFINE a == req[q].id
<1>1. /\ pc'[q] = pc[q] /\ req'[q] = req[q] /\ list'[q] = list[q]
      /\ hash'[q] = hash[q] /\ keys'[q] = keys[q] /\ before'[q] = before[q]
  BY <1>0, Frame, FrameLocals
<1>2. q \in Underway /\ a \in Ids /\ a \notin contested' /\ contested \subseteq contested' /\ contested' # Ids
      /\ a \notin contested /\ contested # Ids
  <2>1. q \in Underway /\ a \in Ids /\ a \notin contested'
    BY <1>1 DEF Underway
  <2> HIDE DEF a
  <2>2. contested \subseteq contested'
    BY <1>0, <2>1, ContestedKept
  <2> QED BY <2>1, <2>2
<1>3. Progress(q)
  BY <1>2 DEF SoloInv, ProgressOK
<1>4. a # req[r].id
  <2>1. CASE r \in Underway
    BY <1>0, <1>2, <2>1 DEF NamesakesOK
  <2>2. CASE r \notin Underway
    BY <1>0, <1>2, <2>2, IdleHasNone DEF Underway
  <2> QED BY <2>1, <2>2
<1>5. ~\E u \in Requests : Collide(r, u)
  BY <1>2 DEF Collide
<1>6. cached = None \/ cached' = cached
  BY <1>0, <1>2, CacheKept
<1>7. View(req[q].id)' = View(req[q].id)
  <2>1. PICK b \in Ids : b = req[q].id /\ b = req'[q].id /\ b # req[r].id /\ b \notin contested'
    BY <1>1, <1>2, <1>4
  <2>2. View(b)' = View(b)
    BY <1>0, <1>6, <2>1, StepUntouched
  <2>3. View(req[q].id)' = View(b)'
    BY <2>1 DEF View
  <2> QED BY <2>1, <2>2, <2>3
<1>9. pc[q] \in {"removeKey", "addKey"} => HasKeys(q)'
  <2>1. ASSUME pc[q] \in {"removeKey", "addKey"} PROVE HasKeys(q)'
    <3>1. HasKeys(q)
      BY <1>3, <2>1 DEF Progress
    <3>2. list[q] = cached /\ list[q] \in ListRefs
      BY <1>0, <1>2, <2>1 DEF CurrentOK, LoggingIn, Listless, PathOK
    <3>3. PICK m \in LiveLists : m = cached /\ m = cached'
      BY <1>6, <3>2, NoneAssumption DEF LiveLists
    <3>4. lists[m] # Broken
      BY <3>1, <3>3 DEF HasKeys
    <3>5. lists'[m] # Broken /\ Named(lists'[m], a) = Named(lists[m], a)
      <4> HIDE DEF a
      <4> QED BY <1>0, <1>2, <1>4, <1>5, <3>4, OthersAccounts
    <3> QED BY <1>1, <3>1, <3>3, <3>5 DEF HasKeys
  <2> QED BY <2>1
<1>10. pc[q] \in {"remove", "add"} /\ req[q].kind = "save" => keyLists'[keys[q]] = keyLists[keys[q]]
  <2>1. ASSUME pc[q] \in {"remove", "add"}, req[q].kind = "save" PROVE keyLists'[keys[q]] = keyLists[keys[q]]
    <3>1. keys[q] \in KeyRefs \ FreeKeys
      BY <1>0, <2>1 DEF Stage, FreeKeys
    <3>2. keys[q] # keys[r]
      BY <1>0, <1>4, <3>1, NoneAssumption DEF SharingOK
    <3> QED BY <1>0, <1>5, <3>1, <3>2, KeysOfOthers
  <2> QED BY <2>1
<1>11. LoggingIn(q) => keyLists'[lists'[list[q]][1].keys] = keyLists[lists[list[q]][1].keys]
  <2>1. ASSUME LoggingIn(q) PROVE keyLists'[lists'[list[q]][1].keys] = keyLists[lists[list[q]][1].keys]
    <3>1. PICK k \in KeyRefs : lists[list[q]] = <<[id |-> req[q].id, hash |-> hash[q], keys |-> k]>>
      BY <1>0, <2>1 DEF LoginOK
    <3>2. list[q] \in LiveLists /\ list[q] # list[r]
      BY <1>0, <2>1, NoneAssumption DEF LoginOK, LoggingIn, PathOK, LiveLists
    <3>3. lists'[list[q]] = lists[list[q]]
      BY <1>0, <3>2, ListsOfOthers
    <3>4. lists[list[q]] # Broken
      <4>1. lists[list[q]] \in Seq({[id |-> req[q].id, hash |-> hash[q], keys |-> k]})
        BY <3>1
      <4> QED BY <1>0, <4>1, ListIsNoMark
    <3>5. Holds(list[q], a, k)
      <4> DEFINE s == lists[list[q]]
      <4>1. 1 \in DOMAIN s /\ s[1].id = a /\ s[1].keys = k
        BY <3>1
      <4> QED BY <3>4, <4>1 DEF Holds
    <3>6. k \notin FreeKeys
      BY <3>2, <3>5, HeldIsUsed
    <3>7. k # keys[r]
      <4> HIDE DEF a
      <4> QED BY <1>0, <1>2, <1>4, <3>2, <3>5, NoneAssumption DEF SharingOK
    <3>8. keyLists'[k] = keyLists[k]
      BY <1>0, <1>5, <3>6, <3>7, KeysOfOthers
    <3>9. lists[list[q]][1].keys = k
      BY <3>1
    <3> QED BY <3>3, <3>8, <3>9
  <2> QED BY <2>1
<1>12. HashKept(q)' = HashKept(q) /\ KeysKept(q)' = KeysKept(q)
  BY <1>1 DEF HashKept, KeysKept
<1>13. LoggingIn(q)' <=> LoggingIn(q)
  BY <1>1 DEF LoggingIn
<1>14. pc[q] \in {"set", "serialize", "open", "write"} /\ Sound(q)' => Sound(q)
  <2> SUFFICES ASSUME pc[q] \in {"set", "serialize", "open", "write"} PROVE Sound(q)' => Sound(q)
    OBVIOUS
  <2>1. list[q] \in LiveLists
    BY <1>0, NoneAssumption DEF PathOK, LiveLists
  <2>2. lists'[list[q]] = Broken <=> lists[list[q]] = Broken
    <3> HIDE DEF a
    <3> QED BY <1>0, <1>2, <1>4, <1>5, <2>1, OthersAccounts
  <2> QED BY <1>1, <2>2 DEF Sound, Accounts
<1> HIDE DEF a
<1> QED BY <1>1, <1>3, <1>7, <1>9, <1>10, <1>11, <1>12, <1>13, <1>14 DEF Progress

\* What is seen of a list of one account.
LEMMA ShownFacts ==
  ASSUME NEW T, NEW s \in Seq(T), NEW kl
  PROVE  /\ Shown(s, kl) = <<>> <=> s = <<>>
         /\ Len(s) = 1 => /\ Len(Shown(s, kl)) = 1
                          /\ Shown(s, kl) = <<[id |-> s[1].id, hash |-> s[1].hash, keys |-> kl[s[1].keys]]>>
         /\ s # <<>> => /\ Shown(s, kl)[1].hash = s[1].hash
                        /\ Shown(s, kl)[1].keys = kl[s[1].keys]
<1>1. DOMAIN s = 1..Len(s) /\ Len(s) \in Nat /\ DOMAIN Shown(s, kl) = DOMAIN s
  BY LenProperties DEF Shown
<1>2. Shown(s, kl) = <<>> <=> s = <<>>
  <2>1. CASE s = <<>>
    BY <2>1 DEF Shown
  <2>2. CASE s # <<>>
    <3>1. 1 \in DOMAIN s
      BY <1>1, <2>2, EmptySeq
    <3>2. DOMAIN <<>> = {}
      OBVIOUS
    <3> HIDE DEF Shown
    <3> QED BY <1>1, <2>2, <3>1, <3>2
  <2> QED BY <2>1, <2>2
<1>3. ASSUME s # <<>>
      PROVE  Shown(s, kl)[1] = [id |-> s[1].id, hash |-> s[1].hash, keys |-> kl[s[1].keys]]
  <2>1. 1 \in DOMAIN s
    BY <1>1, <1>3, EmptySeq
  <2> QED BY <2>1 DEF Shown
<1>4. ASSUME Len(s) = 1
      PROVE  Shown(s, kl) = <<[id |-> s[1].id, hash |-> s[1].hash, keys |-> kl[s[1].keys]]>>
  <2>1. DOMAIN s = {1}
    BY <1>1, <1>4
  <2>2. Shown(s, kl) = [i \in {1} |-> [id |-> s[i].id, hash |-> s[i].hash, keys |-> kl[s[i].keys]]]
    BY <2>1 DEF Shown
  <2>3. \A e : [i \in {1} |-> e] = <<e>>
    OBVIOUS
  <2>4. [i \in {1} |-> [id |-> s[i].id, hash |-> s[i].hash, keys |-> kl[s[i].keys]]]
          = [i \in {1} |-> [id |-> s[1].id, hash |-> s[1].hash, keys |-> kl[s[1].keys]]]
    OBVIOUS
  <2> QED BY <2>2, <2>3, <2>4
<1>5. Len(s) = 1 => Len(Shown(s, kl)) = 1
  BY <1>4
<1> QED BY <1>2, <1>3, <1>4, <1>5

\* Nobody has an account of an id that was never made.
LEMMA UnmadeIsAbsent ==
  ASSUME MarksAreNoLists, Shapes, Typed, MadeOK, NEW a, a \notin made
  PROVE  View(a) = <<>>
<1>1. ASSUME NEW s, \A i \in DOMAIN s : s[i].id \in made PROVE Named(s, a) = <<>>
  <2>1. {i \in DOMAIN s : s[i].id = a} = {}
    BY <1>1
  <2> QED BY <2>1, PickedNone DEF Named
<1>2. CASE cached = None
  <2>1. View(a) = IF IsList(file) THEN Named(file, a) ELSE <<>>
    BY <1>2 DEF View, Held
  <2> QED BY <1>1, <2>1 DEF MadeOK
<1>3. CASE cached # None
  <2>1. View(a) = Seen(cached, a) /\ cached \in ListRefs
    BY <1>3, ViewIs DEF ViewOK, Shapes
  <2>2. CASE lists[cached] = Broken
    BY <2>1, <2>2 DEF Seen
  <2>3. CASE lists[cached] # Broken
    <3>1. Named(lists[cached], a) = <<>>
      BY <1>1, <2>1, <2>3 DEF MadeOK
    <3>2. View(a) = Shown(<<>>, keyLists)
      BY <2>1, <2>3, <3>1 DEF Seen
    <3> QED BY <3>2 DEF Shown
  <2> QED BY <2>2, <2>3
<1> QED BY <1>2, <1>3

\* While what is held stays, so does what is seen of it.
LEMMA HeldKept ==
  ASSUME UNCHANGED <<cached, lists, keyLists>>, cached # None \/ file' = file
  PROVE  \A a : View(a)' = View(a)
BY DEF View, Held, Snapshot, Text

\* A request on an account that nobody contests, on its way.
LEMMA OwnFacts ==
  ASSUME SoloInv, MarksAreNoLists, NEW r \in Requests, Step(r), pc'[r] # "idle",
         req'[r].id \in Ids \ contested', ~Begin(r), ~LoginCreates(r)
  PROVE  /\ EffectInv /\ Shapes /\ PathOK /\ Typed /\ Stage(r) /\ LoginOK /\ HoleIsNoList
         /\ Shapes' /\ Typed' /\ ViewOK /\ ViewOK'
         /\ req'[r] = req[r] /\ req[r].id \in Ids /\ before'[r] = before[r]
         /\ Progress(r) /\ contested # Ids /\ contested' # Ids
         /\ pc[r] \notin Listless \cup {"fill"} /\ ~LoggingIn(r) => list[r] = cached /\ cached \in LiveLists /\ cached \in ListRefs
<1>0. /\ EffectInv /\ Shapes /\ PathOK /\ Typed /\ CurrentOK /\ StageOK /\ Stage(r) /\ LoginOK /\ HoleIsNoList
  BY DEF SoloInv, EffectInv, Inv, StageOK, MarksAreNoLists
<1>1. Shapes' /\ Typed'
  BY <1>0, OwnStep, StepTyped
<1>2. ViewOK /\ ViewOK'
  BY <1>0, <1>1, ViewIs, ViewThen
<1>3. req'[r] = req[r] /\ pc[r] # "idle" /\ contested \subseteq contested'
  BY <1>0, OwnName, ContestedKept
<1>4. req[r].id \in Ids /\ req[r].id \notin contested /\ contested # Ids /\ contested' # Ids
  BY <1>3
<1>5. Progress(r)
  BY <1>3, <1>4 DEF SoloInv, ProgressOK, Underway
<1>6. before'[r] = before[r]
  BY <1>0 DEF Step, LoginLooks, Fetch, ReadFile, FillCache, ReadHash, ReadKeys, RemoveAccount, AddAccount,
       FindKeys, RemoveKey, AddKey, Collide, SetCache, Serialize, OpenFile, WriteFile, Throw, Shapes, history
<1>7. pc[r] \notin Listless \cup {"fill"} /\ ~LoggingIn(r) => list[r] = cached /\ cached \in LiveLists /\ cached \in ListRefs
  BY <1>0, <1>4, NoneAssumption DEF CurrentOK, PathOK, LiveLists, Listless
<1> QED BY <1>0, <1>1, <1>2, <1>3, <1>4, <1>5, <1>6, <1>7

\* A request begins with what the service has of its account.
LEMMA BeginProgress ==
  ASSUME SoloInv, MarksAreNoLists, NEW r \in Requests, Begin(r) \/ LoginCreates(r), pc'[r] # "idle",
         req'[r].id \in Ids \ contested'
  PROVE  Progress(r)'
<1>0. EffectInv /\ Shapes /\ PathOK /\ Typed /\ Stage(r) /\ MadeOK /\ HoleIsNoList
  BY DEF SoloInv, EffectInv, Inv, StageOK, MarksAreNoLists
<1>1. CASE Begin(r)
  <2>1. PICK o \in Operations :
          /\ o.kind = "login" => o.id = None
          /\ o.kind = "create" => o.id \notin made
          /\ req' = [req EXCEPT ![r] = o]
          /\ hash' = [hash EXCEPT ![r] = o.hash]
          /\ before' = [before EXCEPT ![r] = IF o.id = None THEN None ELSE View(o.id)]
          /\ pc' = [pc EXCEPT ![r] = IF o.kind = "login" THEN "exists" ELSE "fetch"]
    BY <1>1 DEF Begin
  <2>2. req'[r] = o /\ hash'[r] = o.hash
    BY <1>0, <2>1 DEF Typed
  <2>3. o.id # None /\ o.kind # "login"
    BY <2>1, <2>2, NoneAssumption
  <2>4. pc'[r] = "fetch" /\ before'[r] = View(o.id)
    BY <1>0, <2>1, <2>3 DEF Typed, Shapes
  <2>5. View(req[r].id)' = View(o.id)
    <3>1. UNCHANGED <<cached, lists, keyLists, file>>
      BY <1>1 DEF Begin, heap
    <3>2. View(o.id)' = View(o.id)
      BY <3>1, HeldKept
    <3>3. View(req[r].id)' = View(o.id)'
      BY <2>2 DEF View
    <3> QED BY <3>2, <3>3
  <2>6. o.kind = "create" => View(o.id) = <<>>
    BY <1>0, <2>1, UnmadeIsAbsent
  <2>7. ~LoggingIn(r)'
    BY <2>4 DEF LoggingIn
  <2> QED BY <2>2, <2>4, <2>5, <2>6, <2>7 DEF Progress
<1>2. CASE LoginCreates(r)
  <2>1. PICK a \in Ids, h \in Hashes, l \in FreeLists :
          /\ lists' = [lists EXCEPT ![l] = <<[id |-> a, hash |-> h, keys |-> FreeKey]>>]
          /\ keyLists' = [keyLists EXCEPT ![FreeKey] = <<>>]
          /\ list' = [list EXCEPT ![r] = l]
          /\ req' = [req EXCEPT ![r].id = a]
    <3>1. PICK a \in Ids \ made, h \in Hashes, l \in {FreeList} :
          /\ lists' = [lists EXCEPT ![l] = <<[id |-> a, hash |-> h, keys |-> FreeKey]>>]
          /\ keyLists' = [keyLists EXCEPT ![FreeKey] = <<>>]
          /\ list' = [list EXCEPT ![r] = l]
          /\ req' = [req EXCEPT ![r].id = a]
      BY <1>2 DEF LoginCreates
    <3>2. l \in FreeLists
      BY <1>2 DEF LoginCreates, Memory
    <3> QED BY <3>1, <3>2
  <2>2. FreeKey \in KeyRefs /\ l \in ListRefs /\ pc'[r] = "set"
    BY <1>0, <1>2, FreeFacts DEF LoginCreates, FreeLists, Shapes
  <2>3. list'[r] = l /\ lists'[l] = <<[id |-> a, hash |-> h, keys |-> FreeKey]>>
    BY <1>0, <2>1, <2>2 DEF Shapes
  <2>4. lists'[list'[r]][1].keys = FreeKey
    <3> HIDE DEF FreeKey
    <3> QED BY <2>3
  <2>5. keyLists'[FreeKey] = <<>>
    BY <1>0, <2>1, <2>2 DEF Typed
  <2>6. LoggingIn(r)'
    <3>1. req'[r] = [req[r] EXCEPT !.id = a] /\ req[r] \in Posts
      BY <1>0, <2>1 DEF Shapes
    <3>2. req'[r].kind = req[r].kind
      BY <3>1 DEF Posts
    <3> QED BY <1>0, <1>2, <2>2, <3>2 DEF LoginCreates, Stage, LoggingIn
  <2> HIDE DEF FreeKey
  <2> QED BY <2>2, <2>4, <2>5, <2>6 DEF Progress
<1> QED BY <1>1, <1>2

\* GetAccounts: the cache, or else the file
LEMMA FetchProgress ==
  ASSUME SoloInv, MarksAreNoLists, NEW r \in Requests, LoginLooks(r) \/ Fetch(r) \/ ReadFile(r) \/ FillCache(r),
         pc'[r] # "idle", req'[r].id \in Ids \ contested'
  PROVE  Progress(r)'
<1>1. /\ EffectInv /\ Shapes /\ Typed /\ Stage(r)
      /\ req'[r] = req[r] /\ req[r].id \in Ids /\ before'[r] = before[r] /\ Progress(r) /\ contested' # Ids
  <2>1. Step(r) /\ ~Begin(r) /\ ~LoginCreates(r)
    BY DEF Step, LoginLooks, Fetch, ReadFile, FillCache, Begin, LoginCreates
  <2> QED BY <2>1, OwnFacts
<1>2. ~LoginLooks(r)
  BY <1>1, NoneAssumption DEF LoginLooks, Stage
<1>3. pc[r] \in {"fetch", "fill"} /\ hash'[r] = hash[r]
  <2>1. CASE Edits(req[r])
    BY <1>2, <2>1 DEF Fetch, ReadFile, FillCache, locals
  <2>2. CASE ~Edits(req[r])
    BY <1>1, <1>2, <2>2 DEF Fetch, ReadFile, FillCache, locals, Shapes
  <2> QED BY <2>1, <2>2
<1>4. View(req[r].id) = before[r] /\ hash[r] = req[r].hash /\ (req[r].kind = "create" => before[r] = <<>>)
  BY <1>1, <1>3 DEF Progress
<1>5. View(req[r].id)' = View(req[r].id)
  <2>1. PICK a : a = req[r].id /\ a = req'[r].id
    BY <1>1
  <2>2. View(req[r].id)' = View(a)'
    BY <2>1 DEF View
  <2>3. Held' = Held
    <3>1. CASE Fetch(r)
      BY <3>1 DEF Fetch, heap, Held, Snapshot, Text
    <3>2. CASE ReadFile(r)
      BY <3>2 DEF ReadFile, Held
    <3>3. CASE FillCache(r)
      <4>1. cached' = list[r] /\ ~Replaces(r) /\ UNCHANGED <<lists, keyLists>> /\ pc[r] = "fill"
        <5>1. CASE Edits(req[r])
          BY <1>1, <3>3, <5>1 DEF FillCache, Set
        <5>2. CASE ~Edits(req[r])
          BY <1>1, <3>3, <5>2 DEF FillCache, Shapes
        <5> QED BY <5>1, <5>2
      <4>2. list[r] \in ListRefs /\ cached' # None
        BY <1>1, <4>1, NoneAssumption DEF EffectInv, Inv, PathOK
      <4>3. Snapshot(cached)' = Snapshot(list[r])
        BY <4>1 DEF Snapshot, Text
      <4>4. cached = None => file = Snapshot(list[r])
        BY <1>1, <4>1 DEF EffectInv, UncachedOK
      <4> QED BY <4>1, <4>2, <4>3, <4>4 DEF Held, Replaces
    <3> QED BY <1>2, <3>1, <3>2, <3>3
  <2>4. View(a)' = View(a)
    BY <2>3 DEF View
  <2> QED BY <2>1, <2>2, <2>4
<1>6. CASE ReadFile(r)
  <2>1. pc'[r] = "fill"
    BY <1>1, <1>6 DEF ReadFile, Shapes
  <2>2. ~LoggingIn(r)'
    BY <2>1 DEF LoggingIn
  <2> QED BY <1>1, <1>3, <1>4, <1>5, <2>1, <2>2 DEF Progress
<1>7. CASE Fetch(r) \/ FillCache(r)
  <2>1. pc'[r] = FirstStep(req[r]) /\ Edits(req[r])
    <3>1. CASE Edits(req[r])
      BY <1>1, <1>7, <3>1 DEF Fetch, FillCache, Shapes
    <3>2. CASE ~Edits(req[r])
      BY <1>1, <1>7, <3>2 DEF Fetch, FillCache, Shapes
    <3> QED BY <3>1, <3>2
  <2>2. pc'[r] \in {"hash", "keys", "add", "remove", "find"}
    BY <2>1, FirstStepType
  <2>3. ~LoggingIn(r)'
    BY <2>2 DEF LoggingIn
  <2>4. /\ pc'[r] = "hash" => req[r].kind = "save"
        /\ pc'[r] = "keys" => req[r].hash # None
        /\ pc'[r] = "add" => req[r].kind = "create"
        /\ pc'[r] = "remove" => req[r].kind = "delete"
    BY <2>1, FirstStepIs
  <2>5. pc'[r] = "keys" => hash'[r] = HashKept(r)'
    BY <1>1, <1>3, <1>4, <2>4 DEF HashKept
  <2>6. pc'[r] \in {"hash", "keys", "add", "remove", "find"} => View(req[r].id)' = before'[r]
    BY <1>1, <1>4, <1>5
  <2> QED BY <1>1, <1>3, <1>4, <2>2, <2>3, <2>4, <2>5, <2>6 DEF Progress
<1> QED BY <1>2, <1>6, <1>7

\* "Preserve old password hash", "Preserve old api keys"
LEMMA ReadProgress ==
  ASSUME SoloInv, MarksAreNoLists, NEW r \in Requests, ReadHash(r) \/ ReadKeys(r),
         pc'[r] # "idle", req'[r].id \in Ids \ contested'
  PROVE  Progress(r)'
<1> DEFINE N == Named(lists[list[r]], req[r].id)
<1>0. pc[r] \in {"hash", "keys"}
  BY DEF ReadHash, ReadKeys
<1>1. /\ EffectInv /\ Shapes /\ PathOK /\ Typed /\ Stage(r) /\ ViewOK /\ HoleIsNoList
      /\ req'[r] = req[r] /\ req[r].id \in Ids /\ before'[r] = before[r] /\ Progress(r)
      /\ list[r] = cached /\ cached \in LiveLists /\ cached \in ListRefs
  <2>1. Step(r) /\ ~Begin(r) /\ ~LoginCreates(r)
    BY <1>0 DEF Step, Begin, LoginCreates
  <2> QED BY <1>0, <2>1, OwnFacts DEF LoggingIn, Listless
<1>2. PICK s \in Walks(r, list[r]) \ {Broken} :
        /\ Looked(r, s, list[r])
        /\ ReadHash(r) => hash' = [hash EXCEPT ![r] = HashOf(Named(s, req[r].id))]
        /\ ReadKeys(r) => IF Named(s, req[r].id) # <<>>
                          THEN keys' = [keys EXCEPT ![r] = Named(s, req[r].id)[1].keys] /\ UNCHANGED keyLists
                          ELSE keys' = [keys EXCEPT ![r] = FreeKey] /\ keyLists' = [keyLists EXCEPT ![FreeKey] = <<>>]
  <2>1. CASE ReadHash(r)
    BY <2>1 DEF ReadHash, ReadKeys
  <2>2. CASE ReadKeys(r)
    BY <2>2 DEF ReadHash, ReadKeys
  <2> QED BY <2>1, <2>2
<1>3. Named(s, req[r].id) = N
  BY <1>1, <1>2 DEF Looked
<1>4. lists[list[r]] # Broken /\ cached # None /\ N \in Seq(Entry)
  <2>1. lists[list[r]] # Broken
    BY <1>1, <1>2, WalkFacts
  <2> QED BY <1>1, <1>2, <1>3, <2>1, FoundAccount, NoneAssumption
<1>5. View(req[r].id) = before[r] /\ Shown(N, keyLists) = before[r]
  <2>1. View(req[r].id) = before[r]
    BY <1>0, <1>1 DEF Progress
  <2> QED BY <1>1, <1>4, <2>1 DEF ViewOK, Seen
<1>6. /\ before[r] = <<>> <=> N = <<>>
      /\ N # <<>> => before[r][1].hash = N[1].hash /\ before[r][1].keys = keyLists[N[1].keys]
  <2> HIDE DEF N
  <2> QED BY <1>5, <1>4, ShownFacts
<1>7. View(req[r].id)' = before[r]
  <2>1. PICK a : a = req[r].id /\ a = req'[r].id
    BY <1>1
  <2>2. View(req[r].id)' = View(a)'
    BY <2>1 DEF View
  <2>3. PICK m \in LiveLists : m = cached /\ m = cached'
    BY <1>1 DEF ReadHash, ReadKeys, heap
  <2>4. Snapshot(m)' = Snapshot(m)
    <3>1. CASE ReadHash(r)
      BY <3>1 DEF ReadHash, heap, Snapshot, Text
    <3>2. CASE ReadKeys(r)
      BY <1>1, <3>2, LiveKept
    <3> QED BY <3>1, <3>2
  <2>5. Snapshot(cached)' = Snapshot(m)'
    BY <2>3 DEF Snapshot, Text
  <2>6. Held' = Held
    BY <1>4, <2>3, <2>4, <2>5 DEF Held
  <2>7. View(a)' = View(a)
    BY <2>6 DEF View
  <2> QED BY <1>5, <2>1, <2>2, <2>7
<1>8. CASE ReadHash(r)
  <2>1. pc[r] = "hash" /\ pc'[r] = "keys" /\ hash'[r] = HashOf(N) /\ req[r].hash = None
    BY <1>1, <1>2, <1>8, <1>3 DEF ReadHash, Typed, Shapes, Stage
  <2>2. hash'[r] = HashKept(r)'
    <3> HIDE DEF N
    <3> QED BY <1>1, <1>6, <2>1 DEF HashOf, HashKept
  <2>3. ~LoggingIn(r)'
    BY <2>1 DEF LoggingIn
  <2> QED BY <1>1, <1>7, <2>1, <2>2, <2>3 DEF Progress
<1>9. CASE ReadKeys(r)
  <2>1. pc[r] = "keys" /\ pc'[r] = "remove" /\ hash'[r] = hash[r] /\ FreeKey \in KeyRefs
    BY <1>1, <1>9, FreeFacts DEF ReadKeys, Shapes
  <2>2. HashKept(r)' = HashKept(r) /\ KeysKept(r)' = KeysKept(r)
    BY <1>1 DEF HashKept, KeysKept
  <2>3. hash[r] = HashKept(r)
    BY <1>1, <2>1 DEF Progress
  <2>4. keyLists'[keys'[r]] = KeysKept(r)
    <3>1. CASE N # <<>>
      <4>1. keys'[r] = N[1].keys /\ keyLists' = keyLists
        BY <1>1, <1>2, <1>9, <1>3, <3>1 DEF Typed
      <4> HIDE DEF N
      <4> QED BY <1>6, <3>1, <4>1 DEF KeysKept
    <3>2. CASE N = <<>>
      <4>1. keys'[r] = FreeKey /\ keyLists'[FreeKey] = <<>>
        <5>1. keys' = [keys EXCEPT ![r] = FreeKey] /\ keyLists' = [keyLists EXCEPT ![FreeKey] = <<>>]
          BY <1>2, <1>9, <1>3, <3>2
        <5> HIDE DEF FreeKey
        <5> QED BY <1>1, <2>1, <5>1 DEF Typed
      <4> HIDE DEF N
      <4> QED BY <1>6, <3>2, <4>1 DEF KeysKept
    <3> QED BY <3>1, <3>2
  <2>5. ~LoggingIn(r)'
    BY <2>1 DEF LoggingIn
  <2> QED BY <1>1, <1>7, <2>1, <2>2, <2>3, <2>4, <2>5 DEF Progress
<1> QED BY <1>8, <1>9

\* accounts.RemoveAll, accounts.Add
LEMMA EditProgress ==
  ASSUME SoloInv, MarksAreNoLists, NEW r \in Requests, RemoveAccount(r) \/ AddAccount(r),
         pc'[r] # "idle", req'[r].id \in Ids \ contested'
  PROVE  Progress(r)'
<1>0. pc[r] \in {"remove", "add"}
  BY DEF RemoveAccount, AddAccount
<1>1. /\ EffectInv /\ Shapes /\ PathOK /\ Typed /\ Stage(r) /\ ViewOK /\ ViewOK' /\ HoleIsNoList /\ Typed'
      /\ req'[r] = req[r] /\ req[r].id \in Ids /\ before'[r] = before[r] /\ Progress(r)
      /\ list[r] = cached /\ cached \in LiveLists /\ cached \in ListRefs
  <2>1. Step(r) /\ ~Begin(r) /\ ~LoginCreates(r)
    BY <1>0 DEF Step, Begin, LoginCreates
  <2> QED BY <1>0, <2>1, OwnFacts DEF LoggingIn, Listless
<1>2. PICK m \in ListRefs, a \in Ids : m = cached /\ m = list[r] /\ a = req[r].id /\ a = req'[r].id
  BY <1>1
<1>3. cached # None /\ cached' = m /\ (lists[m] # Broken => lists[m] \in Seq(Entry))
  <2>1. cached' = cached
    BY DEF RemoveAccount, AddAccount
  <2> QED BY <1>1, <1>2, <2>1, NoneAssumption DEF Typed
<1>4. View(req[r].id)' = IF lists'[m] = Broken THEN <<>> ELSE Shown(Named(lists'[m], a), keyLists')
  <2>1. View(req[r].id)' = View(a)'
    BY <1>2 DEF View
  <2>2. View(a)' = Seen(cached, a)'
    BY <1>1, <1>2, <1>3, NoneAssumption DEF ViewOK
  <2>3. Seen(cached, a)' = IF lists'[m] = Broken THEN <<>> ELSE Shown(Named(lists'[m], a), keyLists')
    BY <1>3 DEF Seen
  <2> QED BY <2>1, <2>2, <2>3
<1>5. lists[m] # Broken => View(req[r].id) = Shown(Named(lists[m], a), keyLists)
  BY <1>1, <1>2, <1>3 DEF ViewOK, Seen
<1>6. HashKept(r)' = HashKept(r) /\ KeysKept(r)' = KeysKept(r)
  BY <1>1 DEF HashKept, KeysKept
<1>7. CASE RemoveAccount(r)
  <2>0. lists[m] # Broken
    BY <1>2, <1>7 DEF RemoveAccount, Sound, Accounts
  <2>1. /\ lists'[m] = Unnamed(lists[m], a) /\ keyLists' = keyLists /\ hash' = hash /\ keys' = keys
        /\ pc[r] = "remove" /\ req[r].kind \in {"save", "delete"}
        /\ pc'[r] = IF req[r].kind = "save" THEN "add" ELSE "set"
    BY <1>1, <1>2, <1>7 DEF RemoveAccount, Typed, locals, Stage, AfterEdit, Shapes
  <2>2. Shown(<<>>, keyLists') = <<>>
    BY DEF Shown
  <2>3. Named(lists'[m], a) = <<>>
    BY <1>3, <2>0, <2>1, NamedUnnamed
  <2>4. View(req[r].id)' = <<>>
    <3> HIDE DEF Shown
    <3> QED BY <1>4, <2>2, <2>3
  <2>5. CASE req[r].kind = "save"
    <3>1. hash[r] = HashKept(r) /\ keyLists[keys[r]] = KeysKept(r)
      BY <1>1, <2>1, <2>5 DEF Progress
    <3>2. ~LoggingIn(r)'
      BY <2>1, <2>5 DEF LoggingIn
    <3> QED BY <1>1, <1>6, <2>1, <2>4, <2>5, <3>1, <3>2 DEF Progress
  <2>6. CASE req[r].kind = "delete"
    <3>1. Expected(req'[r], hash'[r], before'[r]) = <<>>
      BY <1>1, <2>6 DEF Expected
    <3>2. ~LoggingIn(r)'
      BY <1>1, <2>6 DEF LoggingIn
    <3> QED BY <1>1, <2>1, <2>4, <2>6, <3>1, <3>2 DEF Progress
  <2> QED BY <2>1, <2>5, <2>6
<1>8. CASE AddAccount(r) /\ lists[m] # Broken
  <2> DEFINE k == IF req[r].kind = "save" THEN keys[r] ELSE FreeKey
             e == [id |-> a, hash |-> hash[r], keys |-> k]
  <2>1. /\ pc[r] = "add" /\ req[r].kind \in {"save", "create"} /\ pc'[r] = "set"
        /\ hash' = hash /\ keys' = keys /\ FreeKey \in KeyRefs
    BY <1>1, <1>8, FreeFacts DEF AddAccount, locals, Stage, AfterEdit, Shapes
  <2>2. lists'[m] = Append(lists[m], e)
    BY <1>1, <1>2, <1>3, <1>8 DEF AddAccount, Added, Typed
  <2>3. e \in Entry /\ e.id = a /\ k \in KeyRefs
    BY <1>1, <1>2, <2>1 DEF Entry, Typed, Stage
  <2>4. View(req[r].id) = <<>>
    BY <1>1, <2>1 DEF Progress
  <2>5. Named(lists[m], a) = <<>>
    <3>1. Named(lists[m], a) \in Seq(Entry)
      BY <1>3, <1>8, NamedFacts
    <3> QED BY <1>5, <1>8, <2>4, <3>1, ShownFacts
  <2>6. Named(lists'[m], a) = <<e>>
    <3> HIDE DEF e
    <3>1. Named(Append(lists[m], e), a) = Append(<<>>, e)
      BY <1>3, <1>8, <2>3, <2>5, NamedAppend
    <3> QED BY <2>2, <3>1
  <2>7. lists'[m] # Broken
    <3> HIDE DEF e
    <3>1. Append(lists[m], e) \in Seq(Entry)
      BY <1>3, <1>8, <2>3, AppendProperties
    <3> QED BY <1>1, <2>2, <3>1, ListIsNoMark
  <2>8. View(req[r].id)' = <<[id |-> a, hash |-> hash[r], keys |-> keyLists'[k]]>>
    <3>1. View(req[r].id)' = Shown(<<e>>, keyLists')
      <4> HIDE DEF e, k
      <4> QED BY <1>4, <2>6, <2>7
    <3>2. Shown(<<e>>, keyLists') = <<[id |-> e.id, hash |-> e.hash, keys |-> keyLists'[e.keys]]>>
      <4> HIDE DEF e
      <4>1. <<e>> \in Seq(Entry) /\ Len(<<e>>) = 1 /\ <<e>>[1] = e
        BY <2>3
      <4> QED BY <4>1, ShownFacts
    <3> QED BY <3>1, <3>2
  <2>9. CASE req[r].kind = "save"
    <3>1. hash[r] = HashKept(r) /\ keyLists[keys[r]] = KeysKept(r)
      BY <1>1, <2>1, <2>9 DEF Progress
    <3>2. keyLists' = keyLists /\ k = keys[r]
      BY <1>8, <2>9 DEF AddAccount
    <3>3. View(req[r].id)' = <<[id |-> a, hash |-> HashKept(r), keys |-> KeysKept(r)]>>
      <4> HIDE DEF k
      <4> QED BY <2>8, <3>1, <3>2
    <3>4. Expected(req[r], hash[r], before[r]) = <<[id |-> a, hash |-> HashKept(r), keys |-> KeysKept(r)]>>
      BY <1>2, <2>9 DEF Expected, HashKept, KeysKept
    <3>5. ~LoggingIn(r)'
      BY <1>1, <2>9 DEF LoggingIn
    <3> QED BY <1>1, <2>1, <3>3, <3>4, <3>5 DEF Progress
  <2>10. CASE req[r].kind = "create"
    <3>1. hash[r] = req[r].hash
      BY <1>1, <2>1, <2>10 DEF Progress
    <3>2. req[r].hash = None
      <4>1. req[r] \in Operations
        BY <1>1 DEF Typed
      <4> QED BY <2>10, <4>1, OperationParts
    <3>3. keyLists'[k] = <<>>
      <4>1. keyLists' = [keyLists EXCEPT ![k] = <<>>]
        BY <1>8, <2>10 DEF AddAccount
      <4> HIDE DEF k
      <4> QED BY <1>1, <2>3, <4>1 DEF Typed
    <3>4. View(req[r].id)' = <<[id |-> a, hash |-> None, keys |-> <<>>]>>
      <4> HIDE DEF k
      <4> QED BY <2>8, <3>1, <3>2, <3>3
    <3>5. Expected(req[r], hash[r], before[r]) = <<[id |-> a, hash |-> None, keys |-> <<>>]>>
      BY <1>2, <2>10 DEF Expected
    <3>6. ~LoggingIn(r)'
      BY <1>1, <2>10 DEF LoggingIn
    <3> QED BY <1>1, <2>1, <3>4, <3>5, <3>6 DEF Progress
  <2> QED BY <2>1, <2>9, <2>10
<1>9. CASE AddAccount(r) /\ lists[m] = Broken
  <2>1. pc'[r] = "set" /\ req[r].kind \in {"save", "create"}
    BY <1>1, <1>9 DEF AddAccount, Stage, AfterEdit, Shapes
  <2>2. ~Sound(r)'
    <3>1. lists'[m] = Broken /\ list'[r] = m
      BY <1>1, <1>2, <1>9 DEF AddAccount, Added, Typed, locals
    <3> QED BY <3>1 DEF Sound, Accounts
  <2>3. ~LoggingIn(r)'
    BY <1>1, <2>1 DEF LoggingIn
  <2> QED BY <2>1, <2>2, <2>3 DEF Progress
<1> QED BY <1>7, <1>8, <1>9

\* accounts.Single(...).ApiKeys
LEMMA FindProgress ==
  ASSUME SoloInv, MarksAreNoLists, NEW r \in Requests, FindKeys(r),
         pc'[r] # "idle", req'[r].id \in Ids \ contested'
  PROVE  Progress(r)'
<1>0. pc[r] = "find"
  BY DEF FindKeys
<1>1. /\ Typed /\ Shapes /\ Stage(r) /\ ViewOK
      /\ req'[r] = req[r] /\ req[r].id \in Ids /\ before'[r] = before[r] /\ Progress(r)
      /\ list[r] = cached /\ cached \in ListRefs
  <2>1. Step(r) /\ ~Begin(r) /\ ~LoginCreates(r)
    BY <1>0 DEF Step, Begin, LoginCreates
  <2> QED BY <1>0, <2>1, OwnFacts DEF LoggingIn, Listless
<1> DEFINE N == Named(lists[cached], req[r].id)
<1>2. /\ lists[cached] # Broken /\ Len(N) = 1 /\ N \in Seq(Entry)
      /\ keys'[r] = N[1].keys /\ UNCHANGED <<cached, lists, keyLists, file, hash>>
      /\ pc'[r] = IF req[r].kind = "newKey" THEN "addKey" ELSE "removeKey"
  <2>1. PICK s \in Walks(r, cached) :
          IsSingle(r, s) /\ keys' = [keys EXCEPT ![r] = Named(s, req[r].id)[1].keys] /\ Looked(r, s, cached)
    BY <1>1 DEF FindKeys, Searched
  <2>2. Named(s, req[r].id) = N
    BY <1>1, <2>1 DEF Looked
  <2>3. s # Broken /\ Len(N) = 1 /\ keys'[r] = N[1].keys
    BY <1>1, <2>1, <2>2 DEF IsSingle, Typed
  <2>4. lists[cached] # Broken /\ N \in Seq(Entry)
    BY <1>1, <2>1, <2>2, <2>3, FoundAccount, WalkFacts
  <2> QED BY <1>1, <2>3, <2>4 DEF FindKeys, Shapes, heap
<1>3. cached # None
  BY <1>1, NoneAssumption
<1>4. View(req[r].id) = before[r] /\ before[r] = Shown(N, keyLists)
  BY <1>0, <1>1, <1>2, <1>3 DEF Progress, ViewOK, Seen
<1>5. Len(before[r]) = 1
  <2> HIDE DEF N
  <2> QED BY <1>2, <1>4, ShownFacts
<1>6. View(req[r].id)' = before[r]
  <2>1. PICK a : a = req[r].id /\ a = req'[r].id
    BY <1>1
  <2>2. View(req[r].id)' = View(a)'
    BY <2>1 DEF View
  <2>3. View(a)' = View(a)
    BY <1>2, HeldKept
  <2> QED BY <1>4, <2>1, <2>2, <2>3
<1>7. HasKeys(r)'
  BY <1>1, <1>2, <1>5 DEF HasKeys
<1>8. ~LoggingIn(r)'
  BY <1>2 DEF LoggingIn
<1> QED BY <1>1, <1>2, <1>6, <1>7, <1>8 DEF Progress

\* ApiKeys.RemoveAll, ApiKeys.Add
LEMMA KeysProgress ==
  ASSUME SoloInv, MarksAreNoLists, NEW r \in Requests, RemoveKey(r) \/ AddKey(r),
         pc'[r] # "idle", req'[r].id \in Ids \ contested'
  PROVE  Progress(r)'
<1>0. pc[r] \in {"removeKey", "addKey"}
  BY DEF RemoveKey, AddKey
<1>1. /\ Typed /\ Shapes /\ Stage(r) /\ ViewOK /\ ViewOK' /\ HoleIsNoList
      /\ req'[r] = req[r] /\ req[r].id \in Ids /\ before'[r] = before[r] /\ Progress(r)
      /\ list[r] = cached /\ cached \in ListRefs
  <2>1. Step(r) /\ ~Begin(r) /\ ~LoginCreates(r)
    BY <1>0 DEF Step, Begin, LoginCreates
  <2> QED BY <1>0, <2>1, OwnFacts DEF LoggingIn, Listless
<1> DEFINE N == Named(lists[cached], req[r].id)
<1>2. HasKeys(r) /\ keys[r] \in KeyRefs /\ cached # None
  BY <1>0, <1>1, NoneAssumption DEF Progress, Stage
<1>3. lists[cached] # Broken /\ Len(N) = 1 /\ N[1].keys = keys[r] /\ Len(before[r]) = 1 /\ N \in Seq(Entry)
  <2>1. lists[cached] # Broken /\ Len(N) = 1 /\ N[1].keys = keys[r] /\ Len(before[r]) = 1
    BY <1>2 DEF HasKeys
  <2>2. lists[cached] \in Walks(r, cached)
    BY DEF Walks
  <2>3. N \in Seq(Entry)
    BY <1>1, <2>1, <2>2, FoundAccount
  <2> QED BY <2>1, <2>3
<1>4. /\ UNCHANGED <<cached, lists, hash, keys>> /\ pc'[r] = AfterEdit(r)
      /\ keyLists' = [keyLists EXCEPT ![keys[r]] = IF pc[r] = "removeKey" THEN Without(@, req[r].key)
                                                   ELSE Added(@, req[r].key)]
  BY <1>1 DEF RemoveKey, AddKey, locals, Shapes
<1>5. keyLists'[keys[r]] = IF pc[r] = "removeKey" THEN Without(keyLists[keys[r]], req[r].key)
                           ELSE Added(keyLists[keys[r]], req[r].key)
  BY <1>1, <1>2, <1>4 DEF Typed
<1>6. View(req[r].id) = <<[id |-> N[1].id, hash |-> N[1].hash, keys |-> keyLists[keys[r]]]>>
  <2>1. View(req[r].id) = Shown(N, keyLists)
    BY <1>1, <1>2, <1>3 DEF ViewOK, Seen
  <2> HIDE DEF N
  <2> QED BY <1>3, <2>1, ShownFacts
<1>7. View(req[r].id)' = <<[id |-> N[1].id, hash |-> N[1].hash, keys |-> keyLists'[keys[r]]]>>
  <2>1. PICK a : a = req[r].id /\ a = req'[r].id
    BY <1>1
  <2>2. View(req[r].id)' = View(a)'
    BY <2>1 DEF View
  <2>3. View(a)' = Seen(cached, a)'
    BY <1>1, <1>2, <1>4 DEF ViewOK
  <2>4. Seen(cached, a)' = Shown(N, keyLists')
    BY <1>3, <1>4, <2>1 DEF Seen
  <2>5. View(req[r].id)' = Shown(N, keyLists')
    BY <2>2, <2>3, <2>4
  <2> HIDE DEF N
  <2> QED BY <1>3, <2>5, ShownFacts
<1>8. HasKeys(r)'
  BY <1>1, <1>2, <1>4 DEF HasKeys
<1> DEFINE b == before[r]
           o == req[r]
<1>9. CASE pc[r] = "removeKey"
  <2>1. View(o.id) = b /\ o.kind \in {"editKey", "deleteKey"}
    BY <1>1, <1>9 DEF Progress, Stage
  <2>2. View(req[r].id)' = <<[b[1] EXCEPT !.keys = Without(@, o.key)]>>
    <3>1. b[1] = [id |-> N[1].id, hash |-> N[1].hash, keys |-> keyLists[keys[r]]]
      BY <1>6, <2>1
    <3> HIDE DEF N, b
    <3> QED BY <1>5, <1>7, <1>9, <3>1
  <2>3. CASE o.kind = "editKey"
    <3>1. pc'[r] = "addKey"
      BY <1>4, <1>9, <2>3 DEF AfterEdit
    <3>2. ~LoggingIn(r)'
      BY <3>1 DEF LoggingIn
    <3>3. Without(b[1].keys, o.key) # Broken
      <4>1. keyLists[keys[r]] \in Seq(Keys)
        BY <1>1, <1>2, <1>9 DEF RemoveKey, AddKey, SoundKeys, Typed
      <4>2. b[1].keys = keyLists[keys[r]]
        <5>1. b = <<[id |-> N[1].id, hash |-> N[1].hash, keys |-> keyLists[keys[r]]]>>
          BY <1>6, <2>1
        <5> HIDE DEF N, b
        <5> QED BY <5>1
      <4>3. Without(keyLists[keys[r]], o.key) \in Seq(Keys)
        BY <4>1, WithoutIsList
      <4> HIDE DEF b
      <4> QED BY <1>1, <4>2, <4>3, ListIsNoMark
    <3> QED BY <1>1, <1>8, <2>2, <2>3, <3>1, <3>2, <3>3 DEF Progress
  <2>4. CASE o.kind = "deleteKey"
    <3>1. pc'[r] = "set"
      BY <1>4, <2>4 DEF AfterEdit
    <3>2. ~LoggingIn(r)'
      BY <1>1, <2>4 DEF LoggingIn
    <3>3. Expected(req'[r], hash'[r], before'[r]) = <<[b[1] EXCEPT !.keys = Without(@, o.key)]>>
      BY <1>1, <2>4 DEF Expected
    <3> QED BY <1>1, <2>2, <3>1, <3>2, <3>3 DEF Progress
  <2> QED BY <2>1, <2>3, <2>4
<1>10. CASE pc[r] = "addKey"
  <2>1. o.kind \in {"newKey", "editKey"} /\ pc'[r] = "set"
    BY <1>1, <1>4, <1>10 DEF Stage, AfterEdit
  <2>2. View(o.id) = IF o.kind = "newKey" THEN b ELSE <<[b[1] EXCEPT !.keys = Without(@, o.key)]>>
    BY <1>1, <1>10 DEF Progress
  <2>3. ~LoggingIn(r)'
    BY <1>1, <2>1 DEF LoggingIn
  <2>4. CASE o.kind = "newKey"
    <3>1. b[1] = [id |-> N[1].id, hash |-> N[1].hash, keys |-> keyLists[keys[r]]]
      BY <1>6, <2>2, <2>4
    <3>2. View(req[r].id)' = <<[b[1] EXCEPT !.keys = Added(@, o.key)]>>
      <4> HIDE DEF N, b
      <4>1. PICK n : n = keyLists'[keys[r]] /\ n = Added(keyLists[keys[r]], o.key)
        BY <1>5, <1>10
      <4>2. b[1].keys = keyLists[keys[r]] /\ [b[1] EXCEPT !.keys = n] = [id |-> N[1].id, hash |-> N[1].hash, keys |-> n]
        BY <3>1
      <4> QED BY <1>7, <4>1, <4>2
    <3>3. Expected(req'[r], hash'[r], before'[r]) = <<[b[1] EXCEPT !.keys = Added(@, o.key)]>>
      BY <1>1, <2>4 DEF Expected
    <3> QED BY <1>1, <2>1, <2>3, <3>2, <3>3 DEF Progress
  <2>5. CASE o.kind = "editKey"
    <3>1. [b[1] EXCEPT !.keys = Without(@, o.key)] = [id |-> N[1].id, hash |-> N[1].hash, keys |-> keyLists[keys[r]]]
      <4>1. \A x, y : <<x>> = <<y>> => x = y
        OBVIOUS
      <4> HIDE DEF N, b
      <4> QED BY <1>6, <2>2, <2>5, <4>1
    <3>2. View(req[r].id)' = <<[b[1] EXCEPT !.keys = Append(Without(@, o.key), o.key)]>>
      <4> HIDE DEF N, b
      <4>1. PICK n : n = keyLists'[keys[r]] /\ n = Added(keyLists[keys[r]], o.key)
        BY <1>5, <1>10
      <4>2. PICK w : w = Without(b[1].keys, o.key) /\ w # Broken
        BY <1>1, <1>10, <2>5 DEF Progress, b
      <4>3. [b[1] EXCEPT !.keys = w] = [id |-> N[1].id, hash |-> N[1].hash, keys |-> keyLists[keys[r]]]
        BY <3>1, <4>2
      <4>4. DOMAIN b[1] = {"id", "hash", "keys"}
        BY <4>3
      <4>5. w = keyLists[keys[r]] /\ b[1].id = N[1].id /\ b[1].hash = N[1].hash
        BY <4>3, <4>4
      <4>6. [b[1] EXCEPT !.keys = n] = [id |-> N[1].id, hash |-> N[1].hash, keys |-> n]
        BY <4>4, <4>5
      <4>7. n = Append(w, o.key)
        BY <4>1, <4>2, <4>5 DEF Added
      <4> QED BY <1>7, <4>1, <4>2, <4>6, <4>7
    <3>3. Expected(req'[r], hash'[r], before'[r]) = <<[b[1] EXCEPT !.keys = Append(Without(@, o.key), o.key)]>>
      BY <1>1, <2>5 DEF Expected
    <3> QED BY <1>1, <2>1, <2>3, <3>2, <3>3 DEF Progress
  <2> QED BY <2>1, <2>4, <2>5
<1> QED BY <1>0, <1>9, <1>10

\* PutAccounts
LEMMA PutProgress ==
  ASSUME SoloInv, MarksAreNoLists, NEW r \in Requests, SetCache(r) \/ Serialize(r) \/ OpenFile(r),
         pc'[r] # "idle", req'[r].id \in Ids \ contested'
  PROVE  Progress(r)'
<1>0. pc[r] \in {"set", "serialize", "open"}
  BY DEF SetCache, Serialize, OpenFile
<1>1. /\ Typed /\ Shapes /\ Stage(r) /\ LoginOK /\ ViewOK /\ ViewOK' /\ PathOK /\ HoleIsNoList
      /\ req'[r] = req[r] /\ req[r].id \in Ids /\ before'[r] = before[r] /\ Progress(r) /\ contested' # Ids
      /\ ~LoggingIn(r) => list[r] = cached /\ cached \in ListRefs
  <2>1. Step(r) /\ ~Begin(r) /\ ~LoginCreates(r)
    BY <1>0 DEF Step, Begin, LoginCreates
  <2> QED BY <1>0, <2>1, OwnFacts DEF Listless
<1>2. /\ UNCHANGED <<lists, keyLists, hash>> /\ pc'[r] \in {"serialize", "open", "write"}
      /\ cached' = IF pc[r] = "set" THEN list[r] ELSE cached
  BY <1>1 DEF SetCache, Set, Serialize, OpenFile, heap, locals, Shapes
<1>3. ~LoggingIn(r)'
  BY <1>2 DEF LoggingIn
<1>4. ASSUME Sound(r) PROVE View(req[r].id)' = Expected(req[r], hash[r], before[r])
  <2>1. PICK a \in Ids : a = req[r].id /\ a = req'[r].id
    BY <1>1
  <2>2. View(req[r].id)' = View(a)'
    BY <2>1 DEF View
  <2>3. CASE ~LoggingIn(r)
    <3>1. cached # None /\ cached' = cached
      BY <1>1, <1>2, <2>3, NoneAssumption
    <3>2. View(a)' = View(a)
      BY <1>2, <3>1, HeldKept
    <3>3. View(req[r].id) = Expected(req[r], hash[r], before[r])
      BY <1>0, <1>1, <1>4, <2>3 DEF Progress
    <3> QED BY <2>1, <2>2, <3>2, <3>3
  <2>4. CASE LoggingIn(r)
    <3>1. PICK k \in KeyRefs : lists[list[r]] = <<[id |-> req[r].id, hash |-> hash[r], keys |-> k]>>
      BY <1>1, <2>4 DEF LoginOK
    <3>2. cached' = list[r] /\ cached' # None
      BY <1>1, <1>2, <2>4, NoneAssumption DEF LoggingIn, PathOK
    <3> DEFINE s == lists[list[r]]
    <3>3. s \in Seq({s[1]}) /\ DOMAIN s = {1} /\ Len(s) = 1 /\ s[1].id = a /\ s[1].hash = hash[r] /\ s[1].keys = k
      <4>1. ASSUME NEW e PROVE <<e>> \in Seq({e}) /\ DOMAIN <<e>> = {1} /\ Len(<<e>>) = 1 /\ <<e>>[1] = e
        OBVIOUS
      <4>2. PICK e : e = [id |-> a, hash |-> hash[r], keys |-> k]
        OBVIOUS
      <4>3. e.id = a /\ e.hash = hash[r] /\ e.keys = k
        BY <4>2
      <4>4. s = <<e>>
        BY <2>1, <3>1, <4>2
      <4>5. PICK t : t = <<e>>
        OBVIOUS
      <4>6. t \in Seq({e}) /\ DOMAIN t = {1} /\ Len(t) = 1 /\ t[1] = e
        BY <4>1, <4>5
      <4> HIDE DEF s
      <4>7. s = t
        BY <4>4, <4>5
      <4>8. s \in Seq({e}) /\ DOMAIN s = {1} /\ Len(s) = 1 /\ s[1] = e
        BY <4>6, <4>7
      <4> QED BY <4>3, <4>8
    <3>4. s # Broken
      <4> HIDE DEF s
      <4> QED BY <1>1, <3>3, ListIsNoMark
    <3>5. Len(Named(s, a)) = 1 /\ Named(s, a) \in Seq({s[1]}) /\ Named(s, a)[1] = s[1]
      <4>1. {i \in DOMAIN s : s[i].id = a} = DOMAIN s
        <5> HIDE DEF s
        <5> QED BY <3>3
      <4>2. Named(s, a) = Picked(s, DOMAIN s)
        BY <4>1 DEF Named
      <4>3. DOMAIN s \in SUBSET DOMAIN s /\ Cardinality(DOMAIN s) = 1
        <5> HIDE DEF s
        <5> QED BY <3>3, FS_Singleton
      <4>4. Picked(s, DOMAIN s) \in Seq({s[1]}) /\ DOMAIN Picked(s, DOMAIN s) = 1..1
        <5> HIDE DEF s
        <5> QED BY <3>3, <4>3, PickedPlaces
      <4> HIDE DEF s
      <4> QED BY <4>2, <4>4
    <3>6. View(a)' = Shown(Named(s, a), keyLists)
      <4>1. View(a)' = Seen(cached, a)'
        BY <1>1, <3>2 DEF ViewOK
      <4> QED BY <1>2, <3>2, <3>4, <4>1 DEF Seen
    <3>7. View(a)' = <<[id |-> a, hash |-> hash[r], keys |-> keyLists[k]]>>
      <4> HIDE DEF s
      <4> QED BY <3>3, <3>5, <3>6, ShownFacts
    <3>8. keyLists[k] = <<>>
      <4>1. keyLists[lists[list[r]][1].keys] = <<>>
        BY <1>1, <2>4 DEF Progress
      <4> HIDE DEF s
      <4> QED BY <3>3, <4>1 DEF s
    <3>9. Expected(req[r], hash[r], before[r]) = <<[id |-> a, hash |-> hash[r], keys |-> <<>>]>>
      BY <2>1, <2>4 DEF Expected, LoggingIn
    <3> QED BY <2>2, <3>7, <3>8, <3>9
  <2> QED BY <2>3, <2>4
<1>5. Sound(r)' => Sound(r)
  BY <1>0, <1>2 DEF Sound, Accounts, SetCache, Serialize, OpenFile, locals
<1> QED BY <1>1, <1>2, <1>3, <1>4, <1>5 DEF Progress

\* Every step keeps what the requests have come to.
LEMMA NextSolo == MarksAreNoLists /\ SoloInv /\ [Next]_vars => SoloInv'
<1> SUFFICES ASSUME MarksAreNoLists, SoloInv, [Next]_vars PROVE SoloInv'
  OBVIOUS
<1>0. EffectInv' /\ Shapes /\ HoleIsNoList
  BY NextEffect DEF SoloInv, MarksAreNoLists, EffectInv, Inv
<1>1. ASSUME NEW r \in Requests, Step(r) PROVE SoloInv'
  <2>1. ASSUME NEW q \in Requests, pc'[q] # "idle", req'[q].id \in Ids \ contested' PROVE Progress(q)'
    <3>1. CASE q # r
      BY <1>1, <2>1, <3>1, OthersProgress
    <3>2. CASE q = r
      <4>1. ~(WriteFile(r) \/ Throw(r))
        BY <1>0, <2>1, <3>2 DEF WriteFile, Throw, Shapes
      <4>2. ~\E u \in Requests : Collide(r, u)
        BY <2>1 DEF Collide
      <4> QED BY <1>1, <2>1, <3>2, <4>1, <4>2, BeginProgress, FetchProgress, ReadProgress, EditProgress,
                 FindProgress, KeysProgress, PutProgress DEF Step
    <3> QED BY <3>1, <3>2
  <2>2. ProgressOK'
    BY <2>1 DEF ProgressOK, Underway
  <2> QED BY <1>0, <1>1, <2>2, StepNamesakes, StepCurrent DEF SoloInv
<1>2. CASE Restart
  <2>1. Underway' = {}
    BY <1>2 DEF Restart, Underway
  <2>2. NamesakesOK' /\ CurrentOK' /\ ProgressOK'
    BY <1>2, <2>1 DEF Restart, NamesakesOK, CurrentOK, ProgressOK, Listless
  <2> QED BY <1>0, <2>2 DEF SoloInv
<1>3. CASE UNCHANGED vars
  <2>1. UNCHANGED <<cached, lists, keyLists, file, pc, req, list, hash, keys, json, before, contested>>
    BY <1>3 DEF vars, heap, locals, history
  <2>2. \A a : View(a)' = View(a)
    BY <2>1, HeldKept
  <2>3. NamesakesOK' /\ CurrentOK'
    BY <2>1 DEF SoloInv, NamesakesOK, CurrentOK, LoggingIn, Underway
  <2>4. ProgressOK'
    <3>1. ASSUME NEW r \in Requests, pc[r] # "idle", req[r].id \in Ids \ contested PROVE Progress(r)'
      <4>1. Progress(r)
        BY <3>1 DEF SoloInv, ProgressOK, Underway
      <4>2. View(req[r].id)' = View(req[r].id)
        BY <2>1 DEF View, Held, Snapshot, Text
      <4>3. Sound(r)' = Sound(r) /\ LoggingIn(r)' = LoggingIn(r) /\ HasKeys(r)' = HasKeys(r) /\ HashKept(r)' = HashKept(r) /\ KeysKept(r)' = KeysKept(r)
        BY <2>1 DEF Sound, Accounts, LoggingIn, HasKeys, HashKept, KeysKept
      <4> QED BY <2>1, <4>1, <4>2, <4>3 DEF Progress
    <3> QED BY <2>1, <3>1 DEF ProgressOK, Underway
  <2> QED BY <1>0, <2>3, <2>4 DEF SoloInv
<1> QED BY <1>1, <1>2, <1>3 DEF Next, Step

\* None is under way at first.
LEMMA InitSolo == Init => SoloInv
<1> SUFFICES ASSUME Init PROVE SoloInv
  OBVIOUS
<1>1. EffectInv
  BY InitEffect
<1>2. Underway = {} /\ \A r \in Requests : pc[r] \in Listless
  BY DEF Init, Underway, Listless
<1> QED BY <1>1, <1>2 DEF SoloInv, NamesakesOK, CurrentOK, ProgressOK

\* OnPostSaveAccount and the pages of API keys read, remove and add in separate
\* steps while others edit the same list: at PutAccounts the account of a request
\* that no other names is as the request says, with the old password hash and
\* the old API keys where the page says "Preserve". This leaves out a request
\* whose look missed its account beside a RemoveAll of another one (which makes
\* the account contested), and a list with a hole, to which nothing is added.
THEOREM SoloEffect ==
  ASSUME MarksAreNoLists
  PROVE  Spec => []SoloRequestsTakeEffect
<1>1. SoloInv => SoloRequestsTakeEffect
  <2> SUFFICES ASSUME SoloInv, NEW r \in Requests, pc[r] \in {"serialize", "open", "write"},
                      req[r].id \in Ids \ contested, Sound(r)
               PROVE  View(req[r].id) = Expected(req[r], hash[r], before[r])
    BY DEF SoloRequestsTakeEffect
  <2>1. Progress(r)
    BY DEF SoloInv, ProgressOK, Underway
  <2>2. ~LoggingIn(r)
    BY DEF LoggingIn
  <2> QED BY <2>1, <2>2 DEF Progress
<1> QED BY <1>1, InitSolo, NextSolo, PTL DEF Spec
=============================================================================
