-------------------------- MODULE ListStoreProofs --------------------------
(***************************************************************************)
(* Theorems about ListStore, for every set of threads, keys and items.     *)
(***************************************************************************)
EXTENDS ListStore, SublistsProofs

LEMMA OrNewIsList ==
  ASSUME NEW l \in Lists \cup {NoList}
  PROVE  /\ OrNew(l) \in Lists
         /\ l = NoList => OrNew(l) = <<>>
         /\ l \in Lists => OrNew(l) = l
BY NoListAssumption, EmptySeq DEF OrNew, Lists

LEMMA ElementsOfList ==
  ASSUME NEW l \in Lists
  PROVE  Elements(l) = {l[i] : i \in 1..Len(l)}
BY OrNewIsList DEF Elements

LEMMA ElementsOfNoList == Elements(NoList) = {}
<1>1. OrNew(NoList) = <<>> /\ Len(<<>>) = 0 /\ 1..0 = {}
  BY OrNewIsList
<1> QED BY <1>1 DEF Elements

LEMMA ElementsOrNew ==
  ASSUME NEW l \in Lists \cup {NoList}
  PROVE  Elements(OrNew(l)) = Elements(l)
<1>1. OrNew(OrNew(l)) = OrNew(l)
  BY OrNewIsList
<1> QED BY <1>1 DEF Elements

\* list.RemoveAll
LEMMA WithoutElements ==
  ASSUME NEW l \in Lists, NEW x
  PROVE  Without(l, x) \in Lists /\ Elements(Without(l, x)) = Elements(l) \ {x}
<1>1. l \in Seq(Items)
  BY DEF Lists
<1> DEFINE w == Without(l, x)
<1>2. /\ w \in Seq(Items)
      /\ \A n \in 1..Len(w) : \E i \in 1..Len(l) : l[i] # x /\ w[n] = l[i]
      /\ \A i \in 1..Len(l) : l[i] # x => \E n \in 1..Len(w) : w[n] = l[i]
  BY <1>1, WithoutIsList
<1> HIDE DEF w
<1>3. {w[n] : n \in 1..Len(w)} = {l[i] : i \in 1..Len(l)} \ {x}
  BY SMTT(40), <1>2
<1> QED BY <1>2, <1>3, ElementsOfList DEF Lists, w

\* list.Insert(0, x) and list.Add(x).
LEMMA PushIsList ==
  ASSUME NEW l \in Lists, NEW x \in Items
  PROVE  /\ <<x>> \o l \in Lists /\ Elements(<<x>> \o l) = Elements(l) \cup {x}
         /\ Append(l, x) \in Lists /\ Elements(Append(l, x)) = Elements(l) \cup {x}
<1> DEFINE f == <<x>> \o l
           b == Append(l, x)
<1>1. Len(l) \in Nat
  BY LenProperties DEF Lists
<1>2. <<x>> \in Seq(Items) /\ Len(<<x>>) = 1 /\ <<x>>[1] = x
  OBVIOUS
<1>3. /\ f \in Lists /\ Len(f) = 1 + Len(l)
      /\ \A i \in 1..(1 + Len(l)) : f[i] = IF i <= 1 THEN <<x>>[i] ELSE l[i - 1]
  BY <1>2, ConcatProperties DEF Lists
<1>4. /\ b \in Lists /\ Len(b) = Len(l) + 1
      /\ \A i \in 1..Len(l) : b[i] = l[i]
      /\ b[Len(l) + 1] = x
  BY AppendProperties DEF Lists
<1> HIDE DEF f, b
<1>5. {f[i] : i \in 1..Len(f)} = {l[i] : i \in 1..Len(l)} \cup {x}
  <2>1. ASSUME NEW i \in 1..Len(f) PROVE f[i] = x \/ \E j \in 1..Len(l) : f[i] = l[j]
    <3>1. CASE i = 1 BY <3>1, <1>1, <1>2, <1>3
    <3>2. CASE i # 1
      <4>1. i - 1 \in 1..Len(l) /\ f[i] = l[i - 1]
        BY <3>2, <1>1, <1>3
      <4> QED BY <4>1
    <3> QED BY <3>1, <3>2
  <2>2. ASSUME NEW j \in 1..Len(l) PROVE \E i \in 1..Len(f) : f[i] = l[j]
    <3>1. j + 1 \in 1..Len(f) /\ f[j + 1] = l[(j + 1) - 1] /\ (j + 1) - 1 = j
      BY <1>1, <1>3
    <3> QED BY <3>1
  <2>3. \E i \in 1..Len(f) : f[i] = x
    <3>1. 1 \in 1..Len(f) /\ f[1] = x
      BY <1>1, <1>2, <1>3
    <3> QED BY <3>1
  <2> QED BY <2>1, <2>2, <2>3
<1>6. {b[i] : i \in 1..Len(b)} = {l[i] : i \in 1..Len(l)} \cup {x}
  <2>1. 1..Len(b) = (1..Len(l)) \cup {Len(l) + 1}
    BY <1>1, <1>4
  <2> QED BY <2>1, <1>4
<1> QED BY <1>3, <1>4, <1>5, <1>6, ElementsOfList DEF f, b

\* Every operation makes a list of a list, or of none, and takes nothing from
\* it but what it is asked to delete.
LEMMA EditedIsList ==
  ASSUME NEW l \in Lists \cup {NoList}, NEW o \in Updates \cup Reads
  PROVE  /\ Edited(o, l) \in Lists \cup {NoList}
         /\ o \in Updates => Edited(o, l) \in Lists
         /\ o \in Reads => Edited(o, l) = l
         /\ o \in Pushes => Elements(Edited(o, l)) = Elements(l) \cup {o.item}
         /\ o \in Deletes => Elements(Edited(o, l)) = Elements(l) \ {o.item}
<1>1. OrNew(l) \in Lists /\ Elements(OrNew(l)) = Elements(l)
  BY OrNewIsList, ElementsOrNew
<1>2. CASE o \in Pushes
  <2>1. o.item \in Items /\ o.kind \in {"pushFirst", "pushLast"}
    BY <1>2 DEF Pushes
  <2>2. o \notin Deletes /\ o \notin Reads
    BY <2>1 DEF Deletes, Reads
  <2>3. Edited(o, l) \in {<<o.item>> \o OrNew(l), Append(OrNew(l), o.item)}
    BY <2>1 DEF Edited
  <2>4. Edited(o, l) \in Lists /\ Elements(Edited(o, l)) = Elements(l) \cup {o.item}
    BY <1>1, <2>1, <2>3, PushIsList
  <2> QED BY <2>2, <2>4
<1>3. CASE o \in Deletes
  <2>1. o.kind = "deleteItem"
    BY <1>3 DEF Deletes
  <2>2. o \notin Pushes /\ o \notin Reads
    BY <2>1 DEF Pushes, Reads
  <2>3. Edited(o, l) = Without(OrNew(l), o.item)
    BY <2>1 DEF Edited
  <2> QED BY <1>1, <2>2, <2>3, WithoutElements
<1>4. CASE o \in Reads
  <2>1. o.kind \in {"getList", "getFirst", "getLast"}
    BY <1>4 DEF Reads
  <2>2. o \notin Pushes /\ o \notin Deletes
    BY <2>1 DEF Pushes, Deletes
  <2>3. Edited(o, l) = l
    BY <2>1 DEF Edited
  <2> QED BY <2>2, <2>3 DEF Updates
<1> QED BY <1>2, <1>3, <1>4 DEF Updates
-----------------------------------------------------------------------------
\* What a thread inside Execute executes, and that an edited list is a list.
InsideOK ==
  \A t \in Threads :
    /\ Inside(t) => op[t] \in Updates \cup Reads
    /\ pc[t] \in {"store", "cache"} => op[t] \in Updates /\ list[t] \in Lists
    /\ pc[t] = "remove" => IsRemoval(op[t])

Inv == TypeOK /\ InsideOK

LEMMA OperationFacts ==
  ASSUME NEW o \in Operations
  PROVE  /\ o \in Updates \cup Reads <=> ~IsRemoval(o)
         /\ o \in Updates <=> IsUpdate(o)
         /\ o \in Pushes <=> IsPush(o)
         /\ o \in Deletes <=> o.kind = "deleteItem"
         /\ o \in Updates => o.item \in Items
         /\ o \in Updates \cup Reads => o.key \in Keys
         /\ Destructive \/ ~IsRemoval(o)
BY DEF Operations, Removals, Updates, Pushes, Deletes, Reads, IsRemoval, IsUpdate, IsPush

LEMMA KindFacts ==
  ASSUME NEW o \in Updates \cup Reads
  PROVE  /\ o \in Operations /\ o.key \in Keys /\ ~IsRemoval(o) /\ o # NoOp
         /\ o \in Updates <=> IsUpdate(o)
         /\ o \in Pushes <=> IsPush(o)
         /\ o \in Deletes <=> o.kind = "deleteItem"
         /\ o \in Updates => o.item \in Items
BY NoOpAssumption
   DEF Operations, Updates, Pushes, Deletes, Reads, IsRemoval, IsUpdate, IsPush

LEMMA AfterEditFacts ==
  ASSUME NEW o \in Updates \cup Reads
  PROVE  /\ AfterEdit(o) \in {"store", "cache", "done"}
         /\ AfterEdit(o) = "done" <=> o \in Reads
         /\ AfterEdit(o) = "store" => o \in Updates /\ Persistent
         /\ AfterEdit(o) = "cache" => o \in Updates /\ ~Persistent
BY DEF AfterEdit, Updates, Pushes, Deletes, Reads, IsUpdate

\* What the two actions that find a list do, spelled out.
LEMMA EnterHitStep ==
  ASSUME Inv, NEW t \in Threads, EnterHit(t)
  PROVE  LET o == op[t] IN
         /\ pc[t] = "waiting" /\ o \in Updates \cup Reads /\ o.key \in Keys
         /\ cache[o.key] \in Lists
         /\ \A u \in Threads : Inside(u) => op[u].key # o.key
         /\ owner[o.key] = NoThread /\ owner' = [owner EXCEPT ![o.key] = t]
         /\ Edited(o, cache[o.key]) \in Lists
         /\ list' = [list EXCEPT ![t] = Edited(o, cache[o.key])]
         /\ cache' = [cache EXCEPT ![o.key] = Edited(o, cache[o.key])]
         /\ pc' = [pc EXCEPT ![t] = AfterEdit(o)]
         /\ AfterEdit(o) \in {"store", "cache", "done"}
         /\ AfterEdit(o) \in {"store", "cache"} => o \in Updates
         /\ UNCHANGED <<op, db, uses, deleted>>
<1> DEFINE o == op[t]
<1>1. pc[t] = "waiting" /\ o \in Updates \cup Reads /\ o.key \in Keys
  BY OperationFacts DEF EnterHit, Inv, TypeOK
<1>2. cache[o.key] \in Lists
  BY <1>1 DEF EnterHit, Inv, TypeOK
<1>3. /\ owner[o.key] = NoThread /\ owner' = [owner EXCEPT ![o.key] = t]
      /\ list' = [list EXCEPT ![t] = Edited(o, cache[o.key])]
      /\ cache' = [cache EXCEPT ![o.key] = Edited(o, cache[o.key])]
      /\ pc' = [pc EXCEPT ![t] = AfterEdit(o)]
      /\ UNCHANGED <<op, db, uses, deleted>>
  BY <1>1 DEF EnterHit, Granted, Lock!Acquire, Inv, TypeOK
<1>4. \A u \in Threads : Inside(u) => op[u].key # o.key
  BY <1>1, <1>3, ThreadsAssumption DEF Inv, TypeOK
<1>5. Edited(o, cache[o.key]) \in Lists
  <2> HIDE DEF o
  <2>1. /\ o \in Updates => Edited(o, cache[o.key]) \in Lists
        /\ o \in Reads => Edited(o, cache[o.key]) = cache[o.key]
    BY <1>1, <1>2, EditedIsList
  <2> QED BY <1>1, <1>2, <2>1
<1>6. /\ AfterEdit(o) \in {"store", "cache", "done"}
      /\ AfterEdit(o) \in {"store", "cache"} => o \in Updates
  BY <1>1, AfterEditFacts
<1> QED BY <1>1, <1>2, <1>3, <1>4, <1>5, <1>6

LEMMA LoadStep ==
  ASSUME Inv, NEW t \in Threads, Load(t)
  PROVE  LET o == op[t] IN
         /\ pc[t] = "load" /\ o \in Updates \cup Reads /\ o.key \in Keys
         /\ db[o.key] \in Lists \cup {NoList}
         /\ Edited(o, db[o.key]) \in Lists \cup {NoList}
         /\ o \in Updates => Edited(o, db[o.key]) \in Lists
         /\ list' = [list EXCEPT ![t] = Edited(o, db[o.key])]
         /\ pc' = [pc EXCEPT ![t] = AfterEdit(o)]
         /\ AfterEdit(o) \in {"store", "cache", "done"}
         /\ AfterEdit(o) \in {"store", "cache"} => o \in Updates
         /\ UNCHANGED <<owner, op, cache, db, uses, deleted>>
<1> DEFINE o == op[t]
<1>1. pc[t] = "load" /\ o \in Updates \cup Reads /\ o.key \in Keys
  BY KindFacts DEF Load, Inv, InsideOK, Inside
<1>2. db[o.key] \in Lists \cup {NoList}
  BY <1>1 DEF Inv, TypeOK
<1>3. /\ list' = [list EXCEPT ![t] = Edited(o, db[o.key])]
      /\ pc' = [pc EXCEPT ![t] = AfterEdit(o)]
      /\ UNCHANGED <<owner, op, cache, db, uses, deleted>>
  BY DEF Load, Found
<1>4. /\ Edited(o, db[o.key]) \in Lists \cup {NoList}
      /\ o \in Updates => Edited(o, db[o.key]) \in Lists
  <2> HIDE DEF o
  <2> QED BY <1>1, <1>2, EditedIsList
<1>5. /\ AfterEdit(o) \in {"store", "cache", "done"}
      /\ AfterEdit(o) \in {"store", "cache"} => o \in Updates
  BY <1>1, AfterEditFacts
<1> QED BY <1>1, <1>2, <1>3, <1>4, <1>5

\* A thread at its Put or its Upsert.
LEMMA HolderFacts ==
  ASSUME Inv, NEW t \in Threads, Inside(t)
  PROVE  /\ op[t] \in Updates \cup Reads /\ op[t].key \in Keys
         /\ \A u \in Threads : Inside(u) /\ op[u].key = op[t].key => u = t
<1>1. op[t] \in Updates \cup Reads /\ op[t].key \in Keys
  BY KindFacts DEF Inv, InsideOK
<1>2. \A u \in Threads : Inside(u) /\ op[u].key = op[t].key => u = t
  BY <1>1 DEF Inv, TypeOK
<1> QED BY <1>1, <1>2

LEMMA InitInv == Init => Inv
<1> SUFFICES ASSUME Init PROVE Inv
  OBVIOUS
<1> USE DEF Init, Lock!Init
<1>1. TypeOK
  BY ThreadsAssumption DEF TypeOK, Inside
<1>2. InsideOK
  BY DEF InsideOK, Inside
<1> QED BY <1>1, <1>2 DEF Inv

LEMMA NextInv == Inv /\ [Next]_vars => Inv'
<1> SUFFICES ASSUME Inv, [Next]_vars PROVE Inv'
  OBVIOUS
<1> USE DEF Inv
<1>1. ASSUME NEW t \in Threads, Call(t) PROVE Inv'
  <2>1. PICK o \in Operations :
          /\ op' = [op EXCEPT ![t] = o]
          /\ uses' = IF IsPush(o) THEN [uses EXCEPT ![o.item] = @ + 1] ELSE uses
          /\ deleted' = IF o.kind = "deleteItem" THEN deleted \cup {o.item} ELSE deleted
    BY <1>1 DEF Call
  <2>2. pc[t] = "idle" /\ pc' = [pc EXCEPT ![t] = "waiting"] /\ UNCHANGED <<owner, list, cache, db>>
    BY <1>1 DEF Call
  <2>3. IsPush(o) => o.item \in Items
    BY OperationFacts DEF Updates
  <2>4. o.kind = "deleteItem" => o.item \in Items
    BY OperationFacts DEF Updates
  <2>5. uses' \in [Items -> Nat]
    BY <2>1, <2>3 DEF TypeOK
  <2>6. deleted' \subseteq Items
    BY <2>1, <2>4 DEF TypeOK
  <2>7. TypeOK'
    BY <2>1, <2>2, <2>5, <2>6 DEF TypeOK, Inside
  <2>8. InsideOK'
    BY <2>1, <2>2 DEF InsideOK, Inside, TypeOK
  <2> QED BY <2>7, <2>8
<1>2. ASSUME NEW t \in Threads, EnterHit(t) PROVE Inv'
  <2> DEFINE o == op[t]
  <2>1. pc[t] = "waiting" /\ o \in Updates \cup Reads /\ o.key \in Keys
    BY <1>2, EnterHitStep
  <2>2. /\ owner[o.key] = NoThread /\ owner' = [owner EXCEPT ![o.key] = t]
        /\ list' = [list EXCEPT ![t] = Edited(o, cache[o.key])]
        /\ cache' = [cache EXCEPT ![o.key] = Edited(o, cache[o.key])]
        /\ pc' = [pc EXCEPT ![t] = AfterEdit(o)]
        /\ UNCHANGED <<op, db, uses, deleted>>
    BY <1>2, EnterHitStep
  <2>3. Edited(o, cache[o.key]) \in Lists
    BY <1>2, EnterHitStep
  <2>4. /\ AfterEdit(o) \in {"store", "cache", "done"}
        /\ AfterEdit(o) \in {"store", "cache"} => o \in Updates
    BY <1>2, EnterHitStep
  <2>5. TypeOK'
    <3>1. /\ owner' \in [Keys -> Threads \cup {NoThread}]
          /\ pc' \in [Threads -> {"idle", "waiting", "load", "store", "cache", "done", "remove"}]
          /\ list' \in [Threads -> Lists \cup {NoList}]
          /\ cache' \in [Keys -> Lists \cup {NoList}]
      BY <2>1, <2>2, <2>3, <2>4 DEF TypeOK
    <3>2. \A u \in Threads, k \in Keys : owner'[k] = u <=> Inside(u)' /\ op'[u].key = k
      BY <2>1, <2>2, <2>4, ThreadsAssumption DEF TypeOK, Inside
    <3> QED BY <2>1, <2>2, <2>4, <3>1, <3>2 DEF TypeOK
  <2>6. InsideOK'
    BY <2>1, <2>2, <2>3, <2>4 DEF InsideOK, Inside, TypeOK
  <2> QED BY <2>5, <2>6
<1>3. ASSUME NEW t \in Threads, EnterMiss(t) PROVE Inv'
  <2> DEFINE o == op[t]
  <2>1. pc[t] = "waiting" /\ o \in Updates \cup Reads /\ o.key \in Keys
    BY <1>3, OperationFacts DEF EnterMiss, TypeOK
  <2>2. /\ owner[o.key] = NoThread /\ owner' = [owner EXCEPT ![o.key] = t]
        /\ pc' = [pc EXCEPT ![t] = "load"]
        /\ UNCHANGED <<op, list, cache, db, uses, deleted>>
    BY <1>3, <2>1 DEF EnterMiss, Granted, Lock!Acquire, TypeOK
  <2>3. TypeOK'
    <3>1. owner' \in [Keys -> Threads \cup {NoThread}]
      BY <2>1, <2>2 DEF TypeOK
    <3>2. \A u \in Threads, k \in Keys : owner'[k] = u <=> Inside(u)' /\ op'[u].key = k
      BY <2>1, <2>2, ThreadsAssumption DEF TypeOK, Inside
    <3> QED BY <2>1, <2>2, <3>1, <3>2 DEF TypeOK
  <2>4. InsideOK'
    BY <2>1, <2>2 DEF InsideOK, Inside, TypeOK
  <2> QED BY <2>3, <2>4
<1>4. ASSUME NEW t \in Threads, Load(t) PROVE Inv'
  <2> DEFINE o == op[t]
  <2>1. pc[t] = "load" /\ o \in Updates \cup Reads /\ o.key \in Keys
    BY <1>4, LoadStep
  <2>2. /\ list' = [list EXCEPT ![t] = Edited(o, db[o.key])]
        /\ pc' = [pc EXCEPT ![t] = AfterEdit(o)]
        /\ UNCHANGED <<owner, op, cache, db, uses, deleted>>
    BY <1>4, LoadStep
  <2>3. /\ Edited(o, db[o.key]) \in Lists \cup {NoList}
        /\ o \in Updates => Edited(o, db[o.key]) \in Lists
    BY <1>4, LoadStep
  <2>4. /\ AfterEdit(o) \in {"store", "cache", "done"}
        /\ AfterEdit(o) \in {"store", "cache"} => o \in Updates
    BY <1>4, LoadStep
  <2>5. TypeOK'
    <3>1. \A u \in Threads : Inside(u)' <=> Inside(u)
      BY <2>1, <2>2, <2>4 DEF TypeOK, Inside
    <3>2. \A u \in Threads, k \in Keys : owner'[k] = u <=> Inside(u)' /\ op'[u].key = k
      BY <2>2, <3>1 DEF TypeOK
    <3>3. /\ pc' \in [Threads -> {"idle", "waiting", "load", "store", "cache", "done", "remove"}]
          /\ list' \in [Threads -> Lists \cup {NoList}]
      BY <2>2, <2>3, <2>4 DEF TypeOK
    <3> QED BY <2>1, <2>2, <2>4, <3>2, <3>3 DEF TypeOK
  <2>6. InsideOK'
    BY <2>1, <2>2, <2>3, <2>4 DEF InsideOK, Inside, TypeOK
  <2> QED BY <2>5, <2>6
<1>5. ASSUME NEW t \in Threads, Put(t) PROVE Inv'
  <2>1. TypeOK'
    <3>1. op[t] \in Updates /\ op[t].key \in Keys /\ list[t] \in Lists
      BY <1>5, KindFacts DEF Put, InsideOK
    <3>2. \A u \in Threads : Inside(u)' <=> Inside(u)
      BY <1>5 DEF Put, TypeOK, Inside
    <3>3. \A u \in Threads, k \in Keys : owner'[k] = u <=> Inside(u)' /\ op'[u].key = k
      BY <1>5, <3>2 DEF Put, TypeOK
    <3>4. db' \in [Keys -> Lists \cup {NoList}]
      BY <1>5, <3>1 DEF Put, TypeOK
    <3> QED BY <1>5, <3>3, <3>4 DEF Put, TypeOK
  <2>2. InsideOK'
    BY <1>5 DEF Put, InsideOK, Inside, TypeOK
  <2> QED BY <2>1, <2>2
<1>6. ASSUME NEW t \in Threads, UpsertList(t) PROVE Inv'
  <2>1. TypeOK'
    <3>1. op[t] \in Updates /\ op[t].key \in Keys /\ list[t] \in Lists
      BY <1>6, KindFacts DEF UpsertList, InsideOK
    <3>2. \A u \in Threads : Inside(u)' <=> Inside(u)
      BY <1>6 DEF UpsertList, TypeOK, Inside
    <3>3. \A u \in Threads, k \in Keys : owner'[k] = u <=> Inside(u)' /\ op'[u].key = k
      BY <1>6, <3>2 DEF UpsertList, TypeOK
    <3>4. cache' \in [Keys -> Lists \cup {NoList}]
      BY <1>6, <3>1 DEF UpsertList, Upsert, TypeOK
    <3> QED BY <1>6, <3>3, <3>4 DEF UpsertList, Upsert, TypeOK
  <2>2. InsideOK'
    BY <1>6 DEF UpsertList, Upsert, InsideOK, Inside, TypeOK
  <2> QED BY <2>1, <2>2
<1>7. ASSUME NEW t \in Threads, PutFails(t) \/ Return(t) PROVE Inv'
  <2> DEFINE k == op[t].key
  <2>1. Inside(t) /\ op[t] \in Updates \cup Reads /\ k \in Keys
    BY <1>7, KindFacts DEF PutFails, Return, InsideOK, Inside
  <2>2. /\ owner' = [owner EXCEPT ![k] = NoThread]
        /\ pc' = [pc EXCEPT ![t] = "idle"]
        /\ op' = [op EXCEPT ![t] = NoOp]
        /\ list' = [list EXCEPT ![t] = NoList]
        /\ UNCHANGED <<cache, db, uses, deleted>>
    BY <1>7 DEF PutFails, Return, GiveUpLock, Lock!Release, Ended
  <2>3. \A u \in Threads, j \in Keys : owner'[j] = u <=> Inside(u)' /\ op'[u].key = j
    BY <2>1, <2>2, ThreadsAssumption DEF TypeOK, Inside
  <2>4. TypeOK'
    BY <2>1, <2>2, <2>3 DEF TypeOK
  <2>5. InsideOK'
    BY <2>1, <2>2 DEF InsideOK, Inside, TypeOK
  <2> QED BY <2>4, <2>5
<1>8. ASSUME NEW t \in Threads, RemoveFromCache(t) PROVE Inv'
  <2>1. TypeOK'
    BY <1>8 DEF RemoveFromCache, TypeOK, Inside
  <2>2. InsideOK'
    BY <1>8 DEF RemoveFromCache, InsideOK, Inside, TypeOK
  <2> QED BY <2>1, <2>2
<1>9. ASSUME NEW t \in Threads, RemoveFromDatabase(t) PROVE Inv'
  <2>1. TypeOK'
    BY <1>9 DEF RemoveFromDatabase, Ended, TypeOK, Inside
  <2>2. InsideOK'
    BY <1>9 DEF RemoveFromDatabase, Ended, InsideOK, Inside, TypeOK
  <2> QED BY <2>1, <2>2
<1>10. ASSUME (\E k \in Keys : Expire(k)) \/ FlushCache PROVE Inv'
  <2>1. TypeOK'
    BY <1>10 DEF Expire, FlushCache, TypeOK, Inside
  <2>2. InsideOK'
    BY <1>10 DEF Expire, FlushCache, InsideOK, Inside
  <2> QED BY <2>1, <2>2
<1>11. ASSUME Crash PROVE Inv'
  <2>1. TypeOK'
    BY <1>11, ThreadsAssumption DEF Crash, TypeOK, Inside
  <2>2. InsideOK'
    BY <1>11 DEF Crash, InsideOK, Inside
  <2> QED BY <2>1, <2>2
<1>12. CASE UNCHANGED vars
  BY <1>12 DEF vars, TypeOK, InsideOK, Inside
<1> QED
  BY <1>1, <1>2, <1>3, <1>4, <1>5, <1>6, <1>7, <1>8, <1>9, <1>10, <1>11, <1>12 DEF Next

\* The types are right, and a key is owned by exactly the thread that executes
\* an operation on it, whatever fails, crashes or expires.
THEOREM TypeCorrect == Spec => []TypeOK
<1>1. Inv => TypeOK
  BY DEF Inv
<1> QED BY <1>1, InitInv, NextInv, PTL DEF Spec
-----------------------------------------------------------------------------
\* While a thread has a list of its own, the cache has no other one.
HeldOK ==
  \A t \in Threads :
    /\ pc[t] = "load" => cache[op[t].key] = NoList
    /\ pc[t] \in {"store", "cache"} => cache[op[t].key] \in {NoList, list[t]}

LEMMA NextHeld == Inv /\ HeldOK /\ [Next]_vars => HeldOK'
<1> SUFFICES ASSUME Inv, HeldOK, [Next]_vars, NEW u \in Threads
             PROVE  /\ pc'[u] = "load" => cache'[op'[u].key] = NoList
                    /\ pc'[u] \in {"store", "cache"} => cache'[op'[u].key] \in {NoList, list'[u]}
  BY DEF HeldOK
<1> DEFINE Goal == /\ pc'[u] = "load" => cache'[op'[u].key] = NoList
                   /\ pc'[u] \in {"store", "cache"} => cache'[op'[u].key] \in {NoList, list'[u]}
<1>0. /\ pc \in [Threads -> {"idle", "waiting", "load", "store", "cache", "done", "remove"}]
      /\ op \in [Threads -> Operations \cup {NoOp}]
      /\ list \in [Threads -> Lists \cup {NoList}]
      /\ cache \in [Keys -> Lists \cup {NoList}]
      /\ pc[u] \in {"load", "store", "cache"} => op[u].key \in Keys
  BY HolderFacts DEF Inv, TypeOK, Inside
<1>1. ASSUME NEW t \in Threads, Call(t) PROVE Goal
  BY <1>0, <1>1 DEF Call, HeldOK
<1>2. ASSUME NEW t \in Threads, EnterHit(t) PROVE Goal
  <2>1. /\ op[t].key \in Keys /\ pc[t] = "waiting"
        /\ Inside(u) => op[u].key # op[t].key
        /\ list' = [list EXCEPT ![t] = Edited(op[t], cache[op[t].key])]
        /\ cache' = [cache EXCEPT ![op[t].key] = Edited(op[t], cache[op[t].key])]
        /\ pc' = [pc EXCEPT ![t] = AfterEdit(op[t])]
        /\ AfterEdit(op[t]) \in {"store", "cache", "done"} /\ UNCHANGED op
    BY <1>2, EnterHitStep
  <2>2. CASE u = t BY <1>0, <2>1, <2>2
  <2>3. CASE u # t BY <1>0, <2>1, <2>3 DEF HeldOK, Inside
  <2> QED BY <2>2, <2>3
<1>3. ASSUME NEW t \in Threads, EnterMiss(t) PROVE Goal
  BY <1>0, <1>3 DEF EnterMiss, HeldOK
<1>4. ASSUME NEW t \in Threads, Load(t) PROVE Goal
  <2>1. /\ pc[t] = "load" /\ pc' = [pc EXCEPT ![t] = AfterEdit(op[t])]
        /\ AfterEdit(op[t]) \in {"store", "cache", "done"} /\ UNCHANGED <<op, cache>>
        /\ list' = [list EXCEPT ![t] = Edited(op[t], db[op[t].key])]
    BY <1>4, LoadStep
  <2> QED BY <1>0, <2>1 DEF HeldOK
<1>5. ASSUME NEW t \in Threads, Put(t) PROVE Goal
  BY <1>0, <1>5 DEF Put, HeldOK
<1>6. ASSUME NEW t \in Threads, UpsertList(t) PROVE Goal
  <2>1. Inside(t) /\ op[t].key \in Keys /\ (Inside(u) /\ op[u].key = op[t].key => u = t)
    BY <1>6, HolderFacts DEF UpsertList, Inside
  <2> QED BY <1>0, <1>6, <2>1 DEF UpsertList, Upsert, HeldOK, Inside
<1>7. ASSUME NEW t \in Threads, PutFails(t) \/ Return(t) PROVE Goal
  BY <1>0, <1>7 DEF PutFails, Return, Ended, HeldOK
<1>8. ASSUME NEW t \in Threads, RemoveFromCache(t) PROVE Goal
  BY <1>0, <1>8 DEF RemoveFromCache, HeldOK
<1>9. ASSUME NEW t \in Threads, RemoveFromDatabase(t) PROVE Goal
  BY <1>0, <1>9 DEF RemoveFromDatabase, Ended, HeldOK
<1>10. ASSUME (\E k \in Keys : Expire(k)) \/ FlushCache PROVE Goal
  BY <1>0, <1>10 DEF Expire, FlushCache, HeldOK
<1>11. ASSUME Crash PROVE Goal
  BY <1>0, <1>11 DEF Crash
<1>12. CASE UNCHANGED vars
  BY <1>12 DEF vars, HeldOK
<1> QED
  BY <1>1, <1>2, <1>3, <1>4, <1>5, <1>6, <1>7, <1>8, <1>9, <1>10, <1>11, <1>12 DEF Next
-----------------------------------------------------------------------------
\* The cached lists and the lists on their way to the database lack no item of
\* the database but deleted ones.
NamedOK ==
  \A t \in Threads : pc[t] # "idle" /\ op[t].kind = "deleteItem" => op[t].item \in deleted
CoversOK ==
  /\ \A k \in Keys : cache[k] # NoList => Elements(db[k]) \subseteq Elements(cache[k]) \cup deleted
  /\ \A t \in Threads : pc[t] \in {"store", "cache"} =>
       Elements(db[op[t].key]) \subseteq Elements(list[t]) \cup deleted
LostInv == Inv /\ HeldOK /\ NamedOK /\ CoversOK

LEMMA EditLosesNothing ==
  ASSUME Inv, NamedOK, NEW t \in Threads, pc[t] # "idle", op[t] \in Updates \cup Reads,
         NEW l \in Lists \cup {NoList}
  PROVE  Elements(l) \subseteq Elements(Edited(op[t], l)) \cup deleted
<1>1. CASE op[t] \in Deletes
  <2>1. op[t].item \in deleted
    BY <1>1, KindFacts DEF NamedOK
  <2>2. Elements(Edited(op[t], l)) = Elements(l) \ {op[t].item}
    BY <1>1, EditedIsList
  <2> QED BY <2>1, <2>2
<1>2. CASE op[t] \in Pushes
  <2>1. Elements(Edited(op[t], l)) = Elements(l) \cup {op[t].item}
    BY <1>2, EditedIsList
  <2> QED BY <2>1
<1>3. CASE op[t] \in Reads
  <2>1. Edited(op[t], l) = l
    BY <1>3, EditedIsList
  <2> QED BY <2>1
<1> QED BY <1>1, <1>2, <1>3 DEF Updates

LEMMA InitLost == Init => LostInv
<1> SUFFICES ASSUME Init PROVE LostInv
  OBVIOUS
<1>1. Inv
  BY InitInv
<1>2. HeldOK /\ NamedOK /\ CoversOK
  BY DEF Init, HeldOK, NamedOK, CoversOK
<1> QED BY <1>1, <1>2 DEF LostInv

LEMMA NextNamed == Inv /\ NamedOK /\ [Next]_vars => NamedOK' /\ deleted \subseteq deleted'
<1> SUFFICES ASSUME Inv, NamedOK, [Next]_vars PROVE NamedOK' /\ deleted \subseteq deleted'
  OBVIOUS
<1> USE DEF Inv, TypeOK, NamedOK
<1>1. ASSUME NEW t \in Threads, Call(t) PROVE NamedOK' /\ deleted \subseteq deleted'
  BY <1>1 DEF Call
<1>2. ASSUME NEW t \in Threads, EnterHit(t) \/ EnterMiss(t) \/ Load(t) PROVE NamedOK' /\ deleted \subseteq deleted'
  BY <1>2 DEF EnterHit, EnterMiss, Load
<1>3. ASSUME NEW t \in Threads, Put(t) \/ UpsertList(t) \/ RemoveFromCache(t)
      PROVE  NamedOK' /\ deleted \subseteq deleted'
  BY <1>3 DEF Put, UpsertList, RemoveFromCache
<1>4. ASSUME NEW t \in Threads, PutFails(t) \/ Return(t) \/ RemoveFromDatabase(t)
      PROVE  NamedOK' /\ deleted \subseteq deleted'
  BY <1>4 DEF PutFails, Return, RemoveFromDatabase, Ended
<1>5. ASSUME (\E k \in Keys : Expire(k)) \/ FlushCache \/ Crash
      PROVE  NamedOK' /\ deleted \subseteq deleted'
  BY <1>5 DEF Expire, FlushCache, Crash
<1>6. CASE UNCHANGED vars
  BY <1>6 DEF vars
<1> QED BY <1>1, <1>2, <1>3, <1>4, <1>5, <1>6 DEF Next

LEMMA NextCovers == LostInv /\ [Next]_vars => CoversOK'
<1> SUFFICES ASSUME LostInv, [Next]_vars PROVE CoversOK'
  OBVIOUS
<1> DEFINE CacheCovers == \A k \in Keys :
             cache'[k] # NoList => Elements(db'[k]) \subseteq Elements(cache'[k]) \cup deleted'
           ListCovers(u) == pc'[u] \in {"store", "cache"} =>
             Elements(db'[op'[u].key]) \subseteq Elements(list'[u]) \cup deleted'
<1> SUFFICES CacheCovers /\ \A u \in Threads : ListCovers(u)
  BY DEF CoversOK
<1>0. /\ pc \in [Threads -> {"idle", "waiting", "load", "store", "cache", "done", "remove"}]
      /\ op \in [Threads -> Operations \cup {NoOp}]
      /\ list \in [Threads -> Lists \cup {NoList}]
      /\ cache \in [Keys -> Lists \cup {NoList}]
      /\ db \in [Keys -> Lists \cup {NoList}]
      /\ \A u \in Threads : pc[u] \in {"load", "store", "cache"} => op[u].key \in Keys
      /\ Inv /\ HeldOK /\ NamedOK
  BY HolderFacts DEF LostInv, Inv, TypeOK, Inside
<1>00. /\ \A k \in Keys : cache[k] # NoList => Elements(db[k]) \subseteq Elements(cache[k]) \cup deleted
       /\ \A u \in Threads : pc[u] \in {"store", "cache"} =>
            Elements(db[op[u].key]) \subseteq Elements(list[u]) \cup deleted
  BY DEF LostInv, CoversOK
<1>000. deleted \subseteq deleted'
  BY <1>0, NextNamed
<1>1. ASSUME NEW t \in Threads, Call(t) PROVE CacheCovers /\ \A u \in Threads : ListCovers(u)
  <2>1. UNCHANGED <<db, cache, list>>
    BY <1>1 DEF Call
  <2>2. CacheCovers
    BY <1>00, <1>000, <2>1
  <2>3. \A u \in Threads : pc'[u] \in {"store", "cache"} => pc[u] = pc'[u] /\ op'[u] = op[u]
    BY <1>0, <1>1 DEF Call
  <2>4. \A u \in Threads : ListCovers(u)
    BY <1>00, <1>000, <2>1, <2>3
  <2> QED BY <2>2, <2>4
<1>2. ASSUME NEW t \in Threads, EnterHit(t) PROVE CacheCovers /\ \A u \in Threads : ListCovers(u)
  <2> DEFINE o == op[t]
             e == Edited(o, cache[o.key])
  <2>1. /\ o.key \in Keys /\ pc[t] = "waiting" /\ o \in Updates \cup Reads
        /\ cache[o.key] \in Lists
        /\ list' = [list EXCEPT ![t] = e]
        /\ cache' = [cache EXCEPT ![o.key] = e]
        /\ pc' = [pc EXCEPT ![t] = AfterEdit(o)]
        /\ UNCHANGED <<op, db, deleted>>
    BY <1>0, <1>2, EnterHitStep
  <2>2. Elements(cache[o.key]) \subseteq Elements(e) \cup deleted
    BY <1>0, <2>1, EditLosesNothing
  <2>3. cache[o.key] # NoList
    BY <2>1, NoListAssumption DEF Lists
  <2>4. Elements(db[o.key]) \subseteq Elements(e) \cup deleted
    BY <1>00, <2>1, <2>2, <2>3
  <2> HIDE DEF e
  <2>5. CacheCovers
    BY <1>0, <1>00, <2>1, <2>4
  <2>6. \A u \in Threads : ListCovers(u)
    BY <1>0, <1>00, <2>1, <2>4
  <2> QED BY <2>5, <2>6
<1>3. ASSUME NEW t \in Threads, EnterMiss(t) PROVE CacheCovers /\ \A u \in Threads : ListCovers(u)
  <2>1. UNCHANGED <<db, cache, list, op, deleted>> /\ pc' = [pc EXCEPT ![t] = "load"]
    BY <1>3 DEF EnterMiss
  <2> QED BY <1>0, <1>00, <2>1
<1>4. ASSUME NEW t \in Threads, Load(t) PROVE CacheCovers /\ \A u \in Threads : ListCovers(u)
  <2> DEFINE o == op[t]
             e == Edited(o, db[o.key])
  <2>1. /\ o.key \in Keys /\ pc[t] = "load" /\ o \in Updates \cup Reads
        /\ db[o.key] \in Lists \cup {NoList}
        /\ list' = [list EXCEPT ![t] = e]
        /\ pc' = [pc EXCEPT ![t] = AfterEdit(o)]
        /\ UNCHANGED <<op, db, cache, deleted>>
    BY <1>0, <1>4, LoadStep
  <2>2. Elements(db[o.key]) \subseteq Elements(e) \cup deleted
    BY <1>0, <2>1, EditLosesNothing
  <2> HIDE DEF e
  <2> QED BY <1>0, <1>00, <2>1, <2>2
<1>5. ASSUME NEW t \in Threads, Put(t) PROVE CacheCovers /\ \A u \in Threads : ListCovers(u)
  <2>1. /\ pc[t] = "store" /\ pc' = [pc EXCEPT ![t] = "cache"]
        /\ db' = [db EXCEPT ![op[t].key] = list[t]]
        /\ UNCHANGED <<op, list, cache, deleted>>
    BY <1>5 DEF Put
  <2>2. /\ op[t].key \in Keys
        /\ \A u \in Threads : Inside(u) /\ op[u].key = op[t].key => u = t
    BY <1>0, <2>1, HolderFacts DEF Inside
  <2>3. cache[op[t].key] \in {NoList, list[t]}
    BY <1>0, <2>1 DEF HeldOK
  <2>4. CacheCovers
    BY <1>0, <1>00, <2>1, <2>2, <2>3
  <2>5. \A u \in Threads : ListCovers(u)
    BY <1>0, <1>00, <2>1, <2>2 DEF Inside
  <2> QED BY <2>4, <2>5
<1>6. ASSUME NEW t \in Threads, UpsertList(t) PROVE CacheCovers /\ \A u \in Threads : ListCovers(u)
  <2>1. /\ pc[t] = "cache" /\ pc' = [pc EXCEPT ![t] = "done"]
        /\ cache' = [cache EXCEPT ![op[t].key] = list[t]]
        /\ UNCHANGED <<op, list, db, deleted>>
    BY <1>6 DEF UpsertList, Upsert
  <2> QED BY <1>0, <1>00, <2>1
<1>7. ASSUME NEW t \in Threads, PutFails(t) \/ Return(t)
      PROVE  CacheCovers /\ \A u \in Threads : ListCovers(u)
  <2>1. /\ pc' = [pc EXCEPT ![t] = "idle"] /\ op' = [op EXCEPT ![t] = NoOp]
        /\ list' = [list EXCEPT ![t] = NoList] /\ UNCHANGED <<db, cache, deleted>>
    BY <1>7 DEF PutFails, Return, Ended
  <2> QED BY <1>0, <1>00, <2>1
<1>8. ASSUME NEW t \in Threads, RemoveFromCache(t) PROVE CacheCovers /\ \A u \in Threads : ListCovers(u)
  <2>1. /\ cache' = [k \in Keys |-> IF k \in Doomed(op[t]) THEN NoList ELSE cache[k]]
        /\ pc' = [pc EXCEPT ![t] = "remove"] /\ UNCHANGED <<db, op, list, deleted>>
    BY <1>8 DEF RemoveFromCache
  <2> QED BY <1>0, <1>00, <2>1
<1>9. ASSUME NEW t \in Threads, RemoveFromDatabase(t)
      PROVE  CacheCovers /\ \A u \in Threads : ListCovers(u)
  <2>1. /\ db' = [k \in Keys |-> IF k \in Doomed(op[t]) THEN NoList ELSE db[k]]
        /\ pc' = [pc EXCEPT ![t] = "idle"] /\ op' = [op EXCEPT ![t] = NoOp]
        /\ list' = [list EXCEPT ![t] = NoList] /\ UNCHANGED <<cache, deleted>>
    BY <1>9 DEF RemoveFromDatabase, Ended
  <2>2. \A k \in Keys : Elements(db'[k]) \subseteq Elements(db[k])
    BY <2>1, ElementsOfNoList
  <2>3. CacheCovers
    BY <1>00, <2>1, <2>2
  <2>4. \A u \in Threads : ListCovers(u)
    BY <1>0, <1>00, <2>1, <2>2
  <2> QED BY <2>3, <2>4
<1>10. ASSUME (\E k \in Keys : Expire(k)) \/ FlushCache
       PROVE  CacheCovers /\ \A u \in Threads : ListCovers(u)
  <2>1. /\ UNCHANGED <<pc, db, op, list, deleted>>
        /\ \A k \in Keys : cache'[k] \in {NoList, cache[k]}
    BY <1>0, <1>10 DEF Expire, FlushCache
  <2> QED BY <1>00, <2>1
<1>11. ASSUME Crash PROVE CacheCovers /\ \A u \in Threads : ListCovers(u)
  BY <1>11 DEF Crash
<1>12. CASE UNCHANGED vars
  BY <1>00, <1>12 DEF vars
<1> QED
  BY <1>1, <1>2, <1>3, <1>4, <1>5, <1>6, <1>7, <1>8, <1>9, <1>10, <1>11, <1>12 DEF Next

\* The items that a step takes out of the database.
LEMMA StepLosesNothing ==
  ASSUME Persistent, LostInv, [Next]_vars, NEW k \in Keys,
         NEW x \in Elements(Stored(k)) \ Elements(Stored(k)')
  PROVE  \/ x \in deleted'
         \/ \E t \in Threads : /\ pc[t] \in {"waiting", "remove"}
                              /\ IsRemoval(op[t]) /\ k \in Doomed(op[t])
<1> DEFINE Goal == \/ x \in deleted'
                   \/ \E t \in Threads : /\ pc[t] \in {"waiting", "remove"}
                                        /\ IsRemoval(op[t]) /\ k \in Doomed(op[t])
<1>0. x \in Elements(db[k]) \ Elements(db'[k])
  BY DEF Stored
<1>00. db[k] # db'[k]
  BY <1>0
<1>000. deleted \subseteq deleted'
  BY NextNamed DEF LostInv
<1>1. ASSUME NEW t \in Threads, Put(t) PROVE Goal
  <2>1. /\ pc[t] = "store" /\ k = op[t].key
        /\ db' = [db EXCEPT ![k] = list[t]]
    BY ZenonT(60), <1>00, <1>1 DEF Put, LostInv, Inv, TypeOK
  <2>2. db'[k] = list[t]
    BY <2>1 DEF LostInv, Inv, TypeOK
  <2>3. Elements(db[k]) \subseteq Elements(list[t]) \cup deleted
    BY <2>1 DEF LostInv, CoversOK
  <2> QED BY <1>0, <1>000, <2>2, <2>3
<1>2. ASSUME NEW t \in Threads, RemoveFromDatabase(t) PROVE Goal
  <2>1. pc[t] = "remove" /\ k \in Doomed(op[t])
    BY <1>00, <1>2 DEF RemoveFromDatabase, LostInv, Inv, TypeOK
  <2>2. IsRemoval(op[t])
    BY <2>1 DEF LostInv, Inv, InsideOK
  <2> QED BY <2>1, <2>2
<1>3. ASSUME NEW t \in Threads,
             \/ Call(t) \/ EnterHit(t) \/ EnterMiss(t) \/ Load(t) \/ PutFails(t)
             \/ UpsertList(t) \/ Return(t) \/ RemoveFromCache(t)
      PROVE  Goal
  BY <1>00, <1>3 DEF Call, EnterHit, EnterMiss, Load, PutFails, UpsertList, Return, RemoveFromCache
<1>4. ASSUME (\E j \in Keys : Expire(j)) \/ FlushCache \/ Crash PROVE Goal
  BY <1>00, <1>4 DEF Expire, FlushCache, Crash
<1>5. CASE UNCHANGED vars
  BY <1>00, <1>5 DEF vars
<1> QED BY <1>1, <1>2, <1>3, <1>4, <1>5 DEF Next

\* In a store with a database no item is lost: whichever operations run at
\* once, whichever Puts fail, whenever the cache expires or the process ends,
\* an item leaves a list only because it was named for deletion or its whole
\* key is being removed.
THEOREM NothingLost == ASSUME Persistent PROVE Spec => NoLostItem
<1>1. Init => LostInv
  BY InitLost
<1>2. LostInv /\ [Next]_vars => LostInv'
  BY NextInv, NextHeld, NextNamed, NextCovers DEF LostInv
<1>3. LostInv /\ [Next]_vars =>
        [\A k \in Keys : \A x \in Elements(Stored(k)) \ Elements(Stored(k))' :
           \/ x \in deleted'
           \/ \E t \in Threads : /\ pc[t] \in {"waiting", "remove"}
                                /\ IsRemoval(op[t]) /\ k \in Doomed(op[t])]_vars
  BY StepLosesNothing
<1> QED BY <1>1, <1>2, <1>3, PTL DEF Spec, NoLostItem
-----------------------------------------------------------------------------
\* A cached list and its copy in the database differ only while the thread
\* that edits it is between its edit and the end of its Upsert.
ApartOK ==
  \A k \in Keys : cache[k] # NoList /\ db[k] # NoList /\ cache[k] # db[k] =>
    \E t \in Threads : pc[t] \in {"store", "cache"} /\ op[t].key = k
StoredOK ==
  /\ \A t \in Threads : Persistent /\ pc[t] = "cache" => db[op[t].key] \in {NoList, list[t]}
  /\ ~Persistent => \A k \in Keys : db[k] = NoList
  /\ ~Persistent => \A t \in Threads : pc[t] # "store"
AgreeInv == Inv /\ HeldOK /\ ApartOK /\ StoredOK

LEMMA NextStored == Inv /\ StoredOK /\ [Next]_vars => StoredOK'
<1> SUFFICES ASSUME Inv, StoredOK, [Next]_vars PROVE StoredOK'
  OBVIOUS
<1>0. /\ pc \in [Threads -> {"idle", "waiting", "load", "store", "cache", "done", "remove"}]
      /\ op \in [Threads -> Operations \cup {NoOp}]
      /\ list \in [Threads -> Lists \cup {NoList}]
      /\ db \in [Keys -> Lists \cup {NoList}]
      /\ \A u \in Threads : pc[u] \in {"load", "store", "cache"} => op[u].key \in Keys
  BY HolderFacts DEF Inv, TypeOK, Inside
<1>1. ASSUME NEW t \in Threads, Call(t) PROVE StoredOK'
  BY <1>0, <1>1 DEF Call, StoredOK
<1>2. ASSUME NEW t \in Threads, EnterHit(t) \/ Load(t) PROVE StoredOK'
  <2>1. /\ op[t] \in Updates \cup Reads
        /\ pc[t] \in {"waiting", "load"} /\ pc' = [pc EXCEPT ![t] = AfterEdit(op[t])]
        /\ UNCHANGED <<op, db>> /\ \A u \in Threads \ {t} : list'[u] = list[u]
    <3>1. CASE EnterHit(t) BY <1>0, <3>1, EnterHitStep
    <3>2. CASE Load(t) BY <1>0, <3>2, LoadStep
    <3> QED BY <1>2, <3>1, <3>2
  <2>2. /\ AfterEdit(op[t]) = "store" => Persistent
        /\ AfterEdit(op[t]) = "cache" => ~Persistent
    BY <2>1, AfterEditFacts
  <2> QED BY <1>0, <2>1, <2>2 DEF StoredOK
<1>3. ASSUME NEW t \in Threads, EnterMiss(t) PROVE StoredOK'
  BY <1>0, <1>3 DEF EnterMiss, StoredOK
<1>4. ASSUME NEW t \in Threads, Put(t) PROVE StoredOK'
  <2>1. \A u \in Threads : Inside(u) /\ op[u].key = op[t].key => u = t
    BY <1>4, HolderFacts DEF Put, Inside
  <2> QED BY <1>0, <1>4, <2>1 DEF Put, StoredOK, Inside
<1>5. ASSUME NEW t \in Threads, UpsertList(t) PROVE StoredOK'
  BY <1>0, <1>5 DEF UpsertList, StoredOK
<1>6. ASSUME NEW t \in Threads, PutFails(t) \/ Return(t) PROVE StoredOK'
  BY <1>0, <1>6 DEF PutFails, Return, Ended, StoredOK
<1>7. ASSUME NEW t \in Threads, RemoveFromCache(t) PROVE StoredOK'
  BY <1>0, <1>7 DEF RemoveFromCache, StoredOK
<1>8. ASSUME NEW t \in Threads, RemoveFromDatabase(t) PROVE StoredOK'
  BY <1>0, <1>8 DEF RemoveFromDatabase, Ended, StoredOK
<1>9. ASSUME (\E k \in Keys : Expire(k)) \/ FlushCache PROVE StoredOK'
  BY <1>9 DEF Expire, FlushCache, StoredOK
<1>10. ASSUME Crash PROVE StoredOK'
  BY <1>10 DEF Crash, StoredOK
<1>11. CASE UNCHANGED vars
  BY <1>11 DEF vars, StoredOK
<1> QED BY <1>1, <1>2, <1>3, <1>4, <1>5, <1>6, <1>7, <1>8, <1>9, <1>10, <1>11 DEF Next

LEMMA NextApart == ~MayFail /\ AgreeInv /\ [Next]_vars => ApartOK'
<1> SUFFICES ASSUME ~MayFail, AgreeInv, [Next]_vars, NEW k \in Keys,
                    cache'[k] # NoList, db'[k] # NoList, cache'[k] # db'[k]
             PROVE  \E u \in Threads : pc'[u] \in {"store", "cache"} /\ op'[u].key = k
  BY DEF ApartOK
<1> DEFINE Goal == \E u \in Threads : pc'[u] \in {"store", "cache"} /\ op'[u].key = k
<1>0. /\ pc \in [Threads -> {"idle", "waiting", "load", "store", "cache", "done", "remove"}]
      /\ op \in [Threads -> Operations \cup {NoOp}]
      /\ cache \in [Keys -> Lists \cup {NoList}]
      /\ db \in [Keys -> Lists \cup {NoList}]
      /\ Inv
  BY DEF AgreeInv, Inv, TypeOK
<1>00. cache[k] # NoList /\ db[k] # NoList /\ cache[k] # db[k] =>
         \E u \in Threads : pc[u] \in {"store", "cache"} /\ op[u].key = k
  BY DEF AgreeInv, ApartOK
<1>1. ASSUME NEW t \in Threads, Call(t) PROVE Goal
  <2>1. /\ UNCHANGED <<cache, db>>
        /\ \A u \in Threads : pc[u] \in {"store", "cache"} => pc'[u] = pc[u] /\ op'[u] = op[u]
    BY <1>0, <1>1 DEF Call
  <2> QED BY <1>00, <2>1
<1>2. ASSUME NEW t \in Threads, EnterHit(t) PROVE Goal
  <2> DEFINE o == op[t]
  <2>1. /\ o.key \in Keys /\ pc[t] = "waiting" /\ o \in Updates \cup Reads
        /\ cache[o.key] \in Lists
        /\ \A u \in Threads : Inside(u) => op[u].key # o.key
        /\ cache' = [cache EXCEPT ![o.key] = Edited(o, cache[o.key])]
        /\ pc' = [pc EXCEPT ![t] = AfterEdit(o)]
        /\ AfterEdit(o) \in {"store", "cache", "done"}
        /\ UNCHANGED <<op, db>>
    BY <1>0, <1>2, EnterHitStep
  <2>2. CASE k = o.key /\ AfterEdit(o) = "done"
    <3>1. o \in Reads
      BY <2>1, <2>2, AfterEditFacts
    <3>2. cache[k] \in Lists \cup {NoList}
      BY <2>1, <2>2
    <3>3. Edited(o, cache[k]) = cache[k]
      BY <2>1, <3>1, <3>2, EditedIsList
    <3>4. cache'[k] = cache[k] /\ db'[k] = db[k]
      BY <1>0, <2>1, <2>2, <3>3
    <3> QED BY <1>00, <2>1, <2>2, <3>4 DEF Inside
  <2>3. CASE k = o.key /\ AfterEdit(o) # "done"
    BY <1>0, <2>1, <2>3
  <2>4. CASE k # o.key
    BY <1>0, <1>00, <2>1, <2>4
  <2> QED BY <2>2, <2>3, <2>4
<1>3. ASSUME NEW t \in Threads, EnterMiss(t) PROVE Goal
  BY <1>0, <1>00, <1>3 DEF EnterMiss
<1>4. ASSUME NEW t \in Threads, Load(t) PROVE Goal
  BY <1>0, <1>00, <1>4 DEF Load
<1>5. ASSUME NEW t \in Threads, Put(t) PROVE Goal
  BY <1>0, <1>00, <1>5 DEF Put
<1>6. ASSUME NEW t \in Threads, UpsertList(t) PROVE Goal
  <2>1. op[t].key \in Keys
    BY <1>0, <1>6, HolderFacts DEF UpsertList, Inside
  <2>2. db[op[t].key] \in {NoList, list[t]}
    BY <1>6, <2>1 DEF AgreeInv, StoredOK, UpsertList
  <2> QED BY <1>0, <1>00, <1>6, <2>1, <2>2 DEF UpsertList, Upsert
<1>7. ASSUME NEW t \in Threads, Return(t) PROVE Goal
  BY <1>0, <1>00, <1>7 DEF Return, Ended
<1>8. ASSUME NEW t \in Threads, RemoveFromCache(t) PROVE Goal
  BY <1>0, <1>00, <1>8 DEF RemoveFromCache
<1>9. ASSUME NEW t \in Threads, RemoveFromDatabase(t) PROVE Goal
  BY <1>0, <1>00, <1>9 DEF RemoveFromDatabase, Ended
<1>10. ASSUME (\E j \in Keys : Expire(j)) \/ FlushCache PROVE Goal
  BY <1>0, <1>00, <1>10 DEF Expire, FlushCache
<1>11. ASSUME Crash PROVE Goal
  BY <1>11 DEF Crash
<1>12. CASE UNCHANGED vars
  BY <1>00, <1>12 DEF vars
<1>13. \A t \in Threads : ~PutFails(t)
  BY DEF PutFails
<1> QED
  BY <1>1, <1>2, <1>3, <1>4, <1>5, <1>6, <1>7, <1>8, <1>9, <1>10, <1>11, <1>12, <1>13 DEF Next
-----------------------------------------------------------------------------
\* With a database, no removals and no failing Put, a thread carries the list
\* that its operation makes of the stored one, and the cache differs from the
\* database only until the Put.
CarriedOK ==
  /\ \A k \in Keys : cache[k] # NoList /\ cache[k] # db[k] =>
       \E t \in Threads : pc[t] = "store" /\ op[t].key = k
  /\ \A t \in Threads :
       /\ pc[t] = "idle" => op[t] = NoOp
       /\ pc[t] = "store" => list[t] = Edited(op[t], db[op[t].key])
       /\ pc[t] = "cache" => list[t] = db[op[t].key]
RefInv == Inv /\ HeldOK /\ CarriedOK

LEMMA NoRemovals ==
  ASSUME ~Destructive, Inv
  PROVE  \A t \in Threads : /\ pc[t] # "idle" => op[t] \in Updates \cup Reads
                            /\ ~RemoveFromCache(t) /\ ~RemoveFromDatabase(t)
                            /\ pc[t] # "remove"
<1> SUFFICES ASSUME NEW t \in Threads
             PROVE  /\ pc[t] # "idle" => op[t] \in Updates \cup Reads
                    /\ ~RemoveFromCache(t) /\ ~RemoveFromDatabase(t)
                    /\ pc[t] # "remove"
  OBVIOUS
<1>1. pc[t] # "idle" => op[t] \in Updates \cup Reads /\ ~IsRemoval(op[t])
  BY OperationFacts DEF Inv, TypeOK
<1> QED BY <1>1 DEF RemoveFromCache, RemoveFromDatabase, Inv, InsideOK

LEMMA FreeKeyIsStored ==
  ASSUME Inv, CarriedOK, NEW k \in Keys, cache[k] # NoList,
         \A u \in Threads : Inside(u) => op[u].key # k
  PROVE  cache[k] = db[k]
BY DEF CarriedOK, Inside

LEMMA NextCarried ==
  Persistent /\ ~Destructive /\ ~MayFail /\ RefInv /\ [Next]_vars => CarriedOK'
<1> SUFFICES ASSUME Persistent, ~Destructive, ~MayFail, RefInv, [Next]_vars
             PROVE  CarriedOK'
  OBVIOUS
<1>0. /\ pc \in [Threads -> {"idle", "waiting", "load", "store", "cache", "done", "remove"}]
      /\ op \in [Threads -> Operations \cup {NoOp}]
      /\ list \in [Threads -> Lists \cup {NoList}]
      /\ cache \in [Keys -> Lists \cup {NoList}]
      /\ db \in [Keys -> Lists \cup {NoList}]
      /\ \A u \in Threads : pc[u] \in {"load", "store", "cache"} => op[u].key \in Keys
      /\ Inv /\ CarriedOK
  BY HolderFacts DEF RefInv, Inv, TypeOK, Inside
<1>1. ASSUME NEW t \in Threads, Call(t) PROVE CarriedOK'
  BY <1>0, <1>1 DEF Call, CarriedOK
<1>2. ASSUME NEW t \in Threads, EnterHit(t) PROVE CarriedOK'
  <2> DEFINE o == op[t]
  <2>1. /\ o.key \in Keys /\ pc[t] = "waiting" /\ o \in Updates \cup Reads
        /\ cache[o.key] \in Lists
        /\ \A u \in Threads : Inside(u) => op[u].key # o.key
        /\ list' = [list EXCEPT ![t] = Edited(o, cache[o.key])]
        /\ cache' = [cache EXCEPT ![o.key] = Edited(o, cache[o.key])]
        /\ pc' = [pc EXCEPT ![t] = AfterEdit(o)]
        /\ AfterEdit(o) \in {"store", "cache", "done"}
        /\ UNCHANGED <<op, db>>
    BY <1>0, <1>2, EnterHitStep
  <2>2. cache[o.key] # NoList
    BY <2>1, NoListAssumption DEF Lists
  <2>3. cache[o.key] = db[o.key]
    BY <1>0, <2>1, <2>2, FreeKeyIsStored
  <2>4. AfterEdit(o) # "cache"
    BY <2>1, AfterEditFacts
  <2>5. CASE AfterEdit(o) = "store"
    BY <1>0, <2>1, <2>3, <2>5 DEF CarriedOK, Inside
  <2>6. CASE AfterEdit(o) = "done"
    <3>1. o \in Reads
      BY <2>1, <2>6, AfterEditFacts
    <3>2. cache[o.key] \in Lists \cup {NoList}
      BY <2>1
    <3>3. Edited(o, cache[o.key]) = cache[o.key]
      BY <2>1, <3>1, <3>2, EditedIsList
    <3>4. cache' = cache
      BY <1>0, <2>1, <3>3
    <3> QED BY <1>0, <2>1, <2>6, <3>4 DEF CarriedOK
  <2> QED BY <2>1, <2>4, <2>5, <2>6
<1>3. ASSUME NEW t \in Threads, EnterMiss(t) PROVE CarriedOK'
  BY <1>0, <1>3 DEF EnterMiss, CarriedOK
<1>4. ASSUME NEW t \in Threads, Load(t) PROVE CarriedOK'
  <2>1. /\ pc[t] = "load" /\ op[t] \in Updates \cup Reads
        /\ list' = [list EXCEPT ![t] = Edited(op[t], db[op[t].key])]
        /\ pc' = [pc EXCEPT ![t] = AfterEdit(op[t])]
        /\ AfterEdit(op[t]) \in {"store", "cache", "done"}
        /\ UNCHANGED <<op, db, cache>>
    BY <1>0, <1>4, LoadStep
  <2>2. AfterEdit(op[t]) # "cache"
    BY <2>1, AfterEditFacts
  <2> QED BY <1>0, <2>1, <2>2 DEF CarriedOK
<1>5. ASSUME NEW t \in Threads, Put(t) PROVE CarriedOK'
  <2>1. /\ pc[t] = "store" /\ pc' = [pc EXCEPT ![t] = "cache"]
        /\ db' = [db EXCEPT ![op[t].key] = list[t]]
        /\ UNCHANGED <<op, list, cache>>
    BY <1>5 DEF Put
  <2>2. /\ op[t].key \in Keys
        /\ \A u \in Threads : Inside(u) /\ op[u].key = op[t].key => u = t
    BY <1>0, <2>1, HolderFacts DEF Inside
  <2>3. cache[op[t].key] \in {NoList, list[t]}
    BY <2>1 DEF RefInv, HeldOK
  <2>4. \A k \in Keys : cache'[k] # NoList /\ cache'[k] # db'[k] =>
          \E u \in Threads : pc'[u] = "store" /\ op'[u].key = k
    BY <1>0, <2>1, <2>2, <2>3 DEF CarriedOK
  <2>5. \A u \in Threads :
          /\ pc'[u] = "idle" => op'[u] = NoOp
          /\ pc'[u] = "store" => list'[u] = Edited(op'[u], db'[op'[u].key])
          /\ pc'[u] = "cache" => list'[u] = db'[op'[u].key]
    BY <1>0, <2>1, <2>2 DEF CarriedOK, Inside
  <2> QED BY <2>4, <2>5 DEF CarriedOK
<1>6. ASSUME NEW t \in Threads, UpsertList(t) PROVE CarriedOK'
  BY <1>0, <1>6 DEF UpsertList, Upsert, CarriedOK
<1>7. ASSUME NEW t \in Threads, Return(t) PROVE CarriedOK'
  BY <1>0, <1>7 DEF Return, Ended, CarriedOK
<1>8. ASSUME (\E k \in Keys : Expire(k)) \/ FlushCache PROVE CarriedOK'
  <2>1. /\ UNCHANGED <<pc, db, op, list>>
        /\ \A k \in Keys : cache'[k] \in {NoList, cache[k]}
    BY <1>0, <1>8 DEF Expire, FlushCache
  <2> QED BY <1>0, <2>1 DEF CarriedOK
<1>9. ASSUME Crash PROVE CarriedOK'
  BY <1>9 DEF Crash, CarriedOK
<1>10. CASE UNCHANGED vars
  BY <1>0, <1>10 DEF vars, CarriedOK
<1>11. \A t \in Threads : ~PutFails(t) /\ ~RemoveFromCache(t) /\ ~RemoveFromDatabase(t)
  BY <1>0, NoRemovals DEF PutFails
<1> QED BY <1>1, <1>2, <1>3, <1>4, <1>5, <1>6, <1>7, <1>8, <1>9, <1>10, <1>11 DEF Next

LEMMA InitRef == Init => RefInv
<1> SUFFICES ASSUME Init PROVE RefInv
  OBVIOUS
<1>1. Inv
  BY InitInv
<1>2. HeldOK /\ CarriedOK
  BY DEF Init, HeldOK, CarriedOK
<1> QED BY <1>1, <1>2 DEF RefInv

LEMMA NextRef ==
  ASSUME Persistent, ~Destructive, ~MayFail
  PROVE  RefInv /\ [Next]_vars => RefInv'
BY NextInv, NextHeld, NextCarried DEF RefInv

\* As long as no Put fails, a cached list that nobody edits is the one in the
\* database: what an operation finds in the cache is what is stored. Where
\* DeleteKey and StorePurge are called, which take no key lock, the database may
\* have no list instead, and never another one.
THEOREM CacheIsCoherent == ASSUME ~MayFail PROVE Spec => []CacheAgrees
<1> DEFINE CoherentInv == AgreeInv /\ (Persistent /\ ~Destructive => RefInv)
<1>1. Init => CoherentInv
  <2> SUFFICES ASSUME Init PROVE AgreeInv
    BY InitRef
  <2>1. Inv
    BY InitInv
  <2>2. HeldOK /\ ApartOK /\ StoredOK
    BY DEF Init, HeldOK, ApartOK, StoredOK
  <2> QED BY <2>1, <2>2 DEF AgreeInv
<1>2. CoherentInv /\ [Next]_vars => CoherentInv'
  <2>1. AgreeInv /\ [Next]_vars => AgreeInv'
    BY NextInv, NextHeld, NextStored, NextApart DEF AgreeInv
  <2>2. Persistent /\ ~Destructive /\ RefInv /\ [Next]_vars => RefInv'
    BY NextRef
  <2> QED BY <2>1, <2>2
<1>3. CoherentInv => CacheAgrees
  <2> SUFFICES ASSUME CoherentInv, Persistent, NEW k \in Keys, owner[k] = NoThread, cache[k] # NoList
               PROVE  cache[k] = db[k] \/ (Destructive /\ db[k] = NoList)
    BY DEF CacheAgrees
  <2>1. \A u \in Threads : Inside(u) => op[u].key # k
    BY ThreadsAssumption DEF AgreeInv, Inv, TypeOK
  <2>2. CASE Destructive
    BY <2>1, <2>2 DEF AgreeInv, ApartOK, Inside
  <2>3. CASE ~Destructive
    BY <2>1, <2>3, FreeKeyIsStored DEF RefInv
  <2> QED BY <2>2, <2>3
<1> QED BY <1>1, <1>2, <1>3, PTL DEF Spec

LEMMA UpdatesReplyNothing ==
  ASSUME NEW o \in Updates, NEW l
  PROVE  Reply(o, l) = NoItem
BY DEF Updates, Pushes, Deletes, Reply

\* What the callers see of a thread, by where it is.
CallShown(u) ==
  /\ pc[u] = "idle" => CallOf(u) = Abstract!Idle
  /\ pc[u] \in {"waiting", "load", "store"} => CallOf(u) = Abstract!Pending(op[u])
  /\ pc[u] \in {"cache", "done"} => CallOf(u) = Abstract!Done(op[u], Reply(op[u], list[u]))

LEMMA CallValue == Persistent /\ RefInv => \A u \in Threads : CallShown(u)
<1> SUFFICES ASSUME Persistent, RefInv, NEW u \in Threads PROVE CallShown(u)
  OBVIOUS
<1>1. pc[u] = "idle" => op[u] = NoOp
  BY DEF RefInv, CarriedOK
<1>2. pc[u] = "cache" => Stored(op[u].key) # NoList
  BY NoListAssumption DEF RefInv, CarriedOK, Inv, InsideOK, Stored, Lists
<1> QED
  BY <1>1, <1>2 DEF CallShown, CallOf, Applied, Abstract!Idle, Abstract!Pending, Abstract!Done

\* ListSpec takes the operations from ListEdits as ListStore does.
LEMMA SameOperations ==
  /\ Abstract!Updates = Updates /\ Abstract!Reads = Reads
  /\ \A o, l : Abstract!Edited(o, l) = Edited(o, l)
  /\ \A o, l : Abstract!Reply(o, l) = Reply(o, l)
<1>1. Abstract!Updates = Updates /\ Abstract!Reads = Reads
  BY DEF Abstract!Updates, Abstract!Pushes, Abstract!Deletes, Abstract!Reads,
         Updates, Pushes, Deletes, Reads
<1>2. \A l : Abstract!OrNew(l) = OrNew(l)
  BY DEF Abstract!OrNew, OrNew
<1>3. \A l, x : Abstract!Without(l, x) = Without(l, x)
  BY DEF Abstract!Without, Abstract!Picked, Abstract!Kept, Abstract!Nth, Abstract!Rank,
         Abstract!Cardinality, Without, Picked, Kept, Nth, Rank, Cardinality
<1>4. \A o, l : Abstract!Edited(o, l) = Edited(o, l)
  BY <1>2, <1>3 DEF Abstract!Edited, Edited
<1>5. \A o, l : Abstract!Reply(o, l) = Reply(o, l)
  BY <1>2 DEF Abstract!Reply, Reply
<1> QED BY <1>1, <1>4, <1>5

LEMMA StepRefines ==
  Persistent /\ ~Destructive /\ ~MayFail /\ RefInv /\ RefInv' /\ [Next]_vars =>
    [Abstract!Next]_<<[k \in Keys |-> Stored(k)], [t \in Threads |-> CallOf(t)]>>
<1> SUFFICES ASSUME Persistent, ~Destructive, ~MayFail, RefInv, RefInv', [Next]_vars
             PROVE  \/ Abstract!Next
                    \/ UNCHANGED <<[k \in Keys |-> Stored(k)], [t \in Threads |-> CallOf(t)]>>
  OBVIOUS
<1> DEFINE L == [k \in Keys |-> Stored(k)]
           C == [u \in Threads |-> CallOf(u)]
           Goal == Abstract!Next \/ (L' = L /\ C' = C)
<1>0. /\ pc \in [Threads -> {"idle", "waiting", "load", "store", "cache", "done", "remove"}]
      /\ op \in [Threads -> Operations \cup {NoOp}]
      /\ list \in [Threads -> Lists \cup {NoList}]
      /\ cache \in [Keys -> Lists \cup {NoList}]
      /\ db \in [Keys -> Lists \cup {NoList}]
      /\ Inv /\ CarriedOK
  BY DEF RefInv, Inv, TypeOK
<1>01. L = db /\ L' = db'
  BY DEF RefInv, Inv, TypeOK, Stored
<1>02. \A u \in Threads : CallShown(u)
  BY CallValue
<1>03. \A u \in Threads : CallShown(u)'
  <2>1. Persistent /\ RefInv' => (\A u \in Threads : CallShown(u))'
    BY CallValue, PTL
  <2> QED BY <2>1
<1>04. \A u \in Threads : pc'[u] = pc[u] /\ op'[u] = op[u] /\ list'[u] = list[u] => C'[u] = C[u]
  BY <1>0, <1>02, <1>03, NoRemovals DEF CallShown
<1>05. C = [u \in Threads |-> C[u]] /\ C' = [u \in Threads |-> C'[u]]
  OBVIOUS
<1>06. \A u \in Threads : C[u] = CallOf(u) /\ C'[u] = CallOf(u)'
  OBVIOUS
<1>07. ASSUME NEW t \in Threads, C[t] = Abstract!Idle, L' = L,
              NEW o \in Updates \cup Reads, C' = [C EXCEPT ![t] = Abstract!Pending(o)]
       PROVE  Abstract!Next
  BY <1>07, SameOperations DEF Abstract!Next, Abstract!Invoke
<1>08. ASSUME NEW t \in Threads, C[t].status = "pending",
              L' = [L EXCEPT ![C[t].op.key] = Edited(C[t].op, L[C[t].op.key])],
              C' = [C EXCEPT ![t] = Abstract!Done(C[t].op, Reply(C[t].op, L[C[t].op.key]))]
       PROVE  Abstract!Next
  BY <1>08, SameOperations DEF Abstract!Next, Abstract!Apply
<1>09. ASSUME NEW t \in Threads, C[t].status = "done", L' = L,
              C' = [C EXCEPT ![t] = Abstract!Idle]
       PROVE  Abstract!Next
  BY <1>09 DEF Abstract!Next, Abstract!Return
<1>010. ASSUME L' = L, C' = [u \in Threads |-> Abstract!Idle]
        PROVE  Abstract!Next
  BY <1>010 DEF Abstract!Next, Abstract!Crash
<1> HIDE DEF L, C
<1>1. ASSUME NEW t \in Threads, Call(t) PROVE Goal
  <2>1. /\ pc[t] = "idle" /\ pc' = [pc EXCEPT ![t] = "waiting"]
        /\ UNCHANGED <<list, db>>
        /\ \A u \in Threads \ {t} : op'[u] = op[u]
    BY <1>0, <1>1 DEF Call
  <2>2. op'[t] \in Updates \cup Reads
    <3>1. pc'[t] # "idle"
      BY <1>0, <2>1
    <3>2. op'[t] \in Operations
      BY <3>1 DEF RefInv, Inv, TypeOK
    <3> QED BY <3>2, OperationFacts
  <2>3. C[t] = Abstract!Idle /\ C'[t] = Abstract!Pending(op'[t])
    BY <1>0, <1>02, <1>03, <1>06, <2>1 DEF CallShown
  <2>4. C' = [C EXCEPT ![t] = Abstract!Pending(op'[t])]
    BY <1>0, <1>04, <1>05, <2>1, <2>3
  <2> QED BY <1>01, <1>07, <2>1, <2>2, <2>3, <2>4
<1>2. ASSUME NEW t \in Threads, EnterHit(t) \/ Load(t) PROVE Goal
  <2> DEFINE o == op[t]
  <2>1. /\ o.key \in Keys /\ pc[t] \in {"waiting", "load"} /\ o \in Updates \cup Reads
        /\ list' = [list EXCEPT ![t] = Edited(o, db[o.key])]
        /\ pc' = [pc EXCEPT ![t] = AfterEdit(o)]
        /\ AfterEdit(o) \in {"store", "cache", "done"}
        /\ UNCHANGED <<op, db>>
    <3>1. CASE Load(t)
      BY <1>0, <3>1, LoadStep
    <3>2. CASE EnterHit(t)
      <4>1. /\ o.key \in Keys /\ pc[t] = "waiting" /\ o \in Updates \cup Reads
            /\ cache[o.key] \in Lists
            /\ \A u \in Threads : Inside(u) => op[u].key # o.key
            /\ list' = [list EXCEPT ![t] = Edited(o, cache[o.key])]
            /\ pc' = [pc EXCEPT ![t] = AfterEdit(o)]
            /\ AfterEdit(o) \in {"store", "cache", "done"}
            /\ UNCHANGED <<op, db>>
        BY <1>0, <3>2, EnterHitStep
      <4>2. cache[o.key] # NoList
        BY <4>1, NoListAssumption DEF Lists
      <4>3. cache[o.key] = db[o.key]
        BY <1>0, <4>1, <4>2, FreeKeyIsStored
      <4> QED BY <4>1, <4>3
    <3> QED BY <1>2, <3>1, <3>2
  <2>2. AfterEdit(o) # "cache"
    BY <2>1, AfterEditFacts
  <2>3. \A u \in Threads \ {t} : C'[u] = C[u]
    BY <1>0, <1>04, <2>1
  <2>4. CASE AfterEdit(o) = "store"
    <3>1. C'[t] = C[t]
      BY <1>0, <1>02, <1>03, <1>06, <2>1, <2>4 DEF CallShown
    <3> QED BY <1>01, <1>05, <2>1, <2>3, <3>1
  <2>5. CASE AfterEdit(o) = "done"
    <3>1. o \in Reads
      BY <2>1, <2>5, AfterEditFacts
    <3>2. Edited(o, db[o.key]) = db[o.key]
      <4>1. db[o.key] \in Lists \cup {NoList}
        BY <1>0, <2>1
      <4> HIDE DEF o
      <4> QED BY <2>1, <3>1, <4>1, EditedIsList
    <3>3. list'[t] = db[o.key]
      BY <1>0, <2>1, <3>2
    <3>4. C[t] = Abstract!Pending(o) /\ C'[t] = Abstract!Done(o, Reply(o, db[o.key]))
      BY <1>0, <1>02, <1>03, <1>06, <2>1, <2>5, <3>3 DEF CallShown
    <3>5. C[t].status = "pending" /\ C[t].op = o
      BY <3>4 DEF Abstract!Pending
    <3>6. C' = [C EXCEPT ![t] = Abstract!Done(o, Reply(o, db[o.key]))]
      BY <1>05, <2>3, <3>4
    <3>7. L' = [L EXCEPT ![o.key] = Edited(o, L[o.key])]
      BY <1>0, <1>01, <2>1, <3>2
    <3> QED BY <1>01, <1>08, <3>5, <3>6, <3>7
  <2> QED BY <2>1, <2>2, <2>4, <2>5
<1>3. ASSUME NEW t \in Threads, EnterMiss(t) PROVE Goal
  <2>1. /\ pc[t] = "waiting" /\ pc' = [pc EXCEPT ![t] = "load"] /\ UNCHANGED <<op, list, db>>
    BY <1>3 DEF EnterMiss
  <2>2. C'[t] = C[t]
    BY <1>0, <1>02, <1>03, <1>06, <2>1 DEF CallShown
  <2>3. \A u \in Threads \ {t} : C'[u] = C[u]
    BY <1>0, <1>04, <2>1
  <2> QED BY <1>01, <1>05, <2>1, <2>2, <2>3
<1>4. ASSUME NEW t \in Threads, Put(t) PROVE Goal
  <2> DEFINE o == op[t]
  <2>1. /\ pc[t] = "store" /\ pc' = [pc EXCEPT ![t] = "cache"]
        /\ db' = [db EXCEPT ![o.key] = list[t]]
        /\ UNCHANGED <<op, list>>
    BY <1>4 DEF Put
  <2>2. list[t] = Edited(o, db[o.key]) /\ o \in Updates
    BY <2>1 DEF RefInv, Inv, InsideOK, CarriedOK
  <2>3. C[t] = Abstract!Pending(o) /\ C'[t] = Abstract!Done(o, Reply(o, list[t]))
    BY <1>0, <1>02, <1>03, <1>06, <2>1 DEF CallShown
  <2>4. Reply(o, list[t]) = Reply(o, L[o.key])
    BY <2>2, UpdatesReplyNothing
  <2>5. C[t].status = "pending" /\ C[t].op = o
    BY <2>3 DEF Abstract!Pending
  <2>6. \A u \in Threads \ {t} : C'[u] = C[u]
    BY <1>0, <1>04, <2>1
  <2>7. C' = [C EXCEPT ![t] = Abstract!Done(o, Reply(o, L[o.key]))]
    BY <1>05, <2>3, <2>4, <2>6
  <2>8. L' = [L EXCEPT ![o.key] = Edited(o, L[o.key])]
    BY <1>01, <2>1, <2>2
  <2> QED BY <1>08, <2>5, <2>7, <2>8
<1>5. ASSUME NEW t \in Threads, UpsertList(t) PROVE Goal
  <2>1. /\ pc[t] = "cache" /\ pc' = [pc EXCEPT ![t] = "done"] /\ UNCHANGED <<op, list, db>>
    BY <1>5 DEF UpsertList
  <2>2. C'[t] = C[t]
    BY <1>0, <1>02, <1>03, <1>06, <2>1 DEF CallShown
  <2>3. \A u \in Threads \ {t} : C'[u] = C[u]
    BY <1>0, <1>04, <2>1
  <2> QED BY <1>01, <1>05, <2>1, <2>2, <2>3
<1>6. ASSUME NEW t \in Threads, Return(t) PROVE Goal
  <2>1. /\ pc[t] = "done" /\ pc' = [pc EXCEPT ![t] = "idle"]
        /\ op' = [op EXCEPT ![t] = NoOp] /\ list' = [list EXCEPT ![t] = NoList]
        /\ UNCHANGED db
    BY <1>6 DEF Return, Ended
  <2>2. C[t].status = "done" /\ C'[t] = Abstract!Idle
    BY <1>0, <1>02, <1>03, <1>06, <2>1 DEF CallShown, Abstract!Done
  <2>3. \A u \in Threads \ {t} : C'[u] = C[u]
    BY <1>0, <1>04, <2>1
  <2>4. C' = [C EXCEPT ![t] = Abstract!Idle]
    BY <1>05, <2>2, <2>3
  <2> QED BY <1>01, <1>09, <2>1, <2>2, <2>4
<1>7. ASSUME (\E k \in Keys : Expire(k)) \/ FlushCache \/ UNCHANGED vars PROVE Goal
  <2>1. UNCHANGED <<pc, op, list, db>>
    BY <1>7 DEF Expire, FlushCache, vars
  <2>2. \A u \in Threads : C'[u] = C[u]
    BY <1>04, <2>1
  <2> QED BY <1>01, <1>05, <2>1, <2>2
<1>8. ASSUME Crash PROVE Goal
  <2>1. UNCHANGED db /\ \A u \in Threads : pc'[u] = "idle"
    BY <1>8 DEF Crash
  <2>2. \A u \in Threads : C'[u] = Abstract!Idle
    BY <1>03, <1>06, <2>1 DEF CallShown
  <2> QED BY <1>01, <1>05, <1>010, <2>1, <2>2
<1>9. \A t \in Threads : ~PutFails(t) /\ ~RemoveFromCache(t) /\ ~RemoveFromDatabase(t)
  BY <1>0, NoRemovals DEF PutFails
<1>10. Goal
  BY <1>1, <1>2, <1>3, <1>4, <1>5, <1>6, <1>7, <1>8, <1>9 DEF Next
<1> QED BY <1>10 DEF L, C

\* The operations on the lists of a store with a database are atomic: if no
\* Put fails and no key or store is being removed, each takes effect at one
\* instant, its Put for an update, between its call and its return, and a
\* crash loses none that took effect.
THEOREM ListsAreAtomic ==
  ASSUME Persistent, ~Destructive, ~MayFail PROVE Spec => ImplementsListSpec
<1>1. Init => Abstract!Init
  BY DEF Init, Abstract!Init, Abstract!Idle, Stored, CallOf, Applied
<1>2. RefInv /\ RefInv' /\ [Next]_vars =>
        [Abstract!Next]_<<[k \in Keys |-> Stored(k)], [t \in Threads |-> CallOf(t)]>>
  BY StepRefines
<1> QED BY <1>1, <1>2, InitRef, NextRef, PTL DEF Spec, ImplementsListSpec, Abstract!Spec

\* The items that a step puts into the database.
LEMMA StepAddsPushed ==
  ASSUME Persistent, ~Destructive, ~MayFail, RefInv, [Next]_vars, NEW k \in Keys,
         NEW x \in Elements(Stored(k)') \ Elements(Stored(k))
  PROVE  \E t \in Threads : pc[t] # "idle" /\ IsPush(op[t]) /\ op[t].item = x /\ op[t].key = k
<1> DEFINE Goal == \E t \in Threads :
             pc[t] # "idle" /\ IsPush(op[t]) /\ op[t].item = x /\ op[t].key = k
<1>0. x \in Elements(db'[k]) \ Elements(db[k])
  BY DEF Stored
<1>00. db[k] # db'[k] /\ db[k] \in Lists \cup {NoList}
  BY <1>0 DEF RefInv, Inv, TypeOK
<1>1. ASSUME NEW t \in Threads, Put(t) PROVE Goal
  <2>1. pc[t] = "store" /\ k = op[t].key /\ db'[k] = list[t]
    BY <1>00, <1>1 DEF Put, RefInv, Inv, TypeOK
  <2>2. op[t] \in Updates /\ db'[k] = Edited(op[t], db[k])
    BY <2>1 DEF RefInv, CarriedOK, Inv, InsideOK
  <2>3. /\ op[t] \in Pushes => Elements(db'[k]) = Elements(db[k]) \cup {op[t].item}
        /\ op[t] \in Deletes => Elements(db'[k]) = Elements(db[k]) \ {op[t].item}
    BY <1>00, <2>2, EditedIsList
  <2>4. op[t] \in Pushes /\ x = op[t].item
    BY <1>0, <2>2, <2>3 DEF Updates
  <2>5. IsPush(op[t])
    BY <2>4 DEF Pushes, IsPush
  <2> QED BY <2>1, <2>4, <2>5
<1>2. ASSUME NEW t \in Threads,
             \/ Call(t) \/ EnterHit(t) \/ EnterMiss(t) \/ Load(t) \/ UpsertList(t) \/ Return(t)
      PROVE  Goal
  BY <1>00, <1>2 DEF Call, EnterHit, EnterMiss, Load, UpsertList, Return
<1>3. ASSUME (\E j \in Keys : Expire(j)) \/ FlushCache \/ Crash PROVE Goal
  BY <1>00, <1>3 DEF Expire, FlushCache, Crash
<1>4. CASE UNCHANGED vars
  BY <1>00, <1>4 DEF vars
<1>5. \A t \in Threads : ~PutFails(t) /\ ~RemoveFromCache(t) /\ ~RemoveFromDatabase(t)
  BY NoRemovals DEF PutFails, RefInv
<1> QED BY <1>1, <1>2, <1>3, <1>4, <1>5 DEF Next

\* Nothing that is not being pushed enters a list: what was deleted does not
\* come back with a list that was read before.
THEOREM NothingComesBack ==
  ASSUME Persistent, ~Destructive, ~MayFail PROVE Spec => NoGhostItem
<1>1. RefInv /\ [Next]_vars =>
        [\A k \in Keys : \A x \in Elements(Stored(k))' \ Elements(Stored(k)) :
           \E t \in Threads : pc[t] # "idle" /\ IsPush(op[t]) /\ op[t].item = x
                             /\ op[t].key = k]_vars
  BY StepAddsPushed
<1> QED BY <1>1, InitRef, NextRef, PTL DEF Spec, NoGhostItem
-----------------------------------------------------------------------------
\* In a store without a database the cached list is the stored one. A thread
\* that found none still carries what its operation makes of none.
FreshOK ==
  \A t \in Threads :
    /\ pc[t] = "idle" => op[t] = NoOp
    /\ pc[t] = "cache" /\ cache[op[t].key] = NoList => list[t] = Edited(op[t], NoList)
MemoryInv == Inv /\ HeldOK /\ StoredOK /\ FreshOK

LEMMA NextFresh ==
  ~Persistent /\ ~Destructive /\ ~CacheLoss /\ ~MayCrash /\ MemoryInv /\ [Next]_vars => FreshOK'
<1> SUFFICES ASSUME ~Persistent, ~Destructive, ~CacheLoss, ~MayCrash, MemoryInv, [Next]_vars
             PROVE  FreshOK'
  OBVIOUS
<1>0. /\ pc \in [Threads -> {"idle", "waiting", "load", "store", "cache", "done", "remove"}]
      /\ op \in [Threads -> Operations \cup {NoOp}]
      /\ list \in [Threads -> Lists \cup {NoList}]
      /\ cache \in [Keys -> Lists \cup {NoList}]
      /\ \A u \in Threads : pc[u] \in {"load", "store", "cache"} => op[u].key \in Keys
      /\ Inv /\ FreshOK /\ \A k \in Keys : db[k] = NoList
      /\ \A u \in Threads : pc[u] # "store"
  BY HolderFacts DEF MemoryInv, Inv, TypeOK, Inside, StoredOK
<1>1. ASSUME NEW t \in Threads, Call(t) PROVE FreshOK'
  BY <1>0, <1>1 DEF Call, FreshOK
<1>2. ASSUME NEW t \in Threads, EnterHit(t) PROVE FreshOK'
  <2> DEFINE o == op[t]
  <2>1. /\ o.key \in Keys /\ pc[t] = "waiting" /\ o \in Updates \cup Reads
        /\ cache[o.key] \in Lists
        /\ \A u \in Threads : Inside(u) => op[u].key # o.key
        /\ list' = [list EXCEPT ![t] = Edited(o, cache[o.key])]
        /\ cache' = [cache EXCEPT ![o.key] = Edited(o, cache[o.key])]
        /\ pc' = [pc EXCEPT ![t] = AfterEdit(o)]
        /\ AfterEdit(o) \in {"store", "cache", "done"}
        /\ Edited(o, cache[o.key]) \in Lists
        /\ UNCHANGED <<op, db>>
    BY <1>0, <1>2, EnterHitStep
  <2>2. cache'[o.key] # NoList
    BY <1>0, <2>1, NoListAssumption DEF Lists
  <2> QED BY <1>0, <2>1, <2>2 DEF FreshOK, Inside
<1>3. ASSUME NEW t \in Threads, EnterMiss(t) PROVE FreshOK'
  BY <1>0, <1>3 DEF EnterMiss, FreshOK
<1>4. ASSUME NEW t \in Threads, Load(t) PROVE FreshOK'
  <2>1. /\ pc[t] = "load" /\ op[t] \in Updates \cup Reads /\ op[t].key \in Keys
        /\ list' = [list EXCEPT ![t] = Edited(op[t], db[op[t].key])]
        /\ pc' = [pc EXCEPT ![t] = AfterEdit(op[t])]
        /\ AfterEdit(op[t]) \in {"store", "cache", "done"}
        /\ UNCHANGED <<op, db, cache>>
    BY <1>0, <1>4, LoadStep
  <2>2. db[op[t].key] = NoList
    BY <1>0, <2>1
  <2> QED BY <1>0, <2>1, <2>2 DEF FreshOK
<1>5. ASSUME NEW t \in Threads, UpsertList(t) PROVE FreshOK'
  <2>1. \A u \in Threads : Inside(u) /\ op[u].key = op[t].key => u = t
    BY <1>0, <1>5, HolderFacts DEF UpsertList, Inside
  <2>2. op[t].key \in Keys
    BY <1>0, <1>5 DEF UpsertList
  <2> QED BY <1>0, <1>5, <2>1, <2>2 DEF UpsertList, Upsert, FreshOK, Inside
<1>6. ASSUME NEW t \in Threads, Return(t) PROVE FreshOK'
  BY <1>0, <1>6 DEF Return, Ended, FreshOK
<1>7. CASE UNCHANGED vars
  BY <1>0, <1>7 DEF vars, FreshOK
<1>8. /\ \A t \in Threads : ~Put(t) /\ ~PutFails(t) /\ ~RemoveFromCache(t) /\ ~RemoveFromDatabase(t)
      /\ ~FlushCache /\ ~Crash /\ \A k \in Keys : ~Expire(k)
  BY <1>0, NoRemovals DEF Put, PutFails, FlushCache, Crash, Expire
<1> QED BY <1>1, <1>2, <1>3, <1>4, <1>5, <1>6, <1>7, <1>8 DEF Next

LEMMA InitMemory == Init => MemoryInv
<1> SUFFICES ASSUME Init PROVE MemoryInv
  OBVIOUS
<1>1. Inv
  BY InitInv
<1>2. HeldOK /\ StoredOK /\ FreshOK
  BY DEF Init, HeldOK, StoredOK, FreshOK
<1> QED BY <1>1, <1>2 DEF MemoryInv

LEMMA NextMemory ==
  ASSUME ~Persistent, ~Destructive, ~CacheLoss, ~MayCrash
  PROVE  MemoryInv /\ [Next]_vars => MemoryInv'
BY NextInv, NextHeld, NextStored, NextFresh DEF MemoryInv

\* The items that a step takes out of the cache, or brings into it.
LEMMA StepOfCache ==
  ASSUME ~Persistent, ~CacheLoss, ~MayCrash, Inv, HeldOK, StoredOK, [Next]_vars,
         NEW k \in Keys, cache'[k] # cache[k]
  PROVE  \/ \E t \in Threads : /\ pc[t] = "waiting" /\ IsRemoval(op[t]) /\ k \in Doomed(op[t])
                               /\ cache'[k] = NoList
         \/ \E t \in Threads : /\ pc[t] = "waiting" /\ op[t] \in Updates /\ op[t].key = k
                               /\ cache[k] \in Lists /\ cache'[k] = Edited(op[t], cache[k])
         \/ \E t \in Threads : /\ pc[t] = "cache" /\ op[t] \in Updates /\ op[t].key = k
                               /\ cache[k] = NoList /\ cache'[k] = list[t]
<1> DEFINE Goal ==
      \/ \E t \in Threads : /\ pc[t] = "waiting" /\ IsRemoval(op[t]) /\ k \in Doomed(op[t])
                            /\ cache'[k] = NoList
      \/ \E t \in Threads : /\ pc[t] = "waiting" /\ op[t] \in Updates /\ op[t].key = k
                            /\ cache[k] \in Lists /\ cache'[k] = Edited(op[t], cache[k])
      \/ \E t \in Threads : /\ pc[t] = "cache" /\ op[t] \in Updates /\ op[t].key = k
                            /\ cache[k] = NoList /\ cache'[k] = list[t]
<1>0. cache \in [Keys -> Lists \cup {NoList}]
  BY DEF Inv, TypeOK
<1>1. ASSUME NEW t \in Threads, EnterHit(t) PROVE Goal
  <2>1. /\ pc[t] = "waiting" /\ op[t] \in Updates \cup Reads /\ op[t].key \in Keys
        /\ cache[op[t].key] \in Lists
        /\ cache' = [cache EXCEPT ![op[t].key] = Edited(op[t], cache[op[t].key])]
    BY <1>1, EnterHitStep
  <2>2. op[t].key = k /\ cache'[k] = Edited(op[t], cache[k]) /\ cache[k] \in Lists \cup {NoList}
    BY <1>0, <2>1
  <2>3. op[t] \notin Reads
    BY <2>1, <2>2, EditedIsList
  <2> QED BY <2>1, <2>2, <2>3
<1>2. ASSUME NEW t \in Threads, UpsertList(t) PROVE Goal
  <2>1. pc[t] = "cache" /\ cache' = [cache EXCEPT ![op[t].key] = list[t]]
    BY <1>2 DEF UpsertList, Upsert
  <2>2. op[t] \in Updates /\ op[t].key = k /\ cache'[k] = list[t]
    BY <1>0, <2>1 DEF Inv, InsideOK
  <2>3. cache[k] \in {NoList, list[t]}
    BY <2>1, <2>2 DEF HeldOK
  <2> QED BY <2>1, <2>2, <2>3
<1>3. ASSUME NEW t \in Threads, RemoveFromCache(t) PROVE Goal
  BY <1>0, <1>3 DEF RemoveFromCache
<1>4. ASSUME NEW t \in Threads,
             \/ Call(t) \/ EnterMiss(t) \/ Load(t) \/ Put(t) \/ PutFails(t) \/ Return(t)
             \/ RemoveFromDatabase(t)
      PROVE  FALSE
  BY <1>4 DEF Call, EnterMiss, Load, Put, PutFails, Return, RemoveFromDatabase
<1>5. ~(\E j \in Keys : Expire(j)) /\ ~FlushCache /\ ~Crash /\ ~UNCHANGED vars
  BY DEF Expire, FlushCache, Crash, vars
<1> QED BY <1>1, <1>2, <1>3, <1>4, <1>5 DEF Next

\* In a store without a database no item is lost either, beside removals too,
\* as long as nothing expires from its cache.
THEOREM NothingLostInMemory ==
  ASSUME ~Persistent, ~CacheLoss, ~MayCrash PROVE Spec => NoLostItem
<1> DEFINE KeptInv == Inv /\ HeldOK /\ StoredOK /\ NamedOK
<1>1. Init => KeptInv
  BY InitLost, InitMemory DEF LostInv, MemoryInv
<1>2. KeptInv /\ [Next]_vars => KeptInv'
  BY NextInv, NextHeld, NextStored, NextNamed
<1>3. ASSUME KeptInv, [Next]_vars, NEW k \in Keys,
             NEW x \in Elements(Stored(k)) \ Elements(Stored(k)')
      PROVE  \/ x \in deleted'
             \/ \E t \in Threads : /\ pc[t] \in {"waiting", "remove"}
                                  /\ IsRemoval(op[t]) /\ k \in Doomed(op[t])
  <2>1. x \in Elements(cache[k]) \ Elements(cache'[k])
    BY <1>3 DEF Stored
  <2>2. cache'[k] # cache[k]
    BY <2>1
  <2>3. ASSUME NEW t \in Threads, pc[t] = "waiting", op[t] \in Updates,
               cache[k] \in Lists, cache'[k] = Edited(op[t], cache[k])
        PROVE  x \in deleted'
    <3>1. Elements(cache[k]) \subseteq Elements(Edited(op[t], cache[k])) \cup deleted
      BY <1>3, <2>3, EditLosesNothing
    <3>2. deleted \subseteq deleted'
      BY <1>3, NextNamed
    <3> QED BY <2>1, <2>3, <3>1, <3>2
  <2>4. cache[k] # NoList
    BY <2>1, ElementsOfNoList
  <2> QED BY <1>3, <2>2, <2>3, <2>4, StepOfCache
<1>4. KeptInv /\ [Next]_vars =>
        [\A k \in Keys : \A x \in Elements(Stored(k)) \ Elements(Stored(k))' :
           \/ x \in deleted'
           \/ \E t \in Threads : /\ pc[t] \in {"waiting", "remove"}
                                /\ IsRemoval(op[t]) /\ k \in Doomed(op[t])]_vars
  BY <1>3
<1> QED BY <1>1, <1>2, <1>4, PTL DEF Spec, NoLostItem

\* Nothing that is not being pushed enters the list of a store without a
\* database.
THEOREM NothingComesBackInMemory ==
  ASSUME ~Persistent, ~Destructive, ~CacheLoss, ~MayCrash PROVE Spec => NoGhostItem
<1>1. ASSUME MemoryInv, [Next]_vars, NEW k \in Keys,
             NEW x \in Elements(Stored(k)') \ Elements(Stored(k))
      PROVE  \E t \in Threads : pc[t] # "idle" /\ IsPush(op[t]) /\ op[t].item = x /\ op[t].key = k
  <2>1. x \in Elements(cache'[k]) \ Elements(cache[k])
    BY <1>1 DEF Stored
  <2>2. cache'[k] # cache[k] /\ cache[k] \in Lists \cup {NoList}
    BY <1>1, <2>1 DEF MemoryInv, Inv, TypeOK
  <2>3. PICK t \in Threads : /\ pc[t] # "idle" /\ op[t] \in Updates /\ op[t].key = k
                             /\ cache'[k] = Edited(op[t], cache[k])
    BY <1>1, <2>1, <2>2, StepOfCache, ElementsOfNoList DEF MemoryInv, FreshOK
  <2>4. /\ op[t] \in Pushes => Elements(cache'[k]) = Elements(cache[k]) \cup {op[t].item}
        /\ op[t] \in Deletes => Elements(cache'[k]) = Elements(cache[k]) \ {op[t].item}
    BY <2>2, <2>3, EditedIsList
  <2>5. op[t] \in Pushes /\ x = op[t].item
    BY <2>1, <2>3, <2>4 DEF Updates
  <2>6. IsPush(op[t])
    BY <2>5 DEF Pushes, IsPush
  <2> QED BY <2>3, <2>5, <2>6
<1>2. MemoryInv /\ [Next]_vars =>
        [\A k \in Keys : \A x \in Elements(Stored(k))' \ Elements(Stored(k)) :
           \E t \in Threads : pc[t] # "idle" /\ IsPush(op[t]) /\ op[t].item = x
                             /\ op[t].key = k]_vars
  BY <1>1
<1> QED BY <1>2, InitMemory, NextMemory, PTL DEF Spec, NoGhostItem
-----------------------------------------------------------------------------
\* What the callers of a store without a database see of a thread.
CallInMemory(u) ==
  /\ pc[u] = "idle" => CallOf(u) = Abstract!Idle
  /\ pc[u] \in {"waiting", "load"} => CallOf(u) = Abstract!Pending(op[u])
  /\ pc[u] = "cache" /\ cache[op[u].key] = NoList => CallOf(u) = Abstract!Pending(op[u])
  /\ pc[u] = "cache" /\ cache[op[u].key] # NoList =>
       CallOf(u) = Abstract!Done(op[u], Reply(op[u], list[u]))
  /\ pc[u] = "done" => CallOf(u) = Abstract!Done(op[u], Reply(op[u], list[u]))

LEMMA CallValueInMemory == ~Persistent /\ MemoryInv => \A u \in Threads : CallInMemory(u)
<1> SUFFICES ASSUME ~Persistent, MemoryInv, NEW u \in Threads PROVE CallInMemory(u)
  OBVIOUS
<1>1. pc[u] = "idle" => op[u] = NoOp
  BY DEF MemoryInv, FreshOK
<1> QED
  BY <1>1 DEF CallInMemory, CallOf, Applied, Stored, Abstract!Idle, Abstract!Pending, Abstract!Done

\* An operation returns the same of the list it found and of the one it made.
LEMMA ReplyOfEdited ==
  ASSUME NEW o \in Updates \cup Reads, NEW l \in Lists \cup {NoList}
  PROVE  Reply(o, Edited(o, l)) = Reply(o, l)
<1>1. CASE o \in Updates
  BY <1>1, UpdatesReplyNothing
<1>2. CASE o \in Reads
  BY <1>2, EditedIsList
<1> QED BY <1>1, <1>2

LEMMA StepRefinesInMemory ==
  ~Persistent /\ ~Destructive /\ ~CacheLoss /\ ~MayCrash /\ MemoryInv /\ MemoryInv' /\ [Next]_vars =>
    [Abstract!Next]_<<[k \in Keys |-> Stored(k)], [t \in Threads |-> CallOf(t)]>>
<1> SUFFICES ASSUME ~Persistent, ~Destructive, ~CacheLoss, ~MayCrash, MemoryInv, MemoryInv',
                    [Next]_vars
             PROVE  \/ Abstract!Next
                    \/ UNCHANGED <<[k \in Keys |-> Stored(k)], [t \in Threads |-> CallOf(t)]>>
  OBVIOUS
<1> DEFINE L == [k \in Keys |-> Stored(k)]
           C == [u \in Threads |-> CallOf(u)]
           Goal == Abstract!Next \/ (L' = L /\ C' = C)
<1>0. /\ pc \in [Threads -> {"idle", "waiting", "load", "store", "cache", "done", "remove"}]
      /\ op \in [Threads -> Operations \cup {NoOp}]
      /\ list \in [Threads -> Lists \cup {NoList}]
      /\ cache \in [Keys -> Lists \cup {NoList}]
      /\ Inv /\ HeldOK /\ FreshOK
      /\ \A k \in Keys : db[k] = NoList
      /\ \A u \in Threads : pc[u] # "store" /\ pc[u] # "remove"
  BY NoRemovals DEF MemoryInv, Inv, TypeOK, StoredOK
<1>01. L = cache /\ L' = cache'
  BY DEF MemoryInv, Inv, TypeOK, Stored
<1>02. \A u \in Threads : CallInMemory(u)
  BY CallValueInMemory
<1>03. \A u \in Threads : CallInMemory(u)'
  <2>1. ~Persistent /\ MemoryInv' => (\A u \in Threads : CallInMemory(u))'
    BY CallValueInMemory, PTL
  <2> QED BY <2>1
<1>04. \A u \in Threads :
         /\ pc'[u] = pc[u] /\ op'[u] = op[u] /\ list'[u] = list[u]
         /\ pc[u] = "cache" => cache'[op[u].key] = cache[op[u].key]
         => C'[u] = C[u]
  BY <1>0, <1>02, <1>03 DEF CallInMemory
<1>05. C = [u \in Threads |-> C[u]] /\ C' = [u \in Threads |-> C'[u]]
  OBVIOUS
<1>06. \A u \in Threads : C[u] = CallOf(u) /\ C'[u] = CallOf(u)'
  OBVIOUS
<1>07. ASSUME NEW t \in Threads, C[t] = Abstract!Idle, L' = L,
              NEW o \in Updates \cup Reads, C' = [C EXCEPT ![t] = Abstract!Pending(o)]
       PROVE  Abstract!Next
  BY <1>07, SameOperations DEF Abstract!Next, Abstract!Invoke
<1>08. ASSUME NEW t \in Threads, NEW o, C[t] = Abstract!Pending(o),
              L' = [L EXCEPT ![o.key] = Edited(o, L[o.key])],
              C' = [C EXCEPT ![t] = Abstract!Done(o, Reply(o, L[o.key]))]
       PROVE  Abstract!Next
  <2>1. C[t].status = "pending" /\ C[t].op = o
    BY <1>08 DEF Abstract!Pending
  <2> QED BY <1>08, <2>1, SameOperations DEF Abstract!Next, Abstract!Apply
<1>09. ASSUME NEW t \in Threads, C[t].status = "done", L' = L,
              C' = [C EXCEPT ![t] = Abstract!Idle]
       PROVE  Abstract!Next
  BY <1>09 DEF Abstract!Next, Abstract!Return
<1> HIDE DEF L, C
<1>1. ASSUME NEW t \in Threads, Call(t) PROVE Goal
  <2>1. /\ pc[t] = "idle" /\ pc' = [pc EXCEPT ![t] = "waiting"]
        /\ UNCHANGED <<list, cache>>
        /\ \A u \in Threads \ {t} : op'[u] = op[u]
    BY <1>0, <1>1 DEF Call
  <2>2. op'[t] \in Updates \cup Reads
    <3>1. pc'[t] # "idle"
      BY <1>0, <2>1
    <3>2. op'[t] \in Operations
      BY <3>1 DEF MemoryInv, Inv, TypeOK
    <3> QED BY <3>2, OperationFacts
  <2>3. C[t] = Abstract!Idle /\ C'[t] = Abstract!Pending(op'[t])
    BY <1>0, <1>02, <1>03, <1>06, <2>1 DEF CallInMemory
  <2>4. C' = [C EXCEPT ![t] = Abstract!Pending(op'[t])]
    BY <1>0, <1>04, <1>05, <2>1, <2>3
  <2> QED BY <1>01, <1>07, <2>1, <2>2, <2>3, <2>4
<1>2. ASSUME NEW t \in Threads, EnterHit(t) PROVE Goal
  <2> DEFINE o == op[t]
             l == cache[o.key]
  <2>1. /\ o.key \in Keys /\ pc[t] = "waiting" /\ o \in Updates \cup Reads
        /\ l \in Lists /\ Edited(o, l) \in Lists
        /\ \A u \in Threads : Inside(u) => op[u].key # o.key
        /\ list' = [list EXCEPT ![t] = Edited(o, l)]
        /\ cache' = [cache EXCEPT ![o.key] = Edited(o, l)]
        /\ pc' = [pc EXCEPT ![t] = AfterEdit(o)]
        /\ AfterEdit(o) \in {"cache", "done"} /\ UNCHANGED op
    BY <1>0, <1>2, EnterHitStep, AfterEditFacts
  <2>2. Reply(o, Edited(o, l)) = Reply(o, l)
    <3> HIDE DEF o, l
    <3> QED BY <2>1, ReplyOfEdited
  <2>3. cache'[o.key] # NoList /\ list'[t] = Edited(o, l)
    BY <1>0, <2>1, NoListAssumption DEF Lists
  <2>4. C[t] = Abstract!Pending(o) /\ C'[t] = Abstract!Done(o, Reply(o, Edited(o, l)))
    BY <1>0, <1>02, <1>03, <1>06, <2>1, <2>3 DEF CallInMemory
  <2>5. \A u \in Threads \ {t} : C'[u] = C[u]
    BY <1>0, <1>04, <2>1 DEF Inside
  <2>6. C' = [C EXCEPT ![t] = Abstract!Done(o, Reply(o, L[o.key]))]
    BY <1>01, <1>05, <2>2, <2>4, <2>5
  <2>7. L' = [L EXCEPT ![o.key] = Edited(o, L[o.key])]
    BY <1>01, <2>1
  <2> QED BY <1>08, <2>4, <2>6, <2>7
<1>3. ASSUME NEW t \in Threads, EnterMiss(t) PROVE Goal
  <2>1. /\ pc[t] = "waiting" /\ pc' = [pc EXCEPT ![t] = "load"] /\ UNCHANGED <<op, list, cache>>
    BY <1>3 DEF EnterMiss
  <2>2. C'[t] = C[t]
    BY <1>0, <1>02, <1>03, <1>06, <2>1 DEF CallInMemory
  <2>3. \A u \in Threads \ {t} : C'[u] = C[u]
    BY <1>0, <1>04, <2>1
  <2> QED BY <1>01, <1>05, <2>1, <2>2, <2>3
<1>4. ASSUME NEW t \in Threads, Load(t) PROVE Goal
  <2> DEFINE o == op[t]
  <2>1. /\ o.key \in Keys /\ pc[t] = "load" /\ o \in Updates \cup Reads
        /\ db[o.key] = NoList /\ cache[o.key] = NoList
        /\ list' = [list EXCEPT ![t] = Edited(o, db[o.key])]
        /\ pc' = [pc EXCEPT ![t] = AfterEdit(o)]
        /\ AfterEdit(o) \in {"cache", "done"}
        /\ UNCHANGED <<op, cache>>
    BY <1>0, <1>4, LoadStep, AfterEditFacts DEF HeldOK
  <2>2. \A u \in Threads \ {t} : C'[u] = C[u]
    BY <1>0, <1>04, <2>1
  <2>3. CASE AfterEdit(o) = "cache"
    <3>1. C'[t] = C[t]
      BY <1>0, <1>02, <1>03, <1>06, <2>1, <2>3 DEF CallInMemory
    <3> QED BY <1>01, <1>05, <2>1, <2>2, <3>1
  <2>4. CASE AfterEdit(o) = "done"
    <3>1. Edited(o, NoList) = NoList
      <4>1. o \in Reads
        BY <2>1, <2>4, AfterEditFacts
      <4> HIDE DEF o
      <4> QED BY <2>1, <4>1, EditedIsList
    <3>2. list'[t] = NoList
      BY <1>0, <2>1, <3>1
    <3>3. C[t] = Abstract!Pending(o) /\ C'[t] = Abstract!Done(o, Reply(o, NoList))
      BY <1>0, <1>02, <1>03, <1>06, <2>1, <2>4, <3>2 DEF CallInMemory
    <3>4. C' = [C EXCEPT ![t] = Abstract!Done(o, Reply(o, L[o.key]))]
      BY <1>01, <1>05, <2>1, <2>2, <3>3
    <3>5. L' = [L EXCEPT ![o.key] = Edited(o, L[o.key])]
      BY <1>0, <1>01, <2>1, <3>1
    <3> QED BY <1>08, <3>3, <3>4, <3>5
  <2> QED BY <2>1, <2>3, <2>4
<1>5. ASSUME NEW t \in Threads, UpsertList(t) PROVE Goal
  <2> DEFINE o == op[t]
  <2>1. /\ pc[t] = "cache" /\ pc' = [pc EXCEPT ![t] = "done"]
        /\ cache' = [cache EXCEPT ![o.key] = list[t]] /\ UNCHANGED <<op, list>>
    BY <1>5 DEF UpsertList, Upsert
  <2>2. /\ o \in Updates /\ o.key \in Keys
        /\ \A u \in Threads : Inside(u) /\ op[u].key = o.key => u = t
    BY <1>0, <2>1, HolderFacts DEF Inside, Inv, InsideOK
  <2>3. \A u \in Threads \ {t} : C'[u] = C[u]
    BY <1>0, <1>04, <2>1, <2>2 DEF Inside
  <2>4. C'[t] = Abstract!Done(o, Reply(o, list[t]))
    BY <1>0, <1>03, <1>06, <2>1 DEF CallInMemory
  <2>5. CASE cache[o.key] = NoList
    <3>1. list[t] = Edited(o, cache[o.key])
      BY <1>0, <2>1, <2>5 DEF FreshOK
    <3>2. C[t] = Abstract!Pending(o)
      BY <1>02, <1>06, <2>1, <2>5 DEF CallInMemory
    <3>3. Reply(o, list[t]) = Reply(o, L[o.key])
      BY <2>2, UpdatesReplyNothing
    <3>4. C' = [C EXCEPT ![t] = Abstract!Done(o, Reply(o, L[o.key]))]
      BY <1>05, <2>3, <2>4, <3>3
    <3>5. L' = [L EXCEPT ![o.key] = Edited(o, L[o.key])]
      BY <1>01, <2>1, <3>1
    <3> QED BY <1>08, <3>2, <3>4, <3>5
  <2>6. CASE cache[o.key] # NoList
    <3>1. cache[o.key] = list[t]
      BY <1>0, <2>1, <2>6 DEF HeldOK
    <3>2. cache' = cache
      BY <1>0, <2>1, <3>1
    <3>3. C[t] = Abstract!Done(o, Reply(o, list[t]))
      BY <1>02, <1>06, <2>1, <2>6 DEF CallInMemory
    <3> QED BY <1>01, <1>05, <2>3, <2>4, <3>2, <3>3
  <2> QED BY <2>5, <2>6
<1>6. ASSUME NEW t \in Threads, Return(t) PROVE Goal
  <2>1. /\ pc[t] = "done" /\ pc' = [pc EXCEPT ![t] = "idle"]
        /\ op' = [op EXCEPT ![t] = NoOp] /\ list' = [list EXCEPT ![t] = NoList]
        /\ UNCHANGED cache
    BY <1>6 DEF Return, Ended
  <2>2. C[t].status = "done" /\ C'[t] = Abstract!Idle
    BY <1>0, <1>02, <1>03, <1>06, <2>1 DEF CallInMemory, Abstract!Done
  <2>3. \A u \in Threads \ {t} : C'[u] = C[u]
    BY <1>0, <1>04, <2>1
  <2>4. C' = [C EXCEPT ![t] = Abstract!Idle]
    BY <1>05, <2>2, <2>3
  <2> QED BY <1>01, <1>09, <2>1, <2>2, <2>4
<1>7. ASSUME UNCHANGED vars PROVE Goal
  <2>1. \A u \in Threads : C'[u] = C[u]
    BY <1>04, <1>7 DEF vars
  <2> QED BY <1>01, <1>05, <1>7, <2>1 DEF vars
<1>8. /\ \A t \in Threads : ~Put(t) /\ ~PutFails(t) /\ ~RemoveFromCache(t) /\ ~RemoveFromDatabase(t)
      /\ ~FlushCache /\ ~Crash /\ \A k \in Keys : ~Expire(k)
  BY <1>0, NoRemovals DEF Put, PutFails, FlushCache, Crash, Expire
<1>9. Goal
  BY <1>1, <1>2, <1>3, <1>4, <1>5, <1>6, <1>7, <1>8 DEF Next
<1> QED BY <1>9 DEF L, C

\* The operations on the lists of a store without a database are atomic too, as
\* long as nothing expires: each takes effect when the cached list is edited,
\* or when a new one is put into the cache.
THEOREM ListsAreAtomicInMemory ==
  ASSUME ~Persistent, ~Destructive, ~CacheLoss, ~MayCrash PROVE Spec => ImplementsListSpec
<1>1. Init => Abstract!Init
  BY DEF Init, Abstract!Init, Abstract!Idle, Stored, CallOf, Applied
<1>2. MemoryInv /\ MemoryInv' /\ [Next]_vars =>
        [Abstract!Next]_<<[k \in Keys |-> Stored(k)], [t \in Threads |-> CallOf(t)]>>
  BY StepRefinesInMemory
<1> QED BY <1>1, <1>2, InitMemory, NextMemory, PTL DEF Spec, ImplementsListSpec, Abstract!Spec
-----------------------------------------------------------------------------
\* In how many places of a list an item is.
PlaceSet(l, x) == {i \in 1..Len(l) : l[i] = x}

LEMMA PlacesOfList ==
  ASSUME NEW l \in Lists \cup {NoList}, NEW x
  PROVE  /\ OrNew(l) \in Lists /\ Places(l, x) = Cardinality(PlaceSet(OrNew(l), x))
         /\ IsFiniteSet(PlaceSet(OrNew(l), x)) /\ Places(l, x) \in Nat
         /\ OrNew(l) = <<>> => Places(l, x) = 0
<1> DEFINE r == OrNew(l)
<1>1. r \in Lists
  BY OrNewIsList
<1> HIDE DEF r
<1>2. Len(r) \in Nat /\ PlaceSet(r, x) \subseteq 1..Len(r)
  BY <1>1, LenProperties DEF Lists, PlaceSet
<1>3. IsFiniteSet(1..Len(r))
  BY <1>2, FS_Interval
<1>4. IsFiniteSet(PlaceSet(r, x))
  BY <1>2, <1>3, FS_Subset
<1>5. Cardinality(PlaceSet(r, x)) \in Nat
  BY <1>4, FS_CardinalityType
<1>6. r = <<>> => PlaceSet(r, x) = {}
  <2>1. Len(<<>>) = 0 /\ 1..0 = {}
    OBVIOUS
  <2> QED BY <2>1 DEF PlaceSet
<1>7. Places(l, x) = Cardinality(PlaceSet(r, x))
  BY DEF Places, PlaceSet, r
<1> QED BY <1>1, <1>4, <1>5, <1>6, <1>7, FS_EmptySet DEF r

\* A push adds a place for its item and no other;
LEMMA PushPlaces ==
  ASSUME NEW l \in Lists, NEW y \in Items, NEW x
  PROVE  /\ Cardinality(PlaceSet(<<y>> \o l, x)) <= Cardinality(PlaceSet(l, x)) + (IF x = y THEN 1 ELSE 0)
         /\ Cardinality(PlaceSet(Append(l, y), x)) <= Cardinality(PlaceSet(l, x)) + (IF x = y THEN 1 ELSE 0)
<1> DEFINE f == <<y>> \o l
           b == Append(l, y)
           P == PlaceSet(l, x)
           F == PlaceSet(f, x)
           B == PlaceSet(b, x)
<1>1. Len(l) \in Nat
  BY LenProperties DEF Lists
<1>2. <<y>> \in Seq(Items) /\ Len(<<y>>) = 1 /\ <<y>>[1] = y
  OBVIOUS
<1>3. /\ f \in Lists /\ Len(f) = 1 + Len(l)
      /\ \A i \in 1..(1 + Len(l)) : f[i] = IF i <= 1 THEN <<y>>[i] ELSE l[i - 1]
  BY <1>2, ConcatProperties DEF Lists
<1>4. /\ b \in Lists /\ Len(b) = Len(l) + 1
      /\ \A i \in 1..Len(l) : b[i] = l[i]
      /\ b[Len(l) + 1] = y
  BY AppendProperties DEF Lists
<1> HIDE DEF f, b
<1>5. IsFiniteSet(P) /\ IsFiniteSet(F) /\ IsFiniteSet(B)
  BY <1>3, <1>4, PlacesOfList, OrNewIsList
<1>6. Cardinality(P) \in Nat
  BY <1>5, FS_CardinalityType
<1>7. Cardinality(F) <= Cardinality(P) + (IF x = y THEN 1 ELSE 0)
  <2> DEFINE R == F \ {1}
             s == [i \in R |-> i - 1]
  <2>1. ASSUME NEW i \in R PROVE i \in Int /\ i - 1 \in P
    <3>1. i \in 1..(1 + Len(l)) /\ i # 1 /\ f[i] = x
      BY <1>3 DEF PlaceSet
    <3>2. i - 1 \in 1..Len(l) /\ ~(i <= 1)
      BY <3>1, <1>1
    <3> QED BY <3>1, <3>2, <1>3 DEF PlaceSet
  <2>2. \A i, j \in R : s[i] = s[j] => i = j
    BY <2>1
  <2>3. s \in [R -> P]
    BY <2>1
  <2> HIDE DEF s
  <2>4. s \in Injection(R, P)
    BY <2>2, <2>3 DEF Injection, IsInjective
  <2>5. IsFiniteSet(R) /\ Cardinality(R) <= Cardinality(P)
    BY <2>4, <1>5, FS_Injection
  <2>6. Cardinality(R) = IF 1 \in F THEN Cardinality(F) - 1 ELSE Cardinality(F)
    BY <1>5, FS_RemoveElement
  <2>7. 1 \in F => x = y
    BY <1>1, <1>2, <1>3 DEF PlaceSet
  <2>8. Cardinality(F) \in Nat /\ Cardinality(R) \in Nat
    BY <1>5, <2>5, FS_CardinalityType
  <2> HIDE DEF R, F, P
  <2> QED BY <1>6, <2>5, <2>6, <2>7, <2>8
<1>8. Cardinality(B) <= Cardinality(P) + (IF x = y THEN 1 ELSE 0)
  <2> DEFINE n == Len(l) + 1
  <2>1. \A i \in B : i = n \/ i \in P
    <3>1. ASSUME NEW i \in B PROVE i = n \/ i \in P
      <4>1. i \in 1..(Len(l) + 1) /\ b[i] = x
        BY <1>4 DEF PlaceSet
      <4>2. i = n \/ i \in 1..Len(l)
        BY <1>1, <4>1
      <4> QED BY <4>1, <4>2, <1>4 DEF PlaceSet
    <3> QED BY <3>1
  <2>2. n \in B => x = y
    BY <1>4 DEF PlaceSet
  <2>3. IsFiniteSet(P \cup {n}) /\ Cardinality(P \cup {n}) = IF n \in P THEN Cardinality(P) ELSE Cardinality(P) + 1
    BY <1>5, FS_AddElement
  <2>4. CASE x = y
    <3>1. Cardinality(B) <= Cardinality(P \cup {n})
      BY <2>1, <2>3, FS_Subset
    <3> HIDE DEF B, P, n
    <3>2. Cardinality(B) \in Nat
      BY <1>5, FS_CardinalityType
    <3> QED BY <1>6, <2>3, <2>4, <3>1, <3>2
  <2>5. CASE x # y
    <3>1. B \subseteq P
      BY <2>1, <2>2, <2>5
    <3>2. Cardinality(B) <= Cardinality(P)
      BY <1>5, <3>1, FS_Subset
    <3> HIDE DEF B, P
    <3>3. Cardinality(B) \in Nat
      BY <1>5, FS_CardinalityType
    <3> QED BY <1>6, <2>5, <3>2, <3>3
  <2> QED BY <2>4, <2>5
<1> QED BY <1>7, <1>8 DEF f, b

\* RemoveAll adds none.
LEMMA WithoutPlacesOf ==
  ASSUME NEW l \in Lists, NEW y, NEW x
  PROVE  Cardinality(PlaceSet(Without(l, y), x)) <= Cardinality(PlaceSet(l, x))
<1> DEFINE w == Without(l, y)
           K == Kept(l, y)
           W == PlaceSet(w, x)
           P == PlaceSet(l, x)
           h == [n \in W |-> Nth(K, n)]
<1>1. DOMAIN l = 1..Len(l) /\ l \in Seq(Items)
  BY LenProperties DEF Lists
<1>2. K \in SUBSET DOMAIN l
  BY DEF Kept
<1>3. /\ Len(w) = Cardinality(K)
      /\ \A n \in 1..Cardinality(K) : Nth(K, n) \in K /\ w[n] = l[Nth(K, n)]
      /\ \A m, n \in 1..Cardinality(K) : Nth(K, m) = Nth(K, n) => m = n
  BY <1>1, <1>2, PickedPlaces DEF Without
<1> HIDE DEF w, K
<1>4. \A n \in W : n \in 1..Cardinality(K) /\ Nth(K, n) \in P
  BY <1>1, <1>2, <1>3 DEF PlaceSet
<1>5. h \in [W -> P] /\ \A m, n \in W : h[m] = h[n] => m = n
  BY <1>3, <1>4
<1> HIDE DEF h
<1>6. h \in Injection(W, P)
  BY <1>5 DEF Injection, IsInjective
<1>7. IsFiniteSet(P)
  BY PlacesOfList, OrNewIsList
<1> HIDE DEF W, P
<1>8. Cardinality(W) <= Cardinality(P)
  BY <1>6, <1>7, FS_Injection
<1> QED BY <1>8 DEF W, P, w

LEMMA EditedPlaces ==
  ASSUME NEW l \in Lists \cup {NoList}, NEW o \in Updates \cup Reads, NEW x
  PROVE  Places(Edited(o, l), x) <= Places(l, x) + (IF IsPush(o) /\ x = o.item THEN 1 ELSE 0)
<1>1. /\ OrNew(l) \in Lists /\ Places(l, x) = Cardinality(PlaceSet(OrNew(l), x)) /\ Places(l, x) \in Nat
      /\ Edited(o, l) \in Lists \cup {NoList}
  BY PlacesOfList, EditedIsList
<1>2. /\ OrNew(Edited(o, l)) \in Lists
      /\ Places(Edited(o, l), x) = Cardinality(PlaceSet(OrNew(Edited(o, l)), x)) 
      /\ Places(Edited(o, l), x) \in Nat
  BY <1>1, PlacesOfList
<1>3. CASE o \in Reads
  BY <1>1, <1>3, EditedIsList
<1>4. CASE o \in Updates
  <2>1. o.item \in Items /\ Edited(o, l) \in Lists /\ OrNew(Edited(o, l)) = Edited(o, l)
    BY <1>4, KindFacts, EditedIsList, OrNewIsList
  <2>2. CASE o.kind = "pushFirst"
    BY <1>1, <1>2, <2>1, <2>2, PushPlaces DEF Edited, IsPush
  <2>3. CASE o.kind = "pushLast"
    BY <1>1, <1>2, <2>1, <2>3, PushPlaces DEF Edited, IsPush
  <2>4. CASE o.kind = "deleteItem"
    BY <1>1, <1>2, <2>1, <2>4, WithoutPlacesOf DEF Edited, IsPush
  <2> QED BY <1>4, <2>2, <2>3, <2>4 DEF Updates, Pushes, Deletes
<1> QED BY <1>3, <1>4
-----------------------------------------------------------------------------
\* The pushes of x on k that were called and have not edited a list yet, and
\* how many more places of x the lists of k may then have at most.
Pending(k, x) ==
  {t \in Threads : /\ pc[t] \in {"waiting", "load"}
                   /\ IsPush(op[t]) /\ op[t].item = x /\ op[t].key = k}
Room(k, x) == uses[x] - Cardinality(Pending(k, x))

\* Every copy of a list leaves room for the pushes that are still to come.
RoomOK ==
  \A k \in Keys, x \in Items :
    /\ Places(cache[k], x) <= Room(k, x)
    /\ Places(db[k], x) <= Room(k, x)
    /\ \A t \in Threads : pc[t] \in {"store", "cache"} /\ op[t].key = k =>
         Places(list[t], x) <= Room(k, x)

LEMMA RoomIsInt ==
  ASSUME Inv, IsFiniteSet(Threads), NEW k \in Keys, NEW x \in Items
  PROVE  /\ IsFiniteSet(Pending(k, x)) /\ Cardinality(Pending(k, x)) \in Nat
         /\ uses[x] \in Nat /\ Room(k, x) \in Int
<1>1. IsFiniteSet(Pending(k, x))
  BY FS_Subset DEF Pending
<1>2. Cardinality(Pending(k, x)) \in Nat
  BY <1>1, FS_CardinalityType
<1>3. uses[x] \in Nat
  BY DEF Inv, TypeOK
<1> QED BY <1>1, <1>2, <1>3 DEF Room

\* Where nothing is called and no push becomes pending, no room is lost.
LEMMA RoomStays ==
  ASSUME Inv, IsFiniteSet(Threads), NEW k \in Keys, NEW x \in Items,
         uses' = uses, Pending(k, x)' \subseteq Pending(k, x)
  PROVE  Room(k, x) <= Room(k, x)'
<1>1. /\ IsFiniteSet(Pending(k, x)) /\ Cardinality(Pending(k, x)) \in Nat /\ uses[x] \in Nat
  BY RoomIsInt
<1>2. /\ IsFiniteSet(Pending(k, x)')
      /\ Cardinality(Pending(k, x)') <= Cardinality(Pending(k, x))
  BY <1>1, FS_Subset
<1>3. Cardinality(Pending(k, x)') \in Nat
  BY <1>2, FS_CardinalityType
<1> QED BY <1>1, <1>2, <1>3 DEF Room

\* A push that edits a list is not pending any more: it leaves the room it takes.
LEMMA RoomOfEdit ==
  ASSUME Inv, IsFiniteSet(Threads), NEW t \in Threads, NEW k \in Keys, NEW x \in Items,
         pc[t] \in {"waiting", "load"}, pc'[t] \notin {"waiting", "load"},
         \A u \in Threads \ {t} : pc'[u] = pc[u],
         UNCHANGED <<op, uses>>
  PROVE  Room(k, x)' = Room(k, x) + IF IsPush(op[t]) /\ x = op[t].item /\ k = op[t].key THEN 1 ELSE 0
<1>1. /\ IsFiniteSet(Pending(k, x)) /\ Cardinality(Pending(k, x)) \in Nat /\ uses[x] \in Nat
  BY RoomIsInt
<1>2. Pending(k, x)' = Pending(k, x) \ {t}
  BY DEF Pending
<1>3. t \in Pending(k, x) <=> IsPush(op[t]) /\ x = op[t].item /\ k = op[t].key
  BY DEF Pending
<1>4. Cardinality(Pending(k, x)') =
        IF t \in Pending(k, x) THEN Cardinality(Pending(k, x)) - 1 ELSE Cardinality(Pending(k, x))
  BY ZenonT(60), <1>1, <1>2, FS_RemoveElement
<1> QED BY <1>1, <1>3, <1>4 DEF Room

\* A call makes room for what it pushes, and no other step loses any.
LEMMA RoomOfCall ==
  ASSUME Inv, IsFiniteSet(Threads), NEW t \in Threads, Call(t), NEW k \in Keys, NEW x \in Items
  PROVE  Room(k, x) <= Room(k, x)'
<1>1. /\ IsFiniteSet(Pending(k, x)) /\ Cardinality(Pending(k, x)) \in Nat /\ uses[x] \in Nat
  BY RoomIsInt
<1>2. PICK o \in Operations :
        /\ op' = [op EXCEPT ![t] = o]
        /\ uses' = IF IsPush(o) THEN [uses EXCEPT ![o.item] = @ + 1] ELSE uses
        /\ deleted' = IF o.kind = "deleteItem" THEN deleted \cup {o.item} ELSE deleted
  BY DEF Call
<1>3. op \in [Threads -> Operations \cup {NoOp}] /\ uses \in [Items -> Nat]
  BY DEF Inv, TypeOK
<1>4. pc[t] = "idle" /\ pc' = [pc EXCEPT ![t] = "waiting"]
  BY DEF Call
<1>5. CASE IsPush(o) /\ o.item = x /\ o.key = k
  <2>1. Pending(k, x)' \subseteq Pending(k, x) \cup {t}
    BY <1>2, <1>4 DEF Pending
  <2>2. /\ IsFiniteSet(Pending(k, x) \cup {t})
        /\ Cardinality(Pending(k, x) \cup {t}) \in {Cardinality(Pending(k, x)), Cardinality(Pending(k, x)) + 1}
    BY <1>1, FS_AddElement
  <2>3. /\ IsFiniteSet(Pending(k, x)')
        /\ Cardinality(Pending(k, x)') <= Cardinality(Pending(k, x) \cup {t})
    BY <2>1, <2>2, FS_Subset
  <2>4. Cardinality(Pending(k, x)') \in Nat
    BY <2>3, FS_CardinalityType
  <2>5. uses'[x] = uses[x] + 1
    BY <1>2, <1>3, <1>5
  <2> QED BY <1>1, <2>2, <2>3, <2>4, <2>5 DEF Room
<1>6. CASE ~(IsPush(o) /\ o.item = x /\ o.key = k)
  <2>1. Pending(k, x)' \subseteq Pending(k, x)
    BY <1>2, <1>3, <1>4, <1>6 DEF Pending, Inv, TypeOK
  <2>2. uses'[x] \in {uses[x], uses[x] + 1}
    BY <1>2, <1>3
  <2>3. /\ IsFiniteSet(Pending(k, x)')
        /\ Cardinality(Pending(k, x)') <= Cardinality(Pending(k, x))
    BY <1>1, <2>1, FS_Subset
  <2>4. Cardinality(Pending(k, x)') \in Nat
    BY <2>3, FS_CardinalityType
  <2> QED BY <1>1, <2>2, <2>3, <2>4 DEF Room
<1> QED BY <1>5, <1>6

LEMMA RoomKept ==
  ASSUME Inv, IsFiniteSet(Threads), [Next]_vars, NEW k \in Keys, NEW x \in Items
  PROVE  Room(k, x) <= Room(k, x)'
<1>0. /\ pc \in [Threads -> {"idle", "waiting", "load", "store", "cache", "done", "remove"}]
      /\ op \in [Threads -> Operations \cup {NoOp}]
  BY DEF Inv, TypeOK
<1>1. ASSUME NEW t \in Threads, Call(t) PROVE Room(k, x) <= Room(k, x)'
  BY <1>1, RoomOfCall
<1>2. ASSUME ~\E t \in Threads : Call(t) PROVE uses' = uses /\ Pending(k, x)' \subseteq Pending(k, x)
  <2>1. ASSUME NEW t \in Threads, EnterHit(t) PROVE uses' = uses /\ Pending(k, x)' \subseteq Pending(k, x)
    <3>1. /\ pc' = [pc EXCEPT ![t] = AfterEdit(op[t])] /\ AfterEdit(op[t]) \in {"store", "cache", "done"}
          /\ UNCHANGED <<op, uses>>
      BY <2>1, EnterHitStep
    <3> QED BY <1>0, <3>1 DEF Pending
  <2>2. ASSUME NEW t \in Threads, Load(t) PROVE uses' = uses /\ Pending(k, x)' \subseteq Pending(k, x)
    <3>1. /\ pc' = [pc EXCEPT ![t] = AfterEdit(op[t])] /\ AfterEdit(op[t]) \in {"store", "cache", "done"}
          /\ UNCHANGED <<op, uses>>
      BY <2>2, LoadStep
    <3> QED BY <1>0, <3>1 DEF Pending
  <2>3. ASSUME NEW t \in Threads, EnterMiss(t) \/ Put(t) \/ UpsertList(t) \/ RemoveFromCache(t)
        PROVE  uses' = uses /\ Pending(k, x)' \subseteq Pending(k, x)
    <3>1. CASE EnterMiss(t) BY <1>0, <3>1 DEF EnterMiss, Pending
    <3>2. CASE Put(t) BY <1>0, <3>2 DEF Put, Pending
    <3>3. CASE UpsertList(t) BY <1>0, <3>3 DEF UpsertList, Pending
    <3>4. CASE RemoveFromCache(t) BY <1>0, <3>4 DEF RemoveFromCache, Pending
    <3> QED BY <2>3, <3>1, <3>2, <3>3, <3>4
  <2>4. ASSUME NEW t \in Threads, PutFails(t) \/ Return(t) \/ RemoveFromDatabase(t)
        PROVE  uses' = uses /\ Pending(k, x)' \subseteq Pending(k, x)
    <3>1. /\ pc' = [pc EXCEPT ![t] = "idle"] /\ op' = [op EXCEPT ![t] = NoOp] /\ uses' = uses
      BY <2>4 DEF PutFails, Return, RemoveFromDatabase, Ended
    <3> QED BY <1>0, <3>1 DEF Pending
  <2>5. ASSUME (\E j \in Keys : Expire(j)) \/ FlushCache \/ UNCHANGED vars
        PROVE  uses' = uses /\ Pending(k, x)' \subseteq Pending(k, x)
    BY <2>5 DEF Expire, FlushCache, vars, Pending
  <2>6. ASSUME Crash PROVE uses' = uses /\ Pending(k, x)' \subseteq Pending(k, x)
    BY <2>6 DEF Crash, Pending
  <2> QED BY <1>2, <2>1, <2>2, <2>3, <2>4, <2>5, <2>6 DEF Next
<1> QED BY <1>1, <1>2, RoomStays

\* Where a list is edited by a push, the room it leaves is the room it takes.
LEMMA EditFits ==
  ASSUME Inv, IsFiniteSet(Threads), NEW t \in Threads, NEW x \in Items,
         NEW l \in Lists \cup {NoList}, op[t] \in Updates \cup Reads,
         pc[t] \in {"waiting", "load"}, pc'[t] \notin {"waiting", "load"},
         \A u \in Threads \ {t} : pc'[u] = pc[u],
         UNCHANGED <<op, uses>>,
         Places(l, x) <= Room(op[t].key, x)
  PROVE  Places(Edited(op[t], l), x) <= Room(op[t].key, x)'
<1> DEFINE o == op[t]
           more == IF IsPush(o) /\ x = o.item THEN 1 ELSE 0
<1>1. o.key \in Keys
  BY KindFacts
<1>2. Room(o.key, x) \in Int
  BY <1>1, RoomIsInt
<1>3. Room(o.key, x)' = Room(o.key, x) + more
  <2> HIDE DEF o
  <2>1. /\ pc[t] \in {"waiting", "load"} /\ pc'[t] \notin {"waiting", "load"}
        /\ \A u \in Threads \ {t} : pc'[u] = pc[u]
        /\ UNCHANGED <<op, uses>>
    OBVIOUS
  <2> QED BY <1>1, <2>1, RoomOfEdit DEF o
<1>4. Places(l, x) \in Nat /\ Edited(o, l) \in Lists \cup {NoList}
  BY PlacesOfList, EditedIsList
<1>5. Places(Edited(o, l), x) \in Nat
  BY <1>4, PlacesOfList
<1>6. Places(Edited(o, l), x) <= Places(l, x) + more
  BY EditedPlaces
<1> HIDE DEF o, more
<1>7. more \in {0, 1}
  BY DEF more
<1>8. Places(l, x) <= Room(o.key, x)
  BY DEF o
<1> QED BY <1>2, <1>3, <1>4, <1>5, <1>6, <1>7, <1>8 DEF o

LEMMA NextRoom == Inv /\ RoomOK /\ IsFiniteSet(Threads) /\ [Next]_vars => RoomOK'
<1> SUFFICES ASSUME Inv, RoomOK, IsFiniteSet(Threads), [Next]_vars, NEW k \in Keys, NEW x \in Items
             PROVE  /\ Places(cache'[k], x) <= Room(k, x)'
                    /\ Places(db'[k], x) <= Room(k, x)'
                    /\ \A u \in Threads : pc'[u] \in {"store", "cache"} /\ op'[u].key = k =>
                         Places(list'[u], x) <= Room(k, x)'
  BY DEF RoomOK, Places, OrNew
<1> DEFINE Fits(l) == Places(l, x) <= Room(k, x)'
           Goal == /\ Fits(cache'[k]) /\ Fits(db'[k])
                   /\ \A u \in Threads : pc'[u] \in {"store", "cache"} /\ op'[u].key = k => Fits(list'[u])
<1>0. /\ pc \in [Threads -> {"idle", "waiting", "load", "store", "cache", "done", "remove"}]
      /\ op \in [Threads -> Operations \cup {NoOp}]
      /\ list \in [Threads -> Lists \cup {NoList}]
      /\ cache \in [Keys -> Lists \cup {NoList}] /\ db \in [Keys -> Lists \cup {NoList}]
  BY DEF Inv, TypeOK
<1>a. Room(k, x) \in Int /\ Room(k, x)' \in Int /\ Room(k, x) <= Room(k, x)'
  <2>1. uses'[x] \in Nat
    BY NextInv DEF Inv, TypeOK
  <2>2. IsFiniteSet(Pending(k, x)')
    BY FS_Subset DEF Pending
  <2>3. Cardinality(Pending(k, x)') \in Nat
    BY <2>2, FS_CardinalityType
  <2>4. Room(k, x)' = uses'[x] - Cardinality(Pending(k, x)')
    BY DEF Room
  <2>5. Room(k, x)' \in Int
    BY <2>1, <2>3, <2>4
  <2> QED BY <2>5, RoomIsInt, RoomKept
<1>b. ASSUME NEW l \in Lists \cup {NoList}, Places(l, x) <= Room(k, x) PROVE Fits(l)
  <2>1. Places(l, x) \in Nat
    BY PlacesOfList
  <2> QED BY <1>a, <1>b, <2>1
<1>c. Fits(NoList)
  <2>1. Places(NoList, x) = 0
    BY PlacesOfList DEF OrNew
  <2>2. Places(cache[k], x) \in Nat /\ Places(cache[k], x) <= Room(k, x)
    BY <1>0, PlacesOfList DEF RoomOK
  <2> QED BY <1>a, <2>1, <2>2
<1>d. Fits(cache[k]) /\ Fits(db[k])
  BY <1>0, <1>b DEF RoomOK
<1>e. ASSUME NEW u \in Threads, pc[u] \in {"store", "cache"}, op[u].key = k PROVE Fits(list[u])
  BY <1>0, <1>b, <1>e DEF RoomOK
<1> HIDE DEF Fits
<1>1. ASSUME NEW t \in Threads, Call(t) PROVE Goal
  BY <1>0, <1>d, <1>e, <1>1 DEF Call
<1>2. ASSUME NEW t \in Threads, EnterHit(t) PROVE Goal
  <2>1. /\ op[t].key \in Keys /\ pc[t] = "waiting" /\ op[t] \in Updates \cup Reads
        /\ cache[op[t].key] \in Lists
        /\ list' = [list EXCEPT ![t] = Edited(op[t], cache[op[t].key])]
        /\ cache' = [cache EXCEPT ![op[t].key] = Edited(op[t], cache[op[t].key])]
        /\ pc' = [pc EXCEPT ![t] = AfterEdit(op[t])]
        /\ AfterEdit(op[t]) \in {"store", "cache", "done"} /\ UNCHANGED <<op, db, uses>>
    BY <1>2, EnterHitStep
  <2>2. op[t].key = k => Fits(Edited(op[t], cache[k]))
    <3> SUFFICES ASSUME op[t].key = k PROVE Fits(Edited(op[t], cache[k]))
      OBVIOUS
    <3>1. Places(cache[k], x) <= Room(op[t].key, x)
      BY DEF RoomOK
    <3>2. pc'[t] \notin {"waiting", "load"} /\ \A u \in Threads \ {t} : pc'[u] = pc[u]
      BY <1>0, <2>1
    <3>3. Places(Edited(op[t], cache[k]), x) <= Room(op[t].key, x)'
      BY <2>1, <3>1, <3>2, EditFits
    <3> QED BY <2>1, <3>3 DEF Fits, Room, Pending
  <2> QED BY <1>0, <1>d, <1>e, <2>1, <2>2
<1>3. ASSUME NEW t \in Threads, EnterMiss(t) PROVE Goal
  BY <1>0, <1>d, <1>e, <1>3 DEF EnterMiss
<1>4. ASSUME NEW t \in Threads, Load(t) PROVE Goal
  <2>1. /\ op[t].key \in Keys /\ pc[t] = "load" /\ op[t] \in Updates \cup Reads
        /\ list' = [list EXCEPT ![t] = Edited(op[t], db[op[t].key])]
        /\ pc' = [pc EXCEPT ![t] = AfterEdit(op[t])]
        /\ AfterEdit(op[t]) \in {"store", "cache", "done"} /\ UNCHANGED <<op, cache, db, uses>>
    BY <1>4, LoadStep
  <2>2. op[t].key = k => Fits(Edited(op[t], db[k]))
    <3> SUFFICES ASSUME op[t].key = k PROVE Fits(Edited(op[t], db[k]))
      OBVIOUS
    <3>1. Places(db[k], x) <= Room(op[t].key, x)
      BY DEF RoomOK
    <3>2. pc'[t] \notin {"waiting", "load"} /\ \A u \in Threads \ {t} : pc'[u] = pc[u]
      BY <1>0, <2>1
    <3>3. Places(Edited(op[t], db[k]), x) <= Room(op[t].key, x)'
      BY <1>0, <2>1, <3>1, <3>2, EditFits
    <3> QED BY <2>1, <3>3 DEF Fits, Room, Pending
  <2> QED BY <1>0, <1>d, <1>e, <2>1, <2>2
<1>5. ASSUME NEW t \in Threads, Put(t) PROVE Goal
  <2>1. op[t].key = k => Fits(list[t])
    BY <1>5, <1>e DEF Put
  <2> QED BY <1>0, <1>d, <1>e, <1>5, <2>1 DEF Put
<1>6. ASSUME NEW t \in Threads, UpsertList(t) PROVE Goal
  <2>1. op[t].key = k => Fits(list[t])
    BY <1>6, <1>e DEF UpsertList
  <2> QED BY <1>0, <1>d, <1>e, <1>6, <2>1 DEF UpsertList, Upsert
<1>7. ASSUME NEW t \in Threads, PutFails(t) \/ Return(t) PROVE Goal
  BY <1>0, <1>d, <1>e, <1>7 DEF PutFails, Return, Ended
<1>8. ASSUME NEW t \in Threads, RemoveFromCache(t) PROVE Goal
  BY <1>0, <1>c, <1>d, <1>e, <1>8 DEF RemoveFromCache
<1>9. ASSUME NEW t \in Threads, RemoveFromDatabase(t) PROVE Goal
  BY <1>0, <1>c, <1>d, <1>e, <1>9 DEF RemoveFromDatabase, Ended
<1>10. ASSUME (\E j \in Keys : Expire(j)) \/ FlushCache PROVE Goal
  BY <1>0, <1>c, <1>d, <1>e, <1>10 DEF Expire, FlushCache
<1>11. ASSUME Crash PROVE Goal
  BY <1>c, <1>d, <1>11 DEF Crash
<1>12. ASSUME UNCHANGED vars PROVE Goal
  BY <1>d, <1>e, <1>12 DEF vars
<1>13. Goal
  BY <1>1, <1>2, <1>3, <1>4, <1>5, <1>6, <1>7, <1>8, <1>9, <1>10, <1>11, <1>12 DEF Next
<1> QED BY <1>13 DEF Fits

\* An item is in the store as often as it was pushed, at most, however many
\* threads push it, edit the cached list and store it as well.
THEOREM NoPushTwice ==
  ASSUME IsFiniteSet(Threads)
  PROVE  Spec => []PushedOnce
<1>1. Init => RoomOK
  <2> SUFFICES ASSUME Init, NEW k \in Keys, NEW x \in Items PROVE
        /\ Places(cache[k], x) <= Room(k, x) /\ Places(db[k], x) <= Room(k, x)
        /\ \A t \in Threads : pc[t] = "idle"
    BY DEF RoomOK
  <2>1. Pending(k, x) = {} /\ uses[x] = 0 /\ cache[k] = NoList /\ db[k] = NoList
    BY DEF Init, Pending
  <2>2. Room(k, x) = 0
    BY <2>1, FS_EmptySet DEF Room
  <2>3. Places(NoList, x) = 0
    BY PlacesOfList DEF OrNew
  <2> QED BY <2>1, <2>2, <2>3 DEF Init
<1>2. Inv /\ RoomOK => PushedOnce
  <2> SUFFICES ASSUME Inv, RoomOK, NEW x \in Items, NEW k \in Keys
               PROVE  Places(Stored(k), x) <= uses[x]
    BY DEF PushedOnce
  <2>1. Cardinality(Pending(k, x)) \in Nat /\ uses[x] \in Nat
    BY RoomIsInt
  <2>2. Stored(k) \in Lists \cup {NoList} /\ Places(Stored(k), x) <= Room(k, x)
    BY DEF Stored, RoomOK, Inv, TypeOK
  <2>3. Places(Stored(k), x) \in Nat
    BY <2>2, PlacesOfList
  <2> QED BY <2>1, <2>2, <2>3 DEF Room
<1>3. Inv /\ RoomOK /\ [Next]_vars => Inv' /\ RoomOK'
  BY NextInv, NextRoom
<1> QED BY <1>1, <1>2, <1>3, InitInv, PTL DEF Spec
=============================================================================
