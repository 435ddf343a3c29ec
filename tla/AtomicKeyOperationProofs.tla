----------------------- MODULE AtomicKeyOperationProofs -----------------------
(***************************************************************************)
(* AtomicKeyOperation is correct for any number of threads and keys.       *)
(*                                                                         *)
(* Mutual exclusion alone is not inductive: it rests on all threads of one *)
(* key sharing a counter, which rests on the counter being exact, so that  *)
(* Leave cannot remove the entry of a counter that is still in use.        *)
(***************************************************************************)
EXTENDS AtomicKeyOperation, TLAPS, FiniteSetTheorems

\* Different keys have different counters.
CountersNotShared ==
  \A j, k \in Keys : locks[j] = locks[k] /\ locks[j] # NoCounter => j = k

IInv ==
  /\ TypeOK
  /\ OneCounterPerKey
  /\ RefCountExact
  /\ MutualExclusion
  /\ CountersNotShared
  /\ EntriesReclaimed
-----------------------------------------------------------------------------
\* The number of users of a counter is a natural number, 0 if there are none.
LEMMA HoldersFinite ==
  \A c : /\ IsFiniteSet(Holders(c))
         /\ Cardinality(Holders(c)) \in Nat
         /\ Cardinality(Holders(c)) = 0 <=> Holders(c) = {}
<1> TAKE c
<1>1. Holders(c) \in SUBSET Threads
  BY DEF Holders
<1>2. IsFiniteSet(Holders(c))
  BY <1>1, FS_Subset, ThreadsAssumption
<1> QED BY <1>2, FS_CardinalityType, FS_EmptySet

\* A counter with a user and a count of 1 has no other user and no leak.
LEMMA LastUserIsAlone ==
  ASSUME TypeOK, RefCountExact, NEW c \in Counters, NEW t \in Threads,
         ref[t] = c, count[c] = 1
  PROVE  Holders(c) = {t} /\ leaks[c] = 0
<1>1. t \in Holders(c)
  BY DEF Holders
<1>2. Cardinality(Holders(c)) = 1 /\ leaks[c] = 0
  BY <1>1, HoldersFinite DEF TypeOK, RefCountExact
<1>3. \E x : Holders(c) = {x}
  BY <1>2, HoldersFinite, FS_Singleton
<1> QED BY <1>1, <1>2, <1>3

\* A counter in use has been incremented.
LEMMA UsedIsCounted ==
  ASSUME TypeOK, RefCountExact, NEW t \in Threads, ref[t] \in Counters
  PROVE  count[ref[t]] \in Nat /\ count[ref[t]] > 0
<1>1. t \in Holders(ref[t])
  BY DEF Holders
<1> QED BY <1>1, HoldersFinite DEF TypeOK, RefCountExact

\* The users of c after t has taken counter d instead of its old one.
LEMMA HoldersAfter ==
  ASSUME TypeOK, NEW t \in Threads, NEW d, ref' = [ref EXCEPT ![t] = d], NEW c
  PROVE  Holders(c)' = IF c = d THEN Holders(c) \cup {t} ELSE Holders(c) \ {t}
BY DEF Holders, TypeOK

\* RefCountExact through a step that changes the users, one thread at a time.
LEMMA CardinalityAfter ==
  ASSUME TypeOK, NEW t \in Threads, NEW d, ref' = [ref EXCEPT ![t] = d], NEW c
  PROVE  Cardinality(Holders(c)') =
           IF c = d
           THEN IF t \in Holders(c) THEN Cardinality(Holders(c)) ELSE Cardinality(Holders(c)) + 1
           ELSE IF t \in Holders(c) THEN Cardinality(Holders(c)) - 1 ELSE Cardinality(Holders(c))
<1>1. IsFiniteSet(Holders(c)) /\ Cardinality(Holders(c)) \in Nat
  BY HoldersFinite
<1>2. CASE c = d
  <2>1. Holders(c)' = Holders(c) \cup {t}
    BY <1>2, HoldersAfter
  <2> QED BY <1>1, <1>2, <2>1, FS_AddElement
<1>3. CASE c # d
  <2>1. Holders(c)' = Holders(c) \ {t}
    BY <1>3, HoldersAfter
  <2> QED BY <1>1, <1>3, <2>1, FS_RemoveElement
<1> QED BY <1>2, <1>3
-----------------------------------------------------------------------------
LEMMA InitInv == Init => IInv
<1> SUFFICES ASSUME Init PROVE IInv
  OBVIOUS
<1>1. \A c \in Counters : Holders(c) = {}
  BY CountersAssumption DEF Init, Holders
<1>2. TypeOK
  BY KeysAssumption DEF Init, TypeOK
<1>3. RefCountExact
  BY <1>1, FS_EmptySet DEF Init, RefCountExact
<1>4. MutualExclusion /\ OneCounterPerKey /\ CountersNotShared /\ EntriesReclaimed
  BY DEF Init, MutualExclusion, OneCounterPerKey, CountersNotShared, EntriesReclaimed
<1> QED BY <1>2, <1>3, <1>4 DEF IInv

LEMMA JoinInv ==
  ASSUME IInv, NEW t \in Threads, NEW k \in Keys, Enter(t, k), JoinCounter(t, k)
  PROVE  IInv'
<1> DEFINE c0 == locks[k]
<1>1. /\ pc[t] = "idle" /\ ref[t] = NoCounter /\ key[t] = NoKey
      /\ c0 \in Counters
      /\ pc' = [pc EXCEPT ![t] = "queued"] /\ key' = [key EXCEPT ![t] = k]
      /\ ref' = [ref EXCEPT ![t] = c0] /\ count' = [count EXCEPT ![c0] = @ + 1]
      /\ locks' = locks /\ leaks' = leaks
  BY DEF IInv, TypeOK, Enter, JoinCounter, Incremented
<1> HIDE DEF c0
<1>2. TypeOK'
  BY <1>1, CountersAssumption DEF IInv, TypeOK
<1>3. OneCounterPerKey'
  BY <1>1 DEF IInv, TypeOK, OneCounterPerKey, c0
<1>4. RefCountExact'
  <2> SUFFICES ASSUME NEW c \in Counters
               PROVE  count'[c] = Cardinality(Holders(c)') + leaks'[c]
    BY DEF RefCountExact
  <2>1. t \notin Holders(c)
    BY <1>1, CountersAssumption DEF Holders
  <2>2. Cardinality(Holders(c)') = IF c = c0 THEN Cardinality(Holders(c)) + 1
                                             ELSE Cardinality(Holders(c))
    BY <1>1, <2>1, CardinalityAfter DEF IInv
  <2> QED BY <1>1, <2>2, HoldersFinite DEF IInv, TypeOK, RefCountExact
<1>5. MutualExclusion'
  BY <1>1 DEF IInv, TypeOK, MutualExclusion
<1>6. CountersNotShared'
  BY <1>1 DEF IInv, CountersNotShared
<1>7. EntriesReclaimed'
  BY <1>1 DEF IInv, TypeOK, EntriesReclaimed
<1> QED BY <1>2, <1>3, <1>4, <1>5, <1>6, <1>7 DEF IInv

LEMMA NewInv ==
  ASSUME IInv, NEW t \in Threads, NEW k \in Keys, Enter(t, k), NewCounter(t, k)
  PROVE  IInv'
<1>1. PICK c0 \in Counters \ Live :
        /\ ref' = [ref EXCEPT ![t] = c0] /\ locks' = [locks EXCEPT ![k] = c0]
        /\ count' = [count EXCEPT ![c0] = 1] /\ leaks' = [leaks EXCEPT ![c0] = 0]
  BY DEF NewCounter
<1>2. /\ pc[t] = "idle" /\ ref[t] = NoCounter /\ key[t] = NoKey /\ locks[k] = NoCounter
      /\ pc' = [pc EXCEPT ![t] = "queued"] /\ key' = [key EXCEPT ![t] = k]
  BY DEF IInv, TypeOK, Enter, NewCounter
<1>3. /\ Holders(c0) = {}
      /\ \A j \in Keys : locks[j] # c0
      /\ \A u \in Threads : ref[u] # c0
  BY DEF Live, Holders
<1>4. TypeOK'
  BY <1>1, <1>2, CountersAssumption DEF IInv, TypeOK
<1>5. OneCounterPerKey'
  BY <1>1, <1>2, CountersAssumption DEF IInv, TypeOK, OneCounterPerKey
<1>6. RefCountExact'
  <2> SUFFICES ASSUME NEW c \in Counters
               PROVE  count'[c] = Cardinality(Holders(c)') + leaks'[c]
    BY DEF RefCountExact
  <2>1. t \notin Holders(c)
    BY <1>2, CountersAssumption DEF Holders
  <2>2. Cardinality(Holders(c)') = IF c = c0 THEN Cardinality(Holders(c)) + 1
                                             ELSE Cardinality(Holders(c))
    BY <1>1, <2>1, CardinalityAfter DEF IInv
  <2>3. Cardinality(Holders(c0)) = 0
    BY <1>3, FS_EmptySet
  <2> QED BY <1>1, <2>2, <2>3 DEF IInv, TypeOK, RefCountExact
<1>7. MutualExclusion'
  BY <1>2 DEF IInv, TypeOK, MutualExclusion
<1>8. CountersNotShared'
  BY <1>1, <1>3 DEF IInv, TypeOK, CountersNotShared
<1>9. EntriesReclaimed'
  BY <1>1, <1>2, <1>3 DEF IInv, TypeOK, EntriesReclaimed
<1> QED BY <1>4, <1>5, <1>6, <1>7, <1>8, <1>9 DEF IInv

LEMMA AcquireInv ==
  ASSUME IInv, NEW t \in Threads, Acquire(t)
  PROVE  IInv'
<1>1. TypeOK' /\ OneCounterPerKey' /\ CountersNotShared' /\ EntriesReclaimed'
  BY DEF IInv, TypeOK, OneCounterPerKey, CountersNotShared, EntriesReclaimed, Acquire
<1>2. RefCountExact'
  BY DEF IInv, RefCountExact, Holders, Acquire
<1>3. MutualExclusion'
  BY DEF IInv, TypeOK, MutualExclusion, OneCounterPerKey, Acquire, MonitorFree
<1> QED BY <1>1, <1>2, <1>3 DEF IInv

LEMMA ReturnInv ==
  ASSUME IInv, NEW t \in Threads, Return(t)
  PROVE  IInv'
<1>1. TypeOK' /\ OneCounterPerKey' /\ CountersNotShared' /\ EntriesReclaimed'
  BY DEF IInv, TypeOK, OneCounterPerKey, CountersNotShared, EntriesReclaimed, Return
<1>2. RefCountExact' /\ MutualExclusion'
  BY DEF IInv, TypeOK, RefCountExact, MutualExclusion, Holders, Return
<1> QED BY <1>1, <1>2 DEF IInv

LEMMA ThrowInv ==
  ASSUME IInv, NEW t \in Threads, Throw(t)
  PROVE  IInv'
<1>1. /\ pc[t] = "inside" /\ ref[t] \in Counters /\ key[t] \in Keys /\ locks[key[t]] = ref[t]
      /\ pc' = [pc EXCEPT ![t] = "idle"] /\ key' = [key EXCEPT ![t] = NoKey]
      /\ ref' = [ref EXCEPT ![t] = NoCounter] /\ leaks' = [leaks EXCEPT ![ref[t]] = @ + 1]
      /\ locks' = locks /\ count' = count
  BY DEF IInv, TypeOK, OneCounterPerKey, Throw
<1>2. TypeOK'
  BY <1>1 DEF IInv, TypeOK
<1>3. OneCounterPerKey' /\ CountersNotShared' /\ MutualExclusion'
  BY <1>1 DEF IInv, TypeOK, OneCounterPerKey, CountersNotShared, MutualExclusion
<1>4. RefCountExact'
  <2> SUFFICES ASSUME NEW c \in Counters
               PROVE  count'[c] = Cardinality(Holders(c)') + leaks'[c]
    BY DEF RefCountExact
  <2>1. t \in Holders(c) <=> c = ref[t]
    BY DEF Holders
  <2>2. Cardinality(Holders(c)') = IF c = ref[t] THEN Cardinality(Holders(c)) - 1
                                                 ELSE Cardinality(Holders(c))
    BY <1>1, <2>1, CardinalityAfter, CountersAssumption DEF IInv
  <2> QED BY <1>1, <2>2, HoldersFinite DEF IInv, TypeOK, RefCountExact
<1>5. EntriesReclaimed'
  BY <1>1 DEF IInv, TypeOK, EntriesReclaimed, CountersNotShared
<1> QED BY <1>2, <1>3, <1>4, <1>5 DEF IInv

LEMMA LeaveInv ==
  ASSUME IInv, NEW t \in Threads, Leave(t)
  PROVE  IInv'
<1>1. /\ pc[t] = "leaving" /\ ref[t] \in Counters /\ key[t] \in Keys /\ locks[key[t]] = ref[t]
      /\ pc' = [pc EXCEPT ![t] = "idle"] /\ key' = [key EXCEPT ![t] = NoKey]
      /\ ref' = [ref EXCEPT ![t] = NoCounter] /\ count' = [count EXCEPT ![ref[t]] = @ - 1]
      /\ leaks' = leaks
  BY DEF IInv, TypeOK, OneCounterPerKey, Leave
<1>2. count[ref[t]] \in Nat /\ count[ref[t]] > 0
  BY <1>1, UsedIsCounted DEF IInv
<1>3. RefCountExact'
  <2> SUFFICES ASSUME NEW c \in Counters
               PROVE  count'[c] = Cardinality(Holders(c)') + leaks'[c]
    BY DEF RefCountExact
  <2>1. t \in Holders(c) <=> c = ref[t]
    BY DEF Holders
  <2>2. Cardinality(Holders(c)') = IF c = ref[t] THEN Cardinality(Holders(c)) - 1
                                                 ELSE Cardinality(Holders(c))
    BY <1>1, <2>1, CardinalityAfter, CountersAssumption DEF IInv
  <2> QED BY <1>1, <2>2, HoldersFinite DEF IInv, TypeOK, RefCountExact
<1>4. MutualExclusion'
  BY <1>1 DEF IInv, TypeOK, MutualExclusion
<1>5. CASE IsLastUser(ref[t])  \* the entry goes, and nobody else was using it
  <2>1. locks' = [locks EXCEPT ![key[t]] = NoCounter]
    BY <1>5 DEF Leave
  <2>2. Holders(ref[t]) = {t}
    BY <1>1, <1>5, LastUserIsAlone DEF IInv, IsLastUser
  <2>3. \A u \in Threads : u # t /\ pc[u] # "idle" => key[u] # key[t]
    BY <1>1, <2>2 DEF IInv, OneCounterPerKey, Holders
  <2>4. TypeOK'
    BY <1>1, <1>2, <2>1 DEF IInv, TypeOK
  <2>5. OneCounterPerKey'
    BY <1>1, <2>1, <2>3 DEF IInv, TypeOK, OneCounterPerKey
  <2>6. CountersNotShared'
    BY <2>1 DEF IInv, TypeOK, CountersNotShared
  <2>7. EntriesReclaimed'
    BY <1>1, <2>1 DEF IInv, TypeOK, EntriesReclaimed
  <2> QED BY <1>3, <1>4, <2>4, <2>5, <2>6, <2>7 DEF IInv
<1>6. CASE ~IsLastUser(ref[t])  \* the entry stays, for another user or because of a leak
  <2>1. locks' = locks
    BY <1>6 DEF Leave
  <2>2. TypeOK' /\ OneCounterPerKey' /\ CountersNotShared'
    BY <1>1, <1>2, <2>1 DEF IInv, TypeOK, OneCounterPerKey, CountersNotShared
  <2>3. leaks[ref[t]] > 0 \/ \E u \in Threads : u # t /\ ref[u] = ref[t]
    <3>1. SUFFICES ASSUME leaks[ref[t]] = 0, \A u \in Threads : ref[u] = ref[t] => u = t
                   PROVE  FALSE
      BY <1>1 DEF IInv, TypeOK
    <3>2. Holders(ref[t]) = {t}
      BY <3>1 DEF Holders
    <3>3. Cardinality(Holders(ref[t])) = 1
      BY <3>2, FS_Singleton
    <3> QED BY <1>1, <1>6, <3>1, <3>3 DEF IInv, RefCountExact, IsLastUser
  <2>4. leaks[ref[t]] > 0 \/ \E u \in Threads : u # t /\ pc[u] # "idle" /\ key[u] = key[t]
    BY <1>1, <2>3, CountersAssumption
       DEF IInv, TypeOK, OneCounterPerKey, CountersNotShared
  <2>5. EntriesReclaimed'
    BY <1>1, <2>1, <2>4 DEF IInv, TypeOK, EntriesReclaimed
  <2> QED BY <1>3, <1>4, <2>2, <2>5 DEF IInv
<1> QED BY <1>5, <1>6

LEMMA StutterInv == IInv /\ UNCHANGED vars => IInv'
BY DEF IInv, TypeOK, OneCounterPerKey, RefCountExact, MutualExclusion, CountersNotShared,
       EntriesReclaimed, Holders, vars

LEMMA Invariance == Spec => []IInv
<1>1. IInv /\ [Next]_vars => IInv'
  <2> SUFFICES ASSUME IInv, [Next]_vars PROVE IInv'
    OBVIOUS
  <2>1. CASE UNCHANGED vars
    BY <2>1, StutterInv
  <2>2. ASSUME NEW t \in Threads, NEW k \in Keys, Enter(t, k) PROVE IInv'
    BY <2>2, JoinInv, NewInv DEF Enter
  <2>3. ASSUME NEW t \in Threads, Acquire(t) \/ Return(t) \/ Throw(t) \/ Leave(t) PROVE IInv'
    BY <2>3, AcquireInv, ReturnInv, ThrowInv, LeaveInv
  <2> QED BY <2>1, <2>2, <2>3 DEF Next
<1> QED BY <1>1, InitInv, PTL DEF Spec
-----------------------------------------------------------------------------
\* Types, and no thread between the blocks without a key and a counter.
THEOREM TypeCorrect == Spec => []TypeOK
BY Invariance, PTL DEF IInv

\* Execute never runs the functions of two threads for one key at a time.
THEOREM Exclusive == Spec => []MutualExclusion
BY Invariance, PTL DEF IInv

\* No entry is removed from _locks under a thread that still waits on it.
THEOREM SharedCounter == Spec => []OneCounterPerKey
BY Invariance, PTL DEF IInv

\* _count is exact up to the increments that exceptions leave behind.
THEOREM CountExact == Spec => []RefCountExact
BY Invariance, PTL DEF IInv

\* Without exceptions _locks holds entries only for keys in use.
THEOREM Reclaimed == Spec => []EntriesReclaimed
BY Invariance, PTL DEF IInv
-----------------------------------------------------------------------------
\* The owner of k is the thread inside for k, whatever CHOOSE picks.
LEMMA OwnerIsInside ==
  ASSUME IInv, NEW k \in Keys
  PROVE  /\ \A t \in Threads : OwnerOf(k) = t <=> pc[t] = "inside" /\ key[t] = k
         /\ (\A t \in Threads : ~(pc[t] = "inside" /\ key[t] = k)) <=> OwnerOf(k) = NoThread
BY ThreadsAssumption DEF IInv, MutualExclusion, OwnerOf

Owners == [k \in Keys |-> OwnerOf(k)]

\* A thread that takes the monitor acquires the mutex of its key.
LEMMA AcquireSimulated ==
  ASSUME IInv, IInv', NEW t \in Threads, Acquire(t)
  PROVE  Mutex!Acquire(t, key[t])
<1>1. /\ key[t] \in Keys /\ pc[t] = "queued" /\ key' = key
      /\ pc' = [pc EXCEPT ![t] = "inside"]
      /\ \A u \in Threads : ~(pc[u] = "inside" /\ key[u] = key[t])
  BY DEF IInv, TypeOK, OneCounterPerKey, Acquire, MonitorFree
<1>2. OwnerOf(key[t]) = NoThread
  BY <1>1, OwnerIsInside
<1>3. \A k \in Keys : OwnerOf(k) # t
  BY <1>1, OwnerIsInside
<1>4. \A k \in Keys : OwnerOf(k)' = IF k = key[t] THEN t ELSE OwnerOf(k)
  <2> SUFFICES ASSUME NEW k \in Keys
               PROVE  OwnerOf(k)' = IF k = key[t] THEN t ELSE OwnerOf(k)
    OBVIOUS
  <2>1. CASE k = key[t]
    <3>1. \A u \in Threads : pc'[u] = "inside" /\ key'[u] = k <=> u = t
      BY <1>1, <2>1 DEF IInv, TypeOK
    <3> QED BY <2>1, <3>1 DEF OwnerOf
  <2>2. CASE k # key[t]
    <3>1. \A u \in Threads : pc'[u] = "inside" /\ key'[u] = k <=> pc[u] = "inside" /\ key[u] = k
      BY <1>1, <2>2 DEF IInv, TypeOK
    <3> QED BY <2>2, <3>1 DEF OwnerOf
  <2> QED BY <2>1, <2>2
<1> QED BY <1>1, <1>2, <1>3, <1>4 DEF Mutex!Acquire

\* A thread whose function ends releases it.
LEMMA ReleaseSimulated ==
  ASSUME IInv, NEW t \in Threads, Return(t) \/ Throw(t)
  PROVE  Mutex!Release(t, key[t])
<1>1. /\ key[t] \in Keys /\ pc[t] = "inside"
      /\ \A u \in Threads : pc[u] = "inside" /\ key[u] = key[t] => u = t
      /\ \A u \in Threads : pc'[u] = "inside" <=> pc[u] = "inside" /\ u # t
      /\ \A u \in Threads : u # t => key'[u] = key[u]
  BY DEF IInv, TypeOK, MutualExclusion, Return, Throw
<1>2. OwnerOf(key[t]) = t
  BY <1>1, OwnerIsInside
<1>3. \A k \in Keys : OwnerOf(k)' = IF k = key[t] THEN NoThread ELSE OwnerOf(k)
  <2> SUFFICES ASSUME NEW k \in Keys
               PROVE  OwnerOf(k)' = IF k = key[t] THEN NoThread ELSE OwnerOf(k)
    OBVIOUS
  <2>1. CASE k = key[t]
    <3>1. \A u \in Threads : ~(pc'[u] = "inside" /\ key'[u] = k)
      BY <1>1, <2>1
    <3> QED BY <2>1, <3>1 DEF OwnerOf
  <2>2. CASE k # key[t]
    <3>1. \A u \in Threads : pc'[u] = "inside" /\ key'[u] = k <=> pc[u] = "inside" /\ key[u] = k
      BY <1>1, <2>2
    <3> QED BY <2>2, <3>1 DEF OwnerOf
  <2> QED BY <2>1, <2>2
<1> QED BY <1>1, <1>2, <1>3 DEF Mutex!Release

\* No other step changes who is inside.
LEMMA OtherStepsStutter ==
  ASSUME IInv,
         \/ \E t \in Threads, k \in Keys : Enter(t, k)
         \/ \E t \in Threads : Leave(t)
         \/ UNCHANGED vars
  PROVE  Owners' = Owners
<1>1. \A u \in Threads, k \in Keys :
        pc'[u] = "inside" /\ key'[u] = k <=> pc[u] = "inside" /\ key[u] = k
  BY DEF IInv, TypeOK, Enter, Leave, vars
<1>2. \A k \in Keys : OwnerOf(k)' = OwnerOf(k)
  BY <1>1 DEF OwnerOf
<1> QED BY <1>2 DEF Owners

\* Every behaviour of the class is a behaviour of one mutex per key.
THEOREM Refinement == Spec => ImplementsKeyMutex
<1>1. Init => Mutex!Init
  BY DEF Init, Mutex!Init, OwnerOf
<1>2. IInv /\ IInv' /\ [Next]_vars => [Mutex!Next]_Owners
  <2> SUFFICES ASSUME IInv, IInv', [Next]_vars PROVE Mutex!Next \/ Owners' = Owners
    OBVIOUS
  <2>1. ASSUME NEW t \in Threads, Acquire(t) PROVE Mutex!Next
    <3>1. key[t] \in Keys
      BY <2>1 DEF IInv, TypeOK, Acquire
    <3> QED BY <2>1, <3>1, AcquireSimulated DEF Mutex!Next
  <2>2. ASSUME NEW t \in Threads, Return(t) \/ Throw(t) PROVE Mutex!Next
    <3>1. key[t] \in Keys
      BY <2>2 DEF IInv, TypeOK, Return, Throw
    <3> QED BY <2>2, <3>1, ReleaseSimulated DEF Mutex!Next
  <2> QED BY <2>1, <2>2, OtherStepsStutter DEF Next
<1> QED BY <1>1, <1>2, Invariance, PTL DEF Spec, ImplementsKeyMutex, Mutex!Spec, Owners
=============================================================================
