------------------------- MODULE AtomicKeyOperation -------------------------
(***************************************************************************)
(* AtomicKeyOperation.Execute: exclusive access per key through a table    *)
(* _locks of reference-counted monitors, created by the first thread that  *)
(* asks for a key and removed by the last one that leaves it.              *)
(*                                                                         *)
(* The two lock(_locks) blocks exclude each other, so each is one action.  *)
(* A counter object nobody refers to is garbage and its name is used again.*)
(***************************************************************************)
EXTENDS Naturals, FiniteSets

CONSTANTS
  Threads, Keys,
  Counters,   \* names of VolatileReferenceCounter objects
  NoThread, NoKey, NoCounter,
  MaxLeaks    \* bound: how often function() may throw on one counter

ASSUME ThreadsAssumption == IsFiniteSet(Threads) /\ NoThread \notin Threads
ASSUME KeysAssumption == NoKey \notin Keys
ASSUME CountersAssumption == NoCounter \notin Counters
ASSUME MaxLeaksAssumption == MaxLeaks \in Nat

VARIABLES
  pc,      \* "idle", "queued" before the monitor, "inside" function(), "leaving"
  key,     \* the key argument of each thread's Execute
  ref,     \* its local referenceCounter
  locks,   \* _locks, NoCounter where the key is absent
  count,   \* _count of each counter object
  leaks    \* history: increments that an exception kept from being undone

vars == <<pc, key, ref, locks, count, leaks>>

Holders(c) == {t \in Threads : ref[t] = c}
Live == {locks[k] : k \in Keys} \cup {ref[t] : t \in Threads}

Init ==
  /\ pc = [t \in Threads |-> "idle"]
  /\ key = [t \in Threads |-> NoKey]
  /\ ref = [t \in Threads |-> NoCounter]
  /\ locks = [k \in Keys |-> NoCounter]
  /\ count = [c \in Counters |-> 0]
  /\ leaks = [c \in Counters |-> 0]
-----------------------------------------------------------------------------
\* Mutant: a thread that joins is not counted.
NotIncremented(c) == count[c]

Incremented(c) == count[c] + 1

\* _locks.TryGetValue succeeds: join the counter the key already has.
JoinCounter(t, k) ==
  /\ locks[k] # NoCounter
  /\ ref' = [ref EXCEPT ![t] = locks[k]]
  /\ count' = [count EXCEPT ![locks[k]] = Incremented(locks[k])]
  /\ UNCHANGED <<locks, leaks>>

\* It fails: a new counter object, added to _locks and incremented.
NewCounter(t, k) ==
  /\ locks[k] = NoCounter
  /\ \E c \in Counters \ Live :
       /\ ref' = [ref EXCEPT ![t] = c]
       /\ locks' = [locks EXCEPT ![k] = c]
       /\ count' = [count EXCEPT ![c] = 1]
       /\ leaks' = [leaks EXCEPT ![c] = 0]

\* The first lock(_locks) block.
Enter(t, k) ==
  /\ pc[t] = "idle"
  /\ pc' = [pc EXCEPT ![t] = "queued"]
  /\ key' = [key EXCEPT ![t] = k]
  /\ JoinCounter(t, k) \/ NewCounter(t, k)

\* Mutant: a thread gets in only as the sole user of the counter.
MonitorFreeIfAlone(c) == count[c] = 1
\* Mutant: no monitor at all.
MonitorAlwaysFree(c) == c \in Counters

MonitorFree(c) == \A u \in Threads : ~(ref[u] = c /\ pc[u] = "inside")

\* lock (referenceCounter) is granted and function() starts.
Acquire(t) ==
  /\ pc[t] = "queued"
  /\ MonitorFree(ref[t])
  /\ pc' = [pc EXCEPT ![t] = "inside"]
  /\ UNCHANGED <<key, ref, locks, count, leaks>>

\* function() returns; the monitor is released.
Return(t) ==
  /\ pc[t] = "inside"
  /\ pc' = [pc EXCEPT ![t] = "leaving"]
  /\ UNCHANGED <<key, ref, locks, count, leaks>>

\* function() throws: the monitor is released, the last block is skipped.
Throw(t) ==
  /\ pc[t] = "inside"
  /\ leaks[ref[t]] < MaxLeaks
  /\ pc' = [pc EXCEPT ![t] = "idle"]
  /\ key' = [key EXCEPT ![t] = NoKey]
  /\ leaks' = [leaks EXCEPT ![ref[t]] = @ + 1]
  /\ ref' = [ref EXCEPT ![t] = NoCounter]
  /\ UNCHANGED <<locks, count>>

\* Mutants: the entry goes with every thread; off by one; it is never removed.
AlwaysLast(c) == c \in Counters
LastButOne(c) == count[c] <= 2
NeverLast(c) == c \notin Counters

\* After Decrement(), Count == 0.
IsLastUser(c) == count[c] = 1

\* The second lock(_locks) block.
Leave(t) ==
  /\ pc[t] = "leaving"
  /\ count' = [count EXCEPT ![ref[t]] = @ - 1]
  /\ locks' = IF IsLastUser(ref[t]) THEN [locks EXCEPT ![key[t]] = NoCounter] ELSE locks
  /\ pc' = [pc EXCEPT ![t] = "idle"]
  /\ key' = [key EXCEPT ![t] = NoKey]
  /\ ref' = [ref EXCEPT ![t] = NoCounter]
  /\ UNCHANGED leaks

Next ==
  \E t \in Threads :
    \/ \E k \in Keys : Enter(t, k)
    \/ Acquire(t) \/ Return(t) \/ Throw(t) \/ Leave(t)

Spec == Init /\ [][Next]_vars

\* A thread that can go on does: a free monitor is granted, function() ends.
\* Nothing makes callers call Execute, and Monitor promises no order of grants.
Fairness == \A t \in Threads :
  WF_vars(Acquire(t)) /\ WF_vars(Return(t) \/ Throw(t)) /\ WF_vars(Leave(t))
FairSpec == Spec /\ Fairness
-----------------------------------------------------------------------------
TypeOK ==
  /\ pc \in [Threads -> {"idle", "queued", "inside", "leaving"}]
  /\ key \in [Threads -> Keys \cup {NoKey}]
  /\ ref \in [Threads -> Counters \cup {NoCounter}]
  /\ locks \in [Keys -> Counters \cup {NoCounter}]
  /\ count \in [Counters -> Nat]
  /\ leaks \in [Counters -> Nat]
  /\ \A t \in Threads : IF pc[t] = "idle" THEN key[t] = NoKey /\ ref[t] = NoCounter
                                          ELSE key[t] \in Keys /\ ref[t] \in Counters

\* No two threads run their functions for the same key at the same time.
MutualExclusion ==
  \A t, u \in Threads :
    pc[t] = "inside" /\ pc[u] = "inside" /\ key[t] = key[u] => t = u

\* Every thread between the two lock(_locks) blocks uses the counter that
\* _locks holds for its key: an entry is never removed under a thread that
\* waits on it, so no later caller gets a second monitor for the same key.
OneCounterPerKey ==
  \A t \in Threads : pc[t] # "idle" => ref[t] = locks[key[t]]

\* _count is the number of threads that use the counter, plus one for every
\* call whose function threw (Execute has no finally around Decrement).
RefCountExact ==
  \A c \in Counters : count[c] = Cardinality(Holders(c)) + leaks[c]

\* An entry of _locks that no thread uses is there only because of an exception.
EntriesReclaimed ==
  \A k \in Keys : locks[k] # NoCounter =>
    \/ \E t \in Threads : pc[t] # "idle" /\ key[t] = k
    \/ leaks[locks[k]] > 0

\* The class implements one mutex per key.
OwnerOf(k) ==
  IF \E t \in Threads : pc[t] = "inside" /\ key[t] = k
  THEN CHOOSE t \in Threads : pc[t] = "inside" /\ key[t] = k
  ELSE NoThread
Mutex == INSTANCE KeyMutex WITH owner <- [k \in Keys |-> OwnerOf(k)]
ImplementsKeyMutex == Mutex!Spec

\* While threads wait for a key, some thread gets to run for it.
KeyProgress ==
  \A k \in Keys : (\E t \in Threads : pc[t] = "queued" /\ key[t] = k)
                    ~> (\E t \in Threads : pc[t] = "inside" /\ key[t] = k)
=============================================================================
