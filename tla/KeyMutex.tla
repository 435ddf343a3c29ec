------------------------------ MODULE KeyMutex ------------------------------
(***************************************************************************)
(* What AtomicKeyOperation promises to KeyStore ("exclusive thread access  *)
(* for a given string value"): one mutex per key, and a thread that holds  *)
(* at most one of them.                                                    *)
(***************************************************************************)
CONSTANTS Threads, Keys, NoThread

VARIABLE owner  \* the thread running its function for a key, or NoThread

Init == owner = [k \in Keys |-> NoThread]

\* Execute has taken the monitor of k's counter and calls function().
Acquire(t, k) ==
  /\ owner[k] = NoThread
  /\ \A j \in Keys : owner[j] # t
  /\ owner' = [owner EXCEPT ![k] = t]

\* function() returned or threw: the monitor is released.
Release(t, k) ==
  /\ owner[k] = t
  /\ owner' = [owner EXCEPT ![k] = NoThread]

Next == \E t \in Threads, k \in Keys : Acquire(t, k) \/ Release(t, k)

Spec == Init /\ [][Next]_owner
=============================================================================
