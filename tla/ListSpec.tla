------------------------------ MODULE ListSpec ------------------------------
(***************************************************************************)
(* What a key-store promises to the callers of its list operations: each   *)
(* call takes effect at one instant between its invocation and its return, *)
(* on one list per key; a crash loses calls, never their past effects.     *)
(***************************************************************************)
EXTENDS ListEdits

CONSTANTS Threads, NoOp

VARIABLES
  lists,  \* the list of each key, NoList if it has none
  calls   \* per thread: idle, pending (invoked) or done (about to return)

Idle == [status |-> "idle", op |-> NoOp, reply |-> NoItem]
Pending(o) == [status |-> "pending", op |-> o, reply |-> NoItem]
Done(o, r) == [status |-> "done", op |-> o, reply |-> r]

Init ==
  /\ lists = [k \in Keys |-> NoList]
  /\ calls = [t \in Threads |-> Idle]

Invoke(t) ==
  /\ calls[t] = Idle
  /\ \E o \in Updates \cup Reads : calls' = [calls EXCEPT ![t] = Pending(o)]
  /\ UNCHANGED lists

Apply(t) ==
  LET o == calls[t].op IN
  /\ calls[t].status = "pending"
  /\ lists' = [lists EXCEPT ![o.key] = Edited(o, @)]
  /\ calls' = [calls EXCEPT ![t] = Done(o, Reply(o, lists[o.key]))]

Return(t) ==
  /\ calls[t].status = "done"
  /\ calls' = [calls EXCEPT ![t] = Idle]
  /\ UNCHANGED lists

Crash ==
  /\ calls' = [t \in Threads |-> Idle]
  /\ UNCHANGED lists

Next == Crash \/ \E t \in Threads : Invoke(t) \/ Apply(t) \/ Return(t)

Spec == Init /\ [][Next]_<<lists, calls>>
=============================================================================
