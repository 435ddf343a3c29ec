---------------------------- MODULE StoreCatalog ----------------------------
(***************************************************************************)
(* What KkServer promises of its persistent key-stores: a catalog of them, *)
(* name to store, that only CreateStore and DeleteStore change, and the    *)
(* copy of it in stores.json, with which the next process begins. A save   *)
(* that succeeds makes the copy the catalog. If saves do not fail, then a  *)
(* process that ends at any moment loses no single store and brings none   *)
(* back; while the file is being written, it may lose them all. A save     *)
(* that fails leaves the copy behind, or lost, until the next one.         *)
(***************************************************************************)
CONSTANTS Names, Incarnations, NoStore, Lost, SaveMayFail

VARIABLES
  catalog,  \* the persistent stores; Lost when they are
  stored,   \* the copy; Lost while it is written and when that has failed
  made,     \* all stores ever created, the ephemeral ones too
  writing   \* stores.json is being written

vars == <<catalog, stored, made, writing>>

Init ==
  /\ catalog = [n \in Names |-> NoStore]
  /\ stored = catalog
  /\ made = {}
  /\ writing = FALSE

BeginWrite ==
  /\ ~writing
  /\ stored' = Lost
  /\ writing' = TRUE

\* The file cannot be opened: it stays as it was.
CannotWrite ==
  /\ SaveMayFail
  /\ ~writing
  /\ UNCHANGED <<stored, writing>>

\* CreateStore of a persistent store: a new one, under a name that has none.
Create(n, o) ==
  /\ catalog # Lost /\ catalog[n] = NoStore
  /\ o \notin made
  /\ catalog' = [catalog EXCEPT ![n] = o]
  /\ made' = made \cup {o}
  /\ BeginWrite \/ CannotWrite

\* CreateStore of an ephemeral one, or of one that gets no file.
CreateElsewhere(o) ==
  /\ o \notin made
  /\ made' = made \cup {o}
  /\ UNCHANGED <<catalog, stored, writing>>

\* DeleteStore of a persistent store.
Delete(n) ==
  /\ catalog # Lost /\ catalog[n] # NoStore
  /\ catalog' = [catalog EXCEPT ![n] = NoStore]
  /\ BeginWrite \/ CannotWrite
  /\ UNCHANGED made

\* DeleteStore of an ephemeral one, the heartbeat and Stop write the same again.
Write ==
  /\ BeginWrite
  /\ UNCHANGED <<catalog, made>>

Written ==
  /\ writing
  /\ stored' = catalog
  /\ writing' = FALSE
  /\ UNCHANGED <<catalog, made>>

\* The disk is full.
WriteFails ==
  /\ SaveMayFail
  /\ writing
  /\ writing' = FALSE
  /\ UNCHANGED <<catalog, stored, made>>

\* The process ends; the next one has what the file lists.
Restart ==
  /\ catalog' = stored
  /\ writing' = FALSE
  /\ UNCHANGED <<stored, made>>

\* The same KkServer is started again: what the file lists is added.
StartAgain ==
  /\ ~writing /\ catalog # Lost /\ stored # Lost
  /\ \E N \in SUBSET {n \in Names : catalog[n] = NoStore} :
       catalog' = [n \in Names |-> IF n \in N THEN stored[n] ELSE catalog[n]]
  /\ UNCHANGED <<stored, made, writing>>

Next ==
  \/ \E n \in Names, o \in Incarnations : Create(n, o)
  \/ \E o \in Incarnations : CreateElsewhere(o)
  \/ \E n \in Names : Delete(n)
  \/ Write \/ Written \/ WriteFails \/ Restart \/ StartAgain

Spec == Init /\ [][Next]_vars
=============================================================================
