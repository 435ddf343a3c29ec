--------------------------- MODULE ClientListApi ---------------------------
(***************************************************************************)
(* The way of one list call of KkClient: the method the application calls, *)
(* the query it sends, the KkServer method that the query's handler calls, *)
(* the operation of KeyStore, and what the method makes of the reply. The  *)
(* application goes by the methods' documentation and keeps account of the *)
(* list it should have by then. One caller, one key, an ephemeral store:   *)
(* ListStore has the threads, the cache and the database.                  *)
(***************************************************************************)
EXTENDS ListEdits

CONSTANTS
  Methods,   \* the methods of KkClient that the application calls
  Blank,     \* new KkListItem<T>(): no Id, no value
  MaxLength  \* bound: items in the list

PushMethods == {"PushFirstValue", "PushLastValue", "PushFirstItem", "PushLastItem"}
ReadMethods == {"GetList", "GetFirst", "GetLast", "TryGetList", "TryGetFirst", "TryGetLast"}
TryMethods == {"TryGetList", "TryGetFirst", "TryGetLast"}
AllMethods == PushMethods \cup ReadMethods \cup {"RemoveListItemByKey"}

VARIABLES
  list,     \* the list in the key-store
  believed, \* history: the list that the documentation makes of the calls so far
  answer    \* what the last call returned to the application

vars == <<list, believed, answer>>

Nothing == [method |-> "none", value |-> NoItem, found |-> TRUE]

Init ==
  /\ list = NoList
  /\ believed = NoList
  /\ answer = Nothing
-----------------------------------------------------------------------------
\* The query each method sends. The item pushes send each other's, and
\* TryGetLast calls GetFirst.
QueryOf(m) ==
  CASE m \in {"PushFirstValue", "PushLastItem"} -> "KkListOfPushFirst"
    [] m \in {"PushLastValue", "PushFirstItem"} -> "KkListOfPushLast"
    [] m \in {"GetList", "TryGetList"} -> "KkListOfGetAll"
    [] m \in {"GetFirst", "TryGetFirst", "TryGetLast"} -> "KkListOfGetFirst"
    [] m = "GetLast" -> "KkListOfGetLast"
    [] m = "RemoveListItemByKey" -> "KkRemoveListItemByKey"

\* The method of KkServer, and of KeyStore, that the query's handler calls.
Handled(q) ==
  CASE q = "KkListOfPushFirst" -> "pushFirst"
    [] q = "KkListOfPushLast"  -> "pushLast"
    [] q = "KkListOfGetAll"    -> "getList"
    [] q = "KkListOfGetFirst"  -> "getFirst"
    [] q = "KkListOfGetLast"   -> "getLast"
    [] q = "KkRemoveListItemByKey" -> "deleteItem"

\* What the methods' documentation calls them: "Appends", "Prepends", "Gets the
\* full list", "the first item", "the last item", "Removes a list value".
Documented(m) ==
  CASE m \in {"PushFirstValue", "PushFirstItem"} -> "pushFirst"
    [] m \in {"PushLastValue", "PushLastItem"}   -> "pushLast"
    [] m \in {"GetList", "TryGetList"}   -> "getList"
    [] m \in {"GetFirst", "TryGetFirst"} -> "getFirst"
    [] m \in {"GetLast", "TryGetLast"}   -> "getLast"
    [] m = "RemoveListItemByKey"         -> "deleteItem"

Operation(kind, x) == [kind |-> kind, key |-> CHOOSE k \in Keys : TRUE, item |-> x]

\* `?? new()`: an absent list is an empty one, an absent item a blank one.
OrBlank(r) == IF r = NoList THEN <<>> ELSE IF r = NoItem THEN Blank ELSE r

\* A push of an item that is not in the list, or the removal of any item.
Update(m, x) ==
  /\ m \notin ReadMethods
  /\ m \in PushMethods => Len(OrNew(list)) < MaxLength /\ x \notin Elements(list)
  /\ list' = Edited(Operation(Handled(QueryOf(m)), x), list)
  /\ believed' = Edited(Operation(Documented(m), x), believed)
  /\ answer' = Nothing

\* A read; the Try methods return whether what they got is not null.
Read(m) ==
  LET value == OrBlank(Reply(Operation(Handled(QueryOf(m)), NoItem), list)) IN
  /\ m \in ReadMethods
  /\ answer' = [method |-> m, value |-> value, found |-> value \notin {NoList, NoItem}]
  /\ UNCHANGED <<list, believed>>

\* The store throws; the handler returns the exception and the client throws it.
Fails ==
  /\ answer' = Nothing
  /\ UNCHANGED <<list, believed>>

Next ==
  \/ \E m \in Methods : Read(m) \/ \E x \in Items : Update(m, x)
  \/ Fails

Spec == Init /\ [][Next]_vars
-----------------------------------------------------------------------------
\* The types; the list that the calls have made and the one that the application
\* goes by are lists.
TypeOK ==
  /\ list \in Lists \cup {NoList}
  /\ believed \in Lists \cup {NoList}
  /\ answer \in [method : ReadMethods \cup {"none"}, found : BOOLEAN,
                 value : Lists \cup Items \cup {Blank, NoItem}]

\* After any sequence of calls, every read returns what the documentation of
\* the calls so far makes of the list: the items, in their order, or blanks.
ValuesAsDocumented ==
  answer.method # "none" =>
    answer.value = OrBlank(Reply(Operation(Documented(answer.method), NoItem), believed))

\* And the Try methods return what they say: "returns true if the key was found".
ReadsAsDocumented ==
  ValuesAsDocumented /\ (answer.method \in TryMethods => (answer.found <=> believed # NoList))
=============================================================================
