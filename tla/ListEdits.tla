----------------------------- MODULE ListEdits -----------------------------
(***************************************************************************)
(* What the list operations of KeyStore do to a List<BinaryListItem> and   *)
(* what they return. An item is its Id: no operation looks at its bytes.   *)
(***************************************************************************)
EXTENDS Sublists

CONSTANTS
  Keys, Items,
  NoList,   \* null: the key has no list
  NoItem    \* null: GetFirst or GetLast of an empty or absent list

ASSUME NoListAssumption == NoList \notin Seq(Items)
ASSUME NoItemAssumption == NoItem \notin Items

Lists == Seq(Items)

Pushes  == [kind : {"pushFirst", "pushLast"}, key : Keys, item : Items]
Deletes == [kind : {"deleteItem"}, key : Keys, item : Items]
Reads   == [kind : {"getList", "getFirst", "getLast"}, key : Keys, item : {NoItem}]
Updates == Pushes \cup Deletes

\* list ??= new()
OrNew(l) == IF l = NoList THEN <<>> ELSE l

\* Mutant: a push at the front goes to the back as well.
EditedTwice(o, l) ==
  CASE o.kind = "pushFirst"  -> <<o.item>> \o OrNew(l) \o <<o.item>>
    [] o.kind = "pushLast"   -> Append(OrNew(l), o.item)
    [] o.kind = "deleteItem" -> Without(OrNew(l), o.item)
    [] OTHER -> l

\* The list after operation o, given the one that was found.
Edited(o, l) ==
  CASE o.kind = "pushFirst"  -> <<o.item>> \o OrNew(l)
    [] o.kind = "pushLast"   -> Append(OrNew(l), o.item)
    [] o.kind = "deleteItem" -> Without(OrNew(l), o.item)
    [] OTHER -> l

\* What o returns; nothing for the updates.
Reply(o, l) ==
  CASE o.kind = "getList"  -> l
    [] o.kind = "getFirst" -> IF OrNew(l) = <<>> THEN NoItem ELSE l[1]
    [] o.kind = "getLast"  -> IF OrNew(l) = <<>> THEN NoItem ELSE l[Len(l)]
    [] OTHER -> NoItem

\* The items of a list, or of no list.
Elements(l) == {OrNew(l)[i] : i \in 1..Len(OrNew(l))}
=============================================================================
