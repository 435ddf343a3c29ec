------------------------ MODULE ClientListApiProofs ------------------------
(***************************************************************************)
(* The list methods of KkClient whose queries and handlers are right get   *)
(* and leave the values that their documentation says, in any sequence of  *)
(* calls, on any items and lists of any length. The run ClientListApiItems *)
(* shows that two of the three others, the pushes of items, do not; the    *)
(* third is TryGetLast, which gets the first item. What a Try method       *)
(* returns beside the value is true even if there is no such key.          *)
(***************************************************************************)
EXTENDS ClientListApi, SublistsProofs

RightMethods == AllMethods \ {"PushFirstItem", "PushLastItem", "TryGetLast"}

\* What the application believes of the list is so, and one of its methods answered.
Agrees == TypeOK /\ list = believed /\ answer.method \in Methods \cup {"none"}

\* The way from the method to KeyStore ends where the documentation says.
LEMMA RightRoute ==
  ASSUME NEW m \in RightMethods
  PROVE  Handled(QueryOf(m)) = Documented(m)
BY DEF RightMethods, AllMethods, PushMethods, ReadMethods, Handled, QueryOf, Documented

LEMMA Routes ==
  ASSUME NEW m \in AllMethods
  PROVE  /\ m \in ReadMethods => Documented(m) \in {"getList", "getFirst", "getLast"}
         /\ m \in PushMethods => Documented(m) \in {"pushFirst", "pushLast"}
         /\ m \notin ReadMethods \cup PushMethods => Documented(m) = "deleteItem"
BY DEF AllMethods, PushMethods, ReadMethods, Documented

\* `?? new()`
LEMMA OrNewIsList ==
  ASSUME NEW l \in Lists \cup {NoList}
  PROVE  /\ OrNew(l) \in Lists
         /\ l = NoList => OrNew(l) = <<>>
         /\ l \in Lists => OrNew(l) = l
BY NoListAssumption, EmptySeq DEF OrNew, Lists

\* A read returns null, an item or a list, which `?? new()` makes an answer.
LEMMA AnswerType ==
  ASSUME NEW l \in Lists \cup {NoList}, NEW m \in ReadMethods
  PROVE  OrBlank(Reply(Operation(Documented(m), NoItem), l)) \in Lists \cup Items \cup {Blank, NoItem}
<1> DEFINE o == Operation(Documented(m), NoItem)
<1>1. o.kind \in {"getList", "getFirst", "getLast"}
  BY Routes DEF Operation, AllMethods
<1>2. OrNew(l) \in Lists /\ (l = NoList => OrNew(l) = <<>>) /\ (l \in Lists => OrNew(l) = l) /\ <<>> \in Lists
  BY OrNewIsList, EmptySeq DEF Lists
<1>3. Reply(o, l) \in Lists \cup {NoList} \cup Items \cup {NoItem}
  <2>1. CASE o.kind = "getList"
    BY <2>1 DEF Reply
  <2>2. CASE o.kind \in {"getFirst", "getLast"} /\ OrNew(l) = <<>>
    BY <2>2 DEF Reply
  <2>3. CASE o.kind \in {"getFirst", "getLast"} /\ OrNew(l) # <<>>
    <3>1. l \in Seq(Items) /\ l # <<>>
      BY <1>2, <2>3 DEF Lists
    <3>2. l[1] \in Items /\ l[Len(l)] \in Items
      BY <3>1, EmptySeq, LenProperties, ElementOfSeq
    <3> QED BY <2>3, <3>2 DEF Reply
  <2> QED BY <1>1, <2>1, <2>2, <2>3
<1> HIDE DEF o
<1>4. OrBlank(Reply(o, l)) \in Lists \cup Items \cup {Blank, NoItem}
  BY <1>2, <1>3 DEF OrBlank
<1> QED BY <1>4 DEF o

\* A push or a removal makes a list of one.
LEMMA UpdatedType ==
  ASSUME NEW l \in Lists \cup {NoList}, NEW x \in Items, NEW m \in AllMethods \ ReadMethods
  PROVE  Edited(Operation(Documented(m), x), l) \in Lists \cup {NoList}
<1> DEFINE o == Operation(Documented(m), x)
<1>1. o.kind \in {"pushFirst", "pushLast", "deleteItem"} /\ o.item = x
  BY Routes DEF Operation
<1>2. OrNew(l) \in Seq(Items) /\ <<x>> \in Seq(Items)
  BY OrNewIsList DEF Lists
<1>3. /\ <<x>> \o OrNew(l) \in Lists
      /\ Append(OrNew(l), x) \in Lists
      /\ Without(OrNew(l), x) \in Lists
  BY <1>2, ConcatProperties, AppendProperties, WithoutIsList DEF Lists
<1> HIDE DEF o
<1> QED BY <1>1, <1>3 DEF Edited, o

\* The calls keep the list and what the application believes of it the same.
LEMMA AgreesInv ==
  ASSUME Methods \subseteq RightMethods
  PROVE  (Init => Agrees) /\ (Agrees /\ [Next]_vars => Agrees')
<1>1. Init => Agrees
  BY DEF Init, Agrees, TypeOK, Nothing, ReadMethods
<1>2. Agrees /\ [Next]_vars => Agrees'
  <2> SUFFICES ASSUME Agrees, [Next]_vars PROVE Agrees'
    OBVIOUS
  <2>0. list \in Lists \cup {NoList} /\ believed = list /\ TypeOK
    BY DEF Agrees, TypeOK
  <2>1. ASSUME NEW m \in Methods, NEW x \in Items, Update(m, x) PROVE Agrees'
    <3>1. m \in RightMethods /\ m \in AllMethods \ ReadMethods
      BY <2>1 DEF RightMethods, Update
    <3>2. list' = Edited(Operation(Documented(m), x), list) /\ believed' = list'
      BY <2>0, <2>1, <3>1, RightRoute DEF Update
    <3>3. list' \in Lists \cup {NoList}
      BY <2>0, <3>1, <3>2, UpdatedType
    <3> QED BY <2>1, <3>2, <3>3 DEF Update, Agrees, TypeOK, Nothing
  <2>2. ASSUME NEW m \in Methods, Read(m) PROVE Agrees'
    <3>1. m \in RightMethods /\ m \in ReadMethods
      BY <2>2 DEF Read
    <3>2. answer'.value \in Lists \cup Items \cup {Blank, NoItem}
      BY <2>0, <2>2, <3>1, RightRoute, AnswerType DEF Read
    <3> QED BY <2>0, <2>2, <3>1, <3>2 DEF Read, Agrees, TypeOK
  <2>3. CASE Fails
    BY <2>0, <2>3 DEF Fails, Agrees, TypeOK, Nothing
  <2>4. CASE UNCHANGED vars
    BY <2>4 DEF Agrees, TypeOK, vars
  <2> QED BY <2>1, <2>2, <2>3, <2>4 DEF Next
<1> QED BY <1>1, <1>2

\* "Appends a value", "Prepends a value", "Gets the full list", "the first item",
\* "the last item", "Removes a list value": so the values that are read are, of
\* every list call but the two pushes of items and TryGetLast.
THEOREM ValuesRead ==
  ASSUME Methods \subseteq RightMethods
  PROVE  Spec => []ValuesAsDocumented
<1>1. (Init => Agrees) /\ (Agrees /\ [Next]_vars => Agrees')
  BY AgreesInv
<1>2. Init => ValuesAsDocumented
  BY DEF Init, ValuesAsDocumented, Nothing
<1>3. Agrees /\ ValuesAsDocumented /\ [Next]_vars => ValuesAsDocumented'
  <2> SUFFICES ASSUME Agrees, ValuesAsDocumented, [Next]_vars PROVE ValuesAsDocumented'
    OBVIOUS
  <2>1. ASSUME NEW m \in Methods, NEW x \in Items, Update(m, x) PROVE ValuesAsDocumented'
    BY <2>1 DEF Update, ValuesAsDocumented, Nothing
  <2>2. ASSUME NEW m \in Methods, Read(m) PROVE ValuesAsDocumented'
    <3>1. Handled(QueryOf(m)) = Documented(m) /\ list = believed
      BY RightRoute DEF Agrees
    <3> QED BY <2>2, <3>1 DEF Read, ValuesAsDocumented
  <2>3. CASE Fails
    BY <2>3 DEF Fails, ValuesAsDocumented, Nothing
  <2>4. CASE UNCHANGED vars
    BY <2>4 DEF ValuesAsDocumented, vars
  <2> QED BY <2>1, <2>2, <2>3, <2>4 DEF Next
<1> QED BY <1>1, <1>2, <1>3, PTL DEF Spec

\* The calls other than the two pushes of items and the Try methods do all that
\* their documentation says: what they return is a value or nothing.
THEOREM DoesAsDocumented ==
  ASSUME Methods \subseteq RightMethods \ TryMethods
  PROVE  Spec => []ReadsAsDocumented
<1>1. Methods \subseteq RightMethods
  OBVIOUS
<1>2. (Init => Agrees) /\ (Agrees /\ [Next]_vars => Agrees')
  BY <1>1, AgreesInv
<1>3. Spec => []ValuesAsDocumented
  BY <1>1, ValuesRead
<1>4. Agrees /\ ValuesAsDocumented => ReadsAsDocumented
  BY DEF Agrees, ReadsAsDocumented, TryMethods
<1> QED BY <1>2, <1>3, <1>4, PTL DEF Spec
=============================================================================
