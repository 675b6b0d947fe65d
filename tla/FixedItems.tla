----------------------------- MODULE FixedItems -----------------------------
(***************************************************************************)
(* What a PackedFixed promises its user: a sequence of numbers, however it *)
(* is kept.  `call` is the last call and `answer` what it returned; the    *)
(* numbers change when a message is read, a Vec is handed over or an       *)
(* element is assigned, and in no other way.                               *)
(***************************************************************************)
EXTENDS Integers, Sequences

CONSTANTS
  Element,   \* the numbers
  Index,     \* the indices that are asked for
  Compared,  \* the sequences that are compared with
  Panics,    \* the answer of a call that panics
  Nothing    \* the answer of a call that returns nothing, and `None`

VARIABLES items, cursor, call, answer

itemVars == <<items, cursor, call, answer>>

Returns(x) == answer' = x /\ UNCHANGED <<items, cursor>>

\* A new value: the elements of a message, of a Vec, or none.
Fill ==
  /\ items' \in Seq(Element)
  /\ call' = <<"fill", items'>>
  /\ cursor' = 0
  /\ answer' = Nothing

Ask ==
  \/ call' = <<"len">>      /\ Returns(Len(items))
  \/ call' = <<"is_empty">> /\ Returns(items = <<>>)
  \/ call' = <<"all">>      /\ Returns(items)
  \/ call' = <<"quiet">>    /\ Returns(Nothing)
  \/ \E s \in Compared : call' = <<"eq", s>> /\ Returns(s = items)
  \/ \E i \in Index :
       /\ call' = <<"at", i>>
       /\ Returns(IF i < Len(items) THEN items[i + 1] ELSE Panics)

Assign == \E i \in Index, v \in Element :
  /\ call' = <<"assign", i, v>>
  /\ IF i < Len(items)
     THEN items' = [items EXCEPT ![i + 1] = v] /\ answer' = Nothing /\ UNCHANGED cursor
     ELSE Returns(Panics)

\* An iterator yields every element once, and None ever after.
Iterate == call' = <<"iter">> /\ cursor' = 0 /\ answer' = Nothing /\ UNCHANGED items
Yield ==
  /\ call' = <<"next">>
  /\ answer' = IF cursor < Len(items) THEN items[cursor + 1] ELSE Nothing
  /\ cursor' = IF cursor < Len(items) THEN cursor + 1 ELSE cursor
  /\ UNCHANGED items

ItemsInit == items = <<>> /\ cursor = 0 /\ call = <<"fill", <<>> >> /\ answer = Nothing
ItemsNext == Fill \/ Ask \/ Assign \/ Iterate \/ Yield
ItemsSpec == ItemsInit /\ [][ItemsNext]_itemVars
=============================================================================
