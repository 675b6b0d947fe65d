----------------------------- MODULE MCImports -----------------------------
(***************************************************************************)
(* Three files.  Without import cycles: every way in which p imports q and *)
(* r and q imports r, twice included, with and without packages, and one   *)
(* name to resolve, in p or in q.  With import cycles and missing files:   *)
(* any one import in each file.                                            *)
(***************************************************************************)
EXTENDS Imports

MCFiles == {"p", "q", "r"}

Acyclic ==
  { [f \in MCFiles |-> IF f = "p" THEN s ELSE IF f = "q" THEN t ELSE <<>>] :
      s \in { <<>>, <<"q">>, <<"r">>, <<"q", "r">>, <<"r", "q">>, <<"q", "q">> },
      t \in { <<>>, <<"r">> } }
OneEach == [MCFiles -> { <<>>, <<"p">>, <<"q">>, <<"r">> }]

Packages == [MCFiles -> { <<>>, <<"a">>, <<"a", "b">> }]
Names == { n \in [MCFiles -> {"M", "N"}] : n["p"] = "M" }
Refs ==
  [absolute : BOOLEAN, name : { <<"N">> }] \cup { [absolute |-> FALSE, name |-> <<"a", "N">>] }

File(imports, package, kind, name, ref) ==
  [imports |-> imports, package |-> package, kind |-> kind, name |-> name, ref |-> ref]

MCTrees ==
  { [f \in MCFiles |->
       File(i[f], p[f], IF f = "r" THEN k ELSE "message", n[f], IF f = g THEN ref ELSE NoRef)] :
      i \in Acyclic, p \in Packages, k \in {"message", "enum"}, n \in Names,
      g \in {"p", "q"}, ref \in Refs }
  \cup
  { [f \in there |-> File(i[f], <<"a">>, "message", "M", NoRef)] :
      i \in OneEach, there \in { S \in SUBSET MCFiles : "p" \in S } }
=============================================================================
