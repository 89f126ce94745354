------------------------------ MODULE MCReconcile ------------------------------
(* Instances of Reconcile for TLC. *)
EXTENDS Reconcile, TLC

CONSTANTS t1, t2, k1, k2, k3, v, bare

TwoTurns == <<t1, t2>>
OneThenTwo == (t1 :> 1) @@ (t2 :> 2)

Wants(s1, s2) == (t1 :> [k \in Key |-> IF k \in s1 THEN v ELSE Absent]) @@
                 (t2 :> [k \in Key |-> IF k \in s2 THEN v ELSE Absent])
NoNames == [t \in Turn |-> [k \in Key |-> Absent]]

\* All of one collection wanted; a resource renamed; nothing of the other one
\* wanted; a collection that is described wrongly.
Configs ==
  {[want |-> Wants(Key, {k3}), previously |-> NoNames, malformed |-> {}],
   [want |-> Wants({k2, k3}, {k1, k2}), previously |-> [NoNames EXCEPT ![t1][k2] = k1], malformed |-> {}],
   [want |-> Wants({k1}, {k1, k2, k3}), previously |-> NoNames, malformed |-> {t1}]}

RefusedOne == {<<t1, k3>>}
=============================================================================
