----------------------------- MODULE MCTransfers -----------------------------
(***************************************************************************)
(* Transfers on small instances: one customer who pays another.            *)
(***************************************************************************)
EXTENDS Transfers

CONSTANTS a1, a2, k1, k2, s1, ann, bob

Owners == [a \in Account |-> IF a = a1 THEN ann ELSE bob]
Keys == {k1, k2} \cup Run

Standing(type, first) == [from |-> a1, to |-> a2, amount |-> 1, type |-> type, first |-> first]
Sending(key, payee) == [from |-> a1, to |-> a2, amount |-> 1, key |-> key, payee |-> payee, confirmed |-> TRUE]

Orders == {Standing("once", 0), Standing("recurring", 0)}
NoOrders == {}

OneSend == {Sending(k1, "match")}
=============================================================================
