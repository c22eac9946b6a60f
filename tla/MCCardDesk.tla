----------------------------- MODULE MCCardDesk -----------------------------
(***************************************************************************)
(* CardDesk on small instances: one card, purchases below and above the    *)
(* 3-D Secure threshold.                                                   *)
(***************************************************************************)
EXTENDS CardDesk

CONSTANTS a1, d1, p1, p2, s1, s2, r1

Issued == [d \in Card |-> a1]
Settling == [k \in AuthKey |-> IF k = p1 THEN s1 ELSE s2]

Buy(key, amount) == [card |-> d1, key |-> key, amount |-> amount, mcc |-> "food", network |-> TRUE]
Roomy == [daily |-> 4, single |-> 2, blocked |-> {}]
NoFood == [daily |-> 4, single |-> 2, blocked |-> {"food"}]

Purchases == {Buy(p1, 2), Buy(p2, 1)}
AllLimits == {Roomy, NoFood}
=============================================================================
