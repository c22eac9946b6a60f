--------------------------- MODULE PaymentPromise ---------------------------
(***************************************************************************)
(* What an outbound transfer promises to the customer who pays: the money  *)
(* is reserved when the transfer is accepted, and then leaves or comes     *)
(* back, once and for good; an outcome is recorded only of what has become *)
(* of the money.  ExternalPayments implements this; an outcome, though not *)
(* the money, may be taken back there by a goroutine that was slow.        *)
(***************************************************************************)
CONSTANT Payment

VARIABLES
    money,    \* "none", "reserved", "moved" or "returned"
    outcome   \* "absent", "pending", "completed" or "failed"

promiseVars == <<money, outcome>>

PromiseInit ==
    /\ money = [p \in Payment |-> "none"]
    /\ outcome = [p \in Payment |-> "absent"]

Accept(p) ==
    /\ outcome[p] = "absent" /\ money[p] = "none"
    /\ money' = [money EXCEPT ![p] = "reserved"]
    /\ outcome' = [outcome EXCEPT ![p] = "pending"]

Decide(p) ==
    /\ outcome[p] = "pending" /\ money[p] = "reserved"
    /\ \E m \in {"moved", "returned"} : money' = [money EXCEPT ![p] = m]
    /\ UNCHANGED outcome

OutcomeOf == [moved |-> "completed", returned |-> "failed"]

Record(p) ==
    /\ outcome[p] = "pending" /\ money[p] \in DOMAIN OutcomeOf
    /\ outcome' = [outcome EXCEPT ![p] = OutcomeOf[money[p]]]
    /\ UNCHANGED money

TakeBack(p) ==
    /\ outcome[p] \in {"completed", "failed"}
    /\ outcome' = [outcome EXCEPT ![p] = "pending"]
    /\ UNCHANGED money

PromiseNext == \E p \in Payment : Accept(p) \/ Decide(p) \/ Record(p) \/ TakeBack(p)

PromiseSpec == PromiseInit /\ [][PromiseNext]_promiseVars
=============================================================================
