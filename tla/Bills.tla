------------------------------- MODULE Bills -------------------------------
(***************************************************************************)
(* internal/bills: recurring bill payments, fired by the scheduler's       *)
(* goroutine of each instance.  RunDueBills selects the due schedules and  *)
(* claims none of them; for each, PayBill pays the occurrence it has read, *)
(* under a key made of the schedule and the occurrence, and the schedule   *)
(* is moved on, whatever became of the payment.  PayBill asks Check twice, *)
(* itself and in SendOutbound; any answer is possible (Resilience.tla).    *)
(***************************************************************************)
EXTENDS Outcomes

CONSTANTS
    Recurring,      \* rows of recurring_bill_payments, all active
    MaxTime,        \* bound on the clock, in intervals
    MaxBillFailures \* bound on restarts and on calls refused or failing

ASSUME BillsAssumption ==
    /\ Recurring \X (1..MaxTime) \subseteq Transfer
    /\ MaxTime \in Nat /\ MaxBillFailures \in Nat

VARIABLES
    clock,      \* intervals that have begun
    nextRun,    \* next_run_at: the occurrence that comes next
    payments,   \* bill_payments: keys, <<schedule, occurrence>>, as their transfers'
    billStep,   \* what each goroutine does next
    billWork,   \* the occurrences it has read, and the one it is at
    tried,      \* history: occurrences PayBill was called for
    billFailures

billVars == <<clock, nextRun, payments, billStep, billWork, tried, billFailures>>
NoBill == [queue |-> {}, key |-> <<>>]

BillsInit ==
    /\ clock = 0
    /\ nextRun = [r \in Recurring |-> 1]
    /\ payments = {}
    /\ billStep = [i \in Instance |-> "idle"]
    /\ billWork = [i \in Instance |-> NoBill]
    /\ tried = {}
    /\ billFailures = 0

GotoBill(i, next) == billStep' = [billStep EXCEPT ![i] = next] /\ UNCHANGED billWork

NextBill(i) ==
    /\ billStep' = [billStep EXCEPT ![i] = IF billWork[i].queue = {} THEN "idle" ELSE "take"]
    /\ billWork' = [billWork EXCEPT ![i].key = <<>>]

-----------------------------------------------------------------------------
Tick ==
    /\ clock < MaxTime
    /\ clock' = clock + 1
    /\ UNCHANGED <<transfers, nextRun, payments, billStep, billWork, tried, billFailures>>

DueBills == {<<r, nextRun[r]>> : r \in {q \in Recurring : nextRun[q] <= clock}}

StartBills(i) ==
    /\ billStep[i] = "idle"
    /\ DueBills # {}
    /\ billStep' = [billStep EXCEPT ![i] = "take"]
    /\ billWork' = [billWork EXCEPT ![i].queue = DueBills]
    /\ UNCHANGED <<transfers, clock, nextRun, payments, tried, billFailures>>

TakeBill(i) ==
    /\ billStep[i] = "take"
    /\ \E key \in billWork[i].queue :
         /\ billWork' = [billWork EXCEPT ![i] = [queue |-> @.queue \ {key}, key |-> key]]
         /\ tried' = tried \cup {key}
    /\ billStep' = [billStep EXCEPT ![i] = "lookup"]
    /\ UNCHANGED <<transfers, clock, nextRun, payments, billFailures>>

\* Mutant: a payment that exists is nothing to do, so its schedule is left alone.
SkipIfPaid(i) ==
    /\ billStep[i] = "lookup"
    /\ \/ billWork[i].key \in payments /\ NextBill(i)
       \/ billWork[i].key \notin payments /\ GotoBill(i, "send")
    /\ UNCHANGED <<transfers, clock, nextRun, payments, tried, billFailures>>

\* getByIdempotencyKey; Check and ValidateReference change nothing, and LoseBill
\* has their refusals.
LookUpPayment(i) ==
    /\ billStep[i] = "lookup"
    /\ GotoBill(i, IF billWork[i].key \in payments THEN "advance" ELSE "send")
    /\ UNCHANGED <<transfers, clock, nextRun, payments, tried, billFailures>>

\* SendOutbound looks its transfer up;
LookUpTransfer(i) ==
    /\ billStep[i] = "send"
    /\ GotoBill(i, IF transfers[billWork[i].key] = "absent" THEN "insert" ELSE "record")
    /\ UNCHANGED <<transfers, clock, nextRun, payments, tried, billFailures>>

\* and places a hold and inserts the transfer, with its UNIQUE key: who comes second
\* gets an error, and its hold stays (ExternalPayments.tla).
InsertTransfer(i) ==
    /\ billStep[i] = "insert"
    /\ \/ Submit(billWork[i].key) /\ GotoBill(i, "record")
       \/ transfers[billWork[i].key] # "absent" /\ GotoBill(i, "advance") /\ UNCHANGED transfers
    /\ UNCHANGED <<clock, nextRun, payments, tried, billFailures>>

RecordPayment(i) ==
    /\ billStep[i] = "record"
    /\ payments' = payments \cup {billWork[i].key}
    /\ GotoBill(i, "advance")
    /\ UNCHANGED <<transfers, clock, nextRun, tried, billFailures>>

\* Mutant: the schedule moves on from now.
AdvanceFromNow(i) ==
    /\ billStep[i] = "advance"
    /\ nextRun' = [nextRun EXCEPT ![billWork[i].key[1]] = clock + 1]
    /\ NextBill(i)
    /\ UNCHANGED <<transfers, clock, payments, tried, billFailures>>

\* From the occurrence that was read, without a look at next_run_at.
Advance(i) ==
    /\ billStep[i] = "advance"
    /\ nextRun' = [nextRun EXCEPT ![billWork[i].key[1]] = billWork[i].key[2] + 1]
    /\ NextBill(i)
    /\ UNCHANGED <<transfers, clock, payments, tried, billFailures>>

-----------------------------------------------------------------------------
BillFailure == billFailures < MaxBillFailures /\ billFailures' = billFailures + 1

\* A statement of PayBill fails, Check or the hold is refused, the reference is
\* invalid; or the UPDATE of the schedule fails.
LoseBill(i) ==
    /\ BillFailure
    /\ \/ billStep[i] \in {"lookup", "send", "insert", "record"} /\ GotoBill(i, "advance")
       \/ billStep[i] = "advance" /\ NextBill(i)
    /\ UNCHANGED <<transfers, clock, nextRun, payments, tried>>

RestartBills(i) ==
    /\ billStep[i] # "idle"
    /\ BillFailure
    /\ billStep' = [billStep EXCEPT ![i] = "idle"]
    /\ billWork' = [billWork EXCEPT ![i] = NoBill]
    /\ UNCHANGED <<transfers, clock, nextRun, payments, tried>>

BillStep(i) ==
    \/ StartBills(i) \/ TakeBill(i) \/ LookUpPayment(i) \/ LookUpTransfer(i)
    \/ InsertTransfer(i) \/ RecordPayment(i) \/ Advance(i)

BillsNext ==
    \/ Tick
    \/ \E i \in Instance : BillStep(i) \/ LoseBill(i) \/ RestartBills(i)

BillsSpec == OutcomesInit /\ BillsInit /\ [][BillsNext]_<<transfers, billVars>>

-----------------------------------------------------------------------------
(***************************************************************************)
(* Properties.                                                             *)
(***************************************************************************)

\* No occurrence of a recurring bill is passed over: PayBill was called for each
\* one that lies behind next_run_at, however far the schedule had fallen behind,
\* and with two instances that move it on from what each has read.
NoBillSkipped == \A r \in Recurring : \A n \in 1..(nextRun[r] - 1) : <<r, n>> \in tried

\* A schedule that has fallen behind, or was set back by an instance that was
\* slow, catches up with the clock, also when no payment succeeds.
BillsCatchUp == \A r \in Recurring : nextRun[r] <= clock ~> nextRun[r] > clock
=============================================================================
