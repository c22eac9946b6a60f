------------------------------ MODULE Merchants ------------------------------
(***************************************************************************)
(* internal/charges and internal/payouts: what a merchant collects and     *)
(* pays out are rows over external transfers, whose status is theirs.  An  *)
(* external transfer is taken at its own grain here: sending it, and its   *)
(* completing or failing, are one action each (ExternalPayments.tla opens  *)
(* them up).  It books under its idempotency key and reserves money by a   *)
(* hold that no other row has, so one value names the row, its key in the  *)
(* ledger and its hold.  Its outcome is final here, which in the code it is*)
(* not: an instance that was slow can write another one over it.           *)
(***************************************************************************)
EXTENDS Ledger, FiniteSetsExt

CONSTANTS
    Merchant,     \* owners of settlement accounts
    AccountOf,    \* resolveSettlementAccount: the merchant's earliest open account; it has one owner
    TransferKey,  \* idempotency keys of external transfers
    Rail,         \* the rails that are registered
    Source,       \* charges and payouts, named as their tables' UNIQUE does
    ApiRequest,   \* what the API's callers ask for
    Caller,       \* concurrent requests of the API
    Instance      \* server instances, whose settlement creates payouts as well

ASSUME MerchantAssumption ==
    /\ AccountOf \in [Merchant -> Account]
    /\ \A m, n \in Merchant : AccountOf[m] = AccountOf[n] => m = n
    /\ TransferKey \subseteq Key /\ TransferKey \subseteq HoldId
    /\ Source \subseteq [kind : {"charge", "payout"}, merchant : Merchant, key : TransferKey]
    /\ Caller \cap Instance = {}

Mode == {"sandbox", "live"}
ASSUME ApiRequestAssumption ==
    ApiRequest \subseteq [source : Source, mode : Mode, rail : Rail, amount : Amount]

VARIABLES
    transfers,  \* external_transfers: key -> row
    records,    \* charges and payouts: source -> row
    step,       \* what each caller and each money-controls goroutine does next
    work        \* and what it has read and is working on

merchantVars == <<transfers, records, step, work>>

Actor == Caller \cup Instance
NoTransfer == [status |-> "absent"]
NoRecord == [mode |-> "none"]
NoRequest == [source |-> "none"]
NoWork == [duty |-> "none", queue |-> {}, item |-> "none", charges |-> {}, total |-> 0, request |-> NoRequest]

MerchantsInit ==
    /\ transfers = [k \in TransferKey |-> NoTransfer]
    /\ records = [s \in Source |-> NoRecord]
    /\ step = [a \in Actor |-> "idle"]
    /\ work = [a \in Actor |-> NoWork]

Goto(a, next) == step' = [step EXCEPT ![a] = next]
GotoWith(a, next, todo) == Goto(a, next) /\ work' = [work EXCEPT ![a] = todo]

\* The goroutine goes on with its next item; a caller has none.
Done(a) ==
    IF work[a].queue = {} THEN GotoWith(a, "idle", NoWork)
    ELSE GotoWith(a, "next", [NoWork EXCEPT !.duty = work[a].duty, !.queue = work[a].queue])

-----------------------------------------------------------------------------
(***************************************************************************)
(* External transfers.                                                     *)
(***************************************************************************)
Direction(kind) == IF kind = "charge" THEN "inbound" ELSE "outbound"

NewTransfer(request) ==
    LET s == request.source
    IN  [status |-> "pending", direction |-> Direction(s.kind), account |-> AccountOf[s.merchant],
         rail |-> request.rail, amount |-> request.amount]

CompleteTransfer(k) ==
    /\ transfers[k].status = "pending"
    /\ IF transfers[k].direction = "outbound" THEN CaptureHold(k, k)
       ELSE Credit(transfers[k].account, transfers[k].amount, k)
    /\ transfers' = [transfers EXCEPT ![k].status = "completed"]
    /\ UNCHANGED <<records, step, work>>

FailTransfer(k) ==
    /\ transfers[k].status = "pending"
    /\ IF transfers[k].direction = "outbound" THEN ReleaseHold(k) ELSE UNCHANGED vars
    /\ transfers' = [transfers EXCEPT ![k].status = "failed"]
    /\ UNCHANGED <<records, step, work>>

-----------------------------------------------------------------------------
(***************************************************************************)
(* Create, of a charge and of a payout: the key is looked up per merchant, *)
(* the transfer is sent, the row inserted.                                 *)
(***************************************************************************)

\* A source that has a row is answered with it.  A missing settlement account,
\* a tripped kill switch, an unknown rail or token turn a call away here.
StartCreate(c, request) ==
    /\ step[c] = "idle"
    /\ records[request.source] = NoRecord
    /\ accounts[AccountOf[request.source.merchant]].state = "open"
    /\ GotoWith(c, "send", [NoWork EXCEPT !.request = request])
    /\ UNCHANGED <<vars, transfers, records>>

\* The transfer is looked up by its key alone: one that has the key, whoever
\* sent it, is the answer.
SendTransfer(a) ==
    LET request == work[a].request
        key == request.source.key
        account == AccountOf[request.source.merchant]
        amount == request.amount
    IN  /\ step[a] = "send"
        /\ \/ transfers[key] # NoTransfer /\ Goto(a, "record") /\ UNCHANGED <<vars, transfers, work>>
           \/ /\ transfers[key] = NoTransfer
              /\ IF request.source.kind = "payout" THEN PlaceHold(key, account, amount) ELSE UNCHANGED vars
              /\ transfers' = [transfers EXCEPT ![key] = NewTransfer(request)]
              /\ Goto(a, "record")
              /\ UNCHANGED work
           \/ /\ transfers[key] = NoTransfer /\ request.source.kind = "payout"
              /\ Available(account) - amount < -accounts[account].overdraft
              /\ Done(a)
              /\ UNCHANGED <<vars, transfers>>
        /\ UNCHANGED records

\* INSERT ... ON CONFLICT: a row that is there already is returned.
RecordSource(a) ==
    LET request == work[a].request
    IN  /\ step[a] = "record"
        /\ records' = IF records[request.source] # NoRecord THEN records
                      ELSE [records EXCEPT ![request.source] = [mode |-> request.mode, amount |-> request.amount]]
        /\ IF a \in Caller THEN Done(a) ELSE Goto(a, "link") /\ UNCHANGED work
        /\ UNCHANGED <<vars, transfers>>

\* The process dies, or a statement fails and its error is logged.
Lose(a) ==
    /\ step[a] # "idle"
    /\ GotoWith(a, "idle", NoWork)
    /\ UNCHANGED <<vars, transfers, records>>

-----------------------------------------------------------------------------
TransferRow == [status : {"pending", "completed", "failed"}, direction : {"inbound", "outbound"},
                account : Account, rail : Rail, amount : Nat]
Record == [mode : Mode, amount : Nat]

\* A charge and a payout is a record of a transfer of its own (charges.go: "a
\* thin record over an inbound external transfer", "idempotent per (merchant,
\* idempotencyKey)"): of its kind, amount and merchant.
RecordsOwnTransfer ==
    \A s \in Source : records[s] # NoRecord =>
        LET t == transfers[s.key]
        IN  /\ t.direction = Direction(s.kind)
            /\ t.account = AccountOf[s.merchant]
            /\ t.amount = records[s].amount
=============================================================================
