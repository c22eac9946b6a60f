---------------------------- MODULE MoneyControls ----------------------------
(***************************************************************************)
(* internal/fees and internal/settlement: the money-controls goroutine of  *)
(* each instance posts fees for completed charges and payouts, collects    *)
(* charges into cycles and pays their net out, and pays out reserves when  *)
(* their hold period is over.  A SELECT fills the goroutine's queue; each  *)
(* statement, ledger call or payout step of an item is an action.          *)
(***************************************************************************)
EXTENDS Merchants, FiniteSets

CONSTANTS
    PlatformFees,   \* PlatformFeesAccountNGN
    Rules,          \* fee_rules
    FeeKey,         \* "fee:" + type + ":" + id, the ledger key of a source's fee
    ReserveBps,     \* reserve_percent_bps of each merchant's config
    MaxCycle,       \* settlement_cycles are 1..MaxCycle; a cycle has a charge of its own
    SettlementKey,  \* "settlement:" + id, the key of a cycle's payout
    ReserveKey,     \* "settlement-reserve:" + id, the key of its reserve's payout
    ReversalKey,    \* keys transactions are reversed under
    MaxRequests,    \* bound on requests of the API
    MaxFailures     \* bound on lost calls, restarts and transfers the rails reject

Cycle == 1..MaxCycle
CycleSource(y, merchant, keys) == [kind |-> "payout", merchant |-> merchant, key |-> keys[y]]
CycleKeys == {SettlementKey[y] : y \in Cycle} \cup {ReserveKey[y] : y \in Cycle}

ASSUME FeesAssumption ==
    /\ PlatformFees \in Account \ {AccountOf[m] : m \in Merchant}
    /\ Rules \subseteq [kind : {"charge", "payout"}, merchant : Merchant \cup {"any"}, rail : Rail \cup {"*"},
                        min : Nat, max : Nat, bps : Nat, fixed : Nat, cap : Nat, taxBps : Nat]
ASSUME KeysAssumption ==
    /\ FeeKey \in [Source -> Key] /\ \A s, t \in Source : FeeKey[s] = FeeKey[t] => s = t
    /\ SettlementKey \in [Cycle -> TransferKey] /\ ReserveKey \in [Cycle -> TransferKey]
    /\ \A y, z \in Cycle :
         /\ SettlementKey[y] # ReserveKey[z]
         /\ SettlementKey[y] = SettlementKey[z] \/ ReserveKey[y] = ReserveKey[z] => y = z
    /\ \A y \in Cycle, m \in Merchant :
         CycleSource(y, m, SettlementKey) \in Source /\ CycleSource(y, m, ReserveKey) \in Source
    /\ \A r \in ApiRequest : r.source.key \notin CycleKeys
    /\ ReversalKey \subseteq Key /\ ReversalKey \cap TransferKey = {}
    /\ \A s \in Source : FeeKey[s] \notin TransferKey \cup ReversalKey
ASSUME ConfigAssumption == ReserveBps \in [Merchant -> 0..10000] /\ "instant" \in Rail
ASSUME BoundsAssumption ==
    MaxCycle \in Nat /\ MaxRequests \in Nat /\ MaxFailures \in Nat

VARIABLES
    fees,        \* fee_charges: source -> [recorded, total]
    due,         \* merchant_settlement_configs: next_cycle_at lies in the past
    cycles,      \* settlement_cycles
    cycleItems,  \* settlement_cycle_items: pairs of a cycle and a charge
    requests, failures

controlVars == <<fees, due, cycles, cycleItems>>
bounds == <<requests, failures>>
allVars == <<vars, merchantVars, controlVars, bounds>>

NoFee == [recorded |-> FALSE, total |-> 0]
NoCycle == [merchant |-> "none"]

\* Migrations 00007 and 00029 seed two accounts; merchants have opened theirs.
ControlsInit ==
    /\ accounts = [a \in AllAccounts |->
                     [state |-> "open", overdraft |-> IF a = System THEN SystemOverdraft ELSE 0]]
    /\ txns = [k \in Key |-> NoTxn]
    /\ holds = [h \in HoldId |-> NoHold]
    /\ ledgerSum = [a \in AllAccounts |-> 0]
    /\ heldSum = [a \in AllAccounts |-> 0]
    /\ MerchantsInit
    /\ fees = [s \in Source |-> NoFee]
    /\ due = [m \in Merchant |-> FALSE]
    /\ cycles = [y \in Cycle |-> NoCycle]
    /\ cycleItems = {}
    /\ requests = 0 /\ failures = 0

-----------------------------------------------------------------------------
(***************************************************************************)
(* Resolve: the most specific of the rules that match.                     *)
(***************************************************************************)
Matches(rule, source, rail, amount) ==
    /\ rule.kind = source.kind
    /\ rule.merchant \in {source.merchant, "any"} /\ rule.rail \in {rail, "*"}
    /\ amount \in rule.min..rule.max

MoreSpecific(r, q) ==
    \/ q.merchant = "any" /\ r.merchant # "any"
    \/ (q.merchant = "any" <=> r.merchant = "any") /\ q.rail = "*" /\ r.rail # "*"

TotalFee(rule, amount) ==
    LET uncapped == (amount * rule.bps) \div 10000 + rule.fixed
        fee == IF uncapped > rule.cap THEN rule.cap ELSE uncapped
    IN  fee + (fee * rule.taxBps) \div 10000

\* LIMIT 1 takes any of several rules that are equally specific.
Totals(source, rail, amount) ==
    LET matching == {r \in Rules : Matches(r, source, rail, amount)}
        best == {r \in matching : \A q \in matching : ~MoreSpecific(q, r)}
    IN  IF matching = {} THEN {0} ELSE {TotalFee(r, amount) : r \in best}

-----------------------------------------------------------------------------
(***************************************************************************)
(* The goroutine: fees of charges, then of payouts; cycles, then reserves. *)
(***************************************************************************)
Feeable(kind) ==
    {s \in Source : /\ s.kind = kind /\ records[s] # NoRecord
                    /\ transfers[s.key].status = "completed" /\ fees[s] = NoFee}

Duty == {"charge", "payout", "cycles", "reserves"}

\* reserve_release_at has passed.
MaturedReserves ==
    {y \in Cycle : /\ cycles[y] # NoCycle /\ cycles[y].reserve > 0
                   /\ cycles[y].matured /\ ~cycles[y].released}

Selected(duty) ==
    CASE duty \in {"charge", "payout"} -> Feeable(duty)
      [] duty = "cycles" -> {m \in Merchant : due[m]}
      [] duty = "reserves" -> MaturedReserves

FirstStep == [charge |-> "post", payout |-> "post", cycles |-> "find", reserves |-> "lookup"]

\* A tick selects charges and then payouts, or configs and then reserves; the
\* second half uses nothing of the first, so each is a start of its own, and
\* one that selects nothing is left out.
StartTick(i, duty) ==
    /\ step[i] = "idle"
    /\ Selected(duty) # {}
    /\ GotoWith(i, "next", [NoWork EXCEPT !.duty = duty, !.queue = Selected(duty)])
    /\ UNCHANGED <<vars, transfers, records, controlVars>>

\* A payout of the goroutine's: of a cycle's net, or of its reserve.
PayoutRequest(y, m, keys, amount) ==
    [source |-> CycleSource(y, m, keys), mode |-> "live", rail |-> "instant", amount |-> amount]

NextItem(i) ==
    LET w == work[i]
        request(item) == IF w.duty = "reserves"
                         THEN PayoutRequest(item, cycles[item].merchant, ReserveKey, cycles[item].reserve)
                         ELSE NoRequest
    IN  /\ step[i] = "next"
        /\ \E item \in w.queue :
             GotoWith(i, FirstStep[w.duty],
                 [w EXCEPT !.queue = w.queue \ {item}, !.item = item, !.request = request(item)])
        /\ UNCHANGED <<vars, transfers, records, controlVars>>

-----------------------------------------------------------------------------
(***************************************************************************)
(* Fees: the transfer is posted, then the row inserted.                    *)
(***************************************************************************)
FeeLegs(s, total) == <<Leg(AccountOf[s.merchant], -total), Leg(PlatformFees, total)>>

Insert(i, total) == GotoWith(i, "insert", [work[i] EXCEPT !.total = total])

\* Mutant: an error of the transfer is only logged.
PostFeeOrNot(i) ==
    LET s == work[i].item
    IN  /\ step[i] = "post"
        /\ \E total \in Totals(s, transfers[s.key].rail, records[s].amount) :
             /\ \/ total > 0 /\ Transfer(AccountOf[s.merchant], PlatformFees, total, FeeKey[s])
                \/ total > 0 /\ ~(Unused(FeeKey[s]) /\ CanInsert(FeeLegs(s, total))) /\ UNCHANGED vars
                \/ total = 0 /\ UNCHANGED vars
             /\ Insert(i, total)
        /\ UNCHANGED <<transfers, records, controlVars>>

\* The key's stored response answers a repeated post; a post that is refused,
\* for want of money or because its key was used for another amount, leaves
\* the source to a later tick.
PostFee(i) ==
    LET s == work[i].item
        key == FeeKey[s]
    IN  /\ step[i] = "post"
        /\ \E total \in Totals(s, transfers[s.key].rail, records[s].amount) :
             LET legs == FeeLegs(s, total)
                 replayed == ~Unused(key) /\ txns[key].request = LegsRequest("transfer", legs)
             IN  \/ total = 0 /\ Insert(i, total) /\ UNCHANGED vars
                 \/ total > 0 /\ Transfer(AccountOf[s.merchant], PlatformFees, total, key) /\ Insert(i, total)
                 \/ total > 0 /\ replayed /\ Insert(i, total) /\ UNCHANGED vars
                 \/ /\ total > 0 /\ ~replayed /\ (Unused(key) => ~CanInsert(legs))
                    /\ Done(i)
                    /\ UNCHANGED vars
        /\ UNCHANGED <<transfers, records, controlVars>>

\* UNIQUE (source_type, source_id).
InsertFee(i) ==
    LET s == work[i].item
    IN  /\ step[i] = "insert"
        /\ fees' = IF fees[s] # NoFee THEN fees
                   ELSE [fees EXCEPT ![s] = [recorded |-> TRUE, total |-> work[i].total]]
        /\ Done(i)
        /\ UNCHANGED <<vars, transfers, records, due, cycles, cycleItems>>

-----------------------------------------------------------------------------
(***************************************************************************)
(* Settlement: the charges are read, the schedule is moved on, the cycle   *)
(* is inserted with its items, and then its payout is created and linked.  *)
(***************************************************************************)
Settled == {item[2] : item \in cycleItems}

Eligible(m) ==
    {s \in Source :
        /\ s.kind = "charge" /\ s.merchant = m
        /\ records[s] # NoRecord /\ records[s].mode = "live"
        /\ transfers[s.key].status = "completed" /\ txns[s.key].state = "posted"
        /\ fees[s] # NoFee /\ s \notin Settled}

FindCharges(i) ==
    /\ step[i] = "find"
    /\ GotoWith(i, "advance", [work[i] EXCEPT !.charges = Eligible(work[i].item)])
    /\ UNCHANGED <<vars, transfers, records, controlVars>>

AdvanceSchedule(i) ==
    /\ step[i] = "advance"
    /\ due' = [due EXCEPT ![work[i].item] = FALSE]
    /\ IF work[i].charges = {} THEN Done(i) ELSE Goto(i, "cycle") /\ UNCHANGED work
    /\ UNCHANGED <<vars, transfers, records, fees, cycles, cycleItems>>

Gross(charges) == SumFunction([s \in charges |-> records[s].amount])
FeesTotal(charges) == SumFunction([s \in charges |-> fees[s].total])

\* Mutants: the fees are not taken off; the operands are swapped.
GrossIsNet(charges) == Gross(charges)
NetOfFees(charges) == FeesTotal(charges) - Gross(charges)

Net(charges) == Gross(charges) - FeesTotal(charges)
Reserve(m, net) == (net * ReserveBps[m]) \div 10000

NewCycle(m, charges) ==
    LET net == Net(charges)
    IN  [merchant |-> m, gross |-> Gross(charges), fees |-> FeesTotal(charges), net |-> net,
         reserve |-> Reserve(m, net), linked |-> FALSE, matured |-> FALSE, released |-> FALSE]

FreshCycle == 1 + Cardinality({y \in Cycle : cycles[y] # NoCycle})

\* Mutant: a charge can be an item of several cycles.
InsertCycleTwice(i) ==
    LET m == work[i].item
        charges == work[i].charges
        y == FreshCycle
        cycle == NewCycle(m, charges)
    IN  /\ step[i] = "cycle"
        /\ cycle.net >= 0 /\ y \in Cycle
        /\ cycles' = [cycles EXCEPT ![y] = cycle]
        /\ cycleItems' = cycleItems \cup ({y} \X charges)
        /\ GotoWith(i, "lookup",
             [work[i] EXCEPT !.item = y, !.request = PayoutRequest(y, m, SettlementKey, cycle.net - cycle.reserve)])
        /\ UNCHANGED <<vars, transfers, records, fees, due>>

\* The transaction: the CHECK on net_minor, and each charge's primary key.
InsertCycle(i) ==
    LET m == work[i].item
        charges == work[i].charges
        y == FreshCycle
        cycle == NewCycle(m, charges)
    IN  /\ step[i] = "cycle"
        /\ \/ /\ cycle.net >= 0 /\ charges \cap Settled = {}
              /\ y \in Cycle
              /\ cycles' = [cycles EXCEPT ![y] = cycle]
              /\ cycleItems' = cycleItems \cup ({y} \X charges)
              /\ IF cycle.net - cycle.reserve > 0
                 THEN GotoWith(i, "lookup",
                        [work[i] EXCEPT !.item = y,
                                        !.request = PayoutRequest(y, m, SettlementKey, cycle.net - cycle.reserve)])
                 ELSE Done(i)
           \/ ~(cycle.net >= 0 /\ charges \cap Settled = {}) /\ Done(i) /\ UNCHANGED <<cycles, cycleItems>>
        /\ UNCHANGED <<vars, transfers, records, fees, due>>

\* Mutant: a payout that is there already counts as an error.
LookUpNewPayout(i) ==
    /\ step[i] = "lookup"
    /\ IF records[work[i].request.source] = NoRecord THEN Goto(i, "send") /\ UNCHANGED work ELSE Done(i)
    /\ UNCHANGED <<vars, transfers, records, controlVars>>

LookUpPayout(i) ==
    /\ step[i] = "lookup"
    /\ Goto(i, IF records[work[i].request.source] = NoRecord THEN "send" ELSE "link")
    /\ UNCHANGED <<vars, work, transfers, records, controlVars>>

LinkPayout(i) ==
    LET y == work[i].item
    IN  /\ step[i] = "link"
        /\ cycles' = IF work[i].duty = "cycles" THEN [cycles EXCEPT ![y].linked = TRUE]
                     ELSE [cycles EXCEPT ![y].released = TRUE]
        /\ Done(i)
        /\ UNCHANGED <<vars, transfers, records, fees, due, cycleItems>>

-----------------------------------------------------------------------------
(***************************************************************************)
(* The composition.                                                        *)
(***************************************************************************)
CycleComesDue(m) ==
    /\ ~due[m]
    /\ due' = [due EXCEPT ![m] = TRUE]
    /\ UNCHANGED <<vars, merchantVars, fees, cycles, cycleItems, bounds>>

ReserveMatures(y) ==
    /\ cycles[y] # NoCycle /\ ~cycles[y].matured
    /\ cycles' = [cycles EXCEPT ![y].matured = TRUE]
    /\ UNCHANGED <<vars, merchantVars, fees, due, cycleItems, bounds>>

Asking ==
    /\ requests < MaxRequests
    /\ requests' = requests + 1
    /\ \E c \in Caller, r \in ApiRequest : StartCreate(c, r)
    /\ UNCHANGED <<controlVars, failures>>

Sharing(a) == (SendTransfer(a) \/ RecordSource(a)) /\ UNCHANGED controlVars

ControlStep(i) ==
    /\ \/ NextItem(i) \/ PostFee(i) \/ InsertFee(i)
       \/ FindCharges(i) \/ AdvanceSchedule(i) \/ InsertCycle(i) \/ LookUpPayout(i) \/ LinkPayout(i)
       \/ Sharing(i)
    /\ UNCHANGED bounds

Ticking(i, duty) == StartTick(i, duty) /\ UNCHANGED bounds

SomethingFails ==
    /\ failures < MaxFailures
    /\ failures' = failures + 1
    /\ \/ \E a \in Actor : Lose(a)
       \/ \E k \in TransferKey : FailTransfer(k)
    /\ UNCHANGED <<controlVars, requests>>

\* The rails' successes, and payments.Reverse of what was collected.
ReverseCharge(k, r) ==
    /\ transfers[k].status = "completed" /\ transfers[k].direction = "inbound"
    /\ ReverseTransaction(k, r)
    /\ UNCHANGED merchantVars

Outside ==
    /\ \E k \in TransferKey : CompleteTransfer(k) \/ \E r \in ReversalKey : ReverseCharge(k, r)
    /\ UNCHANGED <<controlVars, bounds>>

ControlsNext ==
    \/ Asking \/ SomethingFails \/ Outside
    \/ \E c \in Caller : Sharing(c) /\ UNCHANGED bounds
    \/ \E i \in Instance : ControlStep(i)
    \/ \E i \in Instance, duty \in Duty : Ticking(i, duty)
    \/ \E m \in Merchant : CycleComesDue(m)
    \/ \E y \in Cycle : ReserveMatures(y)

\* The goroutine's steps go on; its tickers come again and select chooses
\* among those that are ready; each schedule comes due again.
ControlsFairness ==
    /\ \A i \in Instance : WF_allVars(ControlStep(i))
    /\ \A duty \in {"cycles", "reserves"} : SF_allVars(\E i \in Instance : Ticking(i, duty))
    /\ \A m \in Merchant : WF_allVars(CycleComesDue(m))

ControlsSpec == ControlsInit /\ [][ControlsNext]_allVars
FairControlsSpec == ControlsSpec /\ ControlsFairness

-----------------------------------------------------------------------------
(***************************************************************************)
(* Properties.                                                             *)
(***************************************************************************)
Steps == {"idle", "send", "record", "next", "post", "insert", "find", "advance", "cycle", "lookup", "link"}
CycleRow == [merchant : Merchant, gross : Nat, fees : Nat, net : Nat, reserve : Nat,
             linked : BOOLEAN, matured : BOOLEAN, released : BOOLEAN]

ControlsTypeOK ==
    /\ accounts \in [AllAccounts -> [state : AccountState, overdraft : Nat]]
    /\ txns \in [Key -> Txn \cup {NoTxn}]
    /\ holds \in [HoldId -> [status : {"active", "released", "captured"}, account : Account, amount : Nat] \cup {NoHold}]
    /\ ledgerSum \in [AllAccounts -> Int] /\ heldSum \in [AllAccounts -> Int]
    /\ transfers \in [TransferKey -> TransferRow \cup {NoTransfer}]
    /\ records \in [Source -> Record \cup {NoRecord}]
    /\ step \in [Actor -> Steps]
    /\ \A a \in Actor : work[a].charges \subseteq Source
    /\ fees \in [Source -> [recorded : BOOLEAN, total : Nat]]
    /\ due \in [Merchant -> BOOLEAN]
    /\ cycles \in [Cycle -> CycleRow \cup {NoCycle}]
    /\ cycleItems \subseteq Cycle \X Source
    /\ requests \in 0..MaxRequests /\ failures \in 0..MaxFailures

\* A fee that is recorded has been taken from the merchant and given to the
\* platform, in the amount recorded and for a transfer that completed; and the
\* platform has nothing but such fees, each once, however often two instances
\* and their restarts go over a source.
PostedFees == {s \in Source : ~Unused(FeeKey[s])}

FeesArePosted ==
    /\ \A s \in Source : fees[s] # NoFee =>
         /\ transfers[s.key].status = "completed"
         /\ fees[s].total > 0 => ~Unused(FeeKey[s]) /\ txns[FeeKey[s]].legs = FeeLegs(s, fees[s].total)
    /\ ledgerSum[PlatformFees] = SumFunction([s \in PostedFees |-> txns[FeeKey[s]].legs[2].amount])

\* A charge is in one cycle at most, and a cycle is the sum of its charges.
CyclesAddUp ==
    /\ \A p, q \in cycleItems : p[2] = q[2] => p = q
    /\ \A y \in Cycle : cycles[y] # NoCycle =>
         LET charges == {item[2] : item \in {p \in cycleItems : p[1] = y}}
         IN  /\ \A s \in charges : s.kind = "charge" /\ s.merchant = cycles[y].merchant
             /\ cycles[y].gross = Gross(charges) /\ cycles[y].fees = FeesTotal(charges)

\* While clients keep their keys apart, what settlement and reserves pay out to a
\* merchant is never more than what the merchant's settled charges have collected
\* and the fees have left of it.
Paid(m) ==
    LET payouts == {k \in CycleKeys : transfers[k] # NoTransfer /\ transfers[k].account = AccountOf[m]}
    IN  SumFunction([k \in payouts |-> transfers[k].amount])
Credited(s) ==
    LET leg == txns[s.key].legs[1]
    IN  IF leg.account = AccountOf[s.merchant] THEN leg.amount ELSE 0
Collected(m) ==
    LET charges == {s \in Settled : s.merchant = m}
    IN  SumFunction([s \in charges |-> Credited(s) - fees[s].total])

PaidOutIsCollected == \A m \in Merchant : Paid(m) <= Collected(m)

\* And whatever keys they choose, it is never more than the rows of those charges
\* say: a key that two merchants share makes a row claim what another's transfer
\* collected (payouts.go, charges.go), but two instances, a restart or a retried
\* reserve pay nothing twice, before its fee is taken off, or to anyone else.
Claimed(m) ==
    LET charges == {s \in Settled : s.merchant = m}
    IN  SumFunction([s \in charges |-> records[s].amount - fees[s].total])

PaidOutIsSettled == \A m \in Merchant : Paid(m) <= Claimed(m)

\* Charges that can be settled get into a cycle, also when an instance stops
\* between moving the schedule on and inserting the cycle.  Where the fees of the
\* eligible charges exceed their sum it does not hold: the CHECK on net_minor
\* refuses the cycle at every tick.
CollectedIsSettled == \A m \in Merchant : Eligible(m) # {} ~> Eligible(m) = {}

\* Matured reserves are paid out and marked, also when an instance stops in
\* between; the exception is a payout not sent yet for want of money.
LacksFunds(y) ==
    /\ transfers[ReserveKey[y]] = NoTransfer
    /\ Available(AccountOf[cycles[y].merchant]) < cycles[y].reserve

ReserveIsReleased == MaturedReserves # {} ~> \A y \in MaturedReserves : LacksFunds(y)

\* What a cycle has settled is paid out (cycles.go: "aggregates eligible charges
\* into a cycle and pays out the net amount").
CycleIsPaid ==
    \A y \in Cycle :
        (cycles[y] # NoCycle /\ cycles[y].net > cycles[y].reserve) ~>
            (transfers[SettlementKey[y]] # NoTransfer)
=============================================================================
