------------------------------- MODULE Ledger -------------------------------
(***************************************************************************)
(* The double-entry ledger of internal/ledger, at the grain of its         *)
(* database transactions: every primitive (Credit, Debit, Transfer,        *)
(* PlaceHold, ReleaseHold, CaptureHold, ReverseTransaction, OpenAccount,   *)
(* TransitionAccountState) is one action, the commit of the one            *)
(* PostgreSQL transaction the primitive runs in.  LedgerTx.tla opens these *)
(* transactions up into their statements and row locks and is shown to     *)
(* implement this module.                                                  *)
(*                                                                         *)
(* A call the code refuses (insufficient balance, hold not active, key     *)
(* already used) rolls back and changes nothing, so it is no action here:  *)
(* the refusals are the negated guards.                                    *)
(***************************************************************************)
EXTENDS Integers, Functions

CONSTANTS
    Account,          \* customer, merchant and platform-fee accounts
    System,           \* SystemAccountNGN, the outside world
    Key,              \* idempotency keys; one global namespace
    HoldId,           \* ids of holds
    Amount,           \* money amounts the callers pass, in minor units
    Overdraft,        \* overdraft limits accounts are opened with
    SystemOverdraft,  \* the limit migration 00007 seeds the system account with
    TargetState       \* states TransitionAccountState is called with

AccountState == {"open", "frozen", "dormant", "closed"}

ASSUME SystemAssumption == System \notin Account
\* The tables of the features and of holds CHECK that amounts are positive; NewMoney
\* and Transfer do not (service.go): one of a negative amount, which is not modelled,
\* posts what one of the positive amount with the accounts swapped does.
ASSUME AmountAssumption == Amount \subseteq Nat \ {0}
ASSUME OverdraftAssumption == Overdraft \subseteq Nat /\ SystemOverdraft \in Nat
ASSUME TargetStateAssumption == TargetState \subseteq AccountState

AllAccounts == Account \cup {System}

VARIABLES
    accounts,   \* accounts: account -> [state, overdraft]
    txns,       \* ledger_transactions, their entries and idempotency_keys: key -> transaction
    holds,      \* holds: hold -> [status, account, amount]
    ledgerSum,  \* SUM(ledger_entries.amount_minor) of each account
    heldSum     \* SUM(holds.amount_minor) of each account's active holds

vars == <<accounts, txns, holds, ledgerSum, heldSum>>

(***************************************************************************)
(* Rows.  An account, hold or key without a row has the "absent" record.   *)
(***************************************************************************)
Leg(account, amount) == [account |-> account, amount |-> amount]

\* What the stored request_hash identifies: hashLegs, hashHoldCapture, hashReversal.
LegsRequest(type, legs) == <<"legs", type, legs>>
CaptureRequest(hold) == <<"capture", hold>>
ReversalRequest(original) == <<"reversal", original>>

NoAccount == [state |-> "absent", overdraft |-> 0]
NoHold == [status |-> "absent"]
NoTxn == [state |-> "absent"]

Entry == [account : AllAccounts, amount : Int]
Legs == Entry \X Entry
Request == ({"legs"} \X {"credit", "debit", "transfer"} \X Legs)
             \cup ({"capture"} \X HoldId) \cup ({"reversal"} \X Key)

Txn == [type : {"credit", "debit", "transfer", "reversal"},
        state : {"posted", "reversed"},
        legs : Legs,
        request : Request]
Hold == [status : {"active", "released", "captured"}, account : Account, amount : Amount]

TypeOK ==
    /\ accounts \in [AllAccounts -> [state : AccountState \cup {"absent"}, overdraft : Nat]]
    /\ txns \in [Key -> Txn \cup {NoTxn}]
    /\ holds \in [HoldId -> Hold \cup {NoHold}]
    /\ ledgerSum \in [AllAccounts -> Int]
    /\ heldSum \in [AllAccounts -> Int]

Exists(a) == accounts[a].state # "absent"
Available(a) == ledgerSum[a] - heldSum[a]

Init ==
    /\ accounts = [a \in AllAccounts |->
                     IF a = System THEN [state |-> "open", overdraft |-> SystemOverdraft]
                     ELSE NoAccount]
    /\ txns = [k \in Key |-> NoTxn]
    /\ holds = [h \in HoldId |-> NoHold]
    /\ ledgerSum = [a \in AllAccounts |-> 0]
    /\ heldSum = [a \in AllAccounts |-> 0]

-----------------------------------------------------------------------------
(***************************************************************************)
(* Posting: insertPostedTransaction under the triggers of migration 00006. *)
(***************************************************************************)

\* The ledger sums once leg has been inserted.
Inserted(sums, leg) == [sums EXCEPT ![leg.account] = @ + leg.amount]

\* Mutant: the balance trigger forgets the active holds.
PassesCheckIgnoringHolds(sums, leg) ==
    leg.amount > 0 \/ sums[leg.account] + leg.amount >= -accounts[leg.account].overdraft

\* ledger_check_available_balance: the trigger before each INSERT.  It lets
\* a positive entry through and weighs a negative one against the holds that
\* are active at that moment.
PassesBalanceCheck(sums, leg) ==
    \/ leg.amount > 0
    \/ sums[leg.account] + leg.amount - heldSum[leg.account] >= -accounts[leg.account].overdraft

\* ledger_check_balanced: the deferred trigger at commit.
Balanced(legs) == legs[1].amount + legs[2].amount = 0

\* Mutant: the loop over the legs stops after the first entry.
InsertFirstEntryOnly(legs) ==
    /\ Exists(legs[1].account)
    /\ PassesBalanceCheck(ledgerSum, legs[1])
    /\ ledgerSum' = Inserted(ledgerSum, legs[1])

\* The entries of one transaction are inserted in order, each checked
\* against the sums the entries before it left.
CanInsert(legs) ==
    /\ Exists(legs[1].account) /\ Exists(legs[2].account)
    /\ PassesBalanceCheck(ledgerSum, legs[1])
    /\ PassesBalanceCheck(Inserted(ledgerSum, legs[1]), legs[2])
    /\ Balanced(legs)

InsertEntries(legs) ==
    /\ CanInsert(legs)
    /\ ledgerSum' = Inserted(Inserted(ledgerSum, legs[1]), legs[2])

Posted(type, legs, request) ==
    [type |-> type, state |-> "posted", legs |-> legs, request |-> request]

\* idempotency.Execute inserts the key's row first: a key that has one is
\* never executed again, its stored response (or ErrKeyReused) is returned.
Unused(key) == txns[key] = NoTxn

PostTransaction(type, key, legs) ==
    /\ Unused(key)
    /\ InsertEntries(legs)
    /\ txns' = [txns EXCEPT ![key] = Posted(type, legs, LegsRequest(type, legs))]
    /\ UNCHANGED <<accounts, holds, heldSum>>

CreditLegs(account, amount) == <<Leg(account, amount), Leg(System, -amount)>>
DebitLegs(account, amount) == <<Leg(account, -amount), Leg(System, amount)>>

Credit(account, amount, key) == PostTransaction("credit", key, CreditLegs(account, amount))
Debit(account, amount, key) == PostTransaction("debit", key, DebitLegs(account, amount))

Transfer(from, to, amount, key) ==
    PostTransaction("transfer", key, <<Leg(from, -amount), Leg(to, amount)>>)

-----------------------------------------------------------------------------
(***************************************************************************)
(* Holds.                                                                  *)
(***************************************************************************)

PlaceHold(hold, account, amount) ==
    /\ holds[hold] = NoHold
    /\ Exists(account)
    /\ Available(account) - amount >= -accounts[account].overdraft
    /\ holds' = [holds EXCEPT ![hold] =
                   [status |-> "active", account |-> account, amount |-> amount]]
    /\ heldSum' = [heldSum EXCEPT ![account] = @ + amount]
    /\ UNCHANGED <<accounts, txns, ledgerSum>>

\* Mutants: a hold of any status is resolved; the status is set to one the
\* CHECK constraint does not know.
ResolveAnyHold(hold, target) ==
    /\ holds[hold] # NoHold
    /\ holds' = [holds EXCEPT ![hold].status = target]
    /\ heldSum' = [heldSum EXCEPT ![holds[hold].account] = @ - holds[hold].amount]

ResolveHoldMisspelt(hold, target) ==
    /\ holds[hold].status = "active"
    /\ holds' = [holds EXCEPT ![hold].status = "cancelled"]
    /\ heldSum' = [heldSum EXCEPT ![holds[hold].account] = @ - holds[hold].amount]

\* The row leaves the set the SUM over active holds ranges over.
ResolveHold(hold, target) ==
    /\ holds[hold].status = "active"
    /\ holds' = [holds EXCEPT ![hold].status = target]
    /\ heldSum' = [heldSum EXCEPT ![holds[hold].account] = @ - holds[hold].amount]

ReleaseHold(hold) ==
    /\ ResolveHold(hold, "released")
    /\ UNCHANGED <<accounts, txns, ledgerSum>>

\* The debit's entries are inserted while the hold is still active: the
\* balance check counts the captured amount twice, once as the entry and
\* once in heldSum.
CaptureHold(hold, key) ==
    /\ Unused(key)
    /\ holds[hold].status = "active"
    /\ InsertEntries(DebitLegs(holds[hold].account, holds[hold].amount))
    /\ ResolveHold(hold, "captured")
    /\ txns' = [txns EXCEPT ![key] =
                   Posted("debit", DebitLegs(holds[hold].account, holds[hold].amount), CaptureRequest(hold))]
    /\ UNCHANGED accounts

-----------------------------------------------------------------------------
(***************************************************************************)
(* Reversal.  The SELECT of the original entries has no ORDER BY: they may *)
(* come back, and be compensated, in either order.                         *)
(***************************************************************************)

Negated(leg) == Leg(leg.account, -leg.amount)
Compensating(legs) == {<<Negated(legs[1]), Negated(legs[2])>>, <<Negated(legs[2]), Negated(legs[1])>>}

\* Mutant: the state of the original is not checked before it is reversed.
ReverseAnyTransaction(original, key) ==
    /\ Unused(key)
    /\ txns[original] # NoTxn
    /\ \E legs \in Compensating(txns[original].legs) :
         /\ InsertEntries(legs)
         /\ txns' = [txns EXCEPT ![key] = Posted("reversal", legs, ReversalRequest(original)),
                                 ![original].state = "reversed"]
    /\ UNCHANGED <<accounts, holds, heldSum>>

ReverseTransaction(original, key) ==
    /\ Unused(key)
    /\ txns[original].state = "posted"
    /\ \E legs \in Compensating(txns[original].legs) :
         /\ InsertEntries(legs)
         /\ txns' = [txns EXCEPT ![key] = Posted("reversal", legs, ReversalRequest(original)),
                                 ![original].state = "reversed"]
    /\ UNCHANGED <<accounts, holds, heldSum>>

-----------------------------------------------------------------------------
(***************************************************************************)
(* Account lifecycle.  No posting or hold looks at an account's state.     *)
(***************************************************************************)

OpenAccount(account, overdraft) ==
    /\ ~Exists(account)
    /\ accounts' = [accounts EXCEPT ![account] = [state |-> "open", overdraft |-> overdraft]]
    /\ UNCHANGED <<txns, holds, ledgerSum, heldSum>>

\* Mutant: the transition table lets a closed account be opened again.
CanReopen(state, target) == state # "absent" /\ state # target

CanTransitionTo(state, target) ==
    \/ state = "open" /\ target \in {"frozen", "dormant", "closed"}
    \/ state \in {"frozen", "dormant"} /\ target \in {"open", "closed"}

TransitionAccountState(account, target) ==
    /\ CanTransitionTo(accounts[account].state, target)
    /\ accounts' = [accounts EXCEPT ![account].state = target]
    /\ UNCHANGED <<txns, holds, ledgerSum, heldSum>>

-----------------------------------------------------------------------------
Next ==
    \/ \E a \in Account, o \in Overdraft : OpenAccount(a, o)
    \/ \E a \in Account, s \in TargetState : TransitionAccountState(a, s)
    \/ \E a \in Account, x \in Amount, k \in Key : Credit(a, x, k)
    \/ \E a \in Account, x \in Amount, k \in Key : Debit(a, x, k)
    \/ \E a, b \in Account, x \in Amount, k \in Key : Transfer(a, b, x, k)
    \/ \E h \in HoldId, a \in Account, x \in Amount : PlaceHold(h, a, x)
    \/ \E h \in HoldId : ReleaseHold(h)
    \/ \E h \in HoldId, k \in Key : CaptureHold(h, k)
    \/ \E original, k \in Key : ReverseTransaction(original, k)

Spec == Init /\ [][Next]_vars

-----------------------------------------------------------------------------
(***************************************************************************)
(* Properties.                                                             *)
(***************************************************************************)

\* Whatever is posted, held, captured or reversed, and in whatever order, no
\* account's available balance (posted entries minus active holds) passes its
\* authorized overdraft.  The two places that weigh it, PlaceHold and the
\* balance trigger, do so separately; captures and reversals lower the ledger
\* balance of an account that holds are already counted against.
AvailableWithinOverdraft ==
    \A a \in AllAccounts : Exists(a) => Available(a) >= -accounts[a].overdraft

\* The books balance: over all accounts the posted entries sum to zero, and
\* the two sums the code computes with SQL (service.go GetBalance, PlaceHold,
\* the balance trigger) are at every moment those of the rows: no operation
\* moves one leg without the other, or frees a hold it did not resolve.
Committed == {k \in Key : ~Unused(k)}
Opened == {a \in AllAccounts : Exists(a)}
ActiveHolds == {h \in HoldId : holds[h].status = "active"}

Part(leg, a) == IF leg.account = a THEN leg.amount ELSE 0
EntrySum(a) == SumFunction([k \in Committed |-> Part(txns[k].legs[1], a) + Part(txns[k].legs[2], a)])
ActiveHoldSum(a) == SumFunction([h \in ActiveHolds |-> Part(holds[h], a)])

BooksBalance ==
    /\ SumFunction([a \in Opened |-> EntrySum(a)]) = 0
    /\ \A a \in AllAccounts : ledgerSum[a] = EntrySum(a) /\ heldSum[a] = ActiveHoldSum(a)

\* Entries and holds only ever refer to opened accounts (the foreign keys of
\* migrations 00003 and 00004): an account starts with nothing posted and
\* nothing held, and stays in the books once it has been opened.
OnlyOpenedAccountsHaveRows ==
    /\ \A a \in AllAccounts : ~Exists(a) => ledgerSum[a] = 0 /\ heldSum[a] = 0
    /\ \A h \in HoldId : holds[h] # NoHold => Exists(holds[h].account)

\* A hold is captured by exactly one posted debit, of the held amount from
\* the held account to the outside world, and a hold that is not captured by
\* none: a capture retried with another key does not move the money again.
Captures(hold) == {k \in Key : txns[k] # NoTxn /\ txns[k].request = CaptureRequest(hold)}

CapturedExactlyOnce ==
    \A h \in HoldId :
        \/ holds[h].status # "captured" /\ Captures(h) = {}
        \/ /\ holds[h].status = "captured"
           /\ \E k \in Key :
                /\ Captures(h) = {k}
                /\ txns[k].legs = DebitLegs(holds[h].account, holds[h].amount)

\* A transaction is "reversed" if and only if one reversal, and only one,
\* compensates its entries leg by leg: under retries with fresh keys, and
\* with reversals that are themselves reversed, money is given back once.
Reversals(original) == {k \in Key : txns[k] # NoTxn /\ txns[k].request = ReversalRequest(original)}

ReversedExactlyOnce ==
    \A original \in Key :
        \/ txns[original].state # "reversed" /\ Reversals(original) = {}
        \/ /\ txns[original].state = "reversed"
           /\ \E k \in Key :
                /\ Reversals(original) = {k}
                /\ txns[k].legs \in Compensating(txns[original].legs)

\* The history is append-only: the entries and the request of a committed
\* transaction never change, its state only goes from posted to reversed;
\* a hold's account and amount are fixed and released and captured are final;
\* a closed account never reopens.
AppendOnlyStep ==
    /\ \A k \in Key : txns[k] # NoTxn =>
         txns'[k] \in {txns[k], [txns[k] EXCEPT !.state = "reversed"]}
    /\ \A h \in HoldId : holds[h] # NoHold =>
         \/ holds'[h] = holds[h]
         \/ /\ holds[h].status = "active"
            /\ \E s \in {"released", "captured"} : holds'[h] = [holds[h] EXCEPT !.status = s]
    /\ \A a \in Account : accounts[a].state = "closed" => accounts'[a] = accounts[a]

HistoryIsAppendOnly == [][AppendOnlyStep]_vars

\* Every hold is a reservation that can be honoured: as long as it is active
\* its capture passes the balance check, since PlaceHold set the amount aside
\* (holds.go: "PlaceHold reserves amount against accountID's available balance").
ActiveHoldIsCapturable ==
    \A h \in HoldId : holds[h].status = "active" =>
        PassesBalanceCheck(ledgerSum, Leg(holds[h].account, -holds[h].amount))
=============================================================================
