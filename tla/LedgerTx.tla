------------------------------ MODULE LedgerTx ------------------------------
(***************************************************************************)
(* internal/ledger and internal/idempotency at the grain of the SQL        *)
(* statements they send.  Callers (HTTP handlers, tickers) run             *)
(* concurrently, each in a PostgreSQL transaction at READ COMMITTED: a     *)
(* statement sees what is committed when it starts plus the transaction's  *)
(* own writes, and waits for row locks other transactions hold.  The       *)
(* tables of Ledger hold the committed state; what a transaction has       *)
(* written so far is in its caller's tx record and is gone if it aborts.   *)
(*                                                                         *)
(* ImplementsLedger states that the transactions are serializable: each    *)
(* commit is a step of Ledger, although the balance was checked on values  *)
(* read several statements before.                                         *)
(***************************************************************************)
EXTENDS Ledger, Sequences, FiniteSets

CONSTANTS
    Caller,    \* goroutines calling the ledger
    Calls,     \* the calls they make, a set of the records below
    PoolSize   \* connections in the pgx pool

Post(type, legs, key) == [op |-> "post", type |-> type, legs |-> legs, key |-> key]
Capture(hold, key) == [op |-> "capture", hold |-> hold, key |-> key]
Reverse(original, key) == [op |-> "reverse", original |-> original, key |-> key]
Place(hold, account, amount) == [op |-> "place", hold |-> hold, account |-> account, amount |-> amount]
Release(hold) == [op |-> "release", hold |-> hold]
Transition(account, target) == [op |-> "transition", account |-> account, target |-> target]
Balance(account) == [op |-> "balance", account |-> account]

\* What the exported functions of the package can be called with.
LedgerCalls ==
    {Post("credit", CreditLegs(a, x), k) : a \in Account, x \in Amount, k \in Key}
      \cup {Post("debit", DebitLegs(a, x), k) : a \in Account, x \in Amount, k \in Key}
      \cup {Post("transfer", <<Leg(a, -x), Leg(b, x)>>, k) : a, b \in Account, x \in Amount, k \in Key}
      \cup {Capture(h, k) : h \in HoldId, k \in Key}
      \cup {Reverse(o, k) : o, k \in Key}
      \cup {Place(h, a, x) : h \in HoldId, a \in Account, x \in Amount}
      \cup {Release(h) : h \in HoldId}
      \cup {Transition(a, s) : a \in Account, s \in TargetState}
      \cup {Balance(a) : a \in AllAccounts}

ASSUME CallsAssumption == Calls \subseteq LedgerCalls
ASSUME PoolAssumption == PoolSize \in Nat \ {0}

VARIABLES
    pc,      \* the statement each caller is about to execute
    call,    \* its current or last call
    tx,      \* its transaction: entries to insert, how many are, last sum read
    locks,   \* row locks its transaction holds
    result   \* what its last call returned

txVars == <<pc, call, tx, locks, result>>
allVars == <<vars, txVars>>

\* The calls that go through idempotency.Execute.
Keyed(c) == c.op \in {"post", "capture", "reverse"}
NoTx == [legs |-> <<>>, inserted |-> 0, read |-> 0]

RequestOf(c) ==
    CASE c.op = "post" -> LegsRequest(c.type, c.legs)
      [] c.op = "capture" -> CaptureRequest(c.hold)
      [] c.op = "reverse" -> ReversalRequest(c.original)

TxInit ==
    /\ Init
    /\ pc = [p \in Caller |-> "idle"]
    /\ call \in [Caller -> {[op |-> "none"]}]
    /\ tx = [p \in Caller |-> NoTx]
    /\ locks = [p \in Caller |-> {}]
    /\ result = [p \in Caller |-> "none"]

-----------------------------------------------------------------------------
(***************************************************************************)
(* Row locks.  Inserting a key that another transaction has inserted and   *)
(* not yet committed waits like a lock on the key's row.                   *)
(***************************************************************************)
RowLock(mode, table, id) == [mode |-> mode, table |-> table, id |-> id]

\* FOR UPDATE excludes every other lock; the FOR KEY SHARE of a foreign key
\* excludes only FOR UPDATE.
Conflict(l, m) == l.table = m.table /\ l.id = m.id /\ "update" \in {l.mode, m.mode}

Blocks(q, lock) == \E m \in locks[q] : Conflict(lock, m)
CanLock(p, lock) == \A q \in Caller \ {p} : ~Blocks(q, lock)

\* The row of the captured or released hold, or of the reversed transaction.
SubjectLock(c) ==
    IF c.op = "reverse" THEN RowLock("update", "txn", c.original)
                        ELSE RowLock("update", "hold", c.hold)

\* Mutant: the trigger reads the account without FOR UPDATE.
UnlockedEntry(leg) == RowLock("share", "account", leg.account)

\* A negative entry's trigger locks the account FOR UPDATE; a positive entry
\* only takes the foreign key's share lock.
EntryLock(leg) ==
    RowLock(IF leg.amount > 0 THEN "share" ELSE "update", "account", leg.account)

NextLeg(p) == tx[p].legs[tx[p].inserted + 1]

\* The lock the next statement of p asks for.
WantedLock(p) ==
    CASE pc[p] = "reserve" -> RowLock("update", "key", call[p].key)
      [] pc[p] = "subject" -> SubjectLock(call[p])
      [] pc[p] = "entry" -> EntryLock(NextLeg(p))
      [] pc[p] = "account" -> RowLock("update", "account", call[p].account)

AtLock(p) == pc[p] \in {"reserve", "subject", "entry", "account"}

\* A call in a transaction has a connection; a single statement on the pool
\* needs one that is free.
HasConnection(p) == pc[p] \notin {"idle", "begin", "fetch"} /\ call[p].op # "balance"
FreeConnection == Cardinality({p \in Caller : HasConnection(p)}) < PoolSize

-----------------------------------------------------------------------------
(***************************************************************************)
(* Statements.                                                             *)
(***************************************************************************)
Goto(p, next) == pc' = [pc EXCEPT ![p] = next]

\* The call returns; commit or deferred Rollback has dropped the transaction.
Return(p, r) ==
    /\ Goto(p, "idle")
    /\ result' = [result EXCEPT ![p] = r]
    /\ tx' = [tx EXCEPT ![p] = NoTx]
    /\ locks' = [locks EXCEPT ![p] = {}]
    /\ UNCHANGED call

\* Mutant: an early return without the deferred Rollback leaves its locks behind.
RefuseKeepingLocks(p, r) ==
    /\ Goto(p, "idle")
    /\ result' = [result EXCEPT ![p] = r]
    /\ tx' = [tx EXCEPT ![p] = NoTx]
    /\ UNCHANGED <<call, locks, vars>>

Refuse(p, r) == Return(p, r) /\ UNCHANGED vars

Acquire(p, lock) ==
    /\ CanLock(p, lock)
    /\ locks' = [locks EXCEPT ![p] = @ \cup {lock}]

\* PlaceHold draws a new uuid: no call draws one that a row or a call has.
\* HoldId bounds how many holds are ever asked for.
DrawsNewId(c) ==
    c.op = "place" => /\ holds[c.hold] = NoHold
                      /\ \A q \in Caller : pc[q] # "idle" /\ call[q].op = "place" => call[q].hold # c.hold

Start(p, c) ==
    /\ pc[p] = "idle"
    /\ DrawsNewId(c)
    /\ Goto(p, IF c.op = "balance" THEN "readLedger" ELSE "begin")
    /\ call' = [call EXCEPT ![p] = c]
    /\ result' = [result EXCEPT ![p] = "none"]
    /\ UNCHANGED <<vars, tx, locks>>

Begin(p) ==
    /\ pc[p] = "begin"
    /\ FreeConnection
    /\ Goto(p, IF Keyed(call[p]) THEN "reserve"
               ELSE IF call[p].op = "release" THEN "subject" ELSE "account")
    /\ UNCHANGED <<vars, call, tx, locks, result>>

\* INSERT INTO idempotency_keys: waits for a transaction that has inserted the
\* key; a committed key is a unique violation, and the transaction is rolled
\* back before the stored response is fetched.
ReserveKey(p) ==
    /\ pc[p] = "reserve"
    /\ IF Unused(call[p].key)
       THEN /\ Acquire(p, WantedLock(p))
            /\ IF call[p].op = "post"
               THEN Goto(p, "entry") /\ tx' = [tx EXCEPT ![p].legs = call[p].legs]
               ELSE Goto(p, "subject") /\ UNCHANGED tx
       ELSE Goto(p, "fetch") /\ UNCHANGED <<tx, locks>>
    /\ UNCHANGED <<vars, call, result>>

\* Mutant: the stored response is returned whatever request it was stored for.
AnyRequest(c) == TRUE

SameRequest(c) == txns[c.key].request = RequestOf(c)

FetchCompleted(p) ==
    /\ pc[p] = "fetch"
    /\ FreeConnection
    /\ Refuse(p, IF SameRequest(call[p]) THEN "ok" ELSE "key_reused")

\* SELECT ... FOR UPDATE of the hold or of the original transaction, and the
\* check of its status under the lock.
LockSubject(p) ==
    /\ pc[p] = "subject"
    /\ CanLock(p, WantedLock(p))
    /\ IF call[p].op = "reverse"
       THEN IF txns[call[p].original].state = "posted"
            THEN /\ Acquire(p, WantedLock(p))
                 /\ \E legs \in Compensating(txns[call[p].original].legs) :
                      tx' = [tx EXCEPT ![p].legs = legs]
                 /\ Goto(p, "entry")
                 /\ UNCHANGED <<vars, call, result>>
            ELSE Refuse(p, "not_reversible")
       ELSE IF holds[call[p].hold].status = "active"
            THEN /\ Acquire(p, WantedLock(p))
                 /\ IF call[p].op = "release"
                    THEN Goto(p, "commit") /\ UNCHANGED tx
                    ELSE /\ Goto(p, "entry")
                         /\ LET hold == holds[call[p].hold]
                            IN  tx' = [tx EXCEPT ![p].legs = DebitLegs(hold.account, hold.amount)]
                 /\ UNCHANGED <<vars, call, result>>
            ELSE Refuse(p, "not_active")

\* The next entry of the transaction has passed.
EntryInserted(p) ==
    /\ tx' = [tx EXCEPT ![p].inserted = @ + 1, ![p].read = 0]
    /\ Goto(p, IF tx[p].inserted + 1 = Len(tx[p].legs) THEN "commit" ELSE "entry")

\* INSERT INTO ledger_entries: the account's lock, waited for by the trigger of
\* a negative entry and by the foreign key of a positive one.
LockEntryAccount(p) ==
    /\ pc[p] = "entry"
    /\ CanLock(p, WantedLock(p))
    /\ IF ~Exists(NextLeg(p).account)
       THEN Refuse(p, "not_found")
       ELSE /\ Acquire(p, WantedLock(p))
            /\ IF NextLeg(p).amount > 0 THEN EntryInserted(p) ELSE Goto(p, "readLedger") /\ UNCHANGED tx
            /\ UNCHANGED <<vars, call, result>>

\* SELECT ... FROM accounts FOR UPDATE in PlaceHold and TransitionAccountState.
LockAccount(p) ==
    /\ pc[p] = "account"
    /\ CanLock(p, WantedLock(p))
    /\ IF ~Exists(call[p].account)
       THEN Refuse(p, "not_found")
       ELSE IF call[p].op = "transition" /\ ~CanTransitionTo(accounts[call[p].account].state, call[p].target)
       THEN Refuse(p, "invalid_transition")
       ELSE /\ Acquire(p, WantedLock(p))
            /\ Goto(p, IF call[p].op = "place" THEN "readLedger" ELSE "commit")
            /\ UNCHANGED <<vars, call, tx, result>>

\* The account whose balance is being read.
Weighed(p) == IF call[p].op \in {"place", "balance"} THEN call[p].account ELSE NextLeg(p).account

\* SELECT SUM(amount_minor) FROM ledger_entries: the committed entries and
\* those this transaction has inserted already.
OwnEntries(p, account) ==
    LET own == {i \in 1..tx[p].inserted : tx[p].legs[i].account = account}
    IN  IF own = {} THEN 0 ELSE tx[p].legs[CHOOSE i \in own : TRUE].amount

\* GetBalance looks the account up first; an account's row is never deleted.
ReadLedgerSum(p) ==
    /\ pc[p] = "readLedger"
    /\ call[p].op = "balance" => FreeConnection
    /\ IF ~Exists(Weighed(p))
       THEN Refuse(p, "not_found")
       ELSE /\ tx' = [tx EXCEPT ![p].read = ledgerSum[Weighed(p)] + OwnEntries(p, Weighed(p))]
            /\ Goto(p, "readHeld")
            /\ UNCHANGED <<vars, call, locks, result>>

\* SELECT SUM(amount_minor) FROM holds WHERE status = 'active', a statement
\* with a snapshot of its own, and what is done with the two sums.
ReadHeldSum(p) ==
    /\ pc[p] = "readHeld"
    /\ LET account == Weighed(p)
           available == tx[p].read - heldSum[Weighed(p)]
           floor == -accounts[account].overdraft
       IN  CASE call[p].op = "balance" ->
                  FreeConnection /\ Refuse(p, "ok")
             [] call[p].op = "place" /\ available - call[p].amount >= floor ->
                  Goto(p, "commit") /\ UNCHANGED <<vars, call, tx, locks, result>>
             [] Keyed(call[p]) /\ available + NextLeg(p).amount >= floor ->
                  EntryInserted(p) /\ UNCHANGED <<vars, call, locks, result>>
             [] OTHER -> Refuse(p, "insufficient")

-----------------------------------------------------------------------------
(***************************************************************************)
(* Commit makes the transaction's writes visible at once.  It checks       *)
(* nothing again but the deferred balance trigger.                         *)
(***************************************************************************)
CommitEntries(p, type) ==
    LET c == call[p]
        added == [txns EXCEPT ![c.key] = Posted(type, tx[p].legs, RequestOf(c))]
    IN  /\ Balanced(tx[p].legs)
        /\ ledgerSum' = Inserted(Inserted(ledgerSum, tx[p].legs[1]), tx[p].legs[2])
        /\ txns' = IF c.op = "reverse" THEN [added EXCEPT ![c.original].state = "reversed"] ELSE added

CommitResolvedHold(p, target) ==
    LET h == call[p].hold
    IN  /\ holds' = [holds EXCEPT ![h].status = target]
        /\ heldSum' = [heldSum EXCEPT ![holds[h].account] = @ - holds[h].amount]

CommitPlacedHold(p) ==
    LET c == call[p]
    IN  /\ holds' = [holds EXCEPT ![c.hold] = [status |-> "active", account |-> c.account, amount |-> c.amount]]
        /\ heldSum' = [heldSum EXCEPT ![c.account] = @ + c.amount]

Commit(p) ==
    /\ pc[p] = "commit"
    /\ Return(p, "ok")
    /\ CASE call[p].op = "post" -> CommitEntries(p, call[p].type) /\ UNCHANGED <<accounts, holds, heldSum>>
         [] call[p].op = "reverse" -> CommitEntries(p, "reversal") /\ UNCHANGED <<accounts, holds, heldSum>>
         [] call[p].op = "capture" -> /\ CommitEntries(p, "debit")
                                      /\ CommitResolvedHold(p, "captured")
                                      /\ UNCHANGED accounts
         [] call[p].op = "release" -> CommitResolvedHold(p, "released") /\ UNCHANGED <<accounts, txns, ledgerSum>>
         [] call[p].op = "place" -> CommitPlacedHold(p) /\ UNCHANGED <<accounts, txns, ledgerSum>>
         [] call[p].op = "transition" ->
              /\ accounts' = [accounts EXCEPT ![call[p].account].state = call[p].target]
              /\ UNCHANGED <<txns, holds, ledgerSum, heldSum>>

-----------------------------------------------------------------------------
(***************************************************************************)
(* Failures.  A transaction can be lost before any statement: the request  *)
(* is cancelled, the connection drops, the process is killed.  PostgreSQL  *)
(* aborts one transaction of every cycle of lock waits.                    *)
(***************************************************************************)
Lose(p) ==
    /\ pc[p] # "idle"
    /\ Refuse(p, "error")

WaitsFor(p, q) == p # q /\ AtLock(p) /\ Blocks(q, WantedLock(p))

DeadlockVictim(p) ==
    /\ \E n \in 2..Cardinality(Caller) : \E cycle \in [1..n -> Caller] :
         /\ cycle[1] = p /\ WaitsFor(cycle[n], p)
         /\ \A i \in 1..(n - 1) : WaitsFor(cycle[i], cycle[i + 1])
    /\ Refuse(p, "deadlock")

Statement(p) ==
    \/ Begin(p) \/ ReserveKey(p) \/ FetchCompleted(p) \/ LockSubject(p) \/ LockEntryAccount(p)
    \/ LockAccount(p) \/ ReadLedgerSum(p) \/ ReadHeldSum(p) \/ Commit(p)

\* OpenAccount is a single INSERT.
TxNext ==
    \/ \E a \in Account, o \in Overdraft : OpenAccount(a, o) /\ UNCHANGED txVars
    \/ \E p \in Caller, c \in Calls : Start(p, c)
    \/ \E p \in Caller : Statement(p)
    \/ \E p \in Caller : Lose(p)
    \/ \E p \in Caller : DeadlockVictim(p)

\* A caller's goroutine keeps running; a lock it waits for is granted in the
\* order of PostgreSQL's lock queue, and the deadlock detector runs.
Fairness == \A p \in Caller : SF_allVars(Statement(p)) /\ WF_allVars(DeadlockVictim(p))

TxSpec == TxInit /\ [][TxNext]_allVars /\ Fairness

-----------------------------------------------------------------------------
(***************************************************************************)
(* Properties.                                                             *)
(***************************************************************************)
TxTypeOK ==
    /\ TypeOK
    /\ pc \in [Caller -> {"idle", "begin", "reserve", "fetch", "subject", "entry", "account",
                          "readLedger", "readHeld", "commit"}]
    /\ call \in [Caller -> Calls \cup {[op |-> "none"]}]
    /\ tx \in [Caller -> [legs : Legs \cup {<<>>}, inserted : 0..2, read : Int]]
    /\ DOMAIN locks = Caller /\ DOMAIN result = Caller

\* The statement-level transactions are serializable: in every interleaving,
\* with callers racing on accounts, holds and keys, losing their connection or
\* falling to a deadlock, the committed tables only move by steps of Ledger.
\* A commit whose balance check went stale between its SELECTs and the commit
\* would be a step Ledger forbids.
Abstract == INSTANCE Ledger
ImplementsLedger == Abstract!Spec

\* What a caller is told is what the books say (idempotency.go: "callers with
\* the same key and requestHash return the first call's stored response"): an
\* "ok", first or replayed, means that this very request is committed under
\* the key, a "key_reused" that another one is, and no refusal, loss or
\* deadlock leaves a lock or an entry behind.
AnswersMatchBooks ==
    \A p \in Caller : pc[p] = "idle" =>
        /\ locks[p] = {}
        /\ result[p] = "ok" /\ Keyed(call[p]) =>
             ~Unused(call[p].key) /\ txns[call[p].key].request = RequestOf(call[p])
        /\ result[p] = "key_reused" =>
             ~Unused(call[p].key) /\ txns[call[p].key].request # RequestOf(call[p])

\* Every call returns: whatever the callers lock, and in whatever order, and
\* however few connections the pool has, no caller waits forever.
CallsReturn == \A p \in Caller : pc[p] # "idle" ~> pc[p] = "idle"
=============================================================================
