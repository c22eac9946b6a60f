# Verification of the Kolo bank server

TLA+ models of the Go and PostgreSQL banking server in `src/`: a double-entry
ledger and the features that move money over it. TLC checks the models on small
instances, TLAPS proves theorems about them for every instance.

    tlc -workers 2 -config MCLedger.cfg MCLedger
    tlapm LedgerProofs.tla        (and LedgerTxProofs, ExternalPaymentsProofs, TransfersProofs,
                                   CardsProofs, MoneyControlsProofs, OutcomesProofs, AccessProofs)

`PROJECT.json` lists the runs, the mutants that show each property can fail, the
source lines behind every definition, the hazards and the findings.

## The system

One Go process per server instance. HTTP handlers run concurrently; besides them
`cmd/api/main.go` starts one goroutine per ticker. All state is in PostgreSQL,
except two caches in memory: the answers of the simulated rails and the snapshot
of the resilience flags. Features never call each other back; they call the
ledger's primitives and update their own tables in statements and transactions
of their own, so between any two of these steps another handler, ticker or
instance runs, or the process dies.

| Component | State | Operations | Calls | What makes it correct |
|---|---|---|---|---|
| Ledger (`ledger`) | accounts, transactions with entries, holds | open, transition, Credit, Debit, Transfer, PlaceHold, ReleaseHold, CaptureHold, ReverseTransaction, GetBalance | Idempotency | entries balance, no account past its overdraft, history append-only, one capture or release per hold, one reversal per transaction |
| Idempotency | idempotency_keys, one namespace for the whole bank | Execute | | a key is executed once and answered with its own result |
| External payments | external_transfers | SendOutbound, SendInbound, CreateBatch, ProcessPending, ResolveStuck | Ledger, Rails, Risk | a completed row has moved the money, a failed one has not, every claimed row gets an outcome |
| Rails | replay cache (memory) | Send | | a client reference is executed once |
| Risk | risk_assessments, regulatory_reports | Assess, Approve, Block, reports | Ledger | nothing settles against a decision |
| Payments | (reads the ledger) | Transfer, SendToRecipientEmail, Reverse, CheckLimits | Ledger, Resilience | tier limits |
| Scheduler | scheduled_transfers, scheduled_transfer_runs | Create, RunDue, ResolveStuck | Payments | each occurrence has one, true outcome |
| Cooling-off, payee | cooling_off_transfers | Send, Cancel, ReleaseMatured | Payments, Ledger | held until matured or cancelled, never both |
| Bills | billers, bill_payments, recurring_bill_payments | PayBill, CreateRecurring, RunDueBills | External payments, Resilience | every occurrence tried, under a key of its own |
| Cards | cards, card_authorizations | issue, controls, Authorize, Complete3DS, Settle, Void | Ledger | controls and limits; the hold agrees with the status |
| Disputes | disputes, dispute_events | Create, Advance | | only the transitions of the table |
| Charges, payouts, tokens, checkout | charges, payouts, tokens, checkout_sessions | Create, status | External payments | one charge or payout per merchant key |
| Fees | fee_rules, fee_charges | ApplyFees, Resolve | Ledger | each fee once |
| Settlement | settlement configurations, cycles, items | CreateConfig, RunCycles, ReleaseMaturedReserves | Payouts | each charge in one cycle, each cycle paid |
| Reconciliation | statement lines, runs, breaks | GenerateStatementLines, RunReconciliation | | every difference is reported |
| Webhooks | endpoints, events, deliveries | CreateEndpoint, DeactivateEndpoint, NotifyTerminal, DeliverPending | HTTP | each event delivered or dead after the attempts |
| Resilience | system mode, kill switches; snapshot (memory) | Check, SetReadOnly, SetKillSwitch | | a change is obeyed on its own instance at once, elsewhere within the ttl |
| Auth, MFA, devices | sessions, factors, challenges, devices | Login, Logout, StepUp, enrol, confirm, verify | | a revoked session opens nothing |
| Recovery | account_recovery_requests | Initiate, Complete | Auth | completed means the old sessions are cut off |
| API keys, consent | api_keys, customer_authorizations | Create, Rotate, Revoke; Grant, Revoke, Touch | | rotation leaves a working key |
| Onboarding, identity, KYC, compliance | identities, checks | onboard | | |
| HTTP, configuration, secrets, audit, observability | | | all | |

Hard behaviours: check-then-act over several statements (limits, holds before
unique inserts, statuses read and later overwritten), crashes between a ledger
commit and the row that records it, retries under idempotency keys, in-flight
resolvers that race slow originals on a second instance, caches lost on restart,
row locks taken in opposite orders, a bounded connection pool.

## The modules

    Ledger ── LedgerProofs                one action = one committed transaction
      ├── LedgerTx ── LedgerTxProofs      one action = one SQL statement; refines Ledger
      ├── ExternalPayments                externalpayments + rails + risk; refines PaymentPromise
      │     └── ExternalPaymentsProofs
      ├── Payments                        tier limits, clock
      │     ├── Scheduler ──┐
      │     └── CoolingOff ─┴── Transfers ── TransfersProofs
      ├── Cards ────────────┐
      │   Disputes ─────────┴── CardDesk ── CardsProofs
      └── Merchants ── MoneyControls ── MoneyControlsProofs
                                          charges, payouts; fees, settlement, reserves
    Outcomes                              what becomes of an external transfer
      ├── Webhooks ───────┐
      ├── Reconciliation ─┤
      └── Bills ──────────┴── OutcomesProofs
    Recovery ── AccessProofs              sessions, account recovery
    ApiKeys ─── AccessProofs              keys and their rotation
    Resilience ── AccessProofs            kill switches, read-only mode, the snapshot
    MCLedger, MCLedgerTx, MCExternalPayments, MCTransfers, MCCardDesk,
    MCMoneyControls, MCServices, MCResilience: instances for TLC

Each feature module uses `Ledger`'s actions for its calls of the ledger; that this
grain is sound is what `LedgerTx` shows. An operator commented "Mutant" is a
plausible bug, used by no specification.

**Ledger.** `accounts`, `txns` and `holds` are the tables; `ledgerSum` and `heldSum`
are the two SUMs the code computes with SQL, kept as variables and tied to the
rows by `BooksBalance`. Keys and transactions are one table, because a key's row and
its transaction commit together. A refused call rolls back and is no action. The
trigger `ledger_check_available_balance` is `PassesBalanceCheck`, applied entry by
entry in insertion order. Money is an integer of minor units in one currency.
Integers are unbounded: `bigint` overflow makes PostgreSQL refuse the statement. Amounts are
positive: every feature's table and the holds CHECK it, `Transfer` itself does not, and one of a
negative amount (not modelled) posts what the positive one with swapped accounts does.

**LedgerTx.** A caller's transaction is a program counter, the legs it has
inserted and the row locks it holds (`FOR UPDATE` against the foreign keys' `FOR
KEY SHARE`, and the wait on an uncommitted unique key). Statements read the
committed rows and the transaction's own. Commit publishes the writes. Any
statement can lose the transaction; PostgreSQL aborts one member of each cycle of
waits; the pool has `PoolSize` connections.

**ExternalPayments.** One action per statement, ledger call or rail call of
`send`, the claims, `processRow`, `Assess`, `Approve`, `Block` and `finalize`. Four
history variables exist for the properties only: `sent` and `approved`; `orphans`, the holds
of sends that were refused their row or lost before the INSERT; `interrupted`, the rows whose
instance stopped, or failed a statement, between recording a decision and carrying it out,
or that a second instance claimed from one still at it. The rules
of `risk.evaluate` are any decision out of `Decisions`. `stuckTimeout` is not
measured: a row in processing may be two minutes old at any time, so a second
instance may pick up what the first is merely slow with.

**PaymentPromise** is what an outbound transfer promises the payer: money reserved, then
moved or returned, once and for good, and an outcome that says which. `KeepsPromise` maps
`ExternalPayments` to it: a row's money is that of its hold and of the settling
posting; a row that is not outbound maps to a payment that was never made. The one
liberty is `TakeBack`: an outcome, not the money, may return to pending. `CoolingOff` does
not implement it, since it releases a matured hold before it transfers.

**Payments, Scheduler, CoolingOff, Transfers.** `checkLimits` and the ledger call
are two steps. `now` is a clock; a tick may be midnight, which resets `sentToday`, the sum over
today's transfers. A run's key is the pair of schedule and occurrence. The
scheduler's and the safeguards' goroutine of one instance stop together in
`Restart`. A `KillSwitch` makes any check of the feature flag fail or pass: the
flag is read from a cache.

**Cards, Disputes, CardDesk.** An authorization is named by its UNIQUE idempotency
key, and the ledger key it is captured under ("settle:" + id) is an injective
function of it. `Authorize`, `Complete3DS`, `Settle`, `Void` and `Chargeback` are
sequences of statements of a caller, one action each; whether a code is right
and in time is a choice. `Midnight` ends the day that the daily limit sums over.
`lost` is a history variable: the authorizations a call was lost on half way.
A dispute's reasons, sources and resolutions are left out, and no code leads from
a dispute to a chargeback: both are called whenever somebody decides to.

**Merchants, MoneyControls.** Here an external transfer is sent, completed or failed
in one action each, and its outcome is final; what can go wrong inside them, and which outcomes
are written over, is in `ExternalPayments`. A transfer's
key names its row, its ledger key and its hold. `charges.Create` and
`payouts.Create` are lookup, send and insert. `runMoneyControls` is a goroutine of each
instance: a SELECT fills its queue (`work`), and every ledger call, statement or payout
step of an item is an action, so a second instance or the API runs in between. The
halves of a tick (charges and payouts; configurations and reserves) use nothing of each
other and are starts of their own. `Rules` is any set of fee rules, `Totals` all that
`Resolve` can answer, since its LIMIT 1 has no tie-break. `CycleComesDue` stands for a
`next_cycle_at` in the past: `advance` moves it by one interval, which may be past as
well. `ReserveMatures` ends a cycle's hold period. Completed charges may be reversed.

**Outcomes, Webhooks, Reconciliation, Bills.** Tickers of each instance that wait for
transfers to end, or start them. `Outcomes` reduces a transfer to pending, completed or
failed, and any outcome may be written over by another or by pending (`Overwrite`), as the
UPDATEs by id in `process.go` and `risk.go` do. A goroutine's SELECT or claim fills its queue
(`hookWork`, `matchQueue`, `billWork`) and every later statement or transaction is an action. A webhook's claim
copies the attempt count; its lease and its back-off may be over at any time
(`ComesDue`), so two instances may send one delivery. Whether a send fails
is a choice. A statement line is named by its transfer, its amount by whether it
agrees (`Misreported`); `had` is history: the outcomes each transfer has ever had. Recurring
payments have no claim: `nextRun` is read, and written from what was read.

**Recovery, ApiKeys.** `Complete` and `Rotate` are sequences of statements without a
transaction, one action each, of concurrent requests. Passwords are data; `cutoffs`
remembers each change of the password with the sessions open at that moment.

**Resilience.** Per instance a snapshot and the write side of its RWMutex; `Check` is look,
lock, two reads, answer. `asOf`, `since` and `visible` are history: which commit
a snapshot has seen, and which one `SetKillSwitch` has returned for on the instance.
The feature modules take any answer of `Check`, which is more than this module allows.

## The runs

| Run | Instance | Shows |
|---|---|---|
| `ledger` | 2 accounts, 3 keys, 2 holds, amounts 1-2, overdrafts 0 and 2, symmetric | Type, overdraft, foreign keys, balanced books, single capture, single reversal, append-only history |
| `ledger_tx` | 2 callers on 2 connections, 9 different calls | Statement-level execution implements `Ledger`, answers match the books, every call returns |
| `ledger_capture` | as `ledger` | Finding: an active hold cannot always be captured |
| `ext_outcomes` | 1 instance, 2 handlers, 1 investigator, an outbound and an inbound transfer | No hold left behind but by a send refused its row, outcomes and booking in the end |
| `ext_faults` | 2 instances, 2 restarts, 2 lost statements, a key shared with another feature | Implements `PaymentPromise` (the payer's money moves or returns once, outcomes say which), completed has settled, one execution per process, only interrupted rows pass the gate |
| `ext_blocked` | minimal | Finding |
| `transfers` | 1 instance, 1 handler, one schedule, one key, 2 requests, 1 restart, 1 failure, 2 clock units | Outcomes match the ledger, no occurrence skipped, everything claimed ends |
| `transfers_cancelled` | minimal | Finding |
| `card_desk` | 1 card, 2 callers, 2 authorizations, one above the 3-D Secure threshold, 5 requests, 2 changes of controls, 1 lost call, 1 dispute, 2 investigators | What is settled was debited, what is approved is reserved, a dispute's timeline explains its status |
| `money_controls` | 2 instances, 1 merchant, 1 API caller, a charge, a payout, 2 cycles, a reversal, 2 requests, 1 failure | Fees posted once, a charge in one cycle, no more paid out than settled, charges and reserves not forgotten |
| `services` | 2 instances; a charge and an endpoint, 2 attempts, 2 changes; 2 mirrored transfers, one misreported, 1 failure; a recurring bill, 2 occurrences, 2 failures; 2 sessions, 1 recovery, 2 callers, 1 failure; 3 keys, 2 rotations, 1 failure | At most one event per instance, no delivery given up early, outcomes reported to every endpoint and reconciled, matches and breaks on outcomes the transfer has had, no bill skipped and schedules catching up, recovery cuts off, rotation keeps a key |
| `resilience` | 2 instances, 2 goroutines and an operator on one, an operator on the other, 2 changes, 1 failed read or restart | A change is visible on its own instance at once, everywhere in the end; every call returns |

*Bounds.* Three keys let a transaction, its reversal and the reversal of the
reversal, or two captures of one hold, meet. Two callers are enough for
every pair of conflicting statements and for the lock cycles of crossed
transfers; a cycle of three takes a third account. Two requests give a send with its
cancellation, a send retried, or a send beside a standing order for one daily
limit; two clock units let a standing order fall behind by one occurrence. Five requests about
cards let 3-D Secure be completed twice, or a settlement be retried late, beside a
chargeback. With
2 instances or 3 requests the invariants of `transfers` were also checked (2.1
million and 0.6 million states) and hold; liveness was not, and `DueIsRun` does
not hold there (below). In `money_controls` one failure is a lost call, a stopped
instance or a transfer the rail rejects, at any step; `MaxCycle`
bounds the settlement cycles: an instance inserts none when its ids are used up. 2 charges on 2 instances, where
a cycle has several items and two cycles can overlap, were checked for the invariants (0.7
million states) and hold. Its clients keep their keys apart; with two merchants who ask for a charge
under one key, the second with money of another charge in its account, `PaidOutIsSettled`
was checked too (90,000 states) and holds, while `PaidOutIsCollected`
does not; where keys are kept apart the two are the same. In `services` an overwritten outcome counts as
one of the changes of the webhooks and one of the failures of reconciliation. The five services share no row, except that
transfers are one table, so each behaviour runs one of them; interleaving two would
multiply states and show nothing. Two attempts with two instances let an old count be
written over a newer one; `AttemptsAreCounted` was also checked with three attempts, and the
invariants with a charge and a payout. Two goroutines and
operators at home and away are enough for an invalidation to meet a refresh on either side.
`CHECK_DEADLOCK FALSE` everywhere: the bank may stop when its
bounded supply of keys, holds or requests is used up.

*Fairness.* Weak fairness of the steps of a ticker's goroutine: Go schedules it and
its tick comes again. Strong fairness of selecting a given row: claims are ordered
by age (or take every old row), so none is passed over for ever. Strong
fairness of the rail's answer for a row: the simulated rail times out by marker
or chance, not for ever. In `LedgerTx`, strong fairness of a caller's statement
stands for PostgreSQL's lock queues and the pool's waiting list, weak fairness of
`DeadlockVictim` for its deadlock detector. The money controls have weak fairness of a
goroutine's steps and of schedules coming due, and strong fairness of the settlement
tick: `select` picks among the tickers that are ready at random. The services have weak
fairness of each goroutine's step and of leases ending. In `Resilience` strong fairness of
`Check`'s steps and of an operator's invalidation stands for the RWMutex, which starves
nobody who waits; the ttl ends (weak fairness). Handlers, customers, investigators,
failures and restarts have no fairness.

## What is proved

`LedgerProofs` proves, for any sets of accounts, keys, holds, amounts and
overdrafts that satisfy the named assumptions of `Ledger`:

- `TypeCorrect`: `TypeOK`, by one step per operation.
- `NeverPastOverdraft`, `RowsReferToAccounts`: from the inductive invariant
  `IInv`. The overdraft bound alone is not inductive: a release or capture lowers
  `heldSum`, so the proof needs that what a hold takes from the sum is a positive
  amount; a posting to an unopened account must be excluded, so the rows' foreign
  keys are part of the invariant; and a positive entry passes the trigger without
  a check, so the sum before it must already be within bounds.
- `CaptureMovesMoneyOnce`, `ReversalCompensatesOnce`: inductive by themselves
  over `TypeOK`. The step that matters is that every commit adds exactly one key
  with one request (`RequestsDiffer`, `AddedRequest`), so the set of captures of a
  hold or reversals of a transaction grows only in the step that changes its status.
- `HistoryOnlyGrows`: the action property, from `TypeOK`.
- `BooksAlwaysBalance`: the entries of all accounts sum to zero, and the two sums kept as variables
  are those of the rows, from an invariant that adds that only finitely many rows and accounts exist
  at a time and an account starts with nothing. The proof needs what a sum over a finite set
  becomes when one element joins, leaves or changes its value. The prover has no induction
  principle to cite for that; the lemmas take a smallest counterexample among the subsets instead,
  which exists because strict inclusion is well-founded on finite sets (`SubsetInduction`).

`LedgerTxProofs`, for any callers, calls, accounts, keys and pool of connections:

- `TransactionsAreSerializable`: every step of the statement-level execution, with its locks,
  aborts, deadlock victims and retries, is a step of `Ledger` or none. The inductive invariant
  `TxInv` keeps each call on its program and says what its locks are worth: its key is locked and
  unused, the hold or transaction read FOR UPDATE still says what was checked, and the
  entries it has inserted would pass the balance check against the sums committed now. That
  is so because no two transactions hold conflicting locks. Ids drawn for new holds differ.
- `AnswersAreTrue`: a caller that has been told of a success finds its request under its
  key, from `AnswersInv`: a replayed key was committed when it was read and the history is
  append-only.

`ExternalPaymentsProofs`, for any rows, instances, handlers, investigators, restarts and
failures:

- `PromiseIsKept`: the refinement of `PaymentPromise`. `CompletedMovedItsMoney` and it rest on
  `PayInv`: a hold is captured under the key of its row only and given back before the row
  fails, no two rows share a hold, a handler about to insert a row has a hold no row has, and
  an instance or investigator about to record an outcome has brought it about. Without the
  last part an UPDATE that looks at no status could record what did not happen.
- `OneExecutionPerProcess`: the count of executions per reference never exceeds the number of
  process lives, from `ExecutionsAreCounted`: the executions are at most the instances that remember one and the
  restarts so far.

- `NoHoldIsLeftBehind`: the lookup, the hold and the INSERT of a send are three transactions, so the hold of a
  send that is refused its row (another has inserted one under the key) or lost before the INSERT belongs to nobody.
  The theorem says that nothing else leaves one: from `OwnersInv`, which says of every active hold whose it is, a
  row's, that of the handler about to insert it, or an orphan; `PayInv` adds that a row that has ended has no
  active hold.
- `OnlyInterruptionsOpenTheGate`: money moves for a blocked transfer, or for a held one before its approval, only
  if its key is in `interrupted`. `GateInv` says of every other row that a refused one cannot be claimed, unless the
  instance at work on it is about to say so in the row (`HeldBackAt`), that no two instances are at one row, and that nobody
  touches a row or its hold before it is assessed, so that the release of a blocked row's hold cannot fail and leave
  the row claimable. Every step of an actor on a row of its own leaves the others as they are, so the
  invariant is kept per key and per worker (`StepKeepsGate`). Without restarts and with one instance `interrupted` is
  empty, and this is `GateHolds`.

`TransfersProofs`, for any schedules, sends, customers' keys, handlers, instances, lost statements and
restarts, from `TransfersInv`. No UPDATE of these two features looks at the row's status, so the
invariant says what a goroutine may rely on before each of its statements; all of it lasts, since the ledger and
the tables only grow:

- `CompletedTransfersMoved`: whoever is about to record `completed` has moved the money
  (`SchedulerKnows`, `ReleaserKnows`), so a stale write can at worst say so twice.
- `OccurrencesAreResolved`: no occurrence behind `next_run_at` is open. A late finalization writes a
  `next_run_at` computed from its own run, so the invariant also says of every run in a table,
  in the ledger, in a queue or in hand that all before it is resolved (`Reached`): whoever sets a
  schedule back or forward sets it behind no open occurrence. That nothing moves for an
  occurrence that is not due needs that no customer uses a run's key
  (`SendKeyAssumption`): the server does not check it, the keys hold a schedule's random id.

`CardsProofs`, for any cards, purchases, limits, concurrent calls and lost calls:

- `SettledMoneyIsDebited`, `ApprovalsAreReserved`: from `CardsInv`. A row alone says too
  little, since its statements run under no lock: the invariant adds what a call may rely on at each
  of its statements (`Knows`), that no two rows share a hold and a hold just placed is nobody
  else's (`HoldsAreOwn`), that nothing but the capture of a row's amount is posted under its key
  (`Settlement`), and that whoever has resolved the hold of an approved row is about to end the
  approval or was lost (`ApprovedIsHeld`). The keys of settlements being distinct from one
  another and from those of chargebacks is an assumption (`SettleKeyAssumption`; the code
  prefixes the row's id).
- `TimelinesExplainStatus`: event and status are written by one transaction from one
  transition, and no transition ends in "absent".

`MoneyControlsProofs`, for any merchants, requests, callers, instances, fee rules, reserves and
failures, from `ControlsInv`: what the rows are of one another (`RowsTrue`) and what a goroutine or caller
knows of its item and its queue at each step (`Knows`). Others' steps do not take such knowledge
away, because rows are added and completed and never taken back (`RowsGrow`), so one lemma per
action shows that its rows stay true and one lemma for all that the others still know:

- `FeesAreTakenOnce`: a recorded fee was posted in the amount recorded, and the platform's account holds
  the posted fees and nothing else. A replayed fee is recorded from the response stored with its key, not
  from what the rules say by then.
- `ChargesAreSettledOnce`: no charge is in two cycles, and a cycle's gross, fees and net are those of its
  charges, although two instances may have read the same charges: the UNIQUE charge id rolls the second
  back, and neither a charge's amount nor its fee changes after it could be settled.
- `PayoutsAreSettled`: what a merchant has been paid by settlements and reserves is at most what its
  settled charges amount to less their fees. A cycle's two payouts are together at
  most its net whether they complete or not, and cycles share no charge. It says nothing of whether the amount
  was collected: keys are a client's choice and shared by the whole bank, and a charge that shares its key claims
  what another has collected (`RecordsOwnTransfer`, below).
- `ControlsTypesCorrect`: `ControlsTypeOK`.

The service modules, for any numbers of rows, instances and callers and any number of
failures, from invariants that extend the property to what is under way:

- `LinesAreGrounded` (`OutcomesProofs`): a line is matched, and a break of either reason raised, only on an
  outcome that its transfer has had, and with the amounts that go with it; and one instance raises one break for it
  at most. From `ReconciliationInv`: what an instance has read was an outcome then, history only
  grows, and the breaks of a line with the instances about to add one are at most as many as there are instances.
  That the transfer still has that outcome is not so: it may be written over (below).
- `EventsAreBounded` (`OutcomesProofs`): at most one event per instance and outcome, from
  `EventsInv`: the events of a source with the instances that have selected it and enqueued
  none yet are at most as many as there are instances. It needs that a source being read is
  not in its reader's queue any more.
- `AttemptsAreReal` (`OutcomesProofs`): no delivery is given up before its attempts have been made, from
  `AttemptsInv`: the count a claim has copied is at most the failed sends of its delivery.
- `NoBillIsSkipped` (`OutcomesProofs`): what precedes a schedule's next run has been tried, and
  so has what precedes each occurrence in a goroutine's queue or hand. That is why an instance
  that is slow may set a schedule back and nobody can set it past an untried occurrence.
- `CompletedRecoveryCutsOff` (`AccessProofs`): for a call past its change of the password, the
  sessions of that moment are revoked, or still open while it has to list them, or listed.
- `RotationIsSafe` (`AccessProofs`): there is an active key that no rotation is about to
  revoke, because a rotation revokes only after it has created a key nobody could be rotating.
- `OwnChangesAreVisible` (`AccessProofs`): a fresh snapshot, and a refresh past its first
  read, has seen what is visible on its instance; a refresh holds the lock, so no operator
  returns meanwhile. It needs that the lock's free mark is no goroutine.

*Assumptions.* The constants are arbitrary but for the named ASSUMEs of the modules, which TLC
evaluates in the runs. Most only type them. Those that carry a proof: amounts are positive and
the system account is nobody's (`Ledger`); callers make the calls of the code (`LedgerTx`);
handlers, instances and investigators are different goroutines, of finitely many instances
(`ExternalPayments`, `Outcomes`); merchants have accounts of their own, and the keys of cycles and
fees are distinct and no client's (`Merchants`, `MoneyControls`; the code derives them from random ids); NULL is no hold's id, and settlement keys differ from one another
and from chargebacks' keys (`Cards`); charges are no payouts (`Webhooks`); customers do not choose
the keys of runs (`Transfers`).

No theorem has hypotheses besides these.

*Only model-checked.* Every safety invariant and action property of the passing runs is stated by a theorem. Liveness rests on fairness and is out of the prover's
reach, and so is ENABLED: `CallsReturn`, `ProcessingEnds`, `ExecutedIsBooked`, `ClaimsEnd`,
`DueIsRun`, `CollectedIsSettled`, `ReserveIsReleased`, `OutcomeIsReported`,
`OutcomeIsReconciled`, `BillsCatchUp`, `SwitchTakesEffect` and `ChecksReturn`.
`ActiveHoldIsCapturable` and `CancelledNeverMoves` are violated, and `GateHolds` once an instance restarts (`ext_blocked`).
The type invariants `TxTypeOK`, `PayTypeOK`, `SchedulerTypeOK`, `CoolingOffTypeOK` and `CardsTypeOK` are
parts of the invariants above; `TransfersTypeOK` adds the counters of the bounds.

## What the models show about the code

Findings, each a run with a counterexample:

1. *Capture counts the hold twice* (`ledger_capture`): `CaptureHold` debits while
   the hold is active. A hold above half of the available balance can never be
   captured. In external payments the rail has executed by then and every retry
   fails the same way.
2. *A blocked transfer settles* (`ext_blocked`): the decision is recorded before
   it is applied, and a row with a decision skips the gate.
3. *A cancelled transfer is executed* (`transfers_cancelled`).

Behaviours the models have, without a run of their own:

- A run that moved the money is recorded as failed (`FailedRunMovedNothing`, violated):
  `payments.Transfer` checks the daily limit (payments.go:64, 140) before the ledger's
  idempotency layer can replay. The retry of a run whose transfer committed before a crash
  counts that transfer against the limit, gets `ErrLimitExceeded` and is finalized as failed
  (scheduler.go:162, 177); the package comment (scheduler.go:11-14) promises a replay.
- Charges of two merchants share a transfer (`RecordsOwnTransfer`, violated): charges and
  payouts are unique per merchant and key (charges.go:98, payouts.go:84), their transfers per key in
  the whole bank, and `send` answers a key it knows with the row it has. With two merchants who ask
  for a charge under one key TLC finds the second completed with nothing collected for it.
- A declined purchase is charged (`RefusedIsNotCharged`, violated): `Complete3DS` reads the
  status once (authorize.go:269) and updates unconditionally (:283, :299, :309). A wrong code
  submitted beside the right one writes "declined" over a purchase that has been
  approved and settled; it can then be neither voided nor charged back.
- Two concurrent sends with one key both pass the lookup (externalpayments.go:120) and
  both place a hold; the loser's row is refused and its hold is never released. `HoldsBelongToTransfers`
  and its theorem name these holds, `orphans`, as the only ones left behind; without that exception TLC finds it
  violated with two handlers, or with one and a lost request.
- A restart between `ReleaseHold` and the update to `failed` (process.go:173, 177)
  leaves the row in processing for ever: each retry gets `ErrHoldNotActive`.
  `coolingoff/release.go:66` tolerates that error; `process.go` does not.
- The rails' cache is memory: after a restart, or on another instance, a payment is executed
  again (`ExecutedOncePerProcess` bounds how often).
- The UPDATE that unclaims a held row (process.go:118) can turn a row another
  actor has failed or completed back to pending, on one instance as well: the ticker
  marks a row held, an investigator blocks it and fails it, the ticker unclaims it. The
  money stays where it is (`KeepsPromise`), and whoever waits for the outcome has seen one that
  is gone.
- Outcomes are written over in every direction: process.go:178 and :210 and risk.go:247 update by id, so a slow
  instance or a `Block` racing an `Approve` turns completed into failed or failed into completed. A line matched on
  the first outcome, or a break raised on it, then disagrees with its transfer, and a webhook has reported what
  is no longer so: reconciliation does not return to a line that is matched or broken, and `NotifyTerminal` not to a source
  with an event. `OutcomeIsReported` and `OutcomeIsReconciled` ask no more than that.
- With two instances an inbound transfer can be failed by an investigator while a slow
  instance credits it.
- An investigator's `Block` racing an `Approve` can release the hold after the
  rail has executed; the capture is then refused.
- `GetBalance` reads entries and holds in two statements and can report a balance
  that never existed.
- The daily limit: money held for cooling-off is counted neither when it is
  reserved nor when it is released, so two sends, each within the limit, exceed it.
- A retry of a held send with its key places a second hold, then fails on the
  UNIQUE key; the hold stays (coolingoff.go:198, 208). If the payee has become known in
  between, the retry moves the money at once, before the window of the first ends.
- Between the release of a matured hold and its transfer another debit can take
  the money; the row is then retried until there are funds again.
- With two instances, a run resolved while its claimer is still at it is finalized
  twice: the later UPDATE sets `next_run_at` back to an occurrence that has a run,
  which no firing ever moves on from.
- Concurrent authorizations, or several that wait for 3-D Secure, can exceed a card's
  daily limit: `approvedTodaySum` counts neither those under way nor those waiting.
- Two authorizations with one key, or two completions of one challenge, place two
  holds; the row remembers one, the other stays. A call lost between `ReleaseHold` and
  the UPDATE of `Void` leaves an approved row with a released hold for good.
- A settlement retried late writes "settled" over "charged_back".
- `disputes.Advance` validates before its transaction and updates unconditionally:
  two investigators can close a case twice, differently (`ClosedStaysClosed` of `Disputes`
  states what the package comment says, and TLC finds it violated).
- A cycle is committed before its payout is created (cycles.go:121, 130). After a crash, or
  when the hold is refused because the API has paid the money out first, the charges are settled
  and no tick looks at the cycle again (`CycleIsPaid`). A settlement or reserve payout
  that the rail rejects is not retried either: the key finds its row.
- Where the fees of the eligible charges exceed their sum, the CHECK on `net_minor` refuses the cycle on every
  tick and none of them is settled until other charges outweigh them (cycles.go:95, 107). The run's fees are below its
  charges.
- A settlement payout of more than half of the balance is never captured, by finding 1.
- A payout that uses a charge's key gets that charge's transfer, as in finding 4, and a retry
  of a lost `Create` with another amount records that amount over the transfer of the first.
- Two fee rules of equal specificity, or a rule changed between posting and recording a
  fee, make the retry ask for another amount under the same key: refused on every tick,
  and the charge is never settled. The same happens while the account cannot pay the fee.
- A charge in sandbox mode credits the merchant's account like a live one and pays
  fees; it is only left out of settlement.
- A delivery that one instance has seen succeed can be overwritten with "failed", or
  sent again, by another whose claim overlapped: twenty sends of up to five seconds outlast the
  lease of a minute. Two instances enqueue one outcome's event once each.
- The mirrored statement never reports zero, so every failed transfer becomes an
  `unexpected_settlement` break; two instances that read the same line both raise its break.
- Two concurrent payments of one bill key: the loser gets the UNIQUE key's error instead
  of the first payment that payment.go:16-20 promises, and its hold stays. An occurrence
  whose process stops between the transfer and the row of `bill_payments` is finished by the
  retry under the same key, unless another instance has advanced the schedule: then the
  transfer has no bill payment. "Will retry next cycle" is the next occurrence, not this one.
- A snapshot is two reads: between them an operator may set read-only and lift a
  switch, and the mix admits what was forbidden before and after. It is
  stamped after the reads, so it may be older than the ttl by their duration.
- `Complete` fails half way when a listed session logs out meanwhile; the password is changed, the retry
  works. Of two at once both set their password, and the one told `ErrNotEligible` may be
  the one that lasts. A login that checked the old password before the change and inserts its
  session after the listing is not revoked.
- `Rotate` of a revoked key, or of one rotated at the same time, returns an error and
  leaves an active key whose raw value nobody has. A call lost after the old key is
  revoked leaves only such a key.
- `ConfirmTOTP` that races `EnrollTOTP` confirms the secret enrolled in between,
  which no code has proved (mfa.go:56-73; read from the code, not modelled).

## Not modelled, and why

Onboarding, identity, KYC and compliance are one transaction each over
deterministic stubs. HTTP decoding, configuration, secrets, hashing, TOTP, audit and
observability have no state machine of their own. MFA challenges are one transaction
under a row lock, devices, consent, card tokens and checkout sessions single statements on
rows nothing else relates to (a checkout session is never completed by this code). The
regulatory reports are rows of a window of time that nothing reads
back. `SendToRecipientEmail` resolves an address and calls `Transfer`. Several currencies:
entries of a transaction share one. `CreateBatch` is a sequence of sends, `advance`
one clock unit, the row limits of the claims never reached.

## Plan

What is left:

- *Hazards without a property*: the sum of today's transfers (payments.go:140) and of
  today's card approvals (authorize.go:107) are read before the operation they limit. Payments and Cards
  have to carry the day's rows with their times before a bound on the sum can be stated. Others have a
  property that the code violates and no run: `RecordsOwnTransfer`, `CycleIsPaid`, `ClosedStaysClosed`,
  `FailedRunMovedNothing` and `RefusedIsNotCharged`.
- *Liveness* stays with TLC.
