--------------------------- MODULE ExternalPayments ---------------------------
(***************************************************************************)
(* internal/externalpayments, internal/rails and internal/risk over the    *)
(* Ledger: transfers that leave or enter the bank through a simulated      *)
(* rail.  HTTP handlers insert rows; on each server instance one ticker    *)
(* goroutine claims rows, has them assessed, calls the rail and books the  *)
(* result; investigators approve or block what the assessment held.        *)
(*                                                                         *)
(* Every action is one SQL statement, one ledger call or one rail call.    *)
(* Between two of them other actors run, a call fails or an instance is    *)
(* restarted.  Ledger calls are atomic (LedgerTx), and a refused one is a  *)
(* step that leaves the ledger as it is.  stuckTimeout is not measured: a  *)
(* row in "processing" may have been there for two minutes at any time.    *)
(***************************************************************************)
EXTENDS Ledger, FiniteSets

CONSTANTS
    Handler,          \* HTTP handlers that call SendOutbound and SendInbound
    Instance,         \* server instances, each with its ticker goroutine and rails
    Investigator,     \* callers of risk.Approve and risk.Block
    TransferRequest,  \* what the handlers are asked for
    Decisions,        \* decisions the rules of risk.evaluate come to
    OtherKey,         \* keys other features post to the ledger with
    ClaimBatch,       \* claimBatchSize
    MaxFailures,      \* bound on lost requests and failed statements
    MaxRestarts       \* bound on restarts of an instance

\* ref is the counterparty reference; RAILFAIL in it makes the rail reject.
Outbound(key, account, amount, ref) ==
    [direction |-> "outbound", key |-> key, account |-> account, amount |-> amount, ref |-> ref]
Inbound(key, account, amount, ref) ==
    [direction |-> "inbound", key |-> key, account |-> account, amount |-> amount, ref |-> ref]

ASSUME RequestAssumption ==
    TransferRequest \subseteq [direction : {"outbound", "inbound"}, key : Key, account : Account,
                               amount : Amount, ref : {"good", "RAILFAIL"}]
ASSUME DecisionsAssumption == Decisions \subseteq {"allow", "hold", "block"}
ASSUME OtherKeyAssumption == OtherKey \subseteq Key
\* Handlers, instances and investigators are goroutines of different kinds.
ASSUME ActorAssumption ==
    /\ Handler \cap (Instance \cup Investigator) = {} /\ Instance \cap Investigator = {}
    /\ IsFiniteSet(Instance)
ASSUME BoundsAssumption == ClaimBatch \in Nat \ {0} /\ MaxFailures \in Nat /\ MaxRestarts \in Nat

VARIABLES
    transfers,    \* external_transfers: key -> row (idempotency_key is UNIQUE)
    assessments,  \* risk_assessments: key -> decision
    approved,     \* keys an investigator has approved (history)
    step,         \* the statement each actor is about to execute
    asked,        \* the request a handler serves and the hold it has placed
    row,          \* the key of the row an instance or investigator works on
    queue,        \* rows an instance has claimed and not started on
    answered,     \* the rail cache of each instance: keys it has a result for
    sent,         \* how often the rails have executed the payment of a key (history)
    failures,     \* lost requests and failed statements so far
    restarts,     \* restarts so far
    interrupted,  \* keys whose decision was not carried out at once, or by two instances (history)
    orphans       \* holds that got no row (history)

history == <<interrupted, orphans>>
payVars == <<transfers, assessments, approved, step, asked, row, queue, answered, sent, failures, restarts, history>>
allVars == <<vars, payVars>>

Actor == Handler \cup Instance \cup Investigator
NoTransfer == [status |-> "absent"]
NoRequest == [request |-> [key |-> "none"], hold |-> "none"]

PayInit ==
    /\ Init
    /\ transfers = [k \in Key |-> NoTransfer]
    /\ assessments = [k \in Key |-> "none"]
    /\ approved = {}
    /\ step = [x \in Actor |-> "idle"]
    /\ asked = [c \in Handler |-> NoRequest]
    /\ row = [x \in Instance \cup Investigator |-> "none"]
    /\ queue = [i \in Instance |-> {}]
    /\ answered = [i \in Instance |-> {}]
    /\ sent = [k \in Key |-> 0]
    /\ failures = 0 /\ restarts = 0
    /\ interrupted = {} /\ orphans = {}

-----------------------------------------------------------------------------
(***************************************************************************)
(* Steps of an actor.                                                      *)
(***************************************************************************)
Goto(x, next) == step' = [step EXCEPT ![x] = next]

\* What the row an instance or investigator works on says.
Row(x) == transfers[row[x]]
Wanted(x) == Row(x).request
IsOutbound(x) == Wanted(x).direction = "outbound"

\* The row is done with, or given up after an error that is logged: an
\* instance takes the next one of its batch.
Done(x) ==
    /\ row' = [row EXCEPT ![x] = "none"]
    /\ Goto(x, IF x \in Instance /\ queue[x] # {} THEN "next" ELSE "idle")

\* UPDATE external_transfers SET ... WHERE id = the row: no condition on what
\* the row says by then.
Update(x, status, risk) ==
    transfers' = [transfers EXCEPT ![row[x]].status = status, ![row[x]].risk = risk]

\* Mutant: a hold that is not active any more is taken for one released before.
ReleaseOrSkip(x, next) ==
    \/ ReleaseHold(Row(x).hold) /\ Goto(x, next) /\ UNCHANGED row
    \/ holds[Row(x).hold].status # "active" /\ Goto(x, next) /\ UNCHANGED <<row, vars>>

\* ReleaseHold of the row's hold: an error leaves the row as it is.
ReleaseRowHold(x, next) ==
    \/ ReleaseHold(Row(x).hold) /\ Goto(x, next) /\ UNCHANGED row
    \/ holds[Row(x).hold].status # "active" /\ Done(x) /\ UNCHANGED vars

-----------------------------------------------------------------------------
(***************************************************************************)
(* send: lookup, hold, insert.  A key that has a row is answered with it.  *)
(***************************************************************************)
LookUpKey(c, request) ==
    /\ step[c] = "idle"
    /\ transfers[request.key] = NoTransfer
    /\ asked' = [asked EXCEPT ![c].request = request]
    /\ Goto(c, IF request.direction = "outbound" THEN "place" ELSE "insert")
    /\ UNCHANGED <<vars, transfers, assessments, approved, row, queue, answered, sent, failures, restarts, history>>

ReserveAmount(c) ==
    LET request == asked[c].request
    IN  /\ step[c] = "place"
        /\ \/ /\ \E h \in HoldId :
                   PlaceHold(h, request.account, request.amount) /\ asked' = [asked EXCEPT ![c].hold = h]
              /\ Goto(c, "insert")
           \/ /\ \/ ~Exists(request.account)
                 \/ Available(request.account) - request.amount < -accounts[request.account].overdraft
              /\ Goto(c, "idle") /\ asked' = [asked EXCEPT ![c] = NoRequest]
              /\ UNCHANGED vars
        /\ UNCHANGED <<transfers, assessments, approved, row, queue, answered, sent, failures, restarts, history>>

\* The INSERT fails on a key that has a row by now, or on an unknown account: the
\* hold stays.
HoldAsked(c) == {asked[c].hold} \cap HoldId

InsertRow(c) ==
    LET request == asked[c].request
    IN  /\ step[c] = "insert"
        /\ transfers' = IF transfers[request.key] = NoTransfer /\ Exists(request.account)
                        THEN [transfers EXCEPT ![request.key] =
                                [status |-> "pending", risk |-> "clear", request |-> request, hold |-> asked[c].hold]]
                        ELSE transfers
        /\ orphans' = IF transfers' = transfers THEN orphans \cup HoldAsked(c) ELSE orphans
        /\ Goto(c, "idle")
        /\ asked' = [asked EXCEPT ![c] = NoRequest]
        /\ UNCHANGED <<vars, assessments, approved, row, queue, answered, sent, failures, restarts, interrupted>>

-----------------------------------------------------------------------------
(***************************************************************************)
(* ProcessPending and ResolveStuck: one UPDATE claims a batch, FOR UPDATE  *)
(* SKIP LOCKED.  The rows of the batch come back in no particular order.   *)
(***************************************************************************)
\* Mutants: the claim forgets the risk_status, the resolver's claim finds nothing.
PendingAtAnyRisk == {k \in Key : transfers[k].status = "pending"}
NothingStuck == {}

Pending == {k \in Key : transfers[k].status = "pending" /\ transfers[k].risk = "clear"}
Processing == {k \in Key : transfers[k].status = "processing"}

WorksOn(i, k) == k \in queue[i] \/ (row[i] = k /\ step[i] \notin {"idle", "next"})

Claim(i, batch) ==
    /\ step[i] = "idle"
    /\ batch # {} /\ Cardinality(batch) <= ClaimBatch
    /\ batch \subseteq Pending \/ batch \subseteq Processing
    /\ transfers' = [k \in Key |-> IF k \in batch THEN [transfers[k] EXCEPT !.status = "processing"] ELSE transfers[k]]
    /\ queue' = [queue EXCEPT ![i] = batch]
    /\ interrupted' = interrupted \cup {k \in batch : \E j \in Instance : WorksOn(j, k)}
    /\ Goto(i, "next")
    /\ UNCHANGED <<vars, assessments, approved, asked, row, answered, sent, failures, restarts, orphans>>

TakeRow(i) ==
    /\ step[i] = "next"
    /\ \E k \in queue[i] : row' = [row EXCEPT ![i] = k] /\ queue' = [queue EXCEPT ![i] = @ \ {k}]
    /\ Goto(i, "assessed")
    /\ UNCHANGED <<vars, transfers, assessments, approved, asked, answered, sent, failures, restarts, history>>

-----------------------------------------------------------------------------
(***************************************************************************)
(* processRow and risk.Assess.                                             *)
(***************************************************************************)
\* A row that has an assessment has been cleared by an investigator since, or
\* so processRow takes it.
ReadAssessed(i) ==
    /\ step[i] = "assessed"
    /\ Goto(i, IF assessments[row[i]] = "none" THEN "existing" ELSE "rail")
    /\ UNCHANGED <<vars, transfers, assessments, approved, asked, row, queue, answered, sent, failures, restarts, history>>

\* Assess looks for an existing assessment itself, and returns it unapplied.
ReadExisting(i) ==
    /\ step[i] = "existing"
    /\ LET decision == assessments[row[i]]
       IN  \/ decision = "none" /\ Goto(i, "record") /\ UNCHANGED row
           \/ decision = "allow" /\ Goto(i, "rail") /\ UNCHANGED row
           \/ decision = "hold" /\ Goto(i, "unclaim") /\ UNCHANGED row
           \/ decision = "block" /\ Done(i)
    /\ UNCHANGED <<vars, transfers, assessments, approved, asked, queue, answered, sent, failures, restarts, history>>

\* Where a fresh decision is carried out.
Apply(i, decision) ==
    CASE decision = "allow" -> "rail"
      [] decision = "hold" -> "markHeld"
      [] decision = "block" -> IF IsOutbound(i) THEN "releaseBlocked" ELSE "markBlocked"

\* evaluate reads the reference, the amount and the account's recent transfers
\* and changes nothing; the INSERT fails when another caller was first.
RecordAssessment(i) ==
    /\ step[i] = "record"
    /\ IF assessments[row[i]] = "none"
       THEN \E decision \in Decisions :
              /\ assessments' = [assessments EXCEPT ![row[i]] = decision]
              /\ Goto(i, Apply(i, decision))
              /\ UNCHANGED row
       ELSE Done(i) /\ UNCHANGED assessments
    /\ UNCHANGED <<vars, transfers, approved, asked, queue, answered, sent, failures, restarts, history>>

MarkHeld(i) ==
    /\ step[i] = "markHeld"
    /\ Update(i, Row(i).status, "held")
    /\ Goto(i, "unclaim")
    /\ UNCHANGED <<vars, assessments, approved, asked, row, queue, answered, sent, failures, restarts, history>>

RevertToPending(i) ==
    /\ step[i] = "unclaim"
    /\ Update(i, "pending", Row(i).risk)
    /\ Done(i)
    /\ UNCHANGED <<vars, assessments, approved, asked, queue, answered, sent, failures, restarts, history>>

\* failAndRelease, for Assess and for an investigator's Block.
ReleaseBlocked(x) ==
    /\ step[x] = "releaseBlocked"
    /\ ReleaseRowHold(x, "markBlocked")
    /\ UNCHANGED <<transfers, assessments, approved, asked, queue, answered, sent, failures, restarts, history>>

MarkBlocked(x) ==
    /\ step[x] = "markBlocked"
    /\ Update(x, "failed", "blocked")
    /\ Done(x)
    /\ UNCHANGED <<vars, assessments, approved, asked, queue, answered, sent, failures, restarts, history>>

Approve(x, k) ==
    /\ step[x] = "idle"
    /\ transfers[k].status # "absent" /\ transfers[k].risk = "held"
    /\ transfers' = [transfers EXCEPT ![k].risk = "clear"]
    /\ approved' = approved \cup {k}
    /\ UNCHANGED <<vars, assessments, step, asked, row, queue, answered, sent, failures, restarts, history>>

Block(x, k) ==
    /\ step[x] = "idle"
    /\ transfers[k].status # "absent" /\ transfers[k].risk = "held"
    /\ row' = [row EXCEPT ![x] = k]
    /\ Goto(x, IF transfers[k].request.direction = "outbound" THEN "releaseBlocked" ELSE "markBlocked")
    /\ UNCHANGED <<vars, transfers, assessments, approved, asked, queue, answered, sent, failures, restarts, history>>

-----------------------------------------------------------------------------
(***************************************************************************)
(* finalize: the rail, the ledger, the row.                                *)
(***************************************************************************)
\* Mutants of the rail call: nothing is cached; a success is not settled; a
\* rejection does not release the hold.
CallRailUncached(i) ==
    /\ step[i] = "rail"
    /\ sent' = [sent EXCEPT ![row[i]] = @ + 1]
    /\ Goto(i, IF Wanted(i).ref = "good" THEN "settle"
               ELSE IF IsOutbound(i) THEN "releaseRejected" ELSE "markFailed")
    /\ UNCHANGED <<vars, transfers, assessments, approved, asked, row, queue, answered, failures, restarts, history>>

CallRailThenComplete(i) ==
    /\ step[i] = "rail"
    /\ answered' = [answered EXCEPT ![i] = @ \cup {row[i]}]
    /\ sent' = IF row[i] \in answered[i] THEN sent ELSE [sent EXCEPT ![row[i]] = @ + 1]
    /\ Goto(i, IF Wanted(i).ref = "good" THEN "markCompleted" ELSE "markFailed")
    /\ UNCHANGED <<vars, transfers, assessments, approved, asked, row, queue, failures, restarts, history>>

\* The rail answers from its cache, or executes the payment.
CallRail(i) ==
    /\ step[i] = "rail"
    /\ answered' = [answered EXCEPT ![i] = @ \cup {row[i]}]
    /\ sent' = IF row[i] \in answered[i] THEN sent ELSE [sent EXCEPT ![row[i]] = @ + 1]
    /\ Goto(i, IF Wanted(i).ref = "good" THEN "settle"
               ELSE IF IsOutbound(i) THEN "releaseRejected" ELSE "markFailed")
    /\ UNCHANGED <<vars, transfers, assessments, approved, asked, row, queue, failures, restarts, history>>

\* No answer: the row is left in "processing".
RailTimesOut(i) ==
    /\ step[i] = "rail"
    /\ row[i] \notin answered[i]
    /\ Done(i)
    /\ UNCHANGED <<vars, transfers, assessments, approved, asked, queue, answered, sent, failures, restarts, history>>

ReleaseRejected(i) ==
    /\ step[i] = "releaseRejected"
    /\ ReleaseRowHold(i, "markFailed")
    /\ UNCHANGED <<transfers, assessments, approved, asked, queue, answered, sent, failures, restarts, history>>

MarkFailed(i) ==
    /\ step[i] = "markFailed"
    /\ Update(i, "failed", Row(i).risk)
    /\ Done(i)
    /\ UNCHANGED <<vars, assessments, approved, asked, queue, answered, sent, failures, restarts, history>>

\* The posting that settles the row of key k, and the request it is stored with.
SettlingLegs(k) ==
    LET request == transfers[k].request
    IN  IF request.direction = "outbound" THEN DebitLegs(request.account, request.amount)
                                          ELSE CreditLegs(request.account, request.amount)
SettlingRequest(k) ==
    IF transfers[k].request.direction = "outbound" THEN CaptureRequest(transfers[k].hold)
                                                   ELSE LegsRequest("credit", SettlingLegs(k))

\* Mutant: an error of the ledger is taken for a replay.
SettleOrAssume(i) ==
    /\ step[i] = "settle"
    /\ \/ IsOutbound(i) /\ CaptureHold(Row(i).hold, row[i])
       \/ ~IsOutbound(i) /\ Credit(Wanted(i).account, Wanted(i).amount, row[i])
       \/ ~CanInsert(SettlingLegs(row[i])) /\ UNCHANGED vars
       \/ ~Unused(row[i]) /\ UNCHANGED vars
    /\ Goto(i, "markCompleted")
    /\ UNCHANGED <<transfers, assessments, approved, asked, row, queue, answered, sent, failures, restarts, history>>

\* CaptureHold or Credit under the row's key: executed, replayed when the key
\* has been used for this very request, else refused.
Settle(i) ==
    LET k == row[i]
        h == Row(i).hold
        request == Wanted(i)
    IN  /\ step[i] = "settle"
        /\ \/ /\ \/ IsOutbound(i) /\ CaptureHold(h, k)
                 \/ ~IsOutbound(i) /\ Credit(request.account, request.amount, k)
                 \/ ~Unused(k) /\ txns[k].request = SettlingRequest(k) /\ UNCHANGED vars
              /\ Goto(i, "markCompleted") /\ UNCHANGED row
           \/ /\ \/ ~Unused(k) /\ txns[k].request # SettlingRequest(k)
                 \/ Unused(k) /\ IsOutbound(i) /\ holds[h].status # "active"
                 \/ Unused(k) /\ ~CanInsert(SettlingLegs(k))
              /\ Done(i) /\ UNCHANGED vars
        /\ UNCHANGED <<transfers, assessments, approved, asked, queue, answered, sent, failures, restarts, history>>

MarkCompleted(i) ==
    /\ step[i] = "markCompleted"
    /\ Update(i, "completed", Row(i).risk)
    /\ Done(i)
    /\ UNCHANGED <<vars, assessments, approved, asked, queue, answered, sent, failures, restarts, history>>

-----------------------------------------------------------------------------
(***************************************************************************)
(* Failures, and the rest of the bank.                                     *)
(***************************************************************************)
\* What is left undone when an actor stops: a decision that is recorded is not
\* carried out.
Interrupt(x) ==
    interrupted' = IF x \in Instance /\ step[x] \in {"markHeld", "unclaim", "releaseBlocked", "markBlocked"}
                   THEN interrupted \cup {row[x]} ELSE interrupted

\* A restart loses the batch and, with the process's memory, the rail cache.
Restart(i) ==
    /\ restarts < MaxRestarts
    /\ restarts' = restarts + 1
    /\ step' = [step EXCEPT ![i] = "idle"]
    /\ row' = [row EXCEPT ![i] = "none"]
    /\ queue' = [queue EXCEPT ![i] = {}]
    /\ answered' = [answered EXCEPT ![i] = {}]
    /\ Interrupt(i)
    /\ UNCHANGED <<vars, transfers, assessments, approved, asked, sent, failures, orphans>>

\* A statement fails or its request is cancelled.
LoseRequest(c) ==
    /\ step[c] # "idle"
    /\ failures < MaxFailures
    /\ failures' = failures + 1
    /\ Goto(c, "idle")
    /\ asked' = [asked EXCEPT ![c] = NoRequest]
    /\ orphans' = orphans \cup HoldAsked(c)
    /\ UNCHANGED <<vars, transfers, assessments, approved, row, queue, answered, sent, restarts, interrupted>>

FailStatement(x) ==
    /\ step[x] \notin {"idle", "next"}
    /\ failures < MaxFailures
    /\ failures' = failures + 1
    /\ Done(x)
    /\ Interrupt(x)
    /\ UNCHANGED <<vars, transfers, assessments, approved, asked, queue, answered, sent, restarts, orphans>>

OpenAnAccount ==
    /\ \E a \in Account, o \in Overdraft : OpenAccount(a, o)
    /\ UNCHANGED payVars

PostElsewhere ==
    /\ \E a \in Account, x \in Amount, k \in OtherKey : Debit(a, x, k)
    /\ UNCHANGED payVars

HandlerStep(c) ==
    \/ \E request \in TransferRequest : LookUpKey(c, request)
    \/ ReserveAmount(c) \/ InsertRow(c)

RowStep(i) ==
    \/ TakeRow(i) \/ ReadAssessed(i) \/ ReadExisting(i) \/ RecordAssessment(i)
    \/ MarkHeld(i) \/ RevertToPending(i) \/ ReleaseBlocked(i) \/ MarkBlocked(i)
    \/ CallRail(i) \/ ReleaseRejected(i) \/ MarkFailed(i) \/ Settle(i) \/ MarkCompleted(i)

InvestigatorStep(x) ==
    \/ \E k \in Key : Approve(x, k) \/ Block(x, k)
    \/ ReleaseBlocked(x) \/ MarkBlocked(x)

PayNext ==
    \/ \E c \in Handler : HandlerStep(c) \/ LoseRequest(c)
    \/ \E i \in Instance : \/ \E batch \in SUBSET Key : Claim(i, batch)
                           \/ RowStep(i) \/ RailTimesOut(i) \/ Restart(i)
    \/ \E x \in Investigator : InvestigatorStep(x)
    \/ \E x \in Instance \cup Investigator : FailStatement(x)
    \/ OpenAnAccount \/ PostElsewhere

\* The tickers keep firing, the oldest rows are claimed first, and a rail that
\* is called again and again for a row answers in the end.
Fairness ==
    \A i \in Instance :
        /\ WF_allVars(RowStep(i))
        /\ \A k \in Key : /\ SF_allVars(\E batch \in SUBSET Key : k \in batch /\ Claim(i, batch))
                          /\ SF_allVars(CallRail(i) /\ row[i] = k)

PaySpec == PayInit /\ [][PayNext]_allVars /\ Fairness

-----------------------------------------------------------------------------
(***************************************************************************)
(* Properties.                                                             *)
(***************************************************************************)
TransferRow == [status : {"pending", "processing", "completed", "failed"},
                risk : {"clear", "held", "blocked"},
                request : TransferRequest,
                hold : HoldId \cup {"none"}]

Steps == {"idle", "place", "insert", "next", "assessed", "existing", "record", "markHeld", "unclaim",
          "releaseBlocked", "markBlocked", "rail", "releaseRejected", "markFailed", "settle", "markCompleted"}

PayTypeOK ==
    /\ TypeOK
    /\ transfers \in [Key -> TransferRow \cup {NoTransfer}]
    /\ assessments \in [Key -> {"none", "allow", "hold", "block"}]
    /\ approved \subseteq Key
    /\ step \in [Actor -> Steps]
    /\ asked \in [Handler -> [request : TransferRequest \cup {NoRequest.request}, hold : HoldId \cup {"none"}]]
    /\ row \in [Instance \cup Investigator -> Key \cup {"none"}]
    /\ queue \in [Instance -> SUBSET Key] /\ answered \in [Instance -> SUBSET Key]
    /\ sent \in [Key -> Nat] /\ failures \in 0..MaxFailures /\ restarts \in 0..MaxRestarts
    /\ interrupted \subseteq Key /\ orphans \subseteq HoldId

Settled(k) == ~Unused(k) /\ txns[k].request = SettlingRequest(k)

\* A completed transfer has moved its money: the hold is captured, or the
\* account credited, by the one ledger transaction under the row's key.  A key
\* that another feature has used, a replay, a second instance finalizing the
\* same row or a restart never makes finalize record a success the ledger does
\* not have (process.go finalize: "records a definitive outcome").
CompletedIsSettled ==
    \A k \in Key : transfers[k].status = "completed" => Settled(k)

PassedTheGate(k) == assessments[k] = "allow" \/ (assessments[k] = "hold" /\ k \in approved)

\* The gate: no money moves for a transfer whose assessment blocked it, and
\* for a held one only after an investigator has approved it (processRow: "a
\* blocked transfer has already been marked 'failed' by Assess itself").
GateHolds == \A k \in Key : transfers[k].status # "absent" /\ Settled(k) => PassedTheGate(k)

\* Whatever restarts, fails or overtakes, only these get through: a transfer whose
\* refusal was cut off between its record and the row (risk.go Assess), and one
\* that a second instance took over from the first.  Time-outs, retries of a row
\* that nobody works on and investigators open no way.
OnlyInterruptedPassTheGate ==
    \A k \in Key :
        transfers[k].status # "absent" /\ Settled(k) => PassedTheGate(k) \/ k \in interrupted

\* An active hold is the hold of a transfer that is still under way, or of a
\* handler about to insert one (SendOutbound: "retrying with the same
\* idempotencyKey returns the original row rather than placing a second hold"),
\* unless that very send was refused its row or lost before the INSERT: nothing
\* else leaves a hold behind, however the transfer ends.
HoldsBelongToTransfers ==
    \A h \in HoldId : holds[h].status = "active" =>
        \/ \E c \in Handler : asked[c].hold = h
        \/ \E k \in Key : transfers[k].status \in {"pending", "processing"} /\ transfers[k].hold = h
        \/ h \in orphans

\* A claimed transfer reaches a definitive outcome (ResolveStuck: rows stuck
\* in processing "are retried to a definitive outcome"): it completes, fails,
\* or goes back to wait for an investigator.
ProcessingEnds ==
    \A k \in Key : transfers[k].status = "processing" ~>
        \/ transfers[k].status \in {"completed", "failed"}
        \/ transfers[k].status = "pending" /\ transfers[k].risk # "clear"

\* What the rail has executed is booked: the debit or credit is posted.
ExecutedIsBooked ==
    \A k \in Key : (sent[k] > 0 /\ transfers[k].request.ref = "good") ~> Settled(k)

\* A process's rails execute a payment once, however often they are called with
\* the same client reference (rails.go: SimulatedRail "replays the cached result
\* for a repeated ClientReference instead of re-executing"): a second execution
\* takes another instance or a restart, whose cache starts empty.
ExecutedOncePerProcess == \A k \in Key : sent[k] <= Cardinality(Instance) + restarts

-----------------------------------------------------------------------------
(***************************************************************************)
(* The abstract specification of an outbound transfer.                     *)
(***************************************************************************)
IsOutboundRow(k) == transfers[k].status # "absent" /\ transfers[k].request.direction = "outbound"

MoneyOf(k) ==
    IF ~IsOutboundRow(k) THEN "none"
    ELSE IF Settled(k) THEN "moved"
    ELSE IF holds[transfers[k].hold].status = "active" THEN "reserved" ELSE "returned"

OutcomeOf(k) ==
    IF ~IsOutboundRow(k) THEN "absent"
    ELSE IF transfers[k].status = "processing" THEN "pending" ELSE transfers[k].status

Promise == INSTANCE PaymentPromise WITH
    Payment <- Key,
    money <- [k \in Key |-> MoneyOf(k)],
    outcome <- [k \in Key |-> OutcomeOf(k)]

\* Whatever is lost, restarted or done twice, and whoever decides about an
\* outbound transfer meanwhile (the rail, Assess, an investigator, two instances
\* at once), the customer's money leaves or comes back once, and a row says
\* "completed" or "failed" only after it has.
KeepsPromise == Promise!PromiseSpec
=============================================================================
