----------------------------- MODULE CoolingOff -----------------------------
(***************************************************************************)
(* internal/coolingoff: peer-to-peer transfers that look risky are held    *)
(* back for a while, in which the sender can cancel them.  Handlers send   *)
(* and cancel; on each server instance one goroutine (cmd/api/main.go      *)
(* runSafeguards) releases what has matured.  Every action is one          *)
(* statement or one ledger call.                                           *)
(***************************************************************************)
EXTENDS Payments, FiniteSets

CONSTANTS
    Handler,       \* HTTP handlers that call Send and Cancel
    SendRequest,   \* what they are asked to send
    LargeAmount,   \* largeAmountMinor
    Window,        \* coolingOffWindow
    ReleaseBatch   \* claimBatchSize

\* What payee.Check says of the typed name.
Payee == {"match", "close_match", "no_match"}

ASSUME SendRequestAssumption ==
    SendRequest \subseteq [from : Account, to : Account, amount : Amount, key : Key,
                           payee : Payee, confirmed : BOOLEAN]
ASSUME CoolingOffAssumption == LargeAmount \in Nat /\ Window \in Nat /\ ReleaseBatch \in Nat \ {0}

VARIABLES
    pendings,    \* cooling_off_transfers: idempotency key -> row
    sendStep,    \* the statement each handler is about to execute
    sending,     \* the request it serves and the hold it has placed, or the key it cancels
    relStep,     \* the statement each instance's safeguards goroutine is about to execute
    relQueue,    \* rows it has claimed and not started on
    relRow       \* the key of the row it works on

coolVars == <<pendings, sendStep, sending, relStep, relQueue, relRow>>
handlerVars == <<sendStep, sending>>
releaseVars == <<relStep, relQueue, relRow>>

NoPending == [status |-> "absent"]
NotSending == [request |-> [key |-> "none"], hold |-> "none"]

CoolingOffInit ==
    /\ pendings = [k \in Key |-> NoPending]
    /\ sendStep = [c \in Handler |-> "idle"]
    /\ sending = [c \in Handler |-> NotSending]
    /\ relStep = [i \in Instance |-> "idle"]
    /\ relQueue = [i \in Instance |-> {}]
    /\ relRow = [i \in Instance |-> "none"]

-----------------------------------------------------------------------------
(***************************************************************************)
(* Send.                                                                   *)
(***************************************************************************)
Continue(c, next) == sendStep' = [sendStep EXCEPT ![c] = next] /\ UNCHANGED sending
Answer(c) ==
    /\ sendStep' = [sendStep EXCEPT ![c] = "idle"]
    /\ sending' = [sending EXCEPT ![c] = NotSending]

\* The sender's and the recipient's open accounts are looked up and the typed
\* name is compared; the key is not looked up.
StartSend(c, request) ==
    /\ sendStep[c] = "idle"
    /\ accounts[request.from].state = "open" /\ accounts[request.to].state = "open"
    /\ request.payee = "no_match" => request.confirmed
    /\ sendStep' = [sendStep EXCEPT ![c] = "limits"]
    /\ sending' = [sending EXCEPT ![c].request = request]
    /\ UNCHANGED <<moneyVars, pendings, releaseVars>>

\* CheckLimits before the risk is weighed, and again, with the kill switch, in
\* payments.Transfer.
CheckSendLimits(c) ==
    LET r == sending[c].request
    IN  /\ \/ sendStep[c] = "limits" /\ WithinLimits(r.from, r.amount) /\ Continue(c, "history")
           \/ sendStep[c] = "limitsAgain" /\ WithinLimits(r.from, r.amount) /\ Continue(c, "transfer")
           \/ /\ \/ sendStep[c] \in {"limits", "limitsAgain"} /\ ~WithinLimits(r.from, r.amount)
                 \/ sendStep[c] = "limitsAgain" /\ FeatureDisabled
              /\ Answer(c)
        /\ UNCHANGED <<moneyVars, pendings, releaseVars>>

FirstTimePayee(from, to) ==
    ~\E k \in Key :
        /\ txns[k].state = "posted"
        /\ txns[k].type = "transfer"
        /\ {Leg(from, -x) : x \in Amount} \cap {txns[k].legs[1], txns[k].legs[2]} # {}
        /\ {Leg(to, x) : x \in Amount} \cap {txns[k].legs[1], txns[k].legs[2]} # {}

HighRisk(r) == r.payee # "match" \/ r.amount >= LargeAmount \/ FirstTimePayee(r.from, r.to)

WeighRisk(c) ==
    /\ sendStep[c] = "history"
    /\ Continue(c, IF HighRisk(sending[c].request) THEN "place" ELSE "limitsAgain")
    /\ UNCHANGED <<moneyVars, pendings, releaseVars>>

TransferNow(c) ==
    LET r == sending[c].request
    IN  /\ sendStep[c] = "transfer"
        /\ \/ Posts(r.from, r.to, r.amount, r.key)
           \/ Replays(r.from, r.to, r.amount, r.key)
           \/ Refuses(r.from, r.to, r.amount, r.key)
        /\ Answer(c)
        /\ UNCHANGED <<pendings, releaseVars>>

PlaceSendHold(c) ==
    LET r == sending[c].request
    IN  /\ sendStep[c] = "place"
        /\ \/ \E h \in HoldId :
                /\ PlaceHold(h, r.from, r.amount)
                /\ sending' = [sending EXCEPT ![c].hold = h]
                /\ sendStep' = [sendStep EXCEPT ![c] = "insert"]
           \/ /\ Available(r.from) - r.amount < -accounts[r.from].overdraft
              /\ Answer(c)
              /\ UNCHANGED vars
        /\ UNCHANGED <<now, sentToday, pendings, releaseVars>>

\* The INSERT fails on a key that has a row, and the hold stays.
RecordPending(c) ==
    LET r == sending[c].request
    IN  /\ sendStep[c] = "insert"
        /\ pendings' = IF pendings[r.key] # NoPending THEN pendings
                       ELSE [pendings EXCEPT ![r.key] =
                               [status |-> "pending", request |-> r, hold |-> sending[c].hold,
                                releaseAt |-> now + Window]]
        /\ Answer(c)
        /\ UNCHANGED <<moneyVars, releaseVars>>

-----------------------------------------------------------------------------
(***************************************************************************)
(* Cancel: the status is looked up, the hold released, the row marked.     *)
(***************************************************************************)
LookUpPending(c, k) ==
    /\ sendStep[c] = "idle"
    /\ pendings[k].status = "pending"
    /\ sendStep' = [sendStep EXCEPT ![c] = "cancelRelease"]
    /\ sending' = [sending EXCEPT ![c].request = pendings[k].request, ![c].hold = pendings[k].hold]
    /\ UNCHANGED <<moneyVars, pendings, releaseVars>>

ReleaseCancelled(c) ==
    /\ sendStep[c] = "cancelRelease"
    /\ \/ ReleaseHold(sending[c].hold) /\ Continue(c, "cancelMark")
       \/ holds[sending[c].hold].status # "active" /\ Answer(c) /\ UNCHANGED vars
    /\ UNCHANGED <<now, sentToday, pendings, releaseVars>>

MarkCancelled(c) ==
    /\ sendStep[c] = "cancelMark"
    /\ pendings' = [pendings EXCEPT ![sending[c].request.key].status = "cancelled"]
    /\ Answer(c)
    /\ UNCHANGED <<moneyVars, releaseVars>>

-----------------------------------------------------------------------------
(***************************************************************************)
(* ReleaseMatured: the rows a crash has left in "processing", whoever      *)
(* works on them, and the matured ones; both statements lock only while    *)
(* they run.                                                               *)
(***************************************************************************)
InProcessing == {k \in Key : pendings[k].status = "processing"}

Matured == {k \in Key : pendings[k].status = "pending" /\ pendings[k].releaseAt <= now}

NextRow(i, queue) ==
    /\ relQueue' = [relQueue EXCEPT ![i] = queue]
    /\ relRow' = [relRow EXCEPT ![i] = "none"]
    /\ relStep' = [relStep EXCEPT ![i] = IF queue = {} THEN "idle" ELSE "next"]

Proceed(i, next) ==
    /\ relStep' = [relStep EXCEPT ![i] = next]
    /\ UNCHANGED <<relQueue, relRow>>

ClaimStuck(i, batch) ==
    /\ relStep[i] = "idle"
    /\ InProcessing \cup Matured # {}
    /\ batch \subseteq InProcessing /\ Cardinality(batch) <= ReleaseBatch
    /\ relQueue' = [relQueue EXCEPT ![i] = batch]
    /\ relStep' = [relStep EXCEPT ![i] = "claimDue"]
    /\ UNCHANGED <<moneyVars, pendings, handlerVars, relRow>>

ClaimDue(i, batch) ==
    /\ relStep[i] = "claimDue"
    /\ batch \subseteq Matured /\ Cardinality(batch) <= ReleaseBatch
    /\ pendings' = [k \in Key |-> IF k \in batch THEN [pendings[k] EXCEPT !.status = "processing"]
                                                 ELSE pendings[k]]
    /\ NextRow(i, relQueue[i] \cup batch)
    /\ UNCHANGED <<moneyVars, handlerVars>>

TakeClaimed(i) ==
    /\ relStep[i] = "next"
    /\ \E k \in relQueue[i] : relRow' = [relRow EXCEPT ![i] = k] /\ relQueue' = [relQueue EXCEPT ![i] = @ \ {k}]
    /\ relStep' = [relStep EXCEPT ![i] = "release"]
    /\ UNCHANGED <<moneyVars, pendings, handlerVars>>

\* Mutants: the hold is kept; ErrHoldNotActive is not tolerated.
KeepMaturedHold(i) ==
    /\ relStep[i] = "release"
    /\ Proceed(i, "transfer")
    /\ UNCHANGED <<moneyVars, pendings, handlerVars>>

ReleaseMaturedHoldOnce(i) ==
    /\ relStep[i] = "release"
    /\ \/ ReleaseHold(pendings[relRow[i]].hold) /\ Proceed(i, "transfer")
       \/ /\ holds[pendings[relRow[i]].hold].status # "active"
          /\ NextRow(i, relQueue[i])
          /\ UNCHANGED vars
    /\ UNCHANGED <<now, sentToday, pendings, handlerVars>>

\* finalizeRelease: ErrHoldNotActive is tolerated, it is what a retry finds.
ReleaseMaturedHold(i) ==
    /\ relStep[i] = "release"
    /\ \/ ReleaseHold(pendings[relRow[i]].hold)
       \/ holds[pendings[relRow[i]].hold].status # "active" /\ UNCHANGED vars
    /\ Proceed(i, "transfer")
    /\ UNCHANGED <<now, sentToday, pendings, handlerVars>>

\* Straight to the ledger: the limits are not checked again.
Pay(i) ==
    LET r == pendings[relRow[i]].request
    IN  /\ relStep[i] = "transfer"
        /\ \/ /\ Posts(r.from, r.to, r.amount, r.key) \/ Replays(r.from, r.to, r.amount, r.key)
              /\ Proceed(i, "complete")
           \/ Refuses(r.from, r.to, r.amount, r.key) /\ NextRow(i, relQueue[i])
        /\ UNCHANGED <<pendings, handlerVars>>

MarkPaid(i) ==
    /\ relStep[i] = "complete"
    /\ pendings' = [pendings EXCEPT ![relRow[i]].status = "completed"]
    /\ NextRow(i, relQueue[i])
    /\ UNCHANGED <<moneyVars, handlerVars>>

-----------------------------------------------------------------------------
(***************************************************************************)
(* Failures: a handler's request is lost, a statement of the ticker fails. *)
(***************************************************************************)
LoseSend(c) ==
    /\ sendStep[c] # "idle"
    /\ Answer(c)
    /\ UNCHANGED <<moneyVars, pendings, releaseVars>>

FailRelease(i) ==
    /\ relStep[i] \in {"claimDue", "release", "transfer", "complete"}
    /\ NextRow(i, IF relStep[i] = "claimDue" THEN {} ELSE relQueue[i])
    /\ UNCHANGED <<moneyVars, pendings, handlerVars>>

StopRelease(i) ==
    /\ relStep' = [relStep EXCEPT ![i] = "idle"]
    /\ relQueue' = [relQueue EXCEPT ![i] = {}]
    /\ relRow' = [relRow EXCEPT ![i] = "none"]

SendStep(c) ==
    \/ CheckSendLimits(c) \/ WeighRisk(c) \/ TransferNow(c) \/ PlaceSendHold(c) \/ RecordPending(c)
    \/ ReleaseCancelled(c) \/ MarkCancelled(c)

WorkOnRow(i) == TakeClaimed(i) \/ ReleaseMaturedHold(i) \/ Pay(i) \/ MarkPaid(i)

ReleaseStep(i) ==
    \/ \E batch \in SUBSET InProcessing : ClaimStuck(i, batch)
    \/ \E batch \in SUBSET Matured : ClaimDue(i, batch)
    \/ WorkOnRow(i)

-----------------------------------------------------------------------------
(***************************************************************************)
(* Properties.                                                             *)
(***************************************************************************)
CoolingOffTypeOK ==
    /\ pendings \in [Key -> [status : {"pending", "processing", "completed", "cancelled"},
                             request : SendRequest, hold : HoldId, releaseAt : Nat] \cup {NoPending}]
    /\ sendStep \in [Handler -> {"idle", "limits", "history", "limitsAgain", "transfer", "place", "insert",
                                 "cancelRelease", "cancelMark"}]
    /\ sending \in [Handler -> [request : SendRequest \cup {NotSending.request}, hold : HoldId \cup {"none"}]]
    /\ relStep \in [Instance -> {"idle", "claimDue", "next", "release", "transfer", "complete"}]
    /\ relQueue \in [Instance -> SUBSET Key]
    /\ relRow \in [Instance -> Key \cup {"none"}]

SendMoved(k) == LET r == pendings[k].request IN Moved(r.from, r.to, r.amount, k)

\* A row says "completed" only when its transfer is in the ledger and its hold
\* is gone: the customer is never debited and still reserved for one send.
CompletedSendMoved ==
    \A k \in Key : pendings[k].status = "completed" =>
        SendMoved(k) /\ holds[pendings[k].hold].status # "active"

\* A cancelled transfer is never executed (release.go ReleaseMatured: "captures
\* every cooling-off hold past its release_at into a real transfer, unless the
\* sender cancelled it first").
CancelledNeverMoves ==
    \A k \in Key : pendings[k].status = "cancelled" => ~SendMoved(k)

\* A matured transfer that has been claimed is paid out or turns out cancelled,
\* whatever crash, failed statement or second instance got in between
\* (release.go: "simply retrying the same two steps is sufficient recovery"),
\* provided the sender's money is still there.
ReleasesEnd ==
    \A k \in Key : pendings[k].status = "processing" ~> pendings[k].status \in {"completed", "cancelled"}
=============================================================================
