------------------------------ MODULE Webhooks ------------------------------
(***************************************************************************)
(* internal/webhooks: the webhooks goroutine of each instance enqueues an  *)
(* event, with a delivery per active endpoint, for every charge and payout *)
(* whose transfer has an outcome, and sends due deliveries until they      *)
(* succeed or have failed MaxAttempts times.  A claim pushes a delivery's  *)
(* next_attempt_at out by a minute and is followed by up to twenty sends   *)
(* of up to five seconds each: the row may be due again, on any instance,  *)
(* while its claimer is still busy.  An event is named by its source and a *)
(* number.                                                                 *)
(***************************************************************************)
EXTENDS Outcomes

CONSTANTS
    Charge, Payout,  \* transfers that a charge or a payout is made over
    Endpoint,        \* rows of webhook_endpoints of one merchant and mode
    MaxAttempts,     \* maxDeliveryAttempts
    MaxEvents,       \* bound on events of one source
    MaxHookChanges   \* bound on restarts, statements that fail, changes of endpoints and of outcomes

ASSUME WebhooksAssumption ==
    /\ Charge \subseteq Transfer /\ Payout \subseteq Transfer /\ Charge \cap Payout = {}
    /\ MaxAttempts \in Nat \ {0} /\ MaxEvents \in Nat /\ MaxHookChanges \in Nat

Source == Charge \cup Payout

VARIABLES
    endpoints,    \* webhook_endpoints: "absent", "active" or "inactive"
    sources,      \* charges and payouts: [recorded, notified]
    events,       \* webhook_events: how many each source has
    deliveries,   \* webhook_deliveries: [source, event, endpoint] -> row
    hookStep,     \* what each goroutine does next
    hookWork,     \* the rows it has selected or claimed, and the one it is at
    failedSends,  \* history: sends of a delivery that failed
    audience,     \* history: endpoints active when the source got its first outcome
    hookChanges

hookLocals == <<hookStep, hookWork>>
history == <<failedSends, audience>>
hookVars == <<endpoints, sources, events, deliveries, hookLocals, history, hookChanges>>

NoHookWork == [queue |-> {}, item |-> {}, endpoints |-> {}]

WebhooksInit ==
    /\ endpoints \in [Endpoint -> {"absent", "active"}]
    /\ sources = [t \in Source |-> [recorded |-> FALSE, notified |-> FALSE]]
    /\ events = [t \in Source |-> 0]
    /\ deliveries = <<>>
    /\ hookStep = [i \in Instance |-> "idle"]
    /\ hookWork = [i \in Instance |-> NoHookWork]
    /\ failedSends = <<>>
    /\ audience = <<>>
    /\ hookChanges = 0

GotoHook(i, next, todo) ==
    /\ hookStep' = [hookStep EXCEPT ![i] = next]
    /\ hookWork' = [hookWork EXCEPT ![i] = todo]

\* On with the rows that are left, if there are any.
NextRow(i, next, queue) ==
    IF queue = {} THEN GotoHook(i, "idle", NoHookWork)
    ELSE GotoHook(i, next, [NoHookWork EXCEPT !.queue = queue])

\* The table with rows for the ids it does not have.
Inserted(table, ids, new) ==
    [d \in DOMAIN table \cup ids |-> IF d \in DOMAIN table THEN table[d] ELSE new]

Change == hookChanges < MaxHookChanges /\ hookChanges' = hookChanges + 1
Active == {p \in Endpoint : endpoints[p] = "active"}

-----------------------------------------------------------------------------
(***************************************************************************)
(* Merchants' endpoints, and the rows of charges and payouts, which are    *)
(* inserted after their transfer.                                          *)
(***************************************************************************)
CreateEndpoint(p) ==
    /\ endpoints[p] = "absent"
    /\ endpoints' = [endpoints EXCEPT ![p] = "active"]
    /\ Change
    /\ UNCHANGED <<transfers, sources, events, deliveries, hookLocals, history>>

DeactivateEndpoint(p) ==
    /\ endpoints[p] = "active"
    /\ endpoints' = [endpoints EXCEPT ![p] = "inactive"]
    /\ Change
    /\ UNCHANGED <<transfers, sources, events, deliveries, hookLocals, history>>

RecordSource(t) ==
    /\ transfers[t] # "absent" /\ ~sources[t].recorded
    /\ sources' = [sources EXCEPT ![t].recorded = TRUE]
    /\ UNCHANGED <<transfers, endpoints, events, deliveries, hookLocals, history, hookChanges>>

SettleSource(t) ==
    /\ Settle(t)
    /\ audience' = Inserted(audience, {t}, Active)
    /\ UNCHANGED <<endpoints, sources, events, deliveries, hookLocals, failedSends, hookChanges>>

OverwriteSource(t) ==
    /\ Overwrite(t)
    /\ Change
    /\ UNCHANGED <<endpoints, sources, events, deliveries, hookLocals, history>>

-----------------------------------------------------------------------------
(***************************************************************************)
(* NotifyTerminal: charges first, then payouts, which use nothing of the   *)
(* first half and are a start of their own.                                *)
(***************************************************************************)
Unnotified(half) == {t \in half : sources[t].recorded /\ ~sources[t].notified /\ Terminal(t)}

StartNotify(i) ==
    /\ hookStep[i] = "idle"
    /\ \E half \in {Charge, Payout} :
         /\ Unnotified(half) # {}
         /\ GotoHook(i, "notify", [NoHookWork EXCEPT !.queue = Unnotified(half)])
    /\ UNCHANGED <<transfers, endpoints, sources, events, deliveries, history, hookChanges>>

\* Mutant: the source is marked already when the endpoints are read.
ReadEndpointsAndMark(i) ==
    LET w == hookWork[i]
    IN  /\ hookStep[i] = "notify"
        /\ \E t \in w.queue :
             /\ GotoHook(i, "enqueue", [queue |-> w.queue \ {t}, item |-> {t}, endpoints |-> Active])
             /\ sources' = [sources EXCEPT ![t].notified = TRUE]
        /\ UNCHANGED <<transfers, endpoints, events, deliveries, history, hookChanges>>

ReadEndpoints(i) ==
    LET w == hookWork[i]
    IN  /\ hookStep[i] = "notify"
        /\ \E t \in w.queue :
             GotoHook(i, "enqueue", [queue |-> w.queue \ {t}, item |-> {t}, endpoints |-> Active])
        /\ UNCHANGED <<transfers, endpoints, sources, events, deliveries, history, hookChanges>>

NewDelivery == [status |-> "pending", count |-> 0, due |-> TRUE]

InsertEvent(t, endpointIDs) ==
    LET ids == {[source |-> t, event |-> events[t] + 1, endpoint |-> p] : p \in endpointIDs}
    IN  /\ events[t] < MaxEvents
        /\ events' = [events EXCEPT ![t] = @ + 1]
        /\ deliveries' = Inserted(deliveries, ids, NewDelivery)
        /\ failedSends' = Inserted(failedSends, ids, 0)

\* Mutant: the source is not marked.
EnqueueUnmarked(i) ==
    /\ hookStep[i] = "enqueue"
    /\ \E t \in hookWork[i].item : InsertEvent(t, hookWork[i].endpoints)
    /\ NextRow(i, "notify", hookWork[i].queue)
    /\ UNCHANGED <<transfers, endpoints, sources, audience, hookChanges>>

\* One transaction, that neither locks the source nor looks at it again.
EnqueueEvent(i) ==
    /\ hookStep[i] = "enqueue"
    /\ \E t \in hookWork[i].item :
         /\ InsertEvent(t, hookWork[i].endpoints)
         /\ sources' = [sources EXCEPT ![t].notified = TRUE]
    /\ NextRow(i, "notify", hookWork[i].queue)
    /\ UNCHANGED <<transfers, endpoints, audience, hookChanges>>

-----------------------------------------------------------------------------
(***************************************************************************)
(* DeliverPending: a claim of all due rows, then one send after the other. *)
(***************************************************************************)
Due == {d \in DOMAIN deliveries : deliveries[d].status = "pending" /\ deliveries[d].due}

StartDeliver(i) ==
    /\ hookStep[i] = "idle"
    /\ Due # {}
    /\ GotoHook(i, "send", [NoHookWork EXCEPT !.queue = {[id |-> d, count |-> deliveries[d].count] : d \in Due}])
    /\ deliveries' = [d \in DOMAIN deliveries |-> [deliveries[d] EXCEPT !.due = @ /\ d \notin Due]]
    /\ UNCHANGED <<transfers, endpoints, sources, events, history, hookChanges>>

\* Mutant: an off-by-one in the last attempt.
FailureOffByOne(row, claimed) ==
    LET count == claimed + 1
    IN  IF count + 1 >= MaxAttempts THEN [row EXCEPT !.status = "failed", !.count = count]
        ELSE [row EXCEPT !.count = count, !.due = FALSE]

\* recordFailure: the count is that of the claim, the row's status not looked at.
AfterFailure(row, claimed) ==
    LET count == claimed + 1
    IN  IF count >= MaxAttempts THEN [row EXCEPT !.status = "failed", !.count = count]
        ELSE [row EXCEPT !.count = count, !.due = FALSE]

\* deliverOne: loading the event, the endpoint and its secret, the send, and the
\* UPDATE.  It fails before the endpoint, at the endpoint, or after it, when the
\* answer comes too late; whether the endpoint is still active is not asked.  What
\* lies between the send and the UPDATE touches no row and is the same step.
Sent(claim, failed) ==
    failedSends' = IF failed THEN [failedSends EXCEPT ![claim.id] = @ + 1] ELSE failedSends

Reported(row, claim, failed) ==
    IF failed THEN AfterFailure(row, claim.count) ELSE [row EXCEPT !.status = "succeeded"]

DeliverOne(i) ==
    /\ hookStep[i] = "send"
    /\ \E claim \in hookWork[i].queue, failed \in BOOLEAN :
         /\ Sent(claim, failed)
         /\ deliveries' = [deliveries EXCEPT ![claim.id] = Reported(@, claim, failed)]
         /\ NextRow(i, "send", hookWork[i].queue \ {claim})
    /\ UNCHANGED <<transfers, endpoints, sources, events, audience, hookChanges>>

\* The lease, or the back-off, is over.
ComesDue(d) ==
    /\ d \in DOMAIN deliveries
    /\ deliveries[d].status = "pending" /\ ~deliveries[d].due
    /\ deliveries' = [deliveries EXCEPT ![d].due = TRUE]
    /\ UNCHANGED <<transfers, endpoints, sources, events, hookLocals, history, hookChanges>>

-----------------------------------------------------------------------------
\* The error of the UPDATE is dropped, and the goroutine goes on.
LoseReport(i) ==
    /\ hookStep[i] = "send"
    /\ Change
    /\ \E claim \in hookWork[i].queue, failed \in BOOLEAN :
         Sent(claim, failed) /\ NextRow(i, "send", hookWork[i].queue \ {claim})
    /\ UNCHANGED <<transfers, endpoints, sources, events, deliveries, audience>>

\* The process stops; or a statement of NotifyTerminal fails, which abandons the
\* rest of the rows.
StopWebhooks(i) ==
    /\ hookStep[i] # "idle"
    /\ Change
    /\ GotoHook(i, "idle", NoHookWork)
    /\ UNCHANGED <<transfers, endpoints, sources, events, deliveries, history>>

HookStep(i) ==
    \/ StartNotify(i) \/ ReadEndpoints(i) \/ EnqueueEvent(i)
    \/ StartDeliver(i) \/ DeliverOne(i)

WebhooksNext ==
    \/ \E i \in Instance : HookStep(i) \/ LoseReport(i) \/ StopWebhooks(i)
    \/ \E p \in Endpoint : CreateEndpoint(p) \/ DeactivateEndpoint(p)
    \/ \E t \in Source : RecordSource(t) \/ SettleSource(t) \/ OverwriteSource(t)
    \/ \E d \in DOMAIN deliveries : ComesDue(d)

\* With the handlers that submit transfers.
WebhooksSpec ==
    /\ OutcomesInit /\ WebhooksInit
    /\ [][WebhooksNext \/ \E t \in Source : Submit(t) /\ UNCHANGED hookVars]_<<transfers, hookVars>>

-----------------------------------------------------------------------------
(***************************************************************************)
(* Properties.                                                             *)
(***************************************************************************)

\* However many instances select a source, and wherever they stop, it gets an
\* event from each of them at most: the transaction that inserts one marks the
\* source, so an instance never selects it again.
OneEventPerInstance == \A t \in Source : events[t] <= Cardinality(Instance)

\* A delivery is given up only after MaxAttempts sends that failed, and its count
\* is never ahead of them: claims that overlap may write an older count over a
\* newer one, and a report may be lost, which only adds attempts.
AttemptsAreCounted ==
    \A d \in DOMAIN deliveries :
        /\ deliveries[d].status = "failed" => failedSends[d] >= MaxAttempts
        /\ deliveries[d].count <= failedSends[d]

\* Each endpoint that was active when a charge or payout got its outcome accepts
\* the event, or all attempts to deliver it fail, or the endpoint is deactivated,
\* through every restart between the claim, the send and the report; unless the
\* outcome is taken back before it has been noticed.
Heard(t, p) ==
    \E d \in DOMAIN deliveries :
        d.source = t /\ d.endpoint = p /\ deliveries[d].status # "pending"

OutcomeIsReported ==
    \A t \in Source, p \in Endpoint :
        (sources[t].recorded /\ Terminal(t) /\ p \in audience[t]) ~>
            (Heard(t, p) \/ endpoints[p] = "inactive" \/ ~Terminal(t))
=============================================================================
