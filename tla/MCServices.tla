----------------------------- MODULE MCServices -----------------------------
(***************************************************************************)
(* Webhooks, reconciliation, recurring bills, recovery and API keys for    *)
(* TLC.  None reads a row that another writes, except that external        *)
(* transfers are one table: so in a behaviour the actors of one service    *)
(* run, and the steps that others take with a transfer are its             *)
(* environment's.  Interleavings of two services would show nothing more.  *)
(***************************************************************************)
EXTENDS Webhooks, Reconciliation, Bills, Recovery, ApiKeys
CONSTANTS t1, r1

BillTransfers == {r1} \X (1..MaxTime)
Transfers == {t1} \cup BillTransfers
Mirrored == {t1, <<r1, 1>>}   \* transfers that come up in front of reconciliation

VARIABLE running   \* the service that runs
accessVars == <<recoveryVars, keyVars>>
allVars == <<running, transfers, hookVars, reconVars, billVars, accessVars>>

ServicesInit ==
    /\ OutcomesInit /\ WebhooksInit /\ ReconciliationInit /\ BillsInit
    /\ RecoveryInit /\ ApiKeysInit
    /\ running \in {"webhooks", "reconciliation", "bills", "recovery", "keys"}

\* A step of one service leaves the tables of the others alone.
Webhook(A) == running = "webhooks" /\ A /\ UNCHANGED <<running, reconVars, billVars, accessVars>>
Matching(A) == running = "reconciliation" /\ A /\ UNCHANGED <<running, hookVars, billVars, accessVars>>
Billing(A) == running = "bills" /\ A /\ UNCHANGED <<running, hookVars, reconVars, accessVars>>

NoTransfers == UNCHANGED <<running, transfers, hookVars, reconVars, billVars>>
Recovering(A) == running = "recovery" /\ A /\ NoTransfers /\ UNCHANGED keyVars
Rotating(A) == running = "keys" /\ A /\ NoTransfers /\ UNCHANGED recoveryVars

ServicesNext ==
    \/ \E t \in Source : Webhook(Submit(t) /\ UNCHANGED hookVars)
    \/ Webhook(WebhooksNext)
    \/ \E t \in Mirrored : Matching(TransferMoves(t))
    \/ Matching(ReconciliationNext)
    \/ Billing(BillsNext)
    \/ Recovering(RecoveryNext)
    \/ Rotating(ApiKeysNext)

\* The tickers of a goroutine come again and its steps go on, though with some
\* delay; a lease or a back-off ends.  What becomes of a transfer, whether its
\* charge is recorded, and what merchants and customers do, is open.
ServicesFairness ==
    /\ \A i \in Instance :
         /\ WF_allVars(Webhook(HookStep(i)))
         /\ WF_allVars(Matching(MatchStep(i)))
         /\ WF_allVars(Billing(BillStep(i)))
    /\ \A t \in Source, n \in 1..MaxEvents, p \in Endpoint :
         WF_allVars(Webhook(ComesDue([source |-> t, event |-> n, endpoint |-> p])))

ServicesSpec == ServicesInit /\ [][ServicesNext]_allVars /\ ServicesFairness

\* Every transfer that has an outcome is reconciled in the end (reconciliation's
\* tick), also when its line was read while it was in flight, when a statement
\* failed or an instance stopped half way; unless the outcome is taken back first.
OutcomeIsReconciled ==
    \A t \in Mirrored :
        (running = "reconciliation" /\ Terminal(t)) ~> (lines[t] \in {"matched", "break"} \/ ~Terminal(t))
=============================================================================
