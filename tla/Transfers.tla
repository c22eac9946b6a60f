------------------------------ MODULE Transfers ------------------------------
(***************************************************************************)
(* The standing orders of Scheduler and the held-back transfers of         *)
(* CoolingOff over one Ledger and one set of tier limits: they spend the   *)
(* same balances and the same daily limit, and a restart of a server       *)
(* instance stops both of its goroutines.                                  *)
(***************************************************************************)
EXTENDS Scheduler, CoolingOff

CONSTANTS
    MaxRequests,  \* bound on what the customers ask for
    MaxFailures,  \* bound on lost requests and failed statements
    MaxRestarts   \* bound on restarts of an instance

ASSUME TransfersBoundsAssumption ==
    MaxRequests \in Nat /\ MaxFailures \in Nat /\ MaxRestarts \in Nat
\* Customers choose their keys, but not those of runs, which hold the id of a
\* schedule.
ASSUME SendKeyAssumption == \A r \in SendRequest : r.key \notin Run

VARIABLES requests, failures, restarts

bounds == <<requests, failures, restarts>>
allVars == <<moneyVars, schedVars, coolVars, bounds>>

TransfersInit ==
    /\ PaymentsInit /\ SchedulerInit /\ CoolingOffInit
    /\ requests = 0 /\ failures = 0 /\ restarts = 0

OpenAnAccount ==
    /\ \E a \in Account, o \in Overdraft : OpenAccount(a, o)
    /\ UNCHANGED <<now, sentToday, schedVars, coolVars, bounds>>

\* A retry of a send is another request with its key.
CustomerAsks ==
    /\ requests < MaxRequests
    /\ requests' = requests + 1
    /\ \/ \E s \in Schedule, r \in ScheduleRequest : Create(s, r) /\ UNCHANGED coolVars
       \/ \E c \in Handler, r \in SendRequest : StartSend(c, r) /\ UNCHANGED schedVars
       \/ \E c \in Handler, k \in Key : LookUpPending(c, k) /\ UNCHANGED schedVars
    /\ UNCHANGED <<failures, restarts>>

SomethingFails ==
    /\ failures < MaxFailures
    /\ failures' = failures + 1
    /\ \/ \E i \in Instance : FailScheduler(i) /\ UNCHANGED coolVars
       \/ \E i \in Instance : FailRelease(i) /\ UNCHANGED schedVars
       \/ \E c \in Handler : LoseSend(c) /\ UNCHANGED schedVars
    /\ UNCHANGED <<requests, restarts>>

Restart(i) ==
    /\ restarts < MaxRestarts
    /\ restarts' = restarts + 1
    /\ StopScheduler(i) /\ StopRelease(i)
    /\ UNCHANGED <<moneyVars, schedTables, pendings, handlerVars, requests, failures>>

Scheduling(i) == SchedulerStep(i) /\ UNCHANGED <<coolVars, bounds>>
Releasing(i) == ReleaseStep(i) /\ UNCHANGED <<schedVars, bounds>>

TransfersNext ==
    \/ OpenAnAccount
    \/ Tick /\ UNCHANGED <<schedVars, coolVars, bounds>>
    \/ CustomerAsks \/ SomethingFails
    \/ \E c \in Handler : SendStep(c) /\ UNCHANGED <<schedVars, bounds>>
    \/ \E i \in Instance : Scheduling(i) \/ Releasing(i) \/ Restart(i)

\* The tickers keep firing, nothing blocks a goroutine between two statements,
\* and what stays in "processing" is in the end old enough to be picked up.
Fairness ==
    \A i \in Instance :
        /\ WF_allVars(WorkOnRun(i) /\ UNCHANGED <<coolVars, bounds>>)
        /\ SF_allVars(RunDue(i) /\ UNCHANGED <<coolVars, bounds>>)
        /\ SF_allVars(ResolveStuck(i, Stuck) /\ UNCHANGED <<coolVars, bounds>>)
        /\ WF_allVars((WorkOnRow(i) \/ ClaimDue(i, Matured)) /\ UNCHANGED <<schedVars, bounds>>)
        /\ SF_allVars(ClaimStuck(i, InProcessing) /\ UNCHANGED <<schedVars, bounds>>)

TransfersSpec == TransfersInit /\ [][TransfersNext]_allVars /\ Fairness

TransfersTypeOK ==
    /\ PaymentsTypeOK /\ SchedulerTypeOK /\ CoolingOffTypeOK
    /\ requests \in 0..MaxRequests /\ failures \in 0..MaxFailures /\ restarts \in 0..MaxRestarts

\* What the tables call completed has happened: the money of each completed run
\* and of each completed send has moved (scheduler.go: "replays the
\* already-committed result"), though both are retried after crashes, and the
\* customer's cancellation may come in between.
CompletedMoved == CompletedRunMoved /\ CompletedSendMoved

\* What a goroutine has claimed comes to an end, whatever crash interrupted it
\* (ResolveStuck; ReleaseMatured: "simply retrying the same two steps is
\* sufficient recovery").
ClaimsEnd == RunsEnd /\ ReleasesEnd
=============================================================================
