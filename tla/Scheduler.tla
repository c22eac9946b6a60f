------------------------------ MODULE Scheduler ------------------------------
(***************************************************************************)
(* internal/scheduler: standing orders.  On each server instance one       *)
(* goroutine (cmd/api/main.go runScheduler) runs RunDue and ResolveStuck   *)
(* in turn.  A firing claims a run row, moves the money under a key made   *)
(* of the schedule and the occurrence, and finalizes run and schedule in   *)
(* one transaction.  Occurrences are one clock unit apart; stuckTimeout is *)
(* not measured: a run in "processing" may have been there for two minutes *)
(* at any time.                                                            *)
(***************************************************************************)
EXTENDS Payments

CONSTANTS
    Schedule,        \* ids of scheduled transfers
    ScheduleRequest  \* what customers ask Create for

\* The occurrences a schedule can have: the last one is never due.
Occurrence == 0..MaxTime + 1
RunKey(run) == run
Run == Schedule \X Occurrence

ASSUME ScheduleRequestAssumption ==
    ScheduleRequest \subseteq [from : Account, to : Account, amount : Amount,
                               type : {"once", "recurring"}, first : 0..MaxTime]
ASSUME RunKeyAssumption == Run \subseteq Key

VARIABLES
    schedules,   \* scheduled_transfers: schedule -> row
    runs,        \* scheduled_transfer_runs: (schedule, scheduled_for) -> status
    schedStep,   \* the statement each instance's scheduler is about to execute
    schedQueue,  \* what it has selected and not started on
    schedRun     \* the run it works on

schedVars == <<schedules, runs, schedStep, schedQueue, schedRun>>
schedTables == <<schedules, runs>>

NoSchedule == [status |-> "absent"]
NoRun == <<>>

SchedulerInit ==
    /\ schedules = [s \in Schedule |-> NoSchedule]
    /\ runs = [r \in Run |-> "absent"]
    /\ schedStep = [i \in Instance |-> "idle"]
    /\ schedQueue = [i \in Instance |-> {}]
    /\ schedRun = [i \in Instance |-> NoRun]

\* The schedule of the run i works on, as it was created; what is read of it
\* besides never changes.
Order(i) == schedules[schedRun[i][1]].request

\* The row's foreign keys refer to opened accounts.
Create(s, request) ==
    /\ schedules[s] = NoSchedule
    /\ Exists(request.from) /\ Exists(request.to)
    /\ schedules' = [schedules EXCEPT ![s] =
                       [status |-> "active", next |-> request.first, request |-> request]]
    /\ UNCHANGED <<moneyVars, runs, schedStep, schedQueue, schedRun>>

-----------------------------------------------------------------------------
(***************************************************************************)
(* RunDue and ResolveStuck select what to work on without locking it.      *)
(***************************************************************************)
\* Mutant: an occurrence is not due at its very moment.
DueLater == {s \in Schedule : schedules[s].status = "active" /\ schedules[s].next < now}

Due == {s \in Schedule : schedules[s].status = "active" /\ schedules[s].next <= now}
\* Mutant: the resolver's query finds nothing.
NothingStuck == {}

Stuck == {r \in Run : runs[r] = "processing"}

GoOn(i, queue) ==
    /\ schedQueue' = [schedQueue EXCEPT ![i] = queue]
    /\ schedRun' = [schedRun EXCEPT ![i] = NoRun]
    /\ schedStep' = [schedStep EXCEPT ![i] = IF queue = {} THEN "idle" ELSE "next"]

Advance(i, next) ==
    /\ schedStep' = [schedStep EXCEPT ![i] = next]
    /\ UNCHANGED <<schedQueue, schedRun>>

RunDue(i) ==
    /\ schedStep[i] = "idle"
    /\ Due # {}
    /\ GoOn(i, {[run |-> <<s, schedules[s].next>>, claimed |-> FALSE] : s \in Due})
    /\ UNCHANGED <<moneyVars, schedTables>>

ResolveStuck(i, batch) ==
    /\ schedStep[i] = "idle"
    /\ batch # {} /\ batch \subseteq Stuck
    /\ GoOn(i, {[run |-> r, claimed |-> TRUE] : r \in batch})
    /\ UNCHANGED <<moneyVars, schedTables>>

\* fireOnce: INSERT ... ON CONFLICT DO NOTHING; a run that has a row is left to
\* whoever inserted it.
NextRun(i) ==
    /\ schedStep[i] = "next"
    /\ \E e \in schedQueue[i] :
         IF e.claimed \/ runs[e.run] = "absent"
         THEN /\ runs' = IF e.claimed THEN runs ELSE [runs EXCEPT ![e.run] = "processing"]
              /\ schedRun' = [schedRun EXCEPT ![i] = e.run]
              /\ schedQueue' = [schedQueue EXCEPT ![i] = @ \ {e}]
              /\ schedStep' = [schedStep EXCEPT ![i] = "limits"]
         ELSE GoOn(i, schedQueue[i] \ {e}) /\ UNCHANGED runs
    /\ UNCHANGED <<moneyVars, schedules>>

-----------------------------------------------------------------------------
(***************************************************************************)
(* executeAndFinalize.                                                     *)
(***************************************************************************)
CheckRunLimits(i) ==
    /\ schedStep[i] = "limits"
    /\ \/ WithinLimits(Order(i).from, Order(i).amount) /\ Advance(i, "transfer")
       \/ /\ FeatureDisabled \/ ~WithinLimits(Order(i).from, Order(i).amount)
          /\ Advance(i, "recordFailed")
    /\ UNCHANGED <<moneyVars, schedTables>>

\* Mutant: the transfer's error is dropped.
TransferRunAndForget(i) ==
    LET o == Order(i)
        key == RunKey(schedRun[i])
    IN  /\ schedStep[i] = "transfer"
        /\ Posts(o.from, o.to, o.amount, key) \/ Replays(o.from, o.to, o.amount, key)
             \/ Refuses(o.from, o.to, o.amount, key)
        /\ Advance(i, "recordCompleted")
        /\ UNCHANGED schedTables

TransferRun(i) ==
    LET o == Order(i)
        key == RunKey(schedRun[i])
    IN  /\ schedStep[i] = "transfer"
        /\ \/ /\ Posts(o.from, o.to, o.amount, key) \/ Replays(o.from, o.to, o.amount, key)
              /\ Advance(i, "recordCompleted")
           \/ Refuses(o.from, o.to, o.amount, key) /\ Advance(i, "recordFailed")
        /\ UNCHANGED schedTables

\* Mutant: a recurring schedule is advanced from the clock.
NextFromNow(run) == now + 1

NextOccurrence(run) == run[2] + 1

\* One transaction: the outcome of the run, and the schedule done or advanced,
\* whatever either says by then.
Finalize(i) ==
    LET run == schedRun[i]
        s == run[1]
    IN  /\ schedStep[i] \in {"recordCompleted", "recordFailed"}
        /\ runs' = [runs EXCEPT ![run] =
                      IF schedStep[i] = "recordCompleted" THEN "completed" ELSE "failed"]
        /\ schedules' = IF Order(i).type = "once"
                        THEN [schedules EXCEPT ![s].status = "completed"]
                        ELSE [schedules EXCEPT ![s].next = NextOccurrence(run)]
        /\ GoOn(i, schedQueue[i])
        /\ UNCHANGED moneyVars

-----------------------------------------------------------------------------
(***************************************************************************)
(* Failures.                                                               *)
(***************************************************************************)
\* A statement fails.  The claim is skipped; an error of the limits or of the
\* transfer, whose commit may have gone through, is the run's outcome; the
\* finalization is rolled back and leaves the run in "processing".
FailScheduler(i) ==
    \/ /\ schedStep[i] = "next"
       /\ \E e \in schedQueue[i] : ~e.claimed /\ GoOn(i, schedQueue[i] \ {e})
       /\ UNCHANGED <<moneyVars, schedTables>>
    \/ /\ schedStep[i] \in {"limits", "transfer"}
       /\ Advance(i, "recordFailed")
       /\ UNCHANGED <<moneyVars, schedTables>>
    \/ /\ schedStep[i] = "transfer"
       /\ Posts(Order(i).from, Order(i).to, Order(i).amount, RunKey(schedRun[i]))
       /\ Advance(i, "recordFailed")
       /\ UNCHANGED schedTables
    \/ /\ schedStep[i] \in {"recordCompleted", "recordFailed"}
       /\ GoOn(i, schedQueue[i])
       /\ UNCHANGED <<moneyVars, schedTables>>

StopScheduler(i) ==
    /\ schedStep' = [schedStep EXCEPT ![i] = "idle"]
    /\ schedQueue' = [schedQueue EXCEPT ![i] = {}]
    /\ schedRun' = [schedRun EXCEPT ![i] = NoRun]

WorkOnRun(i) == NextRun(i) \/ CheckRunLimits(i) \/ TransferRun(i) \/ Finalize(i)

SchedulerStep(i) ==
    \/ RunDue(i)
    \/ \E batch \in SUBSET Stuck : ResolveStuck(i, batch)
    \/ WorkOnRun(i)

-----------------------------------------------------------------------------
(***************************************************************************)
(* Properties.                                                             *)
(***************************************************************************)
SchedulerTypeOK ==
    /\ schedules \in [Schedule ->
                        [status : {"active", "completed"}, next : Occurrence, request : ScheduleRequest]
                          \cup {NoSchedule}]
    /\ runs \in [Run -> {"absent", "processing", "completed", "failed"}]
    /\ schedStep \in [Instance -> {"idle", "next", "limits", "transfer", "recordCompleted", "recordFailed"}]
    /\ schedQueue \in [Instance -> SUBSET [run : Run, claimed : BOOLEAN]]
    /\ schedRun \in [Instance -> Run \cup {NoRun}]

Definitive(run) == runs[run] \in {"completed", "failed"}
RunMoved(run) ==
    LET o == schedules[run[1]].request
    IN  Moved(o.from, o.to, o.amount, RunKey(run))

\* A run is recorded as completed only when its transfer is in the ledger,
\* however often it was retried, after whatever crash and by whichever
\* instance (scheduler.go: a stuck run "either executes for the first time or
\* replays the already-committed result").
CompletedRunMoved == \A r \in Run : runs[r] = "completed" => RunMoved(r)

\* A schedule has passed exactly its resolved occurrences: nothing moves for an
\* occurrence the schedule has not reached, and none before next_run_at is
\* missing or still open, though runs and schedules are written by two
\* statements that look at neither's status, by several instances.
NoOccurrenceSkipped ==
    \A s \in Schedule : schedules[s] # NoSchedule =>
        \A t \in Occurrence :
            /\ schedules[s].request.type = "recurring" /\ t \in schedules[s].request.first..(schedules[s].next - 1)
                 => Definitive(<<s, t>>)
            /\ schedules[s].status = "completed" /\ t = schedules[s].request.first => Definitive(<<s, t>>)
            /\ ~Unused(RunKey(<<s, t>>)) => t \in schedules[s].request.first..now

\* A run that has been recorded as failed has moved no money (scheduler.go:
\* "either way producing a definitive outcome instead of a permanently unknown
\* one").
FailedRunMovedNothing == \A r \in Run : runs[r] = "failed" => ~RunMoved(r)

\* A claimed run is resolved, whatever crash interrupted it.
RunsEnd == \A r \in Run : runs[r] = "processing" ~> Definitive(r)

\* An occurrence that is due is run.
DueIsRun ==
    \A r \in Run :
        (schedules[r[1]].status = "active" /\ schedules[r[1]].next = r[2] /\ r[2] <= now) ~> Definitive(r)
=============================================================================
