---------------------------- MODULE TransfersProofs ----------------------------
(***************************************************************************)
(* What standing orders and held-back sends record as completed has moved, *)
(* and no occurrence of a standing order is skipped, for any schedules,    *)
(* requests, instances, handlers, failures and restarts.  No statement     *)
(* looks at what the row says when it writes, so the invariant says what   *)
(* each goroutine may rely on before each of its statements; all of it     *)
(* lasts, because the ledger and the tables only ever grow.                *)
(***************************************************************************)
EXTENDS Transfers, LedgerProofs

-----------------------------------------------------------------------------
(***************************************************************************)
(* The invariant.                                                          *)
(***************************************************************************)
FirstOf(s) == schedules[s].request.first

\* The occurrences of a schedule before the one at t are resolved.
Behind(s, t) == \A u \in FirstOf(s)..(t - 1) : Definitive(<<s, u>>)

\* A run is of an occurrence that its schedule has come to.
Reached(r) ==
    /\ schedules[r[1]] # NoSchedule
    /\ r[2] \in FirstOf(r[1])..now
    /\ schedules[r[1]].request.type = "once" => r[2] = FirstOf(r[1])
    /\ Behind(r[1], r[2])

ScheduleIsBehind(s) ==
    schedules[s] # NoSchedule =>
        /\ schedules[s].next >= FirstOf(s) /\ Behind(s, schedules[s].next)
        /\ schedules[s].request.type = "once" => schedules[s].next = FirstOf(s)
        /\ schedules[s].status = "completed" =>
             schedules[s].request.type = "once" /\ Definitive(<<s, FirstOf(s)>>)

RunIsTrue(r) ==
    /\ runs[r] # "absent" \/ ~Unused(RunKey(r)) => Reached(r)
    /\ runs[r] = "completed" => RunMoved(r)

\* What a scheduler that is about to execute a step may rely on.
SchedulerKnows(step, todo, run) ==
    /\ \A e \in todo : Reached(e.run)
    /\ step \in {"limits", "transfer", "recordCompleted", "recordFailed"} => run \in Run /\ Reached(run)
    /\ step = "recordCompleted" => RunMoved(run)

SchedulerInv ==
    /\ SchedulerTypeOK
    /\ \A s \in Schedule : ScheduleIsBehind(s)
    /\ \A r \in Run : RunIsTrue(r)
    /\ \A i \in Instance : SchedulerKnows(schedStep[i], schedQueue[i], schedRun[i])

\* A held-back send is under its own key, with a hold that was placed for it.
PendingIsTrue(k) ==
    pendings[k] # NoPending =>
        /\ pendings[k].request.key = k /\ holds[pendings[k].hold] # NoHold
        /\ pendings[k].status = "completed" => SendMoved(k) /\ holds[pendings[k].hold].status # "active"

\* What a handler, and a goroutine that releases, may rely on.
SenderKnows(step, w) ==
    /\ step # "idle" => w.request \in SendRequest
    /\ step \in {"insert", "cancelRelease", "cancelMark"} => w.hold \in HoldId /\ holds[w.hold] # NoHold
    /\ step \in {"cancelRelease", "cancelMark"} => pendings[w.request.key] # NoPending

ReleaserKnows(step, todo, k) ==
    /\ \A l \in todo : pendings[l] # NoPending
    /\ step \in {"release", "transfer", "complete"} => k \in Key /\ pendings[k] # NoPending
    /\ step \in {"transfer", "complete"} => holds[pendings[k].hold].status # "active"
    /\ step = "complete" => SendMoved(k)

CoolingOffInv ==
    /\ CoolingOffTypeOK
    /\ \A k \in Key : PendingIsTrue(k)
    /\ \A c \in Handler : SenderKnows(sendStep[c], sending[c])
    /\ \A i \in Instance : ReleaserKnows(relStep[i], relQueue[i], relRow[i])

TransfersInv == PaymentsTypeOK /\ SchedulerInv /\ CoolingOffInv

-----------------------------------------------------------------------------
(***************************************************************************)
(* Money: what is posted stays, and a hold that is resolved stays so.      *)
(***************************************************************************)
LedgerGrows ==
    /\ \A k \in Key : ~Unused(k) => ~Unused(k)' /\ txns'[k].request = txns[k].request
    /\ \A h \in HoldId : holds[h] # NoHold =>
         holds'[h] # NoHold /\ (holds[h].status # "active" => holds'[h].status # "active")

MoneyGrows == PaymentsTypeOK' /\ LedgerGrows /\ now <= now'

NothingRuns == \A r \in Run : Unused(r) => Unused(r)'

\* An operation of the ledger.
LEMMA LedgerStep ==
    ASSUME TypeOK, [Next]_vars
    PROVE  TypeOK' /\ LedgerGrows
<1>1. TypeOK' /\ AppendOnlyStep
  BY NextTyped, NextAppends
<1>2. \A k \in Key : ~Unused(k) => ~Unused(k)' /\ txns'[k].request = txns[k].request
  BY RequestsStay
<1>3. ASSUME NEW h \in HoldId, holds[h] # NoHold
      PROVE  holds'[h] # NoHold /\ (holds[h].status # "active" => holds'[h].status # "active")
  <2>1. holds[h] \in Hold
    BY <1>3 DEF TypeOK
  <2>2. \/ holds'[h] = holds[h]
        \/ /\ holds[h].status = "active"
           /\ \E s \in {"released", "captured"} : holds'[h] = [holds[h] EXCEPT !.status = s]
    BY <1>1, <1>3 DEF AppendOnlyStep
  <2> QED
    BY <1>3, <2>1, <2>2 DEF Hold, NoHold
<1> QED
  BY <1>1, <1>2, <1>3 DEF LedgerGrows

\* Nothing of the ledger changes.
LEMMA LedgerRests ==
    ASSUME TransfersInv, UNCHANGED moneyVars
    PROVE  MoneyGrows /\ NothingRuns
<1>1. TypeOK /\ now \in Int
  BY DEF TransfersInv, PaymentsTypeOK
<1>2. TypeOK' /\ LedgerGrows
  BY <1>1, LedgerStep DEF moneyVars
<1> QED
  BY <1>1, <1>2 DEF TransfersInv, PaymentsTypeOK, MoneyGrows, NothingRuns, moneyVars, vars, Unused

\* A transfer is posted, replayed or refused under its key.
LEMMA TransferMoves ==
    ASSUME TransfersInv, NEW a \in Account, NEW b \in Account, NEW x \in Amount, NEW k \in Key,
           Posts(a, b, x, k) \/ Replays(a, b, x, k) \/ Refuses(a, b, x, k)
    PROVE  /\ MoneyGrows /\ now' = now
           /\ \A l \in Key \ {k} : Unused(l) => Unused(l)'
           /\ Posts(a, b, x, k) \/ Replays(a, b, x, k) => Moved(a, b, x, k)'
           /\ Refuses(a, b, x, k) => UNCHANGED moneyVars
<1>1. CASE Posts(a, b, x, k)
  <2>1. Transfer(a, b, x, k) /\ UNCHANGED now /\ sentToday' = [sentToday EXCEPT ![OwnerOf[a]] = @ + x]
    BY <1>1 DEF Posts
  <2>2. TypeOK /\ now \in 0..MaxTime /\ sentToday \in [Identity -> Nat] /\ OwnerOf[a] \in Identity /\ x \in Nat
    BY OwnerAssumption, AmountAssumption DEF TransfersInv, PaymentsTypeOK
  <2>3. TypeOK' /\ LedgerGrows
    BY <2>1, <2>2, LedgerStep DEF Next
  <2>4. sentToday' \in [Identity -> Nat]
    BY <2>1, <2>2
  <2>5. /\ txns[k] = NoTxn
        /\ txns' = [txns EXCEPT ![k] = Posted("transfer", TransferLegs(a, b, x), TransferOf(a, b, x))]
    BY <2>1 DEF Transfer, PostTransaction, TransferLegs, TransferOf, Unused
  <2>6. txns'[k] = Posted("transfer", TransferLegs(a, b, x), TransferOf(a, b, x))
        /\ \A l \in Key \ {k} : txns'[l] = txns[l]
    BY <2>2, <2>5 DEF TypeOK
  <2>7. Moved(a, b, x, k)'
    BY <2>6 DEF Moved, Unused, Posted, NoTxn, TransferOf, TransferLegs
  <2>8. ~Refuses(a, b, x, k) \/ UNCHANGED moneyVars
    BY DEF Refuses
  <2> QED
    BY <2>1, <2>2, <2>3, <2>4, <2>6, <2>7, <2>8 DEF MoneyGrows, PaymentsTypeOK, Unused
<1>2. CASE ~Posts(a, b, x, k)
  <2>1. UNCHANGED moneyVars
    BY <1>2 DEF Replays, Refuses
  <2>2. MoneyGrows
    BY <2>1, LedgerRests
  <2>3. Replays(a, b, x, k) => Moved(a, b, x, k)'
    BY <2>1 DEF Replays, Moved, Unused, moneyVars, vars, TransferOf, TransferLegs
  <2> QED
    BY <1>2, <2>1, <2>2, <2>3 DEF moneyVars, vars, Unused
<1> QED
  BY <1>1, <1>2

\* A hold is placed or given back.
LEMMA HoldMoves ==
    ASSUME TransfersInv, NEW h \in HoldId, UNCHANGED <<now, sentToday>>,
           \/ \E a \in Account, x \in Amount : PlaceHold(h, a, x)
           \/ ReleaseHold(h)
    PROVE  MoneyGrows /\ NothingRuns
<1>1. TypeOK /\ now \in Int
  BY DEF TransfersInv, PaymentsTypeOK
<1>2. TypeOK' /\ LedgerGrows /\ UNCHANGED txns
  BY <1>1, LedgerStep DEF Next, PlaceHold, ReleaseHold
<1> QED
  BY <1>1, <1>2 DEF TransfersInv, PaymentsTypeOK, MoneyGrows, NothingRuns, Unused
-----------------------------------------------------------------------------
(***************************************************************************)
(* Standing orders.                                                        *)
(***************************************************************************)
RunsGrow ==
    /\ \A s \in Schedule : schedules[s] # NoSchedule =>
         schedules'[s] # NoSchedule /\ schedules'[s].request = schedules[s].request
    /\ \A r \in Run : Definitive(r) => Definitive(r)'

\* A row of a schedule, and what a run is made of.
LEMMA ScheduleTyped ==
    ASSUME SchedulerTypeOK, NEW s \in Schedule, schedules[s] # NoSchedule
    PROVE  /\ schedules[s].request \in ScheduleRequest /\ schedules[s].status \in {"active", "completed"}
           /\ schedules[s].request.from \in Account /\ schedules[s].request.to \in Account
           /\ schedules[s].request.amount \in Amount /\ schedules[s].request.type \in {"once", "recurring"}
           /\ FirstOf(s) \in 0..MaxTime /\ schedules[s].next \in Occurrence
  BY ScheduleRequestAssumption DEF SchedulerTypeOK, FirstOf

\* A run is a schedule with an occurrence, and its key is one of the ledger's.
LEMMA RunTyped ==
    ASSUME NEW r \in Run
    PROVE  r[1] \in Schedule /\ r[2] \in Occurrence /\ r = <<r[1], r[2]>> /\ r \in Key
  BY RunKeyAssumption DEF Run

\* What is behind a schedule stays behind it, and a run that is reached stays so.
LEMMA ReachedStays ==
    ASSUME SchedulerTypeOK, RunsGrow, now \in Nat, now' \in Nat, now <= now'
    PROVE  /\ \A s \in Schedule : schedules[s] # NoSchedule => FirstOf(s)' = FirstOf(s)
           /\ \A s \in Schedule, t \in Occurrence :
                schedules[s] # NoSchedule /\ Behind(s, t) => Behind(s, t)'
           /\ \A r \in Run : Reached(r) => Reached(r)'
<1>1. \A s \in Schedule : schedules[s] # NoSchedule => FirstOf(s)' = FirstOf(s)
  BY DEF RunsGrow, FirstOf
<1>2. ASSUME NEW s \in Schedule, NEW t \in Occurrence, schedules[s] # NoSchedule, Behind(s, t)
      PROVE  Behind(s, t)'
  <2>1. FirstOf(s) \in 0..MaxTime /\ FirstOf(s)' = FirstOf(s)
    BY <1>1, <1>2, ScheduleTyped
  <2>2. \A u \in FirstOf(s)..(t - 1) : <<s, u>> \in Run
    BY <2>1, ClockAssumption DEF Run, Occurrence
  <2> QED
    BY <1>2, <2>1, <2>2 DEF Behind, RunsGrow
<1>3. ASSUME NEW r \in Run, Reached(r) PROVE Reached(r)'
  <2>1. r[1] \in Schedule /\ r[2] \in Occurrence /\ schedules[r[1]] # NoSchedule
    BY <1>3, RunTyped DEF Reached
  <2>2. Behind(r[1], r[2])' /\ FirstOf(r[1])' = FirstOf(r[1]) /\ FirstOf(r[1]) \in 0..MaxTime
    BY <1>1, <1>2, <1>3, <2>1, ScheduleTyped DEF Reached
  <2>3. schedules'[r[1]] # NoSchedule /\ schedules'[r[1]].request = schedules[r[1]].request
    BY <2>1 DEF RunsGrow
  <2> QED
    BY <1>3, <2>1, <2>2, <2>3, ClockAssumption DEF Reached, Occurrence
<1> QED
  BY <1>1, <1>2, <1>3

\* A run that has moved has moved for good.
LEMMA RunMovedStays ==
    ASSUME LedgerGrows, RunsGrow, NEW r \in Run, schedules[r[1]] # NoSchedule, RunMoved(r)
    PROVE  RunMoved(r)'
<1>1. r[1] \in Schedule /\ r \in Key
  BY RunTyped
<1>2. schedules'[r[1]].request = schedules[r[1]].request
  BY <1>1 DEF RunsGrow
<1> QED
  BY <1>1, <1>2 DEF RunMoved, Moved, RunKey, LedgerGrows, TransferOf, TransferLegs

\* What a scheduler relies on stays so whatever others do.
LEMMA SchedulerKnowsOn ==
    ASSUME SchedulerTypeOK, LedgerGrows, RunsGrow, now \in Nat, now' \in Nat, now <= now',
           NEW step, NEW todo, todo \subseteq [run : Run, claimed : BOOLEAN], NEW run,
           SchedulerKnows(step, todo, run)
    PROVE  SchedulerKnows(step, todo, run)'
<1>1. \A e \in todo : e.run \in Run
  OBVIOUS
<1>2. \A r \in Run : Reached(r) => Reached(r)'
  BY ReachedStays
<1>3. step = "recordCompleted" => RunMoved(run)'
  BY RunMovedStays DEF SchedulerKnows, Reached
<1> QED
  BY <1>1, <1>2, <1>3 DEF SchedulerKnows

\* The step of one scheduler, of the ledger and of the tables, put together: what is to
\* be shown is what it writes and what it relies on next.
LEMMA SchedulerMoves ==
    ASSUME TransfersInv, MoneyGrows, RunsGrow, NEW i \in Instance,
           NEW step \in {"idle", "next", "limits", "transfer", "recordCompleted", "recordFailed"},
           NEW todo, todo \subseteq [run : Run, claimed : BOOLEAN], NEW run, run \in Run \cup {NoRun},
           schedStep' = [schedStep EXCEPT ![i] = step], schedQueue' = [schedQueue EXCEPT ![i] = todo],
           schedRun' = [schedRun EXCEPT ![i] = run],
           schedules' \in [Schedule ->
                             [status : {"active", "completed"}, next : Occurrence, request : ScheduleRequest]
                               \cup {NoSchedule}],
           runs' \in [Run -> {"absent", "processing", "completed", "failed"}],
           \A s \in Schedule : ScheduleIsBehind(s)', \A r \in Run : RunIsTrue(r)',
           SchedulerKnows(step, todo, run)'
    PROVE  SchedulerInv'
<1>1. SchedulerTypeOK /\ now \in Nat /\ now' \in Nat /\ now <= now' /\ LedgerGrows
  BY ClockAssumption DEF TransfersInv, SchedulerInv, PaymentsTypeOK, MoneyGrows
<1>2. SchedulerTypeOK'
  BY <1>1 DEF SchedulerTypeOK
<1>3. ASSUME NEW j \in Instance PROVE SchedulerKnows(schedStep[j], schedQueue[j], schedRun[j])'
  <2>1. CASE j = i
    <3>1. schedStep'[j] = step /\ schedQueue'[j] = todo /\ schedRun'[j] = run
      BY <2>1, <1>1 DEF SchedulerTypeOK
    <3> QED
      BY <3>1 DEF SchedulerKnows
  <2>2. CASE j # i
    <3>1. PICK st, q, r : st = schedStep[j] /\ q = schedQueue[j] /\ r = schedRun[j]
      OBVIOUS
    <3>2. schedStep'[j] = st /\ schedQueue'[j] = q /\ schedRun'[j] = r
      BY <2>2, <3>1, <1>1 DEF SchedulerTypeOK
    <3>3. SchedulerKnows(st, q, r) /\ q \subseteq [run : Run, claimed : BOOLEAN]
      BY <3>1, <1>1 DEF TransfersInv, SchedulerInv, SchedulerTypeOK
    <3>4. SchedulerKnows(st, q, r)'
      BY <1>1, <3>3, SchedulerKnowsOn
    <3> QED
      BY <3>2, <3>4 DEF SchedulerKnows
  <2> QED
    BY <2>1, <2>2
<1> QED
  BY <1>2, <1>3 DEF SchedulerInv
\* While the tables stay, what they say stays true; only the key of a run that has been
\* reached is newly used.
LEMMA TablesRest ==
    ASSUME TransfersInv, MoneyGrows, UNCHANGED schedTables,
           \A r \in Run : Unused(r) => Unused(r)' \/ Reached(r)
    PROVE  /\ RunsGrow /\ (\A s \in Schedule : ScheduleIsBehind(s)') /\ (\A r \in Run : RunIsTrue(r)')
           /\ \A r \in Run : Reached(r) => Reached(r)'
<1>1. SchedulerTypeOK /\ now \in Nat /\ now' \in Nat /\ now <= now' /\ LedgerGrows
  BY ClockAssumption DEF TransfersInv, SchedulerInv, PaymentsTypeOK, MoneyGrows
<1>2. RunsGrow /\ schedules' = schedules /\ runs' = runs
  BY DEF schedTables, RunsGrow, Definitive
<1>3. \A r \in Run : Reached(r) => Reached(r)'
  BY <1>1, <1>2, ReachedStays
<1>4. ASSUME NEW s \in Schedule PROVE ScheduleIsBehind(s)'
  <2>1. ScheduleIsBehind(s)
    BY DEF TransfersInv, SchedulerInv
  <2> QED
    BY <1>2, <2>1 DEF ScheduleIsBehind, Behind, FirstOf, Definitive
<1>5. ASSUME NEW r \in Run PROVE RunIsTrue(r)'
  <2>1. RunIsTrue(r)
    BY DEF TransfersInv, SchedulerInv
  <2>2. runs'[r] # "absent" \/ ~Unused(RunKey(r))' => Reached(r)'
    BY <1>2, <1>3, <2>1 DEF RunIsTrue, RunKey, Unused
  <2>3. runs'[r] = "completed" => RunMoved(r)'
    BY <1>1, <1>2, <2>1, RunMovedStays DEF RunIsTrue, Reached
  <2> QED
    BY <2>2, <2>3 DEF RunIsTrue
<1> QED
  BY <1>2, <1>3, <1>4, <1>5

\* The steps of others: the ledger moves on, but under no run's key.
LEMMA SchedulerRests ==
    ASSUME TransfersInv, MoneyGrows, NothingRuns, UNCHANGED schedVars
    PROVE  SchedulerInv'
<1>1. UNCHANGED <<schedTables, schedStep, schedQueue, schedRun>>
  BY DEF schedVars, schedTables
<1>2. RunsGrow /\ (\A s \in Schedule : ScheduleIsBehind(s)') /\ (\A r \in Run : RunIsTrue(r)')
  BY <1>1, TablesRest DEF NothingRuns
<1>3. SchedulerTypeOK /\ now \in Nat /\ now' \in Nat /\ now <= now' /\ LedgerGrows
  BY ClockAssumption DEF TransfersInv, SchedulerInv, PaymentsTypeOK, MoneyGrows
<1>4. SchedulerTypeOK'
  BY <1>1, <1>3 DEF SchedulerTypeOK, schedTables
<1>5. ASSUME NEW j \in Instance PROVE SchedulerKnows(schedStep[j], schedQueue[j], schedRun[j])'
  <2>1. PICK st, q, r : st = schedStep[j] /\ q = schedQueue[j] /\ r = schedRun[j]
    OBVIOUS
  <2>2. SchedulerKnows(st, q, r) /\ q \subseteq [run : Run, claimed : BOOLEAN]
    BY <2>1, <1>3 DEF TransfersInv, SchedulerInv, SchedulerTypeOK
  <2>3. SchedulerKnows(st, q, r)'
    BY <1>2, <1>3, <2>2, SchedulerKnowsOn
  <2> QED
    BY <1>1, <2>1, <2>3 DEF SchedulerKnows
<1> QED
  BY <1>2, <1>4, <1>5 DEF SchedulerInv

\* A scheduler's step that leaves the tables.
LEMMA SchedulerReads ==
    ASSUME TransfersInv, MoneyGrows, UNCHANGED schedTables, NEW i \in Instance,
           \A r \in Run : Unused(r) => Unused(r)' \/ Reached(r),
           NEW step \in {"idle", "next", "limits", "transfer", "recordCompleted", "recordFailed"},
           NEW todo, todo \subseteq [run : Run, claimed : BOOLEAN], NEW run, run \in Run \cup {NoRun},
           schedStep' = [schedStep EXCEPT ![i] = step], schedQueue' = [schedQueue EXCEPT ![i] = todo],
           schedRun' = [schedRun EXCEPT ![i] = run],
           \A e \in todo : Reached(e.run),
           step \in {"limits", "transfer", "recordCompleted", "recordFailed"} => run \in Run /\ Reached(run),
           step = "recordCompleted" => RunMoved(run)'
    PROVE  SchedulerInv'
<1>1. /\ RunsGrow /\ (\A s \in Schedule : ScheduleIsBehind(s)') /\ (\A r \in Run : RunIsTrue(r)')
      /\ \A r \in Run : Reached(r) => Reached(r)'
  BY TablesRest
<1>2. \A e \in todo : e.run \in Run
  OBVIOUS
<1>3. SchedulerKnows(step, todo, run)'
  BY <1>1, <1>2 DEF SchedulerKnows
<1>4. schedules' = schedules /\ runs' = runs /\ SchedulerTypeOK
  BY DEF schedTables, TransfersInv, SchedulerInv
<1>5. /\ schedules' \in [Schedule ->
                           [status : {"active", "completed"}, next : Occurrence, request : ScheduleRequest]
                             \cup {NoSchedule}]
      /\ runs' \in [Run -> {"absent", "processing", "completed", "failed"}]
  BY <1>4 DEF SchedulerTypeOK
<1> QED
  BY <1>1, <1>3, <1>5, SchedulerMoves

\* Where a scheduler stands.
LEMMA SchedulerIs ==
    ASSUME TransfersInv, NEW i \in Instance
    PROVE  /\ schedStep \in [Instance -> {"idle", "next", "limits", "transfer", "recordCompleted", "recordFailed"}]
           /\ schedQueue \in [Instance -> SUBSET [run : Run, claimed : BOOLEAN]]
           /\ schedRun \in [Instance -> Run \cup {NoRun}]
           /\ \A e \in schedQueue[i] : e.run \in Run /\ Reached(e.run)
           /\ schedStep[i] \in {"limits", "transfer", "recordCompleted", "recordFailed"} =>
                schedRun[i] \in Run /\ Reached(schedRun[i])
           /\ schedStep[i] = "recordCompleted" => RunMoved(schedRun[i])
<1>1. SchedulerTypeOK /\ SchedulerKnows(schedStep[i], schedQueue[i], schedRun[i])
  BY DEF TransfersInv, SchedulerInv
<1> QED
  BY <1>1 DEF SchedulerTypeOK, SchedulerKnows

\* A scheduler is done with what it had at hand.
LEMMA GoesOn ==
    ASSUME TransfersInv, UNCHANGED <<moneyVars, schedTables>>, NEW i \in Instance, NEW todo,
           todo \subseteq [run : Run, claimed : BOOLEAN], \A e \in todo : Reached(e.run), GoOn(i, todo)
    PROVE  SchedulerInv'
<1>1. MoneyGrows /\ NothingRuns
  BY LedgerRests
<1>2. PICK step \in {"idle", "next"} : schedStep' = [schedStep EXCEPT ![i] = step]
  BY DEF GoOn
<1> QED
  BY <1>1, <1>2, SchedulerReads DEF GoOn, NothingRuns

\* A scheduler advances within a run.
LEMMA AdvancesWithin ==
    ASSUME TransfersInv, MoneyGrows, UNCHANGED schedTables, NEW i \in Instance,
           \A r \in Run : Unused(r) => Unused(r)' \/ Reached(r),
           schedStep[i] \in {"limits", "transfer"}, NEW next \in {"transfer", "recordCompleted", "recordFailed"},
           Advance(i, next), next = "recordCompleted" => RunMoved(schedRun[i])'
    PROVE  SchedulerInv'
<1>1. PICK todo, run : todo = schedQueue[i] /\ run = schedRun[i]
  OBVIOUS
<1>2. /\ todo \subseteq [run : Run, claimed : BOOLEAN] /\ (\A e \in todo : Reached(e.run))
      /\ run \in Run /\ Reached(run)
      /\ schedQueue' = [schedQueue EXCEPT ![i] = todo] /\ schedRun' = [schedRun EXCEPT ![i] = run]
      /\ schedStep' = [schedStep EXCEPT ![i] = next]
  BY <1>1, SchedulerIs DEF Advance
<1>3. next = "recordCompleted" => RunMoved(run)'
  <2>1. schedRun'[i] = run
    BY <1>2, SchedulerIs
  <2>2. CASE next = "recordCompleted"
    <3>1. RunMoved(schedRun[i])'
      BY <2>2
    <3> QED
      BY <2>1, <3>1 DEF RunMoved
  <2> QED
    BY <2>2
<1> QED
  BY <1>2, <1>3, SchedulerReads
\* A schedule is created: nothing has been done for it yet.
LEMMA CreateKeeps ==
    ASSUME TransfersInv, NEW s \in Schedule, NEW request \in ScheduleRequest, Create(s, request)
    PROVE  SchedulerInv'
<1>1. /\ schedules[s] = NoSchedule /\ UNCHANGED <<moneyVars, runs, schedStep, schedQueue, schedRun>>
      /\ schedules' = [schedules EXCEPT ![s] =
                         [status |-> "active", next |-> request.first, request |-> request]]
  BY DEF Create
<1>2. SchedulerTypeOK /\ now \in Nat /\ MoneyGrows /\ NothingRuns /\ UNCHANGED <<now, vars>>
  BY <1>1, LedgerRests, ClockAssumption DEF TransfersInv, SchedulerInv, PaymentsTypeOK, moneyVars
<1>3. /\ schedules'[s] = [status |-> "active", next |-> request.first, request |-> request]
      /\ \A q \in Schedule \ {s} : schedules'[q] = schedules[q]
      /\ request.first \in 0..MaxTime /\ request.first \in Occurrence
  BY <1>1, <1>2, ScheduleRequestAssumption, ClockAssumption DEF SchedulerTypeOK, Occurrence
<1>4. RunsGrow
  BY <1>1, <1>2, <1>3 DEF RunsGrow, Definitive, SchedulerTypeOK
<1>5. SchedulerTypeOK'
  BY <1>1, <1>2, <1>3 DEF SchedulerTypeOK
<1>6. ASSUME NEW q \in Schedule PROVE ScheduleIsBehind(q)'
  <2>1. CASE q = s
    <3>1. FirstOf(q)' = request.first /\ schedules'[q].next = request.first
      BY <2>1, <1>3 DEF FirstOf
    <3>2. Behind(q, request.first)'
      BY <3>1, <1>3 DEF Behind
    <3> QED
      BY <2>1, <1>3, <3>1, <3>2 DEF ScheduleIsBehind, Behind
  <2>2. CASE q # s
    <3>1. ScheduleIsBehind(q) /\ schedules'[q] = schedules[q]
      BY <2>2, <1>3 DEF TransfersInv, SchedulerInv
    <3> QED
      BY <1>1, <3>1 DEF ScheduleIsBehind, Behind, FirstOf, Definitive
  <2> QED
    BY <2>1, <2>2
<1>7. \A r \in Run : Reached(r) => Reached(r)'
  BY <1>2, <1>4, ReachedStays DEF MoneyGrows
<1>8. ASSUME NEW r \in Run PROVE RunIsTrue(r)'
  <2>1. RunIsTrue(r) /\ r \in Key
    BY RunTyped DEF TransfersInv, SchedulerInv
  <2>2. runs'[r] # "absent" \/ ~Unused(RunKey(r))' => Reached(r)'
    BY <1>1, <1>2, <1>7, <2>1 DEF RunIsTrue, Unused, vars, RunKey
  <2>3. runs'[r] = "completed" => RunMoved(r)'
    BY <1>1, <1>2, <1>4, <2>1, RunMovedStays DEF RunIsTrue, Reached, MoneyGrows
  <2> QED
    BY <2>2, <2>3 DEF RunIsTrue
<1>9. ASSUME NEW j \in Instance PROVE SchedulerKnows(schedStep[j], schedQueue[j], schedRun[j])'
  <2>1. PICK st, q, r : st = schedStep[j] /\ q = schedQueue[j] /\ r = schedRun[j]
    OBVIOUS
  <2>2. SchedulerKnows(st, q, r) /\ q \subseteq [run : Run, claimed : BOOLEAN]
    BY <2>1, <1>2 DEF TransfersInv, SchedulerInv, SchedulerTypeOK
  <2>3. SchedulerKnows(st, q, r)'
    BY <1>2, <1>4, <2>2, SchedulerKnowsOn DEF MoneyGrows
  <2> QED
    BY <1>1, <2>1, <2>3 DEF SchedulerKnows
<1> QED
  BY <1>5, <1>6, <1>8, <1>9 DEF SchedulerInv

\* What is due is reached, and what is stuck has been.
LEMMA SelectionsAreReached ==
    ASSUME TransfersInv
    PROVE  /\ \A s \in Due : <<s, schedules[s].next>> \in Run /\ Reached(<<s, schedules[s].next>>)
           /\ \A r \in Stuck : r \in Run /\ Reached(r)
<1>1. ASSUME NEW s \in Due PROVE <<s, schedules[s].next>> \in Run /\ Reached(<<s, schedules[s].next>>)
  <2>1. s \in Schedule /\ schedules[s].status = "active" /\ schedules[s].next <= now /\ schedules[s] # NoSchedule
    BY DEF Due, NoSchedule
  <2>2. ScheduleIsBehind(s) /\ SchedulerTypeOK /\ now \in 0..MaxTime
    BY <2>1 DEF TransfersInv, SchedulerInv, PaymentsTypeOK
  <2>3. schedules[s].next \in Occurrence /\ FirstOf(s) \in 0..MaxTime
    BY <2>1, <2>2, ScheduleTyped
  <2> QED
    BY <2>1, <2>2, <2>3, ClockAssumption DEF ScheduleIsBehind, Reached, Run, Occurrence
<1>2. ASSUME NEW r \in Stuck PROVE r \in Run /\ Reached(r)
  BY DEF Stuck, TransfersInv, SchedulerInv, RunIsTrue
<1> QED
  BY <1>1, <1>2

\* RunDue and ResolveStuck select what has been reached.
LEMMA SelectsKeep ==
    ASSUME TransfersInv, NEW i \in Instance, RunDue(i) \/ \E batch \in SUBSET Stuck : ResolveStuck(i, batch)
    PROVE  SchedulerInv'
<1>1. UNCHANGED <<moneyVars, schedTables>>
  BY DEF RunDue, ResolveStuck
<1>2. CASE RunDue(i)
  <2> DEFINE todo == {[run |-> <<s, schedules[s].next>>, claimed |-> FALSE] : s \in Due}
  <2>1. GoOn(i, todo)
    BY <1>2 DEF RunDue
  <2>2. ASSUME NEW e \in todo PROVE e \in [run : Run, claimed : BOOLEAN] /\ Reached(e.run)
    <3>1. PICK s \in Due : e = [run |-> <<s, schedules[s].next>>, claimed |-> FALSE]
      OBVIOUS
    <3>2. PICK r : r = <<s, schedules[s].next>>
      OBVIOUS
    <3>3. r \in Run /\ Reached(r) /\ e = [run |-> r, claimed |-> FALSE]
      BY <3>1, <3>2, SelectionsAreReached
    <3> QED
      BY <3>3
  <2> HIDE DEF todo
  <2> QED
    BY <1>1, <2>1, <2>2, GoesOn
<1>3. ASSUME NEW batch \in SUBSET Stuck, ResolveStuck(i, batch) PROVE SchedulerInv'
  <2> DEFINE todo == {[run |-> r, claimed |-> TRUE] : r \in batch}
  <2>1. GoOn(i, todo)
    BY <1>3 DEF ResolveStuck
  <2>2. ASSUME NEW e \in todo PROVE e \in [run : Run, claimed : BOOLEAN] /\ Reached(e.run)
    <3>1. PICK r \in batch : e = [run |-> r, claimed |-> TRUE]
      OBVIOUS
    <3>2. r \in Run /\ Reached(r)
      BY SelectionsAreReached
    <3> QED
      BY <3>1, <3>2
  <2> HIDE DEF todo
  <2> QED
    BY <1>1, <2>1, <2>2, GoesOn
<1> QED
  BY <1>2, <1>3

\* fireOnce claims a run that has been reached, or leaves it to its claimer.
LEMMA NextRunKeeps ==
    ASSUME TransfersInv, NEW i \in Instance, NextRun(i)
    PROVE  SchedulerInv'
<1>1. /\ UNCHANGED <<moneyVars, schedules>> /\ schedStep[i] = "next"
      /\ now \in Nat /\ now' = now /\ MoneyGrows /\ NothingRuns /\ SchedulerTypeOK
  BY LedgerRests, ClockAssumption DEF NextRun, moneyVars, TransfersInv, PaymentsTypeOK, SchedulerInv
<1>2. PICK e \in schedQueue[i] :
        IF e.claimed \/ runs[e.run] = "absent"
        THEN /\ runs' = IF e.claimed THEN runs ELSE [runs EXCEPT ![e.run] = "processing"]
             /\ schedRun' = [schedRun EXCEPT ![i] = e.run]
             /\ schedQueue' = [schedQueue EXCEPT ![i] = @ \ {e}]
             /\ schedStep' = [schedStep EXCEPT ![i] = "limits"]
        ELSE GoOn(i, schedQueue[i] \ {e}) /\ UNCHANGED runs
  BY DEF NextRun
<1>3. PICK todo : todo = schedQueue[i] \ {e}
  OBVIOUS
<1>4. /\ todo \subseteq [run : Run, claimed : BOOLEAN] /\ (\A f \in todo : Reached(f.run))
      /\ e.run \in Run /\ Reached(e.run)
  BY <1>3, SchedulerIs
<1>5. CASE ~(e.claimed \/ runs[e.run] = "absent")
  <2>1. GoOn(i, todo) /\ UNCHANGED <<moneyVars, schedTables>>
    BY <1>1, <1>2, <1>3, <1>5 DEF schedTables
  <2> QED
    BY <1>4, <2>1, GoesOn
<1>6. CASE e.claimed \/ runs[e.run] = "absent"
  <2>1. /\ schedRun' = [schedRun EXCEPT ![i] = e.run] /\ schedQueue' = [schedQueue EXCEPT ![i] = todo]
        /\ schedStep' = [schedStep EXCEPT ![i] = "limits"]
    BY <1>2, <1>3, <1>6
  <2>2. \A r \in Run : runs'[r] = runs[r] \/ (r = e.run /\ runs[r] = "absent" /\ runs'[r] = "processing")
    BY <1>1, <1>2, <1>4, <1>6 DEF SchedulerTypeOK
  <2>3. runs' \in [Run -> {"absent", "processing", "completed", "failed"}]
    BY <1>1, <1>2, <1>4, <1>6 DEF SchedulerTypeOK
  <2>4. RunsGrow
    BY <1>1, <2>2 DEF RunsGrow, Definitive
  <2>5. /\ \A r \in Run : Reached(r) => Reached(r)'
        /\ \A s \in Schedule, t \in Occurrence :
             schedules[s] # NoSchedule /\ Behind(s, t) => Behind(s, t)'
    BY <1>1, <2>4, ReachedStays DEF MoneyGrows
  <2>6. ASSUME NEW s \in Schedule PROVE ScheduleIsBehind(s)'
    <3>1. ScheduleIsBehind(s)
      BY DEF TransfersInv, SchedulerInv
    <3>2. CASE schedules[s] # NoSchedule
      <4>1. FirstOf(s) \in Occurrence /\ schedules[s].next \in Occurrence
        <5>1. FirstOf(s) \in 0..MaxTime /\ schedules[s].next \in Occurrence
          BY <1>1, <3>2, ScheduleTyped
        <5> QED
          BY <5>1, ClockAssumption DEF Occurrence
      <4>2. Behind(s, schedules[s].next)' /\ (Definitive(<<s, FirstOf(s)>>) => Definitive(<<s, FirstOf(s)>>)')
        BY <1>1, <2>4, <2>5, <3>1, <3>2, <4>1 DEF ScheduleIsBehind, Behind, FirstOf, RunsGrow, Run
      <4> QED
        BY <1>1, <3>1, <3>2, <4>2 DEF ScheduleIsBehind, Behind, FirstOf, Definitive
    <3>3. CASE schedules[s] = NoSchedule
      BY <1>1, <3>3 DEF ScheduleIsBehind
    <3> QED
      BY <3>2, <3>3
  <2>7. ASSUME NEW r \in Run PROVE RunIsTrue(r)'
    <3>1. RunIsTrue(r)
      BY DEF TransfersInv, SchedulerInv
    <3>2. runs'[r] # "absent" \/ ~Unused(RunKey(r))' => Reached(r)'
      BY <1>1, <1>4, <2>2, <2>5, <3>1 DEF RunIsTrue, moneyVars, vars, Unused, RunKey
    <3>3. runs'[r] = "completed" => RunMoved(r)'
      BY <1>1, <2>2, <2>4, <3>1, RunMovedStays DEF RunIsTrue, Reached, MoneyGrows
    <3> QED
      BY <3>2, <3>3 DEF RunIsTrue
  <2>8. SchedulerKnows("limits", todo, e.run)'
    <3>1. \A f \in todo : f.run \in Run
      BY <1>4
    <3> QED
      BY <1>4, <2>5, <3>1 DEF SchedulerKnows
  <2>9. schedules' \in [Schedule ->
                          [status : {"active", "completed"}, next : Occurrence, request : ScheduleRequest]
                            \cup {NoSchedule}]
    BY <1>1 DEF SchedulerTypeOK
  <2>a. PICK run : run = e.run
    OBVIOUS
  <2> QED
    BY <1>1, <1>4, <2>a, <2>1, <2>3, <2>4, <2>6, <2>7, <2>8, <2>9, SchedulerMoves
<1> QED
  BY <1>5, <1>6
\* The transfer of a run is posted, replayed or refused under the run's key; when its
\* error is lost the commit may have gone through.
LEMMA RunMoves ==
    ASSUME TransfersInv, NEW i \in Instance, schedStep[i] = "transfer", UNCHANGED schedTables,
           LET o == Order(i)
               key == RunKey(schedRun[i])
           IN  Posts(o.from, o.to, o.amount, key) \/ Replays(o.from, o.to, o.amount, key)
                 \/ Refuses(o.from, o.to, o.amount, key),
           NEW next \in {"recordCompleted", "recordFailed"}, Advance(i, next),
           next = "recordCompleted" =>
               LET o == Order(i)
                   key == RunKey(schedRun[i])
               IN  Posts(o.from, o.to, o.amount, key) \/ Replays(o.from, o.to, o.amount, key)
    PROVE  SchedulerInv'
<1>1. PICK run, o : run = schedRun[i] /\ o = schedules[run[1]].request
  OBVIOUS
<1>2. run \in Run /\ Reached(run) /\ SchedulerTypeOK /\ run[1] \in Schedule /\ schedules[run[1]] # NoSchedule /\ run \in Key
  BY <1>1, SchedulerIs, RunTyped DEF TransfersInv, SchedulerInv, Reached
<1>3. o.from \in Account /\ o.to \in Account /\ o.amount \in Amount
  BY <1>1, <1>2, ScheduleTyped
<1>4. /\ Posts(o.from, o.to, o.amount, run) \/ Replays(o.from, o.to, o.amount, run)
           \/ Refuses(o.from, o.to, o.amount, run)
      /\ next = "recordCompleted" => Posts(o.from, o.to, o.amount, run) \/ Replays(o.from, o.to, o.amount, run)
  BY <1>1 DEF Order, RunKey
<1>5. /\ MoneyGrows /\ \A l \in Key \ {run} : Unused(l) => Unused(l)'
      /\ next = "recordCompleted" => Moved(o.from, o.to, o.amount, run)'
  BY <1>2, <1>3, <1>4, TransferMoves
<1>6. \A r \in Run : Unused(r) => Unused(r)' \/ Reached(r)
  BY <1>2, <1>5, RunTyped
<1>7. schedRun'[i] = run /\ schedules' = schedules
  BY <1>1 DEF Advance, schedTables
<1>8. next = "recordCompleted" => RunMoved(schedRun[i])'
  BY <1>1, <1>5, <1>7 DEF RunMoved, RunKey, Moved, TransferOf, TransferLegs
<1> QED
  BY <1>5, <1>6, <1>8, AdvancesWithin

\* Whatever becomes of it, the ledger has only grown.
LEMMA OrderMoves ==
    ASSUME TransfersInv, NEW i \in Instance, schedStep[i] = "transfer",
           LET o == Order(i)
               key == RunKey(schedRun[i])
           IN  Posts(o.from, o.to, o.amount, key) \/ Replays(o.from, o.to, o.amount, key)
                 \/ Refuses(o.from, o.to, o.amount, key)
    PROVE  MoneyGrows
<1>1. PICK run, o : run = schedRun[i] /\ o = schedules[run[1]].request
  OBVIOUS
<1>2. run \in Run /\ SchedulerTypeOK /\ run[1] \in Schedule /\ schedules[run[1]] # NoSchedule /\ run \in Key
  BY <1>1, SchedulerIs, RunTyped DEF TransfersInv, SchedulerInv, Reached
<1>3. o.from \in Account /\ o.to \in Account /\ o.amount \in Amount
  BY <1>1, <1>2, ScheduleTyped
<1>4. Posts(o.from, o.to, o.amount, run) \/ Replays(o.from, o.to, o.amount, run) \/ Refuses(o.from, o.to, o.amount, run)
  BY <1>1 DEF Order, RunKey
<1> QED
  BY <1>2, <1>3, <1>4, TransferMoves

\* The limits are read, and the transfer made.
LEMMA RunGoesOn ==
    ASSUME TransfersInv, NEW i \in Instance, CheckRunLimits(i) \/ TransferRun(i)
    PROVE  SchedulerInv'
<1>1. CASE CheckRunLimits(i)
  <2>1. PICK next \in {"transfer", "recordFailed"} : Advance(i, next)
    BY <1>1 DEF CheckRunLimits
  <2>2. schedStep[i] = "limits" /\ MoneyGrows /\ NothingRuns /\ UNCHANGED schedTables
    BY <1>1, LedgerRests DEF CheckRunLimits
  <2> QED
    BY <2>1, <2>2, AdvancesWithin DEF NothingRuns
<1>2. CASE TransferRun(i)
  BY <1>2, RunMoves DEF TransferRun
<1> QED
  BY <1>1, <1>2

\* The outcome is recorded, and the schedule set to what follows the run, whatever others
\* have made of either: what precedes the run is resolved, and so is now the run.
LEMMA FinalizeKeeps ==
    ASSUME TransfersInv, NEW i \in Instance, Finalize(i)
    PROVE  SchedulerInv'
<1>1. PICK run, s, o, outcome :
        /\ run = schedRun[i] /\ s = run[1] /\ o = schedules[s].request
        /\ outcome = IF schedStep[i] = "recordCompleted" THEN "completed" ELSE "failed"
  OBVIOUS
<1>2. /\ schedStep[i] \in {"recordCompleted", "recordFailed"} /\ runs' = [runs EXCEPT ![run] = outcome]
      /\ schedules' = IF o.type = "once" THEN [schedules EXCEPT ![s].status = "completed"]
                                         ELSE [schedules EXCEPT ![s].next = run[2] + 1]
      /\ GoOn(i, schedQueue[i]) /\ UNCHANGED moneyVars
  BY <1>1 DEF Finalize, Order, NextOccurrence
<1>3. /\ run \in Run /\ Reached(run) /\ s \in Schedule /\ run = <<s, run[2]>> /\ schedules[s] # NoSchedule
      /\ outcome = "completed" => RunMoved(run)
  BY <1>1, <1>2, SchedulerIs, RunTyped DEF Reached
<1>4. /\ SchedulerTypeOK /\ now \in 0..MaxTime /\ UNCHANGED <<now, vars>> /\ MoneyGrows /\ NothingRuns
      /\ now \in Nat /\ now' \in Nat /\ now <= now' /\ LedgerGrows
  BY <1>2, LedgerRests, ClockAssumption DEF moneyVars, TransfersInv, PaymentsTypeOK, SchedulerInv, MoneyGrows
<1>5. /\ runs'[run] = outcome /\ outcome \in {"completed", "failed"} /\ \A r \in Run \ {run} : runs'[r] = runs[r]
      /\ runs' \in [Run -> {"absent", "processing", "completed", "failed"}]
  BY <1>1, <1>2, <1>3, <1>4 DEF SchedulerTypeOK
<1>6. /\ FirstOf(s) \in 0..MaxTime /\ run[2] \in FirstOf(s)..now /\ run[2] + 1 \in Occurrence
      /\ o.type = "once" => run[2] = FirstOf(s)
      /\ o.type \in {"once", "recurring"} /\ FirstOf(s) = o.first
      /\ o \in ScheduleRequest /\ Behind(s, run[2])
  <2>1. FirstOf(s) \in 0..MaxTime /\ run[2] \in FirstOf(s)..now /\ (o.type = "once" => run[2] = FirstOf(s)) /\ Behind(s, run[2])
    BY <1>1, <1>3, <1>4, ScheduleTyped DEF Reached
  <2>2. o.type \in {"once", "recurring"} /\ FirstOf(s) = o.first /\ o \in ScheduleRequest
    BY <1>1, <1>3, <1>4, ScheduleTyped DEF FirstOf
  <2> QED
    BY <1>4, <2>1, <2>2, ClockAssumption DEF Occurrence
<1>7. PICK row : row = schedules[s]
  OBVIOUS
<1>8. /\ row \in [status : {"active", "completed"}, next : Occurrence, request : ScheduleRequest]
      /\ row.request = o
  BY <1>1, <1>3, <1>4, <1>7 DEF SchedulerTypeOK
<1>9. PICK then : then = schedules'[s]
  OBVIOUS
<1>10. /\ then \in [status : {"active", "completed"}, next : Occurrence, request : ScheduleRequest]
       /\ then.request = o
       /\ o.type = "once" => then.status = "completed" /\ then.next = row.next
       /\ o.type # "once" => then.status = row.status /\ then.next = run[2] + 1
       /\ \A q \in Schedule \ {s} : schedules'[q] = schedules[q]
       /\ schedules' \in [Schedule ->
                            [status : {"active", "completed"}, next : Occurrence, request : ScheduleRequest]
                              \cup {NoSchedule}]
  <2>1. CASE o.type = "once"
    <3>1. schedules' = [schedules EXCEPT ![s] = [row EXCEPT !.status = "completed"]]
      BY <1>2, <1>7, <2>1
    <3>2. PICK new : new = [row EXCEPT !.status = "completed"]
      OBVIOUS
    <3>3. /\ new \in [status : {"active", "completed"}, next : Occurrence, request : ScheduleRequest]
          /\ new.request = o /\ new.status = "completed" /\ new.next = row.next
      BY <1>8, <3>2
    <3> QED
      BY <1>3, <1>4, <1>9, <2>1, <3>1, <3>2, <3>3 DEF SchedulerTypeOK
  <2>2. CASE o.type # "once"
    <3>1. schedules' = [schedules EXCEPT ![s] = [row EXCEPT !.next = run[2] + 1]]
      BY <1>2, <1>7, <2>2
    <3>2. PICK new : new = [row EXCEPT !.next = run[2] + 1]
      OBVIOUS
    <3>3. /\ new \in [status : {"active", "completed"}, next : Occurrence, request : ScheduleRequest]
          /\ new.request = o /\ new.status = row.status /\ new.next = run[2] + 1
      BY <1>6, <1>8, <3>2
    <3> QED
      BY <1>3, <1>4, <1>9, <2>2, <3>1, <3>2, <3>3 DEF SchedulerTypeOK
  <2> QED
    BY <2>1, <2>2
<1>11. then # NoSchedule
  BY <1>10 DEF NoSchedule
<1>12. RunsGrow
  <2>1. \A q \in Schedule : schedules[q] # NoSchedule =>
          schedules'[q] # NoSchedule /\ schedules'[q].request = schedules[q].request
    BY <1>7, <1>8, <1>9, <1>10, <1>11
  <2>2. \A r \in Run : Definitive(r) => Definitive(r)'
    BY <1>5 DEF Definitive
  <2> QED
    BY <2>1, <2>2 DEF RunsGrow
<1>13. /\ \A q \in Schedule : schedules[q] # NoSchedule => FirstOf(q)' = FirstOf(q)
       /\ \A q \in Schedule, t \in Occurrence :
            schedules[q] # NoSchedule /\ Behind(q, t) => Behind(q, t)'
       /\ \A r \in Run : Reached(r) => Reached(r)'
  BY <1>4, <1>12, ReachedStays
<1>14. ASSUME NEW q \in Schedule PROVE ScheduleIsBehind(q)'
  <2>1. ScheduleIsBehind(q)
    BY DEF TransfersInv, SchedulerInv
  <2>2. CASE q # s /\ schedules[q] # NoSchedule
    <3>1. schedules'[q] = schedules[q] /\ FirstOf(q)' = FirstOf(q) /\ FirstOf(q) \in 0..MaxTime /\ schedules[q].next \in Occurrence
      BY <1>4, <1>10, <1>13, <2>2, ScheduleTyped
    <3>2. Behind(q, schedules[q].next)'
      BY <1>13, <2>1, <2>2, <3>1 DEF ScheduleIsBehind, Behind
    <3>3. Definitive(<<q, FirstOf(q)>>) => Definitive(<<q, FirstOf(q)>>)'
      <4>1. <<q, FirstOf(q)>> \in Run
        BY <3>1, ClockAssumption DEF Run, Occurrence
      <4> QED
        BY <1>12, <3>1, <4>1 DEF RunsGrow, Definitive
    <3> QED
      BY <2>1, <2>2, <3>1, <3>2, <3>3 DEF ScheduleIsBehind, Behind, FirstOf, Definitive
  <2>3. CASE q # s /\ schedules[q] = NoSchedule
    BY <1>10, <2>3 DEF ScheduleIsBehind
  <2>4. CASE q = s /\ o.type = "once"
    <3>1. /\ row.next = FirstOf(s) /\ FirstOf(s)' = FirstOf(s) /\ run = <<s, FirstOf(s)>>
          /\ then.next = FirstOf(s) /\ then.status = "completed"
      BY <1>3, <1>6, <1>7, <1>8, <1>10, <1>13, <2>1, <2>4 DEF ScheduleIsBehind
    <3>2. Definitive(<<s, FirstOf(s)>>)'
      BY <1>5, <3>1 DEF Definitive
    <3>3. Behind(s, then.next)'
      BY <1>6, <1>9, <3>1 DEF Behind
    <3> QED
      BY <1>6, <1>9, <1>10, <2>4, <3>1, <3>2, <3>3 DEF ScheduleIsBehind, Behind
  <2>5. CASE q = s /\ o.type # "once"
    <3>1. FirstOf(s)' = FirstOf(s) /\ Behind(s, run[2])'
      BY <1>3, <1>6, <1>13, RunTyped
    <3>2. Definitive(<<s, run[2]>>)'
      BY <1>3, <1>5 DEF Definitive
    <3>3. then.next = run[2] + 1 /\ then.status = row.status /\ row.status # "completed"
      BY <1>7, <1>8, <1>10, <2>1, <2>5, <1>3 DEF ScheduleIsBehind
    <3>4. \A u \in FirstOf(s)..run[2] : u \in FirstOf(s)..(run[2] - 1) \/ u = run[2]
      BY <1>4, <1>6
    <3>5. Behind(s, run[2] + 1)'
      <4>1. (run[2] + 1) - 1 = run[2]
        BY <1>6
      <4> QED
        BY <3>1, <3>2, <3>4, <4>1 DEF Behind
    <3>6. run[2] + 1 >= FirstOf(s)
      BY <1>6
    <3> QED
      BY <1>9, <1>10, <2>5, <3>1, <3>3, <3>5, <3>6 DEF ScheduleIsBehind, Behind
  <2> QED
    BY <2>2, <2>3, <2>4, <2>5
<1>15. ASSUME NEW r \in Run PROVE RunIsTrue(r)'
  <2>1. RunIsTrue(r) /\ r \in Key
    BY RunTyped DEF TransfersInv, SchedulerInv
  <2>2. runs'[r] # "absent" \/ ~Unused(RunKey(r))' => Reached(r)'
    BY <1>3, <1>4, <1>5, <1>13, <2>1 DEF RunIsTrue, Unused, vars, RunKey
  <2>3. runs'[r] = "completed" => RunMoved(r)'
    <3>1. runs'[r] = "completed" => RunMoved(r) /\ schedules[r[1]] # NoSchedule
      BY <1>3, <1>5, <2>1 DEF RunIsTrue, Reached
    <3> QED
      BY <1>4, <1>12, <3>1, RunMovedStays
  <2> QED
    BY <2>2, <2>3 DEF RunIsTrue
<1>16. PICK todo, step :
         /\ todo = schedQueue[i] /\ step \in {"idle", "next"} /\ schedStep' = [schedStep EXCEPT ![i] = step]
  BY <1>2 DEF GoOn
<1>17. /\ todo \subseteq [run : Run, claimed : BOOLEAN] /\ \A e \in todo : e.run \in Run /\ Reached(e.run)
       /\ schedQueue' = [schedQueue EXCEPT ![i] = todo] /\ schedRun' = [schedRun EXCEPT ![i] = NoRun]
  BY <1>2, <1>16, SchedulerIs DEF GoOn
<1>18. PICK none : none = NoRun
  OBVIOUS
<1>19. /\ SchedulerKnows(step, todo, none)' /\ none \in Run \cup {NoRun} /\ schedRun' = [schedRun EXCEPT ![i] = none]
       /\ step \in {"idle", "next", "limits", "transfer", "recordCompleted", "recordFailed"}
  BY <1>13, <1>16, <1>17, <1>18 DEF SchedulerKnows
<1>20. /\ schedules' \in [Schedule ->
                            [status : {"active", "completed"}, next : Occurrence, request : ScheduleRequest]
                              \cup {NoSchedule}]
       /\ runs' \in [Run -> {"absent", "processing", "completed", "failed"}]
  BY <1>5, <1>10
<1>21. todo \subseteq [run : Run, claimed : BOOLEAN] /\ schedQueue' = [schedQueue EXCEPT ![i] = todo]
  BY <1>17
<1>22. MoneyGrows /\ schedStep' = [schedStep EXCEPT ![i] = step]
  BY <1>4, <1>16
<1> QED
  BY <1>12, <1>14, <1>15, <1>19, <1>20, <1>21, <1>22, SchedulerMoves

\* A statement fails: the claim or the finalization is left, or the error recorded.
LEMMA FailSchedulerKeeps ==
    ASSUME TransfersInv, NEW i \in Instance, FailScheduler(i)
    PROVE  SchedulerInv'
<1>1. ASSUME NEW e \in schedQueue[i], GoOn(i, schedQueue[i] \ {e}), UNCHANGED <<moneyVars, schedTables>>
      PROVE  SchedulerInv'
  <2>1. PICK todo : todo = schedQueue[i] \ {e}
    OBVIOUS
  <2>2. todo \subseteq [run : Run, claimed : BOOLEAN] /\ \A f \in todo : Reached(f.run)
    BY <2>1, SchedulerIs
  <2> QED
    BY <1>1, <2>1, <2>2, GoesOn
<1>2. CASE schedStep[i] \in {"limits", "transfer"} /\ Advance(i, "recordFailed") /\ UNCHANGED <<moneyVars, schedTables>>
  BY <1>2, LedgerRests, AdvancesWithin DEF NothingRuns
<1>3. CASE /\ schedStep[i] = "transfer" /\ Advance(i, "recordFailed") /\ UNCHANGED schedTables
           /\ Posts(Order(i).from, Order(i).to, Order(i).amount, RunKey(schedRun[i]))
  BY <1>3, RunMoves
<1>4. CASE GoOn(i, schedQueue[i]) /\ UNCHANGED <<moneyVars, schedTables>>
  <2>1. PICK todo : todo = schedQueue[i]
    OBVIOUS
  <2>2. todo \subseteq [run : Run, claimed : BOOLEAN] /\ \A f \in todo : Reached(f.run)
    BY <2>1, SchedulerIs
  <2> QED
    BY <1>4, <2>1, <2>2, GoesOn
<1> QED
  BY <1>1, <1>2, <1>3, <1>4 DEF FailScheduler

\* A restart forgets what the scheduler had at hand.
LEMMA StopSchedulerKeeps ==
    ASSUME TransfersInv, NEW i \in Instance, StopScheduler(i), UNCHANGED <<moneyVars, schedTables>>
    PROVE  SchedulerInv'
<1>1. MoneyGrows /\ NothingRuns
  BY LedgerRests
<1>2. PICK step, todo, none : step = "idle" /\ todo = {} /\ none = NoRun
  OBVIOUS
<1>3. /\ schedStep' = [schedStep EXCEPT ![i] = step] /\ schedQueue' = [schedQueue EXCEPT ![i] = todo]
      /\ schedRun' = [schedRun EXCEPT ![i] = none]
      /\ todo \subseteq [run : Run, claimed : BOOLEAN] /\ none \in Run \cup {NoRun}
      /\ \A e \in todo : Reached(e.run)
  BY <1>2 DEF StopScheduler
<1> QED
  BY <1>1, <1>2, <1>3, SchedulerReads DEF NothingRuns

\* Every step of a scheduler.
LEMMA SchedulerStepKeeps ==
    ASSUME TransfersInv, NEW i \in Instance, SchedulerStep(i)
    PROVE  SchedulerInv'
  BY SelectsKeep, NextRunKeeps, RunGoesOn, FinalizeKeeps DEF SchedulerStep, WorkOnRun
-----------------------------------------------------------------------------
(***************************************************************************)
(* Held-back sends.                                                        *)
(***************************************************************************)
SenderStep == {"idle", "limits", "history", "limitsAgain", "transfer", "place", "insert",
               "cancelRelease", "cancelMark"}
Sending == [request : SendRequest \cup {NotSending.request}, hold : HoldId \cup {"none"}]
ReleaserStep == {"idle", "claimDue", "next", "release", "transfer", "complete"}
Pending == [status : {"pending", "processing", "completed", "cancelled"},
            request : SendRequest, hold : HoldId, releaseAt : Nat]

PendingsGrow ==
    \A k \in Key : pendings[k] # NoPending =>
        pendings'[k] # NoPending /\ pendings'[k].request = pendings[k].request /\ pendings'[k].hold = pendings[k].hold

\* The rows after a step: typed, with what they were made of, and true.
PendingsGoOn ==
    /\ pendings' \in [Key -> Pending \cup {NoPending}] /\ PendingsGrow
    /\ \A k \in Key : PendingIsTrue(k)'

\* A row, and what a customer asks for.
LEMMA PendingTyped ==
    ASSUME CoolingOffTypeOK, NEW k \in Key, pendings[k] # NoPending
    PROVE  /\ pendings[k] \in Pending /\ pendings[k].request \in SendRequest /\ pendings[k].hold \in HoldId
           /\ pendings[k].status \in {"pending", "processing", "completed", "cancelled"}
  BY DEF CoolingOffTypeOK, Pending

\* What a customer asks for; its key is not that of a run.
LEMMA RequestTyped ==
    ASSUME NEW r \in SendRequest
    PROVE  r.from \in Account /\ r.to \in Account /\ r.amount \in Amount /\ r.key \in Key /\ r.key \notin Run
  BY SendRequestAssumption, SendKeyAssumption

\* A send that has moved has moved for good.
LEMMA SendMovedStays ==
    ASSUME LedgerGrows, PendingsGrow, NEW k \in Key, pendings[k] # NoPending, SendMoved(k)
    PROVE  SendMoved(k)'
  BY DEF SendMoved, Moved, LedgerGrows, PendingsGrow, TransferOf, TransferLegs

\* A step that leaves the rows leaves them true.
LEMMA PendingsRest ==
    ASSUME TransfersInv, LedgerGrows, UNCHANGED pendings
    PROVE  PendingsGoOn
<1>1. CoolingOffTypeOK /\ PendingsGrow
  BY DEF TransfersInv, CoolingOffInv, PendingsGrow
<1>2. ASSUME NEW k \in Key, pendings[k] # NoPending PROVE PendingIsTrue(k)'
  <2>1. PendingIsTrue(k) /\ pendings[k].hold \in HoldId
    BY <1>1, <1>2, PendingTyped DEF TransfersInv, CoolingOffInv
  <2>2. SendMoved(k) => SendMoved(k)'
    BY <1>1, <1>2, SendMovedStays
  <2> QED
    BY <1>2, <2>1, <2>2 DEF PendingIsTrue, LedgerGrows
<1>3. \A k \in Key : PendingIsTrue(k)'
  BY <1>2 DEF PendingIsTrue
<1> QED
  BY <1>1, <1>3 DEF PendingsGoOn, CoolingOffTypeOK, Pending

\* What others rely on stays so.
LEMMA SenderKnowsOn ==
    ASSUME LedgerGrows, PendingsGrow, NEW step, NEW w, SenderKnows(step, w)
    PROVE  SenderKnows(step, w)'
<1>1. w.request \in SendRequest => w.request.key \in Key
  BY RequestTyped
<1> QED
  BY <1>1 DEF SenderKnows, LedgerGrows, PendingsGrow

\* What a goroutine that releases relies on stays true.
LEMMA ReleaserKnowsOn ==
    ASSUME TransfersInv, LedgerGrows, PendingsGrow, NEW step, NEW todo, todo \subseteq Key, NEW k,
           ReleaserKnows(step, todo, k)
    PROVE  ReleaserKnows(step, todo, k)'
<1>1. \A l \in todo : pendings'[l] # NoPending
  BY DEF ReleaserKnows, PendingsGrow
<1>2. CASE step \in {"release", "transfer", "complete"}
  <2>1. k \in Key /\ pendings[k] # NoPending /\ CoolingOffTypeOK /\ PendingIsTrue(k)
    BY <1>2 DEF ReleaserKnows, TransfersInv, CoolingOffInv
  <2>2. pendings[k].hold \in HoldId /\ holds[pendings[k].hold] # NoHold /\ pendings'[k].hold = pendings[k].hold
    BY <2>1, PendingTyped DEF PendingIsTrue, PendingsGrow
  <2>3. holds[pendings[k].hold].status # "active" => holds'[pendings'[k].hold].status # "active"
    BY <2>2 DEF LedgerGrows
  <2>4. SendMoved(k) => SendMoved(k)'
    BY <2>1, SendMovedStays
  <2> QED
    BY <1>1, <2>1, <2>3, <2>4 DEF ReleaserKnows, PendingsGrow
<1>3. CASE step \notin {"release", "transfer", "complete"}
  BY <1>1, <1>3 DEF ReleaserKnows
<1> QED
  BY <1>2, <1>3

\* Where a handler and a releaser stand.
LEMMA SenderIs ==
    ASSUME TransfersInv, NEW c \in Handler
    PROVE  /\ sendStep \in [Handler -> SenderStep] /\ sending \in [Handler -> Sending]
           /\ SenderKnows(sendStep[c], sending[c])
  BY DEF TransfersInv, CoolingOffInv, CoolingOffTypeOK, SenderStep, Sending

\* What the invariant says of a goroutine that releases.
LEMMA ReleaserIs ==
    ASSUME TransfersInv, NEW i \in Instance
    PROVE  /\ relStep \in [Instance -> ReleaserStep] /\ relQueue \in [Instance -> SUBSET Key]
           /\ relRow \in [Instance -> Key \cup {"none"}]
           /\ ReleaserKnows(relStep[i], relQueue[i], relRow[i])
  BY DEF TransfersInv, CoolingOffInv, CoolingOffTypeOK, ReleaserStep

\* The handlers, and the releasers, that do nothing.
LEMMA SendersRest ==
    ASSUME TransfersInv, LedgerGrows, PendingsGrow, NEW c \in Handler,
           sendStep'[c] = sendStep[c], sending'[c] = sending[c]
    PROVE  SenderKnows(sendStep[c], sending[c])'
<1>1. PICK st, w : st = sendStep[c] /\ w = sending[c]
  OBVIOUS
<1>2. SenderKnows(st, w)'
  BY <1>1, SenderIs, SenderKnowsOn
<1> QED
  BY <1>1, <1>2 DEF SenderKnows

\* A goroutine that releases and does nothing goes on relying on what it did.
LEMMA ReleasersRest ==
    ASSUME TransfersInv, LedgerGrows, PendingsGrow, NEW i \in Instance,
           relStep'[i] = relStep[i], relQueue'[i] = relQueue[i], relRow'[i] = relRow[i]
    PROVE  ReleaserKnows(relStep[i], relQueue[i], relRow[i])'
<1>1. PICK st, q, k : st = relStep[i] /\ q = relQueue[i] /\ k = relRow[i]
  OBVIOUS
<1>2. ReleaserKnows(st, q, k) /\ q \subseteq Key
  BY <1>1, ReleaserIs
<1>3. ReleaserKnows(st, q, k)'
  BY <1>2, ReleaserKnowsOn
<1> QED
  BY <1>1, <1>3 DEF ReleaserKnows

\* The steps of others.
LEMMA CoolingOffRests ==
    ASSUME TransfersInv, MoneyGrows, UNCHANGED coolVars
    PROVE  CoolingOffInv'
<1>1. LedgerGrows /\ UNCHANGED <<pendings, sendStep, sending, relStep, relQueue, relRow>> /\ CoolingOffTypeOK
  BY DEF coolVars, MoneyGrows, TransfersInv, CoolingOffInv
<1>2. PendingsGoOn
  BY <1>1, PendingsRest
<1> QED
  BY <1>1, <1>2, SendersRest, ReleasersRest DEF PendingsGoOn, CoolingOffInv, CoolingOffTypeOK

\* The step of one handler.
LEMMA SenderMoves ==
    ASSUME TransfersInv, MoneyGrows, PendingsGoOn, UNCHANGED releaseVars, NEW c \in Handler,
           NEW step \in SenderStep, NEW w \in Sending,
           sendStep' = [sendStep EXCEPT ![c] = step], sending' = [sending EXCEPT ![c] = w],
           SenderKnows(step, w)'
    PROVE  CoolingOffInv'
<1>1. LedgerGrows /\ PendingsGrow /\ UNCHANGED <<relStep, relQueue, relRow>> /\ CoolingOffTypeOK
  BY DEF releaseVars, MoneyGrows, PendingsGoOn, TransfersInv, CoolingOffInv
<1>2. /\ sendStep' \in [Handler -> SenderStep] /\ sending' \in [Handler -> Sending]
      /\ sendStep'[c] = step /\ sending'[c] = w
      /\ \A d \in Handler \ {c} : sendStep'[d] = sendStep[d] /\ sending'[d] = sending[d]
  BY SenderIs
<1>3. CoolingOffTypeOK'
  BY <1>1, <1>2 DEF CoolingOffTypeOK, PendingsGoOn, SenderStep, Sending, Pending
<1>4. ASSUME NEW d \in Handler PROVE SenderKnows(sendStep[d], sending[d])'
  <2>1. CASE d = c
    BY <1>2, <2>1 DEF SenderKnows
  <2>2. CASE d # c
    BY <1>1, <1>2, <2>2, SendersRest
  <2> QED
    BY <2>1, <2>2
<1> QED
  BY <1>1, <1>3, <1>4, ReleasersRest DEF PendingsGoOn, CoolingOffInv

\* The step of one releaser.
LEMMA ReleaserMoves ==
    ASSUME TransfersInv, MoneyGrows, PendingsGoOn, UNCHANGED handlerVars, NEW i \in Instance,
           NEW step \in ReleaserStep, NEW todo, todo \subseteq Key, NEW k, k \in Key \cup {"none"},
           relStep' = [relStep EXCEPT ![i] = step], relQueue' = [relQueue EXCEPT ![i] = todo],
           relRow' = [relRow EXCEPT ![i] = k],
           ReleaserKnows(step, todo, k)'
    PROVE  CoolingOffInv'
<1>1. LedgerGrows /\ PendingsGrow /\ UNCHANGED <<sendStep, sending>> /\ CoolingOffTypeOK
  BY DEF handlerVars, MoneyGrows, PendingsGoOn, TransfersInv, CoolingOffInv
<1>2. /\ relStep' \in [Instance -> ReleaserStep] /\ relQueue' \in [Instance -> SUBSET Key]
      /\ relRow' \in [Instance -> Key \cup {"none"}]
      /\ relStep'[i] = step /\ relQueue'[i] = todo /\ relRow'[i] = k
      /\ \A j \in Instance \ {i} : relStep'[j] = relStep[j] /\ relQueue'[j] = relQueue[j] /\ relRow'[j] = relRow[j]
  BY ReleaserIs
<1>3. CoolingOffTypeOK'
  BY <1>1, <1>2 DEF CoolingOffTypeOK, PendingsGoOn, ReleaserStep, Pending
<1>4. ASSUME NEW j \in Instance PROVE ReleaserKnows(relStep[j], relQueue[j], relRow[j])'
  <2>1. CASE j = i
    BY <1>2, <2>1 DEF ReleaserKnows
  <2>2. CASE j # i
    BY <1>1, <1>2, <2>2, ReleasersRest
  <2> QED
    BY <2>1, <2>2
<1> QED
  BY <1>1, <1>3, <1>4, SendersRest DEF PendingsGoOn, CoolingOffInv
\* A handler has answered.
LEMMA Answers ==
    ASSUME TransfersInv, MoneyGrows, PendingsGoOn, UNCHANGED releaseVars, NEW c \in Handler, Answer(c)
    PROVE  CoolingOffInv'
<1>1. PICK step, w : step = "idle" /\ w = NotSending
  OBVIOUS
<1>2. step \in SenderStep /\ w \in Sending /\ SenderKnows(step, w)'
  BY <1>1 DEF SenderStep, Sending, NotSending, SenderKnows
<1> QED
  BY <1>1, <1>2, SenderMoves DEF Answer

\* A handler goes on with its request.
LEMMA SenderGoesOn ==
    ASSUME TransfersInv, MoneyGrows, PendingsGoOn, UNCHANGED releaseVars, NEW c \in Handler,
           NEW step \in SenderStep, Continue(c, step), sendStep[c] # "idle",
           step # "insert", step = "cancelRelease" => FALSE, step = "cancelMark" => sendStep[c] = "cancelRelease"
    PROVE  CoolingOffInv'
<1>1. PICK st, w : st = sendStep[c] /\ w = sending[c]
  OBVIOUS
<1>2. w \in Sending /\ SenderKnows(st, w) /\ sending' = [sending EXCEPT ![c] = w]
  BY <1>1, SenderIs DEF Continue
<1>3. SenderKnows(st, w)'
  BY <1>2, SenderKnowsOn DEF MoneyGrows, PendingsGoOn
<1>4. SenderKnows(step, w)'
  BY <1>1, <1>3 DEF SenderKnows
<1> QED
  BY <1>2, <1>4, SenderMoves DEF Continue

\* Send and Cancel begin.
LEMMA StartsKeep ==
    ASSUME TransfersInv, NEW c \in Handler,
           \/ \E r \in SendRequest : StartSend(c, r)
           \/ \E k \in Key : LookUpPending(c, k)
    PROVE  CoolingOffInv'
<1>1. UNCHANGED <<moneyVars, pendings, releaseVars>> /\ sendStep[c] = "idle"
  BY DEF StartSend, LookUpPending
<1>2. MoneyGrows /\ PendingsGoOn /\ LedgerGrows /\ PendingsGrow
  BY <1>1, LedgerRests, PendingsRest DEF MoneyGrows, PendingsGoOn
<1>3. PICK old \in Sending : old = sending[c]
  BY SenderIs
<1>4. ASSUME NEW r \in SendRequest, StartSend(c, r) PROVE CoolingOffInv'
  <2>1. PICK step, w : step = "limits" /\ w = [old EXCEPT !.request = r]
    OBVIOUS
  <2>2. sendStep' = [sendStep EXCEPT ![c] = step] /\ sending' = [sending EXCEPT ![c] = w]
    BY <1>3, <1>4, <2>1, SenderIs DEF StartSend
  <2>3. w \in Sending /\ w.request = r
    BY <1>3, <2>1 DEF Sending
  <2>4. SenderKnows(step, w)' /\ step \in SenderStep
    BY <2>1, <2>3 DEF SenderKnows, SenderStep
  <2> QED
    BY <1>1, <1>2, <2>2, <2>3, <2>4, SenderMoves
<1>5. ASSUME NEW k \in Key, LookUpPending(c, k) PROVE CoolingOffInv'
  <2>1. PICK r, h : r = pendings[k].request /\ h = pendings[k].hold
    OBVIOUS
  <2>2. pendings[k] # NoPending /\ CoolingOffTypeOK /\ PendingIsTrue(k)
    BY <1>5 DEF LookUpPending, NoPending, TransfersInv, CoolingOffInv
  <2>3. r \in SendRequest /\ h \in HoldId /\ r.key = k /\ holds[h] # NoHold
    BY <2>1, <2>2, PendingTyped DEF PendingIsTrue
  <2>4. PICK step, w : step = "cancelRelease" /\ w = [old EXCEPT !.request = r, !.hold = h]
    OBVIOUS
  <2>5. sendStep' = [sendStep EXCEPT ![c] = step] /\ sending' = [sending EXCEPT ![c] = w]
    BY <1>3, <1>5, <2>1, <2>4, SenderIs DEF LookUpPending
  <2>6. w \in Sending /\ w.request = r /\ w.hold = h /\ step \in SenderStep
    BY <1>3, <2>3, <2>4 DEF Sending, SenderStep
  <2>7. SenderKnows(step, w)
    BY <2>2, <2>3, <2>4, <2>6 DEF SenderKnows
  <2>8. SenderKnows(step, w)'
    BY <1>2, <2>7, SenderKnowsOn
  <2> QED
    BY <1>1, <1>2, <2>5, <2>6, <2>8, SenderMoves
<1> QED
  BY <1>4, <1>5

\* What a handler that serves a request knows of it.
LEMMA Serves ==
    ASSUME TransfersInv, NEW c \in Handler, sendStep[c] # "idle"
    PROVE  /\ sending[c] \in Sending /\ sending[c].request \in SendRequest
           /\ sending[c].request.from \in Account /\ sending[c].request.to \in Account
           /\ sending[c].request.amount \in Amount /\ sending[c].request.key \in Key \ Run
<1>1. PICK w : w = sending[c]
  OBVIOUS
<1>2. w \in Sending /\ w.request \in SendRequest
  BY <1>1, SenderIs DEF SenderKnows
<1> QED
  BY <1>1, <1>2, RequestTyped

\* A step of a handler that only reads.
LEMMA SenderReads ==
    ASSUME TransfersInv, UNCHANGED <<moneyVars, pendings, releaseVars>>, NEW c \in Handler, sendStep[c] # "idle",
           Answer(c) \/ \E step \in {"history", "limitsAgain", "transfer", "place"} : Continue(c, step)
    PROVE  CoolingOffInv' /\ MoneyGrows /\ NothingRuns
<1>1. MoneyGrows /\ NothingRuns
  BY LedgerRests
<1>2. PendingsGoOn
  BY <1>1, PendingsRest DEF MoneyGrows
<1>3. CASE Answer(c)
  BY <1>1, <1>2, <1>3, Answers
<1>4. ASSUME NEW step \in {"history", "limitsAgain", "transfer", "place"}, Continue(c, step) PROVE CoolingOffInv'
  BY <1>1, <1>2, <1>4, SenderGoesOn DEF SenderStep
<1> QED
  BY <1>1, <1>3, <1>4

\* The statements of Send that read, and the transfer at once, whose key is no run's.
LEMMA SendGoesOn ==
    ASSUME TransfersInv, NEW c \in Handler, CheckSendLimits(c) \/ WeighRisk(c) \/ TransferNow(c)
    PROVE  CoolingOffInv' /\ MoneyGrows /\ NothingRuns
<1>1. CASE CheckSendLimits(c)
  <2>1. sendStep[c] # "idle" /\ UNCHANGED <<moneyVars, pendings, releaseVars>>
    BY <1>1 DEF CheckSendLimits
  <2>2. Answer(c) \/ \E step \in {"history", "limitsAgain", "transfer", "place"} : Continue(c, step)
    BY <1>1 DEF CheckSendLimits
  <2> QED
    BY <2>1, <2>2, SenderReads
<1>2. CASE WeighRisk(c)
  <2>1. PICK step \in {"history", "limitsAgain", "transfer", "place"} : Continue(c, step)
    BY <1>2, Zenon DEF WeighRisk
  <2>2. sendStep[c] # "idle" /\ UNCHANGED <<moneyVars, pendings, releaseVars>>
    BY <1>2 DEF WeighRisk
  <2> QED
    BY <2>1, <2>2, SenderReads
<1>3. CASE TransferNow(c)
  <2>1. PICK r : r = sending[c].request
    OBVIOUS
  <2>2. /\ sendStep[c] = "transfer" /\ Answer(c) /\ UNCHANGED <<pendings, releaseVars>>
        /\ \/ Posts(r.from, r.to, r.amount, r.key)
           \/ Replays(r.from, r.to, r.amount, r.key)
           \/ Refuses(r.from, r.to, r.amount, r.key)
    BY <1>3, <2>1 DEF TransferNow
  <2>3. r.from \in Account /\ r.to \in Account /\ r.amount \in Amount /\ r.key \in Key \ Run
    BY <2>1, <2>2, Serves
  <2>4. MoneyGrows /\ \A l \in Key \ {r.key} : Unused(l) => Unused(l)'
    BY <2>2, <2>3, TransferMoves
  <2>5. NothingRuns
    BY <2>3, <2>4, RunTyped DEF NothingRuns
  <2>6. PendingsGoOn
    BY <2>2, <2>4, PendingsRest DEF MoneyGrows
  <2> QED
    BY <2>2, <2>4, <2>5, <2>6, Answers
<1> QED
  BY <1>1, <1>2, <1>3

\* Send places its hold, or finds too little money.
LEMMA PlaceSendHoldKeeps ==
    ASSUME TransfersInv, NEW c \in Handler, PlaceSendHold(c)
    PROVE  CoolingOffInv' /\ MoneyGrows /\ NothingRuns
<1>1. PICK r : r = sending[c].request
  OBVIOUS
<1>2. sendStep[c] = "place" /\ UNCHANGED <<now, sentToday, pendings, releaseVars>>
  BY DEF PlaceSendHold
<1>3. r.from \in Account /\ r.amount \in Amount /\ r \in SendRequest
  BY <1>1, <1>2, Serves
<1>4. ASSUME NEW h \in HoldId, PlaceHold(h, r.from, r.amount),
             sending' = [sending EXCEPT ![c].hold = h], sendStep' = [sendStep EXCEPT ![c] = "insert"]
      PROVE  CoolingOffInv' /\ MoneyGrows /\ NothingRuns
  <2>1. MoneyGrows /\ NothingRuns
    BY <1>2, <1>3, <1>4, HoldMoves
  <2>2. PendingsGoOn
    BY <1>2, <2>1, PendingsRest DEF MoneyGrows
  <2>3. PICK step, w : step = "insert" /\ w = [sending[c] EXCEPT !.hold = h]
    OBVIOUS
  <2>4. /\ w \in Sending /\ w.request = r /\ w.hold = h /\ step \in SenderStep
        /\ sending' = [sending EXCEPT ![c] = w]
    BY <1>1, <1>4, <2>3, SenderIs DEF Sending, SenderStep
  <2>5. holds'[h] # NoHold
    BY <1>4 DEF PlaceHold, TransfersInv, PaymentsTypeOK, TypeOK, NoHold
  <2>6. SenderKnows(step, w)'
    BY <1>3, <2>3, <2>4, <2>5 DEF SenderKnows
  <2> QED
    BY <1>2, <1>4, <2>1, <2>2, <2>3, <2>4, <2>6, SenderMoves
<1>5. CASE Answer(c) /\ UNCHANGED vars
  BY <1>2, <1>5, SenderReads DEF moneyVars
<1> QED
  BY <1>1, <1>4, <1>5 DEF PlaceSendHold

\* Cancel gives the hold back, or finds it resolved.
LEMMA ReleaseCancelledKeeps ==
    ASSUME TransfersInv, NEW c \in Handler, ReleaseCancelled(c)
    PROVE  CoolingOffInv' /\ MoneyGrows /\ NothingRuns
<1>1. PICK h : h = sending[c].hold
  OBVIOUS
<1>2. sendStep[c] = "cancelRelease" /\ UNCHANGED <<now, sentToday, pendings, releaseVars>>
  BY DEF ReleaseCancelled
<1>3. h \in HoldId
  BY <1>1, <1>2, SenderIs DEF SenderKnows
<1>4. CASE ReleaseHold(h) /\ Continue(c, "cancelMark")
  <2>1. MoneyGrows /\ NothingRuns
    BY <1>2, <1>3, <1>4, HoldMoves
  <2>2. PendingsGoOn
    BY <1>2, <2>1, PendingsRest DEF MoneyGrows
  <2> QED
    BY <1>2, <1>4, <2>1, <2>2, SenderGoesOn DEF SenderStep
<1>5. CASE Answer(c) /\ UNCHANGED vars
  BY <1>2, <1>5, SenderReads DEF moneyVars
<1> QED
  BY <1>1, <1>4, <1>5 DEF ReleaseCancelled
\* One row is written: it keeps what it was made of, and what it says is true.
LEMMA RowWritten ==
    ASSUME TransfersInv, LedgerGrows, NEW k \in Key, NEW row \in Pending, pendings' = [pendings EXCEPT ![k] = row],
           pendings[k] # NoPending => row.request = pendings[k].request /\ row.hold = pendings[k].hold,
           row.request.key = k, holds'[row.hold] # NoHold,
           row.status = "completed" =>
               /\ Moved(row.request.from, row.request.to, row.request.amount, k)'
               /\ holds'[row.hold].status # "active"
    PROVE  PendingsGoOn
<1>1. pendings \in [Key -> Pending \cup {NoPending}] /\ CoolingOffTypeOK
  BY DEF TransfersInv, CoolingOffInv, CoolingOffTypeOK, Pending
<1>2. /\ pendings'[k] = row /\ \A l \in Key \ {k} : pendings'[l] = pendings[l]
      /\ pendings' \in [Key -> Pending \cup {NoPending}] /\ row # NoPending
  BY <1>1 DEF Pending, NoPending
<1>3. PendingsGrow
  BY <1>2 DEF PendingsGrow
<1>4. ASSUME NEW l \in Key, pendings'[l] # NoPending PROVE PendingIsTrue(l)'
  <2>1. CASE l = k
    BY <1>2, <2>1 DEF PendingIsTrue, SendMoved, Moved, TransferOf, TransferLegs
  <2>2. CASE l # k
    <3>1. pendings'[l] = pendings[l] /\ pendings[l] # NoPending /\ PendingIsTrue(l) /\ pendings[l].hold \in HoldId
      BY <1>1, <1>2, <1>4, <2>2, PendingTyped DEF TransfersInv, CoolingOffInv
    <3>2. SendMoved(l) => SendMoved(l)'
      BY <1>3, <3>1, SendMovedStays
    <3> QED
      BY <3>1, <3>2 DEF PendingIsTrue, LedgerGrows
  <2> QED
    BY <2>1, <2>2
<1> QED
  BY <1>2, <1>3, <1>4 DEF PendingsGoOn, PendingIsTrue

\* Send inserts its row under its key, unless there is one.
LEMMA RecordPendingKeeps ==
    ASSUME TransfersInv, NEW c \in Handler, RecordPending(c)
    PROVE  CoolingOffInv' /\ MoneyGrows /\ NothingRuns
<1>1. PICK r, h : r = sending[c].request /\ h = sending[c].hold
  OBVIOUS
<1>2. /\ sendStep[c] = "insert" /\ UNCHANGED <<moneyVars, releaseVars>> /\ Answer(c)
      /\ pendings' = IF pendings[r.key] # NoPending THEN pendings
                     ELSE [pendings EXCEPT ![r.key] =
                             [status |-> "pending", request |-> r, hold |-> h, releaseAt |-> now + Window]]
  BY <1>1 DEF RecordPending
<1>3. MoneyGrows /\ NothingRuns /\ LedgerGrows
  BY <1>2, LedgerRests DEF MoneyGrows
<1>4. r \in SendRequest /\ r.key \in Key /\ h \in HoldId /\ holds[h] # NoHold /\ now + Window \in Nat
  <2>1. r \in SendRequest /\ h \in HoldId /\ holds[h] # NoHold
    BY <1>1, <1>2, SenderIs DEF SenderKnows
  <2> QED
    BY <2>1, RequestTyped, CoolingOffAssumption, ClockAssumption DEF TransfersInv, PaymentsTypeOK
<1>5. CASE pendings[r.key] # NoPending
  BY <1>2, <1>3, <1>5, PendingsRest, Answers
<1>6. CASE pendings[r.key] = NoPending
  <2>1. PICK row : row = [status |-> "pending", request |-> r, hold |-> h, releaseAt |-> now + Window]
    OBVIOUS
  <2>2. row \in Pending /\ row.request = r /\ row.hold = h /\ row.status = "pending"
    BY <1>4, <2>1 DEF Pending
  <2>3. pendings' = [pendings EXCEPT ![r.key] = row] /\ holds' = holds
    BY <1>2, <1>6, <2>1 DEF moneyVars, vars
  <2>4. PendingsGoOn
    BY <1>3, <1>4, <1>6, <2>2, <2>3, RowWritten
  <2> QED
    BY <1>2, <1>3, <2>4, Answers
<1> QED
  BY <1>3, <1>5, <1>6

\* A row's status is set, whatever it has been.
LEMMA Remarked ==
    ASSUME TransfersInv, UNCHANGED moneyVars, NEW k \in Key, pendings[k] # NoPending,
           NEW status \in {"cancelled", "completed"}, pendings' = [pendings EXCEPT ![k].status = status],
           status = "completed" => SendMoved(k) /\ holds[pendings[k].hold].status # "active"
    PROVE  PendingsGoOn
<1>1. PICK old \in Pending : old = pendings[k]
  BY PendingTyped DEF TransfersInv, CoolingOffInv
<1>2. PICK row : row = [old EXCEPT !.status = status]
  OBVIOUS
<1>3. row \in Pending /\ row.request = old.request /\ row.hold = old.hold /\ row.status = status
  BY <1>2 DEF Pending
<1>4. pendings' = [pendings EXCEPT ![k] = row]
  BY <1>1, <1>2
<1>5. PendingIsTrue(k) /\ holds' = holds /\ txns' = txns /\ LedgerGrows
  BY LedgerRests DEF TransfersInv, CoolingOffInv, moneyVars, vars, MoneyGrows
<1>6. row.request.key = k /\ holds'[row.hold] # NoHold
  BY <1>1, <1>3, <1>5 DEF PendingIsTrue
<1>7. row.status = "completed" =>
        /\ Moved(row.request.from, row.request.to, row.request.amount, k)'
        /\ holds'[row.hold].status # "active"
  BY <1>1, <1>3, <1>5 DEF SendMoved, Moved, Unused, TransferOf, TransferLegs
<1> QED
  BY <1>1, <1>3, <1>4, <1>5, <1>6, <1>7, RowWritten

\* Cancel marks the row it has looked up.
LEMMA MarkCancelledKeeps ==
    ASSUME TransfersInv, NEW c \in Handler, MarkCancelled(c)
    PROVE  CoolingOffInv' /\ MoneyGrows /\ NothingRuns
<1>1. PICK k : k = sending[c].request.key
  OBVIOUS
<1>2. /\ sendStep[c] = "cancelMark" /\ UNCHANGED <<moneyVars, releaseVars>> /\ Answer(c)
      /\ pendings' = [pendings EXCEPT ![k].status = "cancelled"]
  BY <1>1 DEF MarkCancelled
<1>3. k \in Key /\ pendings[k] # NoPending
  BY <1>1, <1>2, SenderIs, Serves DEF SenderKnows
<1>4. PendingsGoOn
  BY <1>2, <1>3, Remarked
<1> QED
  BY <1>2, <1>4, LedgerRests, Answers

\* Every step of a handler, and the loss of its request.
LEMMA SenderStepKeeps ==
    ASSUME TransfersInv, NEW c \in Handler, SendStep(c) \/ LoseSend(c)
    PROVE  CoolingOffInv' /\ MoneyGrows /\ NothingRuns
<1>1. CASE LoseSend(c)
  BY <1>1, SenderReads DEF LoseSend
<1> QED
  BY <1>1, SendGoesOn, PlaceSendHoldKeeps, RecordPendingKeeps, ReleaseCancelledKeeps, MarkCancelledKeeps DEF SendStep
\* A releaser goes to its next row, or is done.
LEMMA NextRowKeeps ==
    ASSUME TransfersInv, MoneyGrows, PendingsGoOn, UNCHANGED handlerVars, NEW i \in Instance,
           NEW todo, todo \subseteq Key, \A l \in todo : pendings'[l] # NoPending, NextRow(i, todo)
    PROVE  CoolingOffInv'
<1>1. PICK step \in {"idle", "next"} : relStep' = [relStep EXCEPT ![i] = step]
  BY DEF NextRow
<1>2. PICK k : k = "none"
  OBVIOUS
<1>3. /\ step \in ReleaserStep /\ k \in Key \cup {"none"} /\ ReleaserKnows(step, todo, k)'
      /\ relQueue' = [relQueue EXCEPT ![i] = todo] /\ relRow' = [relRow EXCEPT ![i] = k]
  BY <1>2 DEF NextRow, ReleaserStep, ReleaserKnows
<1> QED
  BY <1>1, <1>3, ReleaserMoves

\* The rows a releaser has claimed are there.
LEMMA QueuedArePresent ==
    ASSUME TransfersInv, NEW i \in Instance
    PROVE  relQueue[i] \subseteq Key /\ \A l \in relQueue[i] : pendings[l] # NoPending
  BY ReleaserIs DEF ReleaserKnows

\* Taking the next claimed row, or ending the pass, keeps the invariant.
LEMMA NextRowRests ==
    ASSUME TransfersInv, MoneyGrows, UNCHANGED <<pendings, handlerVars>>, NEW i \in Instance,
           NextRow(i, relQueue[i])
    PROVE  CoolingOffInv'
<1>1. PICK todo : todo = relQueue[i]
  OBVIOUS
<1>2. PendingsGoOn
  BY PendingsRest DEF MoneyGrows
<1>3. todo \subseteq Key /\ \A l \in todo : pendings'[l] # NoPending
  BY <1>1, QueuedArePresent
<1> QED
  BY <1>1, <1>2, <1>3, NextRowKeeps

\* A releaser proceeds with its row.
LEMMA ReleaserGoesOn ==
    ASSUME TransfersInv, MoneyGrows, UNCHANGED <<pendings, handlerVars>>, NEW i \in Instance,
           relStep[i] \in {"release", "transfer"}, NEW step \in {"transfer", "complete"}, Proceed(i, step),
           holds'[pendings[relRow[i]].hold].status # "active",
           step = "complete" => LET r == pendings[relRow[i]].request IN Moved(r.from, r.to, r.amount, r.key)'
    PROVE  CoolingOffInv'
<1>1. PICK st, todo, k : st = relStep[i] /\ todo = relQueue[i] /\ k = relRow[i]
  OBVIOUS
<1>2. ReleaserKnows(st, todo, k) /\ todo \subseteq Key
  BY <1>1, ReleaserIs
<1>3. PendingsGoOn
  BY PendingsRest DEF MoneyGrows
<1>4. k \in Key /\ pendings[k] # NoPending /\ PendingIsTrue(k)
  BY <1>1, <1>2 DEF ReleaserKnows, TransfersInv, CoolingOffInv
<1>5. PICK r : r = pendings[k].request
  OBVIOUS
<1>6. relRow' = relRow /\ pendings' = pendings
  BY DEF Proceed
<1>7. step = "complete" => Moved(r.from, r.to, r.amount, k)'
  BY <1>1, <1>4, <1>5, <1>6 DEF PendingIsTrue, Moved, TransferOf, TransferLegs
<1>8. step = "complete" => SendMoved(k)'
  BY <1>5, <1>6, <1>7 DEF SendMoved, Moved, TransferOf, TransferLegs
<1>9. ReleaserKnows(step, todo, k)'
  BY <1>1, <1>2, <1>4, <1>6, <1>8 DEF ReleaserKnows
<1>10. /\ relStep' = [relStep EXCEPT ![i] = step] /\ relQueue' = [relQueue EXCEPT ![i] = todo]
       /\ relRow' = [relRow EXCEPT ![i] = k] /\ step \in ReleaserStep
  BY <1>1, ReleaserIs DEF Proceed, ReleaserStep
<1> QED
  BY <1>2, <1>3, <1>4, <1>9, <1>10, ReleaserMoves

\* The two statements that claim.
LEMMA ClaimsKeep ==
    ASSUME TransfersInv, NEW i \in Instance,
           \/ \E batch \in SUBSET InProcessing : ClaimStuck(i, batch)
           \/ \E batch \in SUBSET Matured : ClaimDue(i, batch)
    PROVE  CoolingOffInv' /\ MoneyGrows /\ NothingRuns
<1>1. UNCHANGED <<moneyVars, handlerVars>> /\ MoneyGrows /\ NothingRuns /\ LedgerGrows
  BY LedgerRests DEF ClaimStuck, ClaimDue, MoneyGrows
<1>2. CoolingOffTypeOK
  BY DEF TransfersInv, CoolingOffInv
<1>3. ASSUME NEW batch \in SUBSET InProcessing, ClaimStuck(i, batch) PROVE CoolingOffInv'
  <2>1. PICK step, k : step = "claimDue" /\ k = relRow[i]
    OBVIOUS
  <2>2. batch \subseteq Key /\ \A l \in batch : pendings[l] # NoPending
    BY DEF InProcessing, NoPending
  <2>3. PendingsGoOn /\ pendings' = pendings
    BY <1>1, <1>3, PendingsRest DEF ClaimStuck
  <2>4. step \in ReleaserStep /\ k \in Key \cup {"none"} /\ ReleaserKnows(step, batch, k)'
    BY <2>1, <2>2, <2>3, ReleaserIs DEF ReleaserStep, ReleaserKnows
  <2>5. /\ relStep' = [relStep EXCEPT ![i] = step] /\ relQueue' = [relQueue EXCEPT ![i] = batch]
        /\ relRow' = [relRow EXCEPT ![i] = k]
    BY <1>3, <2>1, ReleaserIs DEF ClaimStuck
  <2> QED
    BY <1>1, <2>2, <2>3, <2>4, <2>5, ReleaserMoves
<1>4. ASSUME NEW batch \in SUBSET Matured, ClaimDue(i, batch) PROVE CoolingOffInv'
  <2>1. /\ pendings' = [k \in Key |-> IF k \in batch THEN [pendings[k] EXCEPT !.status = "processing"]
                                                   ELSE pendings[k]]
        /\ NextRow(i, relQueue[i] \cup batch)
    BY <1>4 DEF ClaimDue
  <2>2. batch \subseteq Key /\ \A k \in batch : pendings[k] # NoPending
    BY DEF Matured, NoPending
  <2>3. ASSUME NEW k \in Key
        PROVE  /\ pendings'[k] \in Pending \cup {NoPending} /\ PendingIsTrue(k)'
               /\ pendings[k] # NoPending => pendings'[k] # NoPending
                    /\ pendings'[k].request = pendings[k].request /\ pendings'[k].hold = pendings[k].hold
    <3>1. holds' = holds /\ txns' = txns /\ PendingIsTrue(k)
      BY <1>1 DEF moneyVars, vars, TransfersInv, CoolingOffInv
    <3>2. CASE k \notin batch
      <4>1. pendings'[k] = pendings[k] /\ pendings[k] \in Pending \cup {NoPending}
        BY <1>2, <2>1, <3>2 DEF CoolingOffTypeOK, Pending
      <4> QED
        BY <3>1, <4>1 DEF PendingIsTrue, SendMoved, Moved, Unused, TransferOf, TransferLegs
    <3>3. CASE k \in batch
      <4>1. PICK old \in Pending : old = pendings[k] /\ old # NoPending
        BY <1>2, <2>2, <3>3, PendingTyped
      <4>2. PICK row : row = [old EXCEPT !.status = "processing"]
        OBVIOUS
      <4>3. row \in Pending /\ row.request = old.request /\ row.hold = old.hold /\ row.status = "processing" /\ row # NoPending
        BY <4>2 DEF Pending, NoPending
      <4>4. pendings'[k] = row
        BY <2>1, <3>3, <4>1, <4>2
      <4> QED
        BY <3>1, <4>1, <4>3, <4>4 DEF PendingIsTrue
    <3> QED
      BY <3>2, <3>3
  <2>4. PendingsGoOn
    <3>1. PendingsGrow
      BY <2>3 DEF PendingsGrow
    <3>2. pendings' \in [Key -> Pending \cup {NoPending}]
      BY <2>1, <2>3
    <3> QED
      BY <2>3, <3>1, <3>2 DEF PendingsGoOn
  <2>5. PICK todo : todo = relQueue[i] \cup batch
    OBVIOUS
  <2>6. todo \subseteq Key /\ \A l \in todo : pendings'[l] # NoPending
    BY <2>2, <2>3, <2>5, QueuedArePresent
  <2> QED
    BY <1>1, <2>1, <2>4, <2>5, <2>6, NextRowKeeps
<1> QED
  BY <1>1, <1>3, <1>4

\* A releaser takes a row it has claimed.
LEMMA TakeClaimedKeeps ==
    ASSUME TransfersInv, NEW i \in Instance, TakeClaimed(i)
    PROVE  CoolingOffInv' /\ MoneyGrows /\ NothingRuns
<1>1. UNCHANGED <<moneyVars, pendings, handlerVars>> /\ MoneyGrows /\ NothingRuns
  BY LedgerRests DEF TakeClaimed
<1>2. PendingsGoOn
  BY <1>1, PendingsRest DEF MoneyGrows
<1>3. PICK k \in relQueue[i] : relRow' = [relRow EXCEPT ![i] = k] /\ relQueue' = [relQueue EXCEPT ![i] = @ \ {k}]
  BY DEF TakeClaimed
<1>4. PICK step, todo : step = "release" /\ todo = relQueue[i] \ {k}
  OBVIOUS
<1>5. /\ step \in ReleaserStep /\ todo \subseteq Key /\ k \in Key
      /\ pendings[k] # NoPending /\ \A l \in todo : pendings[l] # NoPending
  BY <1>4, QueuedArePresent DEF ReleaserStep
<1>6. ReleaserKnows(step, todo, k)'
  BY <1>1, <1>4, <1>5 DEF ReleaserKnows
<1>7. relStep' = [relStep EXCEPT ![i] = step] /\ relQueue' = [relQueue EXCEPT ![i] = todo]
  BY <1>3, <1>4 DEF TakeClaimed
<1> QED
  BY <1>1, <1>2, <1>3, <1>5, <1>6, <1>7, ReleaserMoves

\* What a releaser that works on a row knows of it.
LEMMA WorksOn ==
    ASSUME TransfersInv, NEW i \in Instance, relStep[i] \in {"release", "transfer", "complete"}
    PROVE  /\ relRow[i] \in Key /\ pendings[relRow[i]] # NoPending /\ PendingIsTrue(relRow[i])
           /\ pendings[relRow[i]].request \in SendRequest /\ pendings[relRow[i]].request.key = relRow[i]
           /\ pendings[relRow[i]].hold \in HoldId /\ holds[pendings[relRow[i]].hold] # NoHold
           /\ relStep[i] \in {"transfer", "complete"} => holds[pendings[relRow[i]].hold].status # "active"
           /\ relStep[i] = "complete" => SendMoved(relRow[i])
<1>1. ReleaserKnows(relStep[i], relQueue[i], relRow[i]) /\ CoolingOffTypeOK
  BY ReleaserIs DEF TransfersInv, CoolingOffInv
<1>2. relRow[i] \in Key /\ pendings[relRow[i]] # NoPending /\ PendingIsTrue(relRow[i])
  BY <1>1 DEF ReleaserKnows, TransfersInv, CoolingOffInv
<1> QED
  BY <1>1, <1>2, PendingTyped DEF ReleaserKnows, PendingIsTrue

\* The hold of a matured row is given back, or has been.
LEMMA ReleaseMaturedHoldKeeps ==
    ASSUME TransfersInv, NEW i \in Instance, ReleaseMaturedHold(i)
    PROVE  CoolingOffInv' /\ MoneyGrows /\ NothingRuns
<1>1. PICK h : h = pendings[relRow[i]].hold
  OBVIOUS
<1>2. /\ relStep[i] = "release" /\ UNCHANGED <<now, sentToday, pendings, handlerVars>> /\ Proceed(i, "transfer")
      /\ ReleaseHold(h) \/ (holds[h].status # "active" /\ UNCHANGED vars)
  BY <1>1 DEF ReleaseMaturedHold
<1>3. h \in HoldId /\ TypeOK
  BY <1>1, <1>2, WorksOn DEF TransfersInv, PaymentsTypeOK
<1>4. MoneyGrows /\ NothingRuns /\ holds'[h].status # "active"
  <2>1. CASE ReleaseHold(h)
    <3>1. holds[h] \in Hold /\ holds' = [holds EXCEPT ![h].status = "released"]
      BY <1>3, <2>1 DEF ReleaseHold, ResolveHold, TypeOK, NoHold
    <3> QED
      BY <1>2, <1>3, <2>1, <3>1, HoldMoves DEF Hold, TypeOK
  <2>2. CASE holds[h].status # "active" /\ UNCHANGED vars
    BY <1>2, <2>2, LedgerRests DEF moneyVars, vars
  <2> QED
    BY <1>2, <2>1, <2>2
<1> QED
  BY <1>1, <1>2, <1>4, ReleaserGoesOn

\* The transfer of a matured row is made under its key, which is no run's, or refused.
LEMMA PayKeeps ==
    ASSUME TransfersInv, NEW i \in Instance, Pay(i)
    PROVE  CoolingOffInv' /\ MoneyGrows /\ NothingRuns
<1>1. PICK r : r = pendings[relRow[i]].request
  OBVIOUS
<1>2. relStep[i] = "transfer" /\ UNCHANGED <<pendings, handlerVars>>
  BY DEF Pay
<1>3. /\ \/ /\ Posts(r.from, r.to, r.amount, r.key) \/ Replays(r.from, r.to, r.amount, r.key)
            /\ Proceed(i, "complete")
         \/ Refuses(r.from, r.to, r.amount, r.key) /\ NextRow(i, relQueue[i])
  BY <1>1 DEF Pay
<1>4. r.from \in Account /\ r.to \in Account /\ r.amount \in Amount /\ r.key \in Key /\ r.key \notin Run
  BY <1>1, <1>2, WorksOn, RequestTyped
<1>5. /\ MoneyGrows /\ \A l \in Key \ {r.key} : Unused(l) => Unused(l)'
      /\ Posts(r.from, r.to, r.amount, r.key) \/ Replays(r.from, r.to, r.amount, r.key)
           => Moved(r.from, r.to, r.amount, r.key)'
  BY <1>3, <1>4, TransferMoves
<1>6. NothingRuns
  BY <1>4, <1>5, RunTyped DEF NothingRuns
<1>7. CASE /\ Posts(r.from, r.to, r.amount, r.key) \/ Replays(r.from, r.to, r.amount, r.key)
           /\ Proceed(i, "complete")
  <2>1. Moved(r.from, r.to, r.amount, r.key)'
    BY <1>5, <1>7
  <2>2. LET q == pendings[relRow[i]].request IN Moved(q.from, q.to, q.amount, q.key)'
    BY <1>1, <1>2, <1>7, <2>1 DEF Proceed, Moved, TransferOf, TransferLegs
  <2>3. holds'[pendings[relRow[i]].hold].status # "active"
    BY <1>2, <1>5, WorksOn DEF MoneyGrows, LedgerGrows
  <2>4. CoolingOffInv'
    BY <1>2, <1>5, <1>7, <2>2, <2>3, ReleaserGoesOn
  <2> QED
    BY <1>5, <1>6, <2>4
<1>8. CASE NextRow(i, relQueue[i])
  BY <1>2, <1>5, <1>6, <1>8, NextRowRests
<1> QED
  BY <1>3, <1>7, <1>8

\* The row is marked completed: its money has moved.
LEMMA MarkPaidKeeps ==
    ASSUME TransfersInv, NEW i \in Instance, MarkPaid(i)
    PROVE  CoolingOffInv' /\ MoneyGrows /\ NothingRuns
<1>1. PICK k, todo : k = relRow[i] /\ todo = relQueue[i]
  OBVIOUS
<1>2. /\ relStep[i] = "complete" /\ UNCHANGED <<moneyVars, handlerVars>> /\ NextRow(i, todo)
      /\ pendings' = [pendings EXCEPT ![k].status = "completed"]
  BY <1>1 DEF MarkPaid
<1>3. k \in Key /\ pendings[k] # NoPending /\ SendMoved(k) /\ holds[pendings[k].hold].status # "active"
  BY <1>1, <1>2, WorksOn
<1>4. PendingsGoOn /\ MoneyGrows /\ NothingRuns
  BY <1>2, <1>3, Remarked, LedgerRests
<1>5. todo \subseteq Key /\ \A l \in todo : pendings'[l] # NoPending
  BY <1>1, <1>4, QueuedArePresent DEF PendingsGoOn, PendingsGrow
<1> QED
  BY <1>2, <1>4, <1>5, NextRowKeeps

\* Every step of a releaser.
LEMMA ReleaseStepKeeps ==
    ASSUME TransfersInv, NEW i \in Instance, ReleaseStep(i)
    PROVE  CoolingOffInv' /\ MoneyGrows /\ NothingRuns
  BY ClaimsKeep, TakeClaimedKeeps, ReleaseMaturedHoldKeeps, PayKeeps, MarkPaidKeeps DEF ReleaseStep, WorkOnRow

\* A statement of a releaser fails, or its instance restarts.
LEMMA FailReleaseKeeps ==
    ASSUME TransfersInv, NEW i \in Instance, UNCHANGED <<moneyVars, pendings, handlerVars>>,
           FailRelease(i) \/ StopRelease(i)
    PROVE  CoolingOffInv'
<1>1. MoneyGrows
  BY LedgerRests
<1>2. PendingsGoOn
  BY <1>1, PendingsRest DEF MoneyGrows
<1>3. CASE FailRelease(i)
  <2>1. PICK todo : todo = IF relStep[i] = "claimDue" THEN {} ELSE relQueue[i]
    OBVIOUS
  <2>2. todo \subseteq Key /\ \A l \in todo : pendings'[l] # NoPending
    BY <2>1, QueuedArePresent
  <2>3. NextRow(i, todo)
    BY <1>3, <2>1 DEF FailRelease
  <2> QED
    BY <1>1, <1>2, <2>2, <2>3, NextRowKeeps
<1>4. CASE StopRelease(i)
  <2>1. PICK todo : todo = {}
    OBVIOUS
  <2>2. NextRow(i, todo)
    BY <1>4, <2>1 DEF StopRelease, NextRow
  <2> QED
    BY <1>1, <1>2, <2>1, <2>2, NextRowKeeps
<1> QED
  BY <1>3, <1>4

-----------------------------------------------------------------------------
(***************************************************************************)
(* The theorems.                                                           *)
(***************************************************************************)
\* Nothing is scheduled, held back or under way at first.
LEMMA TransfersInitially == TransfersInit => TransfersInv
<1> SUFFICES ASSUME TransfersInit PROVE TransfersInv
  OBVIOUS
<1>1. Init /\ now = 0 /\ sentToday = [o \in Identity |-> 0] /\ SchedulerInit /\ CoolingOffInit
  BY DEF TransfersInit, PaymentsInit
<1>2. PaymentsTypeOK
  BY <1>1, InitTyped, ClockAssumption DEF PaymentsTypeOK
<1>3. \A k \in Key : Unused(k)
  BY <1>1 DEF Init, Unused
<1>4. SchedulerInv
  <2>1. SchedulerTypeOK
    BY <1>1 DEF SchedulerInit, SchedulerTypeOK
  <2>2. \A s \in Schedule : ScheduleIsBehind(s)
    BY <1>1 DEF SchedulerInit, ScheduleIsBehind
  <2>3. \A r \in Run : RunIsTrue(r)
    BY <1>1, <1>3, RunTyped DEF SchedulerInit, RunIsTrue, RunKey
  <2>4. \A i \in Instance : SchedulerKnows(schedStep[i], schedQueue[i], schedRun[i])
    BY <1>1 DEF SchedulerInit, SchedulerKnows
  <2> QED
    BY <2>1, <2>2, <2>3, <2>4 DEF SchedulerInv
<1>5. CoolingOffInv
  <2>1. CoolingOffTypeOK
    BY <1>1 DEF CoolingOffInit, CoolingOffTypeOK, NotSending
  <2>2. /\ \A k \in Key : PendingIsTrue(k)
        /\ \A c \in Handler : SenderKnows(sendStep[c], sending[c])
        /\ \A i \in Instance : ReleaserKnows(relStep[i], relQueue[i], relRow[i])
    BY <1>1 DEF CoolingOffInit, PendingIsTrue, SenderKnows, ReleaserKnows
  <2> QED
    BY <2>1, <2>2 DEF CoolingOffInv
<1> QED
  BY <1>2, <1>4, <1>5 DEF TransfersInv

\* Every step of the schedulers, releasers, handlers and customers, of the clock, every
\* failure and every restart.
LEMMA TransfersStep == TransfersInv /\ [TransfersNext]_allVars => TransfersInv'
<1> SUFFICES ASSUME TransfersInv, [TransfersNext]_allVars PROVE TransfersInv'
  OBVIOUS
<1>0. MoneyGrows => PaymentsTypeOK'
  BY DEF MoneyGrows
<1>1. CASE OpenAnAccount
  <2>1. PICK a \in Account, o \in Overdraft : OpenAccount(a, o)
    BY <1>1 DEF OpenAnAccount
  <2>2. UNCHANGED <<now, sentToday, schedVars, coolVars, txns>> /\ TypeOK /\ now \in Int
    BY <1>1, <2>1 DEF OpenAnAccount, OpenAccount, TransfersInv, PaymentsTypeOK
  <2>3. TypeOK' /\ LedgerGrows
    BY <2>1, <2>2, LedgerStep DEF Next
  <2>4. MoneyGrows /\ NothingRuns
    BY <2>2, <2>3 DEF TransfersInv, PaymentsTypeOK, MoneyGrows, NothingRuns, Unused
  <2> QED
    BY <1>0, <2>2, <2>4, SchedulerRests, CoolingOffRests DEF TransfersInv
<1>2. CASE Tick /\ UNCHANGED <<schedVars, coolVars, bounds>>
  <2>1. /\ now < MaxTime /\ now' = now + 1 /\ UNCHANGED vars
        /\ sentToday' \in {sentToday, [o \in Identity |-> 0]}
    BY <1>2 DEF Tick
  <2>2. TypeOK /\ now \in 0..MaxTime /\ sentToday \in [Identity -> Nat]
    BY DEF TransfersInv, PaymentsTypeOK
  <2>3. TypeOK' /\ LedgerGrows
    BY <2>1, <2>2, LedgerStep
  <2>4. now' \in 0..MaxTime /\ now <= now' /\ sentToday' \in [Identity -> Nat]
    BY <2>1, <2>2, ClockAssumption
  <2>5. MoneyGrows /\ NothingRuns
    BY <2>1, <2>3, <2>4 DEF PaymentsTypeOK, MoneyGrows, NothingRuns, Unused, vars
  <2> QED
    BY <1>0, <1>2, <2>5, SchedulerRests, CoolingOffRests DEF TransfersInv
<1>3. CASE CustomerAsks
  <2>1. ASSUME NEW s \in Schedule, NEW r \in ScheduleRequest, Create(s, r), UNCHANGED coolVars PROVE TransfersInv'
    <3>1. MoneyGrows
      BY <2>1, LedgerRests DEF Create
    <3> QED
      BY <1>0, <2>1, <3>1, CreateKeeps, CoolingOffRests DEF TransfersInv
  <2>2. ASSUME NEW c \in Handler, UNCHANGED schedVars,
               (\E r \in SendRequest : StartSend(c, r)) \/ (\E k \in Key : LookUpPending(c, k))
        PROVE  TransfersInv'
    <3>1. MoneyGrows /\ NothingRuns
      BY <2>2, LedgerRests DEF StartSend, LookUpPending
    <3> QED
      BY <1>0, <2>2, <3>1, StartsKeep, SchedulerRests DEF TransfersInv
  <2> QED
    BY <1>3, <2>1, <2>2 DEF CustomerAsks
<1>4. CASE SomethingFails
  <2>1. ASSUME NEW i \in Instance, FailScheduler(i), UNCHANGED coolVars PROVE TransfersInv'
    <3>1. MoneyGrows
      <4>1. CASE UNCHANGED moneyVars
        BY <4>1, LedgerRests
      <4>2. CASE /\ schedStep[i] = "transfer"
                 /\ Posts(Order(i).from, Order(i).to, Order(i).amount, RunKey(schedRun[i]))
        BY <4>2, OrderMoves
      <4> QED
        BY <2>1, <4>1, <4>2 DEF FailScheduler
    <3> QED
      BY <1>0, <2>1, <3>1, FailSchedulerKeeps, CoolingOffRests DEF TransfersInv
  <2>2. ASSUME NEW i \in Instance, FailRelease(i), UNCHANGED schedVars PROVE TransfersInv'
    <3>1. UNCHANGED <<moneyVars, pendings, handlerVars>>
      BY <2>2 DEF FailRelease
    <3> QED
      BY <1>0, <2>2, <3>1, LedgerRests, FailReleaseKeeps, SchedulerRests DEF TransfersInv
  <2>3. ASSUME NEW c \in Handler, LoseSend(c), UNCHANGED schedVars PROVE TransfersInv'
    BY <1>0, <2>3, SenderStepKeeps, SchedulerRests DEF TransfersInv
  <2> QED
    BY <1>4, <2>1, <2>2, <2>3 DEF SomethingFails
<1>5. ASSUME NEW c \in Handler, SendStep(c), UNCHANGED schedVars PROVE TransfersInv'
  BY <1>0, <1>5, SenderStepKeeps, SchedulerRests DEF TransfersInv
<1>6. ASSUME NEW i \in Instance, Scheduling(i) PROVE TransfersInv'
  <2>1. SchedulerStep(i) /\ UNCHANGED coolVars
    BY <1>6 DEF Scheduling
  <2>2. MoneyGrows
    <3>1. CASE UNCHANGED moneyVars
      BY <3>1, LedgerRests
    <3>2. CASE TransferRun(i)
      <4>1. schedStep[i] = "transfer"
        BY <3>2 DEF TransferRun
      <4>2. LET o == Order(i)
                key == RunKey(schedRun[i])
            IN  Posts(o.from, o.to, o.amount, key) \/ Replays(o.from, o.to, o.amount, key)
                  \/ Refuses(o.from, o.to, o.amount, key)
        BY <3>2 DEF TransferRun
      <4> QED
        BY <4>1, <4>2, OrderMoves
    <3> QED
      BY <2>1, <3>1, <3>2
      DEF SchedulerStep, WorkOnRun, RunDue, ResolveStuck, NextRun, CheckRunLimits, Finalize
  <2> QED
    BY <1>0, <2>1, <2>2, SchedulerStepKeeps, CoolingOffRests DEF TransfersInv
<1>7. ASSUME NEW i \in Instance, Releasing(i) PROVE TransfersInv'
  BY <1>0, <1>7, ReleaseStepKeeps, SchedulerRests DEF TransfersInv, Releasing
<1>8. ASSUME NEW i \in Instance, Restart(i) PROVE TransfersInv'
  <2>1. UNCHANGED <<moneyVars, schedTables, pendings, handlerVars>> /\ StopScheduler(i) /\ StopRelease(i)
    BY <1>8 DEF Restart
  <2> QED
    BY <1>0, <2>1, LedgerRests, StopSchedulerKeeps, FailReleaseKeeps DEF TransfersInv
<1>9. CASE UNCHANGED allVars
  <2>1. UNCHANGED <<moneyVars, schedVars, coolVars>>
    BY <1>9 DEF allVars
  <2> QED
    BY <1>0, <2>1, LedgerRests, SchedulerRests, CoolingOffRests DEF TransfersInv
<1> QED
  BY <1>1, <1>2, <1>3, <1>4, <1>5, <1>6, <1>7, <1>8, <1>9 DEF TransfersNext

\* A run and a send that are recorded as completed have moved their money, and the
\* send's hold is gone (scheduler.go ResolveStuck, release.go ReleaseMatured).
THEOREM CompletedTransfersMoved == TransfersSpec => []CompletedMoved
<1>1. TransfersInv => CompletedMoved
  <2> SUFFICES ASSUME TransfersInv PROVE CompletedMoved
    OBVIOUS
  <2>1. CompletedRunMoved
    BY DEF TransfersInv, SchedulerInv, RunIsTrue, CompletedRunMoved
  <2>2. ASSUME NEW k \in Key, pendings[k].status = "completed"
        PROVE  SendMoved(k) /\ holds[pendings[k].hold].status # "active"
    <3>1. PendingIsTrue(k) /\ pendings[k] # NoPending
      BY <2>2 DEF TransfersInv, CoolingOffInv, NoPending
    <3> QED
      BY <2>2, <3>1 DEF PendingIsTrue
  <2> QED
    BY <2>1, <2>2 DEF CompletedMoved, CompletedSendMoved
<1> QED
  BY <1>1, TransfersInitially, TransfersStep, PTL DEF TransfersSpec

\* No occurrence before next_run_at is missing or still open, and nothing has moved for
\* one that is not due (scheduler.go RunDue, executeAndFinalize).
THEOREM OccurrencesAreResolved == TransfersSpec => []NoOccurrenceSkipped
<1>1. TransfersInv => NoOccurrenceSkipped
  <2> SUFFICES ASSUME TransfersInv, NEW s \in Schedule, schedules[s] # NoSchedule, NEW t \in Occurrence
               PROVE  /\ schedules[s].request.type = "recurring"
                           /\ t \in schedules[s].request.first..(schedules[s].next - 1) => Definitive(<<s, t>>)
                      /\ schedules[s].status = "completed" /\ t = schedules[s].request.first
                           => Definitive(<<s, t>>)
                      /\ ~Unused(RunKey(<<s, t>>)) => t \in schedules[s].request.first..now
    BY DEF NoOccurrenceSkipped
  <2>1. ScheduleIsBehind(s) /\ <<s, t>> \in Run
    BY DEF TransfersInv, SchedulerInv, Run
  <2>2. RunIsTrue(<<s, t>>)
    BY <2>1 DEF TransfersInv, SchedulerInv
  <2>3. ~Unused(RunKey(<<s, t>>)) => t \in FirstOf(s)..now
    BY <2>2 DEF RunIsTrue, Reached
  <2> QED
    BY <2>1, <2>3 DEF ScheduleIsBehind, Behind, FirstOf
<1> QED
  BY <1>1, TransfersInitially, TransfersStep, PTL DEF TransfersSpec
=============================================================================
