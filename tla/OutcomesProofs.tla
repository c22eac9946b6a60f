---------------------------- MODULE OutcomesProofs ----------------------------
(***************************************************************************)
(* What webhooks and reconciliation make of a transfer's outcome, and that *)
(* no occurrence of a recurring bill is passed over, for any number of     *)
(* instances, transfers, endpoints and failures.  All of them read rows    *)
(* first and act on what they have read later, without a look at what      *)
(* another instance has made of the row since.  The first invariants count *)
(* the instances that still hold a reading: what one may yet add and what  *)
(* has been added before are together never more than one for each.        *)
(***************************************************************************)
EXTENDS Webhooks, Reconciliation, Bills, TLAPS, FiniteSetTheorems

Status == {"absent", "pending", "completed", "failed"}

\* A part of the instances has at most as many members as there are.
LEMMA PartOfInstances ==
    ASSUME NEW S, S \subseteq Instance
    PROVE  /\ IsFiniteSet(S) /\ Cardinality(S) \in Nat /\ Cardinality(Instance) \in Nat
           /\ Cardinality(S) <= Cardinality(Instance)
           /\ \A T : T \subseteq S => Cardinality(T) <= Cardinality(S)
           /\ \A i \in S : Cardinality(S \ {i}) = Cardinality(S) - 1
<1>1. IsFiniteSet(S) /\ Cardinality(S) <= Cardinality(Instance)
  BY InstanceAssumption, FS_Subset
<1>2. Cardinality(S) \in Nat /\ Cardinality(Instance) \in Nat
  BY <1>1, InstanceAssumption, FS_CardinalityType
<1>3. \A T : T \subseteq S => Cardinality(T) <= Cardinality(S)
  BY <1>1, FS_Subset
<1>4. \A i \in S : Cardinality(S \ {i}) = Cardinality(S) - 1
  BY <1>1, FS_RemoveElement
<1> QED
  BY <1>1, <1>2, <1>3, <1>4

-----------------------------------------------------------------------------
(***************************************************************************)
(* Reconciliation.                                                         *)
(***************************************************************************)
Outcome == {"completed", "failed"}
Reading == [line : Transfer, status : {"pending"} \cup Outcome]
Breaks == [amount_mismatch : Nat, unexpected_settlement : Nat]
MatchSteps == {"idle", "mirror", "select", "match"}

ReconciliationType ==
    /\ transfers \in [Transfer -> Status]
    /\ had \in [Transfer -> SUBSET Outcome]
    /\ lines \in [Transfer -> {"none", "unmatched", "matched", "break"}]
    /\ breaks \in [Transfer -> Breaks]
    /\ matchStep \in [Instance -> MatchSteps]
    /\ matchQueue = [i \in Instance |-> matchQueue[i]]

\* A transfer is there before its line, and an outcome that it has is one that
\* it has had.
OutcomesAreKept ==
    \A t \in Transfer :
        /\ lines[t] # "none" => transfers[t] # "absent"
        /\ Terminal(t) => transfers[t] \in had[t]

\* What was read of a transfer may be long out of date; but an outcome that was
\* read the transfer has had.
Honest(r) ==
    /\ r \in Reading /\ lines[r.line] # "none"
    /\ r.status = "pending" \/ r.status \in had[r.line]

QueuesAreHonest ==
    \A i \in Instance :
        /\ matchStep[i] \in {"idle", "select"} => matchQueue[i] = {}
        /\ matchStep[i] = "mirror" => \A t \in matchQueue[i] : t \in Transfer /\ transfers[t] # "absent"
        /\ matchStep[i] = "match" => \A r \in matchQueue[i] : Honest(r)
        /\ matchStep[i] = "match" => \A r \in matchQueue[i], q \in matchQueue[i] : r.line = q.line => r = q

\* The instances that have the line yet to resolve.
Readers(t) == {i \in Instance : matchStep[i] = "match" /\ \E r \in matchQueue[i] : r.line = t}

ReadersAreCounted(t) == BreaksOf(t) + Cardinality(Readers(t)) <= Cardinality(Instance)

ReconciliationInv ==
    /\ ReconciliationType /\ OutcomesAreKept /\ QueuesAreHonest
    /\ \A t \in Transfer : LineHasGrounds(t) /\ ReadersAreCounted(t)

\* A line without breaks has room for those of every reader.
LEMMA NoBreaksYet ==
    ASSUME NEW t \in Transfer
    PROVE  /\ breaks[t] = NoBreaks => ReadersAreCounted(t)
           /\ breaks'[t] = NoBreaks => ReadersAreCounted(t)'
<1>1. /\ breaks[t] = NoBreaks => BreaksOf(t) = 0
      /\ breaks'[t] = NoBreaks => BreaksOf(t)' = 0
  BY DEF BreaksOf, NoBreaks
<1>2. Readers(t) \subseteq Instance /\ Readers(t)' \subseteq Instance
  BY DEF Readers
<1> QED
  BY <1>1, <1>2, PartOfInstances DEF ReadersAreCounted

\* A line that nobody writes keeps its grounds, and is counted as before when it
\* loses readers.
LEMMA SameLine ==
    ASSUME ReconciliationInv, NEW t \in Transfer, breaks'[t] = breaks[t], lines'[t] = lines[t],
           had[t] \subseteq had'[t], Readers(t)' \subseteq Readers(t)
    PROVE  LineHasGrounds(t)' /\ ReadersAreCounted(t)'
<1>1. LineHasGrounds(t)'
  BY DEF ReconciliationInv, LineHasGrounds
<1>2. Readers(t) \subseteq Instance /\ Readers(t)' \subseteq Instance
  BY DEF Readers
<1>3. /\ Cardinality(Readers(t)) \in Nat /\ Cardinality(Readers(t)') \in Nat
      /\ Cardinality(Instance) \in Nat /\ Cardinality(Readers(t)') <= Cardinality(Readers(t))
  BY <1>2, PartOfInstances
<1>4. BreaksOf(t) \in Nat /\ BreaksOf(t)' = BreaksOf(t)
  BY DEF ReconciliationInv, ReconciliationType, Breaks, BreaksOf
<1>5. BreaksOf(t) + Cardinality(Readers(t)) <= Cardinality(Instance)
  BY DEF ReconciliationInv, ReadersAreCounted
<1>6. BreaksOf(t)' + Cardinality(Readers(t)') <= Cardinality(Instance)
  BY <1>3, <1>4, <1>5
<1> QED
  BY <1>1, <1>6 DEF ReadersAreCounted

\* At first there are neither lines nor instances at work.
LEMMA ReconciliationInitially == OutcomesInit /\ ReconciliationInit => ReconciliationInv
<1> SUFFICES ASSUME OutcomesInit, ReconciliationInit PROVE ReconciliationInv
  OBVIOUS
<1>1. ReconciliationType /\ QueuesAreHonest /\ OutcomesAreKept
  BY DEF OutcomesInit, ReconciliationInit, ReconciliationType, QueuesAreHonest, OutcomesAreKept, Status,
         Breaks, NoBreaks, MatchSteps, Terminal
<1>2. ASSUME NEW t \in Transfer PROVE LineHasGrounds(t) /\ ReadersAreCounted(t)
  <2>1. breaks[t] = NoBreaks /\ lines[t] = "none"
    BY DEF ReconciliationInit
  <2> QED
    BY <2>1, NoBreaksYet DEF LineHasGrounds, NoBreaks
<1> QED
  BY <1>1, <1>2 DEF ReconciliationInv

\* What others do with a transfer, whose outcome they may change or take back:
\* what a line, a break or a reading has from it has still been true.
LEMMA MovingTransfersKeeps ==
    ASSUME ReconciliationInv, NEW t \in Transfer, TransferMoves(t)
    PROVE  ReconciliationInv'
<1>1. UNCHANGED <<lines, breaks, matchStep, matchQueue>> /\ ReconciliationType
  BY DEF TransferMoves, matchVars, ReconciliationInv
<1>2. PICK s \in {"pending"} \cup Outcome :
        /\ transfers' = [transfers EXCEPT ![t] = s]
        /\ had' = [had EXCEPT ![t] = @ \cup ({s} \ {"pending"})]
  <2>1. CASE Submit(t) /\ UNCHANGED had
    <3>1. had' = [had EXCEPT ![t] = @ \cup ({"pending"} \ {"pending"})]
      BY <1>1, <2>1 DEF ReconciliationType
    <3> QED
      BY <2>1, <3>1 DEF Submit
  <2>2. CASE /\ Settle(t) \/ Overwrite(t)
             /\ had' = [had EXCEPT ![t] = @ \cup ({transfers'[t]} \ {"pending"})]
    <3>1. PICK s \in {"pending"} \cup Outcome : transfers' = [transfers EXCEPT ![t] = s]
      BY <2>2 DEF Settle, Overwrite, Outcome
    <3>2. transfers'[t] = s
      BY <1>1, <3>1 DEF ReconciliationType
    <3> QED
      BY <2>2, <3>1, <3>2
  <2> QED
    BY <2>1, <2>2 DEF TransferMoves
<1>3. /\ transfers'[t] = s /\ transfers' \in [Transfer -> Status]
      /\ \A u \in Transfer \ {t} : transfers'[u] = transfers[u] /\ had'[u] = had[u]
      /\ \A u \in Transfer : had[u] \subseteq had'[u]
      /\ s # "pending" => s \in had'[t]
      /\ had' \in [Transfer -> SUBSET Outcome]
  BY <1>1, <1>2 DEF ReconciliationType, Status, Outcome
<1>4. ReconciliationType'
  BY <1>1, <1>3 DEF ReconciliationType
<1>5. OutcomesAreKept'
  BY <1>1, <1>3 DEF ReconciliationInv, OutcomesAreKept, Terminal, Outcome
<1>6. ASSUME NEW r, Honest(r) PROVE Honest(r)'
  BY <1>1, <1>3, <1>6 DEF Honest, Reading
<1>7. \A u \in Transfer : transfers[u] # "absent" => transfers'[u] # "absent"
  BY <1>3 DEF Outcome
<1>8. QueuesAreHonest'
  BY <1>1, <1>6, <1>7 DEF ReconciliationInv, QueuesAreHonest
<1>9. \A u \in Transfer : Readers(u)' = Readers(u)
  BY <1>1 DEF Readers
<1>10. \A u \in Transfer : LineHasGrounds(u)' /\ ReadersAreCounted(u)'
  BY <1>1, <1>3, <1>9, SameLine
<1> QED
  BY <1>4, <1>5, <1>8, <1>10 DEF ReconciliationInv

\* An instance that goes on with fewer rows loses readings and makes none.
LEMMA GoingOnKeeps ==
    ASSUME ReconciliationInv, NEW i \in Instance, matchStep[i] \in {"mirror", "match"},
           NEW queue, queue \subseteq matchQueue[i], GoOn(i, queue),
           UNCHANGED <<transfers, had>>, \A t \in Transfer : lines[t] # "none" => lines'[t] # "none"
    PROVE  /\ QueuesAreHonest'
           /\ matchStep' \in [Instance -> MatchSteps]
           /\ matchQueue' = [j \in Instance |-> matchQueue'[j]]
           /\ \A t \in Transfer :
                /\ Readers(t)' \subseteq Readers(t)
                /\ (\A r \in queue : r.line # t) => i \notin Readers(t)'
<1>1. ReconciliationType /\ QueuesAreHonest
  BY DEF ReconciliationInv
<1>2. /\ matchStep'[i] \in {matchStep[i], "select", "idle"} /\ (queue # {} => matchStep'[i] = matchStep[i])
      /\ matchQueue'[i] = queue
      /\ \A j \in Instance \ {i} : matchStep'[j] = matchStep[j] /\ matchQueue'[j] = matchQueue[j]
      /\ matchStep' \in [Instance -> MatchSteps]
      /\ matchQueue' = [j \in Instance |-> matchQueue'[j]]
  BY <1>1 DEF GoOn, After, ReconciliationType, MatchSteps
<1>3. ASSUME NEW r, Honest(r) PROVE Honest(r)'
  BY <1>3 DEF Honest, Reading
<1>4. ASSUME NEW j \in Instance
      PROVE  /\ matchStep'[j] \in {"idle", "select"} => matchQueue'[j] = {}
             /\ matchStep'[j] = "mirror" => \A t \in matchQueue'[j] : t \in Transfer /\ transfers'[t] # "absent"
             /\ matchStep'[j] = "match" => \A r \in matchQueue'[j] : Honest(r)'
             /\ matchStep'[j] = "match" => \A r \in matchQueue'[j], q \in matchQueue'[j] : r.line = q.line => r = q
  <2>1. CASE j = i
    BY <1>1, <1>2, <1>3, <2>1 DEF QueuesAreHonest
  <2>2. CASE j # i
    BY <1>1, <1>2, <1>3, <2>2 DEF QueuesAreHonest
  <2> QED
    BY <2>1, <2>2
<1>5. QueuesAreHonest'
  BY <1>4 DEF QueuesAreHonest
<1>6. ASSUME NEW t \in Transfer
      PROVE  Readers(t)' \subseteq Readers(t) /\ ((\A r \in queue : r.line # t) => i \notin Readers(t)')
  BY <1>2 DEF Readers
<1> QED
  BY <1>2, <1>5, <1>6

\* The first SELECT, and the second: what is read of an unmatched line is the
\* transfer's row, and such a line has no break yet.
LEMMA SelectsKeep ==
    ASSUME ReconciliationInv, NEW i \in Instance, StartMirror(i) \/ StartMatch(i)
    PROVE  ReconciliationInv'
<1>1. ReconciliationType /\ QueuesAreHonest /\ OutcomesAreKept /\ UNCHANGED <<transfers, had, lines, breaks>>
  BY DEF ReconciliationInv, StartMirror, StartMatch
<1>2. PICK s \in MatchSteps :
        /\ matchStep' = [matchStep EXCEPT ![i] = s]
        /\ \/ s = "match" /\ matchQueue' = [matchQueue EXCEPT ![i] = {Read(t) : t \in Unmatched}]
           \/ s = "mirror" /\ matchQueue' = [matchQueue EXCEPT ![i] = New]
           \/ s \in {"idle", "select"} /\ matchQueue' = [matchQueue EXCEPT ![i] = {}]
  BY DEF StartMirror, StartMatch, MatchSteps
<1>3. /\ matchStep'[i] = s
      /\ \A j \in Instance \ {i} : matchStep'[j] = matchStep[j] /\ matchQueue'[j] = matchQueue[j]
      /\ matchStep' \in [Instance -> MatchSteps]
      /\ matchQueue' = [j \in Instance |-> matchQueue'[j]]
      /\ s = "match" => matchQueue'[i] = {Read(t) : t \in Unmatched}
      /\ s = "mirror" => matchQueue'[i] = New
      /\ s \in {"idle", "select"} => matchQueue'[i] = {}
  BY <1>1, <1>2 DEF ReconciliationType
<1>4. ReconciliationType' /\ OutcomesAreKept'
  BY <1>1, <1>3 DEF ReconciliationType, OutcomesAreKept, Terminal
<1>5. ASSUME NEW t \in Unmatched
      PROVE  Honest(Read(t)) /\ Read(t).line = t /\ t \in Transfer /\ breaks[t] = NoBreaks
  BY <1>1, <1>5 DEF Unmatched, ReconciliationInv, ReconciliationType, OutcomesAreKept, LineHasGrounds, Honest,
                    Read, Reading, Status, Terminal, Outcome
<1>6. ASSUME NEW r, Honest(r) PROVE Honest(r)'
  BY <1>1, <1>6 DEF Honest, Reading
<1>7. ASSUME NEW j \in Instance
      PROVE  /\ matchStep'[j] \in {"idle", "select"} => matchQueue'[j] = {}
             /\ matchStep'[j] = "mirror" => \A t \in matchQueue'[j] : t \in Transfer /\ transfers'[t] # "absent"
             /\ matchStep'[j] = "match" => \A r \in matchQueue'[j] : Honest(r)'
             /\ matchStep'[j] = "match" => \A r \in matchQueue'[j], q \in matchQueue'[j] : r.line = q.line => r = q
  <2>1. CASE j = i
    <3>1. matchStep'[i] = "mirror" => \A t \in matchQueue'[i] : t \in Transfer /\ transfers'[t] # "absent"
      BY <1>1, <1>3 DEF New
    <3>2. matchStep'[i] = "match" => \A r \in matchQueue'[i] : Honest(r)'
      BY <1>3, <1>5, <1>6
    <3>3. matchStep'[i] = "match" => \A r \in matchQueue'[i], q \in matchQueue'[i] : r.line = q.line => r = q
      BY <1>3 DEF Read
    <3> QED
      BY <1>3, <2>1, <3>1, <3>2, <3>3
  <2>2. CASE j # i
    BY <1>1, <1>3, <1>6, <2>2 DEF QueuesAreHonest
  <2> QED
    BY <2>1, <2>2
<1>8. QueuesAreHonest'
  BY <1>7 DEF QueuesAreHonest
<1>9. ASSUME NEW t \in Transfer PROVE LineHasGrounds(t)' /\ ReadersAreCounted(t)'
  <2>1. CASE t \in Unmatched
    <3>1. breaks'[t] = NoBreaks
      BY <1>1, <1>5, <2>1
    <3>2. LineHasGrounds(t)'
      BY <1>1 DEF ReconciliationInv, LineHasGrounds
    <3> QED
      BY <3>1, <3>2, NoBreaksYet
  <2>2. CASE t \notin Unmatched
    <3>1. i \notin Readers(t)'
      BY <1>3, <1>5, <2>2 DEF Readers
    <3>2. Readers(t)' \subseteq Readers(t)
      BY <1>3, <3>1 DEF Readers
    <3> QED
      BY <1>1, <3>2, SameLine
  <2> QED
    BY <2>1, <2>2
<1> QED
  BY <1>4, <1>8, <1>9 DEF ReconciliationInv

\* A new line is inserted for a transfer that is there; a second INSERT does nothing.
LEMMA MirroringKeeps ==
    ASSUME ReconciliationInv, NEW i \in Instance, InsertLine(i)
    PROVE  ReconciliationInv'
<1>1. /\ ReconciliationType /\ QueuesAreHonest /\ OutcomesAreKept
      /\ UNCHANGED <<transfers, had, breaks>> /\ matchStep[i] = "mirror"
  BY DEF ReconciliationInv, InsertLine
<1>2. PICK t \in matchQueue[i] :
        /\ lines' = IF lines[t] = "none" THEN [lines EXCEPT ![t] = "unmatched"] ELSE lines
        /\ GoOn(i, matchQueue[i] \ {t})
  BY DEF InsertLine
<1>3. t \in Transfer /\ transfers[t] # "absent"
  BY <1>1 DEF QueuesAreHonest
<1>4. /\ lines' \in [Transfer -> {"none", "unmatched", "matched", "break"}]
      /\ \A u \in Transfer : lines'[u] = lines[u] \/ (u = t /\ lines[u] = "none" /\ lines'[u] = "unmatched")
  BY <1>1, <1>2, <1>3 DEF ReconciliationType
<1>5. /\ QueuesAreHonest' /\ matchStep' \in [Instance -> MatchSteps]
      /\ matchQueue' = [j \in Instance |-> matchQueue'[j]]
      /\ \A u \in Transfer : Readers(u)' \subseteq Readers(u)
  BY <1>1, <1>2, <1>4, GoingOnKeeps
<1>6. ReconciliationType' /\ OutcomesAreKept'
  BY <1>1, <1>3, <1>4, <1>5 DEF ReconciliationType, OutcomesAreKept, Terminal
<1>7. ASSUME NEW u \in Transfer PROVE LineHasGrounds(u)' /\ ReadersAreCounted(u)'
  <2>1. CASE lines'[u] = lines[u]
    BY <1>1, <1>5, <2>1, SameLine
  <2>2. CASE lines[u] = "none" /\ lines'[u] = "unmatched"
    <3>1. breaks'[u] = NoBreaks
      BY <1>1, <2>2 DEF ReconciliationInv, LineHasGrounds
    <3>2. LineHasGrounds(u)'
      BY <2>2, <3>1 DEF LineHasGrounds, NoBreaks
    <3> QED
      BY <3>1, <3>2, NoBreaksYet
  <2> QED
    BY <1>4, <2>1, <2>2
<1> QED
  BY <1>5, <1>6, <1>7 DEF ReconciliationInv

\* Resolving a row uses up one reader of its line and adds at most one break, of
\* a reason that the outcome which was read is a ground for.
LEMMA ResolvingKeeps ==
    ASSUME ReconciliationInv, NEW i \in Instance, ResolveLine(i)
    PROVE  ReconciliationInv'
<1>1. /\ ReconciliationType /\ QueuesAreHonest /\ OutcomesAreKept
      /\ UNCHANGED <<transfers, had>> /\ matchStep[i] = "match"
  BY DEF ReconciliationInv, ResolveLine
<1>2. PICK r \in matchQueue[i] :
        /\ \/ r.status = "pending" /\ UNCHANGED <<lines, breaks>>
           \/ r.status # "pending" /\ Agrees(r) /\ MarkMatched(r)
           \/ r.status # "pending" /\ ~Agrees(r) /\ RaiseBreak(r)
        /\ GoOn(i, matchQueue[i] \ {r})
  BY DEF ResolveLine
<1> DEFINE t == r.line
<1>3. /\ Honest(r) /\ t \in Transfer /\ LineHasGrounds(t) /\ transfers[t] # "absent"
      /\ \A q \in matchQueue[i] \ {r} : q.line # t
  BY <1>1 DEF QueuesAreHonest, Honest, Reading, ReconciliationInv, OutcomesAreKept
<1>4. r.status # "pending" => r.status \in had[t] /\ r.status \in Outcome
  BY <1>3 DEF Honest, Reading
<1>5. /\ lines' \in [Transfer -> {"none", "unmatched", "matched", "break"}]
      /\ \A u \in Transfer \ {t} : lines'[u] = lines[u] /\ breaks'[u] = breaks[u]
      /\ lines'[t] # "none" /\ breaks' = [u \in Transfer |-> breaks'[u]]
  BY <1>1, <1>2, <1>3 DEF ReconciliationType, MarkMatched, RaiseBreak, Honest
<1>6. /\ QueuesAreHonest' /\ matchStep' \in [Instance -> MatchSteps]
      /\ matchQueue' = [j \in Instance |-> matchQueue'[j]]
      /\ \A u \in Transfer : Readers(u)' \subseteq Readers(u)
      /\ i \notin Readers(t)'
  BY <1>1, <1>2, <1>3, <1>5, GoingOnKeeps
<1>7. OutcomesAreKept'
  BY <1>1, <1>3, <1>5 DEF OutcomesAreKept, Terminal
<1>8. \A u \in Transfer \ {t} : LineHasGrounds(u)' /\ ReadersAreCounted(u)'
  BY <1>1, <1>5, <1>6, SameLine
<1>9. CASE r.status = "pending" /\ UNCHANGED <<lines, breaks>>
  <2>1. ReconciliationType'
    BY <1>1, <1>6, <1>9 DEF ReconciliationType
  <2>2. LineHasGrounds(t)' /\ ReadersAreCounted(t)'
    BY <1>1, <1>3, <1>6, <1>9, SameLine
  <2> QED
    BY <1>6, <1>7, <1>8, <2>1, <2>2 DEF ReconciliationInv
<1>10. CASE r.status # "pending" /\ Agrees(r) /\ MarkMatched(r)
  <2>1. breaks' = breaks /\ lines'[t] = "matched"
    BY <1>1, <1>3, <1>10 DEF MarkMatched, ReconciliationType
  <2>2. ReconciliationType'
    BY <1>1, <1>5, <1>6, <2>1 DEF ReconciliationType
  <2>3. LineHasGrounds(t)'
    BY <1>1, <1>3, <1>4, <1>10, <2>1 DEF LineHasGrounds, Agrees
  <2>4. ReadersAreCounted(t)'
    <3>1. Readers(t) \subseteq Instance /\ Readers(t)' \subseteq Instance
      BY DEF Readers
    <3>2. /\ Cardinality(Readers(t)) \in Nat /\ Cardinality(Readers(t)') \in Nat
          /\ Cardinality(Instance) \in Nat /\ Cardinality(Readers(t)') <= Cardinality(Readers(t))
      BY <1>3, <1>6, <3>1, PartOfInstances
    <3>3. BreaksOf(t) \in Nat /\ BreaksOf(t)' = BreaksOf(t)
      BY <1>1, <1>3, <2>1 DEF ReconciliationType, Breaks, BreaksOf
    <3>4. BreaksOf(t) + Cardinality(Readers(t)) <= Cardinality(Instance)
      BY <1>3 DEF ReconciliationInv, ReadersAreCounted
    <3>5. BreaksOf(t)' + Cardinality(Readers(t)') <= Cardinality(Instance)
      BY <3>2, <3>3, <3>4
    <3> QED
      BY <3>5 DEF ReadersAreCounted
  <2> QED
    BY <1>6, <1>7, <1>8, <2>2, <2>3, <2>4 DEF ReconciliationInv
<1>11. CASE r.status # "pending" /\ ~Agrees(r) /\ RaiseBreak(r)
  <2>1. lines'[t] = "break" /\ breaks'[t] = [breaks[t] EXCEPT ![Reason(r)] = @ + 1] /\ breaks[t] \in Breaks
    BY <1>1, <1>3, <1>11 DEF RaiseBreak, ReconciliationType
  <2>2. \/ /\ Reason(r) = "amount_mismatch" /\ r.status = "completed" /\ t \in Misreported
           /\ breaks'[t].amount_mismatch = breaks[t].amount_mismatch + 1
           /\ breaks'[t].unexpected_settlement = breaks[t].unexpected_settlement
        \/ /\ Reason(r) = "unexpected_settlement" /\ r.status = "failed"
           /\ breaks'[t].unexpected_settlement = breaks[t].unexpected_settlement + 1
           /\ breaks'[t].amount_mismatch = breaks[t].amount_mismatch
    BY <1>4, <1>11, <2>1 DEF Reason, Agrees, Outcome, Breaks
  <2>3. /\ breaks[t].amount_mismatch \in Nat /\ breaks[t].unexpected_settlement \in Nat
        /\ breaks'[t] \in Breaks
    BY <2>1, <2>2 DEF Breaks
  <2>4. breaks'[t] # NoBreaks
    BY <2>2, <2>3 DEF NoBreaks
  <2>5. ReconciliationType'
    <3>1. breaks' \in [Transfer -> Breaks]
      BY <1>1, <1>5, <2>3 DEF ReconciliationType
    <3> QED
      BY <1>1, <1>5, <1>6, <3>1 DEF ReconciliationType
  <2>6. LineHasGrounds(t)'
    BY <1>1, <1>3, <1>4, <2>1, <2>2, <2>4 DEF LineHasGrounds
  <2>7. ReadersAreCounted(t)'
    <3>1. i \in Readers(t) /\ Readers(t) \subseteq Instance /\ Readers(t)' \subseteq Instance
      BY <1>1 DEF Readers
    <3>2. Readers(t)' \subseteq Readers(t) \ {i} /\ Readers(t) \ {i} \subseteq Instance
      BY <1>3, <1>6, <3>1
    <3>3. /\ Cardinality(Readers(t)) \in Nat /\ Cardinality(Readers(t) \ {i}) = Cardinality(Readers(t)) - 1
          /\ Cardinality(Instance) \in Nat
      BY <3>1, PartOfInstances
    <3>4. Cardinality(Readers(t)') \in Nat /\ Cardinality(Readers(t)') <= Cardinality(Readers(t) \ {i})
      BY <3>1, <3>2, PartOfInstances
    <3>5. BreaksOf(t) \in Nat /\ BreaksOf(t)' = BreaksOf(t) + 1
      BY <2>2, <2>3 DEF BreaksOf
    <3>6. BreaksOf(t) + Cardinality(Readers(t)) <= Cardinality(Instance)
      BY <1>3 DEF ReconciliationInv, ReadersAreCounted
    <3>7. BreaksOf(t)' + Cardinality(Readers(t)') <= Cardinality(Instance)
      BY <3>3, <3>4, <3>5, <3>6
    <3> QED
      BY <3>7 DEF ReadersAreCounted
  <2> QED
    BY <1>6, <1>7, <1>8, <2>5, <2>6, <2>7 DEF ReconciliationInv
<1> QED
  BY <1>2, <1>9, <1>10, <1>11

\* An instance that fails or stops forgets readings.
LEMMA MatchFailuresKeep ==
    ASSUME ReconciliationInv, NEW i \in Instance, LoseRow(i) \/ StopMatching(i)
    PROVE  ReconciliationInv'
<1>1. ReconciliationType /\ QueuesAreHonest /\ OutcomesAreKept /\ UNCHANGED <<transfers, had, lines, breaks>>
  BY DEF ReconciliationInv, LoseRow, StopMatching
<1>2. OutcomesAreKept'
  BY <1>1 DEF OutcomesAreKept, Terminal
<1>3. CASE LoseRow(i)
  <2>1. PICK r \in matchQueue[i] : GoOn(i, matchQueue[i] \ {r})
    BY <1>3 DEF LoseRow
  <2>2. matchStep[i] \in {"mirror", "match"}
    BY <1>1, <2>1 DEF QueuesAreHonest, ReconciliationType, MatchSteps
  <2>3. /\ QueuesAreHonest' /\ matchStep' \in [Instance -> MatchSteps]
        /\ matchQueue' = [j \in Instance |-> matchQueue'[j]]
        /\ \A u \in Transfer : Readers(u)' \subseteq Readers(u)
    BY <1>1, <2>1, <2>2, GoingOnKeeps
  <2>4. ReconciliationType'
    BY <1>1, <2>3 DEF ReconciliationType
  <2> QED
    BY <1>1, <1>2, <2>3, <2>4, SameLine DEF ReconciliationInv
<1>4. CASE StopMatching(i)
  <2>1. /\ matchStep' = [matchStep EXCEPT ![i] = "idle"]
        /\ matchQueue' = [matchQueue EXCEPT ![i] = {}]
    BY <1>4 DEF StopMatching
  <2>2. /\ matchStep'[i] = "idle" /\ matchQueue'[i] = {}
        /\ \A j \in Instance \ {i} : matchStep'[j] = matchStep[j] /\ matchQueue'[j] = matchQueue[j]
        /\ matchStep' \in [Instance -> MatchSteps]
        /\ matchQueue' = [j \in Instance |-> matchQueue'[j]]
    BY <1>1, <2>1 DEF ReconciliationType, MatchSteps
  <2>3. ASSUME NEW r, Honest(r) PROVE Honest(r)'
    BY <1>1, <2>3 DEF Honest, Reading
  <2>4. QueuesAreHonest'
    BY <1>1, <2>2, <2>3 DEF QueuesAreHonest
  <2>5. ReconciliationType'
    BY <1>1, <2>2 DEF ReconciliationType
  <2>6. ASSUME NEW t \in Transfer PROVE Readers(t)' \subseteq Readers(t)
    BY <1>1, <2>2 DEF Readers
  <2> QED
    BY <1>1, <1>2, <2>4, <2>5, <2>6, SameLine DEF ReconciliationInv
<1> QED
  BY <1>3, <1>4

\* Every step keeps what lines and breaks say.
LEMMA ReconciliationStep ==
    ReconciliationInv /\ [ReconciliationNext \/ \E t \in Transfer : TransferMoves(t)]_<<transfers, reconVars>>
        => ReconciliationInv'
<1> SUFFICES ASSUME ReconciliationInv,
                    [ReconciliationNext \/ \E t \in Transfer : TransferMoves(t)]_<<transfers, reconVars>>
             PROVE  ReconciliationInv'
  OBVIOUS
<1>1. CASE UNCHANGED <<transfers, reconVars>>
  <2>1. UNCHANGED <<transfers, had, lines, breaks, matchStep, matchQueue>>
    BY <1>1 DEF reconVars, matchVars
  <2>2. ReconciliationType' /\ QueuesAreHonest' /\ OutcomesAreKept'
    BY <2>1 DEF ReconciliationInv, ReconciliationType, QueuesAreHonest, OutcomesAreKept, Honest, Terminal
  <2>3. \A t \in Transfer : Readers(t)' \subseteq Readers(t)
    BY <2>1 DEF Readers
  <2> QED
    BY <2>1, <2>2, <2>3, SameLine DEF ReconciliationInv
<1>2. ASSUME NEW i \in Instance, MatchStep(i) \/ LoseRow(i) \/ StopMatching(i) PROVE ReconciliationInv'
  BY <1>2, SelectsKeep, MirroringKeeps, ResolvingKeeps, MatchFailuresKeep DEF MatchStep
<1> QED
  BY <1>1, <1>2, MovingTransfersKeeps DEF ReconciliationNext

\* Whatever a line says it has from an outcome that its transfer has had, and
\* each instance adds one break at most, although resolveLine writes what it has
\* read without another look at the line or the transfer (match.go).
THEOREM LinesAreGrounded == ReconciliationSpec => []LinesHaveGrounds
<1>1. ASSUME ReconciliationInv PROVE LinesHaveGrounds
  <2> SUFFICES ASSUME NEW t \in Transfer
               PROVE  LineHasGrounds(t) /\ BreaksOf(t) <= Cardinality(Instance)
    BY DEF LinesHaveGrounds
  <2>1. LineHasGrounds(t) /\ ReadersAreCounted(t) /\ BreaksOf(t) \in Nat
    BY <1>1 DEF ReconciliationInv, ReconciliationType, Breaks, BreaksOf
  <2>2. Readers(t) \subseteq Instance
    BY DEF Readers
  <2>3. Cardinality(Readers(t)) \in Nat /\ Cardinality(Instance) \in Nat
    BY <2>2, PartOfInstances
  <2> QED
    BY <2>1, <2>3 DEF ReadersAreCounted
<1>2. ReconciliationInv => LinesHaveGrounds
  BY <1>1
<1> QED
  BY <1>2, ReconciliationInitially, ReconciliationStep, PTL DEF ReconciliationSpec
-----------------------------------------------------------------------------
(***************************************************************************)
(* Webhooks: the events of a source.                                       *)
(***************************************************************************)
\* What a goroutine has at hand: of sources or of claims, by its step.
IsWork(w) == \E queue, item, active : w = [queue |-> queue, item |-> item, endpoints |-> active]

WebhooksType ==
    /\ sources \in [Source -> [recorded : BOOLEAN, notified : BOOLEAN]]
    /\ events \in [Source -> Nat]
    /\ hookStep \in [Instance -> {"idle", "notify", "enqueue", "send"}]
    /\ hookWork = [i \in Instance |-> hookWork[i]] /\ \A i \in Instance : IsWork(hookWork[i])

\* A source that is being read is not in the queue any more.
NotifiersAreTidy ==
    \A i \in Instance :
        hookStep[i] \in {"notify", "enqueue"} =>
            /\ hookWork[i].item \subseteq Source /\ hookWork[i].queue \subseteq Source
            /\ hookWork[i].item \cap hookWork[i].queue = {}

\* The instances that have selected a source and not enqueued its event yet.
Notifiers(t) ==
    {i \in Instance : hookStep[i] \in {"notify", "enqueue"} /\ t \in hookWork[i].queue \cup hookWork[i].item}

\* An event marks its source, and each instance that may add one has added none.
EventsAreCounted(t) ==
    /\ ~sources[t].notified => events[t] = 0
    /\ events[t] + Cardinality(Notifiers(t)) <= Cardinality(Instance)

EventsInv == WebhooksType /\ NotifiersAreTidy /\ \A t \in Source : EventsAreCounted(t)

\* The step of a goroutine, whatever it has to do next.
LEMMA HookMoves ==
    ASSUME WebhooksType, NEW i \in Instance, NEW next \in {"idle", "notify", "enqueue", "send"}, NEW todo,
           GotoHook(i, next, todo), IsWork(todo)
    PROVE  /\ hookStep'[i] = next /\ hookWork'[i] = todo
           /\ \A j \in Instance \ {i} : hookStep'[j] = hookStep[j] /\ hookWork'[j] = hookWork[j]
           /\ hookStep' \in [Instance -> {"idle", "notify", "enqueue", "send"}]
           /\ hookWork' = [j \in Instance |-> hookWork'[j]] /\ \A j \in Instance : IsWork(hookWork'[j])
  BY DEF GotoHook, WebhooksType

\* On to the next row, or done.
LEMMA NextRowIs ==
    ASSUME NEW i, NEW next, NEW queue, NextRow(i, next, queue)
    PROVE  \E n, todo :
             /\ n \in {"idle", next}
             /\ GotoHook(i, n, todo) /\ IsWork(todo) /\ todo.item = {}
             /\ todo.queue = queue
<1>1. CASE queue = {}
  <2>1. NoHookWork.item = {} /\ NoHookWork.queue = queue /\ IsWork(NoHookWork)
    BY <1>1 DEF NoHookWork, IsWork
  <2> QED
    BY <1>1, <2>1 DEF NextRow
<1>2. CASE queue # {}
  <2> DEFINE todo == [NoHookWork EXCEPT !.queue = queue]
  <2>1. todo = [queue |-> queue, item |-> {}, endpoints |-> {}]
    BY DEF NoHookWork
  <2>2. GotoHook(i, next, todo)
    BY <1>2 DEF NextRow
  <2>3. todo.item = {} /\ todo.queue = queue /\ IsWork(todo)
    BY <2>1 DEF IsWork
  <2> HIDE DEF todo
  <2> QED
    BY <2>2, <2>3
<1> QED
  BY <1>1, <1>2

\* A source whose row and events stay, and that no instance selects anew, is
\* counted as before.
LEMMA FewerNotifiers ==
    ASSUME EventsInv, NEW t \in Source, events'[t] = events[t], sources'[t].notified = sources[t].notified,
           Notifiers(t)' \subseteq Notifiers(t)
    PROVE  EventsAreCounted(t)'
<1>1. Notifiers(t) \subseteq Instance /\ Notifiers(t)' \subseteq Instance
  BY DEF Notifiers
<1>2. /\ Cardinality(Notifiers(t)) \in Nat /\ Cardinality(Notifiers(t)') \in Nat
      /\ Cardinality(Instance) \in Nat /\ Cardinality(Notifiers(t)') <= Cardinality(Notifiers(t))
  BY <1>1, PartOfInstances
<1>3. events[t] \in Nat /\ EventsAreCounted(t)
  BY DEF EventsInv, WebhooksType
<1> QED
  BY <1>2, <1>3 DEF EventsAreCounted

\* One that is not notified yet has room for an event of every instance.
LEMMA NoEventsYet ==
    ASSUME NEW t \in Source
    PROVE  events'[t] = 0 => EventsAreCounted(t)'
<1>1. Notifiers(t)' \subseteq Instance
  BY DEF Notifiers
<1> QED
  BY <1>1, PartOfInstances DEF EventsAreCounted

\* A goroutine that does not select sources anew, where the tables stay.
LEMMA QuietHookStep ==
    ASSUME EventsInv, UNCHANGED <<sources, events>>, NEW i \in Instance,
           NEW next \in {"idle", "notify", "enqueue", "send"}, NEW todo, GotoHook(i, next, todo), IsWork(todo),
           next \in {"notify", "enqueue"} =>
               /\ todo.item \cap todo.queue = {} /\ todo.item \subseteq Source /\ todo.queue \subseteq Source
               /\ hookStep[i] \in {"notify", "enqueue"}
               /\ todo.queue \cup todo.item \subseteq hookWork[i].queue \cup hookWork[i].item
    PROVE  EventsInv'
<1>1. WebhooksType /\ NotifiersAreTidy
  BY DEF EventsInv
<1>2. /\ hookStep'[i] = next /\ hookWork'[i] = todo
      /\ \A j \in Instance \ {i} : hookStep'[j] = hookStep[j] /\ hookWork'[j] = hookWork[j]
      /\ hookStep' \in [Instance -> {"idle", "notify", "enqueue", "send"}]
      /\ hookWork' = [j \in Instance |-> hookWork'[j]] /\ \A j \in Instance : IsWork(hookWork'[j])
  BY <1>1, HookMoves
<1>3. WebhooksType' /\ NotifiersAreTidy'
  BY <1>1, <1>2 DEF WebhooksType, NotifiersAreTidy
<1>4. \A t \in Source : Notifiers(t)' \subseteq Notifiers(t)
  BY <1>2 DEF Notifiers
<1> QED
  BY <1>3, <1>4, FewerNotifiers DEF EventsInv

\* A SELECT of sources finds those that have no event yet.
LEMMA StartNotifyCounts ==
    ASSUME EventsInv, NEW i \in Instance, StartNotify(i)
    PROVE  EventsInv'
<1>1. WebhooksType /\ NotifiersAreTidy /\ UNCHANGED <<sources, events>>
  BY DEF EventsInv, StartNotify
<1>2. PICK half \in {Charge, Payout} : GotoHook(i, "notify", [NoHookWork EXCEPT !.queue = Unnotified(half)])
  BY DEF StartNotify
<1> DEFINE todo == [NoHookWork EXCEPT !.queue = Unnotified(half)]
<1>3. todo.queue = Unnotified(half) /\ todo.item = {} /\ IsWork(todo)
  <2>1. todo = [queue |-> Unnotified(half), item |-> {}, endpoints |-> {}]
    BY DEF NoHookWork
  <2> QED
    BY <2>1 DEF IsWork
<1>4. /\ hookStep'[i] = "notify" /\ hookWork'[i] = todo
      /\ \A j \in Instance \ {i} : hookStep'[j] = hookStep[j] /\ hookWork'[j] = hookWork[j]
      /\ hookStep' \in [Instance -> {"idle", "notify", "enqueue", "send"}]
      /\ hookWork' = [j \in Instance |-> hookWork'[j]] /\ \A j \in Instance : IsWork(hookWork'[j])
  BY <1>1, <1>2, <1>3, HookMoves
<1> HIDE DEF todo
<1>5. WebhooksType' /\ NotifiersAreTidy'
  BY <1>1, <1>3, <1>4, WebhooksAssumption DEF WebhooksType, NotifiersAreTidy, Unnotified, Source
<1>6. ASSUME NEW t \in Source PROVE EventsAreCounted(t)'
  <2>1. CASE t \in Unnotified(half)
    BY <1>1, <2>1, NoEventsYet DEF Unnotified, EventsInv, EventsAreCounted
  <2>2. CASE t \notin Unnotified(half)
    <3>1. Notifiers(t)' \subseteq Notifiers(t)
      BY <1>3, <1>4, <2>2 DEF Notifiers
    <3> QED
      BY <1>1, <3>1, FewerNotifiers
  <2> QED
    BY <2>1, <2>2
<1> QED
  BY <1>5, <1>6 DEF EventsInv

\* The transaction that inserts an event marks its source, and the instance is
\* done with it.
LEMMA EnqueueCounts ==
    ASSUME EventsInv, NEW i \in Instance, EnqueueEvent(i)
    PROVE  EventsInv'
<1>1. WebhooksType /\ NotifiersAreTidy /\ hookStep[i] = "enqueue"
  BY DEF EventsInv, EnqueueEvent
<1>2. PICK t \in Source :
        /\ t \in hookWork[i].item
        /\ events' = [events EXCEPT ![t] = @ + 1]
        /\ sources' = [sources EXCEPT ![t].notified = TRUE]
  BY <1>1 DEF EnqueueEvent, InsertEvent, NotifiersAreTidy
<1> DEFINE queue == hookWork[i].queue
<1>3. PICK next, todo :
        next \in {"idle", "notify"} /\ GotoHook(i, next, todo) /\ IsWork(todo) /\ todo.item = {} /\ todo.queue = queue
  BY NextRowIs DEF EnqueueEvent
<1>4. /\ hookStep'[i] = next /\ hookWork'[i] = todo
      /\ \A j \in Instance \ {i} : hookStep'[j] = hookStep[j] /\ hookWork'[j] = hookWork[j]
      /\ hookStep' \in [Instance -> {"idle", "notify", "enqueue", "send"}]
      /\ hookWork' = [j \in Instance |-> hookWork'[j]] /\ \A j \in Instance : IsWork(hookWork'[j])
  BY <1>1, <1>3, HookMoves
<1>5. \A u \in Source \ {t} : /\ events'[u] = events[u] /\ sources'[u] = sources[u]
                              /\ Notifiers(u)' \subseteq Notifiers(u)
  BY <1>1, <1>2, <1>3, <1>4 DEF WebhooksType, Notifiers
<1>6. WebhooksType' /\ NotifiersAreTidy'
  <2>1. sources' \in [Source -> [recorded : BOOLEAN, notified : BOOLEAN]]
    BY <1>1, <1>2 DEF WebhooksType
  <2>2. events' \in [Source -> Nat]
    BY <1>1, <1>2 DEF WebhooksType
  <2> QED
    BY <1>1, <1>3, <1>4, <2>1, <2>2 DEF WebhooksType, NotifiersAreTidy
<1>7. EventsAreCounted(t)'
  <2>1. events[t] \in Nat /\ events'[t] = events[t] + 1 /\ sources'[t].notified
    BY <1>1, <1>2 DEF WebhooksType
  <2>2. i \in Notifiers(t) /\ t \notin queue
    BY <1>1, <1>2 DEF Notifiers, NotifiersAreTidy
  <2>3. Notifiers(t)' \subseteq Notifiers(t) \ {i}
    BY <1>3, <1>4, <2>2 DEF Notifiers
  <2>4. /\ Notifiers(t) \subseteq Instance /\ Notifiers(t) \ {i} \subseteq Instance
        /\ Notifiers(t)' \subseteq Instance
    BY DEF Notifiers
  <2>5. /\ Cardinality(Notifiers(t)) \in Nat /\ Cardinality(Instance) \in Nat
        /\ Cardinality(Notifiers(t) \ {i}) = Cardinality(Notifiers(t)) - 1
    BY <2>2, <2>4, PartOfInstances
  <2>6. Cardinality(Notifiers(t)') \in Nat /\ Cardinality(Notifiers(t)') <= Cardinality(Notifiers(t) \ {i})
    BY <2>3, <2>4, PartOfInstances
  <2>7. events[t] + Cardinality(Notifiers(t)) <= Cardinality(Instance)
    BY DEF EventsInv, EventsAreCounted
  <2> QED
    BY <2>1, <2>5, <2>6, <2>7 DEF EventsAreCounted
<1>8. ASSUME NEW u \in Source PROVE EventsAreCounted(u)'
  BY <1>5, <1>7, FewerNotifiers
<1> QED
  BY <1>6, <1>8 DEF EventsInv

\* Every step keeps the count of events.
LEMMA EventsStep ==
    EventsInv /\ [WebhooksNext \/ \E t \in Source : Submit(t) /\ UNCHANGED hookVars]_<<transfers, hookVars>>
        => EventsInv'
<1> SUFFICES ASSUME EventsInv,
                    [WebhooksNext \/ \E t \in Source : Submit(t) /\ UNCHANGED hookVars]_<<transfers, hookVars>>
             PROVE  EventsInv'
  OBVIOUS
<1>1. WebhooksType /\ NotifiersAreTidy
  BY DEF EventsInv
<1>2. ASSUME NEW i \in Instance, ReadEndpoints(i) PROVE EventsInv'
  <2> DEFINE Todo(t) == [queue |-> hookWork[i].queue \ {t}, item |-> {t}, endpoints |-> Active]
  <2>1. PICK t \in hookWork[i].queue :
          GotoHook(i, "enqueue", Todo(t)) /\ hookStep[i] = "notify" /\ UNCHANGED <<sources, events>>
    BY <1>2 DEF ReadEndpoints
  <2>2. PICK todo : todo = Todo(t) /\ todo.queue = hookWork[i].queue \ {t} /\ todo.item = {t}
    <3>1. Todo(t).queue = hookWork[i].queue \ {t} /\ Todo(t).item = {t}
      OBVIOUS
    <3> HIDE DEF Todo
    <3> QED
      BY <3>1
  <2>3. IsWork(todo)
    BY <2>2 DEF IsWork
  <2>4. todo.item \cap todo.queue = {} /\ todo.queue \cup todo.item \subseteq hookWork[i].queue \cup hookWork[i].item
        /\ todo.item \subseteq Source /\ todo.queue \subseteq Source
    BY <1>1, <2>1, <2>2 DEF NotifiersAreTidy
  <2> QED
    BY <2>1, <2>2, <2>3, <2>4, QuietHookStep
<1>3. ASSUME NEW i \in Instance, StartDeliver(i) PROVE EventsInv'
  <2>1. PICK todo : GotoHook(i, "send", todo) /\ IsWork(todo)
    BY <1>3 DEF StartDeliver, NoHookWork, IsWork
  <2> QED
    BY <1>3, <2>1, QuietHookStep DEF StartDeliver
<1>4. ASSUME NEW i \in Instance, DeliverOne(i) \/ LoseReport(i) PROVE EventsInv'
  <2>1. UNCHANGED <<sources, events>>
    BY <1>4 DEF DeliverOne, LoseReport
  <2>2. PICK next, todo : next \in {"idle", "send"} /\ GotoHook(i, next, todo) /\ IsWork(todo)
    <3>1. PICK claim \in hookWork[i].queue : NextRow(i, "send", hookWork[i].queue \ {claim})
      BY <1>4 DEF DeliverOne, LoseReport
    <3> QED
      BY <3>1, NextRowIs
  <2> QED
    BY <2>1, <2>2, QuietHookStep
<1>5. ASSUME NEW i \in Instance, StopWebhooks(i) PROVE EventsInv'
  BY <1>5, QuietHookStep DEF StopWebhooks, NoHookWork, IsWork
<1>6. ASSUME UNCHANGED <<events, hookStep, hookWork>>, sources' \in [Source -> [recorded : BOOLEAN, notified : BOOLEAN]],
             \A t \in Source : sources'[t].notified = sources[t].notified
      PROVE  EventsInv'
  <2>1. WebhooksType' /\ NotifiersAreTidy'
    BY <1>1, <1>6 DEF WebhooksType, NotifiersAreTidy
  <2>2. \A t \in Source : Notifiers(t)' \subseteq Notifiers(t)
    BY <1>6 DEF Notifiers
  <2> QED
    BY <1>6, <2>1, <2>2, FewerNotifiers DEF EventsInv
<1>7. ASSUME NEW t \in Source, RecordSource(t) PROVE EventsInv'
  <2>1. /\ sources' \in [Source -> [recorded : BOOLEAN, notified : BOOLEAN]]
        /\ \A u \in Source : sources'[u].notified = sources[u].notified
    BY <1>1, <1>7 DEF RecordSource, WebhooksType
  <2> QED
    BY <1>6, <1>7, <2>1 DEF RecordSource, hookLocals
<1>8. CASE UNCHANGED <<sources, events, hookStep, hookWork>>
  BY <1>1, <1>6, <1>8 DEF WebhooksType
<1>9. ASSUME NEW p \in Endpoint, CreateEndpoint(p) \/ DeactivateEndpoint(p) PROVE EventsInv'
  BY <1>8, <1>9 DEF CreateEndpoint, DeactivateEndpoint, hookLocals
<1>10. ASSUME NEW t \in Source, SettleSource(t) \/ OverwriteSource(t) \/ UNCHANGED hookVars PROVE EventsInv'
  BY <1>8, <1>10 DEF SettleSource, OverwriteSource, hookLocals, hookVars
<1>11. ASSUME NEW d, ComesDue(d) PROVE EventsInv'
  BY <1>8, <1>11 DEF ComesDue, hookLocals
<1>12. CASE UNCHANGED <<transfers, hookVars>>
  BY <1>8, <1>12 DEF hookVars, hookLocals
<1> QED
  BY <1>2, <1>3, <1>4, <1>5, <1>7, <1>9, <1>10, <1>11, <1>12, StartNotifyCounts, EnqueueCounts
  DEF WebhooksNext, HookStep

\* The count of events is kept from the start.
LEMMA EventsHold == WebhooksSpec => []EventsInv
<1>1. ASSUME WebhooksInit PROVE EventsInv
  <2>1. WebhooksType /\ NotifiersAreTidy
    BY <1>1 DEF WebhooksInit, WebhooksType, NotifiersAreTidy, NoHookWork, IsWork
  <2>2. ASSUME NEW t \in Source PROVE EventsAreCounted(t)
    <3>1. Notifiers(t) \subseteq Instance /\ events[t] = 0
      BY <1>1 DEF Notifiers, WebhooksInit
    <3> QED
      BY <3>1, PartOfInstances DEF EventsAreCounted
  <2> QED
    BY <2>1, <2>2 DEF EventsInv
<1>2. WebhooksInit => EventsInv
  BY <1>1
<1> QED
  BY <1>2, EventsStep, PTL DEF WebhooksSpec

\* A source has an event from each instance at most, however often it is selected
\* before one of them marks it: EnqueueEvent inserts and marks in one transaction
\* (outbox.go).
THEOREM EventsAreBounded == WebhooksSpec => []OneEventPerInstance
<1>1. ASSUME EventsInv PROVE OneEventPerInstance
  <2> SUFFICES ASSUME NEW t \in Source PROVE events[t] <= Cardinality(Instance)
    BY DEF OneEventPerInstance
  <2>1. Notifiers(t) \subseteq Instance
    BY DEF Notifiers
  <2>2. Cardinality(Notifiers(t)) \in Nat /\ Cardinality(Instance) \in Nat
    BY <2>1, PartOfInstances
  <2>3. events[t] \in Nat /\ events[t] + Cardinality(Notifiers(t)) <= Cardinality(Instance)
    BY <1>1 DEF EventsInv, WebhooksType, EventsAreCounted
  <2> QED
    BY <2>2, <2>3
<1>2. EventsInv => OneEventPerInstance
  BY <1>1
<1> QED
  BY <1>2, EventsHold, PTL
-----------------------------------------------------------------------------
(***************************************************************************)
(* Webhooks: the attempts of a delivery.                                   *)
(***************************************************************************)
Row == [status : {"pending", "succeeded", "failed"}, count : Nat, due : BOOLEAN]

\* The history has an entry for each row.
DeliveriesType ==
    /\ deliveries = [d \in DOMAIN deliveries |-> deliveries[d]]
    /\ failedSends = [d \in DOMAIN deliveries |-> failedSends[d]]
    /\ \A d \in DOMAIN deliveries : deliveries[d] \in Row /\ failedSends[d] \in Nat

\* A claim carries a count that has been that of its row, so that the send it leads
\* to, when it fails, is not counted in it yet.
Earlier(claim) ==
    claim.id \in DOMAIN deliveries /\ claim.count \in Nat /\ claim.count <= failedSends[claim.id]

ClaimsAreEarlier ==
    \A i \in Instance : hookStep[i] = "send" => \A claim \in hookWork[i].queue : Earlier(claim)

AttemptsInv == DeliveriesType /\ ClaimsAreEarlier /\ AttemptsAreCounted

\* A lease, and its end.
LEMMA LeasedRow ==
    ASSUME NEW row \in Row, NEW due \in BOOLEAN
    PROVE  /\ [row EXCEPT !.due = due] \in Row
           /\ [row EXCEPT !.due = due].count = row.count
           /\ [row EXCEPT !.due = due].status = row.status
  BY DEF Row

\* What recordFailure writes.
LEMMA AfterFailureIs ==
    ASSUME NEW row \in Row, NEW claimed \in Nat
    PROVE  /\ AfterFailure(row, claimed) \in Row
           /\ AfterFailure(row, claimed).count = claimed + 1
           /\ AfterFailure(row, claimed).status = "failed" =>
                row.status = "failed" \/ claimed + 1 >= MaxAttempts
<1>1. PICK status \in {"pending", "succeeded", "failed"}, n \in Nat, due \in BOOLEAN :
        row = [status |-> status, count |-> n, due |-> due]
  BY DEF Row
<1>2. CASE claimed + 1 >= MaxAttempts
  <2>1. AfterFailure(row, claimed) = [status |-> "failed", count |-> claimed + 1, due |-> due]
    BY <1>1, <1>2 DEF AfterFailure
  <2> QED
    BY <1>2, <2>1 DEF Row
<1>3. CASE ~(claimed + 1 >= MaxAttempts)
  <2>1. AfterFailure(row, claimed) = [status |-> status, count |-> claimed + 1, due |-> FALSE]
    BY <1>1, <1>3 DEF AfterFailure
  <2>2. row.status = status
    BY <1>1
  <2>3. AfterFailure(row, claimed) \in Row
    BY <2>1 DEF Row
  <2> QED
    BY <2>1, <2>2, <2>3
<1> QED
  BY <1>2, <1>3

\* What deliverOne leaves of a row, with the history of its sends.
LEMMA ReportedIs ==
    ASSUME NEW row \in Row, NEW claim, claim.count \in Nat, NEW failed \in BOOLEAN, NEW sends \in Nat,
           claim.count <= sends, row.count <= sends, row.status = "failed" => sends >= MaxAttempts
    PROVE  LET now == IF failed THEN sends + 1 ELSE sends
           IN  /\ Reported(row, claim, failed) \in Row
               /\ Reported(row, claim, failed).count <= now
               /\ Reported(row, claim, failed).status = "failed" => now >= MaxAttempts
<1>1. PICK status \in {"pending", "succeeded", "failed"}, n \in Nat, due \in BOOLEAN :
        row = [status |-> status, count |-> n, due |-> due]
  BY DEF Row
<1>2. CASE failed
  <2>1. Reported(row, claim, failed) = AfterFailure(row, claim.count)
    BY <1>2 DEF Reported
  <2>2. /\ Reported(row, claim, failed) \in Row
        /\ Reported(row, claim, failed).count = claim.count + 1
        /\ Reported(row, claim, failed).status = "failed" =>
             row.status = "failed" \/ claim.count + 1 >= MaxAttempts
    BY <2>1, AfterFailureIs
  <2>3. claim.count + 1 <= sends + 1 /\ sends + 1 >= sends
    OBVIOUS
  <2>4. claim.count + 1 >= MaxAttempts \/ sends >= MaxAttempts => sends + 1 >= MaxAttempts
    BY <2>3, WebhooksAssumption
  <2> QED
    BY <1>2, <2>2, <2>3, <2>4
<1>3. CASE ~failed
  <2>1. Reported(row, claim, failed) = [status |-> "succeeded", count |-> n, due |-> due]
    BY <1>1, <1>3 DEF Reported
  <2> QED
    BY <1>1, <1>3, <2>1 DEF Row
<1> QED
  BY <1>2, <1>3

\* Sends are only added, so that the claims that stay are earlier than their rows.
LEMMA ClaimsStayEarlier ==
    ASSUME WebhooksType, AttemptsInv, DeliveriesType',
           \A d \in DOMAIN deliveries : d \in DOMAIN deliveries' /\ failedSends'[d] >= failedSends[d],
           NEW i \in Instance, NEW next \in {"idle", "notify", "enqueue", "send"}, NEW todo,
           GotoHook(i, next, todo), IsWork(todo),
           next = "send" => \/ hookStep[i] = "send" /\ todo.queue \subseteq hookWork[i].queue
                            \/ \A claim \in todo.queue : Earlier(claim)'
    PROVE  ClaimsAreEarlier'
<1>1. /\ hookStep'[i] = next /\ hookWork'[i] = todo
      /\ \A j \in Instance \ {i} : hookStep'[j] = hookStep[j] /\ hookWork'[j] = hookWork[j]
  BY HookMoves
<1>2. ASSUME NEW claim, Earlier(claim) PROVE Earlier(claim)'
  BY <1>2 DEF Earlier, AttemptsInv, DeliveriesType
<1>3. ASSUME NEW j \in Instance, hookStep'[j] = "send", NEW claim \in hookWork'[j].queue PROVE Earlier(claim)'
  BY <1>1, <1>2, <1>3 DEF AttemptsInv, ClaimsAreEarlier
<1> QED
  BY <1>3 DEF ClaimsAreEarlier
\* New rows have no attempt, and rows that exist are not touched.
LEMMA InsertingKeeps ==
    ASSUME WebhooksType, AttemptsInv, NEW i \in Instance, EnqueueEvent(i)
    PROVE  AttemptsInv'
<1>1. PICK ids :
        /\ deliveries' = Inserted(deliveries, ids, NewDelivery)
        /\ failedSends' = Inserted(failedSends, ids, 0)
  BY DEF EnqueueEvent, InsertEvent
<1>2. NewDelivery \in Row /\ NewDelivery.count = 0 /\ NewDelivery.status = "pending"
  BY DEF NewDelivery, Row
<1>3. DeliveriesType /\ DOMAIN failedSends = DOMAIN deliveries
  BY DEF AttemptsInv, DeliveriesType
<1>4. /\ DOMAIN deliveries' = DOMAIN deliveries \cup ids /\ DOMAIN failedSends' = DOMAIN deliveries \cup ids
      /\ deliveries' = [d \in DOMAIN deliveries' |-> deliveries'[d]]
      /\ failedSends' = [d \in DOMAIN deliveries' |-> failedSends'[d]]
      /\ \A d \in DOMAIN deliveries : deliveries'[d] = deliveries[d] /\ failedSends'[d] = failedSends[d]
      /\ \A d \in ids \ DOMAIN deliveries : deliveries'[d] = NewDelivery /\ failedSends'[d] = 0
  BY <1>1, <1>3 DEF Inserted
<1>5. DeliveriesType'
  BY <1>2, <1>3, <1>4 DEF DeliveriesType
<1>6. AttemptsAreCounted'
  <2> SUFFICES ASSUME NEW d \in DOMAIN deliveries'
               PROVE  /\ deliveries'[d].status = "failed" => failedSends'[d] >= MaxAttempts
                      /\ deliveries'[d].count <= failedSends'[d]
    BY DEF AttemptsAreCounted
  <2>1. CASE d \in DOMAIN deliveries
    BY <1>4, <2>1 DEF AttemptsInv, AttemptsAreCounted
  <2>2. CASE d \notin DOMAIN deliveries
    BY <1>2, <1>4, <2>2
  <2> QED
    BY <2>1, <2>2
<1>7. ClaimsAreEarlier'
  <2>1. PICK next, todo : next \in {"idle", "notify"} /\ GotoHook(i, next, todo) /\ IsWork(todo)
    BY NextRowIs DEF EnqueueEvent
  <2>2. \A d \in DOMAIN deliveries : d \in DOMAIN deliveries' /\ failedSends'[d] >= failedSends[d]
    BY <1>3, <1>4 DEF DeliveriesType
  <2> QED
    BY <1>5, <2>1, <2>2, ClaimsStayEarlier
<1> QED
  BY <1>5, <1>6, <1>7 DEF AttemptsInv

\* A claim copies the counts of the rows it leases.
LEMMA ClaimingKeeps ==
    ASSUME WebhooksType, AttemptsInv, NEW i \in Instance, StartDeliver(i)
    PROVE  AttemptsInv'
<1>1. /\ deliveries' = [d \in DOMAIN deliveries |-> [deliveries[d] EXCEPT !.due = @ /\ d \notin Due]]
      /\ failedSends' = failedSends /\ DeliveriesType
  BY DEF StartDeliver, history, AttemptsInv
<1>2. ASSUME NEW d \in DOMAIN deliveries
      PROVE  /\ deliveries'[d] \in Row /\ deliveries'[d].count = deliveries[d].count
             /\ deliveries'[d].status = deliveries[d].status
  <2>1. PICK row, due : row = deliveries[d] /\ due = (row.due /\ d \notin Due)
    OBVIOUS
  <2>2. due \in BOOLEAN /\ deliveries'[d] = [row EXCEPT !.due = due] /\ row \in Row
    BY <1>1, <2>1 DEF DeliveriesType
  <2> QED
    BY <2>1, <2>2, LeasedRow
<1>3. DeliveriesType' /\ DOMAIN deliveries' = DOMAIN deliveries
  BY <1>1, <1>2 DEF DeliveriesType
<1>4. AttemptsAreCounted'
  BY <1>1, <1>2, <1>3 DEF AttemptsInv, AttemptsAreCounted
<1>5. ClaimsAreEarlier'
  <2> DEFINE claims == {[id |-> d, count |-> deliveries[d].count] : d \in Due}
             todo == [NoHookWork EXCEPT !.queue = claims]
  <2>1. todo = [queue |-> claims, item |-> {}, endpoints |-> {}]
    <3> HIDE DEF claims
    <3> QED
      BY DEF NoHookWork
  <2>2. todo.queue = claims /\ IsWork(todo)
    <3> HIDE DEF claims
    <3> QED
      BY <2>1 DEF IsWork
  <2>3. ASSUME NEW claim \in claims PROVE Earlier(claim)'
    <3>1. PICK d \in Due : claim = [id |-> d, count |-> deliveries[d].count]
      OBVIOUS
    <3>2. d \in DOMAIN deliveries /\ claim.id = d /\ claim.count = deliveries[d].count
      BY <3>1 DEF Due
    <3>3. deliveries[d].count \in Nat /\ deliveries[d].count <= failedSends[d]
      BY <1>1, <3>2 DEF DeliveriesType, Row, AttemptsInv, AttemptsAreCounted
    <3> QED
      BY <1>1, <1>3, <3>2, <3>3 DEF Earlier
  <2>4. GotoHook(i, "send", todo)
    BY DEF StartDeliver
  <2>5. \A d \in DOMAIN deliveries : d \in DOMAIN deliveries' /\ failedSends'[d] >= failedSends[d]
    BY <1>1, <1>3 DEF DeliveriesType
  <2> HIDE DEF todo, claims
  <2>6. \A claim \in todo.queue : Earlier(claim)'
    BY <2>2, <2>3
  <2> QED
    BY <1>3, <2>2, <2>4, <2>5, <2>6, ClaimsStayEarlier
<1> QED
  BY <1>3, <1>4, <1>5 DEF AttemptsInv

\* A send that fails is counted before its report may be; a report that is lost
\* leaves the row behind.
LEMMA SendingKeeps ==
    ASSUME WebhooksType, AttemptsInv, NEW i \in Instance, DeliverOne(i) \/ LoseReport(i)
    PROVE  AttemptsInv'
<1>1. PICK claim \in hookWork[i].queue, failed \in BOOLEAN :
        /\ Sent(claim, failed) /\ NextRow(i, "send", hookWork[i].queue \ {claim})
        /\ \/ deliveries' = [deliveries EXCEPT ![claim.id] = Reported(@, claim, failed)]
           \/ deliveries' = deliveries
  BY DEF DeliverOne, LoseReport
<1>2. hookStep[i] = "send" /\ Earlier(claim) /\ DeliveriesType
  BY DEF DeliverOne, LoseReport, AttemptsInv, ClaimsAreEarlier
<1> DEFINE c == claim.id
           now == IF failed THEN failedSends[c] + 1 ELSE failedSends[c]
<1>3. /\ c \in DOMAIN deliveries /\ claim.count \in Nat /\ claim.count <= failedSends[c]
      /\ failedSends[c] \in Nat /\ now \in Nat /\ now >= failedSends[c]
  BY <1>2 DEF Earlier, DeliveriesType
<1>4. /\ failedSends'[c] = now /\ DOMAIN failedSends' = DOMAIN deliveries
      /\ failedSends' = [d \in DOMAIN deliveries |-> failedSends'[d]]
      /\ \A d \in DOMAIN deliveries \ {c} : failedSends'[d] = failedSends[d]
  BY <1>1, <1>2, <1>3 DEF Sent, DeliveriesType
<1>5. /\ deliveries'[c] \in {deliveries[c], Reported(deliveries[c], claim, failed)}
      /\ DOMAIN deliveries' = DOMAIN deliveries /\ deliveries' = [d \in DOMAIN deliveries |-> deliveries'[d]]
      /\ \A d \in DOMAIN deliveries \ {c} : deliveries'[d] = deliveries[d]
  BY <1>1, <1>2, <1>3 DEF DeliveriesType
<1>6. /\ deliveries[c] \in Row /\ deliveries[c].count \in Nat /\ deliveries[c].count <= failedSends[c]
      /\ deliveries[c].status = "failed" => failedSends[c] >= MaxAttempts
  BY <1>2, <1>3 DEF DeliveriesType, Row, AttemptsInv, AttemptsAreCounted
<1>7. /\ deliveries'[c] \in Row /\ deliveries'[c].count <= now
      /\ deliveries'[c].status = "failed" => now >= MaxAttempts
  <2>1. CASE deliveries'[c] = deliveries[c]
    BY <1>3, <1>6, <2>1, WebhooksAssumption
  <2>2. CASE deliveries'[c] = Reported(deliveries[c], claim, failed)
    <3>1. PICK row, sends : row = deliveries[c] /\ sends = failedSends[c]
      OBVIOUS
    <3> QED
      BY <1>3, <1>6, <2>2, <3>1, ReportedIs
  <2> QED
    BY <1>5, <2>1, <2>2
<1> HIDE DEF now
<1>8. DeliveriesType'
  BY <1>2, <1>3, <1>4, <1>5, <1>7 DEF DeliveriesType
<1>9. AttemptsAreCounted'
  <2> SUFFICES ASSUME NEW d \in DOMAIN deliveries'
               PROVE  /\ deliveries'[d].status = "failed" => failedSends'[d] >= MaxAttempts
                      /\ deliveries'[d].count <= failedSends'[d]
    BY DEF AttemptsAreCounted
  <2>1. CASE d = c
    BY <1>4, <1>7, <2>1
  <2>2. CASE d # c
    BY <1>4, <1>5, <2>2 DEF AttemptsInv, AttemptsAreCounted
  <2> QED
    BY <2>1, <2>2
<1>10. ClaimsAreEarlier'
  <2>1. \A d \in DOMAIN deliveries : d \in DOMAIN deliveries' /\ failedSends'[d] >= failedSends[d]
    BY <1>2, <1>3, <1>4, <1>5 DEF DeliveriesType
  <2>2. PICK next, todo :
          next \in {"idle", "send"} /\ GotoHook(i, next, todo) /\ IsWork(todo) /\ todo.queue = hookWork[i].queue \ {claim}
    BY <1>1, NextRowIs
  <2> QED
    BY <1>2, <1>8, <2>1, <2>2, ClaimsStayEarlier
<1> QED
  BY <1>8, <1>9, <1>10 DEF AttemptsInv

\* Every step keeps the count of attempts.
LEMMA AttemptsStep ==
    WebhooksType /\ AttemptsInv
      /\ [WebhooksNext \/ \E t \in Source : Submit(t) /\ UNCHANGED hookVars]_<<transfers, hookVars>>
        => AttemptsInv'
<1> SUFFICES ASSUME WebhooksType, AttemptsInv,
                    [WebhooksNext \/ \E t \in Source : Submit(t) /\ UNCHANGED hookVars]_<<transfers, hookVars>>
             PROVE  AttemptsInv'
  OBVIOUS
<1>1. ASSUME UNCHANGED <<deliveries, failedSends>>, NEW i \in Instance,
             NEW next \in {"idle", "notify", "enqueue"}, NEW todo, GotoHook(i, next, todo), IsWork(todo)
      PROVE  AttemptsInv'
  <2>1. DeliveriesType' /\ AttemptsAreCounted'
    BY <1>1 DEF AttemptsInv, DeliveriesType, AttemptsAreCounted
  <2>2. \A d \in DOMAIN deliveries : d \in DOMAIN deliveries' /\ failedSends'[d] >= failedSends[d]
    BY <1>1 DEF AttemptsInv, DeliveriesType
  <2> QED
    BY <1>1, <2>1, <2>2, ClaimsStayEarlier DEF AttemptsInv
<1>2. ASSUME NEW i \in Instance, StartNotify(i) PROVE AttemptsInv'
  <2>1. PICK todo : GotoHook(i, "notify", todo) /\ IsWork(todo)
    BY <1>2 DEF StartNotify, NoHookWork, IsWork
  <2> QED
    BY <1>1, <1>2, <2>1 DEF StartNotify, history
<1>3. ASSUME NEW i \in Instance, ReadEndpoints(i) PROVE AttemptsInv'
  <2>1. PICK todo : GotoHook(i, "enqueue", todo) /\ IsWork(todo)
    BY <1>3 DEF ReadEndpoints, IsWork
  <2> QED
    BY <1>1, <1>3, <2>1 DEF ReadEndpoints, history
<1>4. ASSUME NEW i \in Instance, StopWebhooks(i) PROVE AttemptsInv'
  BY <1>1, <1>4 DEF StopWebhooks, NoHookWork, IsWork, history
<1>5. CASE UNCHANGED <<deliveries, failedSends, hookStep, hookWork>>
  BY <1>5 DEF AttemptsInv, DeliveriesType, ClaimsAreEarlier, Earlier, AttemptsAreCounted
<1>6. ASSUME NEW p \in Endpoint, CreateEndpoint(p) \/ DeactivateEndpoint(p) PROVE AttemptsInv'
  BY <1>5, <1>6 DEF CreateEndpoint, DeactivateEndpoint, hookLocals, history
<1>7. ASSUME NEW t \in Source, RecordSource(t) \/ SettleSource(t) \/ OverwriteSource(t) \/ UNCHANGED hookVars
      PROVE  AttemptsInv'
  BY <1>5, <1>7 DEF RecordSource, SettleSource, OverwriteSource, hookLocals, history, hookVars
<1>8. ASSUME NEW d, ComesDue(d) PROVE AttemptsInv'
  <2>1. /\ d \in DOMAIN deliveries /\ deliveries' = [deliveries EXCEPT ![d].due = TRUE]
        /\ UNCHANGED <<failedSends, hookStep, hookWork>> /\ DeliveriesType
    BY <1>8 DEF ComesDue, hookLocals, history, AttemptsInv
  <2>2. deliveries'[d] = [deliveries[d] EXCEPT !.due = TRUE]
    BY <2>1 DEF DeliveriesType
  <2>3. PICK row, due : row = deliveries[d] /\ due = TRUE
    OBVIOUS
  <2>4. /\ deliveries'[d] \in Row /\ deliveries'[d].count = deliveries[d].count
        /\ deliveries'[d].status = deliveries[d].status
    BY <2>1, <2>2, <2>3, LeasedRow DEF DeliveriesType
  <2>5. /\ DOMAIN deliveries' = DOMAIN deliveries /\ deliveries' = [e \in DOMAIN deliveries |-> deliveries'[e]]
        /\ \A e \in DOMAIN deliveries \ {d} : deliveries'[e] = deliveries[e]
    BY <2>1 DEF DeliveriesType
  <2>6. DeliveriesType' /\ AttemptsAreCounted'
    BY <2>1, <2>4, <2>5 DEF DeliveriesType, AttemptsInv, AttemptsAreCounted
  <2>7. ClaimsAreEarlier'
    BY <2>1, <2>5 DEF AttemptsInv, ClaimsAreEarlier, Earlier
  <2> QED
    BY <2>6, <2>7 DEF AttemptsInv
<1>9. CASE UNCHANGED <<transfers, hookVars>>
  BY <1>5, <1>9 DEF hookVars, hookLocals, history
<1> QED
  BY <1>2, <1>3, <1>4, <1>6, <1>7, <1>8, <1>9, InsertingKeeps, ClaimingKeeps, SendingKeeps
  DEF WebhooksNext, HookStep

\* A delivery is given up only after MaxAttempts sends that failed, and its count is
\* never ahead of them: recordFailure writes the count of the claim plus one
\* (outbox.go), and a claim's count is at most the failed sends before it.
THEOREM AttemptsAreReal == WebhooksSpec => []AttemptsAreCounted
<1>1. ASSUME WebhooksInit PROVE AttemptsInv
  <2>1. deliveries = <<>> /\ failedSends = <<>> /\ DOMAIN deliveries = {}
    BY <1>1 DEF WebhooksInit
  <2>2. DeliveriesType /\ AttemptsAreCounted
    BY <2>1 DEF DeliveriesType, AttemptsAreCounted
  <2>3. ClaimsAreEarlier
    BY <1>1 DEF WebhooksInit, ClaimsAreEarlier
  <2> QED
    BY <2>2, <2>3 DEF AttemptsInv
<1>2. (WebhooksInit => AttemptsInv) /\ (AttemptsInv => AttemptsAreCounted) /\ (EventsInv => WebhooksType)
  BY <1>1 DEF AttemptsInv, EventsInv
<1>3. WebhooksSpec => []EventsInv
  BY EventsHold
<1> QED
  BY <1>2, <1>3, AttemptsStep, PTL DEF WebhooksSpec
-----------------------------------------------------------------------------
(***************************************************************************)
(* Recurring bill payments.  next_run_at is only ever set to what follows  *)
(* an occurrence that was read from it, so the invariant is about all the  *)
(* occurrences that are under way as well: what precedes each of them has  *)
(* been tried.                                                             *)
(***************************************************************************)
Occurrence == Recurring \X Nat
Paying == {"lookup", "send", "insert", "record", "advance"}

BillsType ==
    /\ clock \in Nat
    /\ nextRun \in [Recurring -> Nat]
    /\ DOMAIN billStep = Instance
    /\ DOMAIN billWork = Instance
    /\ \A i \in Instance :
         /\ billWork[i] \in [queue : SUBSET Occurrence, key : Occurrence \cup {<<>>}]
         /\ billStep[i] \in {"idle", "take"} \cup Paying
         /\ billStep[i] \in Paying => billWork[i].key \in Occurrence

\* What precedes the n-th occurrence has been tried.
Behind(r, n) == \A k \in 1..(n - 1) : <<r, k>> \in tried

SchedulesAreBehind == \A r \in Recurring : Behind(r, nextRun[r])
QueuesAreBehind == \A i \in Instance : \A key \in billWork[i].queue : Behind(key[1], key[2])
PaymentsAreBehind ==
    \A i \in Instance : billStep[i] \in Paying => Behind(billWork[i].key[1], billWork[i].key[2] + 1)

BillsInv == BillsType /\ SchedulesAreBehind /\ QueuesAreBehind /\ PaymentsAreBehind

\* Nothing has been tried, and every schedule is at its first occurrence.
LEMMA BillsInitially == BillsInit => BillsInv
  BY DEF BillsInit, BillsInv, BillsType, SchedulesAreBehind, QueuesAreBehind, PaymentsAreBehind,
         Behind, Occurrence, Paying, NoBill

\* What a SELECT finds is behind what has been tried, like the schedules it reads.
LEMMA DueAreBehind ==
    ASSUME BillsInv
    PROVE  DueBills \subseteq Occurrence /\ \A key \in DueBills : Behind(key[1], key[2])
  BY DEF BillsInv, BillsType, SchedulesAreBehind, DueBills, Occurrence

\* A step within one payment changes no schedule, and only what comes next.
LEMMA PaymentStep ==
    ASSUME BillsInv, NEW i \in Instance, NEW next \in Paying,
           billStep[i] \in Paying, GotoBill(i, next), UNCHANGED <<clock, nextRun, tried>>
    PROVE  BillsInv'
  BY DEF GotoBill, BillsInv, BillsType, SchedulesAreBehind, QueuesAreBehind, PaymentsAreBehind,
         Behind, Paying

\* The end of a payment leaves the schedules as they were, or moves its own on.
LEMMA NextBillStep ==
    ASSUME BillsInv, NEW i \in Instance, NextBill(i), UNCHANGED <<clock, tried>>,
           nextRun' \in [Recurring -> Nat], SchedulesAreBehind'
    PROVE  BillsInv'
<1> USE DEF BillsInv, BillsType, QueuesAreBehind, PaymentsAreBehind, Behind, Paying, Occurrence
<1>1. PICK next \in {"idle", "take"} : billStep' = [billStep EXCEPT ![i] = next]
  BY DEF NextBill
<1>2. billWork' = [billWork EXCEPT ![i].key = <<>>]
  BY DEF NextBill
<1>3. BillsType'
  BY <1>1, <1>2
<1>4. \A j \in Instance : billWork'[j].queue = billWork[j].queue
  BY <1>2
<1>5. QueuesAreBehind'
  BY <1>4
<1>6. PaymentsAreBehind'
  BY <1>1, <1>2
<1> QED
  BY <1>3, <1>5, <1>6

\* Every step of the two tickers' goroutines, of the clock and every failure keeps it.
LEMMA BillsStep == BillsInv /\ [BillsNext]_<<transfers, billVars>> => BillsInv'
<1> SUFFICES ASSUME BillsInv, [BillsNext]_<<transfers, billVars>> PROVE BillsInv'
  OBVIOUS
<1> USE DEF BillsInv
<1>1. CASE Tick
  BY <1>1 DEF Tick, BillsType, SchedulesAreBehind, QueuesAreBehind, PaymentsAreBehind, Behind
<1>2. ASSUME NEW i \in Instance, StartBills(i) PROVE BillsInv'
  <2>1. /\ billStep' = [billStep EXCEPT ![i] = "take"]
        /\ billWork' = [billWork EXCEPT ![i].queue = DueBills]
        /\ UNCHANGED <<clock, nextRun, tried>>
    BY <1>2 DEF StartBills
  <2>2. BillsType'
    BY <2>1, DueAreBehind DEF BillsType, Paying
  <2>3. QueuesAreBehind'
    BY <2>1, DueAreBehind DEF BillsType, QueuesAreBehind, Behind
  <2> QED
    BY <2>1, <2>2, <2>3 DEF BillsType, SchedulesAreBehind, PaymentsAreBehind, Behind, Paying
<1>3. ASSUME NEW i \in Instance, TakeBill(i) PROVE BillsInv'
  <2>1. PICK key \in billWork[i].queue :
          /\ billWork' = [billWork EXCEPT ![i] = [queue |-> billWork[i].queue \ {key}, key |-> key]]
          /\ tried' = tried \cup {key}
    BY <1>3 DEF TakeBill
  <2>2. billStep' = [billStep EXCEPT ![i] = "lookup"] /\ UNCHANGED <<clock, nextRun>>
    BY <1>3 DEF TakeBill
  <2>3. key \in Occurrence /\ key = <<key[1], key[2]>> /\ key[2] \in Nat
    BY DEF BillsType, Occurrence
  <2>4. \A r, n : Behind(r, n) => Behind(r, n)'
    BY <2>1 DEF Behind
  <2>5. Behind(key[1], key[2] + 1)'
    <3>1. Behind(key[1], key[2])
      BY DEF QueuesAreBehind
    <3> QED
      BY <2>1, <2>3, <3>1 DEF Behind
  <2>6. BillsType'
    BY <2>1, <2>2, <2>3 DEF BillsType, Paying
  <2>7. SchedulesAreBehind'
    BY <2>2, <2>4 DEF SchedulesAreBehind
  <2>8. QueuesAreBehind'
    BY <2>1, <2>4 DEF QueuesAreBehind, BillsType
  <2>9. PaymentsAreBehind'
    BY <2>1, <2>2, <2>4, <2>5 DEF PaymentsAreBehind, BillsType
  <2> QED
    BY <2>6, <2>7, <2>8, <2>9
<1>4. ASSUME NEW i \in Instance,
             LookUpPayment(i) \/ LookUpTransfer(i) \/ InsertTransfer(i) \/ RecordPayment(i)
      PROVE BillsInv'
  <2>1. PICK next \in Paying : GotoBill(i, next)
    BY <1>4 DEF LookUpPayment, LookUpTransfer, InsertTransfer, RecordPayment, Paying
  <2>2. billStep[i] \in Paying /\ UNCHANGED <<clock, nextRun, tried>>
    BY <1>4 DEF LookUpPayment, LookUpTransfer, InsertTransfer, RecordPayment, Paying
  <2> QED
    BY <2>1, <2>2, PaymentStep
<1>5. ASSUME NEW i \in Instance, Advance(i) PROVE BillsInv'
  <2> DEFINE key == billWork[i].key
  <2>1. /\ nextRun' = [nextRun EXCEPT ![key[1]] = key[2] + 1]
        /\ NextBill(i) /\ UNCHANGED <<clock, tried>>
        /\ billStep[i] = "advance"
    BY <1>5 DEF Advance
  <2>2. key[1] \in Recurring /\ key[2] \in Nat /\ Behind(key[1], key[2] + 1)
    BY <2>1 DEF BillsType, Paying, Occurrence, PaymentsAreBehind
  <2>3. nextRun' \in [Recurring -> Nat]
    BY <2>1, <2>2 DEF BillsType
  <2>4. SchedulesAreBehind'
    BY <2>1, <2>2 DEF SchedulesAreBehind, Behind, BillsType
  <2> QED
    BY <2>1, <2>3, <2>4, NextBillStep
<1>6. ASSUME NEW i \in Instance, LoseBill(i) PROVE BillsInv'
  <2>1. UNCHANGED <<clock, nextRun, tried>>
    BY <1>6 DEF LoseBill
  <2>2. CASE billStep[i] \in {"lookup", "send", "insert", "record"} /\ GotoBill(i, "advance")
    BY <2>1, <2>2, PaymentStep DEF Paying
  <2>3. CASE NextBill(i)
    BY <2>1, <2>3, NextBillStep DEF BillsType, SchedulesAreBehind, Behind
  <2> QED
    BY <1>6, <2>2, <2>3 DEF LoseBill
<1>7. ASSUME NEW i \in Instance, RestartBills(i) PROVE BillsInv'
  <2>1. /\ billStep' = [billStep EXCEPT ![i] = "idle"]
        /\ billWork' = [billWork EXCEPT ![i] = NoBill]
        /\ UNCHANGED <<clock, nextRun, tried>>
    BY <1>7 DEF RestartBills
  <2>2. BillsType'
    BY <2>1 DEF BillsType, Paying, NoBill, Occurrence
  <2>3. QueuesAreBehind' /\ PaymentsAreBehind'
    BY <2>1 DEF QueuesAreBehind, PaymentsAreBehind, BillsType, Behind, Paying, NoBill
  <2> QED
    BY <2>1, <2>2, <2>3 DEF SchedulesAreBehind, Behind
<1>8. CASE UNCHANGED <<transfers, billVars>>
  BY <1>8 DEF billVars, BillsType, SchedulesAreBehind, QueuesAreBehind, PaymentsAreBehind, Behind
<1> QED
  BY <1>1, <1>2, <1>3, <1>4, <1>5, <1>6, <1>7, <1>8 DEF BillsNext, BillStep

\* PayBill is called for every occurrence that lies behind next_run_at, however
\* far a schedule has fallen behind and however many instances move it on from
\* what each has read (payment.go RunDueBills).
THEOREM NoBillIsSkipped == BillsSpec => []NoBillSkipped
<1>1. BillsInv => NoBillSkipped
  BY DEF BillsInv, SchedulesAreBehind, Behind, NoBillSkipped
<1> QED
  BY BillsInitially, BillsStep, <1>1, PTL DEF BillsSpec
=============================================================================
