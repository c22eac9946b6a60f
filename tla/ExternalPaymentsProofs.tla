----------------------- MODULE ExternalPaymentsProofs -----------------------
(***************************************************************************)
(* What ExternalPayments promises of a transfer, for any handlers,         *)
(* instances, investigators, requests, failures and restarts: a completed  *)
(* one has moved its money, an outbound one keeps the promise of           *)
(* PaymentPromise, a process executes it once, only a send that got no row *)
(* leaves a hold behind, and only an interrupted one passes the risk gate. *)
(*                                                                         *)
(* The ledger knows nothing of transfers, and the UPDATEs of a row check   *)
(* nothing.  So the invariant says what links the two: a hold belongs to   *)
(* one handler and then to one row, only that row's key captures it, and   *)
(* an actor about to record an outcome has seen to it.                     *)
(***************************************************************************)
EXTENDS ExternalPayments, LedgerProofs, FiniteSetTheorems

Worker == Instance \cup Investigator
Present(k) == transfers[k] # NoTransfer
HoldOf(k) == transfers[k].hold
USE DEF history

-----------------------------------------------------------------------------
(***************************************************************************)
(* The invariant.                                                          *)
(***************************************************************************)

\* A hold placed for a row is captured under the row's key only, and given
\* back before the row fails; a row completes only when it is settled.
RowIsHonest(k) ==
    /\ transfers[k].status = "completed" => Settled(k)
    /\ IsOutboundRow(k) =>
         /\ HoldOf(k) \in HoldId /\ holds[HoldOf(k)] # NoHold
         /\ holds[HoldOf(k)].status = "captured" => Settled(k)
         /\ transfers[k].status = "failed" => holds[HoldOf(k)].status = "released"

HoldsDiffer ==
    \A k, l \in Key : k # l /\ IsOutboundRow(k) /\ IsOutboundRow(l) => HoldOf(k) # HoldOf(l)

\* A handler about to insert an outbound row has a hold that no row has yet.
Inserting(c) == step[c] = "insert" /\ asked[c].request.direction = "outbound"

HandlerOwnsHold(c) ==
    /\ step[c] \in {"idle", "place", "insert"}
    /\ step[c] # "idle" => asked[c].request \in TransferRequest
    /\ step[c] = "place" => asked[c].request.direction = "outbound"
    /\ Inserting(c) =>
         /\ asked[c].hold \in HoldId /\ holds[asked[c].hold].status = "active"
         /\ \A k \in Key : IsOutboundRow(k) => HoldOf(k) # asked[c].hold

AskedHoldsDiffer ==
    \A c, d \in Handler : c # d /\ Inserting(c) /\ Inserting(d) => asked[c].hold # asked[d].hold

\* An instance or investigator about to record an outcome has brought it about.
KnowsAt(s, k) ==
    /\ s \notin {"idle", "next"} => k \in Key /\ Present(k)
    /\ s \in {"releaseBlocked", "releaseRejected"} => IsOutboundRow(k)
    /\ s = "markCompleted" => Settled(k)
    /\ s \in {"markFailed", "markBlocked"} /\ IsOutboundRow(k) => holds[HoldOf(k)].status = "released"

WorkerKnows(x) == KnowsAt(step[x], row[x])

QueuesArePresent == \A i \in Instance : \A k \in queue[i] : Present(k)

RowsInv == (\A k \in Key : RowIsHonest(k)) /\ HoldsDiffer

PayInv ==
    /\ PayTypeOK /\ CapturedExactlyOnce /\ RowsInv
    /\ \A c \in Handler : HandlerOwnsHold(c)
    /\ AskedHoldsDiffer /\ QueuesArePresent
    /\ \A x \in Worker : WorkerKnows(x)

\* Each execution is remembered by an instance, or was lost with a restart.
Executions(k) == {i \in Instance : k \in answered[i]}
ExecutionsAreCounted == \A k \in Key : sent[k] <= Cardinality(Executions(k)) + restarts

-----------------------------------------------------------------------------
(***************************************************************************)
(* What a step may do to the rows and holds that are there.                *)
(***************************************************************************)

\* Holds that are placed stay as they are.
HoldsKept == \A h \in HoldId : holds[h] # NoHold => holds'[h] = holds[h]

\* The hold of row k is resolved, and no other one.
ResolvesHoldOf(k) ==
    /\ IsOutboundRow(k)
    /\ \A h \in HoldId \ {HoldOf(k)} : holds[h] # NoHold => holds'[h] = holds[h]
    /\ holds'[HoldOf(k)].status = "captured" => Settled(k)'

\* Row k takes the status s, having seen to what s says.
MayBecome(k, s) ==
    \/ s \in {transfers[k].status, "pending"}
    \/ s = "completed" /\ Settled(k)
    \/ s = "failed" /\ (IsOutboundRow(k) => holds[HoldOf(k)].status = "released")

UpdatesRow(k) ==
    \E s \in {"pending", "processing", "completed", "failed"}, r \in {"clear", "held", "blocked"} :
        /\ Present(k) /\ MayBecome(k, s)
        /\ transfers' = [transfers EXCEPT ![k].status = s, ![k].risk = r]

ClaimsRows(batch) ==
    /\ \A k \in batch : transfers[k].status \in {"pending", "processing"}
    /\ transfers' = [k \in Key |-> IF k \in batch THEN [transfers[k] EXCEPT !.status = "processing"] ELSE transfers[k]]

\* Every step but the INSERT of a row: the ledger moves, and at most a hold or
\* a row changes.
Tame ==
    /\ [Next]_vars
    /\ \/ UNCHANGED transfers /\ (HoldsKept \/ \E k \in Key : ResolvesHoldOf(k))
       \/ HoldsKept /\ \E k \in Key : UpdatesRow(k)
       \/ HoldsKept /\ \E batch \in SUBSET Key : ClaimsRows(batch)

\* A row's request and hold never change.
RowKept(k) ==
    /\ Present(k)' /\ transfers'[k] \in TransferRow
    /\ transfers'[k].request = transfers[k].request /\ transfers'[k].hold = transfers[k].hold

\* A row is present exactly when it is a typed row, and it then has a direction.
LEMMA TransferRowTyped ==
    ASSUME PayTypeOK, NEW k \in Key
    PROVE  /\ Present(k) <=> transfers[k] \in TransferRow
           /\ Present(k) <=> transfers[k].status # "absent"
           /\ IsOutboundRow(k) <=> Present(k) /\ transfers[k].request.direction = "outbound"
<1>1. transfers[k] \in TransferRow \cup {NoTransfer}
  BY DEF PayTypeOK
<1>2. transfers[k] \in TransferRow => transfers[k].status # "absent"
  BY DEF TransferRow
<1> QED
  BY <1>1, <1>2 DEF Present, NoTransfer, IsOutboundRow

\* A tame step neither makes nor deletes a row, and keeps its request and hold.
LEMMA TameKeepsRow ==
    ASSUME PayTypeOK, Tame, NEW k \in Key
    PROVE  /\ Present(k) => RowKept(k)
           /\ ~Present(k) => transfers'[k] = NoTransfer
<1>1. CASE UNCHANGED transfers
  BY <1>1, TransferRowTyped DEF Present, RowKept
<1>2. ASSUME NEW j \in Key, UpdatesRow(j)
      PROVE  /\ Present(k) => RowKept(k)
             /\ ~Present(k) => transfers'[k] = NoTransfer
  <2>1. PICK s \in {"pending", "processing", "completed", "failed"}, r \in {"clear", "held", "blocked"} :
            Present(j) /\ transfers' = [transfers EXCEPT ![j].status = s, ![j].risk = r]
    BY <1>2 DEF UpdatesRow
  <2>2. CASE j = k
    <3>1. transfers[k] \in TransferRow
      BY <2>1, <2>2, TransferRowTyped
    <3>2. transfers'[k] = [transfers[k] EXCEPT !.status = s, !.risk = r]
      BY <2>1, <2>2 DEF PayTypeOK
    <3>3. /\ transfers'[k] \in TransferRow
          /\ transfers'[k].request = transfers[k].request /\ transfers'[k].hold = transfers[k].hold
      BY <3>1, <3>2 DEF TransferRow
    <3>4. transfers'[k] # NoTransfer
      BY <3>3 DEF TransferRow, NoTransfer
    <3> QED
      BY <2>1, <2>2, <3>3, <3>4 DEF RowKept, Present
  <2>3. CASE j # k
    <3>1. transfers'[k] = transfers[k]
      BY <2>1, <2>3 DEF PayTypeOK
    <3> QED
      BY <3>1, TransferRowTyped DEF Present, RowKept
  <2> QED
    BY <2>2, <2>3
<1>3. ASSUME NEW batch \in SUBSET Key, ClaimsRows(batch)
      PROVE  /\ Present(k) => RowKept(k)
             /\ ~Present(k) => transfers'[k] = NoTransfer
  <2>1. CASE k \in batch
    <3>1. transfers[k] \in TransferRow
      BY <1>3, <2>1, TransferRowTyped DEF ClaimsRows
    <3>2. transfers'[k] = [transfers[k] EXCEPT !.status = "processing"]
      BY <1>3, <2>1 DEF ClaimsRows
    <3> QED
      BY <3>1, <3>2 DEF TransferRow, RowKept, Present, NoTransfer
  <2>2. CASE k \notin batch
    <3>1. transfers'[k] = transfers[k]
      BY <1>3, <2>2 DEF ClaimsRows
    <3> QED
      BY <3>1, TransferRowTyped DEF Present, RowKept
  <2> QED
    BY <2>1, <2>2
<1> QED
  BY <1>1, <1>2, <1>3 DEF Tame

\* A row that is settled stays settled.
LEMMA SettledStays ==
    ASSUME PayTypeOK, [Next]_vars, NEW k \in Key, Settled(k),
           transfers'[k].request = transfers[k].request, transfers'[k].hold = transfers[k].hold
    PROVE  Settled(k)'
<1>2. ~Unused(k)' /\ txns'[k].request = txns[k].request
  BY RequestsStay DEF PayTypeOK, Settled
<1>3. SettlingRequest(k)' = SettlingRequest(k)
  BY DEF SettlingRequest, SettlingLegs
<1> QED
  BY <1>2, <1>3 DEF Settled

\* A released hold stays released.
LEMMA ReleasedStays ==
    ASSUME PayTypeOK, [Next]_vars, NEW h \in HoldId, holds[h].status = "released"
    PROVE  holds'[h].status = "released"
<1>1. holds[h] # NoHold
  BY DEF NoHold
<1>2. AppendOnlyStep
  BY NextAppends DEF PayTypeOK
<1>3. holds'[h] = holds[h]
  BY <1>1, <1>2 DEF AppendOnlyStep
<1> QED
  BY <1>3

\* A hold that is placed stays placed.
LEMMA PlacedStays ==
    ASSUME PayTypeOK, [Next]_vars, NEW h \in HoldId, holds[h] # NoHold
    PROVE  holds'[h] # NoHold
<1>1. holds[h] \in Hold
  BY DEF PayTypeOK, TypeOK
<1>2. \/ holds'[h] = holds[h]
      \/ \E s \in {"released", "captured"} : holds'[h] = [holds[h] EXCEPT !.status = s]
  BY NextAppends DEF AppendOnlyStep, PayTypeOK
<1> QED
  BY <1>1, <1>2 DEF Hold, NoHold

\* A tame step keeps what the rows are known for.
LEMMA TameKeepsRows ==
    ASSUME PayInv, Tame
    PROVE  CapturedExactlyOnce' /\ RowsInv'
<1>1. PayTypeOK /\ TypeOK /\ [Next]_vars /\ CapturedExactlyOnce /\ RowsInv
  BY DEF PayInv, PayTypeOK, Tame
<1>2. CapturedExactlyOnce'
  BY <1>1, NextCaptured
<1>3. ASSUME NEW k \in Key, IsOutboundRow(k)'
      PROVE  IsOutboundRow(k) /\ RowKept(k) /\ HoldOf(k)' = HoldOf(k)
  BY <1>1, <1>3, TransferRowTyped, TameKeepsRow DEF IsOutboundRow, RowKept, HoldOf, NoTransfer, Present
<1>4. HoldsDiffer'
  BY <1>1, <1>3 DEF RowsInv, HoldsDiffer
<1>5. ASSUME NEW k \in Key, transfers'[k].status = "completed" PROVE Settled(k)'
  <2>1. Present(k) /\ RowKept(k) /\ RowIsHonest(k)
    BY <1>1, <1>5, TameKeepsRow DEF NoTransfer, RowsInv
  <2>2. transfers[k].status = "completed" \/ Settled(k)
    <3>1. CASE UNCHANGED transfers
      BY <1>5, <3>1
    <3>2. ASSUME NEW j \in Key, UpdatesRow(j) PROVE transfers[k].status = "completed" \/ Settled(k)
      <4>1. PICK t \in {"pending", "processing", "completed", "failed"}, r \in {"clear", "held", "blocked"} :
                Present(j) /\ MayBecome(j, t) /\ transfers' = [transfers EXCEPT ![j].status = t, ![j].risk = r]
        BY <3>2 DEF UpdatesRow
      <4>2. transfers \in [Key -> TransferRow \cup {NoTransfer}] /\ transfers[k] \in TransferRow
        BY <1>1, <2>1, TransferRowTyped DEF PayTypeOK
      <4>3. CASE j = k
        <5>1. transfers'[k].status = t
          BY <4>1, <4>2, <4>3 DEF TransferRow
        <5> QED
          BY <1>5, <4>1, <4>3, <5>1 DEF MayBecome
      <4>4. CASE j # k
        BY <1>5, <4>1, <4>2, <4>4
      <4> QED
        BY <4>3, <4>4
    <3>3. ASSUME NEW batch \in SUBSET Key, ClaimsRows(batch) PROVE transfers[k].status = "completed"
      <4>1. transfers[k] \in TransferRow
        BY <1>1, <2>1, TransferRowTyped
      <4> QED
        BY <1>5, <3>3, <4>1 DEF ClaimsRows, TransferRow
    <3> QED
      BY <3>1, <3>2, <3>3 DEF Tame
  <2>3. Settled(k)
    BY <2>1, <2>2 DEF RowIsHonest
  <2> QED
    BY <1>1, <2>1, <2>3, SettledStays DEF RowKept
<1>6. ASSUME NEW k \in Key, IsOutboundRow(k)', transfers'[k].status = "failed"
      PROVE  holds'[HoldOf(k)].status = "released"
  <2>1. IsOutboundRow(k) /\ RowKept(k) /\ RowIsHonest(k) /\ HoldOf(k) \in HoldId /\ Present(k)
    BY <1>1, <1>3, <1>6, TransferRowTyped DEF RowsInv, RowIsHonest
  <2>2. transfers[k].status = "failed" \/ holds[HoldOf(k)].status = "released"
    <3>1. CASE UNCHANGED transfers
      BY <1>6, <3>1
    <3>2. ASSUME NEW j \in Key, UpdatesRow(j)
          PROVE  transfers[k].status = "failed" \/ holds[HoldOf(k)].status = "released"
      <4>1. PICK t \in {"pending", "processing", "completed", "failed"}, r \in {"clear", "held", "blocked"} :
                Present(j) /\ MayBecome(j, t) /\ transfers' = [transfers EXCEPT ![j].status = t, ![j].risk = r]
        BY <3>2 DEF UpdatesRow
      <4>2. transfers \in [Key -> TransferRow \cup {NoTransfer}] /\ transfers[k] \in TransferRow
        BY <1>1, <2>1, TransferRowTyped DEF PayTypeOK
      <4>3. CASE j = k
        <5>1. transfers'[k].status = t
          BY <4>1, <4>2, <4>3 DEF TransferRow
        <5> QED
          BY <1>6, <2>1, <4>1, <4>3, <5>1 DEF MayBecome
      <4>4. CASE j # k
        BY <1>6, <4>1, <4>2, <4>4
      <4> QED
        BY <4>3, <4>4
    <3>3. ASSUME NEW batch \in SUBSET Key, ClaimsRows(batch) PROVE transfers[k].status = "failed"
      <4>1. transfers[k] \in TransferRow
        BY <1>1, <2>1, TransferRowTyped
      <4> QED
        BY <1>6, <3>3, <4>1 DEF ClaimsRows, TransferRow
    <3> QED
      BY <3>1, <3>2, <3>3 DEF Tame
  <2>3. holds[HoldOf(k)].status = "released"
    BY <2>1, <2>2 DEF RowIsHonest
  <2> QED
    BY <1>1, <2>1, <2>3, ReleasedStays
<1>7. ASSUME NEW k \in Key, IsOutboundRow(k)', holds'[HoldOf(k)].status = "captured"
      PROVE  Settled(k)'
  <2>1. IsOutboundRow(k) /\ RowKept(k) /\ RowIsHonest(k) /\ HoldOf(k) \in HoldId /\ holds[HoldOf(k)] # NoHold
    BY <1>1, <1>3, <1>7 DEF RowsInv, RowIsHonest
  <2>2. CASE holds'[HoldOf(k)] = holds[HoldOf(k)]
    <3>1. Settled(k)
      BY <1>7, <2>1, <2>2 DEF RowIsHonest
    <3> QED
      BY <1>1, <2>1, <3>1, SettledStays DEF RowKept
  <2>3. CASE holds'[HoldOf(k)] # holds[HoldOf(k)]
    <3>1. PICK j \in Key : ResolvesHoldOf(j)
      BY <2>1, <2>3 DEF Tame, HoldsKept
    <3>2. HoldOf(j) = HoldOf(k)
      BY <2>1, <2>3, <3>1 DEF ResolvesHoldOf
    <3>3. j = k
      BY <1>1, <2>1, <3>1, <3>2 DEF ResolvesHoldOf, RowsInv, HoldsDiffer
    <3> QED
      BY <1>7, <3>1, <3>3 DEF ResolvesHoldOf
  <2> QED
    BY <2>2, <2>3
<1>8. ASSUME NEW k \in Key PROVE RowIsHonest(k)'
  <2>1. ASSUME IsOutboundRow(k)'
        PROVE  HoldOf(k)' \in HoldId /\ holds'[HoldOf(k)'] # NoHold /\ HoldOf(k)' = HoldOf(k)
    <3>1. IsOutboundRow(k) /\ HoldOf(k)' = HoldOf(k) /\ RowIsHonest(k)
      BY <1>1, <1>3, <2>1 DEF RowsInv
    <3> QED
      BY <1>1, <3>1, PlacedStays DEF RowIsHonest
  <2> QED
    BY <1>5, <1>6, <1>7, <2>1 DEF RowIsHonest
<1> QED
  BY <1>2, <1>4, <1>8 DEF RowsInv

\* What an actor knows after a step, said of the step and row it is then at.
LEMMA KnowingAt ==
    ASSUME NEW x, \A s, k : s = step'[x] /\ k = row'[x] => KnowsAt(s, k)'
    PROVE  WorkerKnows(x)'
  BY DEF WorkerKnows, KnowsAt, Present, IsOutboundRow, Settled, Unused, SettlingRequest, SettlingLegs, HoldOf

\* And the facts of an actor that does not move.
LEMMA TameKeepsActors ==
    ASSUME PayInv, Tame
    PROVE  /\ \A c \in Handler : step'[c] = step[c] /\ asked'[c] = asked[c] => HandlerOwnsHold(c)'
           /\ \A s, k : KnowsAt(s, k) => KnowsAt(s, k)'
           /\ \A x \in Worker : step'[x] = step[x] /\ row'[x] = row[x] => WorkerKnows(x)'
<1>1. /\ PayTypeOK /\ [Next]_vars /\ RowsInv
      /\ \A c \in Handler : HandlerOwnsHold(c)
      /\ \A x \in Worker : WorkerKnows(x)
  BY DEF PayInv, Tame
<1>2. ASSUME NEW k \in Key
      PROVE  /\ Present(k) => RowKept(k) /\ HoldOf(k)' = HoldOf(k)
             /\ IsOutboundRow(k)' <=> IsOutboundRow(k)
  <2>1. CASE Present(k)
    <3>1. RowKept(k)
      BY <1>1, <2>1, TameKeepsRow
    <3>2. transfers'[k].status # "absent" /\ transfers[k].status # "absent"
      BY <1>1, <2>1, <3>1, TransferRowTyped DEF RowKept, TransferRow
    <3> QED
      BY <3>1, <3>2 DEF RowKept, IsOutboundRow, HoldOf
  <2>2. CASE ~Present(k)
    BY <1>1, <2>2, TameKeepsRow DEF IsOutboundRow, Present, NoTransfer
  <2> QED
    BY <2>1, <2>2
<1>3. ASSUME NEW c \in Handler, step'[c] = step[c], asked'[c] = asked[c] PROVE HandlerOwnsHold(c)'
  <2>1. ASSUME Inserting(c)
        PROVE  holds'[asked[c].hold] = holds[asked[c].hold]
    <3>1. /\ asked[c].hold \in HoldId /\ holds[asked[c].hold].status = "active"
          /\ \A k \in Key : IsOutboundRow(k) => HoldOf(k) # asked[c].hold
      BY <1>1, <2>1 DEF HandlerOwnsHold
    <3>2. holds[asked[c].hold] # NoHold
      BY <3>1 DEF NoHold
    <3> QED
      BY <3>1, <3>2 DEF Tame, HoldsKept, ResolvesHoldOf
  <2>2. \A k \in Key : IsOutboundRow(k)' => IsOutboundRow(k) /\ HoldOf(k)' = HoldOf(k)
    BY <1>1, <1>2, TransferRowTyped
  <2>3. HandlerOwnsHold(c)
    BY <1>1
  <2> QED
    BY <1>3, <2>1, <2>2, <2>3 DEF HandlerOwnsHold, Inserting
<1>4. ASSUME NEW s, NEW k, KnowsAt(s, k) PROVE KnowsAt(s, k)'
  <2>1. CASE s \in {"idle", "next"}
    BY <2>1 DEF KnowsAt
  <2>2. CASE s \notin {"idle", "next"}
    <3>1. k \in Key /\ RowKept(k) /\ HoldOf(k)' = HoldOf(k) /\ (IsOutboundRow(k)' <=> IsOutboundRow(k))
      BY <1>2, <1>4, <2>2 DEF KnowsAt
    <3>2. s = "markCompleted" => Settled(k)'
      BY <1>1, <1>4, <3>1, SettledStays DEF KnowsAt, RowKept
    <3>3. IsOutboundRow(k) => HoldOf(k) \in HoldId
      BY <1>1, <3>1 DEF RowsInv, RowIsHonest
    <3>4. s \in {"markFailed", "markBlocked"} /\ IsOutboundRow(k) => holds'[HoldOf(k)].status = "released"
      BY <1>1, <1>4, <3>3, ReleasedStays DEF KnowsAt
    <3> QED
      BY <1>4, <3>1, <3>2, <3>4 DEF KnowsAt, RowKept
  <2> QED
    BY <2>1, <2>2
<1>5. ASSUME NEW x \in Worker, step'[x] = step[x], row'[x] = row[x] PROVE WorkerKnows(x)'
  <2>1. \A s, k : s = step[x] /\ k = row[x] => KnowsAt(s, k)'
    BY <1>1, <1>4 DEF WorkerKnows
  <2> QED
    BY <1>5, <2>1, KnowingAt
<1> QED
  BY <1>3, <1>4, <1>5

\* The variables that only the types are about.
Books ==
    /\ assessments \in [Key -> {"none", "allow", "hold", "block"}]
    /\ approved \subseteq Key
    /\ queue \in [Instance -> SUBSET Key] /\ answered \in [Instance -> SUBSET Key]
    /\ sent \in [Key -> Nat] /\ failures \in 0..MaxFailures /\ restarts \in 0..MaxRestarts
    /\ interrupted \subseteq Key /\ orphans \subseteq HoldId

\* A tame step leaves the ledger and the rows well typed.
LEMMA TameTyped ==
    ASSUME PayTypeOK, Tame
    PROVE  TypeOK' /\ transfers' \in [Key -> TransferRow \cup {NoTransfer}]
<1>1. TypeOK'
  BY NextTyped DEF PayTypeOK, Tame
<1>2. \A k \in Key : transfers'[k] \in TransferRow \cup {NoTransfer}
  BY TameKeepsRow DEF RowKept
<1>3. transfers' = [k \in Key |-> transfers'[k]]
  BY DEF Tame, UpdatesRow, ClaimsRows, PayTypeOK
<1> QED
  BY <1>1, <1>2, <1>3

\* A step of an instance or investigator keeps the invariant if it is tame and
\* the actor knows what it should.
LEMMA WorkerMoves ==
    ASSUME PayInv, Tame, NEW x \in Worker, NEW s \in Steps, NEW k \in Key \cup {"none"},
           step' = [step EXCEPT ![x] = s], row' = [row EXCEPT ![x] = k], UNCHANGED asked,
           Books', KnowsAt(s, k) \/ KnowsAt(s, k)',
           \A i \in Instance : \A j \in queue'[i] : j \in queue[i] \/ Present(j)
    PROVE  PayInv'
<1>1. PayTypeOK /\ x \in Actor /\ x \notin Handler
  BY ActorAssumption DEF PayInv, Worker, Actor
<1>2. /\ \A y \in Actor \ {x} : step'[y] = step[y]
      /\ \A y \in Worker \ {x} : row'[y] = row[y]
      /\ step'[x] = s /\ row'[x] = k
      /\ step' \in [Actor -> Steps] /\ row' \in [Instance \cup Investigator -> Key \cup {"none"}]
  BY <1>1 DEF PayTypeOK, Worker
<1>3. PayTypeOK'
  BY <1>1, <1>2, TameTyped DEF PayTypeOK, Books
<1>4. CapturedExactlyOnce' /\ RowsInv'
  BY TameKeepsRows
<1>5. ASSUME NEW c \in Handler PROVE HandlerOwnsHold(c)' /\ step'[c] = step[c]
  <2>1. step'[c] = step[c] /\ asked'[c] = asked[c]
    BY <1>1, <1>2 DEF Actor
  <2> QED
    BY <2>1, TameKeepsActors
<1>6. AskedHoldsDiffer'
  BY <1>5 DEF PayInv, AskedHoldsDiffer, Inserting
<1>7. QueuesArePresent'
  <2> SUFFICES ASSUME NEW i \in Instance, NEW j \in queue'[i] PROVE Present(j)'
    BY DEF QueuesArePresent
  <2>1. j \in Key /\ Present(j)
    BY DEF PayInv, QueuesArePresent, Books
  <2> QED
    BY <1>1, <2>1, TameKeepsRow DEF RowKept
<1>8. ASSUME NEW y \in Worker PROVE WorkerKnows(y)'
  <2>1. CASE y # x
    <3>1. step'[y] = step[y] /\ row'[y] = row[y]
      BY <1>2, <2>1 DEF Worker, Actor
    <3> QED
      BY <3>1, TameKeepsActors
  <2>2. CASE y = x
    <3>1. KnowsAt(s, k)'
      BY TameKeepsActors
    <3> QED
      BY <1>2, <2>2, <3>1, KnowingAt
  <2> QED
    BY <2>1, <2>2
<1> QED
  BY <1>3, <1>4, <1>5, <1>6, <1>7, <1>8 DEF PayInv

\* A step that writes no table, and ends at the step s of the row k.
LEMMA QuietMoves ==
    ASSUME PayInv, UNCHANGED <<vars, transfers, asked>>,
           NEW x \in Worker, NEW s \in Steps, NEW k \in Key \cup {"none"},
           step' = [step EXCEPT ![x] = s], row' = [row EXCEPT ![x] = k],
           Books', KnowsAt(s, k),
           \A i \in Instance : \A j \in queue'[i] : j \in queue[i] \/ Present(j)
    PROVE  PayInv' /\ Tame
<1>1. Tame
  BY DEF Tame, HoldsKept, vars
<1> QED
  BY <1>1, WorkerMoves

\* Where an instance or investigator stands.
LEMMA WorkerAt ==
    ASSUME PayInv, NEW x \in Worker
    PROVE  /\ PayTypeOK /\ Books /\ x \in Actor
           /\ step[x] \in Steps /\ row[x] \in Key \cup {"none"} /\ KnowsAt(step[x], row[x])
           /\ row = [row EXCEPT ![x] = row[x]] /\ step = [step EXCEPT ![x] = step[x]]
           /\ step[x] \notin {"idle", "next"} =>
                /\ row[x] \in Key /\ Present(row[x]) /\ Row(x) \in TransferRow
                /\ IsOutbound(x) <=> IsOutboundRow(row[x])
<1>1. PayTypeOK /\ x \in Actor /\ WorkerKnows(x)
  BY DEF PayInv, Worker, Actor
<1>2. step[x] \in Steps /\ row[x] \in Key \cup {"none"} /\ Books /\ KnowsAt(step[x], row[x])
  BY <1>1 DEF PayTypeOK, Books, WorkerKnows, Worker
<1>3. row = [row EXCEPT ![x] = row[x]] /\ step = [step EXCEPT ![x] = step[x]]
  BY <1>1 DEF PayTypeOK
<1>4. ASSUME step[x] \notin {"idle", "next"}
      PROVE  /\ row[x] \in Key /\ Present(row[x]) /\ Row(x) \in TransferRow
             /\ IsOutbound(x) <=> IsOutboundRow(row[x])
  <2>1. row[x] \in Key /\ Present(row[x])
    BY <1>2, <1>4 DEF KnowsAt
  <2> QED
    BY <1>1, <2>1, TransferRowTyped DEF Row, IsOutbound, Wanted
<1> QED
  BY <1>1, <1>2, <1>3, <1>4

\* A row that is done with needs nothing known.
LEMMA DoneMoves ==
    ASSUME PayInv, NEW x \in Worker, Done(x)
    PROVE  \E s \in Steps :
             /\ step' = [step EXCEPT ![x] = s] /\ row' = [row EXCEPT ![x] = "none"]
             /\ KnowsAt(s, "none")
<1> DEFINE s == IF x \in Instance /\ queue[x] # {} THEN "next" ELSE "idle"
<1>1. s \in {"next", "idle"} /\ s \in Steps /\ KnowsAt(s, "none")
  BY DEF Steps, KnowsAt
<1> QED
  BY <1>1 DEF Done, Goto

\* A row is done with, and no table written.
LEMMA QuietDone ==
    ASSUME PayInv, NEW x \in Worker, Done(x), UNCHANGED <<vars, transfers, asked, queue>>, Books'
    PROVE  PayInv' /\ Tame
<1>1. PICK s \in Steps : /\ step' = [step EXCEPT ![x] = s] /\ row' = [row EXCEPT ![x] = "none"]
                         /\ KnowsAt(s, "none")
  BY DoneMoves
<1> QED
  BY <1>1, QuietMoves

\* The actor goes on with its row, and no table is written.
LEMMA QuietGoto ==
    ASSUME PayInv, NEW x \in Worker, NEW s \in Steps, Goto(x, s), KnowsAt(s, row[x]),
           UNCHANGED <<vars, transfers, asked, row, queue>>, Books'
    PROVE  PayInv' /\ Tame
<1>1. row' = [row EXCEPT ![x] = row[x]] /\ row[x] \in Key \cup {"none"}
  BY WorkerAt
<1> QED
  BY <1>1, QuietMoves DEF Goto

-----------------------------------------------------------------------------
(***************************************************************************)
(* The steps of an instance or investigator, one by one.                   *)
(***************************************************************************)

\* Claiming marks present rows only.
LEMMA ClaimKeeps ==
    ASSUME PayInv, NEW i \in Instance, NEW batch \in SUBSET Key, Claim(i, batch)
    PROVE  PayInv' /\ Tame
<1>1. i \in Worker /\ PayTypeOK /\ Books
  BY WorkerAt DEF Worker
<1>2. \A k \in batch : transfers[k].status \in {"pending", "processing"}
  BY DEF Claim, Pending, Processing
<1>3. ClaimsRows(batch) /\ HoldsKept /\ UNCHANGED vars
  BY <1>2 DEF Claim, ClaimsRows, HoldsKept, vars
<1>4. Tame
  BY <1>3 DEF Tame
<1>5. \A k \in batch : Present(k)
  BY <1>2 DEF Present, NoTransfer
<1>6. "next" \in Steps /\ KnowsAt("next", row[i])
  BY DEF Steps, KnowsAt
<1>7. step' = [step EXCEPT ![i] = "next"] /\ row' = [row EXCEPT ![i] = row[i]] /\ row[i] \in Key \cup {"none"}
  BY <1>1, WorkerAt DEF Claim, Goto
<1>8. Books' /\ \A y \in Instance : \A j \in queue'[y] : j \in queue[y] \/ Present(j)
  BY <1>1, <1>5 DEF Claim, Books
<1> QED
  BY <1>1, <1>4, <1>6, <1>7, <1>8, WorkerMoves DEF Claim

\* A row of the batch is present.
LEMMA TakeKeeps ==
    ASSUME PayInv, NEW i \in Instance, TakeRow(i)
    PROVE  PayInv' /\ Tame
<1>1. i \in Worker /\ Books
  BY WorkerAt DEF Worker
<1>2. PICK k \in queue[i] : row' = [row EXCEPT ![i] = k] /\ queue' = [queue EXCEPT ![i] = @ \ {k}]
  BY DEF TakeRow
<1>3. k \in Key /\ Present(k)
  BY <1>1 DEF Books, PayInv, QueuesArePresent
<1>4. "assessed" \in Steps /\ KnowsAt("assessed", k)
  BY <1>3 DEF Steps, KnowsAt
<1>5. Books' /\ \A y \in Instance : \A j \in queue'[y] : j \in queue[y]
  BY <1>1, <1>2 DEF TakeRow, Books
<1> QED
  BY <1>1, <1>2, <1>3, <1>4, <1>5, QuietMoves DEF TakeRow, Goto

\* The assessment only reads the row, and records its decision elsewhere.
LEMMA AssessKeeps ==
    ASSUME PayInv, NEW i \in Instance, ReadAssessed(i) \/ ReadExisting(i) \/ RecordAssessment(i)
    PROVE  PayInv' /\ Tame
<1>1. i \in Worker /\ Books /\ step[i] \notin {"idle", "next"}
  BY WorkerAt DEF Worker, ReadAssessed, ReadExisting, RecordAssessment
<1>2. /\ row[i] \in Key /\ Present(row[i]) /\ (IsOutbound(i) <=> IsOutboundRow(row[i]))
      /\ UNCHANGED <<vars, transfers, asked, queue>>
  BY <1>1, WorkerAt DEF ReadAssessed, ReadExisting, RecordAssessment
<1>3. \A s \in {"existing", "rail", "record", "unclaim", "markHeld"} : s \in Steps /\ KnowsAt(s, row[i])
  BY <1>2 DEF Steps, KnowsAt
<1>4. ASSUME ReadAssessed(i) PROVE PayInv' /\ Tame
  <2>1. PICK s \in {"existing", "rail"} : Goto(i, s)
    BY <1>4 DEF ReadAssessed
  <2>2. Books'
    BY <1>1, <1>4 DEF ReadAssessed, Books
  <2> QED
    BY <1>1, <1>2, <1>3, <1>4, <2>1, <2>2, QuietGoto DEF ReadAssessed
<1>5. ASSUME ReadExisting(i) PROVE PayInv' /\ Tame
  <2>1. Books'
    BY <1>1, <1>5 DEF ReadExisting, Books
  <2>2. (\E s \in {"record", "rail", "unclaim"} : Goto(i, s) /\ UNCHANGED row) \/ Done(i)
    BY <1>5 DEF ReadExisting
  <2> QED
    BY <1>1, <1>2, <1>3, <2>1, <2>2, QuietGoto, QuietDone
<1>6. ASSUME RecordAssessment(i) PROVE PayInv' /\ Tame
  <2>1. CASE assessments[row[i]] # "none"
    <3>1. Done(i) /\ Books'
      BY <1>1, <1>6, <2>1 DEF RecordAssessment, Books
    <3> QED
      BY <1>1, <1>2, <3>1, QuietDone
  <2>2. CASE assessments[row[i]] = "none"
    <3>1. PICK decision \in Decisions : /\ assessments' = [assessments EXCEPT ![row[i]] = decision]
                                        /\ Goto(i, Apply(i, decision))
                                        /\ UNCHANGED row
      BY <1>6, <2>2 DEF RecordAssessment
    <3>2. decision \in {"allow", "hold", "block"}
      BY DecisionsAssumption
    <3>3. Books'
      BY <1>1, <1>6, <3>1, <3>2 DEF RecordAssessment, Books
    <3>4. IsOutboundRow(row[i]) => "releaseBlocked" \in Steps /\ KnowsAt("releaseBlocked", row[i])
      BY <1>2 DEF Steps, KnowsAt
    <3>5. ~IsOutboundRow(row[i]) => "markBlocked" \in Steps /\ KnowsAt("markBlocked", row[i])
      BY <1>2 DEF Steps, KnowsAt
    <3>6. Apply(i, decision) \in Steps /\ KnowsAt(Apply(i, decision), row[i])
      BY <1>2, <1>3, <3>2, <3>4, <3>5 DEF Apply
    <3> QED
      BY <1>1, <1>2, <3>1, <3>3, <3>6, QuietGoto
  <2> QED
    BY <2>1, <2>2
<1> QED
  BY <1>4, <1>5, <1>6

\* An UPDATE of the actor's row to a status it may take.
LEMMA UpdateKeeps ==
    ASSUME PayInv, NEW x \in Worker, step[x] \notin {"idle", "next"}, UNCHANGED <<vars, asked, queue>>, Books',
           \E status \in {"pending", "processing", "completed", "failed"}, risk \in {"clear", "held", "blocked"} :
             Update(x, status, risk) /\ MayBecome(row[x], status),
           Done(x) \/ (Goto(x, "unclaim") /\ UNCHANGED row)
    PROVE  PayInv' /\ Tame
<1>1. /\ row[x] \in Key /\ Present(row[x]) /\ row = [row EXCEPT ![x] = row[x]]
  BY WorkerAt
<1>2. PICK status \in {"pending", "processing", "completed", "failed"}, risk \in {"clear", "held", "blocked"} :
        Update(x, status, risk) /\ MayBecome(row[x], status)
  OBVIOUS
<1>3. Tame
  <2>1. UpdatesRow(row[x])
    BY <1>1, <1>2 DEF Update, UpdatesRow
  <2> QED
    BY <1>1, <2>1 DEF Tame, HoldsKept, vars
<1>4. \A i \in Instance : \A j \in queue'[i] : j \in queue[i]
  OBVIOUS
<1>5. CASE Done(x)
  <2>1. PICK s \in Steps : /\ step' = [step EXCEPT ![x] = s] /\ row' = [row EXCEPT ![x] = "none"]
                           /\ KnowsAt(s, "none")
    BY <1>5, DoneMoves
  <2> QED
    BY <1>3, <1>4, <2>1, WorkerMoves
<1>6. CASE Goto(x, "unclaim") /\ UNCHANGED row
  <2>1. "unclaim" \in Steps /\ KnowsAt("unclaim", row[x])
    BY <1>1 DEF Steps, KnowsAt
  <2> QED
    BY <1>1, <1>3, <1>4, <1>6, <2>1, WorkerMoves DEF Goto
<1> QED
  BY <1>5, <1>6

\* The statements that write the actor's row.
LEMMA RowUpdatesKeep ==
    ASSUME PayInv, NEW x \in Worker,
           MarkHeld(x) \/ RevertToPending(x) \/ MarkBlocked(x) \/ MarkFailed(x) \/ MarkCompleted(x)
    PROVE  PayInv' /\ Tame
<1>1. step[x] \notin {"idle", "next"} /\ UNCHANGED <<vars, asked, queue>>
  BY DEF MarkHeld, RevertToPending, MarkBlocked, MarkFailed, MarkCompleted
<1>2. Books'
  BY WorkerAt DEF Books, MarkHeld, RevertToPending, MarkBlocked, MarkFailed, MarkCompleted
<1>3. /\ Row(x).status \in {"pending", "processing", "completed", "failed"}
      /\ Row(x).risk \in {"clear", "held", "blocked"} /\ KnowsAt(step[x], row[x])
  BY <1>1, WorkerAt DEF TransferRow
<1>4. Done(x) \/ (Goto(x, "unclaim") /\ UNCHANGED row)
  BY DEF MarkHeld, RevertToPending, MarkBlocked, MarkFailed, MarkCompleted
<1>5. \E status \in {"pending", "processing", "completed", "failed"}, risk \in {"clear", "held", "blocked"} :
        Update(x, status, risk) /\ MayBecome(row[x], status)
  <2>1. CASE MarkHeld(x)
    BY <1>3, <2>1 DEF MarkHeld, MayBecome, Row
  <2>2. CASE RevertToPending(x)
    BY <1>3, <2>2 DEF RevertToPending, MayBecome
  <2>3. CASE MarkBlocked(x)
    BY <1>3, <2>3 DEF MarkBlocked, MayBecome, KnowsAt
  <2>4. CASE MarkFailed(x)
    BY <1>3, <2>4 DEF MarkFailed, MayBecome, KnowsAt
  <2>5. CASE MarkCompleted(x)
    BY <1>3, <2>5 DEF MarkCompleted, MayBecome, KnowsAt
  <2> QED
    BY <2>1, <2>2, <2>3, <2>4, <2>5
<1> QED
  BY <1>1, <1>2, <1>4, <1>5, UpdateKeeps

\* A release is of the row's own hold, and the row fails only after it.
LEMMA ReleaseKeeps ==
    ASSUME PayInv, NEW x \in Worker, ReleaseBlocked(x) \/ ReleaseRejected(x)
    PROVE  PayInv' /\ Tame
<1> DEFINE k == row[x]
           h == Row(x).hold
<1>1. step[x] \in {"releaseBlocked", "releaseRejected"}
  BY DEF ReleaseBlocked, ReleaseRejected
<1>2. PayTypeOK /\ Books /\ k \in Key /\ Present(k) /\ IsOutboundRow(k) /\ row = [row EXCEPT ![x] = k]
  BY <1>1, WorkerAt DEF KnowsAt
<1>3. UNCHANGED <<transfers, assessments, approved, asked, queue, answered, sent, failures, restarts, history>>
  BY DEF ReleaseBlocked, ReleaseRejected
<1>4. Books'
  BY <1>2, <1>3 DEF Books
<1>5. PICK next \in {"markBlocked", "markFailed"} : ReleaseRowHold(x, next)
  BY DEF ReleaseBlocked, ReleaseRejected
<1>6. CASE Done(x) /\ UNCHANGED vars
  BY <1>3, <1>4, <1>6, QuietDone
<1>7. CASE ReleaseHold(h) /\ Goto(x, next) /\ UNCHANGED row
  <2>1. h \in HoldId /\ h = HoldOf(k)
    BY <1>2 DEF PayInv, RowsInv, RowIsHonest, HoldOf, Row
  <2>2. [Next]_vars
    BY <1>7, <2>1 DEF Next
  <2>3. holds \in [HoldId -> Hold \cup {NoHold}]
    BY <1>2 DEF PayTypeOK, TypeOK
  <2>4. holds[h].status = "active" /\ holds' = [holds EXCEPT ![h].status = "released"]
    BY <1>7 DEF ReleaseHold, ResolveHold
  <2>5. holds[h] \in Hold
    BY <2>1, <2>3, <2>4 DEF NoHold
  <2>6. holds'[h].status = "released" /\ \A g \in HoldId \ {h} : holds'[g] = holds[g]
    BY <2>1, <2>3, <2>4, <2>5 DEF Hold
  <2>7. ResolvesHoldOf(k)
    BY <1>2, <2>1, <2>6 DEF ResolvesHoldOf
  <2>8. Tame
    BY <1>2, <1>3, <2>2, <2>7 DEF Tame
  <2>9. KnowsAt(next, k)'
    <3>1. transfers' = transfers
      BY <1>3
    <3> SUFFICES ASSUME NEW j, j = k PROVE KnowsAt(next, j)'
      BY <1>7, <2>8 DEF KnowsAt, Present, IsOutboundRow, HoldOf, Settled, Unused, SettlingRequest, SettlingLegs
    <3>2. Present(j)' /\ j \in Key /\ holds'[HoldOf(j)'].status = "released"
      BY <1>2, <2>1, <2>6, <3>1 DEF Present, HoldOf
    <3> QED
      BY <3>2 DEF KnowsAt
  <2>10. next \in Steps
    BY DEF Steps
  <2> QED
    BY <1>2, <1>3, <1>4, <1>7, <2>8, <2>9, <2>10, WorkerMoves DEF Goto
<1> QED
  BY <1>5, <1>6, <1>7 DEF ReleaseRowHold
\* The rail is told of the row, and a rejected outbound row's hold goes back first.
LEMMA RailKeeps ==
    ASSUME PayInv, NEW i \in Instance, CallRail(i)
    PROVE  PayInv' /\ Tame
<1>1. i \in Worker /\ Books /\ step[i] \notin {"idle", "next"}
  BY WorkerAt DEF Worker, CallRail
<1>2. /\ row[i] \in Key /\ Present(row[i]) /\ (IsOutbound(i) <=> IsOutboundRow(row[i]))
      /\ UNCHANGED <<vars, transfers, asked, row, queue>>
  BY <1>1, WorkerAt DEF CallRail
<1>3. Books'
  BY <1>1, <1>2 DEF CallRail, Books
<1>4. "settle" \in Steps /\ KnowsAt("settle", row[i])
  BY <1>2 DEF Steps, KnowsAt
<1>5. IsOutbound(i) => "releaseRejected" \in Steps /\ KnowsAt("releaseRejected", row[i])
  BY <1>2 DEF Steps, KnowsAt
<1>6. ~IsOutbound(i) => "markFailed" \in Steps /\ KnowsAt("markFailed", row[i])
  BY <1>2 DEF Steps, KnowsAt
<1>7. PICK s \in Steps : Goto(i, s) /\ KnowsAt(s, row[i])
  BY <1>4, <1>5, <1>6 DEF CallRail
<1> QED
  BY <1>1, <1>2, <1>3, <1>7, QuietGoto

\* An instance is interrupted at the row it works on.
LEMMA InterruptedKeys ==
    ASSUME PayInv, NEW x \in Worker, Interrupt(x)
    PROVE  interrupted \subseteq interrupted' /\ interrupted' \subseteq Key
<1>1. Books /\ (step[x] \in {"markHeld", "unclaim", "releaseBlocked", "markBlocked"} => row[x] \in Key)
  BY WorkerAt
<1> QED
  BY <1>1 DEF Interrupt, Books

\* No answer, or a statement that fails: the row is let go of as it is.
LEMMA LettingGoKeeps ==
    ASSUME PayInv, NEW x \in Worker, FailStatement(x) \/ (x \in Instance /\ RailTimesOut(x))
    PROVE  PayInv' /\ Tame
<1>1. Books /\ Done(x) /\ UNCHANGED <<vars, transfers, asked, queue>>
  BY WorkerAt DEF FailStatement, RailTimesOut
<1>2. CASE FailStatement(x)
  <2>1. failures + 1 \in 0..MaxFailures
    BY <1>1, <1>2, BoundsAssumption DEF FailStatement, Books
  <2>2. Books'
    BY <1>1, <1>2, <2>1, InterruptedKeys DEF FailStatement, Books
  <2> QED
    BY <1>1, <2>2, QuietDone
<1>3. CASE x \in Instance /\ RailTimesOut(x)
  <2>1. Books'
    BY <1>1, <1>3 DEF RailTimesOut, Books
  <2> QED
    BY <1>1, <2>1, QuietDone
<1> QED
  BY <1>2, <1>3

\* A restart forgets the row, the batch and the cache.
LEMMA RestartKeeps ==
    ASSUME PayInv, NEW i \in Instance, Restart(i)
    PROVE  PayInv' /\ Tame
<1>1. i \in Worker /\ Books
  BY WorkerAt DEF Worker
<1>2. restarts + 1 \in 0..MaxRestarts
  BY <1>1, BoundsAssumption DEF Restart, Books
<1>3. Books' /\ \A y \in Instance : \A j \in queue'[y] : j \in queue[y]
  BY <1>1, <1>2, InterruptedKeys DEF Restart, Books
<1>4. "idle" \in Steps /\ KnowsAt("idle", "none")
  BY DEF Steps, KnowsAt
<1> QED
  BY <1>1, <1>3, <1>4, QuietMoves DEF Restart

\* An investigator's approval writes the risk of a row, its refusal takes the
\* row on like Assess does.
LEMMA ApproveKeeps ==
    ASSUME PayInv, NEW x \in Worker, NEW k \in Key, Approve(x, k)
    PROVE  PayInv' /\ Tame
<1>1. PayTypeOK /\ Books /\ row[x] \in Key \cup {"none"}
      /\ row = [row EXCEPT ![x] = row[x]] /\ step = [step EXCEPT ![x] = step[x]]
      /\ step[x] \in Steps /\ KnowsAt(step[x], row[x])
  BY WorkerAt
<1>2. transfers[k].status # "absent" /\ UNCHANGED <<vars, step, asked, row, queue>>
  BY DEF Approve
<1>3. Present(k) /\ transfers[k] \in TransferRow
  BY <1>1, <1>2, TransferRowTyped
<1>4. /\ transfers[k].status \in {"pending", "processing", "completed", "failed"}
      /\ transfers[k] = [transfers[k] EXCEPT !.status = transfers[k].status]
  BY <1>3 DEF TransferRow
<1>5. transfers' = [transfers EXCEPT ![k].status = transfers[k].status, ![k].risk = "clear"]
  BY <1>1, <1>4 DEF Approve, PayTypeOK
<1>6. MayBecome(k, transfers[k].status)
  BY DEF MayBecome
<1>7. UpdatesRow(k)
  BY <1>3, <1>4, <1>5, <1>6 DEF UpdatesRow
<1>8. Tame
  BY <1>2, <1>7 DEF Tame, HoldsKept, vars
<1>9. Books'
  BY <1>1 DEF Approve, Books
<1> QED
  BY <1>1, <1>2, <1>8, <1>9, WorkerMoves

\* An investigator that refuses a row releases the hold before the row fails.
LEMMA BlockKeeps ==
    ASSUME PayInv, NEW x \in Worker, NEW k \in Key, Block(x, k)
    PROVE  PayInv' /\ Tame
<1>1. PayTypeOK /\ Books
  BY WorkerAt
<1>2. transfers[k].status # "absent" /\ UNCHANGED <<vars, transfers, asked, queue>>
  BY DEF Block
<1>3. Present(k)
  BY <1>1, <1>2, TransferRowTyped
<1>4. Books'
  BY <1>1 DEF Block, Books
<1>5. IsOutboundRow(k) => "releaseBlocked" \in Steps /\ KnowsAt("releaseBlocked", k)
  BY <1>3 DEF Steps, KnowsAt
<1>6. ~IsOutboundRow(k) => "markBlocked" \in Steps /\ KnowsAt("markBlocked", k)
  BY <1>3 DEF Steps, KnowsAt
<1>7. PICK s \in Steps : Goto(x, s) /\ KnowsAt(s, k)
  BY <1>1, <1>3, <1>5, <1>6, TransferRowTyped DEF Block
<1> QED
  BY <1>2, <1>4, <1>7, QuietMoves DEF Block, Goto
\* The statement after a settling ledger call knows that the row is settled.
LEMMA SettledGoesOn ==
    ASSUME PayInv, NEW i \in Instance, Settle(i), Goto(i, "markCompleted"), UNCHANGED row,
           Tame, Settled(row[i])', row[i] \in Key, Present(row[i]), Books
    PROVE  PayInv'
<1>1. i \in Worker /\ UNCHANGED <<transfers, asked, queue>> /\ row = [row EXCEPT ![i] = row[i]]
  BY WorkerAt DEF Worker, Settle
<1>2. Books'
  BY DEF Settle, Books
<1>3. KnowsAt("markCompleted", row[i])'
  BY <1>1 DEF KnowsAt, Present
<1>4. "markCompleted" \in Steps
  BY DEF Steps
<1>5. \A y \in Instance : \A j \in queue'[y] : j \in queue[y]
  BY <1>1
<1> DEFINE k == row[i]
<1>6. KnowsAt("markCompleted", k)'
  BY <1>3
<1> QED
  BY <1>1, <1>2, <1>3, <1>4, <1>5, WorkerMoves DEF Goto

\* A capture settles the row whose hold it is, a credit the row itself; a
\* replay has been settled before, and a refusal records nothing.
LEMMA SettleKeeps ==
    ASSUME PayInv, NEW i \in Instance, Settle(i)
    PROVE  PayInv' /\ Tame
<1> DEFINE k == row[i]
           h == Row(i).hold
           request == Wanted(i)
<1>1. i \in Worker /\ Books /\ step[i] = "settle" /\ UNCHANGED <<transfers, asked, queue>>
  BY WorkerAt DEF Worker, Settle
<1>2. /\ PayTypeOK /\ k \in Key /\ Present(k) /\ Row(i) \in TransferRow
      /\ (IsOutbound(i) <=> IsOutboundRow(k))
  BY <1>1, WorkerAt
<1>3. Books'
  BY <1>1 DEF Settle, Books
<1>4. txns \in [Key -> Txn \cup {NoTxn}] /\ holds \in [HoldId -> Hold \cup {NoHold}]
  BY <1>2 DEF PayTypeOK, TypeOK
<1>5. request.account \in Account /\ request.amount \in Amount
  BY <1>2, RequestAssumption DEF TransferRow, Wanted
<1>6. CASE Done(i) /\ UNCHANGED vars
  BY <1>1, <1>3, <1>6, QuietDone
<1>7. CASE ~Unused(k) /\ txns[k].request = SettlingRequest(k) /\ UNCHANGED vars /\ Goto(i, "markCompleted")
             /\ UNCHANGED row
  <2>1. Tame
    BY <1>1, <1>7 DEF Tame, HoldsKept, vars
  <2>2. Settled(k)
    BY <1>7 DEF Settled
  <2>3. transfers' = transfers /\ row' = row
    BY <1>1, <1>7
  <2>4. Settled(k)'
    BY <1>2, <2>1, <2>2, <2>3, SettledStays DEF Tame
  <2> QED
    BY <1>1, <1>2, <1>7, <2>1, <2>4, SettledGoesOn
<1>8. CASE IsOutbound(i) /\ CaptureHold(h, k) /\ Goto(i, "markCompleted") /\ UNCHANGED row
  <2>1. h \in HoldId /\ h = HoldOf(k) /\ IsOutboundRow(k)
    BY <1>2, <1>8 DEF PayInv, RowsInv, RowIsHonest, HoldOf, Row
  <2>2. [Next]_vars
    BY <1>2, <1>8, <2>1 DEF Next
  <2>3. /\ holds[h].status = "active" /\ holds' = [holds EXCEPT ![h].status = "captured"]
        /\ txns' = [txns EXCEPT ![k] =
                      Posted("debit", DebitLegs(holds[h].account, holds[h].amount), CaptureRequest(h))]
    BY <1>8 DEF CaptureHold, ResolveHold
  <2>4. \A g \in HoldId \ {h} : holds'[g] = holds[g]
    BY <1>4, <2>1, <2>3
  <2>5. txns'[k].request = CaptureRequest(h) /\ txns'[k] # NoTxn
    BY <1>2, <1>4, <2>3 DEF Posted, NoTxn
  <2>6. Settled(k)'
    BY <1>1, <1>8, <2>1, <2>5 DEF Settled, Unused, SettlingRequest, IsOutboundRow, Row
  <2>7. ResolvesHoldOf(k)
    BY <2>1, <2>4, <2>6, <1>1, <1>8 DEF ResolvesHoldOf
  <2>8. Tame
    BY <1>1, <1>2, <2>2, <2>7 DEF Tame
  <2> QED
    BY <1>1, <1>2, <1>8, <2>6, <2>8, SettledGoesOn
<1>9. CASE ~IsOutbound(i) /\ Credit(request.account, request.amount, k) /\ Goto(i, "markCompleted")
             /\ UNCHANGED row
  <2>1. [Next]_vars
    BY <1>2, <1>5, <1>9 DEF Next
  <2>2. /\ holds' = holds
        /\ txns' = [txns EXCEPT ![k] =
                      Posted("credit", CreditLegs(request.account, request.amount),
                             LegsRequest("credit", CreditLegs(request.account, request.amount)))]
    BY <1>9 DEF Credit, PostTransaction
  <2>3. /\ txns'[k].request = LegsRequest("credit", CreditLegs(request.account, request.amount))
        /\ txns'[k] # NoTxn
    BY <1>2, <1>4, <2>2 DEF Posted, NoTxn
  <2>4. Settled(k)'
    BY <1>1, <1>9, <2>3 DEF Settled, Unused, SettlingRequest, SettlingLegs, IsOutbound, Wanted, Row
  <2>5. Tame
    BY <1>1, <2>1, <2>2 DEF Tame, HoldsKept
  <2> QED
    BY <1>1, <1>2, <1>9, <2>4, <2>5, SettledGoesOn
<1> QED
  BY <1>6, <1>7, <1>8, <1>9 DEF Settle
-----------------------------------------------------------------------------
(***************************************************************************)
(* The steps of a handler.                                                 *)
(***************************************************************************)

\* What a handler holds for its request.
AskedRow == [request : TransferRequest \cup {NoRequest.request}, hold : HoldId \cup {"none"}]

\* A tame step of a handler keeps the invariant if its hold is its own.
LEMMA HandlerMoves ==
    ASSUME PayInv, Tame, NEW c \in Handler, NEW s \in Steps, NEW a \in AskedRow,
           step' = [step EXCEPT ![c] = s], asked' = [asked EXCEPT ![c] = a],
           UNCHANGED <<row, queue>>, Books', HandlerOwnsHold(c)',
           \A d \in Handler : Inserting(d) /\ s = "insert" /\ a.request.direction = "outbound"
                                => asked[d].hold # a.hold
    PROVE  PayInv'
<1>1. PayTypeOK /\ c \in Actor /\ c \notin Worker
  BY ActorAssumption DEF PayInv, Worker, Actor
<1>2. /\ \A y \in Actor \ {c} : step'[y] = step[y]
      /\ \A d \in Handler \ {c} : asked'[d] = asked[d]
      /\ step'[c] = s /\ asked'[c] = a
      /\ step' \in [Actor -> Steps] /\ asked' \in [Handler -> AskedRow]
  BY <1>1 DEF PayTypeOK, AskedRow
<1>3. PayTypeOK'
  BY <1>1, <1>2, TameTyped DEF PayTypeOK, Books, AskedRow
<1>4. CapturedExactlyOnce' /\ RowsInv'
  BY TameKeepsRows
<1>5. ASSUME NEW d \in Handler \ {c} PROVE HandlerOwnsHold(d)' /\ step'[d] = step[d] /\ asked'[d] = asked[d]
  <2>1. step'[d] = step[d] /\ asked'[d] = asked[d]
    BY <1>2 DEF Actor
  <2> QED
    BY <2>1, TameKeepsActors
<1>6. AskedHoldsDiffer'
  BY <1>2, <1>5 DEF PayInv, AskedHoldsDiffer, Inserting
<1>7. QueuesArePresent'
  <2> SUFFICES ASSUME NEW i \in Instance, NEW j \in queue[i] PROVE Present(j)'
    BY DEF QueuesArePresent
  <2>1. j \in Key /\ Present(j)
    BY <1>1 DEF PayInv, QueuesArePresent, PayTypeOK
  <2> QED
    BY <1>1, <2>1, TameKeepsRow DEF RowKept
<1>8. ASSUME NEW y \in Worker PROVE WorkerKnows(y)'
  <2>1. step'[y] = step[y] /\ row'[y] = row[y]
    BY <1>1, <1>2 DEF Worker, Actor
  <2> QED
    BY <2>1, TameKeepsActors
<1>9. \A d \in Handler : HandlerOwnsHold(d)'
  BY <1>5
<1> QED
  BY <1>3, <1>4, <1>6, <1>7, <1>8, <1>9 DEF PayInv

\* Where a handler stands.
LEMMA HandlerAt ==
    ASSUME PayInv, NEW c \in Handler
    PROVE  /\ PayTypeOK /\ Books /\ asked[c] \in AskedRow /\ HandlerOwnsHold(c)
           /\ step[c] \in {"place", "insert"} =>
                asked[c].request \in TransferRequest /\ asked[c].request.key \in Key
           /\ NoRequest \in AskedRow
<1>1. PayTypeOK /\ HandlerOwnsHold(c)
  BY DEF PayInv
<1>2. Books /\ asked[c] \in AskedRow /\ NoRequest \in AskedRow
  BY <1>1 DEF PayTypeOK, Books, AskedRow, NoRequest
<1> QED
  BY <1>1, <1>2, RequestAssumption DEF HandlerOwnsHold

\* A handler that gives its request up.
LEMMA HandlerIdles ==
    ASSUME PayInv, Tame, NEW c \in Handler, Goto(c, "idle"), asked' = [asked EXCEPT ![c] = NoRequest],
           UNCHANGED <<row, queue>>, Books'
    PROVE  PayInv'
<1>1. "idle" \in Steps /\ NoRequest \in AskedRow
  BY HandlerAt DEF Steps
<1>2. step'[c] = "idle"
  BY HandlerAt DEF Goto, PayTypeOK, Actor
<1>3. HandlerOwnsHold(c)'
  BY <1>2 DEF HandlerOwnsHold, Inserting
<1> QED
  BY <1>1, <1>3, HandlerMoves DEF Goto

\* A request that is lost leaves its hold behind, and nothing else.
LEMMA LoseRequestKeeps ==
    ASSUME PayInv, NEW c \in Handler, LoseRequest(c)
    PROVE  PayInv' /\ Tame
<1>1. Books
  BY HandlerAt
<1>2. failures + 1 \in 0..MaxFailures
  BY <1>1, BoundsAssumption DEF LoseRequest, Books
<1>3. Books'
  BY <1>1, <1>2, HandlerAt DEF LoseRequest, Books, HoldAsked, AskedRow
<1>4. Tame
  BY DEF LoseRequest, Tame, HoldsKept, vars
<1> QED
  BY <1>3, <1>4, HandlerIdles DEF LoseRequest

\* A request for an unknown key is taken up.
LEMMA LookUpKeeps ==
    ASSUME PayInv, NEW c \in Handler, NEW request \in TransferRequest, LookUpKey(c, request)
    PROVE  PayInv' /\ Tame
<1> DEFINE a == [asked[c] EXCEPT !.request = request]
           s == IF request.direction = "outbound" THEN "place" ELSE "insert"
<1>1. PayTypeOK /\ Books /\ asked[c] \in AskedRow /\ c \in Actor
  BY HandlerAt DEF Actor
<1>2. a \in AskedRow /\ a.request = request /\ s \in Steps
  BY <1>1 DEF AskedRow, Steps
<1>3. asked' = [asked EXCEPT ![c] = a] /\ step' = [step EXCEPT ![c] = s] /\ UNCHANGED <<row, queue>>
  BY DEF LookUpKey, Goto
<1>4. Books'
  BY <1>1 DEF LookUpKey, Books
<1>5. Tame
  BY DEF LookUpKey, Tame, HoldsKept, vars
<1>6. step'[c] = s /\ asked'[c] = a
  BY <1>1, <1>3 DEF PayTypeOK
<1>7. s = "insert" => a.request.direction # "outbound"
  BY <1>2
<1>8. HandlerOwnsHold(c)'
  BY <1>2, <1>6, <1>7 DEF HandlerOwnsHold, Inserting
<1> HIDE DEF a, s
<1> QED
  BY <1>2, <1>3, <1>4, <1>5, <1>7, <1>8, HandlerMoves

\* The hold a handler places is new: no row and no other handler has it.
LEMMA ReserveKeeps ==
    ASSUME PayInv, NEW c \in Handler, ReserveAmount(c)
    PROVE  PayInv' /\ Tame
<1> DEFINE request == asked[c].request
<1>1. PayTypeOK /\ Books /\ asked[c] \in AskedRow /\ c \in Actor
  BY HandlerAt DEF Actor
<1>2. /\ request \in TransferRequest /\ request.account \in Account /\ request.amount \in Amount
      /\ request.direction = "outbound" /\ step[c] = "place"
  BY HandlerAt, RequestAssumption DEF ReserveAmount, HandlerOwnsHold
<1>3. Books' /\ UNCHANGED <<transfers, row, queue>>
  BY <1>1 DEF ReserveAmount, Books
<1>4. CASE Goto(c, "idle") /\ asked' = [asked EXCEPT ![c] = NoRequest] /\ UNCHANGED vars
  <2>1. Tame
    BY <1>3, <1>4 DEF Tame, HoldsKept, vars
  <2> QED
    BY <1>3, <1>4, <2>1, HandlerIdles
<1>5. ASSUME NEW h \in HoldId, PlaceHold(h, request.account, request.amount),
             asked' = [asked EXCEPT ![c].hold = h], Goto(c, "insert")
      PROVE  PayInv' /\ Tame
  <2> DEFINE a == [asked[c] EXCEPT !.hold = h]
  <2>1. a \in AskedRow /\ a.hold = h /\ a.request = request
    BY <1>1 DEF AskedRow
  <2>2. /\ asked' = [asked EXCEPT ![c] = a] /\ step' = [step EXCEPT ![c] = "insert"] /\ "insert" \in Steps
        /\ step'[c] = "insert" /\ asked'[c] = a
    BY <1>1, <1>5 DEF PayTypeOK, Goto, Steps
  <2>3. [Next]_vars
    BY <1>2, <1>5 DEF Next
  <2>4. /\ holds[h] = NoHold
        /\ holds' = [holds EXCEPT ![h] = [status |-> "active", account |-> request.account,
                                          amount |-> request.amount]]
        /\ holds \in [HoldId -> Hold \cup {NoHold}]
    BY <1>1, <1>5 DEF PlaceHold, PayTypeOK, TypeOK
  <2>5. holds'[h].status = "active" /\ \A g \in HoldId \ {h} : holds'[g] = holds[g]
    BY <2>4
  <2>6. Tame
    BY <1>3, <2>3, <2>4, <2>5 DEF Tame, HoldsKept
  <2>7. \A k \in Key : IsOutboundRow(k) => HoldOf(k) # h
    BY <2>4 DEF PayInv, RowsInv, RowIsHonest
  <2>8. \A k \in Key : IsOutboundRow(k)' => HoldOf(k)' # h
    BY <1>3, <2>7 DEF IsOutboundRow, HoldOf
  <2>9. ASSUME NEW d \in Handler, Inserting(d) PROVE asked[d].hold # h
    <3>1. holds[asked[d].hold].status = "active"
      BY <2>9 DEF PayInv, HandlerOwnsHold
    <3> QED
      BY <2>4, <3>1 DEF NoHold
  <2>10. HandlerOwnsHold(c)'
    BY <1>2, <2>1, <2>2, <2>5, <2>8 DEF HandlerOwnsHold, Inserting
  <2> HIDE DEF a
  <2> QED
    BY <1>3, <2>1, <2>2, <2>6, <2>9, <2>10, HandlerMoves
<1> QED
  BY <1>4, <1>5 DEF ReserveAmount
\* A new row, pending, with the hold its handler placed for it.
NewRow(c) == [status |-> "pending", risk |-> "clear", request |-> asked[c].request, hold |-> asked[c].hold]

Inserts(c) ==
    /\ InsertRow(c)
    /\ ~Present(asked[c].request.key)
    /\ transfers' = [transfers EXCEPT ![asked[c].request.key] = NewRow(c)]

\* An INSERT that succeeds is the one step that is not tame: the hold becomes
\* the row's, and was no other row's or handler's.
LEMMA InsertKeeps ==
    ASSUME PayInv, NEW c \in Handler, Inserts(c)
    PROVE  PayInv'
<1>1. PayTypeOK /\ Books /\ asked[c] \in AskedRow /\ c \in Actor /\ c \notin Worker
  BY HandlerAt, ActorAssumption DEF Actor, Worker
<1>2. PICK n \in Key : /\ n = asked[c].request.key /\ ~Present(n)
                     /\ asked[c].request \in TransferRequest /\ step[c] = "insert"
  BY HandlerAt DEF Inserts, InsertRow
<1>3. /\ asked' = [asked EXCEPT ![c] = NoRequest] /\ step' = [step EXCEPT ![c] = "idle"]
      /\ UNCHANGED <<vars, assessments, approved, row, queue, answered, sent, failures, restarts, history>>
  BY <1>1, <1>2 DEF Inserts, InsertRow, Goto, NewRow, Present, NoTransfer, PayTypeOK
<1>4. NewRow(c) \in TransferRow /\ NoRequest \in AskedRow /\ "idle" \in Steps
  BY <1>1, <1>2, HandlerAt DEF NewRow, TransferRow, AskedRow, Steps
<1>5. /\ transfers'[n] = NewRow(c) /\ \A k \in Key \ {n} : transfers'[k] = transfers[k]
      /\ transfers' \in [Key -> TransferRow \cup {NoTransfer}]
  BY <1>1, <1>2, <1>4 DEF Inserts, PayTypeOK
<1>6. /\ \A y \in Actor \ {c} : step'[y] = step[y]
      /\ \A d \in Handler \ {c} : asked'[d] = asked[d]
      /\ step'[c] = "idle"
      /\ step' \in [Actor -> Steps] /\ asked' \in [Handler -> AskedRow]
  BY <1>1, <1>3, <1>4 DEF PayTypeOK, AskedRow
<1>7. PayTypeOK'
  BY <1>1, <1>3, <1>5, <1>6 DEF PayTypeOK, TypeOK, AskedRow, vars, Exists
<1>8. IsOutboundRow(n)' => Inserting(c) /\ HoldOf(n)' = asked[c].hold
  BY <1>2, <1>5 DEF IsOutboundRow, Inserting, HoldOf, NewRow
<1>9. \A k \in Key \ {n} : /\ IsOutboundRow(k)' <=> IsOutboundRow(k)
                           /\ HoldOf(k)' = HoldOf(k) /\ (Settled(k)' <=> Settled(k))
                           /\ transfers'[k] = transfers[k]
  BY <1>3, <1>5 DEF IsOutboundRow, HoldOf, Settled, Unused, SettlingRequest, SettlingLegs, vars
<1>10. /\ holds' = holds /\ txns' = txns
  BY <1>3 DEF vars
<1>11. CapturedExactlyOnce'
  BY <1>10 DEF PayInv, CapturedExactlyOnce, Captures
<1>12. ASSUME Inserting(c)
       PROVE  /\ asked[c].hold \in HoldId /\ holds[asked[c].hold].status = "active"
              /\ \A k \in Key : IsOutboundRow(k) => HoldOf(k) # asked[c].hold
  BY <1>12, HandlerAt DEF HandlerOwnsHold
<1>13. ASSUME NEW k \in Key PROVE RowIsHonest(k)'
  <2>1. CASE k = n
    <3>1. transfers'[k].status = "pending"
      BY <1>5, <2>1 DEF NewRow
    <3>2. IsOutboundRow(k)' => /\ HoldOf(k)' \in HoldId /\ holds'[HoldOf(k)'].status = "active"
                               /\ holds'[HoldOf(k)'] # NoHold
      BY <1>8, <1>10, <1>12, <2>1 DEF NoHold
    <3> QED
      BY <3>1, <3>2 DEF RowIsHonest
  <2>2. CASE k # n
    BY <1>9, <1>10, <2>2 DEF PayInv, RowsInv, RowIsHonest
  <2> QED
    BY <2>1, <2>2
<1>14. HoldsDiffer'
  BY <1>8, <1>9, <1>12 DEF PayInv, RowsInv, HoldsDiffer
<1>15. ASSUME NEW d \in Handler PROVE HandlerOwnsHold(d)'
  <2>1. CASE d = c
    BY <1>6, <2>1 DEF HandlerOwnsHold, Inserting
  <2>2. CASE d # c
    <3>1. step'[d] = step[d] /\ asked'[d] = asked[d] /\ HandlerOwnsHold(d)
      BY <1>6, <2>2, HandlerAt DEF Actor
    <3>2. Inserting(d) /\ Inserting(c) => asked[d].hold # asked[c].hold
      BY <2>2 DEF PayInv, AskedHoldsDiffer
    <3>3. Inserting(d) => \A k \in Key : IsOutboundRow(k)' => HoldOf(k)' # asked[d].hold
      BY <1>8, <1>9, <3>1, <3>2 DEF HandlerOwnsHold
    <3> QED
      BY <1>10, <3>1, <3>3 DEF HandlerOwnsHold, Inserting
  <2> QED
    BY <2>1, <2>2
<1>16. AskedHoldsDiffer'
  BY <1>6 DEF PayInv, AskedHoldsDiffer, Inserting, Actor
<1>17. \A k \in Key : Present(k) => k # n /\ Present(k)'
  BY <1>2, <1>5 DEF Present
<1>18. QueuesArePresent'
  BY <1>1, <1>3, <1>17 DEF PayInv, QueuesArePresent, Books
<1>19. ASSUME NEW y \in Worker PROVE WorkerKnows(y)'
  <2>1. step'[y] = step[y] /\ row'[y] = row[y] /\ WorkerKnows(y)
    BY <1>1, <1>3, <1>6 DEF PayInv, Worker, Actor
  <2>2. ASSUME NEW s, NEW k, KnowsAt(s, k) PROVE KnowsAt(s, k)'
    BY <1>9, <1>10, <1>17, <2>2 DEF KnowsAt
  <2>3. \A s, k : s = step[y] /\ k = row[y] => KnowsAt(s, k)'
    BY <2>1, <2>2 DEF WorkerKnows
  <2> QED
    BY <2>1, <2>3, KnowingAt
<1> QED
  BY <1>7, <1>11, <1>13, <1>14, <1>15, <1>16, <1>18, <1>19 DEF PayInv, RowsInv

\* One that fails leaves the tables as they are.
LEMMA InsertsOrIdles ==
    ASSUME PayInv, NEW c \in Handler, InsertRow(c)
    PROVE  PayInv' /\ (Tame \/ Inserts(c))
<1> DEFINE n == asked[c].request.key
<1>1. CASE transfers[n] = NoTransfer /\ Exists(asked[c].request.account)
  <2>1. Inserts(c)
    BY <1>1 DEF Inserts, InsertRow, NewRow, Present
  <2> QED
    BY <2>1, InsertKeeps
<1>2. CASE ~(transfers[n] = NoTransfer /\ Exists(asked[c].request.account))
  <2>1. transfers' = transfers
    BY <1>2 DEF InsertRow
  <2>2. Tame
    BY <2>1 DEF InsertRow, Tame, HoldsKept, vars
  <2>3. Books'
    BY HandlerAt DEF InsertRow, Books, HoldAsked, AskedRow
  <2> QED
    BY <2>2, <2>3, HandlerIdles DEF InsertRow
<1> QED
  BY <1>1, <1>2

-----------------------------------------------------------------------------
(***************************************************************************)
(* Every step.                                                             *)
(***************************************************************************)

\* What other features do to the ledger opens no hold and writes no row.
LEMMA ElsewhereKeeps ==
    ASSUME PayInv, OpenAnAccount \/ PostElsewhere \/ UNCHANGED allVars
    PROVE  PayInv' /\ Tame
<1>1. UNCHANGED <<transfers, step, asked, row, queue>> /\ UNCHANGED payVars
  BY DEF OpenAnAccount, PostElsewhere, payVars, allVars
<1>2. [Next]_vars /\ UNCHANGED holds
  BY OtherKeyAssumption DEF OpenAnAccount, PostElsewhere, OpenAccount, Debit, PostTransaction, Next, allVars, vars
<1>3. Tame
  BY <1>1, <1>2 DEF Tame, HoldsKept
<1>4. PayTypeOK /\ TypeOK'
  BY <1>2, NextTyped DEF PayInv, PayTypeOK
<1>5. PayTypeOK'
  BY <1>1, <1>4 DEF PayTypeOK, payVars
<1>6. CapturedExactlyOnce' /\ RowsInv'
  BY <1>3, TameKeepsRows
<1>7. (\A c \in Handler : HandlerOwnsHold(c)') /\ (\A x \in Worker : WorkerKnows(x)')
  BY <1>1, <1>3, TameKeepsActors
<1>8. AskedHoldsDiffer'
  BY <1>1 DEF PayInv, AskedHoldsDiffer, Inserting
<1>9. QueuesArePresent'
  BY <1>1 DEF PayInv, QueuesArePresent, Present
<1> QED
  BY <1>3, <1>5, <1>6, <1>7, <1>8, <1>9 DEF PayInv

\* The steps of a handler, taken together.
LEMMA HandlersKeep ==
    ASSUME PayInv, NEW c \in Handler, HandlerStep(c) \/ LoseRequest(c)
    PROVE  PayInv' /\ (Tame \/ Inserts(c))
  BY LookUpKeeps, ReserveKeeps, InsertsOrIdles, LoseRequestKeeps DEF HandlerStep

\* The same for an instance at work on its batch.
LEMMA RowStepKeeps ==
    ASSUME PayInv, NEW i \in Instance, RowStep(i)
    PROVE  PayInv' /\ Tame
<1>1. i \in Worker
  BY DEF Worker
<1> QED
  BY <1>1, TakeKeeps, AssessKeeps, RowUpdatesKeep, ReleaseKeeps, RailKeeps, SettleKeeps DEF RowStep

\* The same for an investigator.
LEMMA InvestigatorsKeep ==
    ASSUME PayInv, NEW x \in Investigator, InvestigatorStep(x)
    PROVE  PayInv' /\ Tame
<1>1. x \in Worker
  BY DEF Worker
<1> QED
  BY <1>1, ApproveKeeps, BlockKeeps, ReleaseKeeps, RowUpdatesKeep DEF InvestigatorStep

\* Every step of the system keeps the invariant, and is tame or inserts a row.
LEMMA EveryStepKeeps ==
    ASSUME PayInv, [PayNext]_allVars
    PROVE  PayInv' /\ (Tame \/ \E c \in Handler : Inserts(c))
<1>1. ASSUME NEW c \in Handler, HandlerStep(c) \/ LoseRequest(c)
      PROVE  PayInv' /\ (Tame \/ Inserts(c))
  BY <1>1, HandlersKeep
<1>2. ASSUME NEW i \in Instance,
             (\E batch \in SUBSET Key : Claim(i, batch)) \/ RowStep(i) \/ RailTimesOut(i) \/ Restart(i)
      PROVE  PayInv' /\ Tame
  BY <1>2, ClaimKeeps, RowStepKeeps, LettingGoKeeps, RestartKeeps DEF Worker
<1>3. ASSUME NEW x \in Investigator, InvestigatorStep(x) PROVE PayInv' /\ Tame
  BY <1>3, InvestigatorsKeep
<1>4. ASSUME NEW x \in Worker, FailStatement(x) PROVE PayInv' /\ Tame
  BY <1>4, LettingGoKeeps
<1> QED
  BY <1>1, <1>2, <1>3, <1>4, ElsewhereKeeps DEF PayNext, Worker

\* The invariant holds while there are no rows.
LEMMA InitKeeps == PayInit => PayInv /\ ExecutionsAreCounted
<1> SUFFICES ASSUME PayInit PROVE PayInv /\ ExecutionsAreCounted
  OBVIOUS
<1>1. TypeOK /\ CapturedExactlyOnce
  BY InitTyped DEF PayInit, Init, CapturedExactlyOnce, Captures, NoTxn, NoHold
<1>2. PayTypeOK
  BY <1>1, BoundsAssumption DEF PayInit, PayTypeOK, Steps, NoRequest
<1>3. \A k \in Key : transfers[k] = NoTransfer /\ transfers[k].status = "absent" /\ ~IsOutboundRow(k)
  BY DEF PayInit, NoTransfer, IsOutboundRow
<1>4. RowsInv
  BY <1>3 DEF RowsInv, RowIsHonest, HoldsDiffer
<1>5. \A x \in Actor : step[x] = "idle"
  BY DEF PayInit
<1>6. \A c \in Handler : HandlerOwnsHold(c) /\ ~Inserting(c)
  BY <1>5 DEF Actor, HandlerOwnsHold, Inserting
<1>7. AskedHoldsDiffer /\ QueuesArePresent
  BY <1>6 DEF AskedHoldsDiffer, QueuesArePresent, PayInit
<1>8. \A x \in Worker : WorkerKnows(x)
  BY <1>5 DEF Worker, Actor, WorkerKnows, KnowsAt
<1>9. ASSUME NEW k \in Key PROVE sent[k] <= Cardinality(Executions(k)) + restarts
  <2>1. Executions(k) = {}
    BY DEF PayInit, Executions
  <2> QED
    BY <2>1, FS_EmptySet DEF PayInit
<1> QED
  BY <1>2, <1>1, <1>4, <1>6, <1>7, <1>8, <1>9 DEF PayInv, ExecutionsAreCounted

\* A transfer that says "completed" has been booked under its own key: finalize
\* marks the row after the ledger call has succeeded or been replayed, and
\* nobody takes the booking away (process.go finalize).
THEOREM CompletedMovedItsMoney == PaySpec => []CompletedIsSettled
<1>1. PayInv /\ [PayNext]_allVars => PayInv'
  BY EveryStepKeeps
<1>2. PayInv => CompletedIsSettled
  BY DEF PayInv, RowsInv, RowIsHonest, CompletedIsSettled
<1> QED
  BY <1>1, <1>2, InitKeeps, PTL DEF PaySpec

-----------------------------------------------------------------------------
(***************************************************************************)
(* The promise to the customer.  What has become of the money of an        *)
(* outbound row is what its hold says.                                     *)
(***************************************************************************)
MoneyByHold == [active |-> "reserved", captured |-> "moved", released |-> "returned"]

MoneyIsKnown(k) ==
    /\ ~IsOutboundRow(k) => MoneyOf(k) = "none" /\ OutcomeOf(k) = "absent"
    /\ IsOutboundRow(k) =>
         /\ HoldOf(k) \in HoldId /\ holds[HoldOf(k)] # NoHold
         /\ holds[HoldOf(k)].status \in {"active", "captured", "released"}
         /\ MoneyOf(k) = MoneyByHold[holds[HoldOf(k)].status]
         /\ Settled(k) <=> holds[HoldOf(k)].status = "captured"
         /\ OutcomeOf(k) \in {"pending", "completed", "failed"}
         /\ OutcomeOf(k) = "completed" => MoneyOf(k) = "moved"
         /\ OutcomeOf(k) = "failed" => MoneyOf(k) = "returned"

\* A hold is captured by its row's settlement only, so the two never disagree.
LEMMA MoneyIsWhereTheHoldIs ==
    ASSUME PayInv, NEW k \in Key
    PROVE  MoneyIsKnown(k)
<1>1. CASE ~IsOutboundRow(k)
  BY <1>1 DEF MoneyIsKnown, MoneyOf, OutcomeOf
<1>2. CASE IsOutboundRow(k)
  <2> DEFINE h == HoldOf(k)
  <2>1. PayTypeOK /\ RowIsHonest(k) /\ h \in HoldId /\ holds[h] # NoHold /\ transfers[k] \in TransferRow
    BY <1>2, TransferRowTyped DEF PayInv, RowsInv, RowIsHonest
  <2>2. holds[h] \in Hold
    BY <2>1 DEF PayTypeOK, TypeOK
  <2>3. holds[h].status \in {"active", "captured", "released"}
    BY <2>2 DEF Hold
  <2>4. Settled(k) => holds[h].status = "captured"
    <3> SUFFICES ASSUME Settled(k) PROVE holds[h].status = "captured"
      OBVIOUS
    <3>1. txns[k] # NoTxn /\ txns[k].request = CaptureRequest(h)
      BY <1>2 DEF Settled, Unused, SettlingRequest, IsOutboundRow, HoldOf
    <3>2. k \in Captures(h)
      BY <3>1 DEF Captures
    <3> QED
      BY <2>1, <3>2 DEF PayInv, CapturedExactlyOnce
  <2>5. Settled(k) <=> holds[h].status = "captured"
    BY <1>2, <2>1, <2>4 DEF RowIsHonest
  <2>6. MoneyOf(k) = MoneyByHold[holds[h].status]
    BY <1>2, <2>3, <2>5 DEF MoneyOf, MoneyByHold, HoldOf
  <2>7. transfers[k].status \in {"pending", "processing", "completed", "failed"}
    BY <2>1 DEF TransferRow
  <2>8. /\ OutcomeOf(k) \in {"pending", "completed", "failed"}
        /\ OutcomeOf(k) = "completed" => transfers[k].status = "completed"
        /\ OutcomeOf(k) = "failed" => transfers[k].status = "failed"
    BY <1>2, <2>7 DEF OutcomeOf
  <2>9. OutcomeOf(k) = "completed" => MoneyOf(k) = "moved"
    BY <2>1, <2>5, <2>6, <2>8 DEF RowIsHonest, MoneyByHold
  <2>10. OutcomeOf(k) = "failed" => MoneyOf(k) = "returned"
    BY <1>2, <2>1, <2>6, <2>8 DEF RowIsHonest, MoneyByHold
  <2> HIDE DEF h
  <2> QED
    BY <1>2, <2>1, <2>3, <2>5, <2>6, <2>8, <2>9, <2>10 DEF h, MoneyIsKnown
<1> QED
  BY <1>1, <1>2

\* And so it is after a step.
LEMMA MoneyBeforeAndAfter ==
    /\ PayInv => \A k \in Key : MoneyIsKnown(k)
    /\ PayInv' => \A k \in Key : MoneyIsKnown(k)'
<1>1. PayInv => \A k \in Key : MoneyIsKnown(k)
  BY MoneyIsWhereTheHoldIs
<1>2. PayInv' => (\A k \in Key : MoneyIsKnown(k))'
  BY <1>1, PTL
<1> QED
  BY <1>1, <1>2

Stays(k) == MoneyOf(k)' = MoneyOf(k) /\ OutcomeOf(k)' = OutcomeOf(k)

\* What may become of one transfer in a step of PaymentPromise.
KeepsItsPromise(k) ==
    \/ Stays(k)
    \/ /\ OutcomeOf(k) = "absent" /\ MoneyOf(k) = "none"
       /\ OutcomeOf(k)' = "pending" /\ MoneyOf(k)' = "reserved"
    \/ /\ OutcomeOf(k) = "pending" /\ MoneyOf(k) = "reserved"
       /\ OutcomeOf(k)' = "pending" /\ MoneyOf(k)' \in {"moved", "returned"}
    \/ /\ OutcomeOf(k) = "pending" /\ MoneyOf(k)' = MoneyOf(k)
       /\ \/ MoneyOf(k) = "moved" /\ OutcomeOf(k)' = "completed"
          \/ MoneyOf(k) = "returned" /\ OutcomeOf(k)' = "failed"
    \/ /\ OutcomeOf(k) \in {"completed", "failed"} /\ MoneyOf(k)' = MoneyOf(k)
       /\ OutcomeOf(k)' = "pending"

\* A step that concerns one transfer is a step of PaymentPromise.
LEMMA OneTransferMoves ==
    ASSUME NEW j \in Key, KeepsItsPromise(j), \A k \in Key \ {j} : Stays(k)
    PROVE  [Promise!PromiseNext]_(Promise!promiseVars)
<1> DEFINE money == [k \in Key |-> MoneyOf(k)]
           outcome == [k \in Key |-> OutcomeOf(k)]
<1>1. \A k \in Key : /\ money[k] = MoneyOf(k) /\ money'[k] = MoneyOf(k)'
                     /\ outcome[k] = OutcomeOf(k) /\ outcome'[k] = OutcomeOf(k)'
  OBVIOUS
<1>2. /\ money' = [money EXCEPT ![j] = MoneyOf(j)']
      /\ outcome' = [outcome EXCEPT ![j] = OutcomeOf(j)']
  BY DEF Stays
<1>3. MoneyOf(j)' = MoneyOf(j) => money' = money
  BY DEF Stays
<1>4. OutcomeOf(j)' = OutcomeOf(j) => outcome' = outcome
  BY DEF Stays
<1>5. CASE Stays(j)
  BY <1>3, <1>4, <1>5 DEF Stays, Promise!promiseVars
<1>6. CASE /\ OutcomeOf(j) = "absent" /\ MoneyOf(j) = "none"
           /\ OutcomeOf(j)' = "pending" /\ MoneyOf(j)' = "reserved"
  <2>1. Promise!Accept(j)
    BY <1>1, <1>2, <1>6 DEF Promise!Accept
  <2> QED
    BY <2>1 DEF Promise!PromiseNext
<1>7. CASE /\ OutcomeOf(j) = "pending" /\ MoneyOf(j) = "reserved"
           /\ OutcomeOf(j)' = "pending" /\ MoneyOf(j)' \in {"moved", "returned"}
  <2>1. Promise!Decide(j)
    BY <1>1, <1>2, <1>4, <1>7 DEF Promise!Decide
  <2> QED
    BY <2>1 DEF Promise!PromiseNext
<1>8. CASE /\ OutcomeOf(j) = "pending" /\ MoneyOf(j)' = MoneyOf(j)
           /\ \/ MoneyOf(j) = "moved" /\ OutcomeOf(j)' = "completed"
              \/ MoneyOf(j) = "returned" /\ OutcomeOf(j)' = "failed"
  <2>1. /\ MoneyOf(j) \in DOMAIN Promise!OutcomeOf
        /\ OutcomeOf(j)' = Promise!OutcomeOf[MoneyOf(j)]
    BY <1>8 DEF Promise!OutcomeOf
  <2>2. Promise!Record(j)
    BY <1>1, <1>2, <1>3, <1>8, <2>1 DEF Promise!Record
  <2> QED
    BY <2>2 DEF Promise!PromiseNext
<1>9. CASE /\ OutcomeOf(j) \in {"completed", "failed"} /\ MoneyOf(j)' = MoneyOf(j)
           /\ OutcomeOf(j)' = "pending"
  <2>1. Promise!TakeBack(j)
    BY <1>1, <1>2, <1>3, <1>9 DEF Promise!TakeBack
  <2> QED
    BY <2>1 DEF Promise!PromiseNext
<1> QED
  BY <1>5, <1>6, <1>7, <1>8, <1>9 DEF KeepsItsPromise, Stays
\* A step that leaves a row's hold alone leaves its money alone.
LEMMA SameHoldSameMoney ==
    ASSUME PayInv, PayInv', NEW k \in Key, IsOutboundRow(k)' <=> IsOutboundRow(k),
           IsOutboundRow(k) => HoldOf(k)' = HoldOf(k) /\ holds'[HoldOf(k)] = holds[HoldOf(k)]
    PROVE  MoneyOf(k)' = MoneyOf(k)
<1>1. CASE ~IsOutboundRow(k)
  BY <1>1 DEF MoneyOf
<1>2. CASE IsOutboundRow(k)
  <2>1. MoneyOf(k) = MoneyByHold[holds[HoldOf(k)].status]
    BY <1>2, MoneyBeforeAndAfter DEF MoneyIsKnown
  <2>2. MoneyOf(k)' = MoneyByHold[holds'[HoldOf(k)'].status]
    BY <1>2, MoneyBeforeAndAfter DEF MoneyIsKnown, MoneyByHold
  <2> QED
    BY <1>2, <2>1, <2>2
<1> QED
  BY <1>1, <1>2

\* A tame step keeps every transfer's direction, request and hold.
LEMMA TameKeepsDirection ==
    ASSUME PayInv, Tame, NEW k \in Key
    PROVE  /\ IsOutboundRow(k)' <=> IsOutboundRow(k)
           /\ HoldOf(k)' = HoldOf(k) \/ ~IsOutboundRow(k)
<1>1. PayTypeOK
  BY DEF PayInv
<1>2. CASE Present(k)
  <2>1. RowKept(k)
    BY <1>1, <1>2, TameKeepsRow
  <2>2. transfers'[k].status # "absent" /\ transfers[k].status # "absent"
    BY <1>1, <1>2, <2>1, TransferRowTyped DEF RowKept, TransferRow
  <2> QED
    BY <2>1, <2>2 DEF RowKept, IsOutboundRow, HoldOf
<1>3. CASE ~Present(k)
  BY <1>1, <1>3, TameKeepsRow DEF IsOutboundRow, Present, NoTransfer
<1> QED
  BY <1>2, <1>3

\* A hold that is released or captured decides one transfer.
LEMMA ResolvingDecides ==
    ASSUME PayInv, PayInv', Tame, UNCHANGED transfers, NEW j \in Key, ResolvesHoldOf(j)
    PROVE  [Promise!PromiseNext]_(Promise!promiseVars)
<1>1. \A k \in Key : OutcomeOf(k)' = OutcomeOf(k)
  BY DEF OutcomeOf, IsOutboundRow
<1>2. ASSUME NEW k \in Key \ {j} PROVE Stays(k)
  <2>1. IsOutboundRow(k) => HoldOf(k) \in HoldId /\ holds[HoldOf(k)] # NoHold /\ HoldOf(k) # HoldOf(j)
    BY MoneyBeforeAndAfter DEF MoneyIsKnown, PayInv, RowsInv, HoldsDiffer, ResolvesHoldOf
  <2>2. IsOutboundRow(k) => HoldOf(k)' = HoldOf(k) /\ holds'[HoldOf(k)] = holds[HoldOf(k)]
    BY <2>1, TameKeepsDirection DEF ResolvesHoldOf
  <2> QED
    BY <1>1, <2>2, TameKeepsDirection, SameHoldSameMoney DEF Stays
<1>3. KeepsItsPromise(j)
  <2> DEFINE h == HoldOf(j)
  <2>1. /\ IsOutboundRow(j) /\ IsOutboundRow(j)' /\ HoldOf(j)' = h
        /\ h \in HoldId /\ holds[h] # NoHold
    BY MoneyBeforeAndAfter, TameKeepsDirection DEF MoneyIsKnown, ResolvesHoldOf
  <2>2. CASE holds'[h] = holds[h]
    BY <1>1, <2>1, <2>2, SameHoldSameMoney DEF Stays, KeepsItsPromise
  <2>3. CASE holds'[h] # holds[h]
    <3>1. /\ holds[h] \in Hold /\ holds[h].status = "active"
          /\ \E s \in {"released", "captured"} : holds'[h] = [holds[h] EXCEPT !.status = s]
      BY <2>1, <2>3, NextAppends DEF Tame, PayInv, PayTypeOK, TypeOK, AppendOnlyStep
    <3>2. holds'[h].status \in {"released", "captured"}
      BY <3>1 DEF Hold
    <3>3. MoneyOf(j) = "reserved"
      BY <2>1, <3>1, MoneyBeforeAndAfter DEF MoneyIsKnown, MoneyByHold
    <3>4. MoneyOf(j)' \in {"moved", "returned"}
      BY <2>1, <3>2, MoneyBeforeAndAfter DEF MoneyIsKnown, MoneyByHold
    <3>5. OutcomeOf(j) = "pending"
      BY <2>1, <3>3, MoneyBeforeAndAfter DEF MoneyIsKnown
    <3> QED
      BY <1>1, <3>3, <3>4, <3>5 DEF KeepsItsPromise
  <2> QED
    BY <2>2, <2>3
<1> QED
  BY <1>2, <1>3, OneTransferMoves

\* An UPDATE of a row records what has become of the money, or takes it back.
LEMMA UpdatingRecords ==
    ASSUME PayInv, PayInv', Tame, HoldsKept, NEW j \in Key, UpdatesRow(j)
    PROVE  [Promise!PromiseNext]_(Promise!promiseVars)
<1>1. PayTypeOK
  BY DEF PayInv
<1>2. ASSUME NEW k \in Key PROVE MoneyOf(k)' = MoneyOf(k)
  <2>1. IsOutboundRow(k) => HoldOf(k) \in HoldId /\ holds[HoldOf(k)] # NoHold
    BY MoneyBeforeAndAfter DEF MoneyIsKnown
  <2> QED
    BY <2>1, TameKeepsDirection, SameHoldSameMoney DEF HoldsKept
<1>3. PICK s \in {"pending", "processing", "completed", "failed"}, r \in {"clear", "held", "blocked"} :
          Present(j) /\ MayBecome(j, s) /\ transfers' = [transfers EXCEPT ![j].status = s, ![j].risk = r]
  BY DEF UpdatesRow
<1>4. ASSUME NEW k \in Key \ {j} PROVE Stays(k)
  <2>1. transfers'[k] = transfers[k]
    BY <1>1, <1>3 DEF PayTypeOK
  <2> QED
    BY <1>2, <2>1 DEF Stays, OutcomeOf, IsOutboundRow
<1>5. transfers[j] \in TransferRow
  BY <1>1, <1>3, TransferRowTyped
<1>6. transfers'[j].status = s
  BY <1>1, <1>3, <1>5 DEF PayTypeOK, TransferRow
<1>7. KeepsItsPromise(j)
  <2>1. CASE ~IsOutboundRow(j)
    BY <1>2, <2>1, TameKeepsDirection DEF KeepsItsPromise, Stays, OutcomeOf
  <2>2. CASE IsOutboundRow(j)
    <3>1. IsOutboundRow(j)' /\ MoneyOf(j)' = MoneyOf(j) /\ MoneyIsKnown(j) /\ MoneyIsKnown(j)'
      BY <1>2, <2>2, TameKeepsDirection, MoneyBeforeAndAfter
    <3>2. OutcomeOf(j)' = IF s = "processing" THEN "pending" ELSE s
      BY <1>6, <3>1 DEF OutcomeOf
    <3>3. OutcomeOf(j) = IF transfers[j].status = "processing" THEN "pending" ELSE transfers[j].status
      BY <2>2 DEF OutcomeOf
    <3>4. /\ OutcomeOf(j) \in {"pending", "completed", "failed"}
          /\ OutcomeOf(j) = "completed" => MoneyOf(j) = "moved"
          /\ OutcomeOf(j) = "failed" => MoneyOf(j) = "returned"
          /\ OutcomeOf(j)' = "completed" => MoneyOf(j) = "moved"
          /\ OutcomeOf(j)' = "failed" => MoneyOf(j) = "returned"
      BY <2>2, <3>1 DEF MoneyIsKnown
    <3>5. s \in {transfers[j].status, "pending", "completed", "failed"}
      BY <1>3 DEF MayBecome
    <3>6. OutcomeOf(j)' \in {OutcomeOf(j), "pending", "completed", "failed"}
      BY <3>2, <3>3, <3>5
    <3> QED
      BY <3>1, <3>4, <3>6 DEF KeepsItsPromise, Stays
  <2> QED
    BY <2>1, <2>2
<1> QED
  BY <1>4, <1>7, OneTransferMoves

\* A claim is no news to the customer.
LEMMA ClaimingStutters ==
    ASSUME PayInv, PayInv', Tame, HoldsKept, NEW batch \in SUBSET Key, ClaimsRows(batch)
    PROVE  \A k \in Key : Stays(k)
<1> SUFFICES ASSUME NEW k \in Key PROVE Stays(k)
  OBVIOUS
<1>1. PayTypeOK
  BY DEF PayInv
<1>2. MoneyOf(k)' = MoneyOf(k)
  <2>1. IsOutboundRow(k) => HoldOf(k) \in HoldId /\ holds[HoldOf(k)] # NoHold
    BY MoneyBeforeAndAfter DEF MoneyIsKnown
  <2> QED
    BY <2>1, TameKeepsDirection, SameHoldSameMoney DEF HoldsKept
<1>3. CASE k \in batch
  <2>1. transfers[k].status \in {"pending", "processing"}
    BY <1>3 DEF ClaimsRows
  <2>2. transfers[k] \in TransferRow
    BY <1>1, <2>1, TransferRowTyped
  <2>3. transfers'[k].status = "processing"
    BY <1>3, <2>2 DEF ClaimsRows, TransferRow
  <2> QED
    BY <1>2, <2>1, <2>3, TameKeepsDirection DEF Stays, OutcomeOf
<1>4. CASE k \notin batch
  <2>1. transfers'[k] = transfers[k]
    BY <1>4 DEF ClaimsRows
  <2> QED
    BY <1>2, <2>1 DEF Stays, OutcomeOf, IsOutboundRow
<1> QED
  BY <1>3, <1>4

\* A new outbound row is accepted with its money reserved.
LEMMA InsertingAccepts ==
    ASSUME PayInv, PayInv', NEW c \in Handler, Inserts(c)
    PROVE  [Promise!PromiseNext]_(Promise!promiseVars)
<1>1. PayTypeOK /\ HandlerOwnsHold(c) /\ UNCHANGED vars
  BY HandlerAt DEF Inserts, InsertRow
<1>2. PICK n \in Key : n = asked[c].request.key /\ ~Present(n) /\ step[c] = "insert"
  BY HandlerAt DEF Inserts, InsertRow
<1>3. transfers'[n] = NewRow(c) /\ \A k \in Key \ {n} : transfers'[k] = transfers[k]
  BY <1>1, <1>2 DEF Inserts, PayTypeOK
<1>4. ASSUME NEW k \in Key \ {n} PROVE Stays(k)
  <2>1. IsOutboundRow(k)' <=> IsOutboundRow(k)
    BY <1>3 DEF IsOutboundRow
  <2>2. HoldOf(k)' = HoldOf(k) /\ holds' = holds
    BY <1>1, <1>3 DEF HoldOf, vars
  <2>3. OutcomeOf(k)' = OutcomeOf(k)
    BY <1>3 DEF OutcomeOf, IsOutboundRow
  <2> QED
    BY <2>1, <2>2, <2>3, SameHoldSameMoney DEF Stays
<1>5. KeepsItsPromise(n)
  <2>1. ~IsOutboundRow(n)
    BY <1>1, <1>2, TransferRowTyped
  <2>2. MoneyOf(n) = "none" /\ OutcomeOf(n) = "absent"
    BY <2>1 DEF MoneyOf, OutcomeOf
  <2>3. CASE ~IsOutboundRow(n)'
    BY <2>1, <2>2, <2>3 DEF KeepsItsPromise, Stays, MoneyOf, OutcomeOf
  <2>4. CASE IsOutboundRow(n)'
    <3>1. Inserting(c) /\ HoldOf(n)' = asked[c].hold /\ transfers'[n].status = "pending"
      BY <1>2, <1>3, <2>4 DEF Inserting, IsOutboundRow, HoldOf, NewRow
    <3>2. holds'[HoldOf(n)'].status = "active"
      BY <1>1, <3>1 DEF HandlerOwnsHold, vars
    <3>3. MoneyOf(n)' = "reserved"
      BY <2>4, <3>2, MoneyBeforeAndAfter DEF MoneyIsKnown, MoneyByHold
    <3>4. OutcomeOf(n)' = "pending"
      BY <2>4, <3>1 DEF OutcomeOf
    <3> QED
      BY <2>2, <3>3, <3>4 DEF KeepsItsPromise
  <2> QED
    BY <2>3, <2>4
<1> QED
  BY <1>4, <1>5, OneTransferMoves

\* If no transfer moves, the promise stutters.
LEMMA NoTransferMoves ==
    ASSUME \A k \in Key : Stays(k)
    PROVE  [Promise!PromiseNext]_(Promise!promiseVars)
  BY DEF Stays, Promise!promiseVars

\* Every step of the system is a step of PaymentPromise, or none of the customer's.
LEMMA EveryStepKeepsPromise ==
    PayInv /\ [PayNext]_allVars => [Promise!PromiseNext]_(Promise!promiseVars)
<1> SUFFICES ASSUME PayInv, [PayNext]_allVars PROVE [Promise!PromiseNext]_(Promise!promiseVars)
  OBVIOUS
<1>1. PayInv' /\ (Tame \/ \E c \in Handler : Inserts(c))
  BY EveryStepKeeps
<1>2. ASSUME NEW c \in Handler, Inserts(c) PROVE [Promise!PromiseNext]_(Promise!promiseVars)
  BY <1>1, <1>2, InsertingAccepts
<1>3. CASE Tame /\ UNCHANGED transfers /\ HoldsKept
  <2>1. ASSUME NEW k \in Key PROVE Stays(k)
    <3>1. IsOutboundRow(k) => HoldOf(k) \in HoldId /\ holds[HoldOf(k)] # NoHold
      BY MoneyBeforeAndAfter DEF MoneyIsKnown
    <3>2. MoneyOf(k)' = MoneyOf(k)
      BY <1>1, <1>3, <3>1, TameKeepsDirection, SameHoldSameMoney DEF HoldsKept
    <3> QED
      BY <1>3, <3>2 DEF Stays, OutcomeOf, IsOutboundRow
  <2> QED
    BY <2>1, NoTransferMoves
<1>4. ASSUME Tame, UNCHANGED transfers, NEW j \in Key, ResolvesHoldOf(j)
      PROVE  [Promise!PromiseNext]_(Promise!promiseVars)
  BY <1>1, <1>4, ResolvingDecides
<1>5. ASSUME Tame, HoldsKept, NEW j \in Key, UpdatesRow(j)
      PROVE  [Promise!PromiseNext]_(Promise!promiseVars)
  BY <1>1, <1>5, UpdatingRecords
<1>6. ASSUME Tame, HoldsKept, NEW batch \in SUBSET Key, ClaimsRows(batch)
      PROVE  [Promise!PromiseNext]_(Promise!promiseVars)
  <2>1. \A k \in Key : Stays(k)
    BY <1>1, <1>6, ClaimingStutters
  <2> QED
    BY <2>1, NoTransferMoves
<1>7. CASE Tame
  BY <1>3, <1>4, <1>5, <1>6, <1>7 DEF Tame
<1> QED
  BY <1>1, <1>2, <1>7

\* Whatever is lost, restarted or done twice, the customer's money leaves or
\* comes back once, and a row says so only after it has: send, process.go and
\* risk.Block together implement PaymentPromise.
THEOREM PromiseIsKept == PaySpec => KeepsPromise
<1>1. PayInit => Promise!PromiseInit
  <2> SUFFICES ASSUME PayInit PROVE Promise!PromiseInit
    OBVIOUS
  <2>1. \A k \in Key : MoneyOf(k) = "none" /\ OutcomeOf(k) = "absent"
    BY DEF PayInit, NoTransfer, MoneyOf, OutcomeOf, IsOutboundRow
  <2> QED
    BY <2>1 DEF Promise!PromiseInit
<1>2. PayInv /\ [PayNext]_allVars => PayInv'
  BY EveryStepKeeps
<1> QED
  BY <1>1, <1>2, InitKeeps, EveryStepKeepsPromise, PTL DEF PaySpec, KeepsPromise, Promise!PromiseSpec
-----------------------------------------------------------------------------
(***************************************************************************)
(* How often the rails execute a payment.                                  *)
(***************************************************************************)

\* Only the rail and a restart touch the caches and the counts.
LEMMA OthersLeaveCounts ==
    ASSUME [PayNext]_allVars, ~\E i \in Instance : CallRail(i) \/ Restart(i)
    PROVE  UNCHANGED <<answered, sent, restarts>>
<1>1. ASSUME NEW c \in Handler, HandlerStep(c) \/ LoseRequest(c) PROVE UNCHANGED <<answered, sent, restarts>>
  BY <1>1 DEF HandlerStep, LoseRequest, LookUpKey, ReserveAmount, InsertRow
<1>2. ASSUME NEW i \in Instance, RowStep(i), ~CallRail(i) PROVE UNCHANGED <<answered, sent, restarts>>
  <2>1. CASE TakeRow(i) \/ ReadAssessed(i) \/ ReadExisting(i) \/ RecordAssessment(i)
    BY <2>1 DEF TakeRow, ReadAssessed, ReadExisting, RecordAssessment
  <2>2. CASE MarkHeld(i) \/ RevertToPending(i) \/ MarkBlocked(i) \/ MarkFailed(i) \/ MarkCompleted(i)
    BY <2>2 DEF MarkHeld, RevertToPending, MarkBlocked, MarkFailed, MarkCompleted
  <2>3. CASE ReleaseBlocked(i) \/ ReleaseRejected(i) \/ Settle(i)
    BY <2>3 DEF ReleaseBlocked, ReleaseRejected, Settle
  <2> QED
    BY <1>2, <2>1, <2>2, <2>3 DEF RowStep
<1>3. ASSUME NEW i \in Instance, (\E batch \in SUBSET Key : Claim(i, batch)) \/ RailTimesOut(i)
      PROVE  UNCHANGED <<answered, sent, restarts>>
  BY <1>3 DEF Claim, RailTimesOut
<1>4. ASSUME NEW x \in Investigator, InvestigatorStep(x) PROVE UNCHANGED <<answered, sent, restarts>>
  BY <1>4 DEF InvestigatorStep, Approve, Block, ReleaseBlocked, MarkBlocked
<1>5. ASSUME NEW x \in Instance \cup Investigator, FailStatement(x) PROVE UNCHANGED <<answered, sent, restarts>>
  BY <1>5 DEF FailStatement
<1>6. CASE OpenAnAccount \/ PostElsewhere \/ UNCHANGED allVars
  BY <1>6 DEF OpenAnAccount, PostElsewhere, payVars, allVars
<1> QED
  BY <1>1, <1>2, <1>3, <1>4, <1>5, <1>6 DEF PayNext

\* The rail remembers what it executes, and a restart forgets one instance's.
LEMMA ExecutionsStayCounted ==
    ASSUME PayInv, ExecutionsAreCounted, [PayNext]_allVars
    PROVE  ExecutionsAreCounted'
<1> SUFFICES ASSUME NEW k \in Key PROVE sent'[k] <= Cardinality(Executions(k)') + restarts'
  BY DEF ExecutionsAreCounted
<1>1. /\ sent \in [Key -> Nat] /\ restarts \in Nat /\ answered \in [Instance -> SUBSET Key]
      /\ sent[k] <= Cardinality(Executions(k)) + restarts
  BY DEF PayInv, PayTypeOK, ExecutionsAreCounted
<1>2. IsFiniteSet(Executions(k)) /\ Cardinality(Executions(k)) \in Nat
  BY ActorAssumption, FS_Subset, FS_CardinalityType DEF Executions
<1>3. ASSUME NEW i \in Instance, CallRail(i) PROVE sent'[k] <= Cardinality(Executions(k)') + restarts'
  <2>1. /\ answered' = [answered EXCEPT ![i] = @ \cup {row[i]}] /\ restarts' = restarts
        /\ sent' = IF row[i] \in answered[i] THEN sent ELSE [sent EXCEPT ![row[i]] = @ + 1]
    BY <1>3 DEF CallRail
  <2>2. \A y \in Instance : k \in answered'[y] <=> k \in answered[y] \/ (y = i /\ k = row[i])
    BY <1>1, <2>1
  <2>3. CASE k # row[i] \/ k \in answered[i]
    <3>1. Executions(k)' = Executions(k)
      BY <2>2, <2>3 DEF Executions
    <3>2. sent'[k] = sent[k]
      BY <1>1, <2>1, <2>3
    <3> QED
      BY <1>1, <2>1, <3>1, <3>2
  <2>4. CASE k = row[i] /\ k \notin answered[i]
    <3>1. Executions(k)' = Executions(k) \cup {i} /\ i \notin Executions(k)
      BY <2>2, <2>4 DEF Executions
    <3>2. Cardinality(Executions(k)') = Cardinality(Executions(k)) + 1
      BY <1>2, <3>1, FS_AddElement
    <3>3. sent'[k] = sent[k] + 1
      BY <1>1, <2>1, <2>4
    <3> QED
      BY <1>1, <1>2, <2>1, <3>2, <3>3
  <2> QED
    BY <2>3, <2>4
<1>4. ASSUME NEW i \in Instance, Restart(i) PROVE sent'[k] <= Cardinality(Executions(k)') + restarts'
  <2>1. answered' = [answered EXCEPT ![i] = {}] /\ restarts' = restarts + 1 /\ sent' = sent
    BY <1>4 DEF Restart
  <2>2. Executions(k)' = Executions(k) \ {i}
    BY <1>1, <2>1 DEF Executions
  <2>3. /\ Cardinality(Executions(k)') \in Nat
        /\ Cardinality(Executions(k)) <= Cardinality(Executions(k)') + 1
    <3>1. CASE i \in Executions(k)
      <4>1. Cardinality(Executions(k) \ {i}) = Cardinality(Executions(k)) - 1
            /\ IsFiniteSet(Executions(k) \ {i})
        BY <1>2, <3>1, FS_RemoveElement
      <4>2. Cardinality(Executions(k) \ {i}) \in Nat
        BY <4>1, FS_CardinalityType
      <4> QED
        BY <1>2, <2>2, <4>1, <4>2
    <3>2. CASE i \notin Executions(k)
      <4>1. Executions(k)' = Executions(k)
        BY <2>2, <3>2
      <4> QED
        BY <1>2, <4>1
    <3> QED
      BY <3>1, <3>2
  <2> QED
    BY <1>1, <1>2, <2>1, <2>3
<1>5. CASE UNCHANGED <<answered, sent, restarts>>
  BY <1>1, <1>5 DEF Executions
<1> QED
  BY <1>3, <1>4, <1>5, OthersLeaveCounts

\* A process's rails execute a payment once: a second execution takes another
\* instance, or a restart that emptied the cache (rails.go SimulatedRail).
THEOREM OneExecutionPerProcess == PaySpec => []ExecutedOncePerProcess
<1>1. PayInv /\ ExecutionsAreCounted /\ [PayNext]_allVars => PayInv' /\ ExecutionsAreCounted'
  BY EveryStepKeeps, ExecutionsStayCounted
<1>2. ASSUME PayInv, ExecutionsAreCounted PROVE ExecutedOncePerProcess
  <2> SUFFICES ASSUME NEW k \in Key PROVE sent[k] <= Cardinality(Instance) + restarts
    BY DEF ExecutedOncePerProcess
  <2>1. sent[k] \in Nat /\ restarts \in Nat /\ sent[k] <= Cardinality(Executions(k)) + restarts
    BY <1>2 DEF PayInv, PayTypeOK, ExecutionsAreCounted
  <2>2. /\ Cardinality(Executions(k)) \in Nat /\ Cardinality(Instance) \in Nat
        /\ Cardinality(Executions(k)) <= Cardinality(Instance)
    BY ActorAssumption, FS_Subset, FS_CardinalityType DEF Executions
  <2> QED
    BY <2>1, <2>2
<1>3. PayInv /\ ExecutionsAreCounted => ExecutedOncePerProcess
  BY <1>2
<1> QED
  BY <1>1, <1>3, InitKeeps, PTL DEF PaySpec
-----------------------------------------------------------------------------
(***************************************************************************)
(* No hold is left behind but those of a send that did not get its row: a  *)
(* second handler that inserts the same key first, and a request that is   *)
(* lost after PlaceHold, each leave an active hold that is no row's.       *)
(***************************************************************************)
HoldIsOwned(h) ==
    \/ \E c \in Handler : Inserting(c) /\ asked[c].hold = h
    \/ \E k \in Key : IsOutboundRow(k) /\ HoldOf(k) = h
    \/ h \in orphans
OwnersInv == \A h \in HoldId : holds[h].status = "active" => HoldIsOwned(h)

NoneActivated == \A h \in HoldId : holds'[h].status = "active" => holds[h].status = "active"

\* What ends a hold activates none.
LEMMA EndingActivatesNone ==
    ASSUME PayTypeOK, NEW h, ReleaseHold(h) \/ \E k \in Key : CaptureHold(h, k)
    PROVE  NoneActivated
<1>1. holds \in [HoldId -> Hold \cup {NoHold}]
  BY DEF PayTypeOK, TypeOK
<1>2. PICK s \in {"released", "captured"} : holds' = [holds EXCEPT ![h].status = s]
  BY DEF ReleaseHold, CaptureHold, ResolveHold
<1>3. ASSUME NEW g \in HoldId, holds'[g].status = "active"
      PROVE  holds[g].status = "active"
  <2>1. CASE g # h
    BY <1>1, <1>2, <1>3, <2>1
  <2>2. CASE g = h
    <3>1. holds[g].status = "active"
      BY <2>2 DEF ReleaseHold, CaptureHold, ResolveHold
    <3> QED
      BY <3>1
  <2> QED
    BY <2>1, <2>2
<1> QED
  BY <1>3 DEF NoneActivated

\* Nobody but a handler places a hold or serves a request.
LEMMA OthersPlaceNone ==
    ASSUME PayInv, [PayNext]_allVars, ~\E c \in Handler : HandlerStep(c) \/ LoseRequest(c)
    PROVE  NoneActivated /\ UNCHANGED <<asked, orphans>> /\ \A c \in Handler : step'[c] = step[c]
<1>1. PayTypeOK /\ step \in [Actor -> Steps]
  BY DEF PayInv, PayTypeOK
<1>2. ASSUME NEW x \in Worker, NEW s, Goto(x, s)
      PROVE  \A c \in Handler : step'[c] = step[c]
  <2>1. \A c \in Handler : c # x /\ c \in Actor
    BY ActorAssumption DEF Worker, Actor
  <2> QED
    BY <1>1, <1>2, <2>1 DEF Goto
<1>3. ASSUME NEW x \in Worker, Done(x)
      PROVE  \A c \in Handler : step'[c] = step[c]
  BY <1>2, <1>3 DEF Done
<1>4. UNCHANGED vars => NoneActivated
  BY DEF vars, NoneActivated
<1>5. ASSUME NEW i \in Instance, RowStep(i) \/ RailTimesOut(i) \/ \E batch \in SUBSET Key : Claim(i, batch)
      PROVE  NoneActivated /\ UNCHANGED <<asked, orphans>> /\ \A c \in Handler : step'[c] = step[c]
  <2>0. i \in Worker
    BY DEF Worker
  <2>1. CASE TakeRow(i) \/ ReadAssessed(i) \/ MarkHeld(i) \/ CallRail(i) \/ \E batch \in SUBSET Key : Claim(i, batch)
    BY <1>2, <1>4, <2>0, <2>1 DEF TakeRow, ReadAssessed, MarkHeld, CallRail, Claim
  <2>2. CASE ReadExisting(i) \/ RecordAssessment(i)
    BY <1>2, <1>3, <1>4, <2>0, <2>2 DEF ReadExisting, RecordAssessment
  <2>3. CASE RevertToPending(i) \/ MarkBlocked(i) \/ MarkFailed(i) \/ MarkCompleted(i) \/ RailTimesOut(i)
    BY <1>3, <1>4, <2>0, <2>3 DEF RevertToPending, MarkBlocked, MarkFailed, MarkCompleted, RailTimesOut
  <2>4. CASE ReleaseBlocked(i) \/ ReleaseRejected(i)
    BY <1>1, <1>2, <1>3, <1>4, <2>0, <2>4, EndingActivatesNone DEF ReleaseBlocked, ReleaseRejected, ReleaseRowHold
  <2>5. CASE Settle(i)
    <3>1. UNCHANGED <<asked, orphans>> /\ \A c \in Handler : step'[c] = step[c]
      BY <1>2, <1>3, <2>0, <2>5 DEF Settle
    <3>2. CASE UNCHANGED vars
      BY <1>4, <3>1, <3>2
    <3>3. CASE ~IsOutbound(i) /\ Credit(Wanted(i).account, Wanted(i).amount, row[i])
      BY <3>1, <3>3 DEF Credit, PostTransaction, NoneActivated
    <3>4. CASE CaptureHold(Row(i).hold, row[i])
      <4>1. row[i] \in Key
        BY <2>0, <2>5 DEF PayInv, WorkerKnows, KnowsAt, Settle
      <4> QED
        BY <1>1, <3>1, <3>4, <4>1, EndingActivatesNone
    <3> QED
      BY <2>5, <3>2, <3>3, <3>4 DEF Settle
  <2> QED
    BY <1>5, <2>1, <2>2, <2>3, <2>4, <2>5 DEF RowStep
<1>6. ASSUME NEW i \in Instance, Restart(i)
      PROVE  NoneActivated /\ UNCHANGED <<asked, orphans>> /\ \A c \in Handler : step'[c] = step[c]
  <2>1. i \in Worker /\ Goto(i, "idle")
    BY <1>6 DEF Worker, Restart, Goto
  <2> QED
    BY <1>2, <1>4, <1>6, <2>1 DEF Restart
<1>7. ASSUME NEW x \in Investigator, InvestigatorStep(x)
      PROVE  NoneActivated /\ UNCHANGED <<asked, orphans>> /\ \A c \in Handler : step'[c] = step[c]
  <2>0. x \in Worker
    BY DEF Worker
  <2>1. ASSUME NEW k \in Key, Approve(x, k)
        PROVE  NoneActivated /\ UNCHANGED <<asked, orphans>> /\ \A c \in Handler : step'[c] = step[c]
    BY <1>4, <2>1 DEF Approve
  <2>2. ASSUME NEW k \in Key, Block(x, k)
        PROVE  NoneActivated /\ UNCHANGED <<asked, orphans>> /\ \A c \in Handler : step'[c] = step[c]
    BY <1>2, <1>4, <2>0, <2>2 DEF Block
  <2>3. CASE ReleaseBlocked(x)
    BY <1>1, <1>2, <1>3, <1>4, <2>0, <2>3, EndingActivatesNone DEF ReleaseBlocked, ReleaseRowHold
  <2>4. CASE MarkBlocked(x)
    BY <1>3, <1>4, <2>0, <2>4 DEF MarkBlocked
  <2> QED
    BY <1>7, <2>1, <2>2, <2>3, <2>4 DEF InvestigatorStep
<1>8. ASSUME NEW x \in Instance \cup Investigator, FailStatement(x)
      PROVE  NoneActivated /\ UNCHANGED <<asked, orphans>> /\ \A c \in Handler : step'[c] = step[c]
  BY <1>3, <1>4, <1>8 DEF FailStatement, Worker
<1>9. CASE OpenAnAccount \/ PostElsewhere \/ UNCHANGED allVars
  <2>1. UNCHANGED payVars /\ UNCHANGED holds
    BY <1>9 DEF OpenAnAccount, PostElsewhere, OpenAccount, Debit, PostTransaction, allVars, vars
  <2> QED
    BY <2>1 DEF payVars, NoneActivated
<1> QED
  BY <1>5, <1>6, <1>7, <1>8, <1>9 DEF PayNext

\* Those who place none keep every hold its owner.
LEMMA OthersKeepOwners ==
    ASSUME PayInv, OwnersInv, [PayNext]_allVars, ~\E c \in Handler : HandlerStep(c) \/ LoseRequest(c)
    PROVE  OwnersInv'
<1>1. Tame /\ PayTypeOK
  <2>1. \A c \in Handler : ~Inserts(c)
    BY DEF Inserts, HandlerStep
  <2> QED
    BY <2>1, EveryStepKeeps DEF PayInv
<1>2. NoneActivated /\ UNCHANGED <<asked, orphans>> /\ \A c \in Handler : step'[c] = step[c]
  BY OthersPlaceNone
<1>3. \A c \in Handler : Inserting(c)' <=> Inserting(c)
  BY <1>2 DEF Inserting
<1>4. \A k \in Key : IsOutboundRow(k) => IsOutboundRow(k)' /\ HoldOf(k)' = HoldOf(k)
  BY <1>1, TameKeepsDirection
<1>5. ASSUME NEW h \in HoldId, holds'[h].status = "active"
      PROVE  HoldIsOwned(h)'
  <2>1. HoldIsOwned(h)
    BY <1>2, <1>5 DEF OwnersInv, NoneActivated
  <2> QED
    BY <1>2, <1>3, <1>4, <2>1 DEF HoldIsOwned
<1> QED
  BY <1>5 DEF OwnersInv

\* A handler's hold becomes its row's or an orphan, and no other hold loses its
\* owner.
LEMMA HandlerKeepsOwners ==
    ASSUME PayInv, OwnersInv, NEW c \in Handler, HandlerStep(c) \/ LoseRequest(c)
    PROVE  OwnersInv'
<1>1. /\ PayTypeOK /\ asked[c] \in AskedRow /\ c \in Actor /\ HandlerOwnsHold(c)
      /\ step \in [Actor -> Steps] /\ asked \in [Handler -> AskedRow]
  BY HandlerAt DEF Actor, PayTypeOK, AskedRow
<1>2. \A d \in Handler \ {c} : step'[d] = step[d] /\ asked'[d] = asked[d]
  BY <1>1 DEF HandlerStep, LookUpKey, ReserveAmount, InsertRow, LoseRequest, Goto, Actor
<1>3. \A d \in Handler \ {c} : Inserting(d)' <=> Inserting(d)
  BY <1>2 DEF Inserting
<1>4. orphans \subseteq orphans'
  BY DEF HandlerStep, LookUpKey, ReserveAmount, InsertRow, LoseRequest
<1>5. \A k \in Key : IsOutboundRow(k) => IsOutboundRow(k)' /\ HoldOf(k)' = HoldOf(k)
  <2>1. CASE UNCHANGED transfers
    BY <2>1 DEF IsOutboundRow, HoldOf
  <2>2. CASE Inserts(c)
    <3>1. PICK n \in Key : ~Present(n) /\ transfers' = [transfers EXCEPT ![n] = NewRow(c)]
      BY <2>2, HandlerAt DEF Inserts, InsertRow
    <3>2. ~IsOutboundRow(n) /\ \A k \in Key \ {n} : transfers'[k] = transfers[k]
      BY <1>1, <3>1 DEF Present, IsOutboundRow, NoTransfer, PayTypeOK
    <3> QED
      BY <3>2 DEF IsOutboundRow, HoldOf
  <2> QED
    BY <2>1, <2>2 DEF HandlerStep, LookUpKey, ReserveAmount, InsertRow, LoseRequest, Inserts, Present, NewRow
<1>6. ASSUME NEW h \in HoldId, holds'[h].status = "active",
             HoldIsOwned(h) \/ (Inserting(c)' /\ asked'[c].hold = h),
             Inserting(c) /\ asked[c].hold = h => HoldIsOwned(h)'
      PROVE  HoldIsOwned(h)'
  BY <1>2, <1>3, <1>4, <1>5, <1>6 DEF HoldIsOwned
<1>7. ASSUME ~Inserting(c), UNCHANGED holds
      PROVE  OwnersInv'
  BY <1>6, <1>7 DEF OwnersInv
<1>8. CASE (\E request \in TransferRequest : LookUpKey(c, request)) \/ (LoseRequest(c) /\ ~Inserting(c))
  BY <1>7, <1>8 DEF LookUpKey, LoseRequest, Inserting, vars
<1>9. CASE ReserveAmount(c)
  <2>1. step[c] = "place" /\ ~Inserting(c)
    BY <1>9 DEF ReserveAmount, Inserting
  <2>2. CASE UNCHANGED vars
    BY <1>7, <2>1, <2>2 DEF vars
  <2>3. ASSUME NEW g \in HoldId, PlaceHold(g, asked[c].request.account, asked[c].request.amount),
               asked' = [asked EXCEPT ![c].hold = g], Goto(c, "insert")
        PROVE  OwnersInv'
    <3>1. Inserting(c)' /\ asked'[c].hold = g
      BY <1>1, <2>1, <2>3 DEF Goto, AskedRow, HandlerOwnsHold, Inserting
    <3>2. ASSUME NEW h \in HoldId, holds'[h].status = "active", h # g
          PROVE  holds[h].status = "active"
      BY <1>1, <2>3, <3>2 DEF PlaceHold, PayTypeOK, TypeOK
    <3> QED
      BY <1>6, <2>1, <3>1, <3>2 DEF OwnersInv
  <2> QED
    BY <1>9, <2>2, <2>3 DEF ReserveAmount
<1>10. CASE Inserting(c) /\ (InsertRow(c) \/ LoseRequest(c))
  <2>1. holds' = holds /\ asked[c].hold \in HoldId
    BY <1>1, <1>10 DEF InsertRow, LoseRequest, vars, HandlerOwnsHold
  <2>2. CASE LoseRequest(c) \/ transfers' = transfers
    <3>1. asked[c].hold \in orphans'
      BY <1>10, <2>1, <2>2 DEF InsertRow, LoseRequest, HoldAsked
    <3> QED
      BY <1>6, <2>1, <3>1 DEF OwnersInv, HoldIsOwned
  <2>3. CASE InsertRow(c) /\ transfers' # transfers
    <3>1. PICK n \in Key : transfers' = [transfers EXCEPT ![n] = NewRow(c)]
      BY <2>3, HandlerAt DEF InsertRow, NewRow
    <3>2. IsOutboundRow(n)' /\ HoldOf(n)' = asked[c].hold
      BY <1>1, <1>10, <3>1 DEF IsOutboundRow, HoldOf, NewRow, Inserting, PayTypeOK
    <3> QED
      BY <1>6, <2>1, <3>2 DEF OwnersInv, HoldIsOwned
  <2> QED
    BY <1>10, <2>2, <2>3
<1>11. CASE ~Inserting(c) /\ InsertRow(c)
  BY <1>7, <1>11 DEF InsertRow, vars
<1> QED
  BY <1>8, <1>9, <1>10, <1>11 DEF HandlerStep

\* An active hold is that of a transfer under way, of a handler about to insert
\* one, or of a send that was refused its row or lost before the INSERT, whatever
\* handlers, instances, investigators, failures and restarts do.
THEOREM NoHoldIsLeftBehind == PaySpec => []HoldsBelongToTransfers
<1>1. PayInit => OwnersInv
  <2>1. \A h \in HoldId : PayInit => holds[h].status # "active"
    BY DEF PayInit, Init, NoHold
  <2> QED
    BY <2>1 DEF OwnersInv
<1>2. PayInv /\ OwnersInv /\ [PayNext]_allVars => PayInv' /\ OwnersInv'
  BY EveryStepKeeps, OthersKeepOwners, HandlerKeepsOwners
<1>3. ASSUME PayInv, OwnersInv
      PROVE  HoldsBelongToTransfers
  <2> SUFFICES ASSUME NEW h \in HoldId, holds[h].status = "active",
                      NEW k \in Key, IsOutboundRow(k), HoldOf(k) = h
               PROVE  transfers[k].status \in {"pending", "processing"}
    BY <1>3 DEF HoldsBelongToTransfers, OwnersInv, HoldIsOwned, HoldOf
  <2>1. RowIsHonest(k) /\ transfers[k] \in TransferRow
    BY <1>3, TransferRowTyped DEF PayInv, RowsInv
  <2>2. transfers[k].status # "failed"
    BY <2>1 DEF RowIsHonest
  <2>3. transfers[k].status # "completed"
    <3> SUFFICES ASSUME Settled(k)
                 PROVE  FALSE
      BY <2>1 DEF RowIsHonest
    <3>1. txns[k].request = CaptureRequest(h) /\ ~Unused(k)
      BY DEF Settled, SettlingRequest, IsOutboundRow, HoldOf
    <3> QED
      BY <1>3, <3>1 DEF PayInv, CapturedExactlyOnce, Captures, Unused
  <2> QED
    BY <2>1, <2>2, <2>3 DEF TransferRow
<1>4. PayInv /\ OwnersInv => HoldsBelongToTransfers
  BY <1>3
<1> QED
  BY <1>1, <1>2, <1>4, InitKeeps, PTL DEF PaySpec
-----------------------------------------------------------------------------
(***************************************************************************)
(* The gate.  A decision is recorded before it is carried out, and a row   *)
(* that is claimed in between is taken for one that has passed.  That takes*)
(* an instance that stops in between, or a second one that claims a row the*)
(* first is at work on: the keys in "interrupted".  Of any other key, at   *)
(* most one instance has the row, and it stands where the assessment says. *)
(***************************************************************************)
AtWork(x) == step[x] \notin {"idle", "next"}
MayGoOn(k) == assessments[k] = "none" \/ PassedTheGate(k)
HeldBackAt(i, k) == row[i] = k /\ step[i] \in {"markHeld", "unclaim", "releaseBlocked", "markBlocked"}
Claimable(k) == transfers[k].status = "processing" \/ (transfers[k].status = "pending" /\ transfers[k].risk = "clear")
HoldIsActive(k) == IsOutboundRow(k) => holds[HoldOf(k)].status = "active"
PostedElsewhere(k) == \E legs : txns[k].request = LegsRequest("debit", legs)

\* Of every key, interrupted or not.
RowIsAssessed(k) ==
    /\ Present(k) /\ transfers[k].risk = "held" => assessments[k] = "hold"
    /\ ~Present(k) => assessments[k] = "none" /\ (Unused(k) \/ PostedElsewhere(k))

WorkerIsGated(x) ==
    AtWork(x) =>
      /\ x \in Investigator \/ step[x] = "markHeld" => assessments[row[x]] = "hold"
      /\ x \in Instance => row[x] \notin queue[x]

\* What an instance at the step s of row k goes by.
GateAt(s, k) ==
    /\ s = "assessed" => MayGoOn(k)
    /\ s \in {"existing", "record"} => assessments[k] = "none"
    /\ s \in {"rail", "settle", "markCompleted", "releaseRejected", "markFailed"} => PassedTheGate(k)
    /\ s = "markHeld" => assessments[k] = "hold"
    /\ s = "unclaim" => assessments[k] = "hold" /\ (k \in approved \/ transfers[k].risk # "clear")
    /\ s = "releaseBlocked" => assessments[k] = "block" /\ HoldIsActive(k)
    /\ s = "markBlocked" => assessments[k] = "block"

ActsByTheGate(i, k) ==
    /\ k \in queue[i] => MayGoOn(k)
    /\ row[i] = k => GateAt(step[i], k)

\* What can be claimed has not been refused, unless the instance is about to say
\* so in the row.  Before it is assessed, nobody touches the row's hold.
KeyIsGated(k) ==
    /\ Present(k) /\ Settled(k) => PassedTheGate(k)
    /\ Claimable(k) => MayGoOn(k) \/ \E i \in Instance : HeldBackAt(i, k)
    /\ Present(k) /\ assessments[k] = "none" => HoldIsActive(k)
    /\ \A i \in Instance : ActsByTheGate(i, k)
    /\ \A i, j \in Instance : WorksOn(i, k) /\ WorksOn(j, k) => i = j

GateInv ==
    /\ \A k \in Key : RowIsAssessed(k) /\ (k \in interrupted \/ KeyIsGated(k))
    /\ \A x \in Worker : WorkerIsGated(x)

-----------------------------------------------------------------------------
\* A step that leaves a row, its assessment, its hold and its key alone.
RowRests(k) ==
    /\ transfers'[k] = transfers[k] /\ assessments'[k] = assessments[k]
    /\ k \in approved => k \in approved'
KeyRests(k) == txns'[k] = txns[k] \/ (Unused(k) /\ PostedElsewhere(k)')
HoldRests(k) == IsOutboundRow(k) /\ holds[HoldOf(k)].status = "active" => holds'[HoldOf(k)].status = "active"
Rests(k) == RowRests(k) /\ KeyRests(k) /\ HoldRests(k)

\* And an instance that does not take the row up, and carries on refusing it.
LeavesAlone(i, k) ==
    /\ k \in queue'[i] => k \in queue[i]
    /\ row'[i] = k /\ AtWork(i)' => row[i] = k /\ step'[i] = step[i]
    /\ HeldBackAt(i, k) => HeldBackAt(i, k)'

\* A key that is unused, or another feature's, settles no row.
LEMMA KeyOfAnotherSettlesNone ==
    ASSUME NEW k, Unused(k)' \/ PostedElsewhere(k)'
    PROVE  ~Settled(k)'
<1>1. ASSUME PostedElsewhere(k)'
      PROVE  txns'[k].request # SettlingRequest(k)'
  <2>1. PICK legs : txns'[k].request = <<"legs", "debit", legs>>
    BY <1>1 DEF PostedElsewhere, LegsRequest
  <2>2. \/ \E h : SettlingRequest(k)' = <<"capture", h>>
        \/ \E l : SettlingRequest(k)' = <<"legs", "credit", l>>
    BY DEF SettlingRequest, CaptureRequest, LegsRequest
  <2> QED
    BY <2>1, <2>2
<1> QED
  BY <1>1 DEF Settled

\* What an actor knows at the gate of a row that rests stays true.
LEMMA GateLasts ==
    ASSUME NEW k, NEW s, GateAt(s, k), RowRests(k), HoldRests(k)
    PROVE  GateAt(s, k)'
<1>1. (PassedTheGate(k) => PassedTheGate(k)') /\ (MayGoOn(k) => MayGoOn(k)')
  BY DEF RowRests, PassedTheGate, MayGoOn
<1>2. HoldIsActive(k) => HoldIsActive(k)'
  BY DEF RowRests, HoldRests, HoldIsActive, IsOutboundRow, HoldOf
<1> QED
  BY <1>1, <1>2 DEF RowRests, GateAt

\* A row that rests, and that instances leave alone, stays as gated as it was.
LEMMA RestingIsGated ==
    ASSUME NEW k \in Key, Rests(k)
    PROVE  /\ RowIsAssessed(k) => RowIsAssessed(k)'
           /\ KeyIsGated(k) /\ (\A i \in Instance : LeavesAlone(i, k)) => KeyIsGated(k)'
<1>1. /\ Present(k)' <=> Present(k)
      /\ IsOutboundRow(k)' <=> IsOutboundRow(k)
      /\ HoldOf(k)' = HoldOf(k)
      /\ Claimable(k)' <=> Claimable(k)
      /\ PassedTheGate(k) => PassedTheGate(k)'
      /\ MayGoOn(k) => MayGoOn(k)'
      /\ assessments'[k] = assessments[k] /\ transfers'[k] = transfers[k]
  BY DEF Rests, RowRests, Present, IsOutboundRow, HoldOf, Claimable, PassedTheGate, MayGoOn
<1>2. Settled(k)' => Settled(k)
  <2>1. CASE txns'[k] = txns[k]
    BY <2>1 DEF Rests, RowRests, Settled, Unused, SettlingRequest, SettlingLegs
  <2>2. CASE PostedElsewhere(k)'
    BY <2>2, KeyOfAnotherSettlesNone
  <2> QED
    BY <2>1, <2>2 DEF Rests, KeyRests
<1>3. HoldIsActive(k) => HoldIsActive(k)'
  BY <1>1 DEF Rests, HoldRests, HoldIsActive
<1>4. Unused(k) \/ PostedElsewhere(k) => Unused(k)' \/ PostedElsewhere(k)'
  BY DEF Rests, KeyRests, Unused, PostedElsewhere
<1>5. ASSUME KeyIsGated(k), NEW i \in Instance, LeavesAlone(i, k)
      PROVE  ActsByTheGate(i, k)'
  <2>1. CASE AtWork(i)'
    <3>1. row'[i] = k => GateAt(step[i], k) /\ step'[i] = step[i]
      BY <1>5, <2>1 DEF LeavesAlone, KeyIsGated, ActsByTheGate
    <3>2. PICK s : s = step[i]
      OBVIOUS
    <3>3. row'[i] = k => GateAt(s, k)' /\ step'[i] = s
      BY <3>1, <3>2, GateLasts DEF Rests
    <3> QED
      BY <1>1, <1>5, <3>3 DEF LeavesAlone, KeyIsGated, ActsByTheGate, GateAt
  <2>2. CASE ~AtWork(i)'
    BY <1>1, <1>5, <2>2 DEF LeavesAlone, KeyIsGated, ActsByTheGate, GateAt, AtWork
  <2> QED
    BY <2>1, <2>2
<1>6. ASSUME KeyIsGated(k), \A i \in Instance : LeavesAlone(i, k)
      PROVE  KeyIsGated(k)'
  <2>1. \A i \in Instance : WorksOn(i, k)' => WorksOn(i, k)
    BY <1>6 DEF LeavesAlone, WorksOn, AtWork
  <2>2. \A i, j \in Instance : WorksOn(i, k)' /\ WorksOn(j, k)' => i = j
    BY <1>6, <2>1 DEF KeyIsGated
  <2>3. Claimable(k)' => MayGoOn(k)' \/ \E i \in Instance : HeldBackAt(i, k)'
    BY <1>1, <1>6 DEF KeyIsGated, LeavesAlone
  <2>4. Present(k)' /\ Settled(k)' => PassedTheGate(k)'
    BY <1>1, <1>2, <1>6 DEF KeyIsGated
  <2>5. Present(k)' /\ assessments'[k] = "none" => HoldIsActive(k)'
    BY <1>1, <1>3, <1>6 DEF KeyIsGated
  <2> QED
    BY <1>5, <1>6, <2>2, <2>3, <2>4, <2>5 DEF KeyIsGated
<1> QED
  BY <1>1, <1>4, <1>6 DEF RowIsAssessed

\* A step keeps the gate if it keeps that of the rows and actors it touches.
LEMMA StepKeepsGate ==
    ASSUME PayInv, GateInv, interrupted \subseteq interrupted',
           \A k \in Key : assessments[k] = "hold" => assessments'[k] = "hold",
           \A x \in Worker : \/ step'[x] = step[x] /\ row'[x] = row[x] /\ (x \in Instance => queue'[x] = queue[x])
                             \/ WorkerIsGated(x)',
           \A k \in Key : \/ Rests(k) /\ (k \in interrupted' \/ \A i \in Instance : LeavesAlone(i, k))
                          \/ RowIsAssessed(k)' /\ (k \in interrupted' \/ KeyIsGated(k)')
    PROVE  GateInv'
<1>1. ASSUME NEW k \in Key
      PROVE  RowIsAssessed(k)' /\ (k \in interrupted' \/ KeyIsGated(k)')
  BY <1>1, RestingIsGated DEF GateInv
<1>2. ASSUME NEW x \in Worker
      PROVE  WorkerIsGated(x)'
  <2>1. CASE step'[x] = step[x] /\ row'[x] = row[x] /\ (x \in Instance => queue'[x] = queue[x])
    <3>1. AtWork(x) => row[x] \in Key
      BY WorkerAt DEF AtWork
    <3>2. WorkerIsGated(x)
      BY DEF GateInv
    <3> QED
      BY <2>1, <3>1, <3>2 DEF WorkerIsGated, AtWork
  <2> QED
    BY <1>2, <2>1
<1> QED
  BY <1>1, <1>2 DEF GateInv

\* The row an instance works on is nobody else's: it stays gated if what the
\* instance has just done is in order.
LEMMA OwnRowStaysGated ==
    ASSUME PayInv, GateInv, NEW i \in Instance, AtWork(i), NEW k \in Key, k = row[i], k \notin interrupted,
           queue' = queue, approved \subseteq approved',
           \A j \in Worker \ {i} : step'[j] = step[j] /\ row'[j] = row[j],
           \A s \in Steps : s = step'[i] =>
               \/ s \in {"idle", "next"}
               \/ row' = row /\ GateAt(s, k)',
           Settled(k)' => PassedTheGate(k)',
           Claimable(k)' => MayGoOn(k)' \/ HeldBackAt(i, k)',
           assessments'[k] = "none" => HoldIsActive(k)',
           step'[i] \in Steps
    PROVE  KeyIsGated(k)'
<1>1. KeyIsGated(k) /\ WorkerIsGated(i) /\ i \in Worker
  BY DEF GateInv, Worker
<1>2. \A j \in Instance : WorksOn(j, k) => j = i
  BY <1>1 DEF KeyIsGated, WorksOn, AtWork
<1>3. \A j \in Instance : k \notin queue[j]
  BY <1>1, <1>2 DEF WorkerIsGated, WorksOn
<1>4. ASSUME NEW j \in Instance \ {i}
      PROVE  ~WorksOn(j, k)' /\ ActsByTheGate(j, k)'
  <2>1. step'[j] = step[j] /\ row'[j] = row[j] /\ ~WorksOn(j, k)
    BY <1>2 DEF Worker
  <2>2. row'[j] = k => step'[j] \in {"idle", "next"}
    BY <2>1 DEF WorksOn
  <2> QED
    BY <1>3, <2>2 DEF WorksOn, ActsByTheGate, GateAt
<1>5. ActsByTheGate(i, k)'
  <2>1. PICK s \in Steps : s = step'[i]
    OBVIOUS
  <2>2. CASE s \in {"idle", "next"}
    BY <1>3, <2>1, <2>2 DEF ActsByTheGate, GateAt
  <2>3. CASE GateAt(s, k)'
    <3>1. row'[i] = k => GateAt(step[i], k)'
      BY <2>1, <2>3 DEF GateAt, MayGoOn, PassedTheGate, HoldIsActive, IsOutboundRow, HoldOf
    <3> QED
      BY <1>3, <3>1 DEF ActsByTheGate
  <2> QED
    BY <2>1, <2>2, <2>3
<1>6. \A j, l \in Instance : WorksOn(j, k)' /\ WorksOn(l, k)' => j = l
  BY <1>4
<1> QED
  BY <1>4, <1>5, <1>6 DEF KeyIsGated

\* What an instance or investigator does to the other ones: nothing.
LEMMA OthersIdle ==
    ASSUME PayInv, NEW x \in Worker, Done(x) \/ (row' = row /\ \E s : Goto(x, s))
    PROVE  /\ \A y \in Worker \ {x} : step'[y] = step[y] /\ row'[y] = row[y]
           /\ Done(x) => step'[x] \in {"idle", "next"}
           /\ \A s : Goto(x, s) => step'[x] = s
<1>1. step \in [Actor -> Steps] /\ row \in [Worker -> Key \cup {"none"}] /\ Worker \subseteq Actor
  BY DEF PayInv, PayTypeOK, Worker, Actor
<1> QED
  BY <1>1 DEF Done, Goto

\* An actor that goes on with its row, or is done with it, leaves the others alone.
LEMMA OthersAreLeftAlone ==
    ASSUME PayInv, NEW x \in Worker, AtWork(x), queue' = queue,
           Done(x) \/ (row' = row /\ \E s : Goto(x, s)), NEW k \in Key, k # row[x], NEW i \in Instance
    PROVE  LeavesAlone(i, k)
<1>1. CASE i # x
  BY <1>1, OthersIdle DEF LeavesAlone, HeldBackAt, Worker
<1>2. CASE i = x
  <2>1. row' = row \/ step'[i] \in {"idle", "next"}
    BY <1>2, OthersIdle
  <2> QED
    BY <1>2, <2>1 DEF LeavesAlone, HeldBackAt, AtWork
<1> QED
  BY <1>1, <1>2

\* The instance works on its row and leaves the other ones alone.
LEMMA OneRowKeepsGate ==
    ASSUME PayInv, GateInv, NEW i \in Instance, AtWork(i), NEW k \in Key, k = row[i],
           UNCHANGED <<queue, approved, interrupted>>,
           \A l \in Key \ {k} : Rests(l),
           Done(i) \/ (row' = row /\ \E s : Goto(i, s)),
           assessments'[k] = assessments[k] \/ assessments[k] = "none",
           step'[i] = "markHeld" => assessments'[k] = "hold",
           Present(k)', transfers'[k].risk = "held" => assessments'[k] = "hold",
           k \in interrupted \/ KeyIsGated(k)'
    PROVE  GateInv'
<1>1. i \in Worker /\ WorkerIsGated(i) /\ i \notin Investigator
  BY ActorAssumption DEF GateInv, Worker
<1>2. \A l \in Key \ {k} : assessments'[l] = assessments[l]
  BY DEF Rests, RowRests
<1>3. WorkerIsGated(i)'
  <2>1. CASE Done(i)
    BY <1>1, <2>1, OthersIdle DEF WorkerIsGated, AtWork
  <2>2. CASE row' = row
    BY <1>1, <2>2 DEF WorkerIsGated, AtWork
  <2> QED
    BY <2>1, <2>2
<1>4. \A x \in Worker \ {i} : step'[x] = step[x] /\ row'[x] = row[x]
  BY <1>1, OthersIdle
<1>5. RowIsAssessed(k)'
  BY DEF RowIsAssessed
<1>6. \A l \in Key \ {k} : \A j \in Instance : LeavesAlone(j, l)
  BY <1>1, OthersAreLeftAlone
<1>7. \A x \in Worker : \/ step'[x] = step[x] /\ row'[x] = row[x] /\ (x \in Instance => queue'[x] = queue[x])
                        \/ WorkerIsGated(x)'
  BY <1>3, <1>4
<1>8. \A l \in Key : \/ Rests(l) /\ (l \in interrupted' \/ \A j \in Instance : LeavesAlone(j, l))
                     \/ RowIsAssessed(l)' /\ (l \in interrupted' \/ KeyIsGated(l)')
  BY <1>5, <1>6
<1>9. \A l \in Key : assessments[l] = "hold" => assessments'[l] = "hold"
  BY <1>2
<1> QED
  BY <1>7, <1>8, <1>9, StepKeepsGate

\* The hold of a row rests unless the step resolves it.
LEMMA HoldOfOtherRests ==
    ASSUME PayInv, NEW k \in Key, HoldsKept \/ \E j \in Key \ {k} : ResolvesHoldOf(j)
    PROVE  HoldRests(k)
<1>1. CASE IsOutboundRow(k)
  <2>1. HoldOf(k) \in HoldId /\ holds[HoldOf(k)] # NoHold
    BY <1>1 DEF PayInv, RowsInv, RowIsHonest
  <2>2. \A j \in Key \ {k} : ResolvesHoldOf(j) => HoldOf(k) # HoldOf(j)
    BY <1>1 DEF PayInv, RowsInv, HoldsDiffer, ResolvesHoldOf
  <2>3. holds'[HoldOf(k)] = holds[HoldOf(k)]
    BY <2>1, <2>2 DEF HoldsKept, ResolvesHoldOf
  <2> QED
    BY <2>3 DEF HoldRests
<1>2. CASE ~IsOutboundRow(k)
  BY <1>2 DEF HoldRests
<1> QED
  BY <1>1, <1>2

\* Handlers insert rows that nobody has assessed, with their hold active.
LEMMA HandlersKeepGate ==
    ASSUME PayInv, GateInv, NEW c \in Handler, HandlerStep(c) \/ LoseRequest(c)
    PROVE  GateInv'
<1>1. PayTypeOK /\ asked[c] \in AskedRow /\ c \notin Worker
  BY HandlerAt, ActorAssumption DEF Worker
<1>2. UNCHANGED <<assessments, approved, row, queue, txns, interrupted>>
  BY DEF HandlerStep, LoseRequest, LookUpKey, ReserveAmount, InsertRow, PlaceHold, vars
<1>3. \A x \in Worker : step'[x] = step[x]
  BY <1>1 DEF HandlerStep, LoseRequest, LookUpKey, ReserveAmount, InsertRow, Goto, PayTypeOK, Worker, Actor
<1>4. HoldsKept
  <2>1. CASE UNCHANGED vars
    BY <2>1 DEF HoldsKept, vars
  <2>2. ASSUME NEW h \in HoldId, PlaceHold(h, asked[c].request.account, asked[c].request.amount)
        PROVE  HoldsKept
    BY <1>1, <2>2 DEF HoldsKept, PlaceHold, PayTypeOK, TypeOK
  <2> QED
    BY <2>1, <2>2 DEF HandlerStep, LoseRequest, LookUpKey, ReserveAmount, InsertRow
<1>5. \A k \in Key : KeyRests(k) /\ HoldRests(k)
  BY <1>2, <1>4, HoldOfOtherRests DEF KeyRests
<1>6. \A k \in Key, i \in Instance : LeavesAlone(i, k)
  BY <1>2, <1>3 DEF LeavesAlone, HeldBackAt, Worker
<1>7. CASE UNCHANGED transfers
  <2>1. \A k \in Key : Rests(k)
    BY <1>2, <1>5, <1>7 DEF Rests, RowRests
  <2> QED
    BY <1>2, <1>3, <1>6, <2>1, StepKeepsGate
<1>8. CASE Inserts(c)
  <2>1. PICK n \in Key : /\ n = asked[c].request.key /\ ~Present(n)
                         /\ transfers' = [transfers EXCEPT ![n] = NewRow(c)]
    BY <1>8, HandlerAt DEF Inserts, InsertRow
  <2>2. transfers'[n] = NewRow(c) /\ \A k \in Key \ {n} : transfers'[k] = transfers[k]
    BY <1>1, <2>1 DEF PayTypeOK
  <2>3. \A k \in Key \ {n} : Rests(k)
    BY <1>2, <1>5, <2>2 DEF Rests, RowRests
  <2>4. assessments[n] = "none" /\ (Unused(n) \/ PostedElsewhere(n))
    BY <2>1 DEF GateInv, RowIsAssessed
  <2>5. ~Settled(n)'
    <3>1. Unused(n)' \/ PostedElsewhere(n)'
      BY <1>2, <2>4 DEF Unused, PostedElsewhere
    <3> QED
      BY <3>1, KeyOfAnotherSettlesNone
  <2>6. HoldIsActive(n)'
    <3> SUFFICES ASSUME IsOutboundRow(n)'
                 PROVE  holds'[HoldOf(n)'].status = "active"
      BY DEF HoldIsActive
    <3>1. Inserting(c) /\ HoldOf(n)' = asked[c].hold
      BY <1>8, <2>2 DEF IsOutboundRow, Inserting, HoldOf, NewRow, Inserts, InsertRow
    <3>2. holds[asked[c].hold].status = "active" /\ holds' = holds
      BY <1>8, <3>1, HandlerAt DEF HandlerOwnsHold, Inserts, InsertRow, vars
    <3> QED
      BY <3>1, <3>2
  <2>7. Present(n)' /\ transfers'[n].status = "pending" /\ transfers'[n].risk = "clear"
    BY <2>2 DEF NewRow, Present, NoTransfer
  <2>8. \A i \in Instance : ~WorksOn(i, n)
    <3>1. \A i \in Instance : i \in Worker /\ n \notin queue[i]
      BY <2>1 DEF Worker, PayInv, QueuesArePresent
    <3>2. \A i \in Instance : AtWork(i) => Present(row[i])
      BY <3>1, WorkerAt DEF AtWork
    <3> QED
      BY <2>1, <3>1, <3>2 DEF WorksOn, AtWork
  <2>9. ASSUME NEW i \in Instance
        PROVE  ActsByTheGate(i, n)' /\ ~WorksOn(i, n)'
    <3>1. step'[i] = step[i] /\ row'[i] = row[i] /\ queue'[i] = queue[i] /\ ~WorksOn(i, n)
      BY <1>2, <1>3, <2>8 DEF Worker
    <3>2. row'[i] = n => step'[i] \in {"idle", "next"}
      BY <3>1 DEF WorksOn
    <3> QED
      BY <3>1, <3>2 DEF WorksOn, ActsByTheGate, GateAt
  <2>10. RowIsAssessed(n)'
    BY <2>7 DEF RowIsAssessed
  <2>11. KeyIsGated(n)'
    BY <1>2, <2>4, <2>5, <2>6, <2>9 DEF KeyIsGated, MayGoOn
  <2> QED
    BY <1>2, <1>3, <1>6, <2>3, <2>10, <2>11, StepKeepsGate
<1> QED
  BY <1>7, <1>8 DEF HandlerStep, LoseRequest, LookUpKey, ReserveAmount, InsertRow, Inserts, Present, NewRow

\* What other features post does not settle a row.
LEMMA ElsewhereKeepsGate ==
    ASSUME PayInv, GateInv, OpenAnAccount \/ PostElsewhere \/ UNCHANGED allVars
    PROVE  GateInv'
<1>1. UNCHANGED payVars /\ UNCHANGED holds
  BY DEF OpenAnAccount, PostElsewhere, OpenAccount, Debit, PostTransaction, allVars, vars
<1>2. ASSUME NEW k \in Key
      PROVE  KeyRests(k)
  <2>1. CASE txns' = txns
    BY <2>1 DEF KeyRests
  <2>2. ASSUME NEW a \in Account, NEW x \in Amount, NEW j \in Key, Debit(a, x, j)
        PROVE  KeyRests(k)
    <3>1. txns \in [Key -> Txn \cup {NoTxn}]
      BY DEF PayInv, PayTypeOK, TypeOK
    <3>2. CASE k = j
      <4>1. Unused(k) /\ txns'[k] = Posted("debit", DebitLegs(a, x), LegsRequest("debit", DebitLegs(a, x)))
        BY <2>2, <3>1, <3>2 DEF Debit, PostTransaction
      <4>2. txns'[k].request = LegsRequest("debit", DebitLegs(a, x))
        BY <4>1 DEF Posted
      <4> QED
        BY <4>1, <4>2 DEF KeyRests, PostedElsewhere
    <3>3. CASE k # j
      BY <2>2, <3>1, <3>3 DEF Debit, PostTransaction, KeyRests
    <3> QED
      BY <3>2, <3>3
  <2> QED
    BY <2>1, <2>2, OtherKeyAssumption DEF OpenAnAccount, PostElsewhere, OpenAccount, allVars, vars
<1>3. \A k \in Key : Rests(k)
  BY <1>1, <1>2, HoldOfOtherRests DEF payVars, Rests, RowRests, HoldsKept
<1>4. \A k \in Key, i \in Instance : LeavesAlone(i, k)
  BY <1>1 DEF payVars, LeavesAlone, HeldBackAt
<1> QED
  BY <1>1, <1>3, <1>4, StepKeepsGate DEF payVars

\* A step of an instance that writes no table and does not stop in between.
LEMMA QuietStepsKeepGate ==
    ASSUME PayInv, GateInv, NEW i \in Instance,
           ReadAssessed(i) \/ ReadExisting(i) \/ CallRail(i) \/ RailTimesOut(i)
    PROVE  GateInv'
<1>1. PayTypeOK /\ i \in Worker /\ i \in Actor /\ i \notin Investigator /\ WorkerIsGated(i)
  BY ActorAssumption DEF PayInv, GateInv, Worker, Actor
<1>2. /\ UNCHANGED <<vars, transfers, assessments, approved, queue, interrupted>>
      /\ step[i] \in {"assessed", "existing", "rail"}
      /\ Done(i) \/ (row' = row /\ \E s : Goto(i, s))
  BY DEF ReadAssessed, ReadExisting, CallRail, RailTimesOut
<1>3. PICK k \in Key : k = row[i] /\ Present(k)
  BY <1>1, <1>2, WorkerAt
<1>4. AtWork(i) /\ assessments[k] \in {"none", "allow", "hold", "block"}
  BY <1>1, <1>2 DEF AtWork, PayTypeOK
<1>5. /\ Settled(k)' <=> Settled(k)
      /\ Claimable(k)' <=> Claimable(k)
      /\ PassedTheGate(k)' <=> PassedTheGate(k)
      /\ MayGoOn(k)' <=> MayGoOn(k)
      /\ HoldIsActive(k)' <=> HoldIsActive(k)
      /\ Present(k)' /\ assessments'[k] = assessments[k] /\ transfers'[k] = transfers[k]
  BY <1>2, <1>3 DEF Settled, Unused, SettlingRequest, SettlingLegs, Claimable, PassedTheGate, MayGoOn,
     HoldIsActive, IsOutboundRow, HoldOf, Present, vars
<1>6. \A y \in Worker \ {i} : step'[y] = step[y] /\ row'[y] = row[y]
  BY <1>1, <1>2, OthersIdle
<1>7. ASSUME k \notin interrupted
      PROVE  KeyIsGated(k)'
  <2>1. KeyIsGated(k) /\ GateAt(step[i], k)
    BY <1>3, <1>7 DEF GateInv, KeyIsGated, ActsByTheGate
  <2>2. \A j \in Instance : ~HeldBackAt(j, k)
    <3>1. \A j \in Instance : WorksOn(j, k) => j = i
      BY <1>3, <1>4, <2>1 DEF KeyIsGated, WorksOn, AtWork
    <3> QED
      BY <1>2, <3>1 DEF HeldBackAt, WorksOn
  <2>3. \A s : s = step'[i] => s \in {"idle", "next"} \/ (row' = row /\ GateAt(s, k)')
    <3>1. CASE ReadAssessed(i)
      <4>1. step[i] = "assessed" /\ row' = row
            /\ step'[i] = IF assessments[k] = "none" THEN "existing" ELSE "rail"
        BY <1>1, <1>3, <3>1 DEF ReadAssessed, Goto, PayTypeOK
      <4>2. MayGoOn(k)
        BY <2>1, <4>1 DEF GateAt
      <4> QED
        BY <1>5, <4>1, <4>2 DEF GateAt, MayGoOn
    <3>2. CASE ReadExisting(i)
      <4>1. step[i] = "existing" /\ assessments[k] = "none"
        BY <2>1, <3>2 DEF GateAt, ReadExisting
      <4>2. row' = row /\ step'[i] = "record"
        BY <1>1, <1>3, <3>2, <4>1 DEF ReadExisting, Goto, PayTypeOK
      <4> QED
        BY <1>5, <4>1, <4>2 DEF GateAt
    <3>3. CASE CallRail(i)
      <4>1. step[i] = "rail" /\ row' = row /\ step'[i] \in {"settle", "releaseRejected", "markFailed"}
        BY <1>1, <3>3 DEF CallRail, Goto, PayTypeOK
      <4>2. PassedTheGate(k)
        BY <2>1, <4>1 DEF GateAt
      <4> QED
        BY <1>5, <4>1, <4>2 DEF GateAt
    <3>4. CASE RailTimesOut(i)
      BY <1>1, <3>4, OthersIdle DEF RailTimesOut
    <3> QED
      BY <3>1, <3>2, <3>3, <3>4
  <2>4. step'[i] \in Steps
    BY <1>2, <1>1, OthersIdle DEF ReadAssessed, ReadExisting, CallRail, RailTimesOut, Steps
  <2>5. /\ Settled(k)' => PassedTheGate(k)'
        /\ Claimable(k)' => MayGoOn(k)'
        /\ assessments'[k] = "none" => HoldIsActive(k)'
    BY <1>3, <1>5, <2>1, <2>2 DEF KeyIsGated
  <2> QED
    BY <1>2, <1>3, <1>4, <1>6, <1>7, <2>3, <2>4, <2>5, OwnRowStaysGated
<1>8. \A l \in Key \ {k} : Rests(l)
  BY <1>2 DEF Rests, RowRests, KeyRests, HoldRests, vars
<1>9. step'[i] # "markHeld"
  BY <1>1, <1>2, OthersIdle DEF ReadAssessed, ReadExisting, CallRail, RailTimesOut
<1>10. transfers'[k].risk = "held" => assessments'[k] = "hold"
  BY <1>3, <1>5 DEF GateInv, RowIsAssessed
<1> QED
  BY <1>2, <1>3, <1>4, <1>5, <1>7, <1>8, <1>9, <1>10, OneRowKeepsGate

\* An instance that stops, between two statements or for good: every row rests,
\* and one whose refusal it was carrying out is interrupted.
LEMMA StoppingKeepsGate ==
    ASSUME PayInv, GateInv, NEW x \in Worker, FailStatement(x) \/ (x \in Instance /\ Restart(x))
    PROVE  GateInv'
<1>1. PayTypeOK /\ x \in Actor
  BY DEF PayInv, Worker, Actor
<1>2. UNCHANGED <<vars, transfers, assessments, approved>> /\ Interrupt(x)
  BY DEF FailStatement, Restart
<1>3. /\ \A y \in Worker \ {x} : step'[y] = step[y] /\ row'[y] = row[y]
      /\ step'[x] \in {"idle", "next"}
      /\ \A i \in Instance : queue'[i] \subseteq queue[i] /\ (i # x => queue'[i] = queue[i])
  <2>1. CASE FailStatement(x)
    BY <2>1, OthersIdle DEF FailStatement
  <2>2. CASE x \in Instance /\ Restart(x)
    BY <1>1, <2>2 DEF Restart, PayTypeOK, Worker, Actor
  <2> QED
    BY <2>1, <2>2
<1>4. interrupted \subseteq interrupted'
  BY <1>2 DEF Interrupt
<1>5. \A k \in Key : Rests(k)
  BY <1>2 DEF Rests, RowRests, KeyRests, HoldRests, vars
<1>6. ASSUME NEW k \in Key, k \notin interrupted', NEW i \in Instance
      PROVE  LeavesAlone(i, k)
  <2>1. CASE i # x
    BY <1>3, <2>1 DEF LeavesAlone, HeldBackAt, Worker
  <2>2. CASE i = x
    <3>1. ~HeldBackAt(i, k)
      BY <1>2, <1>6, <2>2 DEF HeldBackAt, Interrupt
    <3> QED
      BY <1>3, <2>2, <3>1 DEF LeavesAlone, AtWork
  <2> QED
    BY <2>1, <2>2
<1>7. WorkerIsGated(x)'
  BY <1>3 DEF WorkerIsGated, AtWork
<1> QED
  BY <1>2, <1>3, <1>4, <1>5, <1>6, <1>7, StepKeepsGate

\* The instance takes a row of its batch.
LEMMA TakingKeepsGate ==
    ASSUME PayInv, GateInv, NEW i \in Instance, TakeRow(i)
    PROVE  GateInv'
<1>1. PayTypeOK /\ i \in Worker /\ i \in Actor /\ i \notin Investigator /\ step[i] = "next"
  BY ActorAssumption DEF PayInv, Worker, Actor, TakeRow
<1>2. PICK k \in queue[i] : row' = [row EXCEPT ![i] = k] /\ queue' = [queue EXCEPT ![i] = @ \ {k}]
  BY DEF TakeRow
<1>3. /\ k \in Key /\ row'[i] = k /\ queue'[i] = queue[i] \ {k} /\ step'[i] = "assessed"
      /\ \A y \in Worker \ {i} : step'[y] = step[y] /\ row'[y] = row[y]
      /\ \A j \in Instance \ {i} : queue'[j] = queue[j]
  BY <1>1, <1>2 DEF TakeRow, Goto, PayTypeOK, Worker, Actor
<1>4. UNCHANGED <<vars, transfers, assessments, approved, interrupted>>
  BY DEF TakeRow
<1>5. \A l \in Key : Rests(l)
  BY <1>4 DEF Rests, RowRests, KeyRests, HoldRests, vars
<1>6. ASSUME NEW l \in Key \ {k}, NEW j \in Instance
      PROVE  LeavesAlone(j, l)
  BY <1>1, <1>3 DEF LeavesAlone, HeldBackAt, Worker
<1>7. ASSUME k \notin interrupted
      PROVE  KeyIsGated(k)'
  <2>1. KeyIsGated(k) /\ MayGoOn(k) /\ WorksOn(i, k)
    BY <1>2, <1>3, <1>7 DEF GateInv, KeyIsGated, ActsByTheGate, WorksOn
  <2>2. ASSUME NEW j \in Instance \ {i}
        PROVE  ~WorksOn(j, k)' /\ ActsByTheGate(j, k)'
    <3>1. ~WorksOn(j, k) /\ step'[j] = step[j] /\ row'[j] = row[j] /\ queue'[j] = queue[j]
      BY <1>3, <2>1 DEF KeyIsGated, Worker
    <3>2. row'[j] = k => step'[j] \in {"idle", "next"}
      BY <3>1 DEF WorksOn
    <3> QED
      BY <3>1, <3>2 DEF WorksOn, ActsByTheGate, GateAt
  <2>3. MayGoOn(k)' /\ ActsByTheGate(i, k)'
    BY <1>3, <1>4, <2>1 DEF MayGoOn, PassedTheGate, ActsByTheGate, GateAt
  <2>4. /\ Present(k)' /\ Settled(k)' => PassedTheGate(k)'
        /\ Present(k)' /\ assessments'[k] = "none" => HoldIsActive(k)'
    BY <1>4, <2>1 DEF KeyIsGated, Present, Settled, Unused, SettlingRequest, SettlingLegs, PassedTheGate,
       HoldIsActive, IsOutboundRow, HoldOf, vars
  <2> QED
    BY <2>2, <2>3, <2>4 DEF KeyIsGated
<1>8. WorkerIsGated(i)'
  BY <1>1, <1>3 DEF WorkerIsGated
<1>9. RowIsAssessed(k)'
  BY <1>3, <1>5, RestingIsGated DEF GateInv
<1>10. \A l \in Key : assessments'[l] = assessments[l]
  BY <1>4
<1> QED
  BY <1>3, <1>4, <1>5, <1>6, <1>7, <1>8, <1>9, <1>10, StepKeepsGate

\* A claim takes rows that nobody is at work on, or interrupts who is.
LEMMA ClaimKeepsGate ==
    ASSUME PayInv, GateInv, NEW i \in Instance, NEW batch \in SUBSET Key, Claim(i, batch)
    PROVE  GateInv'
<1>1. PayTypeOK /\ i \in Worker /\ i \in Actor /\ i \notin Investigator /\ step[i] = "idle"
  BY ActorAssumption DEF PayInv, Worker, Actor, Claim
<1>2. /\ step'[i] = "next" /\ queue'[i] = batch /\ row' = row
      /\ \A y \in Worker \ {i} : step'[y] = step[y]
      /\ \A j \in Instance \ {i} : queue'[j] = queue[j]
  BY <1>1 DEF Claim, Goto, PayTypeOK, Worker, Actor
<1>3. UNCHANGED <<vars, assessments, approved>> /\ interrupted \subseteq interrupted'
  BY DEF Claim
<1>4. \A k \in batch : Claimable(k) /\ (k \in interrupted' \/ \A j \in Instance : ~WorksOn(j, k))
  BY DEF Claim, Claimable, Pending, Processing
<1>5. ASSUME NEW k \in Key \ batch
      PROVE  Rests(k) /\ \A j \in Instance : LeavesAlone(j, k)
  <2>1. Rests(k)
    BY <1>3, <1>5 DEF Claim, Rests, RowRests, KeyRests, HoldRests, vars
  <2>2. \A j \in Instance : LeavesAlone(j, k)
    BY <1>1, <1>2, <1>5 DEF LeavesAlone, HeldBackAt, Worker, AtWork
  <2> QED
    BY <2>1, <2>2
<1>6. ASSUME NEW k \in batch
      PROVE  RowIsAssessed(k)' /\ (k \in interrupted' \/ KeyIsGated(k)')
  <2>1. k \in Key /\ RowIsAssessed(k)
    BY DEF GateInv
  <2>2. /\ transfers[k] \in TransferRow /\ Present(k)
        /\ transfers'[k] = [transfers[k] EXCEPT !.status = "processing"]
    <3>1. transfers[k].status # "absent"
      BY <1>4, <1>6 DEF Claimable
    <3> QED
      BY <1>1, <2>1, <3>1, TransferRowTyped DEF Claim
  <2>3. /\ transfers'[k].status = "processing" /\ transfers'[k].risk = transfers[k].risk
        /\ transfers'[k].request = transfers[k].request /\ transfers'[k].hold = transfers[k].hold
    BY <2>2 DEF TransferRow
  <2>4. Present(k)'
    BY <2>3 DEF Present, NoTransfer
  <2>5. RowIsAssessed(k)'
    BY <1>3, <2>1, <2>2, <2>3, <2>4 DEF RowIsAssessed
  <2>6. ASSUME k \notin interrupted'
        PROVE  KeyIsGated(k)'
    <3>1. KeyIsGated(k) /\ \A j \in Instance : ~WorksOn(j, k)
      BY <1>3, <1>4, <1>6, <2>1, <2>6 DEF GateInv
    <3>2. MayGoOn(k)
      BY <1>4, <1>6, <3>1 DEF KeyIsGated, HeldBackAt, WorksOn
    <3>3. MayGoOn(k)' /\ (PassedTheGate(k)' <=> PassedTheGate(k))
      BY <1>3, <3>2 DEF MayGoOn, PassedTheGate
    <3>4. Settled(k)' <=> Settled(k)
      BY <1>3, <2>3 DEF Settled, Unused, SettlingRequest, SettlingLegs, vars
    <3>5. HoldIsActive(k) => HoldIsActive(k)'
      BY <1>1, <1>3, <2>1, <2>2, <2>3, TransferRowTyped DEF HoldIsActive, IsOutboundRow, HoldOf, vars
    <3>6. ASSUME NEW j \in Instance
          PROVE  ActsByTheGate(j, k)' /\ (WorksOn(j, k)' => j = i)
      <4>1. row'[j] = k => step'[j] \in {"idle", "next"}
        BY <1>2, <3>1 DEF WorksOn, Worker
      <4>2. j # i => k \notin queue'[j]
        BY <1>2, <3>1 DEF WorksOn
      <4> QED
        BY <3>3, <4>1, <4>2 DEF ActsByTheGate, GateAt, WorksOn
    <3>7. /\ Present(k)' /\ Settled(k)' => PassedTheGate(k)'
          /\ Present(k)' /\ assessments'[k] = "none" => HoldIsActive(k)'
      BY <1>3, <2>2, <3>1, <3>3, <3>4, <3>5 DEF KeyIsGated
    <3> QED
      BY <3>3, <3>6, <3>7 DEF KeyIsGated
  <2> QED
    BY <2>5, <2>6
<1>7. WorkerIsGated(i)'
  BY <1>2 DEF WorkerIsGated, AtWork
<1>8. \A l \in Key : assessments'[l] = assessments[l]
  BY <1>3
<1> QED
  BY <1>2, <1>3, <1>5, <1>6, <1>7, <1>8, StepKeepsGate

\* A decision is recorded about a row nobody else has touched.
LEMMA RecordKeepsGate ==
    ASSUME PayInv, GateInv, NEW i \in Instance, RecordAssessment(i)
    PROVE  GateInv'
<1>1. PayTypeOK /\ i \in Worker /\ i \in Actor /\ step[i] = "record" /\ AtWork(i)
  BY DEF PayInv, Worker, Actor, RecordAssessment, AtWork
<1>2. PICK k \in Key : k = row[i] /\ Present(k) /\ (IsOutbound(i) <=> IsOutboundRow(k))
  BY <1>1, WorkerAt
<1>3. UNCHANGED <<vars, transfers, approved, queue, interrupted>>
  BY DEF RecordAssessment
<1>4. RowIsAssessed(k) /\ (k \in interrupted \/ KeyIsGated(k))
  BY DEF GateInv
<1>5. CASE assessments[k] # "none"
  <2>1. Done(i) /\ assessments' = assessments
    BY <1>2, <1>5 DEF RecordAssessment
  <2>2. \A l \in Key : Rests(l)
    BY <1>3, <2>1 DEF Rests, RowRests, KeyRests, HoldRests, vars
  <2>3. k \in interrupted
    BY <1>1, <1>2, <1>4, <1>5 DEF KeyIsGated, ActsByTheGate, GateAt
  <2>4. step'[i] # "markHeld" /\ Present(k)' /\ (transfers'[k].risk = "held" => assessments'[k] = "hold")
    BY <1>1, <1>2, <1>3, <1>4, <2>1, OthersIdle DEF RowIsAssessed, Present
  <2> QED
    BY <1>1, <1>2, <1>3, <2>1, <2>2, <2>3, <2>4, OneRowKeepsGate
<1>6. CASE assessments[k] = "none"
  <2>1. PICK decision \in Decisions : /\ assessments' = [assessments EXCEPT ![k] = decision]
                                      /\ Goto(i, Apply(i, decision)) /\ row' = row
    BY <1>2, <1>6 DEF RecordAssessment
  <2>2. assessments'[k] = decision /\ \A l \in Key \ {k} : assessments'[l] = assessments[l]
    BY <1>1, <2>1 DEF PayTypeOK
  <2>3. /\ step'[i] = Apply(i, decision)
        /\ \A y \in Worker \ {i} : step'[y] = step[y] /\ row'[y] = row[y]
    BY <1>1, <2>1, OthersIdle
  <2>4. /\ decision = "allow" => step'[i] = "rail"
        /\ decision = "hold" => step'[i] = "markHeld"
        /\ decision = "block" => step'[i] \in {"releaseBlocked", "markBlocked"}
        /\ decision \in {"allow", "hold", "block"}
        /\ step'[i] \in {"rail", "markHeld", "releaseBlocked", "markBlocked"} \cap Steps
    BY <2>3, DecisionsAssumption DEF Apply, Steps
  <2>5. \A l \in Key \ {k} : Rests(l)
    BY <1>3, <2>2 DEF Rests, RowRests, KeyRests, HoldRests, vars
  <2>6. Present(k)' /\ transfers'[k].risk # "held"
    BY <1>2, <1>3, <1>4, <1>6 DEF RowIsAssessed, Present
  <2>7. ASSUME k \notin interrupted
        PROVE  KeyIsGated(k)'
    <3>1. HoldIsActive(k)' /\ ~Settled(k)'
      BY <1>2, <1>3, <1>4, <1>6, <2>7 DEF KeyIsGated, HoldIsActive, IsOutboundRow, HoldOf, PassedTheGate,
         Settled, Unused, SettlingRequest, SettlingLegs, vars
    <3>2. MayGoOn(k)' \/ HeldBackAt(i, k)'
      BY <1>2, <2>1, <2>2, <2>4 DEF MayGoOn, PassedTheGate, HeldBackAt
    <3>3. PICK s \in Steps : s = step'[i]
      BY <2>4
    <3>4. GateAt(s, k)'
      BY <2>2, <2>4, <3>1, <3>3 DEF GateAt, PassedTheGate
    <3> QED
      BY <1>1, <1>2, <1>3, <2>1, <2>3, <2>7, <3>1, <3>2, <3>3, <3>4, OwnRowStaysGated
  <2>8. step'[i] = "markHeld" => assessments'[k] = "hold"
    BY <2>2, <2>4
  <2> QED
    BY <1>1, <1>2, <1>3, <1>6, <2>1, <2>5, <2>6, <2>7, <2>8, OneRowKeepsGate
<1> QED
  BY <1>5, <1>6

\* An UPDATE of a row changes its status and risk, and nothing that settles it.
LEMMA UpdateOfRow ==
    ASSUME PayInv, NEW x \in Worker, AtWork(x), NEW s, NEW r, Update(x, s, r),
           UNCHANGED <<vars, assessments, approved>>
    PROVE  \E k \in Key :
             /\ k = row[x] /\ Present(k) /\ transfers'[k].status = s /\ transfers'[k].risk = r
             /\ s # "absent" => Present(k)'
             /\ Settled(k)' <=> Settled(k)
             /\ \A l \in Key \ {k} : Rests(l)
             /\ assessments'[k] = assessments[k]
<1>1. PICK k \in Key : k = row[x] /\ Present(k) /\ transfers[k] \in TransferRow
  BY WorkerAt DEF Row, AtWork
<1>2. /\ transfers'[k] = [transfers[k] EXCEPT !.status = s, !.risk = r]
      /\ \A l \in Key \ {k} : transfers'[l] = transfers[l]
  BY <1>1 DEF Update, PayInv, PayTypeOK
<1>3. /\ transfers'[k].status = s /\ transfers'[k].risk = r
      /\ transfers'[k].request = transfers[k].request /\ transfers'[k].hold = transfers[k].hold
  BY <1>1, <1>2 DEF TransferRow
<1>4. s # "absent" => Present(k)'
  BY <1>3 DEF Present, NoTransfer
<1>5. Settled(k)' <=> Settled(k)
  BY <1>3 DEF Settled, Unused, SettlingRequest, SettlingLegs, vars
<1>6. \A l \in Key \ {k} : Rests(l)
  BY <1>2 DEF Rests, RowRests, KeyRests, HoldRests, vars
<1> QED
  BY <1>1, <1>3, <1>4, <1>5, <1>6

\* The row is told what has been decided or done: it can be claimed again only
\* once it may go on.
LEMMA UpdatesKeepGate ==
    ASSUME PayInv, GateInv, NEW i \in Instance,
           MarkHeld(i) \/ RevertToPending(i) \/ MarkBlocked(i) \/ MarkFailed(i) \/ MarkCompleted(i)
    PROVE  GateInv'
<1>1. PayTypeOK /\ WorkerIsGated(i) /\ i \in Worker /\ i \in Actor
  BY DEF PayInv, GateInv, Worker, Actor
<1>2. step[i] \in {"markHeld", "unclaim", "markBlocked", "markFailed", "markCompleted"} /\ AtWork(i)
  BY DEF MarkHeld, RevertToPending, MarkBlocked, MarkFailed, MarkCompleted, AtWork
<1>3. UNCHANGED <<vars, assessments, approved, queue, interrupted>>
  BY DEF MarkHeld, RevertToPending, MarkBlocked, MarkFailed, MarkCompleted
<1>4. PICK s, r :
        /\ Update(i, s, r)
        /\ step[i] = "markHeld" => s = Row(i).status /\ r = "held"
        /\ step[i] = "unclaim" => s = "pending" /\ r = Row(i).risk
        /\ step[i] = "markBlocked" => s = "failed" /\ r = "blocked"
        /\ step[i] \in {"markFailed", "markCompleted"} => s \in {"failed", "completed"} /\ r = Row(i).risk
  BY DEF MarkHeld, RevertToPending, MarkBlocked, MarkFailed, MarkCompleted
<1>5. Row(i) \in TransferRow
  BY <1>1, <1>2, WorkerAt
<1>6. s # "absent"
  BY <1>2, <1>4, <1>5 DEF TransferRow
<1>7. PICK k \in Key :
        /\ k = row[i] /\ Present(k) /\ transfers'[k].status = s /\ transfers'[k].risk = r
        /\ Present(k)'
        /\ Settled(k)' <=> Settled(k)
        /\ \A l \in Key \ {k} : Rests(l)
        /\ assessments'[k] = assessments[k]
  BY <1>1, <1>2, <1>3, <1>4, <1>6, UpdateOfRow
<1>8. RowIsAssessed(k) /\ (k \in interrupted \/ KeyIsGated(k))
  BY <1>7 DEF GateInv
<1>9. step[i] = "markHeld" => assessments[k] = "hold"
  BY <1>2, <1>1, <1>7 DEF WorkerIsGated
<1>10. r = "held" => assessments[k] = "hold"
  BY <1>2, <1>4, <1>7, <1>8, <1>9 DEF RowIsAssessed, Row
<1>11. Done(i) \/ (row' = row /\ Goto(i, "unclaim") /\ step[i] = "markHeld")
  BY DEF MarkHeld, RevertToPending, MarkBlocked, MarkFailed, MarkCompleted
<1>12. step[i] = "markHeld" => row' = row /\ Goto(i, "unclaim")
  BY <1>2 DEF MarkHeld, RevertToPending, MarkBlocked, MarkFailed, MarkCompleted
<1>13. /\ \A y \in Worker \ {i} : step'[y] = step[y] /\ row'[y] = row[y]
       /\ step'[i] \in {"idle", "next", "unclaim"} /\ step'[i] \in Steps
       /\ step[i] = "markHeld" => step'[i] = "unclaim"
       /\ step'[i] = "unclaim" => step[i] = "markHeld"
  BY <1>1, <1>11, <1>12, OthersIdle DEF Steps
<1>14. ASSUME k \notin interrupted
       PROVE  KeyIsGated(k)'
  <2>1. KeyIsGated(k) /\ GateAt(step[i], k)
    BY <1>7, <1>8, <1>14 DEF KeyIsGated, ActsByTheGate
  <2>2. (PassedTheGate(k)' <=> PassedTheGate(k)) /\ (MayGoOn(k)' <=> MayGoOn(k))
    BY <1>3 DEF PassedTheGate, MayGoOn
  <2>3. assessments'[k] # "none"
    BY <1>2, <1>7, <2>1 DEF GateAt, PassedTheGate
  <2>4. Claimable(k)' => MayGoOn(k)' \/ HeldBackAt(i, k)'
    <3>1. CASE step[i] = "markHeld"
      BY <1>7, <1>12, <1>13, <3>1 DEF HeldBackAt
    <3>2. CASE step[i] # "markHeld"
      <4>1. Claimable(k)' => s = "pending" /\ r = "clear" /\ step[i] = "unclaim"
        BY <1>2, <1>4, <1>7, <3>2 DEF Claimable
      <4>2. step[i] = "unclaim" /\ r = "clear" => PassedTheGate(k)
        BY <1>4, <1>7, <2>1 DEF GateAt, Row, PassedTheGate
      <4> QED
        BY <2>2, <4>1, <4>2 DEF MayGoOn
    <3> QED
      BY <3>1, <3>2
  <2>5. Settled(k)' => PassedTheGate(k)'
    BY <1>7, <2>1, <2>2 DEF KeyIsGated
  <2>6. ASSUME NEW t \in Steps, t = step'[i]
        PROVE  t \in {"idle", "next"} \/ (row' = row /\ GateAt(t, k)')
    <3>1. CASE step[i] = "markHeld"
      <4>1. r = "held" /\ t = "unclaim" /\ row' = row
        BY <1>4, <1>12, <1>13, <2>6, <3>1
      <4> QED
        BY <1>7, <1>9, <3>1, <4>1 DEF GateAt
    <3>2. CASE step[i] # "markHeld"
      BY <1>13, <2>6, <3>2
    <3> QED
      BY <3>1, <3>2
  <2> QED
    BY <1>2, <1>3, <1>7, <1>13, <1>14, <2>3, <2>4, <2>5, <2>6, OwnRowStaysGated
<1>15. Done(i) \/ (row' = row /\ \E t : Goto(i, t))
  BY <1>11
<1> QED
  BY <1>2, <1>3, <1>7, <1>10, <1>13, <1>14, <1>15, OneRowKeepsGate

\* A row's hold is ended by its own release or capture alone.
LEMMA EndingOneHold ==
    ASSUME PayInv, NEW k \in Key, IsOutboundRow(k), ReleaseHold(HoldOf(k)) \/ CaptureHold(HoldOf(k), k)
    PROVE  \A l \in Key \ {k} : KeyRests(l) /\ HoldRests(l)
<1>1. ASSUME NEW l \in Key \ {k}
      PROVE  KeyRests(l) /\ HoldRests(l)
  <2>1. txns'[l] = txns[l]
    BY DEF PayInv, PayTypeOK, TypeOK, ReleaseHold, CaptureHold
  <2>2. CASE IsOutboundRow(l)
    <3>1. HoldOf(l) \in HoldId /\ HoldOf(l) # HoldOf(k)
      BY <2>2 DEF PayInv, RowsInv, RowIsHonest, HoldsDiffer
    <3>2. holds'[HoldOf(l)] = holds[HoldOf(l)]
      BY <3>1 DEF PayInv, PayTypeOK, TypeOK, ReleaseHold, CaptureHold, ResolveHold
    <3> QED
      BY <2>1, <3>2 DEF KeyRests, HoldRests
  <2>3. CASE ~IsOutboundRow(l)
    BY <2>1, <2>3 DEF KeyRests, HoldRests
  <2> QED
    BY <2>2, <2>3
<1> QED
  BY <1>1

\* The hold of a refused or rejected row is given back, and money moves for a
\* row that has passed.
LEMMA LedgerStepsKeepGate ==
    ASSUME PayInv, GateInv, NEW i \in Instance, ReleaseBlocked(i) \/ ReleaseRejected(i) \/ Settle(i)
    PROVE  GateInv'
<1>1. PayTypeOK /\ i \in Worker /\ i \in Actor
  BY DEF PayInv, Worker, Actor
<1>2. step[i] \in {"releaseBlocked", "releaseRejected", "settle"} /\ AtWork(i)
  BY DEF ReleaseBlocked, ReleaseRejected, Settle, AtWork
<1>3. UNCHANGED <<transfers, assessments, approved, queue, interrupted>>
  BY DEF ReleaseBlocked, ReleaseRejected, Settle
<1>4. PICK k \in Key : /\ k = row[i] /\ Present(k) /\ HoldOf(k) = Row(i).hold
                       /\ IsOutbound(i) <=> IsOutboundRow(k)
                       /\ step[i] # "settle" => IsOutboundRow(k)
  BY <1>1, <1>2, WorkerAt DEF KnowsAt, HoldOf, Row
<1>5. RowIsAssessed(k) /\ (k \in interrupted \/ KeyIsGated(k))
  BY <1>4 DEF GateInv
<1>6. \A l \in Key \ {k} : Rests(l)
  <2>1. \A l \in Key : RowRests(l)
    BY <1>3 DEF RowRests
  <2>2. CASE UNCHANGED vars
    BY <2>1, <2>2 DEF Rests, KeyRests, HoldRests, vars
  <2>3. CASE IsOutboundRow(k) /\ (ReleaseHold(Row(i).hold) \/ CaptureHold(Row(i).hold, row[i]))
    BY <1>4, <2>1, <2>3, EndingOneHold DEF Rests
  <2>4. CASE Credit(Wanted(i).account, Wanted(i).amount, row[i])
    BY <1>1, <1>4, <2>1, <2>4 DEF Credit, PostTransaction, Rests, KeyRests, HoldRests, PayTypeOK, TypeOK
  <2> QED
    BY <1>4, <2>2, <2>3, <2>4 DEF Settle, ReleaseBlocked, ReleaseRejected, ReleaseRowHold
<1>7. /\ Present(k)' /\ (Claimable(k)' <=> Claimable(k))
      /\ PassedTheGate(k)' <=> PassedTheGate(k)
      /\ transfers'[k].risk = "held" => assessments'[k] = "hold"
  BY <1>3, <1>4, <1>5 DEF Present, Claimable, PassedTheGate, RowIsAssessed
<1>8. Done(i) \/ (row' = row /\ \E s \in {"markBlocked", "markFailed", "markCompleted"} : Goto(i, s))
  BY DEF ReleaseBlocked, ReleaseRejected, ReleaseRowHold, Settle
<1>9. /\ \A y \in Worker \ {i} : step'[y] = step[y] /\ row'[y] = row[y]
      /\ step'[i] \in {"idle", "next", "markBlocked", "markFailed", "markCompleted"}
      /\ step'[i] # "markHeld" /\ step'[i] \in Steps
  BY <1>1, <1>8, OthersIdle DEF Steps
<1>10. ASSUME k \notin interrupted
       PROVE  KeyIsGated(k)'
  <2>1. KeyIsGated(k) /\ GateAt(step[i], k)
    BY <1>4, <1>5, <1>10 DEF KeyIsGated, ActsByTheGate
  <2>2. assessments'[k] # "none"
    BY <1>2, <1>3, <2>1 DEF GateAt, PassedTheGate
  <2>3. CASE PassedTheGate(k)
    <3>1. step[i] # "releaseBlocked"
      BY <2>1, <2>3 DEF GateAt, PassedTheGate
    <3>2. step'[i] # "markBlocked"
      BY <1>1, <1>9, <3>1, OthersIdle DEF ReleaseBlocked, ReleaseRejected, ReleaseRowHold, Settle
    <3>3. \A s \in Steps : s = step'[i] => s \in {"idle", "next"} \/ (row' = row /\ GateAt(s, k)')
      BY <1>1, <1>7, <1>8, <1>9, <2>3, <3>2, OthersIdle DEF GateAt
    <3> QED
      BY <1>2, <1>3, <1>4, <1>7, <1>9, <1>10, <2>2, <2>3, <3>3, OwnRowStaysGated DEF MayGoOn
  <2>4. CASE ~PassedTheGate(k)
    <3>1. step[i] = "releaseBlocked" /\ assessments[k] = "block" /\ holds[Row(i).hold].status = "active"
      BY <1>2, <1>4, <2>1, <2>4 DEF GateAt, HoldIsActive
    <3>2. Goto(i, "markBlocked") /\ row' = row /\ txns' = txns
      BY <3>1 DEF ReleaseBlocked, ReleaseRejected, Settle, ReleaseRowHold, ReleaseHold
    <3>3. step'[i] = "markBlocked"
      BY <1>1, <3>2, OthersIdle
    <3>4. \A s \in Steps : s = step'[i] => s \in {"idle", "next"} \/ (row' = row /\ GateAt(s, k)')
      BY <1>3, <3>1, <3>2, <3>3 DEF GateAt
    <3>5. HeldBackAt(i, k)' /\ (Settled(k)' <=> Settled(k))
      BY <1>3, <1>4, <3>2, <3>3 DEF HeldBackAt, Settled, Unused, SettlingRequest, SettlingLegs
    <3>6. Settled(k)' => PassedTheGate(k)'
      BY <1>4, <1>7, <2>1, <3>5 DEF KeyIsGated
    <3> QED
      BY <1>2, <1>3, <1>4, <1>9, <1>10, <2>2, <3>4, <3>5, <3>6, OwnRowStaysGated
  <2> QED
    BY <2>3, <2>4
<1> QED
  BY <1>2, <1>3, <1>4, <1>6, <1>7, <1>8, <1>9, <1>10, OneRowKeepsGate

\* An investigator decides about a row whose assessment held it.
LEMMA InvestigatorKeepsGate ==
    ASSUME PayInv, GateInv, NEW x \in Investigator, NEW k \in Key, Present(k), assessments[k] = "hold",
           UNCHANGED <<assessments, queue, txns, interrupted>>, approved \subseteq approved',
           \A y \in Worker \ {x} : step'[y] = step[y] /\ row'[y] = row[y],
           \A l \in Key \ {k} : Rests(l),
           Present(k)', Settled(k)' <=> Settled(k),
           Claimable(k)' => Claimable(k) \/ k \in approved',
           transfers[k].risk # "clear" => transfers'[k].risk # "clear" \/ k \in approved',
           WorkerIsGated(x)'
    PROVE  GateInv'
<1>1. \A i \in Instance : i \in Worker \ {x}
  BY ActorAssumption DEF Worker
<1>2. /\ PassedTheGate(k) <=> k \in approved
      /\ MayGoOn(k) <=> k \in approved
      /\ PassedTheGate(k)' <=> k \in approved'
      /\ MayGoOn(k)' <=> k \in approved'
  BY DEF MayGoOn, PassedTheGate
<1>3. \A i \in Instance, l \in Key : /\ LeavesAlone(i, l)
                                     /\ HeldBackAt(i, l)' <=> HeldBackAt(i, l)
                                     /\ WorksOn(i, l)' <=> WorksOn(i, l)
  BY <1>1 DEF LeavesAlone, HeldBackAt, WorksOn
<1>4. ASSUME k \notin interrupted
      PROVE  KeyIsGated(k)'
  <2>1. KeyIsGated(k)
    BY <1>4 DEF GateInv
  <2>2. ASSUME NEW i \in Instance
        PROVE  ActsByTheGate(i, k)'
    <3>1. step'[i] = step[i] /\ row'[i] = row[i] /\ queue'[i] = queue[i] /\ ActsByTheGate(i, k)
      BY <1>1, <2>1 DEF KeyIsGated
    <3>2. ASSUME NEW s, GateAt(s, k)
          PROVE  GateAt(s, k)'
      <4>1. s \notin {"existing", "record", "releaseBlocked", "markBlocked"}
        BY <3>2 DEF GateAt
      <4> QED
        BY <1>2, <3>2, <4>1 DEF GateAt
    <3>3. PICK s : s = step[i]
      OBVIOUS
    <3>4. row[i] = k => GateAt(s, k)'
      BY <3>1, <3>2, <3>3 DEF ActsByTheGate
    <3>5. row'[i] = k => GateAt(step[i], k)'
      <4>1. step'[i] = s
        BY <3>1, <3>3
      <4> QED
        BY <3>1, <3>4, <4>1 DEF GateAt, MayGoOn, PassedTheGate, HoldIsActive, IsOutboundRow, HoldOf
    <3> QED
      BY <1>2, <3>1, <3>5 DEF ActsByTheGate
  <2>3. Claimable(k)' => MayGoOn(k)' \/ \E i \in Instance : HeldBackAt(i, k)'
    BY <1>2, <1>3, <2>1 DEF KeyIsGated
  <2> QED
    BY <1>2, <1>3, <2>1, <2>2, <2>3 DEF KeyIsGated
<1>5. RowIsAssessed(k)'
  BY DEF RowIsAssessed
<1>6. \A y \in Worker : \/ step'[y] = step[y] /\ row'[y] = row[y] /\ (y \in Instance => queue'[y] = queue[y])
                        \/ WorkerIsGated(y)'
  OBVIOUS
<1>7. \A l \in Key : \/ Rests(l) /\ (l \in interrupted' \/ \A j \in Instance : LeavesAlone(j, l))
                     \/ RowIsAssessed(l)' /\ (l \in interrupted' \/ KeyIsGated(l)')
  BY <1>3, <1>4, <1>5
<1> QED
  BY <1>6, <1>7, StepKeepsGate

\* Approving clears a held row; blocking takes one to release and fail.
LEMMA DecidingKeepsGate ==
    ASSUME PayInv, GateInv, NEW x \in Investigator, NEW k \in Key, Approve(x, k) \/ Block(x, k)
    PROVE  GateInv'
<1>1. PayTypeOK /\ RowIsAssessed(k) /\ x \in Worker /\ Worker \subseteq Actor /\ x \notin Instance
  BY ActorAssumption DEF PayInv, GateInv, Worker, Actor
<1>2. Present(k) /\ transfers[k] \in TransferRow /\ assessments[k] = "hold" /\ transfers[k].risk = "held"
  BY <1>1, TransferRowTyped DEF Approve, Block, RowIsAssessed
<1>3. UNCHANGED <<vars, assessments, queue, interrupted>> /\ approved \subseteq approved' /\ step[x] = "idle"
  BY DEF Approve, Block
<1>4. txns' = txns /\ holds' = holds
  BY <1>3 DEF vars
<1>5. CASE Approve(x, k)
  <2>1. /\ transfers'[k] = [transfers[k] EXCEPT !.risk = "clear"]
        /\ \A l \in Key \ {k} : transfers'[l] = transfers[l]
    BY <1>1, <1>5 DEF Approve, PayTypeOK
  <2>2. transfers'[k].request = transfers[k].request /\ transfers'[k].hold = transfers[k].hold
        /\ transfers'[k].status = transfers[k].status
    BY <1>2, <2>1 DEF TransferRow
  <2>3. \A l \in Key \ {k} : Rests(l)
    BY <1>3, <1>4, <2>1 DEF Rests, RowRests, KeyRests, HoldRests
  <2>4. Present(k)' /\ (Settled(k)' <=> Settled(k))
    BY <1>2, <1>4, <2>2 DEF Present, NoTransfer, TransferRow, Settled, Unused, SettlingRequest, SettlingLegs
  <2>5. k \in approved' /\ step' = step /\ row' = row
    BY <1>5 DEF Approve
  <2>6. WorkerIsGated(x)'
    BY <1>3, <2>5 DEF WorkerIsGated, AtWork
  <2> QED
    BY <1>2, <1>3, <1>4, <2>3, <2>4, <2>5, <2>6, InvestigatorKeepsGate
<1>6. CASE Block(x, k)
  <2>1. transfers' = transfers /\ row' = [row EXCEPT ![x] = k]
        /\ \E s : step' = [step EXCEPT ![x] = s]
    BY <1>6 DEF Block, Goto
  <2>2. \A l \in Key : Rests(l)
    BY <1>3, <1>4, <2>1 DEF Rests, RowRests, KeyRests, HoldRests
  <2>3. Present(k)' /\ (Settled(k)' <=> Settled(k)) /\ (Claimable(k)' <=> Claimable(k))
    BY <1>2, <1>4, <2>1 DEF Present, Settled, Unused, SettlingRequest, SettlingLegs, Claimable
  <2>4. row'[x] = k /\ \A y \in Worker \ {x} : step'[y] = step[y] /\ row'[y] = row[y]
    BY <1>1, <2>1 DEF PayTypeOK, Worker, Actor
  <2>5. WorkerIsGated(x)'
    BY <1>1, <1>2, <1>3, <2>4 DEF WorkerIsGated
  <2> QED
    BY <1>2, <1>3, <1>4, <2>1, <2>2, <2>3, <2>4, <2>5, InvestigatorKeepsGate
<1> QED
  BY <1>5, <1>6

\* What the investigator blocks was held.
LEMMA BlockingKeepsGate ==
    ASSUME PayInv, GateInv, NEW x \in Investigator, ReleaseBlocked(x) \/ MarkBlocked(x)
    PROVE  GateInv'
<1>1. PayTypeOK /\ x \in Worker /\ x \in Actor /\ WorkerIsGated(x) /\ x \notin Instance
  BY ActorAssumption DEF PayInv, GateInv, Worker, Actor
<1>2. /\ step[x] \in {"releaseBlocked", "markBlocked"} /\ AtWork(x)
      /\ UNCHANGED <<assessments, approved, queue, interrupted>>
  BY DEF ReleaseBlocked, MarkBlocked, AtWork
<1>3. PICK k \in Key : k = row[x] /\ Present(k) /\ HoldOf(k) = Row(x).hold /\ assessments[k] = "hold"
  BY <1>1, <1>2, WorkerAt DEF HoldOf, Row, WorkerIsGated
<1>4. txns' = txns
  BY DEF ReleaseBlocked, MarkBlocked, ReleaseRowHold, ReleaseHold, vars
<1>5. Done(x) \/ (row' = row /\ \E s : Goto(x, s))
  BY DEF ReleaseBlocked, MarkBlocked, ReleaseRowHold
<1>6. \A y \in Worker \ {x} : step'[y] = step[y] /\ row'[y] = row[y]
  BY <1>1, <1>5, OthersIdle
<1>7. WorkerIsGated(x)'
  <2>1. CASE Done(x)
    BY <1>1, <2>1, OthersIdle DEF WorkerIsGated, AtWork
  <2>2. CASE row' = row
    BY <1>1, <1>2, <1>3, <2>2 DEF WorkerIsGated
  <2> QED
    BY <1>5, <2>1, <2>2
<1>8. CASE ReleaseBlocked(x)
  <2>1. transfers' = transfers /\ IsOutboundRow(k)
    BY <1>1, <1>3, <1>8, WorkerAt DEF ReleaseBlocked, KnowsAt
  <2>2. \A l \in Key \ {k} : Rests(l)
    <3>1. CASE UNCHANGED vars
      BY <1>2, <2>1, <3>1 DEF Rests, RowRests, KeyRests, HoldRests, vars
    <3>2. CASE ReleaseHold(Row(x).hold)
      BY <1>2, <1>3, <2>1, <3>2, EndingOneHold DEF Rests, RowRests
    <3> QED
      BY <1>8, <3>1, <3>2 DEF ReleaseBlocked, ReleaseRowHold
  <2>3. Present(k)' /\ (Settled(k)' <=> Settled(k)) /\ (Claimable(k)' <=> Claimable(k))
    BY <1>3, <1>4, <2>1 DEF Present, Settled, Unused, SettlingRequest, SettlingLegs, Claimable
  <2> QED
    BY <1>2, <1>3, <1>4, <1>6, <1>7, <2>1, <2>2, <2>3, InvestigatorKeepsGate
<1>9. CASE MarkBlocked(x)
  <2>1. /\ transfers'[k].status = "failed" /\ transfers'[k].risk = "blocked"
        /\ Present(k)' /\ (Settled(k)' <=> Settled(k))
        /\ \A l \in Key \ {k} : Rests(l)
    BY <1>1, <1>2, <1>3, <1>9, UpdateOfRow DEF MarkBlocked
  <2>2. ~Claimable(k)'
    BY <2>1 DEF Claimable
  <2> QED
    BY <1>2, <1>3, <1>4, <1>6, <1>7, <2>1, <2>2, InvestigatorKeepsGate
<1> QED
  BY <1>8, <1>9

\* For any handlers, instances and investigators, whatever is lost or restarted and
\* whatever the rest of the bank posts, no money moves for a transfer its assessment
\* blocked, and for a held one only once it has been approved: but for those whose
\* refusal an instance left undone, or that a second instance took from the first.
THEOREM OnlyInterruptionsOpenTheGate == PaySpec => []OnlyInterruptedPassTheGate
<1>1. PayInit => GateInv
  <2> SUFFICES ASSUME PayInit
               PROVE  GateInv
    OBVIOUS
  <2>1. \A x \in Worker : ~AtWork(x)
    BY DEF PayInit, Worker, Actor, AtWork
  <2>2. \A i \in Instance, k \in Key : ~WorksOn(i, k) /\ ActsByTheGate(i, k)
    BY <2>1 DEF PayInit, WorksOn, ActsByTheGate, GateAt, AtWork, Worker
  <2>3. \A k \in Key : KeyIsGated(k) /\ RowIsAssessed(k)
    BY <2>2 DEF PayInit, Init, KeyIsGated, RowIsAssessed, Present, Claimable, NoTransfer, Unused
  <2> QED
    BY <2>1, <2>3 DEF GateInv, WorkerIsGated
<1>2. ASSUME PayInv, GateInv, [PayNext]_allVars
      PROVE  GateInv'
  <2>1. ASSUME NEW i \in Instance, RowStep(i)
        PROVE  GateInv'
    BY <1>2, <2>1, QuietStepsKeepGate, TakingKeepsGate, RecordKeepsGate, UpdatesKeepGate, LedgerStepsKeepGate
       DEF RowStep
  <2>2. ASSUME NEW i \in Instance, RailTimesOut(i) \/ Restart(i) \/ \E batch \in SUBSET Key : Claim(i, batch)
        PROVE  GateInv'
    BY <1>2, <2>2, QuietStepsKeepGate, StoppingKeepsGate, ClaimKeepsGate DEF Worker
  <2>3. ASSUME NEW x \in Investigator, InvestigatorStep(x)
        PROVE  GateInv'
    BY <1>2, <2>3, DecidingKeepsGate, BlockingKeepsGate DEF InvestigatorStep
  <2>4. ASSUME NEW x \in Instance \cup Investigator, FailStatement(x)
        PROVE  GateInv'
    BY <1>2, <2>4, StoppingKeepsGate DEF Worker
  <2> QED
    BY <1>2, <2>1, <2>2, <2>3, <2>4, HandlersKeepGate, ElsewhereKeepsGate DEF PayNext
<1>3. PayInv /\ GateInv /\ [PayNext]_allVars => PayInv' /\ GateInv'
  BY <1>2, EveryStepKeeps
<1>4. PayInv /\ GateInv => OnlyInterruptedPassTheGate
  <2> SUFFICES ASSUME PayInv, GateInv, NEW k \in Key, transfers[k].status # "absent", Settled(k), k \notin interrupted
               PROVE  PassedTheGate(k)
    BY DEF OnlyInterruptedPassTheGate
  <2>1. Present(k) /\ KeyIsGated(k)
    BY TransferRowTyped DEF GateInv, PayInv
  <2> QED
    BY <2>1 DEF KeyIsGated
<1> QED
  BY <1>1, <1>3, <1>4, InitKeeps, PTL DEF PaySpec
=============================================================================
