------------------------- MODULE MoneyControlsProofs -------------------------
(***************************************************************************)
(* Theorems about MoneyControls, for any merchants, requests, callers,     *)
(* instances, fee rules and reserves: what the platform has taken is the   *)
(* fees that are recorded, and what settlement pays out has been settled.  *)
(***************************************************************************)
EXTENDS MoneyControls, LedgerProofs

-----------------------------------------------------------------------------
(***************************************************************************)
(* The inductive invariant: what the rows say of one another, and what an  *)
(* actor knows of them at each of its steps.                               *)
(***************************************************************************)
LiveCycles == {y \in Cycle : cycles[y] # NoCycle}
SettlementRequest(y) ==
    PayoutRequest(y, cycles[y].merchant, SettlementKey, cycles[y].net - cycles[y].reserve)
ReserveRequest(y) == PayoutRequest(y, cycles[y].merchant, ReserveKey, cycles[y].reserve)
KnownRequests ==
    ApiRequest \cup {SettlementRequest(y) : y \in LiveCycles} \cup {ReserveRequest(y) : y \in LiveCycles}

\* Transfers and records are those of requests.
SentFor(k, r) ==
    /\ r.source.key = k
    /\ transfers[k].direction = Direction(r.source.kind)
    /\ transfers[k].account = AccountOf[r.source.merchant]
    /\ transfers[k].amount = r.amount
TransfersTrue ==
    \A k \in TransferKey : transfers[k] # NoTransfer => \E r \in KnownRequests : SentFor(k, r)
RecordsTrue ==
    \A s \in Source : records[s] # NoRecord =>
        \E r \in KnownRequests : r.source = s /\ records[s] = [mode |-> r.mode, amount |-> r.amount]

\* Nothing but fees is posted to the platform's account.
Avoids(legs) == legs[1].account # PlatformFees /\ legs[2].account # PlatformFees
BookingsTrue ==
    \A k \in TransferKey : ~Unused(k) =>
        /\ transfers[k].status = "completed"
        /\ Avoids(txns[k].legs)
        /\ transfers[k].direction = "inbound" =>
             txns[k].legs = CreditLegs(transfers[k].account, transfers[k].amount)
HoldsTrue == \A h \in HoldId : holds[h] # NoHold => holds[h].account # PlatformFees

FeeTxn(s, total) == Posted("transfer", FeeLegs(s, total), LegsRequest("transfer", FeeLegs(s, total)))
FeeTxnsTrue ==
    \A s \in Source : ~Unused(FeeKey[s]) =>
        LET total == txns[FeeKey[s]].legs[2].amount
        IN  total \in Nat /\ txns[FeeKey[s]] = FeeTxn(s, total)
PlatformAddsUp ==
    /\ IsFiniteSet(PostedFees)
    /\ ledgerSum[PlatformFees] = SumFunction([s \in PostedFees |-> txns[FeeKey[s]].legs[2].amount])

Feeing(s) == s \in Source /\ records[s] # NoRecord /\ transfers[s.key].status = "completed"
FeeIsPosted(s, total) == total > 0 => ~Unused(FeeKey[s]) /\ txns[FeeKey[s]].legs = FeeLegs(s, total)
FeesTrue ==
    /\ IsFiniteSet({s \in Source : fees[s] # NoFee})
    /\ \A s \in Source : fees[s] # NoFee => Feeing(s) /\ FeeIsPosted(s, fees[s].total)

Settleable(s, m) ==
    /\ s \in Source /\ s.kind = "charge" /\ s.merchant = m
    /\ records[s] # NoRecord /\ fees[s] # NoFee /\ ~Unused(s.key)
ChargesOf(y) == {item[2] : item \in {p \in cycleItems : p[1] = y}}
CyclesTrue ==
    /\ \E n \in 0..MaxCycle : LiveCycles = 1..n
    /\ \A y \in LiveCycles :
         /\ cycles[y].net = cycles[y].gross - cycles[y].fees
         /\ cycles[y].reserve \in 0..cycles[y].net
ItemsTrue ==
    /\ IsFiniteSet(cycleItems)
    /\ \A p \in cycleItems : p[1] \in LiveCycles /\ Settleable(p[2], cycles[p[1]].merchant)
    /\ \A p, q \in cycleItems : p[2] = q[2] => p = q
CycleSums ==
    \A y \in LiveCycles :
        cycles[y].gross = Gross(ChargesOf(y)) /\ cycles[y].fees = FeesTotal(ChargesOf(y))

RowsTrue ==
    /\ TransfersTrue /\ RecordsTrue /\ BookingsTrue /\ HoldsTrue /\ FeeTxnsTrue /\ PlatformAddsUp
    /\ FeesTrue /\ CyclesTrue /\ ItemsTrue /\ CycleSums

ItsItem(duty, x) ==
    /\ duty \in Duty
    /\ duty \in {"charge", "payout"} => Feeing(x)
    /\ duty = "cycles" => x \in Merchant
    /\ duty = "reserves" => x \in LiveCycles
KnowsAt(a, at, w) ==
    /\ \A x \in w.queue : ItsItem(w.duty, x)
    /\ at \in {"post", "insert"} => Feeing(w.item)
    /\ at = "insert" => FeeIsPosted(w.item, w.total)
    /\ at \in {"find", "advance", "cycle"} => w.item \in Merchant
    /\ at \in {"advance", "cycle"} =>
         IsFiniteSet(w.charges) /\ \A s \in w.charges : Settleable(s, w.item)
    /\ at \in {"lookup", "send", "record", "link"} => w.request \in KnownRequests
    /\ a \in Instance /\ at \in {"lookup", "send", "record", "link"} => w.item \in LiveCycles
    /\ a \in Caller => at \in {"idle", "send", "record"} /\ w.queue = {}
Knows(a) == KnowsAt(a, step[a], work[a])

RequestRow == [source : Source, mode : Mode, rail : Rail, amount : Nat]
Thing == Source \cup Merchant \cup Cycle
WorkRow == [duty : Duty \cup {"none"}, queue : SUBSET Thing, item : Thing \cup {"none"},
            charges : SUBSET Source, total : Nat, request : RequestRow \cup {NoRequest}]

RowsTyped ==
    /\ accounts \in [AllAccounts -> [state : AccountState, overdraft : Nat]]
    /\ txns \in [Key -> Txn \cup {NoTxn}]
    /\ holds \in [HoldId -> [status : {"active", "released", "captured"}, account : Account, amount : Nat] \cup {NoHold}]
    /\ ledgerSum \in [AllAccounts -> Int] /\ heldSum \in [AllAccounts -> Int]
    /\ transfers \in [TransferKey -> TransferRow \cup {NoTransfer}]
    /\ records \in [Source -> Record \cup {NoRecord}]
    /\ fees \in [Source -> [recorded : BOOLEAN, total : Nat]]
    /\ cycles \in [Cycle -> CycleRow \cup {NoCycle}]
    /\ cycleItems \subseteq Cycle \X Source
ActorsTyped == step \in [Actor -> Steps] /\ work \in [Actor -> WorkRow]
Scheduled == due \in [Merchant -> BOOLEAN] /\ requests \in 0..MaxRequests /\ failures \in 0..MaxFailures

ActorsKnow == \A a \in Actor : Knows(a)
RowsInv == RowsTyped /\ RowsTrue
ActorsInv == ActorsTyped /\ ActorsKnow
ControlsInv == RowsInv /\ ActorsInv /\ Scheduled

-----------------------------------------------------------------------------
(***************************************************************************)
(* Rows only grow, so what an actor has read of them stays true.           *)
(***************************************************************************)
SameCycle(old, new) ==
    /\ new # NoCycle
    /\ new.merchant = old.merchant /\ new.gross = old.gross /\ new.fees = old.fees
    /\ new.net = old.net /\ new.reserve = old.reserve

TxnsStay == \A k \in Key : ~Unused(k) => txns'[k] # NoTxn /\ txns'[k].legs = txns[k].legs
CompletedStay ==
    \A k \in TransferKey : transfers[k].status = "completed" => transfers'[k].status = "completed"
RecordsStay == \A s \in Source : records[s] # NoRecord => records'[s] = records[s]
FeesStay == \A s \in Source : fees[s] # NoFee => fees'[s] = fees[s]
CyclesStay == \A y \in LiveCycles : SameCycle(cycles[y], cycles'[y])
RowsGrow == TxnsStay /\ CompletedStay /\ RecordsStay /\ FeesStay /\ CyclesStay

\* A live cycle stays one and is paid out by the same two requests.
LEMMA KnownRequestsStay ==
    ASSUME CyclesStay
    PROVE  LiveCycles \subseteq LiveCycles' /\ KnownRequests \subseteq KnownRequests'
<1>1. \A y \in LiveCycles :
        /\ y \in LiveCycles'
        /\ SettlementRequest(y)' = SettlementRequest(y) /\ ReserveRequest(y)' = ReserveRequest(y)
  BY DEF CyclesStay, SameCycle, LiveCycles, SettlementRequest, ReserveRequest, PayoutRequest, CycleSource
<1>2. LiveCycles \subseteq LiveCycles'
  BY <1>1
<1>3. ASSUME NEW r \in KnownRequests
      PROVE  r \in KnownRequests'
  <2>1. CASE r \in ApiRequest
    BY <2>1 DEF KnownRequests
  <2>2. ASSUME NEW y \in LiveCycles, r = SettlementRequest(y)
        PROVE  r \in KnownRequests'
    <3>1. y \in LiveCycles' /\ r = SettlementRequest(y)'
      BY <1>1, <2>2
    <3> QED
      BY <3>1 DEF KnownRequests
  <2>3. ASSUME NEW y \in LiveCycles, r = ReserveRequest(y)
        PROVE  r \in KnownRequests'
    <3>1. y \in LiveCycles' /\ r = ReserveRequest(y)'
      BY <1>1, <2>3
    <3> QED
      BY <3>1 DEF KnownRequests
  <2> QED
    BY <2>1, <2>2, <2>3 DEF KnownRequests
<1> QED
  BY <1>2, <1>3

\* What is known of a source stays true.
LEMMA TruthsStay ==
    ASSUME RowsGrow
    PROVE  /\ \A s : Feeing(s) => Feeing(s)'
           /\ \A s, m : Settleable(s, m) => Settleable(s, m)'
           /\ \A s \in Source : \A total : FeeIsPosted(s, total) => FeeIsPosted(s, total)'
           /\ \A duty, x : ItsItem(duty, x) => ItsItem(duty, x)'
<1>1. \A s \in Source : s.key \in TransferKey /\ s.key \in Key /\ FeeKey[s] \in Key
  BY MerchantAssumption, KeysAssumption
<1>2. ASSUME NEW s, Feeing(s)
      PROVE  Feeing(s)'
  BY <1>1, <1>2 DEF RowsGrow, RecordsStay, CompletedStay, Feeing
<1>3. ASSUME NEW s, NEW m, Settleable(s, m)
      PROVE  Settleable(s, m)'
  BY <1>1, <1>3 DEF RowsGrow, RecordsStay, FeesStay, TxnsStay, Settleable, Unused
<1>4. ASSUME NEW s \in Source, NEW total, FeeIsPosted(s, total)
      PROVE  FeeIsPosted(s, total)'
  <2>1. FeeLegs(s, total)' = FeeLegs(s, total)
    BY DEF FeeLegs
  <2> QED
    BY <1>1, <1>4, <2>1 DEF RowsGrow, TxnsStay, FeeIsPosted, Unused
<1>5. ASSUME NEW duty, NEW x, ItsItem(duty, x)
      PROVE  ItsItem(duty, x)'
  <2>1. x \in LiveCycles => x \in LiveCycles'
    BY KnownRequestsStay DEF RowsGrow
  <2> QED
    BY <1>2, <1>5, <2>1 DEF ItsItem
<1> QED
  BY <1>2, <1>3, <1>4, <1>5

\* What an actor knows stays true while others go on.
LEMMA KnowledgeLasts ==
    ASSUME RowsGrow, NEW a, NEW at, NEW w, KnowsAt(a, at, w)
    PROVE  KnowsAt(a, at, w)'
<1>1. LiveCycles \subseteq LiveCycles' /\ KnownRequests \subseteq KnownRequests'
  BY KnownRequestsStay DEF RowsGrow
<1>2. \A x \in w.queue : ItsItem(w.duty, x)'
  BY TruthsStay DEF KnowsAt
<1>3. at \in {"post", "insert"} => Feeing(w.item)'
  BY TruthsStay DEF KnowsAt
<1>4. at = "insert" => FeeIsPosted(w.item, w.total)'
  BY TruthsStay DEF KnowsAt, Feeing
<1>5. at \in {"advance", "cycle"} =>
        IsFiniteSet(w.charges) /\ \A s \in w.charges : Settleable(s, w.item)'
  BY TruthsStay DEF KnowsAt
<1> QED
  BY <1>1, <1>2, <1>3, <1>4, <1>5 DEF KnowsAt, ItsItem, Feeing, FeeIsPosted, Settleable

\* A step that one actor makes, and that rows grow by, leaves the others'
\* knowledge true.
LEMMA ActorMoves ==
    ASSUME RowsGrow, ActorsInv, NEW a \in Actor, NEW next \in Steps, NEW todo \in WorkRow,
           GotoWith(a, next, todo), KnowsAt(a, next, todo)'
    PROVE  ActorsInv'
<1>1. ActorsTyped'
  BY DEF ActorsInv, ActorsTyped, GotoWith, Goto
<1>2. step'[a] = next /\ work'[a] = todo
  BY DEF ActorsInv, ActorsTyped, GotoWith, Goto
<1>3. ASSUME NEW b \in Actor
      PROVE  Knows(b)'
  <2>1. CASE b = a
    BY <1>2, <2>1 DEF Knows
  <2>2. CASE b # a
    <3>1. step'[b] = step[b] /\ work'[b] = work[b]
      BY <2>2 DEF ActorsInv, ActorsTyped, GotoWith, Goto
    <3>2. PICK at, w : at = step[b] /\ w = work[b]
      OBVIOUS
    <3>3. KnowsAt(b, at, w)'
      BY <3>2, KnowledgeLasts DEF ActorsInv, ActorsKnow, Knows
    <3> QED
      BY <3>1, <3>2, <3>3 DEF Knows
  <2> QED
    BY <2>1, <2>2
<1> QED
  BY <1>1, <1>3 DEF ActorsInv, ActorsKnow

\* So does one that goes on with the same work.
LEMMA ActorGoes ==
    ASSUME RowsGrow, ActorsInv, NEW a \in Actor, NEW next \in Steps,
           Goto(a, next), UNCHANGED work, KnowsAt(a, next, work[a])
    PROVE  ActorsInv'
<1>1. PICK w \in WorkRow : w = work[a]
  BY DEF ActorsInv, ActorsTyped
<1>2. GotoWith(a, next, w)
  BY <1>1 DEF GotoWith, ActorsInv, ActorsTyped
<1>3. KnowsAt(a, next, w)'
  BY <1>1, KnowledgeLasts
<1> QED
  BY <1>2, <1>3, ActorMoves

\* And one that is done with its item.
LEMMA ActorDone ==
    ASSUME RowsGrow, ActorsInv, NEW a \in Actor, Done(a)
    PROVE  ActorsInv'
<1>1. PICK w \in WorkRow : w = work[a]
  BY DEF ActorsInv, ActorsTyped
<1>2. CASE w.queue = {}
  <2>1. GotoWith(a, "idle", NoWork)
    BY <1>1, <1>2 DEF Done
  <2>2. NoWork \in WorkRow /\ "idle" \in Steps
    BY DEF NoWork, WorkRow, Steps
  <2>3. KnowsAt(a, "idle", NoWork)'
    BY DEF KnowsAt, NoWork
  <2> QED
    BY <2>1, <2>2, <2>3, ActorMoves
<1>3. CASE w.queue # {}
  <2>1. PICK todo : todo = [NoWork EXCEPT !.duty = w.duty, !.queue = w.queue]
    OBVIOUS
  <2>2. GotoWith(a, "next", todo)
    BY <1>1, <1>3, <2>1 DEF Done
  <2>3. todo \in WorkRow /\ "next" \in Steps /\ todo.duty = w.duty /\ todo.queue = w.queue
    BY <2>1 DEF NoWork, WorkRow, Steps
  <2>4. KnowsAt(a, "next", todo)
    BY <1>1, <1>3, <2>3 DEF ActorsInv, ActorsKnow, Knows, KnowsAt
  <2>5. KnowsAt(a, "next", todo)'
    BY <2>4, KnowledgeLasts
  <2> QED
    BY <2>2, <2>3, <2>5, ActorMoves
<1> QED
  BY <1>2, <1>3

\* A step of none of the actors leaves their knowledge true.
LEMMA ActorsRest ==
    ASSUME RowsGrow, ActorsInv, UNCHANGED <<step, work>>
    PROVE  ActorsInv'
<1>1. ASSUME NEW a \in Actor
      PROVE  Knows(a)'
  <2>1. PICK at, w : at = step[a] /\ w = work[a]
    OBVIOUS
  <2>2. KnowsAt(a, at, w)'
    BY <2>1, KnowledgeLasts DEF ActorsInv, ActorsKnow, Knows
  <2> QED
    BY <2>1, <2>2 DEF Knows
<1> QED
  BY <1>1 DEF ActorsInv, ActorsTyped, ActorsKnow

-----------------------------------------------------------------------------
(***************************************************************************)
(* Steps that leave the rows as they are.                                  *)
(***************************************************************************)
RowsSame == UNCHANGED <<vars, transfers, records, fees, cycles, cycleItems>>

\* Rows that stay as they are keep their truth.
LEMMA RowsRest ==
    ASSUME RowsInv, RowsSame
    PROVE  RowsInv' /\ RowsGrow
<1>1. /\ accounts' = accounts /\ txns' = txns /\ holds' = holds /\ ledgerSum' = ledgerSum /\ heldSum' = heldSum
      /\ transfers' = transfers /\ records' = records /\ fees' = fees
      /\ cycles' = cycles /\ cycleItems' = cycleItems
  BY DEF RowsSame, vars
<1>2. RowsTyped'
  BY <1>1 DEF RowsInv, RowsTyped
<1>3. LiveCycles' = LiveCycles /\ KnownRequests' = KnownRequests /\ PostedFees' = PostedFees
  BY <1>1 DEF LiveCycles, KnownRequests, SettlementRequest, ReserveRequest, PostedFees, Unused
<1>4. TransfersTrue' /\ RecordsTrue'
  BY <1>1, <1>3 DEF RowsInv, RowsTrue, TransfersTrue, RecordsTrue, SentFor
<1>5. BookingsTrue' /\ HoldsTrue' /\ FeeTxnsTrue'
  BY <1>1 DEF RowsInv, RowsTrue, BookingsTrue, HoldsTrue, FeeTxnsTrue, Unused
<1>6. PlatformAddsUp'
  BY <1>1, <1>3 DEF RowsInv, RowsTrue, PlatformAddsUp
<1>7. FeesTrue'
  BY <1>1 DEF RowsInv, RowsTrue, FeesTrue, Feeing, FeeIsPosted, Unused
<1>8. CyclesTrue' /\ ItemsTrue'
  BY <1>1, <1>3 DEF RowsInv, RowsTrue, CyclesTrue, ItemsTrue, Settleable, Unused
<1>9. CycleSums'
  BY <1>1, <1>3 DEF RowsInv, RowsTrue, CycleSums, ChargesOf, Gross, FeesTotal
<1>10. RowsGrow
  BY <1>1 DEF RowsGrow, TxnsStay, CompletedStay, RecordsStay, FeesStay, CyclesStay, SameCycle, Unused, LiveCycles
<1> QED
  BY <1>2, <1>4, <1>5, <1>6, <1>7, <1>8, <1>9, <1>10 DEF RowsInv, RowsTrue

\* Requests are typed, those of the API and those of cycles.
LEMMA RequestsTyped ==
    ASSUME RowsInv
    PROVE  KnownRequests \subseteq RequestRow
<1>1. ApiRequest \subseteq RequestRow
  BY ApiRequestAssumption, AmountAssumption DEF RequestRow
<1>2. ASSUME NEW y \in LiveCycles
      PROVE  SettlementRequest(y) \in RequestRow /\ ReserveRequest(y) \in RequestRow
  <2>1. y \in Cycle /\ cycles[y] \in CycleRow
    BY <1>2 DEF LiveCycles, RowsInv, RowsTyped
  <2>2. cycles[y].merchant \in Merchant /\ cycles[y].net \in Nat /\ cycles[y].reserve \in Nat
    BY <2>1 DEF CycleRow
  <2>3. cycles[y].net - cycles[y].reserve \in Nat
    BY <1>2, <2>2 DEF RowsInv, RowsTrue, CyclesTrue
  <2>4. /\ CycleSource(y, cycles[y].merchant, SettlementKey) \in Source
        /\ CycleSource(y, cycles[y].merchant, ReserveKey) \in Source
    BY <2>1, <2>2, KeysAssumption
  <2>5. \A s \in Source, x \in Nat :
          [source |-> s, mode |-> "live", rail |-> "instant", amount |-> x] \in RequestRow
    <3>1. "live" \in Mode /\ "instant" \in Rail
      BY ConfigAssumption DEF Mode
    <3> QED
      BY <3>1 DEF RequestRow
  <2> QED
    BY <2>2, <2>3, <2>4, <2>5 DEF SettlementRequest, ReserveRequest, PayoutRequest
<1> QED
  BY <1>1, <1>2 DEF KnownRequests

\* A caller begins.
LEMMA StartCreateKeeps ==
    ASSUME RowsInv, ActorsInv, NEW c \in Caller, NEW r \in ApiRequest, StartCreate(c, r), UNCHANGED controlVars
    PROVE  RowsInv' /\ ActorsInv'
<1>1. RowsInv' /\ RowsGrow
  BY RowsRest DEF StartCreate, RowsSame, controlVars
<1>2. PICK todo : todo = [NoWork EXCEPT !.request = r]
  OBVIOUS
<1>3. r \in KnownRequests /\ r \in RequestRow
  BY RequestsTyped DEF KnownRequests
<1>4. todo \in WorkRow /\ todo.queue = {} /\ todo.request = r
  BY <1>2, <1>3 DEF NoWork, WorkRow
<1>5. KnowsAt(c, "send", todo)
  BY <1>3, <1>4, MerchantAssumption DEF KnowsAt
<1>6. KnowsAt(c, "send", todo)'
  BY <1>1, <1>5, KnowledgeLasts
<1>7. c \in Actor /\ "send" \in Steps /\ GotoWith(c, "send", todo)
  BY <1>2 DEF Actor, Steps, StartCreate
<1> QED
  BY <1>1, <1>4, <1>6, <1>7, ActorMoves

\* A process dies.
LEMMA LoseKeeps ==
    ASSUME RowsInv, ActorsInv, NEW a \in Actor, Lose(a), UNCHANGED controlVars
    PROVE  RowsInv' /\ ActorsInv'
<1>1. RowsInv' /\ RowsGrow
  BY RowsRest DEF Lose, RowsSame, controlVars
<1>2. NoWork \in WorkRow /\ "idle" \in Steps
  BY DEF NoWork, WorkRow, Steps
<1>3. KnowsAt(a, "idle", NoWork)'
  BY DEF KnowsAt, NoWork
<1> QED
  BY <1>1, <1>2, <1>3, ActorMoves DEF Lose

\* A tick selects what is its duty's.
LEMMA StartTickKeeps ==
    ASSUME RowsInv, ActorsInv, NEW i \in Instance, NEW duty \in Duty, StartTick(i, duty)
    PROVE  RowsInv' /\ ActorsInv'
<1>1. RowsInv' /\ RowsGrow
  BY RowsRest DEF StartTick, RowsSame, controlVars
<1>2. PICK todo : todo = [NoWork EXCEPT !.duty = duty, !.queue = Selected(duty)]
  OBVIOUS
<1>3. Selected(duty) \subseteq Thing /\ \A x \in Selected(duty) : ItsItem(duty, x)
  <2>1. CASE duty \in {"charge", "payout"}
    <3>1. Selected(duty) = Feeable(duty)
      BY <2>1 DEF Selected
    <3> QED
      BY <2>1, <3>1 DEF Feeable, ItsItem, Feeing, Thing
  <2>2. CASE duty = "cycles"
    BY <2>2 DEF Selected, ItsItem, Thing, Duty
  <2>3. CASE duty = "reserves"
    <3>1. Selected(duty) = MaturedReserves
      BY <2>3 DEF Selected
    <3> QED
      BY <2>3, <3>1 DEF MaturedReserves, ItsItem, LiveCycles, Thing, Duty
  <2> QED
    BY <2>1, <2>2, <2>3 DEF Duty
<1>4. todo \in WorkRow /\ todo.queue = Selected(duty) /\ todo.duty = duty
  BY <1>2, <1>3 DEF NoWork, WorkRow
<1>5. i \in Actor /\ i \notin Caller /\ "next" \in Steps
  BY MerchantAssumption DEF Actor, Steps
<1>6. KnowsAt(i, "next", todo)
  BY <1>3, <1>4, <1>5 DEF KnowsAt
<1>7. KnowsAt(i, "next", todo)'
  BY <1>1, <1>6, KnowledgeLasts
<1>8. GotoWith(i, "next", todo)
  BY <1>2 DEF StartTick
<1> QED
  BY <1>1, <1>4, <1>5, <1>7, <1>8, ActorMoves

\* An instance is no caller.
LEMMA InstancesAct ==
    ASSUME NEW i \in Instance
    PROVE  i \in Actor /\ i \notin Caller
  BY MerchantAssumption DEF Actor

\* The next item's first step knows what the queue knew of it.
LEMMA NextItemKeeps ==
    ASSUME RowsInv, ActorsInv, NEW i \in Instance, NextItem(i)
    PROVE  RowsInv' /\ ActorsInv'
<1>1. RowsInv' /\ RowsGrow
  BY RowsRest DEF NextItem, RowsSame, controlVars
<1>2. PICK w \in WorkRow : w = work[i]
  BY InstancesAct DEF ActorsInv, ActorsTyped
<1>3. KnowsAt(i, "next", w)
  BY <1>2, InstancesAct DEF NextItem, ActorsInv, ActorsKnow, Knows
<1>4. PICK item \in w.queue :
        GotoWith(i, FirstStep[w.duty],
                 [w EXCEPT !.queue = w.queue \ {item}, !.item = item,
                           !.request = IF w.duty = "reserves"
                                       THEN PayoutRequest(item, cycles[item].merchant, ReserveKey, cycles[item].reserve)
                                       ELSE NoRequest])
  BY <1>2 DEF NextItem
<1>5. PICK request : request = IF w.duty = "reserves" THEN ReserveRequest(item) ELSE NoRequest
  OBVIOUS
<1>6. PICK todo : todo = [w EXCEPT !.queue = w.queue \ {item}, !.item = item, !.request = request]
  OBVIOUS
<1>7. GotoWith(i, FirstStep[w.duty], todo)
  BY <1>4, <1>5, <1>6 DEF ReserveRequest
<1>8. ItsItem(w.duty, item)
  BY <1>3 DEF KnowsAt
<1>9. w.duty = "reserves" => item \in LiveCycles /\ request \in KnownRequests
  BY <1>5, <1>8 DEF ItsItem, KnownRequests
<1>10. todo \in WorkRow
  <2>1. request \in RequestRow \cup {NoRequest}
    BY <1>5, <1>9, RequestsTyped
  <2>2. item \in Thing \cup {"none"} /\ w.queue \ {item} \in SUBSET Thing
    BY DEF WorkRow
  <2> QED
    BY <1>6, <2>1, <2>2 DEF WorkRow
<1>11. /\ todo.queue = w.queue \ {item} /\ todo.duty = w.duty /\ todo.item = item /\ todo.request = request
  BY <1>6 DEF WorkRow
<1>12. PICK at : at = FirstStep[w.duty]
  OBVIOUS
<1>13. \/ w.duty \in {"charge", "payout"} /\ at = "post"
       \/ w.duty = "cycles" /\ at = "find"
       \/ w.duty = "reserves" /\ at = "lookup"
  BY <1>8, <1>12 DEF ItsItem, Duty, FirstStep
<1>14. KnowsAt(i, at, todo)
  <2>1. \A x \in todo.queue : ItsItem(todo.duty, x)
    BY <1>3, <1>11 DEF KnowsAt
  <2>2. at = "post" => Feeing(todo.item)
    BY <1>8, <1>11, <1>13 DEF ItsItem
  <2>3. at = "find" => todo.item \in Merchant
    BY <1>8, <1>11, <1>13 DEF ItsItem
  <2>4. at = "lookup" => todo.request \in KnownRequests /\ todo.item \in LiveCycles
    BY <1>9, <1>11, <1>13
  <2> QED
    BY <1>13, <2>1, <2>2, <2>3, <2>4, InstancesAct DEF KnowsAt
<1>15. KnowsAt(i, at, todo)'
  BY <1>1, <1>14, KnowledgeLasts
<1>16. at \in Steps
  BY <1>13 DEF Steps
<1> QED
  BY <1>1, <1>7, <1>10, <1>12, <1>15, <1>16, ActorMoves, InstancesAct

\* Charges that can be settled have been collected and had their fee taken.
LEMMA EligibleAreSettleable ==
    ASSUME RowsInv, NEW m
    PROVE  IsFiniteSet(Eligible(m)) /\ \A s \in Eligible(m) : Settleable(s, m)
<1>1. Eligible(m) \subseteq {s \in Source : fees[s] # NoFee}
  BY DEF Eligible
<1>2. IsFiniteSet(Eligible(m))
  BY <1>1, FS_Subset DEF RowsInv, RowsTrue, FeesTrue
<1>3. \A s \in Eligible(m) : Settleable(s, m)
  BY DEF Eligible, Settleable, Unused, NoTxn
<1> QED
  BY <1>2, <1>3

\* The charges are read.
LEMMA FindChargesKeeps ==
    ASSUME RowsInv, ActorsInv, NEW i \in Instance, FindCharges(i)
    PROVE  RowsInv' /\ ActorsInv'
<1>1. RowsInv' /\ RowsGrow
  BY RowsRest DEF FindCharges, RowsSame, controlVars
<1>2. PICK w \in WorkRow : w = work[i]
  BY InstancesAct DEF ActorsInv, ActorsTyped
<1>3. KnowsAt(i, "find", w)
  BY <1>2, InstancesAct DEF FindCharges, ActorsInv, ActorsKnow, Knows
<1>4. PICK charges : charges = Eligible(w.item)
  OBVIOUS
<1>5. PICK todo : todo = [w EXCEPT !.charges = charges]
  OBVIOUS
<1>6. charges \in SUBSET Source
  BY <1>4 DEF Eligible
<1>7. /\ todo \in WorkRow /\ todo.charges = charges
      /\ todo.item = w.item /\ todo.queue = w.queue /\ todo.duty = w.duty
  BY <1>5, <1>6 DEF WorkRow
<1>8. KnowsAt(i, "advance", todo)
  BY <1>3, <1>4, <1>7, EligibleAreSettleable, InstancesAct DEF KnowsAt
<1>9. KnowsAt(i, "advance", todo)'
  BY <1>1, <1>8, KnowledgeLasts
<1>10. GotoWith(i, "advance", todo) /\ "advance" \in Steps
  BY <1>2, <1>4, <1>5 DEF FindCharges, Steps
<1> QED
  BY <1>1, <1>7, <1>9, <1>10, ActorMoves, InstancesAct

\* The schedule is moved on.
LEMMA AdvanceScheduleKeeps ==
    ASSUME RowsInv, ActorsInv, NEW i \in Instance, AdvanceSchedule(i)
    PROVE  RowsInv' /\ ActorsInv'
<1>1. RowsInv' /\ RowsGrow
  BY RowsRest DEF AdvanceSchedule, RowsSame
<1>2. CASE Done(i)
  BY <1>1, <1>2, ActorDone, InstancesAct
<1>3. CASE Goto(i, "cycle") /\ UNCHANGED work
  <2>1. KnowsAt(i, "cycle", work[i])
    BY InstancesAct DEF AdvanceSchedule, ActorsInv, ActorsKnow, Knows, KnowsAt
  <2>2. "cycle" \in Steps
    BY DEF Steps
  <2> QED
    BY <1>1, <1>3, <2>1, <2>2, ActorGoes, InstancesAct
<1> QED
  BY <1>2, <1>3 DEF AdvanceSchedule

\* A payout is looked up.
LEMMA LookUpPayoutKeeps ==
    ASSUME RowsInv, ActorsInv, NEW i \in Instance, LookUpPayout(i)
    PROVE  RowsInv' /\ ActorsInv'
<1>1. RowsInv' /\ RowsGrow
  BY RowsRest DEF LookUpPayout, RowsSame, controlVars
<1>2. PICK at \in {"send", "link"} : Goto(i, at)
  BY DEF LookUpPayout
<1>3. KnowsAt(i, at, work[i])
  BY InstancesAct DEF LookUpPayout, ActorsInv, ActorsKnow, Knows, KnowsAt
<1>4. at \in Steps /\ UNCHANGED work
  BY DEF Steps, LookUpPayout
<1> QED
  BY <1>1, <1>2, <1>3, <1>4, ActorGoes, InstancesAct

-----------------------------------------------------------------------------
(***************************************************************************)
(* Parts of the rows that a step does not touch.                           *)
(***************************************************************************)

\* Transfers and records that stay are still those of requests.
LEMMA RequestsRest ==
    ASSUME RowsInv, CyclesStay
    PROVE  (UNCHANGED transfers => TransfersTrue') /\ (UNCHANGED records => RecordsTrue')
<1>1. KnownRequests \subseteq KnownRequests'
  BY KnownRequestsStay
<1>2. UNCHANGED transfers => TransfersTrue'
  BY <1>1 DEF RowsInv, RowsTrue, TransfersTrue, SentFor
<1>3. UNCHANGED records => RecordsTrue'
  BY <1>1 DEF RowsInv, RowsTrue, RecordsTrue
<1> QED
  BY <1>2, <1>3

\* The platform's sum rests as long as no fee is posted.
LEMMA PlatformRests ==
    ASSUME RowsInv, \A s \in Source : txns'[FeeKey[s]] = txns[FeeKey[s]],
           ledgerSum'[PlatformFees] = ledgerSum[PlatformFees]
    PROVE  FeeTxnsTrue' /\ PlatformAddsUp'
<1>1. FeeTxnsTrue'
  BY DEF RowsInv, RowsTrue, FeeTxnsTrue, Unused, FeeTxn, FeeLegs
<1>2. PostedFees' = PostedFees
  BY DEF PostedFees, Unused
<1>3. [s \in PostedFees |-> txns'[FeeKey[s]].legs[2].amount]
        = [s \in PostedFees |-> txns[FeeKey[s]].legs[2].amount]
  BY DEF PostedFees
<1> QED
  BY <1>1, <1>2, <1>3 DEF RowsInv, RowsTrue, PlatformAddsUp

\* Recorded fees stay posted.
LEMMA FeesRest ==
    ASSUME RowsInv, RowsGrow, UNCHANGED fees
    PROVE  FeesTrue'
<1>1. FeesTrue
  BY DEF RowsInv, RowsTrue
<1>2. \A s \in Source : fees[s] # NoFee => Feeing(s)' /\ FeeIsPosted(s, fees[s].total)'
  BY <1>1, TruthsStay DEF FeesTrue
<1> QED
  BY <1>1, <1>2 DEF FeesTrue, Feeing, FeeIsPosted

\* A charge's amount and fee stay what they were when it was settled.
LEMMA SumsRest ==
    ASSUME RowsGrow, NEW charges, NEW m, \A s \in charges : Settleable(s, m)
    PROVE  Gross(charges)' = Gross(charges) /\ FeesTotal(charges)' = FeesTotal(charges)
<1>1. \A s \in charges : records'[s] = records[s] /\ fees'[s] = fees[s]
  BY DEF RowsGrow, RecordsStay, FeesStay, Settleable
<1>2. /\ [s \in charges |-> records'[s].amount] = [s \in charges |-> records[s].amount]
      /\ [s \in charges |-> fees'[s].total] = [s \in charges |-> fees[s].total]
  BY <1>1
<1> QED
  BY <1>2 DEF Gross, FeesTotal

\* A cycle's charges are its merchant's.
LEMMA ChargesSettleable ==
    ASSUME RowsInv, NEW y \in LiveCycles
    PROVE  \A s \in ChargesOf(y) : Settleable(s, cycles[y].merchant)
  BY DEF RowsInv, RowsTrue, ItemsTrue, ChargesOf

\* Cycles that stay are still the sums of their charges.
LEMMA CyclesRest ==
    ASSUME RowsInv, RowsGrow, UNCHANGED cycleItems, LiveCycles' = LiveCycles
    PROVE  CyclesTrue' /\ ItemsTrue' /\ CycleSums'
<1>1. \A y \in LiveCycles : SameCycle(cycles[y], cycles'[y])
  BY DEF RowsGrow, CyclesStay
<1>2. CyclesTrue'
  BY <1>1 DEF RowsInv, RowsTrue, CyclesTrue, SameCycle
<1>3. ItemsTrue'
  <2>1. ItemsTrue
    BY DEF RowsInv, RowsTrue
  <2>2. ASSUME NEW p \in cycleItems
        PROVE  p[1] \in LiveCycles' /\ Settleable(p[2], cycles[p[1]].merchant)'
    <3>1. p[1] \in LiveCycles /\ Settleable(p[2], cycles[p[1]].merchant)
      BY <2>1 DEF ItemsTrue
    <3>2. PICK s, m : s = p[2] /\ m = cycles[p[1]].merchant
      OBVIOUS
    <3>3. Settleable(s, m)'
      BY <3>1, <3>2, TruthsStay
    <3>4. cycles'[p[1]].merchant = m
      BY <1>1, <3>1, <3>2 DEF SameCycle
    <3>5. Settleable(p[2], cycles[p[1]].merchant)'
      BY <3>2, <3>3, <3>4 DEF Settleable
    <3> QED
      BY <3>1, <3>5
  <2> QED
    BY <2>1, <2>2 DEF ItemsTrue, Settleable
<1>4. ASSUME NEW y \in LiveCycles
      PROVE  cycles'[y].gross = Gross(ChargesOf(y))' /\ cycles'[y].fees = FeesTotal(ChargesOf(y))'
  <2>1. PICK charges, m : charges = ChargesOf(y) /\ m = cycles[y].merchant
    OBVIOUS
  <2>2. Gross(charges)' = Gross(charges) /\ FeesTotal(charges)' = FeesTotal(charges)
    BY <2>1, ChargesSettleable, SumsRest
  <2>3. ChargesOf(y)' = charges
    BY <2>1 DEF ChargesOf
  <2>4. cycles[y].gross = Gross(charges) /\ cycles[y].fees = FeesTotal(charges)
    BY <2>1 DEF RowsInv, RowsTrue, CycleSums
  <2>5. Gross(ChargesOf(y))' = Gross(charges)' /\ FeesTotal(ChargesOf(y))' = FeesTotal(charges)'
    BY <2>3 DEF Gross, FeesTotal
  <2> QED
    BY <1>1, <2>2, <2>4, <2>5 DEF SameCycle
<1>5. CycleSums'
  BY <1>4 DEF CycleSums
<1> QED
  BY <1>2, <1>3, <1>5

\* What stays of the cycles when none is touched.
LEMMA CyclesUntouched ==
    ASSUME RowsInv, UNCHANGED cycles
    PROVE  CyclesStay /\ LiveCycles' = LiveCycles
  BY DEF CyclesStay, SameCycle, LiveCycles

-----------------------------------------------------------------------------
(***************************************************************************)
(* Steps that change the rows, each with what it leaves alone.             *)
(***************************************************************************)

\* Marking a cycle changes nothing of what it settled.
LEMMA MarkingKeeps ==
    ASSUME RowsInv, NEW y \in LiveCycles,
           \/ cycles' = [cycles EXCEPT ![y].linked = TRUE]
           \/ cycles' = [cycles EXCEPT ![y].released = TRUE]
           \/ cycles' = [cycles EXCEPT ![y].matured = TRUE],
           UNCHANGED <<vars, transfers, records, fees, cycleItems>>
    PROVE  RowsInv' /\ RowsGrow
<1>1. cycles[y] \in CycleRow /\ y \in Cycle
  BY DEF LiveCycles, RowsInv, RowsTyped
<1>2. cycles \in [Cycle -> CycleRow \cup {NoCycle}]
  BY DEF RowsInv, RowsTyped
<1>3. cycles'[y] \in CycleRow /\ \A z \in Cycle \ {y} : cycles'[z] = cycles[z]
  BY <1>1, <1>2 DEF CycleRow
<1>4. cycles' \in [Cycle -> CycleRow \cup {NoCycle}]
  BY <1>1, <1>2, <1>3
<1>5. /\ cycles'[y].merchant = cycles[y].merchant /\ cycles'[y].gross = cycles[y].gross
      /\ cycles'[y].fees = cycles[y].fees /\ cycles'[y].net = cycles[y].net
      /\ cycles'[y].reserve = cycles[y].reserve
  BY <1>1, <1>2 DEF CycleRow
<1>6. \A c \in CycleRow : c # NoCycle
  <2>1. \A c \in CycleRow : c.merchant \in Merchant /\ DOMAIN c # DOMAIN NoCycle
    BY DEF CycleRow, NoCycle
  <2> QED
    BY <2>1
<1>7. CyclesStay /\ LiveCycles' = LiveCycles
  BY <1>1, <1>3, <1>5, <1>6 DEF CyclesStay, SameCycle, LiveCycles
<1>8. /\ accounts' = accounts /\ txns' = txns /\ holds' = holds /\ ledgerSum' = ledgerSum /\ heldSum' = heldSum
      /\ transfers' = transfers /\ records' = records /\ fees' = fees /\ cycleItems' = cycleItems
  BY DEF vars
<1>9. RowsGrow
  BY <1>7, <1>8 DEF RowsGrow, TxnsStay, CompletedStay, RecordsStay, FeesStay, Unused
<1>10. RowsTyped'
  BY <1>4, <1>8 DEF RowsInv, RowsTyped
<1>11. BookingsTrue' /\ HoldsTrue'
  BY <1>8 DEF RowsInv, RowsTrue, BookingsTrue, HoldsTrue, Unused
<1> QED
  BY <1>7, <1>8, <1>9, <1>10, <1>11, RequestsRest, PlatformRests, FeesRest, CyclesRest DEF RowsInv, RowsTrue

\* A payout is linked to its cycle.
LEMMA LinkPayoutKeeps ==
    ASSUME RowsInv, ActorsInv, NEW i \in Instance, LinkPayout(i)
    PROVE  RowsInv' /\ ActorsInv'
<1>1. work[i].item \in LiveCycles
  BY InstancesAct DEF LinkPayout, ActorsInv, ActorsKnow, Knows, KnowsAt
<1>2. RowsInv' /\ RowsGrow
  BY <1>1, MarkingKeeps DEF LinkPayout
<1> QED
  BY <1>2, ActorDone, InstancesAct DEF LinkPayout

\* A reserve matures.
LEMMA ReserveMaturesKeeps ==
    ASSUME RowsInv, ActorsInv, NEW y \in Cycle, ReserveMatures(y)
    PROVE  RowsInv' /\ ActorsInv'
<1>1. RowsInv' /\ RowsGrow
  <2>1. y \in LiveCycles
    BY DEF ReserveMatures, LiveCycles
  <2> QED
    BY <2>1, MarkingKeeps DEF ReserveMatures, merchantVars
<1>2. UNCHANGED <<step, work>>
  BY DEF ReserveMatures, merchantVars
<1> QED
  BY <1>1, <1>2, ActorsRest

\* A new transfer is its request's, and has booked nothing yet.
LEMMA SendingKeepsRows ==
    ASSUME RowsInv, NEW r \in KnownRequests, transfers[r.source.key] = NoTransfer,
           \/ PlaceHold(r.source.key, AccountOf[r.source.merchant], r.amount)
           \/ UNCHANGED vars,
           transfers' = [transfers EXCEPT ![r.source.key] = NewTransfer(r)],
           UNCHANGED <<records, controlVars>>
    PROVE  RowsInv' /\ RowsGrow
<1>1. r \in RequestRow
  BY RequestsTyped
<1>2. PICK k \in TransferKey : k = r.source.key /\ k \in HoldId
  BY <1>1, MerchantAssumption DEF RequestRow
<1>3. PICK account \in Account : account = AccountOf[r.source.merchant] /\ account # PlatformFees
  BY <1>1, MerchantAssumption, FeesAssumption DEF RequestRow
<1>4. PICK row : row = NewTransfer(r)
  OBVIOUS
<1>5. /\ row \in TransferRow /\ row.status = "pending" /\ row # NoTransfer
      /\ row.direction = Direction(r.source.kind) /\ row.account = account /\ row.amount = r.amount
  <2>1. row = [status |-> "pending", direction |-> Direction(r.source.kind), account |-> account,
               rail |-> r.rail, amount |-> r.amount]
    BY <1>3, <1>4 DEF NewTransfer
  <2>2. Direction(r.source.kind) \in {"inbound", "outbound"} /\ r.rail \in Rail /\ r.amount \in Nat
    BY <1>1 DEF Direction, RequestRow
  <2> HIDE DEF Direction
  <2>3. row \in TransferRow
    BY <2>1, <2>2 DEF TransferRow
  <2> QED
    BY <2>1, <2>3 DEF NoTransfer, TransferRow
<1>6. transfers' = [transfers EXCEPT ![k] = row] /\ transfers \in [TransferKey -> TransferRow \cup {NoTransfer}]
  BY <1>2, <1>4 DEF RowsInv, RowsTyped
<1>7. transfers'[k] = row /\ \A j \in TransferKey \ {k} : transfers'[j] = transfers[j]
  BY <1>6
<1>8. transfers' \in [TransferKey -> TransferRow \cup {NoTransfer}]
  BY <1>5, <1>6
<1>9. /\ accounts' = accounts /\ txns' = txns /\ ledgerSum' = ledgerSum
      /\ records' = records /\ fees' = fees /\ cycles' = cycles /\ cycleItems' = cycleItems
  BY DEF PlaceHold, vars, controlVars
<1>10. /\ holds' \in [HoldId -> [status : {"active", "released", "captured"}, account : Account, amount : Nat] \cup {NoHold}]
       /\ heldSum' \in [AllAccounts -> Int] /\ HoldsTrue'
  <2>1. CASE UNCHANGED vars
    BY <2>1 DEF vars, RowsInv, RowsTyped, RowsTrue, HoldsTrue
  <2>2. CASE PlaceHold(r.source.key, AccountOf[r.source.merchant], r.amount)
    <3>1. r.amount \in Nat /\ account \in AllAccounts
      BY <1>1 DEF RequestRow, AllAccounts
    <3>2. PICK hold : hold = [status |-> "active", account |-> account, amount |-> r.amount]
      OBVIOUS
    <3>3. /\ hold \in [status : {"active", "released", "captured"}, account : Account, amount : Nat]
          /\ hold.account = account
      BY <3>1, <3>2
    <3>4. /\ holds' = [holds EXCEPT ![k] = hold]
          /\ heldSum' = [heldSum EXCEPT ![account] = @ + r.amount]
      BY <1>2, <1>3, <2>2, <3>2 DEF PlaceHold
    <3>5. heldSum' \in [AllAccounts -> Int]
      BY <3>1, <3>4 DEF RowsInv, RowsTyped
    <3>6. HoldsTrue'
      BY <1>2, <1>3, <3>3, <3>4 DEF RowsInv, RowsTyped, RowsTrue, HoldsTrue
    <3> QED
      BY <1>2, <3>3, <3>4, <3>5, <3>6 DEF RowsInv, RowsTyped
  <2> QED
    BY <2>1, <2>2
<1>11. RowsGrow
  <2>1. CompletedStay
    BY <1>2, <1>7 DEF CompletedStay, NoTransfer
  <2> QED
    BY <1>9, <2>1, CyclesUntouched DEF RowsGrow, TxnsStay, RecordsStay, FeesStay, Unused
<1>12. RowsTyped'
  BY <1>8, <1>9, <1>10 DEF RowsInv, RowsTyped
<1>13. TransfersTrue'
  <2>1. TransfersTrue /\ KnownRequests \subseteq KnownRequests'
    BY <1>11, KnownRequestsStay DEF RowsInv, RowsTrue, RowsGrow
  <2>2. ASSUME NEW j \in TransferKey, transfers'[j] # NoTransfer
        PROVE  \E q \in KnownRequests : SentFor(j, q)'
    <3>1. CASE j = k
      <4>1. SentFor(j, r)'
        BY <1>2, <1>3, <1>5, <1>7, <3>1 DEF SentFor
      <4> QED
        BY <4>1
    <3>2. CASE j # k
      BY <1>7, <2>1, <2>2, <3>2 DEF TransfersTrue, SentFor
    <3> QED
      BY <3>1, <3>2
  <2> QED
    BY <2>1, <2>2 DEF TransfersTrue
<1>14. BookingsTrue'
  <2>1. \A j \in TransferKey : ~Unused(j) => j # k
    BY <1>2 DEF RowsInv, RowsTrue, BookingsTrue, NoTransfer
  <2> QED
    BY <1>7, <1>9, <2>1 DEF RowsInv, RowsTrue, BookingsTrue, Unused
<1> QED
  BY <1>9, <1>10, <1>11, <1>12, <1>13, <1>14, RequestsRest, PlatformRests, FeesRest, CyclesRest, CyclesUntouched
  DEF RowsInv, RowsTrue

\* A transfer is sent, found or refused.
LEMMA SendTransferKeeps ==
    ASSUME RowsInv, ActorsInv, NEW a \in Actor, SendTransfer(a), UNCHANGED controlVars
    PROVE  RowsInv' /\ ActorsInv'
<1>1. KnowsAt(a, "send", work[a])
  BY DEF SendTransfer, ActorsInv, ActorsKnow, Knows
<1>2. KnowsAt(a, "record", work[a]) /\ "record" \in Steps
  BY <1>1 DEF KnowsAt, Steps
<1>3. PICK r \in KnownRequests : r = work[a].request
  BY <1>1 DEF KnowsAt
<1>4. CASE Goto(a, "record") /\ UNCHANGED <<vars, transfers, work>>
  <2>1. RowsInv' /\ RowsGrow
    BY <1>4, RowsRest DEF SendTransfer, RowsSame, controlVars
  <2> QED
    BY <1>2, <1>4, <2>1, ActorGoes
<1>5. CASE Done(a) /\ UNCHANGED <<vars, transfers>>
  <2>1. RowsInv' /\ RowsGrow
    BY <1>5, RowsRest DEF SendTransfer, RowsSame, controlVars
  <2> QED
    BY <1>5, <2>1, ActorDone
<1>6. CASE /\ transfers[r.source.key] = NoTransfer
           /\ PlaceHold(r.source.key, AccountOf[r.source.merchant], r.amount) \/ UNCHANGED vars
           /\ transfers' = [transfers EXCEPT ![r.source.key] = NewTransfer(r)]
           /\ Goto(a, "record") /\ UNCHANGED work
  <2>1. RowsInv' /\ RowsGrow
    BY <1>6, SendingKeepsRows DEF SendTransfer
  <2> QED
    BY <1>2, <1>6, <2>1, ActorGoes
<1> QED
  BY <1>3, <1>4, <1>5, <1>6 DEF SendTransfer

\* A new record is its request's; no fee was taken for it and no cycle has it.
LEMMA RecordingKeepsRows ==
    ASSUME RowsInv, NEW r \in KnownRequests, records[r.source] = NoRecord,
           records' = [records EXCEPT ![r.source] = [mode |-> r.mode, amount |-> r.amount]],
           UNCHANGED <<vars, transfers, controlVars>>
    PROVE  RowsInv' /\ RowsGrow
<1>1. r \in RequestRow
  BY RequestsTyped
<1>2. PICK s \in Source : s = r.source
  BY <1>1 DEF RequestRow
<1>3. PICK row : row = [mode |-> r.mode, amount |-> r.amount]
  OBVIOUS
<1>4. row \in Record
  BY <1>1, <1>3 DEF Record, RequestRow
<1>5. records' = [records EXCEPT ![s] = row] /\ records \in [Source -> Record \cup {NoRecord}]
  BY <1>2, <1>3 DEF RowsInv, RowsTyped
<1>6. records'[s] = row /\ \A q \in Source \ {s} : records'[q] = records[q]
  BY <1>5
<1>7. /\ accounts' = accounts /\ txns' = txns /\ holds' = holds /\ ledgerSum' = ledgerSum /\ heldSum' = heldSum
      /\ transfers' = transfers /\ fees' = fees /\ cycles' = cycles /\ cycleItems' = cycleItems
  BY DEF vars, controlVars
<1>8. RowsTyped'
  <2>1. records' \in [Source -> Record \cup {NoRecord}]
    BY <1>4, <1>5
  <2> QED
    BY <1>7, <2>1 DEF RowsInv, RowsTyped
<1>9. RowsGrow
  <2>1. RecordsStay
    BY <1>2, <1>6 DEF RecordsStay
  <2> QED
    BY <1>7, <2>1, CyclesUntouched DEF RowsGrow, TxnsStay, CompletedStay, FeesStay, Unused
<1>10. RecordsTrue'
  <2>1. RecordsTrue /\ KnownRequests \subseteq KnownRequests'
    BY <1>9, KnownRequestsStay DEF RowsInv, RowsTrue, RowsGrow
  <2>2. ASSUME NEW q \in Source, records'[q] # NoRecord
        PROVE  \E p \in KnownRequests : p.source = q /\ records'[q] = [mode |-> p.mode, amount |-> p.amount]
    <3>1. CASE q = s
      BY <1>2, <1>3, <1>6, <3>1
    <3>2. CASE q # s
      BY <1>6, <2>1, <2>2, <3>2 DEF RecordsTrue
    <3> QED
      BY <3>1, <3>2
  <2> QED
    BY <2>1, <2>2 DEF RecordsTrue
<1>11. BookingsTrue' /\ HoldsTrue'
  BY <1>7 DEF RowsInv, RowsTrue, BookingsTrue, HoldsTrue, Unused
<1> QED
  BY <1>7, <1>8, <1>9, <1>10, <1>11, RequestsRest, PlatformRests, FeesRest, CyclesRest, CyclesUntouched
  DEF RowsInv, RowsTrue

\* A charge or payout is recorded, or its row found.
LEMMA RecordSourceKeeps ==
    ASSUME RowsInv, ActorsInv, NEW a \in Actor, RecordSource(a), UNCHANGED controlVars
    PROVE  RowsInv' /\ ActorsInv'
<1>1. KnowsAt(a, "record", work[a])
  BY DEF RecordSource, ActorsInv, ActorsKnow, Knows
<1>2. PICK r \in KnownRequests : r = work[a].request
  BY <1>1 DEF KnowsAt
<1>3. RowsInv' /\ RowsGrow
  <2>1. CASE records[r.source] # NoRecord
    <3>1. records' = records
      BY <1>2, <2>1 DEF RecordSource
    <3> QED
      BY <3>1, RowsRest DEF RecordSource, RowsSame, controlVars
  <2>2. CASE records[r.source] = NoRecord
    BY <1>2, <2>2, RecordingKeepsRows DEF RecordSource
  <2> QED
    BY <2>1, <2>2
<1>4. CASE a \in Caller
  BY <1>3, <1>4, ActorDone DEF RecordSource
<1>5. CASE a \notin Caller
  <2>1. KnowsAt(a, "link", work[a]) /\ "link" \in Steps
    BY <1>1, <1>5 DEF KnowsAt, Steps
  <2> QED
    BY <1>3, <1>5, <2>1, ActorGoes DEF RecordSource
<1> QED
  BY <1>4, <1>5

-----------------------------------------------------------------------------
(***************************************************************************)
(* Fees.                                                                   *)
(***************************************************************************)

\* A fee is a natural number of minor units, however it is rounded and capped.
LEMMA FeesTyped ==
    ASSUME NEW s \in Source, NEW rail, NEW amount \in Nat
    PROVE  Totals(s, rail, amount) \subseteq Nat
<1>1. \A x, y \in Nat : x * y \in Nat /\ x + y \in Nat /\ x \div 10000 \in Nat
  <2>1. \A x, y \in Nat : x * y \in Nat
    OBVIOUS
  <2>2. \A x \in Nat : x \div 10000 \in Nat
    OBVIOUS
  <2> QED
    BY <2>1, <2>2
<1>2. ASSUME NEW rule \in Rules
      PROVE  TotalFee(rule, amount) \in Nat
  <2>1. rule.bps \in Nat /\ rule.fixed \in Nat /\ rule.cap \in Nat /\ rule.taxBps \in Nat
    BY FeesAssumption
  <2>2. PICK uncapped \in Nat : uncapped = (amount * rule.bps) \div 10000 + rule.fixed
    <3>1. amount * rule.bps \in Nat
      BY <1>1, <2>1
    <3>2. (amount * rule.bps) \div 10000 \in Nat
      BY <1>1, <3>1
    <3> QED
      BY <2>1, <3>2
  <2>3. PICK fee \in Nat : fee = IF uncapped > rule.cap THEN rule.cap ELSE uncapped
    BY <2>1
  <2>4. (fee * rule.taxBps) \div 10000 \in Nat
    <3>1. fee * rule.taxBps \in Nat
      BY <1>1, <2>1
    <3> QED
      BY <1>1, <3>1
  <2>5. TotalFee(rule, amount) = fee + (fee * rule.taxBps) \div 10000
    BY <2>2, <2>3 DEF TotalFee
  <2> QED
    BY <2>4, <2>5
<1> QED
  BY <1>2 DEF Totals

\* Two entries of different accounts move their two sums and no other.
LEMMA TwoEntriesMove ==
    ASSUME RowsTyped, NEW a \in AllAccounts, NEW b \in AllAccounts, a # b, NEW x \in Int, NEW y \in Int,
           InsertEntries(<<Leg(a, x), Leg(b, y)>>)
    PROVE  /\ ledgerSum' \in [AllAccounts -> Int]
           /\ ledgerSum'[a] = ledgerSum[a] + x /\ ledgerSum'[b] = ledgerSum[b] + y
           /\ \A c \in AllAccounts \ {a, b} : ledgerSum'[c] = ledgerSum[c]
<1>1. ledgerSum \in [AllAccounts -> Int]
  BY DEF RowsTyped
<1>2. ledgerSum' = [[ledgerSum EXCEPT ![a] = @ + x] EXCEPT ![b] = @ + y]
  BY DEF InsertEntries, Inserted, Leg
<1> QED
  BY <1>1, <1>2

\* A fee that is posted is the platform's next.
LEMMA PostingKeepsRows ==
    ASSUME RowsInv, NEW s \in Source, NEW total \in Nat,
           Transfer(AccountOf[s.merchant], PlatformFees, total, FeeKey[s]),
           UNCHANGED <<transfers, records, controlVars>>
    PROVE  RowsInv' /\ RowsGrow /\ FeeIsPosted(s, total)'
<1>1. PICK key \in Key : key = FeeKey[s] /\ \A q \in Source \ {s} : FeeKey[q] # key
  BY KeysAssumption
<1>2. PICK account \in Account : account = AccountOf[s.merchant] /\ account # PlatformFees
  BY MerchantAssumption, FeesAssumption
<1>3. account \in AllAccounts /\ PlatformFees \in AllAccounts /\ total \in Int /\ -total \in Int
  BY FeesAssumption DEF AllAccounts
<1>4. PICK legs : legs = FeeLegs(s, total)
  OBVIOUS
<1>5. legs = <<Leg(account, -total), Leg(PlatformFees, total)>> /\ legs \in Legs
  BY <1>2, <1>3, <1>4, LegsTyped DEF FeeLegs
<1>6. PICK txn : txn = Posted("transfer", legs, LegsRequest("transfer", legs))
  OBVIOUS
<1>7. txn \in Txn /\ txn.legs = legs /\ txn # NoTxn /\ txn.legs[2].amount = total
  <2>1. LegsRequest("transfer", legs) \in Request
    BY <1>5 DEF LegsRequest, Request
  <2>2. txn \in Txn /\ txn.legs = legs /\ txn.state = "posted"
    BY <1>5, <1>6, <2>1 DEF Posted, Txn
  <2> QED
    BY <1>5, <2>2 DEF NoTxn, Leg
<1>8. /\ txns[key] = NoTxn /\ InsertEntries(legs) /\ txns' = [txns EXCEPT ![key] = txn]
      /\ accounts' = accounts /\ holds' = holds /\ heldSum' = heldSum
      /\ transfers' = transfers /\ records' = records
      /\ fees' = fees /\ cycles' = cycles /\ cycleItems' = cycleItems
  BY <1>1, <1>2, <1>5, <1>6 DEF Transfer, PostTransaction, Unused, controlVars
<1>9. txns \in [Key -> Txn \cup {NoTxn}]
  BY DEF RowsInv, RowsTyped
<1>10. txns'[key] = txn /\ \A k \in Key \ {key} : txns'[k] = txns[k]
  BY <1>8, <1>9
<1>11. ledgerSum' \in [AllAccounts -> Int] /\ ledgerSum'[PlatformFees] = ledgerSum[PlatformFees] + total
  BY <1>2, <1>3, <1>5, <1>8, TwoEntriesMove DEF RowsInv
<1>12. RowsTyped'
  BY <1>7, <1>8, <1>9, <1>11 DEF RowsInv, RowsTyped
<1>13. RowsGrow
  <2>1. TxnsStay
    BY <1>8, <1>10 DEF TxnsStay, Unused
  <2> QED
    BY <1>8, <2>1, CyclesUntouched DEF RowsGrow, CompletedStay, RecordsStay, FeesStay
<1>14. BookingsTrue' /\ HoldsTrue'
  <2>1. \A k \in TransferKey : txns'[k] = txns[k]
    BY <1>1, <1>10, KeysAssumption, MerchantAssumption
  <2> QED
    BY <1>8, <2>1 DEF RowsInv, RowsTrue, BookingsTrue, HoldsTrue, Unused
<1>15. \A q \in Source \ {s} : txns'[FeeKey[q]] = txns[FeeKey[q]]
  BY <1>1, <1>10, KeysAssumption
<1>16. FeeTxnsTrue'
  <2>1. FeeTxnsTrue
    BY DEF RowsInv, RowsTrue
  <2>2. \A q \in Source \ {s} : ~Unused(FeeKey[q])' =>
          LET amount == txns'[FeeKey[q]].legs[2].amount
          IN  amount \in Nat /\ txns'[FeeKey[q]] = FeeTxn(q, amount)
    BY <1>15, <2>1 DEF FeeTxnsTrue, Unused
  <2>3. txns'[FeeKey[s]].legs[2].amount = total /\ txns'[FeeKey[s]] = FeeTxn(s, total)
    BY <1>1, <1>4, <1>6, <1>7, <1>10 DEF FeeTxn
  <2> QED
    BY <2>2, <2>3 DEF FeeTxnsTrue, FeeTxn, FeeLegs
<1>17. PlatformAddsUp'
  <2>1. s \notin PostedFees /\ PostedFees' = PostedFees \cup {s}
    BY <1>1, <1>7, <1>8, <1>10, <1>15 DEF PostedFees, Unused
  <2>2. /\ IsFiniteSet(PostedFees)
        /\ ledgerSum[PlatformFees] = SumFunction([q \in PostedFees |-> txns[FeeKey[q]].legs[2].amount])
    BY DEF RowsInv, RowsTrue, PlatformAddsUp
  <2>3. PICK f : f = [q \in PostedFees |-> txns[FeeKey[q]].legs[2].amount]
    OBVIOUS
  <2>4. PICK g : g = [q \in PostedFees \cup {s} |-> txns'[FeeKey[q]].legs[2].amount]
    OBVIOUS
  <2>5. \A q \in PostedFees : f[q] = g[q] /\ f[q] \in Nat
    <3>1. \A q \in PostedFees : txns[FeeKey[q]].legs[2].amount \in Nat
      BY DEF RowsInv, RowsTrue, FeeTxnsTrue, PostedFees
    <3>2. \A q \in PostedFees : txns'[FeeKey[q]] = txns[FeeKey[q]]
      BY <1>15, <2>1 DEF PostedFees
    <3> QED
      BY <2>3, <2>4, <3>1, <3>2
  <2>6. g[s] = total
    BY <1>1, <1>7, <1>10, <2>4
  <2>7. ledgerSum[PlatformFees] = SumFunctionOnSet(f, PostedFees)
    <3>1. DOMAIN f = PostedFees
      BY <2>3
    <3> QED
      BY <2>2, <2>3, <3>1 DEF SumFunction
  <2>8. SumFunctionOnSet(g, PostedFees) = SumFunctionOnSet(f, PostedFees)
    BY <2>2, <2>5, SumsSame
  <2>9. SumFunctionOnSet(g, PostedFees \cup {s}) = SumFunctionOnSet(g, PostedFees) + g[s]
    <3>1. \A q \in PostedFees \cup {s} : g[q] \in Int
      BY <2>5, <2>6
    <3> QED
      BY <2>1, <2>2, <3>1, SumWithOneMore
  <2>10. SumFunction(g) = ledgerSum'[PlatformFees]
    <3>1. DOMAIN g = PostedFees \cup {s}
      BY <2>4
    <3> QED
      BY <1>11, <2>6, <2>7, <2>8, <2>9, <3>1 DEF SumFunction
  <2>11. IsFiniteSet(PostedFees \cup {s})
    BY <2>2, FS_AddElement
  <2> QED
    BY <2>1, <2>4, <2>10, <2>11 DEF PlatformAddsUp
<1>18. FeeIsPosted(s, total)'
  BY <1>1, <1>4, <1>7, <1>10 DEF FeeIsPosted, Unused, FeeLegs
<1> QED
  BY <1>8, <1>12, <1>13, <1>14, <1>16, <1>17, <1>18, RequestsRest, FeesRest, CyclesRest, CyclesUntouched
  DEF RowsInv, RowsTrue, RowsGrow

\* What is known of a source whose fee is posted is enough to record it.
LEMMA InsertComesNext ==
    ASSUME RowsInv, RowsGrow, ActorsInv, NEW i \in Instance, step[i] = "post",
           NEW total \in Nat, Insert(i, total),
           NEW s \in Source, s = work[i].item, FeeIsPosted(s, total)'
    PROVE  ActorsInv'
<1>1. PICK w \in WorkRow : w = work[i]
  BY InstancesAct DEF ActorsInv, ActorsTyped
<1>2. KnowsAt(i, "post", w)
  BY <1>1, InstancesAct DEF ActorsInv, ActorsKnow, Knows
<1>3. PICK todo : todo = [w EXCEPT !.total = total]
  OBVIOUS
<1>4. /\ todo \in WorkRow /\ todo.total = total
      /\ todo.item = w.item /\ todo.queue = w.queue /\ todo.duty = w.duty
  BY <1>3 DEF WorkRow
<1>5. s = w.item
  BY <1>1
<1>6. KnowsAt(i, "post", w)'
  BY <1>2, KnowledgeLasts
<1>7. KnowsAt(i, "insert", todo)'
  BY <1>4, <1>5, <1>6, InstancesAct DEF KnowsAt
<1>8. GotoWith(i, "insert", todo) /\ "insert" \in Steps
  BY <1>1, <1>3 DEF Insert, Steps
<1> QED
  BY <1>4, <1>7, <1>8, ActorMoves, InstancesAct

\* The fee is posted, answered from the key's response, or put off.
LEMMA PostFeeKeeps ==
    ASSUME RowsInv, ActorsInv, NEW i \in Instance, PostFee(i)
    PROVE  RowsInv' /\ ActorsInv'
<1>1. PICK s \in Source : s = work[i].item /\ Feeing(s)
  BY InstancesAct DEF PostFee, ActorsInv, ActorsKnow, Knows, KnowsAt, Feeing
<1>2. PICK rail : rail = transfers[s.key].rail
  OBVIOUS
<1>3. PICK amount \in Nat : amount = records[s].amount
  BY <1>1 DEF Feeing, RowsInv, RowsTyped, Record
<1>4. Totals(s, rail, amount) \subseteq Nat
  BY FeesTyped
<1>5. PICK total \in Nat :
        LET legs == FeeLegs(s, total)
            replayed == ~Unused(FeeKey[s]) /\ txns[FeeKey[s]].request = LegsRequest("transfer", legs)
        IN  \/ total = 0 /\ Insert(i, total) /\ UNCHANGED vars
            \/ total > 0 /\ Transfer(AccountOf[s.merchant], PlatformFees, total, FeeKey[s]) /\ Insert(i, total)
            \/ total > 0 /\ replayed /\ Insert(i, total) /\ UNCHANGED vars
            \/ Done(i) /\ UNCHANGED vars
  BY <1>1, <1>2, <1>3, <1>4 DEF PostFee
<1>6. step[i] = "post" /\ UNCHANGED <<transfers, records, controlVars>>
  BY DEF PostFee
<1>7. ASSUME UNCHANGED vars
      PROVE  RowsInv' /\ RowsGrow
  BY <1>6, <1>7, RowsRest DEF RowsSame, controlVars
<1>8. CASE total = 0 /\ Insert(i, total) /\ UNCHANGED vars
  <2>1. FeeIsPosted(s, total)'
    BY <1>8 DEF FeeIsPosted
  <2> QED
    BY <1>1, <1>6, <1>7, <1>8, <2>1, InsertComesNext
<1>9. CASE Transfer(AccountOf[s.merchant], PlatformFees, total, FeeKey[s]) /\ Insert(i, total)
  <2>1. RowsInv' /\ RowsGrow /\ FeeIsPosted(s, total)'
    BY <1>6, <1>9, PostingKeepsRows
  <2> QED
    BY <1>1, <1>6, <1>9, <2>1, InsertComesNext
<1>10. CASE /\ ~Unused(FeeKey[s]) /\ txns[FeeKey[s]].request = LegsRequest("transfer", FeeLegs(s, total))
            /\ Insert(i, total) /\ UNCHANGED vars
  <2>1. PICK posted : txns[FeeKey[s]] = FeeTxn(s, posted)
    BY <1>10 DEF RowsInv, RowsTrue, FeeTxnsTrue
  <2>2. /\ txns[FeeKey[s]].legs = FeeLegs(s, posted)
        /\ txns[FeeKey[s]].request = LegsRequest("transfer", FeeLegs(s, posted))
    BY <2>1 DEF FeeTxn, Posted
  <2>3. FeeLegs(s, posted) = FeeLegs(s, total)
    <3>1. PICK x, y : x = FeeLegs(s, posted) /\ y = FeeLegs(s, total)
      OBVIOUS
    <3>2. LegsRequest("transfer", x) = LegsRequest("transfer", y)
      BY <1>10, <2>2, <3>1
    <3>3. LegsRequest("transfer", x)[3] = x /\ LegsRequest("transfer", y)[3] = y
      BY DEF LegsRequest
    <3> QED
      BY <3>1, <3>2, <3>3
  <2>4. FeeIsPosted(s, total)
    BY <1>10, <2>2, <2>3 DEF FeeIsPosted
  <2>5. FeeIsPosted(s, total)'
    BY <1>7, <1>10, <2>4, TruthsStay
  <2> QED
    BY <1>1, <1>6, <1>7, <1>10, <2>5, InsertComesNext
<1>11. CASE Done(i) /\ UNCHANGED vars
  BY <1>7, <1>11, ActorDone, InstancesAct
<1> QED
  BY <1>5, <1>8, <1>9, <1>10, <1>11

\* A fee that is recorded is that of a transfer that completed.
LEMMA FeeingKeepsRows ==
    ASSUME RowsInv, NEW s \in Source, Feeing(s), NEW total \in Nat, FeeIsPosted(s, total), fees[s] = NoFee,
           fees' = [fees EXCEPT ![s] = [recorded |-> TRUE, total |-> total]],
           UNCHANGED <<vars, transfers, records, cycles, cycleItems>>
    PROVE  RowsInv' /\ RowsGrow
<1>1. /\ accounts' = accounts /\ txns' = txns /\ holds' = holds /\ ledgerSum' = ledgerSum /\ heldSum' = heldSum
      /\ transfers' = transfers /\ records' = records /\ cycles' = cycles /\ cycleItems' = cycleItems
  BY DEF vars
<1>2. fees \in [Source -> [recorded : BOOLEAN, total : Nat]]
  BY DEF RowsInv, RowsTyped
<1>3. fees'[s].total = total /\ \A q \in Source \ {s} : fees'[q] = fees[q]
  BY <1>2
<1>4. RowsTyped'
  <2>1. fees' \in [Source -> [recorded : BOOLEAN, total : Nat]]
    BY <1>2
  <2> QED
    BY <1>1, <2>1 DEF RowsInv, RowsTyped
<1>5. RowsGrow
  <2>1. FeesStay
    BY <1>3 DEF FeesStay
  <2> QED
    BY <1>1, <2>1, CyclesUntouched DEF RowsGrow, TxnsStay, CompletedStay, RecordsStay, Unused
<1>6. FeesTrue'
  <2>1. FeesTrue
    BY DEF RowsInv, RowsTrue
  <2>2. IsFiniteSet({q \in Source : fees'[q] # NoFee})
    <3>1. {q \in Source : fees'[q] # NoFee} \subseteq {q \in Source : fees[q] # NoFee} \cup {s}
      BY <1>3
    <3>2. IsFiniteSet({q \in Source : fees[q] # NoFee} \cup {s})
      BY <2>1, FS_AddElement DEF FeesTrue
    <3> QED
      BY <3>1, <3>2, FS_Subset
  <2>3. ASSUME NEW q \in Source, fees'[q] # NoFee
        PROVE  Feeing(q)' /\ FeeIsPosted(q, fees'[q].total)
    <3>1. Feeing(q) /\ FeeIsPosted(q, fees'[q].total)
      BY <1>3, <2>1, <2>3 DEF FeesTrue
    <3> QED
      BY <1>1, <3>1 DEF Feeing
  <2>4. \A q \in Source : FeeIsPosted(q, fees[q].total)' <=> FeeIsPosted(q, fees'[q].total)
    BY <1>1 DEF FeeIsPosted, Unused
  <2> QED
    BY <2>2, <2>3, <2>4 DEF FeesTrue
<1>7. BookingsTrue' /\ HoldsTrue'
  BY <1>1 DEF RowsInv, RowsTrue, BookingsTrue, HoldsTrue, Unused
<1> QED
  BY <1>1, <1>4, <1>5, <1>6, <1>7, RequestsRest, PlatformRests, CyclesRest, CyclesUntouched
  DEF RowsInv, RowsTrue

\* The fee is recorded, or was by another instance.
LEMMA InsertFeeKeeps ==
    ASSUME RowsInv, ActorsInv, NEW i \in Instance, InsertFee(i)
    PROVE  RowsInv' /\ ActorsInv'
<1>1. PICK s \in Source, total \in Nat :
        s = work[i].item /\ total = work[i].total /\ Feeing(s) /\ FeeIsPosted(s, total)
  <2>1. work[i] \in WorkRow /\ KnowsAt(i, "insert", work[i])
    BY InstancesAct DEF InsertFee, ActorsInv, ActorsTyped, ActorsKnow, Knows
  <2>2. work[i].total \in Nat
    BY <2>1 DEF WorkRow
  <2> QED
    BY <2>1, <2>2 DEF KnowsAt, Feeing
<1>2. RowsInv' /\ RowsGrow
  <2>1. CASE fees[s] # NoFee
    <3>1. fees' = fees
      BY <1>1, <2>1 DEF InsertFee
    <3> QED
      BY <3>1, RowsRest DEF InsertFee, RowsSame
  <2>2. CASE fees[s] = NoFee
    BY <1>1, <2>2, FeeingKeepsRows DEF InsertFee
  <2> QED
    BY <2>1, <2>2
<1> QED
  BY <1>2, ActorDone, InstancesAct DEF InsertFee

-----------------------------------------------------------------------------
(***************************************************************************)
(* Cycles.                                                                 *)
(***************************************************************************)

\* The next cycle's id is not one that is taken.
LEMMA FreshCycleIsNext ==
    ASSUME RowsInv, FreshCycle \in Cycle
    PROVE  \E n \in 0..MaxCycle : LiveCycles = 1..n /\ FreshCycle = n + 1 /\ n + 1 \in 0..MaxCycle
<1>1. PICK n \in 0..MaxCycle : LiveCycles = 1..n
  BY DEF RowsInv, RowsTrue, CyclesTrue
<1>2. Cardinality(1..n) = n
  BY <1>1, FS_Interval, BoundsAssumption
<1>3. FreshCycle = n + 1
  <2>1. FreshCycle = 1 + Cardinality(LiveCycles)
    BY DEF FreshCycle, LiveCycles
  <2> QED
    BY <1>1, <1>2, <2>1
<1> QED
  BY <1>1, <1>3, BoundsAssumption DEF Cycle

\* What is held in reserve is a part of the net.
LEMMA ReserveIsPart ==
    ASSUME NEW m \in Merchant, NEW net \in Nat
    PROVE  Reserve(m, net) \in 0..net
<1>1. PICK bps \in 0..10000 : bps = ReserveBps[m]
  BY ConfigAssumption
<1>2. PICK x : x = net * bps
  OBVIOUS
<1>3. x \in Nat /\ x <= net * 10000
  <2>1. \A b, c \in Nat : net * b \in Nat /\ net * (b + c) = net * b + net * c
    OBVIOUS
  <2>2. PICK rest \in Nat : bps + rest = 10000
    <3>1. 10000 - bps \in Nat /\ bps + (10000 - bps) = 10000
      OBVIOUS
    <3> QED
      BY <3>1
  <2>3. net * 10000 = x + net * rest
    BY <1>2, <2>1, <2>2
  <2> QED
    BY <1>2, <2>1, <2>3
<1>4. x \div 10000 \in 0..net
  BY <1>3
<1> QED
  BY <1>1, <1>2, <1>4 DEF Reserve

\* A cycle of settleable charges is typed, and its reserve is a part of its net.
LEMMA NewCycleTyped ==
    ASSUME RowsInv, NEW m \in Merchant, NEW charges, IsFiniteSet(charges),
           \A s \in charges : Settleable(s, m), Net(charges) >= 0
    PROVE  /\ NewCycle(m, charges) \in CycleRow
           /\ NewCycle(m, charges).merchant = m
           /\ NewCycle(m, charges).gross = Gross(charges) /\ NewCycle(m, charges).fees = FeesTotal(charges)
           /\ NewCycle(m, charges).net = Gross(charges) - FeesTotal(charges)
           /\ NewCycle(m, charges).reserve \in 0..NewCycle(m, charges).net
<1>1. \A s \in charges : records[s].amount \in Nat /\ fees[s].total \in Nat
  BY DEF Settleable, RowsInv, RowsTyped, Record
<1>2. Gross(charges) \in Nat
  <2>1. PICK f : f = [s \in charges |-> records[s].amount]
    OBVIOUS
  <2>2. DOMAIN f = charges /\ \A s \in charges : f[s] \in Nat
    BY <1>1, <2>1
  <2> QED
    BY <2>1, <2>2, SumOfNats DEF Gross, SumFunction
<1>3. FeesTotal(charges) \in Nat
  <2>1. PICK f : f = [s \in charges |-> fees[s].total]
    OBVIOUS
  <2>2. DOMAIN f = charges /\ \A s \in charges : f[s] \in Nat
    BY <1>1, <2>1
  <2> QED
    BY <2>1, <2>2, SumOfNats DEF FeesTotal, SumFunction
<1>4. PICK net \in Nat : net = Net(charges) /\ net = Gross(charges) - FeesTotal(charges)
  BY <1>2, <1>3 DEF Net
<1>5. PICK gross \in Nat, total \in Nat : gross = Gross(charges) /\ total = FeesTotal(charges)
  BY <1>2, <1>3
<1>6. PICK reserve \in 0..net : reserve = Reserve(m, net)
  BY ReserveIsPart
<1>7. NewCycle(m, charges) =
        [merchant |-> m, gross |-> gross, fees |-> total, net |-> net, reserve |-> reserve,
         linked |-> FALSE, matured |-> FALSE, released |-> FALSE]
  BY <1>4, <1>5, <1>6 DEF NewCycle
<1> QED
  BY <1>4, <1>5, <1>6, <1>7 DEF CycleRow

\* A new cycle is the sum of its charges, and no other has any of them.
LEMMA SettlingKeepsRows ==
    ASSUME RowsInv, NEW m \in Merchant, NEW charges, IsFiniteSet(charges),
           \A s \in charges : Settleable(s, m), Net(charges) >= 0, charges \cap Settled = {},
           FreshCycle \in Cycle,
           cycles' = [cycles EXCEPT ![FreshCycle] = NewCycle(m, charges)],
           cycleItems' = cycleItems \cup ({FreshCycle} \X charges),
           UNCHANGED <<vars, transfers, records, fees>>
    PROVE  RowsInv' /\ RowsGrow /\ cycles'[FreshCycle] = NewCycle(m, charges) /\ FreshCycle \in LiveCycles'
<1>1. PICK y \in Cycle : y = FreshCycle
  OBVIOUS
<1>2. PICK n \in 0..MaxCycle : LiveCycles = 1..n /\ y = n + 1 /\ n + 1 \in 0..MaxCycle
  BY <1>1, FreshCycleIsNext
<1>3. y \notin LiveCycles
  BY <1>2
<1>4. PICK row \in CycleRow :
        /\ row = NewCycle(m, charges) /\ row.merchant = m
        /\ row.gross = Gross(charges) /\ row.fees = FeesTotal(charges)
        /\ row.net = row.gross - row.fees /\ row.reserve \in 0..row.net
  BY NewCycleTyped
<1>5. \A c \in CycleRow : c # NoCycle
  <2>1. \A c \in CycleRow : c.merchant \in Merchant /\ DOMAIN c # DOMAIN NoCycle
    BY DEF CycleRow, NoCycle
  <2> QED
    BY <2>1
<1>6. cycles \in [Cycle -> CycleRow \cup {NoCycle}] /\ cycles' = [cycles EXCEPT ![y] = row]
  BY <1>1, <1>4 DEF RowsInv, RowsTyped
<1>7. cycles'[y] = row /\ \A z \in Cycle \ {y} : cycles'[z] = cycles[z]
  BY <1>6
<1>8. LiveCycles' = LiveCycles \cup {y}
  BY <1>3, <1>5, <1>7 DEF LiveCycles
<1>9. /\ accounts' = accounts /\ txns' = txns /\ holds' = holds /\ ledgerSum' = ledgerSum /\ heldSum' = heldSum
      /\ transfers' = transfers /\ records' = records /\ fees' = fees
  BY DEF vars
<1>10. charges \subseteq Source
  BY DEF Settleable
<1>11. cycleItems' = cycleItems \cup ({y} \X charges) /\ cycleItems \subseteq Cycle \X Source
  BY <1>1 DEF RowsInv, RowsTyped
<1>12. RowsTyped'
  <2>1. cycles' \in [Cycle -> CycleRow \cup {NoCycle}]
    BY <1>6
  <2>2. cycleItems' \subseteq Cycle \X Source
    BY <1>10, <1>11
  <2> QED
    BY <1>9, <2>1, <2>2 DEF RowsInv, RowsTyped
<1>13. CyclesStay
  <2>1. \A z \in LiveCycles : z \in Cycle \ {y} /\ cycles[z] # NoCycle
    BY <1>3 DEF LiveCycles
  <2> QED
    BY <1>7, <2>1 DEF CyclesStay, SameCycle
<1>14. RowsGrow
  BY <1>9, <1>13 DEF RowsGrow, TxnsStay, CompletedStay, RecordsStay, FeesStay, Unused
<1>15. \A z \in LiveCycles : z # y /\ cycles'[z] = cycles[z]
  BY <1>3, <1>7 DEF LiveCycles
<1>16. CyclesTrue'
  <2>1. LiveCycles' = 1..(n + 1)
    BY <1>2, <1>8
  <2>2. \A z \in LiveCycles :
          cycles'[z].net = cycles'[z].gross - cycles'[z].fees /\ cycles'[z].reserve \in 0..cycles'[z].net
    BY <1>15 DEF RowsInv, RowsTrue, CyclesTrue
  <2> QED
    BY <1>2, <1>4, <1>7, <1>8, <2>1, <2>2 DEF CyclesTrue
<1>17. ItemsTrue
  BY DEF RowsInv, RowsTrue
<1>18. \A p \in {y} \X charges : p[1] = y /\ p[2] \in charges /\ p = <<y, p[2]>>
  OBVIOUS
<1>19. ItemsTrue'
  <2>1. IsFiniteSet(cycleItems')
    <3>1. IsFiniteSet({y} \X charges)
      BY FS_Product, FS_Singleton
    <3>2. IsFiniteSet(cycleItems)
      BY <1>17 DEF ItemsTrue
    <3>3. IsFiniteSet(cycleItems \cup ({y} \X charges))
      BY <3>1, <3>2, FS_Union
    <3> QED
      BY <1>11, <3>3
  <2>2. ASSUME NEW p \in cycleItems
        PROVE  p[1] \in LiveCycles' /\ Settleable(p[2], cycles[p[1]].merchant)'
    <3>1. p[1] \in LiveCycles /\ Settleable(p[2], cycles[p[1]].merchant)
      BY <1>17 DEF ItemsTrue
    <3> QED
      BY <1>8, <1>9, <1>15, <3>1 DEF Settleable, Unused
  <2>3. ASSUME NEW p \in {y} \X charges
        PROVE  p[1] \in LiveCycles' /\ Settleable(p[2], cycles[p[1]].merchant)'
    <3>1. cycles'[p[1]].merchant = m /\ Settleable(p[2], m)
      BY <1>4, <1>7, <1>18
    <3> QED
      BY <1>8, <1>9, <1>18, <3>1 DEF Settleable, Unused
  <2>4. ASSUME NEW p \in cycleItems', NEW q \in cycleItems', p[2] = q[2]
        PROVE  p = q
    <3>1. \A r \in cycleItems : r[2] \notin charges
      BY DEF Settled
    <3>2. CASE p \in cycleItems /\ q \in cycleItems
      BY <1>17, <2>4, <3>2 DEF ItemsTrue
    <3>3. CASE p \in {y} \X charges /\ q \in {y} \X charges
      BY <1>18, <2>4, <3>3
    <3> QED
      BY <1>11, <1>18, <2>4, <3>1, <3>2, <3>3
  <2>5. \A p \in cycleItems' : p[1] \in LiveCycles' /\ Settleable(p[2], cycles[p[1]].merchant)'
    BY <1>11, <2>2, <2>3
  <2> QED
    BY <2>1, <2>4, <2>5 DEF ItemsTrue
<1>20. CycleSums'
  <2>1. ASSUME NEW z \in LiveCycles
        PROVE  cycles'[z].gross = Gross(ChargesOf(z))' /\ cycles'[z].fees = FeesTotal(ChargesOf(z))'
    <3>1. ChargesOf(z)' = ChargesOf(z)
      BY <1>11, <1>15, <1>18 DEF ChargesOf
    <3>2. Gross(ChargesOf(z))' = Gross(ChargesOf(z)) /\ FeesTotal(ChargesOf(z))' = FeesTotal(ChargesOf(z))
      BY <1>9, <3>1 DEF Gross, FeesTotal
    <3> QED
      BY <1>15, <3>2 DEF RowsInv, RowsTrue, CycleSums
  <2>2. cycles'[y].gross = Gross(ChargesOf(y))' /\ cycles'[y].fees = FeesTotal(ChargesOf(y))'
    <3>1. \A p \in cycleItems : p[1] # y
      BY <1>3, <1>17 DEF ItemsTrue
    <3>2. {p \in cycleItems' : p[1] = y} = {y} \X charges
      BY <1>11, <1>18, <3>1
    <3>3. ChargesOf(y)' = charges
      <4>1. \A s \in charges : <<y, s>> \in {y} \X charges /\ <<y, s>>[2] = s
        OBVIOUS
      <4> QED
        BY <1>18, <3>2, <4>1 DEF ChargesOf
    <3>4. Gross(ChargesOf(y))' = Gross(charges) /\ FeesTotal(ChargesOf(y))' = FeesTotal(charges)
      BY <1>9, <3>3 DEF Gross, FeesTotal
    <3> QED
      BY <1>4, <1>7, <3>4
  <2> QED
    BY <1>8, <2>1, <2>2 DEF CycleSums
<1>21. BookingsTrue' /\ HoldsTrue'
  BY <1>9 DEF RowsInv, RowsTrue, BookingsTrue, HoldsTrue, Unused
<1>22. RowsTrue'
  BY <1>9, <1>13, <1>14, <1>16, <1>19, <1>20, <1>21, RequestsRest, PlatformRests, FeesRest
  DEF RowsInv, RowsTrue
<1> QED
  BY <1>1, <1>4, <1>7, <1>8, <1>12, <1>14, <1>22 DEF RowsInv

\* The cycle is inserted with its charges, or the transaction rolls back.
LEMMA InsertCycleKeeps ==
    ASSUME RowsInv, ActorsInv, NEW i \in Instance, InsertCycle(i)
    PROVE  RowsInv' /\ ActorsInv'
<1>1. PICK w \in WorkRow : w = work[i] /\ KnowsAt(i, "cycle", w)
  BY InstancesAct DEF InsertCycle, ActorsInv, ActorsTyped, ActorsKnow, Knows
<1>2. PICK m \in Merchant, charges \in SUBSET Source :
        /\ m = w.item /\ charges = w.charges
        /\ IsFiniteSet(charges) /\ \A s \in charges : Settleable(s, m)
  BY <1>1 DEF KnowsAt, WorkRow
<1>3. PICK y, row : y = FreshCycle /\ row = NewCycle(m, charges)
  OBVIOUS
<1>4. UNCHANGED <<vars, transfers, records, fees, due>>
  BY DEF InsertCycle
<1>5. CASE Done(i) /\ UNCHANGED <<cycles, cycleItems>>
  <2>1. RowsInv' /\ RowsGrow
    BY <1>4, <1>5, RowsRest DEF RowsSame
  <2> QED
    BY <1>5, <2>1, ActorDone, InstancesAct
<1>6. CASE /\ row.net >= 0 /\ charges \cap Settled = {} /\ y \in Cycle
           /\ cycles' = [cycles EXCEPT ![y] = row]
           /\ cycleItems' = cycleItems \cup ({y} \X charges)
           /\ IF row.net - row.reserve > 0
              THEN GotoWith(i, "lookup",
                     [w EXCEPT !.item = y,
                               !.request = PayoutRequest(y, m, SettlementKey, row.net - row.reserve)])
              ELSE Done(i)
  <2>1. Net(charges) >= 0
    BY <1>3, <1>6 DEF NewCycle
  <2>2. RowsInv' /\ RowsGrow /\ cycles'[y] = row /\ y \in LiveCycles'
    BY <1>2, <1>3, <1>4, <1>6, <2>1, SettlingKeepsRows
  <2>3. CASE Done(i)
    BY <2>2, <2>3, ActorDone, InstancesAct
  <2>4. CASE GotoWith(i, "lookup",
               [w EXCEPT !.item = y, !.request = PayoutRequest(y, m, SettlementKey, row.net - row.reserve)])
    <3>1. PICK request : request = PayoutRequest(y, m, SettlementKey, row.net - row.reserve)
      OBVIOUS
    <3>2. row.merchant = m
      BY <1>2, <1>3, <2>1, NewCycleTyped
    <3>3. SettlementRequest(y)' = request
      BY <2>2, <3>1, <3>2 DEF SettlementRequest, PayoutRequest
    <3>4. request \in KnownRequests'
      <4>1. SettlementRequest(y)' \in {SettlementRequest(z) : z \in LiveCycles}'
        BY <2>2
      <4> QED
        BY <3>3, <4>1 DEF KnownRequests
    <3>5. RequestRow' = RequestRow /\ request \in RequestRow
      <4>1. RequestRow' = RequestRow
        BY DEF RequestRow, Mode
      <4>2. row.net - row.reserve \in Nat
        BY <1>2, <1>3, <2>1, NewCycleTyped DEF CycleRow
      <4>3. CycleSource(y, m, SettlementKey) \in Source
        BY <1>6, KeysAssumption
      <4>4. \A s \in Source, x \in Nat :
              [source |-> s, mode |-> "live", rail |-> "instant", amount |-> x] \in RequestRow
        <5>1. "live" \in Mode /\ "instant" \in Rail
          BY ConfigAssumption DEF Mode
        <5> QED
          BY <5>1 DEF RequestRow
      <4> QED
        BY <3>1, <4>1, <4>2, <4>3, <4>4 DEF PayoutRequest
    <3>6. PICK todo : todo = [w EXCEPT !.item = y, !.request = request]
      OBVIOUS
    <3>7. /\ todo \in WorkRow /\ todo.item = y /\ todo.request = request
          /\ todo.queue = w.queue /\ todo.duty = w.duty
      BY <1>6, <3>5, <3>6 DEF WorkRow, Thing
    <3>8. KnowsAt(i, "cycle", w)'
      BY <1>1, <2>2, KnowledgeLasts
    <3>9. KnowsAt(i, "lookup", todo)'
      BY <2>2, <3>4, <3>7, <3>8, InstancesAct DEF KnowsAt
    <3>10. GotoWith(i, "lookup", todo) /\ "lookup" \in Steps
      BY <2>4, <3>1, <3>6 DEF Steps
    <3> QED
      BY <2>2, <3>7, <3>9, <3>10, ActorMoves, InstancesAct
  <2> QED
    BY <1>6, <2>3, <2>4
<1> QED
  BY <1>1, <1>2, <1>3, <1>5, <1>6 DEF InsertCycle

-----------------------------------------------------------------------------
(***************************************************************************)
(* Transfers that complete, fail or are reversed.                          *)
(***************************************************************************)

\* A hold that is resolved keeps its account.
LEMMA ResolvingTyped ==
    ASSUME RowsInv, NEW h \in HoldId, NEW target \in {"released", "captured"}, ResolveHold(h, target)
    PROVE  /\ holds' \in [HoldId -> [status : {"active", "released", "captured"}, account : Account, amount : Nat]
                                      \cup {NoHold}]
           /\ heldSum' \in [AllAccounts -> Int] /\ HoldsTrue'
           /\ holds[h].account \in Account /\ holds[h].account # PlatformFees /\ holds[h].amount \in Nat
<1> DEFINE Row == [status : {"active", "released", "captured"}, account : Account, amount : Nat]
<1>1. holds \in [HoldId -> Row \cup {NoHold}] /\ heldSum \in [AllAccounts -> Int]
  BY DEF RowsInv, RowsTyped
<1>2. holds[h] \in Row /\ holds[h] # NoHold
  BY <1>1 DEF ResolveHold, NoHold
<1>3. holds[h].account \in Account /\ holds[h].account # PlatformFees /\ holds[h].amount \in Nat
  BY <1>2 DEF RowsInv, RowsTrue, HoldsTrue
<1>4. PICK row \in Row : row.account = holds[h].account /\ holds' = [holds EXCEPT ![h] = row]
  <2>1. PICK row : row = [holds[h] EXCEPT !.status = target]
    OBVIOUS
  <2>2. row \in Row /\ row.account = holds[h].account
    BY <1>2, <2>1
  <2> QED
    BY <2>1, <2>2 DEF ResolveHold
<1>5. holds' \in [HoldId -> Row \cup {NoHold}]
  BY <1>1, <1>4
<1>6. heldSum' \in [AllAccounts -> Int]
  BY <1>1, <1>3 DEF ResolveHold, AllAccounts
<1>7. HoldsTrue'
  BY <1>1, <1>3, <1>4 DEF RowsInv, RowsTrue, HoldsTrue
<1> QED
  BY <1>3, <1>5, <1>6, <1>7

\* Entries between a merchant's account and the outside leave the platform's
\* sum as it is.
LEMMA OutsideEntries ==
    ASSUME RowsTyped, NEW a \in AllAccounts, NEW b \in AllAccounts, a # b,
           a # PlatformFees, b # PlatformFees, NEW x \in Int, NEW y \in Int,
           InsertEntries(<<Leg(a, x), Leg(b, y)>>)
    PROVE  ledgerSum' \in [AllAccounts -> Int] /\ ledgerSum'[PlatformFees] = ledgerSum[PlatformFees]
<1>1. PlatformFees \in AllAccounts \ {a, b}
  BY FeesAssumption DEF AllAccounts
<1> QED
  BY <1>1, TwoEntriesMove

\* A transfer's status is not what its request says of it.
LEMMA StatusKeepsTransfers ==
    ASSUME RowsInv, NEW k \in TransferKey, transfers[k].status = "pending",
           NEW status \in {"completed", "failed"},
           transfers' = [transfers EXCEPT ![k].status = status],
           UNCHANGED <<records, controlVars>>
    PROVE  /\ transfers' \in [TransferKey -> TransferRow \cup {NoTransfer}]
           /\ TransfersTrue' /\ CompletedStay /\ transfers[k] \in TransferRow
           /\ transfers'[k].status = status /\ transfers'[k].account = transfers[k].account
           /\ transfers'[k].direction = transfers[k].direction /\ transfers'[k].amount = transfers[k].amount
           /\ \A j \in TransferKey \ {k} : transfers'[j] = transfers[j]
<1>1. transfers \in [TransferKey -> TransferRow \cup {NoTransfer}]
  BY DEF RowsInv, RowsTyped
<1>2. transfers[k] \in TransferRow /\ transfers[k] # NoTransfer
  BY <1>1 DEF NoTransfer
<1>3. PICK row \in TransferRow :
        /\ row.status = status /\ row.account = transfers[k].account
        /\ row.direction = transfers[k].direction /\ row.amount = transfers[k].amount
        /\ transfers' = [transfers EXCEPT ![k] = row]
  <2>1. PICK row : row = [transfers[k] EXCEPT !.status = status]
    OBVIOUS
  <2>2. /\ row \in TransferRow /\ row.status = status /\ row.account = transfers[k].account
        /\ row.direction = transfers[k].direction /\ row.amount = transfers[k].amount
    BY <1>2, <2>1 DEF TransferRow
  <2> QED
    BY <2>1, <2>2
<1>4. transfers'[k] = row /\ \A j \in TransferKey \ {k} : transfers'[j] = transfers[j]
  BY <1>1, <1>3
<1>5. transfers' \in [TransferKey -> TransferRow \cup {NoTransfer}]
  BY <1>1, <1>3
<1>6. KnownRequests' = KnownRequests
  BY DEF controlVars, KnownRequests, LiveCycles, SettlementRequest, ReserveRequest
<1>7. TransfersTrue'
  <2>1. TransfersTrue
    BY DEF RowsInv, RowsTrue
  <2>2. ASSUME NEW j \in TransferKey, transfers'[j] # NoTransfer
        PROVE  \E r \in KnownRequests : SentFor(j, r)'
    <3>1. transfers[j] # NoTransfer
      BY <1>2, <1>4, <2>2
    <3>2. PICK r \in KnownRequests : SentFor(j, r)
      BY <2>1, <3>1 DEF TransfersTrue
    <3>3. SentFor(j, r)'
      BY <1>3, <1>4, <3>2 DEF SentFor
    <3> QED
      BY <3>3
  <2> QED
    BY <1>6, <2>2 DEF TransfersTrue
<1>8. CompletedStay
  BY <1>4 DEF CompletedStay
<1> QED
  BY <1>2, <1>3, <1>4, <1>5, <1>7, <1>8

\* A transfer that fails has booked nothing.
LEMMA FailTransferKeeps ==
    ASSUME RowsInv, ActorsInv, NEW k \in TransferKey, FailTransfer(k), UNCHANGED controlVars
    PROVE  RowsInv' /\ ActorsInv'
<1>1. /\ transfers' \in [TransferKey -> TransferRow \cup {NoTransfer}]
      /\ TransfersTrue' /\ CompletedStay /\ \A j \in TransferKey \ {k} : transfers'[j] = transfers[j]
  BY StatusKeepsTransfers DEF FailTransfer
<1>2. /\ accounts' = accounts /\ txns' = txns /\ ledgerSum' = ledgerSum
      /\ records' = records /\ fees' = fees /\ cycles' = cycles /\ cycleItems' = cycleItems
  BY DEF FailTransfer, ReleaseHold, vars, controlVars
<1>3. /\ holds' \in [HoldId -> [status : {"active", "released", "captured"}, account : Account, amount : Nat]
                                 \cup {NoHold}]
      /\ heldSum' \in [AllAccounts -> Int] /\ HoldsTrue'
  <2>1. CASE UNCHANGED vars
    BY <2>1 DEF vars, RowsInv, RowsTyped, RowsTrue, HoldsTrue
  <2>2. CASE ReleaseHold(k)
    BY <2>2, ResolvingTyped, MerchantAssumption DEF ReleaseHold
  <2> QED
    BY <2>1, <2>2 DEF FailTransfer
<1>4. RowsTyped'
  BY <1>1, <1>2, <1>3 DEF RowsInv, RowsTyped
<1>5. RowsGrow
  BY <1>1, <1>2, CyclesUntouched DEF RowsGrow, TxnsStay, RecordsStay, FeesStay, Unused
<1>6. BookingsTrue'
  <2>1. \A j \in TransferKey : ~Unused(j) => j # k
    BY DEF RowsInv, RowsTrue, BookingsTrue, FailTransfer
  <2> QED
    BY <1>1, <1>2, <2>1 DEF RowsInv, RowsTrue, BookingsTrue, Unused
<1>7. RowsInv'
  BY <1>1, <1>2, <1>3, <1>4, <1>5, <1>6, RequestsRest, PlatformRests, FeesRest, CyclesRest, CyclesUntouched
  DEF RowsInv, RowsTrue
<1> QED
  BY <1>5, <1>7, ActorsRest DEF FailTransfer

\* A transfer's account is a merchant's, never the platform's.
LEMMA TransferAccounts ==
    ASSUME RowsInv, NEW k \in TransferKey, transfers[k] # NoTransfer
    PROVE  transfers[k].account \in Account /\ transfers[k].account # PlatformFees
<1>1. PICK r \in KnownRequests : SentFor(k, r)
  BY DEF RowsInv, RowsTrue, TransfersTrue
<1>2. r.source.merchant \in Merchant
  BY RequestsTyped, MerchantAssumption DEF RequestRow
<1> QED
  BY <1>1, <1>2, MerchantAssumption, FeesAssumption DEF SentFor

\* A transfer that completes books between its account and the outside.
LEMMA BookingKeepsRows ==
    ASSUME RowsInv, NEW k \in TransferKey, transfers[k].status = "pending",
           transfers' = [transfers EXCEPT ![k].status = "completed"],
           UNCHANGED <<records, controlVars, accounts>>,
           NEW account \in Account, account # PlatformFees, NEW x \in Int, NEW legs,
           legs = <<Leg(account, x), Leg(System, -x)>>, InsertEntries(legs),
           transfers[k].direction = "inbound" => legs = CreditLegs(transfers[k].account, transfers[k].amount),
           NEW txn \in Txn, txn.legs = legs, txns[k] = NoTxn, txns' = [txns EXCEPT ![k] = txn],
           holds' \in [HoldId -> [status : {"active", "released", "captured"}, account : Account, amount : Nat]
                                   \cup {NoHold}],
           heldSum' \in [AllAccounts -> Int], HoldsTrue'
    PROVE  RowsInv' /\ RowsGrow
<1>1. /\ transfers' \in [TransferKey -> TransferRow \cup {NoTransfer}]
      /\ TransfersTrue' /\ CompletedStay
      /\ transfers'[k].status = "completed" /\ transfers'[k].account = transfers[k].account
      /\ transfers'[k].direction = transfers[k].direction /\ transfers'[k].amount = transfers[k].amount
      /\ \A j \in TransferKey \ {k} : transfers'[j] = transfers[j]
  BY StatusKeepsTransfers
<1>2. /\ records' = records /\ fees' = fees /\ cycles' = cycles /\ cycleItems' = cycleItems /\ accounts' = accounts
  BY DEF controlVars
<1>3. /\ account \in AllAccounts /\ System \in AllAccounts /\ account # System
      /\ System # PlatformFees /\ -x \in Int
  BY SystemAssumption, FeesAssumption DEF AllAccounts
<1>4. ledgerSum' \in [AllAccounts -> Int] /\ ledgerSum'[PlatformFees] = ledgerSum[PlatformFees]
  BY <1>3, OutsideEntries DEF RowsInv
<1>5. k \in Key /\ txns \in [Key -> Txn \cup {NoTxn}]
  BY MerchantAssumption DEF RowsInv, RowsTyped
<1>6. txns'[k] = txn /\ \A j \in Key \ {k} : txns'[j] = txns[j]
  BY <1>5
<1>7. txn # NoTxn
  BY DEF Txn, NoTxn
<1>8. RowsTyped'
  <2>1. txns' \in [Key -> Txn \cup {NoTxn}]
    BY <1>5
  <2> QED
    BY <1>1, <1>2, <1>4, <2>1 DEF RowsInv, RowsTyped
<1>9. RowsGrow
  <2>1. TxnsStay
    BY <1>6 DEF TxnsStay, Unused
  <2> QED
    BY <1>1, <1>2, <2>1, CyclesUntouched DEF RowsGrow, RecordsStay, FeesStay
<1>10. \A s \in Source : txns'[FeeKey[s]] = txns[FeeKey[s]]
  BY <1>6, KeysAssumption
<1>11. BookingsTrue'
  <2>1. Avoids(legs)
    BY <1>3 DEF Avoids, Leg
  <2>2. ASSUME NEW j \in TransferKey, ~Unused(j)'
        PROVE  /\ transfers'[j].status = "completed"
               /\ Avoids(txns'[j].legs)
               /\ transfers'[j].direction = "inbound" =>
                    txns'[j].legs = CreditLegs(transfers'[j].account, transfers'[j].amount)
    <3>1. CASE j = k
      BY <1>1, <1>6, <2>1, <3>1
    <3>2. CASE j # k
      <4>1. txns'[j] = txns[j] /\ transfers'[j] = transfers[j]
        BY <1>1, <1>6, <3>2, MerchantAssumption
      <4> QED
        BY <2>2, <4>1 DEF RowsInv, RowsTrue, BookingsTrue, Unused
    <3> QED
      BY <3>1, <3>2
  <2> QED
    BY <2>2 DEF BookingsTrue, Avoids, CreditLegs, Leg
<1>12. RowsTrue'
  BY <1>1, <1>2, <1>4, <1>9, <1>10, <1>11, RequestsRest, PlatformRests, FeesRest, CyclesRest, CyclesUntouched
  DEF RowsInv, RowsTrue
<1> QED
  BY <1>8, <1>9, <1>12 DEF RowsInv

\* The rails' success credits what was collected or captures what was held.
LEMMA CompleteTransferKeeps ==
    ASSUME RowsInv, ActorsInv, NEW k \in TransferKey, CompleteTransfer(k), UNCHANGED controlVars
    PROVE  RowsInv' /\ ActorsInv'
<1>1. /\ transfers[k].status = "pending"
      /\ transfers' = [transfers EXCEPT ![k].status = "completed"] /\ UNCHANGED <<records, step, work>>
  BY DEF CompleteTransfer
<1>2. transfers[k] \in TransferRow /\ transfers[k] # NoTransfer
  BY <1>1 DEF RowsInv, RowsTyped, NoTransfer
<1>3. k \in Key /\ k \in HoldId
  BY MerchantAssumption
<1>4. CASE transfers[k].direction = "outbound"
  <2>1. CaptureHold(k, k)
    BY <1>4 DEF CompleteTransfer
  <2>2. ResolveHold(k, "captured")
    BY <2>1 DEF CaptureHold
  <2>3. PICK account \in Account, amount \in Nat : account = holds[k].account /\ amount = holds[k].amount
    BY <1>3, <2>2, ResolvingTyped
  <2>4. account # PlatformFees
    BY <1>3, <2>2, <2>3, ResolvingTyped
  <2>5. PICK legs : legs = <<Leg(account, -amount), Leg(System, -(-amount))>>
    OBVIOUS
  <2>6. legs = DebitLegs(account, amount) /\ legs \in Legs
    <3>1. -(-amount) = amount /\ -amount \in Int /\ amount \in Int
      OBVIOUS
    <3> QED
      BY <2>5, <3>1, LegsTyped DEF DebitLegs, AllAccounts
  <2>7. PICK txn : txn = Posted("debit", legs, CaptureRequest(k))
    OBVIOUS
  <2>8. txn \in Txn /\ txn.legs = legs
    <3>1. CaptureRequest(k) \in Request
      BY <1>3 DEF CaptureRequest, Request
    <3> QED
      BY <2>6, <2>7, <3>1 DEF Posted, Txn
  <2>9. InsertEntries(legs) /\ txns[k] = NoTxn /\ txns' = [txns EXCEPT ![k] = txn] /\ accounts' = accounts
    BY <2>1, <2>3, <2>6, <2>7 DEF CaptureHold, Unused
  <2>10. RowsInv' /\ RowsGrow
    <3>1. transfers[k].direction # "inbound" /\ -amount \in Int
      BY <1>4
    <3>2. /\ holds' \in [HoldId -> [status : {"active", "released", "captured"}, account : Account, amount : Nat]
                                     \cup {NoHold}]
          /\ heldSum' \in [AllAccounts -> Int] /\ HoldsTrue'
      BY <1>3, <2>2, ResolvingTyped
    <3> QED
      BY <1>1, <2>4, <2>5, <2>8, <2>9, <3>1, <3>2, BookingKeepsRows
  <2> QED
    BY <1>1, <2>10, ActorsRest
<1>5. CASE transfers[k].direction # "outbound"
  <2>1. PICK account \in Account, amount \in Nat :
          account = transfers[k].account /\ amount = transfers[k].amount /\ account # PlatformFees
    BY <1>2, TransferAccounts DEF TransferRow
  <2>2. Credit(account, amount, k)
    BY <1>5, <2>1 DEF CompleteTransfer
  <2>3. PICK legs : legs = <<Leg(account, amount), Leg(System, -amount)>>
    OBVIOUS
  <2>4. legs = CreditLegs(account, amount) /\ legs \in Legs
    <3>1. -amount \in Int /\ amount \in Int
      OBVIOUS
    <3> QED
      BY <2>3, <3>1, LegsTyped DEF CreditLegs, AllAccounts
  <2>5. PICK txn : txn = Posted("credit", legs, LegsRequest("credit", legs))
    OBVIOUS
  <2>6. txn \in Txn /\ txn.legs = legs
    <3>1. LegsRequest("credit", legs) \in Request
      BY <2>4 DEF LegsRequest, Request
    <3> QED
      BY <2>4, <2>5, <3>1 DEF Posted, Txn
  <2>7. /\ InsertEntries(legs) /\ txns[k] = NoTxn /\ txns' = [txns EXCEPT ![k] = txn]
        /\ accounts' = accounts /\ holds' = holds /\ heldSum' = heldSum
    BY <2>2, <2>4, <2>5 DEF Credit, PostTransaction, Unused
  <2>8. RowsInv' /\ RowsGrow
    <3>1. amount \in Int
      OBVIOUS
    <3>2. /\ holds' \in [HoldId -> [status : {"active", "released", "captured"}, account : Account, amount : Nat]
                                     \cup {NoHold}]
          /\ heldSum' \in [AllAccounts -> Int] /\ HoldsTrue'
      BY <2>7 DEF RowsInv, RowsTyped, RowsTrue, HoldsTrue
    <3> QED
      BY <1>1, <2>1, <2>3, <2>4, <2>6, <2>7, <3>1, <3>2, BookingKeepsRows
  <2> QED
    BY <1>1, <2>8, ActorsRest
<1> QED
  BY <1>4, <1>5

\* What was collected is given back, and no fee with it.
LEMMA ReverseChargeKeeps ==
    ASSUME RowsInv, ActorsInv, NEW k \in TransferKey, NEW r \in ReversalKey, ReverseCharge(k, r), UNCHANGED controlVars
    PROVE  RowsInv' /\ ActorsInv'
<1>1. k \in Key /\ r \in Key /\ r \notin TransferKey /\ \A s \in Source : FeeKey[s] # r /\ FeeKey[s] # k
  BY MerchantAssumption, KeysAssumption
<1>2. UNCHANGED <<transfers, records, step, work>>
  BY DEF ReverseCharge, merchantVars
<1>3. ReverseTransaction(k, r)
  BY DEF ReverseCharge
<1>4. /\ txns[r] = NoTxn /\ txns[k].state = "posted"
      /\ accounts' = accounts /\ holds' = holds /\ heldSum' = heldSum
      /\ transfers' = transfers /\ records' = records
      /\ fees' = fees /\ cycles' = cycles /\ cycleItems' = cycleItems
  BY <1>2, <1>3 DEF ReverseTransaction, Unused, controlVars
<1>5. txns \in [Key -> Txn \cup {NoTxn}] /\ txns[k] \in Txn /\ txns[k] # NoTxn /\ k # r
  BY <1>1, <1>4 DEF RowsInv, RowsTyped, NoTxn
<1>6. PICK legs \in Compensating(txns[k].legs) :
        /\ InsertEntries(legs)
        /\ txns' = [txns EXCEPT ![r] = Posted("reversal", legs, ReversalRequest(k)), ![k].state = "reversed"]
  BY <1>3 DEF ReverseTransaction
<1>7. txns[k].legs = CreditLegs(transfers[k].account, transfers[k].amount)
  BY <1>5 DEF ReverseCharge, RowsInv, RowsTrue, BookingsTrue, Unused
<1>8. PICK account \in Account, amount \in Nat :
        account = transfers[k].account /\ amount = transfers[k].amount /\ account # PlatformFees
  <2>1. transfers[k] \in TransferRow /\ transfers[k] # NoTransfer
    BY DEF ReverseCharge, RowsInv, RowsTyped, NoTransfer
  <2> QED
    BY <2>1, TransferAccounts DEF TransferRow
<1>9. /\ account \in AllAccounts /\ System \in AllAccounts /\ account # System
      /\ System # PlatformFees /\ -amount \in Int /\ amount \in Int /\ -(-amount) = amount
  BY <1>8, SystemAssumption, FeesAssumption DEF AllAccounts
<1>10. \/ legs = <<Leg(account, -amount), Leg(System, amount)>>
       \/ legs = <<Leg(System, amount), Leg(account, -amount)>>
  BY <1>6, <1>7, <1>8, <1>9 DEF Compensating, CreditLegs, Negated, Leg
<1>11. ledgerSum' \in [AllAccounts -> Int] /\ ledgerSum'[PlatformFees] = ledgerSum[PlatformFees]
  BY <1>6, <1>8, <1>9, <1>10, OutsideEntries DEF RowsInv
<1>12. legs \in Legs
  BY <1>9, <1>10, LegsTyped
<1>13. PICK txn, old : txn = Posted("reversal", legs, ReversalRequest(k)) /\ old = [txns[k] EXCEPT !.state = "reversed"]
  OBVIOUS
<1>14. txn \in Txn /\ old \in Txn /\ old.legs = txns[k].legs
  <2>1. ReversalRequest(k) \in Request
    BY <1>1 DEF ReversalRequest, Request
  <2>2. txn \in Txn
    BY <1>12, <1>13, <2>1 DEF Posted, Txn
  <2> QED
    BY <1>5, <1>13, <2>2 DEF Txn
<1>15. txns' = [txns EXCEPT ![r] = txn, ![k] = old]
  BY <1>1, <1>5, <1>6, <1>13
<1>16. txns'[r] = txn /\ txns'[k] = old /\ \A j \in Key \ {k, r} : txns'[j] = txns[j]
  BY <1>1, <1>5, <1>15
<1>17. \A t \in Txn : t # NoTxn
  BY DEF Txn, NoTxn
<1>18. RowsTyped'
  <2>1. txns' \in [Key -> Txn \cup {NoTxn}]
    BY <1>5, <1>14, <1>15
  <2> QED
    BY <1>4, <1>11, <2>1 DEF RowsInv, RowsTyped
<1>19. RowsGrow
  <2>1. TxnsStay
    BY <1>4, <1>14, <1>16, <1>17 DEF TxnsStay, Unused
  <2> QED
    BY <1>4, <2>1, CyclesUntouched DEF RowsGrow, CompletedStay, RecordsStay, FeesStay
<1>20. \A s \in Source : txns'[FeeKey[s]] = txns[FeeKey[s]]
  BY <1>1, <1>16, KeysAssumption
<1>21. BookingsTrue'
  <2>1. \A j \in TransferKey : (txns'[j] = NoTxn <=> txns[j] = NoTxn) /\ txns'[j].legs = txns[j].legs
    BY <1>1, <1>5, <1>14, <1>16, <1>17, MerchantAssumption
  <2> QED
    BY <1>4, <2>1 DEF RowsInv, RowsTrue, BookingsTrue, Unused
<1>22. RowsTrue'
  <2>1. HoldsTrue'
    BY <1>4 DEF RowsInv, RowsTrue, HoldsTrue
  <2> QED
    BY <1>4, <1>11, <1>19, <1>20, <1>21, <2>1, RequestsRest, PlatformRests, FeesRest, CyclesRest, CyclesUntouched
    DEF RowsInv, RowsTrue
<1>23. RowsInv'
  BY <1>18, <1>22 DEF RowsInv
<1> QED
  BY <1>2, <1>19, <1>23, ActorsRest

-----------------------------------------------------------------------------
(***************************************************************************)
(* The invariant of the specification.                                     *)
(***************************************************************************)

\* An instance's step keeps the rows and what the actors know true.
LEMMA ControlStepKeeps ==
    ASSUME RowsInv, ActorsInv, NEW i \in Instance, ControlStep(i)
    PROVE  RowsInv' /\ ActorsInv'
<1>1. CASE NextItem(i)
  BY <1>1, NextItemKeeps
<1>2. CASE PostFee(i)
  BY <1>2, PostFeeKeeps
<1>3. CASE InsertFee(i)
  BY <1>3, InsertFeeKeeps
<1>4. CASE FindCharges(i)
  BY <1>4, FindChargesKeeps
<1>5. CASE AdvanceSchedule(i)
  BY <1>5, AdvanceScheduleKeeps
<1>6. CASE InsertCycle(i)
  BY <1>6, InsertCycleKeeps
<1>7. CASE LookUpPayout(i)
  BY <1>7, LookUpPayoutKeeps
<1>8. CASE LinkPayout(i)
  BY <1>8, LinkPayoutKeeps
<1>9. CASE Sharing(i)
  BY <1>9, SendTransferKeeps, RecordSourceKeeps, InstancesAct DEF Sharing
<1> QED
  BY <1>1, <1>2, <1>3, <1>4, <1>5, <1>6, <1>7, <1>8, <1>9 DEF ControlStep

\* An instance's step touches the schedule of its own item only.
LEMMA ControlStepSchedules ==
    ASSUME ActorsInv, Scheduled, NEW i \in Instance, ControlStep(i)
    PROVE  Scheduled'
<1>1. UNCHANGED bounds
  BY DEF ControlStep
<1>2. UNCHANGED due \/ AdvanceSchedule(i)
  BY DEF ControlStep, NextItem, PostFee, InsertFee, FindCharges, InsertCycle, LookUpPayout, LinkPayout,
         Sharing, controlVars
<1>3. due' \in [Merchant -> BOOLEAN]
  <2>1. AdvanceSchedule(i) => due' = [due EXCEPT ![work[i].item] = FALSE]
    BY DEF AdvanceSchedule
  <2> QED
    BY <1>2, <2>1 DEF Scheduled
<1> QED
  BY <1>1, <1>3 DEF Scheduled, bounds

\* Every step keeps the invariant.
LEMMA NextControls == ControlsInv /\ [ControlsNext]_allVars => ControlsInv'
<1> SUFFICES ASSUME ControlsInv, [ControlsNext]_allVars
             PROVE  ControlsInv'
  OBVIOUS
<1>0. RowsInv /\ ActorsInv /\ Scheduled
  BY DEF ControlsInv
<1>1. CASE Asking
  <2>1. PICK c \in Caller, r \in ApiRequest : StartCreate(c, r)
    BY <1>1 DEF Asking
  <2>2. RowsInv' /\ ActorsInv'
    BY <1>0, <1>1, <2>1, StartCreateKeeps DEF Asking
  <2>3. Scheduled'
    BY <1>0, <1>1, BoundsAssumption DEF Asking, Scheduled, controlVars
  <2> QED
    BY <2>2, <2>3 DEF ControlsInv
<1>2. CASE SomethingFails
  <2>1. RowsInv' /\ ActorsInv'
    BY <1>0, <1>2, LoseKeeps, FailTransferKeeps DEF SomethingFails
  <2>2. Scheduled'
    BY <1>0, <1>2, BoundsAssumption DEF SomethingFails, Scheduled, controlVars
  <2> QED
    BY <2>1, <2>2 DEF ControlsInv
<1>3. CASE Outside
  <2>1. PICK k \in TransferKey : CompleteTransfer(k) \/ \E r \in ReversalKey : ReverseCharge(k, r)
    BY <1>3 DEF Outside
  <2>2. RowsInv' /\ ActorsInv'
    BY <1>0, <1>3, <2>1, CompleteTransferKeeps, ReverseChargeKeeps DEF Outside
  <2>3. Scheduled'
    BY <1>0, <1>3 DEF Outside, Scheduled, controlVars, bounds
  <2> QED
    BY <2>2, <2>3 DEF ControlsInv
<1>4. ASSUME NEW c \in Caller, Sharing(c), UNCHANGED bounds
      PROVE  ControlsInv'
  <2>1. c \in Actor
    BY DEF Actor
  <2>2. RowsInv' /\ ActorsInv'
    BY <1>0, <1>4, <2>1, SendTransferKeeps, RecordSourceKeeps DEF Sharing
  <2>3. Scheduled'
    BY <1>0, <1>4 DEF Sharing, Scheduled, controlVars, bounds
  <2> QED
    BY <2>2, <2>3 DEF ControlsInv
<1>5. ASSUME NEW i \in Instance, ControlStep(i)
      PROVE  ControlsInv'
  BY <1>0, <1>5, ControlStepKeeps, ControlStepSchedules DEF ControlsInv
<1>6. ASSUME NEW i \in Instance, NEW duty \in Duty, Ticking(i, duty)
      PROVE  ControlsInv'
  <2>1. RowsInv' /\ ActorsInv'
    BY <1>0, <1>6, StartTickKeeps DEF Ticking
  <2>2. Scheduled'
    BY <1>0, <1>6 DEF Ticking, StartTick, Scheduled, controlVars, bounds
  <2> QED
    BY <2>1, <2>2 DEF ControlsInv
<1>7. ASSUME NEW m \in Merchant, CycleComesDue(m)
      PROVE  ControlsInv'
  <2>1. RowsInv' /\ RowsGrow
    BY <1>0, <1>7, RowsRest DEF CycleComesDue, RowsSame, merchantVars
  <2>2. ActorsInv'
    BY <1>0, <1>7, <2>1, ActorsRest DEF CycleComesDue, merchantVars
  <2>3. Scheduled'
    BY <1>0, <1>7 DEF CycleComesDue, Scheduled, bounds
  <2> QED
    BY <2>1, <2>2, <2>3 DEF ControlsInv
<1>8. ASSUME NEW y \in Cycle, ReserveMatures(y)
      PROVE  ControlsInv'
  <2>1. RowsInv' /\ ActorsInv'
    BY <1>0, <1>8, ReserveMaturesKeeps
  <2>2. Scheduled'
    BY <1>0, <1>8 DEF ReserveMatures, Scheduled, bounds
  <2> QED
    BY <2>1, <2>2 DEF ControlsInv
<1>9. CASE UNCHANGED allVars
  <2>1. RowsInv' /\ RowsGrow
    BY <1>0, <1>9, RowsRest DEF allVars, RowsSame, merchantVars, controlVars
  <2>2. ActorsInv'
    BY <1>0, <1>9, <2>1, ActorsRest DEF allVars, merchantVars
  <2>3. Scheduled'
    BY <1>0, <1>9 DEF allVars, Scheduled, controlVars, bounds
  <2> QED
    BY <2>1, <2>2, <2>3 DEF ControlsInv
<1> QED
  BY <1>1, <1>2, <1>3, <1>4, <1>5, <1>6, <1>7, <1>8, <1>9 DEF ControlsNext

\* Nothing is sent, recorded, taken or settled at first.
LEMMA InitControls == ControlsInit => ControlsInv
<1> SUFFICES ASSUME ControlsInit
             PROVE  ControlsInv
  OBVIOUS
<1> USE DEF ControlsInit, MerchantsInit
<1>1. RowsTyped
  BY OverdraftAssumption DEF RowsTyped, AccountState, NoFee
<1>2. PostedFees = {} /\ LiveCycles = {}
  BY KeysAssumption DEF PostedFees, LiveCycles, Unused
<1>3. TransfersTrue /\ RecordsTrue /\ BookingsTrue /\ HoldsTrue
  BY MerchantAssumption DEF TransfersTrue, RecordsTrue, BookingsTrue, HoldsTrue, Unused
<1>4. FeeTxnsTrue
  BY KeysAssumption DEF FeeTxnsTrue, Unused
<1>5. PlatformAddsUp
  <2>1. ledgerSum[PlatformFees] = 0
    BY FeesAssumption DEF AllAccounts
  <2>2. PICK f : f = [s \in PostedFees |-> txns[FeeKey[s]].legs[2].amount]
    OBVIOUS
  <2>3. DOMAIN f = {}
    BY <1>2, <2>2
  <2>4. SumFunction(f) = 0
    BY <2>3, SumOfNothing DEF SumFunction
  <2> QED
    BY <1>2, <2>1, <2>2, <2>4, FS_EmptySet DEF PlatformAddsUp
<1>6. FeesTrue
  <2>1. {s \in Source : fees[s] # NoFee} = {}
    OBVIOUS
  <2> QED
    BY <2>1, FS_EmptySet DEF FeesTrue
<1>7. CyclesTrue /\ ItemsTrue /\ CycleSums
  <2>1. CyclesTrue
    <3>1. 0 \in 0..MaxCycle /\ 1..0 = {}
      BY BoundsAssumption
    <3> QED
      BY <1>2, <3>1 DEF CyclesTrue
  <2> QED
    BY <1>2, <2>1, FS_EmptySet DEF ItemsTrue, CycleSums
<1>8. ActorsInv
  <2>1. NoWork \in WorkRow /\ "idle" \in Steps
    BY DEF NoWork, WorkRow, Steps
  <2>2. \A a \in Actor : KnowsAt(a, "idle", NoWork)
    BY DEF KnowsAt, NoWork
  <2> QED
    BY <2>1, <2>2 DEF ActorsInv, ActorsTyped, ActorsKnow, Knows
<1>9. Scheduled
  BY BoundsAssumption DEF Scheduled
<1> QED
  BY <1>1, <1>3, <1>4, <1>5, <1>6, <1>7, <1>8, <1>9 DEF ControlsInv, RowsInv, RowsTrue

\* The invariant is one of the specification.
LEMMA ControlsInvariant == ControlsSpec => []ControlsInv
  BY InitControls, NextControls, PTL DEF ControlsSpec

\* Every table, every actor's program and every bound keeps its type.
THEOREM ControlsTypesCorrect == ControlsSpec => []ControlsTypeOK
<1>1. ControlsInv => ControlsTypeOK
  BY DEF ControlsInv, RowsInv, RowsTyped, ActorsInv, ActorsTyped, Scheduled, ControlsTypeOK, WorkRow
<1> QED
  BY <1>1, ControlsInvariant, PTL

\* Whatever two instances, their restarts and the callers do, a fee that is
\* recorded was taken for a transfer that completed, in the amount recorded, and
\* the platform's account holds those fees, each once, and nothing else.
THEOREM FeesAreTakenOnce == ControlsSpec => []FeesArePosted
<1>1. ControlsInv => FeesArePosted
  <2>1. RowsTrue => FeesArePosted
    BY DEF RowsTrue, FeesTrue, Feeing, FeeIsPosted, PlatformAddsUp, FeesArePosted
  <2> QED
    BY <2>1 DEF ControlsInv, RowsInv
<1> QED
  BY <1>1, ControlsInvariant, PTL

\* No charge is settled twice, whichever instances settle at one time, and a
\* cycle is the sum of its merchant's charges.
THEOREM ChargesAreSettledOnce == ControlsSpec => []CyclesAddUp
<1>1. ControlsInv => CyclesAddUp
  <2> SUFFICES ASSUME ControlsInv
               PROVE  CyclesAddUp
    OBVIOUS
  <2>1. RowsInv /\ ItemsTrue /\ CycleSums
    BY DEF ControlsInv, RowsInv, RowsTrue
  <2>2. ASSUME NEW y \in Cycle, cycles[y] # NoCycle
        PROVE  /\ \A s \in ChargesOf(y) : s.kind = "charge" /\ s.merchant = cycles[y].merchant
               /\ cycles[y].gross = Gross(ChargesOf(y)) /\ cycles[y].fees = FeesTotal(ChargesOf(y))
    <3>1. y \in LiveCycles
      BY <2>2 DEF LiveCycles
    <3> QED
      BY <2>1, <3>1, ChargesSettleable DEF CycleSums, Settleable
  <2> QED
    BY <2>1, <2>2 DEF CyclesAddUp, ItemsTrue, ChargesOf
<1> QED
  BY <1>1, ControlsInvariant, PTL

-----------------------------------------------------------------------------
(***************************************************************************)
(* What is paid out has been collected: cycle by cycle, a payout of the    *)
(* net and one of the reserve are together at most what its charges left.  *)
(***************************************************************************)
CyclesOf(m) == {y \in LiveCycles : cycles[y].merchant = m}
PayoutKeys(m) == {k \in CycleKeys : transfers[k] # NoTransfer /\ transfers[k].account = AccountOf[m]}
KeysOf(ys) == {SettlementKey[y] : y \in ys} \cup {ReserveKey[y] : y \in ys}
SettledBy(ys) == UNION {ChargesOf(y) : y \in ys}
SettledFor(m) == {s \in Settled : s.merchant = m}
Amounts == [k \in TransferKey |-> transfers[k].amount]
Left == [s \in Source |-> records[s].amount - fees[s].total]

\* A sum over one element is its value.
LEMMA SumOfOne ==
    ASSUME NEW f, NEW a, f[a] \in Int
    PROVE  SumFunctionOnSet(f, {a}) = f[a]
<1>1. IsFiniteSet({a}) /\ {a} \ {a} = {}
  BY FS_Singleton
<1>2. \A y \in {a} : f[y] \in Int
  OBVIOUS
<1>3. SumFunctionOnSet(f, {a}) = f[a] + SumFunctionOnSet(f, {a} \ {a})
  BY <1>1, <1>2, SumWithout
<1>4. SumFunctionOnSet(f, {a} \ {a}) = 0
  BY <1>1, SumOfNothing
<1> QED
  BY <1>3, <1>4

\* A sum over two adds them.
LEMMA SumOfTwo ==
    ASSUME NEW f, NEW a, NEW b, a # b, f[a] \in Int, f[b] \in Int
    PROVE  SumFunctionOnSet(f, {a, b}) = f[a] + f[b]
<1>1. IsFiniteSet({a}) /\ b \notin {a} /\ {a} \cup {b} = {a, b} /\ \A y \in {a} \cup {b} : f[y] \in Int
  BY FS_Singleton
<1>2. SumFunctionOnSet(f, {a} \cup {b}) = SumFunctionOnSet(f, {a}) + f[b]
  BY <1>1, SumWithOneMore
<1>3. SumFunctionOnSet(f, {a}) = f[a]
  BY SumOfOne
<1> QED
  BY <1>1, <1>2, <1>3

\* A cycle's two keys are its own.
LEMMA CycleKeysDiffer ==
    ASSUME NEW y \in Cycle, NEW z \in Cycle
    PROVE  /\ SettlementKey[y] # ReserveKey[z]
           /\ SettlementKey[y] = SettlementKey[z] => y = z
           /\ ReserveKey[y] = ReserveKey[z] => y = z
           /\ SettlementKey[y] \in TransferKey /\ ReserveKey[y] \in TransferKey
  BY KeysAssumption

\* A transfer under a cycle's key pays the cycle's net or its reserve.
LEMMA CycleKeysPay ==
    ASSUME RowsInv, NEW m \in Merchant, NEW k \in PayoutKeys(m)
    PROVE  \E y \in CyclesOf(m) :
             \/ k = SettlementKey[y] /\ transfers[k].amount = cycles[y].net - cycles[y].reserve
             \/ k = ReserveKey[y] /\ transfers[k].amount = cycles[y].reserve
<1>1. k \in TransferKey /\ k \in CycleKeys
  BY KeysAssumption DEF PayoutKeys, CycleKeys
<1>2. PICK r \in KnownRequests : SentFor(k, r)
  BY <1>1 DEF PayoutKeys, RowsInv, RowsTrue, TransfersTrue
<1>3. r \notin ApiRequest
  BY <1>1, <1>2, KeysAssumption DEF SentFor
<1>4. PICK y \in LiveCycles : r = SettlementRequest(y) \/ r = ReserveRequest(y)
  BY <1>3 DEF KnownRequests
<1>5. cycles[y].merchant \in Merchant
  BY DEF LiveCycles, RowsInv, RowsTyped, CycleRow
<1>6. r.source.merchant = cycles[y].merchant
  BY <1>4 DEF SettlementRequest, ReserveRequest, PayoutRequest, CycleSource
<1>7. y \in CyclesOf(m)
  BY <1>2, <1>5, <1>6, MerchantAssumption DEF SentFor, PayoutKeys, CyclesOf
<1>8. CASE r = SettlementRequest(y)
  <2>1. r.source.key = SettlementKey[y] /\ r.amount = cycles[y].net - cycles[y].reserve
    BY <1>8 DEF SettlementRequest, PayoutRequest, CycleSource
  <2> QED
    BY <1>2, <1>7, <2>1 DEF SentFor
<1>9. CASE r = ReserveRequest(y)
  <2>1. r.source.key = ReserveKey[y] /\ r.amount = cycles[y].reserve
    BY <1>9 DEF ReserveRequest, PayoutRequest, CycleSource
  <2> QED
    BY <1>2, <1>7, <2>1 DEF SentFor
<1> QED
  BY <1>4, <1>8, <1>9

\* A live cycle's figures, as numbers.
LEMMA CycleFigures ==
    ASSUME RowsInv, NEW y \in LiveCycles
    PROVE  /\ y \in Cycle /\ cycles[y].net \in Nat /\ cycles[y].gross \in Nat /\ cycles[y].fees \in Nat
           /\ cycles[y].net = cycles[y].gross - cycles[y].fees
           /\ cycles[y].reserve \in Nat /\ cycles[y].net - cycles[y].reserve \in Nat
<1>1. cycles[y] \in CycleRow /\ y \in Cycle
  BY DEF LiveCycles, RowsInv, RowsTyped
<1>2. cycles[y].net \in Nat /\ cycles[y].gross \in Nat /\ cycles[y].fees \in Nat
  BY <1>1 DEF CycleRow
<1>3. cycles[y].net = cycles[y].gross - cycles[y].fees /\ cycles[y].reserve \in 0..cycles[y].net
  BY DEF RowsInv, RowsTrue, CyclesTrue
<1> QED
  BY <1>1, <1>2, <1>3

\* A cycle's payouts are together at most its net.
LEMMA CyclePaysItsNet ==
    ASSUME RowsInv, NEW m \in Merchant, NEW y \in CyclesOf(m)
    PROVE  SumFunctionOnSet(Amounts, PayoutKeys(m) \cap KeysOf({y})) <= cycles[y].net
<1>1. y \in LiveCycles /\ y \in Cycle
  BY DEF CyclesOf, LiveCycles
<1>2. PICK net \in Nat, reserve \in Nat :
        net = cycles[y].net /\ reserve = cycles[y].reserve /\ net - reserve \in Nat
  BY <1>1, CycleFigures
<1>3. PICK s \in TransferKey, v \in TransferKey : s = SettlementKey[y] /\ v = ReserveKey[y] /\ s # v
  BY <1>1, CycleKeysDiffer
<1>4. KeysOf({y}) = {s, v}
  BY <1>3 DEF KeysOf
<1>5. PICK f : f = Amounts
  OBVIOUS
<1>6. \A z \in CyclesOf(m) : z \in Cycle
  BY DEF CyclesOf, LiveCycles
<1>7. s \in PayoutKeys(m) => f[s] = net - reserve
  <2> SUFFICES ASSUME s \in PayoutKeys(m)
               PROVE  f[s] = net - reserve
    OBVIOUS
  <2>1. PICK z \in CyclesOf(m) :
          \/ s = SettlementKey[z] /\ transfers[s].amount = cycles[z].net - cycles[z].reserve
          \/ s = ReserveKey[z] /\ transfers[s].amount = cycles[z].reserve
    BY CycleKeysPay
  <2>2. z = y
    BY <1>1, <1>3, <1>6, <2>1, CycleKeysDiffer
  <2> QED
    BY <1>2, <1>3, <1>5, <2>1, <2>2 DEF Amounts
<1>8. v \in PayoutKeys(m) => f[v] = reserve
  <2> SUFFICES ASSUME v \in PayoutKeys(m)
               PROVE  f[v] = reserve
    OBVIOUS
  <2>1. PICK z \in CyclesOf(m) :
          \/ v = SettlementKey[z] /\ transfers[v].amount = cycles[z].net - cycles[z].reserve
          \/ v = ReserveKey[z] /\ transfers[v].amount = cycles[z].reserve
    BY CycleKeysPay
  <2>2. z = y
    BY <1>1, <1>3, <1>6, <2>1, CycleKeysDiffer
  <2> QED
    BY <1>2, <1>3, <1>5, <2>1, <2>2 DEF Amounts
<1>9. PICK keys : keys = PayoutKeys(m) \cap {s, v}
  OBVIOUS
<1>10. SumFunctionOnSet(f, keys) <= net
  <2>1. CASE keys = {}
    BY <2>1, SumOfNothing
  <2>2. CASE keys = {s}
    <3>1. f[s] = net - reserve /\ net - reserve \in Int /\ net - reserve <= net
      BY <1>2, <1>7, <1>9, <2>2
    <3>2. f[s] \in Int
      BY <3>1
    <3>3. SumFunctionOnSet(f, {s}) = f[s]
      BY <3>2, SumOfOne
    <3> QED
      BY <2>2, <3>1, <3>3
  <2>3. CASE keys = {v}
    <3>1. f[v] = reserve /\ reserve \in Int /\ reserve <= net
      BY <1>2, <1>8, <1>9, <2>3
    <3>2. f[v] \in Int
      BY <3>1
    <3>3. SumFunctionOnSet(f, {v}) = f[v]
      BY <3>2, SumOfOne
    <3> QED
      BY <2>3, <3>1, <3>3
  <2>4. CASE keys = {s, v}
    <3>1. f[s] = net - reserve /\ f[v] = reserve
      BY <1>7, <1>8, <1>9, <2>4
    <3>2. f[s] \in Int /\ f[v] \in Int /\ f[s] + f[v] <= net
      BY <1>2, <3>1
    <3>3. SumFunctionOnSet(f, {s, v}) = f[s] + f[v]
      BY <1>3, <3>2, SumOfTwo
    <3> QED
      BY <2>4, <3>2, <3>3
  <2> QED
    BY <1>9, <2>1, <2>2, <2>3, <2>4
<1> QED
  BY <1>2, <1>4, <1>5, <1>9, <1>10

\* A cycle's net is what its charges left.
LEMMA CycleCollectsItsNet ==
    ASSUME RowsInv, NEW y \in LiveCycles
    PROVE  /\ IsFiniteSet(ChargesOf(y)) /\ ChargesOf(y) \subseteq Source
           /\ \A s \in ChargesOf(y) : Left[s] \in Int
           /\ SumFunctionOnSet(Left, ChargesOf(y)) = cycles[y].net
<1>1. PICK charges : charges = ChargesOf(y)
  OBVIOUS
<1>2. \A s \in charges : Settleable(s, cycles[y].merchant)
  BY <1>1, ChargesSettleable
<1>3. charges \subseteq Source
  BY <1>2 DEF Settleable
<1>4. IsFiniteSet(charges)
  <2>1. charges \subseteq {s \in Source : fees[s] # NoFee}
    BY <1>2 DEF Settleable
  <2> QED
    BY <2>1, FS_Subset DEF RowsInv, RowsTrue, FeesTrue
<1>5. PICK f, g : /\ f = [s \in charges |-> records[s].amount]
                  /\ g = [s \in charges |-> fees[s].total]
  OBVIOUS
<1>6. \A s \in charges : f[s] \in Int /\ g[s] \in Int /\ Left[s] = f[s] - g[s]
  <2>1. \A s \in charges : records[s].amount \in Nat /\ fees[s].total \in Nat
    BY <1>2 DEF Settleable, RowsInv, RowsTyped, Record
  <2> QED
    BY <1>3, <1>5, <2>1 DEF Left
<1>7. SumFunctionOnSet(Left, charges) = SumFunctionOnSet(f, charges) - SumFunctionOnSet(g, charges)
  BY <1>4, <1>6, SumOfDifferences
<1>8. SumFunctionOnSet(f, charges) = cycles[y].gross /\ SumFunctionOnSet(g, charges) = cycles[y].fees
  <2>1. DOMAIN f = charges /\ DOMAIN g = charges
    BY <1>5
  <2>2. Gross(charges) = SumFunction(f) /\ FeesTotal(charges) = SumFunction(g)
    BY <1>5 DEF Gross, FeesTotal
  <2> QED
    BY <1>1, <2>1, <2>2 DEF SumFunction, RowsInv, RowsTrue, CycleSums
<1>9. cycles[y].net = cycles[y].gross - cycles[y].fees
  BY CycleFigures
<1>10. \A s \in charges : Left[s] \in Int
  BY <1>6
<1> QED
  BY <1>1, <1>3, <1>4, <1>7, <1>8, <1>9, <1>10

\* The payouts of any of a merchant's cycles are at most what was left of their charges.
LEMMA CyclesPayWhatIsLeft ==
    ASSUME RowsInv, NEW m \in Merchant
    PROVE  /\ SumFunctionOnSet(Amounts, PayoutKeys(m) \cap KeysOf(CyclesOf(m)))
                <= SumFunctionOnSet(Left, SettledBy(CyclesOf(m)))
           /\ IsFiniteSet(PayoutKeys(m) \cap KeysOf(CyclesOf(m))) /\ IsFiniteSet(SettledBy(CyclesOf(m)))
<1> DEFINE Keys(ys) == PayoutKeys(m) \cap KeysOf(ys)
           Good == {ys \in SUBSET CyclesOf(m) :
                      /\ IsFiniteSet(Keys(ys)) /\ IsFiniteSet(SettledBy(ys))
                      /\ SumFunctionOnSet(Amounts, Keys(ys)) <= SumFunctionOnSet(Left, SettledBy(ys))}
<1>1. IsFiniteSet(CyclesOf(m))
  <2>1. PICK n \in 0..MaxCycle : LiveCycles = 1..n
    BY DEF RowsInv, RowsTrue, CyclesTrue
  <2>2. IsFiniteSet(1..n)
    BY <2>1, FS_Interval, BoundsAssumption
  <2> QED
    BY <2>1, <2>2, FS_Subset DEF CyclesOf
<1>2. \A k \in PayoutKeys(m) : Amounts[k] \in Int
  <2>1. ASSUME NEW k \in PayoutKeys(m)
        PROVE  Amounts[k] \in Int
    <3>1. k \in TransferKey /\ transfers[k] # NoTransfer
      BY KeysAssumption DEF PayoutKeys, CycleKeys
    <3>2. transfers[k].amount \in Nat
      BY <3>1 DEF RowsInv, RowsTyped, TransferRow
    <3> QED
      BY <3>1, <3>2 DEF Amounts
  <2> QED
    BY <2>1
<1>3. ASSUME NEW ys \in SUBSET CyclesOf(m), \A zs \in SUBSET ys : zs # ys => zs \in Good
      PROVE  ys \in Good
  <2>1. CASE ys = {}
    <3>1. Keys(ys) = {} /\ SettledBy(ys) = {}
      BY <2>1 DEF KeysOf, SettledBy
    <3>2. IsFiniteSet({}) /\ SumFunctionOnSet(Amounts, {}) = 0 /\ SumFunctionOnSet(Left, {}) = 0
      BY SumOfNothing, FS_EmptySet
    <3> QED
      BY <3>1, <3>2
  <2>2. CASE ys # {}
    <3>1. PICK y \in ys : TRUE
      BY <2>2
    <3>2. PICK zs : zs = ys \ {y}
      OBVIOUS
    <3>3. zs \in Good /\ y \in CyclesOf(m) /\ y \in LiveCycles /\ zs \subseteq LiveCycles /\ y \notin zs
      BY <1>3, <3>1, <3>2 DEF CyclesOf
    <3>4. Keys(ys) = Keys(zs) \cup Keys({y}) /\ SettledBy(ys) = SettledBy(zs) \cup ChargesOf(y)
      BY <3>1, <3>2 DEF KeysOf, SettledBy
    <3>5. Keys(zs) \cap Keys({y}) = {}
      <4>1. \A z \in zs : z \in Cycle /\ y \in Cycle /\ z # y
        BY <3>3 DEF LiveCycles
      <4> QED
        BY <4>1, CycleKeysDiffer DEF KeysOf
    <3>6. SettledBy(zs) \cap ChargesOf(y) = {}
      <4>1. ItemsTrue
        BY DEF RowsInv, RowsTrue
      <4>2. \A z \in zs : z # y
        BY <3>3
      <4> QED
        BY <4>1, <4>2 DEF ItemsTrue, SettledBy, ChargesOf
    <3>7. IsFiniteSet(Keys({y}))
      <4>1. Keys({y}) \subseteq {SettlementKey[y]} \cup {ReserveKey[y]}
        BY DEF KeysOf
      <4>2. IsFiniteSet({SettlementKey[y]} \cup {ReserveKey[y]})
        BY FS_Singleton, FS_Union
      <4> QED
        BY <4>1, <4>2, FS_Subset
    <3>8. /\ IsFiniteSet(Keys(zs)) /\ IsFiniteSet(SettledBy(zs))
          /\ SumFunctionOnSet(Amounts, Keys(zs)) <= SumFunctionOnSet(Left, SettledBy(zs))
      BY <3>3
    <3>9. /\ IsFiniteSet(ChargesOf(y)) /\ \A s \in ChargesOf(y) : Left[s] \in Int
          /\ SumFunctionOnSet(Left, ChargesOf(y)) = cycles[y].net /\ cycles[y].net \in Nat
      BY <3>3, CycleCollectsItsNet, CycleFigures
    <3>10. SumFunctionOnSet(Amounts, Keys({y})) <= cycles[y].net
      BY <3>3, CyclePaysItsNet
    <3>11. \A s \in SettledBy(zs) : Left[s] \in Int
      BY <3>3, CycleCollectsItsNet DEF SettledBy
    <3>12. (\A k \in Keys(zs) : Amounts[k] \in Int) /\ (\A k \in Keys({y}) : Amounts[k] \in Int)
      BY <1>2
    <3>13. PICK ks, k2 : ks = Keys(zs) /\ k2 = Keys({y})
      OBVIOUS
    <3>14. PICK ss, s2 : ss = SettledBy(zs) /\ s2 = ChargesOf(y)
      OBVIOUS
    <3>15. PICK f, g : f = Amounts /\ g = Left
      OBVIOUS
    <3>16. Keys(ys) = ks \cup k2 /\ SettledBy(ys) = ss \cup s2
      BY <3>4, <3>13, <3>14
    <3>17. /\ IsFiniteSet(ks) /\ IsFiniteSet(k2) /\ ks \cap k2 = {} /\ (\A k \in ks \cup k2 : f[k] \in Int)
           /\ IsFiniteSet(ss) /\ IsFiniteSet(s2) /\ ss \cap s2 = {} /\ (\A s \in ss \cup s2 : g[s] \in Int)
      BY <3>5, <3>6, <3>7, <3>8, <3>9, <3>11, <3>12, <3>13, <3>14, <3>15
    <3>18. SumFunctionOnSet(f, ks) <= SumFunctionOnSet(g, ss) /\ SumFunctionOnSet(f, k2) <= SumFunctionOnSet(g, s2)
      BY <3>8, <3>9, <3>10, <3>13, <3>14, <3>15
    <3> HIDE DEF Keys
    <3>19. /\ SumFunctionOnSet(f, ks \cup k2) = SumFunctionOnSet(f, ks) + SumFunctionOnSet(f, k2)
           /\ SumFunctionOnSet(g, ss \cup s2) = SumFunctionOnSet(g, ss) + SumFunctionOnSet(g, s2)
      BY <3>17, SumOfUnion
    <3>20. /\ SumFunctionOnSet(f, ks) \in Int /\ SumFunctionOnSet(f, k2) \in Int
           /\ SumFunctionOnSet(g, ss) \in Int /\ SumFunctionOnSet(g, s2) \in Int
      BY <3>17, SumTyped
    <3>21. SumFunctionOnSet(f, ks \cup k2) <= SumFunctionOnSet(g, ss \cup s2)
      BY <3>18, <3>19, <3>20
    <3>22. IsFiniteSet(ks \cup k2) /\ IsFiniteSet(ss \cup s2)
      BY <3>17, FS_Union
    <3> QED
      BY <3>15, <3>16, <3>21, <3>22
  <2> QED
    BY <2>1, <2>2
<1>4. CyclesOf(m) \in Good
  <2> HIDE DEF Good
  <2> QED
    BY <1>1, <1>3, SubsetInduction
<1> QED
  BY <1>4

\* A merchant's payouts are at most what the records say its settled charges left.
LEMMA PaidIsCovered ==
    ASSUME RowsInv, NEW m \in Merchant
    PROVE  /\ Paid(m) <= SumFunctionOnSet(Left, SettledFor(m))
           /\ IsFiniteSet(SettledFor(m)) /\ \A s \in SettledFor(m) : Settleable(s, m)
<1>1. PayoutKeys(m) = PayoutKeys(m) \cap KeysOf(CyclesOf(m))
  BY CycleKeysPay DEF KeysOf
<1>2. SettledBy(CyclesOf(m)) = SettledFor(m) /\ \A s \in SettledFor(m) : Settleable(s, m)
  <2>1. \A p \in cycleItems : p[1] \in LiveCycles /\ Settleable(p[2], cycles[p[1]].merchant)
    BY DEF RowsInv, RowsTrue, ItemsTrue
  <2>2. \A p \in cycleItems : p[2].merchant = cycles[p[1]].merchant
    BY <2>1 DEF Settleable
  <2>3. \A s \in SettledFor(m) : s \in SettledBy(CyclesOf(m)) /\ Settleable(s, m)
    <3>1. ASSUME NEW s \in SettledFor(m)
          PROVE  s \in SettledBy(CyclesOf(m)) /\ Settleable(s, m)
      <4>1. PICK p \in cycleItems : s = p[2] /\ p[2].merchant = m
        BY DEF SettledFor, Settled
      <4>2. p[1] \in CyclesOf(m) /\ s \in ChargesOf(p[1])
        BY <2>1, <2>2, <4>1 DEF CyclesOf, ChargesOf
      <4> QED
        BY <2>1, <2>2, <4>1, <4>2 DEF SettledBy
    <3> QED
      BY <3>1
  <2>4. \A s \in SettledBy(CyclesOf(m)) : s \in SettledFor(m)
    BY <2>2 DEF SettledBy, CyclesOf, ChargesOf, SettledFor, Settled
  <2> QED
    BY <2>3, <2>4
<1>3. PICK f : f = [k \in PayoutKeys(m) |-> transfers[k].amount]
  OBVIOUS
<1>4. Paid(m) = SumFunctionOnSet(f, PayoutKeys(m))
  <2>1. DOMAIN f = PayoutKeys(m)
    BY <1>3
  <2>2. Paid(m) = SumFunction(f)
    BY <1>3 DEF Paid, PayoutKeys
  <2> QED
    BY <2>1, <2>2 DEF SumFunction
<1>5. IsFiniteSet(PayoutKeys(m)) /\ IsFiniteSet(SettledFor(m))
  BY <1>1, <1>2, CyclesPayWhatIsLeft
<1>6. \A k \in PayoutKeys(m) : k \in TransferKey
  BY KeysAssumption DEF PayoutKeys, CycleKeys
<1>7. SumFunctionOnSet(f, PayoutKeys(m)) = SumFunctionOnSet(Amounts, PayoutKeys(m))
  <2>1. PICK g : g = Amounts
    OBVIOUS
  <2>2. \A k \in PayoutKeys(m) : f[k] = g[k]
    BY <1>3, <1>6, <2>1 DEF Amounts
  <2> QED
    BY <1>5, <2>1, <2>2, SumsSame
<1>8. SumFunctionOnSet(Amounts, PayoutKeys(m)) <= SumFunctionOnSet(Left, SettledFor(m))
  <2>1. PICK keys, charges : keys = PayoutKeys(m) /\ charges = SettledFor(m)
    OBVIOUS
  <2>2. keys = PayoutKeys(m) \cap KeysOf(CyclesOf(m)) /\ charges = SettledBy(CyclesOf(m))
    BY <1>1, <1>2, <2>1
  <2>3. SumFunctionOnSet(Amounts, PayoutKeys(m) \cap KeysOf(CyclesOf(m)))
          <= SumFunctionOnSet(Left, SettledBy(CyclesOf(m)))
    BY CyclesPayWhatIsLeft
  <2> QED
    BY <2>1, <2>2, <2>3
<1> QED
  BY <1>2, <1>4, <1>5, <1>7, <1>8

\* What settlement and reserves pay out to a merchant is never more than what the
\* rows of its settled charges say and their fees have left, however many merchants
\* and callers use one idempotency key, and whatever instances, restarts, retries,
\* reversals and failed payouts do.
THEOREM PayoutsAreSettled == ControlsSpec => []PaidOutIsSettled
<1>1. ControlsInv => PaidOutIsSettled
  <2> SUFFICES ASSUME ControlsInv, NEW m \in Merchant
               PROVE  Paid(m) <= Claimed(m)
    BY DEF PaidOutIsSettled
  <2>1. RowsInv
    BY DEF ControlsInv
  <2>2. /\ Paid(m) <= SumFunctionOnSet(Left, SettledFor(m))
        /\ IsFiniteSet(SettledFor(m)) /\ \A s \in SettledFor(m) : Settleable(s, m)
    BY <2>1, PaidIsCovered
  <2>3. PICK f, g : f = [s \in SettledFor(m) |-> records[s].amount - fees[s].total] /\ g = Left
    OBVIOUS
  <2>4. \A s \in SettledFor(m) : f[s] = g[s]
    BY <2>2, <2>3 DEF Left, Settleable
  <2>5. Claimed(m) = SumFunctionOnSet(f, SettledFor(m))
    <3>1. DOMAIN f = SettledFor(m)
      BY <2>3
    <3>2. Claimed(m) = SumFunction(f)
      BY <2>3 DEF Claimed, SettledFor
    <3> QED
      BY <3>1, <3>2 DEF SumFunction
  <2>6. Claimed(m) = SumFunctionOnSet(Left, SettledFor(m))
    BY <2>2, <2>3, <2>4, <2>5, SumsSame
  <2> QED
    BY <2>2, <2>6
<1> QED
  BY <1>1, ControlsInvariant, PTL
=============================================================================
