--------------------------- MODULE LedgerTxProofs ---------------------------
(***************************************************************************)
(* The transactions of LedgerTx are serializable, for any callers, calls   *)
(* and accounts: each commit is one step of Ledger.  A commit checks       *)
(* nothing again, so the invariant says what each statement before it has  *)
(* established and that the row locks keep it true until then: the key is  *)
(* unused, the hold active, the transaction posted, and each entry passes  *)
(* the balance check against the sums as they are committed now.           *)
(***************************************************************************)
EXTENDS LedgerTx, LedgerProofs

-----------------------------------------------------------------------------
(***************************************************************************)
(* The invariant.                                                          *)
(***************************************************************************)
Working == {"entry", "readLedger", "readHeld", "commit"}

\* A call executes the statements its function sends.
OnItsProgram(p) ==
    /\ pc[p] # "idle" => call[p] \in Calls
    /\ pc[p] \in {"reserve", "fetch", "entry"} => Keyed(call[p])
    /\ pc[p] = "subject" => call[p].op \in {"capture", "reverse", "release"}
    /\ pc[p] = "account" => call[p].op \in {"place", "transition"}
    /\ pc[p] \in {"readLedger", "readHeld"} => Keyed(call[p]) \/ call[p].op \in {"place", "balance"}
    /\ pc[p] \in {"begin", "commit"} => call[p].op # "balance"
    /\ pc[p] \notin Working => tx[p] = NoTx
    /\ ~Keyed(call[p]) => tx[p].inserted = 0
    /\ pc[p] = "idle" => locks[p] = {}

\* The idempotency key is this transaction's alone.
KeyIsReserved(p) ==
    Keyed(call[p]) /\ pc[p] \in Working \cup {"subject"} =>
        /\ RowLock("update", "key", call[p].key) \in locks[p]
        /\ Unused(call[p].key)

\* The hold or transaction read FOR UPDATE still says what was checked.
SubjectIsLocked(p) ==
    call[p].op \in {"capture", "release", "reverse"} /\ pc[p] \in Working =>
        /\ SubjectLock(call[p]) \in locks[p]
        /\ IF call[p].op = "reverse" THEN txns[call[p].original].state = "posted"
                                     ELSE holds[call[p].hold].status = "active"

LegsOf(c) ==
    CASE c.op = "post" -> {c.legs}
      [] c.op = "capture" -> {DebitLegs(holds[c.hold].account, holds[c.hold].amount)}
      [] c.op = "reverse" -> Compensating(txns[c.original].legs)

\* The committed sums with the entries before the n-th one.
SumsBefore(p, n) == IF n = 1 THEN ledgerSum ELSE Inserted(ledgerSum, tx[p].legs[1])

EntryIsLocked(p, n) ==
    /\ EntryLock(tx[p].legs[n]) \in locks[p]
    /\ Exists(tx[p].legs[n].account)

EntryPasses(p, n) == PassesBalanceCheck(SumsBefore(p, n), tx[p].legs[n])

\* What a posting, capture or reversal has inserted would be inserted now.
EntriesPass(p) ==
    Keyed(call[p]) /\ pc[p] \in Working =>
        /\ tx[p].legs \in LegsOf(call[p])
        /\ pc[p] = "commit" <=> tx[p].inserted = 2
        /\ \A n \in 1..tx[p].inserted : EntryIsLocked(p, n) /\ EntryPasses(p, n)
        /\ pc[p] \in {"readLedger", "readHeld"} =>
             EntryIsLocked(p, tx[p].inserted + 1) /\ NextLeg(p).amount <= 0
        /\ pc[p] = "readHeld" => tx[p].read = SumsBefore(p, tx[p].inserted + 1)[NextLeg(p).account]

\* The account is locked, and what was read of it or checked is so now.
AccountIsLocked(p) ==
    call[p].op \in {"place", "transition"} /\ pc[p] \in Working =>
        /\ RowLock("update", "account", call[p].account) \in locks[p]
        /\ Exists(call[p].account)

PlacementFits(p) ==
    call[p].op = "place" /\ pc[p] # "idle" =>
        /\ holds[call[p].hold] = NoHold
        /\ pc[p] = "readHeld" => tx[p].read = ledgerSum[call[p].account]
        /\ pc[p] = "commit" =>
             Available(call[p].account) - call[p].amount >= -accounts[call[p].account].overdraft

TransitionIsLegal(p) ==
    call[p].op = "transition" /\ pc[p] = "commit" =>
        CanTransitionTo(accounts[call[p].account].state, call[p].target)

CallerInv(p) ==
    /\ OnItsProgram(p) /\ KeyIsReserved(p) /\ SubjectIsLocked(p) /\ EntriesPass(p)
    /\ AccountIsLocked(p) /\ PlacementFits(p) /\ TransitionIsLegal(p)

LocksExclude ==
    \A p, q \in Caller : p # q => \A l \in locks[p], m \in locks[q] : ~Conflict(l, m)

\* No two calls have drawn the same id.
Placing(p) == pc[p] # "idle" /\ call[p].op = "place"
DrawnIdsDiffer ==
    \A p, q \in Caller : p # q /\ Placing(p) /\ Placing(q) => call[p].hold # call[q].hold

TxInv == TxTypeOK /\ (\A p \in Caller : CallerInv(p)) /\ LocksExclude /\ DrawnIdsDiffer

-----------------------------------------------------------------------------
(***************************************************************************)
(* Facts about the model's operators.                                      *)
(***************************************************************************)

\* The legs of the three postings are typed.
LEMMA PostedLegsTyped ==
    ASSUME NEW a \in Account, NEW b \in Account, NEW x \in Amount
    PROVE  CreditLegs(a, x) \in Legs /\ DebitLegs(a, x) \in Legs /\ <<Leg(a, -x), Leg(b, x)>> \in Legs
  BY LegsTyped, AmountAssumption DEF AllAccounts, CreditLegs, DebitLegs

\* The fields of a call by its kind.
LEMMA CallsTyped ==
    ASSUME NEW c \in Calls
    PROVE  /\ c.op \in {"post", "capture", "reverse", "place", "release", "transition", "balance"}
           /\ c.op = "post" => c.key \in Key /\ c.legs \in Legs
           /\ c.op = "capture" => c.hold \in HoldId /\ c.key \in Key
           /\ c.op = "reverse" => c.original \in Key /\ c.key \in Key
           /\ c.op = "place" => c.hold \in HoldId /\ c.account \in Account /\ c.amount \in Amount
           /\ c.op = "release" => c.hold \in HoldId
           /\ c.op = "transition" => c.account \in Account /\ c.target \in TargetState
           /\ c.op = "balance" => c.account \in AllAccounts
<1>2. c \in LedgerCalls
  BY CallsAssumption
<1> USE DEF Post, Capture, Reverse, Place, Release, Transition, Balance
<1>3. ASSUME NEW type, NEW legs \in Legs, NEW k \in Key, c = Post(type, legs, k)
      PROVE  c.op = "post" /\ c.key \in Key /\ c.legs \in Legs
  BY <1>3
<1>4. CASE \E a \in Account, x \in Amount, k \in Key : c = Post("credit", CreditLegs(a, x), k)
  BY PostedLegsTyped, <1>3, <1>4
<1>5. CASE \E a \in Account, x \in Amount, k \in Key : c = Post("debit", DebitLegs(a, x), k)
  BY PostedLegsTyped, <1>3, <1>5
<1>6. CASE \E a, b \in Account, x \in Amount, k \in Key : c = Post("transfer", <<Leg(a, -x), Leg(b, x)>>, k)
  BY PostedLegsTyped, <1>3, <1>6
<1>7. CASE \/ \E h \in HoldId, k \in Key : c = Capture(h, k)
           \/ \E o, k \in Key : c = Reverse(o, k)
  BY <1>7
<1>8. CASE \/ \E h \in HoldId, a \in Account, x \in Amount : c = Place(h, a, x)
           \/ \E h \in HoldId : c = Release(h)
  BY <1>8
<1>9. CASE \/ \E a \in Account, s \in TargetState : c = Transition(a, s)
           \/ \E a \in AllAccounts : c = Balance(a)
  BY <1>9
<1> HIDE DEF Post, Capture, Reverse, Place, Release, Transition, Balance
<1> QED
  BY <1>2, <1>4, <1>5, <1>6, <1>7, <1>8, <1>9 DEF LedgerCalls

\* A posting is one of the three the package exports.
LEMMA PostingsAreKnown ==
    ASSUME NEW c \in Calls, c.op = "post"
    PROVE  \/ \E a \in Account, x \in Amount : c.type = "credit" /\ c.legs = CreditLegs(a, x)
           \/ \E a \in Account, x \in Amount : c.type = "debit" /\ c.legs = DebitLegs(a, x)
           \/ \E a, b \in Account, x \in Amount : c.type = "transfer" /\ c.legs = <<Leg(a, -x), Leg(b, x)>>
<1>1. c \in LedgerCalls
  BY CallsAssumption
<1> QED
  BY <1>1 DEF LedgerCalls, Post, Capture, Reverse, Place, Release, Transition, Balance

\* The entries a call inserts are typed, whatever it read them from.
LEMMA LegsOfTyped ==
    ASSUME TxInv, NEW p \in Caller, Keyed(call[p]), pc[p] \in Working
    PROVE  tx[p].legs \in Legs /\ Len(tx[p].legs) = 2
<1> DEFINE c == call[p]
<1>1. c \in Calls /\ tx[p].legs \in LegsOf(c)
  BY DEF TxInv, CallerInv, OnItsProgram, EntriesPass, Working
<1>2. ASSUME c.op = "post" PROVE tx[p].legs \in Legs
  BY <1>1, <1>2, CallsTyped DEF LegsOf
<1>3. ASSUME c.op = "capture" PROVE tx[p].legs \in Legs
  <2>1. holds[c.hold].status = "active" /\ c.hold \in HoldId
    BY <1>1, <1>3, CallsTyped DEF TxInv, CallerInv, SubjectIsLocked
  <2>2. holds[c.hold] \in Hold
    BY <2>1 DEF TxInv, TxTypeOK, TypeOK, NoHold
  <2>3. DebitLegs(holds[c.hold].account, holds[c.hold].amount) \in Legs
    BY <2>2, PostedLegsTyped DEF Hold
  <2>4. tx[p].legs = DebitLegs(holds[c.hold].account, holds[c.hold].amount)
    BY <1>1, <1>3 DEF LegsOf
  <2> QED
    BY <2>3, <2>4
<1>4. ASSUME c.op = "reverse" PROVE tx[p].legs \in Legs
  <2>1. txns[c.original].state = "posted" /\ c.original \in Key
    BY <1>1, <1>4, CallsTyped DEF TxInv, CallerInv, SubjectIsLocked
  <2>2. txns[c.original] \in Txn
    BY <2>1 DEF TxInv, TxTypeOK, TypeOK, NoTxn
  <2>3. txns[c.original].legs \in Legs /\ tx[p].legs \in Compensating(txns[c.original].legs)
    BY <1>1, <1>4, <2>2 DEF LegsOf, Txn
  <2> QED
    BY <2>3, CompensatingTyped
<1>5. tx[p].legs \in Legs
  BY <1>2, <1>3, <1>4 DEF Keyed
<1> QED
  BY <1>5 DEF Legs

\* The sum the trigger reads is the committed one with the transaction's own entries.
LEMMA OwnEntriesAdded ==
    ASSUME TxInv, NEW p \in Caller, tx[p].legs \in Legs, tx[p].inserted \in {0, 1},
           NEW a \in AllAccounts
    PROVE  ledgerSum[a] + OwnEntries(p, a) = SumsBefore(p, tx[p].inserted + 1)[a]
<1> DEFINE own == {i \in 1..tx[p].inserted : tx[p].legs[i].account = a}
<1>1. ledgerSum \in [AllAccounts -> Int] /\ tx[p].legs[1] \in Entry
  BY DEF TxInv, TxTypeOK, TypeOK, Legs
<1>2. CASE tx[p].inserted = 0
  BY <1>1, <1>2 DEF OwnEntries, SumsBefore
<1>3. CASE tx[p].inserted = 1 /\ tx[p].legs[1].account = a
  <2>1. own = {1}
    BY <1>3
  <2>2. (CHOOSE i \in own : TRUE) = 1
    BY <2>1
  <2>3. OwnEntries(p, a) = tx[p].legs[1].amount
    BY <2>1, <2>2 DEF OwnEntries
  <2> QED
    BY <1>1, <1>3, <2>3 DEF SumsBefore, Inserted, Entry
<1>4. CASE tx[p].inserted = 1 /\ tx[p].legs[1].account # a
  <2>1. own = {}
    BY <1>4
  <2>2. OwnEntries(p, a) = 0
    BY <2>1 DEF OwnEntries
  <2> QED
    BY <1>1, <1>4, <2>2 DEF SumsBefore, Inserted, Entry
<1> QED
  BY <1>2, <1>3, <1>4

-----------------------------------------------------------------------------
(***************************************************************************)
(* A commit is a step of Ledger.                                           *)
(***************************************************************************)

\* What the statements of the transaction have checked holds when it commits.
LEMMA CommittedEntriesFit ==
    ASSUME TxInv, NEW p \in Caller, pc[p] = "commit", Keyed(call[p]), NEW type, CommitEntries(p, type)
    PROVE  /\ Unused(call[p].key) /\ tx[p].legs \in LegsOf(call[p])
           /\ InsertEntries(tx[p].legs)
<1>1. /\ Unused(call[p].key) /\ tx[p].legs \in LegsOf(call[p]) /\ tx[p].inserted = 2
      /\ \A n \in 1..tx[p].inserted : Exists(tx[p].legs[n].account) /\ EntryPasses(p, n)
  BY DEF TxInv, CallerInv, KeyIsReserved, EntriesPass, EntryIsLocked, Working
<1>2. /\ Exists(tx[p].legs[1].account) /\ Exists(tx[p].legs[2].account)
      /\ PassesBalanceCheck(ledgerSum, tx[p].legs[1])
      /\ PassesBalanceCheck(Inserted(ledgerSum, tx[p].legs[1]), tx[p].legs[2])
  BY <1>1 DEF EntryPasses, SumsBefore
<1> QED
  BY <1>1, <1>2 DEF CommitEntries, InsertEntries, CanInsert

\* A posting commits as the posting of Ledger with its legs and key.
LEMMA PostCommits ==
    ASSUME TxInv, NEW p \in Caller, pc[p] = "commit", call[p].op = "post",
           CommitEntries(p, call[p].type), UNCHANGED <<accounts, holds, heldSum>>
    PROVE  Next /\ call[p].key \in Key /\ PostTransaction(call[p].type, call[p].key, tx[p].legs)
<1> DEFINE c == call[p]
<1>1. c \in Calls /\ c.key \in Key
  BY CallsTyped DEF TxInv, CallerInv, OnItsProgram
<1>2. Unused(c.key) /\ InsertEntries(c.legs) /\ tx[p].legs = c.legs
  BY CommittedEntriesFit DEF Keyed, LegsOf
<1>3. txns' = [txns EXCEPT ![c.key] = Posted(c.type, c.legs, LegsRequest(c.type, c.legs))]
  BY <1>2 DEF CommitEntries, RequestOf
<1>4. PostTransaction(c.type, c.key, c.legs)
  BY <1>2, <1>3 DEF PostTransaction
<1>5. ASSUME \E a \in Account, x \in Amount : c.type = "credit" /\ c.legs = CreditLegs(a, x)
      PROVE  Next
  BY <1>1, <1>4, <1>5 DEF Next, Credit
<1>6. ASSUME \E a \in Account, x \in Amount : c.type = "debit" /\ c.legs = DebitLegs(a, x)
      PROVE  Next
  BY <1>1, <1>4, <1>6 DEF Next, Debit
<1>7. ASSUME \E a, b \in Account, x \in Amount : c.type = "transfer" /\ c.legs = <<Leg(a, -x), Leg(b, x)>>
      PROVE  Next
  BY <1>1, <1>4, <1>7 DEF Next, Transfer
<1> QED
  BY <1>1, <1>2, <1>4, <1>5, <1>6, <1>7, PostingsAreKnown

\* A capture commits as the capture of its hold, still active, under its key.
LEMMA CaptureCommits ==
    ASSUME TxInv, NEW p \in Caller, pc[p] = "commit", call[p].op = "capture",
           CommitEntries(p, "debit"), CommitResolvedHold(p, "captured"), UNCHANGED accounts
    PROVE  CaptureHold(call[p].hold, call[p].key) /\ call[p].hold \in HoldId /\ call[p].key \in Key
<1> DEFINE c == call[p]
<1>1. c \in Calls /\ c.key \in Key /\ c.hold \in HoldId
  BY CallsTyped DEF TxInv, CallerInv, OnItsProgram
<1>2. holds[c.hold].status = "active"
  BY DEF TxInv, CallerInv, SubjectIsLocked, Working
<1>3. /\ Unused(c.key) /\ InsertEntries(tx[p].legs)
      /\ tx[p].legs = DebitLegs(holds[c.hold].account, holds[c.hold].amount)
  BY CommittedEntriesFit DEF Keyed, LegsOf
<1>4. txns' = [txns EXCEPT ![c.key] = Posted("debit", tx[p].legs, CaptureRequest(c.hold))]
  BY DEF CommitEntries, RequestOf
<1> QED
  BY <1>1, <1>2, <1>3, <1>4 DEF CaptureHold, CommitResolvedHold, ResolveHold

\* A reversal commits as the reversal of its original, still posted.
LEMMA ReversalCommits ==
    ASSUME TxInv, NEW p \in Caller, pc[p] = "commit", call[p].op = "reverse",
           CommitEntries(p, "reversal"), UNCHANGED <<accounts, holds, heldSum>>
    PROVE  /\ ReverseTransaction(call[p].original, call[p].key)
           /\ call[p].original \in Key /\ call[p].key \in Key
<1> DEFINE c == call[p]
<1>1. c \in Calls /\ c.key \in Key /\ c.original \in Key
  BY CallsTyped DEF TxInv, CallerInv, OnItsProgram
<1>2. txns[c.original].state = "posted"
  BY DEF TxInv, CallerInv, SubjectIsLocked, Working
<1>3. /\ Unused(c.key) /\ InsertEntries(tx[p].legs)
      /\ tx[p].legs \in Compensating(txns[c.original].legs)
  BY CommittedEntriesFit DEF Keyed, LegsOf
<1>4. txns' = [txns EXCEPT ![c.key] = Posted("reversal", tx[p].legs, ReversalRequest(c.original)),
                           ![c.original].state = "reversed"]
  BY DEF CommitEntries, RequestOf
<1> QED
  BY <1>1, <1>2, <1>3, <1>4 DEF ReverseTransaction

\* A release commits as the release of its hold, still active.
LEMMA ReleaseCommits ==
    ASSUME TxInv, NEW p \in Caller, pc[p] = "commit", call[p].op = "release",
           CommitResolvedHold(p, "released"), UNCHANGED <<accounts, txns, ledgerSum>>
    PROVE  ReleaseHold(call[p].hold) /\ call[p].hold \in HoldId
<1>1. call[p] \in Calls /\ call[p].hold \in HoldId
  BY CallsTyped DEF TxInv, CallerInv, OnItsProgram
<1>2. holds[call[p].hold].status = "active"
  BY DEF TxInv, CallerInv, SubjectIsLocked, Working
<1> QED
  BY <1>1, <1>2 DEF ReleaseHold, CommitResolvedHold, ResolveHold

\* A placement commits as the placement of its hold, which still fits.
LEMMA PlacementCommits ==
    ASSUME TxInv, NEW p \in Caller, pc[p] = "commit", call[p].op = "place",
           CommitPlacedHold(p), UNCHANGED <<accounts, txns, ledgerSum>>
    PROVE  /\ PlaceHold(call[p].hold, call[p].account, call[p].amount)
           /\ call[p].hold \in HoldId /\ call[p].account \in Account /\ call[p].amount \in Amount
<1>1. call[p] \in Calls /\ call[p].hold \in HoldId /\ call[p].account \in Account /\ call[p].amount \in Amount
  BY CallsTyped DEF TxInv, CallerInv, OnItsProgram
<1>2. /\ holds[call[p].hold] = NoHold /\ Exists(call[p].account)
      /\ Available(call[p].account) - call[p].amount >= -accounts[call[p].account].overdraft
  BY DEF TxInv, CallerInv, PlacementFits, AccountIsLocked, Working
<1> QED
  BY <1>1, <1>2 DEF PlaceHold, CommitPlacedHold

\* A transition commits as the transition of its account, still legal.
LEMMA TransitionCommits ==
    ASSUME TxInv, NEW p \in Caller, pc[p] = "commit", call[p].op = "transition",
           accounts' = [accounts EXCEPT ![call[p].account].state = call[p].target],
           UNCHANGED <<txns, holds, ledgerSum, heldSum>>
    PROVE  /\ TransitionAccountState(call[p].account, call[p].target)
           /\ call[p].account \in Account /\ call[p].target \in TargetState
<1>1. call[p] \in Calls /\ call[p].account \in Account /\ call[p].target \in TargetState
  BY CallsTyped DEF TxInv, CallerInv, OnItsProgram
<1>2. CanTransitionTo(accounts[call[p].account].state, call[p].target)
  BY DEF TxInv, CallerInv, TransitionIsLegal
<1> QED
  BY <1>1, <1>2 DEF TransitionAccountState

\* So each commit is one.
LEMMA CommitIsLedgerStep ==
    ASSUME TxInv, NEW p \in Caller, Commit(p)
    PROVE  Next
<1> DEFINE c == call[p]
<1>1. pc[p] = "commit" /\ c \in Calls /\ c.op # "balance"
  BY DEF Commit, TxInv, CallerInv, OnItsProgram
<1>2. CASE c.op = "post"
  BY <1>1, <1>2, PostCommits DEF Commit
<1>3. CASE c.op = "capture"
  BY <1>1, <1>3, CaptureCommits DEF Commit, Next
<1>4. CASE c.op = "reverse"
  BY <1>1, <1>4, ReversalCommits DEF Commit, Next
<1>5. CASE c.op = "release"
  BY <1>1, <1>5, ReleaseCommits DEF Commit, Next
<1>6. CASE c.op = "place"
  BY <1>1, <1>6, PlacementCommits DEF Commit, Next
<1>7. CASE c.op = "transition"
  BY <1>1, <1>7, TransitionCommits DEF Commit, Next
<1> QED
  BY <1>1, <1>2, <1>3, <1>4, <1>5, <1>6, <1>7, CallsTyped

-----------------------------------------------------------------------------
(***************************************************************************)
(* What a caller has locked, the commits of the others leave as it is.     *)
(***************************************************************************)
\* While one caller has a lock on a row, no other has it FOR UPDATE.
LEMMA LockIsExclusive ==
    ASSUME TxInv, NEW p \in Caller, NEW q \in Caller, p # q,
           NEW mode, NEW table, NEW id, RowLock(mode, table, id) \in locks[p]
    PROVE  RowLock("update", table, id) \notin locks[q]
  BY DEF TxInv, LocksExclude, Conflict, RowLock

\* Committed entries are not on an account another caller has locked FOR UPDATE.
LEMMA EntriesLeaveLocked ==
    ASSUME TxInv, NEW p \in Caller, NEW q \in Caller, p # q,
           pc[p] = "commit", Keyed(call[p]), InsertEntries(tx[p].legs),
           NEW a \in AllAccounts, RowLock("update", "account", a) \in locks[q]
    PROVE  /\ tx[p].legs[1].account # a /\ tx[p].legs[2].account # a
           /\ ledgerSum'[a] = ledgerSum[a]
<1>1. tx[p].legs \in Legs
  BY LegsOfTyped DEF Working
<1>2. \A n \in 1..2 : EntryLock(tx[p].legs[n]) \in locks[p]
  BY DEF TxInv, CallerInv, EntriesPass, EntryIsLocked, Working
<1>3. tx[p].legs[1].account # a /\ tx[p].legs[2].account # a
  BY <1>2, LockIsExclusive DEF EntryLock
<1> QED
  BY <1>1, <1>3 DEF InsertEntries, Inserted, Legs, Entry, TxInv, TxTypeOK, TypeOK

\* Resolving a hold lowers the held sum of its account and touches no other hold.
LEMMA ResolvedHoldLeaves ==
    ASSUME TypeOK, NEW h \in HoldId, NEW target, ResolveHold(h, target)
    PROVE  /\ \A a \in AllAccounts : heldSum'[a] <= heldSum[a]
           /\ \A a \in AllAccounts : a # holds[h].account => heldSum'[a] = heldSum[a]
           /\ \A g \in HoldId \ {h} : holds'[g] = holds[g]
<1>1. holds[h] \in Hold
  BY DEF ResolveHold, TypeOK, NoHold
<1>2. holds[h].amount \in Nat /\ heldSum \in [AllAccounts -> Int]
  BY <1>1, AmountAssumption DEF Hold, TypeOK
<1> QED
  BY <1>2 DEF ResolveHold, TypeOK

\* Seen from q: rows it has locked keep what they said, but for an account's
\* active holds, of which one may be released; accounts are never deleted.
RowsStay(q) ==
    /\ \A k \in Key : RowLock("update", "key", k) \in locks[q] /\ Unused(k) => Unused(k)'
    /\ \A h \in HoldId :
         RowLock("update", "hold", h) \in locks[q] /\ holds[h].status = "active" => holds'[h] = holds[h]
    /\ \A o \in Key :
         RowLock("update", "txn", o) \in locks[q] /\ txns[o].state = "posted" => txns'[o] = txns[o]
    /\ \A a \in AllAccounts : RowLock("update", "account", a) \in locks[q] /\ Exists(a) =>
         /\ ledgerSum'[a] = ledgerSum[a] /\ heldSum'[a] <= heldSum[a]
         /\ accounts'[a] = accounts[a]
    /\ \A a \in AllAccounts :
         Exists(a) => Exists(a)' /\ accounts'[a].overdraft = accounts[a].overdraft

\* So a commit leaves the rows the other callers have locked as they are.
LEMMA LockedRowsStay ==
    ASSUME TxInv, NEW p \in Caller, NEW q \in Caller, p # q, Commit(p)
    PROVE  RowsStay(q)
<1> DEFINE c == call[p]
<1>1. pc[p] = "commit" /\ c \in Calls /\ c.op # "balance" /\ TypeOK
  BY DEF Commit, TxInv, TxTypeOK, CallerInv, OnItsProgram
<1>2. Keyed(c) => RowLock("update", "key", c.key) \in locks[p] /\ Unused(c.key)
  BY <1>1 DEF TxInv, CallerInv, KeyIsReserved, Working
<1>3. c.op \in {"capture", "release"} =>
        RowLock("update", "hold", c.hold) \in locks[p] /\ holds[c.hold].status = "active"
  BY <1>1 DEF TxInv, CallerInv, SubjectIsLocked, SubjectLock, Working
<1>4. c.op = "reverse" => RowLock("update", "txn", c.original) \in locks[p]
  BY <1>1 DEF TxInv, CallerInv, SubjectIsLocked, SubjectLock, Working
<1>5. c.op \in {"place", "transition"} => RowLock("update", "account", c.account) \in locks[p]
  BY <1>1 DEF TxInv, CallerInv, AccountIsLocked, Working
<1>6. CASE c.op = "post"
  <2>1. /\ PostTransaction(c.type, c.key, tx[p].legs) /\ c.key \in Key
        /\ \A k \in Key \ {c.key} : txns'[k] = txns[k]
    BY <1>1, <1>6, PostCommits, PostAdds DEF Commit
  <2>2. InsertEntries(tx[p].legs) /\ UNCHANGED <<accounts, holds, heldSum>>
    BY <2>1 DEF PostTransaction
  <2> QED
    BY <1>1, <1>2, <1>6, <2>1, <2>2, LockIsExclusive, EntriesLeaveLocked
    DEF RowsStay, Keyed, Unused, NoTxn, TypeOK, Exists
<1>7. CASE c.op = "capture"
  <2>1. /\ CaptureHold(c.hold, c.key) /\ c.key \in Key /\ c.hold \in HoldId
        /\ \A k \in Key \ {c.key} : txns'[k] = txns[k]
    BY <1>1, <1>7, CaptureCommits, CaptureAdds DEF Commit
  <2>2. /\ tx[p].legs = DebitLegs(holds[c.hold].account, holds[c.hold].amount)
        /\ InsertEntries(tx[p].legs) /\ ResolveHold(c.hold, "captured") /\ UNCHANGED accounts
    BY <1>1, <1>7, <2>1 DEF CaptureHold, TxInv, CallerInv, EntriesPass, LegsOf, Keyed, Working
  <2>3. tx[p].legs[1].account = holds[c.hold].account
    BY <2>2 DEF DebitLegs, Leg
  <2> QED
    BY <1>1, <1>2, <1>3, <1>7, <2>1, <2>2, <2>3, LockIsExclusive, EntriesLeaveLocked, ResolvedHoldLeaves
    DEF RowsStay, Keyed, Unused, NoTxn, TypeOK, Exists
<1>8. CASE c.op = "reverse"
  <2>1. /\ ReverseTransaction(c.original, c.key) /\ c.key \in Key /\ c.original \in Key
        /\ \A k \in Key \ {c.key, c.original} : txns'[k] = txns[k]
        /\ txns[c.original].state = "posted"
    BY <1>1, <1>8, ReversalCommits, ReversalAdds DEF Commit
  <2>2. InsertEntries(tx[p].legs) /\ UNCHANGED <<accounts, holds, heldSum>>
    BY <1>1, <1>8, CommittedEntriesFit DEF Commit, Keyed
  <2> QED
    BY <1>1, <1>2, <1>4, <1>8, <2>1, <2>2, LockIsExclusive, EntriesLeaveLocked
    DEF RowsStay, Keyed, Unused, NoTxn, TypeOK, Exists
<1>9. CASE c.op = "release"
  <2>1. ResolveHold(c.hold, "released") /\ UNCHANGED <<accounts, txns, ledgerSum>> /\ c.hold \in HoldId
    BY <1>1, <1>9, ReleaseCommits DEF Commit, ReleaseHold
  <2> QED
    BY <1>1, <1>3, <1>9, <2>1, LockIsExclusive, ResolvedHoldLeaves DEF RowsStay, Unused, Exists
<1>10. CASE c.op = "place"
  <2>1. PlaceHold(c.hold, c.account, c.amount) /\ c.hold \in HoldId /\ c.account \in AllAccounts
    BY <1>1, <1>10, PlacementCommits DEF Commit, AllAccounts
  <2>2. /\ \A h \in HoldId \ {c.hold} : holds'[h] = holds[h]
        /\ \A a \in AllAccounts \ {c.account} : heldSum'[a] = heldSum[a]
        /\ holds[c.hold] = NoHold /\ UNCHANGED <<accounts, txns, ledgerSum>>
    BY <1>1, <2>1 DEF PlaceHold, TypeOK
  <2> QED
    BY <1>1, <1>5, <1>10, <2>1, <2>2, LockIsExclusive DEF RowsStay, Unused, Exists, NoHold, TypeOK
<1>11. CASE c.op = "transition"
  <2>1. TransitionAccountState(c.account, c.target) /\ c.account \in AllAccounts /\ c.target \in TargetState
    BY <1>1, <1>11, TransitionCommits DEF Commit, AllAccounts
  <2>2. /\ accounts \in [AllAccounts -> [state : AccountState \cup {"absent"}, overdraft : Nat]]
        /\ accounts' = [accounts EXCEPT ![c.account].state = c.target]
        /\ UNCHANGED <<txns, holds, ledgerSum, heldSum>>
    BY <1>1, <2>1 DEF TransitionAccountState, TypeOK
  <2>3. c.target # "absent"
    BY <2>1, TargetStateAssumption DEF AccountState
  <2>4. /\ \A a \in AllAccounts \ {c.account} : accounts'[a] = accounts[a]
        /\ accounts'[c.account].state # "absent"
        /\ accounts'[c.account].overdraft = accounts[c.account].overdraft
    BY <2>1, <2>2, <2>3
  <2> QED
    BY <1>1, <1>5, <1>11, <2>1, <2>2, <2>4, LockIsExclusive DEF RowsStay, Unused, Exists, TypeOK
<1> QED
  BY <1>1, <1>6, <1>7, <1>8, <1>9, <1>10, <1>11, CallsTyped

\* Opening an account touches no row that exists.
LEMMA OpeningLeavesRows ==
    ASSUME TypeOK, NEW a \in Account, NEW o \in Overdraft, OpenAccount(a, o), NEW q \in Caller
    PROVE  RowsStay(q)
<1>1. /\ \A b \in AllAccounts \ {a} : accounts'[b] = accounts[b]
      /\ ~Exists(a) /\ UNCHANGED <<txns, holds, ledgerSum, heldSum>>
  BY DEF OpenAccount, TypeOK, AllAccounts
<1> QED
  BY <1>1 DEF RowsStay, Unused, Exists, TypeOK

\* Seen from q: no statement of its own.
SameCaller(q) ==
    pc'[q] = pc[q] /\ call'[q] = call[q] /\ tx'[q] = tx[q] /\ locks'[q] = locks[q]

\* What a caller's statements have established stays so as long as its rows do.
LEMMA FactsStay ==
    ASSUME TxInv, TypeOK', NEW q \in Caller, SameCaller(q), RowsStay(q),
           Placing(q) => holds'[call[q].hold] = NoHold
    PROVE  CallerInv(q)'
<1> DEFINE c == call[q]
<1>0. /\ OnItsProgram(q) /\ KeyIsReserved(q) /\ SubjectIsLocked(q) /\ EntriesPass(q)
      /\ AccountIsLocked(q) /\ PlacementFits(q) /\ TransitionIsLegal(q) /\ TypeOK
  BY DEF TxInv, TxTypeOK, CallerInv
<1>1. OnItsProgram(q)'
  BY <1>0 DEF SameCaller, OnItsProgram, Keyed
<1>2. KeyIsReserved(q)'
  BY <1>0, CallsTyped DEF SameCaller, RowsStay, KeyIsReserved, OnItsProgram, Keyed, Working
<1>3. c.op \in {"capture", "release"} /\ pc[q] \in Working => holds'[c.hold] = holds[c.hold]
  BY <1>0, CallsTyped DEF RowsStay, SubjectIsLocked, SubjectLock, OnItsProgram, Working
<1>4. c.op = "reverse" /\ pc[q] \in Working => txns'[c.original] = txns[c.original]
  BY <1>0, CallsTyped DEF RowsStay, SubjectIsLocked, SubjectLock, OnItsProgram, Working
<1>5. SubjectIsLocked(q)'
  BY <1>0, <1>3, <1>4 DEF SameCaller, SubjectIsLocked, SubjectLock
<1>6. EntriesPass(q)'
  <2> SUFFICES ASSUME Keyed(c), pc[q] \in Working PROVE EntriesPass(q)'
    BY DEF SameCaller, EntriesPass
  <2>1. tx[q].legs \in Legs /\ tx[q].inserted \in 0..2
    BY LegsOfTyped DEF TxInv, TxTypeOK
  <2>2. LegsOf(c)' = LegsOf(c)
    BY <1>3, <1>4 DEF LegsOf, SameCaller, Keyed
  <2>3. ASSUME NEW n \in 1..2, EntryIsLocked(q, n) PROVE EntryIsLocked(q, n)'
    <3>1. tx[q].legs[n].account \in AllAccounts
      BY <2>1 DEF Legs, Entry
    <3> QED
      BY <2>3, <3>1 DEF SameCaller, RowsStay, EntryIsLocked
  <2>4. ASSUME NEW n \in 1..2, EntryIsLocked(q, n), tx[q].legs[n].amount <= 0
        PROVE  LET a == tx[q].legs[n].account
               IN  /\ SumsBefore(q, n)'[a] = SumsBefore(q, n)[a]
                   /\ SumsBefore(q, n)[a] \in Int
                   /\ heldSum'[a] \in Int /\ heldSum[a] \in Int /\ heldSum'[a] <= heldSum[a]
                   /\ accounts'[a] = accounts[a]
    <3> DEFINE a == tx[q].legs[n].account
    <3>1. a \in AllAccounts /\ tx[q].legs[n].amount \in Int
      BY <2>1 DEF Legs, Entry
    <3>2. ledgerSum'[a] = ledgerSum[a] /\ heldSum'[a] <= heldSum[a] /\ accounts'[a] = accounts[a]
      BY <2>4, <3>1 DEF RowsStay, EntryIsLocked, EntryLock
    <3>3. tx[q].legs[1] \in Entry
      BY <2>1 DEF Legs
    <3>4. SumsBefore(q, n)'[a] = SumsBefore(q, n)[a] /\ SumsBefore(q, n)[a] \in Int
      BY <1>0, <3>1, <3>2, <3>3 DEF SameCaller, SumsBefore, Inserted, Entry, TypeOK
    <3> QED
      BY <1>0, <3>1, <3>2, <3>4 DEF TypeOK
  <2>5. ASSUME NEW n \in 1..2, EntryIsLocked(q, n), EntryPasses(q, n) PROVE EntryPasses(q, n)'
    <3>1. tx[q].legs[n].amount \in Int /\ tx[q].legs[n].account \in AllAccounts
      BY <2>1 DEF Legs, Entry
    <3>2. CASE tx[q].legs[n].amount > 0
      BY <3>2 DEF SameCaller, EntryPasses, PassesBalanceCheck
    <3>3. CASE tx[q].legs[n].amount <= 0
      BY <1>0, <2>4, <2>5, <3>1, <3>3 DEF SameCaller, EntryPasses, PassesBalanceCheck, TypeOK
    <3> QED
      BY <3>1, <3>2, <3>3
  <2>6. \A n \in 1..tx[q].inserted : n \in 1..2
    BY <2>1
  <2>7. pc[q] \in {"readLedger", "readHeld"} => tx[q].inserted + 1 \in 1..2 /\ tx[q].inserted # 2
    BY <1>0, <2>1 DEF EntriesPass
  <2>8. \A n \in 1..tx[q].inserted : EntryIsLocked(q, n)' /\ EntryPasses(q, n)'
    BY <1>0, <2>3, <2>5, <2>6 DEF EntriesPass
  <2>9. pc[q] \in {"readLedger", "readHeld"} =>
          EntryIsLocked(q, tx[q].inserted + 1)' /\ NextLeg(q).amount' <= 0
    BY <1>0, <2>3, <2>7 DEF EntriesPass, NextLeg, SameCaller
  <2> QED
    BY <1>0, <2>2, <2>4, <2>7, <2>8, <2>9 DEF EntriesPass, NextLeg, SameCaller
<1>7. AccountIsLocked(q)'
  BY <1>0, CallsTyped DEF SameCaller, RowsStay, AccountIsLocked, OnItsProgram, AllAccounts, Working
<1>8. PlacementFits(q)'
  <2> SUFFICES ASSUME c.op = "place", pc[q] # "idle" PROVE PlacementFits(q)'
    BY DEF SameCaller, PlacementFits
  <2>1. c.account \in AllAccounts /\ c.amount \in Int
    <3>1. c.account \in Account /\ c.amount \in Amount
      BY <1>0, CallsTyped DEF OnItsProgram
    <3>2. \A x \in Amount : x \in Int
      BY AmountAssumption
    <3> HIDE DEF c
    <3> QED
      BY <3>1, <3>2 DEF AllAccounts
  <2>2. pc[q] \in Working =>
          /\ ledgerSum'[c.account] = ledgerSum[c.account] /\ heldSum'[c.account] <= heldSum[c.account]
          /\ accounts'[c.account] = accounts[c.account]
    BY <1>0, <2>1 DEF RowsStay, AccountIsLocked
  <2>3. /\ ledgerSum[c.account] \in Int /\ heldSum[c.account] \in Int /\ heldSum'[c.account] \in Int
        /\ accounts[c.account].overdraft \in Int
    BY <1>0, <2>1 DEF TypeOK
  <2>4. holds'[c.hold] = NoHold /\ (pc[q] = "readHeld" => tx[q].read = ledgerSum'[c.account])
    BY <1>0, <2>2 DEF PlacementFits, Placing, Working
  <2>5. ASSUME pc[q] = "commit"
        PROVE  ledgerSum'[c.account] - heldSum'[c.account] - c.amount >= -accounts'[c.account].overdraft
    <3>1. ledgerSum[c.account] - heldSum[c.account] - c.amount >= -accounts[c.account].overdraft
      BY <1>0, <2>5 DEF PlacementFits, Available
    <3>2. pc[q] \in Working
      BY <2>5 DEF Working
    <3> HIDE DEF c
    <3> QED
      BY <2>1, <2>2, <2>3, <3>1, <3>2
  <2> QED
    BY <2>4, <2>5 DEF SameCaller, PlacementFits, Available
<1>9. TransitionIsLegal(q)'
  BY <1>0, CallsTyped DEF SameCaller, RowsStay, TransitionIsLegal, AccountIsLocked, OnItsProgram, AllAccounts, Working
<1> QED
  BY <1>1, <1>2, <1>5, <1>6, <1>7, <1>8, <1>9 DEF CallerInv

-----------------------------------------------------------------------------
(***************************************************************************)
(* What one statement does to its caller's transaction.                    *)
(***************************************************************************)

\* A statement of p changes p's transaction only, adds no lock another caller
\* excludes, and begins a placement only with an id no one has drawn.
Moves(p) ==
    /\ \A q \in Caller \ {p} : SameCaller(q)
    /\ \A l \in locks'[p] : l \in locks[p] \/ CanLock(p, l)
    /\ Placing(p)' => \/ Placing(p) /\ call'[p] = call[p]
                      \/ DrawsNewId(call'[p])

\* The invariant is kept if the caller's part of it is, and the others' rows stay.
LEMMA MovesKeepInv ==
    ASSUME TxInv, NEW p \in Caller, Moves(p), TxTypeOK', CallerInv(p)',
           \A q \in Caller \ {p} : RowsStay(q) /\ (Placing(q) => holds'[call[q].hold] = NoHold)
    PROVE  TxInv'
<1>1. \A q \in Caller : CallerInv(q)'
  BY FactsStay DEF Moves, TxTypeOK
<1>2. LocksExclude'
  <2> SUFFICES ASSUME NEW q \in Caller, NEW r \in Caller, q # r,
                      NEW l \in locks'[q], NEW m \in locks'[r]
               PROVE  ~Conflict(l, m)
    BY DEF LocksExclude
  <2>1. LocksExclude
    BY DEF TxInv
  <2>2. CASE q # p /\ r # p
    BY <2>1, <2>2 DEF LocksExclude, Moves, SameCaller
  <2>3. CASE q = p
    BY <2>1, <2>3 DEF LocksExclude, Moves, SameCaller, CanLock, Blocks, Conflict
  <2>4. CASE r = p
    BY <2>1, <2>4 DEF LocksExclude, Moves, SameCaller, CanLock, Blocks, Conflict
  <2> QED
    BY <2>2, <2>3, <2>4
<1>3. DrawnIdsDiffer'
  BY DEF TxInv, DrawnIdsDiffer, Moves, SameCaller, Placing, DrawsNewId
<1> QED
  BY <1>1, <1>2, <1>3 DEF TxInv

\* A statement that writes no table leaves everyone's rows.
LEMMA NothingWritten ==
    ASSUME TxInv, UNCHANGED vars, NEW q \in Caller
    PROVE  RowsStay(q) /\ (Placing(q) => holds'[call[q].hold] = NoHold) /\ TypeOK'
<1>1. TypeOK /\ TypeOK'
  BY DEF TxInv, TxTypeOK, TypeOK, vars
<1>2. RowsStay(q)
  BY <1>1 DEF RowsStay, TypeOK, vars, Unused, Exists
<1>3. Placing(q) => holds'[call[q].hold] = NoHold
  BY DEF TxInv, CallerInv, PlacementFits, Placing, vars
<1> QED
  BY <1>1, <1>2, <1>3

\* Where the next entry of a transaction stands.
LEMMA NextLegTyped ==
    ASSUME TxInv, NEW p \in Caller, Keyed(call[p]), pc[p] \in {"entry", "readLedger", "readHeld"}
    PROVE  /\ tx[p].legs \in Legs /\ Len(tx[p].legs) = 2
           /\ tx[p].inserted \in {0, 1} /\ tx[p].inserted + 1 \in {1, 2}
           /\ NextLeg(p) \in Entry
<1>1. tx[p].legs \in Legs /\ Len(tx[p].legs) = 2
  BY LegsOfTyped DEF Working
<1>2. tx[p].inserted \in 0..2 /\ tx[p].inserted # 2
  BY DEF TxInv, TxTypeOK, CallerInv, EntriesPass, Working
<1>3. tx[p].inserted \in {0, 1} /\ tx[p].inserted + 1 \in {1, 2}
  BY <1>2
<1> QED
  BY <1>1, <1>3 DEF NextLeg, Legs

\* A call that returns, with an answer or an error, leaves nothing behind.
LEMMA ReturnKeeps ==
    ASSUME TxInv, TypeOK', NEW p \in Caller, NEW r, Return(p, r)
    PROVE  TxTypeOK' /\ Moves(p) /\ CallerInv(p)'
<1>1. TxTypeOK /\ NoTx \in [legs : Legs \cup {<<>>}, inserted : 0..2, read : Int]
  BY DEF TxInv, NoTx
<1>2. TxTypeOK'
  BY <1>1 DEF Return, Goto, TxTypeOK
<1>3. pc'[p] = "idle" /\ tx'[p] = NoTx /\ locks'[p] = {} /\ \A q \in Caller \ {p} : SameCaller(q)
  BY <1>1 DEF Return, Goto, TxTypeOK, SameCaller
<1>4. Moves(p)
  BY <1>3 DEF Moves, Placing
<1>5. CallerInv(p)'
  BY <1>3 DEF CallerInv, OnItsProgram, KeyIsReserved, SubjectIsLocked, EntriesPass,
              AccountIsLocked, PlacementFits, TransitionIsLegal, Working, NoTx
<1> QED
  BY <1>2, <1>4, <1>5

\* A caller starts with a call of the package, and a placement with a new id.
LEMMA StartKeeps ==
    ASSUME TxInv, TypeOK', NEW p \in Caller, NEW c \in Calls, Start(p, c)
    PROVE  TxTypeOK' /\ Moves(p) /\ CallerInv(p)'
<1>1. TxTypeOK /\ tx[p] = NoTx /\ locks[p] = {}
  BY DEF TxInv, CallerInv, OnItsProgram, Start, Working
<1>2. TxTypeOK'
  BY <1>1 DEF Start, Goto, TxTypeOK
<1>3. /\ pc'[p] = IF c.op = "balance" THEN "readLedger" ELSE "begin"
      /\ call'[p] = c /\ tx'[p] = NoTx /\ locks'[p] = {} /\ holds' = holds
      /\ \A q \in Caller \ {p} : SameCaller(q)
  BY <1>1 DEF Start, Goto, TxTypeOK, SameCaller, vars
<1>4. Moves(p)
  BY <1>3 DEF Moves, Start
<1>5. CallerInv(p)'
  BY <1>3 DEF Start, DrawsNewId, NoTx, Keyed, CallerInv, OnItsProgram, KeyIsReserved, SubjectIsLocked,
              EntriesPass, AccountIsLocked, PlacementFits, TransitionIsLegal, Working
<1> QED
  BY <1>2, <1>4, <1>5

\* The transaction begins at the first statement of its function.
LEMMA BeginKeeps ==
    ASSUME TxInv, TypeOK', NEW p \in Caller, Begin(p)
    PROVE  TxTypeOK' /\ Moves(p) /\ CallerInv(p)'
<1>1. TxTypeOK /\ pc[p] = "begin" /\ call[p] \in Calls /\ tx[p] = NoTx /\ call[p].op # "balance"
      /\ PlacementFits(p)
  BY DEF TxInv, CallerInv, OnItsProgram, Begin, Working
<1>2. TxTypeOK'
  BY <1>1 DEF Begin, Goto, TxTypeOK
<1>3. /\ pc'[p] = IF Keyed(call[p]) THEN "reserve"
                  ELSE IF call[p].op = "release" THEN "subject" ELSE "account"
      /\ call'[p] = call[p] /\ tx'[p] = NoTx /\ locks'[p] = locks[p] /\ holds' = holds
      /\ \A q \in Caller \ {p} : SameCaller(q)
  BY <1>1 DEF Begin, Goto, TxTypeOK, SameCaller, vars
<1>4. Moves(p)
  BY <1>1, <1>3 DEF Moves, Placing
<1>5. CallerInv(p)'
  BY <1>1, <1>3, CallsTyped
  DEF Keyed, CallerInv, OnItsProgram, KeyIsReserved, SubjectIsLocked,
      EntriesPass, AccountIsLocked, PlacementFits, TransitionIsLegal, Working, NoTx
<1> QED
  BY <1>2, <1>4, <1>5

\* The key's row is inserted and locked when it was unused.
LEMMA ReserveKeeps ==
    ASSUME TxInv, TypeOK', NEW p \in Caller, ReserveKey(p)
    PROVE  TxTypeOK' /\ Moves(p) /\ CallerInv(p)'
<1> DEFINE c == call[p]
<1>1. /\ TxTypeOK /\ pc[p] = "reserve" /\ c \in Calls /\ Keyed(c) /\ tx[p] = NoTx
      /\ WantedLock(p) = RowLock("update", "key", c.key)
      /\ UNCHANGED <<vars, call, result>>
  BY DEF TxInv, CallerInv, OnItsProgram, ReserveKey, Working, WantedLock
<1>2. CASE Unused(c.key) /\ c.op = "post"
  <2>1. /\ Acquire(p, WantedLock(p)) /\ Goto(p, "entry")
        /\ tx' = [tx EXCEPT ![p].legs = c.legs] /\ c.legs \in Legs
    BY <1>1, <1>2, CallsTyped DEF ReserveKey
  <2>2. TxTypeOK'
    BY <1>1, <2>1 DEF Acquire, Goto, TxTypeOK
  <2>3. /\ pc'[p] = "entry" /\ call'[p] = c
        /\ tx'[p].legs = c.legs /\ tx'[p].inserted = 0
        /\ locks'[p] = locks[p] \cup {RowLock("update", "key", c.key)} /\ txns' = txns
        /\ \A q \in Caller \ {p} : SameCaller(q)
    BY <1>1, <2>1 DEF Acquire, Goto, TxTypeOK, SameCaller, vars, NoTx
  <2>4. Moves(p)
    BY <1>1, <1>2, <2>1, <2>3 DEF Moves, Placing, Acquire
  <2>5. EntriesPass(p)'
    BY <1>2, <2>3 DEF EntriesPass, LegsOf
  <2>6. CallerInv(p)'
    BY <1>1, <1>2, <2>3, <2>5
    DEF Keyed, CallerInv, OnItsProgram, KeyIsReserved, SubjectIsLocked,
        AccountIsLocked, PlacementFits, TransitionIsLegal, Working, Unused
  <2> QED
    BY <2>2, <2>4, <2>6
<1>3. CASE Unused(c.key) /\ c.op # "post"
  <2>1. Acquire(p, WantedLock(p)) /\ Goto(p, "subject") /\ UNCHANGED tx
    BY <1>1, <1>3 DEF ReserveKey
  <2>2. TxTypeOK'
    BY <1>1, <2>1 DEF Acquire, Goto, TxTypeOK
  <2>3. /\ pc'[p] = "subject" /\ call'[p] = c /\ tx'[p] = NoTx
        /\ locks'[p] = locks[p] \cup {RowLock("update", "key", c.key)} /\ txns' = txns
        /\ \A q \in Caller \ {p} : SameCaller(q)
    BY <1>1, <2>1 DEF Acquire, Goto, TxTypeOK, SameCaller, vars
  <2>4. Moves(p)
    BY <1>1, <2>1, <2>3 DEF Moves, Placing, Acquire
  <2>5. CallerInv(p)'
    BY <1>1, <1>3, <2>3
    DEF Keyed, CallerInv, OnItsProgram, KeyIsReserved, SubjectIsLocked, EntriesPass,
        AccountIsLocked, PlacementFits, TransitionIsLegal, Working, Unused
  <2> QED
    BY <2>2, <2>4, <2>5
<1>4. CASE ~Unused(c.key)
  <2>1. Goto(p, "fetch") /\ UNCHANGED <<tx, locks>>
    BY <1>1, <1>4 DEF ReserveKey
  <2>2. TxTypeOK'
    BY <1>1, <2>1 DEF Goto, TxTypeOK
  <2>3. /\ pc'[p] = "fetch" /\ call'[p] = c /\ tx'[p] = NoTx /\ locks'[p] = locks[p]
        /\ \A q \in Caller \ {p} : SameCaller(q)
    BY <1>1, <2>1 DEF Goto, TxTypeOK, SameCaller
  <2>4. Moves(p)
    BY <1>1, <2>3 DEF Moves, Placing
  <2>5. CallerInv(p)'
    BY <1>1, <2>3
    DEF Keyed, CallerInv, OnItsProgram, KeyIsReserved, SubjectIsLocked, EntriesPass,
        AccountIsLocked, PlacementFits, TransitionIsLegal, Working
  <2> QED
    BY <2>2, <2>4, <2>5
<1> QED
  BY <1>2, <1>3, <1>4

\* Locks and other parts of the tx record, when a statement goes on.
GoesOn(p, next, lock) ==
    /\ pc'[p] = next /\ call'[p] = call[p] /\ locks'[p] = locks[p] \cup {lock}
    /\ UNCHANGED vars
    /\ \A q \in Caller \ {p} : SameCaller(q)

\* A statement that goes on with one lock more moves.
LEMMA GoingOnMoves ==
    ASSUME NEW p \in Caller, NEW next, NEW lock, GoesOn(p, next, lock),
           pc[p] # "idle", CanLock(p, lock) \/ lock \in locks[p]
    PROVE  Moves(p)
  BY DEF Moves, GoesOn, Placing

\* The hold or original transaction is locked when its status allows the call.
LEMMA SubjectKeeps ==
    ASSUME TxInv, TypeOK', NEW p \in Caller, LockSubject(p)
    PROVE  TxTypeOK' /\ Moves(p) /\ CallerInv(p)'
<1> DEFINE c == call[p]
<1>1. /\ TxTypeOK /\ pc[p] = "subject" /\ c \in Calls /\ c.op \in {"capture", "reverse", "release"}
      /\ tx[p] = NoTx /\ WantedLock(p) = SubjectLock(c) /\ CanLock(p, WantedLock(p))
      /\ KeyIsReserved(p)
  BY DEF TxInv, CallerInv, OnItsProgram, LockSubject, Working, WantedLock
<1>2. ASSUME NEW r, Refuse(p, r) PROVE TxTypeOK' /\ Moves(p) /\ CallerInv(p)'
  BY <1>2, ReturnKeeps DEF Refuse
<1>3. ASSUME c.op = "reverse", txns[c.original].state = "posted"
      PROVE  TxTypeOK' /\ Moves(p) /\ CallerInv(p)'
  <2>1. PICK legs \in Compensating(txns[c.original].legs) : tx' = [tx EXCEPT ![p].legs = legs]
    BY <1>3 DEF LockSubject
  <2>2. Acquire(p, WantedLock(p)) /\ Goto(p, "entry") /\ UNCHANGED <<vars, call, result>>
    BY <1>3 DEF LockSubject
  <2>3. c.original \in Key /\ txns[c.original] \in Txn
    BY <1>1, <1>3, CallsTyped DEF TxTypeOK, TypeOK, NoTxn
  <2>4. legs \in Legs
    BY <2>1, <2>3, CompensatingTyped DEF Txn
  <2>5. TxTypeOK'
    BY <1>1, <2>1, <2>2, <2>4 DEF Acquire, Goto, TxTypeOK
  <2>6. GoesOn(p, "entry", SubjectLock(c)) /\ tx'[p].legs = legs /\ tx'[p].inserted = 0
    BY <1>1, <2>1, <2>2 DEF Acquire, Goto, TxTypeOK, SameCaller, NoTx, GoesOn
  <2>7. Moves(p)
    BY <1>1, <2>6, GoingOnMoves
  <2>8. EntriesPass(p)'
    BY <1>3, <2>1, <2>6 DEF EntriesPass, LegsOf, GoesOn, vars
  <2>9. CallerInv(p)'
    BY <1>1, <1>3, <2>6, <2>8
    DEF Keyed, CallerInv, OnItsProgram, KeyIsReserved, SubjectIsLocked,
        AccountIsLocked, PlacementFits, TransitionIsLegal, Working, GoesOn, vars, Unused
  <2> QED
    BY <2>5, <2>7, <2>9
<1>4. ASSUME c.op = "capture", holds[c.hold].status = "active"
      PROVE  TxTypeOK' /\ Moves(p) /\ CallerInv(p)'
  <2> DEFINE legs == DebitLegs(holds[c.hold].account, holds[c.hold].amount)
  <2>1. /\ Acquire(p, WantedLock(p)) /\ Goto(p, "entry") /\ UNCHANGED <<vars, call, result>>
        /\ tx' = [tx EXCEPT ![p].legs = legs]
    BY <1>4 DEF LockSubject
  <2>2. c.hold \in HoldId /\ holds[c.hold] \in Hold
    BY <1>1, <1>4, CallsTyped DEF TxTypeOK, TypeOK, NoHold
  <2>3. legs \in Legs
    BY <2>2, PostedLegsTyped DEF Hold
  <2>4. TxTypeOK'
    BY <1>1, <2>1, <2>3 DEF Acquire, Goto, TxTypeOK
  <2>5. GoesOn(p, "entry", SubjectLock(c)) /\ tx'[p].legs = legs /\ tx'[p].inserted = 0
    BY <1>1, <2>1 DEF Acquire, Goto, TxTypeOK, SameCaller, NoTx, GoesOn
  <2>6. Moves(p)
    BY <1>1, <2>5, GoingOnMoves
  <2>7. EntriesPass(p)'
    BY <1>4, <2>5 DEF EntriesPass, LegsOf, GoesOn, vars
  <2>8. CallerInv(p)'
    BY <1>1, <1>4, <2>5, <2>7
    DEF Keyed, CallerInv, OnItsProgram, KeyIsReserved, SubjectIsLocked,
        AccountIsLocked, PlacementFits, TransitionIsLegal, Working, GoesOn, vars, Unused
  <2> QED
    BY <2>4, <2>6, <2>8
<1>5. ASSUME c.op = "release", holds[c.hold].status = "active"
      PROVE  TxTypeOK' /\ Moves(p) /\ CallerInv(p)'
  <2>1. Acquire(p, WantedLock(p)) /\ Goto(p, "commit") /\ UNCHANGED <<vars, call, tx, result>>
    BY <1>5 DEF LockSubject
  <2>2. TxTypeOK'
    BY <1>1, <2>1 DEF Acquire, Goto, TxTypeOK
  <2>3. GoesOn(p, "commit", SubjectLock(c)) /\ tx'[p] = tx[p]
    BY <1>1, <2>1 DEF Acquire, Goto, TxTypeOK, SameCaller, GoesOn
  <2>4. Moves(p)
    BY <1>1, <2>3, GoingOnMoves
  <2>5. CallerInv(p)'
    BY <1>1, <1>5, <2>3
    DEF Keyed, CallerInv, OnItsProgram, KeyIsReserved, SubjectIsLocked, EntriesPass,
        AccountIsLocked, PlacementFits, TransitionIsLegal, Working, NoTx, GoesOn, vars, Unused
  <2> QED
    BY <2>2, <2>4, <2>5
<1>6. ASSUME IF c.op = "reverse" THEN txns[c.original].state # "posted" ELSE holds[c.hold].status # "active"
      PROVE  TxTypeOK' /\ Moves(p) /\ CallerInv(p)'
  BY <1>2, <1>6 DEF LockSubject
<1> QED
  BY <1>1, <1>3, <1>4, <1>5, <1>6

\* The account of PlaceHold or TransitionAccountState is locked when it exists.
LEMMA AccountKeeps ==
    ASSUME TxInv, TypeOK', NEW p \in Caller, LockAccount(p)
    PROVE  TxTypeOK' /\ Moves(p) /\ CallerInv(p)'
<1> DEFINE c == call[p]
           lock == RowLock("update", "account", c.account)
           next == IF c.op = "place" THEN "readLedger" ELSE "commit"
<1>1. /\ TxTypeOK /\ pc[p] = "account" /\ c \in Calls /\ c.op \in {"place", "transition"}
      /\ tx[p] = NoTx /\ WantedLock(p) = lock /\ CanLock(p, lock) /\ PlacementFits(p)
  BY DEF TxInv, CallerInv, OnItsProgram, LockAccount, Working, WantedLock
<1>2. ASSUME NEW r, Refuse(p, r) PROVE TxTypeOK' /\ Moves(p) /\ CallerInv(p)'
  BY <1>2, ReturnKeeps DEF Refuse
<1>3. ASSUME Exists(c.account), c.op = "transition" => CanTransitionTo(accounts[c.account].state, c.target)
      PROVE  TxTypeOK' /\ Moves(p) /\ CallerInv(p)'
  <2>1. Acquire(p, lock) /\ Goto(p, next) /\ UNCHANGED <<vars, call, tx, result>>
    BY <1>1, <1>3 DEF LockAccount
  <2>2. TxTypeOK'
    BY <1>1, <2>1 DEF Acquire, Goto, TxTypeOK
  <2>3. GoesOn(p, next, lock) /\ tx'[p] = tx[p]
    BY <1>1, <2>1 DEF Acquire, Goto, TxTypeOK, SameCaller, GoesOn
  <2>4. Moves(p)
    BY <1>1, <2>3, GoingOnMoves
  <2>5. CallerInv(p)'
    BY <1>1, <1>3, <2>3
    DEF Keyed, CallerInv, OnItsProgram, KeyIsReserved, SubjectIsLocked, EntriesPass,
        AccountIsLocked, PlacementFits, TransitionIsLegal, Working, NoTx, GoesOn, vars, Exists
  <2> QED
    BY <2>2, <2>4, <2>5
<1>4. ASSUME ~(Exists(c.account) /\ (c.op = "transition" => CanTransitionTo(accounts[c.account].state, c.target)))
      PROVE  TxTypeOK' /\ Moves(p) /\ CallerInv(p)'
  BY <1>2, <1>4 DEF LockAccount
<1> QED
  BY <1>3, <1>4

\* An entry whose account is locked and whose check passed is inserted.
LEMMA InsertedKeeps ==
    ASSUME TxInv, NEW p \in Caller, Keyed(call[p]), pc[p] \in {"entry", "readHeld"},
           EntryInserted(p), UNCHANGED <<vars, call, result>>,
           locks'[p] = locks[p] \cup {EntryLock(NextLeg(p))}, DOMAIN locks' = Caller,
           \A q \in Caller \ {p} : locks'[q] = locks[q],
           CanLock(p, EntryLock(NextLeg(p))) \/ EntryLock(NextLeg(p)) \in locks[p],
           Exists(NextLeg(p).account),
           PassesBalanceCheck(SumsBefore(p, tx[p].inserted + 1), NextLeg(p))
    PROVE  TxTypeOK' /\ Moves(p) /\ CallerInv(p)'
<1> DEFINE c == call[p]
           n == tx[p].inserted + 1
           next == IF n = 2 THEN "commit" ELSE "entry"
<1>1. /\ TxTypeOK /\ KeyIsReserved(p) /\ SubjectIsLocked(p) /\ EntriesPass(p) /\ OnItsProgram(p)
      /\ c \in Calls
  BY DEF TxInv, CallerInv, OnItsProgram
<1>2. /\ tx[p].legs \in Legs /\ Len(tx[p].legs) = 2
      /\ tx[p].inserted \in {0, 1} /\ n \in {1, 2} /\ NextLeg(p) = tx[p].legs[n]
  BY NextLegTyped DEF NextLeg
<1>3. /\ tx' = [tx EXCEPT ![p].inserted = @ + 1, ![p].read = 0] /\ Goto(p, next)
      /\ tx[p] \in [legs : Legs \cup {<<>>}, inserted : 0..2, read : Int]
  BY <1>1, <1>2 DEF EntryInserted, TxTypeOK
<1>4. tx'[p] = [legs |-> tx[p].legs, inserted |-> n, read |-> 0]
  BY <1>1, <1>3 DEF TxTypeOK
<1>5. TxTypeOK'
  <2>1. n \in 0..2
    BY <1>2
  <2>2. tx'[p] \in [legs : Legs \cup {<<>>}, inserted : 0..2, read : Int]
    BY <1>2, <1>4, <2>1
  <2>3. tx' \in [Caller -> [legs : Legs \cup {<<>>}, inserted : 0..2, read : Int]]
    BY <1>1, <1>3, <2>2 DEF TxTypeOK
  <2>4. TypeOK'
    BY <1>1, NothingWritten
  <2> QED
    BY <1>1, <1>3, <2>3, <2>4 DEF Goto, TxTypeOK
<1>6. GoesOn(p, next, EntryLock(NextLeg(p)))
  BY <1>1, <1>3 DEF Goto, TxTypeOK, SameCaller, GoesOn
<1>7. Moves(p)
  BY <1>6, GoingOnMoves
<1>8. /\ tx[p].legs \in LegsOf(c)
      /\ \A m \in 1..tx[p].inserted : EntryIsLocked(p, m) /\ EntryPasses(p, m)
  BY <1>1 DEF EntriesPass, Working
<1>9. \A m \in 1..n : m = n \/ m \in 1..tx[p].inserted
  BY <1>2
<1>10. EntryPasses(p, n) /\ EntryLock(tx[p].legs[n]) \in locks'[p] /\ Exists(tx[p].legs[n].account)
  BY <1>2, <1>6 DEF EntryPasses, GoesOn
<1>11. \A m \in 1..n : /\ EntryLock(tx[p].legs[m]) \in locks'[p] /\ Exists(tx[p].legs[m].account)
                        /\ EntryPasses(p, m)
  BY <1>6, <1>8, <1>9, <1>10 DEF EntryIsLocked, GoesOn
<1>12. \A m \in 1..n : EntryIsLocked(p, m)' /\ EntryPasses(p, m)'
  BY <1>4, <1>6, <1>11
  DEF EntryIsLocked, EntryPasses, PassesBalanceCheck, SumsBefore, GoesOn, vars, Exists
<1>13. EntriesPass(p)'
  <2>1. tx'[p].legs \in LegsOf(call[p])' /\ tx'[p].inserted = n
    <3>1. tx'[p].legs = tx[p].legs /\ tx'[p].inserted = n
      BY <1>4
    <3>2. call'[p] = call[p] /\ holds' = holds /\ txns' = txns
      BY <1>6 DEF GoesOn, vars
    <3>3. LegsOf(call[p])' = LegsOf(call[p])
      BY <3>2 DEF LegsOf
    <3> QED
      BY <1>8, <3>1, <3>3
  <2>2. pc'[p] \in {"entry", "commit"} /\ (pc'[p] = "commit" <=> n = 2)
    BY <1>2, <1>6 DEF GoesOn
  <2>3. \A m \in 1..tx'[p].inserted : EntryIsLocked(p, m)' /\ EntryPasses(p, m)'
    BY <1>12, <2>1
  <2> QED
    BY <2>1, <2>2, <2>3 DEF EntriesPass
<1>14. CallerInv(p)'
  BY <1>1, <1>6, <1>13
  DEF Keyed, CallerInv, OnItsProgram, KeyIsReserved, SubjectIsLocked,
      AccountIsLocked, PlacementFits, TransitionIsLegal, Working, GoesOn, vars, Unused
<1> QED
  BY <1>5, <1>7, <1>14

\* The account of the next entry is locked: a positive entry is inserted, a
\* negative one is weighed first.
LEMMA EntryKeeps ==
    ASSUME TxInv, TypeOK', NEW p \in Caller, LockEntryAccount(p)
    PROVE  TxTypeOK' /\ Moves(p) /\ CallerInv(p)'
<1> DEFINE c == call[p]
           n == tx[p].inserted + 1
           lock == EntryLock(NextLeg(p))
<1>1. /\ TxTypeOK /\ pc[p] = "entry" /\ c \in Calls /\ Keyed(c)
      /\ WantedLock(p) = lock /\ CanLock(p, lock)
      /\ KeyIsReserved(p) /\ SubjectIsLocked(p) /\ EntriesPass(p)
  BY DEF TxInv, CallerInv, OnItsProgram, LockEntryAccount, WantedLock
<1>2. ASSUME NEW r, Refuse(p, r) PROVE TxTypeOK' /\ Moves(p) /\ CallerInv(p)'
  BY <1>2, ReturnKeeps DEF Refuse
<1>3. /\ tx[p].legs \in Legs /\ tx[p].inserted \in {0, 1} /\ n \in {1, 2} /\ NextLeg(p) = tx[p].legs[n]
      /\ NextLeg(p).amount \in Int
  BY <1>1, NextLegTyped DEF NextLeg, Entry
<1>4. ASSUME Exists(NextLeg(p).account), NextLeg(p).amount > 0
      PROVE  TxTypeOK' /\ Moves(p) /\ CallerInv(p)'
  <2>1. Acquire(p, lock) /\ EntryInserted(p) /\ UNCHANGED <<vars, call, result>>
    BY <1>1, <1>4 DEF LockEntryAccount
  <2>2. /\ locks'[p] = locks[p] \cup {EntryLock(NextLeg(p))} /\ DOMAIN locks' = Caller
        /\ \A q \in Caller \ {p} : locks'[q] = locks[q]
    BY <1>1, <2>1 DEF Acquire, TxTypeOK
  <2>3. PassesBalanceCheck(SumsBefore(p, tx[p].inserted + 1), NextLeg(p))
    BY <1>4 DEF PassesBalanceCheck
  <2> QED
    BY <1>1, <1>4, <2>1, <2>2, <2>3, InsertedKeeps
<1>5. ASSUME Exists(NextLeg(p).account), ~(NextLeg(p).amount > 0)
      PROVE  TxTypeOK' /\ Moves(p) /\ CallerInv(p)'
  <2>1. Acquire(p, lock) /\ Goto(p, "readLedger") /\ UNCHANGED <<vars, call, tx, result>>
    BY <1>1, <1>5 DEF LockEntryAccount
  <2>2. TxTypeOK'
    BY <1>1, <2>1 DEF Acquire, Goto, TxTypeOK
  <2>3. GoesOn(p, "readLedger", lock) /\ tx'[p] = tx[p]
    BY <1>1, <2>1 DEF Acquire, Goto, TxTypeOK, SameCaller, GoesOn
  <2>4. Moves(p)
    BY <1>1, <2>3, GoingOnMoves
  <2>5. NextLeg(p).amount <= 0
    BY <1>3, <1>5
  <2>6. \A m \in 1..2 : EntryIsLocked(p, m) => EntryIsLocked(p, m)'
    BY <2>3 DEF EntryIsLocked, GoesOn, vars, Exists
  <2>7. \A m \in 1..2 : EntryPasses(p, m) => EntryPasses(p, m)'
    BY <2>3 DEF EntryPasses, PassesBalanceCheck, SumsBefore, GoesOn, vars
  <2>8. EntryIsLocked(p, n)' /\ NextLeg(p)'.amount <= 0
    BY <1>3, <1>5, <2>3, <2>5 DEF EntryIsLocked, NextLeg, GoesOn, vars, Exists
  <2>9. \A m \in 1..tx[p].inserted : m \in 1..2
    BY <1>3
  <2>10. EntriesPass(p)'
    BY <1>1, <1>3, <2>3, <2>6, <2>7, <2>8, <2>9
    DEF EntriesPass, LegsOf, GoesOn, vars, Working
  <2>11. CallerInv(p)'
    BY <1>1, <2>3, <2>10
    DEF Keyed, CallerInv, OnItsProgram, KeyIsReserved, SubjectIsLocked,
        AccountIsLocked, PlacementFits, TransitionIsLegal, Working, GoesOn, vars, Unused
  <2> QED
    BY <2>2, <2>4, <2>11
<1>6. ASSUME ~Exists(NextLeg(p).account)
      PROVE  TxTypeOK' /\ Moves(p) /\ CallerInv(p)'
  BY <1>2, <1>6 DEF LockEntryAccount
<1> QED
  BY <1>4, <1>5, <1>6

\* The ledger sum is read into the transaction.
LEMMA LedgerSumKeeps ==
    ASSUME TxInv, TypeOK', NEW p \in Caller, ReadLedgerSum(p)
    PROVE  TxTypeOK' /\ Moves(p) /\ CallerInv(p)'
<1> DEFINE c == call[p]
           a == Weighed(p)
           read == ledgerSum[a] + OwnEntries(p, a)
<1>1. /\ TxTypeOK /\ pc[p] = "readLedger" /\ c \in Calls /\ (Keyed(c) \/ c.op \in {"place", "balance"})
      /\ CallerInv(p) /\ (~Keyed(c) => tx[p].inserted = 0)
  BY DEF TxInv, CallerInv, OnItsProgram, ReadLedgerSum
<1>2. ASSUME NEW r, Refuse(p, r) PROVE TxTypeOK' /\ Moves(p) /\ CallerInv(p)'
  BY <1>2, ReturnKeeps DEF Refuse
<1>3. ASSUME ~Exists(a) PROVE TxTypeOK' /\ Moves(p) /\ CallerInv(p)'
  BY <1>2, <1>3 DEF ReadLedgerSum
<1>4. ASSUME Exists(a) PROVE TxTypeOK' /\ Moves(p) /\ CallerInv(p)'
  <2>1. /\ tx' = [tx EXCEPT ![p].read = read] /\ Goto(p, "readHeld")
        /\ UNCHANGED <<vars, call, locks, result>>
    BY <1>4 DEF ReadLedgerSum
  <2>2. /\ tx'[p].legs = tx[p].legs /\ tx'[p].inserted = tx[p].inserted /\ tx'[p].read = read
        /\ pc'[p] = "readHeld" /\ call'[p] = c /\ locks'[p] = locks[p]
        /\ UNCHANGED vars /\ \A q \in Caller \ {p} : SameCaller(q)
    BY <1>1, <2>1 DEF Goto, TxTypeOK, SameCaller
  <2>3. ledgerSum \in [AllAccounts -> Int]
    BY <1>1 DEF TxTypeOK, TypeOK
  <2>4. ASSUME Keyed(c)
        PROVE  read \in Int /\ read = SumsBefore(p, tx[p].inserted + 1)[NextLeg(p).account]
    <3>1. /\ tx[p].legs \in Legs /\ tx[p].inserted \in {0, 1} /\ tx[p].inserted + 1 \in {1, 2}
          /\ NextLeg(p) \in Entry
      BY <1>1, <2>4, NextLegTyped
    <3>2. a = NextLeg(p).account /\ a \in AllAccounts
      BY <2>4, <3>1 DEF Weighed, Keyed, Entry
    <3>3. read = SumsBefore(p, tx[p].inserted + 1)[a]
      BY <3>1, <3>2, OwnEntriesAdded
    <3>4. SumsBefore(p, tx[p].inserted + 1)[a] \in Int
      <4>1. tx[p].legs[1] \in Entry
        BY <3>1 DEF Legs
      <4> HIDE DEF a
      <4> QED
        BY <2>3, <3>2, <4>1 DEF SumsBefore, Inserted, Entry
    <3> QED
      BY <3>2, <3>3, <3>4
  <2>5. ASSUME c.op \in {"place", "balance"}
        PROVE  read \in Int /\ read = ledgerSum[c.account]
    <3>1. a = c.account /\ a \in AllAccounts /\ tx[p].inserted = 0
      BY <1>1, <2>5, CallsTyped DEF Weighed, AllAccounts, Keyed
    <3>2. OwnEntries(p, a) = 0
      <4>1. {i \in 1..tx[p].inserted : tx[p].legs[i].account = a} = {}
        BY <3>1
      <4> QED
        BY <4>1 DEF OwnEntries
    <3>3. ledgerSum[a] \in Int
      BY <2>3, <3>1
    <3> QED
      BY <3>1, <3>2, <3>3
  <2>6. TxTypeOK'
    <3>1. read \in Int
      BY <1>1, <2>4, <2>5
    <3> HIDE DEF read
    <3> QED
      BY <1>1, <2>1, <3>1 DEF Goto, TxTypeOK
  <2>7. Moves(p)
    BY <1>1, <2>2 DEF Moves, Placing
  <2>8. EntriesPass(p)'
    <3> SUFFICES ASSUME Keyed(c) PROVE EntriesPass(p)'
      BY <2>2 DEF EntriesPass
    <3>1. EntriesPass(p) /\ pc[p] \in Working /\ tx[p].inserted \in {0, 1}
      BY <1>1, NextLegTyped DEF CallerInv, Working
    <3>2. LegsOf(call[p])' = LegsOf(call[p])
      BY <2>2 DEF LegsOf, vars
    <3>3. \A n : /\ EntryIsLocked(p, n)' <=> EntryIsLocked(p, n)
                 /\ EntryPasses(p, n)' <=> EntryPasses(p, n)
                 /\ SumsBefore(p, n)' = SumsBefore(p, n)
      BY <2>2 DEF EntryIsLocked, EntryPasses, PassesBalanceCheck, SumsBefore, Exists, vars
    <3>4. NextLeg(p)' = NextLeg(p)
      BY <2>2 DEF NextLeg
    <3>5. tx'[p].read = SumsBefore(p, tx[p].inserted + 1)[NextLeg(p).account]
      BY <2>2, <2>4
    <3> HIDE DEF read
    <3> QED
      BY <1>1, <2>2, <3>1, <3>2, <3>3, <3>4, <3>5 DEF EntriesPass
  <2>9. PlacementFits(p)'
    BY <1>1, <2>2, <2>5 DEF CallerInv, PlacementFits, vars
  <2> HIDE DEF read
  <2>10. CallerInv(p)'
    BY <1>1, <2>2, <2>8, <2>9
    DEF Keyed, CallerInv, OnItsProgram, KeyIsReserved, SubjectIsLocked,
        AccountIsLocked, TransitionIsLegal, Working, vars, Unused, Exists
  <2> QED
    BY <2>6, <2>7, <2>10
<1> QED
  BY <1>3, <1>4

\* The held sum is read, and the entry or placement weighed.
LEMMA HeldSumKeeps ==
    ASSUME TxInv, TypeOK', NEW p \in Caller, ReadHeldSum(p)
    PROVE  TxTypeOK' /\ Moves(p) /\ CallerInv(p)'
<1> DEFINE c == call[p]
           a == Weighed(p)
           available == tx[p].read - heldSum[a]
           floor == -accounts[a].overdraft
<1>1. /\ TxTypeOK /\ pc[p] = "readHeld" /\ c \in Calls /\ (Keyed(c) \/ c.op \in {"place", "balance"})
      /\ CallerInv(p)
  BY DEF TxInv, CallerInv, OnItsProgram, ReadHeldSum
<1>2. ASSUME NEW r, Refuse(p, r) PROVE TxTypeOK' /\ Moves(p) /\ CallerInv(p)'
  BY <1>2, ReturnKeeps DEF Refuse
<1>3. ASSUME c.op = "balance" PROVE TxTypeOK' /\ Moves(p) /\ CallerInv(p)'
  BY <1>2, <1>3 DEF ReadHeldSum, Keyed
<1>4. ASSUME c.op = "place", ~(available - c.amount >= floor)
      PROVE  TxTypeOK' /\ Moves(p) /\ CallerInv(p)'
  BY <1>2, <1>4 DEF ReadHeldSum, Keyed
<1>5. ASSUME c.op = "place", available - c.amount >= floor
      PROVE  TxTypeOK' /\ Moves(p) /\ CallerInv(p)'
  <2>1. Goto(p, "commit") /\ UNCHANGED <<vars, call, tx, locks, result>>
    BY <1>5 DEF ReadHeldSum, Keyed
  <2>2. /\ tx'[p] = tx[p] /\ pc'[p] = "commit" /\ call'[p] = c /\ locks'[p] = locks[p]
        /\ UNCHANGED vars /\ \A q \in Caller \ {p} : SameCaller(q)
    BY <1>1, <2>1 DEF Goto, TxTypeOK, SameCaller
  <2>3. TxTypeOK'
    BY <1>1, <2>1 DEF Goto, TxTypeOK
  <2>4. Moves(p)
    BY <1>1, <2>2 DEF Moves, Placing
  <2>5. a = c.account /\ tx[p].read = ledgerSum[c.account] /\ holds[c.hold] = NoHold
    BY <1>1, <1>5 DEF CallerInv, PlacementFits, Weighed
  <2>6. Available(c.account) - c.amount >= -accounts[c.account].overdraft
    BY <1>5, <2>5 DEF Available
  <2>7. PlacementFits(p)'
    BY <2>2, <2>5, <2>6 DEF PlacementFits, Available, vars
  <2>8. CallerInv(p)'
    BY <1>1, <1>5, <2>2, <2>7
    DEF Keyed, CallerInv, OnItsProgram, KeyIsReserved, SubjectIsLocked, EntriesPass,
        AccountIsLocked, TransitionIsLegal, Working, vars, Exists
  <2> QED
    BY <2>3, <2>4, <2>8
<1>6. ASSUME Keyed(c), ~(available + NextLeg(p).amount >= floor)
      PROVE  TxTypeOK' /\ Moves(p) /\ CallerInv(p)'
  BY <1>2, <1>6 DEF ReadHeldSum, Keyed
<1>7. ASSUME Keyed(c), available + NextLeg(p).amount >= floor
      PROVE  TxTypeOK' /\ Moves(p) /\ CallerInv(p)'
  <2>1. EntryInserted(p) /\ UNCHANGED <<vars, call, locks, result>>
    BY <1>7 DEF ReadHeldSum, Keyed
  <2>2. /\ tx[p].inserted + 1 \in {1, 2} /\ NextLeg(p) = tx[p].legs[tx[p].inserted + 1]
        /\ NextLeg(p) \in Entry /\ tx[p].legs \in Legs
    BY <1>1, <1>7, NextLegTyped DEF NextLeg
  <2>3. /\ EntryIsLocked(p, tx[p].inserted + 1)
        /\ tx[p].read = SumsBefore(p, tx[p].inserted + 1)[NextLeg(p).account]
    BY <1>1, <1>7 DEF CallerInv, EntriesPass, Working
  <2>4. EntryLock(NextLeg(p)) \in locks[p] /\ Exists(NextLeg(p).account)
    BY <2>2, <2>3 DEF EntryIsLocked
  <2>5. /\ locks'[p] = locks[p] \cup {EntryLock(NextLeg(p))} /\ DOMAIN locks' = Caller
        /\ \A q \in Caller \ {p} : locks'[q] = locks[q]
    BY <1>1, <2>1, <2>4 DEF TxTypeOK
  <2>6. PassesBalanceCheck(SumsBefore(p, tx[p].inserted + 1), NextLeg(p))
    <3>1. a = NextLeg(p).account /\ a \in AllAccounts /\ NextLeg(p).amount \in Int
      BY <1>7, <2>2 DEF Weighed, Keyed, Entry
    <3>2. tx[p].read \in Int /\ heldSum[a] \in Int /\ accounts[a].overdraft \in Int
      BY <1>1, <3>1 DEF TxTypeOK, TypeOK
    <3> HIDE DEF a
    <3> QED
      BY <1>7, <2>3, <3>1, <3>2 DEF PassesBalanceCheck
  <2> QED
    BY <1>1, <1>7, <2>1, <2>4, <2>5, <2>6, InsertedKeeps
<1> QED
  BY <1>1, <1>3, <1>4, <1>5, <1>6, <1>7

-----------------------------------------------------------------------------
(***************************************************************************)
(* Every step keeps the invariant and is a step of Ledger or none.         *)
(***************************************************************************)

\* A commit fills no row whose id another caller has drawn.
LEMMA DrawnRowsStayFree ==
    ASSUME TxInv, NEW p \in Caller, Commit(p), NEW q \in Caller, p # q, Placing(q)
    PROVE  holds'[call[q].hold] = NoHold
<1> DEFINE c == call[p]
           h == call[q].hold
<1>1. /\ pc[p] = "commit" /\ c \in Calls /\ c.op # "balance" /\ TypeOK
      /\ holds[h] = NoHold /\ h \in HoldId
  BY CallsTyped DEF Commit, TxInv, TxTypeOK, CallerInv, OnItsProgram, PlacementFits, Placing
<1>2. CASE c.op \in {"post", "reverse", "transition"}
  BY <1>1, <1>2 DEF Commit
<1>3. CASE c.op = "place"
  <2>1. c.hold # h
    BY <1>1, <1>3 DEF TxInv, DrawnIdsDiffer, Placing
  <2> QED
    BY <1>1, <1>3, <2>1 DEF Commit, CommitPlacedHold, TypeOK
<1>4. CASE c.op \in {"capture", "release"}
  <2>1. holds[c.hold].status = "active"
    BY <1>1, <1>4 DEF TxInv, CallerInv, SubjectIsLocked, Working
  <2>2. c.hold # h
    BY <1>1, <2>1 DEF NoHold
  <2> QED
    BY <1>1, <1>4, <2>2 DEF Commit, CommitResolvedHold, TypeOK
<1> QED
  BY <1>1, <1>2, <1>3, <1>4, CallsTyped

\* A step that writes no table.
LEMMA StatementKeepsInv ==
    ASSUME TxInv, UNCHANGED vars, NEW p \in Caller,
           TypeOK' => TxTypeOK' /\ Moves(p) /\ CallerInv(p)'
    PROVE  TxInv' /\ [Next]_vars
<1>1. \A q \in Caller : RowsStay(q) /\ (Placing(q) => holds'[call[q].hold] = NoHold) /\ TypeOK'
  BY NothingWritten
<1>2. TypeOK'
  BY <1>1
<1> QED
  BY <1>1, <1>2, MovesKeepInv

\* A refused call writes nothing.
LEMMA RefusalKeepsInv ==
    ASSUME TxInv, NEW p \in Caller, NEW r, Refuse(p, r)
    PROVE  TxInv' /\ [Next]_vars
  BY StatementKeepsInv, ReturnKeeps DEF Refuse

\* The commit writes what Ledger would.
LEMMA CommitKeepsInv ==
    ASSUME TxInv, NEW p \in Caller, Commit(p)
    PROVE  TxInv' /\ [Next]_vars
<1>1. Next /\ TypeOK'
  BY CommitIsLedgerStep, NextTyped DEF TxInv, TxTypeOK
<1>2. TxTypeOK' /\ Moves(p) /\ CallerInv(p)'
  BY <1>1, ReturnKeeps DEF Commit
<1>3. \A q \in Caller \ {p} : RowsStay(q) /\ (Placing(q) => holds'[call[q].hold] = NoHold)
  BY LockedRowsStay, DrawnRowsStayFree
<1> QED
  BY <1>1, <1>2, <1>3, MovesKeepInv

\* Opening an account is a step of Ledger and of no caller.
LEMMA OpeningKeepsInv ==
    ASSUME TxInv, NEW a \in Account, NEW o \in Overdraft, OpenAccount(a, o), UNCHANGED txVars
    PROVE  TxInv' /\ [Next]_vars
<1>1. Next /\ TypeOK'
  BY NextTyped DEF TxInv, TxTypeOK, Next
<1>2. TxTypeOK'
  BY <1>1 DEF TxInv, TxTypeOK, txVars
<1>3. ASSUME NEW q \in Caller PROVE CallerInv(q)'
  <2>1. RowsStay(q) /\ SameCaller(q) /\ (Placing(q) => holds'[call[q].hold] = NoHold)
    BY OpeningLeavesRows
    DEF TxInv, TxTypeOK, SameCaller, txVars, OpenAccount, CallerInv, PlacementFits, Placing
  <2> QED
    BY <1>1, <2>1, FactsStay
<1>4. LocksExclude' /\ DrawnIdsDiffer'
  BY DEF TxInv, LocksExclude, DrawnIdsDiffer, Placing, txVars
<1> QED
  BY <1>1, <1>2, <1>3, <1>4 DEF TxInv

\* The invariant is inductive, and under it every step is a step of Ledger.
LEMMA TxStep == TxInv /\ [TxNext]_allVars => TxInv' /\ [Next]_vars
<1> SUFFICES ASSUME TxInv, [TxNext]_allVars PROVE TxInv' /\ [Next]_vars
  OBVIOUS
<1>1. ASSUME NEW p \in Caller, NEW c \in Calls, Start(p, c) PROVE TxInv' /\ [Next]_vars
  BY <1>1, StartKeeps, StatementKeepsInv DEF Start
<1>2. ASSUME NEW p \in Caller, Begin(p) PROVE TxInv' /\ [Next]_vars
  BY <1>2, BeginKeeps, StatementKeepsInv DEF Begin
<1>3. ASSUME NEW p \in Caller, ReserveKey(p) PROVE TxInv' /\ [Next]_vars
  BY <1>3, ReserveKeeps, StatementKeepsInv DEF ReserveKey
<1>4. ASSUME NEW p \in Caller, FetchCompleted(p) PROVE TxInv' /\ [Next]_vars
  BY <1>4, RefusalKeepsInv DEF FetchCompleted
<1>5. ASSUME NEW p \in Caller, LockSubject(p) PROVE TxInv' /\ [Next]_vars
  <2>1. UNCHANGED vars
    BY <1>5 DEF LockSubject, Refuse
  <2> QED
    BY <1>5, <2>1, SubjectKeeps, StatementKeepsInv
<1>6. ASSUME NEW p \in Caller, LockEntryAccount(p) PROVE TxInv' /\ [Next]_vars
  <2>1. UNCHANGED vars
    BY <1>6 DEF LockEntryAccount, Refuse
  <2> QED
    BY <1>6, <2>1, EntryKeeps, StatementKeepsInv
<1>7. ASSUME NEW p \in Caller, LockAccount(p) PROVE TxInv' /\ [Next]_vars
  <2>1. UNCHANGED vars
    BY <1>7 DEF LockAccount, Refuse
  <2> QED
    BY <1>7, <2>1, AccountKeeps, StatementKeepsInv
<1>8. ASSUME NEW p \in Caller, ReadLedgerSum(p) PROVE TxInv' /\ [Next]_vars
  <2>1. UNCHANGED vars
    BY <1>8 DEF ReadLedgerSum, Refuse
  <2> QED
    BY <1>8, <2>1, LedgerSumKeeps, StatementKeepsInv
<1>9. ASSUME NEW p \in Caller, ReadHeldSum(p) PROVE TxInv' /\ [Next]_vars
  <2>1. call[p].op \in {"place", "balance"} \/ Keyed(call[p])
    BY <1>9 DEF ReadHeldSum, TxInv, CallerInv, OnItsProgram
  <2>2. UNCHANGED vars
    BY <1>9, <2>1 DEF ReadHeldSum, Refuse, Keyed
  <2> QED
    BY <1>9, <2>2, HeldSumKeeps, StatementKeepsInv
<1>10. ASSUME NEW p \in Caller, Commit(p) PROVE TxInv' /\ [Next]_vars
  BY <1>10, CommitKeepsInv
<1>11. ASSUME NEW p \in Caller, Lose(p) \/ DeadlockVictim(p) PROVE TxInv' /\ [Next]_vars
  BY <1>11, RefusalKeepsInv DEF Lose, DeadlockVictim
<1>12. ASSUME NEW a \in Account, NEW o \in Overdraft, OpenAccount(a, o), UNCHANGED txVars
       PROVE  TxInv' /\ [Next]_vars
  BY <1>12, OpeningKeepsInv
<1>13. CASE UNCHANGED allVars
  <2>1. UNCHANGED <<accounts, txns, holds, ledgerSum, heldSum, pc, call, tx, locks, result>>
    BY <1>13 DEF allVars, vars, txVars
  <2>2. TxTypeOK'
    BY <2>1 DEF TxInv, TxTypeOK, TypeOK
  <2>3. ASSUME NEW q \in Caller PROVE CallerInv(q)'
    <3>1. SameCaller(q) /\ RowsStay(q) /\ (Placing(q) => holds'[call[q].hold] = NoHold) /\ TypeOK'
      BY <2>1, NothingWritten DEF SameCaller, vars
    <3> QED
      BY <3>1, FactsStay
  <2>4. LocksExclude' /\ DrawnIdsDiffer'
    BY <2>1 DEF TxInv, LocksExclude, DrawnIdsDiffer, Placing
  <2> QED
    BY <2>1, <2>2, <2>3, <2>4 DEF TxInv, vars
<1> QED
  BY <1>1, <1>2, <1>3, <1>4, <1>5, <1>6, <1>7, <1>8, <1>9, <1>10, <1>11, <1>12, <1>13
  DEF TxNext, Statement

\* The invariant holds before the first call.
LEMMA TxInitInv == TxInit => TxInv
<1> SUFFICES ASSUME TxInit PROVE TxInv
  OBVIOUS
<1>1. TypeOK /\ NoTx \in [legs : Legs \cup {<<>>}, inserted : 0..2, read : Int]
  BY InitTyped DEF TxInit, NoTx
<1>2. TxTypeOK
  BY <1>1 DEF TxInit, TxTypeOK
<1>3. ASSUME NEW p \in Caller PROVE CallerInv(p) /\ pc[p] = "idle" /\ locks[p] = {}
  BY DEF TxInit, NoTx, CallerInv, OnItsProgram, KeyIsReserved, SubjectIsLocked, EntriesPass,
         AccountIsLocked, PlacementFits, TransitionIsLegal, Working
<1> QED
  BY <1>2, <1>3 DEF TxInv, LocksExclude, DrawnIdsDiffer, Placing

\* The instance of Ledger names the same formulas.
LEMMA AbstractIsLedger ==
    /\ Init => Abstract!Init
    /\ [Next]_vars => [Abstract!Next]_(Abstract!vars)
<1> USE DEF AllAccounts, Abstract!AllAccounts
<1>1. Init => Abstract!Init
  BY DEF Init, Abstract!Init, NoAccount, Abstract!NoAccount, NoTxn, Abstract!NoTxn, NoHold, Abstract!NoHold
<1>2. ASSUME Next PROVE Abstract!Next
  BY <1>2
  DEF Next, Abstract!Next, OpenAccount, Abstract!OpenAccount,
      TransitionAccountState, Abstract!TransitionAccountState, CanTransitionTo, Abstract!CanTransitionTo,
      Credit, Abstract!Credit, Debit, Abstract!Debit, Transfer, Abstract!Transfer,
      CreditLegs, Abstract!CreditLegs, DebitLegs, Abstract!DebitLegs, Leg, Abstract!Leg,
      PostTransaction, Abstract!PostTransaction, Posted, Abstract!Posted, Unused, Abstract!Unused,
      InsertEntries, Abstract!InsertEntries, CanInsert, Abstract!CanInsert, Inserted, Abstract!Inserted,
      PassesBalanceCheck, Abstract!PassesBalanceCheck, Balanced, Abstract!Balanced,
      PlaceHold, Abstract!PlaceHold, ReleaseHold, Abstract!ReleaseHold,
      CaptureHold, Abstract!CaptureHold, ResolveHold, Abstract!ResolveHold,
      ReverseTransaction, Abstract!ReverseTransaction, Compensating, Abstract!Compensating,
      Negated, Abstract!Negated, LegsRequest, Abstract!LegsRequest, CaptureRequest, Abstract!CaptureRequest,
      ReversalRequest, Abstract!ReversalRequest, Exists, Abstract!Exists, Available, Abstract!Available,
      NoTxn, Abstract!NoTxn, NoHold, Abstract!NoHold
<1>3. vars = Abstract!vars
  BY DEF vars, Abstract!vars
<1> QED
  BY <1>1, <1>2, <1>3 DEF vars, Abstract!vars

\* The transactions are serializable: whatever the callers' interleaving, losses
\* and deadlocks, the committed tables move by steps of Ledger only.
THEOREM TransactionsAreSerializable == TxSpec => ImplementsLedger
<1>1. TxInit => Abstract!Init
  BY AbstractIsLedger DEF TxInit
<1>2. TxInv /\ [TxNext]_allVars => [Abstract!Next]_(Abstract!vars)
  BY TxStep, AbstractIsLedger
<1> QED
  BY <1>1, <1>2, TxInitInv, TxStep, PTL DEF TxSpec, ImplementsLedger, Abstract!Spec

-----------------------------------------------------------------------------
(***************************************************************************)
(* What a caller is told is what the books say, and goes on saying: the    *)
(* history only grows.                                                     *)
(***************************************************************************)
CommittedUnder(c) == ~Unused(c.key) /\ txns[c.key].request = RequestOf(c)

AnswerIsTrue(p) ==
    /\ pc[p] = "fetch" => ~Unused(call[p].key)
    /\ result[p] = "ok" /\ Keyed(call[p]) => CommittedUnder(call[p])
    /\ result[p] = "key_reused" =>
         Keyed(call[p]) /\ ~Unused(call[p].key) /\ txns[call[p].key].request # RequestOf(call[p])

AnswersInv == \A p \in Caller : AnswerIsTrue(p)

\* An answer given stays true.
LEMMA AnswersStay ==
    ASSUME TxInv, [Next]_vars, NEW q \in Caller, AnswerIsTrue(q),
           call'[q] = call[q], result'[q] = result[q],
           pc'[q] = "fetch" => Keyed(call[q]) /\ ~Unused(call[q].key)
    PROVE  AnswerIsTrue(q)'
<1> DEFINE c == call[q]
<1>1. Keyed(c) => c \in Calls /\ c.key \in Key
  BY CallsTyped DEF TxInv, TxTypeOK, Keyed
<1>2. Keyed(c) /\ ~Unused(c.key) => ~Unused(c.key)' /\ txns'[c.key].request = txns[c.key].request
  BY <1>1, RequestsStay DEF TxInv, TxTypeOK
<1>3. RequestOf(c)' = RequestOf(c)
  BY DEF RequestOf
<1> QED
  BY <1>2, <1>3 DEF AnswerIsTrue, CommittedUnder, Unused

\* A refusal with an error says nothing of the books.
LEMMA RefusalsAreTrue ==
    ASSUME TxInv, NEW p \in Caller, NEW r, Return(p, r), r \notin {"ok", "key_reused"}
    PROVE  AnswerIsTrue(p)'
  BY DEF Return, Goto, AnswerIsTrue, TxInv, TxTypeOK

\* An "ok" is a request that the commit has just stored under its key.
LEMMA CommitIsTold ==
    ASSUME TxInv, NEW p \in Caller, Commit(p)
    PROVE  AnswerIsTrue(p)'
<1> DEFINE c == call[p]
<1>1. pc[p] = "commit" /\ TypeOK /\ c \in Calls /\ Return(p, "ok")
  BY DEF Commit, TxInv, TxTypeOK, CallerInv, OnItsProgram
<1>2. pc'[p] = "idle" /\ call'[p] = c /\ result'[p] = "ok"
  BY <1>1 DEF Return, Goto, TxInv, TxTypeOK
<1>3. ASSUME Keyed(c) PROVE c.key \in Key /\ AddsRequest(c.key, RequestOf(c))
  <2>1. CASE c.op = "post"
    <3>1. c.key \in Key /\ PostTransaction(c.type, c.key, tx[p].legs)
      BY <1>1, <2>1, PostCommits DEF Commit
    <3>2. tx[p].legs = c.legs
      BY <1>1, <1>3, <2>1 DEF TxInv, CallerInv, EntriesPass, LegsOf, Working
    <3> QED
      BY <1>1, <2>1, <3>1, <3>2, PostAdds DEF RequestOf
  <2>2. CASE c.op = "capture"
    BY <1>1, <2>2, CaptureCommits, CaptureAdds DEF Commit, RequestOf
  <2>3. CASE c.op = "reverse"
    BY <1>1, <2>3, ReversalCommits, ReversalAdds DEF Commit, RequestOf
  <2> QED
    BY <1>3, <2>1, <2>2, <2>3 DEF Keyed
<1>4. ASSUME Keyed(c) PROVE CommittedUnder(c)'
  <2>1. RequestOf(c)' = RequestOf(c)
    BY <1>2 DEF RequestOf
  <2> QED
    BY <1>2, <1>3, <1>4, <2>1 DEF CommittedUnder, AddsRequest, Unused
<1> QED
  BY <1>2, <1>4 DEF AnswerIsTrue

\* Every step keeps the answers true.
LEMMA AnswerStep == TxInv /\ AnswersInv /\ [TxNext]_allVars => AnswersInv'
<1> SUFFICES ASSUME TxInv, AnswersInv, [TxNext]_allVars PROVE AnswersInv'
  OBVIOUS
<1>1. [Next]_vars
  BY TxStep
<1>2. ASSUME NEW q \in Caller, call'[q] = call[q], result'[q] = result[q],
             \/ pc'[q] = pc[q]
             \/ pc'[q] = "fetch" => Keyed(call[q]) /\ ~Unused(call[q].key)
      PROVE  AnswerIsTrue(q)'
  <2>1. pc[q] = "fetch" => Keyed(call[q])
    BY DEF TxInv, CallerInv, OnItsProgram
  <2> QED
    BY <1>1, <1>2, <2>1, AnswersStay DEF AnswersInv, AnswerIsTrue
<1>3. ASSUME NEW p \in Caller, \A q \in Caller \ {p} : /\ call'[q] = call[q] /\ result'[q] = result[q]
                                                    /\ pc'[q] = pc[q],
             AnswerIsTrue(p)'
      PROVE  AnswersInv'
  BY <1>2, <1>3 DEF AnswersInv
<1> DEFINE Others(p) == \A q \in Caller \ {p} :
                          call'[q] = call[q] /\ result'[q] = result[q] /\ pc'[q] = pc[q]
<1>4. TxTypeOK
  BY DEF TxInv
<1>5. ASSUME NEW p \in Caller, NEW r, Return(p, r) PROVE Others(p)
  BY <1>4, <1>5 DEF Return, Goto, TxTypeOK
<1>6. ASSUME NEW p \in Caller, NEW r, Refuse(p, r), r \notin {"ok", "key_reused"} PROVE AnswersInv'
  BY <1>3, <1>5, <1>6, RefusalsAreTrue DEF Refuse
<1>7. ASSUME NEW p \in Caller, NEW next, Goto(p, next), UNCHANGED <<call, result>>, next # "fetch"
      PROVE  AnswersInv'
  <2>1. Others(p) /\ call'[p] = call[p] /\ result'[p] = result[p] /\ pc'[p] = next
    BY <1>4, <1>7 DEF Goto, TxTypeOK
  <2>2. AnswerIsTrue(p)'
    BY <1>2, <1>7, <2>1
  <2> QED
    BY <1>3, <2>1, <2>2
<1>8. ASSUME NEW p \in Caller, NEW c \in Calls, Start(p, c) PROVE AnswersInv'
  <2>1. Others(p) /\ result'[p] = "none" /\ pc'[p] \in {"readLedger", "begin"}
    BY <1>4, <1>8 DEF Start, Goto, TxTypeOK
  <2>2. AnswerIsTrue(p)'
    BY <2>1 DEF AnswerIsTrue
  <2> QED
    BY <1>3, <2>1, <2>2
<1>9. ASSUME NEW p \in Caller, Begin(p) PROVE AnswersInv'
  <2>1. PICK next \in {"reserve", "subject", "account"} : Goto(p, next)
    BY <1>9 DEF Begin
  <2> QED
    BY <1>7, <1>9, <2>1 DEF Begin
<1>10. ASSUME NEW p \in Caller, ReserveKey(p) PROVE AnswersInv'
  <2>1. CASE Unused(call[p].key)
    BY <1>7, <1>10, <2>1 DEF ReserveKey
  <2>2. CASE ~Unused(call[p].key)
    <3>1. Goto(p, "fetch") /\ UNCHANGED <<call, result>> /\ Keyed(call[p])
      BY <1>10, <2>2 DEF ReserveKey, TxInv, CallerInv, OnItsProgram
    <3>2. Others(p) /\ call'[p] = call[p] /\ result'[p] = result[p]
      BY <1>4, <3>1 DEF Goto, TxTypeOK
    <3>3. AnswerIsTrue(p)'
      BY <1>2, <2>2, <3>1, <3>2
    <3> QED
      BY <1>3, <3>2, <3>3
  <2> QED
    BY <2>1, <2>2
<1>11. ASSUME NEW p \in Caller, FetchCompleted(p) PROVE AnswersInv'
  <2> DEFINE c == call[p]
             r == IF SameRequest(c) THEN "ok" ELSE "key_reused"
  <2>1. Return(p, r) /\ UNCHANGED vars /\ Keyed(c) /\ ~Unused(c.key)
    BY <1>11 DEF FetchCompleted, Refuse, TxInv, CallerInv, OnItsProgram, AnswersInv, AnswerIsTrue
  <2>2. pc'[p] = "idle" /\ call'[p] = c /\ result'[p] = r /\ txns' = txns
    BY <1>4, <2>1 DEF Return, Goto, TxTypeOK, vars
  <2>3. RequestOf(c)' = RequestOf(c)
    BY <2>2 DEF RequestOf
  <2>4. AnswerIsTrue(p)'
    BY <2>1, <2>2, <2>3 DEF AnswerIsTrue, CommittedUnder, SameRequest, Unused
  <2> QED
    BY <1>3, <1>5, <2>1, <2>4
<1>12. ASSUME NEW p \in Caller, LockSubject(p) PROVE AnswersInv'
  BY <1>6, <1>7, <1>12 DEF LockSubject
<1>13. ASSUME NEW p \in Caller, EntryInserted(p), UNCHANGED <<call, result>> PROVE AnswersInv'
  <2>1. PICK next \in {"commit", "entry"} : Goto(p, next)
    BY <1>13 DEF EntryInserted
  <2> QED
    BY <1>7, <1>13, <2>1
<1>14. ASSUME NEW p \in Caller, LockEntryAccount(p) PROVE AnswersInv'
  BY <1>6, <1>7, <1>13, <1>14 DEF LockEntryAccount
<1>15. ASSUME NEW p \in Caller, LockAccount(p) PROVE AnswersInv'
  <2>1. CASE \E r : Refuse(p, r) /\ r \notin {"ok", "key_reused"}
    BY <1>6, <2>1
  <2>2. CASE (\E next \in {"readLedger", "commit"} : Goto(p, next)) /\ UNCHANGED <<call, result>>
    BY <1>7, <2>2
  <2> QED
    BY <1>15, <2>1, <2>2 DEF LockAccount
<1>16. ASSUME NEW p \in Caller, ReadLedgerSum(p) PROVE AnswersInv'
  BY <1>6, <1>7, <1>16 DEF ReadLedgerSum
<1>17. ASSUME NEW p \in Caller, ReadHeldSum(p) PROVE AnswersInv'
  <2>1. ASSUME call[p].op = "balance" PROVE AnswersInv'
    <3>1. Return(p, "ok") /\ ~Keyed(call[p])
      BY <1>17, <2>1 DEF ReadHeldSum, Refuse, Keyed
    <3>2. AnswerIsTrue(p)'
      BY <1>4, <3>1 DEF Return, Goto, TxTypeOK, AnswerIsTrue
    <3> QED
      BY <1>3, <1>5, <3>1, <3>2
  <2>2. ASSUME call[p].op # "balance" PROVE AnswersInv'
    <3>1. \/ Goto(p, "commit") /\ UNCHANGED <<call, result>>
          \/ EntryInserted(p) /\ UNCHANGED <<call, result>>
          \/ Refuse(p, "insufficient")
      BY <1>17, <2>2 DEF ReadHeldSum
    <3> QED
      BY <1>6, <1>7, <1>13, <3>1
  <2> QED
    BY <2>1, <2>2
<1>18. ASSUME NEW p \in Caller, Commit(p) PROVE AnswersInv'
  BY <1>3, <1>5, <1>18, CommitIsTold DEF Commit
<1>19. ASSUME NEW p \in Caller, Lose(p) \/ DeadlockVictim(p) PROVE AnswersInv'
  BY <1>6, <1>19 DEF Lose, DeadlockVictim
<1>20. CASE UNCHANGED txVars
  BY <1>2, <1>20 DEF txVars, AnswersInv
<1> QED
  BY <1>8, <1>9, <1>10, <1>11, <1>12, <1>14, <1>15, <1>16, <1>17, <1>18, <1>19, <1>20
  DEF TxNext, Statement, allVars

\* A caller that is told "ok" finds its request committed under its key, one
\* told its key is reused finds another, and none leaves a lock behind.
THEOREM AnswersAreTrue == TxSpec => []AnswersMatchBooks
<1>1. TxInit => AnswersInv
  BY DEF TxInit, AnswersInv, AnswerIsTrue
<1>2. TxInv /\ AnswersInv => AnswersMatchBooks
  BY DEF TxInv, CallerInv, OnItsProgram, AnswersInv, AnswerIsTrue, CommittedUnder, AnswersMatchBooks
<1> QED
  BY <1>1, <1>2, TxInitInv, TxStep, AnswerStep, PTL DEF TxSpec
=============================================================================
