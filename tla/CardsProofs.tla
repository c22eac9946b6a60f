----------------------------- MODULE CardsProofs -----------------------------
(***************************************************************************)
(* What a card's authorizations say about money is true in the ledger, for *)
(* any cards, purchases, concurrent calls and lost calls; and a dispute's  *)
(* timeline explains its status.  No lock spans the statements of a call,  *)
(* so the invariant says what a call may still rely on at each of them,    *)
(* whatever others have made of the row since.                             *)
(***************************************************************************)
EXTENDS CardDesk, LedgerProofs

Deciding == {"card", "limits", "decide", "decline", "require3DS", "hold", "approve"}
Completing == {"verify", "hold3DS", "approve3DS", "decline3DS"}
Resolving == {"capture", "settle", "release", "void"}   \* with a hold read from the row
Returning == {"reverse", "chargeback"}
OnRow == {"challenge"} \cup Completing \cup Resolving \cup Returning
Fresh == {"approve", "approve3DS"}                      \* with a hold that no row has yet
Ending == {"settle", "void"}

\* The hold reserves this amount of this account.
Reserves(h, a, x) == h \in HoldId /\ holds[h] # NoHold /\ holds[h].account = a /\ holds[h].amount = x
ReservesFor(h, k) == auths[k] # NoAuth /\ Reserves(h, AccountOf[auths[k].card], auths[k].amount)

\* What a call that is about to execute a step may rely on.
Knows(step, w) ==
    /\ step \in Deciding => w.request \in Purchase /\ w.key = w.request.key
    /\ step = "limits" => cards[w.request.card] # NoCard
    /\ step \in OnRow => w.key \in AuthKey /\ auths[w.key] # NoAuth
    /\ step = "approve" => Reserves(w.hold, AccountOf[w.request.card], w.request.amount)
    /\ step \in Resolving \cup {"approve3DS"} => ReservesFor(w.hold, w.key)
    /\ step \notin Fresh \cup Resolving => w.hold = "none"
    /\ step \in {"settle"} \cup Returning => w.txn = SettleKey[w.key] /\ ~Unused(SettleKey[w.key])
    /\ step = "reverse" => w.under \in ChargebackKey
    /\ step = "chargeback" => txns[w.txn].state = "reversed"

CallsKnow == \A c \in Caller : Knows(callStep[c], call[c])

\* A row's hold was placed for it.
RowReserves(k) ==
    /\ auths[k] # NoAuth /\ auths[k].hold # "none" => ReservesFor(auths[k].hold, k)
    /\ auths[k].status = "approved" => auths[k].hold # "none"

\* Nothing but the capture of a row's hold is posted under its key.
Settlement(k) ==
    /\ ~Unused(SettleKey[k]) =>
         auths[k] # NoAuth /\ txns[SettleKey[k]].legs = DebitLegs(AccountOf[auths[k].card], auths[k].amount)
    /\ auths[k].status \in {"settled", "charged_back"} => auths[k].txn = SettleKey[k] /\ ~Unused(SettleKey[k])
    /\ auths[k].status = "charged_back" => txns[SettleKey[k]].state = "reversed"

\* No two rows share a hold, a call resolves none of another row, and what a call
\* has just placed is nobody else's.
RowsDiffer ==
    \A k, l \in AuthKey :
        k # l /\ auths[k] # NoAuth /\ auths[l] # NoAuth /\ auths[k].hold # "none" => auths[k].hold # auths[l].hold

OwnRow(step, w) ==
    step \in Resolving => \A k \in AuthKey : k # w.key /\ auths[k] # NoAuth => auths[k].hold # w.hold

OwnHold(c, step, w) ==
    step \in Fresh =>
        /\ holds[w.hold].status = "active"
        /\ \A k \in AuthKey : auths[k] # NoAuth => auths[k].hold # w.hold
        /\ \A d \in Caller \ {c} : call[d].hold # w.hold

HoldsAreOwn == RowsDiffer /\ \A c \in Caller : OwnRow(callStep[c], call[c]) /\ OwnHold(c, callStep[c], call[c])

\* Whoever resolves the hold of an approved row is about to end the approval.
Ended(k) == k \in lost \/ \E c \in Caller : callStep[c] \in Ending /\ call[c].key = k
ApprovedIsHeld ==
    \A k \in AuthKey : auths[k].status = "approved" => holds[auths[k].hold].status = "active" \/ Ended(k)

CardsInv ==
    /\ CardsTypeOK /\ ReversedExactlyOnce
    /\ CallsKnow /\ \A k \in AuthKey : RowReserves(k) /\ Settlement(k)
    /\ HoldsAreOwn /\ ApprovedIsHeld

-----------------------------------------------------------------------------
(***************************************************************************)
(* What stays true of the ledger and of the rows.                          *)
(***************************************************************************)
LedgerGrows ==
    /\ \A h \in HoldId : holds[h] # NoHold =>
         holds'[h] # NoHold /\ holds'[h].account = holds[h].account /\ holds'[h].amount = holds[h].amount
    /\ \A key \in Key : ~Unused(key) =>
         ~Unused(key)' /\ txns'[key].legs = txns[key].legs
           /\ (txns[key].state = "reversed" => txns'[key].state = "reversed")

RowsGrow ==
    /\ \A d \in Card : cards[d] # NoCard => cards'[d] # NoCard
    /\ \A k \in AuthKey : auths[k] # NoAuth =>
         auths'[k] # NoAuth /\ auths'[k].card = auths[k].card /\ auths'[k].amount = auths[k].amount

\* A step of the ledger only adds to it.
LEMMA LedgerStep ==
    ASSUME TypeOK, ReversedExactlyOnce, [Next]_vars
    PROVE  TypeOK' /\ ReversedExactlyOnce' /\ LedgerGrows
<1>1. TypeOK' /\ ReversedExactlyOnce' /\ AppendOnlyStep
  BY NextTyped, NextReversed, NextAppends
<1>2. ASSUME NEW h \in HoldId, holds[h] # NoHold
      PROVE  holds'[h] # NoHold /\ holds'[h].account = holds[h].account /\ holds'[h].amount = holds[h].amount
  <2>1. holds[h] \in Hold
    BY <1>2 DEF TypeOK
  <2>2. holds'[h] = holds[h] \/ \E s \in {"released", "captured"} : holds'[h] = [holds[h] EXCEPT !.status = s]
    BY <1>1, <1>2 DEF AppendOnlyStep
  <2> QED
    BY <2>1, <2>2 DEF Hold, NoHold
<1>3. ASSUME NEW key \in Key, ~Unused(key)
      PROVE  ~Unused(key)' /\ txns'[key].legs = txns[key].legs
               /\ (txns[key].state = "reversed" => txns'[key].state = "reversed")
  <2>1. txns[key] \in Txn /\ txns'[key] \in {txns[key], [txns[key] EXCEPT !.state = "reversed"]}
    BY <1>1, <1>3 DEF AppendOnlyStep, TypeOK, Unused
  <2> QED
    BY <2>1 DEF Txn, Unused, NoTxn
<1> QED
  BY <1>1, <1>2, <1>3 DEF LedgerGrows

\* What a call relies on is not taken away by others.
LEMMA KnownStays ==
    ASSUME CardsTypeOK, LedgerGrows, RowsGrow, NEW step, NEW w, Knows(step, w)
    PROVE  Knows(step, w)'
<1>1. \A h, a, x : Reserves(h, a, x) => Reserves(h, a, x)'
  BY DEF Reserves, LedgerGrows
<1>2. \A h, k : k \in AuthKey /\ ReservesFor(h, k) => ReservesFor(h, k)'
  BY DEF ReservesFor, RowsGrow, Reserves, LedgerGrows
<1>3. step \in Resolving \cup {"approve3DS"} => step \in OnRow
  BY DEF OnRow, Completing
<1>4. step \in {"settle"} \cup Returning => step \in OnRow
  BY DEF OnRow, Resolving
<1>5. \A k \in AuthKey : SettleKey[k] \in Key
  BY SettleKeyAssumption
<1>6. w.key \in AuthKey /\ ~Unused(SettleKey[w.key]) =>
        ~Unused(SettleKey[w.key])' /\ (txns[SettleKey[w.key]].state = "reversed" => txns'[SettleKey[w.key]].state = "reversed")
  BY <1>5 DEF LedgerGrows
<1>7. step = "chargeback" => step \in Returning
  BY DEF Returning
<1>8. step = "limits" => w.request.card \in Card
  BY PurchaseAssumption DEF Knows, Deciding
<1> QED
  BY <1>1, <1>2, <1>3, <1>4, <1>6, <1>7, <1>8 DEF Knows, RowsGrow

\* The call that moves, and those that do not.
LEMMA CallIs ==
    ASSUME CardsTypeOK, NEW c \in Caller, NEW next \in Statement, NEW w \in Work,
           callStep' = [callStep EXCEPT ![c] = next], call' = [call EXCEPT ![c] = w]
    PROVE  /\ callStep'[c] = next /\ call'[c] = w
           /\ \A d \in Caller \ {c} : callStep'[d] = callStep[d] /\ call'[d] = call[d]
           /\ callStep' \in [Caller -> Statement] /\ call' \in [Caller -> Work]
  BY DEF CardsTypeOK

\* What all calls rely on, when one moves on with what it may rely on.
LEMMA CallsKnowOn ==
    ASSUME CardsTypeOK, CallsKnow, LedgerGrows, RowsGrow, NEW c \in Caller, NEW next, NEW w, Knows(next, w)',
           callStep'[c] = next, call'[c] = w,
           \A d \in Caller \ {c} : callStep'[d] = callStep[d] /\ call'[d] = call[d]
    PROVE  CallsKnow'
<1>1. ASSUME NEW d \in Caller PROVE \E step, v : step = callStep'[d] /\ v = call'[d] /\ Knows(step, v)'
  <2>1. CASE d = c
    BY <2>1
  <2>2. CASE d # c
    <3>1. PICK step, v : step = callStep[d] /\ v = call[d]
      OBVIOUS
    <3>2. Knows(step, v)'
      BY <3>1, KnownStays DEF CallsKnow
    <3> QED
      BY <2>2, <3>1, <3>2
  <2> QED
    BY <2>1, <2>2
<1>2. ASSUME NEW d \in Caller PROVE Knows(callStep[d], call[d])'
  BY <1>1 DEF Knows
<1> QED
  BY <1>2 DEF CallsKnow

\* A call goes on: it may place a hold or resolve the one it has, post under a
\* row's key what belongs there, or touch nothing.  Rows stay as they are.
LEMMA CallMoves ==
    ASSUME CardsInv, TypeOK', ReversedExactlyOnce', LedgerGrows, UNCHANGED <<cards, auths>>,
           lost \subseteq lost', lost' \subseteq AuthKey,
           NEW c \in Caller, NEW next \in Statement, NEW w \in Work,
           callStep' = [callStep EXCEPT ![c] = next], call' = [call EXCEPT ![c] = w], Knows(next, w)',
           callStep[c] \in Ending => call[c].key \in lost',
           OwnRow(next, w),
           next \in Fresh =>
               /\ holds'[w.hold].status = "active"
               /\ \A k \in AuthKey : auths[k] # NoAuth => auths[k].hold # w.hold
               /\ \A d \in Caller \ {c} : call[d].hold # w.hold,
           \A d \in Caller \ {c} : callStep[d] \in Fresh => call[d].hold # w.hold,
           \A h \in HoldId : holds[h].status = "active" =>
               \/ holds'[h].status = "active"
               \/ callStep[c] \in Resolving /\ h = call[c].hold /\ next \in Ending /\ w.key = call[c].key,
           \A k \in AuthKey : Unused(SettleKey[k]) =>
               \/ Unused(SettleKey[k])'
               \/ /\ auths[k] # NoAuth
                  /\ txns'[SettleKey[k]].legs = DebitLegs(AccountOf[auths[k].card], auths[k].amount)
    PROVE  CardsInv'
<1>1. /\ CardsTypeOK /\ CallsKnow /\ HoldsAreOwn /\ ApprovedIsHeld
      /\ \A k \in AuthKey : RowReserves(k) /\ Settlement(k) /\ SettleKey[k] \in Key
  BY SettleKeyAssumption DEF CardsInv
<1>2. /\ callStep'[c] = next /\ call'[c] = w
      /\ \A d \in Caller \ {c} : callStep'[d] = callStep[d] /\ call'[d] = call[d]
      /\ callStep' \in [Caller -> Statement] /\ call' \in [Caller -> Work]
  BY <1>1, CallIs
<1>3. RowsGrow
  BY DEF RowsGrow
<1>4. CardsTypeOK'
  BY <1>1, <1>2 DEF CardsTypeOK
<1>5. CallsKnow'
  BY <1>1, <1>2, <1>3, CallsKnowOn
<1>6. ASSUME NEW k \in AuthKey PROVE RowReserves(k)' /\ Settlement(k)'
  <2>1. RowReserves(k)'
    BY <1>1 DEF RowReserves, ReservesFor, Reserves, LedgerGrows
  <2>2. Settlement(k)'
    BY <1>1 DEF Settlement, LedgerGrows
  <2> QED
    BY <2>1, <2>2
<1>7. HoldsAreOwn'
  <2>1. RowsDiffer'
    BY <1>1 DEF HoldsAreOwn, RowsDiffer
  <2>2. ASSUME NEW d \in Caller PROVE OwnRow(callStep[d], call[d])'
    BY <1>1, <1>2 DEF HoldsAreOwn, OwnRow
  <2>3. ASSUME NEW d \in Caller PROVE OwnHold(d, callStep[d], call[d])'
    <3>1. CASE d = c
      BY <1>2, <3>1 DEF OwnHold
    <3>2. CASE d # c
      <4> SUFFICES ASSUME callStep[d] \in Fresh
                   PROVE  /\ holds'[call[d].hold].status = "active"
                          /\ \A k \in AuthKey : auths[k] # NoAuth => auths[k].hold # call[d].hold
                          /\ \A e \in Caller \ {d} : call'[e].hold # call[d].hold
        BY <1>2, <3>2 DEF OwnHold
      <4>1. /\ holds[call[d].hold].status = "active" /\ call[d].hold \in HoldId
            /\ \A k \in AuthKey : auths[k] # NoAuth => auths[k].hold # call[d].hold
            /\ \A e \in Caller \ {d} : call[e].hold # call[d].hold
        BY <1>1 DEF HoldsAreOwn, OwnHold, CallsKnow, Knows, Fresh, ReservesFor, Reserves
      <4>2. call[c].hold # call[d].hold /\ w.hold # call[d].hold
        BY <3>2, <4>1
      <4> QED
        BY <1>2, <4>1, <4>2
    <3> QED
      BY <3>1, <3>2
  <2> QED
    BY <2>1, <2>2, <2>3 DEF HoldsAreOwn
<1>8. ASSUME NEW k \in AuthKey, auths[k].status = "approved"
      PROVE  holds'[auths[k].hold].status = "active" \/ Ended(k)'
  <2>1. auths[k] # NoAuth /\ auths[k].hold \in HoldId
    BY <1>1, <1>8, NullAssumption DEF RowReserves, ReservesFor, Reserves, NoAuth
  <2>2. CASE holds[auths[k].hold].status = "active"
    <3>1. CASE callStep[c] \in Resolving /\ auths[k].hold = call[c].hold /\ next \in Ending /\ w.key = call[c].key
      <4>1. call[c].key = k
        BY <1>1, <2>1, <3>1 DEF HoldsAreOwn, OwnRow
      <4> QED
        BY <1>2, <3>1, <4>1 DEF Ended
    <3> QED
      BY <2>1, <2>2, <3>1
  <2>3. CASE Ended(k)
    BY <1>2, <2>3 DEF Ended
  <2> QED
    BY <1>1, <1>8, <2>2, <2>3 DEF ApprovedIsHeld
<1>9. ApprovedIsHeld'
  BY <1>8 DEF ApprovedIsHeld
<1> QED
  BY <1>4, <1>5, <1>6, <1>7, <1>9 DEF CardsInv

\* A call writes its row and is done, or goes on to issue the challenge: the row
\* keeps its card and amount, and its hold is none, the one it had or the one the
\* call has placed for it.
LEMMA RowChanges ==
    ASSUME CardsInv, UNCHANGED <<vars, cards, lost>>, NEW c \in Caller, NEW k \in AuthKey, NEW row \in Auth,
           auths' = [auths EXCEPT ![k] = row],
           auths[k] # NoAuth => row.card = auths[k].card /\ row.amount = auths[k].amount,
           NEW next \in {"idle", "challenge"}, NEW w \in Work,
           callStep' = [callStep EXCEPT ![c] = next], call' = [call EXCEPT ![c] = w], Knows(next, w)',
           row.hold # "none" => \/ auths[k] # NoAuth /\ row.hold = auths[k].hold
                                \/ callStep[c] \in Fresh /\ row.hold = call[c].hold /\ ReservesFor(row.hold, k)',
           row.status = "approved" => \/ callStep[c] \in Fresh /\ row.hold = call[c].hold
                                      \/ auths[k].status = "approved" /\ row.hold = auths[k].hold,
           callStep[c] \in Ending => call[c].key = k /\ row.status # "approved",
           Settlement(k)'
    PROVE  CardsInv'
<1>1. /\ CardsTypeOK /\ CallsKnow /\ HoldsAreOwn /\ ApprovedIsHeld /\ TypeOK /\ ReversedExactlyOnce
      /\ \A l \in AuthKey : RowReserves(l) /\ Settlement(l) /\ SettleKey[l] \in Key
  BY SettleKeyAssumption DEF CardsInv, CardsTypeOK
<1>2. /\ callStep'[c] = next /\ call'[c] = w
      /\ \A d \in Caller \ {c} : callStep'[d] = callStep[d] /\ call'[d] = call[d]
      /\ callStep' \in [Caller -> Statement] /\ call' \in [Caller -> Work]
  BY <1>1, CallIs DEF Statement
<1>3. /\ auths'[k] = row /\ \A l \in AuthKey \ {k} : auths'[l] = auths[l]
      /\ auths' \in [AuthKey -> Auth \cup {NoAuth}] /\ row # NoAuth
  BY <1>1 DEF CardsTypeOK, Auth, NoAuth, AuthStatus
<1>4. TypeOK' /\ ReversedExactlyOnce' /\ LedgerGrows /\ UNCHANGED <<txns, holds>>
  BY <1>1, LedgerStep DEF vars
<1>5. RowsGrow
  BY <1>3 DEF RowsGrow
<1>6. CardsTypeOK'
  BY <1>1, <1>2, <1>3, <1>4 DEF CardsTypeOK
<1>7. CallsKnow'
  BY <1>1, <1>2, <1>4, <1>5, CallsKnowOn
<1>8. ASSUME NEW l \in AuthKey PROVE RowReserves(l)' /\ Settlement(l)'
  <2>1. CASE l = k
    <3>1. row.hold # "none" => ReservesFor(row.hold, k)'
      BY <1>1, <1>3, <1>4 DEF RowReserves, ReservesFor, Reserves
    <3>2. row.status = "approved" => row.hold # "none"
      BY <1>1, NullAssumption DEF RowReserves, CallsKnow, Knows, Fresh, ReservesFor, Reserves
    <3> QED
      BY <1>3, <2>1, <3>1, <3>2 DEF RowReserves
  <2>2. CASE l # k
    BY <1>1, <1>3, <1>4, <2>2 DEF RowReserves, ReservesFor, Reserves, Settlement, Unused
  <2> QED
    BY <2>1, <2>2
<1>9. ASSUME NEW d \in Caller \ {c}, callStep[d] \in Fresh \cup Resolving
      PROVE  call[d].hold \in HoldId /\ call[d].hold # "none"
  BY <1>1, <1>9, NullAssumption DEF CallsKnow, Knows, Fresh, ReservesFor, Reserves
<1>10. callStep[c] \in Fresh =>
         /\ \A l \in AuthKey : auths[l] # NoAuth => auths[l].hold # call[c].hold
         /\ \A d \in Caller \ {c} : call[d].hold # call[c].hold
  BY <1>1 DEF HoldsAreOwn, OwnHold
<1>11. RowsDiffer'
  BY <1>1, <1>3, <1>10 DEF HoldsAreOwn, RowsDiffer
<1>12. ASSUME NEW d \in Caller PROVE OwnRow(callStep[d], call[d])' /\ OwnHold(d, callStep[d], call[d])'
  <2>1. CASE d = c
    BY <1>2, <2>1 DEF OwnRow, OwnHold, Resolving, Fresh
  <2>2. CASE d # c
    <3>1. OwnRow(callStep[d], call[d]) /\ OwnHold(d, callStep[d], call[d])
      BY <1>1 DEF HoldsAreOwn
    <3>2. OwnRow(callStep[d], call[d])'
      BY <1>2, <1>3, <1>9, <1>10, <2>2, <3>1 DEF OwnRow
    <3>3. w.hold = "none"
      BY DEF Knows, Fresh, Resolving
    <3>4. OwnHold(d, callStep[d], call[d])'
      BY <1>2, <1>3, <1>4, <1>9, <1>10, <2>2, <3>1, <3>3 DEF OwnHold
    <3> QED
      BY <3>2, <3>4
  <2> QED
    BY <2>1, <2>2
<1>13. HoldsAreOwn'
  BY <1>11, <1>12 DEF HoldsAreOwn
<1>14. ASSUME NEW l \in AuthKey, auths'[l].status = "approved"
       PROVE  holds'[auths'[l].hold].status = "active" \/ Ended(l)'
  <2>1. CASE l = k /\ callStep[c] \in Fresh /\ row.hold = call[c].hold
    BY <1>1, <1>3, <1>4, <2>1 DEF HoldsAreOwn, OwnHold
  <2>2. CASE auths[l].status = "approved" /\ auths'[l].hold = auths[l].hold
    <3>1. holds[auths[l].hold].status = "active" \/ Ended(l)
      BY <1>1, <2>2 DEF ApprovedIsHeld
    <3>2. ~(callStep[c] \in Ending /\ call[c].key = l)
      BY <1>3, <1>14
    <3> QED
      BY <1>2, <1>4, <2>2, <3>1, <3>2 DEF Ended
  <2> QED
    BY <1>3, <1>14, <2>1, <2>2
<1>15. ApprovedIsHeld'
  BY <1>14 DEF ApprovedIsHeld
<1> QED
  BY <1>4, <1>6, <1>7, <1>8, <1>13, <1>15 DEF CardsInv
\* What a caller that idles has at hand.
LEMMA NoCallIs == NoCall \in Work /\ NoCall.hold = "none" /\ NoCall.key = "none"
  BY DEF Work, NoCall

\* A caller that idles, or has just begun, relies on nothing.
LEMMA IdleKnows == Knows("idle", NoCall) /\ OwnRow("idle", NoCall)
  BY NoCallIs DEF Knows, OwnRow, Deciding, OnRow, Completing, Resolving, Returning, Fresh

\* A step between two reads: neither the ledger nor a row changes.
LEMMA QuietMoves ==
    ASSUME CardsInv, UNCHANGED <<vars, cards, auths>>, lost \subseteq lost', lost' \subseteq AuthKey,
           NEW c \in Caller, NEW next \in Statement, NEW w \in Work,
           callStep' = [callStep EXCEPT ![c] = next], call' = [call EXCEPT ![c] = w],
           Knows(next, w), OwnRow(next, w), next \notin Fresh,
           callStep[c] \in Ending => call[c].key \in lost',
           w.hold # "none" => \/ w.hold = call[c].hold
                              \/ \E k \in AuthKey : auths[k] # NoAuth /\ w.hold = auths[k].hold
    PROVE  CardsInv'
<1>1. CardsTypeOK /\ TypeOK /\ ReversedExactlyOnce /\ CallsKnow /\ HoldsAreOwn
  BY DEF CardsInv, CardsTypeOK
<1>2. TypeOK' /\ ReversedExactlyOnce' /\ LedgerGrows /\ UNCHANGED <<txns, holds>>
  BY <1>1, LedgerStep DEF vars
<1>3. RowsGrow
  BY DEF RowsGrow
<1>4. Knows(next, w)'
  BY <1>1, <1>2, <1>3, KnownStays
<1>5. ASSUME NEW d \in Caller \ {c}, callStep[d] \in Fresh PROVE call[d].hold # w.hold
  <2>1. call[d].hold # "none"
    BY <1>1, <1>5, NullAssumption DEF CallsKnow, Knows, Fresh, ReservesFor, Reserves
  <2>2. /\ \A k \in AuthKey : auths[k] # NoAuth => auths[k].hold # call[d].hold
        /\ call[c].hold # call[d].hold
    BY <1>1, <1>5 DEF HoldsAreOwn, OwnHold
  <2> QED
    BY <2>1, <2>2
<1>6. \A k \in AuthKey : Unused(SettleKey[k]) => Unused(SettleKey[k])'
  BY <1>2 DEF Unused
<1>7. \A h \in HoldId : holds[h].status = "active" => holds'[h].status = "active"
  BY <1>2
<1> QED
  BY <1>2, <1>4, <1>5, <1>6, <1>7, CallMoves

\* A call is done, or loses its way.
LEMMA ReturnKeeps ==
    ASSUME CardsInv, UNCHANGED <<vars, cards, auths>>, lost \subseteq lost', lost' \subseteq AuthKey,
           NEW c \in Caller, Return(c), callStep[c] \in Ending => call[c].key \in lost'
    PROVE  CardsInv'
  BY NoCallIs, IdleKnows, QuietMoves DEF Return, Statement, Fresh

\* A call goes on with what it has at hand.
LEMMA GotoKeeps ==
    ASSUME CardsInv, UNCHANGED <<vars, cards, auths, lost>>, NEW c \in Caller, NEW next \in Statement, Goto(c, next),
           Knows(next, call[c]), OwnRow(next, call[c]), next \notin Fresh, callStep[c] \notin Ending
    PROVE  CardsInv'
<1>1. PICK w : w = call[c] /\ w \in Work
  BY DEF CardsInv, CardsTypeOK
<1>2. lost \subseteq AuthKey /\ call' = [call EXCEPT ![c] = w]
  BY <1>1 DEF CardsInv, CardsTypeOK, Goto
<1> QED
  BY <1>1, <1>2, QuietMoves DEF Goto

\* The ways a call fills in what it has at hand.
Buying(v, k, p) == [v EXCEPT !.key = k, !.request = p]
AtRow(v, k) == [v EXCEPT !.key = k]
AtHold(v, k, h) == [v EXCEPT !.key = k, !.hold = h]
AtReversal(v, k, t, u) == [v EXCEPT !.key = k, !.txn = t, !.under = u]
Within(v, l) == [v EXCEPT !.limits = l]
Holding(v, h) == [v EXCEPT !.hold = h]
CapturedBy(v, t) == [v EXCEPT !.txn = t]

\* They fill it in with what belongs there.
LEMMA WorkIs ==
    ASSUME NEW v \in Work
    PROVE  /\ \A k \in AuthKey, p \in Purchase :
                LET w == Buying(v, k, p) IN w \in Work /\ w.key = k /\ w.request = p /\ w.hold = v.hold
           /\ \A k \in AuthKey :
                LET w == AtRow(v, k) IN w \in Work /\ w.key = k /\ w.hold = v.hold
           /\ \A k \in AuthKey, h \in HoldId :
                LET w == AtHold(v, k, h) IN w \in Work /\ w.key = k /\ w.hold = h
           /\ \A k \in AuthKey, t, u \in Key :
                LET w == AtReversal(v, k, t, u) IN w \in Work /\ w.key = k /\ w.txn = t /\ w.under = u /\ w.hold = v.hold
           /\ \A l \in Limits :
                LET w == Within(v, l) IN w \in Work /\ w.key = v.key /\ w.request = v.request /\ w.hold = v.hold
           /\ \A h \in HoldId :
                LET w == Holding(v, h) IN w \in Work /\ w.key = v.key /\ w.request = v.request /\ w.hold = h
           /\ \A t \in Key :
                LET w == CapturedBy(v, t) IN w \in Work /\ w.key = v.key /\ w.hold = v.hold /\ w.txn = t
<1>1. \A k \in AuthKey, p \in Purchase :
        LET w == Buying(v, k, p) IN w \in Work /\ w.key = k /\ w.request = p /\ w.hold = v.hold
  BY DEF Work, Buying
<1>2. \A k \in AuthKey :
        LET w == AtRow(v, k) IN w \in Work /\ w.key = k /\ w.hold = v.hold
  BY DEF Work, AtRow
<1>3. \A k \in AuthKey, h \in HoldId :
        LET w == AtHold(v, k, h) IN w \in Work /\ w.key = k /\ w.hold = h
  BY DEF Work, AtHold
<1>4. \A k \in AuthKey, t, u \in Key :
        LET w == AtReversal(v, k, t, u) IN w \in Work /\ w.key = k /\ w.txn = t /\ w.under = u /\ w.hold = v.hold
  BY DEF Work, AtReversal
<1>5. \A l \in Limits :
        LET w == Within(v, l) IN w \in Work /\ w.key = v.key /\ w.request = v.request /\ w.hold = v.hold
  BY DEF Work, Within
<1>6. \A h \in HoldId :
        LET w == Holding(v, h) IN w \in Work /\ w.key = v.key /\ w.request = v.request /\ w.hold = h
  BY DEF Work, Holding
<1>7. \A t \in Key :
        LET w == CapturedBy(v, t) IN w \in Work /\ w.key = v.key /\ w.hold = v.hold /\ w.txn = t
  BY DEF Work, CapturedBy
<1> QED
  BY <1>1, <1>2, <1>3, <1>4, <1>5, <1>6, <1>7, Zenon

-----------------------------------------------------------------------------
(***************************************************************************)
(* The statements that only read.                                          *)
(***************************************************************************)
LEMMA AsksKeep ==
    ASSUME CardsInv, NEW c \in Caller, Ask(c)
    PROVE  CardsInv'
<1>1. UNCHANGED <<vars, cards, auths, lost>> /\ lost \subseteq AuthKey /\ callStep[c] = "idle"
  BY DEF Ask, LookUpKey, StartComplete3DS, StartResolve, StartChargeback, Begin, CardsInv, CardsTypeOK
<1>2. ASSUME NEW next \in Statement, NEW w \in Work, Begin(c, next, w), Knows(next, w), OwnRow(next, w),
             next \notin Fresh, w.hold # "none" => \E k \in AuthKey : auths[k] # NoAuth /\ w.hold = auths[k].hold
      PROVE  CardsInv'
  BY <1>1, <1>2, QuietMoves DEF Begin, Ending
<1>3. ASSUME NEW p \in Purchase, LookUpKey(c, p) PROVE CardsInv'
  <2> DEFINE v == Buying(NoCall, p.key, p)
  <2>1. p.key \in AuthKey
    BY PurchaseAssumption
  <2>2. v \in Work /\ v.key = p.key /\ v.request = p /\ v.hold = "none"
    BY <2>1, NoCallIs, WorkIs
  <2>3. Begin(c, "card", v)
    BY <1>3 DEF LookUpKey, Buying
  <2> HIDE DEF v
  <2>4. Knows("card", v) /\ OwnRow("card", v)
    BY <2>2 DEF Knows, OwnRow, Deciding, OnRow, Completing, Resolving, Returning, Fresh
  <2> QED
    BY <1>2, <2>2, <2>3, <2>4 DEF Statement, Fresh
<1>4. ASSUME NEW k \in AuthKey, StartComplete3DS(c, k) PROVE CardsInv'
  <2> DEFINE v == AtRow(NoCall, k)
  <2>1. v \in Work /\ v.key = k /\ v.hold = "none"
    BY NoCallIs, WorkIs
  <2>2. Begin(c, "verify", v) /\ auths[k] # NoAuth
    BY <1>4 DEF StartComplete3DS, AtRow, NoAuth
  <2> HIDE DEF v
  <2>3. Knows("verify", v) /\ OwnRow("verify", v)
    BY <2>1, <2>2 DEF Knows, OwnRow, Deciding, OnRow, Completing, Resolving, Returning, Fresh
  <2> QED
    BY <1>2, <2>1, <2>2, <2>3 DEF Statement, Fresh
<1>5. ASSUME NEW k \in AuthKey, NEW step \in {"capture", "release"}, StartResolve(c, k, step) PROVE CardsInv'
  <2> DEFINE v == AtHold(NoCall, k, auths[k].hold)
  <2>1. auths[k] # NoAuth /\ auths[k].hold # "none" /\ ReservesFor(auths[k].hold, k)
    BY <1>5 DEF StartResolve, NoAuth, CardsInv, RowReserves
  <2>2. v \in Work /\ v.key = k /\ v.hold = auths[k].hold
    BY <2>1, NoCallIs, WorkIs DEF ReservesFor, Reserves
  <2>3. Begin(c, step, v)
    BY <1>5 DEF StartResolve, AtHold
  <2> HIDE DEF v
  <2>4. Knows(step, v)
    BY <2>1, <2>2 DEF Knows, Deciding, OnRow, Completing, Resolving, Returning, Fresh
  <2>5. OwnRow(step, v)
    BY <2>1, <2>2 DEF OwnRow, CardsInv, HoldsAreOwn, RowsDiffer
  <2> QED
    BY <1>2, <2>1, <2>2, <2>3, <2>4, <2>5 DEF Statement, Fresh
<1>6. ASSUME NEW k \in AuthKey, NEW key \in ChargebackKey, StartChargeback(c, k, key) PROVE CardsInv'
  <2> DEFINE v == AtReversal(NoCall, k, auths[k].txn, key)
  <2>1. /\ auths[k] # NoAuth /\ auths[k].txn = SettleKey[k] /\ ~Unused(SettleKey[k])
        /\ SettleKey[k] \in Key /\ key \in Key
    BY <1>6, SettleKeyAssumption DEF StartChargeback, NoAuth, CardsInv, Settlement
  <2>2. v \in Work /\ v.key = k /\ v.txn = SettleKey[k] /\ v.under = key /\ v.hold = "none"
    <3>1. \A t, u \in Key : LET w == AtReversal(NoCall, k, t, u)
                           IN  w \in Work /\ w.key = k /\ w.txn = t /\ w.under = u /\ w.hold = NoCall.hold
      BY NoCallIs, WorkIs
    <3> QED
      BY <2>1, <3>1, NoCallIs
  <2>3. Begin(c, "reverse", v)
    BY <1>6 DEF StartChargeback, AtReversal
  <2> HIDE DEF v
  <2>4. Knows("reverse", v) /\ OwnRow("reverse", v)
    BY <2>1, <2>2 DEF Knows, OwnRow, Deciding, OnRow, Completing, Resolving, Returning, Fresh
  <2> QED
    BY <1>2, <2>1, <2>2, <2>3, <2>4 DEF Statement, Fresh
<1> QED
  BY <1>3, <1>4, <1>5, <1>6 DEF Ask
\* A decision goes on to what its request and the card allow.
LEMMA DecisionGoesOn ==
    ASSUME CardsInv, UNCHANGED <<vars, cards, auths, lost>>, NEW c \in Caller,
           callStep[c] \in {"card", "limits", "decide"}, NEW next \in {"limits", "decline", "require3DS", "hold"},
           Goto(c, next), next = "limits" => cards[call[c].request.card] # NoCard
    PROVE  CardsInv'
<1>1. Knows(callStep[c], call[c])
  BY DEF CardsInv, CallsKnow
<1>2. Knows(next, call[c]) /\ OwnRow(next, call[c]) /\ next \notin Fresh /\ next \in Statement /\ callStep[c] \notin Ending
  BY <1>1 DEF Knows, OwnRow, Deciding, OnRow, Completing, Resolving, Returning, Fresh, Ending, Statement
<1> QED
  BY <1>2, GotoKeeps

\* Nothing is ended by a call that returns from elsewhere.
LEMMA ReturnsQuietly ==
    ASSUME CardsInv, UNCHANGED <<vars, cards, auths, lost>>, NEW c \in Caller, Return(c), callStep[c] \notin Ending
    PROVE  CardsInv'
  BY ReturnKeeps DEF CardsInv, CardsTypeOK

\* Authorize finds the card: without a row the call ends, otherwise it goes on or declines.
LEMMA ReadCardKeeps ==
    ASSUME CardsInv, NEW c \in Caller, ReadCard(c)
    PROVE  CardsInv'
<1>1. UNCHANGED <<vars, cards, auths, lost>> /\ callStep[c] = "card" /\ callStep[c] \notin Ending
  BY DEF ReadCard, Ending
<1>2. CASE cards[call[c].request.card] = NoCard
  BY <1>1, <1>2, ReturnsQuietly DEF ReadCard
<1>3. CASE cards[call[c].request.card] # NoCard
  <2>1. PICK next \in {"limits", "decline"} : Goto(c, next)
    BY <1>3 DEF ReadCard
  <2> QED
    BY <1>1, <1>3, <2>1, DecisionGoesOn
<1> QED
  BY <1>2, <1>3

\* The limits the call will decide by are those of a card that exists.
LEMMA ReadLimitsKeeps ==
    ASSUME CardsInv, NEW c \in Caller, ReadLimits(c)
    PROVE  CardsInv'
<1>1. UNCHANGED <<vars, cards, auths, lost>> /\ callStep[c] = "limits" /\ callStep[c] \notin Ending
  BY DEF ReadLimits, Ending
<1>2. CASE Goto(c, "decline")
  BY <1>1, <1>2, DecisionGoesOn
<1>3. CASE /\ callStep' = [callStep EXCEPT ![c] = "decide"]
           /\ call' = [call EXCEPT ![c].limits = cards[call[c].request.card].limits]
  <2>1. Knows("limits", call[c]) /\ call[c] \in Work /\ cards[call[c].request.card] # NoCard /\ lost \subseteq AuthKey
    BY <1>1 DEF CardsInv, CallsKnow, Knows, CardsTypeOK
  <2>2. call[c].request.card \in Card
    BY <2>1, PurchaseAssumption DEF Knows, Deciding
  <2>3. PICK l : l = cards[call[c].request.card].limits /\ l \in Limits
    BY <2>1, <2>2 DEF CardsInv, CardsTypeOK
  <2>4. PICK w : w = Within(call[c], l)
    OBVIOUS
  <2>5. w \in Work /\ w.key = call[c].key /\ w.request = call[c].request /\ w.hold = call[c].hold
    <3>1. \A m \in Limits : LET v == Within(call[c], m)
                            IN  v \in Work /\ v.key = call[c].key /\ v.request = call[c].request /\ v.hold = call[c].hold
      BY <2>1, WorkIs
    <3> QED
      BY <2>3, <2>4, <3>1
  <2>6. call' = [call EXCEPT ![c] = w]
    BY <1>3, <2>3, <2>4, Zenon DEF Within
  <2>7. Knows("decide", w) /\ OwnRow("decide", w)
    BY <2>1, <2>5 DEF Knows, OwnRow, Deciding, OnRow, Completing, Resolving, Returning, Fresh
  <2>8. w.hold = "none"
    BY <2>1, <2>5 DEF Knows, Resolving, Fresh
  <2> QED
    BY <1>1, <1>3, <2>1, <2>5, <2>6, <2>7, <2>8, QuietMoves DEF Statement, Fresh
<1> QED
  BY <1>2, <1>3 DEF ReadLimits

\* Today's sum is weighed: nothing but the next statement depends on it.
LEMMA DecideKeeps ==
    ASSUME CardsInv, NEW c \in Caller, Decide(c)
    PROVE  CardsInv'
<1>1. UNCHANGED <<vars, cards, auths, lost>> /\ callStep[c] = "decide"
  BY DEF Decide
<1>2. PICK next \in {"decline", "require3DS", "hold"} : Goto(c, next)
  BY Zenon DEF Decide
<1> QED
  BY <1>1, <1>2, DecisionGoesOn

\* The one-time code is checked, or the challenge has no columns to scan yet.
LEMMA VerifyCodeKeeps ==
    ASSUME CardsInv, NEW c \in Caller, VerifyCode(c)
    PROVE  CardsInv'
<1>1. UNCHANGED <<vars, cards, auths, lost>> /\ callStep[c] = "verify" /\ callStep[c] \notin Ending
  BY DEF VerifyCode, Ending
<1>2. Knows("verify", call[c])
  BY <1>1 DEF CardsInv, CallsKnow
<1>3. ASSUME NEW next \in {"hold3DS", "decline3DS"}, Goto(c, next) PROVE CardsInv'
  <2>1. Knows(next, call[c]) /\ OwnRow(next, call[c]) /\ next \notin Fresh /\ next \in Statement
    BY <1>2 DEF Knows, OwnRow, Deciding, OnRow, Completing, Resolving, Returning, Fresh, Statement
  <2> QED
    BY <1>1, <1>3, <2>1, GotoKeeps
<1> QED
  BY <1>1, <1>3, ReturnsQuietly DEF VerifyCode
-----------------------------------------------------------------------------
(***************************************************************************)
(* The statements that call the ledger.                                    *)
(***************************************************************************)

\* A hold that does not exist yet is nobody's.
LEMMA NewHold ==
    ASSUME CardsInv, NEW h \in HoldId, holds[h] = NoHold
    PROVE  /\ \A k \in AuthKey : auths[k] # NoAuth => auths[k].hold # h
           /\ \A d \in Caller : call[d].hold # h
<1>1. CallsKnow /\ \A k \in AuthKey : RowReserves(k)
  BY DEF CardsInv
<1>2. \A k \in AuthKey : auths[k] # NoAuth => auths[k].hold # h
  BY <1>1, NullAssumption DEF RowReserves, ReservesFor, Reserves
<1>3. ASSUME NEW d \in Caller PROVE call[d].hold # h
  <2>1. Knows(callStep[d], call[d])
    BY <1>1 DEF CallsKnow
  <2> QED
    BY <2>1, NullAssumption DEF Knows, Fresh, ReservesFor, Reserves
<1> QED
  BY <1>2, <1>3

\* The hold a call has placed is no other call's.
LEMMA FreshDiffers ==
    ASSUME CardsInv, NEW c \in Caller, NEW d \in Caller \ {c}, callStep[d] \in Fresh
    PROVE  call[c].hold # call[d].hold
  BY DEF CardsInv, HoldsAreOwn, OwnHold

\* What a call knows while the ledger moves on.
LEMMA KnowsNow ==
    ASSUME CardsInv, NEW c \in Caller
    PROVE  /\ Knows(callStep[c], call[c]) /\ OwnRow(callStep[c], call[c]) /\ call[c] \in Work
           /\ TypeOK /\ ReversedExactlyOnce /\ CardsTypeOK /\ lost \subseteq AuthKey
  BY DEF CardsInv, CallsKnow, HoldsAreOwn, CardsTypeOK

\* A hold is placed: no row and no other call has it, and it reserves what the call's
\* row will say; or there is no balance for it and the call goes on to decline.
LEMMA ReserveKeeps ==
    ASSUME CardsInv, NEW c \in Caller, NEW card \in Card, NEW amount \in Amount,
           NEW held \in Fresh, NEW short \in Statement \ Fresh,
           Reserve(c, card, amount, held, short), callStep[c] \notin Ending,
           Knows(short, call[c]), OwnRow(short, call[c]),
           \A w \in Work : w.key = call[c].key /\ w.request = call[c].request
                             /\ Reserves(w.hold, AccountOf[card], amount)' => Knows(held, w)'
    PROVE  CardsInv'
<1>1. UNCHANGED <<cards, auths, lost>>
  BY DEF Reserve
<1>2. ASSUME NEW h \in HoldId, PlaceHold(h, AccountOf[card], amount),
             callStep' = [callStep EXCEPT ![c] = held], call' = [call EXCEPT ![c].hold = h]
      PROVE  CardsInv'
  <2>1. call[c] \in Work /\ TypeOK /\ ReversedExactlyOnce /\ lost \subseteq AuthKey
    BY KnowsNow
  <2>2. AccountOf[card] \in Account
    BY CardAssumption
  <2>3. TypeOK' /\ ReversedExactlyOnce' /\ LedgerGrows
    <3>1. Next
      BY <1>2, <2>2 DEF Next
    <3> QED
      BY <2>1, <3>1, LedgerStep
  <2>4. /\ holds[h] = NoHold /\ UNCHANGED txns
        /\ holds'[h] = [status |-> "active", account |-> AccountOf[card], amount |-> amount]
        /\ \A g \in HoldId \ {h} : holds'[g] = holds[g]
    BY <1>2, <2>1 DEF PlaceHold, TypeOK
  <2>5. PICK w : w = Holding(call[c], h)
    OBVIOUS
  <2>6. w \in Work /\ w.key = call[c].key /\ w.request = call[c].request /\ w.hold = h
    <3>1. \A g \in HoldId : LET v == Holding(call[c], g)
                            IN  v \in Work /\ v.key = call[c].key /\ v.request = call[c].request /\ v.hold = g
      BY <2>1, WorkIs
    <3> QED
      BY <2>5, <3>1
  <2>7. call' = [call EXCEPT ![c] = w]
    BY <1>2, <2>5, Zenon DEF Holding
  <2>8. Knows(held, w)'
    <3>1. Reserves(w.hold, AccountOf[card], amount)'
      BY <2>4, <2>6 DEF Reserves, NoHold
    <3> QED
      BY <2>6, <3>1
  <2>9. /\ \A k \in AuthKey : auths[k] # NoAuth => auths[k].hold # w.hold
        /\ \A d \in Caller : call[d].hold # w.hold
    BY <2>4, <2>6, NewHold
  <2>10. OwnRow(held, w)
    BY DEF OwnRow, Fresh, Resolving
  <2>11. /\ \A g \in HoldId : holds[g].status = "active" => holds'[g].status = "active"
         /\ holds'[w.hold].status = "active"
         /\ \A k \in AuthKey : Unused(SettleKey[k]) => Unused(SettleKey[k])'
    BY <2>4, <2>6 DEF Unused, NoHold
  <2>12. held \in Statement /\ lost \subseteq lost' /\ lost' \subseteq AuthKey
    BY <1>1, <2>1 DEF Fresh, Statement
  <2>13. held \in Fresh =>
           /\ holds'[w.hold].status = "active"
           /\ \A k \in AuthKey : auths[k] # NoAuth => auths[k].hold # w.hold
           /\ \A d \in Caller \ {c} : call[d].hold # w.hold
    BY <2>9, <2>11
  <2>14. \A d \in Caller \ {c} : callStep[d] \in Fresh => call[d].hold # w.hold
    BY <2>9
  <2>15. callStep' = [callStep EXCEPT ![c] = held]
    BY <1>2
  <2>16. w \in Work
    BY <2>6
  <2> QED
    BY <1>1, <2>3, <2>16, <2>7, <2>8, <2>10, <2>11, <2>12, <2>13, <2>14, <2>15, CallMoves
<1>3. CASE Goto(c, short) /\ UNCHANGED vars
  BY <1>1, <1>3, GotoKeeps
<1> QED
  BY <1>2, <1>3 DEF Reserve

\* Authorize's hold reserves the purchase on the card's account.
LEMMA PlaceAuthHoldKeeps ==
    ASSUME CardsInv, NEW c \in Caller, PlaceAuthHold(c)
    PROVE  CardsInv'
<1>1. callStep[c] = "hold" /\ Knows("hold", call[c])
  BY KnowsNow DEF PlaceAuthHold
<1>2. PICK p \in Purchase : p = call[c].request /\ call[c].key = p.key /\ p.card \in Card /\ p.amount \in Amount
  BY <1>1, PurchaseAssumption DEF Knows, Deciding
<1>3. Knows("decline", call[c]) /\ OwnRow("decline", call[c]) /\ callStep[c] \notin Ending
  BY <1>1 DEF Knows, OwnRow, Deciding, OnRow, Completing, Resolving, Returning, Fresh, Ending
<1>4. ASSUME NEW w \in Work, w.key = call[c].key, w.request = call[c].request,
             Reserves(w.hold, AccountOf[p.card], p.amount)'
      PROVE  Knows("approve", w)'
  <2>1. w.request = p /\ w.key = p.key
    BY <1>2, <1>4
  <2>2. Reserves(w.hold, AccountOf[w.request.card], w.request.amount)'
    BY <1>4, <2>1 DEF Reserves
  <2> QED
    BY <2>1, <2>2 DEF Knows, Deciding, OnRow, Completing, Resolving, Returning, Fresh
<1>5. Reserve(c, p.card, p.amount, "approve", "decline")
  BY <1>2 DEF PlaceAuthHold
<1>6. "approve" \in Fresh /\ "decline" \in Statement \ Fresh
  BY DEF Fresh, Statement
<1> QED
  BY <1>2, <1>3, <1>4, <1>5, <1>6, ReserveKeeps

\* Complete3DS's hold reserves the row's amount, although the row may have changed its
\* status since: its card and amount have not.
LEMMA Place3DSHoldKeeps ==
    ASSUME CardsInv, NEW c \in Caller, Place3DSHold(c)
    PROVE  CardsInv'
<1>1. callStep[c] = "hold3DS" /\ Knows("hold3DS", call[c]) /\ UNCHANGED <<cards, auths>>
  BY KnowsNow DEF Place3DSHold, Reserve
<1>2. call[c].key \in AuthKey /\ auths[call[c].key] # NoAuth
  BY <1>1 DEF Knows, OnRow, Completing
<1>3. PICK row \in Auth : row = auths[call[c].key]
  BY <1>2 DEF CardsInv, CardsTypeOK
<1>4. row.card \in Card /\ row.amount \in Amount
  BY DEF Auth
<1>5. Knows("decline3DS", call[c]) /\ OwnRow("decline3DS", call[c]) /\ callStep[c] \notin Ending
  BY <1>1 DEF Knows, OwnRow, Deciding, OnRow, Completing, Resolving, Returning, Fresh, Ending
<1>6. ASSUME NEW w \in Work, w.key = call[c].key, w.request = call[c].request,
             Reserves(w.hold, AccountOf[row.card], row.amount)'
      PROVE  Knows("approve3DS", w)'
  <2>1. w.key \in AuthKey /\ auths'[w.key] # NoAuth /\ auths'[w.key] = row
    BY <1>1, <1>2, <1>3, <1>6
  <2>2. ReservesFor(w.hold, w.key)'
    BY <1>6, <2>1 DEF ReservesFor, Reserves
  <2> QED
    BY <2>1, <2>2 DEF Knows, Deciding, OnRow, Completing, Resolving, Returning, Fresh
<1>7. Reserve(c, row.card, row.amount, "approve3DS", "decline3DS")
  BY <1>3 DEF Place3DSHold
<1>8. "approve3DS" \in Fresh /\ "decline3DS" \in Statement \ Fresh
  BY DEF Fresh, Statement
<1> QED
  BY <1>4, <1>5, <1>6, <1>7, <1>8, ReserveKeeps
\* A call that resolves a row's hold holds the row's own.
LEMMA Resolves ==
    ASSUME CardsInv, NEW c \in Caller, callStep[c] \in Resolving
    PROVE  /\ call[c].key \in AuthKey /\ auths[call[c].key] # NoAuth /\ SettleKey[call[c].key] \in Key
           /\ call[c].hold \in HoldId /\ holds[call[c].hold] \in Hold
           /\ holds[call[c].hold].account = AccountOf[auths[call[c].key].card]
           /\ holds[call[c].hold].amount = auths[call[c].key].amount
           /\ \A step \in Resolving : OwnRow(step, call[c])
<1>1. Knows(callStep[c], call[c]) /\ OwnRow(callStep[c], call[c]) /\ TypeOK
  BY KnowsNow DEF CardsTypeOK
<1>2. call[c].key \in AuthKey /\ auths[call[c].key] # NoAuth /\ ReservesFor(call[c].hold, call[c].key)
  BY <1>1 DEF Knows, OnRow
<1>3. \A step \in Resolving : OwnRow(step, call[c])
  BY <1>1 DEF OwnRow
<1> QED
  BY <1>1, <1>2, <1>3, SettleKeyAssumption DEF ReservesFor, Reserves, TypeOK

\* After its hold has been resolved, a call ends the row's approval.
LEMMA ResolvedKnows ==
    ASSUME CardsInv, LedgerGrows, UNCHANGED <<cards, auths>>, NEW c \in Caller, callStep[c] \in Resolving,
           NEW w \in Work, w.key = call[c].key, w.hold = call[c].hold
    PROVE  /\ Knows("void", w)'
           /\ w.txn = SettleKey[w.key] /\ ~Unused(SettleKey[w.key])' => Knows("settle", w)'
           /\ \A step \in Ending : OwnRow(step, w)
<1>1. Knows(callStep[c], call[c]) /\ OwnRow(callStep[c], call[c])
  BY KnowsNow
<1>2. w.key \in AuthKey /\ auths[w.key] # NoAuth /\ ReservesFor(w.hold, w.key)
  BY <1>1 DEF Knows, OnRow
<1>3. ReservesFor(w.hold, w.key)'
  BY <1>2 DEF ReservesFor, Reserves, LedgerGrows
<1> QED
  BY <1>1, <1>2, <1>3 DEF Knows, OwnRow, Deciding, OnRow, Completing, Resolving, Returning, Fresh, Ending

\* Settle captures the hold it has read under the row's own key: what is posted is the
\* row's amount, and the hold was the row's or has been replaced in it since.
LEMMA CaptureKeeps ==
    ASSUME CardsInv, NEW c \in Caller, Capture(c)
    PROVE  CardsInv'
<1>0. PICK k, key, h : k = call[c].key /\ key = SettleKey[k] /\ h = call[c].hold
  OBVIOUS
<1>1. callStep[c] = "capture" /\ callStep[c] \in Resolving \ Ending /\ UNCHANGED <<cards, auths, lost>>
  BY DEF Capture, Resolving, Ending
<1>2. /\ k \in AuthKey /\ auths[k] # NoAuth /\ key \in Key /\ h \in HoldId
      /\ holds[h] \in Hold /\ holds[h].account = AccountOf[auths[k].card] /\ holds[h].amount = auths[k].amount
  BY <1>0, <1>1, Resolves
<1>3. TypeOK /\ ReversedExactlyOnce /\ call[c] \in Work /\ lost \subseteq AuthKey
  BY KnowsNow
<1>4. ASSUME callStep' = [callStep EXCEPT ![c] = "settle"], call' = [call EXCEPT ![c].txn = key],
             TypeOK', ReversedExactlyOnce', LedgerGrows, ~Unused(key)',
             \A g \in HoldId : holds[g].status = "active" => holds'[g].status = "active" \/ g = h,
             \A l \in AuthKey : Unused(SettleKey[l]) =>
               \/ Unused(SettleKey[l])'
               \/ /\ auths[l] # NoAuth
                  /\ txns'[SettleKey[l]].legs = DebitLegs(AccountOf[auths[l].card], auths[l].amount)
      PROVE  CardsInv'
  <2>1. PICK w : w = CapturedBy(call[c], key)
    OBVIOUS
  <2>2. w \in Work /\ w.key = k /\ w.hold = h /\ w.txn = key
    <3>1. \A t \in Key : LET v == CapturedBy(call[c], t)
                         IN  v \in Work /\ v.key = call[c].key /\ v.hold = call[c].hold /\ v.txn = t
      BY <1>3, WorkIs
    <3> QED
      BY <1>0, <1>2, <2>1, <3>1
  <2>3. call' = [call EXCEPT ![c] = w]
    BY <1>4, <2>1, Zenon DEF CapturedBy
  <2>4. Knows("settle", w)' /\ OwnRow("settle", w)
    <3>1. w.txn = SettleKey[w.key] /\ ~Unused(SettleKey[w.key])'
      BY <1>0, <1>4, <2>2 DEF Unused
    <3> QED
      BY <1>0, <1>1, <1>4, <2>2, <3>1, ResolvedKnows DEF Ending
  <2>5. \A d \in Caller \ {c} : callStep[d] \in Fresh => call[d].hold # w.hold
    BY <1>0, <2>2, FreshDiffers
  <2>6. /\ \A g \in HoldId : holds[g].status = "active" =>
               \/ holds'[g].status = "active"
               \/ callStep[c] \in Resolving /\ g = call[c].hold /\ "settle" \in Ending /\ w.key = call[c].key
        /\ "settle" \in Statement /\ "settle" \notin Fresh
    BY <1>0, <1>1, <1>4, <2>2 DEF Ending, Statement, Fresh
  <2> QED
    BY <1>1, <1>3, <1>4, <2>2, <2>3, <2>4, <2>5, <2>6, CallMoves
<1>5. ASSUME CaptureHold(h, key), callStep' = [callStep EXCEPT ![c] = "settle"], call' = [call EXCEPT ![c].txn = key]
      PROVE  CardsInv'
  <2>1. TypeOK' /\ ReversedExactlyOnce' /\ LedgerGrows
    <3>1. Next
      BY <1>2, <1>5 DEF Next
    <3> QED
      BY <1>3, <3>1, LedgerStep
  <2>2. /\ txns'[key].state = "posted" /\ \A l \in Key \ {key} : txns'[l] = txns[l]
        /\ txns'[key].legs = DebitLegs(holds[h].account, holds[h].amount)
        /\ holds' = [holds EXCEPT ![h].status = "captured"]
    BY <1>2, <1>3, <1>5, CaptureAdds
  <2>3. \A g \in HoldId \ {h} : holds'[g] = holds[g]
    BY <1>3, <2>2 DEF TypeOK
  <2>4. ~Unused(key)'
    BY <2>2 DEF Unused, NoTxn
  <2>5. ASSUME NEW l \in AuthKey, Unused(SettleKey[l])
        PROVE  \/ Unused(SettleKey[l])'
               \/ /\ auths[l] # NoAuth
                  /\ txns'[SettleKey[l]].legs = DebitLegs(AccountOf[auths[l].card], auths[l].amount)
    <3>1. CASE l = k
      BY <1>0, <1>2, <2>2, <3>1
    <3>2. CASE l # k
      <4>1. SettleKey[l] \in Key \ {key}
        BY <1>0, <1>2, <3>2, SettleKeyAssumption
      <4> QED
        BY <2>2, <2>5, <4>1 DEF Unused
    <3> QED
      BY <3>1, <3>2
  <2> QED
    BY <1>4, <1>5, <2>1, <2>3, <2>4, <2>5
<1>6. ASSUME Replayed(key, CaptureRequest(h)), UNCHANGED vars,
             callStep' = [callStep EXCEPT ![c] = "settle"], call' = [call EXCEPT ![c].txn = key]
      PROVE  CardsInv'
  <2>1. TypeOK' /\ ReversedExactlyOnce' /\ LedgerGrows /\ UNCHANGED <<txns, holds>>
    BY <1>3, <1>6, LedgerStep DEF vars
  <2>2. ~Unused(key)'
    BY <1>6, <2>1 DEF Replayed, Unused
  <2> QED
    BY <1>4, <1>6, <2>1, <2>2 DEF Unused
<1>7. CASE Return(c) /\ UNCHANGED vars
  BY <1>1, <1>7, ReturnsQuietly
<1> QED
  BY <1>0, <1>5, <1>6, <1>7 DEF Capture

\* Void releases the hold it has read and goes on to end the approval.
LEMMA ReleaseKeeps ==
    ASSUME CardsInv, NEW c \in Caller, Release(c)
    PROVE  CardsInv'
<1>1. callStep[c] = "release" /\ callStep[c] \in Resolving \ Ending /\ UNCHANGED <<cards, auths, lost>>
  BY DEF Release, Resolving, Ending
<1>2. PICK w : w = call[c]
  OBVIOUS
<1>3. TypeOK /\ ReversedExactlyOnce /\ w \in Work /\ lost \subseteq AuthKey /\ call \in [Caller -> Work]
  BY <1>2, KnowsNow DEF CardsTypeOK
<1>4. ASSUME ReleaseHold(w.hold), Goto(c, "void") PROVE CardsInv'
  <2>1. w.hold \in HoldId
    BY <1>1, <1>2, Resolves
  <2>2. TypeOK' /\ ReversedExactlyOnce' /\ LedgerGrows
    <3>1. Next
      BY <1>4, <2>1 DEF Next
    <3> QED
      BY <1>3, <3>1, LedgerStep
  <2>3. UNCHANGED txns /\ \A g \in HoldId \ {w.hold} : holds'[g] = holds[g]
    BY <1>3, <1>4 DEF ReleaseHold, ResolveHold, TypeOK
  <2>4. callStep' = [callStep EXCEPT ![c] = "void"] /\ call' = [call EXCEPT ![c] = w]
    BY <1>2, <1>3, <1>4 DEF Goto
  <2>5. Knows("void", w)' /\ OwnRow("void", w)
    BY <1>1, <1>2, <1>3, <2>2, ResolvedKnows DEF Ending
  <2>6. \A d \in Caller \ {c} : callStep[d] \in Fresh => call[d].hold # w.hold
    BY <1>2, FreshDiffers
  <2>7. /\ \A g \in HoldId : holds[g].status = "active" =>
               \/ holds'[g].status = "active"
               \/ callStep[c] \in Resolving /\ g = call[c].hold /\ "void" \in Ending /\ w.key = call[c].key
        /\ \A k \in AuthKey : Unused(SettleKey[k]) => Unused(SettleKey[k])'
        /\ "void" \in Statement /\ "void" \notin Fresh
    BY <1>1, <1>2, <2>3 DEF Ending, Statement, Fresh, Unused
  <2> QED
    BY <1>1, <1>3, <2>2, <2>4, <2>5, <2>6, <2>7, CallMoves
<1>5. CASE Return(c) /\ UNCHANGED vars
  BY <1>1, <1>5, ReturnsQuietly
<1> QED
  BY <1>2, <1>4, <1>5 DEF Release

\* A transaction that a reversal answers for is reversed.
LEMMA ReplayedReversal ==
    ASSUME ReversedExactlyOnce, NEW txn \in Key, NEW key \in Key, Replayed(key, ReversalRequest(txn))
    PROVE  txns[txn].state = "reversed"
<1>1. key \in Reversals(txn)
  BY DEF Reversals, Replayed, Unused
<1> QED
  BY <1>1 DEF ReversedExactlyOnce

\* Chargeback reverses the settlement, or finds it reversed under the same key; keys of
\* chargebacks are never those of settlements.
LEMMA ReverseKeeps ==
    ASSUME CardsInv, NEW c \in Caller, Reverse(c)
    PROVE  CardsInv'
<1>1. callStep[c] = "reverse" /\ callStep[c] \notin Ending /\ UNCHANGED <<cards, auths, lost>> /\ Knows("reverse", call[c])
  BY KnowsNow DEF Reverse, Ending
<1>2. PICK w, txn, key : w = call[c] /\ txn = w.txn /\ key = w.under
  OBVIOUS
<1>3. TypeOK /\ ReversedExactlyOnce /\ w \in Work /\ lost \subseteq AuthKey /\ call \in [Caller -> Work]
  BY <1>2, KnowsNow DEF CardsTypeOK
<1>4. /\ w.key \in AuthKey /\ auths[w.key] # NoAuth /\ txn = SettleKey[w.key] /\ ~Unused(txn) /\ key \in ChargebackKey
      /\ txn \in Key /\ key \in Key /\ w.hold = "none"
  BY <1>1, <1>2, SettleKeyAssumption DEF Knows, OnRow, Returning, Resolving, Fresh
<1>5. ASSUME Goto(c, "chargeback"), TypeOK', ReversedExactlyOnce', LedgerGrows,
             txns'[txn].state = "reversed", ~Unused(txn)', UNCHANGED holds,
             \A k \in AuthKey : Unused(SettleKey[k]) => Unused(SettleKey[k])'
      PROVE  CardsInv'
  <2>1. callStep' = [callStep EXCEPT ![c] = "chargeback"] /\ call' = [call EXCEPT ![c] = w]
    BY <1>2, <1>3, <1>5 DEF Goto
  <2>2. ~Unused(SettleKey[w.key])'
    BY <1>4, <1>5 DEF Unused
  <2>3. Knows("chargeback", w)' /\ OwnRow("chargeback", w)
    BY <1>1, <1>2, <1>4, <1>5, <2>2 DEF Knows, OwnRow, Deciding, OnRow, Completing, Resolving, Returning, Fresh
  <2>4. \A d \in Caller \ {c} : callStep[d] \in Fresh => call[d].hold # w.hold
    BY <1>2, FreshDiffers
  <2>5. "chargeback" \in Statement /\ "chargeback" \notin Fresh
    BY DEF Statement, Fresh
  <2> QED
    BY <1>1, <1>3, <1>5, <2>1, <2>3, <2>4, <2>5, CallMoves
<1>6. CASE ReverseTransaction(txn, key) /\ Goto(c, "chargeback")
  <2>1. TypeOK' /\ ReversedExactlyOnce' /\ LedgerGrows
    <3>1. Next
      BY <1>4, <1>6 DEF Next
    <3> QED
      BY <1>3, <3>1, LedgerStep
  <2>2. /\ UNCHANGED holds /\ txns[txn] \in Txn /\ txns'[txn] = [txns[txn] EXCEPT !.state = "reversed"]
        /\ \A l \in Key \ {key, txn} : txns'[l] = txns[l]
    BY <1>3, <1>4, <1>6, ReversalAdds DEF TypeOK, Unused
  <2>3. txns'[txn].state = "reversed" /\ ~Unused(txn)'
    BY <2>2 DEF Txn, Unused, NoTxn
  <2>4. ASSUME NEW k \in AuthKey, Unused(SettleKey[k]) PROVE Unused(SettleKey[k])'
    <3>1. SettleKey[k] \in Key \ {key, txn}
      BY <1>4, <2>4, SettleKeyAssumption
    <3> QED
      BY <2>2, <2>4, <3>1 DEF Unused
  <2> QED
    BY <1>5, <1>6, <2>1, <2>2, <2>3, <2>4
<1>7. CASE Replayed(key, ReversalRequest(txn)) /\ UNCHANGED vars /\ Goto(c, "chargeback")
  <2>1. TypeOK' /\ ReversedExactlyOnce' /\ LedgerGrows /\ UNCHANGED <<txns, holds>>
    BY <1>3, <1>7, LedgerStep DEF vars
  <2>2. txns[txn].state = "reversed"
    BY <1>3, <1>4, <1>7, ReplayedReversal
  <2>3. ~Unused(txn)' /\ \A k \in AuthKey : Unused(SettleKey[k]) => Unused(SettleKey[k])'
    BY <1>4, <2>1 DEF Unused
  <2> QED
    BY <1>5, <1>7, <2>1, <2>2, <2>3
<1>8. CASE Return(c) /\ UNCHANGED vars
  BY <1>1, <1>8, ReturnsQuietly
<1> QED
  BY <1>2, <1>6, <1>7, <1>8 DEF Reverse
-----------------------------------------------------------------------------
(***************************************************************************)
(* The statements that write a row.                                        *)
(***************************************************************************)
Marked(row, status) == [row EXCEPT !.status = status]
MarkedHeld(row, status, hold) == [row EXCEPT !.status = status, !.hold = hold]
MarkedPaid(row, status, txn) == [row EXCEPT !.status = status, !.txn = txn]
Challenged(row) == [row EXCEPT !.challenge = TRUE]
NewRow(status, p, hold) ==
    [status |-> status, card |-> p.card, amount |-> p.amount, today |-> TRUE,
     challenge |-> FALSE, hold |-> hold, txn |-> "none"]

\* An UPDATE changes the columns it names.
LEMMA RowIs ==
    ASSUME NEW row \in Auth
    PROVE  /\ \A s \in AuthStatus :
                LET r == Marked(row, s)
                IN  r \in Auth /\ r.status = s /\ r.card = row.card /\ r.amount = row.amount /\ r.hold = row.hold
                      /\ r.txn = row.txn
           /\ \A s \in AuthStatus, h \in HoldId :
                LET r == MarkedHeld(row, s, h)
                IN  r \in Auth /\ r.status = s /\ r.card = row.card /\ r.amount = row.amount /\ r.hold = h
           /\ \A s \in AuthStatus, t \in Key :
                LET r == MarkedPaid(row, s, t)
                IN  r \in Auth /\ r.status = s /\ r.card = row.card /\ r.amount = row.amount /\ r.hold = row.hold
                      /\ r.txn = t
           /\ LET r == Challenged(row)
              IN  r \in Auth /\ r.status = row.status /\ r.card = row.card /\ r.amount = row.amount /\ r.hold = row.hold
                    /\ r.txn = row.txn
<1>1. \A s \in AuthStatus :
        LET r == Marked(row, s)
        IN  r \in Auth /\ r.status = s /\ r.card = row.card /\ r.amount = row.amount /\ r.hold = row.hold
              /\ r.txn = row.txn
  BY DEF Marked, Auth
<1>2. \A s \in AuthStatus, h \in HoldId :
        LET r == MarkedHeld(row, s, h)
        IN  r \in Auth /\ r.status = s /\ r.card = row.card /\ r.amount = row.amount /\ r.hold = h
  BY DEF MarkedHeld, Auth
<1>3. \A s \in AuthStatus, t \in Key :
        LET r == MarkedPaid(row, s, t)
        IN  r \in Auth /\ r.status = s /\ r.card = row.card /\ r.amount = row.amount /\ r.hold = row.hold
              /\ r.txn = t
  BY DEF MarkedPaid, Auth
<1>4. LET r == Challenged(row)
      IN  r \in Auth /\ r.status = row.status /\ r.card = row.card /\ r.amount = row.amount /\ r.hold = row.hold
            /\ r.txn = row.txn
  BY DEF Challenged, Auth
<1> QED
  BY <1>1, <1>2, <1>3, <1>4, Zenon

\* What a caller that idles will rely on.
LEMMA IdleKnowsThen == Knows("idle", NoCall)'
  BY NoCallIs DEF Knows, Deciding, OnRow, Completing, Resolving, Returning, Fresh

\* The row a call writes, by its key, when it has one.
LEMMA RowUpdated ==
    ASSUME CardsInv, NEW c \in Caller, NEW k \in AuthKey, k = call[c].key, auths[k] # NoAuth,
           NEW row \in Auth, auths' = [auths EXCEPT ![k] = row], Return(c), UNCHANGED <<vars, cards, lost>>,
           row.card = auths[k].card, row.amount = auths[k].amount,
           row.hold # auths[k].hold => callStep[c] \in Fresh /\ row.hold = call[c].hold /\ ReservesFor(row.hold, k),
           row.status = "approved" => \/ callStep[c] \in Fresh /\ row.hold = call[c].hold
                                      \/ auths[k].status = "approved" /\ row.hold = auths[k].hold,
           callStep[c] \in Ending => row.status # "approved",
           row.status \in {"settled", "charged_back"} => row.txn = SettleKey[k] /\ ~Unused(SettleKey[k]),
           row.status = "charged_back" => txns[SettleKey[k]].state = "reversed"
    PROVE  CardsInv'
<1>1. Settlement(k) /\ CardsTypeOK
  BY DEF CardsInv
<1>2. auths'[k] = row /\ row # NoAuth /\ UNCHANGED <<txns, holds>>
  BY <1>1 DEF CardsTypeOK, vars, Auth, AuthStatus, NoAuth
<1>3. Settlement(k)'
  BY <1>1, <1>2 DEF Settlement, Unused
<1>4. row.hold # "none" => \/ auths[k] # NoAuth /\ row.hold = auths[k].hold
                           \/ callStep[c] \in Fresh /\ row.hold = call[c].hold /\ ReservesFor(row.hold, k)'
  BY <1>2 DEF ReservesFor, Reserves
<1>5. callStep' = [callStep EXCEPT ![c] = "idle"] /\ call' = [call EXCEPT ![c] = NoCall] /\ NoCall \in Work
  BY NoCallIs DEF Return
<1>6. Knows("idle", NoCall)'
  BY IdleKnowsThen
<1> QED
  BY <1>3, <1>4, <1>5, <1>6, RowChanges

\* What a call that comes to write its row knows of it.
LEMMA RowKnown ==
    ASSUME CardsInv, NEW c \in Caller, callStep[c] \in OnRow
    PROVE  \E k \in AuthKey : \E row \in Auth :
             /\ k = call[c].key /\ row = auths[k] /\ auths[k] # NoAuth /\ SettleKey[k] \in Key
             /\ Settlement(k) /\ RowReserves(k) /\ Knows(callStep[c], call[c])
  BY SettleKeyAssumption DEF CardsInv, CallsKnow, Knows, CardsTypeOK

\* The challenge's columns say nothing about money.
LEMMA IssueChallengeKeeps ==
    ASSUME CardsInv, NEW c \in Caller, IssueChallenge(c)
    PROVE  CardsInv'
<1>1. callStep[c] = "challenge" /\ callStep[c] \in OnRow \ Ending /\ Return(c) /\ UNCHANGED <<vars, cards, lost>>
  BY DEF IssueChallenge, OnRow, Ending
<1>2. PICK k \in AuthKey : \E row \in Auth :
        /\ k = call[c].key /\ row = auths[k] /\ auths[k] # NoAuth /\ Settlement(k)
  BY <1>1, RowKnown
<1>3. PICK row \in Auth : row = auths[k]
  BY <1>2
<1>4. PICK r : r = Challenged(row)
  OBVIOUS
<1>5. r \in Auth /\ r.status = row.status /\ r.card = row.card /\ r.amount = row.amount /\ r.hold = row.hold /\ r.txn = row.txn
  BY <1>4, RowIs
<1>6. auths' = [auths EXCEPT ![k] = r]
  BY <1>2, <1>3, <1>4, Zenon DEF IssueChallenge, Challenged
<1> QED
  BY <1>1, <1>2, <1>3, <1>5, <1>6, RowUpdated DEF Settlement

\* Complete3DS's UPDATE puts its own fresh hold into the row, whatever the status, or declines.
LEMMA Mark3DSKeeps ==
    ASSUME CardsInv, NEW c \in Caller, Mark3DS(c)
    PROVE  CardsInv'
<1>1. callStep[c] \in {"approve3DS", "decline3DS"} /\ callStep[c] \in OnRow \ Ending /\ Return(c) /\ UNCHANGED <<vars, cards, lost>>
  BY DEF Mark3DS, UpdateAuth, OnRow, Completing, Ending
<1>2. PICK k \in AuthKey : \E row \in Auth :
        /\ k = call[c].key /\ row = auths[k] /\ auths[k] # NoAuth /\ Settlement(k) /\ Knows(callStep[c], call[c])
  BY <1>1, RowKnown
<1>3. PICK row \in Auth : row = auths[k]
  BY <1>2
<1>4. CASE callStep[c] = "approve3DS" /\ UpdateAuth(c, [auths[call[c].key] EXCEPT !.status = "approved", !.hold = call[c].hold])
  <2>1. PICK h : h = call[c].hold
    OBVIOUS
  <2>2. ReservesFor(h, k) /\ h \in HoldId
    BY <1>2, <1>4, <2>1 DEF Knows, ReservesFor, Reserves
  <2>3. PICK r : r = MarkedHeld(row, "approved", h)
    OBVIOUS
  <2>4. r \in Auth /\ r.status = "approved" /\ r.card = row.card /\ r.amount = row.amount /\ r.hold = h
    <3>1. \A s \in AuthStatus, g \in HoldId :
            LET v == MarkedHeld(row, s, g)
            IN  v \in Auth /\ v.status = s /\ v.card = row.card /\ v.amount = row.amount /\ v.hold = g
      BY RowIs
    <3> QED
      BY <2>2, <2>3, <3>1 DEF AuthStatus
  <2>5. auths' = [auths EXCEPT ![k] = r]
    BY <1>2, <1>3, <1>4, <2>1, <2>3, Zenon DEF UpdateAuth, MarkedHeld
  <2>6. callStep[c] \in Fresh
    BY <1>4 DEF Fresh
  <2> QED
    BY <1>1, <1>2, <1>3, <2>1, <2>2, <2>4, <2>5, <2>6, RowUpdated
<1>5. CASE UpdateAuth(c, [auths[call[c].key] EXCEPT !.status = "declined"])
  <2>1. PICK r : r = Marked(row, "declined")
    OBVIOUS
  <2>2. r \in Auth /\ r.status = "declined" /\ r.card = row.card /\ r.amount = row.amount /\ r.hold = row.hold
    BY <2>1, RowIs DEF AuthStatus
  <2>3. auths' = [auths EXCEPT ![k] = r]
    BY <1>2, <1>3, <1>5, <2>1, Zenon DEF UpdateAuth, Marked
  <2> QED
    BY <1>1, <1>2, <1>3, <2>2, <2>3, RowUpdated
<1> QED
  BY <1>4, <1>5 DEF Mark3DS

\* Settle's UPDATE names the transaction under the row's own key, which is posted by then.
LEMMA MarkSettledKeeps ==
    ASSUME CardsInv, NEW c \in Caller, MarkSettled(c)
    PROVE  CardsInv'
<1>1. callStep[c] = "settle" /\ callStep[c] \in OnRow /\ Return(c) /\ UNCHANGED <<vars, cards, lost>>
  BY DEF MarkSettled, UpdateAuth, OnRow, Resolving
<1>2. PICK k \in AuthKey : \E row \in Auth :
        /\ k = call[c].key /\ row = auths[k] /\ auths[k] # NoAuth /\ SettleKey[k] \in Key /\ Knows(callStep[c], call[c])
  BY <1>1, RowKnown
<1>3. PICK row \in Auth : row = auths[k]
  BY <1>2
<1>4. call[c].txn = SettleKey[k] /\ ~Unused(SettleKey[k])
  BY <1>1, <1>2 DEF Knows
<1>5. PICK r : r = MarkedPaid(row, "settled", SettleKey[k])
  OBVIOUS
<1>6. r \in Auth /\ r.status = "settled" /\ r.card = row.card /\ r.amount = row.amount /\ r.hold = row.hold /\ r.txn = SettleKey[k]
  <2>1. \A s \in AuthStatus, t \in Key :
          LET v == MarkedPaid(row, s, t)
          IN  v \in Auth /\ v.status = s /\ v.card = row.card /\ v.amount = row.amount /\ v.hold = row.hold /\ v.txn = t
    BY RowIs
  <2> QED
    BY <1>2, <1>5, <2>1 DEF AuthStatus
<1>7. auths' = [auths EXCEPT ![k] = r]
  BY <1>2, <1>3, <1>4, <1>5, Zenon DEF MarkSettled, UpdateAuth, MarkedPaid
<1> QED
  BY <1>1, <1>2, <1>3, <1>4, <1>6, <1>7, RowUpdated

\* Void's UPDATE ends the approval.
LEMMA MarkVoidedKeeps ==
    ASSUME CardsInv, NEW c \in Caller, MarkVoided(c)
    PROVE  CardsInv'
<1>1. callStep[c] = "void" /\ callStep[c] \in OnRow /\ Return(c) /\ UNCHANGED <<vars, cards, lost>>
  BY DEF MarkVoided, UpdateAuth, OnRow, Resolving
<1>2. PICK k \in AuthKey : \E row \in Auth :
        /\ k = call[c].key /\ row = auths[k] /\ auths[k] # NoAuth
  BY <1>1, RowKnown
<1>3. PICK row \in Auth : row = auths[k]
  BY <1>2
<1>4. PICK r : r = Marked(row, "voided")
  OBVIOUS
<1>5. r \in Auth /\ r.status = "voided" /\ r.card = row.card /\ r.amount = row.amount /\ r.hold = row.hold
  BY <1>4, RowIs DEF AuthStatus
<1>6. auths' = [auths EXCEPT ![k] = r]
  BY <1>2, <1>3, <1>4, Zenon DEF MarkVoided, UpdateAuth, Marked
<1> QED
  BY <1>1, <1>2, <1>3, <1>5, <1>6, RowUpdated

\* Chargeback's UPDATE marks a settled row, whose settlement is reversed by then.
LEMMA MarkChargedBackKeeps ==
    ASSUME CardsInv, NEW c \in Caller, MarkChargedBack(c)
    PROVE  CardsInv'
<1>1. callStep[c] = "chargeback" /\ callStep[c] \in OnRow \ Ending /\ Return(c) /\ UNCHANGED <<vars, cards, lost>>
  BY DEF MarkChargedBack, UpdateAuth, OnRow, Returning, Ending
<1>2. PICK k \in AuthKey : \E row \in Auth :
        /\ k = call[c].key /\ row = auths[k] /\ auths[k] # NoAuth /\ Settlement(k) /\ Knows(callStep[c], call[c])
  BY <1>1, RowKnown
<1>3. PICK row \in Auth : row = auths[k]
  BY <1>2
<1>4. /\ call[c].txn = SettleKey[k] /\ ~Unused(SettleKey[k]) /\ txns[SettleKey[k]].state = "reversed"
      /\ row.status = "settled" => row.txn = SettleKey[k]
  BY <1>1, <1>2, <1>3 DEF Knows, Returning, Settlement
<1>5. CASE row.status = "settled"
  <2>1. PICK r : r = Marked(row, "charged_back")
    OBVIOUS
  <2>2. r \in Auth /\ r.status = "charged_back" /\ r.card = row.card /\ r.amount = row.amount /\ r.hold = row.hold /\ r.txn = row.txn
    BY <2>1, RowIs DEF AuthStatus
  <2>3. auths' = [auths EXCEPT ![k] = r]
    BY <1>2, <1>3, <1>5, <2>1, Zenon DEF MarkChargedBack, UpdateAuth, Marked
  <2> QED
    BY <1>1, <1>2, <1>3, <1>4, <1>5, <2>2, <2>3, RowUpdated
<1>6. CASE row.status # "settled"
  <2>1. auths' = [auths EXCEPT ![k] = row]
    BY <1>2, <1>3, <1>6 DEF MarkChargedBack, UpdateAuth
  <2> QED
    BY <1>1, <1>2, <1>3, <2>1, RowUpdated DEF Settlement
<1> QED
  BY <1>5, <1>6
\* The INSERT at the end of Authorize.
LEMMA InsertKeeps ==
    ASSUME CardsInv, NEW c \in Caller, UNCHANGED <<vars, cards, lost>>,
           callStep[c] \in {"decline", "approve", "require3DS"},
           NEW status \in {"declined", "approved", "requires_3ds"}, NEW next \in {"idle", "challenge"},
           InsertAuth(c, status, next),
           status = "approved" => callStep[c] = "approve", next = "challenge" => callStep[c] = "require3DS"
    PROVE  CardsInv'
<1>1. callStep[c] \in Deciding \ Ending /\ Knows(callStep[c], call[c]) /\ call[c] \in Work /\ CardsTypeOK /\ TypeOK
  BY KnowsNow DEF Deciding, Ending
<1>2. PICK p \in Purchase : p = call[c].request /\ call[c].key = p.key /\ p.key \in AuthKey /\ p.card \in Card /\ p.amount \in Amount
  BY <1>1, PurchaseAssumption DEF Knows
<1>3. PICK h : h = call[c].hold /\ h \in HoldId \cup {"none"}
  BY <1>1 DEF Work
<1>4. /\ callStep[c] = "approve" => Reserves(h, AccountOf[p.card], p.amount)
      /\ callStep[c] # "approve" => h = "none"
  BY <1>1, <1>2, <1>3 DEF Knows, Fresh, Resolving
<1>5. CASE auths[p.key] # NoAuth /\ Return(c) /\ UNCHANGED auths
  BY <1>1, <1>5, ReturnsQuietly
<1>6. CASE /\ auths[p.key] = NoAuth
           /\ auths' = [auths EXCEPT ![p.key] = NewRow(status, p, h)]
           /\ IF next = "idle" THEN Return(c) ELSE Goto(c, next)
  <2>1. PICK k, row : k = p.key /\ row = NewRow(status, p, h)
    OBVIOUS
  <2>2. /\ k \in AuthKey /\ row \in Auth /\ row.status = status /\ row.hold = h /\ row.card = p.card /\ row.amount = p.amount
    BY <1>2, <1>3, <2>1 DEF NewRow, Auth, AuthStatus
  <2>3. auths' = [auths EXCEPT ![k] = row] /\ auths[k] = NoAuth /\ k = call[c].key
    BY <1>2, <1>6, <2>1
  <2>4. auths'[k] = row /\ row # NoAuth /\ UNCHANGED <<txns, holds>>
    BY <1>1, <2>2, <2>3 DEF CardsTypeOK, vars, NoAuth
  <2>5. Settlement(k)'
    <3>1. Settlement(k)
      BY <2>2 DEF CardsInv
    <3> QED
      BY <2>2, <2>3, <2>4, <3>1 DEF Settlement, Unused
  <2>6. row.hold # "none" => callStep[c] \in Fresh /\ row.hold = call[c].hold /\ ReservesFor(row.hold, k)'
    BY <1>3, <1>4, <2>2, <2>4 DEF ReservesFor, Reserves, Fresh
  <2>7. row.status = "approved" => callStep[c] \in Fresh /\ row.hold = call[c].hold
    BY <1>3, <2>2 DEF Fresh
  <2>8. CASE Return(c) /\ next = "idle"
    <3>1. callStep' = [callStep EXCEPT ![c] = "idle"] /\ call' = [call EXCEPT ![c] = NoCall] /\ NoCall \in Work
      BY <2>8, NoCallIs DEF Return
    <3>2. Knows("idle", NoCall)'
      BY IdleKnowsThen
    <3> QED
      BY <1>1, <2>2, <2>3, <2>5, <2>6, <2>7, <3>1, <3>2, RowChanges
  <2>9. CASE Goto(c, next) /\ next = "challenge"
    <3>1. PICK w : w = call[c]
      OBVIOUS
    <3>2. callStep' = [callStep EXCEPT ![c] = "challenge"] /\ call' = [call EXCEPT ![c] = w] /\ w \in Work
      BY <1>1, <2>9, <3>1 DEF Goto, CardsTypeOK
    <3>3. Knows("challenge", w)'
      BY <1>3, <1>4, <2>2, <2>3, <2>4, <2>9, <3>1
      DEF Knows, Deciding, OnRow, Completing, Resolving, Returning, Fresh
    <3> QED
      BY <1>1, <2>2, <2>3, <2>5, <2>6, <2>7, <3>2, <3>3, RowChanges
  <2> QED
    BY <1>6, <2>8, <2>9
<1> QED
  BY <1>2, <1>3, <1>5, <1>6, Zenon DEF InsertAuth, NewRow

\* A decision is recorded, with the hold it has placed if it approves.
LEMMA RecordKeeps ==
    ASSUME CardsInv, NEW c \in Caller, Record(c)
    PROVE  CardsInv'
  BY InsertKeeps DEF Record

-----------------------------------------------------------------------------
(***************************************************************************)
(* Steps that are no call's.                                               *)
(***************************************************************************)
SameRow(k) ==
    /\ auths'[k] = NoAuth <=> auths[k] = NoAuth
    /\ auths'[k].status = auths[k].status
    /\ auths[k] # NoAuth =>
         /\ auths'[k].card = auths[k].card /\ auths'[k].amount = auths[k].amount
         /\ auths'[k].hold = auths[k].hold /\ auths'[k].txn = auths[k].txn

\* Neither a transaction, a hold, a call nor what a row says about money changes.
LEMMA NoMoneyMoves ==
    ASSUME CardsInv, [Next]_vars, UNCHANGED <<txns, holds, callStep, call, lost>>, CardsTypeOK',
           \A d \in Card : cards[d] # NoCard => cards'[d] # NoCard, \A k \in AuthKey : SameRow(k)
    PROVE  CardsInv'
<1>1. /\ CardsTypeOK /\ CallsKnow /\ HoldsAreOwn /\ ApprovedIsHeld /\ TypeOK /\ ReversedExactlyOnce
      /\ \A k \in AuthKey : RowReserves(k) /\ Settlement(k)
  BY DEF CardsInv, CardsTypeOK
<1>2. ReversedExactlyOnce' /\ LedgerGrows
  BY <1>1, LedgerStep
<1>3. RowsGrow
  BY DEF RowsGrow, SameRow
<1>4. CallsKnow'
  <2>1. ASSUME NEW c \in Caller PROVE Knows(callStep[c], call[c])'
    <3>1. PICK step, w : step = callStep[c] /\ w = call[c]
      OBVIOUS
    <3>2. Knows(step, w)'
      BY <1>1, <1>2, <1>3, <3>1, KnownStays DEF CallsKnow
    <3>3. step = callStep'[c] /\ w = call'[c]
      BY <3>1
    <3> QED
      BY <3>2, <3>3 DEF Knows
  <2> QED
    BY <2>1 DEF CallsKnow
<1>5. ASSUME NEW k \in AuthKey PROVE RowReserves(k)' /\ Settlement(k)'
  <2>1. RowReserves(k) /\ Settlement(k) /\ SameRow(k)
    BY <1>1
  <2>2. auths[k].status \in {"approved", "settled", "charged_back"} => auths[k] # NoAuth
    BY DEF NoAuth
  <2>3. RowReserves(k)'
    BY <2>1, <2>2 DEF SameRow, RowReserves, ReservesFor, Reserves
  <2>4. Settlement(k)'
    BY <2>1, <2>2 DEF SameRow, Settlement, Unused
  <2> QED
    BY <2>3, <2>4
<1>6. HoldsAreOwn'
  BY <1>1 DEF HoldsAreOwn, RowsDiffer, OwnRow, OwnHold, SameRow
<1>7. ApprovedIsHeld'
  <2>1. \A k \in AuthKey : auths'[k].status = "approved" => auths[k].status = "approved" /\ auths'[k].hold = auths[k].hold
    BY DEF SameRow, NoAuth
  <2> QED
    BY <1>1, <2>1 DEF ApprovedIsHeld, Ended
<1> QED
  BY <1>2, <1>4, <1>5, <1>6, <1>7 DEF CardsInv

\* Yesterday's row.
Aged(row) == [row EXCEPT !.today = FALSE]

\* A day later a row still says the same about money.
LEMMA AgedIs ==
    ASSUME NEW row \in Auth
    PROVE  /\ Aged(row) \in Auth /\ Aged(row).status = row.status /\ Aged(row).card = row.card
           /\ Aged(row).amount = row.amount /\ Aged(row).hold = row.hold /\ Aged(row).txn = row.txn
  BY DEF Aged, Auth

\* Midnight only changes which rows count.
LEMMA MidnightKeeps ==
    ASSUME CardsInv, Midnight
    PROVE  CardsInv'
<1>1. CardsTypeOK /\ UNCHANGED <<vars, cards, callStep, call, lost>> /\ UNCHANGED <<txns, holds>>
  BY DEF CardsInv, Midnight, vars
<1>2. auths' = [k \in AuthKey |-> IF auths[k] = NoAuth THEN NoAuth ELSE Aged(auths[k])]
  BY Zenon DEF Midnight, Aged
<1>3. ASSUME NEW k \in AuthKey PROVE SameRow(k) /\ auths'[k] \in Auth \cup {NoAuth}
  <2>1. CASE auths[k] = NoAuth
    BY <1>2, <2>1 DEF SameRow
  <2>2. CASE auths[k] # NoAuth
    <3>1. PICK row \in Auth : row = auths[k]
      BY <1>1, <2>2 DEF CardsTypeOK
    <3>2. PICK r : r = Aged(row)
      OBVIOUS
    <3>3. auths'[k] = r
      BY <1>2, <2>2, <3>1, <3>2
    <3>4. r \in Auth /\ r.status = row.status /\ r.card = row.card /\ r.amount = row.amount /\ r.hold = row.hold /\ r.txn = row.txn
      BY <3>2, AgedIs
    <3>5. r # NoAuth
      BY <3>4 DEF Auth, AuthStatus, NoAuth
    <3> QED
      BY <2>2, <3>1, <3>3, <3>4, <3>5 DEF SameRow
  <2> QED
    BY <2>1, <2>2
<1>4. auths' \in [AuthKey -> Auth \cup {NoAuth}]
  BY <1>2, <1>3
<1>5. TypeOK'
  BY <1>1, NextTyped DEF CardsTypeOK
<1>6. CardsTypeOK'
  BY <1>1, <1>4, <1>5 DEF CardsTypeOK
<1> QED
  BY <1>1, <1>3, <1>6, NoMoneyMoves

\* A card's controls change; no card disappears.
LEMMA ControlKeeps ==
    ASSUME CardsInv, NEW card \in Card, Control(card)
    PROVE  CardsInv'
<1>1. CardsTypeOK /\ UNCHANGED <<vars, auths, callStep, call, lost>> /\ UNCHANGED <<txns, holds>>
  BY DEF CardsInv, Control, Issue, SetStatus, SetLimits, vars
<1>2. /\ cards' \in [Card -> [status : {"active", "frozen"}, limits : Limits] \cup {NoCard}]
      /\ \A d \in Card : cards[d] # NoCard => cards'[d] # NoCard
  <2>1. cards \in [Card -> [status : {"active", "frozen"}, limits : Limits] \cup {NoCard}]
    BY <1>1 DEF CardsTypeOK
  <2>2. ASSUME NEW row \in [status : {"active", "frozen"}, limits : Limits], cards' = [cards EXCEPT ![card] = row]
        PROVE  /\ cards' \in [Card -> [status : {"active", "frozen"}, limits : Limits] \cup {NoCard}]
               /\ \A d \in Card : cards[d] # NoCard => cards'[d] # NoCard
    BY <2>1, <2>2 DEF NoCard
  <2>3. CASE Issue(card)
    <3>1. PICK row : row = [status |-> "active", limits |-> DefaultLimits]
      OBVIOUS
    <3>2. row \in [status : {"active", "frozen"}, limits : Limits]
      BY <3>1, LimitsAssumption
    <3> QED
      BY <2>2, <2>3, <3>1, <3>2 DEF Issue
  <2>4. ASSUME NEW status \in {"active", "frozen"}, SetStatus(card, status)
        PROVE  \E row \in [status : {"active", "frozen"}, limits : Limits] : cards' = [cards EXCEPT ![card] = row]
    <3>1. cards[card] \in [status : {"active", "frozen"}, limits : Limits]
      BY <2>1, <2>4 DEF SetStatus
    <3>2. [cards[card] EXCEPT !.status = status] \in [status : {"active", "frozen"}, limits : Limits]
      BY <3>1
    <3> QED
      BY <2>4, <3>2, Zenon DEF SetStatus
  <2>5. ASSUME NEW limits \in Limits, SetLimits(card, limits)
        PROVE  \E row \in [status : {"active", "frozen"}, limits : Limits] : cards' = [cards EXCEPT ![card] = row]
    <3>1. cards[card] \in [status : {"active", "frozen"}, limits : Limits]
      BY <2>1, <2>5 DEF SetLimits
    <3>2. [cards[card] EXCEPT !.limits = limits] \in [status : {"active", "frozen"}, limits : Limits]
      BY <3>1
    <3> QED
      BY <2>5, <3>2, Zenon DEF SetLimits
  <2> QED
    BY <2>2, <2>3, <2>4, <2>5 DEF Control
<1>3. TypeOK'
  BY <1>1, NextTyped DEF CardsTypeOK
<1>4. CardsTypeOK'
  BY <1>1, <1>2, <1>3 DEF CardsTypeOK
<1>5. \A k \in AuthKey : SameRow(k)
  BY <1>1 DEF SameRow
<1> QED
  BY <1>1, <1>2, <1>4, <1>5, NoMoneyMoves

\* An account is opened, or the cards are not concerned.
LEMMA ElsewhereKeeps ==
    ASSUME CardsInv, UNCHANGED cardVars,
           UNCHANGED vars \/ \E a \in Account, o \in Overdraft : OpenAccount(a, o)
    PROVE  CardsInv'
<1>1. CardsTypeOK /\ TypeOK /\ UNCHANGED <<cards, auths, callStep, call, lost>>
  BY DEF CardsInv, CardsTypeOK, cardVars
<1>2. [Next]_vars /\ UNCHANGED <<txns, holds>>
  BY DEF Next, OpenAccount, vars
<1>3. CardsTypeOK'
  BY <1>1, <1>2, NextTyped DEF CardsTypeOK
<1>4. \A k \in AuthKey : SameRow(k)
  BY <1>1 DEF SameRow
<1> QED
  BY <1>1, <1>2, <1>3, <1>4, NoMoneyMoves

\* A call is lost between two statements; its row may then be left half done.
LEMMA LoseKeeps ==
    ASSUME CardsInv, NEW c \in Caller, Lose(c)
    PROVE  CardsInv'
<1>1. callStep[c] # "idle" /\ Return(c) /\ lost' = lost \cup {call[c].key} /\ UNCHANGED <<vars, cards, auths>>
  BY DEF Lose
<1>2. Knows(callStep[c], call[c]) /\ callStep[c] \in Statement /\ lost \subseteq AuthKey
  BY KnowsNow DEF CardsTypeOK
<1>3. callStep[c] \in Deciding \cup OnRow
  BY <1>1, <1>2 DEF Statement, Deciding, OnRow, Completing, Resolving, Returning
<1>4. call[c].key \in AuthKey
  BY <1>2, <1>3, PurchaseAssumption DEF Knows
<1> QED
  BY <1>1, <1>2, <1>4, ReturnKeeps
-----------------------------------------------------------------------------
(***************************************************************************)
(* The desk as a whole.                                                    *)
(***************************************************************************)
LEMMA DeskInitKeeps == DeskInit => CardsInv
<1> SUFFICES ASSUME DeskInit PROVE CardsInv
  OBVIOUS
<1>1. TypeOK
  BY InitTyped DEF DeskInit
<1>2. /\ cards = [d \in Card |-> NoCard] /\ auths = [k \in AuthKey |-> NoAuth]
      /\ callStep = [c \in Caller |-> "idle"] /\ call = [c \in Caller |-> NoCall] /\ lost = {}
  BY DEF DeskInit, CardsInit
<1>3. txns = [k \in Key |-> NoTxn]
  BY DEF DeskInit, Init
<1>4. CardsTypeOK
  BY <1>1, <1>2, NoCallIs DEF CardsTypeOK, Statement
<1>5. ReversedExactlyOnce
  BY <1>3 DEF ReversedExactlyOnce, Reversals, NoTxn
<1>6. CallsKnow
  <2>1. \A c \in Caller : callStep[c] = "idle" /\ call[c] = NoCall
    BY <1>2
  <2> QED
    BY <2>1, IdleKnows DEF CallsKnow
<1>7. \A k \in AuthKey : RowReserves(k) /\ Settlement(k)
  BY <1>2, <1>3, SettleKeyAssumption DEF RowReserves, Settlement, NoAuth, Unused
<1>8. HoldsAreOwn
  BY <1>2 DEF HoldsAreOwn, RowsDiffer, OwnRow, OwnHold, Resolving, Fresh
<1>9. ApprovedIsHeld
  BY <1>2 DEF ApprovedIsHeld, NoAuth
<1> QED
  BY <1>4, <1>5, <1>6, <1>7, <1>8, <1>9 DEF CardsInv

\* Every statement of a call keeps the invariant.
LEMMA CallStepKeeps ==
    ASSUME CardsInv, NEW c \in Caller, CallStep(c)
    PROVE  CardsInv'
  BY ReadCardKeeps, ReadLimitsKeeps, DecideKeeps, RecordKeeps, IssueChallengeKeeps, PlaceAuthHoldKeeps,
     VerifyCodeKeeps, Place3DSHoldKeeps, Mark3DSKeeps, CaptureKeeps, MarkSettledKeeps, ReleaseKeeps,
     MarkVoidedKeeps, ReverseKeeps, MarkChargedBackKeeps
  DEF CallStep

\* Every step keeps the invariant: those of disputes touch nothing it is about.
LEMMA DeskNextKeeps == CardsInv /\ [DeskNext]_allVars => CardsInv'
<1> SUFFICES ASSUME CardsInv, [DeskNext]_allVars PROVE CardsInv'
  OBVIOUS
<1>1. CASE OpenAnAccount
  BY <1>1, ElsewhereKeeps DEF OpenAnAccount
<1>2. CASE Controlling
  BY <1>2, ControlKeeps DEF Controlling
<1>3. CASE Asking
  <2>1. CASE \E c \in Caller : Ask(c)
    BY <2>1, AsksKeep
  <2>2. CASE UNCHANGED <<vars, cardVars>>
    BY <2>2, ElsewhereKeeps
  <2> QED
    BY <1>3, <2>1, <2>2 DEF Asking
<1>4. CASE SomethingFails
  <2>1. CASE \E c \in Caller : Lose(c)
    BY <2>1, LoseKeeps
  <2>2. CASE UNCHANGED <<vars, cardVars>>
    BY <2>2, ElsewhereKeeps
  <2> QED
    BY <1>4, <2>1, <2>2 DEF SomethingFails
<1>5. CASE Midnight
  BY <1>5, MidnightKeeps
<1>6. ASSUME NEW c \in Caller, CallStep(c) PROVE CardsInv'
  BY <1>6, CallStepKeeps
<1>7. CASE UNCHANGED <<vars, cardVars>>
  BY <1>7, ElsewhereKeeps
<1>8. UNCHANGED allVars => UNCHANGED <<vars, cardVars>>
  BY DEF allVars
<1> QED
  BY <1>1, <1>2, <1>3, <1>4, <1>5, <1>6, <1>7, <1>8 DEF DeskNext

\* The invariant says what the two properties say.
LEMMA SaysOfTheRows == CardsInv => SettledIsDebited /\ ApprovedIsReserved
<1> SUFFICES ASSUME CardsInv PROVE SettledIsDebited /\ ApprovedIsReserved
  OBVIOUS
<1>1. SettledIsDebited
  BY DEF CardsInv, Settlement, SettledIsDebited
<1>2. ASSUME NEW k \in AuthKey, auths[k].status = "approved", AtRest(k)
      PROVE  /\ auths[k].hold # "none"
             /\ holds[auths[k].hold] =
                  [status |-> "active", account |-> AccountOf[auths[k].card], amount |-> auths[k].amount]
             /\ \A l \in AuthKey : l # k /\ auths[l] # NoAuth => auths[l].hold # auths[k].hold
  <2>1. /\ auths[k] # NoAuth /\ auths[k].hold # "none" /\ ReservesFor(auths[k].hold, k)
    BY <1>2 DEF CardsInv, RowReserves, NoAuth
  <2>2. holds[auths[k].hold].status = "active"
    BY <1>2 DEF CardsInv, ApprovedIsHeld, Ended, AtRest
  <2>3. \A l \in AuthKey : l # k /\ auths[l] # NoAuth => auths[l].hold # auths[k].hold
    BY <2>1 DEF CardsInv, HoldsAreOwn, RowsDiffer
  <2>4. PICK h \in Hold : h = holds[auths[k].hold]
    BY <2>1 DEF ReservesFor, Reserves, CardsInv, CardsTypeOK, TypeOK
  <2>5. h = [status |-> "active", account |-> AccountOf[auths[k].card], amount |-> auths[k].amount]
    BY <2>1, <2>2, <2>4 DEF ReservesFor, Reserves, Hold
  <2> QED
    BY <2>1, <2>3, <2>4, <2>5
<1> QED
  BY <1>1, <1>2 DEF ApprovedIsReserved

\* Settle, Chargeback: what a row says was charged or given back has been, once
\* and in the authorized amount, whichever calls overtake one another or are lost.
THEOREM SettledMoneyIsDebited == DeskSpec => []SettledIsDebited
  BY DeskInitKeeps, DeskNextKeeps, SaysOfTheRows, PTL DEF DeskSpec

\* Authorize, Complete3DS, Void: an authorization that rests in "approved" has its
\* money reserved, by an active hold of its own.
THEOREM ApprovalsAreReserved == DeskSpec => []ApprovedIsReserved
  BY DeskInitKeeps, DeskNextKeeps, SaysOfTheRows, PTL DEF DeskSpec

-----------------------------------------------------------------------------
(***************************************************************************)
(* Disputes.                                                               *)
(***************************************************************************)
DisputesInv ==
    /\ disputes \in [Dispute -> DisputeStatus \cup {"absent"}]
    /\ timeline \in [Dispute -> Seq(Events)]
    /\ advancing \in [Investigator -> [dispute : Dispute, from : DisputeStatus, to : DisputeStatus]
                                        \cup {NotAdvancing}]
    /\ TimelineExplainsStatus

\* A case that was absent has no events, since no event ends in "absent".
LEMMA CreateDisputeKeeps ==
    ASSUME DisputesInv, NEW d \in Dispute, CreateDispute(d)
    PROVE  DisputesInv'
<1>1. timeline[d] \in Seq(Events) /\ Len(timeline[d]) \in Nat /\ disputes[d] = "absent"
  BY DEF DisputesInv, CreateDispute
<1>2. Len(timeline[d]) = 0
  <2>1. SUFFICES ASSUME Len(timeline[d]) > 0 PROVE FALSE
    BY <1>1
  <2>2. timeline[d][Len(timeline[d])] \in Events
    BY <1>1, <2>1
  <2> QED
    BY <1>1, <2>1, <2>2 DEF DisputesInv, TimelineExplainsStatus, Events, DisputeStatus
<1> QED
  BY <1>2 DEF DisputesInv, TimelineExplainsStatus, CreateDispute, DisputeStatus

\* Validating a transition writes nothing; the transition is between real statuses.
LEMMA ReadDisputeKeeps ==
    ASSUME DisputesInv, NEW i \in Investigator, NEW d \in Dispute, NEW to \in DisputeStatus, ReadDispute(i, d, to)
    PROVE  DisputesInv'
<1>1. disputes[d] \in DisputeStatus
  BY DEF ReadDispute, ValidTransition, DisputeStatus
<1> QED
  BY <1>1 DEF DisputesInv, TimelineExplainsStatus, ReadDispute

\* The event and the status are written by one transaction, from one transition.
LEMMA AdvanceKeeps ==
    ASSUME DisputesInv, NEW i \in Investigator, Advance(i)
    PROVE  DisputesInv'
<1>1. PICK a \in [dispute : Dispute, from : DisputeStatus, to : DisputeStatus] : a = advancing[i]
  BY DEF DisputesInv, Advance
<1>2. PICK e : e = [from |-> a.from, to |-> a.to]
  OBVIOUS
<1>3. e \in Events /\ e.to = a.to /\ a.dispute \in Dispute /\ a.to \in DisputeStatus
  BY <1>2 DEF Events
<1>4. /\ disputes' = [disputes EXCEPT ![a.dispute] = a.to]
      /\ timeline' = [timeline EXCEPT ![a.dispute] = Append(timeline[a.dispute], e)]
      /\ advancing' = [advancing EXCEPT ![i] = NotAdvancing]
  BY <1>1, <1>2 DEF Advance
<1>5. PICK s : s = timeline[a.dispute] /\ s \in Seq(Events)
  BY <1>3 DEF DisputesInv
<1>6. Append(s, e) \in Seq(Events) /\ Len(Append(s, e)) = Len(s) + 1 /\ Append(s, e)[Len(s) + 1] = e /\ Len(s) \in Nat
  BY <1>3, <1>5
<1>7. /\ disputes' \in [Dispute -> DisputeStatus \cup {"absent"}] /\ timeline' \in [Dispute -> Seq(Events)]
      /\ advancing' \in [Investigator -> [dispute : Dispute, from : DisputeStatus, to : DisputeStatus] \cup {NotAdvancing}]
  BY <1>3, <1>4, <1>5, <1>6 DEF DisputesInv
<1>8. timeline'[a.dispute] = Append(s, e) /\ disputes'[a.dispute] = e.to
  BY <1>3, <1>4, <1>5 DEF DisputesInv
<1>9. \A d \in Dispute \ {a.dispute} : timeline'[d] = timeline[d] /\ disputes'[d] = disputes[d]
  BY <1>4 DEF DisputesInv
<1>10. ASSUME NEW d \in Dispute
       PROVE  disputes'[d] = IF Len(timeline'[d]) > 0 THEN timeline'[d][Len(timeline'[d])].to
                             ELSE IF disputes'[d] = "absent" THEN "absent" ELSE "open"
  <2>1. CASE d = a.dispute
    BY <1>6, <1>8, <2>1
  <2>2. CASE d # a.dispute
    BY <1>9, <2>2 DEF DisputesInv, TimelineExplainsStatus
  <2> QED
    BY <2>1, <2>2
<1> QED
  BY <1>7, <1>10 DEF DisputesInv, TimelineExplainsStatus

\* A lost call writes neither.
LEMMA LoseAdvanceKeeps ==
    ASSUME DisputesInv, NEW i \in Investigator, LoseAdvance(i)
    PROVE  DisputesInv'
  BY DEF DisputesInv, TimelineExplainsStatus, LoseAdvance

\* Steps of the cards and accounts leave the cases alone.
LEMMA DisputesStay == DisputesInv /\ UNCHANGED disputeVars => DisputesInv'
  BY DEF DisputesInv, TimelineExplainsStatus, disputeVars

\* Every step keeps the cases' invariant.
LEMMA DisputesNext == DisputesInv /\ [DeskNext]_allVars => DisputesInv'
<1> SUFFICES ASSUME DisputesInv, [DeskNext]_allVars PROVE DisputesInv'
  OBVIOUS
<1>1. CASE Asking
  <2>1. CASE UNCHANGED disputeVars
    BY <2>1, DisputesStay
  <2>2. CASE \/ \E d \in Dispute : CreateDispute(d)
             \/ \E i \in Investigator, d \in Dispute, to \in DisputeStatus : ReadDispute(i, d, to)
    BY <2>2, CreateDisputeKeeps, ReadDisputeKeeps
  <2> QED
    BY <1>1, <2>1, <2>2 DEF Asking
<1>2. CASE SomethingFails
  BY <1>2, DisputesStay, LoseAdvanceKeeps DEF SomethingFails
<1>3. CASE \E i \in Investigator : Advance(i)
  BY <1>3, AdvanceKeeps
<1>4. CASE UNCHANGED disputeVars
  BY <1>4, DisputesStay
<1>5. UNCHANGED allVars => UNCHANGED disputeVars
  BY DEF allVars
<1> QED
  BY <1>1, <1>2, <1>3, <1>4, <1>5 DEF DeskNext, OpenAnAccount, Controlling

\* No case, no event.
LEMMA DisputesInitKeeps == DeskInit => DisputesInv
<1> SUFFICES ASSUME DeskInit PROVE DisputesInv
  OBVIOUS
<1>1. <<>> \in Seq(Events) /\ Len(<<>>) = 0
  OBVIOUS
<1> QED
  BY <1>1 DEF DeskInit, DisputesInit, DisputesInv, TimelineExplainsStatus

\* Advance: however investigators overtake one another, a case's last event ends
\* where the case is.
THEOREM TimelinesExplainStatus == DeskSpec => []TimelineExplainsStatus
<1>1. DisputesInv => TimelineExplainsStatus
  BY DEF DisputesInv
<1> QED
  BY <1>1, DisputesInitKeeps, DisputesNext, PTL DEF DeskSpec
=============================================================================
