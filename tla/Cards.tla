-------------------------------- MODULE Cards --------------------------------
(***************************************************************************)
(* internal/cards: card controls, and authorizations that become holds of  *)
(* the ledger.  Callers are the cardholder's requests and the calls of the *)
(* card network; each of their statements and ledger calls is an action,   *)
(* since nothing locks an authorization's row from one to the next.        *)
(***************************************************************************)
EXTENDS Ledger, FiniteSetsExt

CONSTANTS
    Card,            \* ids of cards
    AccountOf,       \* the account a card is issued against
    Caller,          \* concurrent calls of the service
    AuthKey,         \* idempotency keys of authorizations; UNIQUE, so they name the rows
    SettleKey,       \* "settle:" + id, the ledger key an authorization is captured under
    ChargebackKey,   \* ledger keys Chargeback is called with
    Purchase,        \* what Authorize is asked for
    Limits,          \* contents of card_limits; DefaultLimits and what SetLimits is given
    DefaultLimits,
    Threshold        \* threeDSThresholdMinor

ASSUME CardAssumption == AccountOf \in [Card -> Account]
ASSUME SettleKeyAssumption ==
    /\ SettleKey \in [AuthKey -> Key] /\ ChargebackKey \subseteq Key
    /\ \A k, l \in AuthKey : SettleKey[k] = SettleKey[l] => k = l
    /\ \A k \in AuthKey : SettleKey[k] \notin ChargebackKey
ASSUME NullAssumption == "none" \notin HoldId   \* NULL in a row's hold_id
ASSUME PurchaseAssumption ==
    Purchase \subseteq [card : Card, key : AuthKey, amount : Amount, mcc : STRING, network : BOOLEAN]
ASSUME LimitsAssumption ==
    /\ Limits \subseteq [daily : Nat \ {0}, single : Nat \ {0}, blocked : SUBSET STRING]
    /\ DefaultLimits \in Limits /\ Threshold \in Nat

VARIABLES
    cards,     \* cards and card_limits: card -> [status, limits]
    auths,     \* card_authorizations: idempotency key -> row
    callStep,  \* the statement each caller is about to execute
    call,      \* what it has been asked and what it has read so far
    lost       \* history: authorizations a request was lost on half way

cardVars == <<cards, auths, callStep, call, lost>>

NoCard == [status |-> "absent"]
NoAuth == [status |-> "absent"]
NoCall == [key |-> "none", request |-> [key |-> "none"], limits |-> [daily |-> 0],
           hold |-> "none", txn |-> "none", under |-> "none"]

CardsInit ==
    /\ cards = [d \in Card |-> NoCard]
    /\ auths = [k \in AuthKey |-> NoAuth]
    /\ callStep = [c \in Caller |-> "idle"]
    /\ call = [c \in Caller |-> NoCall]
    /\ lost = {}

Begin(c, step, work) ==
    /\ callStep[c] = "idle"
    /\ callStep' = [callStep EXCEPT ![c] = step]
    /\ call' = [call EXCEPT ![c] = work]

Goto(c, step) == callStep' = [callStep EXCEPT ![c] = step] /\ UNCHANGED call

Return(c) ==
    /\ callStep' = [callStep EXCEPT ![c] = "idle"]
    /\ call' = [call EXCEPT ![c] = NoCall]

-----------------------------------------------------------------------------
(***************************************************************************)
(* Controls.  Nothing ever closes a card.                                  *)
(***************************************************************************)
Issue(card) ==
    /\ cards[card] = NoCard
    /\ Exists(AccountOf[card])
    /\ cards' = [cards EXCEPT ![card] = [status |-> "active", limits |-> DefaultLimits]]
    /\ UNCHANGED <<vars, auths, callStep, call, lost>>

\* Freeze and Unfreeze.
SetStatus(card, status) ==
    /\ cards[card] # NoCard
    /\ cards' = [cards EXCEPT ![card].status = status]
    /\ UNCHANGED <<vars, auths, callStep, call, lost>>

SetLimits(card, limits) ==
    /\ cards[card] # NoCard
    /\ cards' = [cards EXCEPT ![card].limits = limits]
    /\ UNCHANGED <<vars, auths, callStep, call, lost>>

-----------------------------------------------------------------------------
(***************************************************************************)
(* Authorize: the key, the card, its limits and today's sum are read one   *)
(* after the other; the row is inserted last, after the hold.              *)
(***************************************************************************)

\* A key that has a row is answered with it.  A kill switch may turn a call
\* away here as well, which leaves it idle.
LookUpKey(c, p) ==
    /\ auths[p.key] = NoAuth
    /\ Begin(c, "card", [NoCall EXCEPT !.key = p.key, !.request = p])
    /\ UNCHANGED <<vars, cards, auths, lost>>

ReadCard(c) ==
    /\ callStep[c] = "card"
    /\ LET card == cards[call[c].request.card]
       IN  IF card = NoCard THEN Return(c)
           ELSE Goto(c, IF card.status = "active" THEN "limits" ELSE "decline")
    /\ UNCHANGED <<vars, cards, auths, lost>>

ReadLimits(c) ==
    /\ callStep[c] = "limits"
    /\ LET p == call[c].request
           limits == cards[p.card].limits
       IN  IF p.mcc \in limits.blocked \/ p.amount > limits.single
           THEN Goto(c, "decline")
           ELSE /\ callStep' = [callStep EXCEPT ![c] = "decide"]
                /\ call' = [call EXCEPT ![c].limits = limits]
    /\ UNCHANGED <<vars, cards, auths, lost>>

\* approvedTodaySum: authorizations waiting for 3-D Secure do not count.
SpentToday(card) ==
    LET counted == {k \in AuthKey :
                      /\ auths[k].status \in {"approved", "settled"}
                      /\ auths[k].card = card /\ auths[k].today}
    IN  MapThenSumSet(LAMBDA k : auths[k].amount, counted)

Decide(c) ==
    /\ callStep[c] = "decide"
    /\ LET p == call[c].request
       IN  Goto(c, IF SpentToday(p.card) + p.amount > call[c].limits.daily \/ ~p.network THEN "decline"
                   ELSE IF p.amount >= Threshold THEN "require3DS" ELSE "hold")
    /\ UNCHANGED <<vars, cards, auths, lost>>

\* The INSERT fails if the key has got a row since it was looked up.
InsertAuth(c, status, next) ==
    LET p == call[c].request
    IN  \/ /\ auths[p.key] = NoAuth
           /\ auths' = [auths EXCEPT ![p.key] =
                 [status |-> status, card |-> p.card, amount |-> p.amount, today |-> TRUE,
                  challenge |-> FALSE, hold |-> call[c].hold, txn |-> "none"]]
           /\ IF next = "idle" THEN Return(c) ELSE Goto(c, next)
        \/ auths[p.key] # NoAuth /\ Return(c) /\ UNCHANGED auths

Record(c) ==
    /\ \/ callStep[c] = "decline" /\ InsertAuth(c, "declined", "idle")
       \/ callStep[c] = "approve" /\ InsertAuth(c, "approved", "idle")
       \/ callStep[c] = "require3DS" /\ InsertAuth(c, "requires_3ds", "challenge")
    /\ UNCHANGED <<vars, cards, lost>>

IssueChallenge(c) ==
    /\ callStep[c] = "challenge"
    /\ auths' = [auths EXCEPT ![call[c].key].challenge = TRUE]
    /\ Return(c)
    /\ UNCHANGED <<vars, cards, lost>>

\* Both Authorize and Complete3DS reserve the money; what they do next differs.
Reserve(c, card, amount, held, short) ==
    /\ \/ \E h \in HoldId :
            /\ PlaceHold(h, AccountOf[card], amount)
            /\ callStep' = [callStep EXCEPT ![c] = held]
            /\ call' = [call EXCEPT ![c].hold = h]
       \/ /\ Available(AccountOf[card]) - amount < -accounts[AccountOf[card]].overdraft
          /\ Goto(c, short)
          /\ UNCHANGED vars
    /\ UNCHANGED <<cards, auths, lost>>

PlaceAuthHold(c) ==
    /\ callStep[c] = "hold"
    /\ Reserve(c, call[c].request.card, call[c].request.amount, "approve", "decline")

-----------------------------------------------------------------------------
(***************************************************************************)
(* Complete3DS.  The status is read first and never again.                 *)
(***************************************************************************)
StartComplete3DS(c, k) ==
    /\ auths[k].status = "requires_3ds"
    /\ Begin(c, "verify", [NoCall EXCEPT !.key = k])
    /\ UNCHANGED <<vars, cards, auths, lost>>

\* The code is right and in time, or it is not.  Scanning the columns of a
\* challenge that has not been issued fails.
VerifyCode(c) ==
    /\ callStep[c] = "verify"
    /\ \/ auths[call[c].key].challenge /\ \E next \in {"hold3DS", "decline3DS"} : Goto(c, next)
       \/ ~auths[call[c].key].challenge /\ Return(c)
    /\ UNCHANGED <<vars, cards, auths, lost>>

Place3DSHold(c) ==
    /\ callStep[c] = "hold3DS"
    /\ Reserve(c, auths[call[c].key].card, auths[call[c].key].amount, "approve3DS", "decline3DS")

\* An UPDATE of the row by its id, whatever its status is by now.
UpdateAuth(c, row) ==
    /\ auths' = [auths EXCEPT ![call[c].key] = row]
    /\ Return(c)
    /\ UNCHANGED <<vars, cards, lost>>

\* Mutant: the UPDATE to approved forgets the hold.
Mark3DSWithoutHold(c) ==
    LET row == auths[call[c].key]
    IN  \/ callStep[c] = "approve3DS" /\ UpdateAuth(c, [row EXCEPT !.status = "approved"])
        \/ callStep[c] = "decline3DS" /\ UpdateAuth(c, [row EXCEPT !.status = "declined"])

Mark3DS(c) ==
    LET row == auths[call[c].key]
    IN  \/ callStep[c] = "approve3DS" /\ UpdateAuth(c, [row EXCEPT !.status = "approved", !.hold = call[c].hold])
        \/ callStep[c] = "decline3DS" /\ UpdateAuth(c, [row EXCEPT !.status = "declined"])

-----------------------------------------------------------------------------
(***************************************************************************)
(* Settle, Void and Chargeback: the row is read, the ledger is called, the *)
(* row is updated.                                                         *)
(***************************************************************************)
StartResolve(c, k, step) ==
    /\ auths[k].status = "approved" /\ auths[k].hold # "none"
    /\ Begin(c, step, [NoCall EXCEPT !.key = k, !.hold = auths[k].hold])
    /\ UNCHANGED <<vars, cards, auths, lost>>

\* idempotency.Execute: the key's request was this very one, so its
\* transaction is the answer.
Replayed(key, request) == ~Unused(key) /\ txns[key].request = request

\* Mutant: an error of the capture is only logged.
CaptureAndGoOn(c) ==
    LET key == SettleKey[call[c].key]
    IN  /\ callStep[c] = "capture"
        /\ \/ CaptureHold(call[c].hold, key)
           \/ ~(Unused(key) /\ holds[call[c].hold].status = "active") /\ UNCHANGED vars
        /\ callStep' = [callStep EXCEPT ![c] = "settle"]
        /\ call' = [call EXCEPT ![c].txn = key]
        /\ UNCHANGED <<cards, auths, lost>>

Capture(c) ==
    LET key == SettleKey[call[c].key]
        hold == call[c].hold
    IN  /\ callStep[c] = "capture"
        /\ \/ /\ \/ CaptureHold(hold, key)
                 \/ Replayed(key, CaptureRequest(hold)) /\ UNCHANGED vars
              /\ callStep' = [callStep EXCEPT ![c] = "settle"]
              /\ call' = [call EXCEPT ![c].txn = key]
           \/ /\ IF Unused(key)
                 THEN \/ holds[hold].status # "active"
                      \/ ~CanInsert(DebitLegs(holds[hold].account, holds[hold].amount))
                 ELSE ~Replayed(key, CaptureRequest(hold))
              /\ Return(c)
              /\ UNCHANGED vars
        /\ UNCHANGED <<cards, auths, lost>>

MarkSettled(c) ==
    /\ callStep[c] = "settle"
    /\ UpdateAuth(c, [auths[call[c].key] EXCEPT !.status = "settled", !.txn = call[c].txn])

Release(c) ==
    /\ callStep[c] = "release"
    /\ \/ ReleaseHold(call[c].hold) /\ Goto(c, "void")
       \/ holds[call[c].hold].status # "active" /\ Return(c) /\ UNCHANGED vars
    /\ UNCHANGED <<cards, auths, lost>>

MarkVoided(c) ==
    /\ callStep[c] = "void"
    /\ UpdateAuth(c, [auths[call[c].key] EXCEPT !.status = "voided"])

\* An authorization that is charged back already is answered as it is.
StartChargeback(c, k, key) ==
    /\ auths[k].status = "settled" /\ auths[k].txn # "none"
    /\ Begin(c, "reverse", [NoCall EXCEPT !.key = k, !.txn = auths[k].txn, !.under = key])
    /\ UNCHANGED <<vars, cards, auths, lost>>

Reverse(c) ==
    LET key == call[c].under
        txn == call[c].txn
    IN  /\ callStep[c] = "reverse"
        /\ \/ /\ \/ ReverseTransaction(txn, key)
                 \/ Replayed(key, ReversalRequest(txn)) /\ UNCHANGED vars
              /\ Goto(c, "chargeback")
           \/ /\ IF Unused(key)
                 THEN \/ txns[txn].state # "posted"
                      \/ \E legs \in Compensating(txns[txn].legs) : ~CanInsert(legs)
                 ELSE ~Replayed(key, ReversalRequest(txn))
              /\ Return(c)
              /\ UNCHANGED vars
        /\ UNCHANGED <<cards, auths, lost>>

\* The one UPDATE that looks at the status.
MarkChargedBack(c) ==
    /\ callStep[c] = "chargeback"
    /\ LET row == auths[call[c].key]
       IN  UpdateAuth(c, IF row.status = "settled" THEN [row EXCEPT !.status = "charged_back"] ELSE row)

-----------------------------------------------------------------------------
\* A new day begins: yesterday's authorizations no longer count.
Midnight ==
    /\ \E k \in AuthKey : auths[k] # NoAuth /\ auths[k].today
    /\ auths' = [k \in AuthKey |-> IF auths[k] = NoAuth THEN NoAuth ELSE [auths[k] EXCEPT !.today = FALSE]]
    /\ UNCHANGED <<vars, cards, callStep, call, lost>>

\* The process dies, or a statement fails: the call ends where it is.
Lose(c) ==
    /\ callStep[c] # "idle"
    /\ Return(c)
    /\ lost' = lost \cup {call[c].key}
    /\ UNCHANGED <<vars, cards, auths>>

CallStep(c) ==
    \/ ReadCard(c) \/ ReadLimits(c) \/ Decide(c) \/ Record(c) \/ IssueChallenge(c) \/ PlaceAuthHold(c)
    \/ VerifyCode(c) \/ Place3DSHold(c) \/ Mark3DS(c)
    \/ Capture(c) \/ MarkSettled(c) \/ Release(c) \/ MarkVoided(c) \/ Reverse(c) \/ MarkChargedBack(c)

Control(card) ==
    \/ Issue(card)
    \/ \E status \in {"active", "frozen"} : SetStatus(card, status)
    \/ \E limits \in Limits : SetLimits(card, limits)

Ask(c) ==
    \/ \E p \in Purchase : LookUpKey(c, p)
    \/ \E k \in AuthKey : StartComplete3DS(c, k)
    \/ \E k \in AuthKey, step \in {"capture", "release"} : StartResolve(c, k, step)
    \/ \E k \in AuthKey, key \in ChargebackKey : StartChargeback(c, k, key)

-----------------------------------------------------------------------------
(***************************************************************************)
(* Properties.                                                             *)
(***************************************************************************)
AuthStatus == {"requires_3ds", "approved", "declined", "settled", "voided", "charged_back"}
Auth == [status : AuthStatus, card : Card, amount : Amount, today : BOOLEAN, challenge : BOOLEAN,
         hold : HoldId \cup {"none"}, txn : Key \cup {"none"}]

Statement == {"idle", "card", "limits", "decide", "decline", "require3DS", "challenge", "hold", "approve",
              "verify", "hold3DS", "approve3DS", "decline3DS", "capture", "settle", "release", "void",
              "reverse", "chargeback"}
Work == [key : AuthKey \cup {"none"}, request : Purchase \cup {NoCall.request}, limits : Limits \cup {NoCall.limits},
         hold : HoldId \cup {"none"}, txn : Key \cup {"none"}, under : Key \cup {"none"}]

CardsTypeOK ==
    /\ TypeOK
    /\ cards \in [Card -> [status : {"active", "frozen"}, limits : Limits] \cup {NoCard}]
    /\ auths \in [AuthKey -> Auth \cup {NoAuth}]
    /\ callStep \in [Caller -> Statement] /\ call \in [Caller -> Work]
    /\ lost \subseteq AuthKey

\* What a row says was charged has been debited once, in the amount that was
\* authorized and from the card's account, and what it says was charged back
\* has been given back: although 3-D Secure may be completed twice and put
\* another hold into a row that is being settled, and a settlement retried
\* late overwrites what a chargeback has written.
SettledIsDebited ==
    \A k \in AuthKey : auths[k].status \in {"settled", "charged_back"} =>
        LET t == auths[k].txn
        IN  /\ t = SettleKey[k] /\ ~Unused(t)
            /\ txns[t].legs = DebitLegs(AccountOf[auths[k].card], auths[k].amount)
            /\ auths[k].status = "charged_back" => txns[t].state = "reversed"

\* An authorization that rests in "approved" has its money reserved, by a hold
\* of its own: whoever settles or voids it, or completes its challenge a second
\* time, leaves it in another status or with a hold nobody has resolved.
AtRest(k) == k \notin lost /\ \A c \in Caller : call[c].key # k

ApprovedIsReserved ==
    \A k \in AuthKey : auths[k].status = "approved" /\ AtRest(k) =>
        /\ auths[k].hold # "none"
        /\ holds[auths[k].hold] = [status |-> "active", account |-> AccountOf[auths[k].card], amount |-> auths[k].amount]
        /\ \A l \in AuthKey : l # k /\ auths[l] # NoAuth => auths[l].hold # auths[k].hold

\* A purchase that was declined or voided is not charged (authorize.go: Void
\* is for "a purchase cancelled before settlement"; Complete3DS "declines it
\* outright").
RefusedIsNotCharged ==
    \A k \in AuthKey : auths[k].status \in {"declined", "voided"} => Unused(SettleKey[k])
=============================================================================
