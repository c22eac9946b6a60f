------------------------------ MODULE Payments ------------------------------
(***************************************************************************)
(* internal/payments: the KYC-tier limits in front of Ledger!Transfer.     *)
(* The limits are checked with SELECTs of their own, outside the ledger's  *)
(* transaction, so checkLimits and the transfer are two steps of a caller. *)
(* The scheduler and the cooling-off safeguard both move money this way.   *)
(***************************************************************************)
EXTENDS Ledger

CONSTANTS
    Instance,   \* server instances, each with its ticker goroutines
    Identity,   \* owners of the accounts
    OwnerOf,    \* accounts.owner_id
    MaxSingle,  \* tierLimits of the one tier modelled
    MaxDaily,
    KillSwitch, \* whether operators ever disable the transfer feature
    MaxTime     \* bound on the clock

ASSUME OwnerAssumption == OwnerOf \in [Account -> Identity]
ASSUME LimitsAssumption == MaxSingle \in Nat /\ MaxDaily \in Nat
ASSUME ClockAssumption == MaxTime \in Nat /\ KillSwitch \in BOOLEAN

VARIABLES
    now,        \* the database's clock
    sentToday   \* per owner, the sum of today's negative entries of type transfer

moneyVars == <<vars, now, sentToday>>

PaymentsInit ==
    /\ Init
    /\ now = 0
    /\ sentToday = [o \in Identity |-> 0]

\* Time passes; a new day may have begun.
Tick ==
    /\ now < MaxTime
    /\ now' = now + 1
    /\ sentToday' \in {sentToday, [o \in Identity |-> 0]}
    /\ UNCHANGED vars

\* resilience.Check reads a cached flag: with a kill switch about, any caller
\* may be refused.
FeatureDisabled == KillSwitch

\* checkLimits: the single limit, then the daily limit on what the owner's
\* accounts have sent so far, this very transfer included if it has committed.
WithinLimits(from, amount) ==
    /\ amount <= MaxSingle
    /\ sentToday[OwnerOf[from]] + amount <= MaxDaily

-----------------------------------------------------------------------------
(***************************************************************************)
(* What Ledger.Transfer answers under a key: it posts, replays the stored  *)
(* transaction of the same request, or refuses.                            *)
(***************************************************************************)
TransferLegs(from, to, amount) == <<Leg(from, -amount), Leg(to, amount)>>
TransferOf(from, to, amount) == LegsRequest("transfer", TransferLegs(from, to, amount))

\* The very transfer asked for is committed under the key.
Moved(from, to, amount, key) ==
    ~Unused(key) /\ txns[key].request = TransferOf(from, to, amount)

Posts(from, to, amount, key) ==
    /\ Transfer(from, to, amount, key)
    /\ sentToday' = [sentToday EXCEPT ![OwnerOf[from]] = @ + amount]
    /\ UNCHANGED now

Replays(from, to, amount, key) ==
    /\ Moved(from, to, amount, key)
    /\ UNCHANGED moneyVars

Refuses(from, to, amount, key) ==
    /\ IF Unused(key) THEN ~CanInsert(TransferLegs(from, to, amount))
                      ELSE ~Moved(from, to, amount, key)
    /\ UNCHANGED moneyVars

PaymentsTypeOK ==
    /\ TypeOK
    /\ now \in 0..MaxTime
    /\ sentToday \in [Identity -> Nat]
=============================================================================
