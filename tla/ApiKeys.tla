------------------------------- MODULE ApiKeys -------------------------------
(***************************************************************************)
(* internal/apikeys for one merchant and mode.  Rotate is the statements   *)
(* of Create and Revoke, with no transaction around them.                  *)
(***************************************************************************)
EXTENDS Naturals

CONSTANTS
    ApiKey,         \* rows of api_keys
    Rotator,        \* HTTP requests that call Rotate
    MaxKeyFailures  \* bound on statements that fail and requests that are lost

ASSUME ApiKeysAssumption == MaxKeyFailures \in Nat

VARIABLES
    keys,         \* "absent", "active" or "revoked"
    rotateStep,   \* what each Rotate does next
    rotateKey,    \* the key it was called for
    byHand,       \* history: keys that Revoke was called for
    keyFailures

keyVars == <<keys, rotateStep, rotateKey, byHand, keyFailures>>

ApiKeysInit ==
    /\ keys = [k \in ApiKey |-> "absent"]
    /\ rotateStep = [c \in Rotator |-> "idle"]
    /\ rotateKey = [c \in Rotator |-> "none"]
    /\ byHand = {}
    /\ keyFailures = 0

RotateTo(c, next) ==
    /\ rotateStep' = [rotateStep EXCEPT ![c] = next]
    /\ rotateKey' = IF next = "idle" THEN [rotateKey EXCEPT ![c] = "none"] ELSE rotateKey

Create(k) ==
    /\ keys[k] = "absent"
    /\ keys' = [keys EXCEPT ![k] = "active"]

Revoke(k) ==
    /\ keys[k] = "active"
    /\ keys' = [keys EXCEPT ![k] = "revoked"]

CreateKey(k) ==
    /\ Create(k)
    /\ UNCHANGED <<rotateStep, rotateKey, byHand, keyFailures>>

RevokeKey(k) ==
    /\ Revoke(k)
    /\ byHand' = byHand \cup {k}
    /\ UNCHANGED <<rotateStep, rotateKey, keyFailures>>

-----------------------------------------------------------------------------
\* Mutant: the old key goes first.
RevokesFirst == [start |-> "revoke", create |-> "idle", revoke |-> "create"]

\* What comes after each step of Rotate.
RotateOrder == [start |-> "create", create |-> "revoke", revoke |-> "idle"]

\* Get does not ask whether the key is active.
StartRotate(c, k) ==
    /\ rotateStep[c] = "idle"
    /\ keys[k] # "absent"
    /\ rotateStep' = [rotateStep EXCEPT ![c] = RotateOrder.start]
    /\ rotateKey' = [rotateKey EXCEPT ![c] = k]
    /\ UNCHANGED <<keys, byHand, keyFailures>>

CreateNew(c) ==
    /\ rotateStep[c] = "create"
    /\ \E k \in ApiKey : Create(k)
    /\ RotateTo(c, RotateOrder.create)
    /\ UNCHANGED <<byHand, keyFailures>>

\* Who comes second gets ErrNotFound, and the key it has created stays.
RevokeOld(c) ==
    /\ rotateStep[c] = "revoke"
    /\ \/ Revoke(rotateKey[c]) /\ RotateTo(c, RotateOrder.revoke)
       \/ keys[rotateKey[c]] # "active" /\ RotateTo(c, "idle") /\ UNCHANGED keys
    /\ UNCHANGED <<byHand, keyFailures>>

\* A statement fails, or the process stops: what was done stays done.
FailRotate(c) ==
    /\ rotateStep[c] # "idle"
    /\ keyFailures < MaxKeyFailures
    /\ keyFailures' = keyFailures + 1
    /\ RotateTo(c, "idle")
    /\ UNCHANGED <<keys, byHand>>

ApiKeysNext ==
    \/ \E k \in ApiKey : CreateKey(k) \/ RevokeKey(k)
    \/ \E c \in Rotator :
         \/ \E k \in ApiKey : StartRotate(c, k)
         \/ CreateNew(c) \/ RevokeOld(c) \/ FailRotate(c)

ApiKeysSpec == ApiKeysInit /\ [][ApiKeysNext]_keyVars

-----------------------------------------------------------------------------
\* Rotation never leaves a merchant without an active key, also when it stops
\* half way or a key is rotated twice at once: only Revoke can.
RotationKeepsAKey ==
    byHand = {} /\ (\E k \in ApiKey : keys[k] # "absent") => \E k \in ApiKey : keys[k] = "active"
=============================================================================
