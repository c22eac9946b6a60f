---------------------------- MODULE AccessProofs ----------------------------
(***************************************************************************)
(* Who and what is let in: a completed recovery cuts off the old sessions, *)
(* rotation keeps a key, and an operator's switch is obeyed, for any       *)
(* number of concurrent calls, each a sequence of statements that may stop *)
(* anywhere.                                                               *)
(***************************************************************************)
EXTENDS Recovery, ApiKeys, Resilience, TLAPS

-----------------------------------------------------------------------------
(***************************************************************************)
(* Recovery.  The invariant follows a call from the change of the password *)
(* on: the sessions of that moment that are not revoked are those it has   *)
(* still to list, or has listed and not yet got to.                        *)
(***************************************************************************)
Changed == {"list", "logout", "mark"}

RecoveryType ==
    /\ sessions \in [Session -> {"absent", "open", "revoked"}]
    /\ recoveries \in [Request -> [status : {"absent", "rejected", "waiting_period", "completed"},
                                  eligible : BOOLEAN]]
    /\ completeStep \in [Customer -> {"idle", "password"} \cup Changed]
    /\ completeWork \in [Customer -> [request : Request \cup {"none"}, listed : SUBSET Session]]
    /\ \A c \in Customer : completeStep[c] # "idle" => completeWork[c].request \in Request
    /\ \A change \in cutoffs : change.before \subseteq Session

\* What a call has still to revoke.
Left(c) == CASE completeStep[c] = "list" -> OpenSessions
             [] completeStep[c] = "logout" -> completeWork[c].listed
             [] OTHER -> {}

CutOff(r, left) ==
    \E change \in cutoffs :
        change.request = r /\ \A s \in change.before : sessions[s] = "revoked" \/ s \in left

CallsCutOff == \A c \in Customer : completeStep[c] \in Changed => CutOff(completeWork[c].request, Left(c))
CompletedCutOff == \A r \in Request : recoveries[r].status = "completed" => CutOff(r, {})

CutOffInv == RecoveryType /\ CallsCutOff /\ CompletedCutOff

\* No session, no request, nobody recovering.
LEMMA CutOffInitially == RecoveryInit => CutOffInv
  BY DEF RecoveryInit, CutOffInv, RecoveryType, CallsCutOff, CompletedCutOff, Changed, NoWork

\* Sessions that are revoked stay so, and what a call has to revoke is only left
\* out when it is revoked.
LEMMA CutOffKeeps ==
    ASSUME NEW r, NEW left, NEW later, CutOff(r, left), RecoveryType, cutoffs \subseteq cutoffs',
           \A s \in Session : sessions[s] = "revoked" => sessions'[s] = "revoked",
           \A s \in Session \cap left : sessions'[s] = "revoked" \/ s \in later
    PROVE  \E change \in cutoffs' :
             change.request = r /\ \A s \in change.before : sessions'[s] = "revoked" \/ s \in later
  BY DEF CutOff, RecoveryType

\* Every statement of Complete, a login, a logout and a lost request keep it.
LEMMA CutOffStep == CutOffInv /\ [RecoveryNext]_recoveryVars => CutOffInv'
<1> SUFFICES ASSUME CutOffInv, [RecoveryNext]_recoveryVars PROVE CutOffInv'
  OBVIOUS
<1> USE DEF CutOffInv, RecoveryType, Changed, OpenSessions
<1>a. ASSUME cutoffs \subseteq cutoffs',
             \A s \in Session : sessions[s] = "revoked" => sessions'[s] = "revoked",
             \A r \in Request : recoveries'[r].status = "completed" => recoveries[r].status = "completed"
      PROVE  CompletedCutOff'
  <2> SUFFICES ASSUME NEW r \in Request, recoveries'[r].status = "completed" PROVE CutOff(r, {})'
    BY DEF CompletedCutOff
  <2>1. CutOff(r, {})
    BY <1>a DEF CompletedCutOff
  <2> QED
    BY <1>a, <2>1, CutOffKeeps DEF CutOff
<1>b. ASSUME cutoffs \subseteq cutoffs', NEW c \in Customer,
             \A s \in Session : sessions[s] = "revoked" => sessions'[s] = "revoked",
             completeStep[c] \in Changed, completeStep'[c] = completeStep[c],
             completeWork'[c] = completeWork[c],
             \A s \in Session : sessions[s] = "open" => sessions'[s] \in {"open", "revoked"}
      PROVE  CutOff(completeWork[c].request, Left(c))'
  <2>1. CutOff(completeWork[c].request, Left(c))
    BY <1>b DEF CallsCutOff
  <2>2. \A s \in Session \cap Left(c) : sessions'[s] = "revoked" \/ s \in Left(c)'
    BY <1>b DEF Left
  <2> QED
    BY <1>b, <2>1, <2>2, CutOffKeeps DEF CutOff
<1>1. ASSUME NEW s \in Session, Login(s) \/ Logout(s) PROVE CutOffInv'
  <2>1. RecoveryType'
    BY <1>1 DEF Login, Logout, Revoked
  <2>2. CallsCutOff'
    BY <1>1, <1>b DEF Login, Logout, Revoked, CallsCutOff
  <2> QED
    BY <1>1, <1>a, <2>1, <2>2 DEF Login, Logout, Revoked
<1>2. ASSUME NEW r \in Request, Initiate(r) \/ BecomesEligible(r) PROVE CutOffInv'
  <2>1. RecoveryType'
    BY <1>2 DEF Initiate, BecomesEligible
  <2>2. CallsCutOff'
    BY <1>2, <1>b DEF Initiate, BecomesEligible, CallsCutOff
  <2>3. \A q \in Request : recoveries'[q].status = "completed" => recoveries[q].status = "completed"
    <3>1. CASE Initiate(r)
      <4>1. PICK status \in {"rejected", "waiting_period"} :
              recoveries' = [recoveries EXCEPT ![r].status = status]
        BY <3>1 DEF Initiate
      <4> QED
        BY <4>1
    <3>2. CASE BecomesEligible(r)
      BY <3>2 DEF BecomesEligible
    <3> QED
      BY <1>2, <3>1, <3>2
  <2> QED
    BY <1>2, <1>a, <2>1, <2>2, <2>3 DEF Initiate, BecomesEligible
<1>3. ASSUME NEW c \in Customer, NEW r \in Request, StartComplete(c, r) PROVE CutOffInv'
  <2>1. RecoveryType'
    BY <1>3 DEF StartComplete, At
  <2>2. CallsCutOff'
    BY <1>3, <1>b DEF StartComplete, At, CallsCutOff
  <2> QED
    BY <1>3, <1>a, <2>1, <2>2 DEF StartComplete, At
<1>4. ASSUME NEW c \in Customer, ChangePassword(c) PROVE CutOffInv'
  <2>1. RecoveryType'
    BY <1>4 DEF ChangePassword, At
  <2> DEFINE change == [request |-> completeWork[c].request, before |-> OpenSessions]
  <2>a. Left(c)' = OpenSessions
    BY <1>4 DEF ChangePassword, At, Left
  <2>b. change \in cutoffs' /\ \A s \in change.before : s \in Left(c)'
    BY <1>4, <2>a DEF ChangePassword
  <2>c. completeWork'[c].request = change.request
    BY <1>4 DEF ChangePassword
  <2>2. CutOff(completeWork[c].request, Left(c))'
    BY <2>b, <2>c DEF CutOff
  <2>3. CallsCutOff'
    BY <1>4, <1>b, <2>2 DEF ChangePassword, At, CallsCutOff
  <2> QED
    BY <1>4, <1>a, <2>1, <2>3 DEF ChangePassword
<1>5. ASSUME NEW c \in Customer, ListSessions(c) PROVE CutOffInv'
  <2>a. PICK next \in Changed : completeStep' = [completeStep EXCEPT ![c] = next]
    BY <1>5 DEF ListSessions, At
  <2>1. RecoveryType'
    BY <1>5, <2>a DEF ListSessions, At
  <2>2. CutOff(completeWork[c].request, OpenSessions)
    BY <1>5 DEF ListSessions, At, CallsCutOff, Left
  <2>3. Left(c)' = OpenSessions
    BY <1>5 DEF ListSessions, At, Left
  <2>4. CutOff(completeWork[c].request, Left(c))'
    BY <1>5, <2>2, <2>3, CutOffKeeps DEF ListSessions, CutOff
  <2>5. CallsCutOff'
    BY <1>5, <1>b, <2>4 DEF ListSessions, At, CallsCutOff
  <2> QED
    BY <1>5, <1>a, <2>1, <2>5 DEF ListSessions
<1>6. ASSUME NEW c \in Customer, RevokeSession(c) PROVE CutOffInv'
  <2>1. CutOff(completeWork[c].request, completeWork[c].listed)
    BY <1>6 DEF RevokeSession, CallsCutOff, Left
  <2>2. CASE completeStep'[c] = "idle"
    <3>a. Return(c) /\ UNCHANGED <<sessions, recoveries, cutoffs>>
      BY <1>6, <2>2 DEF RevokeSession, At
    <3>1. RecoveryType'
      BY <3>a DEF Return, NoWork
    <3>2. CallsCutOff'
      BY <1>6, <2>2, <1>b DEF RevokeSession, At, Return, Revoked, CallsCutOff
    <3> QED
      BY <1>6, <1>a, <3>1, <3>2 DEF RevokeSession, Revoked
  <2>3. CASE completeStep'[c] # "idle"
    <3>1. PICK s \in completeWork[c].listed :
            /\ Revoked(s)
            /\ At(c, "logout", IF completeWork[c].listed = {s} THEN "mark" ELSE "logout")
            /\ completeWork' = [completeWork EXCEPT ![c].listed = completeWork[c].listed \ {s}]
      BY <1>6, <2>3 DEF RevokeSession, Return
    <3>2. /\ UNCHANGED <<recoveries, cutoffs>>
          /\ \A q \in Session : sessions[q] = "revoked" => sessions'[q] = "revoked"
          /\ \A q \in Session : sessions[q] = "open" => sessions'[q] \in {"open", "revoked"}
      BY <1>6, <3>1 DEF RevokeSession, Revoked
    <3>a. PICK next \in Changed : completeStep' = [completeStep EXCEPT ![c] = next]
      BY <3>1 DEF At
    <3>3. RecoveryType'
      BY <3>1, <3>2, <3>a DEF At, Revoked
    <3>4. completeWork'[c].request = completeWork[c].request
      BY <3>1
    <3>5. \A q \in Session \cap completeWork[c].listed : sessions'[q] = "revoked" \/ q \in Left(c)'
      BY <3>1 DEF At, Revoked, Left
    <3>6. CutOff(completeWork[c].request, Left(c))'
      BY <2>1, <3>2, <3>4, <3>5, CutOffKeeps DEF CutOff
    <3>7. CallsCutOff'
      BY <1>b, <3>1, <3>2, <3>6 DEF At, CallsCutOff
    <3> QED
      BY <1>a, <3>2, <3>3, <3>7
  <2> QED
    BY <2>2, <2>3
<1>7. ASSUME NEW c \in Customer, MarkCompleted(c) PROVE CutOffInv'
  <2>1. RecoveryType'
    BY <1>7 DEF MarkCompleted, Return, NoWork
  <2>2. CallsCutOff'
    BY <1>7, <1>b DEF MarkCompleted, Return, CallsCutOff
  <2>3. CutOff(completeWork[c].request, {})
    BY <1>7 DEF MarkCompleted, CallsCutOff, Left
  <2>4. CompletedCutOff'
    BY <1>7, <2>3 DEF MarkCompleted, CompletedCutOff, CutOff
  <2> QED
    BY <2>1, <2>2, <2>4
<1>8. ASSUME NEW c \in Customer, FailRequest(c) PROVE CutOffInv'
  <2>1. RecoveryType'
    BY <1>8 DEF FailRequest, Return, NoWork
  <2>2. CallsCutOff'
    BY <1>8, <1>b DEF FailRequest, Return, CallsCutOff
  <2> QED
    BY <1>8, <1>a, <2>1, <2>2 DEF FailRequest
<1>9. CASE UNCHANGED recoveryVars
  <2>1. RecoveryType'
    BY <1>9 DEF recoveryVars
  <2>2. CallsCutOff'
    BY <1>9, <1>b DEF recoveryVars, CallsCutOff
  <2> QED
    BY <1>9, <1>a, <2>1, <2>2 DEF recoveryVars
<1> QED
  BY <1>1, <1>2, <1>3, <1>4, <1>5, <1>6, <1>7, <1>8, <1>9 DEF RecoveryNext

\* When a recovery is completed, every session that was open at the moment its
\* password was set is revoked (recovery.go Complete), however many callers
\* complete it at once, wherever they stop, and whoever logs out meanwhile.
THEOREM CompletedRecoveryCutsOff == RecoverySpec => []RecoveryCutsOff
<1>1. CutOffInv => RecoveryCutsOff
  BY DEF CutOffInv, CompletedCutOff, CutOff, RecoveryCutsOff
<1> QED
  BY CutOffInitially, CutOffStep, <1>1, PTL DEF RecoverySpec

-----------------------------------------------------------------------------
(***************************************************************************)
(* API keys.  RotationKeepsAKey alone is not inductive: the one active key *)
(* might be the next to be revoked.  But a rotation revokes only after it  *)
(* has created a key that nobody can have been rotating, so there is always*)
(* an active key that no rotation is about to revoke.                      *)
(***************************************************************************)
KeysType ==
    /\ keys \in [ApiKey -> {"absent", "active", "revoked"}]
    /\ rotateStep \in [Rotator -> {"idle", "create", "revoke"}]
    /\ DOMAIN rotateKey = Rotator

\* The key of a rotation under way has been created.
RotatesRows ==
    \A c \in Rotator : rotateStep[c] # "idle" =>
        rotateKey[c] \in ApiKey /\ keys[rotateKey[c]] # "absent"

Doomed(k) == \E c \in Rotator : rotateStep[c] = "revoke" /\ rotateKey[c] = k
KeyRemains ==
    byHand = {} /\ (\E k \in ApiKey : keys[k] # "absent") =>
        \E k \in ApiKey : keys[k] = "active" /\ ~Doomed(k)

KeysInv == KeysType /\ RotatesRows /\ KeyRemains

\* The initial tables: no key at all.
LEMMA KeysInitially == ApiKeysInit => KeysInv
  BY DEF ApiKeysInit, KeysInv, KeysType, RotatesRows, KeyRemains, Doomed

\* Every operation of apikeys.go, and a request lost within Rotate, keeps it.
LEMMA KeysStep == KeysInv /\ [ApiKeysNext]_keyVars => KeysInv'
<1> SUFFICES ASSUME KeysInv, [ApiKeysNext]_keyVars PROVE KeysInv'
  OBVIOUS
<1> USE DEF KeysInv, KeysType, RotatesRows, KeyRemains, Doomed
<1>1. ASSUME NEW k \in ApiKey, CreateKey(k) PROVE KeysInv'
  <2>1. ~Doomed(k)
    BY <1>1 DEF CreateKey, Create
  <2>2. KeyRemains'
    BY <1>1, <2>1 DEF CreateKey, Create
  <2> QED
    BY <1>1, <2>2 DEF CreateKey, Create
<1>2. ASSUME NEW k \in ApiKey, RevokeKey(k) PROVE KeysInv'
  BY <1>2 DEF RevokeKey, Revoke
<1>3. ASSUME NEW c \in Rotator, NEW k \in ApiKey, StartRotate(c, k) PROVE KeysInv'
  <2>1. \A k2 \in ApiKey : ~Doomed(k2) => ~Doomed(k2)'
    BY <1>3 DEF StartRotate, RotateOrder
  <2>2. KeyRemains'
    BY <1>3, <2>1 DEF StartRotate
  <2> QED
    BY <1>3, <2>2 DEF StartRotate, RotateOrder
<1>4. ASSUME NEW c \in Rotator, CreateNew(c) PROVE KeysInv'
  <2>1. PICK k \in ApiKey : Create(k)
    BY <1>4 DEF CreateNew
  <2>2. rotateStep' = [rotateStep EXCEPT ![c] = "revoke"] /\ rotateKey' = rotateKey /\ byHand' = byHand
    BY <1>4 DEF CreateNew, RotateTo, RotateOrder
  <2>3. keys' = [keys EXCEPT ![k] = "active"] /\ keys[k] = "absent" /\ rotateStep[c] = "create"
    BY <1>4, <2>1 DEF Create, CreateNew
  <2>4. ~Doomed(k)'
    BY <2>2, <2>3
  <2>5. KeyRemains'
    BY <2>3, <2>4
  <2> QED
    BY <2>2, <2>3, <2>5
<1>5. ASSUME NEW c \in Rotator, RevokeOld(c) PROVE KeysInv'
  <2>1. /\ rotateStep' = [rotateStep EXCEPT ![c] = "idle"]
        /\ rotateKey' = [rotateKey EXCEPT ![c] = "none"]
        /\ byHand' = byHand
        /\ rotateStep[c] = "revoke"
    BY <1>5 DEF RevokeOld, RotateTo, RotateOrder
  <2>2. keys' = keys \/ keys' = [keys EXCEPT ![rotateKey[c]] = "revoked"]
    BY <1>5 DEF RevokeOld, Revoke
  <2>3. \A k \in ApiKey : ~Doomed(k) => ~Doomed(k)' /\ keys'[k] = keys[k]
    BY <2>1, <2>2
  <2>4. KeyRemains'
    BY <2>1, <2>2, <2>3
  <2> QED
    BY <2>1, <2>2, <2>4
<1>6. ASSUME NEW c \in Rotator, FailRotate(c) PROVE KeysInv'
  <2>1. \A k \in ApiKey : ~Doomed(k) => ~Doomed(k)'
    BY <1>6 DEF FailRotate, RotateTo
  <2>2. KeyRemains'
    BY <1>6, <2>1 DEF FailRotate
  <2> QED
    BY <1>6, <2>2 DEF FailRotate, RotateTo
<1>7. CASE UNCHANGED keyVars
  BY <1>7 DEF keyVars
<1> QED
  BY <1>1, <1>2, <1>3, <1>4, <1>5, <1>6, <1>7 DEF ApiKeysNext

\* As long as nobody revokes a key by hand, a merchant who has had a key has an
\* active one, however many rotations run at once and wherever they stop
\* (apikeys.go Rotate creates the new key before it revokes the old one).
THEOREM RotationIsSafe == ApiKeysSpec => []RotationKeepsAKey
<1>1. KeysInv => RotationKeepsAKey
  BY DEF KeysInv, KeyRemains, RotationKeepsAKey
<1> QED
  BY KeysInitially, KeysStep, <1>1, PTL DEF ApiKeysSpec

-----------------------------------------------------------------------------
(***************************************************************************)
(* The switches.  An operator's change is visible at once on the           *)
(* operator's own instance.  The invariant says why: what a snapshot that  *)
(* is fresh has seen, and what a refresh under way will have seen, is      *)
(* never behind what the instance's operators have been told, because an   *)
(* invalidation waits for the refresh and then ends its snapshot.          *)
(***************************************************************************)

Answered(g) == checks[g].step \in {"admitted", "refused"}
Asking(g) == checks[g].step \in {"look", "lock", "mode", "switches"}
Refreshing(g) == checks[g].step \in {"mode", "switches"}

Snapshot == [readOnly : BOOLEAN, tripped : SUBSET Scope, fresh : BOOLEAN, asOf : Nat]

\* Counters of commits, and the shape of the records that hold them.
Counts ==
    /\ readOnly \in BOOLEAN /\ tripped \in SUBSET Scope
    /\ changes \in Nat
    /\ visible \in [Server -> Nat] /\ \A i \in Server : visible[i] <= changes
    /\ operators \in [Operator -> Nat] /\ \A o \in Operator : operators[o] <= changes
    /\ DOMAIN checks = Mover /\ DOMAIN lock = Server
    /\ cache \in [Server -> Snapshot]
    /\ \A g \in Mover :
         /\ Asking(g) \/ Answered(g) => checks[g].since \in Nat
         /\ checks[g].step = "switches" \/ Answered(g) => checks[g].asOf \in Nat
         /\ checks[g].step = "switches" => checks[g].readOnly \in BOOLEAN

\* Who refreshes holds the lock.
LockHeld == \A g \in Mover : Refreshing(g) => lock[HomeOf[g]] = g

\* A fresh snapshot, and one that is being read, has seen what is visible.
FreshIsCurrent ==
    /\ \A i \in Server : cache[i].fresh => cache[i].asOf >= visible[i]
    /\ \A g \in Mover : checks[g].step = "switches" => checks[g].asOf >= visible[HomeOf[g]]

\* What was visible when Check was called still is.
SinceIsPast == \A g \in Mover : Asking(g) => checks[g].since <= visible[HomeOf[g]]

CheckInv == Counts /\ LockHeld /\ FreshIsCurrent /\ SinceIsPast /\ OwnChangeIsVisible

\* Empty snapshots, and nobody asking.
LEMMA CheckInitially == ResilienceInit => CheckInv
<1> SUFFICES ASSUME ResilienceInit PROVE CheckInv
  OBVIOUS
<1>1. \A g \in Mover : checks[g].step = "idle"
  BY DEF ResilienceInit, NoCheck
<1>2. EmptyCache \in Snapshot /\ ~EmptyCache.fresh
  BY DEF EmptyCache, Snapshot
<1>3. Counts
  <2>1. readOnly \in BOOLEAN /\ tripped \in SUBSET Scope
    BY DEF ResilienceInit
  <2>2. cache \in [Server -> Snapshot]
    BY <1>2 DEF ResilienceInit
  <2>3. /\ changes \in Nat
        /\ visible \in [Server -> Nat] /\ \A i \in Server : visible[i] <= changes
        /\ operators \in [Operator -> Nat] /\ \A o \in Operator : operators[o] <= changes
    BY DEF ResilienceInit
  <2>4. DOMAIN checks = Mover /\ DOMAIN lock = Server
    BY DEF ResilienceInit
  <2> QED
    BY <1>1, <2>1, <2>2, <2>3, <2>4 DEF Counts, Answered, Asking
<1> QED
  BY <1>1, <1>2, <1>3 DEF ResilienceInit, CheckInv, LockHeld, FreshIsCurrent, SinceIsPast,
     OwnChangeIsVisible, Asking, Refreshing

\* Every step of Check, of an operator, of time and of a restart keeps it.
LEMMA CheckStepKeeps == CheckInv /\ [ResilienceNext]_resilienceVars => CheckInv'
<1> SUFFICES ASSUME CheckInv, [ResilienceNext]_resilienceVars PROVE CheckInv'
  OBVIOUS
<1> USE ResilienceAssumption
    DEF CheckInv, Counts, LockHeld, FreshIsCurrent, SinceIsPast, OwnChangeIsVisible,
        Answered, Asking, Refreshing, switchVars, Snapshot
<1>1. ASSUME NEW g \in Mover, NEW sc \in Scope, StartCheck(g, {sc}) PROVE CheckInv'
  BY <1>1 DEF StartCheck, SetCheck
<1>2. ASSUME NEW g \in Mover, Look(g) PROVE CheckInv'
  BY <1>2 DEF Look, SetCheck, Judged, Verdict
<1>3. ASSUME NEW g \in Mover, Lock(g) PROVE CheckInv'
  <2>1. CASE cache[HomeOf[g]].fresh
    BY <1>3, <2>1 DEF Lock, SetCheck, Judged, Verdict
  <2>2. CASE ~cache[HomeOf[g]].fresh
    <3>1. /\ checks' = [checks EXCEPT ![g].step = "mode"]
          /\ lock' = [lock EXCEPT ![HomeOf[g]] = g]
          /\ lock[HomeOf[g]] = "free" /\ checks[g].step = "lock"
          /\ UNCHANGED <<switchVars, cache, changes, operators, visible>>
      BY <1>3, <2>2 DEF Lock, SetCheck
    <3>2. \A h \in Mover : Refreshing(h) => HomeOf[h] # HomeOf[g]
      BY <3>1
    <3> QED
      BY <3>1, <3>2
  <2> QED
    BY <2>1, <2>2
<1>4. ASSUME NEW g \in Mover, ReadMode(g) PROVE CheckInv'
  BY <1>4 DEF ReadMode, SetCheck
<1>5. ASSUME NEW g \in Mover, ReadSwitches(g) PROVE CheckInv'
  BY <1>5 DEF ReadSwitches, SetCheck, Judged, Verdict
<1>6. ASSUME NEW g \in Mover, ReadFails(g) PROVE CheckInv'
  BY <1>6 DEF ReadFails, SetCheck
<1>7. ASSUME NEW g \in Mover, EndCheck(g) PROVE CheckInv'
  BY <1>7 DEF EndCheck, SetCheck, NoCheck
<1>8. ASSUME NEW o \in Operator, SetReadOnly(o) \/ SetKillSwitch(o) PROVE CheckInv'
  <2>1. readOnly' \in BOOLEAN /\ tripped' \in SUBSET Scope
    BY <1>8 DEF SetReadOnly, SetKillSwitch
  <2>2. Commit(o)
    BY <1>8 DEF SetReadOnly, SetKillSwitch
  <2> QED
    BY <2>1, <2>2 DEF Commit
<1>9. ASSUME NEW o \in Operator, Invalidate(o) PROVE CheckInv'
  <2>1. \A i \in Server : visible'[i] \in Nat /\ visible'[i] >= visible[i] /\ visible'[i] <= changes
    BY <1>9 DEF Invalidate, Returned
  <2>2. \A i \in Server : i # HomeOf[o] => visible'[i] = visible[i]
    BY <1>9 DEF Invalidate, Returned
  <2>3. \A g \in Mover : Refreshing(g) => HomeOf[g] # HomeOf[o]
    BY <1>9 DEF Invalidate
  <2>4. /\ operators' = [operators EXCEPT ![o] = 0]
        /\ visible' \in [Server -> Nat]
        /\ cache' = [cache EXCEPT ![HomeOf[o]].fresh = FALSE]
        /\ UNCHANGED <<switchVars, lock, checks, changes>>
    BY <1>9 DEF Invalidate, Returned
  <2>5. FreshIsCurrent' /\ SinceIsPast'
    BY <2>1, <2>2, <2>3, <2>4
  <2>6. \A p \in Operator : operators'[p] \in Nat /\ operators'[p] <= changes'
    BY <2>4
  <2>7. cache' \in [Server -> Snapshot]
    BY <2>4
  <2>8. Counts'
    BY <2>1, <2>4, <2>6, <2>7
  <2>9. LockHeld' /\ OwnChangeIsVisible'
    BY <2>4
  <2> QED
    BY <2>5, <2>8, <2>9
<1>10. ASSUME NEW i \in Server, Expire(i) PROVE CheckInv'
  BY <1>10 DEF Expire
<1>11. ASSUME NEW i \in Server, Restart(i) PROVE CheckInv'
  BY <1>11 DEF Restart, EmptyCache, NoCheck
<1>12. CASE UNCHANGED resilienceVars
  BY <1>12 DEF resilienceVars
<1> QED
  BY <1>1, <1>2, <1>3, <1>4, <1>5, <1>6, <1>7, <1>8, <1>9, <1>10, <1>11, <1>12
  DEF ResilienceNext, CheckStep

\* A change that SetKillSwitch or SetReadOnly has returned for is in the answer of
\* every Check called later on that instance (store.go: "so the calling process's
\* own next Check sees the change").
THEOREM OwnChangesAreVisible == ResilienceSpec => []OwnChangeIsVisible
<1>1. CheckInv => OwnChangeIsVisible
  BY DEF CheckInv
<1> QED
  BY CheckInitially, CheckStepKeeps, <1>1, PTL DEF ResilienceSpec
=============================================================================
