------------------------------ MODULE Recovery ------------------------------
(***************************************************************************)
(* Sessions and the recovery of one identity (internal/auth, recovery).    *)
(* Complete is several statements with no transaction around them, each an *)
(* action here; what only reads, or is data (passwords, devices, factors,  *)
(* the expiry of a session), is left out.                                  *)
(***************************************************************************)
EXTENDS Naturals

CONSTANTS
    Session,            \* rows of sessions
    Request,            \* rows of account_recovery_requests
    Customer,           \* HTTP requests that call Complete
    MaxRecoveryFailures \* bound on statements that fail and requests that are lost

ASSUME RecoveryAssumption == MaxRecoveryFailures \in Nat

VARIABLES
    sessions,         \* "absent", "open" or "revoked"
    recoveries,       \* status, and whether eligible_at is past
    completeStep,     \* what each Complete does next
    completeWork,     \* its request, and the sessions it has listed
    cutoffs,          \* history: changes of the password, with the sessions there were
    recoveryFailures

recoveryVars == <<sessions, recoveries, completeStep, completeWork, cutoffs, recoveryFailures>>
NoWork == [request |-> "none", listed |-> {}]

RecoveryInit ==
    /\ sessions = [s \in Session |-> "absent"]
    /\ recoveries = [r \in Request |-> [status |-> "absent", eligible |-> FALSE]]
    /\ completeStep = [c \in Customer |-> "idle"]
    /\ completeWork = [c \in Customer |-> NoWork]
    /\ cutoffs = {}
    /\ recoveryFailures = 0

At(c, here, next) ==
    /\ completeStep[c] = here
    /\ completeStep' = [completeStep EXCEPT ![c] = next]

Return(c) ==
    /\ completeStep' = [completeStep EXCEPT ![c] = "idle"]
    /\ completeWork' = [completeWork EXCEPT ![c] = NoWork]

OpenSessions == {s \in Session : sessions[s] = "open"}

-----------------------------------------------------------------------------
(***************************************************************************)
(* Login and Logout.  A session that has expired is revoked like another.  *)
(***************************************************************************)
Login(s) ==
    /\ sessions[s] = "absent"
    /\ sessions' = [sessions EXCEPT ![s] = "open"]
    /\ UNCHANGED <<recoveries, completeStep, completeWork, cutoffs, recoveryFailures>>

Revoked(s) ==
    /\ sessions[s] = "open"
    /\ sessions' = [sessions EXCEPT ![s] = "revoked"]

Logout(s) ==
    /\ Revoked(s)
    /\ UNCHANGED <<recoveries, completeStep, completeWork, cutoffs, recoveryFailures>>

-----------------------------------------------------------------------------
(***************************************************************************)
(* Recovery: Initiate, and the statements of Complete.                     *)
(***************************************************************************)
Initiate(r) ==
    /\ recoveries[r].status = "absent"
    /\ \E status \in {"rejected", "waiting_period"} : recoveries' = [recoveries EXCEPT ![r].status = status]
    /\ UNCHANGED <<sessions, completeStep, completeWork, cutoffs, recoveryFailures>>

BecomesEligible(r) ==
    /\ recoveries[r].status # "absent" /\ ~recoveries[r].eligible
    /\ recoveries' = [recoveries EXCEPT ![r].eligible = TRUE]
    /\ UNCHANGED <<sessions, completeStep, completeWork, cutoffs, recoveryFailures>>

\* Any other request is refused with ErrNotEligible.
StartComplete(c, r) ==
    /\ recoveries[r].status = "waiting_period" /\ recoveries[r].eligible
    /\ At(c, "idle", "password")
    /\ completeWork' = [completeWork EXCEPT ![c].request = r]
    /\ UNCHANGED <<sessions, recoveries, cutoffs, recoveryFailures>>

ChangePassword(c) ==
    /\ At(c, "password", "list")
    /\ cutoffs' = cutoffs \cup {[request |-> completeWork[c].request, before |-> OpenSessions]}
    /\ UNCHANGED <<sessions, recoveries, completeWork, recoveryFailures>>

ListSessions(c) ==
    /\ At(c, "list", IF OpenSessions = {} THEN "mark" ELSE "logout")
    /\ completeWork' = [completeWork EXCEPT ![c].listed = OpenSessions]
    /\ UNCHANGED <<sessions, recoveries, cutoffs, recoveryFailures>>

\* Logout of a listed session; one that has been revoked since is an error, and
\* Complete returns it.
RevokeSession(c) ==
    LET left == completeWork[c].listed
    IN  /\ completeStep[c] = "logout"
        /\ \E s \in left :
             \/ /\ Revoked(s)
                /\ At(c, "logout", IF left = {s} THEN "mark" ELSE "logout")
                /\ completeWork' = [completeWork EXCEPT ![c].listed = left \ {s}]
             \/ sessions[s] # "open" /\ Return(c) /\ UNCHANGED sessions
        /\ UNCHANGED <<recoveries, cutoffs, recoveryFailures>>

\* Unless another caller was faster, who is told ErrNotEligible.
MarkCompleted(c) ==
    LET r == completeWork[c].request
    IN  /\ completeStep[c] = "mark"
        /\ recoveries' = IF recoveries[r].status = "waiting_period"
                         THEN [recoveries EXCEPT ![r].status = "completed"] ELSE recoveries
        /\ Return(c)
        /\ UNCHANGED <<sessions, cutoffs, recoveryFailures>>

-----------------------------------------------------------------------------
RecoveryFailure == recoveryFailures < MaxRecoveryFailures /\ recoveryFailures' = recoveryFailures + 1

\* Mutant: a session whose Logout fails is passed over.
FailAndGoOn(c) ==
    /\ RecoveryFailure
    /\ \/ completeStep[c] \notin {"idle", "logout"} /\ Return(c)
       \/ \E s \in completeWork[c].listed :
            /\ At(c, "logout", IF completeWork[c].listed = {s} THEN "mark" ELSE "logout")
            /\ completeWork' = [completeWork EXCEPT ![c].listed = @ \ {s}]
    /\ UNCHANGED <<sessions, recoveries, cutoffs>>

\* A statement fails, or the process stops: what was done stays done.
FailRequest(c) ==
    /\ RecoveryFailure
    /\ completeStep[c] # "idle"
    /\ Return(c)
    /\ UNCHANGED <<sessions, recoveries, cutoffs>>

RecoveryNext ==
    \/ \E s \in Session : Login(s) \/ Logout(s)
    \/ \E r \in Request : Initiate(r) \/ BecomesEligible(r)
    \/ \E c \in Customer :
         \/ \E r \in Request : StartComplete(c, r)
         \/ ChangePassword(c) \/ ListSessions(c) \/ RevokeSession(c) \/ MarkCompleted(c)
         \/ FailRequest(c)

RecoverySpec == RecoveryInit /\ [][RecoveryNext]_recoveryVars

-----------------------------------------------------------------------------
\* A recovery is completed only after its password was set and every session
\* there was at that moment is revoked (recovery.go Complete: "revokes every
\* active session"), with customers who log out meanwhile, calls that stop half
\* way and are made again, and two of them at once.
RecoveryCutsOff ==
    \A r \in Request : recoveries[r].status = "completed" =>
        \E change \in cutoffs :
            change.request = r /\ \A s \in change.before : sessions[s] = "revoked"
=============================================================================
