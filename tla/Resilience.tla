----------------------------- MODULE Resilience -----------------------------
(***************************************************************************)
(* internal/resilience: kill switches and read-only mode, and the snapshot *)
(* of them that each instance keeps in memory behind a RWMutex.  Whoever   *)
(* moves money asks Check first; it answers from the snapshot while it is  *)
(* fresh and otherwise reads the two tables, one after the other, with the *)
(* lock held for writing.  An operator's change is a commit and then, on   *)
(* its own instance only, an invalidation, which waits for the lock.  Go's *)
(* readers hold the lock for no step of their own.                         *)
(***************************************************************************)
EXTENDS Naturals, FiniteSets

CONSTANTS
    Server,
    Mover,          \* goroutines that move money
    Operator,       \* requests of the admin surface
    HomeOf,         \* the instance of each
    Scope,          \* scopes of kill switches
    MaxChanges,     \* bound on operators' changes
    MaxReadErrors   \* bound on reads of the two tables that fail, and on restarts

ASSUME ResilienceAssumption ==
    /\ \A x \in Mover \cup Operator : HomeOf[x] \in Server
    /\ Mover \cap Operator = {} /\ "free" \notin Mover
    /\ MaxChanges \in Nat /\ MaxReadErrors \in Nat

VARIABLES
    readOnly,   \* system_mode.read_only
    tripped,    \* kill_switches that are disabled
    cache,      \* per instance, [readOnly, tripped, fresh, asOf]
    lock,       \* per instance, who holds it for writing
    checks,     \* per mover, its call of Check
    changes,    \* history: commits of operators
    operators,  \* per operator: "idle", or the commit it has yet to invalidate for
    visible,    \* history: per instance, the last commit a SetX there has returned for
    readErrors

switchVars == <<readOnly, tripped>>
resilienceVars == <<switchVars, cache, lock, checks, changes, operators, visible, readErrors>>

\* The zero value's fetchedAt lies more than any ttl back.  asOf, a history
\* field, counts the commits the first of the two reads has seen.
EmptyCache == [readOnly |-> FALSE, tripped |-> {}, fresh |-> FALSE, asOf |-> 0]
NoCheck == [step |-> "idle"]

ResilienceInit ==
    /\ readOnly = FALSE /\ tripped = {}
    /\ cache = [i \in Server |-> EmptyCache]
    /\ lock = [i \in Server |-> "free"]
    /\ checks = [g \in Mover |-> NoCheck]
    /\ changes = 0
    /\ operators = [o \in Operator |-> 0]
    /\ visible = [i \in Server |-> 0]
    /\ readErrors = 0

-----------------------------------------------------------------------------
(***************************************************************************)
(* Check and snapshot.                                                     *)
(***************************************************************************)
SetCheck(g, c) == checks' = [checks EXCEPT ![g] = c]

\* since is what SetX has returned for, on this instance, when Check is called.
StartCheck(g, scopes) ==
    /\ checks[g].step = "idle"
    /\ SetCheck(g, [step |-> "look", scopes |-> scopes, since |-> visible[HomeOf[g]]])
    /\ UNCHANGED <<switchVars, cache, lock, changes, operators, visible, readErrors>>

Verdict(scopes, state) == IF state.readOnly \/ scopes \cap state.tripped # {} THEN "refused" ELSE "admitted"
Judged(c, state) ==
    [step |-> Verdict(c.scopes, state), scopes |-> c.scopes, since |-> c.since, asOf |-> state.asOf]

\* RLock waits for a writer.
Look(g) ==
    LET i == HomeOf[g]
    IN  /\ checks[g].step = "look" /\ lock[i] = "free"
        /\ SetCheck(g, IF cache[i].fresh THEN Judged(checks[g], cache[i]) ELSE [checks[g] EXCEPT !.step = "lock"])
        /\ UNCHANGED <<switchVars, cache, lock, changes, operators, visible, readErrors>>

\* "Another goroutine may have refreshed while we waited for the lock."
Lock(g) ==
    LET i == HomeOf[g]
    IN  /\ checks[g].step = "lock" /\ lock[i] = "free"
        /\ \/ cache[i].fresh /\ SetCheck(g, Judged(checks[g], cache[i])) /\ UNCHANGED lock
           \/ /\ ~cache[i].fresh
              /\ SetCheck(g, [checks[g] EXCEPT !.step = "mode"])
              /\ lock' = [lock EXCEPT ![i] = g]
        /\ UNCHANGED <<switchVars, cache, changes, operators, visible, readErrors>>

ReadMode(g) ==
    LET c == checks[g]
    IN  /\ c.step = "mode"
        /\ SetCheck(g, [step |-> "switches", scopes |-> c.scopes, since |-> c.since,
                        readOnly |-> readOnly, asOf |-> changes])
        /\ UNCHANGED <<switchVars, cache, lock, changes, operators, visible, readErrors>>

\* Mutant: a refresh keeps the switches of the snapshot before.
KeepSwitches(g) ==
    LET c == checks[g]
        i == HomeOf[g]
        state == [readOnly |-> c.readOnly, tripped |-> cache[i].tripped, fresh |-> TRUE, asOf |-> c.asOf]
    IN  /\ c.step = "switches"
        /\ cache' = [cache EXCEPT ![i] = state]
        /\ lock' = [lock EXCEPT ![i] = "free"]
        /\ SetCheck(g, Judged(c, state))
        /\ UNCHANGED <<switchVars, changes, operators, visible, readErrors>>

ReadSwitches(g) ==
    LET c == checks[g]
        i == HomeOf[g]
        state == [readOnly |-> c.readOnly, tripped |-> tripped, fresh |-> TRUE, asOf |-> c.asOf]
    IN  /\ c.step = "switches"
        /\ cache' = [cache EXCEPT ![i] = state]
        /\ lock' = [lock EXCEPT ![i] = "free"]
        /\ SetCheck(g, Judged(c, state))
        /\ UNCHANGED <<switchVars, changes, operators, visible, readErrors>>

\* Mutant: the lock is not released on the error path.
ReadFailsLocked(g) ==
    /\ checks[g].step \in {"mode", "switches"}
    /\ readErrors < MaxReadErrors
    /\ readErrors' = readErrors + 1
    /\ SetCheck(g, [step |-> "failed"])
    /\ UNCHANGED <<switchVars, cache, lock, changes, operators, visible>>

\* "Fail closed": the error is the answer.
ReadFails(g) ==
    /\ checks[g].step \in {"mode", "switches"}
    /\ readErrors < MaxReadErrors
    /\ readErrors' = readErrors + 1
    /\ SetCheck(g, [step |-> "failed"])
    /\ lock' = [lock EXCEPT ![HomeOf[g]] = "free"]
    /\ UNCHANGED <<switchVars, cache, changes, operators, visible>>

\* The caller has its answer.
EndCheck(g) ==
    /\ checks[g].step \in {"admitted", "refused", "failed"}
    /\ SetCheck(g, NoCheck)
    /\ UNCHANGED <<switchVars, cache, lock, changes, operators, visible, readErrors>>

\* The ttl of the snapshot is over.
Expire(i) ==
    /\ cache[i].fresh
    /\ cache' = [cache EXCEPT ![i].fresh = FALSE]
    /\ UNCHANGED <<switchVars, lock, checks, changes, operators, visible, readErrors>>

-----------------------------------------------------------------------------
(***************************************************************************)
(* SetReadOnly and SetKillSwitch.                                          *)
(***************************************************************************)
Commit(o) ==
    /\ operators[o] = 0
    /\ changes < MaxChanges
    /\ changes' = changes + 1
    /\ operators' = [operators EXCEPT ![o] = changes + 1]
    /\ UNCHANGED <<cache, lock, checks, visible, readErrors>>

SetReadOnly(o) == Commit(o) /\ readOnly' = ~readOnly /\ UNCHANGED tripped
SetKillSwitch(o) ==
    /\ Commit(o)
    /\ \E sc \in Scope : tripped' = IF sc \in tripped THEN tripped \ {sc} ELSE tripped \cup {sc}
    /\ UNCHANGED readOnly

Returned(o) ==
    /\ visible' = [visible EXCEPT ![HomeOf[o]] = IF operators[o] > @ THEN operators[o] ELSE @]
    /\ operators' = [operators EXCEPT ![o] = 0]

\* Mutant: the invalidation does not wait for a refresh that is under way.
InvalidateUnlocked(o) ==
    /\ operators[o] > 0
    /\ cache' = [cache EXCEPT ![HomeOf[o]].fresh = FALSE]
    /\ Returned(o)
    /\ UNCHANGED <<switchVars, lock, checks, changes, readErrors>>

Invalidate(o) ==
    /\ operators[o] > 0
    /\ lock[HomeOf[o]] = "free"
    /\ cache' = [cache EXCEPT ![HomeOf[o]].fresh = FALSE]
    /\ Returned(o)
    /\ UNCHANGED <<switchVars, lock, checks, changes, readErrors>>

-----------------------------------------------------------------------------
\* The instance restarts, with an empty snapshot.
Restart(i) ==
    /\ readErrors < MaxReadErrors
    /\ readErrors' = readErrors + 1
    /\ cache' = [cache EXCEPT ![i] = EmptyCache]
    /\ lock' = [lock EXCEPT ![i] = "free"]
    /\ checks' = [g \in Mover |-> IF HomeOf[g] = i THEN NoCheck ELSE checks[g]]
    /\ operators' = [o \in Operator |-> IF HomeOf[o] = i THEN 0 ELSE operators[o]]
    /\ UNCHANGED <<switchVars, changes, visible>>

CheckStep(g) == Look(g) \/ Lock(g) \/ ReadMode(g) \/ ReadSwitches(g)

ResilienceNext ==
    \/ \E g \in Mover : CheckStep(g) \/ EndCheck(g) \/ ReadFails(g) \/ \E sc \in Scope : StartCheck(g, {sc})
    \/ \E o \in Operator : SetReadOnly(o) \/ SetKillSwitch(o) \/ Invalidate(o)
    \/ \E i \in Server : Expire(i) \/ Restart(i)

\* Goroutines go on; a RWMutex lets everyone who waits for it in; a ttl ends.
ResilienceFairness ==
    /\ \A g \in Mover : SF_resilienceVars(CheckStep(g)) /\ WF_resilienceVars(EndCheck(g))
    /\ \A o \in Operator : SF_resilienceVars(Invalidate(o))
    /\ \A i \in Server : WF_resilienceVars(Expire(i))

ResilienceSpec == ResilienceInit /\ [][ResilienceNext]_resilienceVars /\ ResilienceFairness

-----------------------------------------------------------------------------
(***************************************************************************)
(* Properties.                                                             *)
(***************************************************************************)

\* A change that SetKillSwitch or SetReadOnly has returned for is in the answer
\* of every Check that is called on the same instance from then on (store.go: "so
\* the calling process's own next Check sees the change"), whoever was refreshing
\* the snapshot while it was committed.
OwnChangeIsVisible ==
    \A g \in Mover : checks[g].step \in {"admitted", "refused"} => checks[g].asOf >= checks[g].since

\* A switch that stays tripped is obeyed on every instance in the end, by every
\* goroutine that moves money under it.
SwitchTakesEffect ==
    \A sc \in Scope : <>[](sc \in tripped) =>
        <>[](\A g \in Mover : checks[g].step = "admitted" => sc \notin checks[g].scopes)

\* Every Check returns, and every change of an operator: the lock is released on
\* all paths.
ChecksReturn ==
    /\ \A g \in Mover : checks[g].step # "idle" ~> checks[g].step = "idle"
    /\ \A o \in Operator : operators[o] # 0 ~> operators[o] = 0
=============================================================================
