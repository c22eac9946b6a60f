--------------------------- MODULE Reconciliation ---------------------------
(***************************************************************************)
(* internal/reconciliation: a part of the money-controls goroutine of each *)
(* instance.  A tick mirrors new transfers into statement lines, marked    *)
(* ones with a wrong amount, and then matches the unmatched lines with     *)
(* their transfers.  Both halves go over what a SELECT has read, one       *)
(* statement or transaction per row; a line is named by its transfer.      *)
(***************************************************************************)
EXTENDS Outcomes

CONSTANTS
    Misreported,       \* transfers whose counterparty_ref has breakMarker in it
    MaxMatchFailures   \* bound on restarts, statements that fail and outcomes overwritten

ASSUME ReconciliationAssumption == Misreported \subseteq Transfer /\ MaxMatchFailures \in Nat

VARIABLES
    lines,        \* reconciliation_statement_lines: "none", "unmatched", "matched", "break"
    breaks,       \* reconciliation_breaks: how many a line has, and of which reason
    matchStep,    \* what each goroutine does next
    matchQueue,   \* the rows it has read, lines with their transfer's status
    matchFailures,
    had           \* history: the outcomes each transfer has had

matchVars == <<lines, breaks, matchStep, matchQueue>>
reconVars == <<matchVars, matchFailures, had>>
NoBreaks == [amount_mismatch |-> 0, unexpected_settlement |-> 0]

ReconciliationInit ==
    /\ lines = [t \in Transfer |-> "none"]
    /\ breaks = [t \in Transfer |-> NoBreaks]
    /\ matchStep = [i \in Instance |-> "idle"]
    /\ matchQueue = [i \in Instance |-> {}]
    /\ matchFailures = 0
    /\ had = [t \in Transfer |-> {}]

\* The half that a goroutine is in ends with its last row.
After == [mirror |-> "select", match |-> "idle"]
GoOn(i, queue) ==
    /\ matchQueue' = [matchQueue EXCEPT ![i] = queue]
    /\ matchStep' = [matchStep EXCEPT ![i] = IF queue = {} THEN After[@] ELSE @]

New == {t \in Transfer : transfers[t] # "absent" /\ lines[t] = "none"}
Unmatched == {t \in Transfer : lines[t] = "unmatched"}

-----------------------------------------------------------------------------
\* A tick that finds nothing to do is left out.
StartMirror(i) ==
    /\ matchStep[i] = "idle"
    /\ New \cup Unmatched # {}
    /\ matchStep' = [matchStep EXCEPT ![i] = IF New = {} THEN "select" ELSE "mirror"]
    /\ matchQueue' = [matchQueue EXCEPT ![i] = New]
    /\ UNCHANGED <<transfers, had, lines, breaks, matchFailures>>

\* ON CONFLICT DO NOTHING.
InsertLine(i) ==
    /\ matchStep[i] = "mirror"
    /\ \E t \in matchQueue[i] :
         /\ lines' = IF lines[t] = "none" THEN [lines EXCEPT ![t] = "unmatched"] ELSE lines
         /\ GoOn(i, matchQueue[i] \ {t})
    /\ UNCHANGED <<transfers, had, breaks, matchFailures>>

Read(t) == [line |-> t, status |-> transfers[t]]

StartMatch(i) ==
    /\ matchStep[i] = "select"
    /\ matchStep' = [matchStep EXCEPT ![i] = IF Unmatched = {} THEN "idle" ELSE "match"]
    /\ matchQueue' = [matchQueue EXCEPT ![i] = {Read(t) : t \in Unmatched}]
    /\ UNCHANGED <<transfers, had, lines, breaks, matchFailures>>

\* The reported amount is the transfer's, or is too large when it is marked: it
\* is never zero, as a failed transfer's should be.
Reason(r) == IF r.status = "completed" THEN "amount_mismatch" ELSE "unexpected_settlement"
Agrees(r) == r.status = "completed" /\ r.line \notin Misreported

MarkMatched(r) ==
    /\ lines' = [lines EXCEPT ![r.line] = "matched"]
    /\ UNCHANGED breaks

\* Mutant: the line is marked in a transaction of its own, before the break.
MarkBreakFirst(r) ==
    /\ lines' = [lines EXCEPT ![r.line] = "break"]
    /\ IF lines[r.line] = "break" THEN breaks' = [breaks EXCEPT ![r.line][Reason(r)] = @ + 1]
       ELSE UNCHANGED breaks

\* One transaction, that does not look at the line's status again.
RaiseBreak(r) ==
    /\ breaks' = [breaks EXCEPT ![r.line][Reason(r)] = @ + 1]
    /\ lines' = [lines EXCEPT ![r.line] = "break"]

\* Mutant: a failed transfer's line is left as well.
ResolveCompleted(i) ==
    /\ matchStep[i] = "match"
    /\ \E r \in matchQueue[i] :
         /\ \/ r.status # "completed" /\ UNCHANGED <<lines, breaks>>
            \/ r.status = "completed" /\ Agrees(r) /\ MarkMatched(r)
            \/ r.status = "completed" /\ ~Agrees(r) /\ RaiseBreak(r)
         /\ GoOn(i, matchQueue[i] \ {r})
    /\ UNCHANGED <<transfers, had, matchFailures>>

ResolveLine(i) ==
    /\ matchStep[i] = "match"
    /\ \E r \in matchQueue[i] :
         /\ \/ r.status = "pending" /\ UNCHANGED <<lines, breaks>>
            \/ r.status # "pending" /\ Agrees(r) /\ MarkMatched(r)
            \/ r.status # "pending" /\ ~Agrees(r) /\ RaiseBreak(r)
         /\ GoOn(i, matchQueue[i] \ {r})
    /\ UNCHANGED <<transfers, had, matchFailures>>

\* A statement about a row fails, which is logged.
LoseRow(i) ==
    /\ matchFailures < MaxMatchFailures
    /\ matchFailures' = matchFailures + 1
    /\ \E r \in matchQueue[i] : GoOn(i, matchQueue[i] \ {r})
    /\ UNCHANGED <<transfers, had, lines, breaks>>

\* The process stops, or the second SELECT fails.
StopMatching(i) ==
    /\ matchStep[i] # "idle"
    /\ matchFailures < MaxMatchFailures
    /\ matchFailures' = matchFailures + 1
    /\ matchStep' = [matchStep EXCEPT ![i] = "idle"]
    /\ matchQueue' = [matchQueue EXCEPT ![i] = {}]
    /\ UNCHANGED <<transfers, had, lines, breaks>>

MatchStep(i) == StartMirror(i) \/ InsertLine(i) \/ StartMatch(i) \/ ResolveLine(i)

ReconciliationNext == \E i \in Instance : MatchStep(i) \/ LoseRow(i) \/ StopMatching(i)

\* What the handlers that submit transfers and the processors that settle them do.
TransferMoves(t) ==
    /\ \/ Submit(t) /\ UNCHANGED <<had, matchFailures>>
       \/ /\ \/ Settle(t) /\ UNCHANGED matchFailures
             \/ Overwrite(t) /\ matchFailures < MaxMatchFailures /\ matchFailures' = matchFailures + 1
          /\ had' = [had EXCEPT ![t] = @ \cup ({transfers'[t]} \ {"pending"})]
    /\ UNCHANGED matchVars

ReconciliationSpec ==
    /\ OutcomesInit /\ ReconciliationInit
    /\ [][ReconciliationNext \/ \E t \in Transfer : TransferMoves(t)]_<<transfers, reconVars>>

-----------------------------------------------------------------------------
(***************************************************************************)
(* Properties.                                                             *)
(***************************************************************************)

BreaksOf(t) == breaks[t].amount_mismatch + breaks[t].unexpected_settlement

LineHasGrounds(t) ==
    /\ lines[t] = "matched" => "completed" \in had[t] /\ t \notin Misreported
    /\ lines[t] = "break" => breaks[t] # NoBreaks
    /\ lines[t] \in {"none", "unmatched"} => breaks[t] = NoBreaks
    /\ breaks[t].amount_mismatch > 0 => "completed" \in had[t] /\ t \in Misreported
    /\ breaks[t].unexpected_settlement > 0 => "failed" \in had[t]

\* Whatever a line says it has from an outcome that its transfer has had: it is
\* matched only if the transfer was completed in the amount reported, and a break
\* of either reason has been true (RunReconciliation: "a genuine break").  Each
\* instance adds one break at most, and none where no line is marked; so as long
\* as a transfer has had one outcome its line agrees with it, and the line of one
\* that had two may say either, or be matched and have a break.
LinesHaveGrounds ==
    \A t \in Transfer : LineHasGrounds(t) /\ BreaksOf(t) <= Cardinality(Instance)
=============================================================================
