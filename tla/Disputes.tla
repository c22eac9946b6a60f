------------------------------ MODULE Disputes ------------------------------
(***************************************************************************)
(* internal/disputes: cases that investigators move along a fixed table.   *)
(* Advance reads the status before it opens the transaction that writes    *)
(* the new one together with an event of the case's timeline.              *)
(***************************************************************************)
EXTENDS Naturals, Sequences

CONSTANTS
    Dispute,       \* ids of disputes
    Investigator   \* concurrent calls of Advance

VARIABLES
    disputes,   \* disputes: id -> status
    timeline,   \* dispute_events: id -> sequence of [from, to]
    advancing   \* per call, the transition it has validated

disputeVars == <<disputes, timeline, advancing>>

DisputeStatus == {"open", "investigating", "resolved", "rejected"}
Closed == {"resolved", "rejected"}
NotAdvancing == [dispute |-> "none"]

DisputesInit ==
    /\ disputes = [d \in Dispute |-> "absent"]
    /\ timeline = [d \in Dispute |-> <<>>]
    /\ advancing = [i \in Investigator |-> NotAdvancing]

ValidTransition(from, to) ==
    \/ from = "open" /\ to \in {"investigating", "rejected"}
    \/ from = "investigating" /\ to \in Closed

CreateDispute(d) ==
    /\ disputes[d] = "absent"
    /\ disputes' = [disputes EXCEPT ![d] = "open"]
    /\ UNCHANGED <<timeline, advancing>>

ReadDispute(i, d, to) ==
    /\ advancing[i] = NotAdvancing
    /\ ValidTransition(disputes[d], to)
    /\ advancing' = [advancing EXCEPT ![i] = [dispute |-> d, from |-> disputes[d], to |-> to]]
    /\ UNCHANGED <<disputes, timeline>>

\* Mutant: an UPDATE that finds the status changed does nothing, and the event
\* is inserted all the same.
AdvanceUnlessChanged(i) ==
    /\ advancing[i] # NotAdvancing
    /\ LET a == advancing[i]
       IN  /\ disputes' = [disputes EXCEPT ![a.dispute] = IF @ = a.from THEN a.to ELSE @]
           /\ timeline' = [timeline EXCEPT ![a.dispute] = Append(@, [from |-> a.from, to |-> a.to])]
    /\ advancing' = [advancing EXCEPT ![i] = NotAdvancing]

\* The transaction: the UPDATE has no condition on the status.
Advance(i) ==
    /\ advancing[i] # NotAdvancing
    /\ LET a == advancing[i]
       IN  /\ disputes' = [disputes EXCEPT ![a.dispute] = a.to]
           /\ timeline' = [timeline EXCEPT ![a.dispute] = Append(@, [from |-> a.from, to |-> a.to])]
    /\ advancing' = [advancing EXCEPT ![i] = NotAdvancing]

LoseAdvance(i) ==
    /\ advancing[i] # NotAdvancing
    /\ advancing' = [advancing EXCEPT ![i] = NotAdvancing]
    /\ UNCHANGED <<disputes, timeline>>

-----------------------------------------------------------------------------
Events == [from : DisputeStatus, to : DisputeStatus]

DisputesTypeOK ==
    /\ disputes \in [Dispute -> DisputeStatus \cup {"absent"}]
    /\ \A d \in Dispute : timeline[d] \in Seq(Events)
    /\ advancing \in [Investigator -> [dispute : Dispute, from : DisputeStatus, to : DisputeStatus]
                                        \cup {NotAdvancing}]

\* The timeline tells how the case came to its status, also when investigators
\* overtake one another: its last event ends where the case is.
TimelineExplainsStatus ==
    \A d \in Dispute :
        LET n == Len(timeline[d])
        IN  disputes[d] = IF n > 0 THEN timeline[d][n].to
                          ELSE IF disputes[d] = "absent" THEN "absent" ELSE "open"

\* A case that is closed stays as it was closed (disputes.go: "resolved and
\* rejected are terminal").
ClosedStaysClosed ==
    [][\A d \in Dispute : disputes[d] \in Closed => disputes'[d] = disputes[d]]_disputeVars
=============================================================================
