------------------------------ MODULE CardDesk ------------------------------
(***************************************************************************)
(* Cards and the disputes about them.  No code leads from a dispute to a   *)
(* chargeback: whoever resolves a case calls Chargeback as a step of its   *)
(* own, at any time.                                                       *)
(***************************************************************************)
EXTENDS Cards, Disputes

CONSTANTS
    MaxRequests,  \* bound on calls about authorizations and disputes
    MaxControls,  \* bound on changes of a card's controls
    MaxFailures   \* bound on lost calls

ASSUME CardDeskBoundsAssumption ==
    MaxRequests \in Nat /\ MaxControls \in Nat /\ MaxFailures \in Nat

VARIABLES requests, controls, failures

bounds == <<requests, controls, failures>>
allVars == <<vars, cardVars, disputeVars, bounds>>

DeskInit ==
    /\ Init /\ CardsInit /\ DisputesInit
    /\ requests = 0 /\ controls = 0 /\ failures = 0

OpenAnAccount ==
    /\ \E a \in Account, o \in Overdraft : OpenAccount(a, o)
    /\ UNCHANGED <<cardVars, disputeVars, bounds>>

Controlling ==
    /\ controls < MaxControls
    /\ controls' = controls + 1
    /\ \E card \in Card : Control(card)
    /\ UNCHANGED <<disputeVars, requests, failures>>

Asking ==
    /\ requests < MaxRequests
    /\ requests' = requests + 1
    /\ \/ \E c \in Caller : Ask(c) /\ UNCHANGED disputeVars
       \/ /\ \/ \E d \in Dispute : CreateDispute(d)
             \/ \E i \in Investigator, d \in Dispute, to \in DisputeStatus : ReadDispute(i, d, to)
          /\ UNCHANGED <<vars, cardVars>>
    /\ UNCHANGED <<controls, failures>>

SomethingFails ==
    /\ failures < MaxFailures
    /\ failures' = failures + 1
    /\ \/ \E c \in Caller : Lose(c) /\ UNCHANGED disputeVars
       \/ \E i \in Investigator : LoseAdvance(i) /\ UNCHANGED <<vars, cardVars>>
    /\ UNCHANGED <<requests, controls>>

DeskNext ==
    \/ OpenAnAccount \/ Controlling \/ Asking \/ SomethingFails
    \/ Midnight /\ UNCHANGED <<disputeVars, bounds>>
    \/ \E c \in Caller : CallStep(c) /\ UNCHANGED <<disputeVars, bounds>>
    \/ \E i \in Investigator : Advance(i) /\ UNCHANGED <<vars, cardVars, bounds>>

DeskSpec == DeskInit /\ [][DeskNext]_allVars

DeskTypeOK ==
    /\ CardsTypeOK /\ DisputesTypeOK
    /\ requests \in 0..MaxRequests /\ controls \in 0..MaxControls
    /\ failures \in 0..MaxFailures
=============================================================================
