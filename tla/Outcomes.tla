------------------------------ MODULE Outcomes ------------------------------
(***************************************************************************)
(* External transfers as those see them who only wait for their outcome:   *)
(* webhooks and reconciliation.  A row is inserted pending, is in flight   *)
(* until the rail has answered, and then has an outcome, which need not be *)
(* the last: every UPDATE of the status is by id alone, so a goroutine or  *)
(* an investigator that was slow writes over it (ExternalPayments has who, *)
(* and when).  A row that both read, and the charge or payout made over    *)
(* it, are named by one value.                                             *)
(***************************************************************************)
EXTENDS Naturals, FiniteSets

CONSTANTS
    Transfer,   \* rows of external_transfers
    Instance    \* server instances, each with a goroutine per ticker

ASSUME InstanceAssumption == IsFiniteSet(Instance)

VARIABLES
    transfers   \* status of external_transfers; "pending" is "processing" as well

OutcomesInit == transfers = [t \in Transfer |-> "absent"]

Submit(t) ==
    /\ transfers[t] = "absent"
    /\ transfers' = [transfers EXCEPT ![t] = "pending"]

Settle(t) ==
    /\ transfers[t] = "pending"
    /\ \E outcome \in {"completed", "failed"} : transfers' = [transfers EXCEPT ![t] = outcome]

\* The hold, a block, a rejection or a success that another worker was slow to
\* record.
Overwrite(t) ==
    /\ transfers[t] \in {"completed", "failed"}
    /\ \E status \in {"pending", "completed", "failed"} \ {transfers[t]} :
         transfers' = [transfers EXCEPT ![t] = status]

Terminal(t) == transfers[t] \in {"completed", "failed"}
=============================================================================
