------------------------------ MODULE MCLedger ------------------------------
(***************************************************************************)
(* Ledger on small instances.                                              *)
(***************************************************************************)
EXTENDS Ledger, TLC

CONSTANTS a1, a2, k1, k2, k3, k4, h1, h2

\* The account that pays and the account that is paid are interchangeable, as
\* are keys and hold ids: no definition names one of them.
Symmetric == Permutations(Account) \cup Permutations(Key) \cup Permutations(HoldId)
=============================================================================
