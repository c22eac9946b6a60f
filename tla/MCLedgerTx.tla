----------------------------- MODULE MCLedgerTx -----------------------------
(***************************************************************************)
(* LedgerTx on a small instance.  The accounts are opened with an          *)
(* overdraft of 2, which gives them money to move without seeding credits. *)
(***************************************************************************)
EXTENDS LedgerTx

CONSTANTS a1, a2, k1, k2, h1

\* Two keys, each used for several different requests; two transfers that lock
\* their accounts in opposite orders, one of which does not fit beside the hold;
\* a capture, with either key, and a release of the same hold; a reversal, a
\* freeze and a balance read.
MixedCalls ==
    {Post("transfer", <<Leg(a1, -2), Leg(a2, 2)>>, k1),
     Post("transfer", <<Leg(a2, -1), Leg(a1, 1)>>, k2),
     Reverse(k1, k2),
     Place(h1, a1, 1), Release(h1), Capture(h1, k1), Capture(h1, k2),
     Transition(a1, "frozen"), Balance(a1)}
=============================================================================
