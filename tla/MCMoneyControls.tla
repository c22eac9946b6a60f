--------------------------- MODULE MCMoneyControls ---------------------------
(***************************************************************************)
(* MoneyControls on a small instance: a merchant who collects 4, of which  *)
(* 1 is the platform's fee and a third of the rest is held in reserve, and *)
(* who asks for a payout of 2.                                             *)
(***************************************************************************)
EXTENDS MoneyControls

CONSTANTS a1, platform, m1, c1, p1, s1, s2, v1, v2, r1

Accounts == [m \in Merchant |-> a1]
Reserves == [m \in Merchant |-> 5000]
Settling == <<s1, s2>>
Reserving == <<v1, v2>>

Of(kind, key) == [kind |-> kind, merchant |-> m1, key |-> key]
Sources == {Of("charge", c1)} \cup {Of("payout", k) : k \in {p1, s1, s2, v1, v2}}
FeeOf == [s \in Source |-> <<s.kind, s.key>>]
Keys == TransferKey \cup {FeeOf[s] : s \in Source} \cup ReversalKey

Asked(kind, key, rail, amount) == [source |-> Of(kind, key), mode |-> "live", rail |-> rail, amount |-> amount]
Requests == {Asked("charge", c1, "card", 4), Asked("payout", p1, "instant", 2)}

\* Half of a charge by default, a quarter for this merchant; the tax on a
\* fee this small is rounded down to nothing.
Rule(merchant, rail, bps) ==
    [kind |-> "charge", merchant |-> merchant, rail |-> rail, min |-> 0, max |-> 100,
     bps |-> bps, fixed |-> 0, cap |-> 10, taxBps |-> 750]
AllRules == {Rule("any", "*", 5000), Rule("any", "card", 5000), Rule(m1, "*", 2500)}
=============================================================================
