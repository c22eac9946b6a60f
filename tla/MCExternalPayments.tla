------------------------- MODULE MCExternalPayments -------------------------
(***************************************************************************)
(* ExternalPayments on small instances: one account, an outbound and an    *)
(* inbound transfer.                                                       *)
(***************************************************************************)
EXTENDS ExternalPayments

CONSTANTS a1, k1, k2, h1, h2

References == {"good", "RAILFAIL"}

\* Two rows: each is accepted or rejected by the rail.
OneOfEachDirection ==
    {Outbound(k1, a1, 1, ref) : ref \in References} \cup {Inbound(k2, a1, 1, ref) : ref \in References}

\* One row, of either direction: the first request to insert one wins the key.
OneTransfer ==
    {Outbound(k1, a1, 1, ref) : ref \in References} \cup {Inbound(k1, a1, 1, ref) : ref \in References}

OneInbound == {Inbound(k2, a1, 1, "good")}
=============================================================================
