---------------------------- MODULE MCResilience ----------------------------
(***************************************************************************)
(* An instance of Resilience for TLC: two goroutines and an operator on    *)
(* one server instance, and an operator on another.                        *)
(***************************************************************************)
EXTENDS Resilience, TLC
CONSTANTS i1, i2, g1, g2, o1, o2

Homes == (g1 :> i1) @@ (g2 :> i1) @@ (o1 :> i1) @@ (o2 :> i2)
=============================================================================
