----------------------------- MODULE MCExchange -----------------------------
(***************************************************************************)
(* Instances of Exchange for TLC: two calls, which share a key or have     *)
(* one each.                                                               *)
(***************************************************************************)
EXTENDS Exchange, TLC

CONSTANTS c1, c2, k1, k2, k3

\* The first call's caller gives a key; the second's gives the same or none.
SomeKeys == (c1 :> {k1}) @@ (c2 :> {k1, NoKey})
=============================================================================
