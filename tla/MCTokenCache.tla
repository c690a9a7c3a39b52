---------------------------- MODULE MCTokenCache ----------------------------
(***************************************************************************)
(* Instances of TokenCache for TLC: goroutines of one process.             *)
(***************************************************************************)
EXTENDS TokenCache, TLC

CONSTANTS g1, g2, p1

\* Two goroutines of one process.
SharedProcess == (g1 :> p1) @@ (g2 :> p1)

=============================================================================
