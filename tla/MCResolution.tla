---------------------------- MODULE MCResolution ----------------------------
(***************************************************************************)
(* Instances of Resolution for TLC: two profiles on two workspaces, and an *)
(* environment that may name the host or the client of the second.         *)
(***************************************************************************)
EXTENDS Resolution

CONSTANTS n1, n2, h1, h2, c1, c2

StoredPair ==
  [n \in {n1, n2} |-> IF n = n1 THEN [host |-> h1, client |-> c1]
                      ELSE [host |-> h2, client |-> c2]]
=============================================================================
