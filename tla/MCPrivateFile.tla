--------------------------- MODULE MCPrivateFile ---------------------------
(***************************************************************************)
(* Instances of PrivateFile for TLC: documents of one and two blocks,      *)
(* written by two processes under the eyes of a reader.                    *)
(***************************************************************************)
EXTENDS PrivateFile, TLC

CONSTANTS w1, w2, r1, d1, d2

SizeOf == (d1 :> 1) @@ (d2 :> 2)
=============================================================================
