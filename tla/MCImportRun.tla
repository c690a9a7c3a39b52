---------------------------- MODULE MCImportRun ----------------------------
(***************************************************************************)
(* Instances of ImportRun for TLC: the run alone, and with other programs  *)
(* that map its import.                                                    *)
(***************************************************************************)
EXTENDS ImportRun

CONSTANTS m1, m2

=============================================================================
