------------------------------ MODULE MCAccess ------------------------------
(***************************************************************************)
(* The two sides of access for TLC: the credentials of the tool's profiles *)
(* (MCProfiles), and the requests a signing endpoint accepts (Verifier).   *)
(* They share no state, so a behaviour is of one of them, chosen at the    *)
(* start, and the other stays as it begins.  The processes stand for the   *)
(* endpoint's goroutines too, and the credentials for its nonces.          *)
(***************************************************************************)
EXTENDS MCProfiles, Verifier

CONSTANT KeyringNames   \* names that commands apart may log in on the keyring

VARIABLE part

AccessInit ==
  /\ part \in {"profiles", "endpoint"}
  /\ CommandsInit /\ VerifierInit
  /\ part # "profiles" => shared = Nothing

\* Profiles meet in the files alone: one of them moves between the stores,
\* the others stay in the file.
Moves ==
  \A p \in Processes :
    shared = Nothing /\ pc[p] = "setSecret" /\ store[p] = "keyring" =>
      name[p] \in KeyringNames

AccessNext ==
  /\ UNCHANGED part
  /\ \/ part = "profiles" /\ CommandsNext /\ Moves' /\ UNCHANGED verifierVars
     \/ part = "endpoint" /\ VerifierNext /\ UNCHANGED <<shared, vars>>

AccessSpec == AccessInit /\ [][AccessNext]_<<part, shared, vars, verifierVars>>

(* The types of both sides. *)
AccessTypeOK == TypeOK /\ VerifierTypeOK

=============================================================================
