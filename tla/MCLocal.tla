------------------------------ MODULE MCLocal ------------------------------
(***************************************************************************)
(* Instances for TLC of the modules on what the program does on its own    *)
(* host: it replaces its binary and its files, finds the profile of a      *)
(* command, writes and loads the signing keys, judges an `api` command,    *)
(* builds the request of a generated one, maps the columns of a            *)
(* spreadsheet, encodes what the signing endpoint signs, and counts its    *)
(* waits.  They share no state, so a behaviour is of one of them, chosen   *)
(* at the start, and the others stay as they begin.                        *)
(***************************************************************************)
EXTENDS Upgrade, KeyFiles, MCPrivateFile, MCResolution, MCApiCommand,
        MCGenerated, ColumnMapping, Encoding, Backoff

CONSTANTS u1, u2, u3, v1, v2, g1, g2, g3, s1, a, b, c, t1, t2

\* Two columns, of which one may bear the other's key as its header.
TwoKeys == <<a, b>>

\* Durations of six bits, and more attempts than a duration has bits.
AllWaits == 1..21

\* The digits of short numbers and of one as long as a float64 needs, and the
\* decimal points around the ends of the positional form.
Runs ==
  {d \in Strings({0, 1, 9}, 3) : d # <<>> /\ d[1] # 0 /\ d[Len(d)] # 0}
    \cup {[i \in 1..17 |-> 1 + (i % 9)]}
PlacesOfPoint == -8..23

VARIABLE part

hostVars == <<upgradeVars, keyVars, fileVars>>
lineVars == <<resolutionVars, apiVars, commandVars>>
dataVars == <<mappingVars, encodingVars, backoffVars>>
everything == <<part, hostVars, lineVars, dataVars>>

Parts ==
  {"binary", "keys", "file", "command", "api", "generated", "mapping",
   "encoding", "waits"}

\* What a part may begin with is one thing while another part is in play.
LocalInit ==
  /\ part \in Parts
  /\ IF part = "binary" THEN TRUE
     ELSE windows = FALSE /\ content = [f \in Files |-> IF f = Original THEN v1 ELSE None]
  /\ IF part = "keys" THEN TRUE ELSE force = [g \in Generators |-> FALSE]
  /\ IF part = "command" THEN TRUE ELSE exists = {} /\ standard = Unset
  /\ IF part = "api" THEN TRUE
     ELSE /\ given = [method |-> "GET", form |-> "relative", query |-> FALSE,
                      segments |-> <<dpps>>]
          /\ flags = [readOnly |-> FALSE, yes |-> FALSE]
  /\ IF part = "generated" THEN TRUE ELSE invocation = Plain
  /\ IF part = "mapping" THEN TRUE
     ELSE /\ preview = [i \in DOMAIN Keys |->
               [header |-> a, match |-> "none", suggestion |-> NoMapping]]
          /\ explicit = <<>> /\ accept = FALSE /\ exactOnly = FALSE
  /\ IF part = "encoding" THEN EncodingInit
     ELSE sample = [kind |-> "object", value |-> {<<>>}] /\ text = NoText
  /\ IF part = "waits" THEN TRUE ELSE policy = [base |-> 1, max |-> 1]
  /\ UpgradeInit /\ KeyFilesInit /\ FileInit /\ ResolutionInit
  /\ ApiInit /\ CommandInit /\ MappingInit /\ BackoffInit

LocalNext ==
  /\ UNCHANGED part
  /\ \/ part = "binary" /\ UpgradeNext
        /\ UNCHANGED <<keyVars, fileVars, lineVars, dataVars>>
     \/ part = "keys" /\ KeyFilesNext
        /\ UNCHANGED <<upgradeVars, fileVars, lineVars, dataVars>>
     \/ part = "file" /\ FileNext
        /\ UNCHANGED <<upgradeVars, keyVars, lineVars, dataVars>>
     \/ part = "command" /\ ResolutionNext
        /\ UNCHANGED <<apiVars, commandVars, hostVars, dataVars>>
     \/ part = "api" /\ ApiNext
        /\ UNCHANGED <<resolutionVars, commandVars, hostVars, dataVars>>
     \/ part = "generated" /\ CommandNext
        /\ UNCHANGED <<resolutionVars, apiVars, hostVars, dataVars>>
     \/ part = "mapping" /\ MappingNext
        /\ UNCHANGED <<encodingVars, backoffVars, hostVars, lineVars>>
     \/ part = "encoding" /\ EncodingNext
        /\ UNCHANGED <<mappingVars, backoffVars, hostVars, lineVars>>
     \/ part = "waits" /\ BackoffNext
        /\ UNCHANGED <<mappingVars, encodingVars, hostVars, lineVars>>

LocalSpec == LocalInit /\ [][LocalNext]_everything

Interchangeable == Permutations(Upgraders) \cup Permutations(Writers)

\* The types of the parts that keep a state.
LocalTypeOK ==
  UpgradeTypeOK /\ KeyFilesTypeOK /\ FileTypeOK /\ ResolutionTypeOK /\ BackoffTypeOK

=============================================================================
