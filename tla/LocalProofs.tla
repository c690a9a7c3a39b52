---------------------------- MODULE LocalProofs -----------------------------
(***************************************************************************)
(* What a program does on its own host, together: each part is as its      *)
(* module states, so what FilesProofs, CommandProofs and EncodingProofs    *)
(* prove of the parts holds of the whole.                                  *)
(***************************************************************************)
EXTENDS MCLocal, FilesProofs, CommandProofs, EncodingProofs

(* Whatever part is in play, each part behaves as its module states.       *)
LEMMA LocalIsAll ==
  LocalSpec => /\ UpgradeSpec /\ KeyFilesSpec /\ FileSpec
               /\ ResolutionSpec /\ ApiSpec /\ CommandSpec /\ MappingSpec /\ BackoffSpec
<1>1. LocalInit => /\ UpgradeInit /\ KeyFilesInit /\ FileInit
                   /\ ResolutionInit /\ ApiInit /\ CommandInit /\ MappingInit /\ BackoffInit
  BY DEF LocalInit
<1>2. [LocalNext]_everything =>
        /\ [UpgradeNext]_upgradeVars /\ [KeyFilesNext]_keyVars /\ [FileNext]_fileVars
  BY DEF LocalNext, everything, hostVars
<1>3. [LocalNext]_everything =>
        /\ [ResolutionNext]_resolutionVars /\ [ApiNext]_apiVars /\ [CommandNext]_commandVars
  BY DEF LocalNext, everything, lineVars
<1>4. [LocalNext]_everything => [MappingNext]_mappingVars /\ [BackoffNext]_backoffVars
  BY DEF LocalNext, everything, dataVars
<1> QED
  BY <1>1, <1>2, <1>3, <1>4, PTL DEF LocalSpec, UpgradeSpec, KeyFilesSpec, FileSpec,
     ResolutionSpec, ApiSpec, CommandSpec, MappingSpec, BackoffSpec

(* Every variable of the parts keeps its type (upgrade.go, signer.go,      *)
(* config.go, profile.go, retry.go).                                       *)
THEOREM LocalTypeCorrect == LocalSpec => []LocalTypeOK
<1>1. /\ UpgradeTypeOK /\ (KeyFilesTypeOK /\ PairsKept) /\ (FileTypeOK /\ WholeDocuments)
      /\ ResolutionTypeOK /\ BackoffTypeOK
      => LocalTypeOK
  BY DEF LocalTypeOK
<1> QED
  BY <1>1, LocalIsAll, UpgradeTypeCorrect, KeyPairsHold, DocumentsHold,
     ResolutionTypeCorrect, BackoffTypeCorrect, PTL

(* The encodings begin from a sample of their own, or from the empty key.  *)
LEMMA LocalEncodes == LocalSpec => []EncodingInv
<1>1. <<>> \in Strings(KeyChars, MaxChars)
  <2>1. <<>> \in [1..0 -> KeyChars]
    OBVIOUS
  <2> QED
    BY <2>1, EncodingAssumption DEF Strings
<1>2. sample = [kind |-> "object", value |-> {<<>>}] /\ text = NoText => EncodingInv
  <2>1. IsFiniteSet({<<>>})
    BY FS_Singleton
  <2> QED
    BY <1>1, <2>1 DEF EncodingInv, SampleGiven
<1>3. LocalInit => EncodingInv
  BY <1>2, EncodingGiven DEF LocalInit
<1>4. [LocalNext]_everything => [EncodingNext]_encodingVars
  BY DEF LocalNext, everything, dataVars
<1> QED
  BY <1>3, <1>4, EncodingStep, PTL DEF LocalSpec

(* What holds of each part holds of the whole: binaries, keys and files    *)
(* survive, commands keep to the environment, the guards judge plain paths *)
(* rightly, and what is written for the signing endpoint reads back.       *)
THEOREM LocalHolds ==
  LocalSpec => /\ []BinaryKept /\ NoFalseAlarm /\ []PairsKept
               /\ []WholeDocuments /\ LoneWriteLands /\ []EnvironmentRespected
               /\ [](GuardSeesRequest /\ (PlainPath(given) \/ found = {} => ReadOnlyRefuses))
               /\ []CommandKeepsWord /\ []MappingKeepsWord
               /\ []TextsReadBack /\ []WaitDoubles
BY LocalIsAll, BinaryIsKept, AlarmsAreTrue, KeyPairsHold, DocumentsHold, LoneWritesHold,
   EnvironmentHolds, GuardHolds, CommandKeeps, MappingHolds, LocalEncodes, EncodingReads,
   WaitsDouble, PTL

=============================================================================
