---------------------------- MODULE FilesProofs -----------------------------
(***************************************************************************)
(* Files that outlive a kill, for any number of processes: the binary that *)
(* upgrades replace, the keys that keygen writes, and the document that    *)
(* writePrivate replaces.                                                  *)
(***************************************************************************)
EXTENDS Upgrade, KeyFiles, PrivateFile, FiniteSetTheorems, SequenceTheorems, TLAPS

-----------------------------------------------------------------------------
(* Upgrade: the binary's name holds a sound binary, or on Windows the .old *)
(* name does.  The invariant rests on what Windows refuses: a running image*)
(* is neither removed nor replaced.  So every process runs from one of the *)
(* two names (RunsFromNames), and the .old file cannot go while the binary's*)
(* name is empty, as every process still running would have come from it.  *)

\* A process has an image from its start to its end.
HasImage == \A p \in Upgraders : Running(p) <=> image[p] # None

RunsFromNames ==
  windows => \A p \in Upgraders : Running(p) => image[p] \in {target, old}

\* What a process has put in place is its own finished work.
PlacedAtEnd == \A p \in Upgraders : p \in {target, old} => at[p] = "over"

OldSound == old # None => windows /\ Sound(old)

\* The file of a process on its way to the rename.
Progress ==
  \A p \in Upgraders :
    /\ at[p] \in {"create", "write", "chmod", "remove", "aside", "rename"} =>
         content[p] \in Versions /\ content[p] = to[p]
    /\ at[p] \in {"remove", "aside", "rename"} => written[p] = "ready"
    /\ at[p] \in {"remove", "aside"} => windows
    /\ at[p] \in {"sums", "archive"} => to[p] \in Versions

UpgradeInv ==
  /\ UpgradeTypeOK
  /\ HasImage
  /\ RunsFromNames
  /\ PlacedAtEnd
  /\ OldSound
  /\ Progress
  /\ TargetSound
  /\ Recoverable

-----------------------------------------------------------------------------
\* The steps on the way, which leave the names and the images alone.
LEMMA DownloadsKeep ==
  ASSUME UpgradeInv, NEW p \in Upgraders,
         FetchChecksums(p) \/ FetchArchive(p)
  PROVE UpgradeInv'
<1> USE UpgradeAssumption DEF UpgradeInv, Files, Assets, Running
<1>1. UpgradeTypeOK'
  BY DEF UpgradeTypeOK, FetchChecksums, FetchArchive, Goes, Steps, names,
         Verifies, Listed
<1>2. HasImage' /\ RunsFromNames'
  BY DEF UpgradeTypeOK, HasImage, RunsFromNames, FetchChecksums, FetchArchive,
         Goes, names
<1>3. PlacedAtEnd'
  BY DEF UpgradeTypeOK, PlacedAtEnd, FetchChecksums, FetchArchive, Goes, names
<1>4. OldSound' /\ TargetSound' /\ Recoverable'
  BY DEF UpgradeTypeOK, PlacedAtEnd, OldSound, TargetSound, Recoverable, Sound,
         FetchChecksums, FetchArchive, Goes, names
<1>5. Progress'
  BY DEF UpgradeTypeOK, Progress, FetchChecksums, FetchArchive, Goes, names,
         Listed
<1> QED BY <1>1, <1>2, <1>3, <1>4, <1>5

(* Each step of the download and of the writing of the file keeps it. *)
LEMMA WritingKeeps ==
  ASSUME UpgradeInv, NEW p \in Upgraders,
         CreateTemp(p) \/ WriteBinary(p) \/ Chmod(p)
  PROVE UpgradeInv'
<1> USE UpgradeAssumption DEF UpgradeInv, Files, Assets, Running,
        CreateTemp, WriteBinary, Chmod, Goes
<1>1. UpgradeTypeOK'
  BY DEF UpgradeTypeOK, Steps
<1>2. HasImage' /\ RunsFromNames'
  BY DEF UpgradeTypeOK, HasImage, RunsFromNames
<1>3. PlacedAtEnd'
  BY DEF UpgradeTypeOK, PlacedAtEnd
<1>4. OldSound' /\ TargetSound' /\ Recoverable'
  BY DEF UpgradeTypeOK, PlacedAtEnd, OldSound, TargetSound, Recoverable, Sound
<1>5. Progress'
  BY DEF UpgradeTypeOK, Progress
<1> QED BY <1>1, <1>2, <1>3, <1>4, <1>5

\* Ends: every way a process stops without having placed its file.
LEMMA EndingKeeps ==
  ASSUME UpgradeInv, NEW p \in Upgraders,
         Compare(p) \/ Fail(p) \/ Kill(p)
  PROVE UpgradeInv'
<1> USE UpgradeAssumption DEF UpgradeInv, Files, Assets, Running,
        Compare, Fail, Kill, Ends, names
<1>1. UpgradeTypeOK'
  BY DEF UpgradeTypeOK, Steps, Verdicts
<1>2. HasImage' /\ RunsFromNames'
  BY DEF UpgradeTypeOK, HasImage, RunsFromNames
<1>3. PlacedAtEnd'
  BY DEF UpgradeTypeOK, PlacedAtEnd
<1>4. OldSound' /\ TargetSound' /\ Recoverable'
  BY DEF UpgradeTypeOK, OldSound, TargetSound, Recoverable, Sound
<1>5. Progress'
  BY DEF UpgradeTypeOK, Progress
<1> QED BY <1>1, <1>2, <1>3, <1>4, <1>5

(* The beginning of a process keeps it. *)
LEMMA BeginningKeeps ==
  ASSUME UpgradeInv, NEW p \in Upgraders,
         StartUpgrade(p) \/ FetchRelease(p)
  PROVE UpgradeInv'
<1> USE UpgradeAssumption DEF UpgradeInv, Files, Assets, Running,
        StartUpgrade, FetchRelease, Goes, Ends, names
<1>1. UpgradeTypeOK'
  BY DEF UpgradeTypeOK, Steps, Verdicts
<1>2. HasImage' /\ RunsFromNames'
  BY DEF UpgradeTypeOK, HasImage, RunsFromNames
<1>3. PlacedAtEnd'
  BY DEF UpgradeTypeOK, PlacedAtEnd
<1>4. OldSound' /\ TargetSound' /\ Recoverable'
  BY DEF UpgradeTypeOK, PlacedAtEnd, OldSound, TargetSound, Recoverable, Sound
<1>5. Progress'
  BY DEF UpgradeTypeOK, Progress
<1> QED BY <1>1, <1>2, <1>3, <1>4, <1>5

-----------------------------------------------------------------------------
\* With the binary's name empty, p itself runs from the .old file.
LEMMA RemoveOldKeeps ==
  ASSUME UpgradeInv, NEW p \in Upgraders, RemoveOld(p)
  PROVE UpgradeInv'
<1> USE UpgradeAssumption DEF UpgradeInv, Files, Assets, Running,
        RemoveOld, Goes
<1>1. windows /\ Running(p)
  BY DEF UpgradeTypeOK, Progress
<1>2. target = None => Held(old) /\ old' = old
  BY <1>1 DEF RunsFromNames, HasImage, Held
<1>3. UpgradeTypeOK'
  BY DEF UpgradeTypeOK, Steps
<1>4. HasImage' /\ RunsFromNames'
  BY DEF UpgradeTypeOK, HasImage, RunsFromNames, Held
<1>5. PlacedAtEnd' /\ Progress'
  BY DEF UpgradeTypeOK, PlacedAtEnd, Progress
<1>6. OldSound' /\ TargetSound' /\ Recoverable'
  BY <1>2 DEF OldSound, TargetSound, Recoverable, Sound
<1> QED BY <1>3, <1>4, <1>5, <1>6

(* The binary moved aside keeps it. *)
LEMMA MoveAsideKeeps ==
  ASSUME UpgradeInv, NEW p \in Upgraders, MoveAside(p)
  PROVE UpgradeInv'
<1> USE UpgradeAssumption DEF UpgradeInv, Files, Assets, Running,
        MoveAside, Goes
<1>1. windows
  BY DEF UpgradeTypeOK, Progress
<1>2. UpgradeTypeOK'
  BY DEF UpgradeTypeOK, Steps
<1>3. HasImage' /\ RunsFromNames'
  BY <1>1 DEF UpgradeTypeOK, HasImage, RunsFromNames, Held
<1>4. PlacedAtEnd' /\ Progress'
  BY DEF UpgradeTypeOK, PlacedAtEnd, Progress
<1>5. OldSound' /\ TargetSound' /\ Recoverable'
  BY <1>1 DEF OldSound, TargetSound, Recoverable, Sound
<1> QED BY <1>2, <1>3, <1>4, <1>5

(* The new binary moved in keeps it. *)
LEMMA MoveInKeeps ==
  ASSUME UpgradeInv, NEW p \in Upgraders, MoveIn(p)
  PROVE UpgradeInv'
<1> USE UpgradeAssumption DEF UpgradeInv, Files, Assets, Running,
        MoveIn, Ends
<1>1. UpgradeTypeOK'
  BY DEF UpgradeTypeOK, Steps, Verdicts
<1>2. HasImage' /\ RunsFromNames'
  BY DEF UpgradeTypeOK, HasImage, RunsFromNames, Held
<1>3. PlacedAtEnd' /\ Progress'
  BY DEF UpgradeTypeOK, PlacedAtEnd, Progress
<1>4. Sound(p)'
  BY DEF UpgradeTypeOK, Progress, Sound
<1>5. OldSound' /\ TargetSound' /\ Recoverable'
  BY <1>4 DEF OldSound, TargetSound, Recoverable, Sound
<1> QED BY <1>1, <1>2, <1>3, <1>5

-----------------------------------------------------------------------------
(* The whole invariant (internal/upgrade/upgrade.go). *)
THEOREM UpgradeInvariant == UpgradeSpec => []UpgradeInv
<1>1. UpgradeInit => UpgradeInv
  BY UpgradeAssumption
     DEF UpgradeInit, UpgradeInv, UpgradeTypeOK, HasImage, RunsFromNames,
         PlacedAtEnd, OldSound, Progress, TargetSound, Recoverable, Sound,
         Running, Files, Assets, Steps, Verdicts
<1>2. UpgradeInv /\ [UpgradeNext]_upgradeVars => UpgradeInv'
  <2>1. ASSUME UpgradeInv, NEW p \in Upgraders,
               \/ StartUpgrade(p) \/ FetchRelease(p) \/ FetchChecksums(p)
               \/ FetchArchive(p) \/ CreateTemp(p) \/ WriteBinary(p)
               \/ Chmod(p) \/ RemoveOld(p) \/ MoveAside(p) \/ MoveIn(p)
               \/ Compare(p) \/ Fail(p) \/ Kill(p)
        PROVE UpgradeInv'
    BY <2>1, BeginningKeeps, DownloadsKeep, WritingKeeps, RemoveOldKeeps,
       MoveAsideKeeps, MoveInKeeps, EndingKeeps
  <2>2. ASSUME UpgradeInv, UNCHANGED upgradeVars
        PROVE UpgradeInv'
    BY <2>2 DEF upgradeVars, names, UpgradeInv, UpgradeTypeOK, HasImage,
       RunsFromNames, PlacedAtEnd, OldSound, Progress, TargetSound,
       Recoverable, Sound, Running
  <2> QED BY <2>1, <2>2 DEF UpgradeNext
<1> QED BY <1>1, <1>2, PTL DEF UpgradeSpec

(* Every variable keeps to its type (internal/upgrade/upgrade.go).         *)
THEOREM UpgradeTypeCorrect == UpgradeSpec => []UpgradeTypeOK
<1>1. UpgradeInv => UpgradeTypeOK
  BY DEF UpgradeInv
<1> QED BY UpgradeInvariant, <1>1, PTL

(* For any number of upgrades, failing or killed anywhere: what the        *)
(* binary's name holds is a whole, executable binary of the release named  *)
(* (upgrade.go Run and replace).                                           *)
THEOREM BinarySound == UpgradeSpec => []TargetSound
<1>1. UpgradeInv => TargetSound
  BY DEF UpgradeInv
<1> QED BY UpgradeInvariant, <1>1, PTL

(* And it is empty on Windows only, with a sound binary under the .old     *)
(* name that no upgrade can take away meanwhile (upgrade.go replace).      *)
THEOREM BinaryRecoverable == UpgradeSpec => []Recoverable
<1>1. UpgradeInv => Recoverable
  BY DEF UpgradeInv
<1> QED BY UpgradeInvariant, <1>1, PTL

-----------------------------------------------------------------------------
\* The file a process runs from stays what it was, and a verification looks
\* for the release of that file.
Verifying ==
  \A p \in Upgraders :
    /\ Running(p) => image[p] \in Files
    /\ Running(p) /\ image[p] \in Upgraders => at[image[p]] = "over"
    /\ mode[p] = "verify" /\ at[p] \in {"sums", "archive", "compare"} =>
         to[p] = content[image[p]]
    /\ at[p] = "compare" => mode[p] = "verify" /\ content[p] = to[p]

\* A temporary file is at work, or its process was killed.
Temporary ==
  \A p \in Upgraders :
    /\ at[p] # "over" => verdict[p] = "none"
    /\ p \in temps =>
         \/ at[p] \in {"write", "chmod", "remove", "aside", "rename"}
         \/ at[p] = "over" /\ verdict[p] = "none"

(* Every step keeps what Verifying says. *)
LEMMA VerifyingKept ==
  UpgradeInv /\ Verifying /\ [UpgradeNext]_upgradeVars => Verifying'
<1> SUFFICES ASSUME UpgradeInv, Verifying, [UpgradeNext]_upgradeVars
             PROVE Verifying'
  OBVIOUS
<1> USE UpgradeAssumption DEF UpgradeInv, UpgradeTypeOK, Verifying, Files,
        Running, Goes, Ends, names
<1>1. ASSUME NEW p \in Upgraders, StartUpgrade(p)
      PROVE Verifying'
  BY <1>1 DEF StartUpgrade, PlacedAtEnd
<1>2. ASSUME NEW p \in Upgraders, FetchRelease(p)
      PROVE Verifying'
  BY <1>2 DEF FetchRelease, Current
<1>3. ASSUME NEW p \in Upgraders, FetchChecksums(p)
      PROVE Verifying'
  BY <1>3 DEF FetchChecksums
<1>4. ASSUME NEW p \in Upgraders, FetchArchive(p)
      PROVE Verifying'
  BY <1>4 DEF FetchArchive, Listed
<1>5. ASSUME NEW p \in Upgraders, CreateTemp(p) \/ WriteBinary(p) \/ Chmod(p)
      PROVE Verifying'
  BY <1>5 DEF CreateTemp, WriteBinary, Chmod
<1>6. ASSUME NEW p \in Upgraders, RemoveOld(p) \/ MoveAside(p)
      PROVE Verifying'
  BY <1>6 DEF RemoveOld, MoveAside
<1>7. ASSUME NEW p \in Upgraders,
             MoveIn(p) \/ Compare(p) \/ Fail(p) \/ Kill(p)
      PROVE Verifying'
  BY <1>7 DEF MoveIn, Compare, Fail, Kill
<1>8. CASE UNCHANGED upgradeVars
  BY <1>8 DEF upgradeVars
<1> QED BY <1>1, <1>2, <1>3, <1>4, <1>5, <1>6, <1>7, <1>8 DEF UpgradeNext

(* Every step keeps what Temporary says. *)
LEMMA TemporaryKept ==
  UpgradeInv /\ Temporary /\ [UpgradeNext]_upgradeVars => Temporary'
<1> SUFFICES ASSUME UpgradeInv, Temporary, [UpgradeNext]_upgradeVars
             PROVE Temporary'
  OBVIOUS
<1> USE DEF UpgradeInv, UpgradeTypeOK, Temporary, Running, Goes, Ends, names
<1>1. ASSUME NEW p \in Upgraders,
             \/ StartUpgrade(p) \/ FetchRelease(p) \/ FetchChecksums(p)
             \/ FetchArchive(p)
      PROVE Temporary'
  BY <1>1 DEF StartUpgrade, FetchRelease, FetchChecksums, FetchArchive
<1>2. ASSUME NEW p \in Upgraders,
             \/ CreateTemp(p) \/ WriteBinary(p) \/ Chmod(p) \/ RemoveOld(p)
             \/ MoveAside(p)
      PROVE Temporary'
  BY <1>2 DEF CreateTemp, WriteBinary, Chmod, RemoveOld, MoveAside
<1>3. ASSUME NEW p \in Upgraders,
             MoveIn(p) \/ Compare(p) \/ Fail(p) \/ Kill(p)
      PROVE Temporary'
  BY <1>3 DEF MoveIn, Compare, Fail, Kill
<1>4. CASE UNCHANGED upgradeVars
  BY <1>4 DEF upgradeVars
<1> QED BY <1>1, <1>2, <1>3, <1>4 DEF UpgradeNext

(* A verification that calls the binary modified has met another upgrade,  *)
(* for any number of them (upgrade.go Verify).                             *)
THEOREM AlarmsAreTrue == UpgradeSpec => NoFalseAlarm
<1>1. UpgradeInit => Verifying
  BY DEF UpgradeInit, Verifying, Running
<1>2. UpgradeInv /\ Verifying /\ [UpgradeNext]_upgradeVars =>
        [\A p \in Upgraders :
           verdict'[p] # verdict[p] /\ verdict'[p] = "modified" =>
             target # image[p]]_upgradeVars
  <2> SUFFICES ASSUME UpgradeInv, Verifying, UpgradeNext, NEW p \in Upgraders,
                      verdict'[p] # verdict[p], verdict'[p] = "modified"
               PROVE target # image[p]
    OBVIOUS
  <2>1. Compare(p)
    BY DEF UpgradeNext, UpgradeInv, UpgradeTypeOK, StartUpgrade, FetchRelease,
       FetchChecksums, FetchArchive, CreateTemp, WriteBinary, Chmod, RemoveOld,
       MoveAside, MoveIn, Compare, Fail, Kill, Ends, Goes
  <2>2. content[p] = content[image[p]] /\ content[target] # content[p]
    BY <2>1 DEF Compare, Ends, Verifying, UpgradeInv, UpgradeTypeOK
  <2> QED BY <2>2
<1> QED BY <1>1, <1>2, UpgradeInvariant, VerifyingKept, PTL
       DEF UpgradeSpec, NoFalseAlarm

(* An upgrade that failed has taken its temporary file away; only a killed *)
(* one leaves it (upgrade.go replace).                                     *)
THEOREM NothingLeft == UpgradeSpec => []NoLitter
<1>1. UpgradeInit => Temporary
  BY DEF UpgradeInit, Temporary, Running
<1>2. UpgradeInv /\ Temporary => NoLitter
  BY DEF UpgradeInv, UpgradeTypeOK, Temporary, NoLitter
<1> QED BY <1>1, <1>2, UpgradeInvariant, TemporaryKept, PTL DEF UpgradeSpec

(* There is a sound binary under one of the two names, and litter only     *)
(* after a kill (upgrade.go replace).                                      *)
THEOREM BinaryIsKept == UpgradeSpec => []BinaryKept
<1> QED BY BinarySound, BinaryRecoverable, NothingLeft, PTL DEF BinaryKept

-----------------------------------------------------------------------------
(* KeyFiles: printed keys stay on disk, and a server signs with one pair.  *)

(* Every step keeps the types of the files and of the runs. *)
LEMMA KeyFilesTypeStep ==
  KeyFilesTypeOK /\ LoadedInv /\ [KeyFilesNext]_keyVars => KeyFilesTypeOK'
<1> SUFFICES ASSUME KeyFilesTypeOK, LoadedInv, [KeyFilesNext]_keyVars
             PROVE  KeyFilesTypeOK'
  OBVIOUS
<1> USE DEF KeyFilesTypeOK, First, Second
<1>1. CASE UNCHANGED keyVars
  BY <1>1 DEF keyVars, generating
<1>2. ASSUME NEW a \in Generators, BeginKeygen(a)
      PROVE  KeyFilesTypeOK'
  <2>1. crossed' \subseteq Generators
    BY <1>2 DEF BeginKeygen, AtWork
  <2> QED
    BY <1>2, <2>1 DEF BeginKeygen
<1>3. ASSUME NEW a \in Generators, OpenKey(a)
      PROVE  KeyFilesTypeOK'
  BY <1>3 DEF OpenKey, EndKeygen
<1>4. ASSUME NEW a \in Generators, WriteKey(a)
      PROVE  KeyFilesTypeOK'
  BY <1>4 DEF WriteKey, EndKeygen
<1>5. ASSUME NEW a \in Generators, StopKeygen(a)
      PROVE  KeyFilesTypeOK'
  BY <1>5 DEF StopKeygen, EndKeygen
<1>6. ASSUME NEW s \in Servers, LoadKey(s)
      PROVE  KeyFilesTypeOK'
  <2> DEFINE Pairs == UNION { [1..n -> Generators] : n \in 0..2 }
  <2>1. ASSUME loaded[s] \in Seq(Generators), Len(loaded[s]) = loading[s] - 1,
               key[loading[s]] \in Generators
        PROVE  Append(loaded[s], key[loading[s]]) \in Pairs
    <3>1. loading[s] \in 1..2
      BY <1>6 DEF LoadKey
    <3> DEFINE read == Append(loaded[s], key[loading[s]])
    <3>2. read \in Seq(Generators) /\ Len(read) = loading[s]
      BY <2>1, <3>1
    <3>3. read \in [1..loading[s] -> Generators]
      BY <3>2, LenProperties
    <3> QED
      BY <3>1, <3>3
  <2>2. <<>> \in Pairs
    <3>1. <<>> \in [1..0 -> Generators]
      OBVIOUS
    <3> QED
      BY <3>1
  <2>3. loaded' \in [Servers -> Pairs]
    <3>1. loaded[s] \in Seq(Generators) /\ Len(loaded[s]) = loading[s] - 1
      BY <1>6 DEF LoadKey, LoadedInv
    <3>2. CASE key[loading[s]] \in Generators
      <4>1. Append(loaded[s], key[loading[s]]) \in Pairs
        BY <2>1, <3>1, <3>2
      <4>2. loaded' = [loaded EXCEPT ![s] = Append(loaded[s], key[loading[s]])]
        BY <1>6, <3>2 DEF LoadKey
      <4>3. loaded \in [Servers -> Pairs]
        OBVIOUS
      <4> QED
        BY <4>1, <4>2, <4>3
    <3>3. CASE key[loading[s]] \notin Generators
      <4>1. loaded' = [loaded EXCEPT ![s] = <<>>]
        BY <1>6, <3>3 DEF LoadKey
      <4> QED
        BY <2>2, <4>1
    <3> QED
      BY <3>2, <3>3
  <2> QED
    BY <1>6, <2>3 DEF LoadKey, generating
<1> QED
  BY <1>1, <1>2, <1>3, <1>4, <1>5, <1>6 DEF KeyFilesNext

(* Every step keeps what BegunInv says. *)
LEMMA BegunStep ==
  KeyFilesTypeOK /\ BegunInv /\ [KeyFilesNext]_keyVars => BegunInv'
<1> SUFFICES ASSUME KeyFilesTypeOK, BegunInv, [KeyFilesNext]_keyVars,
                    NEW g \in Generators
             PROVE  BegunInv!(g)'
  BY DEF BegunInv
<1> USE DEF KeyFilesTypeOK, BegunInv, First, Second
<1>1. CASE UNCHANGED keyVars
  BY <1>1 DEF keyVars, generating
<1>2. ASSUME NEW a \in Generators, BeginKeygen(a)
      PROVE  BegunInv!(g)'
  BY <1>2 DEF BeginKeygen
<1>3. ASSUME NEW a \in Generators, OpenKey(a)
      PROVE  BegunInv!(g)'
  <2>1. HalfKey # g /\ HalfKey # NoKey
    BY KeyFilesAssumption
  <2>2. CASE force[a] \/ key[nth[a]] = NoKey
    BY <1>3, <2>1, <2>2, KeyFilesAssumption DEF OpenKey
  <2>3. CASE ~(force[a] \/ key[nth[a]] = NoKey)
    BY <1>3, <2>3 DEF OpenKey, EndKeygen
  <2> QED
    BY <2>2, <2>3
<1>4. ASSUME NEW a \in Generators, WriteKey(a)
      PROVE  BegunInv!(g)'
  <2>1. a # NoKey
    BY KeyFilesAssumption
  <2>2. CASE nth[a] = Second
    BY <1>4, <2>1, <2>2 DEF WriteKey, EndKeygen
  <2>3. CASE nth[a] = First
    BY <1>4, <2>1, <2>3 DEF WriteKey
  <2> QED
    BY <2>2, <2>3
<1>5. ASSUME NEW a \in Generators, StopKeygen(a)
      PROVE  BegunInv!(g)'
  BY <1>5 DEF StopKeygen, EndKeygen, AtWork
<1>6. ASSUME NEW s \in Servers, LoadKey(s)
      PROVE  BegunInv!(g)'
  BY <1>6 DEF LoadKey, generating
<1> QED
  BY <1>1, <1>2, <1>3, <1>4, <1>5, <1>6 DEF KeyFilesNext

(* Every step keeps what CrossedInv says. *)
LEMMA CrossedStep ==
  KeyFilesTypeOK /\ BegunInv /\ CrossedInv /\ [KeyFilesNext]_keyVars => CrossedInv'
<1> SUFFICES ASSUME KeyFilesTypeOK, BegunInv, CrossedInv, [KeyFilesNext]_keyVars,
                    NEW g \in Generators, NEW h \in Generators, g # h
             PROVE  CrossedInv!(g, h)'
  BY DEF CrossedInv
<1> USE DEF KeyFilesTypeOK, First, Second, AtWork
<1>0. CrossedInv!(g, h) /\ CrossedInv!(h, g)
  BY DEF CrossedInv
<1>1. CASE UNCHANGED keyVars
  BY <1>0, <1>1 DEF keyVars, generating
<1>2. ASSUME NEW a \in Generators, BeginKeygen(a)
      PROVE  CrossedInv!(g, h)'
  BY <1>0, <1>2 DEF BeginKeygen, BegunInv
<1>3. ASSUME NEW a \in Generators, OpenKey(a)
      PROVE  CrossedInv!(g, h)'
  BY <1>0, <1>3, KeyFilesAssumption DEF OpenKey, EndKeygen, BegunInv
<1>4. ASSUME NEW a \in Generators, WriteKey(a)
      PROVE  CrossedInv!(g, h)'
  BY <1>0, <1>4 DEF WriteKey, EndKeygen
<1>5. ASSUME NEW a \in Generators, StopKeygen(a)
      PROVE  CrossedInv!(g, h)'
  BY <1>0, <1>5 DEF StopKeygen, EndKeygen
<1>6. ASSUME NEW s \in Servers, LoadKey(s)
      PROVE  CrossedInv!(g, h)'
  BY <1>0, <1>6 DEF LoadKey, generating
<1> QED
  BY <1>1, <1>2, <1>3, <1>4, <1>5, <1>6 DEF KeyFilesNext

(* The keys of a run that nobody crossed stay as it wrote them. *)
LEMMA KeysStayStep ==
  ASSUME KeyFilesTypeOK, BegunInv, CrossedInv, FirstStays, PrintedOnDisk,
         [KeyFilesNext]_keyVars
  PROVE  FirstStays' /\ PrintedOnDisk'
<1> USE DEF KeyFilesTypeOK, First, Second, AtWork
<1>0. SUFFICES ASSUME NEW g \in Generators, g \notin crossed'
               PROVE  /\ (AtWork(g) /\ nth[g] = Second)' \/ report'[g] = "printed" =>
                           key'[First] = g
                      /\ report'[g] = "printed" => key'[Second] = g
  BY DEF FirstStays, PrintedOnDisk
<1> DEFINE Kept == /\ (AtWork(g) /\ nth[g] = Second) \/ report[g] = "printed" =>
                        key[First] = g
                   /\ report[g] = "printed" => key[Second] = g
<1>a. CASE g \in crossed
  BY <1>a, <1>0 DEF KeyFilesNext, BeginKeygen, OpenKey, WriteKey, StopKeygen,
     LoadKey, generating, keyVars
<1>b. CASE g \notin crossed
  <2>0. Kept
    BY <1>b DEF FirstStays, PrintedOnDisk
  <2>1. CASE UNCHANGED keyVars
    BY <2>0, <2>1 DEF keyVars, generating
  <2>2. ASSUME NEW a \in Generators, BeginKeygen(a)
        PROVE  Kept'
    BY <2>0, <2>2 DEF BeginKeygen, BegunInv
  <2>3. ASSUME NEW a \in Generators, OpenKey(a)
        PROVE  Kept'
    <3>1. g # a /\ step[g] # "idle" => ~force[a]
      BY <1>b, <2>3 DEF OpenKey, CrossedInv
    <3>2. NoKey # g
      BY KeyFilesAssumption
    <3>3. CASE g # a
      BY <2>0, <2>3, <3>1, <3>2, <3>3 DEF OpenKey, EndKeygen, BegunInv
    <3>4. CASE g = a
      BY <2>0, <2>3, <3>2, <3>4 DEF OpenKey, EndKeygen, BegunInv
    <3> QED
      BY <3>3, <3>4
  <2>4. ASSUME NEW a \in Generators, WriteKey(a)
        PROVE  Kept'
    <3>1. CASE g # a
      <4>1. step[g] # "idle" => key[nth[a]] # g
        BY <1>b, <2>4, <3>1 DEF WriteKey, CrossedInv
      <4> QED
        BY <2>0, <2>4, <3>1, <4>1 DEF WriteKey, EndKeygen, BegunInv
    <3>2. CASE g = a
      BY <2>0, <2>4, <3>2 DEF WriteKey, EndKeygen, BegunInv
    <3> QED
      BY <3>1, <3>2
  <2>5. ASSUME NEW a \in Generators, StopKeygen(a)
        PROVE  Kept'
    BY <2>0, <2>5 DEF StopKeygen, EndKeygen
  <2>6. ASSUME NEW s \in Servers, LoadKey(s)
        PROVE  Kept'
    BY <2>0, <2>6 DEF LoadKey, generating
  <2> QED
    BY <2>1, <2>2, <2>3, <2>4, <2>5, <2>6 DEF KeyFilesNext
<1> QED
  BY <1>a, <1>b

(* Without a run under --force nobody is crossed. *)
LEMMA NoneForcedStep ==
  ASSUME KeyFilesTypeOK, NoneForced => crossed = {}, [KeyFilesNext]_keyVars,
         NoneForced'
  PROVE  NoneForced /\ crossed' = {}
<1> USE DEF KeyFilesTypeOK, NoneForced, AtWork
<1>1. CASE UNCHANGED keyVars
  BY <1>1 DEF keyVars, generating
<1>2. ASSUME NEW a \in Generators, BeginKeygen(a)
      PROVE  NoneForced /\ crossed' = {}
  <2>1. NoneForced /\ ~force[a]
    BY <1>2 DEF BeginKeygen
  <2>2. \A h \in Generators : AtWork(h) => ~force[h]
    BY <2>1
  <2> QED
    BY <1>2, <2>1, <2>2 DEF BeginKeygen
<1>3. ASSUME NEW a \in Generators, OpenKey(a) \/ WriteKey(a) \/ StopKeygen(a)
      PROVE  NoneForced /\ crossed' = {}
  BY <1>3 DEF OpenKey, WriteKey, StopKeygen, EndKeygen
<1>4. ASSUME NEW s \in Servers, LoadKey(s)
      PROVE  NoneForced /\ crossed' = {}
  BY <1>4 DEF LoadKey, generating
<1> QED
  BY <1>1, <1>2, <1>3, <1>4 DEF KeyFilesNext

(* What a server has read is still on disk. *)
LEMMA LoadedStep ==
  ASSUME KeyFilesInv, [KeyFilesNext]_keyVars
  PROVE  LoadedInv' /\ ServesOnePair'
<1> USE DEF KeyFilesInv, KeyFilesTypeOK, First, Second, AtWork
<1>0. NoneForced' => NoneForced /\ crossed = {} /\ crossed' = {}
  BY NoneForcedStep
<1>1. CASE UNCHANGED <<loading, loaded>>
  <2>1. ASSUME NEW s \in Servers, NoneForced', loading[s] \in {2, 3}
        PROVE  loaded[s][First] = key'[First]
    <3>1. loaded[s][First] = key[First] /\ NoneForced /\ crossed = {}
      BY <1>0, <2>1 DEF LoadedInv
    <3>2. loaded[s] \in Seq(Generators) /\ Len(loaded[s]) \in {1, 2}
      BY <2>1 DEF LoadedInv
    <3>3. key[First] \in Generators
      BY <3>1, <3>2
    <3>4. PICK g \in Generators : key[First] = g
      BY <3>3
    <3>5. /\ nth[g] = Second /\ step[g] # "idle" /\ g # NoKey
          /\ \A h \in Generators : step[h] # "idle" => ~force[h]
      BY <3>1, <3>4, KeyFilesAssumption DEF BegunInv, NoneForced
    <3>6. \A h \in Generators : step[h] = "write" => nth[h] = Second
      BY <3>1, <3>4, <3>5 DEF CrossedInv
    <3>7. key'[First] = key[First]
      <4>1. CASE UNCHANGED key
        BY <4>1
      <4>2. ASSUME NEW a \in Generators, OpenKey(a)
            PROVE  key'[First] = key[First]
        BY <3>4, <3>5, <4>2 DEF OpenKey
      <4>3. ASSUME NEW a \in Generators, WriteKey(a)
            PROVE  key'[First] = key[First]
        BY <3>6, <4>3 DEF WriteKey
      <4> QED
        BY <4>1, <4>2, <4>3 DEF KeyFilesNext, BeginKeygen, StopKeygen, LoadKey,
           generating, keyVars
    <3> QED
      BY <3>1, <3>7
  <2>2. LoadedInv'
    BY <1>1, <2>1 DEF LoadedInv
  <2>3. ServesOnePair'
    BY <1>0, <1>1 DEF ServesOnePair, PairsKept, NoneForced
  <2> QED
    BY <2>2, <2>3
<1>2. ASSUME NEW s \in Servers, LoadKey(s)
      PROVE  LoadedInv' /\ ServesOnePair'
  <2>0. UNCHANGED generating /\ loading[s] \in {1, 2}
    BY <1>2 DEF LoadKey
  <2>1. CASE key[loading[s]] \in Generators
    <3> DEFINE read == Append(loaded[s], key[loading[s]])
    <3>1. /\ loaded[s] \in Seq(Generators) /\ Len(loaded[s]) = loading[s] - 1
          /\ loading' = [loading EXCEPT ![s] = @ + 1]
          /\ loaded' = [loaded EXCEPT ![s] = read]
      BY <1>2, <2>0, <2>1 DEF LoadKey, LoadedInv
    <3>2. /\ read \in Seq(Generators) /\ Len(read) = loading[s]
          /\ read[loading[s]] = key[loading[s]]
          /\ loading[s] = 2 => read[First] = loaded[s][First]
      BY <2>0, <2>1, <3>1
    <3>3. LoadedInv'
      BY <2>0, <3>1, <3>2 DEF LoadedInv, generating, NoneForced
    <3>4. NoneForced /\ loading[s] = 2 => read[First] = read[Second]
      <4>1. HAVE NoneForced /\ loading[s] = 2
      <4>2. PICK g \in Generators : key[Second] = g
        BY <2>1, <4>1
      <4>3. key[First] = g
        BY <4>1, <4>2 DEF BegunInv, FirstStays
      <4> QED
        BY <3>2, <4>1, <4>2, <4>3 DEF LoadedInv
    <3>5. ServesOnePair'
      BY <2>0, <3>1, <3>4 DEF ServesOnePair, PairsKept, generating, NoneForced
    <3> QED
      BY <3>3, <3>5
  <2>2. CASE key[loading[s]] \notin Generators
    <3>1. /\ loading' = [loading EXCEPT ![s] = 0]
          /\ loaded' = [loaded EXCEPT ![s] = <<>>]
      BY <1>2, <2>2 DEF LoadKey
    <3>2. LoadedInv'
      BY <2>0, <3>1 DEF LoadedInv, generating, NoneForced
    <3>3. ServesOnePair'
      BY <2>0, <3>1 DEF ServesOnePair, PairsKept, generating, NoneForced
    <3> QED
      BY <3>2, <3>3
  <2> QED
    BY <2>1, <2>2
<1> QED
  BY <1>1, <1>2 DEF KeyFilesNext, BeginKeygen, OpenKey, WriteKey, StopKeygen, keyVars

(* Every step keeps the whole invariant. *)
LEMMA KeyFilesStep == KeyFilesInv /\ [KeyFilesNext]_keyVars => KeyFilesInv'
<1> SUFFICES ASSUME KeyFilesInv, [KeyFilesNext]_keyVars PROVE KeyFilesInv'
  OBVIOUS
<1>1. KeyFilesTypeOK' /\ BegunInv' /\ CrossedInv'
  BY KeyFilesTypeStep, BegunStep, CrossedStep DEF KeyFilesInv
<1>2. FirstStays' /\ PrintedOnDisk'
  BY KeysStayStep DEF KeyFilesInv, PairsKept
<1>3. LoadedInv' /\ ServesOnePair'
  BY LoadedStep
<1>4. NoneForced' => crossed' = {}
  BY NoneForcedStep DEF KeyFilesInv
<1> QED
  BY <1>1, <1>2, <1>3, <1>4 DEF KeyFilesInv, PairsKept

(* It holds before anything was written. *)
LEMMA KeyFilesStart == KeyFilesInit => KeyFilesInv
<1> SUFFICES ASSUME KeyFilesInit PROVE KeyFilesInv
  OBVIOUS
<1> USE DEF KeyFilesInit, First, Second, AtWork
<1>1. KeyFilesTypeOK
  <2>1. <<>> \in [1..0 -> Generators]
    OBVIOUS
  <2>2. <<>> \in UNION { [1..n -> Generators] : n \in 0..2 }
    BY <2>1
  <2> QED
    BY <2>2 DEF KeyFilesTypeOK
<1>2. BegunInv /\ CrossedInv /\ FirstStays
  BY KeyFilesAssumption DEF BegunInv, CrossedInv, FirstStays
<1>3. LoadedInv
  BY DEF LoadedInv
<1>4. PairsKept
  BY DEF PairsKept, PrintedOnDisk, ServesOnePair
<1> QED
  BY <1>1, <1>2, <1>3, <1>4 DEF KeyFilesInv

(* For any number of runs of keygen, with --force and without, killed      *)
(* anywhere, and any number of servers: keys that were printed stay on     *)
(* disk until a run under --force, and a server signs with a pair          *)
(* (signer.go signerKeygen and loadSignerKeys, keys.go WritePrivateKey).   *)
THEOREM KeyPairsHold == KeyFilesSpec => [](KeyFilesTypeOK /\ PairsKept)
<1>1. KeyFilesInv => KeyFilesTypeOK /\ PairsKept
  BY DEF KeyFilesInv
<1> QED
  BY <1>1, KeyFilesStart, KeyFilesStep, PTL DEF KeyFilesSpec

-----------------------------------------------------------------------------
(* PrivateFile: every reader gets one whole document, and a lone writer puts*)
(* down its own.                                                           *)

\* What a block of an inode may be.
Blocks == Docs \cup {Hole}

(* Contents are the sequences of blocks that are short enough. *)
LEMMA ContentsAre ==
  Contents = { s \in Seq(Blocks) : Len(s) <= MaxSize }
<1>1. MaxSize \in Nat
  BY PrivateFileAssumption
<1>2. ASSUME NEW s \in Contents
      PROVE  s \in Seq(Blocks) /\ Len(s) <= MaxSize
  <2>1. PICK n \in 0..MaxSize : s \in [1..n -> Blocks]
    BY DEF Contents, Blocks
  <2>2. s \in Seq(Blocks)
    BY <2>1, SeqDef
  <2>3. Len(s) = n
    BY <2>1, <2>2
  <2> QED
    BY <1>1, <2>1, <2>2, <2>3
<1>3. ASSUME NEW s \in Seq(Blocks), Len(s) <= MaxSize
      PROVE  s \in Contents
  <2>1. s \in [1..Len(s) -> Blocks] /\ Len(s) \in 0..MaxSize
    BY <1>1, <1>3, LenProperties
  <2> QED
    BY <2>1 DEF Contents, Blocks
<1> QED
  BY <1>2, <1>3

(* A new file has contents. *)
LEMMA NothingWritten == <<>> \in Contents
  BY ContentsAre, PrivateFileAssumption

\* The first n blocks of a document.
Begun(d, n) == [k \in 1..n |-> d]

(* What was written of a document is as long as it is far. *)
LEMMA BegunLength ==
  ASSUME NEW d, NEW n \in Nat
  PROVE  Len(Begun(d, n)) = n /\ DOMAIN Begun(d, n) = 1..n
<1>1. Begun(d, n) \in [1..n -> {d}]
  BY DEF Begun
<1>2. Begun(d, n) \in Seq({d})
  BY <1>1, SeqDef
<1> QED
  BY <1>1, <1>2

(* Of a document nothing was written at first. *)
LEMMA BegunNone == \A d : Begun(d, 0) = <<>>
  BY DEF Begun

(* A writer that writes on where the document ends makes it one longer. *)
LEMMA WrittenOn ==
  ASSUME NEW d, NEW n \in Nat
  PROVE  WriteAt(Begun(d, n), n + 1, d) = Begun(d, n + 1)
<1>1. Len(Begun(d, n)) = n /\ n + 1 > n
  BY BegunLength
<1>2. \A j \in 1..n + 1 : j <= n \/ j = n + 1
  OBVIOUS
<1> QED
  BY <1>1, <1>2 DEF WriteAt, Begun

(* And one that writes past the end leaves holes. *)
LEMMA WrittenAt ==
  ASSUME NEW s \in Contents, NEW k \in 1..MaxSize, NEW d \in Docs
  PROVE  WriteAt(s, k, d) \in Contents
<1> DEFINE n == IF k > Len(s) THEN k ELSE Len(s)
           longer == WriteAt(s, k, d)
<1>1. s \in Seq(Blocks) /\ Len(s) \in 0..MaxSize /\ MaxSize \in Nat
  BY ContentsAre, PrivateFileAssumption
<1>2. n \in 0..MaxSize
  BY <1>1
<1>3. \A j \in 1..Len(s) : s[j] \in Blocks
  BY <1>1, ElementOfSeq
<1>4. longer = [j \in 1..n |-> IF j = k THEN d ELSE IF j <= Len(s) THEN s[j] ELSE Hole]
  BY DEF WriteAt
<1> HIDE DEF n, longer
<1>5. \A j \in 1..n : j <= Len(s) => j \in 1..Len(s)
  BY <1>1, <1>2
<1>6. longer \in [1..n -> Blocks]
  BY <1>3, <1>4, <1>5 DEF Blocks
<1> QED
  BY <1>2, <1>6 DEF Contents, Blocks, longer

(* There is an inode for a new file: every process at work holds one, the  *)
(* file one, and the temporary name none.                                  *)
LEMMA FreeInode ==
  ASSUME FileTypeOK, tmp = NoFile
  PROVE  Free \in Inodes /\ ~InUse(Free)
<1> DEFINE W == {fd[w] : w \in Writers}
           R == {from[r] : r \in Readers}
           Used == (W \cup R) \cup {path}
<1>1. IsFiniteSet(W) /\ Cardinality(W) <= Cardinality(Writers)
  <2>1. [w \in Writers |-> fd[w]] \in Surjection(Writers, W)
    BY DEF Surjection
  <2> QED
    BY <2>1, FS_Surjection, PrivateFileAssumption
<1>2. IsFiniteSet(R) /\ Cardinality(R) <= Cardinality(Readers)
  <2>1. [r \in Readers |-> from[r]] \in Surjection(Readers, R)
    BY DEF Surjection
  <2> QED
    BY <2>1, FS_Surjection, PrivateFileAssumption
<1>3. Cardinality(Writers) \in Nat /\ Cardinality(Readers) \in Nat
  BY FS_CardinalityType, PrivateFileAssumption
<1> HIDE DEF W, R
<1>4. IsFiniteSet(W \cup R) /\ Cardinality(W \cup R) <= Cardinality(W) + Cardinality(R)
  <2>1. IsFiniteSet(W \cap R) /\ IsFiniteSet(W \cup R)
    BY <1>1, <1>2, FS_Intersection, FS_Union
  <2>2. /\ Cardinality(W) \in Nat /\ Cardinality(R) \in Nat
        /\ Cardinality(W \cap R) \in Nat
    BY <1>1, <1>2, <2>1, FS_CardinalityType
  <2>3. Cardinality(W \cup R) = Cardinality(W) + Cardinality(R) - Cardinality(W \cap R)
    BY <1>1, <1>2, FS_Union
  <2> QED
    BY <2>1, <2>2, <2>3
<1>5. IsFiniteSet(Used) /\ Cardinality(Used) <= Cardinality(W \cup R) + 1
  <2>1. Cardinality(W \cup R) \in Nat
    BY <1>4, FS_CardinalityType
  <2>2. /\ IsFiniteSet((W \cup R) \cup {path})
        /\ Cardinality((W \cup R) \cup {path}) =
             IF path \in W \cup R THEN Cardinality(W \cup R) ELSE Cardinality(W \cup R) + 1
    BY <1>4, FS_AddElement
  <2>3. /\ IsFiniteSet(Used)
        /\ \/ Cardinality(Used) = Cardinality(W \cup R)
           \/ Cardinality(Used) = Cardinality(W \cup R) + 1
    BY <2>2
  <2> HIDE DEF Used
  <2> QED
    BY <2>1, <2>3
<1>6. /\ Cardinality(W) \in Nat /\ Cardinality(R) \in Nat /\ Cardinality(Used) \in Nat
      /\ Cardinality(W \cup R) \in Nat
  BY <1>1, <1>2, <1>4, <1>5, FS_CardinalityType
<1>7. /\ IsFiniteSet(Inodes)
      /\ Cardinality(Inodes) = Cardinality(Writers) + Cardinality(Readers) + 2
  <2> DEFINE n == Cardinality(Writers) + Cardinality(Readers) + 2
  <2>1. n \in Int /\ ~(1 > n) /\ n - 1 + 1 = n
    BY <1>3
  <2> HIDE DEF n
  <2>2. IsFiniteSet(1..n) /\ Cardinality(1..n) = n - 1 + 1
    BY <2>1, FS_Interval
  <2> QED
    BY <2>1, <2>2 DEF Inodes, n
<1> HIDE DEF Used
<1>8. ~(Inodes \subseteq Used)
  <2>1. Cardinality(Used) < Cardinality(Inodes)
    BY <1>1, <1>2, <1>3, <1>4, <1>5, <1>6, <1>7
  <2>2. Inodes \subseteq Used => Cardinality(Inodes) <= Cardinality(Used)
    BY <1>5, FS_Subset
  <2> QED
    BY <1>3, <1>6, <1>7, <2>1, <2>2
<1>9. PICK i \in Inodes : i \notin Used
  BY <1>8
<1>10. i # NoFile
  BY <1>3 DEF Inodes, NoFile
<1>11. ~InUse(i)
  BY <1>9, <1>10 DEF InUse, Used, W, R
<1> QED
  BY <1>11 DEF Free

(* What is not reclaimed keeps its blocks. *)
LEMMA Reclaimed ==
  ASSUME disk \in [Inodes -> Contents], Reclaim
  PROVE  /\ disk' \in [Inodes -> Contents]
         /\ path' \in Inodes => disk'[path'] = disk[path']
         /\ tmp' \in Inodes => disk'[tmp'] = disk[tmp']
         /\ \A r \in Readers : from'[r] \in Inodes => disk'[from'[r]] = disk[from'[r]]
  BY NothingWritten DEF Reclaim, InUse

(* The file a writer begins on is neither the one there is nor one that    *)
(* is read.                                                                *)
LEMMA OpenFacts ==
  ASSUME FilesInv, NEW w \in Writers, Open(w)
  PROVE  /\ tmp' \in Inodes /\ tmp' # NoFile /\ tmp' # path
         /\ \A r \in Readers : from[r] # tmp'
         /\ disk' = [disk EXCEPT ![tmp'] = <<>>]
         /\ fd' = [fd EXCEPT ![w] = tmp']
         /\ \E d \in Docs : doc' = [doc EXCEPT ![w] = d]
         /\ pos' = [pos EXCEPT ![w] = 0]
         /\ writerAt' = [writerAt EXCEPT ![w] = "write"]
         /\ lone' = IF \A v \in Writers : writerAt[v] = "idle" THEN {w} ELSE {}
         /\ met' = (met \/ \E v \in Writers : writerAt[v] # "idle")
         /\ UNCHANGED <<path, reading>>
<1>1. CASE tmp = NoFile
  <2>1. Free \in Inodes /\ ~InUse(Free)
    BY <1>1, FreeInode DEF FilesInv
  <2>2. tmp' = Free
    BY <1>1 DEF Open
  <2>3. tmp' \in Inodes /\ tmp' # path /\ \A r \in Readers : from[r] # tmp'
    BY <2>1, <2>2 DEF InUse
  <2>4. tmp' # NoFile
    BY <1>1, <2>1, <2>2 DEF InUse
  <2> QED
    BY <2>3, <2>4 DEF Open, Begin
<1>2. CASE tmp # NoFile
  <2>1. tmp' = tmp /\ tmp \in Inodes
    BY <1>2 DEF Open, FilesInv, FileTypeOK
  <2>2. tmp # path /\ \A r \in Readers : from[r] # tmp
    BY <1>2 DEF FilesInv, NamesInv, ReadInv
  <2> QED
    BY <1>2, <2>1, <2>2 DEF Open, Begin
<1> QED
  BY <1>1, <1>2

(* Every step keeps the types of the files and the processes. *)
LEMMA FileTypeStep ==
  ASSUME FilesInv, [FileNext]_fileVars
  PROVE  FileTypeOK'
<1>0. FileTypeOK /\ NamesInv /\ ReadInv
  BY DEF FilesInv
<1>a. MaxSize \in Nat /\ \A d \in Docs : Size[d] \in 1..MaxSize
  BY PrivateFileAssumption
<1>1. CASE UNCHANGED fileVars
  BY <1>0, <1>1 DEF fileVars, writing, reading, FileTypeOK
<1>2. ASSUME NEW w \in Writers, Open(w)
      PROVE  FileTypeOK'
  <2>1. /\ tmp' \in Inodes /\ disk' = [disk EXCEPT ![tmp'] = <<>>]
        /\ fd' = [fd EXCEPT ![w] = tmp'] /\ \E d \in Docs : doc' = [doc EXCEPT ![w] = d]
        /\ pos' = [pos EXCEPT ![w] = 0] /\ writerAt' = [writerAt EXCEPT ![w] = "write"]
        /\ lone' \subseteq Writers /\ met' \in BOOLEAN
        /\ UNCHANGED <<path, from, got>>
    BY <1>2, OpenFacts DEF reading
  <2> QED
    BY <1>0, <1>a, <2>1, NothingWritten DEF FileTypeOK
<1>3. ASSUME NEW w \in Writers, WriteBlock(w)
      PROVE  FileTypeOK'
  <2>1. /\ fd[w] \in Inodes /\ pos[w] + 1 \in 1..MaxSize /\ doc[w] \in Docs
    BY <1>0, <1>3, <1>a DEF WriteBlock, FileTypeOK, NamesInv
  <2>2. WriteAt(disk[fd[w]], pos[w] + 1, doc[w]) \in Contents
    BY <1>0, <2>1, WrittenAt DEF FileTypeOK
  <2>3. /\ disk' = [disk EXCEPT ![fd[w]] = WriteAt(disk[fd[w]], pos[w] + 1, doc[w])]
        /\ pos' = [pos EXCEPT ![w] = pos[w] + 1]
    BY <1>3 DEF WriteBlock
  <2>4. disk' \in [Inodes -> Contents]
    BY <1>0, <2>2, <2>3 DEF FileTypeOK
  <2>5. pos' \in [Writers -> 0..MaxSize]
    BY <1>0, <1>a, <2>1, <2>3 DEF FileTypeOK
  <2>6. /\ writerAt' \in [Writers -> {"idle", "write", "rename"}]
        /\ fd' \in [Writers -> Inodes \cup {NoFile}]
        /\ UNCHANGED <<path, tmp, doc, lone, met, reading>>
    BY <1>0, <1>3 DEF WriteBlock, FileTypeOK
  <2> QED
    BY <1>0, <2>4, <2>5, <2>6 DEF FileTypeOK, reading
<1>4. ASSUME NEW w \in Writers, Rename(w) \/ Stop(w)
      PROVE  FileTypeOK'
  <2>1. disk' \in [Inodes -> Contents]
    BY <1>0, <1>4, Reclaimed DEF Rename, Stop, FileTypeOK
  <2>2. pos' \in [Writers -> 0..MaxSize]
    BY <1>0, <1>4, <1>a DEF Rename, Stop, Over, FileTypeOK
  <2>3. /\ path' \in Inodes \cup {NoFile} /\ tmp' \in Inodes \cup {NoFile}
        /\ fd' \in [Writers -> Inodes \cup {NoFile}]
        /\ UNCHANGED <<met, reading>>
    BY <1>0, <1>4 DEF Rename, Stop, FileTypeOK
  <2>4. /\ writerAt' \in [Writers -> {"idle", "write", "rename"}]
        /\ doc' \in [Writers -> Docs \cup {NoDoc}] /\ lone' \subseteq Writers
    BY <1>0, <1>4 DEF Rename, Stop, Over, FileTypeOK
  <2> QED
    BY <1>0, <2>1, <2>2, <2>3, <2>4 DEF FileTypeOK, reading
<1>5. ASSUME NEW r \in Readers, OpenRead(r)
      PROVE  FileTypeOK'
  BY <1>0, <1>5, NothingWritten DEF OpenRead, FileTypeOK, writing
<1>6. ASSUME NEW r \in Readers, ReadBlock(r)
      PROVE  FileTypeOK'
  <2> DEFINE b == disk[from[r]]
  <2>1. b \in Contents /\ got[r] \in Contents
    BY <1>0, <1>6 DEF ReadBlock, FileTypeOK
  <2>2. /\ b \in Seq(Blocks) /\ got[r] \in Seq(Blocks) /\ Len(b) <= MaxSize
    BY <2>1, ContentsAre
  <2>3. Len(b) - Len(got[r]) > 0 /\ got' = [got EXCEPT ![r] = Append(@, b[Len(@) + 1])]
    BY <1>6 DEF ReadBlock, Left
  <2> HIDE DEF b
  <2>4. Len(b) \in Nat /\ Len(got[r]) \in Nat
    BY <2>2
  <2>5. b[Len(got[r]) + 1] \in Blocks
    BY <2>2, <2>3, <2>4, ElementOfSeq
  <2>6. /\ Append(got[r], b[Len(got[r]) + 1]) \in Seq(Blocks)
        /\ Len(Append(got[r], b[Len(got[r]) + 1])) = Len(got[r]) + 1
    BY <2>2, <2>5, AppendProperties
  <2>7. Append(got[r], b[Len(got[r]) + 1]) \in Contents
    BY <1>a, <2>2, <2>3, <2>4, <2>6, ContentsAre
  <2>8. got' \in [Readers -> Contents]
    BY <1>0, <2>3, <2>7 DEF FileTypeOK
  <2> QED
    BY <1>0, <1>6, <2>8 DEF ReadBlock, FileTypeOK, writing
<1>7. ASSUME NEW r \in Readers, ReadEnd(r)
      PROVE  FileTypeOK'
  <2>1. disk' \in [Inodes -> Contents]
    BY <1>0, <1>7, Reclaimed DEF ReadEnd, FileTypeOK
  <2> QED
    BY <1>0, <1>7, <2>1 DEF ReadEnd, FileTypeOK, writing
<1> QED
  BY <1>1, <1>2, <1>3, <1>4, <1>5, <1>6, <1>7 DEF FileNext

(* Every step keeps the two names apart, and what a writer has open. *)
LEMMA NamesStep ==
  ASSUME FilesInv, [FileNext]_fileVars
  PROVE  NamesInv'
<1>0. FileTypeOK /\ NamesInv
  BY DEF FilesInv
<1>1. CASE UNCHANGED <<path, tmp, writing>>
  BY <1>0, <1>1 DEF writing, NamesInv
<1>2. ASSUME NEW w \in Writers, Open(w)
      PROVE  NamesInv'
  <2>1. /\ tmp' # NoFile /\ tmp' # path /\ path' = path
        /\ fd' = [fd EXCEPT ![w] = tmp'] /\ \E d \in Docs : doc' = [doc EXCEPT ![w] = d]
        /\ pos' = [pos EXCEPT ![w] = 0] /\ writerAt' = [writerAt EXCEPT ![w] = "write"]
    BY <1>2, OpenFacts
  <2>2. \A d \in Docs : 0 < Size[d]
    BY PrivateFileAssumption
  <2> QED
    BY <1>0, <2>1, <2>2 DEF FileTypeOK, NamesInv
<1>3. ASSUME NEW w \in Writers, WriteBlock(w)
      PROVE  NamesInv'
  <2>1. pos[w] + 1 < Size[doc[w]] \/ writerAt' = [writerAt EXCEPT ![w] = "rename"]
    BY <1>3 DEF WriteBlock
  <2> QED
    BY <1>0, <1>3, <2>1 DEF WriteBlock, FileTypeOK, NamesInv
<1>4. ASSUME NEW w \in Writers, Rename(w)
      PROVE  NamesInv'
  BY <1>0, <1>4 DEF Rename, Over, FileTypeOK, NamesInv
<1>5. ASSUME NEW w \in Writers, Stop(w)
      PROVE  NamesInv'
  BY <1>0, <1>5 DEF Stop, Over, FileTypeOK, NamesInv
<1> QED
  BY <1>1, <1>2, <1>3, <1>4, <1>5 DEF FileNext, OpenRead, ReadBlock, ReadEnd, fileVars

(* Every step keeps the temporary file of a lone writer as far as it is. *)
LEMMA LoneStep ==
  ASSUME FilesInv, [FileNext]_fileVars
  PROVE  /\ LoneInv'
         /\ ~met' => \A w \in Writers : writerAt'[w] # "idle" => w \in lone'
<1>0. /\ FileTypeOK /\ NamesInv /\ LoneInv
      /\ ~met => \A w \in Writers : writerAt[w] # "idle" => w \in lone
  BY DEF FilesInv
<1>1. CASE UNCHANGED <<disk, tmp, writing>>
  BY <1>0, <1>1 DEF writing, LoneInv
<1>2. ASSUME NEW w \in Writers, Open(w)
      PROVE  /\ LoneInv'
             /\ ~met' => \A v \in Writers : writerAt'[v] # "idle" => v \in lone'
  <2>1. /\ tmp' \in Inodes /\ tmp' # NoFile /\ disk' = [disk EXCEPT ![tmp'] = <<>>]
        /\ fd' = [fd EXCEPT ![w] = tmp'] /\ pos' = [pos EXCEPT ![w] = 0]
        /\ writerAt' = [writerAt EXCEPT ![w] = "write"]
        /\ lone' = IF \A v \in Writers : writerAt[v] = "idle" THEN {w} ELSE {}
        /\ met' = (met \/ \E v \in Writers : writerAt[v] # "idle")
    BY <1>2, OpenFacts
  <2>2. ~met' => \A v \in Writers : writerAt[v] = "idle"
    BY <2>1
  <2>3. disk'[tmp'] = [k \in 1..0 |-> doc'[w]]
    BY <1>0, <2>1 DEF FileTypeOK
  <2>4. \A v \in lone' : v = w /\ \A u \in Writers : writerAt[u] = "idle"
    BY <2>1
  <2>5. pos'[w] = 0 /\ fd'[w] = tmp' /\ writerAt'[w] = "write"
    BY <1>0, <2>1 DEF FileTypeOK
  <2>6. LoneInv'
    BY <1>0, <2>1, <2>3, <2>4, <2>5 DEF FileTypeOK, LoneInv
  <2> QED
    BY <1>0, <2>1, <2>2, <2>6 DEF FileTypeOK
<1>3. ASSUME NEW w \in Writers, WriteBlock(w)
      PROVE  /\ LoneInv'
             /\ ~met' => \A v \in Writers : writerAt'[v] # "idle" => v \in lone'
  <2>1. UNCHANGED <<tmp, doc, lone, met>> /\ writerAt[w] = "write" /\ writerAt'[w] # "idle"
        /\ (\A v \in Writers \ {w} : writerAt'[v] = writerAt[v])
    BY <1>0, <1>3 DEF WriteBlock, FileTypeOK
  <2>2. \A v \in lone : v = w
    BY <1>0, <2>1 DEF LoneInv, FileTypeOK
  <2>3. ASSUME w \in lone
        PROVE  /\ disk'[tmp] = Begun(doc[w], pos[w] + 1)
               /\ pos'[w] = pos[w] + 1
               /\ writerAt'[w] = "write" => fd'[w] = tmp
               /\ writerAt'[w] = "rename" => pos[w] + 1 = Size[doc[w]]
    <3>1. fd[w] = tmp /\ disk[tmp] = Begun(doc[w], pos[w]) /\ tmp \in Inodes /\ pos[w] \in Nat
      BY <1>0, <2>1, <2>3 DEF LoneInv, FileTypeOK, Begun
    <3>2. disk'[tmp] = WriteAt(disk[tmp], pos[w] + 1, doc[w])
      BY <1>0, <1>3, <3>1 DEF WriteBlock, FileTypeOK
    <3> QED
      BY <1>0, <1>3, <3>1, <3>2, WrittenOn DEF WriteBlock, FileTypeOK
  <2>4. ASSUME w \in lone
        PROVE  /\ tmp # NoFile /\ \A v \in Writers \ {w} : writerAt'[v] = "idle"
               /\ writerAt'[w] = "write" =>
                    fd'[w] = tmp /\ disk'[tmp] = [k \in 1..pos'[w] |-> doc[w]]
               /\ writerAt'[w] = "rename" => disk'[tmp] = Whole(doc[w])
    BY <1>0, <2>1, <2>3, <2>4 DEF LoneInv, Whole, Begun
  <2>5. LoneInv'
    BY <2>1, <2>2, <2>4 DEF LoneInv
  <2> QED
    BY <1>0, <2>1, <2>5
<1>4. ASSUME NEW w \in Writers, Rename(w) \/ Stop(w)
      PROVE  /\ LoneInv'
             /\ ~met' => \A v \in Writers : writerAt'[v] # "idle" => v \in lone'
  <2>1. /\ writerAt[w] # "idle" /\ writerAt' = [writerAt EXCEPT ![w] = "idle"]
        /\ lone' = lone \ {w} /\ met' = met
    BY <1>4 DEF Rename, Stop, Over
  <2>2. lone' = {}
    BY <1>0, <2>1 DEF LoneInv, FileTypeOK
  <2> QED
    BY <1>0, <2>1, <2>2 DEF LoneInv, FileTypeOK
<1>5. ASSUME NEW r \in Readers, OpenRead(r) \/ ReadBlock(r)
      PROVE  UNCHANGED <<disk, tmp, writing>>
  BY <1>5 DEF OpenRead, ReadBlock
<1>6. ASSUME NEW r \in Readers, ReadEnd(r)
      PROVE  /\ LoneInv'
             /\ ~met' => \A v \in Writers : writerAt'[v] # "idle" => v \in lone'
  <2>1. UNCHANGED <<tmp, writing>> /\ (tmp \in Inodes => disk'[tmp] = disk[tmp])
    BY <1>0, <1>6, Reclaimed DEF ReadEnd, FileTypeOK
  <2> QED
    BY <1>0, <2>1 DEF writing, LoneInv, FileTypeOK
<1> QED
  BY <1>1, <1>2, <1>3, <1>4, <1>5, <1>6 DEF FileNext, fileVars

\* How far a reader of a whole document is.
Reads(r, d) ==
  /\ disk[from[r]] = Whole(d)
  /\ \E n \in 0..Size[d] : got[r] = Begun(d, n)

(* A document is whole when all its blocks are written. *)
LEMMA WholeIs ==
  ASSUME NEW d \in Docs
  PROVE  Size[d] \in Nat /\ Whole(d) = Begun(d, Size[d]) /\ Len(Whole(d)) = Size[d]
<1>1. Size[d] \in Nat
  BY PrivateFileAssumption
<1>2. Whole(d) = Begun(d, Size[d])
  BY DEF Whole, Begun
<1> QED
  BY <1>1, <1>2, BegunLength

(* A reader that goes on reads the next block of the document. *)
LEMMA ReadsOn ==
  ASSUME NEW r \in Readers, FileTypeOK, NEW d \in Docs, Reads(r, d), ReadBlock(r)
  PROVE  \E n \in 0..Size[d] : got'[r] = Begun(d, n)
<1>1. PICK n \in 0..Size[d] : got[r] = Begun(d, n)
  BY DEF Reads
<1>2. /\ disk[from[r]] = Begun(d, Size[d]) /\ Len(disk[from[r]]) = Size[d]
      /\ Len(got[r]) = n /\ n \in Nat /\ Size[d] \in Nat
  BY <1>1, WholeIs, BegunLength DEF Reads
<1>3. n < Size[d]
  BY <1>2 DEF ReadBlock, Left
<1>4. disk[from[r]][n + 1] = d
  BY <1>2, <1>3 DEF Begun
<1>5. got'[r] = Append(Begun(d, n), d)
  BY <1>1, <1>2, <1>4 DEF ReadBlock, FileTypeOK
<1>6. Append(Begun(d, n), d) = Begun(d, n + 1)
  <2>1. Begun(d, n) \in Seq({d}) /\ Begun(d, n + 1) \in Seq({d})
    <3>1. Begun(d, n) \in [1..n -> {d}] /\ Begun(d, n + 1) \in [1..n + 1 -> {d}]
      BY DEF Begun
    <3> QED
      BY <1>2, <3>1, SeqDef
  <2>2. /\ Append(Begun(d, n), d) \in Seq({d}) /\ Len(Append(Begun(d, n), d)) = n + 1
        /\ Len(Begun(d, n + 1)) = n + 1
    BY <1>2, <2>1, AppendProperties, BegunLength
  <2>3. \A s \in Seq({d}) : \A j \in 1..Len(s) : s[j] = d
    BY ElementOfSeq
  <2> QED
    BY <2>1, <2>2, <2>3, SeqEqual
<1> QED
  BY <1>2, <1>3, <1>5, <1>6

(* Every step keeps the file whole, and what its readers have read. *)
LEMMA ReadStep ==
  ASSUME FilesInv, [FileNext]_fileVars
  PROVE  ReadInv' /\ WholeDocuments'
<1>0. /\ FileTypeOK /\ NamesInv /\ LoneInv /\ ReadInv
      /\ ~met => \A w \in Writers : writerAt[w] # "idle" => w \in lone
      /\ FileWholeApart /\ ReadsWhole
  BY DEF FilesInv, WholeDocuments
<1> USE DEF WholeDocuments, FileWholeApart, FileWhole, ReadsWhole, Begun
<1>1. CASE UNCHANGED fileVars
  BY <1>0, <1>1 DEF fileVars, writing, reading, ReadInv
<1>2. ASSUME NEW w \in Writers, Open(w)
      PROVE  ReadInv' /\ WholeDocuments'
  <2>1. /\ tmp' \in Inodes /\ tmp' # path /\ \A r \in Readers : from[r] # tmp'
        /\ disk' = [disk EXCEPT ![tmp'] = <<>>]
        /\ met' = (met \/ \E v \in Writers : writerAt[v] # "idle")
        /\ UNCHANGED <<path, from, got>>
    BY <1>2, OpenFacts DEF reading
  <2>2. \A i \in Inodes : i # tmp' => disk'[i] = disk[i]
    BY <1>0, <2>1 DEF FileTypeOK
  <2>3. ~met' => ~met
    BY <2>1
  <2> QED
    BY <1>0, <2>1, <2>2, <2>3 DEF ReadInv, FileTypeOK
<1>3. ASSUME NEW w \in Writers, WriteBlock(w)
      PROVE  ReadInv' /\ WholeDocuments'
  <2>1. /\ UNCHANGED <<path, tmp, met, from, got>>
        /\ \A i \in Inodes : i # fd[w] => disk'[i] = disk[i]
    BY <1>0, <1>3 DEF WriteBlock, reading, FileTypeOK
  <2>2. ~met => fd[w] = tmp /\ tmp # NoFile
    BY <1>0, <1>3 DEF WriteBlock, LoneInv
  <2>3. \A r \in Readers : from[r] # NoFile /\ ~met => disk'[from[r]] = disk[from[r]]
    BY <1>0, <2>1, <2>2 DEF ReadInv, FileTypeOK
  <2>4. path # NoFile /\ ~met => disk'[path] = disk[path]
    BY <1>0, <2>1, <2>2 DEF NamesInv, FileTypeOK
  <2> QED
    BY <1>0, <2>1, <2>3, <2>4 DEF ReadInv
<1>4. ASSUME NEW w \in Writers, Rename(w)
      PROVE  ReadInv' /\ WholeDocuments'
  <2>1. /\ UNCHANGED <<met, from, got>>
        /\ path' \in Inodes => disk'[path'] = disk[path']
        /\ \A r \in Readers : from[r] \in Inodes => disk'[from[r]] = disk[from[r]]
    BY <1>0, <1>4, Reclaimed DEF Rename, reading, FileTypeOK
  <2>2. ~met => /\ path' = tmp /\ tmp' = NoFile /\ doc[w] \in Docs
                /\ tmp \in Inodes /\ disk[tmp] = Whole(doc[w])
    BY <1>0, <1>4 DEF Rename, LoneInv, NamesInv, FileTypeOK
  <2>3. ReadInv'
    BY <1>0, <1>4, <2>1 DEF Rename, ReadInv, FileTypeOK
  <2>4. WholeDocuments'
    BY <1>0, <2>1, <2>2
  <2> QED
    BY <2>3, <2>4
<1>5. ASSUME NEW w \in Writers, Stop(w)
      PROVE  ReadInv' /\ WholeDocuments'
  <2>1. /\ UNCHANGED <<path, tmp, met, from, got>>
        /\ path \in Inodes => disk'[path] = disk[path]
        /\ \A r \in Readers : from[r] \in Inodes => disk'[from[r]] = disk[from[r]]
    BY <1>0, <1>5, Reclaimed DEF Stop, reading, FileTypeOK
  <2> QED
    BY <1>0, <2>1 DEF ReadInv, FileTypeOK
<1>6. ASSUME NEW r \in Readers, OpenRead(r)
      PROVE  ReadInv' /\ WholeDocuments'
  <2>1. /\ UNCHANGED <<disk, path, tmp, met>> /\ path # NoFile
        /\ from' = [from EXCEPT ![r] = path] /\ got' = [got EXCEPT ![r] = <<>>]
    BY <1>6 DEF OpenRead, writing
  <2>2. \A d \in Docs : 0 \in 0..Size[d] /\ <<>> = [k \in 1..0 |-> d]
    BY WholeIs
  <2> QED
    BY <1>0, <2>1, <2>2 DEF ReadInv, NamesInv, FileTypeOK
<1>7. ASSUME NEW r \in Readers, ReadBlock(r)
      PROVE  ReadInv' /\ WholeDocuments'
  <2>1. /\ UNCHANGED <<disk, path, tmp, met, from>> /\ from[r] # NoFile
        /\ \A q \in Readers \ {r} : got'[q] = got[q]
    BY <1>0, <1>7 DEF ReadBlock, writing, FileTypeOK
  <2>2. ~met => \E d \in Docs : /\ disk[from[r]] = Whole(d)
                               /\ \E n \in 0..Size[d] : got'[r] = [k \in 1..n |-> d]
    BY <1>0, <1>7, <2>1, ReadsOn DEF ReadInv, Reads
  <2> QED
    BY <1>0, <2>1, <2>2 DEF ReadInv
<1>8. ASSUME NEW r \in Readers, ReadEnd(r)
      PROVE  ReadInv' /\ WholeDocuments'
  <2>1. /\ UNCHANGED <<path, tmp, met, got>> /\ from[r] # NoFile
        /\ from' = [from EXCEPT ![r] = NoFile]
        /\ path \in Inodes => disk'[path] = disk[path]
        /\ \A q \in Readers : from'[q] \in Inodes => disk'[from'[q]] = disk[from'[q]]
    BY <1>0, <1>8, Reclaimed DEF ReadEnd, writing, FileTypeOK
  <2>2. ASSUME ~met
        PROVE  \E d \in Docs : got[r] = Whole(d)
    <3>1. PICK d \in Docs : /\ disk[from[r]] = Whole(d)
                            /\ \E n \in 0..Size[d] : got[r] = Begun(d, n)
      BY <1>0, <2>1, <2>2 DEF ReadInv
    <3>2. PICK n \in 0..Size[d] : got[r] = Begun(d, n)
      BY <3>1
    <3> HIDE DEF Begun
    <3>3. Len(got[r]) = n /\ n \in Nat /\ Len(disk[from[r]]) = Size[d] /\ Size[d] \in Nat
      BY <3>1, <3>2, WholeIs, BegunLength
    <3>4. n = Size[d]
      BY <1>8, <3>3 DEF ReadEnd, Left
    <3> QED
      BY <3>2, <3>4, WholeIs
  <2>3. ReadInv'
    <3>1. \A q \in Readers : from'[q] # NoFile =>
            /\ from'[q] = from[q] /\ from[q] # NoFile
            /\ disk'[from'[q]] = disk[from[q]]
      BY <1>0, <2>1 DEF FileTypeOK
    <3> QED
      BY <1>0, <2>1, <3>1 DEF ReadInv
  <2>4. WholeDocuments'
    BY <1>0, <2>1, <2>2 DEF FileTypeOK
  <2> QED
    BY <2>3, <2>4
<1> QED
  BY <1>1, <1>2, <1>3, <1>4, <1>5, <1>6, <1>7, <1>8 DEF FileNext

(* Every step keeps the whole invariant. *)
LEMMA FilesStep == FilesInv /\ [FileNext]_fileVars => FilesInv'
<1> SUFFICES ASSUME FilesInv, [FileNext]_fileVars PROVE FilesInv'
  OBVIOUS
<1> QED
  BY FileTypeStep, NamesStep, LoneStep, ReadStep DEF FilesInv

(* It holds before any process has begun. *)
LEMMA FilesStart == FileInit => FilesInv
<1> SUFFICES ASSUME FileInit PROVE FilesInv
  OBVIOUS
<1>1. FileTypeOK
  <2>1. 0 \in 0..MaxSize
    BY PrivateFileAssumption
  <2> QED
    BY <2>1, NothingWritten DEF FileInit, FileTypeOK
<1>2. NamesInv /\ LoneInv /\ ReadInv
  BY DEF FileInit, NamesInv, LoneInv, ReadInv
<1>3. WholeDocuments /\ \A w \in Writers : writerAt[w] = "idle"
  BY DEF FileInit, WholeDocuments, FileWholeApart, FileWhole, ReadsWhole
<1> QED
  BY <1>1, <1>2, <1>3 DEF FilesInv

(* For any number of processes that replace and read the file, stopped     *)
(* anywhere, over documents of any size: as long as no two replace it at a *)
(* time the file is one whole document and every reader gets one           *)
(* (config.go writePrivate, LoadConfig).                                   *)
THEOREM DocumentsHold == FileSpec => [](FileTypeOK /\ WholeDocuments)
<1>1. FilesInv => FileTypeOK /\ WholeDocuments
  BY DEF FilesInv
<1> QED
  BY <1>1, FilesStart, FilesStep, PTL DEF FileSpec

(* And a writer that met no other puts down its own document, whatever     *)
(* killed ones left (config.go writePrivate).                              *)
THEOREM LoneWritesHold == FileSpec => LoneWriteLands
<1>1. ASSUME FilesInv, NEW w \in lone, Rename(w)
      PROVE  path' # NoFile /\ disk'[path'] = Whole(doc[w])
  <2>1. /\ tmp # NoFile /\ tmp \in Inodes /\ disk[tmp] = Whole(doc[w]) /\ path' = tmp
    BY <1>1 DEF Rename, FilesInv, LoneInv, FileTypeOK
  <2>2. disk'[path'] = disk[path']
    BY <1>1, <2>1, Reclaimed DEF Rename, FilesInv, FileTypeOK
  <2> QED
    BY <2>1, <2>2
<1>2. FilesInv /\ [FileNext]_fileVars =>
        [\A w \in lone : Rename(w) =>
           path' # NoFile /\ disk'[path'] = Whole(doc[w])]_fileVars
  BY <1>1
<1> QED
  BY <1>2, FilesStart, FilesStep, PTL DEF FileSpec, LoneWriteLands

=============================================================================
