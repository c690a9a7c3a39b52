------------------------------ MODULE Upgrade ------------------------------
(***************************************************************************)
(* transpareo upgrade (internal/upgrade/upgrade.go, internal/cli/          *)
(* upgrade.go): several runs of it, started from the binary they are about *)
(* to replace or to verify, each of which may fail or be killed at any     *)
(* point.  What GitHub serves under a name may be of any release, or of    *)
(* none; what the Sigstore verifier accepts is a release's own file.       *)
(*                                                                         *)
(* A file has the name of the run that wrote it.  Each run is one process  *)
(* and replaces the binary once at most.                                   *)
(***************************************************************************)
CONSTANTS
  Upgraders,   \* the processes
  Versions,    \* the releases
  Junk,        \* an asset of no release: cut short, or altered
  Original,    \* the file first installed
  None         \* no file

ASSUME UpgradeAssumption ==
  /\ Junk \notin Versions
  /\ Original \notin Upgraders
  /\ None \notin Upgraders \cup {Original} \cup Versions

Files == Upgraders \cup {Original}
Assets == Versions \cup {Junk}

VARIABLES
  windows,   \* the host, whose running images are neither removed nor replaced
  target,    \* the file under the binary's name
  old,       \* the file under that name with .old
  temps,     \* processes whose temporary file is there
  written,   \* how far each file is written
  content,   \* what it is the binary of
  at,        \* the step each process is at
  image,     \* the file it runs from
  mode,      \* the flags it was given
  to,        \* the release it found
  sums,      \* the release its verified checksum file is of
  verdict    \* what it reported

names == <<windows, target, old, temps, written>>
upgradeVars == <<names, content, at, image, mode, to, sums, verdict>>

UpgradeInit ==
  /\ windows \in BOOLEAN
  /\ target = Original /\ old = None /\ temps = {}
  /\ written = [f \in Files |-> IF f = Original THEN "ready" ELSE "none"]
  /\ content \in { [f \in Files |-> IF f = Original THEN v ELSE None] :
                     v \in Versions }
  /\ at = [p \in Upgraders |-> "idle"]
  /\ image = [p \in Upgraders |-> None]
  /\ mode = [p \in Upgraders |-> "latest"]
  /\ to = [p \in Upgraders |-> None]
  /\ sums = [p \in Upgraders |-> None]
  /\ verdict = [p \in Upgraders |-> "none"]

-----------------------------------------------------------------------------
Running(p) == at[p] \notin {"idle", "over"}

Held(f) == \E p \in Upgraders : Running(p) /\ image[p] = f

Goes(p, from, next) == at[p] = from /\ at' = [at EXCEPT ![p] = next]

\* The process ends and reports v.
Ends(p, v) ==
  /\ at' = [at EXCEPT ![p] = "over"]
  /\ image' = [image EXCEPT ![p] = None]
  /\ verdict' = [verdict EXCEPT ![p] = v]

StartUpgrade(p) ==
  /\ Goes(p, "idle", "ask")
  /\ target # None
  /\ image' = [image EXCEPT ![p] = target]
  /\ \E m \in {"latest", "pinned", "verify"} : mode' = [mode EXCEPT ![p] = m]
  /\ UNCHANGED <<names, content, to, sums, verdict>>

\* The version compiled into the binary that runs.
Current(p) == content[image[p]]

\* Mutant of FetchRelease: a verification asks for the latest release.
FetchReleaseLatest(p) ==
  /\ at[p] = "ask"
  /\ \E v \in Versions :
       /\ to' = [to EXCEPT ![p] = v]
       /\ IF mode[p] = "latest" /\ v = Current(p)
          THEN Ends(p, "current")
          ELSE Goes(p, "ask", "sums") /\ UNCHANGED <<image, verdict>>
  /\ UNCHANGED <<names, content, mode, sums>>

\* Mutant of FetchRelease: an answer without a tag is taken.
FetchReleaseUntagged(p) ==
  /\ at[p] = "ask"
  /\ \E v \in Assets :
       /\ mode[p] = "verify" => v = Current(p)
       /\ to' = [to EXCEPT ![p] = v]
       /\ IF mode[p] = "latest" /\ v = Current(p)
          THEN Ends(p, "current")
          ELSE Goes(p, "ask", "sums") /\ UNCHANGED <<image, verdict>>
  /\ UNCHANGED <<names, content, mode, sums>>

\* fetchRelease: the latest release, the pinned one, or the binary's own.
FetchRelease(p) ==
  /\ at[p] = "ask"
  /\ \E v \in Versions :
       /\ mode[p] = "verify" => v = Current(p)
       /\ to' = [to EXCEPT ![p] = v]
       /\ IF mode[p] = "latest" /\ v = Current(p)
          THEN Ends(p, "current")
          ELSE Goes(p, "ask", "sums") /\ UNCHANGED <<image, verdict>>
  /\ UNCHANGED <<names, content, mode, sums>>

\* Verifier.Verify: the bundle signs this very checksum file, for the release
\* workflow.
Verifies(bundle, checksums) == checksums \in Versions /\ bundle = checksums

FetchChecksums(p) ==
  /\ Goes(p, "sums", "archive")
  /\ \E checksums, bundle \in Assets :
       /\ Verifies(bundle, checksums)
       /\ sums' = [sums EXCEPT ![p] = checksums]
  /\ UNCHANGED <<names, content, image, mode, to, verdict>>

\* Mutant of Listed: a checksum file without the entry passes.
ListedOrUnnamed(checksums, version, archive) ==
  checksums = version => archive = version

\* verifyChecksum: the file names the archive of its own release only.
Listed(checksums, version, archive) ==
  checksums = version /\ archive = version

FetchArchive(p) ==
  /\ Goes(p, "archive", IF mode[p] = "verify" THEN "compare" ELSE "create")
  /\ \E archive \in Assets :
       /\ Listed(sums[p], to[p], archive)
       /\ content' = [content EXCEPT ![p] = archive]
  /\ UNCHANGED <<names, image, mode, to, sums, verdict>>

-----------------------------------------------------------------------------
(* replace.                                                                *)
CreateTemp(p) ==
  /\ Goes(p, "create", "write")
  /\ temps' = temps \cup {p}
  /\ written' = [written EXCEPT ![p] = "part"]
  /\ UNCHANGED <<windows, target, old, content, image, mode, to, sums,
                 verdict>>

WriteBinary(p) ==
  /\ Goes(p, "write", "chmod")
  /\ written' = [written EXCEPT ![p] = "whole"]
  /\ UNCHANGED <<windows, target, old, temps, content, image, mode, to, sums,
                 verdict>>

Chmod(p) ==
  /\ Goes(p, "chmod", IF windows THEN "remove" ELSE "rename")
  /\ written' = [written EXCEPT ![p] = "ready"]
  /\ UNCHANGED <<windows, target, old, temps, content, image, mode, to, sums,
                 verdict>>

\* os.Remove of the .old file, whose error is ignored.
RemoveOld(p) ==
  /\ Goes(p, "remove", "aside")
  /\ \/ ~Held(old) /\ old' = None
     \/ old' = old
  /\ UNCHANGED <<windows, target, temps, written, content, image, mode, to,
                 sums, verdict>>

\* Mutant of MoveAside: the binary is removed instead.
MoveAsideRemoved(p) ==
  /\ Goes(p, "aside", "rename")
  /\ target # None
  /\ target' = None
  /\ UNCHANGED <<windows, old, temps, written, content, image, mode, to, sums,
                 verdict>>

MoveAside(p) ==
  /\ Goes(p, "aside", "rename")
  /\ target # None /\ ~Held(old)
  /\ old' = target
  /\ target' = None
  /\ UNCHANGED <<windows, temps, written, content, image, mode, to, sums,
                 verdict>>

MoveIn(p) ==
  /\ at[p] = "rename"
  /\ windows => ~Held(target)
  /\ target' = p
  /\ temps' = temps \ {p}
  /\ Ends(p, "installed")
  /\ UNCHANGED <<windows, old, written, content, mode, to, sums>>

\* Verify, once the released binary is in memory.
Compare(p) ==
  /\ at[p] = "compare"
  /\ target # None
  /\ Ends(p, IF content[target] = content[p] THEN "verified" ELSE "modified")
  /\ UNCHANGED <<names, content, mode, to, sums>>

-----------------------------------------------------------------------------
\* Mutant of Fail: the temporary file is forgotten.
FailLittering(p) ==
  /\ Running(p) /\ at[p] # "remove"
  /\ Ends(p, "failed")
  /\ UNCHANGED <<names, content, mode, to, sums>>

\* Any error but that of the Remove: the temporary file is removed.
Fail(p) ==
  /\ Running(p) /\ at[p] # "remove"
  /\ temps' = temps \ {p}
  /\ Ends(p, "failed")
  /\ UNCHANGED <<windows, target, old, written, content, mode, to, sums>>

Kill(p) ==
  /\ Running(p)
  /\ Ends(p, "none")
  /\ UNCHANGED <<names, content, mode, to, sums>>

UpgradeNext ==
  \E p \in Upgraders :
    \/ StartUpgrade(p) \/ FetchRelease(p) \/ FetchChecksums(p)
    \/ FetchArchive(p) \/ CreateTemp(p) \/ WriteBinary(p) \/ Chmod(p)
    \/ RemoveOld(p) \/ MoveAside(p) \/ MoveIn(p) \/ Compare(p)
    \/ Fail(p) \/ Kill(p)

UpgradeSpec == UpgradeInit /\ [][UpgradeNext]_upgradeVars

-----------------------------------------------------------------------------
Steps == {"idle", "ask", "sums", "archive", "create", "write", "chmod",
          "remove", "aside", "rename", "compare", "over"}

Verdicts == {"none", "current", "installed", "verified", "modified", "failed"}

UpgradeTypeOK ==
  /\ windows \in BOOLEAN
  /\ target \in Files \cup {None}
  /\ old \in Files \cup {None}
  /\ temps \subseteq Upgraders
  /\ written \in [Files -> {"none", "part", "whole", "ready"}]
  /\ content \in [Files -> Assets \cup {None}]
  /\ at \in [Upgraders -> Steps]
  /\ image \in [Upgraders -> Files \cup {None}]
  /\ mode \in [Upgraders -> {"latest", "pinned", "verify"}]
  /\ to \in [Upgraders -> Versions \cup {None}]
  /\ sums \in [Upgraders -> Versions \cup {None}]
  /\ verdict \in [Upgraders -> Verdicts]

\* A binary somebody can run, of the release its upgrade reported.
Sound(f) ==
  /\ written[f] = "ready"
  /\ content[f] \in Versions
  /\ f \in Upgraders => content[f] = to[f]

(* Whatever failed or was killed, and however many upgrades ran, the name  *)
(* of the binary holds a whole, executable one of the release that was     *)
(* named, or nothing (upgrade.go Run and replace; cli/upgrade.go, "Nothing *)
(* is installed when either check fails").                                 *)
TargetSound == target # None => Sound(target)

(* The name is empty on Windows only, and then the binary is whole under   *)
(* the .old name: no later or concurrent upgrade may remove it there       *)
(* (upgrade.go replace, the two renames).                                  *)
Recoverable == target = None => windows /\ old # None /\ Sound(old)

(* Only a killed upgrade leaves its temporary file behind (upgrade.go      *)
(* replace, the removals on its error paths).                              *)
NoLitter == \A p \in temps : at[p] = "over" => verdict[p] = "none"

(* upgrade --verify calls the binary modified only when another upgrade    *)
(* has replaced the file it runs from (upgrade.go Verify).                 *)
NoFalseAlarm ==
  [][\A p \in Upgraders :
       verdict'[p] # verdict[p] /\ verdict'[p] = "modified" =>
         target # image[p]]_upgradeVars

(* Whatever failed, was killed or overlapped: there is one sound binary    *)
(* under one of the two names, and only a kill leaves litter (upgrade.go   *)
(* replace).                                                               *)
BinaryKept == TargetSound /\ Recoverable /\ NoLitter

=============================================================================
