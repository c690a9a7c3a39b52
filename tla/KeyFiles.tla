----------------------------- MODULE KeyFiles ------------------------------
(***************************************************************************)
(* The signing endpoint's two key files: signer keygen writes them one     *)
(* after the other (internal/cli/signer.go signerKeygen, pkg/transpareo/   *)
(* signer/keys.go WritePrivateKey), and signer serve reads them one after  *)
(* the other as it starts (loadSignerKeys).  Runs of both overlap, fail    *)
(* and are killed.  A key is named by the run that generated it.           *)
(***************************************************************************)
EXTENDS Naturals, Sequences

CONSTANTS
  Generators,  \* runs of keygen, each one pair of keys
  Servers,     \* runs of serve
  NoKey,       \* no file
  HalfKey      \* a file that is empty or cut short

ASSUME KeyFilesAssumption ==
  {NoKey, HalfKey} \cap Generators = {} /\ NoKey # HalfKey

\* The P-256 key and then the Ed25519 key.
First == 1
Second == 2

VARIABLES
  key,      \* the two files
  step,     \* where each run of keygen is
  nth,      \* the file it is at
  force,    \* whether it was given --force
  report,   \* what it reported
  crossed,  \* runs that a run with --force overlapped or followed
  loading,  \* the file each server reads next
  loaded    \* the keys it has read

generating == <<key, step, nth, force, report, crossed>>
keyVars == <<generating, loading, loaded>>

KeyFilesInit ==
  /\ key = [i \in First..Second |-> NoKey]
  /\ step = [g \in Generators |-> "idle"]
  /\ nth = [g \in Generators |-> First]
  /\ force \in [Generators -> BOOLEAN]
  /\ report = [g \in Generators |-> "none"]
  /\ crossed = {}
  /\ loading = [s \in Servers |-> First]
  /\ loaded = [s \in Servers |-> <<>>]

-----------------------------------------------------------------------------
AtWork(g) == step[g] \in {"open", "write"}

\* g begins: it and every run that has begun are crossed where one is forced.
BeginKeygen(g) ==
  LET before == { h \in Generators : step[h] # "idle" }
      beside == { h \in Generators : AtWork(h) }
  IN /\ step[g] = "idle"
     /\ step' = [step EXCEPT ![g] = "open"]
     /\ crossed' = crossed
          \cup (IF force[g] THEN before ELSE { h \in beside : force[h] })
          \cup (IF \E h \in beside : force[g] \/ force[h] THEN {g} ELSE {})
     /\ UNCHANGED <<key, nth, force, report, loading, loaded>>

EndKeygen(g, how) ==
  /\ step' = [step EXCEPT ![g] = "over"]
  /\ report' = [report EXCEPT ![g] = how]

\* Mutant of OpenKey: a file that exists is emptied whatever was asked.
OpenKeyAlways(g) ==
  /\ step[g] = "open"
  /\ key' = [key EXCEPT ![nth[g]] = HalfKey]
  /\ step' = [step EXCEPT ![g] = "write"]
  /\ UNCHANGED <<nth, force, report, crossed, loading, loaded>>

\* Mutant of OpenKey: a file that exists is passed over.
OpenKeySkipping(g) ==
  /\ step[g] = "open"
  /\ IF force[g] \/ key[nth[g]] = NoKey
     THEN /\ key' = [key EXCEPT ![nth[g]] = HalfKey]
          /\ step' = [step EXCEPT ![g] = "write"]
          /\ UNCHANGED <<nth, report>>
     ELSE /\ IF nth[g] = Second
             THEN EndKeygen(g, "printed") /\ UNCHANGED nth
             ELSE nth' = [nth EXCEPT ![g] = Second] /\ UNCHANGED <<step, report>>
          /\ UNCHANGED key
  /\ UNCHANGED <<force, crossed, loading, loaded>>

\* os.OpenFile with O_EXCL, or with O_TRUNC under --force.
OpenKey(g) ==
  /\ step[g] = "open"
  /\ IF force[g] \/ key[nth[g]] = NoKey
     THEN /\ key' = [key EXCEPT ![nth[g]] = HalfKey]
          /\ step' = [step EXCEPT ![g] = "write"]
          /\ UNCHANGED report
     ELSE /\ EndKeygen(g, "exists")
          /\ UNCHANGED key
  /\ UNCHANGED <<nth, force, crossed, loading, loaded>>

\* The key of a run that has the file open; after the second both public keys
\* are printed.
WriteKey(g) ==
  /\ step[g] = "write"
  /\ key' = [key EXCEPT ![nth[g]] = g]
  /\ IF nth[g] = Second
     THEN EndKeygen(g, "printed") /\ UNCHANGED nth
     ELSE /\ step' = [step EXCEPT ![g] = "open"]
          /\ nth' = [nth EXCEPT ![g] = Second]
          /\ UNCHANGED report
  /\ UNCHANGED <<force, crossed, loading, loaded>>

\* An error of the open or of the write, or killed: the half file stays.
StopKeygen(g) ==
  /\ AtWork(g)
  /\ EndKeygen(g, "failed")
  /\ UNCHANGED <<key, nth, force, crossed, loading, loaded>>

\* Mutant of LoadKey: a server goes on with what keys it finds.
LoadKeyAny(s) ==
  /\ loading[s] \in First..Second
  /\ loading' = [loading EXCEPT ![s] = @ + 1]
  /\ loaded' = [loaded EXCEPT ![s] = Append(@, key[loading[s]])]
  /\ UNCHANGED generating

\* LoadP256 and LoadEd25519: a file that is no key ends the server.
LoadKey(s) ==
  /\ loading[s] \in First..Second
  /\ IF key[loading[s]] \in Generators
     THEN /\ loading' = [loading EXCEPT ![s] = @ + 1]
          /\ loaded' = [loaded EXCEPT ![s] = Append(@, key[loading[s]])]
     ELSE /\ loading' = [loading EXCEPT ![s] = 0]
          /\ loaded' = [loaded EXCEPT ![s] = <<>>]
  /\ UNCHANGED generating

KeyFilesNext ==
  \/ \E g \in Generators :
       BeginKeygen(g) \/ OpenKey(g) \/ WriteKey(g) \/ StopKeygen(g)
  \/ \E s \in Servers : LoadKey(s)

KeyFilesSpec == KeyFilesInit /\ [][KeyFilesNext]_keyVars

-----------------------------------------------------------------------------
KeyFilesTypeOK ==
  /\ key \in [First..Second -> Generators \cup {NoKey, HalfKey}]
  /\ step \in [Generators -> {"idle", "open", "write", "over"}]
  /\ nth \in [Generators -> First..Second]
  /\ force \in [Generators -> BOOLEAN]
  /\ report \in [Generators -> {"none", "exists", "failed", "printed"}]
  /\ crossed \subseteq Generators
  /\ loading \in [Servers -> 0..3]
  /\ loaded \in [Servers -> UNION { [1..n -> Generators] : n \in 0..2 }]

(* A run that has printed its public keys left both of its private keys    *)
(* behind, and they stay, through overlapping and failing runs alike,      *)
(* until a run with --force comes (signer.go signerKeygen, keys.go         *)
(* WritePrivateKey "refuses to replace an existing file").                 *)
PrintedOnDisk ==
  \A g \in Generators : report[g] = "printed" /\ g \notin crossed =>
    key[First] = g /\ key[Second] = g

(* As long as no run with --force has begun, the two keys a server signs   *)
(* with are of one run, though keygen may be killed between the files and  *)
(* may be at work while the server reads them (signer.go loadSignerKeys).  *)
ServesOnePair ==
  (\A g \in Generators : force[g] => step[g] = "idle") =>
    \A s \in Servers : loading[s] = 3 => loaded[s][First] = loaded[s][Second]

(* Keys that were printed are on disk, and keys that serve are a pair      *)
(* (signer.go signerKeygen and loadSignerKeys).                            *)
PairsKept == PrintedOnDisk /\ ServesOnePair

-----------------------------------------------------------------------------
(* The inductive invariant behind the theorem of FilesProofs. *)

\* What a run has not begun it has not done, and files are not removed.
BegunInv ==
  \A g \in Generators :
    /\ step[g] = "idle" => nth[g] = First /\ report[g] = "none"
    /\ report[g] = "printed" => step[g] = "over"
    /\ step[g] = "write" => key[nth[g]] # NoKey
    /\ key[First] = g => nth[g] = Second
    /\ key[Second] = g => report[g] = "printed"

\* A run that is not crossed meets no forced run, and two runs are at the same
\* file only where one is forced.
CrossedInv ==
  \A g, h \in Generators : g # h =>
    /\ g \notin crossed /\ step[g] # "idle" /\ AtWork(h) =>
         ~(force[h] \/ (AtWork(g) /\ force[g]))
    /\ step[g] = "write" /\ step[h] = "write" /\ nth[g] = nth[h] =>
         force[g] \/ force[h]
    /\ g \notin crossed /\ step[g] # "idle" /\ step[h] = "write" => key[nth[h]] # g

\* The first key of a run that is not crossed stays once it is written.
FirstStays ==
  \A g \in Generators \ crossed :
    (AtWork(g) /\ nth[g] = Second) \/ report[g] = "printed" => key[First] = g

NoneForced == \A g \in Generators : force[g] => step[g] = "idle"

\* What a server has read: as many keys as it says, the first still on disk.
LoadedInv ==
  \A s \in Servers :
    /\ loaded[s] \in Seq(Generators)
    /\ loading[s] # 0 => Len(loaded[s]) = loading[s] - 1
    /\ NoneForced /\ loading[s] \in {2, 3} => loaded[s][First] = key[First]

KeyFilesInv ==
  /\ KeyFilesTypeOK /\ BegunInv /\ CrossedInv /\ FirstStays /\ LoadedInv
  /\ NoneForced => crossed = {}
  /\ PairsKept

=============================================================================
