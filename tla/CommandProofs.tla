--------------------------- MODULE CommandProofs ----------------------------
(***************************************************************************)
(* What a command makes of its arguments and its environment: the profile  *)
(* it resolves, the mapping of the columns of an import, the guard of      *)
(* `transpareo api`, the request of a generated command, and the waits     *)
(* between the attempts of a call.                                         *)
(*                                                                         *)
(* Induction over data is by the least counterexample (LeastNumber): of a  *)
(* set of numbers for which a claim fails, the least one is looked at.     *)
(***************************************************************************)
EXTENDS Resolution, ColumnMapping, ApiCommand, GeneratedCommand, Backoff,
        SequenceTheorems, FiniteSetTheorems, WellFoundedInduction, TLAPS

(* A set of natural numbers has a least one. *)
LEMMA LeastNumber ==
  ASSUME NEW T, T \subseteq Nat, T # {}
  PROVE  \E x \in T : \A y \in T : x <= y
<1>1. PICK x \in T : \A y \in T : ~(<<y, x>> \in OpToRel(<, Nat))
  BY NatLessThanWellFounded, WFMin
<1>2. \A y \in T : ~(y < x)
  BY <1>1 DEF OpToRel
<1> QED
  BY <1>2

-----------------------------------------------------------------------------
(* Resolution: the environment is respected, and leaves nothing behind.    *)

(* What Resolver makes of a name, an environment and a store is a profile. *)
LEMMA ResolvedType ==
  ASSUME ResolutionTypeOK, ~Unreadable
  PROVE  ApplyEnv(Loaded) \in Profiles
<1> USE DEF Maybe
<1>1. \A n \in ProfileNames : Stored[n].host \in Hosts /\ Stored[n].client \in Clients
  BY ResolutionAssumption
<1>2. EnvHosts \subseteq Hosts /\ EnvClients \subseteq Clients
  BY DEF Hosts, Clients
<1>3. /\ env.host \in EnvHosts \cup {Unset} /\ env.client \in EnvClients \cup {Unset}
      /\ env.secret \in {Unset, "given"} /\ env.token \in {Unset, Given}
  BY DEF ResolutionTypeOK, Environments
<1>4. around.secret \in {"stored", Unset, "error"}
  BY DEF ResolutionTypeOK, Surroundings
<1>5. CASE ProfileName \in exists
  <2>1. ProfileName \in ProfileNames /\ around.secret # "error"
    BY <1>5 DEF Unreadable, ResolutionTypeOK
  <2>2. Loaded = [name |-> ProfileName, host |-> Stored[ProfileName].host,
                  client |-> Stored[ProfileName].client, secret |-> around.secret,
                  token |-> Unset, kept |-> "store"]
    BY <1>5 DEF Loaded
  <2> QED
    BY <1>1, <1>2, <1>3, <1>4, <2>1, <2>2 DEF ApplyEnv, Or, Profiles
<1>6. CASE ProfileName \notin exists
  BY <1>2, <1>3, <1>6 DEF Loaded, NoProfile, ApplyEnv, Or, Profiles
<1> QED
  BY <1>5, <1>6

(* A complete profile without a token of its own gets one that is typed. *)
LEMMA IssuedType ==
  ASSUME ResolutionTypeOK, Complete(profile), profile.token = Unset
  PROVE  Issued(profile) \in Tokens
  BY DEF ResolutionTypeOK, Complete, Profiles, Maybe, Issued, Tokens

(* A command that keeps its token works with a stored profile. *)
LEMMA KeepsStored ==
  ASSUME ResolutionTypeOK, ResolvedInv, phase = "resolved", KeepsToken(profile)
  PROVE  /\ profile.name \in ProfileNames
         /\ env.secret = Unset /\ env.token = Unset
         /\ profile.secret = "stored"
         /\ profile.host = Or(env.host, Stored[profile.name].host)
         /\ profile.client = Or(env.client, Stored[profile.name].client)
<1>1. /\ profile = ApplyEnv(Loaded) /\ Complete(profile) /\ ~Unreadable
      /\ profile.name # Unset /\ profile.token = Unset /\ profile.kept # "environment"
  BY DEF ResolvedInv, KeepsToken
<1>2. env.secret = Unset /\ env.token = Unset
  BY <1>1 DEF ApplyEnv
<1>3. ProfileName \in exists /\ Loaded.name = ProfileName
  BY <1>1 DEF ApplyEnv, Loaded, NoProfile
<1>4. /\ profile.name = ProfileName
      /\ profile.host = Or(env.host, Stored[ProfileName].host)
      /\ profile.client = Or(env.client, Stored[ProfileName].client)
      /\ profile.secret = around.secret
  BY <1>1, <1>2, <1>3 DEF ApplyEnv, Loaded, Or
<1>5. around.secret = "stored"
  BY <1>1, <1>3, <1>4 DEF Complete, Unreadable, ResolutionTypeOK, Surroundings
<1> QED
  BY <1>2, <1>3, <1>4, <1>5 DEF ResolutionTypeOK

(* Every step keeps the types. *)
LEMMA ResolutionTypeStep ==
  ResolutionTypeOK /\ [ResolutionNext]_resolutionVars => ResolutionTypeOK'
<1> SUFFICES ASSUME ResolutionTypeOK, [ResolutionNext]_resolutionVars
             PROVE  ResolutionTypeOK'
  OBVIOUS
<1> USE DEF stored, command
<1>1. CASE UNCHANGED resolutionVars
  BY <1>1 DEF resolutionVars, ResolutionTypeOK, Complete
<1>2. CASE StartCommand
  BY <1>2 DEF StartCommand, ResolutionTypeOK, Complete
<1>3. CASE Resolve
  <2>1. CASE Unreadable \/ Missing \/ ~Complete(ApplyEnv(Loaded))
    BY <1>3, <2>1 DEF Resolve, ResolutionTypeOK, Complete
  <2>2. CASE ~(Unreadable \/ Missing \/ ~Complete(ApplyEnv(Loaded)))
    <3>1. ApplyEnv(Loaded) \in Profiles
      BY <2>2, ResolvedType
    <3> QED
      BY <1>3, <2>2, <3>1 DEF Resolve, ResolutionTypeOK, Complete
  <2> QED
    BY <2>1, <2>2
<1>4. CASE UseToken
  <2>1. Complete(profile) /\ profile \in Profiles
    BY <1>4 DEF UseToken, ResolutionTypeOK
  <2>2. used' \in Tokens \cup {Given} /\ (profile.token = Unset => used' \in Tokens)
    <3>1. CASE profile.token # Unset
      BY <1>4, <2>1, <3>1 DEF UseToken, Profiles
    <3>2. CASE profile.token = Unset /\ KeepsToken(profile) /\ tokens[profile.name] # Unset
      <4>1. profile.name \in ProfileNames
        BY <2>1, <3>2 DEF KeepsToken, Profiles, Maybe
      <4> QED
        BY <1>4, <3>2, <4>1 DEF UseToken, ResolutionTypeOK, Maybe
    <3>3. CASE profile.token = Unset /\ ~(KeepsToken(profile) /\ tokens[profile.name] # Unset)
      BY <1>4, <2>1, <3>3, IssuedType DEF UseToken
    <3> QED
      BY <3>1, <3>2, <3>3
  <2>3. tokens' \in [ProfileNames -> Maybe(Tokens)]
    BY <1>4, <2>2 DEF UseToken, ResolutionTypeOK, KeepsToken, Maybe
  <2>4. mixed' \in BOOLEAN
    BY <1>4 DEF UseToken, ResolutionTypeOK, HalfGiven
  <2> QED
    BY <1>4, <2>1, <2>2, <2>3, <2>4 DEF UseToken, ResolutionTypeOK, Complete, Maybe
<1>5. CASE FailExchange
  BY <1>5 DEF FailExchange, ResolutionTypeOK, Complete
<1>6. CASE EndCommand
  <2>1. /\ NoProfile \in Profiles /\ NoEnvironment \in Environments
        /\ NothingSpecial \in Surroundings
    BY DEF NoProfile, Profiles, NoEnvironment, Environments, NothingSpecial,
           Surroundings, Maybe
  <2> QED
    BY <1>6, <2>1 DEF EndCommand, ResolutionTypeOK, Maybe
<1>7. CASE Expire
  BY <1>7 DEF Expire, ResolutionTypeOK, Complete, Maybe
<1> QED
  BY <1>1, <1>2, <1>3, <1>4, <1>5, <1>6, <1>7 DEF ResolutionNext

(* Types of what a command resolves, uses and keeps. *)
THEOREM ResolutionTypeCorrect == ResolutionSpec => []ResolutionTypeOK
<1>1. ResolutionInit => ResolutionTypeOK
  <2>1. /\ NoProfile \in Profiles /\ NoEnvironment \in Environments
        /\ NothingSpecial \in Surroundings
    BY DEF NoProfile, Profiles, NoEnvironment, Environments, NothingSpecial,
           Surroundings, Maybe
  <2> QED
    BY <2>1 DEF ResolutionInit, ResolutionTypeOK, Maybe
<1> QED
  BY <1>1, ResolutionTypeStep, PTL DEF ResolutionSpec

(* With a whole credential in its environment only what cannot be read     *)
(* stops a command.                                                        *)
LEMMA WholeResolves ==
  ASSUME ResolutionTypeOK, EnvironmentWhole, option = Unset,
         Unreadable \/ Missing \/ ~Complete(ApplyEnv(Loaded))
  PROVE  "error" \in {around.project, around.config, around.secret}
<1>1. ~Missing
  BY DEF Missing
<1>2. Complete(ApplyEnv(Loaded))
  BY DEF EnvironmentWhole, Complete, ApplyEnv, Or
<1>3. Unreadable
  BY <1>1, <1>2
<1>4. env.name # "error" /\ standard # "error"
  BY ResolutionAssumption DEF ResolutionTypeOK, Environments
<1> QED
  BY <1>3, <1>4 DEF Unreadable, ProfileName, Or

(* Every step keeps the profile, the tokens kept and the command's word. *)
LEMMA RespectStep ==
  ResolutionTypeOK /\ RespectInv /\ [ResolutionNext]_resolutionVars => RespectInv'
<1> SUFFICES ASSUME ResolutionTypeOK, RespectInv, [ResolutionNext]_resolutionVars
             PROVE  RespectInv'
  OBVIOUS
<1> USE DEF stored, command, RespectInv, EnvironmentRespected
<1>0. ASSUME UNCHANGED <<stored, command>>
      PROVE  EnvironmentWhole' <=> EnvironmentWhole
  BY <1>0 DEF EnvironmentWhole
<1>1. CASE UNCHANGED resolutionVars
  <2> USE <1>1 DEF resolutionVars
  <2>1. EnvironmentSuffices' /\ EnvironmentKeepsNothing' /\ TokenFitsProfile'
    BY <1>0 DEF EnvironmentSuffices, EnvironmentKeepsNothing, TokenFitsProfile, Issued
  <2>2. ResolvedInv' /\ TokensFit'
    BY DEF ResolvedInv, TokensFit, Complete, Unreadable, ProfileName,
              ApplyEnv, Loaded, NoProfile
  <2> QED
    BY <2>1, <2>2
<1>2. CASE StartCommand
  BY <1>2 DEF StartCommand, EnvironmentSuffices, EnvironmentKeepsNothing,
              TokenFitsProfile, ResolvedInv, TokensFit
<1>3. CASE Resolve
  <2> USE <1>3 DEF Resolve
  <2>1. EnvironmentSuffices'
    BY <1>0, WholeResolves DEF EnvironmentSuffices
  <2>2. EnvironmentKeepsNothing' /\ TokenFitsProfile' /\ TokensFit'
    BY DEF EnvironmentKeepsNothing, TokenFitsProfile, TokensFit
  <2>3. ResolvedInv'
    BY DEF ResolvedInv, Complete, Unreadable, ProfileName,
              ApplyEnv, Loaded, NoProfile
  <2> QED
    BY <2>1, <2>2, <2>3
<1>4. CASE UseToken
  <2>0. /\ phase = "resolved" /\ phase' = "sent"
        /\ UNCHANGED <<stored, command, profile>>
        /\ profile = ApplyEnv(Loaded) /\ Complete(profile) /\ profile \in Profiles
    BY <1>4 DEF UseToken, ResolvedInv, ResolutionTypeOK
  <2>1. EnvironmentSuffices' /\ ResolvedInv'
    BY <2>0 DEF EnvironmentSuffices, ResolvedInv, Complete, Unreadable, ProfileName,
              ApplyEnv, Loaded, NoProfile
  <2>2. profile.token = env.token /\ (env.secret # Unset => profile.kept = "environment")
    BY <2>0 DEF ApplyEnv
  <2>3. CASE KeepsToken(profile)
    <3>1. /\ profile.name \in ProfileNames
          /\ env.secret = Unset /\ env.token = Unset
          /\ profile.secret = "stored"
          /\ profile.host = Or(env.host, Stored[profile.name].host)
          /\ profile.client = Or(env.client, Stored[profile.name].client)
          /\ profile.token = Unset /\ profile.name # Unset
      BY <2>0, <2>3, KeepsStored DEF KeepsToken
    <3>2. /\ used' = IF tokens[profile.name] # Unset THEN tokens[profile.name]
                     ELSE Issued(profile)
          /\ tokens' = [tokens EXCEPT ![profile.name] = used']
      BY <1>4, <2>3, <3>1 DEF UseToken
    <3>3. mixed' = (mixed \/ env.host # Unset \/ env.client # Unset)
      BY <1>4, <3>1 DEF UseToken, HalfGiven, ResolutionTypeOK
    <3>4. used'.secret = "stored"
      BY <3>1, <3>2 DEF Issued, EnvironmentKeepsNothing
    <3>5. ~mixed' => /\ used'.host = Stored[profile.name].host
                     /\ used'.client = Stored[profile.name].client
                     /\ profile.host = Stored[profile.name].host
                     /\ profile.client = Stored[profile.name].client
      BY <3>1, <3>2, <3>3 DEF Issued, TokensFit, Or
    <3>6. EnvironmentKeepsNothing'
      BY <2>0, <3>1, <3>2, <3>4 DEF EnvironmentKeepsNothing, ResolutionTypeOK
    <3>7. TokenFitsProfile'
      BY <2>0, <3>5 DEF TokenFitsProfile
    <3>8. TokensFit'
      BY <3>1, <3>2, <3>3, <3>5 DEF TokensFit, ResolutionTypeOK
    <3> QED
      BY <2>1, <3>6, <3>7, <3>8
  <2>4. CASE ~KeepsToken(profile)
    <3>1. /\ used' = IF profile.token # Unset THEN profile.token ELSE Issued(profile)
          /\ tokens' = tokens /\ (~mixed' => ~mixed)
      BY <1>4, <2>4 DEF UseToken
    <3>2. profile.token \in {Given, Unset}
      BY <2>0 DEF Profiles
    <3>3. EnvironmentKeepsNothing'
      BY <2>0, <2>2, <3>1, <3>2 DEF EnvironmentKeepsNothing, Issued
    <3>4. TokenFitsProfile' /\ TokensFit'
      BY <2>0, <3>1, <3>2 DEF TokenFitsProfile, TokensFit, Issued
    <3> QED
      BY <2>1, <3>3, <3>4
  <2> QED
    BY <2>3, <2>4
<1>5. CASE FailExchange
  <2> USE <1>5 DEF FailExchange
  <2>1. ResolvedInv'
    BY DEF ResolvedInv, Complete, Unreadable, ProfileName,
              ApplyEnv, Loaded, NoProfile
  <2> QED
    BY <2>1 DEF EnvironmentSuffices, EnvironmentKeepsNothing, TokenFitsProfile, TokensFit
<1>6. CASE EndCommand
  BY <1>6 DEF EndCommand, EnvironmentSuffices, EnvironmentKeepsNothing,
              TokenFitsProfile, ResolvedInv, TokensFit
<1>7. CASE Expire
  BY <1>7 DEF Expire, EnvironmentSuffices, EnvironmentKeepsNothing,
              TokenFitsProfile, ResolvedInv, TokensFit, ResolutionTypeOK
<1> QED
  BY <1>1, <1>2, <1>3, <1>4, <1>5, <1>6, <1>7 DEF ResolutionNext

(* For any profiles and environments, and any number of commands one after *)
(* another: a whole credential in the environment suffices and leaves      *)
(* nothing behind, and no token strays (resolve.go Resolve, app.go Client).*)
THEOREM EnvironmentHolds == ResolutionSpec => []EnvironmentRespected
<1>1. ResolutionInit => RespectInv
  BY DEF ResolutionInit, RespectInv, EnvironmentRespected, EnvironmentSuffices,
         EnvironmentKeepsNothing, TokenFitsProfile, ResolvedInv, TokensFit
<1>2. RespectInv => EnvironmentRespected
  BY DEF RespectInv
<1> QED
  BY <1>1, <1>2, RespectStep, ResolutionTypeCorrect, PTL DEF ResolutionSpec

-----------------------------------------------------------------------------
(* ColumnMapping: what was written wins, whatever order it comes in.       *)

(* A name that means one column means one of the index there is. *)
LEMMA OneColumn ==
  ASSUME NEW n, Cardinality(Called(n)) = 1
  PROVE  \E i \in DOMAIN Keys : Called(n) = {i}
<1>1. IsFiniteSet(Called(n))
  <2>1. Called(n) \subseteq 1..Len(Keys) /\ Len(Keys) \in Nat
    BY MappingAssumption, LenProperties DEF Called
  <2>2. IsFiniteSet(1..Len(Keys))
    BY <2>1, FS_Interval
  <2> QED
    BY <2>1, <2>2, FS_Subset
<1>2. PICK i : Called(n) = {i}
  BY <1>1, FS_Singleton
<1>3. i \in DOMAIN Keys
  BY <1>2 DEF Called
<1> QED
  BY <1>2, <1>3

(* The columns have keys of their own. *)
LEMMA KeyOfColumn ==
  ASSUME NEW i \in DOMAIN Keys
  PROVE  Keys[i] \in KeySet /\ (CHOOSE j \in DOMAIN Keys : Keys[j] = Keys[i]) = i
  BY MappingAssumption DEF KeySet

(* The written mapping taken next is for a column its name means. *)
LEMMA WrittenStep ==
  ASSUME MappingInv, TakeWritten
  PROVE  MappingInv'
<1> USE DEF MappingInv
<1>1. PICK name \in todo :
        \/ ended' = "error" /\ UNCHANGED <<todo, resolved>>
        \/ /\ \E k \in ByHeader(name) :
                resolved' = [resolved EXCEPT ![k] = explicit[name]]
           /\ todo' = todo \ {name}
           /\ UNCHANGED ended
  BY DEF TakeWritten
<1>2. ended = "no" /\ UNCHANGED <<input, guesses, leftover>>
  BY DEF TakeWritten
<1>3. \A n : Called(n)' = Called(n)
  BY <1>2 DEF Called, input
<1>4. \A k : Meant(k)' = Meant(k)
  BY <1>2, <1>3 DEF Meant, input
<1>5. CASE ended' = "error" /\ UNCHANGED <<todo, resolved>>
  <2>1. MappingTypeOK'
    BY <1>2, <1>5 DEF MappingTypeOK, input
  <2>2. WrittenInv' /\ MappingKeepsWord'
    BY <1>5 DEF WrittenInv, MappingKeepsWord, WrittenWins, EveryColumnSettled,
       NothingInvented
  <2> QED
    BY <2>1, <2>2
<1>6. ASSUME NEW k \in ByHeader(name), UNCHANGED ended,
             resolved' = [resolved EXCEPT ![k] = explicit[name]],
             todo' = todo \ {name}
      PROVE  MappingInv'
  <2>1. PICK i \in Called(name) : k = Keys[i]
    BY DEF ByHeader
  <2>2. i \in DOMAIN Keys /\ k \in KeySet /\ name \in Meant(k)
    BY <2>1 DEF Called, KeySet, Meant, MappingTypeOK
  <2>3a. name \in DOMAIN explicit
    BY DEF MappingTypeOK
  <2>3b. explicit[name] \in Targets
    BY <2>3a DEF MappingTypeOK
  <2>3. explicit[name] \in Targets /\ explicit[name] # NoMapping
    BY <2>3b, MappingAssumption
  <2>4. MappingTypeOK'
    BY <1>2, <1>6, <2>2, <2>3 DEF MappingTypeOK, input
  <2>5. ASSUME NEW n \in DOMAIN explicit \ todo', NEW j \in DOMAIN Keys, Called(n) = {j}
        PROVE  resolved'[Keys[j]] # NoMapping
    <3>1. CASE n = name
      BY <1>6, <2>1, <2>2, <2>3, <2>5, <3>1 DEF MappingTypeOK
    <3>2. CASE n # name
      BY <1>2, <1>6, <2>2, <2>3, <2>5, <3>2, KeyOfColumn DEF WrittenInv, MappingTypeOK
    <3> QED
      BY <3>1, <3>2
  <2>6. ASSUME NEW l \in KeySet, resolved'[l] # NoMapping
        PROVE  \E n \in Meant(l) \ todo' : resolved'[l] = explicit[n]
    <3>1. CASE l = k
      BY <1>6, <2>2, <3>1 DEF MappingTypeOK
    <3>2. CASE l # k
      BY <1>2, <1>6, <2>6, <3>2 DEF WrittenInv, MappingTypeOK
    <3> QED
      BY <3>1, <3>2
  <2>7. WrittenInv'
    BY <1>2, <1>3, <1>4, <2>5, <2>6 DEF WrittenInv, input
  <2>8. MappingKeepsWord'
    BY <1>2, <1>6 DEF MappingKeepsWord, WrittenWins, EveryColumnSettled, NothingInvented
  <2> QED
    BY <2>4, <2>7, <2>8
<1> QED
  BY <1>1, <1>5, <1>6

(* The suggestions taken are for columns nothing was written for. *)
LEMMA SuggestionStep ==
  ASSUME MappingInv, TakeSuggestions
  PROVE  MappingInv'
<1> USE DEF MappingInv
<1>1. /\ ended = "no" /\ todo = {} /\ UNCHANGED <<input, todo>>
      /\ guesses' = {Keys[i] : i \in {j \in Taken : preview[j].match = "fuzzy"}}
      /\ leftover' = {Keys[i] : i \in LeftOver}
      /\ ended' = IF LeftOver = {} THEN "mapped" ELSE "required"
  BY DEF TakeSuggestions
<1>2. \A i \in DOMAIN Keys :
        resolved'[Keys[i]] = IF i \in Taken THEN preview[i].suggestion ELSE resolved[Keys[i]]
  BY KeyOfColumn DEF TakeSuggestions
<1>3. /\ Taken \subseteq DOMAIN Keys /\ LeftOver \subseteq DOMAIN Keys
      /\ \A i \in Taken :
           /\ resolved[Keys[i]] = NoMapping
           /\ preview[i].suggestion \in {"type"} /\ preview[i].match \in {"exact", "fuzzy"}
           /\ preview[i].match = "fuzzy" => ~exactOnly
  BY DEF Taken, LeftOver, Takeable, MappingTypeOK, Columns, Suggestions
<1>4. MappingTypeOK'
  <2>1. resolved' \in [KeySet -> Targets \cup Suggestions]
    <3>1. \A k \in KeySet : \E i \in DOMAIN Keys : k = Keys[i]
      BY DEF KeySet
    <3>2. \A i \in DOMAIN Keys : resolved'[Keys[i]] \in Targets \cup Suggestions
      BY <1>2, <1>3, KeyOfColumn DEF MappingTypeOK, Suggestions
    <3>3. DOMAIN resolved' = KeySet /\ resolved' = [k \in KeySet |-> resolved'[k]]
      BY DEF TakeSuggestions
    <3> QED
      BY <3>1, <3>2, <3>3
  <2>2. guesses' \subseteq KeySet /\ leftover' \subseteq KeySet
    BY <1>1, <1>3 DEF KeySet
  <2> QED
    BY <1>1, <2>1, <2>2 DEF MappingTypeOK, input
<1>5. \A i \in DOMAIN Keys :
        /\ Keys[i] \in guesses' <=> i \in Taken /\ preview[i].match = "fuzzy"
        /\ Keys[i] \in leftover' <=> i \in LeftOver
  <2> TAKE i \in DOMAIN Keys
  <2>1. \A j \in DOMAIN Keys : Keys[j] = Keys[i] => j = i
    BY MappingAssumption
  <2>2. Keys[i] \in guesses' <=> i \in {j \in Taken : preview[j].match = "fuzzy"}
    BY <1>1, <1>3, <2>1
  <2>3. Keys[i] \in leftover' <=> i \in LeftOver
    BY <1>1, <1>3, <2>1
  <2> QED
    BY <2>2, <2>3
<1>6. ASSUME NEW n, NEW k
      PROVE  Called(n)' = Called(n) /\ Meant(k)' = Meant(k)
  BY <1>1 DEF Called, Meant, input
<1>7. WrittenWins'
  <2> SUFFICES ASSUME NEW k \in KeySet, NEW n \in Meant(k), Cardinality(Called(n)) = 1
               PROVE  k \notin guesses' /\ \E name \in Meant(k) : resolved'[k] = explicit[name]
    BY <1>1, <1>6 DEF WrittenWins, WrittenFor, input
  <2>1. PICK i \in DOMAIN Keys : Called(n) = {i}
    BY OneColumn
  <2>2. k = Keys[i] /\ n \in DOMAIN explicit
    BY <2>1 DEF Meant
  <2>3. resolved[k] # NoMapping
    BY <1>1, <2>1, <2>2 DEF WrittenInv
  <2>4. i \notin Taken
    BY <1>3, <2>2, <2>3
  <2>5. \E name \in Meant(k) : resolved[k] = explicit[name]
    BY <1>1, <2>3 DEF WrittenInv
  <2> QED
    BY <1>2, <1>5, <2>2, <2>4, <2>5
<1>8. EveryColumnSettled'
  <2>1. ASSUME NEW i \in DOMAIN Keys
        PROVE  resolved'[Keys[i]] = NoMapping <=> Keys[i] \in leftover'
    BY <1>2, <1>3, <1>5, MappingAssumption DEF LeftOver
  <2>2. leftover' = {} <=> LeftOver = {}
    BY <1>1
  <2> QED
    BY <1>1, <2>1, <2>2 DEF EveryColumnSettled, KeySet
<1>9. NothingInvented'
  <2>1. ASSUME NEW i \in DOMAIN Keys
        PROVE  /\ resolved'[Keys[i]] # "new type"
               /\ resolved'[Keys[i]] = "type" => i \in Taken
    <3>1. resolved[Keys[i]] \in Targets \cup {NoMapping}
      <4>1. Keys[i] \in KeySet
        BY KeyOfColumn
      <4>2. \A n \in Meant(Keys[i]) : explicit[n] \in Targets
        BY DEF Meant, MappingTypeOK
      <4> QED
        BY <1>1, <4>1, <4>2 DEF WrittenInv
    <3> QED
      BY <1>2, <1>3, <3>1, MappingAssumption
  <2> QED
    BY <1>1, <1>3, <1>5, <2>1 DEF NothingInvented, input
<1>10. WrittenInv'
  BY <1>1 DEF WrittenInv
<1> QED
  BY <1>4, <1>7, <1>8, <1>9, <1>10 DEF MappingKeepsWord

(* For any columns, any mappings somebody wrote and any suggestions, in    *)
(* whichever order the written ones are gone through: they win, every      *)
(* column is mapped or left to a person, and nothing is made up (import.go *)
(* ResolveMappings).                                                       *)
THEOREM MappingHolds == MappingSpec => []MappingKeepsWord
<1>1. MappingInit => MappingInv
  <2> SUFFICES ASSUME MappingInit PROVE MappingInv
    OBVIOUS
  <2>1. MappingTypeOK
    BY DEF MappingInit, MappingTypeOK, Suggestions
  <2>2. WrittenInv /\ MappingKeepsWord
    BY KeyOfColumn DEF MappingInit, WrittenInv, MappingKeepsWord, WrittenWins,
       EveryColumnSettled, NothingInvented
  <2> QED
    BY <2>1, <2>2 DEF MappingInv
<1>2. MappingInv /\ [MappingNext]_mappingVars => MappingInv'
  <2> SUFFICES ASSUME MappingInv, [MappingNext]_mappingVars PROVE MappingInv'
    OBVIOUS
  <2>1. CASE UNCHANGED mappingVars
    <3>1. MappingTypeOK'
      BY <2>1 DEF mappingVars, input, MappingInv, MappingTypeOK
    <3>2. ASSUME NEW n, NEW k
          PROVE  /\ Called(n)' = Called(n) /\ Meant(k)' = Meant(k)
                 /\ WrittenFor(k)' = WrittenFor(k)
      BY <2>1 DEF mappingVars, input, Called, Meant, WrittenFor
    <3>3. WrittenInv'
      BY <2>1, <3>2 DEF mappingVars, input, MappingInv, WrittenInv
    <3>4. WrittenWins'
      BY <2>1, <3>2 DEF mappingVars, input, MappingInv, MappingKeepsWord, WrittenWins
    <3>5. EveryColumnSettled' /\ NothingInvented'
      BY <2>1 DEF mappingVars, input, MappingInv, MappingKeepsWord, EveryColumnSettled,
         NothingInvented
    <3> QED
      BY <3>1, <3>3, <3>4, <3>5 DEF MappingInv, MappingKeepsWord
  <2> QED
    BY <2>1, WrittenStep, SuggestionStep DEF MappingNext
<1>3. MappingInv => MappingKeepsWord
  BY DEF MappingInv
<1> QED
  BY <1>1, <1>2, <1>3, PTL DEF MappingSpec

-----------------------------------------------------------------------------
(* ApiCommand: the guard judges what is sent.                               *)

(* The length of a path, and the literal segments of a template. *)
LEMMA PathType ==
  ASSUME NEW S, NEW p \in Paths(S)
  PROVE  /\ p \in Seq(S) /\ Len(p) \in 1..MaxLength /\ DOMAIN p = 1..Len(p)
         /\ Literals(p) \in 0..Len(p)
<1>1. PICK n \in 1..MaxLength : p \in [1..n -> S]
  BY DEF Paths
<1>2. n \in Nat
  BY ApiAssumption
<1>3. p \in Seq(S) /\ Len(p) = n /\ DOMAIN p = 1..n
  BY <1>1, <1>2
<1>4. IsFiniteSet(1..n) /\ Cardinality(1..n) = n
  BY <1>2, FS_Interval
<1>5. DEFINE L == {i \in DOMAIN p : p[i] # Param}
<1>6. IsFiniteSet(L) /\ Cardinality(L) <= n
  BY <1>3, <1>4, FS_Subset
<1>7. Cardinality(L) \in Nat
  BY <1>6, FS_CardinalityType
<1> QED
  BY <1>2, <1>3, <1>6, <1>7 DEF Literals

(* The registry is a sequence of operations. *)
LEMMA RegistryType ==
  ASSUME NEW i \in DOMAIN Operations
  PROVE  /\ i \in Nat /\ Operations[i] \in Operation
         /\ Operations[i] \in ToSet(Operations)
         /\ Literals(Operations[i].path) \in 0..MaxLength
<1>1. i \in Nat /\ Operations[i] \in Operation /\ Operations[i] \in ToSet(Operations)
  BY ApiAssumption DEF ToSet
<1>2. Operations[i].path \in Paths(Segments \cup {Param})
  BY <1>1 DEF Operation
<1> QED
  <2>1. Literals(Operations[i].path) \in 0..Len(Operations[i].path)
    BY <1>2, PathType, Zenon
  <2>2. Len(Operations[i].path) \in 1..MaxLength
    BY <1>2, PathType, Zenon
  <2> QED
    BY <1>1, <2>1, <2>2, ApiAssumption

(* Match finds an operation unless none fits, and one with the most literals. *)
LEMMA MatchFinds ==
  ASSUME NEW method, NEW segments
  PROVE  /\ Match(method, segments) = {} => Fitting(method, segments) = {}
         /\ \A o \in Match(method, segments) :
              \E i \in Fitting(method, segments) :
                /\ o = Operations[i]
                /\ \A j \in Fitting(method, segments) :
                     Literals(Operations[j].path) <= Literals(o.path)
<1> DEFINE F == Fitting(method, segments)
           lit(k) == Literals(Operations[k].path)
<1>1. \A k \in F : k \in DOMAIN Operations /\ k \in Nat /\ lit(k) \in 0..MaxLength
  BY RegistryType DEF Fitting
<1>2. ASSUME NEW o \in Match(method, segments)
      PROVE  \E i \in F : o = Operations[i] /\ \A j \in F : lit(j) <= lit(i)
  <2>1. PICK i \in F : o = Operations[i] /\ \A j \in F \ {i} : Better(i, j)
    BY <1>2 DEF Match
  <2>2. \A j \in F : lit(j) <= lit(i)
    BY <1>1, <2>1 DEF Better
  <2> QED
    BY <2>1, <2>2
<1>3. ASSUME F # {}
      PROVE  Match(method, segments) # {}
  <2> DEFINE Gaps == {MaxLength - lit(k) : k \in F}
  <2>1. Gaps \subseteq Nat /\ Gaps # {}
    BY <1>1, <1>3, ApiAssumption
  <2>2. PICK g \in Gaps : \A h \in Gaps : g <= h
    BY <2>1, LeastNumber
  <2>3. PICK k \in F : g = MaxLength - lit(k)
    BY <2>2
  <2>4. ASSUME NEW j \in F
        PROVE  lit(j) <= lit(k)
    <3>1. g <= MaxLength - lit(j)
      BY <2>2
    <3>2. lit(j) \in Nat /\ lit(k) \in Nat /\ MaxLength \in Nat
      BY <1>1, <2>3, ApiAssumption
    <3> HIDE DEF lit
    <3> QED
      BY <2>3, <3>1, <3>2
  <2> DEFINE Tops == {j \in F : lit(j) = lit(k)}
  <2>5. Tops \subseteq Nat /\ Tops # {}
    BY <1>1, <2>3
  <2>6. PICK i \in Tops : \A j \in Tops : i <= j
    BY <2>5, LeastNumber
  <2>7. \A j \in F \ {i} : Better(i, j)
    BY <1>1, <2>4, <2>6 DEF Better
  <2> QED
    BY <2>6, <2>7 DEF Match
<1> QED
  BY <1>2, <1>3

(* No template fits a path that ends in an empty segment. *)
LEMMA NothingFits ==
  ASSUME NEW t \in Paths(Segments \cup {Param}), NEW p \in Seq(Segments)
  PROVE  ~Fits(t, Append(p, Empty))
<1>1. /\ t \in Seq(Segments \cup {Param}) /\ Len(t) \in 1..MaxLength
      /\ DOMAIN t = 1..Len(t)
  BY PathType
<1>2. Len(t) \in Nat \ {0} /\ Len(t) \in DOMAIN t
  BY <1>1, ApiAssumption
<1>3. Empty \notin Segments /\ Param # Empty
  BY ApiAssumption
<1> SUFFICES ASSUME Len(t) = Len(p) + 1
             PROVE  ~(IF t[Len(t)] = Param THEN Append(p, Empty)[Len(t)] # Empty
                      ELSE t[Len(t)] = Append(p, Empty)[Len(t)])
  BY <1>2 DEF Fits
<1>4. Append(p, Empty)[Len(t)] = Empty
  OBVIOUS
<1> QED
  BY <1>1, <1>2, <1>3, <1>4

(* The ends of an interval. *)
LEMMA IntervalEnds ==
  ASSUME NEW m \in Nat \ {0}
  PROVE  Min(1..m) = 1 /\ Max(1..m) = m
  BY DEF Min, Max

(* Names and no more than slashes behind them are left as they are by      *)
(* path.Join, but for the slashes.                                         *)
LEMMA CleanNames ==
  ASSUME NEW p, NEW n \in Nat, DOMAIN p = 1..n, Len(p) = n, NEW m \in 0..n,
         \A i \in 1..m : p[i] \notin {Empty, Dot, Up},
         \A i \in m+1..n : p[i] = Empty
  PROVE  Clean(p) = [i \in 1..m |-> p[i]]
<1> DEFINE isName(i) == p[i] \notin {Empty, Dot, Up}
           names(i, j) == Cardinality({k \in i..j : isName(k)})
           ups(i, j) == Cardinality({k \in i..j : p[k] = Up})
           kept == {i \in DOMAIN p :
                      isName(i) /\ \A j \in i+1..Len(p) : ups(i+1, j) <= names(i+1, j)}
<1>0. \A k \in 1..n : p[k] # Up /\ (k > m => p[k] = Empty)
  <2> SUFFICES ASSUME NEW k \in 1..n PROVE p[k] # Up /\ (k > m => p[k] = Empty)
    OBVIOUS
  <2>1. (k \in 1..m /\ ~(k > m)) \/ k \in m+1..n
    OBVIOUS
  <2>2. Empty # Up
    BY DEF Empty, Up
  <2> QED
    BY <2>1, <2>2
<1>1. ASSUME NEW i \in 1..m, NEW j \in i+1..n
      PROVE  ups(i+1, j) <= names(i+1, j)
  <2>1. {k \in i+1..j : p[k] = Up} = {}
    BY <1>0
  <2>2. ups(i+1, j) = 0
    BY <2>1, FS_EmptySet
  <2>3. IsFiniteSet(i+1..j)
    BY FS_Interval
  <2>4. IsFiniteSet({k \in i+1..j : isName(k)})
    BY <2>3, FS_Subset
  <2>5. names(i+1, j) \in Nat
    BY <2>4, FS_CardinalityType
  <2> HIDE DEF names, ups
  <2> QED
    BY <2>2, <2>5
<1>2. kept = 1..m
  <2> HIDE DEF names, ups
  <2>1. \A i \in 1..m : i \in kept
    BY <1>1
  <2>2. \A i \in kept : i \in 1..n /\ p[i] # Empty
    OBVIOUS
  <2> HIDE DEF kept
  <2>3. \A i \in kept : i \in 1..m
    BY <1>0, <2>2
  <2> QED
    BY <2>1, <2>3
<1>3. Cardinality(1..m) = m
  BY FS_Interval
<1>4. ASSUME NEW i \in 1..m
      PROVE  Cardinality({j \in 1..m : j <= i}) = i
  <2>1. {j \in 1..m : j <= i} = 1..i
    OBVIOUS
  <2>2. i \in Nat /\ Cardinality(1..i) = i
    BY FS_Interval
  <2> QED
    BY <2>1, <2>2
<1>5. Clean(p) = [k \in 1..Cardinality(kept) |->
                   p[CHOOSE i \in kept : Cardinality({j \in kept : j <= i}) = k]]
  BY DEF Clean
<1> HIDE DEF kept
<1>6. Clean(p) = [k \in 1..m |->
                   p[CHOOSE i \in 1..m : Cardinality({j \in 1..m : j <= i}) = k]]
  BY <1>2, <1>3, <1>5
<1>7. ASSUME NEW k \in 1..m
      PROVE  (CHOOSE i \in 1..m : Cardinality({j \in 1..m : j <= i}) = k) = k
  BY <1>4
<1> QED
  BY <1>6, <1>7

\* The segments of a plain path, without what a slash at its end leaves.
PlainNames(g) ==
  IF Last(g.segments) = Empty THEN SubSeq(g.segments, 1, Len(g.segments) - 1)
  ELSE g.segments

(* The two readings of a plain path: Match reads its segments, and so does *)
(* the platform from the URL that Client.resolve makes of it.              *)
LEMMA PlainReading ==
  ASSUME given \in Arguments, PlainPath(given)
  PROVE  /\ PlainNames(given) \in Seq(Segments)
         /\ Split(given) = PlainNames(given)
         /\ PlainNames(given) \in Reached(given)
         /\ \A r \in Reached(given) :
              r = PlainNames(given) \/ r = Append(PlainNames(given), Empty)
<1> DEFINE segs == given.segments
           L == Len(segs)
           N == IF Last(segs) = Empty THEN L - 1 ELSE L
<1>1. segs \in Paths(AsTyped)
  BY DEF Arguments
<1>2. segs \in Seq(AsTyped) /\ L \in 1..MaxLength /\ DOMAIN segs = 1..L
  BY <1>1, PathType
<1>3. L \in Nat \ {0}
  BY <1>2, ApiAssumption
<1>4. Last(segs) = segs[L]
  BY DEF Last
<1>5. /\ {Empty, Dot, Up} \cap Segments = {} /\ "api" \notin {Empty, Dot, Up}
      /\ \A s \in Segments \cup {Empty} : s \notin DOMAIN BeforeHash /\ s \notin DOMAIN Decoded
  <2>1. "api" \notin {Empty, Dot, Up}
    BY DEF Empty, Dot, Up
  <2>2. {Empty, Dot, Up} \cap Segments = {}
    BY ApiAssumption, Zenon
  <2>3. \A s \in Segments \cup {Empty} : s \notin DOMAIN BeforeHash /\ s \notin DOMAIN Decoded
    BY ApiAssumption, Zenon
  <2> QED
    BY <2>1, <2>2, <2>3
<1>6. \A i \in 1..L : segs[i] \in Segments \/ (segs[i] = Empty /\ i = L /\ i > 1)
  BY <1>2 DEF PlainPath
<1>7. /\ N \in 1..L /\ \A i \in 1..N : segs[i] \in Segments
      /\ \A i \in N+1..L : segs[i] = Empty
  BY <1>3, <1>4, <1>5, <1>6
<1>8. PlainNames(given) = SubSeq(segs, 1, N)
  BY <1>2, <1>3 DEF PlainNames
<1>9. PlainNames(given) \in Seq(Segments)
  <2> HIDE DEF segs, N, L
  <2>1. SubSeq(segs, 1, N) = [i \in 1..N |-> segs[i]] /\ N \in Nat
    BY <1>2, <1>3, <1>7 DEF L
  <2>2. [i \in 1..N |-> segs[i]] \in Seq(Segments)
    BY <1>7, <2>1
  <2> QED
    BY <1>8, <2>1, <2>2
<1>10. given.form # "absolute" /\ given.form # "glued"
  BY DEF PlainPath
<1>11. UpToHash(segs) = segs
  <2>1. {i \in DOMAIN segs : segs[i] \in DOMAIN BeforeHash} = {}
    BY <1>2, <1>5, <1>6
  <2> QED
    BY <2>1 DEF UpToHash
<1>12. Split(given) = PlainNames(given)
  <2>1. {i \in DOMAIN segs : segs[i] # Empty} = 1..N
    BY <1>2, <1>3, <1>5, <1>7
  <2>2. Min(1..N) = 1 /\ Max(1..N) = N /\ 1..N # {}
    BY <1>3, <1>7, IntervalEnds
  <2>3. given.query => N = L
    BY <1>2, <1>3, <1>4, <1>5 DEF PlainPath
  <2> HIDE DEF segs, L, N
  <2>4. Split(given) = SubSeq(segs, 1, IF given.query THEN L ELSE N)
    BY <1>10, <1>11, <2>1, <2>2 DEF Split, segs, L
  <2> QED
    BY <1>8, <2>3, <2>4
<1>13. Resolved(given) = <<"api">> \o segs
  <2> DEFINE path == <<"api">> \o segs
  <2>1. /\ path \in Seq(AsTyped \cup {"api"}) /\ Len(path) = L + 1
        /\ DOMAIN path = 1..L+1 /\ path[1] = "api"
        /\ \A i \in 2..L+1 : path[i] = segs[i-1]
    BY <1>2, <1>3
  <2> HIDE DEF path
  <2>2. /\ \A i \in 1..N+1 : path[i] \notin {Empty, Dot, Up}
        /\ \A i \in (N+1)+1..L+1 : path[i] = Empty
    <3> HIDE DEF segs, N, L
    <3>1. ASSUME NEW i \in 1..N+1 PROVE path[i] \notin {Empty, Dot, Up}
      <4>1. i = 1 \/ (i - 1 \in 1..N /\ i \in 2..L+1)
        BY <1>3, <1>7
      <4> QED
        BY <1>5, <1>7, <2>1, <4>1
    <3>2. ASSUME NEW i \in (N+1)+1..L+1 PROVE path[i] = Empty
      <4>1. i - 1 \in N+1..L /\ i \in 2..L+1
        BY <1>3, <1>7
      <4> QED
        BY <1>7, <2>1, <4>1
    <3> QED
      BY <3>1, <3>2
  <2>3. Clean(path) = [i \in 1..N+1 |-> path[i]]
    <3> HIDE DEF segs, N, L
    <3>1. L + 1 \in Nat /\ N + 1 \in 0..L+1
      BY <1>3, <1>7
    <3>2. \A n \in Nat : \A m \in 0..n :
            /\ DOMAIN path = 1..n /\ Len(path) = n
            /\ \A i \in 1..m : path[i] \notin {Empty, Dot, Up}
            /\ \A i \in m+1..n : path[i] = Empty
            => Clean(path) = [i \in 1..m |-> path[i]]
      BY CleanNames
    <3> QED
      BY <2>1, <2>2, <3>1, <3>2
  <2>4. Resolved(given) = IF Last(segs) = Empty THEN Append(Clean(path), Empty)
                          ELSE Clean(path)
    BY <1>10 DEF Resolved, path
  <2>5. CASE Last(segs) = Empty
    <3>1. N + 1 = L
      BY <1>3, <2>5
    <3>3. path[L+1] = Empty
      <4>1. L + 1 \in 2..L+1 /\ (L + 1) - 1 = L
        BY <1>3
      <4> QED
        BY <1>4, <2>1, <2>5, <4>1
    <3>2. Append([i \in 1..L |-> path[i]], Empty) = path
      BY <1>3, <2>1, <3>3
    <3> QED
      BY <2>3, <2>4, <2>5, <3>1, <3>2 DEF path
  <2>6. CASE Last(segs) # Empty
    <3>1. [i \in 1..L+1 |-> path[i]] = path
      BY <1>3, <2>1
    <3> QED
      BY <2>3, <2>4, <2>6, <3>1 DEF path
  <2> QED
    BY <2>5, <2>6
<1>14. Reached(given) = {segs} \cup
         {s \in {SubSeq(segs, 1, L - 1)} : segs = Append(s, Empty)}
  <2> DEFINE url == <<"api">> \o segs
             below == [i \in 1..Len(url) - 1 |->
                         IF url[i+1] \in DOMAIN Decoded THEN Decoded[url[i+1]] ELSE url[i+1]]
  <2>1. url # <<>> /\ Head(url) = "api" /\ Len(url) - 1 = L
        /\ \A i \in 1..L : url[i+1] = segs[i]
    BY <1>2, <1>3
  <2>2. \A i \in 1..L : url[i+1] \notin DOMAIN Decoded
    BY <1>5, <1>6, <2>1
  <2>3. below = [i \in 1..L |-> segs[i]]
    BY <2>1, <2>2
  <2> HIDE DEF below
  <2>4. below = segs
    BY <1>2, <2>3
  <2>5. Reached(given) = {below} \cup
          {s \in {SubSeq(below, 1, Len(below) - 1)} : below = Append(s, Empty)}
    BY <1>13, <2>1 DEF Reached, below
  <2> QED
    BY <2>4, <2>5
<1>15. CASE Last(segs) = Empty
  <2>1. segs = Append(SubSeq(segs, 1, L - 1), Empty)
    <3> HIDE DEF segs
    <3>1. SubSeq(segs, 1, L - 1) = [i \in 1..L-1 |-> segs[i]]
      BY <1>2, <1>3
    <3>2. Append([i \in 1..L-1 |-> segs[i]], segs[L]) = segs
      BY <1>2, <1>3
    <3> QED
      BY <1>4, <1>15, <3>1, <3>2
  <2> QED
    BY <1>8, <1>9, <1>12, <1>14, <1>15, <2>1
<1>16. CASE Last(segs) # Empty
  <2>1. PlainNames(given) = segs
    BY <1>16 DEF PlainNames
  <2>2. \A s : segs # Append(SubSeq(segs, 1, L - 1), Empty)
    BY <1>2, <1>3, <1>4, <1>16
  <2> QED
    BY <1>9, <1>12, <1>14, <2>1, <2>2
<1> QED
  BY <1>15, <1>16

(* The operations the platform may execute for a plain path. *)
LEMMA RoutesFit ==
  ASSUME given \in Arguments, PlainPath(given)
  PROVE  LET fit == {Operations[i] : i \in Fitting(given.method, PlainNames(given))}
         IN Routes = {o \in fit : ~\E p \in fit : Closer(p, o)}
<1> DEFINE fit == {Operations[i] : i \in Fitting(given.method, PlainNames(given))}
           fitting == { o \in ToSet(Operations) :
                          o.method = given.method
                          /\ \E s \in Reached(given) : Fits(o.path, s) }
<1>1. ASSUME NEW o \in fit
      PROVE  o \in fitting
  BY <1>1, PlainReading DEF Fitting, ToSet
<1>2. ASSUME NEW o \in fitting
      PROVE  o \in fit
  <2>1. PICK i \in DOMAIN Operations : o = Operations[i]
    BY <1>2 DEF ToSet
  <2>2. o.path \in Paths(Segments \cup {Param})
    BY <2>1, RegistryType DEF Operation
  <2>3. Fits(o.path, PlainNames(given))
    BY <1>2, <2>2, PlainReading, NothingFits
  <2> QED
    BY <1>2, <2>1, <2>3 DEF Fitting
<1>3. fit = fitting
  BY <1>1, <1>2
<1>4. Routes = {o \in fitting : ~\E p \in fitting : Closer(p, o)}
  BY DEF Routes
<1> HIDE DEF fit, fitting
<1> QED
  BY <1>3, <1>4 DEF fit

(* Of two operations that fit a path and are not of one kind, the guard    *)
(* takes the one the platform executes.                                    *)
LEMMA KindsAgree ==
  ASSUME given \in Arguments, PlainPath(given),
         NEW o \in Match(given.method, PlainNames(given)), NEW p \in Routes
  PROVE  ReadOnly(o) => ReadOnly(p)
<1> DEFINE F == Fitting(given.method, PlainNames(given))
<1>1. PICK i \in F : o = Operations[i] /\ \A j \in F :
                     Literals(Operations[j].path) <= Literals(o.path)
  BY MatchFinds
<1>2. PICK j \in F : p = Operations[j]
  BY RoutesFit
<1>3. ~Closer(o, p)
  BY <1>1, RoutesFit
<1>4. /\ o \in ToSet(Operations) /\ p \in ToSet(Operations)
      /\ Literals(o.path) \in Nat /\ Literals(p.path) \in Nat
  BY <1>1, <1>2, RegistryType DEF Fitting
<1>5. ~Closer(p, o)
  BY <1>1, <1>2, <1>4 DEF Closer
<1>6. o.method = p.method /\ Fits(o.path, PlainNames(given)) /\ Fits(p.path, PlainNames(given))
  BY <1>1, <1>2 DEF Fitting
<1>7. /\ Len(o.path) = Len(p.path) /\ DOMAIN o.path = DOMAIN p.path
  <2>1. o.path \in Paths(Segments \cup {Param}) /\ p.path \in Paths(Segments \cup {Param})
    BY <1>1, <1>2, RegistryType DEF Operation, Fitting
  <2> QED
    BY <1>6, <2>1, PathType DEF Fits
<1>8. \A k \in DOMAIN o.path : o.path[k] # p.path[k] => Param \in {o.path[k], p.path[k]}
  BY <1>6, <1>7 DEF Fits
<1> QED
  BY <1>3, <1>4, <1>5, <1>6, <1>7, <1>8, RegistryAssumption

(* What the guard found decides what may be sent. *)
LEMMA GuardJudges ==
  ASSUME ApiInv
  PROVE  /\ GuardSeesRequest
         /\ PlainPath(given) \/ found = {} => ReadOnlyRefuses
<1>1. given \in Arguments
  BY DEF ApiInv
<1>2. ASSUME outcome # "none", found = {}, flags.readOnly, outcome = "sent", NEW p \in Routes
      PROVE  ReadOnly(p)
  <2>1. given.method = "GET"
    BY <1>2 DEF ApiInv, Allowed
  <2>2. p.method = given.method
    BY DEF Routes
  <2> QED
    BY <2>1, <2>2 DEF ReadOnly
<1>3. ASSUME outcome # "none", PlainPath(given)
      PROVE  /\ IF found = {} THEN Routes = {} ELSE found \subseteq Routes
             /\ flags.readOnly /\ outcome = "sent" => \A p \in Routes : ReadOnly(p)
  <2>1. found = Match(given.method, PlainNames(given))
    BY <1>1, <1>3, PlainReading DEF ApiInv
  <2>2. found = {} => Routes = {}
    BY <1>1, <1>3, <2>1, MatchFinds, RoutesFit
  <2>3. ASSUME NEW o \in found
        PROVE  o \in Routes
    <3>1. PICK i \in Fitting(given.method, PlainNames(given)) :
            /\ o = Operations[i]
            /\ \A j \in Fitting(given.method, PlainNames(given)) :
                 Literals(Operations[j].path) <= Literals(o.path)
      BY <2>1, MatchFinds
    <3>2. \A j \in Fitting(given.method, PlainNames(given)) :
            Literals(Operations[j].path) \in Nat
      BY RegistryType DEF Fitting
    <3>3. \A j \in Fitting(given.method, PlainNames(given)) : ~Closer(Operations[j], o)
      BY <3>1, <3>2 DEF Closer
    <3> QED
      BY <1>1, <1>3, <3>1, <3>3, RoutesFit
  <2>4. ASSUME flags.readOnly, outcome = "sent", NEW p \in Routes
        PROVE  ReadOnly(p)
    <3>1. PICK o \in found : ReadOnly(o)
      BY <2>2, <2>4 DEF ApiInv, Allowed
    <3> QED
      BY <1>1, <1>3, <2>1, <2>4, <3>1, KindsAgree
  <2> QED
    BY <2>2, <2>3, <2>4
<1>4. outcome = "none" => outcome # "sent"
  OBVIOUS
<1> QED
  BY <1>2, <1>3, <1>4 DEF GuardSeesRequest, ReadOnlyRefuses

(* For any registry whose templates tell changes from reads, and paths of  *)
(* any length: the guard judges what a plain path reaches, and nothing but *)
(* reads is sent under --read-only for a plain path, nor, however it is    *)
(* written, for one the registry does not know (api.go, registry.go        *)
(* Match).                                                                 *)
THEOREM GuardHolds ==
  ApiSpec => [](GuardSeesRequest /\ (PlainPath(given) \/ found = {} => ReadOnlyRefuses))
<1>1. ApiInit => ApiInv
  BY DEF ApiInit, ApiInv
<1>2. ApiInv /\ [ApiNext]_apiVars => ApiInv'
  <2> SUFFICES ASSUME ApiInv, [ApiNext]_apiVars
               PROVE  ApiInv'
    OBVIOUS
  <2>1. CASE Guard
    <3>1. /\ given' = given /\ flags' = flags
          /\ found' = Match(given.method, Split(given))
          /\ outcome' = "passed" => Allowed(given.method, found')
          /\ outcome' \in {"passed", "refused"}
      BY <2>1 DEF Guard
    <3> QED
      BY <3>1 DEF ApiInv, Allowed
  <2>2. CASE Send
    BY <2>2 DEF Send, ApiInv, Allowed
  <2>3. CASE UNCHANGED apiVars
    BY <2>3 DEF apiVars, ApiInv, Allowed
  <2> QED
    BY <2>1, <2>2, <2>3 DEF ApiNext
<1>3. ApiInv => GuardSeesRequest /\ (PlainPath(given) \/ found = {} => ReadOnlyRefuses)
  BY GuardJudges
<1> QED
  BY <1>1, <1>2, <1>3, PTL DEF ApiSpec

-----------------------------------------------------------------------------
(* GeneratedCommand: the request is what the command line says.            *)

(* A prefix element by element. *)
LEMMA PrefixPointwise ==
  ASSUME NEW S, NEW s \in Seq(S), NEW t \in Seq(S)
  PROVE  IsPrefix(s, t) <=> Len(s) <= Len(t) /\ \A i \in 1..Len(s) : s[i] = t[i]
<1>1. Len(s) \in Nat /\ Len(t) \in Nat
  BY LenProperties
<1>2. SubSeq(s, 1, Len(s)) = s
  BY SubSeqFull
<1>3. ASSUME Len(s) <= Len(t)
      PROVE  /\ SubSeq(t, 1, Len(s)) \in Seq(S) /\ Len(SubSeq(t, 1, Len(s))) = Len(s)
             /\ \A i \in 1..Len(s) : SubSeq(t, 1, Len(s))[i] = t[i]
  <2>1. \A i \in 1..Len(s) : t[i] \in S
    BY <1>1, <1>3, ElementOfSeq
  <2>2. /\ SubSeq(t, 1, Len(s)) \in Seq(S)
        /\ Len(SubSeq(t, 1, Len(s))) = IF 1 <= Len(s) THEN Len(s) - 1 + 1 ELSE 0
        /\ \A i \in 1..Len(s) - 1 + 1 : SubSeq(t, 1, Len(s))[i] = t[1 + i - 1]
    BY <1>1, <2>1, SubSeqProperties
  <2> QED
    BY <1>1, <2>2
<1>4. ASSUME Len(s) <= Len(t), \A i \in 1..Len(s) : s[i] = t[i]
      PROVE  s = SubSeq(t, 1, Len(s))
  BY <1>3, <1>4, SeqEqual
<1> QED
  BY <1>2, <1>3, <1>4 DEF IsPrefix

(* Prefixes are an order, and those of one sequence a chain. *)
LEMMA PrefixOrder ==
  ASSUME NEW S
  PROVE  /\ \A s, t, u \in Seq(S) : IsPrefix(s, t) /\ IsPrefix(t, u) => IsPrefix(s, u)
         /\ \A s, t, u \in Seq(S) :
              IsPrefix(s, u) /\ IsPrefix(t, u) => IsPrefix(s, t) \/ IsPrefix(t, s)
         /\ \A s, t \in Seq(S) : IsPrefix(s, t) /\ IsPrefix(t, s) => s = t
         /\ \A s \in Seq(S) : IsPrefix(s, s)
<1>1. ASSUME NEW s \in Seq(S), NEW t \in Seq(S), NEW u \in Seq(S),
             IsPrefix(s, t), IsPrefix(t, u)
      PROVE  IsPrefix(s, u)
  BY <1>1, PrefixPointwise, LenProperties
<1>2. ASSUME NEW s \in Seq(S), NEW t \in Seq(S), NEW u \in Seq(S),
             IsPrefix(s, u), IsPrefix(t, u)
      PROVE  IsPrefix(s, t) \/ IsPrefix(t, s)
  BY <1>2, PrefixPointwise, LenProperties
<1>3. ASSUME NEW s \in Seq(S), NEW t \in Seq(S), IsPrefix(s, t), IsPrefix(t, s)
      PROVE  s = t
  BY <1>3, PrefixPointwise, SeqEqual, LenProperties
<1>4. ASSUME NEW s \in Seq(S)
      PROVE  IsPrefix(s, s)
  BY PrefixPointwise, LenProperties
<1> QED
  BY <1>1, <1>2, <1>3, <1>4

(* What is joined to a path. *)
LEMMA PrefixOfConcat ==
  ASSUME NEW S, NEW p \in Seq(S), NEW r \in Seq(S)
  PROVE  /\ p \o r \in Seq(S) /\ IsPrefix(p, p \o r)
         /\ SubSeq(p \o r, Len(p) + 1, Len(p \o r)) = r
         /\ \A u \in Seq(S) : IsPrefix(p \o r, p \o u) <=> IsPrefix(r, u)
<1>1. /\ p \o r \in Seq(S) /\ Len(p \o r) = Len(p) + Len(r)
      /\ \A i \in 1..Len(p) + Len(r) :
           (p \o r)[i] = IF i <= Len(p) THEN p[i] ELSE r[i - Len(p)]
  BY ConcatProperties
<1>2. Len(p) \in Nat /\ Len(r) \in Nat
  BY LenProperties
<1>3. IsPrefix(p, p \o r)
  <2>1. Len(p) <= Len(p \o r) /\ \A i \in 1..Len(p) : p[i] = (p \o r)[i]
    BY <1>1, <1>2
  <2> QED
    BY <1>1, <2>1, PrefixPointwise, Zenon
<1>4. SubSeq(p \o r, Len(p) + 1, Len(p \o r)) = r
  <2> DEFINE q == SubSeq(p \o r, Len(p) + 1, Len(p) + Len(r))
  <2>1. \A i \in Len(p) + 1..Len(p) + Len(r) : (p \o r)[i] \in S
    BY <1>1, <1>2, ElementOfSeq
  <2>2. /\ q \in Seq(S)
        /\ Len(q) = IF Len(p) + 1 <= Len(p) + Len(r)
                    THEN Len(p) + Len(r) - (Len(p) + 1) + 1 ELSE 0
        /\ \A i \in 1..Len(p) + Len(r) - (Len(p) + 1) + 1 :
             q[i] = (p \o r)[Len(p) + 1 + i - 1]
    BY <1>2, <2>1, SubSeqProperties
  <2>3. Len(q) = Len(r)
    BY <1>2, <2>2
  <2>4. \A i \in 1..Len(q) : q[i] = r[i]
    BY <1>1, <1>2, <2>2, <2>3
  <2> QED
    BY <1>1, <2>2, <2>3, <2>4, SeqEqual
<1>5. ASSUME NEW u \in Seq(S)
      PROVE  IsPrefix(p \o r, p \o u) <=> IsPrefix(r, u)
  <2>1. /\ p \o u \in Seq(S) /\ Len(p \o u) = Len(p) + Len(u) /\ Len(u) \in Nat
        /\ \A i \in 1..Len(p) + Len(u) :
             (p \o u)[i] = IF i <= Len(p) THEN p[i] ELSE u[i - Len(p)]
    BY ConcatProperties, LenProperties
  <2>2. IsPrefix(p \o r, p \o u) <=>
          /\ Len(p \o r) <= Len(p \o u)
          /\ \A i \in 1..Len(p \o r) : (p \o r)[i] = (p \o u)[i]
    BY <1>1, <2>1, PrefixPointwise, Zenon
  <2>3. ASSUME IsPrefix(r, u)
        PROVE  Len(r) <= Len(u) /\ \A i \in 1..Len(r) : r[i] = u[i]
    BY <2>3, PrefixPointwise
  <2>4. ASSUME IsPrefix(p \o r, p \o u), NEW i \in 1..Len(r)
        PROVE  r[i] = u[i]
    <3>1. Len(r) <= Len(u)
      BY <1>1, <1>2, <2>1, <2>2, <2>4
    <3>2. /\ Len(p) + i \in 1..Len(p) + Len(r) /\ Len(p) + i \in 1..Len(p) + Len(u)
          /\ ~(Len(p) + i <= Len(p)) /\ (Len(p) + i) - Len(p) = i
      BY <1>2, <2>1, <3>1
    <3> QED
      BY <1>1, <2>1, <2>2, <2>4, <3>2
  <2>5. IsPrefix(p \o r, p \o u) => Len(r) <= Len(u)
    BY <1>1, <1>2, <2>1, <2>2
  <2>6. ASSUME IsPrefix(r, u)
        PROVE  IsPrefix(p \o r, p \o u)
    <3>1. Len(p \o r) <= Len(p \o u)
      BY <1>1, <1>2, <2>1, <2>3, <2>6
    <3>2. ASSUME NEW i \in 1..Len(p \o r)
          PROVE  (p \o r)[i] = (p \o u)[i]
      <4>1. i \in 1..Len(p) + Len(r) /\ i \in 1..Len(p) + Len(u)
        BY <1>1, <1>2, <2>1, <3>1, <3>2
      <4>2. ~(i <= Len(p)) => i - Len(p) \in 1..Len(r)
        BY <1>2, <4>1
      <4> QED
        BY <1>1, <2>1, <2>3, <2>6, <4>1, <4>2
    <3> QED
      BY <2>2, <3>1, <3>2
  <2>7. ASSUME IsPrefix(p \o r, p \o u)
        PROVE  IsPrefix(r, u)
    <3>1. Len(r) <= Len(u) /\ \A i \in 1..Len(r) : r[i] = u[i]
      BY <2>4, <2>5, <2>7
    <3> QED
      BY <3>1, PrefixPointwise
  <2> QED
    BY <2>6, <2>7
<1> QED
  BY <1>1, <1>3, <1>4, <1>5

(* The objects on the way to a path are at its strict prefixes. *)
LEMMA WayIsPrefixes ==
  ASSUME NEW S, NEW p \in Seq(S), NEW q \in Seq(S)
  PROVE  q \in {SubSeq(p, 1, k) : k \in 0..Len(p) - 1} <=> IsPrefix(q, p) /\ q # p
<1>1. Len(p) \in Nat /\ Len(q) \in Nat
  BY LenProperties
<1>2. \A k \in 0..Len(p) - 1 :
        /\ SubSeq(p, 1, k) \in Seq(S) /\ Len(SubSeq(p, 1, k)) = k
        /\ \A i \in 1..k : SubSeq(p, 1, k)[i] = p[i]
  <2> SUFFICES ASSUME NEW k \in 0..Len(p) - 1
               PROVE  /\ SubSeq(p, 1, k) \in Seq(S) /\ Len(SubSeq(p, 1, k)) = k
                      /\ \A i \in 1..k : SubSeq(p, 1, k)[i] = p[i]
    OBVIOUS
  <2>1. \A i \in 1..k : p[i] \in S
    BY <1>1, ElementOfSeq
  <2>2. /\ SubSeq(p, 1, k) \in Seq(S)
        /\ Len(SubSeq(p, 1, k)) = IF 1 <= k THEN k - 1 + 1 ELSE 0
        /\ \A i \in 1..k - 1 + 1 : SubSeq(p, 1, k)[i] = p[1 + i - 1]
    BY <1>1, <2>1, SubSeqProperties
  <2> QED
    BY <1>1, <2>2
<1>3. ASSUME NEW k \in 0..Len(p) - 1, q = SubSeq(p, 1, k)
      PROVE  IsPrefix(q, p) /\ q # p
  <2>1. Len(q) = k /\ \A i \in 1..k : q[i] = p[i]
    BY <1>2, <1>3
  <2>2. Len(q) < Len(p)
    BY <1>1, <1>3, <2>1
  <2> QED
    BY <1>1, <2>1, <2>2, PrefixPointwise
<1>4. ASSUME IsPrefix(q, p), q # p
      PROVE  \E k \in 0..Len(p) - 1 : q = SubSeq(p, 1, k)
  <2>1. Len(q) <= Len(p) /\ \A i \in 1..Len(q) : q[i] = p[i]
    BY <1>4, PrefixPointwise
  <2>2. Len(q) # Len(p)
    BY <1>4, <2>1, SeqEqual
  <2>3. Len(q) \in 0..Len(p) - 1
    BY <1>1, <2>1, <2>2
  <2>4. q = SubSeq(p, 1, Len(q))
    BY <1>2, <2>1, <2>3, SeqEqual
  <2> QED
    BY <2>3, <2>4
<1> QED
  BY <1>3, <1>4

(* One --set: what it says is in the body afterwards, with what was there and *)
(* neither lies in its path nor below it nor above it.                     *)
LEMMA AssignStands ==
  ASSUME NEW object, DOMAIN object \subseteq Seq(JsonKeys),
         NEW set, set.path \in Seq(JsonKeys) \ {<<>>},
         <<>> \in DOMAIN set.value, DOMAIN set.value \subseteq Seq(JsonKeys)
  PROVE  /\ DOMAIN Assign(object, set) \subseteq Seq(JsonKeys)
         /\ LeavesOf(Assign(object, set)) =
              {f \in LeavesOf(object) : ~Comparable(set.path, f[1])} \cup Fields(set)
<1> DEFINE p == set.path
           v == set.value
           n == Len(p)
           way == {SubSeq(p, 1, k) : k \in 0..n - 1}
           kept == {q \in DOMAIN object \ way : ~IsPrefix(p, q)}
           held == {p \o r : r \in DOMAIN v}
           A == Assign(object, set)
           K == Seq(JsonKeys)
<1>1. p \in K /\ n \in Nat
  BY LenProperties
<1>2. \A q \in K : q \in way <=> IsStrictPrefix(q, p)
  BY <1>1, WayIsPrefixes DEF IsStrictPrefix
<1>3. way \subseteq K
  <2> SUFFICES ASSUME NEW k \in 0..n - 1
               PROVE  SubSeq(p, 1, k) \in K
    OBVIOUS
  <2>1. \A i \in 1..k : p[i] \in JsonKeys
    BY <1>1, ElementOfSeq
  <2> QED
    BY <1>1, <2>1, SubSeqProperties
<1>4. \A r \in DOMAIN v :
        p \o r \in K /\ IsPrefix(p, p \o r) /\ SubSeq(p \o r, n + 1, Len(p \o r)) = r
  BY <1>1, PrefixOfConcat
<1>5. /\ DOMAIN A = way \cup kept \cup held
      /\ \A q \in DOMAIN A :
           A[q] = IF q \in way THEN Map
                  ELSE IF q \in kept THEN object[q] ELSE v[SubSeq(q, n + 1, Len(q))]
  BY DEF Assign
<1>6. kept \subseteq K /\ held \subseteq K
  BY <1>4
<1>7. \A r \in DOMAIN v : p \o r \notin way /\ p \o r \notin kept
  <2> SUFFICES ASSUME NEW r \in DOMAIN v
               PROVE  ~(p \o r \in way)
    BY <1>4
  <2>1. p \o r \in K /\ IsPrefix(p, p \o r)
    BY <1>4
  <2>2. p \o r \in way => IsPrefix(p \o r, p) /\ p \o r # p
    BY <1>2, <2>1 DEF IsStrictPrefix
  <2> QED
    BY <1>1, <2>1, <2>2, PrefixOrder
<1>8. \A r \in DOMAIN v : p \o r \in DOMAIN A /\ A[p \o r] = v[r]
  BY <1>4, <1>5, <1>7
<1>9. \A q \in kept : q \in DOMAIN A /\ A[q] = object[q]
  BY <1>5
<1>10. \A q \in kept : ~Comparable(p, q)
  <2> SUFFICES ASSUME NEW q \in kept, IsPrefix(q, p)
               PROVE  FALSE
    BY DEF Comparable
  <2>1. q \in K /\ q \notin way /\ ~IsPrefix(p, q)
    BY <1>6
  <2>2. q # p
    BY <1>1, <2>1, PrefixOrder
  <2> QED
    BY <1>2, <2>1, <2>2 DEF IsStrictPrefix
<1>11. \A q \in DOMAIN object : ~Comparable(p, q) => q \in kept
  BY <1>2 DEF Comparable, IsStrictPrefix
<1> HIDE DEF way, kept, held, A, K, n, v
<1>12. ASSUME NEW q \in kept, NEW u \in K, IsStrictPrefix(q, u)
       PROVE  ~Comparable(p, u)
  <2>1. q \in K /\ ~Comparable(p, q)
    BY <1>6, <1>10
  <2>2. IsPrefix(q, u)
    BY <1>12 DEF IsStrictPrefix
  <2>3. ~IsPrefix(u, p)
    BY <1>1, <2>1, <2>2, PrefixOrder DEF Comparable, K
  <2>4. ~IsPrefix(p, u)
    BY <1>1, <2>1, <2>2, PrefixOrder DEF Comparable, K
  <2> QED
    BY <2>3, <2>4 DEF Comparable
<1>13. \A u \in way \cup held : Comparable(p, u)
  <2>1. \A u \in way : IsPrefix(u, p)
    BY <1>2, <1>3 DEF IsStrictPrefix
  <2>2. \A u \in held : IsPrefix(p, u)
    BY <1>4 DEF held
  <2> QED
    BY <2>1, <2>2 DEF Comparable
<1>14. \A q \in kept :
         (\E u \in DOMAIN A : IsStrictPrefix(q, u)) <=>
         (\E u \in DOMAIN object : IsStrictPrefix(q, u))
  <2> SUFFICES ASSUME NEW q \in kept
               PROVE  (\E u \in DOMAIN A : IsStrictPrefix(q, u)) <=>
                      (\E u \in DOMAIN object : IsStrictPrefix(q, u))
    OBVIOUS
  <2>1. ASSUME NEW u \in DOMAIN A, IsStrictPrefix(q, u)
        PROVE  u \in DOMAIN object
    <3>1. u \in K /\ ~Comparable(p, u)
      BY <1>3, <1>5, <1>6, <1>12, <2>1
    <3> QED
      BY <1>5, <1>13, <3>1 DEF kept
  <2>2. ASSUME NEW u \in DOMAIN object, IsStrictPrefix(q, u)
        PROVE  u \in DOMAIN A
    BY <1>5, <1>11, <1>12, <2>2 DEF K
  <2> QED
    BY <2>1, <2>2
<1>15. \A r \in DOMAIN v :
         (\E u \in DOMAIN A : IsStrictPrefix(p \o r, u)) <=>
         (\E u \in DOMAIN v : IsStrictPrefix(r, u))
  <2> SUFFICES ASSUME NEW r \in DOMAIN v
               PROVE  (\E u \in DOMAIN A : IsStrictPrefix(p \o r, u)) <=>
                      (\E u \in DOMAIN v : IsStrictPrefix(r, u))
    OBVIOUS
  <2>1. r \in K /\ p \o r \in K /\ IsPrefix(p, p \o r)
    BY <1>4 DEF v, K
  <2>2. ASSUME NEW u \in DOMAIN A, IsStrictPrefix(p \o r, u)
        PROVE  \E w \in DOMAIN v : IsStrictPrefix(r, w)
    <3>1. u \in K /\ IsPrefix(p \o r, u)
      BY <1>3, <1>5, <1>6, <2>2 DEF IsStrictPrefix
    <3>2. IsPrefix(p, u)
      <4>1. PICK a \in K : a = p \o r
        BY <2>1
      <4> QED
        BY <1>1, <2>1, <3>1, <4>1, PrefixOrder DEF K
    <3>3. u \notin kept
      BY <3>2 DEF kept
    <3>4. u \notin way
      BY <1>1, <1>2, <3>1, <3>2, PrefixOrder DEF IsStrictPrefix, K
    <3>5. PICK w \in DOMAIN v : u = p \o w
      BY <1>5, <3>3, <3>4 DEF held
    <3>6. w \in K
      BY DEF v, K
    <3>7. IsPrefix(r, w)
      BY <1>1, <2>1, <3>1, <3>5, <3>6, PrefixOfConcat DEF K
    <3>8. r # w
      BY <2>2, <3>5 DEF IsStrictPrefix
    <3> QED
      BY <3>7, <3>8 DEF IsStrictPrefix
  <2>3. ASSUME NEW w \in DOMAIN v, IsStrictPrefix(r, w)
        PROVE  p \o w \in DOMAIN A /\ IsStrictPrefix(p \o r, p \o w)
    <3>1. w \in K
      BY DEF v, K
    <3>2. IsPrefix(p \o r, p \o w)
      BY <1>1, <2>1, <2>3, <3>1, PrefixOfConcat DEF K, IsStrictPrefix
    <3>3. p \o r # p \o w
      BY <1>4, <2>3 DEF IsStrictPrefix
    <3> QED
      BY <1>8, <3>2, <3>3 DEF IsStrictPrefix
  <2> QED
    BY <2>2, <2>3
<1>16. \A q \in way : A[q] = Map /\ \E u \in DOMAIN A : IsStrictPrefix(q, u)
  <2> SUFFICES ASSUME NEW q \in way
               PROVE  A[q] = Map /\ \E u \in DOMAIN A : IsStrictPrefix(q, u)
    OBVIOUS
  <2>1. A[q] = Map
    BY <1>5
  <2>2. p \o <<>> = p /\ p \o <<>> \in DOMAIN A
    BY <1>1, <1>8, ConcatEmptySeq DEF v, K
  <2>3. IsStrictPrefix(q, p)
    BY <1>2, <1>3
  <2> QED
    BY <2>1, <2>2, <2>3
<1> DEFINE Old == {f \in LeavesOf(object) : ~Comparable(p, f[1])}
           Leaf(q) == A[q] = Map => ~\E r \in DOMAIN A : IsStrictPrefix(q, r)
<1>17. LeavesOf(A) = {<<q, A[q]>> : q \in {q \in DOMAIN A : Leaf(q)}}
  BY DEF LeavesOf
<1>18. {<<q, A[q]>> : q \in {q \in kept : Leaf(q)}} = Old
  <2>1. ASSUME NEW q \in kept, Leaf(q)
        PROVE  <<q, A[q]>> \in Old
    BY <1>9, <1>10, <1>14, <2>1 DEF LeavesOf, kept
  <2>2. ASSUME NEW f \in Old
        PROVE  \E q \in kept : Leaf(q) /\ f = <<q, A[q]>>
    <3>1. PICK q \in DOMAIN object :
            /\ f = <<q, object[q]>>
            /\ object[q] = Map => ~\E r \in DOMAIN object : IsStrictPrefix(q, r)
      BY <2>2 DEF LeavesOf
    <3>2. ~Comparable(p, q)
      BY <2>2, <3>1
    <3>3. q \in kept
      BY <1>11, <3>2
    <3> QED
      BY <1>9, <1>14, <3>1, <3>3
  <2> QED
    BY <2>1, <2>2
<1>19. {<<q, A[q]>> : q \in {q \in held : Leaf(q)}} = Fields(set)
  <2>1. \A r \in DOMAIN v : Leaf(p \o r) <=>
          (v[r] = Map => ~\E u \in DOMAIN v : IsStrictPrefix(r, u))
    BY <1>8, <1>15
  <2>2. ASSUME NEW q \in held, Leaf(q)
        PROVE  <<q, A[q]>> \in Fields(set)
    <3>1. PICK r \in DOMAIN v : q = p \o r
      BY DEF held
    <3>2. <<r, v[r]>> \in LeavesOf(v)
      BY <2>1, <2>2, <3>1 DEF LeavesOf
    <3>3. A[q] = v[r] /\ <<r, v[r]>>[1] = r /\ <<r, v[r]>>[2] = v[r]
      BY <1>8, <3>1
    <3> QED
      BY <3>1, <3>2, <3>3, Zenon DEF Fields, v
  <2>3. ASSUME NEW f \in Fields(set)
        PROVE  \E q \in held : Leaf(q) /\ f = <<q, A[q]>>
    <3>1. PICK g \in LeavesOf(v) : f = <<p \o g[1], g[2]>>
      BY <2>3 DEF Fields, v
    <3>2. PICK r \in DOMAIN v :
            g = <<r, v[r]>> /\ (v[r] = Map => ~\E u \in DOMAIN v : IsStrictPrefix(r, u))
      BY <3>1 DEF LeavesOf
    <3> QED
      BY <1>8, <2>1, <3>1, <3>2 DEF held
  <2> QED
    BY <2>2, <2>3
<1>20. \A q \in DOMAIN A : Leaf(q) => q \in kept \/ q \in held
  BY <1>5, <1>16
<1>21. LeavesOf(A) = Old \cup Fields(set)
  <2>1. LeavesOf(A) = {<<q, A[q]>> : q \in {q \in kept : Leaf(q)}}
                        \cup {<<q, A[q]>> : q \in {q \in held : Leaf(q)}}
    <3> HIDE DEF Leaf
    <3> QED
      BY <1>5, <1>17, <1>20
  <2> QED
    BY <1>18, <1>19, <2>1
<1> QED
  BY <1>3, <1>5, <1>6, <1>21 DEF A, K

(* The body after each of the sets: the recursion of BodyFromSets has a    *)
(* solution, or there would be a least number of sets without one.         *)
LEMMA SetsOneByOne ==
  ASSUME NEW sets, Len(sets) \in Nat
  PROVE  \E built : /\ built[0] = EmptyObject
                    /\ \A j \in 1..Len(sets) : built[j] = Assign(built[j - 1], sets[j])
                    /\ BodyFromSets(sets) = built[Len(sets)]
<1> DEFINE Step(f, j) == IF j = 0 THEN EmptyObject ELSE Assign(f[j - 1], sets[j])
           Solves(f, n) == f = [j \in 0..n |-> Step(f, j)]
           Unsolved == {n \in Nat : ~\E f : Solves(f, n)}
<1>1. Unsolved = {}
  <2> SUFFICES ASSUME Unsolved # {}
               PROVE  FALSE
    OBVIOUS
  <2>1. PICK n \in Unsolved : \A m \in Unsolved : n <= m
    BY LeastNumber
  <2>2. ASSUME n = 0
        PROVE  FALSE
    <3> DEFINE f == [j \in 0..n |-> EmptyObject]
    <3>1. \A j \in 0..n : Step(f, j) = EmptyObject
      BY <2>2
    <3> HIDE DEF Step
    <3>2. Solves(f, n)
      BY <3>1
    <3> QED
      BY <3>2
  <2>3. ASSUME n # 0
        PROVE  FALSE
    <3>a. n \in Nat
      OBVIOUS
    <3>b. n - 1 \in Nat /\ ~(n <= n - 1)
      BY <2>3, <3>a
    <3>1. n \in Nat /\ n - 1 \in Nat /\ n - 1 \notin Unsolved
      <4> HIDE DEF Unsolved
      <4> QED
        BY <2>1, <3>a, <3>b
    <3>2. PICK g : Solves(g, n - 1)
      BY <3>1
    <3> DEFINE f == [j \in 0..n |-> IF j = n THEN Step(g, n) ELSE g[j]]
    <3>3. ASSUME NEW j \in 0..n
          PROVE  f[j] = Step(f, j)
      <4>1. CASE j = 0
        BY <2>3, <3>1, <3>2, <4>1
      <4>2. CASE j # 0
        <5>1. j - 1 \in 0..n - 1 /\ j - 1 \in 0..n /\ j - 1 # n /\ n # 0
          BY <3>1, <4>2
        <5>2. f[j - 1] = g[j - 1]
          BY <5>1
        <5>3. Step(f, j) = Step(g, j)
          BY <4>2, <5>2
        <5>4. j # n => j \in 0..n - 1
          BY <3>1
        <5>5. j # n => g[j] = Step(g, j)
          BY <3>2, <5>4
        <5> QED
          BY <5>3, <5>5
      <4> QED
        BY <4>1, <4>2
    <3> HIDE DEF Step
    <3>4. Solves(f, n)
      BY <3>3
    <3> QED
      BY <3>4
  <2> QED
    BY <2>2, <2>3
<1> DEFINE N == Len(sets)
           built == CHOOSE f : Solves(f, N)
<1>2. Solves(built, N)
  BY <1>1
<1>3. BodyFromSets(sets) = built[N]
  BY DEF BodyFromSets
<1>4. /\ built[0] = EmptyObject
      /\ \A j \in 1..N : built[j] = Assign(built[j - 1], sets[j])
  <2> HIDE DEF built
  <2>1. \A j \in 0..N : built[j] = Step(built, j)
    BY <1>2
  <2>2. 0 \in 0..N /\ \A j \in 1..N : j \in 0..N /\ j # 0
    OBVIOUS
  <2> QED
    BY <2>1, <2>2
<1> QED
  BY <1>3, <1>4

(* The body holds what no later set has replaced, for any number of sets.  *)
LEMMA BodyStands ==
  ASSUME NEW i \in Invocations, i.sets # <<>>
  PROVE  LeavesOf(BodyFromSets(i.sets)) =
           UNION { { f \in Fields(i.sets[j]) :
                       \A k \in j + 1..Len(i.sets) : ~Comparable(i.sets[k].path, f[1]) }
                   : j \in DOMAIN i.sets }
<1> DEFINE sets == i.sets
           n == Len(sets)
           Left(a, j) == {f \in Fields(sets[a]) :
                            \A k \in a + 1..j : ~Comparable(sets[k].path, f[1])}
           Stand(j) == UNION {Left(a, j) : a \in 1..j}
<1>1. sets \in Seq(ToSet(sets)) /\ sets # <<>>
  BY GeneratedAssumption
<1>2. n \in Nat \ {0} /\ DOMAIN sets = 1..n
  BY <1>1, EmptySeq, LenProperties
<1>3. \A j \in 1..n : /\ sets[j].path \in Seq(JsonKeys) \ {<<>>}
                      /\ <<>> \in DOMAIN sets[j].value
                      /\ DOMAIN sets[j].value \subseteq Seq(JsonKeys)
  <2>1. \A j \in 1..n : sets[j] \in ToSet(sets)
    BY <1>2 DEF ToSet
  <2> QED
    BY <2>1, GeneratedAssumption
<1>4. PICK built : /\ built[0] = EmptyObject
                   /\ \A j \in 1..n : built[j] = Assign(built[j - 1], sets[j])
                   /\ BodyFromSets(sets) = built[n]
  BY <1>2, SetsOneByOne
<1> HIDE DEF n, sets
<1> DEFINE Good(j) == DOMAIN built[j] \subseteq Seq(JsonKeys) /\ LeavesOf(built[j]) = Stand(j)
           Bad == {j \in Nat : j \in 1..n /\ ~Good(j)}
<1>5. Good(1)
  <2>1. DOMAIN built[0] = {<<>>} /\ built[0][<<>>] = Map
    BY <1>4 DEF EmptyObject
  <2>2. LeavesOf(built[0]) \subseteq {<< <<>>, Map >>}
    BY <2>1 DEF LeavesOf
  <2>3. DOMAIN built[0] \subseteq Seq(JsonKeys)
    BY <2>1, EmptySeq
  <2>4. 1 \in 1..n /\ built[1] = Assign(built[0], sets[1])
    BY <1>2, <1>4
  <2>5. Comparable(sets[1].path, <<>>)
    <3>1. sets[1].path \in Seq(JsonKeys)
      BY <1>3, <2>4
    <3>2. <<>> \in Seq(JsonKeys) /\ Len(<<>>) = 0
      BY EmptySeq
    <3>3. Len(<<>>) <= Len(sets[1].path)
      BY <3>1, <3>2, LenProperties
    <3>4. SubSeq(<<>>, 1, Len(<<>>)) = SubSeq(sets[1].path, 1, Len(<<>>))
      BY <3>2, SubSeqEmpty
    <3> QED
      BY <3>3, <3>4 DEF Comparable, IsPrefix
  <2>6. {f \in LeavesOf(built[0]) : ~Comparable(sets[1].path, f[1])} = {}
    BY <2>2, <2>5
  <2>7. DOMAIN built[1] \subseteq Seq(JsonKeys) /\ LeavesOf(built[1]) = Fields(sets[1])
    BY <1>3, <2>3, <2>4, <2>6, AssignStands
  <2>8. Stand(1) = Fields(sets[1])
    <3>1. 1..1 = {1} /\ 1 + 1..1 = {}
      OBVIOUS
    <3>2. Left(1, 1) = Fields(sets[1])
      BY <3>1
    <3> HIDE DEF Left
    <3> QED
      BY <3>1, <3>2
  <2> QED
    BY <2>7, <2>8
<1>6. ASSUME NEW j \in 1..n - 1, Good(j)
      PROVE  Good(j + 1)
  <2>1. j + 1 \in 1..n /\ built[j + 1] = Assign(built[j], sets[j + 1])
    <3>1. j + 1 \in 1..n /\ (j + 1) - 1 = j
      BY <1>2
    <3> QED
      BY <1>4, <3>1
  <2> DEFINE p == sets[j + 1].path
  <2>2. /\ DOMAIN built[j + 1] \subseteq Seq(JsonKeys)
        /\ LeavesOf(built[j + 1]) =
             {f \in Stand(j) : ~Comparable(p, f[1])} \cup Fields(sets[j + 1])
    <3> HIDE DEF Stand
    <3> QED
      BY <1>3, <1>6, <2>1, AssignStands
  <2>3. \A a \in 1..j : Left(a, j + 1) = {f \in Left(a, j) : ~Comparable(p, f[1])}
    <3> SUFFICES ASSUME NEW a \in 1..j
                 PROVE  Left(a, j + 1) = {f \in Left(a, j) : ~Comparable(p, f[1])}
      OBVIOUS
    <3>1. a + 1..j + 1 = (a + 1..j) \cup {j + 1}
      BY <1>2
    <3> QED
      BY <3>1
  <2>4. Left(j + 1, j + 1) = Fields(sets[j + 1])
    <3>1. (j + 1) + 1..j + 1 = {}
      BY <1>2
    <3> QED
      BY <3>1
  <2>5. 1..j + 1 = (1..j) \cup {j + 1}
    BY <1>2
  <2> HIDE DEF Left, p
  <2>6. Stand(j + 1) = (UNION {Left(a, j + 1) : a \in 1..j}) \cup Fields(sets[j + 1])
    BY <2>4, <2>5
  <2>7. UNION {Left(a, j + 1) : a \in 1..j} = {f \in Stand(j) : ~Comparable(p, f[1])}
    BY <2>3
  <2> QED
    BY <2>2, <2>6, <2>7
<1>7. Bad = {}
  <2> SUFFICES ASSUME Bad # {}
               PROVE  FALSE
    OBVIOUS
  <2>1. PICK j \in Bad : \A m \in Bad : j <= m
    BY LeastNumber
  <2> HIDE DEF Good
  <2>2. j # 1 /\ j \in 1..n
    BY <1>5, <2>1
  <2>3. j - 1 \in 1..n - 1 /\ (j - 1) + 1 = j /\ j - 1 \in Nat /\ j - 1 \in 1..n
    BY <1>2, <2>2
  <2>4. Good(j - 1)
    BY <2>1, <2>3
  <2>5. Good(j)
    BY <1>6, <2>3, <2>4
  <2> QED
    BY <2>1, <2>5
<1>8. Good(n)
  BY <1>2, <1>7
<1> QED
  BY <1>2, <1>4, <1>8 DEF n, sets

(* Only an option that was given leaves a trace in the query. *)
LEMMA QueryIsGiven ==
  ASSUME NEW i \in Invocations, NEW q \in Query(i)
  PROVE  i.query[q[1]] = q[2]
<1>1. PICK p \in Params : q = <<p, TextOf(i, p)>> /\ q[2] \notin {Blank, "0", "false"}
  BY DEF Query
<1>2. Default[KindOf[p]] \in {Blank, "0", "false"}
  <2>1. KindOf[p] \in {"integer", "boolean", "string"}
    BY GeneratedAssumption DEF Default
  <2> QED
    BY <2>1 DEF Default
<1> QED
  BY <1>1, <1>2 DEF TextOf

(* For any command line: the query holds nothing that was not given, the   *)
(* body what the --set options leave, however many there are and however   *)
(* their paths lie in each other, an exit of 0 means that the request was  *)
(* executed and its answer is in one place, and one of 4 that nothing was  *)
(* executed (generated.go runOperation, bodyFromSets).                     *)
THEOREM CommandKeeps == CommandSpec => []CommandKeepsWord
<1>1. CommandInit => CommandInv
  BY DEF CommandInit, CommandInv, ExitTells, NoExit
<1>2. CommandInv /\ [CommandNext]_commandVars => CommandInv'
  <2> SUFFICES ASSUME CommandInv, [CommandNext]_commandVars
               PROVE  CommandInv'
    OBVIOUS
  <2> USE DEF CommandInv, Exits, NoExit
  <2>1. CASE Refused
    BY <2>1 DEF Refused, ExitTells
  <2>2. CASE Misuse
    BY <2>2 DEF Misuse, ExitTells
  <2>3. CASE Build
    BY <2>3 DEF Build, ExitTells
  <2>4. CASE NoClient
    BY <2>4 DEF NoClient, ExitTells
  <2>5. CASE CallFailed
    BY <2>5 DEF CallFailed, ExitTells
  <2>6. CASE Executed
    BY <2>6 DEF Executed, ExitTells
  <2>7. \A w : Cardinality({} \cup {w}) = 1
    <3>1. \A w : {} \cup {w} = {w}
      OBVIOUS
    <3> QED
      BY <3>1, FS_Singleton
  <2>8. CASE Deliver
    BY <2>7, <2>8 DEF Deliver, Prints, ExitTells
  <2>9. CASE Waited
    <3>1. /\ executed /\ shown = {} /\ executed' = executed /\ invocation' = invocation
          /\ query' = query /\ body' = body
      BY <2>9 DEF Waited
    <3>2. /\ stage' = "ended" /\ exit' \in {0, 1, 2}
          /\ exit' = 0 => shown' = shown \cup {"stdout"}
      BY <2>9 DEF Waited, Prints
    <3>3. exit' = 0 => Cardinality(shown') = 1
      BY <2>7, <3>1, <3>2
    <3> QED
      BY <3>1, <3>2, <3>3 DEF ExitTells
  <2>10. CASE UNCHANGED commandVars
    BY <2>10 DEF commandVars, ExitTells
  <2> QED
    BY <2>1, <2>2, <2>3, <2>4, <2>5, <2>6, <2>8, <2>9, <2>10 DEF CommandNext
<1>3. CommandInv => CommandKeepsWord
  <2> SUFFICES ASSUME CommandInv
               PROVE  CommandKeepsWord
    OBVIOUS
  <2>1. OnlyGivenIsSent
    BY QueryIsGiven DEF CommandInv, OnlyGivenIsSent
  <2>2. ASSUME body \notin {NoBody, FileBody}
        PROVE  body = BodyFromSets(invocation.sets) /\ invocation.sets # <<>>
    BY <2>2 DEF CommandInv, Body
  <2>3. SetsStand
    BY <2>2, BodyStands DEF CommandInv, SetsStand
  <2> QED
    BY <2>1, <2>3 DEF CommandKeepsWord, CommandInv
<1> QED
  BY <1>1, <1>2, <1>3, PTL DEF CommandSpec

-----------------------------------------------------------------------------
(* Backoff: the waits double, wrapped shifts included.                     *)

(* Powers of two count sets of numbers, which is what is known of them.    *)
LEMMA PowerIsCount ==
  ASSUME NEW n \in Nat
  PROVE  IsFiniteSet(SUBSET (1..n)) /\ Cardinality(SUBSET (1..n)) = 2^n
<1>1. IsFiniteSet(1..n) /\ Cardinality(1..n) = n
  BY FS_Interval
<1> QED
  BY <1>1, FS_SUBSET

(* They are positive, *)
LEMMA PowerPositive ==
  ASSUME NEW n \in Nat
  PROVE  2^n \in Nat \ {0}
<1>1. IsFiniteSet(SUBSET (1..n)) /\ Cardinality(SUBSET (1..n)) = 2^n
  BY PowerIsCount
<1>2. Cardinality(SUBSET (1..n)) \in Nat
  BY <1>1, FS_CardinalityType
<1>3. SUBSET (1..n) # {}
  OBVIOUS
<1>4. Cardinality(SUBSET (1..n)) # 0
  BY <1>1, <1>3, FS_EmptySet
<1> QED
  BY <1>1, <1>2, <1>4

(* and multiply: a set of numbers up to m + n is one of numbers up to m    *)
(* with one of the others.                                                 *)
LEMMA PowersMultiply ==
  ASSUME NEW m \in Nat, NEW n \in Nat
  PROVE  2^(m + n) = 2^m * 2^n
<1> DEFINE Low == SUBSET (1..m)
           High == SUBSET (m+1..m+n)
           All == SUBSET (1..m+n)
           F == [S \in All |-> <<S \cap (1..m), S \cap (m+1..m+n)>>]
<1>1. IsFiniteSet(All) /\ Cardinality(All) = 2^(m + n)
  BY PowerIsCount
<1>2. IsFiniteSet(Low) /\ Cardinality(Low) = 2^m
  BY PowerIsCount
<1>3. IsFiniteSet(High) /\ Cardinality(High) = 2^n
  <2>1. IsFiniteSet(m+1..m+n) /\ Cardinality(m+1..m+n) = n
    BY FS_Interval
  <2> QED
    BY <2>1, FS_SUBSET
<1>4. IsFiniteSet(Low \X High) /\ Cardinality(Low \X High) = 2^m * 2^n
  BY <1>2, <1>3, FS_Product
<1>5. F \in Bijection(All, Low \X High)
  <2>1. F \in [All -> Low \X High]
    OBVIOUS
  <2>2. ASSUME NEW S \in All, NEW T \in All, F[S] = F[T]
        PROVE  S = T
    <3>1. S \cap (1..m) = T \cap (1..m) /\ S \cap (m+1..m+n) = T \cap (m+1..m+n)
      BY <2>2
    <3>2. 1..m+n = (1..m) \cup (m+1..m+n)
      OBVIOUS
    <3> QED
      BY <3>1, <3>2
  <2>3. ASSUME NEW p \in Low \X High
        PROVE  \E S \in All : F[S] = p
    <3>1. PICK A \in Low, B \in High : p = <<A, B>>
      OBVIOUS
    <3>2. A \cup B \in All
      OBVIOUS
    <3>3. A \subseteq 1..m /\ B \subseteq m+1..m+n /\ (1..m) \cap (m+1..m+n) = {}
      OBVIOUS
    <3>4. (A \cup B) \cap (1..m) = A /\ (A \cup B) \cap (m+1..m+n) = B
      BY <3>3, Zenon
    <3> QED
      BY <3>1, <3>2, <3>4
  <2> HIDE DEF F
  <2>4. F \in Injection(All, Low \X High)
    BY <2>1, <2>2 DEF Injection, IsInjective
  <2>5. F \in Surjection(All, Low \X High)
    BY <2>1, <2>3 DEF Surjection
  <2> QED
    BY <2>4, <2>5 DEF Bijection
<1>6. Cardinality(Low \X High) = Cardinality(All)
  BY <1>1, <1>5, FS_Bijection DEF ExistsBijection
<1> QED
  BY <1>1, <1>4, <1>6

(* What % leaves of a number. *)
LEMMA Division ==
  ASSUME NEW x \in Int, NEW y \in Nat \ {0}
  PROVE  x \div y \in Int /\ x = y * (x \div y) + (x % y) /\ x % y \in 0..y - 1
  OBVIOUS

(* The range of a duration, below zero and above. *)
LEMMA RangeHalves ==
  /\ Width \in Nat \ {0, 1} /\ 2^Width = 2 * 2^(Width - 1)
  /\ 2^Width \in Nat \ {0} /\ 2^(Width - 1) \in Nat \ {0}
<1>1. Width \in Nat \ {0, 1}
  BY BackoffAssumption
<1>2. PICK w \in Nat : w = Width - 1
  BY <1>1
<1>3. 2^(w + 1) = 2^w * 2^1
  BY PowersMultiply
<1>4. w + 1 = Width /\ 2^1 = 2
  BY <1>1, <1>2
<1>5. 2^Width \in Nat \ {0} /\ 2^w \in Nat \ {0}
  BY <1>1, PowerPositive
<1> QED
  BY <1>1, <1>2, <1>3, <1>4, <1>5

(* What wraps around keeps the zeros at its end. *)
LEMMA ZerosKept ==
  ASSUME NEW o \in Nat, NEW j \in Nat
  PROVE  \E z \in Int : Signed(o * 2^j) = 2^j * z
<1> DEFINE M == 2^Width
           Q == 2^j
<1>1. M \in Nat \ {0} /\ Q \in Nat \ {0} /\ Width \in Nat
  BY RangeHalves, PowerPositive
<1>2. Signed(o * Q) \in {(o * Q) % M, ((o * Q) % M) - M}
  BY DEF Signed
<1>3. CASE j >= Width
  <2>1. Q = M * 2^(j - Width) /\ 2^(j - Width) \in Nat \ {0}
    <3>1. j - Width \in Nat /\ j = Width + (j - Width)
      BY <1>1, <1>3
    <3>2. 2^(Width + (j - Width)) = 2^Width * 2^(j - Width)
      BY <1>1, <3>1, PowersMultiply
    <3> QED
      BY <3>1, <3>2, PowerPositive
  <2> DEFINE R == 2^(j - Width)
  <2> HIDE DEF M, Q, R
  <2>2. o * Q = M * (o * R) /\ o * R \in Int /\ o * Q \in Int
    BY <1>1, <2>1 DEF R
  <2>3. (o * Q) % M = 0
    <3>1. PICK q \in Int, r \in 0..M - 1 : o * Q = M * q + r /\ r = (o * Q) % M
      BY <1>1, <2>2, Division
    <3>2. r = M * (o * R - q)
      <4>1. M * (o * R - q) = M * (o * R) - M * q
        BY <1>1, <2>2
      <4> QED
        BY <1>1, <2>2, <3>1, <4>1
    <3>3. PICK d \in Int : d = o * R - q
      BY <2>2
    <3>4. d >= 1 => M * d >= M
      BY <1>1
    <3>5. d <= -1 => M * d < 0
      BY <1>1
    <3>6. d = 0
      BY <1>1, <3>1, <3>2, <3>3, <3>4, <3>5
    <3> QED
      BY <1>1, <3>1, <3>2, <3>3, <3>6
  <2>4. Signed(o * Q) = 0
    BY <1>1, <2>3, RangeHalves DEF Signed, M
  <2> QED
    BY <1>1, <2>4 DEF Q
<1>4. CASE j < Width
  <2>1. M = Q * 2^(Width - j) /\ 2^(Width - j) \in Nat \ {0}
    <3>1. Width - j \in Nat /\ Width = j + (Width - j)
      BY <1>1, <1>4
    <3> QED
      BY <3>1, PowersMultiply, PowerPositive
  <2> DEFINE K == 2^(Width - j)
  <2> HIDE DEF M, Q, K
  <2>2. PICK q \in Int : o * Q = M * q + ((o * Q) % M)
    <3>1. o * Q \in Int
      BY <1>1
    <3> QED
      BY <1>1, <3>1, Division, Zenon
  <2>3. (o * Q) % M \in Int /\ (o * Q) % M = Q * (o - K * q)
    <3>1. o * Q \in Int /\ (o * Q) % M \in Int
      BY <1>1, Division
    <3>2. M * q = Q * (K * q)
      BY <1>1, <2>1 DEF K
    <3>3. Q * (o - K * q) = o * Q - Q * (K * q)
      BY <1>1, <2>1 DEF K
    <3> QED
      BY <1>1, <2>1, <2>2, <3>1, <3>2, <3>3
  <2>4. ((o * Q) % M) - M = Q * (o - K * q - K)
    BY <1>1, <2>1, <2>3 DEF K
  <2>5. o - K * q \in Int /\ o - K * q - K \in Int
    BY <2>1 DEF K
  <2> QED
    BY <1>2, <2>3, <2>4, <2>5 DEF Q
<1> QED
  BY <1>1, <1>3, <1>4

(* A shift is exact, or what is left of it is not between 1 and the limit: *)
(* the zeros at its end are more digits than the limit has.                *)
LEMMA ShiftDoubles ==
  ASSUME NEW b \in Nat \ {0}, NEW max \in Nat \ {0}, NEW n \in Nat,
         max < 2^(Width - 1),
         \/ b * 2^n < 2^(Width - 1)
         \/ \E k \in Nat, o \in Nat \ {0} : b = o * 2^k /\ o * max < 2^(Width - 1)
  PROVE  LET s == ShiftLeft(b, n)
         IN IF s > max \/ s <= 0 THEN b * 2^n > max ELSE s = b * 2^n
<1> DEFINE M == 2^Width
           H == 2^(Width - 1)
           P == 2^n
<1>1. Width \in Nat \ {0, 1}
  BY BackoffAssumption
<1>2. M \in Nat \ {0} /\ H \in Nat \ {0} /\ P \in Nat \ {0}
  BY RangeHalves, PowerPositive
<1>3. M = 2 * H
  BY RangeHalves
<1>4. CASE n >= Width
  <2>1. P = M * 2^(n - Width) /\ 2^(n - Width) \in Nat \ {0}
    <3>1. n - Width \in Nat /\ n = Width + (n - Width)
      BY <1>1, <1>4
    <3>2. 2^(Width + (n - Width)) = 2^Width * 2^(n - Width)
      BY <1>1, <3>1, PowersMultiply
    <3> QED
      BY <3>1, <3>2, PowerPositive
  <2> HIDE DEF M, P, H
  <2>2. P >= M
    BY <1>2, <2>1
  <2>3. b * P >= P
    BY <1>2
  <2>4. b * P > max
    BY <1>2, <1>3, <2>2, <2>3 DEF H
  <2> QED
    BY <1>4, <2>4 DEF ShiftLeft, P
<1>5. CASE n < Width
  <2>1. ShiftLeft(b, n) = Signed(b * P)
    BY <1>1, <1>5 DEF ShiftLeft
  <2>2. CASE b * P < H
    <3> HIDE DEF M, P, H
    <3>1. (b * P) % M = b * P
      BY <1>2, <1>3, <2>2
    <3>2. Signed(b * P) = b * P
      BY <1>2, <2>2, <3>1 DEF Signed, H, M
    <3>3. b * P \in Nat \ {0}
      BY <1>2
    <3> QED
      BY <2>1, <3>2, <3>3 DEF P
  <2>3. CASE b * P >= H
    <3>1. PICK k \in Nat, o \in Nat \ {0} : b = o * 2^k /\ o * max < H
      BY <1>2, <2>3
    <3> DEFINE Q == 2^(k + n)
    <3>2. Q \in Nat \ {0} /\ Q = 2^k * P /\ 2^k \in Nat \ {0}
      BY PowersMultiply, PowerPositive
    <3>3. PICK z \in Int : Signed(o * Q) = Q * z
      BY ZerosKept
    <3> DEFINE A == 2^k
    <3> HIDE DEF M, P, H, Q, A
    <3>4. b * P = o * Q
      BY <1>2, <3>1, <3>2 DEF A
    <3>5. Q > max /\ b * P > max
      <4>1. o * Q > o * max
        BY <1>2, <2>3, <3>1, <3>2, <3>4
      <4>2. Q > max
        BY <3>1, <3>2, <4>1
      <4> QED
        BY <1>2, <2>3, <4>2 DEF H
    <3>6. z >= 1 => Q * z > max
      BY <3>2, <3>5
    <3>7. z <= 0 => Q * z <= 0
      BY <3>2
    <3> QED
      BY <2>1, <3>3, <3>4, <3>5, <3>6, <3>7 DEF P
  <2> QED
    BY <1>2, <2>2, <2>3
<1> QED
  BY <1>1, <1>4, <1>5

(* Where a wait is Shiftable, the first one is a number without trailing   *)
(* zeros, or with fewer, shifted: enough for the lemma above.              *)
LEMMA ShiftableParts ==
  ASSUME BackoffTypeOK, NEW n \in Nat, Shiftable(n + 1)
  PROVE  LET b == policy.base
             max == policy.max
         IN /\ b \in Nat \ {0} /\ max \in Nat \ {0} /\ max < 2^(Width - 1)
            /\ \/ b * 2^n < 2^(Width - 1)
               \/ \E k \in Nat, o \in Nat \ {0} : b = o * 2^k /\ o * max < 2^(Width - 1)
<1> DEFINE b == policy.base
           max == policy.max
<1>1. b \in Nat \ {0} /\ max \in Nat \ {0} /\ 3 * max < 2^Width
  BY BackoffAssumption DEF BackoffTypeOK, Policies
<1>2. max < 2^(Width - 1)
  BY <1>1, RangeHalves
<1>3. (n + 1) - 1 = n
  OBVIOUS
<1>4. CASE b * 2^n < 2^(Width - 1)
  BY <1>1, <1>2, <1>4
<1>5. ASSUME NEW k \in 0..Width - 1, b % 2^k = 0, (b \div 2^k) * max < 2^(Width - 1)
      PROVE  \E l \in Nat, o \in Nat \ {0} : b = o * 2^l /\ o * max < 2^(Width - 1)
  <2>1. k \in Nat /\ 2^k \in Nat \ {0}
    BY RangeHalves, PowerPositive
  <2> DEFINE Q == 2^k
             o == b \div Q
  <2> HIDE DEF Q
  <2>2. o \in Int /\ b = Q * o
    <3>1. b \in Int /\ Q \in Nat \ {0} /\ b % Q = 0
      BY <1>1, <1>5, <2>1 DEF Q
    <3> HIDE DEF b
    <3>2. o \in Int /\ b = Q * o + (b % Q)
      BY <3>1, Division, Zenon
    <3> QED
      BY <3>1, <3>2
  <2>3. o \in Nat \ {0} /\ b = o * Q
    <3>1. o <= 0 => Q * o <= 0
      BY <2>1, <2>2 DEF Q
    <3> HIDE DEF o
    <3> QED
      BY <1>1, <2>1, <2>2, <3>1 DEF Q
  <2>4. o * max < 2^(Width - 1)
    BY <1>5 DEF Q
  <2> HIDE DEF o
  <2> QED
    BY <2>1, <2>3, <2>4 DEF Q
<1> QED
  BY <1>1, <1>2, <1>3, <1>4, <1>5 DEF Shiftable

(* Types of the retry policy and its waits (client.go, RetryPolicy).       *)
THEOREM BackoffTypeCorrect == BackoffSpec => []BackoffTypeOK
<1>1. BackoffInit => BackoffTypeOK
  BY BackoffAssumption DEF BackoffInit, BackoffTypeOK
<1>2. BackoffTypeOK /\ [BackoffNext]_backoffVars => BackoffTypeOK'
  <2> SUFFICES ASSUME BackoffTypeOK, [BackoffNext]_backoffVars
               PROVE  BackoffTypeOK'
    OBVIOUS
  <2>1. CASE Retry
    BY <2>1, BackoffAssumption DEF Retry, BackoffTypeOK, Policies
  <2>2. CASE UNCHANGED backoffVars
    BY <2>2 DEF backoffVars, BackoffTypeOK, Policies
  <2> QED
    BY <2>1, <2>2 DEF BackoffNext
<1> QED
  BY <1>1, <1>2, PTL DEF BackoffSpec

(* For a time.Duration of any width and every policy of positive waits,    *)
(* however many attempts there are: a wait is never one and a half times   *)
(* the limit, and wherever the width leaves enough digits it is the        *)
(* doubled one, shifts that wrap around included (client.go backoff).      *)
THEOREM WaitsDouble == BackoffSpec => []WaitDoubles
<1>1. BackoffInit => WaitDoubles
  BY DEF BackoffInit, WaitDoubles
<1>2. BackoffTypeOK /\ WaitDoubles /\ [BackoffNext]_backoffVars => WaitDoubles'
  <2> SUFFICES ASSUME BackoffTypeOK, WaitDoubles, [BackoffNext]_backoffVars
               PROVE  WaitDoubles'
    OBVIOUS
  <2>1. CASE Retry
    <3> SUFFICES ASSUME after' = 0
                 PROVE  /\ 0 <= wait' /\ 2 * wait' < 3 * policy'.max
                        /\ Shiftable(attempt)' =>
                             \E jitter \in Jitters : wait' = Jittered(Doubled(attempt)', jitter)
      BY DEF WaitDoubles
    <3>1. PICK jitter \in Jitters : wait' = Jittered(Grown(attempt'), jitter)
      BY <2>1, BackoffAssumption DEF Retry
    <3>2. PICK n \in Nat : n = attempt /\ attempt' = n + 1
      BY <2>1, BackoffAssumption DEF Retry, BackoffTypeOK
    <3>3. policy' = policy
      BY <2>1 DEF Retry
    <3>4. policy.base \in Nat \ {0} /\ policy.max \in Nat \ {0}
      BY BackoffAssumption DEF BackoffTypeOK, Policies
    <3> DEFINE s == ShiftLeft(policy.base, n)
               w == policy.base * 2^n
               g == IF s > policy.max \/ s <= 0 THEN policy.max ELSE s
    <3>5. Grown(attempt') = g
      <4>1. (n + 1) - 1 = n
        OBVIOUS
      <4> QED
        BY <3>2, <4>1 DEF Grown
    <3>6. s \in Int
      <4>1. 2^n \in Nat
        BY PowerPositive
      <4>2. policy.base * 2^n \in Int
        BY <3>4, <4>1
      <4>3. (policy.base * 2^n) % 2^Width \in Int
        BY <4>2, RangeHalves, Division
      <4>4. Signed(policy.base * 2^n) \in Int
        BY <4>3, RangeHalves DEF Signed
      <4> QED
        BY <4>4 DEF ShiftLeft
    <3>7. 0 <= wait' /\ 2 * wait' < 3 * policy'.max
      <4> HIDE DEF s
      <4>1. g \in 1..policy.max
        BY <3>4, <3>6
      <4> HIDE DEF g
      <4>2. jitter \in 4..11
        BY DEF Jitters
      <4>3. g * jitter \in Nat /\ g * jitter <= g * 11
        BY <3>4, <4>1, <4>2
      <4>4. PICK x \in Nat : x = g * jitter /\ x <= 11 * policy.max
        BY <3>4, <4>1, <4>3
      <4>5. 0 <= x \div 8 /\ 8 * (x \div 8) <= x
        BY <4>4
      <4>6. wait' = x \div 8
        BY <3>1, <3>5, <4>4 DEF Jittered
      <4> QED
        BY <3>3, <3>4, <4>4, <4>5, <4>6
    <3>8. ASSUME Shiftable(attempt)'
          PROVE  g = Doubled(attempt)'
      <4>1. Shiftable(n + 1)
        BY <3>2, <3>3, <3>8 DEF Shiftable
      <4>2. IF s > policy.max \/ s <= 0 THEN w > policy.max ELSE s = w
        BY <4>1, ShiftableParts, ShiftDoubles
      <4>3. (n + 1) - 1 = n
        OBVIOUS
      <4>4. Doubled(attempt)' = IF w > policy.max THEN policy.max ELSE w
        BY <3>2, <3>3, <4>3 DEF Doubled
      <4> HIDE DEF s, w
      <4> QED
        BY <3>4, <3>6, <4>2, <4>4
    <3> QED
      BY <3>1, <3>5, <3>7, <3>8
  <2>2. CASE UNCHANGED backoffVars
    BY <2>2 DEF backoffVars, WaitDoubles, Doubled, Jittered, Shiftable
  <2> QED
    BY <2>1, <2>2 DEF BackoffNext
<1> QED
  BY <1>1, <1>2, BackoffTypeCorrect, PTL DEF BackoffSpec

=============================================================================
