--------------------------- MODULE ProfilesProofs ---------------------------
(***************************************************************************)
(* Theorems about Profiles, for any number of processes, profiles and      *)
(* credentials, with a keyring or without; and about commands one after    *)
(* another, or overlapping on the keyring (CommandsSpec).                  *)
(***************************************************************************)
EXTENDS MCProfiles, TLAPS

(* Set and Delete of an entry leave the stores well formed. *)
LEMMA PutType ==
  ASSUME NEW p \in Processes, NEW e \in Entries,
         NEW v \in Credentials \cup {Nothing}, NEW next \in PC,
         TypeOK, Put(p, e, v, next)
  PROVE  /\ kept' \in [Stores -> StoreType]
         /\ doc' \in [Processes -> StoreType \cup {Nothing}]
         /\ pc' \in [Processes -> PC]
<1>1. CASE store[p] = "keyring"
  <2>1. [kept["keyring"] EXCEPT ![e] = v] \in StoreType
    BY DEF TypeOK, StoreType, Stores
  <2> QED BY <1>1, <2>1 DEF Put, Goto, TypeOK, Stores
<1>2. CASE store[p] = "file" /\ doc[p] = Nothing
  BY <1>2, ProfilesAssumption DEF Put, Goto, TypeOK, Stores
<1>3. CASE store[p] = "file" /\ doc[p] # Nothing
  <2>1. [doc[p] EXCEPT ![e] = v] \in StoreType
    BY <1>3 DEF TypeOK, StoreType
  <2> QED BY <1>3, <2>1 DEF Put, Goto, TypeOK, Stores
<1> QED BY <1>1, <1>2, <1>3 DEF TypeOK, Stores

(* A process that ends leaves its locals well formed. *)
LEMMA ExitType ==
  ASSUME NEW p \in Processes, TypeOK, Exit(p)
  PROVE  /\ pc' \in [Processes -> PC]
         /\ name' \in [Processes -> Names \cup {Nothing}]
         /\ cred' \in [Processes -> Credentials \cup {Nothing}]
         /\ secret' \in [Processes -> Credentials \cup {Nothing}]
         /\ store' \in [Processes -> Stores]
         /\ cfg' \in [Processes -> ConfigType]
         /\ doc' \in [Processes -> StoreType \cup {Nothing}]
<1>1. NoProfiles \in ConfigType
  BY DEF NoProfiles, ConfigType
<1> QED BY <1>1 DEF Exit, Goto, TypeOK, PC, Stores

(* Every variable keeps its type. *)
LEMMA TypeStep == TypeOK /\ WorkInv /\ [Next]_vars => TypeOK'
<1> SUFFICES ASSUME TypeOK, WorkInv, [Next]_vars PROVE TypeOK'
  OBVIOUS
<1> USE ProfilesAssumption DEF files, locals
<1>1. CASE UNCHANGED vars
  BY <1>1 DEF vars, TypeOK
<1>2. ASSUME NEW p \in Processes, Login(p) PROVE TypeOK'
  <2>1. ASSUME NEW n \in Names, NEW c \in Credentials, StartLogin(p, n, c) PROVE TypeOK'
    BY <2>1 DEF StartLogin, Claim, Goto, TypeOK, PC, LoginSteps
  <2>2. CASE LoadForLogin(p)
    BY <2>2 DEF LoadForLogin, StoreFor, Goto, TypeOK, PC, LoginSteps, Stores
  <2>3. CASE SetSecret(p)
    <3>1. Secret(p) \in Entries /\ cred[p] \in Credentials /\ "clearToken" \in PC
      BY <2>3 DEF SetSecret, Secret, Entries, WorkInv, LoginSteps, PC
    <3> QED BY <2>3, <3>1, PutType DEF SetSecret, TypeOK
  <2>4. CASE ClearToken(p)
    <3>1. Token(p) \in Entries /\ "saveConfig" \in PC
      BY <2>4 DEF ClearToken, Token, Entries, WorkInv, LoginSteps, PC
    <3> QED BY <2>4, <3>1, PutType DEF ClearToken, TypeOK
  <2>5. CASE SaveConfig(p)
    <3>1. name[p] \in Names /\ cred[p] \in Credentials
      BY <2>5 DEF SaveConfig, WorkInv, LoginSteps
    <3>2. config' \in ConfigType
      BY <2>5, <3>1 DEF SaveConfig, ConfigType, ProfileType, TypeOK
    <3> QED BY <2>5, <3>2 DEF SaveConfig, Goto, TypeOK, PC, LoginSteps
  <2>6. CASE SaveToken(p)
    <3>1. Token(p) \in Entries /\ cred[p] \in Credentials
      BY <2>6 DEF SaveToken, Token, Entries, WorkInv, LoginSteps
    <3>2. PICK next \in {"asDefault", "loggedIn"} :
            Put(p, Token(p), cred[p], next) \/ (Goto(p, next) /\ UNCHANGED <<kept, doc>>)
      BY <2>6 DEF SaveToken
    <3>3. next \in PC
      BY DEF PC, LoginSteps
    <3>4. CASE Put(p, Token(p), cred[p], next)
      BY <2>6, <3>1, <3>3, <3>4, PutType DEF SaveToken, TypeOK
    <3>5. CASE Goto(p, next) /\ UNCHANGED <<kept, doc>>
      BY <2>6, <3>3, <3>5 DEF SaveToken, Goto, TypeOK
    <3> QED BY <3>2, <3>4, <3>5
  <2>7. CASE LoadForDefault(p)
    <3>1. CASE Exit(p)
      BY <2>7, <3>1, ExitType DEF LoadForDefault, TypeOK
    <3>2. CASE ~Exit(p)
      BY <2>7, <3>2 DEF LoadForDefault, Goto, TypeOK, PC, LoginSteps
    <3> QED BY <3>1, <3>2
  <2>8. CASE SaveDefault(p)
    <3>1. config' \in ConfigType
      BY <2>8 DEF SaveDefault, ConfigType, TypeOK
    <3> QED BY <2>8, <3>1 DEF SaveDefault, Goto, TypeOK, PC, LoginSteps
  <2>9. CASE LoggedIn(p)
    <3>1. cred[p] \in Credentials
      BY <2>9 DEF LoggedIn, WorkInv, LoginSteps
    <3>2. promised' \in [Names -> Credentials \cup Processes \cup {Nothing, "removed"}]
      BY <2>9, <3>1 DEF LoggedIn, Promise, TypeOK
    <3> QED BY <2>9, <3>2, ExitType DEF LoggedIn, TypeOK
  <2> QED BY <1>2, <2>1, <2>2, <2>3, <2>4, <2>5, <2>6, <2>7, <2>8, <2>9 DEF Login
<1>3. ASSUME NEW p \in Processes, Logout(p) PROVE TypeOK'
  <2>1. ASSUME NEW n \in Names, StartLogout(p, n) PROVE TypeOK'
    BY <2>1 DEF StartLogout, Claim, Goto, TypeOK, PC, LogoutSteps
  <2>2. CASE LoadForLogout(p)
    <3>1. CASE Exit(p)
      BY <2>2, <3>1, ExitType DEF LoadForLogout, TypeOK
    <3>2. CASE ~Exit(p)
      <4>1. name[p] \in Names /\ config.profiles[name[p]] \in ProfileType
        BY <2>2, <3>2 DEF LoadForLogout, WorkInv, TypeOK, ConfigType
      <4> QED BY <2>2, <3>2, <4>1 DEF LoadForLogout, Goto, TypeOK, PC, LogoutSteps, ProfileType
    <3> QED BY <3>1, <3>2
  <2>3. CASE DeleteSecret(p)
    <3>1. Secret(p) \in Entries /\ "deleteToken" \in PC
      BY <2>3 DEF DeleteSecret, Secret, Entries, WorkInv, LogoutSteps, PC
    <3> QED BY <2>3, <3>1, PutType DEF DeleteSecret, TypeOK
  <2>4. CASE DeleteToken(p)
    <3>1. Token(p) \in Entries /\ "dropProfile" \in PC
      BY <2>4 DEF DeleteToken, Token, Entries, WorkInv, LogoutSteps, PC
    <3> QED BY <2>4, <3>1, PutType DEF DeleteToken, TypeOK
  <2>5. CASE DropProfile(p)
    <3>1. \A profiles : FirstName(profiles) \in Names \cup {Nothing}
      BY DEF FirstName
    <3>2. config' \in ConfigType
      BY <2>5, <3>1 DEF DropProfile, ConfigType, TypeOK
    <3> QED BY <2>5, <3>2 DEF DropProfile, Goto, TypeOK, PC, LogoutSteps
  <2>6. CASE LoggedOut(p)
    <3>1. promised' \in [Names -> Credentials \cup Processes \cup {Nothing, "removed"}]
      BY <2>6 DEF LoggedOut, Promise, TypeOK
    <3> QED BY <2>6, <3>1, ExitType DEF LoggedOut, TypeOK
  <2> QED BY <1>3, <2>1, <2>2, <2>3, <2>4, <2>5, <2>6 DEF Logout
<1>4. ASSUME NEW p \in Processes, Run(p) PROVE TypeOK'
  <2>1. ASSUME NEW n \in Names, StartRun(p, n) PROVE TypeOK'
    BY <2>1 DEF StartRun, Goto, TypeOK, PC, RunSteps
  <2>2. CASE Resolve(p)
    <3>1. CASE Exit(p)
      BY <2>2, <3>1, ExitType DEF Resolve, TypeOK
    <3>2. CASE ~Exit(p)
      <4>1. name[p] \in Names /\ config.profiles[name[p]] \in ProfileType
        BY <2>2, <3>2 DEF Resolve, WorkInv, TypeOK, ConfigType
      <4> QED BY <2>2, <3>2, <4>1 DEF Resolve, Goto, TypeOK, PC, RunSteps, ProfileType
    <3> QED BY <3>1, <3>2
  <2>3. CASE ReadSecret(p)
    <3>1. CASE Exit(p)
      BY <2>3, <3>1, ExitType DEF ReadSecret, TypeOK
    <3>2. CASE ~Exit(p)
      <4>1. kept[store[p]][Secret(p)] \in Credentials \cup {Nothing}
        BY <2>3 DEF ReadSecret, WorkInv, TypeOK, StoreType, Secret, Entries
      <4> QED BY <2>3, <3>2, <4>1 DEF ReadSecret, Goto, TypeOK, PC, RunSteps
    <3> QED BY <3>1, <3>2
  <2>4. CASE LoadToken(p)
    BY <2>4 DEF LoadToken, Goto, TypeOK, PC, RunSteps
  <2>5. CASE DropToken(p)
    <3>1. Token(p) \in Entries /\ "mint" \in PC
      BY <2>5 DEF DropToken, Token, Entries, WorkInv, PC, RunSteps
    <3> QED BY <2>5, <3>1, PutType DEF DropToken, TypeOK
  <2>6. CASE Mint(p)
    <3>1. CASE Exit(p)
      BY <2>6, <3>1, ExitType DEF Mint, TypeOK
    <3>2. CASE ~Exit(p)
      BY <2>6, <3>2 DEF Mint, Goto, TypeOK, PC, RunSteps
    <3> QED BY <3>1, <3>2
  <2>7. CASE StoreToken(p)
    <3>1. Token(p) \in Entries /\ cred[p] \in Credentials /\ "served" \in PC
      BY <2>7 DEF StoreToken, Token, Entries, WorkInv, RunSteps, PC
    <3> QED BY <2>7, <3>1, PutType DEF StoreToken, TypeOK
  <2>8. CASE Served(p)
    BY <2>8, ExitType DEF Served, TypeOK
  <2> QED BY <1>4, <2>1, <2>2, <2>3, <2>4, <2>5, <2>6, <2>7, <2>8 DEF Run
<1>5. ASSUME NEW p \in Processes, Stop(p) PROVE TypeOK'
  BY <1>5, ExitType DEF Stop, TypeOK
<1> QED BY <1>1, <1>2, <1>3, <1>4, <1>5 DEF Next

(* A process that works keeps its profile, and its credential once it has  *)
(* one. *)
LEMMA WorkStep == TypeOK /\ WorkInv /\ [Next]_vars => WorkInv'
<1> SUFFICES ASSUME TypeOK, WorkInv, [Next]_vars PROVE WorkInv'
  OBVIOUS
<1> USE DEF WorkInv, locals, Goto, LoginSteps, LogoutSteps, RunSteps
<1>0. pc \in [Processes -> PC] /\ name \in [Processes -> Names \cup {Nothing}]
      /\ cred \in [Processes -> Credentials \cup {Nothing}]
  BY DEF TypeOK
<1>1. CASE UNCHANGED vars
  BY <1>1 DEF vars
<1>2. ASSUME NEW p \in Processes, Exit(p) PROVE WorkInv'
  BY <1>0, <1>2 DEF Exit
<1>3. ASSUME NEW p \in Processes, Login(p) PROVE WorkInv'
  <2>1. ASSUME NEW n \in Names, NEW c \in Credentials, StartLogin(p, n, c) PROVE WorkInv'
    BY <1>0, <2>1 DEF StartLogin
  <2>2. CASE LoadForLogin(p)
    BY <1>0, <1>2, <2>2 DEF LoadForLogin
  <2>3. CASE SetSecret(p)
    BY <1>0, <1>2, <2>3 DEF SetSecret, Put
  <2>4. CASE ClearToken(p)
    BY <1>0, <1>2, <2>4 DEF ClearToken, Put
  <2>5. CASE SaveConfig(p)
    BY <1>0, <1>2, <2>5 DEF SaveConfig
  <2>6. CASE SaveToken(p)
    BY <1>0, <1>2, <2>6 DEF SaveToken, Put
  <2>7. CASE LoadForDefault(p)
    BY <1>0, <1>2, <2>7 DEF LoadForDefault
  <2>8. CASE SaveDefault(p)
    BY <1>0, <1>2, <2>8 DEF SaveDefault
  <2>9. CASE LoggedIn(p)
    BY <1>0, <1>2, <2>9 DEF LoggedIn
  <2> QED BY <1>3, <2>1, <2>2, <2>3, <2>4, <2>5, <2>6, <2>7, <2>8, <2>9 DEF Login
<1>4. ASSUME NEW p \in Processes, Logout(p) PROVE WorkInv'
  <2>1. ASSUME NEW n \in Names, StartLogout(p, n) PROVE WorkInv'
    BY <1>0, <2>1 DEF StartLogout
  <2>2. CASE LoadForLogout(p)
    BY <1>0, <1>2, <2>2 DEF LoadForLogout, TypeOK, ConfigType, ProfileType
  <2>3. CASE DeleteSecret(p)
    BY <1>0, <1>2, <2>3 DEF DeleteSecret, Put
  <2>4. CASE DeleteToken(p)
    BY <1>0, <1>2, <2>4 DEF DeleteToken, Put
  <2>5. CASE DropProfile(p)
    BY <1>0, <1>2, <2>5 DEF DropProfile
  <2>6. CASE LoggedOut(p)
    BY <1>0, <1>2, <2>6 DEF LoggedOut
  <2> QED BY <1>4, <2>1, <2>2, <2>3, <2>4, <2>5, <2>6 DEF Logout
<1>5. ASSUME NEW p \in Processes, Run(p) PROVE WorkInv'
  <2>1. ASSUME NEW n \in Names, StartRun(p, n) PROVE WorkInv'
    BY <1>0, <2>1 DEF StartRun
  <2>2. CASE Resolve(p)
    BY <1>0, <1>2, <2>2 DEF Resolve, TypeOK, ConfigType, ProfileType
  <2>3. CASE ReadSecret(p)
    BY <1>0, <1>2, <2>3 DEF ReadSecret
  <2>4. CASE LoadToken(p)
    BY <1>0, <1>2, <2>4 DEF LoadToken
  <2>5. CASE DropToken(p)
    BY <1>0, <1>2, <2>5 DEF DropToken, Put
  <2>6. CASE Mint(p)
    BY <1>0, <1>2, <2>6 DEF Mint
  <2>7. CASE StoreToken(p)
    BY <1>0, <1>2, <2>7 DEF StoreToken, Put
  <2>8. CASE Served(p)
    BY <1>0, <1>2, <2>8 DEF Served
  <2> QED BY <1>5, <2>1, <2>2, <2>3, <2>4, <2>5, <2>6, <2>7, <2>8 DEF Run
<1>6. ASSUME NEW p \in Processes, Stop(p) PROVE WorkInv'
  BY <1>2, <1>6 DEF Stop
<1> QED BY <1>1, <1>3, <1>4, <1>5, <1>6 DEF Next

(* Every variable of Profiles has its type (internal/auth, all files).     *)
THEOREM TypeCorrect == Spec => [](TypeOK /\ WorkInv)
<1>1. NoProfiles \in ConfigType /\ [e \in Entries |-> Nothing] \in StoreType
  BY DEF NoProfiles, ConfigType, StoreType
<1>2. Init => TypeOK /\ WorkInv
  BY <1>1 DEF Init, TypeOK, WorkInv, PC, Stores, LoginSteps, RunSteps
<1> QED BY <1>2, TypeStep, WorkStep, PTL DEF Spec

(* A copy of config.json with a default and a profile of that name added   *)
(* or taken away keeps a default that exists. *)
LEMMA FirstNameExists ==
  ASSUME NEW c \in ConfigType, \E n \in Names : c.profiles[n] # Nothing
  PROVE  /\ FirstName(c.profiles) \in Names
         /\ c.profiles[FirstName(c.profiles)] # Nothing
<1> DEFINE left == {n \in Names : c.profiles[n] # Nothing}
<1>1. PICK some \in left : TRUE
  OBVIOUS
<1>2. (CHOOSE n \in left : TRUE) \in left
  BY <1>1
<1>3. FirstName(c.profiles) = CHOOSE n \in left : TRUE
  BY <1>1 DEF FirstName
<1> QED BY <1>2, <1>3

(* Every copy of config.json a command holds is one it may write back. *)
LEMMA DefaultStep == TypeOK /\ WorkInv /\ DefaultInv /\ [Next]_vars => DefaultInv'
<1> SUFFICES ASSUME TypeOK, WorkInv, DefaultInv, [Next]_vars PROVE DefaultInv'
  OBVIOUS
<1> USE ProfilesAssumption DEF DefaultInv, locals, files, Goto
<1>0. /\ pc \in [Processes -> PC] /\ cfg \in [Processes -> ConfigType] /\ config \in ConfigType
      /\ name \in [Processes -> Names \cup {Nothing}]
  BY DEF TypeOK
<1>1. CASE UNCHANGED vars
  BY <1>1 DEF vars
<1>2. ASSUME NEW p \in Processes, Exit(p), config' = config PROVE DefaultInv'
  <2>1. Selectable(NoProfiles)
    BY DEF Selectable, NoProfiles
  <2> QED BY <1>0, <1>2, <2>1 DEF Exit
<1>3. ASSUME NEW p \in Processes, Login(p) PROVE DefaultInv'
  <2>1. ASSUME NEW n \in Names, NEW c \in Credentials, StartLogin(p, n, c) PROVE DefaultInv'
    BY <1>0, <2>1 DEF StartLogin
  <2>2. CASE LoadForLogin(p)
    BY <1>0, <1>2, <2>2 DEF LoadForLogin
  <2>3. CASE SetSecret(p)
    BY <1>0, <1>2, <2>3 DEF SetSecret, Put
  <2>4. CASE ClearToken(p)
    BY <1>0, <1>2, <2>4 DEF ClearToken, Put
  <2>5. CASE SaveConfig(p)
    <3>1. name[p] \in Names
      BY <2>5 DEF SaveConfig, WorkInv, LoginSteps
    <3>2. cfg[p].profiles \in [Names -> ProfileType \cup {Nothing}] /\ Selectable(cfg[p])
          /\ cfg[p].default \in Names \cup {Nothing}
      BY <1>0 DEF ConfigType
    <3> DEFINE new == [cred |-> cred[p], store |-> store[p]]
    <3>3. config'.profiles = [cfg[p].profiles EXCEPT ![name[p]] = new]
          /\ config'.default = IF cfg[p].default = Nothing THEN name[p] ELSE cfg[p].default
      BY <2>5 DEF SaveConfig
    <3>4. new # Nothing
      <4>1. new \in ProfileType
        BY <2>5 DEF SaveConfig, WorkInv, LoginSteps, TypeOK, ProfileType
      <4> QED BY <4>1, ProfilesAssumption
    <3>5. Selectable(config')
      BY <3>1, <3>2, <3>3, <3>4 DEF Selectable
    <3> QED BY <1>0, <2>5, <3>5 DEF SaveConfig
  <2>6. CASE SaveToken(p)
    BY <1>0, <1>2, <2>6 DEF SaveToken, Put
  <2>7. CASE LoadForDefault(p)
    BY <1>0, <1>2, <2>7 DEF LoadForDefault
  <2>8. CASE SaveDefault(p)
    <3>1. cfg[p].profiles[name[p]] # Nothing /\ name[p] \in Names
      BY <2>8 DEF SaveDefault, WorkInv, LoginSteps
    <3>2. config'.profiles = cfg[p].profiles /\ config'.default = name[p]
      BY <1>0, <2>8 DEF SaveDefault, ConfigType
    <3>3. Selectable(config')
      BY <3>1, <3>2, ProfilesAssumption DEF Selectable
    <3> QED BY <1>0, <2>8, <3>3 DEF SaveDefault
  <2>9. CASE LoggedIn(p)
    BY <1>0, <1>2, <2>9 DEF LoggedIn
  <2> QED BY <1>3, <2>1, <2>2, <2>3, <2>4, <2>5, <2>6, <2>7, <2>8, <2>9 DEF Login
<1>4. ASSUME NEW p \in Processes, Logout(p) PROVE DefaultInv'
  <2>1. ASSUME NEW n \in Names, StartLogout(p, n) PROVE DefaultInv'
    BY <1>0, <2>1 DEF StartLogout
  <2>2. CASE LoadForLogout(p)
    BY <1>0, <1>2, <2>2 DEF LoadForLogout
  <2>3. CASE DeleteSecret(p)
    BY <1>0, <1>2, <2>3 DEF DeleteSecret, Put
  <2>4. CASE DeleteToken(p)
    BY <1>0, <1>2, <2>4 DEF DeleteToken, Put
  <2>5. CASE DropProfile(p)
    <3> DEFINE left == [cfg[p].profiles EXCEPT ![name[p]] = Nothing]
                c == [profiles |-> left, default |-> Nothing]
    <3>1. c \in ConfigType /\ c.profiles = left
      BY <1>0 DEF ConfigType
    <3>2. FirstName(left) = Nothing <=> \A n \in Names : left[n] = Nothing
      <4>1. CASE \A n \in Names : left[n] = Nothing
        BY <4>1 DEF FirstName
      <4>2. CASE \E n \in Names : left[n] # Nothing
        BY <3>1, <4>2, FirstNameExists
      <4> QED BY <4>1, <4>2
    <3>3. FirstName(left) # Nothing => FirstName(left) \in Names /\ left[FirstName(left)] # Nothing
      BY <3>1, <3>2, FirstNameExists
    <3>4. config'.profiles = left
          /\ config'.default = IF cfg[p].default = name[p] THEN FirstName(left) ELSE cfg[p].default
      BY <2>5 DEF DropProfile
    <3>5. cfg[p].default \in Names \cup {Nothing} /\ cfg[p].profiles \in [Names -> ProfileType \cup {Nothing}]
      BY <1>0 DEF ConfigType
    <3>6. name[p] \in Names /\ Selectable(cfg[p])
      BY <2>5 DEF DropProfile, WorkInv, LogoutSteps
    <3>7. Selectable(config')
      <4>1. CASE cfg[p].default = name[p]
        BY <3>2, <3>3, <3>4, <4>1 DEF Selectable
      <4>2. CASE cfg[p].default # name[p]
        BY <3>4, <3>5, <3>6, <4>2 DEF Selectable
      <4> QED BY <4>1, <4>2
    <3> QED BY <1>0, <2>5, <3>7 DEF DropProfile
  <2>6. CASE LoggedOut(p)
    BY <1>0, <1>2, <2>6 DEF LoggedOut
  <2> QED BY <1>4, <2>1, <2>2, <2>3, <2>4, <2>5, <2>6 DEF Logout
<1>5. ASSUME NEW p \in Processes, Run(p) PROVE DefaultInv'
  <2>1. ASSUME NEW n \in Names, StartRun(p, n) PROVE DefaultInv'
    BY <1>0, <2>1 DEF StartRun
  <2>2. CASE Resolve(p)
    BY <1>0, <1>2, <2>2 DEF Resolve
  <2>3. CASE ReadSecret(p)
    BY <1>0, <1>2, <2>3 DEF ReadSecret
  <2>4. CASE LoadToken(p)
    BY <1>0, <1>2, <2>4 DEF LoadToken
  <2>5. CASE DropToken(p)
    BY <1>0, <1>2, <2>5 DEF DropToken, Put
  <2>6. CASE Mint(p)
    BY <1>0, <1>2, <2>6 DEF Mint
  <2>7. CASE StoreToken(p)
    BY <1>0, <1>2, <2>7 DEF StoreToken, Put
  <2>8. CASE Served(p)
    BY <1>0, <1>2, <2>8 DEF Served
  <2> QED BY <1>5, <2>1, <2>2, <2>3, <2>4, <2>5, <2>6, <2>7, <2>8 DEF Run
<1>6. ASSUME NEW p \in Processes, Stop(p) PROVE DefaultInv'
  BY <1>2, <1>6 DEF Stop
<1> QED BY <1>1, <1>3, <1>4, <1>5, <1>6 DEF Next

(* However many commands overlap, and wherever each stops, the default     *)
(* profile exists (resolve.go Save, Delete, SetDefault).                   *)
THEOREM DefaultSurvives == Spec => []DefaultExists
<1>1. Init => DefaultInv
  BY DEF Init, DefaultInv, Selectable, NoProfiles
<1>2. DefaultInv => DefaultExists
  BY DEF DefaultInv, DefaultExists
<1> QED BY <1>1, <1>2, DefaultStep, TypeCorrect, PTL DEF Spec

-----------------------------------------------------------------------------
(* Commands one after another: what the one at work copies and claims is   *)
(* what the files hold, so the steps behind it stand (ApartInv).           *)

(* A step of the commands is a step of Profiles, and leaves shared alone. *)
LEMMA CommandsAreSteps ==
  [CommandsNext]_<<shared, vars>> => [Next]_vars /\ shared' = shared
<1> SUFFICES ASSUME [CommandsNext]_<<shared, vars>> PROVE [Next]_vars /\ shared' = shared
  OBVIOUS
<1>1. CASE CommandsNext
  BY <1>1 DEF CommandsNext, Next
<1>2. CASE UNCHANGED <<shared, vars>>
  BY <1>2
<1> QED
  BY <1>1, <1>2

(* Set and Delete load the file, or change one entry of the store, the     *)
(* others staying as long as the copy of the file was what it held.        *)
LEMMA PutDone ==
  ASSUME TypeOK, NEW p \in Processes, NEW e \in Entries,
         NEW v \in Credentials \cup {Nothing}, NEW next, Put(p, e, v, next),
         doc[p] # Nothing => doc[p] = kept["file"]
  PROVE  /\ \A q \in Processes \ {p} : doc'[q] = doc[q] /\ pc'[q] = pc[q]
         /\ doc'[p] # Nothing => doc'[p] = kept'["file"]
         /\ \/ kept' = kept /\ pc' = pc
            \/ /\ pc' = [pc EXCEPT ![p] = next]
               /\ \A s \in Stores, f \in Entries :
                    kept'[s][f] = IF s = store[p] /\ f = e THEN v ELSE kept[s][f]
<1> USE ProfilesAssumption
<1>0. /\ kept \in [Stores -> StoreType] /\ pc \in [Processes -> PC]
      /\ store \in [Processes -> Stores] /\ doc \in [Processes -> StoreType \cup {Nothing}]
      /\ \A s \in Stores : kept[s] \in [Entries -> Credentials \cup {Nothing}]
  BY DEF TypeOK, StoreType
<1>1. CASE store[p] = "keyring"
  <2>1. kept' = [kept EXCEPT !["keyring"][e] = v] /\ pc' = [pc EXCEPT ![p] = next] /\ doc' = doc
    BY <1>1 DEF Put, Goto
  <2>2. \A s \in Stores, f \in Entries :
          kept'[s][f] = IF s = store[p] /\ f = e THEN v ELSE kept[s][f]
    BY <1>0, <1>1, <2>1 DEF Stores
  <2>3. kept'["file"] = kept["file"]
    BY <1>0, <2>1 DEF Stores
  <2> QED
    BY <1>0, <2>1, <2>2, <2>3
<1>2. CASE store[p] = "file" /\ doc[p] = Nothing
  BY <1>0, <1>2 DEF Put
<1>3. CASE store[p] = "file" /\ doc[p] # Nothing
  <2>1. /\ kept' = [kept EXCEPT !["file"] = [doc[p] EXCEPT ![e] = v]]
        /\ doc' = [doc EXCEPT ![p] = Nothing]
        /\ pc' = [pc EXCEPT ![p] = next]
    BY <1>3 DEF Put, Goto
  <2>2. \A s \in Stores, f \in Entries :
          kept'[s][f] = IF s = store[p] /\ f = e THEN v ELSE kept[s][f]
    BY <1>0, <1>3, <2>1 DEF Stores
  <2> QED
    BY <1>0, <2>1, <2>2
<1> QED
  BY <1>0, <1>1, <1>2, <1>3 DEF Stores

(* With the others idle only what concerns the process that steps is at    *)
(* stake.                                                                  *)
LEMMA ApartReduces ==
  ASSUME shared = Nothing, shared' = shared, ApartInv, NEW p \in Processes, Apart(p),
         \A q \in Processes \ {p} : pc'[q] = pc[q] /\ doc'[q] = doc[q],
         Alone(p)', Behind(p)', TokenServesProfile', LoginKept'
  PROVE  ApartInv'
<1>1. ASSUME NEW q \in Processes \ {p}
      PROVE  Alone(q)' /\ Behind(q)'
  <2>1. pc[q] = "idle" /\ doc[q] = Nothing
    BY DEF Apart, ApartInv, Alone
  <2>2. pc'[q] = "idle" /\ doc'[q] = Nothing
    BY <2>1
  <2> QED
    BY <2>2 DEF Alone, Behind, Copied, Recorded, Resolved, Written, LoginSteps, LogoutSteps
<1> QED
  BY <1>1 DEF ApartInv

(* Between two steps of p nobody else begins one. *)
LEMMA StillApart ==
  ASSUME NEW p \in Processes, Apart(p), \A q \in Processes \ {p} : pc'[q] = pc[q]
  PROVE  Apart(p)'
  BY DEF Apart

(* What no file and no word changes stays so. *)
LEMMA NothingWrittenApart ==
  ASSUME UNCHANGED files, LoginKept, TokenServesProfile,
         \A n \in Names : promised'[n] \in Credentials => promised'[n] = promised[n]
  PROVE  TokenServesProfile' /\ LoginKept'
  BY DEF files, TokenServesProfile, LoginKept

(* A process that ends leaves nothing behind it. *)
LEMMA ExitApart ==
  ASSUME TypeOK, NEW p \in Processes, Exit(p)
  PROVE  /\ Alone(p)' /\ Behind(p)'
         /\ \A q \in Processes \ {p} : pc'[q] = pc[q] /\ doc'[q] = doc[q]
<1>1. pc'[p] = "idle" /\ doc'[p] = Nothing
  BY DEF Exit, Goto, TypeOK
<1>2. \A q \in Processes \ {p} : pc'[q] = pc[q] /\ doc'[q] = doc[q]
  BY DEF Exit, Goto, TypeOK
<1> QED
  BY <1>1, <1>2 DEF Alone, Behind, Copied, Recorded, Resolved, Written, LoginSteps, LogoutSteps

(* The keys of a store's entries. *)
LEMMA EntriesApart ==
  ASSUME NEW p \in Processes, name[p] \in Names
  PROVE  /\ Secret(p) \in Entries /\ Token(p) \in Entries /\ Secret(p) # Token(p)
         /\ \A n \in Names : /\ <<n, "secret">> \in Entries /\ <<n, "token">> \in Entries
                             /\ <<n, "secret">> # <<n, "token">>
                             /\ <<n, "secret">> # Token(p) /\ <<n, "token">> # Secret(p)
                             /\ n # name[p] => <<n, "secret">> # Secret(p) /\ <<n, "token">> # Token(p)
  BY DEF Secret, Token, Entries

(* A Set or Delete of a process that works alone. *)
LEMMA PutApart ==
  ASSUME TypeOK, shared = Nothing, shared' = shared, ApartInv, NEW p \in Processes, Apart(p),
         pc[p] # "idle", NEW e \in Entries,
         NEW v \in Credentials \cup {Nothing}, NEW next \in PC \ {"idle"}, Put(p, e, v, next),
         UNCHANGED <<config, promised, name, cred, secret, store, cfg>>,
         next \in Copied => pc[p] \in Copied,
         next \in LoginSteps \cup LogoutSteps => pc[p] \in LoginSteps \cup LogoutSteps,
         kept' # kept \/ pc' # pc => Behind(p)' /\ TokenServesProfile' /\ LoginKept'
  PROVE  ApartInv'
<1>1. /\ Alone(p) /\ Behind(p) /\ TokenServesProfile /\ LoginKept
  BY DEF ApartInv
<1>2. /\ \A q \in Processes \ {p} : doc'[q] = doc[q] /\ pc'[q] = pc[q]
      /\ doc'[p] # Nothing => doc'[p] = kept'["file"]
      /\ \/ kept' = kept /\ pc' = pc
         \/ pc' = [pc EXCEPT ![p] = next]
  BY <1>1, PutDone DEF Alone
<1>3. Apart(p)'
  BY <1>2, StillApart
<1>4. CASE kept' = kept /\ pc' = pc
  <2>1. Behind(p)'
    BY <1>1, <1>4 DEF Behind, Secret, Token
  <2>2. Alone(p)'
    BY <1>1, <1>2, <1>3, <1>4 DEF Alone
  <2>3. TokenServesProfile' /\ LoginKept'
    BY <1>1, <1>4, NothingWrittenApart DEF files
  <2> QED
    BY <1>2, <2>1, <2>2, <2>3, ApartReduces
<1>5. CASE ~(kept' = kept /\ pc' = pc)
  <2>1. pc'[p] = next
    BY <1>2, <1>5 DEF TypeOK
  <2>2. Alone(p)'
    BY <1>1, <1>2, <1>3, <2>1 DEF Alone
  <2> QED
    BY <1>2, <1>5, <2>2, ApartReduces
<1> QED
  BY <1>4, <1>5
(* A profile on record has one of the stores and a credential. *)
LEMMA OnRecord ==
  ASSUME TypeOK, NEW n \in Names, config.profiles[n] # Nothing
  PROVE  config.profiles[n].store \in Stores /\ config.profiles[n].cred \in Credentials
  BY DEF TypeOK, ConfigType, ProfileType

(* The secret of a name whose user waits is nobody's word yet. *)
LEMMA SecretPut ==
  ASSUME TypeOK, NEW p \in Processes, name[p] \in Names, promised[name[p]] = p,
         TokenServesProfile, LoginKept, UNCHANGED <<config, promised>>,
         NEW v \in Credentials \cup {Nothing},
         \A s \in Stores, f \in Entries :
           kept'[s][f] = IF s = store[p] /\ f = Secret(p) THEN v ELSE kept[s][f]
  PROVE  TokenServesProfile' /\ LoginKept'
<1>1. TokenServesProfile'
  BY OnRecord, EntriesApart DEF TokenServesProfile
<1>2. \A n \in Names : promised[n] \in Credentials => n # name[p]
  BY ProfilesAssumption
<1>3. LoginKept'
  BY <1>2, OnRecord, EntriesApart DEF LoginKept
<1> QED
  BY <1>1, <1>3

(* And so it is with a secret that goes. *)
LEMMA SecretCleared ==
  ASSUME TypeOK, NEW p \in Processes, name[p] \in Names, promised[name[p]] = p,
         TokenServesProfile, LoginKept, UNCHANGED <<config, promised>>,
         \A s \in Stores, f \in Entries :
           kept'[s][f] = IF s = store[p] /\ f = Secret(p) THEN Nothing ELSE kept[s][f]
  PROVE  TokenServesProfile' /\ LoginKept'
<1> DEFINE none == Nothing
<1>1. none = Nothing /\ none \in Credentials \cup {Nothing}
  OBVIOUS
<1>2. \A s \in Stores, f \in Entries :
        kept'[s][f] = IF s = store[p] /\ f = Secret(p) THEN none ELSE kept[s][f]
  OBVIOUS
<1> HIDE DEF none
<1> QED
  BY <1>1, <1>2, SecretPut

(* A token that is the profile's, or none, serves it. *)
LEMMA TokenPut ==
  ASSUME TypeOK, NEW p \in Processes, name[p] \in Names,
         TokenServesProfile, LoginKept, UNCHANGED <<config, promised>>,
         NEW v \in Credentials \cup {Nothing},
         \A s \in Stores, f \in Entries :
           kept'[s][f] = IF s = store[p] /\ f = Token(p) THEN v ELSE kept[s][f],
         \/ v = Nothing
         \/ config.profiles[name[p]] = [cred |-> v, store |-> store[p]]
  PROVE  TokenServesProfile' /\ LoginKept'
<1>1. TokenServesProfile'
  <2> SUFFICES ASSUME NEW n \in Names, config.profiles[n] # Nothing
               PROVE  kept'[config.profiles[n].store][<<n, "token">>]
                        \in {Nothing, config.profiles[n].cred}
    BY DEF TokenServesProfile
  <2>1. config.profiles[n].store \in Stores /\ <<n, "token">> \in Entries
    BY OnRecord, EntriesApart
  <2>2. CASE n = name[p]
    BY <2>1, <2>2 DEF TokenServesProfile, Token
  <2>3. CASE n # name[p]
    BY <2>1, <2>3, EntriesApart DEF TokenServesProfile
  <2> QED
    BY <2>2, <2>3
<1>2. LoginKept'
  BY OnRecord, EntriesApart DEF LoginKept
<1> QED
  BY <1>1, <1>2

(* And so does a token that is gone. *)
LEMMA TokenCleared ==
  ASSUME TypeOK, NEW p \in Processes, name[p] \in Names,
         TokenServesProfile, LoginKept, UNCHANGED <<config, promised>>,
         \A s \in Stores, f \in Entries :
           kept'[s][f] = IF s = store[p] /\ f = Token(p) THEN Nothing ELSE kept[s][f]
  PROVE  TokenServesProfile' /\ LoginKept'
<1> DEFINE none == Nothing
<1>1. none = Nothing /\ none \in Credentials \cup {Nothing}
  OBVIOUS
<1>2. \A s \in Stores, f \in Entries :
        kept'[s][f] = IF s = store[p] /\ f = Token(p) THEN none ELSE kept[s][f]
  OBVIOUS
<1> HIDE DEF none
<1> QED
  BY <1>1, <1>2, TokenPut

(* Every step of a login that no other command overlaps keeps ApartInv. *)
LEMMA LoginApart ==
  ASSUME TypeOK, WorkInv, shared = Nothing, shared' = shared, ApartInv,
         NEW p \in Processes, Apart(p), Login(p)
  PROVE  ApartInv'
<1> USE ProfilesAssumption DEF LoginSteps, LogoutSteps, RunSteps
<1>a. /\ Alone(p) /\ Behind(p) /\ TokenServesProfile /\ LoginKept
      /\ pc[p] # "idle" => name[p] \in Names
      /\ pc[p] \in LoginSteps => cred[p] \in Credentials /\ promised[name[p]] = p
  BY DEF ApartInv, WorkInv, Alone
<1>b. /\ pc \in [Processes -> PC] /\ name \in [Processes -> Names \cup {Nothing}]
      /\ cred \in [Processes -> Credentials \cup {Nothing}] /\ store \in [Processes -> Stores]
      /\ cfg \in [Processes -> ConfigType] /\ doc \in [Processes -> StoreType \cup {Nothing}]
      /\ promised \in [Names -> Credentials \cup Processes \cup {Nothing, "removed"}]
  BY DEF TypeOK
<1>c. ASSUME UNCHANGED files, UNCHANGED promised, Alone(p)', Behind(p)',
             \A q \in Processes \ {p} : pc'[q] = pc[q] /\ doc'[q] = doc[q]
      PROVE  ApartInv'
  <2>1. TokenServesProfile' /\ LoginKept'
    BY <1>a, <1>c, NothingWrittenApart
  <2> QED
    BY <1>c, <2>1, ApartReduces
<1>d. ASSUME Exit(p), UNCHANGED <<files, promised>>
      PROVE  ApartInv'
  BY <1>c, <1>d, ExitApart
<1>1. ASSUME NEW n \in Names, NEW c \in Credentials, StartLogin(p, n, c)
      PROVE  ApartInv'
  <2>1. \A q \in Processes : pc[q] = "idle"
    BY <1>1 DEF StartLogin, Apart
  <2>2. promised' = [promised EXCEPT ![n] = p]
    BY <1>1, <2>1 DEF StartLogin, Claim
  <2>3. pc' = [pc EXCEPT ![p] = "login"] /\ name'[p] = n /\ UNCHANGED <<files, doc>>
    BY <1>1, <1>b DEF StartLogin, Goto
  <2>4. TokenServesProfile' /\ LoginKept'
    BY <1>a, <1>b, <2>2, <2>3, NothingWrittenApart
  <2>5. Alone(p)' /\ Behind(p)'
    <3>1. pc'[p] = "login" /\ doc'[p] = Nothing /\ promised'[name'[p]] = p
      BY <1>a, <1>b, <2>1, <2>2, <2>3 DEF Alone
    <3>2. Apart(p)'
      BY <1>b, <2>3, StillApart
    <3> QED
      BY <3>1, <3>2 DEF Alone, Behind, Copied, Recorded, Resolved, Written
  <2> QED
    BY <1>b, <2>3, <2>4, <2>5, ApartReduces
<1>2. CASE LoadForLogin(p)
  <2>1. /\ pc' = [pc EXCEPT ![p] = "setSecret"] /\ cfg' = [cfg EXCEPT ![p] = config]
        /\ UNCHANGED <<files, promised, name, doc>> /\ pc[p] = "login"
    BY <1>2 DEF LoadForLogin, Goto
  <2>2. Apart(p)'
    BY <1>b, <2>1, StillApart
  <2>3. Alone(p)' /\ Behind(p)'
    BY <1>a, <1>b, <2>1, <2>2 DEF Alone, Behind, Copied, Recorded, Resolved, Written, files
  <2> QED
    BY <1>b, <1>c, <2>1, <2>3
<1>3. CASE SetSecret(p)
  <2>1. /\ Put(p, Secret(p), cred[p], "clearToken") /\ pc[p] = "setSecret"
        /\ UNCHANGED <<config, promised, name, cred, secret, store, cfg>>
    BY <1>3 DEF SetSecret
  <2>2. Secret(p) \in Entries /\ cred[p] \in Credentials /\ "clearToken" \in PC \ {"idle"}
    BY <1>a, <2>1, EntriesApart DEF PC
  <2>3. ASSUME ~(kept' = kept /\ pc' = pc)
        PROVE  Behind(p)' /\ TokenServesProfile' /\ LoginKept'
    <3>1. /\ pc'[p] = "clearToken"
          /\ \A s \in Stores, f \in Entries :
               kept'[s][f] = IF s = store[p] /\ f = Secret(p) THEN cred[p] ELSE kept[s][f]
      BY <1>a, <1>b, <2>1, <2>2, <2>3, PutDone DEF Alone
    <3>2. Behind(p)'
      BY <1>b, <2>1, <2>2, <3>1 DEF Behind, Recorded, Resolved, Written, Secret, Token
    <3>3. name[p] \in Names /\ promised[name[p]] = p
      BY <1>a, <2>1
    <3> QED
      BY <1>a, <2>1, <3>1, <3>2, <3>3, SecretPut
  <2> QED
    BY <2>1, <2>2, <2>3, PutApart DEF Copied
<1>4. CASE ClearToken(p)
  <2>1. /\ Put(p, Token(p), Nothing, "saveConfig") /\ pc[p] = "clearToken"
        /\ UNCHANGED <<config, promised, name, cred, secret, store, cfg>>
    BY <1>4 DEF ClearToken
  <2>2. /\ Token(p) \in Entries /\ Secret(p) \in Entries /\ Secret(p) # Token(p)
        /\ "saveConfig" \in PC \ {"idle"} /\ name[p] \in Names
    BY <1>a, <2>1, EntriesApart DEF PC
  <2>3. ASSUME ~(kept' = kept /\ pc' = pc)
        PROVE  Behind(p)' /\ TokenServesProfile' /\ LoginKept'
    <3>1. /\ pc'[p] = "saveConfig"
          /\ \A s \in Stores, f \in Entries :
               kept'[s][f] = IF s = store[p] /\ f = Token(p) THEN Nothing ELSE kept[s][f]
      BY <1>a, <1>b, <2>1, <2>2, <2>3, PutDone DEF Alone
    <3>2. Secret(p)' = Secret(p) /\ Token(p)' = Token(p)
      BY <2>1 DEF Secret, Token
    <3>3. kept'[store[p]][Token(p)] = Nothing /\ kept'[store[p]][Secret(p)] = cred[p]
      BY <1>a, <1>b, <2>1, <2>2, <3>1 DEF Behind, Written
    <3>4. Behind(p)'
      BY <2>1, <3>1, <3>2, <3>3 DEF Behind, Recorded, Resolved, Written
    <3>5. UNCHANGED <<config, promised>> /\ TokenServesProfile /\ LoginKept
      BY <1>a, <2>1
    <3>6. TokenServesProfile' /\ LoginKept'
      BY <2>2, <3>1, <3>5, TokenCleared
    <3> QED
      BY <3>4, <3>6
  <2> QED
    BY <2>1, <2>2, <2>3, PutApart DEF Copied
<1>5. CASE SaveConfig(p)
  <2>1. /\ pc' = [pc EXCEPT ![p] = "saveToken"] /\ pc[p] = "saveConfig"
        /\ UNCHANGED <<kept, promised, name, cred, store, doc>>
        /\ config'.profiles = [cfg[p].profiles EXCEPT ![name[p]] = [cred |-> cred[p], store |-> store[p]]]
    BY <1>5 DEF SaveConfig, Goto, locals
  <2>2. cfg[p] = config /\ name[p] \in Names /\ promised[name[p]] = p
        /\ config.profiles \in [Names -> ProfileType \cup {Nothing}]
    BY <1>a, <2>1 DEF Alone, Copied, TypeOK, ConfigType
  <2>3. \A n \in Names : config'.profiles[n] =
          IF n = name[p] THEN [cred |-> cred[p], store |-> store[p]] ELSE config.profiles[n]
    BY <2>1, <2>2
  <2>4. Apart(p)'
    BY <1>b, <2>1, StillApart
  <2>5. Secret(p)' = Secret(p) /\ Token(p)' = Token(p)
    BY <2>1 DEF Secret, Token
  <2>6. Alone(p)'
    BY <1>a, <1>b, <2>1, <2>2, <2>4 DEF Alone, Copied
  <2>7. Behind(p)'
    BY <1>a, <1>b, <2>1, <2>2, <2>3, <2>5 DEF Behind, Recorded, Resolved, Written
  <2>8. TokenServesProfile'
    <3>1. kept[store[p]][<<name[p], "token">>] = Nothing
      BY <1>a, <2>1 DEF Behind, Token
    <3> QED
      BY <1>a, <2>1, <2>3, <3>1 DEF TokenServesProfile
  <2>9. LoginKept'
    <3>1. \A n \in Names : promised[n] \in Credentials => n # name[p]
      BY <2>2
    <3> QED
      BY <1>a, <2>1, <2>3, <3>1 DEF LoginKept
  <2> QED
    BY <1>b, <2>1, <2>6, <2>7, <2>8, <2>9, ApartReduces
<1>6. CASE SaveToken(p)
  <2>1. PICK next \in {"asDefault", "loggedIn"} :
          \/ Put(p, Token(p), cred[p], next)
          \/ doc[p] = Nothing /\ Goto(p, next) /\ UNCHANGED <<kept, doc>>
    BY <1>6 DEF SaveToken
  <2>2. pc[p] = "saveToken" /\ UNCHANGED <<config, promised, name, cred, secret, store, cfg>>
    BY <1>6 DEF SaveToken
  <2>3. /\ Token(p) \in Entries /\ Secret(p) \in Entries /\ Secret(p) # Token(p)
        /\ next \in PC \ {"idle"} /\ name[p] \in Names /\ cred[p] \in Credentials
    BY <1>a, <2>2, EntriesApart DEF PC
  <2>4. Secret(p)' = Secret(p) /\ Token(p)' = Token(p)
    BY <2>2 DEF Secret, Token
  <2>5. CASE Put(p, Token(p), cred[p], next)
    <3>1. ASSUME ~(kept' = kept /\ pc' = pc)
          PROVE  Behind(p)' /\ TokenServesProfile' /\ LoginKept'
      <4>1. /\ pc'[p] = next
            /\ \A s \in Stores, f \in Entries :
                 kept'[s][f] = IF s = store[p] /\ f = Token(p) THEN cred[p] ELSE kept[s][f]
        BY <1>a, <1>b, <2>3, <2>5, <3>1, PutDone DEF Alone
      <4>2. Behind(p)'
        BY <1>a, <1>b, <2>2, <2>3, <2>4, <4>1 DEF Behind, Recorded, Resolved, Written
      <4>3. config.profiles[name[p]] = [cred |-> cred[p], store |-> store[p]]
        BY <1>a, <2>2 DEF Behind, Recorded
      <4> QED
        BY <1>a, <2>2, <2>3, <4>1, <4>2, <4>3, TokenPut
    <3> QED
      BY <2>2, <2>3, <2>5, <3>1, PutApart DEF Copied
  <2>6. CASE doc[p] = Nothing /\ Goto(p, next) /\ UNCHANGED <<kept, doc>>
    <3>1. pc' = [pc EXCEPT ![p] = next] /\ UNCHANGED files
      BY <2>2, <2>6 DEF Goto, files
    <3>2. Apart(p)'
      BY <1>b, <3>1, StillApart
    <3>3. Alone(p)' /\ Behind(p)'
      BY <1>a, <1>b, <2>2, <2>4, <2>6, <3>1, <3>2
         DEF Alone, Behind, Copied, Recorded, Resolved, Written, files
    <3> QED
      BY <1>b, <1>c, <2>2, <2>6, <3>1, <3>3
  <2> QED
    BY <2>1, <2>5, <2>6
<1>7. CASE LoadForDefault(p)
  <2>1. CASE Exit(p)
    BY <1>7, <1>d, <2>1 DEF LoadForDefault
  <2>2. CASE ~Exit(p)
    <3>1. /\ pc' = [pc EXCEPT ![p] = "saveDefault"] /\ cfg' = [cfg EXCEPT ![p] = config]
          /\ UNCHANGED <<files, promised, name, cred, store, doc>> /\ pc[p] = "asDefault"
      BY <1>7, <2>2 DEF LoadForDefault, Goto
    <3>2. Apart(p)'
      BY <1>b, <3>1, StillApart
    <3>3. Alone(p)' /\ Behind(p)'
      BY <1>a, <1>b, <3>1, <3>2
         DEF Alone, Behind, Copied, Recorded, Resolved, Written, files, Secret, Token
    <3> QED
      BY <1>b, <1>c, <3>1, <3>3
  <2> QED
    BY <2>1, <2>2
<1>8. CASE SaveDefault(p)
  <2>1. /\ pc' = [pc EXCEPT ![p] = "loggedIn"] /\ pc[p] = "saveDefault"
        /\ UNCHANGED <<kept, promised, name, cred, store, doc>>
        /\ config' = [cfg[p] EXCEPT !.default = name[p]]
    BY <1>8 DEF SaveDefault, Goto, locals
  <2>2. config'.profiles = config.profiles
    BY <1>a, <2>1 DEF Alone, Copied, TypeOK, ConfigType
  <2>3. Apart(p)'
    BY <1>b, <2>1, StillApart
  <2>4. Alone(p)' /\ Behind(p)'
    BY <1>a, <1>b, <2>1, <2>2, <2>3
       DEF Alone, Behind, Copied, Recorded, Resolved, Written, Secret, Token
  <2>5. TokenServesProfile' /\ LoginKept'
    BY <1>a, <2>1, <2>2 DEF TokenServesProfile, LoginKept
  <2> QED
    BY <1>b, <2>1, <2>4, <2>5, ApartReduces
<1>9. CASE LoggedIn(p)
  <2>1. /\ Exit(p) /\ UNCHANGED files /\ pc[p] = "loggedIn" /\ name[p] \in Names
        /\ promised' = [promised EXCEPT ![name[p]] = cred[p]]
    BY <1>9, <1>a, <1>b DEF LoggedIn, Promise
  <2>2. config.profiles[name[p]] = [cred |-> cred[p], store |-> store[p]]
        /\ kept[store[p]][<<name[p], "secret">>] = cred[p]
    BY <1>a, <2>1 DEF Behind, Recorded, Written, Secret
  <2>3. config.profiles[name[p]] # Nothing
    <3>1. [cred |-> cred[p], store |-> store[p]] \in ProfileType
      BY <1>a, <1>b, <2>1 DEF ProfileType
    <3> QED
      BY <2>2, <3>1
  <2>4. TokenServesProfile' /\ LoginKept'
    <3>1. TokenServesProfile'
      BY <1>a, <2>1 DEF files, TokenServesProfile
    <3>2. LoginKept'
      BY <1>a, <1>b, <2>1, <2>2, <2>3 DEF files, LoginKept
    <3> QED
      BY <3>1, <3>2
  <2> QED
    BY <2>1, <2>4, ExitApart, ApartReduces
<1> QED
  BY <1>1, <1>2, <1>3, <1>4, <1>5, <1>6, <1>7, <1>8, <1>9 DEF Login
(* Every step of a logout that no other command overlaps keeps it. *)
LEMMA LogoutApart ==
  ASSUME TypeOK, WorkInv, shared = Nothing, shared' = shared, ApartInv,
         NEW p \in Processes, Apart(p), Logout(p)
  PROVE  ApartInv'
<1> USE ProfilesAssumption DEF LoginSteps, LogoutSteps, RunSteps
<1>a. /\ Alone(p) /\ Behind(p) /\ TokenServesProfile /\ LoginKept
      /\ pc[p] # "idle" => name[p] \in Names
      /\ pc[p] \in LogoutSteps => promised[name[p]] = p
  BY DEF ApartInv, WorkInv, Alone
<1>b. /\ pc \in [Processes -> PC] /\ name \in [Processes -> Names \cup {Nothing}]
      /\ cred \in [Processes -> Credentials \cup {Nothing}] /\ store \in [Processes -> Stores]
      /\ cfg \in [Processes -> ConfigType] /\ doc \in [Processes -> StoreType \cup {Nothing}]
      /\ promised \in [Names -> Credentials \cup Processes \cup {Nothing, "removed"}]
  BY DEF TypeOK
<1>c. ASSUME UNCHANGED files, UNCHANGED promised, Alone(p)', Behind(p)',
             \A q \in Processes \ {p} : pc'[q] = pc[q] /\ doc'[q] = doc[q]
      PROVE  ApartInv'
  <2>1. TokenServesProfile' /\ LoginKept'
    BY <1>a, <1>c, NothingWrittenApart
  <2> QED
    BY <1>c, <2>1, ApartReduces
<1>d. ASSUME Exit(p), UNCHANGED <<files, promised>>
      PROVE  ApartInv'
  BY <1>c, <1>d, ExitApart
<1>1. ASSUME NEW n \in Names, StartLogout(p, n)
      PROVE  ApartInv'
  <2>1. \A q \in Processes : pc[q] = "idle"
    BY <1>1 DEF StartLogout, Apart
  <2>2. promised' = [promised EXCEPT ![n] = p]
    BY <1>1, <2>1 DEF StartLogout, Claim
  <2>3. pc' = [pc EXCEPT ![p] = "logout"] /\ name'[p] = n /\ UNCHANGED <<files, doc>>
    BY <1>1, <1>b DEF StartLogout, Goto
  <2>4. TokenServesProfile' /\ LoginKept'
    BY <1>a, <1>b, <2>2, <2>3, NothingWrittenApart
  <2>5. Alone(p)' /\ Behind(p)'
    <3>1. pc'[p] = "logout" /\ doc'[p] = Nothing /\ promised'[name'[p]] = p
      BY <1>a, <1>b, <2>1, <2>2, <2>3 DEF Alone
    <3>2. Apart(p)'
      BY <1>b, <2>3, StillApart
    <3> QED
      BY <3>1, <3>2 DEF Alone, Behind, Copied, Recorded, Resolved, Written
  <2> QED
    BY <1>b, <2>3, <2>4, <2>5, ApartReduces
<1>2. CASE LoadForLogout(p)
  <2>1. CASE Exit(p)
    BY <1>2, <1>d, <2>1 DEF LoadForLogout
  <2>2. CASE ~Exit(p)
    <3>1. /\ pc' = [pc EXCEPT ![p] = "deleteSecret"] /\ cfg' = [cfg EXCEPT ![p] = config]
          /\ UNCHANGED <<files, promised, name, doc>> /\ pc[p] = "logout"
      BY <1>2, <2>2 DEF LoadForLogout, Goto
    <3>2. Apart(p)'
      BY <1>b, <3>1, StillApart
    <3>3. Alone(p)' /\ Behind(p)'
      BY <1>a, <1>b, <3>1, <3>2 DEF Alone, Behind, Copied, Recorded, Resolved, Written, files
    <3> QED
      BY <1>b, <1>c, <3>1, <3>3
  <2> QED
    BY <2>1, <2>2
<1>3. CASE DeleteSecret(p)
  <2>1. /\ Put(p, Secret(p), Nothing, "deleteToken") /\ pc[p] = "deleteSecret"
        /\ UNCHANGED <<config, promised, name, cred, secret, store, cfg>>
    BY <1>3 DEF DeleteSecret
  <2>2. /\ Token(p) \in Entries /\ Secret(p) \in Entries /\ Secret(p) # Token(p)
        /\ "deleteToken" \in PC \ {"idle"} /\ name[p] \in Names
    BY <1>a, <2>1, EntriesApart DEF PC
  <2>3. ASSUME ~(kept' = kept /\ pc' = pc)
        PROVE  Behind(p)' /\ TokenServesProfile' /\ LoginKept'
    <3>1. /\ pc'[p] = "deleteToken"
          /\ \A s \in Stores, f \in Entries :
               kept'[s][f] = IF s = store[p] /\ f = Secret(p) THEN Nothing ELSE kept[s][f]
      BY <1>a, <1>b, <2>1, <2>2, <2>3, PutDone DEF Alone
    <3>2. Secret(p)' = Secret(p) /\ Token(p)' = Token(p)
      BY <2>1 DEF Secret, Token
    <3>3. /\ kept'[store[p]][Secret(p)] = Nothing
          /\ kept'[store[p]][Token(p)] = kept[store[p]][Token(p)]
      BY <1>b, <2>2, <3>1
    <3>4. Behind(p)'
      BY <1>a, <2>1, <3>1, <3>2, <3>3 DEF Behind, Recorded, Resolved, Written
    <3>5. UNCHANGED <<config, promised>> /\ TokenServesProfile /\ LoginKept /\ promised[name[p]] = p
      BY <1>a, <2>1
    <3>6. TokenServesProfile' /\ LoginKept'
      BY <2>2, <3>1, <3>5, SecretCleared
    <3> QED
      BY <3>4, <3>6
  <2> QED
    BY <2>1, <2>2, <2>3, PutApart DEF Copied
<1>4. CASE DeleteToken(p)
  <2>1. /\ Put(p, Token(p), Nothing, "dropProfile") /\ pc[p] = "deleteToken"
        /\ UNCHANGED <<config, promised, name, cred, secret, store, cfg>>
    BY <1>4 DEF DeleteToken
  <2>2. /\ Token(p) \in Entries /\ Secret(p) \in Entries /\ Secret(p) # Token(p)
        /\ "dropProfile" \in PC \ {"idle"} /\ name[p] \in Names
    BY <1>a, <2>1, EntriesApart DEF PC
  <2>3. ASSUME ~(kept' = kept /\ pc' = pc)
        PROVE  Behind(p)' /\ TokenServesProfile' /\ LoginKept'
    <3>1. /\ pc'[p] = "dropProfile"
          /\ \A s \in Stores, f \in Entries :
               kept'[s][f] = IF s = store[p] /\ f = Token(p) THEN Nothing ELSE kept[s][f]
      BY <1>a, <1>b, <2>1, <2>2, <2>3, PutDone DEF Alone
    <3>2. Secret(p)' = Secret(p) /\ Token(p)' = Token(p)
      BY <2>1 DEF Secret, Token
    <3>3. /\ kept'[store[p]][Token(p)] = Nothing
          /\ kept'[store[p]][Secret(p)] = kept[store[p]][Secret(p)]
      BY <1>b, <2>2, <3>1
    <3>4. Behind(p)'
      BY <1>a, <2>1, <3>1, <3>2, <3>3 DEF Behind, Recorded, Resolved, Written
    <3>5. UNCHANGED <<config, promised>> /\ TokenServesProfile /\ LoginKept
      BY <1>a, <2>1
    <3>6. TokenServesProfile' /\ LoginKept'
      BY <2>2, <3>1, <3>5, TokenCleared
    <3> QED
      BY <3>4, <3>6
  <2> QED
    BY <2>1, <2>2, <2>3, PutApart DEF Copied
<1>5. CASE DropProfile(p)
  <2>1. /\ pc' = [pc EXCEPT ![p] = "loggedOut"] /\ pc[p] = "dropProfile"
        /\ UNCHANGED <<kept, promised, name, cred, store, doc>>
        /\ config'.profiles = [cfg[p].profiles EXCEPT ![name[p]] = Nothing]
    BY <1>5 DEF DropProfile, Goto, locals
  <2>2. cfg[p] = config /\ name[p] \in Names /\ promised[name[p]] = p
        /\ config.profiles \in [Names -> ProfileType \cup {Nothing}]
    BY <1>a, <2>1 DEF Alone, Copied, TypeOK, ConfigType
  <2>3. \A n \in Names : config'.profiles[n] =
          IF n = name[p] THEN Nothing ELSE config.profiles[n]
    BY <2>1, <2>2
  <2>4. Apart(p)'
    BY <1>b, <2>1, StillApart
  <2>5. Secret(p)' = Secret(p) /\ Token(p)' = Token(p)
    BY <2>1 DEF Secret, Token
  <2>6. Alone(p)'
    BY <1>a, <1>b, <2>1, <2>2, <2>4 DEF Alone, Copied
  <2>7. Behind(p)'
    BY <1>a, <1>b, <2>1, <2>2, <2>3, <2>5 DEF Behind, Recorded, Resolved, Written
  <2>8. TokenServesProfile'
    BY <1>a, <2>1, <2>3 DEF TokenServesProfile
  <2>9. LoginKept'
    <3>1. \A n \in Names : promised[n] \in Credentials => n # name[p]
      BY <2>2
    <3> QED
      BY <1>a, <2>1, <2>3, <3>1 DEF LoginKept
  <2> QED
    BY <1>b, <2>1, <2>6, <2>7, <2>8, <2>9, ApartReduces
<1>6. CASE LoggedOut(p)
  <2>1. /\ Exit(p) /\ UNCHANGED files
        /\ promised' = [promised EXCEPT ![name[p]] = "removed"]
    BY <1>6, <1>a, <1>b DEF LoggedOut, Promise
  <2>2. \A n \in Names : promised'[n] \in Credentials => promised'[n] = promised[n]
    BY <1>b, <2>1
  <2>3. TokenServesProfile' /\ LoginKept'
    BY <1>a, <2>1, <2>2, NothingWrittenApart
  <2> QED
    BY <2>1, <2>3, ExitApart, ApartReduces
<1> QED
  BY <1>1, <1>2, <1>3, <1>4, <1>5, <1>6 DEF Logout

(* Every step of another command that none overlaps keeps it. *)
LEMMA RunApart ==
  ASSUME TypeOK, WorkInv, shared = Nothing, shared' = shared, ApartInv,
         NEW p \in Processes, Apart(p), Run(p)
  PROVE  ApartInv'
<1> USE ProfilesAssumption DEF LoginSteps, LogoutSteps, RunSteps
<1>a. /\ Alone(p) /\ Behind(p) /\ TokenServesProfile /\ LoginKept
      /\ pc[p] # "idle" => name[p] \in Names
      /\ pc[p] \in RunSteps \ {"resolve"} => cred[p] \in Credentials
  BY DEF ApartInv, WorkInv
<1>b. /\ pc \in [Processes -> PC] /\ name \in [Processes -> Names \cup {Nothing}]
      /\ cred \in [Processes -> Credentials \cup {Nothing}] /\ store \in [Processes -> Stores]
      /\ cfg \in [Processes -> ConfigType] /\ doc \in [Processes -> StoreType \cup {Nothing}]
      /\ promised \in [Names -> Credentials \cup Processes \cup {Nothing, "removed"}]
  BY DEF TypeOK
<1>c. ASSUME UNCHANGED files, UNCHANGED promised, Alone(p)', Behind(p)',
             \A q \in Processes \ {p} : pc'[q] = pc[q] /\ doc'[q] = doc[q]
      PROVE  ApartInv'
  <2>1. TokenServesProfile' /\ LoginKept'
    BY <1>a, <1>c, NothingWrittenApart
  <2> QED
    BY <1>c, <2>1, ApartReduces
<1>d. ASSUME Exit(p), UNCHANGED <<files, promised>>
      PROVE  ApartInv'
  BY <1>c, <1>d, ExitApart
<1>1. ASSUME NEW n \in Names, StartRun(p, n)
      PROVE  ApartInv'
  <2>1. pc' = [pc EXCEPT ![p] = "resolve"] /\ UNCHANGED <<files, promised, doc>> /\ pc[p] = "idle"
    BY <1>1 DEF StartRun, Goto
  <2>2. Apart(p)'
    BY <1>b, <2>1, StillApart
  <2>3. Alone(p)' /\ Behind(p)'
    BY <1>a, <1>b, <2>1, <2>2 DEF Alone, Behind, Copied, Recorded, Resolved, Written, files
  <2> QED
    BY <1>b, <1>c, <2>1, <2>3
<1>2. CASE Resolve(p)
  <2>1. CASE Exit(p)
    BY <1>2, <1>d, <2>1 DEF Resolve
  <2>2. CASE ~Exit(p)
    <3>1. /\ pc' = [pc EXCEPT ![p] = "readSecret"] /\ pc[p] = "resolve"
          /\ UNCHANGED <<files, promised, name, doc>>
          /\ config.profiles[name[p]] # Nothing
          /\ cred'[p] = config.profiles[name[p]].cred
          /\ store'[p] = config.profiles[name[p]].store
      BY <1>2, <1>b, <2>2 DEF Resolve, Goto
    <3>2. Apart(p)'
      BY <1>b, <3>1, StillApart
    <3>3. config.profiles[name[p]] \in ProfileType
      BY <1>a, <3>1 DEF TypeOK, ConfigType
    <3>4. config.profiles[name[p]] = [cred |-> cred'[p], store |-> store'[p]]
      BY <3>1, <3>3 DEF ProfileType
    <3>5. Alone(p)' /\ Behind(p)'
      BY <1>a, <1>b, <3>1, <3>2, <3>4
         DEF Alone, Behind, Copied, Recorded, Resolved, Written, files
    <3> QED
      BY <1>b, <1>c, <3>1, <3>5
  <2> QED
    BY <2>1, <2>2
<1>3. CASE ReadSecret(p)
  <2>1. CASE Exit(p)
    BY <1>3, <1>d, <2>1 DEF ReadSecret
  <2>2. CASE ~Exit(p)
    <3>1. /\ pc' = [pc EXCEPT ![p] = "loadToken"] /\ pc[p] = "readSecret"
          /\ UNCHANGED <<files, promised, name, cred, store, doc>>
      BY <1>3, <2>2 DEF ReadSecret, Goto
    <3>2. Apart(p)'
      BY <1>b, <3>1, StillApart
    <3>3. Alone(p)' /\ Behind(p)'
      BY <1>a, <1>b, <3>1, <3>2 DEF Alone, Behind, Copied, Recorded, Resolved, Written, files
    <3> QED
      BY <1>b, <1>c, <3>1, <3>3
  <2> QED
    BY <2>1, <2>2
<1>4. CASE LoadToken(p)
  <2>1. PICK next \in {"served", "dropToken", "mint"} : pc' = [pc EXCEPT ![p] = next]
    BY <1>4 DEF LoadToken, Goto
  <2>2. UNCHANGED <<files, promised, name, cred, store, doc>> /\ pc[p] = "loadToken"
    BY <1>4 DEF LoadToken, locals
  <2>3. Apart(p)'
    BY <1>b, <2>1, StillApart
  <2>4. Alone(p)' /\ Behind(p)'
    BY <1>a, <1>b, <2>1, <2>2, <2>3 DEF Alone, Behind, Copied, Recorded, Resolved, Written, files
  <2> QED
    BY <1>b, <1>c, <2>1, <2>2, <2>4
<1>5. CASE DropToken(p)
  <2>1. /\ Put(p, Token(p), Nothing, "mint") /\ pc[p] = "dropToken"
        /\ UNCHANGED <<config, promised, name, cred, secret, store, cfg>>
    BY <1>5 DEF DropToken
  <2>2. /\ Token(p) \in Entries /\ Secret(p) \in Entries /\ Secret(p) # Token(p)
        /\ "mint" \in PC \ {"idle"} /\ name[p] \in Names
    BY <1>a, <2>1, EntriesApart DEF PC
  <2>3. ASSUME ~(kept' = kept /\ pc' = pc)
        PROVE  Behind(p)' /\ TokenServesProfile' /\ LoginKept'
    <3>1. /\ pc'[p] = "mint"
          /\ \A s \in Stores, f \in Entries :
               kept'[s][f] = IF s = store[p] /\ f = Token(p) THEN Nothing ELSE kept[s][f]
      BY <1>a, <1>b, <2>1, <2>2, <2>3, PutDone DEF Alone
    <3>2. Secret(p)' = Secret(p) /\ Token(p)' = Token(p)
      BY <2>1 DEF Secret, Token
    <3>3. /\ kept'[store[p]][Token(p)] = Nothing
          /\ kept'[store[p]][Secret(p)] = kept[store[p]][Secret(p)]
      BY <1>b, <2>2, <3>1
    <3>4. Behind(p)'
      BY <1>a, <2>1, <3>1, <3>2, <3>3 DEF Behind, Recorded, Resolved, Written
    <3>5. UNCHANGED <<config, promised>> /\ TokenServesProfile /\ LoginKept
      BY <1>a, <2>1
    <3>6. TokenServesProfile' /\ LoginKept'
      BY <2>2, <3>1, <3>5, TokenCleared
    <3> QED
      BY <3>4, <3>6
  <2> QED
    BY <2>1, <2>2, <2>3, PutApart DEF Copied
<1>6. CASE Mint(p)
  <2>1. CASE Exit(p)
    BY <1>6, <1>d, <2>1 DEF Mint
  <2>2. CASE ~Exit(p)
    <3>1. /\ pc' = [pc EXCEPT ![p] = "storeToken"] /\ pc[p] = "mint"
          /\ UNCHANGED <<files, promised, name, cred, store, doc>>
      BY <1>6, <2>2 DEF Mint, Goto, locals
    <3>2. Apart(p)'
      BY <1>b, <3>1, StillApart
    <3>3. Alone(p)' /\ Behind(p)'
      BY <1>a, <1>b, <3>1, <3>2 DEF Alone, Behind, Copied, Recorded, Resolved, Written, files
    <3> QED
      BY <1>b, <1>c, <3>1, <3>3
  <2> QED
    BY <2>1, <2>2
<1>7. CASE StoreToken(p)
  <2>1. /\ Put(p, Token(p), cred[p], "served") /\ pc[p] = "storeToken"
        /\ UNCHANGED <<config, promised, name, cred, secret, store, cfg>>
    BY <1>7 DEF StoreToken
  <2>2. /\ Token(p) \in Entries /\ Secret(p) \in Entries /\ Secret(p) # Token(p)
        /\ "served" \in PC \ {"idle"} /\ name[p] \in Names /\ cred[p] \in Credentials
    BY <1>a, <2>1, EntriesApart DEF PC
  <2>3. ASSUME ~(kept' = kept /\ pc' = pc)
        PROVE  Behind(p)' /\ TokenServesProfile' /\ LoginKept'
    <3>1. /\ pc'[p] = "served"
          /\ \A s \in Stores, f \in Entries :
               kept'[s][f] = IF s = store[p] /\ f = Token(p) THEN cred[p] ELSE kept[s][f]
      BY <1>a, <1>b, <2>1, <2>2, <2>3, PutDone DEF Alone
    <3>2. Secret(p)' = Secret(p) /\ Token(p)' = Token(p)
      BY <2>1 DEF Secret, Token
    <3>3. /\ kept'[store[p]][Token(p)] = cred[p]
          /\ kept'[store[p]][Secret(p)] = kept[store[p]][Secret(p)]
      BY <1>b, <2>2, <3>1
    <3>4. Behind(p)'
      BY <1>a, <2>1, <3>1, <3>2, <3>3 DEF Behind, Recorded, Resolved, Written
    <3>5. UNCHANGED <<config, promised>> /\ TokenServesProfile /\ LoginKept
      BY <1>a, <2>1
    <3>6. config.profiles[name[p]] = [cred |-> cred[p], store |-> store[p]]
      BY <1>a, <2>1 DEF Behind, Resolved
    <3>7. TokenServesProfile' /\ LoginKept'
      BY <2>2, <3>1, <3>5, <3>6, TokenPut
    <3> QED
      BY <3>4, <3>7
  <2> QED
    BY <2>1, <2>2, <2>3, PutApart DEF Copied
<1>8. CASE Served(p)
  BY <1>8, <1>d DEF Served
<1> QED
  BY <1>1, <1>2, <1>3, <1>4, <1>5, <1>6, <1>7, <1>8 DEF Run

-----------------------------------------------------------------------------
(* Commands that overlap: a claim is overtaken only with a new one         *)
(* (ClaimInv), and on the keyring each changes entries of its name alone   *)
(* (OverlapInv).                                                           *)

(* As long as nothing is promised anew and no process begins, no promise is *)
(* overtaken.                                                              *)
LEMMA ClaimKept ==
  ASSUME TypeOK, ClaimInv, NEW p \in Processes, promised' = promised,
         \A q \in Processes \ {p} : pc'[q] = pc[q] /\ name'[q] = name[q],
         pc'[p] \in LoginSteps \cup LogoutSteps =>
           pc[p] \in LoginSteps \cup LogoutSteps /\ name'[p] = name[p]
  PROVE  ClaimInv'
<1>1. \A n \in Names : Changing(n)' \subseteq Changing(n)
  BY DEF Changing
<1> QED
  BY <1>1 DEF ClaimInv

(* A command that begins claims its name, or nobody does. *)
LEMMA ClaimBegins ==
  ASSUME TypeOK, ClaimInv, NEW p \in Processes, NEW n \in Names, NEW step, pc[p] = "idle",
         Claim(p, n), Goto(p, step), name' = [name EXCEPT ![p] = n]
  PROVE  ClaimInv'
<1> USE ProfilesAssumption
<1>1. promised' = [promised EXCEPT ![n] = IF Changing(n) # {} THEN Nothing ELSE p]
  BY DEF Claim, Changing
<1>2. /\ promised \in [Names -> Credentials \cup Processes \cup {Nothing, "removed"}]
      /\ pc' = [pc EXCEPT ![p] = step] /\ pc \in [Processes -> PC]
      /\ name \in [Processes -> Names \cup {Nothing}]
  BY DEF TypeOK, Goto
<1>3. ASSUME NEW m \in Names, m # n
      PROVE  promised'[m] = promised[m] /\ Changing(m)' \subseteq Changing(m)
  BY <1>1, <1>2, <1>3 DEF Changing
<1>4. Changing(n)' \subseteq Changing(n) \cup {p}
  BY <1>2 DEF Changing
<1>5. /\ promised'[n] \in Processes => Changing(n)' \subseteq {promised'[n]}
      /\ promised'[n] \notin Credentials
  BY <1>1, <1>2, <1>4
<1>6. ASSUME NEW m \in Names
      PROVE  /\ promised'[m] \in Processes => Changing(m)' \subseteq {promised'[m]}
             /\ promised'[m] \in Credentials => Changing(m)' = {}
  BY <1>3, <1>5 DEF ClaimInv
<1> QED
  BY <1>6 DEF ClaimInv

(* A command that ends with a word for its name ends alone there. *)
LEMMA ClaimEnds ==
  ASSUME TypeOK, ClaimInv, NEW p \in Processes, name[p] \in Names,
         pc[p] \in LoginSteps \cup LogoutSteps,
         NEW what \in Credentials \cup {"removed"}, Promise(p, what), Exit(p)
  PROVE  ClaimInv'
<1> USE ProfilesAssumption
<1>1. /\ promised' = [promised EXCEPT ![name[p]] =
                        IF promised[name[p]] = p THEN what ELSE promised[name[p]]]
      /\ promised \in [Names -> Credentials \cup Processes \cup {Nothing, "removed"}]
  BY DEF Promise, TypeOK
<1>2. \A n \in Names : Changing(n)' = Changing(n) \ {p}
  BY DEF Changing, Exit, Goto, TypeOK, LoginSteps, LogoutSteps
<1>3. ASSUME NEW n \in Names
      PROVE  /\ promised'[n] \in Processes => Changing(n)' \subseteq {promised'[n]}
             /\ promised'[n] \in Credentials => Changing(n)' = {}
  <2>1. CASE promised'[n] = promised[n]
    BY <1>2, <2>1 DEF ClaimInv
  <2>2. CASE n = name[p] /\ promised[n] = p /\ promised'[n] = what
    BY <1>2, <2>2 DEF ClaimInv
  <2> QED
    BY <1>1, <2>1, <2>2
<1> QED
  BY <1>3 DEF ClaimInv

(* Every step keeps the claims. *)
LEMMA ClaimStep == TypeOK /\ WorkInv /\ ClaimInv /\ [Next]_vars => ClaimInv'
<1> SUFFICES ASSUME TypeOK, WorkInv, ClaimInv, [Next]_vars PROVE ClaimInv'
  OBVIOUS
<1> USE DEF LoginSteps, LogoutSteps, RunSteps
<1>0. pc \in [Processes -> PC] /\ name \in [Processes -> Names \cup {Nothing}]
  BY DEF TypeOK
<1>1. CASE UNCHANGED vars
  BY <1>1 DEF vars, locals, ClaimInv, Changing
<1>2. ASSUME NEW p \in Processes, Exit(p), promised' = promised
      PROVE  ClaimInv'
  <2>1. /\ \A q \in Processes \ {p} : pc'[q] = pc[q] /\ name'[q] = name[q]
        /\ pc'[p] = "idle"
    BY <1>0, <1>2 DEF Exit, Goto
  <2> QED
    BY <1>2, <2>1, ClaimKept
<1>3. ASSUME NEW p \in Processes, UNCHANGED <<promised, name>>, NEW next,
             pc' = pc \/ Goto(p, next),
             next \in LoginSteps \cup LogoutSteps => pc[p] \in LoginSteps \cup LogoutSteps
      PROVE  ClaimInv'
  <2>1. /\ \A q \in Processes \ {p} : pc'[q] = pc[q] /\ name'[q] = name[q]
        /\ pc'[p] \in LoginSteps \cup LogoutSteps =>
             pc[p] \in LoginSteps \cup LogoutSteps /\ name'[p] = name[p]
    BY <1>0, <1>3 DEF Goto
  <2> QED
    BY <1>3, <2>1, ClaimKept
<1>4. ASSUME NEW p \in Processes, Login(p)
      PROVE  ClaimInv'
  <2>1. ASSUME NEW n \in Names, NEW c \in Credentials, StartLogin(p, n, c)
        PROVE  ClaimInv'
    BY <2>1, ClaimBegins DEF StartLogin
  <2>2. CASE LoadForLogin(p)
    BY <1>3, <2>2 DEF LoadForLogin
  <2>3. CASE SetSecret(p)
    BY <1>3, <2>3 DEF SetSecret, Put
  <2>4. CASE ClearToken(p)
    BY <1>3, <2>4 DEF ClearToken, Put
  <2>5. CASE SaveConfig(p)
    BY <1>3, <2>5 DEF SaveConfig, locals
  <2>6. CASE SaveToken(p)
    BY <1>3, <2>6 DEF SaveToken, Put
  <2>7. CASE LoadForDefault(p)
    BY <1>2, <1>3, <2>7 DEF LoadForDefault
  <2>8. CASE SaveDefault(p)
    BY <1>3, <2>8 DEF SaveDefault, locals
  <2>9. CASE LoggedIn(p)
    BY <2>9, ClaimEnds DEF LoggedIn, WorkInv
  <2> QED
    BY <1>4, <2>1, <2>2, <2>3, <2>4, <2>5, <2>6, <2>7, <2>8, <2>9 DEF Login
<1>5. ASSUME NEW p \in Processes, Logout(p)
      PROVE  ClaimInv'
  <2>1. ASSUME NEW n \in Names, StartLogout(p, n)
        PROVE  ClaimInv'
    BY <2>1, ClaimBegins DEF StartLogout
  <2>2. CASE LoadForLogout(p)
    BY <1>2, <1>3, <2>2 DEF LoadForLogout
  <2>3. CASE DeleteSecret(p)
    BY <1>3, <2>3 DEF DeleteSecret, Put
  <2>4. CASE DeleteToken(p)
    BY <1>3, <2>4 DEF DeleteToken, Put
  <2>5. CASE DropProfile(p)
    BY <1>3, <2>5 DEF DropProfile, locals
  <2>6. CASE LoggedOut(p)
    BY <2>6, ClaimEnds DEF LoggedOut, WorkInv
  <2> QED
    BY <1>5, <2>1, <2>2, <2>3, <2>4, <2>5, <2>6 DEF Logout
<1>6. ASSUME NEW p \in Processes, Run(p)
      PROVE  ClaimInv'
  <2>1. ASSUME NEW n \in Names, StartRun(p, n)
        PROVE  ClaimInv'
    <3>1. /\ \A q \in Processes \ {p} : pc'[q] = pc[q] /\ name'[q] = name[q]
          /\ pc'[p] = "resolve" /\ promised' = promised
      BY <1>0, <2>1 DEF StartRun, Goto
    <3> QED
      BY <3>1, ClaimKept
  <2>2. CASE Resolve(p)
    BY <1>2, <1>3, <2>2 DEF Resolve
  <2>3. CASE ReadSecret(p)
    BY <1>2, <1>3, <2>3 DEF ReadSecret
  <2>4. CASE LoadToken(p)
    BY <1>3, <2>4 DEF LoadToken, locals
  <2>5. CASE DropToken(p)
    BY <1>3, <2>5 DEF DropToken, Put
  <2>6. CASE Mint(p)
    BY <1>2, <1>3, <2>6 DEF Mint, locals
  <2>7. CASE StoreToken(p)
    BY <1>3, <2>7 DEF StoreToken, Put
  <2>8. CASE Served(p)
    BY <1>2, <2>8 DEF Served
  <2> QED
    BY <1>6, <2>1, <2>2, <2>3, <2>4, <2>5, <2>6, <2>7, <2>8 DEF Run
<1>7. ASSUME NEW p \in Processes, Stop(p)
      PROVE  ClaimInv'
  BY <1>2, <1>7 DEF Stop
<1> QED
  BY <1>1, <1>4, <1>5, <1>6, <1>7 DEF Next

(* A Set or Delete in the keyring. *)
LEMMA PutInKeyring ==
  ASSUME TypeOK, NEW p \in Processes, NEW e \in Entries, NEW v, NEW next,
         store[p] = "keyring", Put(p, e, v, next)
  PROVE  /\ pc' = [pc EXCEPT ![p] = next]
         /\ \A f \in Entries :
              kept'["keyring"][f] = IF f = e THEN v ELSE kept["keyring"][f]
<1>1. kept' = [kept EXCEPT !["keyring"][e] = v] /\ pc' = [pc EXCEPT ![p] = next]
  BY DEF Put, Goto
<1>2. kept \in [Stores -> StoreType] /\ "keyring" \in Stores
      /\ kept["keyring"] \in [Entries -> Credentials \cup {Nothing}]
  BY DEF TypeOK, StoreType, Stores
<1>3. kept'["keyring"] = [kept["keyring"] EXCEPT ![e] = v]
  BY <1>1, <1>2
<1> QED
  BY <1>1, <1>2, <1>3

(* What one command does on the keyring leaves alone what the others have  *)
(* stored under names they claimed, and what was promised.                 *)
LEMMA OverlapReduces ==
  ASSUME TypeOK, WorkInv, ClaimInv, shared # Nothing, shared' = shared, OverlapInv,
         NEW p \in Processes,
         \A q \in Processes \ {p} :
           /\ pc'[q] = pc[q] /\ name'[q] = name[q] /\ cred'[q] = cred[q]
           /\ store'[q] = store[q] /\ cfg'[q] = cfg[q],
         \A n \in Names :
           \/ promised'[n] = promised[n]
           \/ promised'[n] \in {p, Nothing, "removed"}
           \/ /\ n = name[p] /\ pc[p] \in Written /\ promised[n] = p
              /\ promised'[n] = cred[p] /\ kept' = kept,
         \A n \in Names :
           \/ kept'["keyring"][<<n, "secret">>] = kept["keyring"][<<n, "secret">>]
           \/ n = name[p] /\ pc[p] \in {"setSecret", "deleteSecret"},
         InKeyring(config)', OnKeyring(p)'
  PROVE  OverlapInv'
<1> USE ProfilesAssumption
<1>0. InKeyring(config) /\ \A q \in Processes : OnKeyring(q)
  BY DEF OverlapInv
<1>1. ASSUME NEW n \in Names, n # name[p] \/ pc[p] \notin {"setSecret", "deleteSecret"}
      PROVE  kept'["keyring"][<<n, "secret">>] = kept["keyring"][<<n, "secret">>]
  BY <1>1
<1>2. ASSUME NEW q \in Processes \ {p}
      PROVE  OnKeyring(q)'
  <2>1. InKeyring(cfg[q])'
    BY <1>0 DEF OnKeyring, InKeyring
  <2>2. pc'[q] \notin {"idle", "login", "logout", "resolve"} => store'[q] = "keyring"
    BY <1>0 DEF OnKeyring
  <2>3. ASSUME pc'[q] \in Written, promised'[name'[q]] = q
        PROVE  kept'["keyring"][Secret(q)'] = cred'[q]
    <3>1. /\ name[q] \in Names /\ pc[q] \in Written /\ pc[q] \in LoginSteps
          /\ name'[q] = name[q] /\ cred[q] \in Credentials
      BY <2>3 DEF WorkInv, Written, Recorded, LoginSteps
    <3>2. promised[name[q]] = q
      <4>1. cred[p] = q => q \in Credentials \cup {Nothing}
        BY DEF TypeOK
      <4> QED
        BY <2>3, <3>1, <4>1
    <3>3. p \notin Changing(name[q])
      BY <3>1, <3>2 DEF ClaimInv
    <3>4. kept'["keyring"][<<name[q], "secret">>] = kept["keyring"][<<name[q], "secret">>]
      BY <1>1, <3>1, <3>3 DEF Changing, LoginSteps, LogoutSteps
    <3> QED
      BY <1>0, <3>1, <3>2, <3>4 DEF OnKeyring, Secret
  <2> QED
    BY <2>1, <2>2, <2>3 DEF OnKeyring
<1>3. ASSUME NEW n \in Names, promised'[n] \in Credentials
      PROVE  kept'["keyring"][<<n, "secret">>] = promised'[n]
  <2>1. CASE promised'[n] = promised[n]
    <3>1. p \notin Changing(n)
      BY <1>3, <2>1 DEF ClaimInv
    <3>2. kept'["keyring"][<<n, "secret">>] = kept["keyring"][<<n, "secret">>]
      BY <1>1, <3>1 DEF Changing, LoginSteps, LogoutSteps
    <3> QED
      BY <1>3, <2>1, <3>2 DEF OverlapInv
  <2>2. CASE /\ n = name[p] /\ pc[p] \in Written /\ promised[n] = p
             /\ promised'[n] = cred[p] /\ kept' = kept
    BY <1>0, <2>2 DEF OnKeyring, Secret
  <2> QED
    BY <1>3, <2>1, <2>2
<1> QED
  BY <1>2, <1>3 DEF OverlapInv

(* A process that ends has nothing on the keyring to keep. *)
LEMMA ExitOverlap ==
  ASSUME TypeOK, NEW p \in Processes, Exit(p)
  PROVE  /\ OnKeyring(p)'
         /\ \A q \in Processes \ {p} :
              /\ pc'[q] = pc[q] /\ name'[q] = name[q] /\ cred'[q] = cred[q]
              /\ store'[q] = store[q] /\ cfg'[q] = cfg[q]
<1>1. pc'[p] = "idle" /\ cfg'[p] = NoProfiles
  BY DEF Exit, Goto, TypeOK
<1>2. InKeyring(cfg[p])'
  BY <1>1 DEF InKeyring, NoProfiles
<1>3. \A q \in Processes \ {p} :
        /\ pc'[q] = pc[q] /\ name'[q] = name[q] /\ cred'[q] = cred[q]
        /\ store'[q] = store[q] /\ cfg'[q] = cfg[q]
  BY DEF Exit, Goto, TypeOK
<1> QED
  BY <1>1, <1>2, <1>3 DEF OnKeyring, Written, Recorded

(* A Set or Delete of a process on the keyring. *)
LEMMA PutOverlap ==
  ASSUME TypeOK, WorkInv, ClaimInv, shared # Nothing, shared' = shared, OverlapInv,
         NEW p \in Processes, store[p] = "keyring", NEW e \in Entries, NEW v, NEW next,
         Put(p, e, v, next), UNCHANGED <<config, promised, name, cred, secret, store, cfg>>,
         name[p] \in Names, e \in {Secret(p), Token(p)},
         e = Secret(p) => pc[p] \in {"setSecret", "deleteSecret"},
         next \in Written =>
           IF e = Secret(p) THEN v = cred[p]
                            ELSE pc[p] \in Written /\ Secret(p) \in Entries
  PROVE  OverlapInv'
<1>1. InKeyring(config) /\ OnKeyring(p)
  BY DEF OverlapInv
<1>2. /\ pc' = [pc EXCEPT ![p] = next] /\ pc \in [Processes -> PC]
      /\ \A f \in Entries : kept'["keyring"][f] = IF f = e THEN v ELSE kept["keyring"][f]
  BY PutInKeyring DEF TypeOK
<1>3. pc'[p] = next /\ \A q \in Processes \ {p} : pc'[q] = pc[q]
  BY <1>2
<1>4. InKeyring(cfg[p])' /\ InKeyring(config)'
  BY <1>1 DEF OnKeyring, InKeyring
<1>5. Secret(p)' = Secret(p)
  BY DEF Secret
<1>6. pc'[p] \in Written /\ promised'[name'[p]] = p => kept'["keyring"][Secret(p)] = cred[p]
  BY <1>1, <1>2, <1>3 DEF OnKeyring
<1>7. OnKeyring(p)'
  BY <1>4, <1>5, <1>6 DEF OnKeyring
<1>8. ASSUME NEW n \in Names
      PROVE  \/ kept'["keyring"][<<n, "secret">>] = kept["keyring"][<<n, "secret">>]
             \/ n = name[p] /\ pc[p] \in {"setSecret", "deleteSecret"}
  <2>1. /\ <<n, "secret">> \in Entries /\ <<n, "secret">> # Token(p)
        /\ n # name[p] => <<n, "secret">> # Secret(p)
    BY EntriesApart
  <2> QED
    BY <1>2, <2>1
<1> QED
  BY <1>3, <1>4, <1>7, <1>8, OverlapReduces

(* Every step of a login on the keyring keeps OverlapInv. *)
LEMMA LoginOverlap ==
  ASSUME TypeOK, WorkInv, ClaimInv, shared # Nothing, shared' = shared, OverlapInv,
         NEW p \in Processes, Login(p), OnOneKeyring(p)
  PROVE  OverlapInv'
<1> USE ProfilesAssumption DEF LoginSteps, LogoutSteps, RunSteps, Copied, Written, Recorded
<1>a. /\ InKeyring(config) /\ OnKeyring(p)
      /\ pc[p] # "idle" => name[p] \in Names
  BY DEF OverlapInv, WorkInv
<1>b. /\ pc \in [Processes -> PC] /\ name \in [Processes -> Names \cup {Nothing}]
      /\ cred \in [Processes -> Credentials \cup {Nothing}] /\ store \in [Processes -> Stores]
      /\ cfg \in [Processes -> ConfigType] /\ config \in ConfigType
  BY DEF TypeOK
<1>c. ASSUME \A q \in Processes \ {p} :
               /\ pc'[q] = pc[q] /\ name'[q] = name[q] /\ cred'[q] = cred[q]
               /\ store'[q] = store[q] /\ cfg'[q] = cfg[q],
             UNCHANGED <<kept, promised>>, InKeyring(config)', OnKeyring(p)'
      PROVE  OverlapInv'
  BY <1>c, OverlapReduces
<1>d. ASSUME Exit(p), UNCHANGED <<files, promised>>
      PROVE  OverlapInv'
  BY <1>a, <1>c, <1>d, ExitOverlap DEF files, InKeyring
<1>1. ASSUME NEW n \in Names, NEW c \in Credentials, StartLogin(p, n, c)
      PROVE  OverlapInv'
  <2>1. /\ pc' = [pc EXCEPT ![p] = "login"] /\ name' = [name EXCEPT ![p] = n]
        /\ UNCHANGED <<files, store, cfg>>
        /\ \A q \in Processes \ {p} : cred'[q] = cred[q]
    BY <1>1, <1>b DEF StartLogin, Goto
  <2>2. \A m \in Names : promised'[m] = promised[m] \/ promised'[m] \in {p, Nothing}
    BY <1>1 DEF StartLogin, Claim, TypeOK
  <2>3. InKeyring(config)' /\ OnKeyring(p)'
    BY <1>a, <1>b, <2>1 DEF OnKeyring, InKeyring, files
  <2> QED
    BY <1>b, <2>1, <2>2, <2>3, OverlapReduces DEF files
<1>2. CASE LoadForLogin(p)
  <2>1. /\ pc' = [pc EXCEPT ![p] = "setSecret"] /\ pc[p] = "login"
        /\ cfg'[p] = config /\ \A q \in Processes \ {p} : cfg'[q] = cfg[q] /\ store'[q] = store[q]
        /\ UNCHANGED <<files, promised, name, cred>>
    BY <1>2, <1>b DEF LoadForLogin, Goto, locals
  <2>2. store'[p] = "keyring"
    BY <1>b, <2>1 DEF OnOneKeyring
  <2>3. InKeyring(config)' /\ OnKeyring(p)'
    BY <1>a, <1>b, <2>1, <2>2 DEF OnKeyring, InKeyring, files, Secret
  <2> QED
    BY <1>b, <1>c, <2>1, <2>3 DEF files
<1>3. CASE SetSecret(p)
  <2>1. /\ Put(p, Secret(p), cred[p], "clearToken") /\ pc[p] = "setSecret" /\ store[p] = "keyring"
        /\ UNCHANGED <<config, promised, name, cred, secret, store, cfg>>
    BY <1>3, <1>a DEF SetSecret, OnKeyring
  <2>2. /\ Token(p) \in Entries /\ Secret(p) \in Entries /\ Secret(p) # Token(p)
        /\ name[p] \in Names
    BY <1>a, <2>1, EntriesApart
  <2> QED
    BY <2>1, <2>2, PutOverlap
<1>4. CASE ClearToken(p)
  <2>1. /\ Put(p, Token(p), Nothing, "saveConfig") /\ pc[p] = "clearToken" /\ store[p] = "keyring"
        /\ UNCHANGED <<config, promised, name, cred, secret, store, cfg>>
    BY <1>4, <1>a DEF ClearToken, OnKeyring
  <2>2. /\ Token(p) \in Entries /\ Secret(p) \in Entries /\ Secret(p) # Token(p)
        /\ name[p] \in Names
    BY <1>a, <2>1, EntriesApart
  <2> QED
    BY <2>1, <2>2, PutOverlap
<1>5. CASE SaveConfig(p)
  <2>1. /\ pc' = [pc EXCEPT ![p] = "saveToken"] /\ pc[p] = "saveConfig"
        /\ UNCHANGED <<kept, promised, name, cred, store, cfg>>
        /\ config'.profiles = [cfg[p].profiles EXCEPT ![name[p]] = [cred |-> cred[p], store |-> store[p]]]
    BY <1>5 DEF SaveConfig, Goto, locals
  <2>2. /\ store[p] = "keyring" /\ InKeyring(cfg[p]) /\ name[p] \in Names
        /\ cfg[p].profiles \in [Names -> ProfileType \cup {Nothing}]
    BY <1>a, <1>b, <2>1 DEF OnKeyring, ConfigType
  <2>3. \A n \in Names : config'.profiles[n] =
          IF n = name[p] THEN [cred |-> cred[p], store |-> store[p]] ELSE cfg[p].profiles[n]
    BY <2>1, <2>2
  <2>4. InKeyring(config)'
    BY <2>2, <2>3 DEF InKeyring
  <2>5. OnKeyring(p)'
    BY <1>a, <1>b, <2>1 DEF OnKeyring, InKeyring, Secret
  <2> QED
    BY <1>b, <1>c, <2>1, <2>4, <2>5
<1>6. CASE SaveToken(p)
  <2>1. PICK next \in {"asDefault", "loggedIn"} :
          \/ Put(p, Token(p), cred[p], next)
          \/ Goto(p, next) /\ UNCHANGED <<kept, doc>>
    BY <1>6 DEF SaveToken
  <2>2. /\ pc[p] = "saveToken" /\ store[p] = "keyring"
        /\ UNCHANGED <<config, promised, name, cred, secret, store, cfg>>
    BY <1>6, <1>a DEF SaveToken, OnKeyring
  <2>3. /\ Token(p) \in Entries /\ Secret(p) \in Entries /\ Secret(p) # Token(p)
        /\ name[p] \in Names
    BY <1>a, <2>2, EntriesApart
  <2>4. CASE Put(p, Token(p), cred[p], next)
    BY <2>2, <2>3, <2>4, PutOverlap
  <2>5. CASE Goto(p, next) /\ UNCHANGED <<kept, doc>>
    <3>1. pc' = [pc EXCEPT ![p] = next]
      BY <2>5 DEF Goto
    <3>2. InKeyring(config)' /\ OnKeyring(p)'
      BY <1>a, <1>b, <2>2, <2>5, <3>1 DEF OnKeyring, InKeyring, Secret
    <3> QED
      BY <1>b, <1>c, <2>2, <2>5, <3>1, <3>2
  <2> QED
    BY <2>1, <2>4, <2>5
<1>7. CASE LoadForDefault(p)
  <2>1. CASE Exit(p)
    BY <1>7, <1>d, <2>1 DEF LoadForDefault
  <2>2. CASE ~Exit(p)
    <3>1. /\ pc' = [pc EXCEPT ![p] = "saveDefault"] /\ pc[p] = "asDefault"
          /\ cfg' = [cfg EXCEPT ![p] = config]
          /\ UNCHANGED <<files, promised, name, cred, store>>
      BY <1>7, <1>b, <2>2 DEF LoadForDefault, Goto, locals
    <3>2. InKeyring(config)' /\ OnKeyring(p)'
      BY <1>a, <1>b, <3>1 DEF OnKeyring, InKeyring, files, Secret
    <3> QED
      BY <1>b, <1>c, <3>1, <3>2 DEF files
  <2> QED
    BY <2>1, <2>2
<1>8. CASE SaveDefault(p)
  <2>1. /\ pc' = [pc EXCEPT ![p] = "loggedIn"] /\ pc[p] = "saveDefault"
        /\ UNCHANGED <<kept, promised, name, cred, store, cfg>>
        /\ config' = [cfg[p] EXCEPT !.default = name[p]]
    BY <1>8 DEF SaveDefault, Goto, locals
  <2>2. config'.profiles = cfg[p].profiles
    BY <1>b, <2>1 DEF ConfigType
  <2>3. InKeyring(config)' /\ OnKeyring(p)'
    BY <1>a, <1>b, <2>1, <2>2 DEF OnKeyring, InKeyring, Secret
  <2> QED
    BY <1>b, <1>c, <2>1, <2>3
<1>9. CASE LoggedIn(p)
  <2>1. /\ Exit(p) /\ UNCHANGED files /\ pc[p] = "loggedIn" /\ name[p] \in Names
        /\ \A n \in Names :
             \/ promised'[n] = promised[n]
             \/ n = name[p] /\ promised[n] = p /\ promised'[n] = cred[p]
    BY <1>9, <1>a DEF LoggedIn, Promise, TypeOK
  <2>2. InKeyring(config)'
    BY <1>a, <2>1 DEF InKeyring, files
  <2> QED
    BY <2>1, <2>2, ExitOverlap, OverlapReduces DEF files
<1> QED
  BY <1>1, <1>2, <1>3, <1>4, <1>5, <1>6, <1>7, <1>8, <1>9 DEF Login

(* Every step of a logout on the keyring keeps it. *)
LEMMA LogoutOverlap ==
  ASSUME TypeOK, WorkInv, ClaimInv, shared # Nothing, shared' = shared, OverlapInv,
         NEW p \in Processes, Logout(p), OnOneKeyring(p)
  PROVE  OverlapInv'
<1> USE ProfilesAssumption DEF LoginSteps, LogoutSteps, RunSteps, Copied, Written, Recorded
<1>a. /\ InKeyring(config) /\ OnKeyring(p)
      /\ pc[p] # "idle" => name[p] \in Names
  BY DEF OverlapInv, WorkInv
<1>b. /\ pc \in [Processes -> PC] /\ name \in [Processes -> Names \cup {Nothing}]
      /\ cred \in [Processes -> Credentials \cup {Nothing}] /\ store \in [Processes -> Stores]
      /\ cfg \in [Processes -> ConfigType] /\ config \in ConfigType
  BY DEF TypeOK
<1>c. ASSUME \A q \in Processes \ {p} :
               /\ pc'[q] = pc[q] /\ name'[q] = name[q] /\ cred'[q] = cred[q]
               /\ store'[q] = store[q] /\ cfg'[q] = cfg[q],
             UNCHANGED <<kept, promised>>, InKeyring(config)', OnKeyring(p)'
      PROVE  OverlapInv'
  BY <1>c, OverlapReduces
<1>d. ASSUME Exit(p), UNCHANGED <<files, promised>>
      PROVE  OverlapInv'
  BY <1>a, <1>c, <1>d, ExitOverlap DEF files, InKeyring
<1>1. ASSUME NEW n \in Names, StartLogout(p, n)
      PROVE  OverlapInv'
  <2>1. /\ pc' = [pc EXCEPT ![p] = "logout"] /\ name' = [name EXCEPT ![p] = n]
        /\ UNCHANGED <<files, store, cfg>>
        /\ \A q \in Processes \ {p} : cred'[q] = cred[q]
    BY <1>1, <1>b DEF StartLogout, Goto
  <2>2. \A m \in Names : promised'[m] = promised[m] \/ promised'[m] \in {p, Nothing}
    BY <1>1 DEF StartLogout, Claim, TypeOK
  <2>3. InKeyring(config)' /\ OnKeyring(p)'
    BY <1>a, <1>b, <2>1 DEF OnKeyring, InKeyring, files
  <2> QED
    BY <1>b, <2>1, <2>2, <2>3, OverlapReduces DEF files
<1>2. CASE LoadForLogout(p)
  <2>1. CASE Exit(p)
    BY <1>2, <1>d, <2>1 DEF LoadForLogout
  <2>2. CASE ~Exit(p)
    <3>1. /\ pc' = [pc EXCEPT ![p] = "deleteSecret"] /\ pc[p] = "logout"
          /\ cfg' = [cfg EXCEPT ![p] = config]
          /\ store' = [store EXCEPT ![p] = config.profiles[name[p]].store]
          /\ config.profiles[name[p]] # Nothing
          /\ UNCHANGED <<files, promised, name, cred>>
      BY <1>2, <1>b, <2>2 DEF LoadForLogout, Goto, locals
    <3>2. InKeyring(config)' /\ OnKeyring(p)'
      BY <1>a, <1>b, <3>1 DEF OnKeyring, InKeyring, files, Secret
    <3> QED
      BY <1>b, <1>c, <3>1, <3>2 DEF files
  <2> QED
    BY <2>1, <2>2
<1>3. CASE DeleteSecret(p)
  <2>1. /\ Put(p, Secret(p), Nothing, "deleteToken") /\ pc[p] = "deleteSecret" /\ store[p] = "keyring"
        /\ UNCHANGED <<config, promised, name, cred, secret, store, cfg>>
    BY <1>3, <1>a DEF DeleteSecret, OnKeyring
  <2>2. /\ Token(p) \in Entries /\ Secret(p) \in Entries /\ Secret(p) # Token(p)
        /\ name[p] \in Names
    BY <1>a, <2>1, EntriesApart
  <2> QED
    BY <2>1, <2>2, PutOverlap
<1>4. CASE DeleteToken(p)
  <2>1. /\ Put(p, Token(p), Nothing, "dropProfile") /\ pc[p] = "deleteToken" /\ store[p] = "keyring"
        /\ UNCHANGED <<config, promised, name, cred, secret, store, cfg>>
    BY <1>4, <1>a DEF DeleteToken, OnKeyring
  <2>2. /\ Token(p) \in Entries /\ Secret(p) \in Entries /\ Secret(p) # Token(p)
        /\ name[p] \in Names
    BY <1>a, <2>1, EntriesApart
  <2> QED
    BY <2>1, <2>2, PutOverlap
<1>5. CASE DropProfile(p)
  <2>1. /\ pc' = [pc EXCEPT ![p] = "loggedOut"] /\ pc[p] = "dropProfile"
        /\ UNCHANGED <<kept, promised, name, cred, store, cfg>>
        /\ config'.profiles = [cfg[p].profiles EXCEPT ![name[p]] = Nothing]
    BY <1>5 DEF DropProfile, Goto, locals
  <2>2. cfg[p].profiles \in [Names -> ProfileType \cup {Nothing}] /\ InKeyring(cfg[p])
    BY <1>a, <1>b DEF OnKeyring, ConfigType
  <2>3. InKeyring(config)'
    BY <2>1, <2>2 DEF InKeyring
  <2>4. OnKeyring(p)'
    BY <1>a, <1>b, <2>1 DEF OnKeyring, InKeyring
  <2> QED
    BY <1>b, <1>c, <2>1, <2>3, <2>4
<1>6. CASE LoggedOut(p)
  <2>1. /\ Exit(p) /\ UNCHANGED files
        /\ \A n \in Names : promised'[n] = promised[n] \/ promised'[n] = "removed"
    BY <1>6, <1>a DEF LoggedOut, Promise, TypeOK
  <2>2. InKeyring(config)'
    BY <1>a, <2>1 DEF InKeyring, files
  <2> QED
    BY <2>1, <2>2, ExitOverlap, OverlapReduces DEF files
<1> QED
  BY <1>1, <1>2, <1>3, <1>4, <1>5, <1>6 DEF Logout

(* Every step of another command on the keyring keeps it. *)
LEMMA RunOverlap ==
  ASSUME TypeOK, WorkInv, ClaimInv, shared # Nothing, shared' = shared, OverlapInv,
         NEW p \in Processes, Run(p), OnOneKeyring(p)
  PROVE  OverlapInv'
<1> USE ProfilesAssumption DEF LoginSteps, LogoutSteps, RunSteps, Copied, Written, Recorded
<1>a. /\ InKeyring(config) /\ OnKeyring(p)
      /\ pc[p] # "idle" => name[p] \in Names
  BY DEF OverlapInv, WorkInv
<1>b. /\ pc \in [Processes -> PC] /\ name \in [Processes -> Names \cup {Nothing}]
      /\ cred \in [Processes -> Credentials \cup {Nothing}] /\ store \in [Processes -> Stores]
      /\ cfg \in [Processes -> ConfigType] /\ config \in ConfigType
  BY DEF TypeOK
<1>c. ASSUME \A q \in Processes \ {p} :
               /\ pc'[q] = pc[q] /\ name'[q] = name[q] /\ cred'[q] = cred[q]
               /\ store'[q] = store[q] /\ cfg'[q] = cfg[q],
             UNCHANGED <<kept, promised>>, InKeyring(config)', OnKeyring(p)'
      PROVE  OverlapInv'
  BY <1>c, OverlapReduces
<1>d. ASSUME Exit(p), UNCHANGED <<files, promised>>
      PROVE  OverlapInv'
  BY <1>a, <1>c, <1>d, ExitOverlap DEF files, InKeyring
<1>1. ASSUME NEW n \in Names, StartRun(p, n)
      PROVE  OverlapInv'
  <2>1. /\ pc' = [pc EXCEPT ![p] = "resolve"] /\ name' = [name EXCEPT ![p] = n]
        /\ UNCHANGED <<files, promised, cred, store, cfg>>
    BY <1>1 DEF StartRun, Goto
  <2>2. InKeyring(config)' /\ OnKeyring(p)'
    BY <1>a, <1>b, <2>1 DEF OnKeyring, InKeyring, files
  <2> QED
    BY <1>b, <1>c, <2>1, <2>2 DEF files
<1>2. CASE Resolve(p)
  <2>1. CASE Exit(p)
    BY <1>2, <1>d, <2>1 DEF Resolve
  <2>2. CASE ~Exit(p)
    <3>1. /\ pc' = [pc EXCEPT ![p] = "readSecret"] /\ pc[p] = "resolve"
          /\ config.profiles[name[p]] # Nothing
          /\ store' = [store EXCEPT ![p] = config.profiles[name[p]].store]
          /\ \A q \in Processes \ {p} : cred'[q] = cred[q]
          /\ UNCHANGED <<files, promised, name, cfg>>
      BY <1>2, <1>b, <2>2 DEF Resolve, Goto, locals
    <3>2. InKeyring(config)' /\ OnKeyring(p)'
      BY <1>a, <1>b, <3>1 DEF OnKeyring, InKeyring, files, Secret
    <3> QED
      BY <1>b, <1>c, <3>1, <3>2 DEF files
  <2> QED
    BY <2>1, <2>2
<1>3. CASE ReadSecret(p)
  <2>1. CASE Exit(p)
    BY <1>3, <1>d, <2>1 DEF ReadSecret
  <2>2. CASE ~Exit(p)
    <3>1. /\ pc' = [pc EXCEPT ![p] = "loadToken"] /\ pc[p] = "readSecret"
          /\ UNCHANGED <<files, promised, name, cred, store, cfg>>
      BY <1>3, <1>b, <2>2 DEF ReadSecret, Goto, locals
    <3>2. InKeyring(config)' /\ OnKeyring(p)'
      BY <1>a, <1>b, <3>1 DEF OnKeyring, InKeyring, files, Secret
    <3> QED
      BY <1>b, <1>c, <3>1, <3>2 DEF files
  <2> QED
    BY <2>1, <2>2
<1>4. CASE LoadToken(p)
  <2>1. PICK next \in {"served", "dropToken", "mint"} : pc' = [pc EXCEPT ![p] = next]
    BY <1>4 DEF LoadToken, Goto
  <2>2. UNCHANGED <<files, promised, name, cred, store, cfg>> /\ pc[p] = "loadToken"
    BY <1>4 DEF LoadToken, locals
  <2>3. InKeyring(config)' /\ OnKeyring(p)'
    BY <1>a, <1>b, <2>1, <2>2 DEF OnKeyring, InKeyring, files
  <2> QED
    BY <1>b, <1>c, <2>1, <2>2, <2>3 DEF files
<1>5. CASE DropToken(p)
  <2>1. /\ Put(p, Token(p), Nothing, "mint") /\ pc[p] = "dropToken" /\ store[p] = "keyring"
        /\ UNCHANGED <<config, promised, name, cred, secret, store, cfg>>
    BY <1>5, <1>a DEF DropToken, OnKeyring
  <2>2. /\ Token(p) \in Entries /\ Secret(p) \in Entries /\ Secret(p) # Token(p)
        /\ name[p] \in Names
    BY <1>a, <2>1, EntriesApart
  <2> QED
    BY <2>1, <2>2, PutOverlap
<1>6. CASE Mint(p)
  <2>1. CASE Exit(p)
    BY <1>6, <1>d, <2>1 DEF Mint
  <2>2. CASE ~Exit(p)
    <3>1. /\ pc' = [pc EXCEPT ![p] = "storeToken"] /\ pc[p] = "mint"
          /\ UNCHANGED <<files, promised, name, cred, store, cfg>>
      BY <1>6, <1>b, <2>2 DEF Mint, Goto, locals
    <3>2. InKeyring(config)' /\ OnKeyring(p)'
      BY <1>a, <1>b, <3>1 DEF OnKeyring, InKeyring, files, Secret
    <3> QED
      BY <1>b, <1>c, <3>1, <3>2 DEF files
  <2> QED
    BY <2>1, <2>2
<1>7. CASE StoreToken(p)
  <2>1. /\ Put(p, Token(p), cred[p], "served") /\ pc[p] = "storeToken" /\ store[p] = "keyring"
        /\ UNCHANGED <<config, promised, name, cred, secret, store, cfg>>
    BY <1>7, <1>a DEF StoreToken, OnKeyring
  <2>2. /\ Token(p) \in Entries /\ Secret(p) \in Entries /\ Secret(p) # Token(p)
        /\ name[p] \in Names
    BY <1>a, <2>1, EntriesApart
  <2> QED
    BY <2>1, <2>2, PutOverlap
<1>8. CASE Served(p)
  BY <1>8, <1>d DEF Served
<1> QED
  BY <1>1, <1>2, <1>3, <1>4, <1>5, <1>6, <1>7, <1>8 DEF Run

(* Every step of commands one after another, or on the keyring, keeps both *)
(* invariants.                                                             *)
LEMMA CommandsStep ==
  TypeOK /\ WorkInv /\ ClaimInv /\ ApartInv /\ OverlapInv
    /\ [CommandsNext]_<<shared, vars>> => ApartInv' /\ OverlapInv'
<1> SUFFICES ASSUME TypeOK, WorkInv, ClaimInv, ApartInv, OverlapInv,
                    [CommandsNext]_<<shared, vars>>
             PROVE  ApartInv' /\ OverlapInv'
  OBVIOUS
<1>1. CASE UNCHANGED <<shared, vars>>
  <2>1. ApartInv'
    BY <1>1 DEF vars, files, locals, ApartInv, Alone, Behind, Apart, Secret, Token,
       TokenServesProfile, LoginKept
  <2>2. OverlapInv'
    BY <1>1 DEF vars, files, locals, OverlapInv, OnKeyring, InKeyring, Secret
  <2> QED
    BY <2>1, <2>2
<1>2. CASE CommandsNext
  <2>1. PICK p \in Processes :
          /\ shared = Nothing => Apart(p)
          /\ Login(p) \/ Logout(p) \/ Run(p) \/ Stop(p)
          /\ shared # Nothing => OnOneKeyring(p)
    BY <1>2 DEF CommandsNext
  <2>2. shared' = shared
    BY <1>2 DEF CommandsNext
  <2>3. ASSUME shared = Nothing
        PROVE  ApartInv'
    <3>1. CASE Stop(p)
      <4>1. Exit(p) /\ UNCHANGED <<files, promised>>
        BY <3>1 DEF Stop
      <4>2. TokenServesProfile' /\ LoginKept'
        BY <2>3, <4>1, NothingWrittenApart DEF ApartInv
      <4> QED
        BY <2>1, <2>2, <2>3, <4>1, <4>2, ExitApart, ApartReduces
    <3> QED
      BY <2>1, <2>2, <2>3, <3>1, LoginApart, LogoutApart, RunApart
  <2>4. ASSUME shared # Nothing
        PROVE  OverlapInv'
    <3>1. CASE Stop(p)
      <4>1. Exit(p) /\ UNCHANGED <<files, promised>>
        BY <3>1 DEF Stop
      <4>2. InKeyring(config)'
        BY <2>4, <4>1 DEF OverlapInv, InKeyring, files
      <4> QED
        BY <2>2, <2>4, <4>1, <4>2, ExitOverlap, OverlapReduces DEF files
    <3> QED
      BY <2>1, <2>2, <2>4, <3>1, LoginOverlap, LogoutOverlap, RunOverlap
  <2> QED
    BY <2>2, <2>3, <2>4 DEF ApartInv, OverlapInv
<1> QED
  BY <1>1, <1>2

(* The invariants hold before any command, and of every sequence of        *)
(* commands.                                                               *)
LEMMA CommandsHold ==
  CommandsSpec => [](TypeOK /\ WorkInv /\ ClaimInv /\ ApartInv /\ OverlapInv)
<1>1. CommandsInit => Init
  BY DEF CommandsInit
<1>2. Init => TypeOK /\ WorkInv
  <2>1. NoProfiles \in ConfigType /\ [e \in Entries |-> Nothing] \in StoreType
    BY DEF NoProfiles, ConfigType, StoreType
  <2> QED
    BY <2>1 DEF Init, TypeOK, WorkInv, PC, Stores, LoginSteps, RunSteps
<1>3. Init => ClaimInv
  BY DEF Init, ClaimInv, Changing, LoginSteps, LogoutSteps
<1>4. CommandsInit => ApartInv
  BY ProfilesAssumption DEF CommandsInit, Init, ApartInv, Alone, Behind, Copied, Recorded,
     Resolved, Written, LoginSteps, LogoutSteps, TokenServesProfile, LoginKept, NoProfiles
<1>5. CommandsInit => OverlapInv
  BY ProfilesAssumption DEF CommandsInit, Init, OverlapInv, OnKeyring, InKeyring, Written,
     Recorded, NoProfiles
<1> QED
  BY <1>1, <1>2, <1>3, <1>4, <1>5, CommandsAreSteps, TypeStep, WorkStep, ClaimStep,
     CommandsStep, PTL DEF CommandsSpec

(* For any number of commands one after another, with any number of        *)
(* profiles and credentials, a keyring that comes and goes and a stop      *)
(* after any step: the token stored for a profile was minted with the      *)
(* credential the profile has now (resolve.go Save, token.go).             *)
THEOREM TokensServe == CommandsSpec => []TokenServesApart
<1>1. ApartInv => TokenServesApart
  BY DEF ApartInv, TokenServesApart
<1> QED
  BY <1>1, CommandsHold, PTL

(* And what a login told its user holds until the next command for the     *)
(* name; a logout that reports success has left nothing in the store the   *)
(* profile was on record with, which says nothing of a secret an earlier   *)
(* login left in the other store (auth.go login and logout, resolve.go     *)
(* Save and Delete).                                                       *)
THEOREM WordsHold == CommandsSpec => []WordKeptApart
<1>1. ASSUME ApartInv, shared = Nothing
      PROVE  LogoutEmptiesStore
  <2>1. \A p \in Processes : Behind(p)
    BY <1>1 DEF ApartInv
  <2> QED
    BY <2>1 DEF Behind, LogoutEmptiesStore
<1>2. ApartInv => WordKeptApart
  BY <1>1 DEF ApartInv, WordKeptApart
<1> QED
  BY <1>2, CommandsHold, PTL

(* A login's secret outlives whatever other commands do to other profiles, *)
(* one after another in any store, or overlapping on the keyring (store.go *)
(* Set and Delete).                                                        *)
THEOREM SecretsStay == CommandsSpec => []SecretKept
<1>1. ASSUME TypeOK, ApartInv, OverlapInv
      PROVE  SecretKept
  <2>1. CASE shared = Nothing
    <3>1. LoginKept
      BY <1>1, <2>1 DEF ApartInv
    <3> QED
      BY <1>1, <3>1, OnRecord DEF LoginKept, SecretKept
  <2>2. CASE shared # Nothing
    BY <1>1, <2>2 DEF OverlapInv, SecretKept, Stores
  <2> QED
    BY <2>1, <2>2
<1> QED
  BY <1>1, CommandsHold, PTL

=============================================================================
