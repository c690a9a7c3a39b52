------------------------------ MODULE Profiles ------------------------------
(***************************************************************************)
(* Stored profiles: internal/auth (resolve.go, config.go, store.go) as the *)
(* commands of internal/cli (auth.go, app.go) use it.  Each process runs   *)
(* one command of the tool after another: auth login, auth logout, or a    *)
(* command that calls the API.  The processes share config.json, the       *)
(* system's keyring, and credentials.json, with no lock between them.      *)
(*                                                                         *)
(* A credential stands for a client id, its secret and its scope.  Files   *)
(* are read and replaced whole (PrivateFile says when that is so); keyring *)
(* entries are set one by one.  The API's part of a token's life is in     *)
(* TokenCache: here a stored token is valid, run out or refused at will.   *)
(***************************************************************************)
EXTENDS Integers

CONSTANTS
  Processes,       \* runs of the tool at a time
  Names,           \* profile names
  Credentials,     \* credentials a login may bring
  Nothing,         \* no entry, no profile, no name
  KeyringAnswers   \* what Stores.KeyringAvailable may answer

Stores == {"keyring", "file"}
Entries == Names \X {"secret", "token"}
ProfileType == [cred : Credentials, store : Stores]
StoreType == [Entries -> Credentials \cup {Nothing}]

ASSUME ProfilesAssumption ==
  /\ Nothing \notin Names \cup Credentials \cup Processes
  /\ Nothing \notin ProfileType \cup StoreType
  /\ KeyringAnswers \subseteq BOOLEAN
  /\ "removed" \notin Credentials \cup Processes \cup {Nothing}
  /\ Credentials \cap Processes = {}

ConfigType ==
  [profiles : [Names -> ProfileType \cup {Nothing}], default : Names \cup {Nothing}]

NoProfiles == [profiles |-> [n \in Names |-> Nothing], default |-> Nothing]

VARIABLES
  config,    \* config.json
  kept,      \* the entries of each store: the credential they belong to
  promised,  \* what the last login or logout of a name told its user; while
             \* one is under way and no other has overlapped it, its process
  pc,        \* where each process is in its command
  name,      \* the profile of the command
  cred,      \* the credential it logs in with, or resolved
  secret,    \* the secret it resolved
  store,     \* the store it uses
  cfg,       \* its copy of config.json
  doc        \* its copy of credentials.json, within one Set or Delete

files == <<config, kept>>
locals == <<name, cred, secret, store, cfg, doc>>
vars == <<files, promised, pc, locals>>

-----------------------------------------------------------------------------
LoginSteps == {"login", "setSecret", "clearToken", "saveConfig", "saveToken",
               "asDefault", "saveDefault", "loggedIn"}
LogoutSteps == {"logout", "deleteSecret", "deleteToken", "dropProfile", "loggedOut"}
RunSteps == {"resolve", "readSecret", "loadToken", "dropToken", "mint", "storeToken", "served"}
PC == LoginSteps \cup LogoutSteps \cup RunSteps \cup {"idle"}

Goto(p, state) == pc' = [pc EXCEPT ![p] = state]

\* The process ends.
Exit(p) ==
  /\ Goto(p, "idle")
  /\ name' = [name EXCEPT ![p] = Nothing]
  /\ cred' = [cred EXCEPT ![p] = Nothing]
  /\ secret' = [secret EXCEPT ![p] = Nothing]
  /\ store' = [store EXCEPT ![p] = "file"]
  /\ cfg' = [cfg EXCEPT ![p] = NoProfiles]
  /\ doc' = [doc EXCEPT ![p] = Nothing]

Init ==
  /\ config = NoProfiles
  /\ kept = [s \in Stores |-> [e \in Entries |-> Nothing]]
  /\ promised = [n \in Names |-> Nothing]
  /\ pc = [p \in Processes |-> "idle"]
  /\ name = [p \in Processes |-> Nothing]
  /\ cred = [p \in Processes |-> Nothing]
  /\ secret = [p \in Processes |-> Nothing]
  /\ store = [p \in Processes |-> "file"]
  /\ cfg = [p \in Processes |-> NoProfiles]
  /\ doc = [p \in Processes |-> Nothing]

\* Mutant of StoreFor: where the secret came from is recorded as its store.
StoreForEnvironment(answers) == IF answers THEN "keyring" ELSE "environment"

\* Stores.ForNewSecret
StoreFor(answers) == IF answers THEN "keyring" ELSE "file"

\* Set or Delete of one entry: at once in the keyring; the file is loaded,
\* and replaced with the entry changed.
Put(p, entry, value, next) ==
  \/ /\ store[p] = "keyring"
     /\ kept' = [kept EXCEPT !["keyring"][entry] = value]
     /\ Goto(p, next)
     /\ UNCHANGED doc
  \/ /\ store[p] = "file"
     /\ doc[p] = Nothing
     /\ doc' = [doc EXCEPT ![p] = kept["file"]]
     /\ UNCHANGED <<kept, pc>>
  \/ /\ store[p] = "file"
     /\ doc[p] # Nothing
     /\ kept' = [kept EXCEPT !["file"] = [doc[p] EXCEPT ![entry] = value]]
     /\ doc' = [doc EXCEPT ![p] = Nothing]
     /\ Goto(p, next)

\* Mutant of Token: the token is filed under the profile's own name.
TokenUnsuffixed(p) == <<name[p], "secret">>

Secret(p) == <<name[p], "secret">>
Token(p) == <<name[p], "token">>

\* p begins to change the profile n: what other commands promise of it at
\* the same time, nobody can tell.
Claim(p, n) ==
  promised' = [promised EXCEPT ![n] =
    IF \E q \in Processes : pc[q] \in LoginSteps \cup LogoutSteps /\ name[q] = n
    THEN Nothing ELSE p]

Promise(p, what) ==
  promised' = [promised EXCEPT ![name[p]] = IF @ = p THEN what ELSE @]

\* Any step may be the last: an error is returned, or the process is killed.
Stop(p) ==
  /\ pc[p] # "idle"
  /\ Exit(p)
  /\ UNCHANGED <<files, promised>>

-----------------------------------------------------------------------------
(* auth login: the credential was read, and accepted by the API. *)

StartLogin(p, n, c) ==
  /\ pc[p] = "idle"
  /\ name' = [name EXCEPT ![p] = n]
  /\ cred' = [cred EXCEPT ![p] = c]
  /\ Claim(p, n)
  /\ Goto(p, "login")
  /\ UNCHANGED <<files, secret, store, cfg, doc>>

\* Resolver.Save begins: the configuration, and the store for the secret.
LoadForLogin(p) ==
  /\ pc[p] = "login"
  /\ cfg' = [cfg EXCEPT ![p] = config]
  /\ \E answers \in KeyringAnswers : store' = [store EXCEPT ![p] = StoreFor(answers)]
  /\ Goto(p, "setSecret")
  /\ UNCHANGED <<files, promised, name, cred, secret, doc>>

SetSecret(p) ==
  /\ pc[p] = "setSecret"
  /\ Put(p, Secret(p), cred[p], "clearToken")
  /\ UNCHANGED <<config, promised, name, cred, secret, store, cfg>>

\* Mutant of ClearToken: the old token is left for the new credential.
ClearTokenNot(p) ==
  /\ pc[p] = "clearToken"
  /\ Goto(p, "saveConfig")
  /\ UNCHANGED <<files, promised, locals>>

ClearToken(p) ==
  /\ pc[p] = "clearToken"
  /\ Put(p, Token(p), Nothing, "saveConfig")
  /\ UNCHANGED <<config, promised, name, cred, secret, store, cfg>>

\* Mutant of SaveConfig: the store of the first login stays on record.
SaveConfigKeepingStore(p) ==
  LET before == cfg[p].profiles[name[p]]
      where == IF before = Nothing THEN store[p] ELSE before.store
  IN
  /\ pc[p] = "saveConfig"
  /\ config' =
       [profiles |-> [cfg[p].profiles EXCEPT ![name[p]] = [cred |-> cred[p], store |-> where]],
        default |-> IF cfg[p].default = Nothing THEN name[p] ELSE cfg[p].default]
  /\ Goto(p, "saveToken")
  /\ UNCHANGED <<kept, promised, locals>>

\* The whole of config.json as it was read, with this profile in it.
SaveConfig(p) ==
  /\ pc[p] = "saveConfig"
  /\ config' =
       [profiles |-> [cfg[p].profiles EXCEPT ![name[p]] = [cred |-> cred[p], store |-> store[p]]],
        default |-> IF cfg[p].default = Nothing THEN name[p] ELSE cfg[p].default]
  /\ Goto(p, "saveToken")
  /\ UNCHANGED <<kept, promised, locals>>

\* The token the check minted is stored, when it is still there.
SaveToken(p) ==
  /\ pc[p] = "saveToken"
  /\ \E next \in {"asDefault", "loggedIn"} :
       \/ Put(p, Token(p), cred[p], next)
       \/ /\ doc[p] = Nothing
          /\ Goto(p, next)
          /\ UNCHANGED <<kept, doc>>
  /\ UNCHANGED <<config, promised, name, cred, secret, store, cfg>>

\* --default: Resolver.SetDefault reads the configuration anew.
LoadForDefault(p) ==
  /\ pc[p] = "asDefault"
  /\ \/ /\ config.profiles[name[p]] = Nothing
        /\ Exit(p)
     \/ /\ config.profiles[name[p]] # Nothing
        /\ cfg' = [cfg EXCEPT ![p] = config]
        /\ Goto(p, "saveDefault")
        /\ UNCHANGED <<name, cred, secret, store, doc>>
  /\ UNCHANGED <<files, promised>>

SaveDefault(p) ==
  /\ pc[p] = "saveDefault"
  /\ config' = [cfg[p] EXCEPT !.default = name[p]]
  /\ Goto(p, "loggedIn")
  /\ UNCHANGED <<kept, promised, locals>>

\* "Logged in ...; profile ... stored in the ..."
LoggedIn(p) ==
  /\ pc[p] = "loggedIn"
  /\ Promise(p, cred[p])
  /\ Exit(p)
  /\ UNCHANGED files

-----------------------------------------------------------------------------
(* auth logout: Resolver.Delete *)

StartLogout(p, n) ==
  /\ pc[p] = "idle"
  /\ name' = [name EXCEPT ![p] = n]
  /\ Claim(p, n)
  /\ Goto(p, "logout")
  /\ UNCHANGED <<files, cred, secret, store, cfg, doc>>

LoadForLogout(p) ==
  /\ pc[p] = "logout"
  /\ \/ /\ config.profiles[name[p]] = Nothing
        /\ Exit(p)
     \/ /\ config.profiles[name[p]] # Nothing
        /\ cfg' = [cfg EXCEPT ![p] = config]
        /\ store' = [store EXCEPT ![p] = config.profiles[name[p]].store]
        /\ Goto(p, "deleteSecret")
        /\ UNCHANGED <<name, cred, secret, doc>>
  /\ UNCHANGED <<files, promised>>

DeleteSecret(p) ==
  /\ pc[p] = "deleteSecret"
  /\ Put(p, Secret(p), Nothing, "deleteToken")
  /\ UNCHANGED <<config, promised, name, cred, secret, store, cfg>>

\* Mutant of DeleteToken: logout leaves the token in the store.
DeleteTokenNot(p) ==
  /\ pc[p] = "deleteToken"
  /\ Goto(p, "dropProfile")
  /\ UNCHANGED <<files, promised, locals>>

DeleteToken(p) ==
  /\ pc[p] = "deleteToken"
  /\ Put(p, Token(p), Nothing, "dropProfile")
  /\ UNCHANGED <<config, promised, name, cred, secret, store, cfg>>

\* firstName, whatever the order of the names.
FirstName(profiles) ==
  LET left == {n \in Names : profiles[n] # Nothing}
  IN IF left = {} THEN Nothing ELSE CHOOSE n \in left : TRUE

\* Mutant of DropProfile: the default goes with its profile, and no other
\* profile takes its place.
DropProfileOnly(p) ==
  /\ pc[p] = "dropProfile"
  /\ config' = [profiles |-> [cfg[p].profiles EXCEPT ![name[p]] = Nothing],
                default |-> IF cfg[p].default = name[p] THEN Nothing ELSE cfg[p].default]
  /\ Goto(p, "loggedOut")
  /\ UNCHANGED <<kept, promised, locals>>

DropProfile(p) ==
  LET left == [cfg[p].profiles EXCEPT ![name[p]] = Nothing] IN
  /\ pc[p] = "dropProfile"
  /\ config' = [profiles |-> left,
                default |-> IF cfg[p].default = name[p] THEN FirstName(left)
                            ELSE cfg[p].default]
  /\ Goto(p, "loggedOut")
  /\ UNCHANGED <<kept, promised, locals>>

\* "Profile ... removed."
LoggedOut(p) ==
  /\ pc[p] = "loggedOut"
  /\ Promise(p, "removed")
  /\ Exit(p)
  /\ UNCHANGED files

-----------------------------------------------------------------------------
(* A command that calls the API: App.Client and its first request. *)

StartRun(p, n) ==
  /\ pc[p] = "idle"
  /\ name' = [name EXCEPT ![p] = n]
  /\ Goto(p, "resolve")
  /\ UNCHANGED <<files, promised, cred, secret, store, cfg, doc>>

\* Resolver.load: config.json ...
Resolve(p) ==
  LET profile == config.profiles[name[p]] IN
  /\ pc[p] = "resolve"
  /\ \/ /\ profile = Nothing
        /\ Exit(p)
     \/ /\ profile # Nothing
        /\ cred' = [cred EXCEPT ![p] = profile.cred]
        /\ store' = [store EXCEPT ![p] = profile.store]
        /\ Goto(p, "readSecret")
        /\ UNCHANGED <<name, secret, cfg, doc>>
  /\ UNCHANGED <<files, promised>>

\* ... and then the store, which may have moved on.
ReadSecret(p) ==
  LET found == kept[store[p]][Secret(p)] IN
  /\ pc[p] = "readSecret"
  /\ \/ /\ found = Nothing      \* "run transpareo auth login again"
        /\ Exit(p)
     \/ /\ found # Nothing
        /\ secret' = [secret EXCEPT ![p] = found]
        /\ Goto(p, "loadToken")
        /\ UNCHANGED <<name, cred, store, cfg, doc>>
  /\ UNCHANGED <<files, promised>>

\* The stored token serves, or the API refuses it; or there is none that
\* is valid.
LoadToken(p) ==
  /\ pc[p] = "loadToken"
  /\ \/ /\ kept[store[p]][Token(p)] # Nothing
        /\ \E next \in {"served", "dropToken"} : Goto(p, next)
     \/ Goto(p, "mint")
  /\ UNCHANGED <<files, promised, locals>>

DropToken(p) ==
  /\ pc[p] = "dropToken"
  /\ Put(p, Token(p), Nothing, "mint")
  /\ UNCHANGED <<config, promised, name, cred, secret, store, cfg>>

\* The token endpoint wants the secret of this very client id.
Mint(p) ==
  /\ pc[p] = "mint"
  /\ \/ /\ secret[p] = cred[p]
        /\ Goto(p, "storeToken")
        /\ UNCHANGED locals
     \/ /\ secret[p] # cred[p]
        /\ Exit(p)
  /\ UNCHANGED <<files, promised>>

StoreToken(p) ==
  /\ pc[p] = "storeToken"
  /\ Put(p, Token(p), cred[p], "served")
  /\ UNCHANGED <<config, promised, name, cred, secret, store, cfg>>

Served(p) ==
  /\ pc[p] = "served"
  /\ Exit(p)
  /\ UNCHANGED <<files, promised>>

-----------------------------------------------------------------------------
Login(p) ==
  \/ \E n \in Names, c \in Credentials : StartLogin(p, n, c)
  \/ LoadForLogin(p) \/ SetSecret(p) \/ ClearToken(p) \/ SaveConfig(p)
  \/ SaveToken(p) \/ LoadForDefault(p) \/ SaveDefault(p) \/ LoggedIn(p)

Logout(p) ==
  \/ \E n \in Names : StartLogout(p, n)
  \/ LoadForLogout(p) \/ DeleteSecret(p) \/ DeleteToken(p)
  \/ DropProfile(p) \/ LoggedOut(p)

Run(p) ==
  \/ \E n \in Names : StartRun(p, n)
  \/ Resolve(p) \/ ReadSecret(p) \/ LoadToken(p) \/ DropToken(p)
  \/ Mint(p) \/ StoreToken(p) \/ Served(p)

Next == \E p \in Processes : Login(p) \/ Logout(p) \/ Run(p) \/ Stop(p)

Spec == Init /\ [][Next]_vars

-----------------------------------------------------------------------------
TypeOK ==
  /\ config \in ConfigType
  /\ kept \in [Stores -> StoreType]
  /\ promised \in [Names -> Credentials \cup Processes \cup {Nothing, "removed"}]
  /\ pc \in [Processes -> PC]
  /\ name \in [Processes -> Names \cup {Nothing}]
  /\ cred \in [Processes -> Credentials \cup {Nothing}]
  /\ secret \in [Processes -> Credentials \cup {Nothing}]
  /\ store \in [Processes -> Stores]
  /\ cfg \in [Processes -> ConfigType]
  /\ doc \in [Processes -> StoreType \cup {Nothing}]

\* The default names a profile, and there is one as soon as there are any.
Selectable(c) ==
  /\ c.default # Nothing => c.profiles[c.default] # Nothing
  /\ c.default = Nothing => \A n \in Names : c.profiles[n] = Nothing

(* Whatever commands overlap and wherever they stop, the default profile   *)
(* exists, and some profile is the default while there is any (resolve.go  *)
(* Save, Delete, SetDefault).                                              *)
DefaultExists == Selectable(config)

(* The token stored for a profile was minted with the credential the       *)
(* profile has now (resolve.go:194, "A token minted for the previous       *)
(* credential or scope of this name must not serve the new one").          *)
TokenServesProfile ==
  \A n \in Names : config.profiles[n] # Nothing =>
    LET profile == config.profiles[n]
    IN kept[profile.store][<<n, "token">>] \in {Nothing, profile.cred}

(* What a login said it stored is there, under the name's profile and in   *)
(* the store on record, until a command for the same name (auth.go login,  *)
(* store.go Set).                                                          *)
LoginKept ==
  \A n \in Names : promised[n] \in Credentials =>
    /\ config.profiles[n] # Nothing
    /\ config.profiles[n].cred = promised[n]
    /\ kept[config.profiles[n].store][<<n, "secret">>] = promised[n]

(* A login's secret outlives what other processes do to other profiles     *)
(* (store.go KeyringStore.Set; the file store does not promise as much).   *)
SecretKept ==
  \A n \in Names : promised[n] \in Credentials =>
    \E s \in Stores : kept[s][<<n, "secret">>] = promised[n]

(* When a logout reports its profile as removed, the store the profile was *)
(* in has no secret and no token of the name (resolve.go Delete).          *)
LogoutEmptiesStore ==
  \A p \in Processes : pc[p] = "loggedOut" =>
    /\ config.profiles[name[p]] = Nothing
    /\ kept[store[p]][Secret(p)] = Nothing /\ kept[store[p]][Token(p)] = Nothing

-----------------------------------------------------------------------------
(* The inductive invariants behind the theorems of ProfilesProofs. *)

\* What a process at work holds.
WorkInv ==
  \A p \in Processes :
    /\ pc[p] # "idle" => name[p] \in Names
    /\ pc[p] \in LoginSteps => cred[p] \in Credentials
    /\ pc[p] \in RunSteps \ {"resolve"} => cred[p] \in Credentials

\* The processes that change a profile.
Changing(n) ==
  {p \in Processes : pc[p] \in LoginSteps \cup LogoutSteps /\ name[p] = n}

\* A process that claimed a profile changes it alone, and what was promised of
\* one that nobody changes stands.
ClaimInv ==
  \A n \in Names :
    /\ promised[n] \in Processes => Changing(n) \subseteq {promised[n]}
    /\ promised[n] \in Credentials => Changing(n) = {}

\* Every copy of config.json is one a command may write back.
DefaultInv ==
  /\ Selectable(config)
  /\ \A p \in Processes :
       /\ Selectable(cfg[p])
       /\ pc[p] = "saveDefault" => cfg[p].profiles[name[p]] # Nothing

=============================================================================
