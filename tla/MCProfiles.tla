----------------------------- MODULE MCProfiles -----------------------------
(***************************************************************************)
(* Instances of Profiles for TLC.  Either commands come one after another, *)
(* with two credentials and a keyring that comes and goes, or they overlap *)
(* on a keyring and all log in with one credential.  Credentials are       *)
(* interchangeable, and so are processes that run the same commands.       *)
(***************************************************************************)
EXTENDS Profiles, TLC

VARIABLE shared   \* the one credential of commands that overlap, or Nothing

CommandsInit == Init /\ shared \in Credentials \cup {Nothing}

Apart(p) == \A q \in Processes \ {p} : pc[q] = "idle"

OnOneKeyring(p) ==
  /\ cred'[p] \in {shared, Nothing}
  /\ pc'[p] = "setSecret" => store'[p] = "keyring"

CommandsNext ==
  /\ UNCHANGED shared
  /\ \E p \in Processes :
       /\ shared = Nothing => Apart(p)
       /\ Login(p) \/ Logout(p) \/ Run(p) \/ Stop(p)
       /\ shared # Nothing => OnOneKeyring(p)

CommandsSpec == CommandsInit /\ [][CommandsNext]_<<shared, vars>>

(* The properties that commands that overlap may break, for those that do  *)
(* not: see Profiles.                                                      *)
TokenServesApart == shared = Nothing => TokenServesProfile

(* After any sequence of commands that may each stop half way, a login's   *)
(* word holds until the next command for the name (auth.go login), and a   *)
(* logout that reports success leaves nothing of the name behind, as far   *)
(* as the store on record goes (resolve.go Delete).                        *)
WordKeptApart == shared = Nothing => LoginKept /\ LogoutEmptiesStore

-----------------------------------------------------------------------------
(* The inductive invariants behind the theorems of ProfilesProofs about    *)
(* CommandsSpec. *)

\* Where a command has a copy of config.json it will write back, where a login
\* has stored its secret and where it has recorded its profile, and where
\* another command goes by the profile.
Copied == {"setSecret", "clearToken", "saveConfig", "saveDefault",
           "deleteSecret", "deleteToken", "dropProfile"}
Recorded == {"saveToken", "asDefault", "saveDefault", "loggedIn"}
Written == {"clearToken", "saveConfig"} \cup Recorded
Resolved == {"readSecret", "loadToken", "dropToken", "mint", "storeToken"}

\* Of commands one after another the one at work has claimed its profile, and
\* its copies are what the files hold.
Alone(p) ==
  /\ pc[p] # "idle" => Apart(p)
  /\ pc[p] = "idle" => doc[p] = Nothing
  /\ doc[p] # Nothing => doc[p] = kept["file"]
  /\ pc[p] \in Copied => cfg[p] = config
  /\ pc[p] \in LoginSteps \cup LogoutSteps => promised[name[p]] = p

\* And the steps it has behind it stand.
Behind(p) ==
  /\ pc[p] \in Recorded \cup Resolved =>
       config.profiles[name[p]] = [cred |-> cred[p], store |-> store[p]]
  /\ pc[p] \in Written => kept[store[p]][Secret(p)] = cred[p]
  /\ pc[p] = "saveConfig" => kept[store[p]][Token(p)] = Nothing
  /\ pc[p] \in {"deleteToken", "dropProfile", "loggedOut"} =>
       kept[store[p]][Secret(p)] = Nothing
  /\ pc[p] \in {"dropProfile", "loggedOut"} => kept[store[p]][Token(p)] = Nothing
  /\ pc[p] = "loggedOut" => config.profiles[name[p]] = Nothing

ApartInv ==
  shared = Nothing =>
    /\ \A p \in Processes : Alone(p) /\ Behind(p)
    /\ TokenServesProfile /\ LoginKept

\* Every profile of a configuration is in the keyring.
InKeyring(c) ==
  \A n \in Names : c.profiles[n] # Nothing => c.profiles[n].store = "keyring"

\* Of commands that overlap each uses the keyring, so the secret that a login
\* has stored there stays until another command claims the name.
OnKeyring(p) ==
  /\ InKeyring(cfg[p])
  /\ pc[p] \notin {"idle", "login", "logout", "resolve"} => store[p] = "keyring"
  /\ pc[p] \in Written /\ promised[name[p]] = p =>
       kept["keyring"][Secret(p)] = cred[p]

OverlapInv ==
  shared # Nothing =>
    /\ InKeyring(config)
    /\ \A p \in Processes : OnKeyring(p)
    /\ \A n \in Names : promised[n] \in Credentials =>
         kept["keyring"][<<n, "secret">>] = promised[n]

-----------------------------------------------------------------------------
Interchangeable == Permutations(Processes) \cup Permutations(Credentials)

=============================================================================
