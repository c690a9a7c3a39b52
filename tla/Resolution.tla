----------------------------- MODULE Resolution -----------------------------
(***************************************************************************)
(* Which workspace, credential and token a command works with              *)
(* (internal/auth/resolve.go Resolver, internal/cli/app.go App.Client):    *)
(* commands of one host, one after another, each with an environment, a    *)
(* --profile option and a project directory of its own, over stored        *)
(* profiles that keep a token each.  Logins are in Profiles, and two       *)
(* commands at a time in Profiles and TokenCache.                          *)
(*                                                                         *)
(* A token is the host that issued it, the client and the secret it was    *)
(* issued to.                                                              *)
(***************************************************************************)
CONSTANTS
  ProfileNames,  \* names of profiles
  Stored,        \* the host and the client of each, as it was saved
  EnvHosts,      \* what TRANSPAREO_HOST may say
  EnvClients,    \* what TRANSPAREO_CLIENT_ID may say
  Given,         \* the token of TRANSPAREO_TOKEN
  Unset          \* not given, not there

Maybe(S) == S \cup {Unset}

Hosts == EnvHosts \cup {Stored[n].host : n \in ProfileNames}
Clients == EnvClients \cup {Stored[n].client : n \in ProfileNames}

ASSUME ResolutionAssumption ==
  /\ Stored \in [ProfileNames -> [host: Hosts, client: Clients]]
  /\ Unset # Given /\ Unset \notin UNION {ProfileNames, Hosts, Clients}
  /\ "error" \notin Maybe(ProfileNames)

VARIABLES
  exists,    \* the profiles of config.json
  standard,  \* its default profile, which may be gone
  tokens,    \* the token kept beside the secret of each profile
  env,       \* the environment of the command
  option,    \* its --profile
  around,    \* what it finds of the project, the configuration, the secret
  phase,     \* "idle", "started", "resolved", "refused", "failed" or "sent"
  profile,   \* what Resolve made of it
  used,      \* the token of its requests
  mixed      \* whether a command replaced a part of a stored credential

stored == <<exists, standard>>
command == <<env, option, around>>
resolutionVars == <<stored, tokens, command, phase, profile, used, mixed>>

Environments ==
  [host: Maybe(EnvHosts), client: Maybe(EnvClients), secret: {Unset, "given"},
   token: {Unset, Given}, name: Maybe(ProfileNames)]

\* A file or a keyring that cannot be read is one that gives an error.
Surroundings ==
  [project: Maybe(ProfileNames), config: {"read"},
   secret: {"stored", Unset, "error"}]
    \cup [project: {Unset}, config: {"read", "error"}, secret: {"stored"}]
    \cup [project: {"error"}, config: {"read"}, secret: {"stored"}]

NoProfile ==
  [name |-> Unset, host |-> Unset, client |-> Unset, secret |-> Unset,
   token |-> Unset, kept |-> "nowhere"]

NoEnvironment ==
  [host |-> Unset, client |-> Unset, secret |-> Unset, token |-> Unset,
   name |-> Unset]
NothingSpecial == [project |-> Unset, config |-> "read", secret |-> "stored"]

ResolutionInit ==
  /\ exists \in SUBSET ProfileNames /\ standard \in Maybe(ProfileNames)
  /\ tokens = [n \in ProfileNames |-> Unset]
  /\ env = NoEnvironment /\ option = Unset /\ around = NothingSpecial
  /\ phase = "idle" /\ profile = NoProfile /\ used = Unset /\ mixed = FALSE

-----------------------------------------------------------------------------
(* Resolver *)

Or(x, y) == IF x # Unset THEN x ELSE y

\* ProfileName: the option, TRANSPAREO_PROFILE, the project, the default.
ProfileName == Or(option, Or(env.name, Or(around.project, standard)))

\* What ProfileName and load cannot go on without.
Unreadable ==
  LET name == ProfileName
  IN \/ name = "error"
     \/ around.config = "error"
     \/ name \in exists /\ around.secret = "error"

\* Mutant of Missing: a name from anywhere must exist.
MissingAny == ProfileName # Unset /\ ProfileName \notin exists

Missing == option # Unset /\ option \notin exists

\* load
Loaded ==
  LET name == ProfileName
  IN IF name \in exists
     THEN [name |-> name, host |-> Stored[name].host,
           client |-> Stored[name].client, secret |-> around.secret,
           token |-> Unset, kept |-> "store"]
     ELSE NoProfile

\* Mutant of ApplyEnv: a secret that is given leaves the store in use.
ApplyEnvUnmarked(p) ==
  [name |-> p.name, host |-> Or(env.host, p.host),
   client |-> Or(env.client, p.client), secret |-> Or(env.secret, p.secret),
   token |-> env.token,
   kept |-> IF env.token # Unset THEN "environment" ELSE p.kept]

ApplyEnv(p) ==
  [name |-> p.name, host |-> Or(env.host, p.host),
   client |-> Or(env.client, p.client), secret |-> Or(env.secret, p.secret),
   token |-> env.token,
   kept |-> IF {env.secret, env.token} = {Unset} THEN p.kept
            ELSE "environment"]

\* Mutant of Complete: a profile whose secret is gone will do.
CompleteHost(p) == p.host # Unset

Complete(p) ==
  /\ p.host # Unset
  /\ p.token # Unset \/ (p.client # Unset /\ p.secret # Unset)

-----------------------------------------------------------------------------
StartCommand ==
  /\ phase = "idle"
  /\ env' \in Environments /\ option' \in Maybe(ProfileNames)
  /\ around' \in Surroundings
  /\ phase' = "started"
  /\ UNCHANGED <<stored, tokens, profile, used, mixed>>

EndCommand ==
  /\ phase \in {"refused", "failed", "sent"}
  /\ env' = NoEnvironment /\ option' = Unset /\ around' = NothingSpecial
  /\ phase' = "idle" /\ profile' = NoProfile /\ used' = Unset
  /\ UNCHANGED <<stored, tokens, mixed>>

Resolve ==
  /\ phase = "started"
  /\ IF Unreadable \/ Missing \/ ~Complete(ApplyEnv(Loaded))
     THEN phase' = "refused" /\ UNCHANGED profile
     ELSE phase' = "resolved" /\ profile' = ApplyEnv(Loaded)
  /\ UNCHANGED <<stored, tokens, command, used, mixed>>

\* Mutant of KeepsToken: whatever has a name has an entry.
KeepsTokenNamed(p) == p.name # Unset /\ p.token = Unset

\* tokenStore
KeepsToken(p) ==
  p.name # Unset /\ p.token = Unset /\ p.kept # "environment"

\* What the token endpoint of the profile's host issues.
Issued(p) == [host |-> p.host, client |-> p.client, secret |-> p.secret]

\* The host or the client of a stored credential is replaced, its secret not.
HalfGiven ==
  /\ profile.name # Unset
  /\ {env.secret, env.token} = {Unset} /\ {env.host, env.client} # {Unset}

UseToken ==
  /\ phase = "resolved"
  /\ phase' = "sent"
  /\ used' = IF profile.token # Unset THEN profile.token
             ELSE IF KeepsToken(profile) /\ tokens[profile.name] # Unset
             THEN tokens[profile.name] ELSE Issued(profile)
  /\ tokens' = IF KeepsToken(profile)
               THEN [tokens EXCEPT ![profile.name] = used'] ELSE tokens
  /\ mixed' = (mixed \/ HalfGiven)
  /\ UNCHANGED <<stored, command, profile>>

\* The exchange is refused or does not get through.
FailExchange ==
  /\ phase = "resolved" /\ profile.token = Unset
  /\ KeepsToken(profile) => tokens[profile.name] = Unset
  /\ phase' = "failed"
  /\ UNCHANGED <<stored, tokens, command, profile, used, mixed>>

\* A kept token has expired, or is dropped when the platform reports so.
Expire ==
  /\ phase = "idle"
  /\ \E n \in ProfileNames :
       tokens[n] # Unset /\ tokens' = [tokens EXCEPT ![n] = Unset]
  /\ UNCHANGED <<stored, command, phase, profile, used, mixed>>

ResolutionNext ==
  StartCommand \/ Resolve \/ UseToken \/ FailExchange \/ EndCommand \/ Expire

ResolutionSpec == ResolutionInit /\ [][ResolutionNext]_resolutionVars

-----------------------------------------------------------------------------
Tokens == [host: Hosts, client: Clients, secret: {"stored", "given"}]

Profiles ==
  [name: Maybe(ProfileNames), host: Maybe(Hosts), client: Maybe(Clients),
   secret: {"stored", "given", Unset}, token: {Given, Unset},
   kept: {"store", "environment", "nowhere"}]

ResolutionTypeOK ==
  /\ exists \subseteq ProfileNames /\ standard \in Maybe(ProfileNames)
  /\ tokens \in [ProfileNames -> Maybe(Tokens)]
  /\ env \in Environments /\ option \in Maybe(ProfileNames)
  /\ around \in Surroundings
  /\ phase \in {"idle", "started", "resolved", "refused", "failed", "sent"}
  /\ profile \in Profiles /\ used \in Maybe(Tokens \cup {Given})
  /\ mixed \in BOOLEAN
  /\ phase \in {"resolved", "sent"} => Complete(profile)

\* The credential is wholly the environment's.
EnvironmentWhole ==
  /\ env.host # Unset
  /\ env.token # Unset \/ (env.client # Unset /\ env.secret # Unset)

(* With a host and a credential in its environment a command finds its     *)
(* workspace, whatever name of no profile the environment, the project or  *)
(* the default gives: only what cannot be read and --profile stop it       *)
(* (resolve.go Resolve, "and suffice on their own", and load).             *)
EnvironmentSuffices ==
  phase = "refused" /\ EnvironmentWhole /\ option = Unset =>
    "error" \in {around.project, around.config, around.secret}

(* A token issued to a secret of the environment is used for the command   *)
(* it was issued for and never kept, whichever profile the command names   *)
(* (app.go tokenStore, "for a run on environment credentials or a token,   *)
(* which keep nothing").                                                   *)
EnvironmentKeepsNothing ==
  /\ \A n \in ProfileNames : tokens[n] # Unset => tokens[n].secret = "stored"
  /\ phase = "sent" /\ env.token # Unset => used = Given
  /\ phase = "sent" /\ env.token = Unset /\ env.secret # Unset =>
       used = Issued(profile)

(* However commands on several profiles and on environments of their own   *)
(* follow one another, a token goes to the host that issued it and acts    *)
(* for the client it was issued to, as long as none of them replaced the   *)
(* host or the client of a stored credential and not its secret (app.go    *)
(* Client and tokenStore).                                                 *)
TokenFitsProfile ==
  phase = "sent" /\ used # Given /\ ~mixed =>
    used.host = profile.host /\ used.client = profile.client

(* The variables "override the stored profile for automated runs"          *)
(* (README.md:305): not when a token is kept for it and only the host or   *)
(* the client is given.                                                    *)
EnvironmentOverrides ==
  phase = "sent" /\ used # Given =>
    /\ env.host # Unset => used.host = env.host
    /\ env.client # Unset => used.client = env.client

(* A whole credential in the environment suffices, leaves nothing behind,  *)
(* and no token strays (resolve.go Resolve, app.go Client).                *)
EnvironmentRespected ==
  EnvironmentSuffices /\ EnvironmentKeepsNothing /\ TokenFitsProfile

-----------------------------------------------------------------------------
(* The inductive invariant behind the theorem of CommandProofs. *)

\* The profile a command works with is that of its environment and of what is
\* stored, to its end.
ResolvedInv ==
  phase \in {"resolved", "failed", "sent"} =>
    ~Unreadable /\ profile = ApplyEnv(Loaded) /\ Complete(profile)

\* A kept token is one of the stored credential, unless a half was replaced.
TokensFit ==
  ~mixed => \A n \in ProfileNames : tokens[n] # Unset =>
    tokens[n].host = Stored[n].host /\ tokens[n].client = Stored[n].client

RespectInv == EnvironmentRespected /\ ResolvedInv /\ TokensFit

=============================================================================
