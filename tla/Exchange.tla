------------------------------ MODULE Exchange ------------------------------
(***************************************************************************)
(* The attempt loop of pkg/transpareo/client.go: Client.Do (and the        *)
(* transport's RoundTrip, which runs the same exchange) over a network     *)
(* that loses answers and delays requests, against an API that keeps the   *)
(* result of a request under its idempotency key.                          *)
(*                                                                         *)
(* Calls here are POSTs: they have an effect and carry a key, the caller's *)
(* or a random one.  A request whose answer was lost may still be on its   *)
(* way, and may take effect after later attempts or after the call ended.  *)
(***************************************************************************)
EXTENDS Naturals

CONSTANTS
  Calls,       \* calls of Do
  Keys,        \* idempotency keys
  NoKey,       \* no key yet
  GivenKeys,   \* values of each call's Request.IdempotencyKey, NoKey if empty
  Attempts,    \* RetryPolicy.Attempts
  CanRefresh   \* whether the token source is an invalidator

ASSUME ExchangeAssumption ==
  /\ NoKey \notin Keys
  /\ GivenKeys \in [Calls -> SUBSET (Keys \cup {NoKey})]
  /\ Attempts \in Nat
  /\ CanRefresh \in BOOLEAN

VARIABLES
  stage,      \* where each call is
  key,        \* the key chosen in Do
  attempt,    \* the loop's counter
  refreshedOnce, \* whether a 401 TOKEN_EXPIRED was already handled
  wire,       \* requests sent and not yet served
  reply,      \* the API's answer on its way to each call
  applied,    \* keys whose request the API has executed
  effects     \* how often it executed a request of each call

attemptVars == <<key, attempt, refreshedOnce>>
exchangeVars == <<stage, attemptVars, wire, reply, applied, effects>>

-----------------------------------------------------------------------------
Requests == [call : Calls, key : Keys, attempt : Nat]

\* Statuses of an answer: 2xx, 401 TOKEN_EXPIRED, 429 or 5xx, other 4xx.
Statuses == {"ok", "expired", "unavailable", "refused"}

\* What an attempt can come to: a status, a transport error, a cancelled
\* context.  A token exchange fails with "unavailable", "refused", "network"
\* or "cancelled".
Failures == {"expired", "unavailable", "refused", "network", "cancelled"}

\* Error.Retryable
Retryable(r) == r \in {"unavailable", "network"}

MaxAttempts == IF Attempts > 1 THEN Attempts ELSE 1

Settled == {"ok", "error"}
Stages == Settled \cup {"idle", "token", "sent", "waiting"}

MovesTo(c, state) == stage' = [stage EXCEPT ![c] = state]

ExchangeInit ==
  /\ stage = [c \in Calls |-> "idle"]
  /\ key = [c \in Calls |-> NoKey]
  /\ attempt = [c \in Calls |-> 0]
  /\ refreshedOnce = [c \in Calls |-> FALSE]
  /\ wire = {}
  /\ reply = [c \in Calls |-> "none"]
  /\ applied = {}
  /\ effects = [c \in Calls |-> 0]

\* A random key is one nobody else has or will give.
FreshKey(k) ==
  /\ \A d \in Calls : key[d] # k /\ k \notin GivenKeys[d]
  /\ k \notin applied

\* Mutant of Start: a POST without a key of the caller's gets none.
StartKeyless(c) ==
  /\ stage[c] = "idle"
  /\ \E given \in GivenKeys[c] : key' = [key EXCEPT ![c] = given]
  /\ attempt' = [attempt EXCEPT ![c] = 1]
  /\ MovesTo(c, "token")
  /\ UNCHANGED <<refreshedOnce, wire, reply, applied, effects>>

\* Do: the key is chosen once, before the loop.
Start(c) ==
  /\ stage[c] = "idle"
  /\ \E k \in Keys :
       /\ k \in GivenKeys[c] \/ (NoKey \in GivenKeys[c] /\ FreshKey(k))
       /\ key' = [key EXCEPT ![c] = k]
  /\ attempt' = [attempt EXCEPT ![c] = 1]
  /\ MovesTo(c, "token")
  /\ UNCHANGED <<refreshedOnce, wire, reply, applied, effects>>

-----------------------------------------------------------------------------
(* The tail of one pass of exchange's loop, for a failure r: another pass  *)
(* at once after a refresh, a wait, or the end.                            *)

Refreshes(c, r) == r = "expired" /\ ~refreshedOnce[c] /\ CanRefresh

\* Mutant of Fail: one attempt more than the policy allows.
FailLate(c, r) ==
  \/ /\ Refreshes(c, r)
     /\ refreshedOnce' = [refreshedOnce EXCEPT ![c] = TRUE]
     /\ attempt' = [attempt EXCEPT ![c] = @ + 1]
     /\ MovesTo(c, "token")
  \/ /\ ~Refreshes(c, r)
     /\ MovesTo(c, IF Retryable(r) /\ attempt[c] <= MaxAttempts THEN "waiting" ELSE "error")
     /\ UNCHANGED <<refreshedOnce, attempt>>

Fail(c, r) ==
  \/ /\ Refreshes(c, r)
     /\ refreshedOnce' = [refreshedOnce EXCEPT ![c] = TRUE]
     /\ attempt' = [attempt EXCEPT ![c] = @ + 1]
     /\ MovesTo(c, "token")
  \/ /\ ~Refreshes(c, r)
     /\ MovesTo(c, IF Retryable(r) /\ attempt[c] < MaxAttempts THEN "waiting" ELSE "error")
     /\ UNCHANGED <<refreshedOnce, attempt>>

\* attempt: the token source fails, transiently or for good.
TokenFails(c) ==
  /\ stage[c] = "token"
  /\ \E r \in Failures \ {"expired"} : Fail(c, r)
  /\ UNCHANGED <<key, wire, reply, applied, effects>>

\* Mutant of Send: every attempt draws a key of its own.
SendRekeyed(c) ==
  /\ stage[c] = "token"
  /\ \E k \in Keys :
       /\ IF attempt[c] = 1 THEN k = key[c] ELSE FreshKey(k)
       /\ key' = [key EXCEPT ![c] = k]
       /\ wire' = wire \cup {[call |-> c, key |-> k, attempt |-> attempt[c]]}
  /\ MovesTo(c, "sent")
  /\ UNCHANGED <<attempt, refreshedOnce, reply, applied, effects>>

\* attempt: the request goes out with the token and the call's key.
Send(c) ==
  /\ stage[c] = "token"
  /\ wire' = wire \cup {[call |-> c, key |-> key[c], attempt |-> attempt[c]]}
  /\ MovesTo(c, "sent")
  /\ UNCHANGED <<attemptVars, reply, applied, effects>>

\* send failed: no connection, a timeout or a cancelled context, before or
\* after the API got the request.
TransportFails(c) ==
  /\ stage[c] = "sent"
  /\ \E r \in {"network", "cancelled"} : Fail(c, r)
  /\ reply' = [reply EXCEPT ![c] = "none"]
  /\ UNCHANGED <<key, wire, applied, effects>>

\* Mutant of Succeeds: any answer counts as one.
SucceedsAnyway(c) ==
  /\ stage[c] = "sent"
  /\ reply[c] # "none"
  /\ reply' = [reply EXCEPT ![c] = "none"]
  /\ MovesTo(c, "ok")
  /\ UNCHANGED <<attemptVars, wire, applied, effects>>

Succeeds(c) ==
  /\ stage[c] = "sent"
  /\ reply[c] = "ok"
  /\ reply' = [reply EXCEPT ![c] = "none"]
  /\ MovesTo(c, "ok")
  /\ UNCHANGED <<attemptVars, wire, applied, effects>>

AnswerFails(c) ==
  /\ stage[c] = "sent"
  /\ reply[c] \in Statuses \ {"ok"}
  /\ Fail(c, reply[c])
  /\ reply' = [reply EXCEPT ![c] = "none"]
  /\ UNCHANGED <<key, wire, applied, effects>>

\* Mutant of Wake: the loop's counter stands still.
WakeUncounted(c) ==
  /\ stage[c] = "waiting"
  /\ MovesTo(c, "token")
  /\ UNCHANGED <<attemptVars, wire, reply, applied, effects>>

\* The wait is over and the loop's counter moves on.
Wake(c) ==
  /\ stage[c] = "waiting"
  /\ attempt' = [attempt EXCEPT ![c] = @ + 1]
  /\ MovesTo(c, "token")
  /\ UNCHANGED <<key, refreshedOnce, wire, reply, applied, effects>>

\* The context ends during the wait: exchange settles with what it has.
SleepCut(c) ==
  /\ stage[c] = "waiting"
  /\ MovesTo(c, "error")
  /\ UNCHANGED <<attemptVars, wire, reply, applied, effects>>

-----------------------------------------------------------------------------
(* The API and the network. *)

\* The answer reaches the call only while it waits for this very attempt.
Answer(m, status) ==
  reply' = IF stage[m.call] = "sent" /\ attempt[m.call] = m.attempt
           THEN [reply EXCEPT ![m.call] = status] ELSE reply

\* The first request under a key is executed, a later one gets its result.
Execute(m) ==
  /\ m \in wire
  /\ wire' = wire \ {m}
  /\ applied' = applied \cup {m.key}
  /\ effects' = IF m.key \in applied THEN effects
                ELSE [effects EXCEPT ![m.call] = @ + 1]
  /\ Answer(m, "ok")
  /\ UNCHANGED <<stage, attemptVars>>

\* Refused before anything happened.
Refuse(m) ==
  /\ m \in wire
  /\ wire' = wire \ {m}
  /\ \E status \in Statuses \ {"ok"} : Answer(m, status)
  /\ UNCHANGED <<stage, attemptVars, applied, effects>>

Lose(m) ==
  /\ m \in wire
  /\ wire' = wire \ {m}
  /\ UNCHANGED <<stage, attemptVars, reply, applied, effects>>

-----------------------------------------------------------------------------
Step(c) ==
  \/ TokenFails(c) \/ Send(c) \/ TransportFails(c) \/ Succeeds(c)
  \/ AnswerFails(c) \/ Wake(c) \/ SleepCut(c)

ExchangeNext ==
  \/ \E c \in Calls : Start(c) \/ Step(c)
  \/ \E m \in wire : Execute(m) \/ Refuse(m) \/ Lose(m)

ExchangeSpec == ExchangeInit /\ [][ExchangeNext]_exchangeVars

\* The HTTP client's timeout and the wait's timer end every pause of a call.
ExchangeFairSpec == ExchangeSpec /\ \A c \in Calls : WF_exchangeVars(Step(c))

-----------------------------------------------------------------------------
ExchangeTypeOK ==
  /\ stage \in [Calls -> Stages]
  /\ key \in [Calls -> Keys \cup {NoKey}]
  /\ attempt \in [Calls -> Nat]
  /\ refreshedOnce \in [Calls -> BOOLEAN]
  /\ wire \subseteq Requests
  /\ reply \in [Calls -> Statuses \cup {"none"}]
  /\ applied \subseteq Keys
  /\ effects \in [Calls -> Nat]

(* The policy is kept: at most Attempts attempts, and one more only when a *)
(* refreshed token was refused or never used (client.go exchange).         *)
AttemptsBounded ==
  \A c \in Calls : attempt[c] > MaxAttempts =>
    refreshedOnce[c] /\ attempt[c] = MaxAttempts + 1

(* However often a POST is sent and whenever its requests arrive, the API  *)
(* executes it once, and calls given one key share that one execution      *)
(* (client.go Do and transport.go RoundTrip: one key for every attempt).   *)
PostAppliedOnce ==
  \A c, d \in Calls :
    /\ effects[c] <= 1
    /\ c # d /\ key[c] = key[d] => effects[c] + effects[d] <= 1

(* Every call settles, whatever the API and the network do (client.go      *)
(* exchange: one refresh, bounded attempts, bounded waits).                *)
CallSettles == \A c \in Calls : stage[c] = "token" ~> stage[c] \in Settled

(* Do implements what AppliedOnce promises of a POST.                      *)
Abstract == INSTANCE AppliedOnce WITH
  outcome <- [c \in Calls |-> IF stage[c] \in Settled THEN stage[c] ELSE "pending"]

ImplementsAppliedOnce == Abstract!Spec

-----------------------------------------------------------------------------
(* The inductive invariants behind the theorems of ClientProofs. *)

AttemptInv ==
  /\ AttemptsBounded
  /\ \A c \in Calls : stage[c] = "waiting" => attempt[c] < MaxAttempts

\* A key is chosen once, and an effect or a success is known under it.
KeyInv ==
  /\ \A m \in wire : m.key = key[m.call]
  /\ \A c \in Calls :
       /\ stage[c] = "idle" <=> key[c] = NoKey
       /\ effects[c] <= 1
       /\ effects[c] > 0 \/ reply[c] = "ok" \/ stage[c] = "ok" => key[c] \in applied

=============================================================================
