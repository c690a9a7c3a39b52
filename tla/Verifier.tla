------------------------------ MODULE Verifier ------------------------------
(***************************************************************************)
(* The check a signing endpoint makes of every request before it signs:    *)
(* pkg/transpareo/signer/verify.go and rotation.go, called by the handler  *)
(* of handler.go from one goroutine per request, with the two fetches of   *)
(* internal/cli/signer_platform.go.                                        *)
(*                                                                         *)
(* The platform signs each request once, under a nonce of its own; the     *)
(* network may deliver it late, or several times, or with a damaged body.  *)
(* The platform changes its key at will, and publishes the current key and *)
(* the statement by which the previous key handed over to it, in two       *)
(* documents the endpoint reads one after the other.                       *)
(*                                                                         *)
(* Verifier.mu is never held across a call, so each critical section is    *)
(* one step; what a goroutine read in one may be stale in the next.        *)
(***************************************************************************)
EXTENDS Integers

CONSTANTS
  Handlers,         \* goroutines that serve requests
  Nonces,           \* one per request the platform signs
  MaxKey,           \* the platform's keys are 0..MaxKey, in turn
  PublishesStatement, \* FALSE: the host answers ErrNoRotation
  ReplayWindow,     \* how far a timestamp may be off, how long nonces last
  RefetchInterval,  \* refetchInterval: one look at the platform in each
  FetchTimeout,     \* platformKeyTimeout: the longest one fetch takes
  Lag,              \* the longest a goroutine computes between two fetches
  MaxAhead,         \* how far the platform's clock may be ahead
  NoNonce,          \* serving nothing
  MaxTime           \* bound on the clock

ASSUME VerifierAssumption ==
  /\ NoNonce \notin Nonces
  /\ MaxKey \in Nat
  /\ PublishesStatement \in BOOLEAN
  /\ ReplayWindow \in Nat
  /\ RefetchInterval \in Nat
  /\ FetchTimeout \in Nat
  /\ Lag \in Nat
  /\ MaxAhead \in Nat
  /\ MaxTime \in Nat
  \* A minute, against two fetches of five seconds each.
  /\ RefetchInterval > 2 * FetchTimeout + 2 * Lag

Keys == 0..MaxKey
NoKey == -1       \* no key fetched yet
Never == -1       \* no such time

VARIABLES
  now,          \* the endpoint's clock
  platformKey,  \* the key the platform signs with and publishes
  request,      \* what the platform signed under each nonce
  key,          \* Verifier.key: the pinned key
  nonces,       \* Verifier.nonces: when each was spent, Never if absent
  lastRefetch,  \* Verifier.lastRefetch
  stage,           \* where each goroutine is
  serving,      \* the nonce of the request it serves
  clock,        \* Verify's now
  pinned,       \* verifyWithRotation's key, read under the first lock
  fetched,      \* the key Refetch answered
  since,        \* when the goroutine began its present wait or computation
  accepted      \* the clock under which each nonce was last accepted

platformVars == <<platformKey, request>>
pinVars == <<key, nonces, lastRefetch>>
localVars == <<serving, clock, pinned, fetched, since>>
verifierVars == <<now, platformVars, pinVars, stage, localVars, accepted>>

-----------------------------------------------------------------------------
\* by signed it at time at; intact unless it was damaged on the way; named
\* when it carries the fingerprint of by.
RequestType == [by : Keys, at : Nat, intact : BOOLEAN, named : BOOLEAN]
Unsigned == [by |-> NoKey, at |-> 0, intact |-> FALSE, named |-> FALSE]

Waiting == {"refetch", "statement"}      \* a fetch is under way
Looking == Waiting \cup {"adopt"}        \* has taken the budget
Stages == Looking \cup {"idle", "look", "budget", "spend", "sign"}

\* ed25519.Verify
Verifies(k, r) == r.intact /\ r.by = k

Distance(s, t) == IF s > t THEN s - t ELSE t - s

Enter(h, state) == stage' = [stage EXCEPT ![h] = state]

\* Verify returns: its locals are gone.
Return(h) ==
  /\ clock' = [clock EXCEPT ![h] = 0]
  /\ pinned' = [pinned EXCEPT ![h] = NoKey]
  /\ fetched' = [fetched EXCEPT ![h] = NoKey]
  /\ since' = [since EXCEPT ![h] = 0]

\* Refused or served: the goroutine is gone.
Leave(h) ==
  /\ Enter(h, "idle")
  /\ Return(h)
  /\ serving' = [serving EXCEPT ![h] = NoNonce]

\* NewVerifier, with the key fetched at the start.
VerifierInit ==
  /\ now = 0
  /\ platformKey = 0
  /\ request = [n \in Nonces |-> Unsigned]
  /\ key = 0
  /\ nonces = [n \in Nonces |-> Never]
  /\ lastRefetch = -RefetchInterval
  /\ stage = [h \in Handlers |-> "idle"]
  /\ serving = [h \in Handlers |-> NoNonce]
  /\ clock = [h \in Handlers |-> 0]
  /\ pinned = [h \in Handlers |-> NoKey]
  /\ fetched = [h \in Handlers |-> NoKey]
  /\ since = [h \in Handlers |-> 0]
  /\ accepted = [n \in Nonces |-> Never]

-----------------------------------------------------------------------------
(* The platform and time. *)

Limit(h) == IF stage[h] \in Waiting THEN FetchTimeout ELSE Lag

\* Fetches end by their timeout, computations within Lag.
Tick ==
  /\ now < MaxTime
  /\ \A h \in Handlers : stage[h] \notin {"idle", "sign"} => now - since[h] < Limit(h)
  /\ now' = now + 1
  /\ UNCHANGED <<platformVars, pinVars, stage, localVars, accepted>>

Rotate ==
  /\ platformKey < MaxKey
  /\ platformKey' = platformKey + 1
  /\ UNCHANGED <<now, request, pinVars, stage, localVars, accepted>>

SignRequest(n) ==
  /\ request[n] = Unsigned
  /\ \E ahead \in 0..MaxAhead, intact \in BOOLEAN, named \in BOOLEAN :
       request' = [request EXCEPT ![n] =
         [by |-> platformKey, at |-> now + ahead, intact |-> intact, named |-> named]]
  /\ UNCHANGED <<now, platformKey, pinVars, stage, localVars, accepted>>

-----------------------------------------------------------------------------
(* One goroutine's request. *)

\* ServeHTTP and the first part of Verify: the clock is read once, here.
\* A timestamp outside the window is refused without a trace.
Deliver(h, n) ==
  /\ stage[h] = "idle"
  /\ request[n] # Unsigned
  /\ Distance(request[n].at, now) <= ReplayWindow
  /\ serving' = [serving EXCEPT ![h] = n]
  /\ clock' = [clock EXCEPT ![h] = now]
  /\ since' = [since EXCEPT ![h] = now]
  /\ Enter(h, "look")
  /\ UNCHANGED <<now, platformVars, pinVars, pinned, fetched, accepted>>

\* The pinned key is read, and tried; a request that names it has a bad
\* signature, any other may be worth a look at the platform.
Look(h) ==
  LET r == request[serving[h]] IN
  /\ stage[h] = "look"
  /\ \/ /\ Verifies(key, r)
        /\ Enter(h, "spend")
        /\ UNCHANGED localVars
     \/ /\ ~Verifies(key, r)
        /\ r.named /\ r.by = key
        /\ Leave(h)
     \/ /\ ~Verifies(key, r)
        /\ ~(r.named /\ r.by = key)
        /\ pinned' = [pinned EXCEPT ![h] = key]
        /\ Enter(h, "budget")
        /\ UNCHANGED <<serving, clock, fetched, since>>
  /\ UNCHANGED <<now, platformVars, pinVars, accepted>>

\* Mutant of MayFetch: the budget is checked and not taken.
MayFetchFree(h) ==
  /\ stage[h] = "budget"
  /\ \/ /\ clock[h] - lastRefetch < RefetchInterval
        /\ Leave(h)
     \/ /\ clock[h] - lastRefetch >= RefetchInterval
        /\ since' = [since EXCEPT ![h] = now]
        /\ Enter(h, "refetch")
        /\ UNCHANGED <<serving, clock, pinned, fetched>>
  /\ UNCHANGED <<now, platformVars, pinVars, accepted>>

\* mayFetch: the budget is taken under Verify's clock.
MayFetch(h) ==
  /\ stage[h] = "budget"
  /\ \/ /\ clock[h] - lastRefetch < RefetchInterval
        /\ Leave(h)
        /\ UNCHANGED lastRefetch
     \/ /\ clock[h] - lastRefetch >= RefetchInterval
        /\ lastRefetch' = clock[h]
        /\ since' = [since EXCEPT ![h] = now]
        /\ Enter(h, "refetch")
        /\ UNCHANGED <<serving, clock, pinned, fetched>>
  /\ UNCHANGED <<now, platformVars, key, nonces, accepted>>

\* Refetch answers the published key, and that key has to verify.
Refetch(h) ==
  /\ stage[h] = "refetch"
  /\ \/ /\ Verifies(platformKey, request[serving[h]])
        /\ fetched' = [fetched EXCEPT ![h] = platformKey]
        /\ since' = [since EXCEPT ![h] = now]
        /\ Enter(h, "statement")
        /\ UNCHANGED <<serving, clock, pinned>>
     \/ Leave(h)     \* another key, or the fetch failed
  /\ UNCHANGED <<now, platformVars, pinVars, accepted>>

\* HandsOverFrom and Names, of the statement published now.
HandsOver(from, to) == from = platformKey - 1 /\ to = platformKey

\* Mutant of HandedOver: the statement is not held against the pinned key.
HandedOverByAnyone(h) ==
  /\ stage[h] = "statement"
  /\ \/ /\ PublishesStatement => fetched[h] = platformKey
        /\ since' = [since EXCEPT ![h] = now]
        /\ Enter(h, "adopt")
        /\ UNCHANGED <<serving, clock, pinned, fetched>>
     \/ /\ PublishesStatement
        /\ Leave(h)
  /\ UNCHANGED <<now, platformVars, pinVars, accepted>>

\* handedOver: without a statement the host is taken at its key URL.
HandedOver(h) ==
  /\ stage[h] = "statement"
  /\ \/ /\ PublishesStatement => HandsOver(pinned[h], fetched[h])
        /\ since' = [since EXCEPT ![h] = now]
        /\ Enter(h, "adopt")
        /\ UNCHANGED <<serving, clock, pinned, fetched>>
     \/ Leave(h)     \* another hand-over, or the fetch failed
  /\ UNCHANGED <<now, platformVars, pinVars, accepted>>

\* Mutant of Adopt: the fetched key is cleared before it is pinned.
AdoptNothing(h) ==
  /\ stage[h] = "adopt"
  /\ fetched' = [fetched EXCEPT ![h] = NoKey]
  /\ key' = fetched'[h]
  /\ Enter(h, "spend")
  /\ UNCHANGED <<now, platformVars, nonces, lastRefetch, serving, clock, pinned,
                 since, accepted>>

\* adopt: whatever is pinned by now is overwritten.
Adopt(h) ==
  /\ stage[h] = "adopt"
  /\ key' = fetched[h]
  /\ pinned' = [pinned EXCEPT ![h] = NoKey]
  /\ fetched' = [fetched EXCEPT ![h] = NoKey]
  /\ Enter(h, "spend")
  /\ UNCHANGED <<now, platformVars, nonces, lastRefetch, serving, clock, since, accepted>>

\* Mutant of Purged: a nonce is forgotten in the last instant of its window.
PurgedEarly(at) ==
  [n \in Nonces |-> IF nonces[n] # Never /\ at - nonces[n] >= ReplayWindow
                    THEN Never ELSE nonces[n]]

\* The nonces a call of spend at the given clock still remembers.
Purged(at) ==
  [n \in Nonces |-> IF nonces[n] # Never /\ at - nonces[n] > ReplayWindow
                    THEN Never ELSE nonces[n]]

\* spend: purge, then refuse the nonce or remember it, under Verify's clock.
Spend(h) ==
  LET n == serving[h]
      kept == Purged(clock[h])
  IN
  /\ stage[h] = "spend"
  /\ \/ /\ kept[n] # Never
        /\ nonces' = kept
        /\ Leave(h)
        /\ UNCHANGED accepted
     \/ /\ kept[n] = Never
        /\ nonces' = [kept EXCEPT ![n] = clock[h]]
        /\ accepted' = [accepted EXCEPT ![n] = clock[h]]
        /\ Enter(h, "sign")
        /\ Return(h)
        /\ UNCHANGED serving
  /\ UNCHANGED <<now, platformVars, key, lastRefetch>>

\* handler.sign has run and the answer is written.
Signed(h) ==
  /\ stage[h] = "sign"
  /\ Leave(h)
  /\ UNCHANGED <<now, platformVars, pinVars, accepted>>

-----------------------------------------------------------------------------
Serve(h) ==
  \/ \E n \in Nonces : Deliver(h, n)
  \/ Look(h) \/ MayFetch(h) \/ Refetch(h) \/ HandedOver(h) \/ Adopt(h)
  \/ Spend(h) \/ Signed(h)

VerifierNext ==
  \/ Tick
  \/ Rotate
  \/ \E n \in Nonces : SignRequest(n)
  \/ \E h \in Handlers : Serve(h)

VerifierSpec == VerifierInit /\ [][VerifierNext]_verifierVars

-----------------------------------------------------------------------------
Time == Nat \cup {Never}

VerifierTypeOK ==
  /\ now \in Nat
  /\ platformKey \in Keys
  /\ request \in [Nonces -> RequestType \cup {Unsigned}]
  /\ key \in Keys
  /\ nonces \in [Nonces -> Time]
  /\ lastRefetch \in Int
  /\ stage \in [Handlers -> Stages]
  /\ serving \in [Handlers -> Nonces \cup {NoNonce}]
  /\ clock \in [Handlers -> Nat]
  /\ pinned \in [Handlers -> Keys \cup {NoKey}]
  /\ fetched \in [Handlers -> Keys \cup {NoKey}]
  /\ since \in [Handlers -> Nat]
  /\ accepted \in [Nonces -> Time]

(* A request that one run of the endpoint has signed, it signs again only  *)
(* when the window since has passed, and then only if the timestamp was    *)
(* ahead of the clock it was accepted under, or if the call that signs it  *)
(* read its clock within the window and came to spend the nonce after      *)
(* another call had purged it (verify.go Verify, spend and ReplayWindow).  *)
ReplayOutlivesWindow ==
  [][\A h \in Handlers :
       stage[h] = "spend" /\ stage'[h] = "sign" /\ accepted[serving[h]] # Never =>
         /\ now > accepted[serving[h]] + ReplayWindow
         /\ request[serving[h]].at > accepted[serving[h]] \/ clock[h] < now]_verifierVars

(* "The nonce never seen before": no request is accepted twice             *)
(* (README.md:327, docs/signer.md:38, internal/cli/signer.go:129).         *)
NeverSeenBefore ==
  [][\A h \in Handlers :
       stage[h] = "spend" /\ stage'[h] = "sign" =>
         accepted[serving[h]] = Never]_verifierVars

(* The budget keeps the looks at the platform apart: two requests are      *)
(* never on their way through the rotation at the same time, so no key     *)
(* read before another rotation ended is held against it (verify.go        *)
(* mayFetch, refetchInterval against platformKeyTimeout).                  *)
OneLookAtATime ==
  \A g, h \in Handlers : stage[g] \in Looking /\ stage[h] \in Looking => g = h

(* The pinned key only moves forward, and past no hand-over when the host  *)
(* publishes statements: a key is never taken back and no slow rotation    *)
(* overwrites a later one (verify.go verifyWithRotation, adopt).           *)
PinAdvances ==
  [][key' # key =>
       /\ key < key'
       /\ PublishesStatement => key' = key + 1]_verifierVars

-----------------------------------------------------------------------------
(* The inductive invariants behind the theorems of VerifierProofs. *)

\* A nonce accepted under a clock is remembered until that clock's window
\* has passed, no clock runs ahead, and what is checked was in the window.
NonceInv ==
  /\ \A h \in Handlers :
       /\ clock[h] <= now
       /\ stage[h] \notin {"idle", "sign"} =>
            Distance(request[serving[h]].at, clock[h]) <= ReplayWindow
  /\ \A n \in Nonces : accepted[n] # Never =>
       nonces[n] = accepted[n] \/ now > accepted[n] + ReplayWindow

\* What a goroutine at work holds.
HoldInv ==
  \A h \in Handlers :
    /\ stage[h] # "idle" => serving[h] \in Nonces /\ request[serving[h]] # Unsigned
    /\ stage[h] \in {"statement", "adopt"} => fetched[h] \in Keys

\* How long after its clock a goroutine can be at each point.
PaceInv ==
  \A h \in Handlers :
    /\ since[h] <= now /\ clock[h] <= now
    /\ stage[h] \in {"look", "budget"} => since[h] = clock[h] /\ now <= since[h] + Lag
    /\ stage[h] \in Looking => lastRefetch = clock[h]
    /\ stage[h] = "refetch" => since[h] <= clock[h] + Lag /\ now <= since[h] + FetchTimeout
    /\ stage[h] = "statement" =>
         /\ since[h] <= clock[h] + Lag + FetchTimeout
         /\ now <= since[h] + FetchTimeout
    /\ stage[h] = "adopt" =>
         /\ since[h] <= clock[h] + Lag + 2 * FetchTimeout
         /\ now <= since[h] + Lag

\* What a goroutine on its way through the rotation read is still pinned.
PinInv ==
  /\ key <= platformKey
  /\ \A h \in Handlers :
       /\ stage[h] \in Looking => pinned[h] = key /\ ~Verifies(key, request[serving[h]])
       /\ stage[h] = "budget" /\ clock[h] - lastRefetch >= RefetchInterval =>
            pinned[h] = key /\ ~Verifies(key, request[serving[h]])
       /\ stage[h] \in {"statement", "adopt"} =>
            /\ fetched[h] \in key..platformKey
            /\ Verifies(fetched[h], request[serving[h]])
       /\ stage[h] = "adopt" /\ PublishesStatement => fetched[h] = pinned[h] + 1

=============================================================================
