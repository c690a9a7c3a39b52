--------------------------- MODULE VerifierProofs ---------------------------
(***************************************************************************)
(* Theorems about Verifier, for any number of goroutines and requests, any *)
(* sequence of keys and any times that keep the assumption of the module.  *)
(***************************************************************************)
EXTENDS Verifier, TLAPS

USE DEF Keys, NoKey, Never

(* Every variable keeps its type, given what goroutines at work hold. *)
LEMMA TypeStep == VerifierTypeOK /\ HoldInv /\ [VerifierNext]_verifierVars => VerifierTypeOK'
<1> SUFFICES ASSUME VerifierTypeOK, HoldInv, [VerifierNext]_verifierVars PROVE VerifierTypeOK'
  OBVIOUS
<1> USE VerifierAssumption DEF VerifierTypeOK, Time, Stages, Looking, Waiting, RequestType,
        Unsigned, platformVars, pinVars, localVars
<1>1. CASE Tick
  BY <1>1 DEF Tick
<1>2. CASE Rotate
  BY <1>2 DEF Rotate
<1>3. ASSUME NEW n \in Nonces, SignRequest(n) PROVE VerifierTypeOK'
  <2> PICK ahead \in 0..MaxAhead, intact \in BOOLEAN, named \in BOOLEAN :
        request' = [request EXCEPT ![n] =
          [by |-> platformKey, at |-> now + ahead, intact |-> intact, named |-> named]]
    BY <1>3 DEF SignRequest
  <2> QED BY <1>3 DEF SignRequest
<1>4. ASSUME NEW h \in Handlers, Serve(h) PROVE VerifierTypeOK'
  <2> USE DEF Enter, Leave, Return
  <2>1. ASSUME NEW n \in Nonces, Deliver(h, n) PROVE VerifierTypeOK'
    BY <2>1 DEF Deliver
  <2>2. CASE Look(h)
    BY <2>2 DEF Look
  <2>3. CASE MayFetch(h)
    BY <2>3 DEF MayFetch
  <2>4. CASE Refetch(h)
    BY <2>4 DEF Refetch
  <2>5. CASE HandedOver(h)
    BY <2>5 DEF HandedOver
  <2>6. CASE Adopt(h)
    <3>1. key' \in Keys
      BY <2>6 DEF Adopt, HoldInv
    <3> QED BY <2>6, <3>1 DEF Adopt
  <2>7. CASE Spend(h)
    <3>1. Purged(clock[h]) \in [Nonces -> Time]
      BY DEF Purged
    <3>2. serving[h] \in Nonces /\ clock[h] \in Nat
      BY <2>7 DEF Spend, HoldInv
    <3> QED BY <2>7, <3>1, <3>2 DEF Spend
  <2>8. CASE Signed(h)
    BY <2>8 DEF Signed
  <2> QED BY <1>4, <2>1, <2>2, <2>3, <2>4, <2>5, <2>6, <2>7, <2>8 DEF Serve
<1>5. CASE UNCHANGED verifierVars
  BY <1>5 DEF verifierVars
<1> QED BY <1>1, <1>2, <1>3, <1>4, <1>5 DEF VerifierNext

(* What a goroutine at work holds, it keeps until it leaves. *)
LEMMA HoldStep == VerifierTypeOK /\ HoldInv /\ [VerifierNext]_verifierVars => HoldInv'
<1> SUFFICES ASSUME VerifierTypeOK, HoldInv, [VerifierNext]_verifierVars PROVE HoldInv'
  OBVIOUS
<1> USE VerifierAssumption DEF VerifierTypeOK, HoldInv, platformVars, pinVars, localVars
<1>1. CASE Tick
  BY <1>1 DEF Tick
<1>2. CASE Rotate
  BY <1>2 DEF Rotate
<1>3. ASSUME NEW n \in Nonces, SignRequest(n) PROVE HoldInv'
  <2> PICK ahead \in 0..MaxAhead, intact \in BOOLEAN, named \in BOOLEAN :
        request' = [request EXCEPT ![n] =
          [by |-> platformKey, at |-> now + ahead, intact |-> intact, named |-> named]]
    BY <1>3 DEF SignRequest
  <2>1. request'[n] # Unsigned /\ \A m \in Nonces \ {n} : request'[m] = request[m]
    BY DEF Unsigned
  <2> QED BY <1>3, <2>1 DEF SignRequest
<1>4. ASSUME NEW h \in Handlers, Serve(h) PROVE HoldInv'
  <2> USE DEF Enter, Leave, Return
  <2>1. ASSUME NEW n \in Nonces, Deliver(h, n) PROVE HoldInv'
    BY <2>1 DEF Deliver
  <2>2. CASE Look(h)
    BY <2>2 DEF Look
  <2>3. CASE MayFetch(h)
    BY <2>3 DEF MayFetch
  <2>4. CASE Refetch(h)
    BY <2>4 DEF Refetch
  <2>5. CASE HandedOver(h)
    BY <2>5 DEF HandedOver
  <2>6. CASE Adopt(h)
    BY <2>6 DEF Adopt
  <2>7. CASE Spend(h)
    BY <2>7 DEF Spend
  <2>8. CASE Signed(h)
    BY <2>8 DEF Signed
  <2> QED BY <1>4, <2>1, <2>2, <2>3, <2>4, <2>5, <2>6, <2>7, <2>8 DEF Serve
<1>5. CASE UNCHANGED verifierVars
  BY <1>5 DEF verifierVars
<1> QED BY <1>1, <1>2, <1>3, <1>4, <1>5 DEF VerifierNext

(* Every variable of Verifier has its type (verify.go, all of Verify). *)
THEOREM TypeCorrect == VerifierSpec => [](VerifierTypeOK /\ HoldInv)
<1>1. VerifierInit => VerifierTypeOK /\ HoldInv
  BY VerifierAssumption DEF VerifierInit, VerifierTypeOK, HoldInv, Time, Stages, Looking, Waiting
<1>2. (VerifierTypeOK /\ HoldInv) /\ [VerifierNext]_verifierVars => (VerifierTypeOK /\ HoldInv)'
  BY TypeStep, HoldStep
<1> QED BY <1>1, <1>2, PTL DEF VerifierSpec

(* No goroutine spends a nonce that another has accepted and purges have   *)
(* not outlived. *)
LEMMA NonceStep == VerifierTypeOK /\ HoldInv /\ NonceInv /\ [VerifierNext]_verifierVars => NonceInv'
<1> SUFFICES ASSUME VerifierTypeOK, HoldInv, NonceInv, [VerifierNext]_verifierVars PROVE NonceInv'
  OBVIOUS
<1> USE VerifierAssumption DEF VerifierTypeOK, Time, NonceInv, platformVars, pinVars, localVars
<1>1. CASE Tick
  BY <1>1 DEF Tick
<1>2. CASE Rotate
  BY <1>2 DEF Rotate
<1>3. ASSUME NEW n \in Nonces, SignRequest(n) PROVE NonceInv'
  <2>1. \A g \in Handlers : stage[g] # "idle" => request'[serving[g]] = request[serving[g]]
    BY <1>3 DEF SignRequest, HoldInv
  <2> QED BY <1>3, <2>1 DEF SignRequest
<1>4. ASSUME NEW h \in Handlers, Serve(h) PROVE NonceInv'
  <2> USE DEF Enter, Leave, Return
  <2>1. ASSUME NEW n \in Nonces, Deliver(h, n) PROVE NonceInv'
    BY <2>1 DEF Deliver
  <2>2. CASE Look(h)
    BY <2>2 DEF Look
  <2>3. CASE MayFetch(h)
    BY <2>3 DEF MayFetch
  <2>4. CASE Refetch(h)
    BY <2>4 DEF Refetch
  <2>5. CASE HandedOver(h)
    BY <2>5 DEF HandedOver
  <2>6. CASE Adopt(h)
    BY <2>6 DEF Adopt
  <2>7. CASE Spend(h)
    <3>1. clock[h] <= now /\ clock[h] \in Nat /\ serving[h] \in Nonces
      BY <2>7 DEF Spend, HoldInv
    <3>2. \A n \in Nonces : Purged(clock[h])[n] = nonces[n]
             \/ (nonces[n] # Never /\ now > nonces[n] + ReplayWindow)
      BY <3>1 DEF Purged
    <3>3. ASSUME NEW n \in Nonces, accepted'[n] # Never
          PROVE nonces'[n] = accepted'[n] \/ now > accepted'[n] + ReplayWindow
      <4>1. CASE n = serving[h] /\ accepted'[n] = clock[h] /\ nonces'[n] = clock[h]
        BY <4>1
      <4>2. CASE accepted'[n] = accepted[n] /\ nonces'[n] = Purged(clock[h])[n]
        BY <3>2, <3>3, <4>2
      <4> QED BY <2>7, <3>1, <4>1, <4>2 DEF Spend, Purged
    <3>4. now' = now /\ request' = request /\ \A g \in Handlers : clock'[g] <= now
      BY <2>7 DEF Spend
    <3>5. \A g \in Handlers : stage'[g] \notin {"idle", "sign"} =>
            stage[g] \notin {"idle", "sign"} /\ serving'[g] = serving[g] /\ clock'[g] = clock[g]
      BY <2>7 DEF Spend
    <3> QED BY <3>3, <3>4, <3>5
  <2>8. CASE Signed(h)
    BY <2>8 DEF Signed
  <2> QED BY <1>4, <2>1, <2>2, <2>3, <2>4, <2>5, <2>6, <2>7, <2>8 DEF Serve
<1>5. CASE UNCHANGED verifierVars
  BY <1>5 DEF verifierVars
<1> QED BY <1>1, <1>2, <1>3, <1>4, <1>5 DEF VerifierNext

(* One run of the endpoint signs a request again only after the window,    *)
(* and then only if the timestamp was ahead or the call straddles the end  *)
(* of the window, under any interleaving (verify.go Verify and spend).     *)
THEOREM SignedOnce == VerifierSpec => ReplayOutlivesWindow
<1>1. VerifierInit => NonceInv
  BY DEF VerifierInit, NonceInv
<1>2. VerifierTypeOK /\ HoldInv /\ NonceInv /\ [VerifierNext]_verifierVars =>
        [\A h \in Handlers :
           stage[h] = "spend" /\ stage'[h] = "sign" /\ accepted[serving[h]] # Never =>
             /\ now > accepted[serving[h]] + ReplayWindow
             /\ request[serving[h]].at > accepted[serving[h]] \/ clock[h] < now]_verifierVars
  <2> SUFFICES ASSUME VerifierTypeOK, HoldInv, NonceInv, VerifierNext,
                      NEW h \in Handlers, stage[h] = "spend", stage'[h] = "sign",
                      accepted[serving[h]] # Never
               PROVE /\ now > accepted[serving[h]] + ReplayWindow
                     /\ request[serving[h]].at > accepted[serving[h]] \/ clock[h] < now
    OBVIOUS
  <2>1. Spend(h)
    BY DEF VerifierNext, Tick, Rotate, SignRequest, Serve, Deliver, Look, MayFetch, Refetch,
           HandedOver, Adopt, Spend, Signed, Enter, Leave, Return, VerifierTypeOK
  <2>2. serving[h] \in Nonces /\ clock[h] \in Nat /\ clock[h] <= now
    BY DEF HoldInv, VerifierTypeOK, NonceInv
  <2>3. Purged(clock[h])[serving[h]] = Never
    BY <2>1, <2>2 DEF Spend, Enter, Leave, Return, VerifierTypeOK
  <2>4. nonces[serving[h]] = Never \/ clock[h] - nonces[serving[h]] > ReplayWindow
    BY <2>2, <2>3 DEF Purged
  <2>5. request[serving[h]].at \in Nat
    BY <2>2 DEF HoldInv, VerifierTypeOK, RequestType
  <2>6. Distance(request[serving[h]].at, clock[h]) <= ReplayWindow
    BY DEF NonceInv
  <2>7. now > accepted[serving[h]] + ReplayWindow
    BY <2>2, <2>4, VerifierAssumption DEF NonceInv, VerifierTypeOK, Time
  <2> QED BY <2>2, <2>5, <2>6, <2>7, VerifierAssumption DEF VerifierTypeOK, Time, Distance
<1> QED BY <1>1, <1>2, NonceStep, TypeCorrect, PTL DEF VerifierSpec, ReplayOutlivesWindow

(* The budget, the fetch timeouts and the refetch interval keep looks at   *)
(* the platform apart. *)
LEMMA PaceStep ==
  VerifierTypeOK /\ PaceInv /\ OneLookAtATime /\ [VerifierNext]_verifierVars =>
    PaceInv' /\ OneLookAtATime'
<1> SUFFICES ASSUME VerifierTypeOK, PaceInv, OneLookAtATime, [VerifierNext]_verifierVars
             PROVE PaceInv' /\ OneLookAtATime'
  OBVIOUS
<1> USE VerifierAssumption DEF VerifierTypeOK, PaceInv, OneLookAtATime, Looking, Waiting,
        platformVars, pinVars, localVars
<1>1. CASE Tick
  BY <1>1 DEF Tick, Limit
<1>2. CASE Rotate
  BY <1>2 DEF Rotate
<1>3. ASSUME NEW n \in Nonces, SignRequest(n) PROVE PaceInv' /\ OneLookAtATime'
  BY <1>3 DEF SignRequest
<1>4. ASSUME NEW h \in Handlers, Serve(h) PROVE PaceInv' /\ OneLookAtATime'
  <2> USE DEF Enter, Leave, Return
  <2>1. ASSUME NEW n \in Nonces, Deliver(h, n) PROVE PaceInv' /\ OneLookAtATime'
    BY <2>1 DEF Deliver
  <2>2. CASE Look(h)
    BY <2>2 DEF Look
  <2>3. CASE MayFetch(h)
    <3>1. CASE clock[h] - lastRefetch < RefetchInterval
      BY <2>3, <3>1 DEF MayFetch
    <3>2. CASE clock[h] - lastRefetch >= RefetchInterval
      \* Nobody is looking: its look would have ended by now.
      <4>1. ASSUME NEW g \in Handlers, stage[g] \in Looking PROVE FALSE
        <5>1. lastRefetch = clock[g] /\ now <= clock[g] + 2 * Lag + 2 * FetchTimeout
          BY <4>1
        <5>2. clock[h] <= now
          OBVIOUS
        <5> QED BY <5>1, <5>2, <3>2
      <4> QED BY <2>3, <3>2, <4>1 DEF MayFetch
    <3> QED BY <3>1, <3>2
  <2>4. CASE Refetch(h)
    BY <2>4 DEF Refetch
  <2>5. CASE HandedOver(h)
    BY <2>5 DEF HandedOver
  <2>6. CASE Adopt(h)
    BY <2>6 DEF Adopt
  <2>7. CASE Spend(h)
    BY <2>7 DEF Spend
  <2>8. CASE Signed(h)
    BY <2>8 DEF Signed
  <2> QED BY <1>4, <2>1, <2>2, <2>3, <2>4, <2>5, <2>6, <2>7, <2>8 DEF Serve
<1>5. CASE UNCHANGED verifierVars
  BY <1>5 DEF verifierVars
<1> QED BY <1>1, <1>2, <1>3, <1>4, <1>5 DEF VerifierNext

(* Two requests never look at the platform at the same time (verify.go     *)
(* mayFetch, refetchInterval).                                             *)
THEOREM LooksApart == VerifierSpec => [](PaceInv /\ OneLookAtATime)
<1>1. VerifierInit => PaceInv /\ OneLookAtATime
  BY DEF VerifierInit, PaceInv, OneLookAtATime, Looking, Waiting
<1> QED BY <1>1, PaceStep, TypeCorrect, PTL DEF VerifierSpec

(* A goroutine on its way through the rotation still works on the key that *)
(* is pinned. *)
LEMMA PinStep ==
  VerifierTypeOK /\ HoldInv /\ PaceInv /\ OneLookAtATime /\ PinInv /\
    [VerifierNext]_verifierVars => PinInv'
<1> SUFFICES ASSUME VerifierTypeOK, HoldInv, PaceInv, OneLookAtATime, PinInv,
                    [VerifierNext]_verifierVars
             PROVE PinInv'
  OBVIOUS
<1> USE VerifierAssumption DEF VerifierTypeOK, PinInv, Looking, Waiting, platformVars,
        pinVars, localVars
<1>1. CASE Tick
  BY <1>1 DEF Tick
<1>2. CASE Rotate
  BY <1>2 DEF Rotate
<1>3. ASSUME NEW n \in Nonces, SignRequest(n) PROVE PinInv'
  <2>1. \A g \in Handlers : stage[g] # "idle" => request'[serving[g]] = request[serving[g]]
    BY <1>3 DEF SignRequest, HoldInv
  <2> QED BY <1>3, <2>1 DEF SignRequest
<1>4. ASSUME NEW h \in Handlers, Serve(h) PROVE PinInv'
  <2> USE DEF Enter, Leave, Return
  <2>1. ASSUME NEW n \in Nonces, Deliver(h, n) PROVE PinInv'
    BY <2>1 DEF Deliver
  <2>2. CASE Look(h)
    BY <2>2 DEF Look
  <2>3. CASE MayFetch(h)
    BY <2>3 DEF MayFetch
  <2>4. CASE Refetch(h)
    BY <2>4 DEF Refetch, Verifies
  <2>5. CASE HandedOver(h)
    BY <2>5 DEF HandedOver, HandsOver
  <2>6. CASE Adopt(h)
    <3>1. \A g \in Handlers \ {h} : stage[g] \notin Looking
      BY <2>6 DEF Adopt, OneLookAtATime
    \* Whoever may still ask for a look read its clock too early for one.
    <3>2. \A g \in Handlers : clock[g] - lastRefetch < RefetchInterval
      BY <2>6 DEF Adopt, PaceInv
    <3>3. key' = fetched[h] /\ fetched[h] <= platformKey
      BY <2>6 DEF Adopt
    <3> QED BY <2>6, <3>1, <3>2, <3>3 DEF Adopt
  <2>7. CASE Spend(h)
    BY <2>7 DEF Spend
  <2>8. CASE Signed(h)
    BY <2>8 DEF Signed
  <2> QED BY <1>4, <2>1, <2>2, <2>3, <2>4, <2>5, <2>6, <2>7, <2>8 DEF Serve
<1>5. CASE UNCHANGED verifierVars
  BY <1>5 DEF verifierVars
<1> QED BY <1>1, <1>2, <1>3, <1>4, <1>5 DEF VerifierNext

(* The pinned key only moves forward, one hand-over at a time when the     *)
(* host publishes statements (verify.go verifyWithRotation, adopt).        *)
THEOREM RotationsAdvance == VerifierSpec => PinAdvances
<1>1. VerifierInit => PinInv
  BY VerifierAssumption DEF VerifierInit, PinInv, Looking, Waiting
<1>2. VerifierTypeOK /\ PinInv /\ [VerifierNext]_verifierVars =>
        [key' # key => key < key' /\ (PublishesStatement => key' = key + 1)]_verifierVars
  <2> SUFFICES ASSUME VerifierTypeOK, PinInv, VerifierNext, key' # key
               PROVE key < key' /\ (PublishesStatement => key' = key + 1)
    OBVIOUS
  <2>1. PICK h \in Handlers : Adopt(h)
    BY DEF VerifierNext, Tick, Rotate, SignRequest, Serve, Deliver, Look, MayFetch, Refetch, HandedOver,
           Spend, Signed, pinVars, platformVars
  <2>2. key' = fetched[h] /\ stage[h] = "adopt"
    BY <2>1 DEF Adopt
  <2>3. pinned[h] = key /\ fetched[h] \in key..platformKey
    BY <2>2 DEF PinInv, Looking
  <2>4. PublishesStatement => fetched[h] = pinned[h] + 1
    BY <2>2 DEF PinInv
  <2> QED BY <2>2, <2>3, <2>4, VerifierAssumption DEF VerifierTypeOK
<1> QED BY <1>1, <1>2, PinStep, TypeCorrect, LooksApart, PTL DEF VerifierSpec, PinAdvances
=============================================================================
