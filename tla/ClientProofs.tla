---------------------------- MODULE ClientProofs ----------------------------
(***************************************************************************)
(* What holds of a call of the client: of its token, for every set of      *)
(* processes and goroutines, every margin that covers the HTTP timeout and *)
(* every fault of the store; and of its attempts, for every set of calls   *)
(* and keys and every retry policy.                                        *)
(***************************************************************************)
EXTENDS MCClient, TLAPS

-----------------------------------------------------------------------------
(* TokenCache: types, the margin, the locks and shared exchanges.          *)

(* The variables keep their types (token.go: the fields of cachedSource    *)
(* and credentialsSource, the profile's stored token).                     *)
THEOREM TokensTypeCorrect == Spec => []TypeOK
<1> USE TokenCacheAssumption
<1>1. Init => TypeOK
  BY DEF Init, TypeOK, PC
<1>2. TypeOK /\ [Next]_vars => TypeOK'
  <2> SUFFICES ASSUME TypeOK, [Next]_vars
               PROVE  TypeOK'
    OBVIOUS
  <2> USE DEF TypeOK
  <2>1. CASE Tick
    BY <2>1 DEF Tick, clientVars, callVars
  <2>2. ASSUME NEW i \in 1..MaxTokens, Revoke(i)
        PROVE  TypeOK'
    BY <2>2 DEF Revoke, clientVars, callVars
  <2>3. ASSUME NEW c \in Callers, Begin(c)
        PROVE  TypeOK'
    BY <2>3 DEF Begin, Goto, PC, clientVars, callVars
  <2>4. ASSUME NEW c \in Callers, Locking(c)
        PROVE  TypeOK'
    <3>1. CASE Look(c)
      BY <3>1 DEF Look, Goto, Lock, PC, Inside, callVars
    <3>2. CASE AskSource(c)
      BY <3>2 DEF AskSource, Goto, Lock, PC, Inside
    <3>3. CASE Drop(c)
      BY <3>3 DEF Drop, Goto, PC, callVars
    <3>4. CASE DropSource(c)
      BY <3>4 DEF DropSource, Goto, PC
    <3>5. QED
      BY <2>4, <3>1, <3>2, <3>3, <3>4 DEF Locking
  <2>5. ASSUME NEW c \in Callers, Running(c)
        PROVE  TypeOK'
    <3>1. CASE LoadHit(c)
      BY <3>1 DEF LoadHit, Goto, Unlock, PC, callVars
    <3>2. CASE LoadMiss(c)
      BY <3>2 DEF LoadMiss, Goto, PC, Inside, clientVars, callVars
    <3>3. CASE LoadFails(c)
      BY <3>3 DEF LoadFails, Return, Goto, Unlock, PC
    <3>4. CASE Issue(c)
      <4>1. PICK life \in Lifetimes :
              token' = [token EXCEPT ![c] =
                          [id |-> issued + 1,
                           dies |-> IF life = 0 THEN 0 ELSE now + life,
                           expiresAt |-> life]]
        BY <3>4 DEF Issue
      <4>2. [id |-> issued + 1, dies |-> IF life = 0 THEN 0 ELSE now + life,
             expiresAt |-> life] \in TokenType
        BY <3>4 DEF Issue, TokenType
      <4>3. QED
        BY <3>4, <4>1, <4>2 DEF Issue, Goto, PC, Inside, clientVars, callVars
    <3>5. CASE Receive(c)
      <4>1. token'[c] \in TokenType \cup {NoToken}
        BY <3>5 DEF Receive, TokenType, NoToken
      <4>2. QED
        BY <3>5, <4>1 DEF Receive, Goto, Unlock, PC, Inside
    <3>6. CASE ExchangeFails(c)
      BY <3>6 DEF ExchangeFails, Return, Goto, Unlock, PC
    <3>7. CASE Save(c)
      BY <3>7 DEF Save, Goto, Unlock, PC, callVars
    <3>8. CASE SaveFails(c)
      BY <3>8 DEF SaveFails, Return, Goto, Unlock, PC
    <3>9. CASE SendAccepted(c)
      BY <3>9 DEF SendAccepted, Return, Goto, PC, clientVars
    <3>10. CASE SendExpired(c)
      <4>1. token[c].id \in 0..MaxTokens
        BY DEF TokenType, NoToken
      <4>2. CASE refreshed[c]
        <5>1. Return(c)
          BY <3>10, <4>2, Zenon DEF SendExpired
        <5>2. QED
          BY <3>10, <5>1 DEF SendExpired, Return, Goto, PC, clientVars
      <4>3. CASE ~refreshed[c]
        <5>1. rejected' = [rejected EXCEPT ![c] = {token[c].id}]
          BY <3>10, <4>3 DEF SendExpired
        <5>2. rejected' \in [Callers -> SUBSET (0..MaxTokens)]
          BY <4>1, <5>1
        <5>3. QED
          BY <3>10, <4>3, <5>2 DEF SendExpired, Goto, PC, clientVars
      <4>4. QED
        BY <4>2, <4>3
    <3>11. QED
      BY <2>5, <3>1, <3>2, <3>3, <3>4, <3>5, <3>6, <3>7, <3>8, <3>9, <3>10
      DEF Running
  <2>6. CASE UNCHANGED vars
    BY <2>6 DEF vars, clientVars, callVars
  <2>7. QED
    BY <2>1, <2>2, <2>3, <2>4, <2>5, <2>6 DEF Next
<1>3. QED
  BY <1>1, <1>2, PTL DEF Spec

-----------------------------------------------------------------------------
(* Valid errs on the safe side for every token whose recorded expiry is    *)
(* late by no more than an exchange (token.go Valid, refreshMargin).       *)
LEMMA MarginCovers ==
  ASSUME now \in Nat, NEW t \in TokenType \cup {NoToken}, Timely(t), Valid(t)
  PROVE  t.dies = 0 \/ now < t.dies
BY TokenCacheAssumption DEF TokenType, NoToken, Timely, Valid

(* Timely and ExchangeInTime are inductive: the clock cannot pass an       *)
(* exchange's timeout, and every token enters the caches through Receive.  *)
LEMMA TimelyCorrect == Spec => []TimelyInv
<1> USE TokenCacheAssumption
<1>1. Init => TimelyInv
  BY DEF Init, TimelyInv, Kept, Timely, NoToken, Exchanging
<1>2. TypeOK /\ TimelyInv /\ [Next]_vars => TimelyInv'
  <2> SUFFICES ASSUME TypeOK, TimelyInv, [Next]_vars
               PROVE  TimelyInv'
    OBVIOUS
  <2> USE DEF TypeOK, TimelyInv, Kept
  <2>0. Timely(NoToken)
    BY DEF Timely, NoToken
  <2>1. CASE Tick
    <3>1. \A c \in Callers : pc[c] \in Exchanging => ExchangeInTime(c)'
      BY <2>1 DEF Tick, ExchangeInTime, callVars
    <3>2. QED
      BY <2>1, <3>1 DEF Tick, clientVars, callVars, Timely
  <2>2. ASSUME NEW i \in 1..MaxTokens, Revoke(i)
        PROVE  TimelyInv'
    BY <2>2 DEF Revoke, clientVars, callVars, ExchangeInTime, Timely
  <2>3. ASSUME NEW c \in Callers, Begin(c)
        PROVE  TimelyInv'
    BY <2>3 DEF Begin, Goto, clientVars, callVars, ExchangeInTime, Timely, Exchanging
  <2>4. ASSUME NEW c \in Callers, Locking(c)
        PROVE  TimelyInv'
    <3>1. CASE Look(c)
      BY <3>1 DEF Look, Goto, callVars, ExchangeInTime, Timely, Exchanging
    <3>2. CASE AskSource(c)
      BY <3>2 DEF AskSource, Goto, ExchangeInTime, Timely, Exchanging
    <3>3. CASE Drop(c)
      BY <2>0, <3>3 DEF Drop, Goto, callVars, ExchangeInTime, Timely, Exchanging
    <3>4. CASE DropSource(c)
      BY <2>0, <3>4 DEF DropSource, Goto, ExchangeInTime, Timely, Exchanging
    <3>5. QED
      BY <2>4, <3>1, <3>2, <3>3, <3>4 DEF Locking
  <2>5. ASSUME NEW c \in Callers, Running(c)
        PROVE  TimelyInv'
    <3>1. CASE LoadHit(c)
      BY <3>1 DEF LoadHit, Goto, callVars, ExchangeInTime, Timely, Exchanging
    <3>2. CASE LoadMiss(c)
      BY <3>2 DEF LoadMiss, Goto, clientVars, callVars, ExchangeInTime, Timely, Exchanging
    <3>3. CASE LoadFails(c)
      BY <3>3 DEF LoadFails, Return, Goto, ExchangeInTime, Timely, Exchanging
    <3>4. CASE Issue(c)
      <4>1. PICK life \in Lifetimes :
              token' = [token EXCEPT ![c] =
                          [id |-> issued + 1,
                           dies |-> IF life = 0 THEN 0 ELSE now + life,
                           expiresAt |-> life]]
        BY <3>4 DEF Issue
      <4>2. ExchangeInTime(c)'
        BY <3>4, <4>1 DEF Issue, Goto, ExchangeInTime, Exchanging, callVars
      <4>3. QED
        BY <3>4, <4>1, <4>2 DEF Issue, Goto, ExchangeInTime, Timely, Exchanging, clientVars,
           callVars
    <3>5. CASE Receive(c)
      <4>1. Timely(token'[c])
        BY <3>5 DEF Receive, Timely, ExchangeInTime, Exchanging, TokenType, NoToken
      <4>2. \A d \in Callers \ {c} :
              token'[d] = token[d] /\ pc'[d] = pc[d] /\ askedAt'[d] = askedAt[d]
        BY <3>5 DEF Receive, Goto
      <4>3. \A t \in Kept' : Timely(t)
        BY <3>5, <4>1 DEF Receive
      <4>4. QED
        BY <3>5, <4>1, <4>2, <4>3 DEF Receive, Goto, ExchangeInTime, Timely, Exchanging
    <3>6. CASE ExchangeFails(c)
      BY <3>6 DEF ExchangeFails, Return, Goto, ExchangeInTime, Timely, Exchanging
    <3>7. CASE Save(c)
      BY <3>7 DEF Save, Goto, callVars, ExchangeInTime, Timely, Exchanging
    <3>8. CASE SaveFails(c)
      BY <3>8 DEF SaveFails, Return, Goto, ExchangeInTime, Timely, Exchanging
    <3>9. CASE SendAccepted(c)
      BY <3>9 DEF SendAccepted, Return, Goto, clientVars, ExchangeInTime, Timely, Exchanging
    <3>10. CASE SendExpired(c)
      BY <3>10 DEF SendExpired, Return, Goto, clientVars, ExchangeInTime, Timely, Exchanging
    <3>11. QED
      BY <2>5, <3>1, <3>2, <3>3, <3>4, <3>5, <3>6, <3>7, <3>8, <3>9, <3>10
      DEF Running
  <2>6. CASE UNCHANGED vars
    BY <2>6 DEF vars, clientVars, callVars, ExchangeInTime, Timely
  <2>7. QED
    BY <2>1, <2>2, <2>3, <2>4, <2>5, <2>6 DEF Next
<1>3. QED
  BY <1>1, <1>2, TokensTypeCorrect, PTL DEF Spec

(* No token the client would still hand out has run out at the API, for    *)
(* every margin at least as long as the HTTP client's timeout.             *)
THEOREM MarginSuffices == Spec => []ValidIsUnexpired
<1>1. TypeOK /\ TimelyInv => ValidIsUnexpired
  BY MarginCovers DEF TypeOK, TimelyInv, Kept, ValidIsUnexpired
<1>2. QED
  BY <1>1, TokensTypeCorrect, TimelyCorrect, PTL

-----------------------------------------------------------------------------
\* A token that is not valid does not become valid as time passes.
LEMMA StaysInvalid ==
  ASSUME now \in Nat, now' \in Nat, now <= now', NEW t \in TokenType \cup {NoToken}, ~Valid(t)
  PROVE  ~Valid(t)'
BY TokenCacheAssumption DEF TokenType, NoToken, Valid

LEMMA ClockAdvances ==
  ASSUME TypeOK, [Next]_vars
  PROVE  now' \in Nat /\ now <= now'
<1>1. CASE Tick
  BY <1>1 DEF Tick, TypeOK
<1>2. ASSUME NEW i \in 1..MaxTokens, Revoke(i)
      PROVE  now' = now
  BY <1>2 DEF Revoke
<1>3. ASSUME NEW c \in Callers, Begin(c) \/ Locking(c)
      PROVE  now' = now
  BY <1>3 DEF Begin, Locking, Look, AskSource, Drop, DropSource
<1>4. ASSUME NEW c \in Callers, Running(c)
      PROVE  now' = now
  BY <1>4 DEF Running, LoadHit, LoadMiss, LoadFails, Issue, Receive, ExchangeFails,
              Save, SaveFails, SendAccepted, SendExpired
<1>5. CASE UNCHANGED vars
  BY <1>5 DEF vars, TypeOK
<1>6. QED
  BY <1>1, <1>2, <1>3, <1>4, <1>5 DEF Next, TypeOK

(* cachedSource.mu excludes, so what a caller read under it stays true. *)
LEMMA LockCorrect == Spec => []LockInv
<1> USE TokenCacheAssumption
<1>1. Init => LockInv
  BY DEF Init, LockInv, Inside
<1>2. TypeOK /\ LockInv /\ [Next]_vars => LockInv'
  <2> SUFFICES ASSUME TypeOK, LockInv, [Next]_vars
               PROVE  LockInv'
    OBVIOUS
  <2> USE DEF TypeOK, LockInv
  <2>0. \A t \in TokenType \cup {NoToken} : ~Valid(t) => ~Valid(t)'
    BY StaysInvalid, ClockAdvances
  <2>a. \A c, d \in Callers :
          c # d /\ pc[c] \in Inside /\ pc[d] \in Inside => ProcOf[c] # ProcOf[d]
    OBVIOUS
  <2>1. CASE Tick
    BY <2>0, <2>1 DEF Tick, clientVars
  <2>2. ASSUME NEW i \in 1..MaxTokens, Revoke(i)
        PROVE  LockInv'
    BY <2>0, <2>2 DEF Revoke, clientVars
  <2>3. ASSUME NEW c \in Callers, Begin(c)
        PROVE  LockInv'
    BY <2>0, <2>3 DEF Begin, Goto, Inside, clientVars
  <2>4. ASSUME NEW c \in Callers, Locking(c)
        PROVE  LockInv'
    <3>1. CASE Look(c)
      <4>1. CASE Valid(cachedToken[ProcOf[c]])
        BY <2>0, <3>1, <4>1 DEF Look, Goto, Inside
      <4>2. CASE ~Valid(cachedToken[ProcOf[c]])
        <5>1. mu' = [mu EXCEPT ![ProcOf[c]] = {c}]
          BY <3>1, <4>2 DEF Look, Lock, IsFree
        <5>2. \A d \in Callers \ {c} : pc[d] \in Inside => ProcOf[d] # ProcOf[c]
          BY <3>1 DEF Look, IsFree
        <5>3. pc' = [pc EXCEPT ![c] = "load"] /\ cachedToken' = cachedToken
          BY <3>1, <4>2 DEF Look, Goto
        <5>4. QED
          BY <2>0, <4>2, <5>1, <5>2, <5>3 DEF Inside
      <4>3. QED
        BY <4>1, <4>2
    <3>2. CASE AskSource(c)
      BY <2>0, <3>2 DEF AskSource, Goto, Inside
    <3>3. CASE Drop(c)
      BY <2>0, <3>3 DEF Drop, Goto, IsFree, Inside, Valid
    <3>4. CASE DropSource(c)
      BY <2>0, <3>4 DEF DropSource, Goto, Inside
    <3>5. QED
      BY <2>4, <3>1, <3>2, <3>3, <3>4 DEF Locking
  <2>5. ASSUME NEW c \in Callers, Running(c)
        PROVE  LockInv'
    <3>1. CASE LoadHit(c)
      BY <2>0, <2>a, <3>1 DEF LoadHit, Goto, Unlock, Inside
    <3>2. CASE LoadMiss(c)
      BY <2>0, <3>2 DEF LoadMiss, Goto, Inside, clientVars
    <3>3. CASE LoadFails(c)
      BY <2>0, <2>a, <3>3 DEF LoadFails, Return, Goto, Unlock, Inside
    <3>4. CASE Issue(c)
      BY <2>0, <3>4 DEF Issue, Goto, Inside, clientVars
    <3>5. CASE Receive(c)
      BY <2>0, <3>5 DEF Receive, Goto, Inside
    <3>6. CASE ExchangeFails(c)
      BY <2>0, <2>a, <3>6 DEF ExchangeFails, Return, Goto, Unlock, Inside, Exchanging
    <3>7. CASE Save(c)
      BY <2>0, <2>a, <3>7 DEF Save, Goto, Unlock, Inside
    <3>8. CASE SaveFails(c)
      BY <2>0, <2>a, <3>8 DEF SaveFails, Return, Goto, Unlock, Inside
    <3>9. CASE SendAccepted(c)
      BY <2>0, <3>9 DEF SendAccepted, Return, Goto, Inside, clientVars
    <3>10. CASE SendExpired(c)
      BY <2>0, <3>10 DEF SendExpired, Return, Goto, Inside, clientVars
    <3>11. QED
      BY <2>5, <3>1, <3>2, <3>3, <3>4, <3>5, <3>6, <3>7, <3>8, <3>9, <3>10
      DEF Running
  <2>6. CASE UNCHANGED vars
    BY <2>0, <2>6 DEF vars, clientVars
  <2>7. QED
    BY <2>1, <2>2, <2>3, <2>4, <2>5, <2>6 DEF Next
<1>3. QED
  BY <1>1, <1>2, TokensTypeCorrect, PTL DEF Spec

(* Goroutines of one process share one exchange, however many there are. *)
THEOREM MintsAreShared == Spec => MintOnlyWithoutToken
<1>1. TypeOK /\ LockInv /\ [Next]_vars =>
        [\A c \in Callers :
           pc[c] # "exchange" /\ pc'[c] = "exchange" =>
             /\ ~Valid(cachedToken[ProcOf[c]])
             /\ ~Valid(sourceToken[ProcOf[c]])]_vars
  <2> SUFFICES ASSUME TypeOK, LockInv, Next, NEW c \in Callers,
                      pc[c] # "exchange", pc'[c] = "exchange"
               PROVE  /\ ~Valid(cachedToken[ProcOf[c]])
                      /\ ~Valid(sourceToken[ProcOf[c]])
    BY DEF vars
  <2>1. AskSource(c)
    <3>1. ~Tick /\ ~\E i \in 1..MaxTokens : Revoke(i)
      BY DEF Tick, Revoke
    <3>2. ASSUME NEW d \in Callers, Begin(d)
          PROVE  FALSE
      BY <3>2 DEF Begin, Goto, TypeOK
    <3>3. ASSUME NEW d \in Callers, Running(d)
          PROVE  FALSE
      BY <3>3 DEF Running, LoadHit, LoadMiss, LoadFails, Issue, Receive, ExchangeFails,
                  Save, SaveFails, SendAccepted, SendExpired, Return, Goto, TypeOK
    <3>4. ASSUME NEW d \in Callers, Locking(d)
          PROVE  AskSource(c)
      <4>1. ~Look(d) /\ ~Drop(d) /\ ~DropSource(d)
        BY DEF Look, Drop, DropSource, Goto, TypeOK
      <4>2. AskSource(d)
        BY <3>4, <4>1 DEF Locking
      <4>3. d = c
        BY <4>2 DEF AskSource, Goto, TypeOK
      <4>4. QED
        BY <4>2, <4>3
    <3>5. QED
      BY <3>1, <3>2, <3>3, <3>4 DEF Next
  <2>2. ~Valid(sourceToken[ProcOf[c]])
    BY <2>1 DEF AskSource, Goto, TypeOK
  <2>3. QED
    BY <2>1, <2>2 DEF AskSource, LockInv
<1>2. QED
  BY <1>1, TokensTypeCorrect, LockCorrect, PTL DEF Spec, MintOnlyWithoutToken

-----------------------------------------------------------------------------
(* Exchange: the bound on attempts, one effect per POST, and the step by   *)
(* step refinement of AppliedOnce.                                         *)

\* The tail of the loop keeps to the counter, the flag and the caller.
LEMMA FailType ==
  ASSUME ExchangeTypeOK, NEW c \in Calls, NEW r \in Failures, Fail(c, r)
  PROVE  /\ stage' \in [Calls -> Stages]
         /\ attempt' \in [Calls -> Nat]
         /\ refreshedOnce' \in [Calls -> BOOLEAN]
<1>1. CASE Refreshes(c, r)
  <2>1. /\ refreshedOnce' = [refreshedOnce EXCEPT ![c] = TRUE]
        /\ attempt' = [attempt EXCEPT ![c] = @ + 1]
        /\ stage' = [stage EXCEPT ![c] = "token"]
    BY <1>1, Zenon DEF Fail, MovesTo
  <2>2. QED
    BY <2>1 DEF ExchangeTypeOK, Stages
<1>2. CASE ~Refreshes(c, r)
  BY <1>2 DEF ExchangeTypeOK, Fail, MovesTo, Stages, Settled
<1>3. QED
  BY <1>1, <1>2

\* It neither forgets a key nor reports a success.
LEMMA FailOutcome ==
  ASSUME ExchangeTypeOK, NEW c \in Calls, NEW r \in Failures, Fail(c, r)
  PROVE  \E state \in {"token", "waiting", "error"} : stage' = [stage EXCEPT ![c] = state]
BY DEF Fail, MovesTo

(* A call has a key from its start on, every request carries it, and what  *)
(* was reported or executed is known to the API under it.                  *)
LEMMA ExchangeInductive == ExchangeSpec => [](ExchangeTypeOK /\ KeyInv)
<1> USE ExchangeAssumption
<1>1. ExchangeInit => ExchangeTypeOK
  BY DEF ExchangeInit, ExchangeTypeOK, Stages
<1>2. ExchangeTypeOK /\ KeyInv /\ [ExchangeNext]_exchangeVars => ExchangeTypeOK'
  <2> SUFFICES ASSUME ExchangeTypeOK, KeyInv, [ExchangeNext]_exchangeVars
               PROVE  ExchangeTypeOK'
    OBVIOUS
  <2> USE DEF ExchangeTypeOK
  <2>1. ASSUME NEW c \in Calls, Start(c)
        PROVE  ExchangeTypeOK'
    BY <2>1 DEF Start, MovesTo, Stages
  <2>2. ASSUME NEW c \in Calls, TokenFails(c)
        PROVE  ExchangeTypeOK'
    BY <2>2, FailType DEF TokenFails, Failures
  <2>3. ASSUME NEW c \in Calls, Send(c)
        PROVE  ExchangeTypeOK'
    <3>1. [call |-> c, key |-> key[c], attempt |-> attempt[c]] \in Requests
      BY <2>3 DEF Send, KeyInv, Requests
    <3>2. QED
      BY <2>3, <3>1 DEF Send, MovesTo, Stages, attemptVars
  <2>4. ASSUME NEW c \in Calls, TransportFails(c)
        PROVE  ExchangeTypeOK'
    BY <2>4, FailType DEF TransportFails, Failures
  <2>5. ASSUME NEW c \in Calls, Succeeds(c)
        PROVE  ExchangeTypeOK'
    BY <2>5 DEF Succeeds, MovesTo, Stages, Settled, attemptVars
  <2>6. ASSUME NEW c \in Calls, AnswerFails(c)
        PROVE  ExchangeTypeOK'
    BY <2>6, FailType DEF AnswerFails, Failures, Statuses
  <2>7. ASSUME NEW c \in Calls, Wake(c)
        PROVE  ExchangeTypeOK'
    BY <2>7 DEF Wake, MovesTo, Stages
  <2>8. ASSUME NEW c \in Calls, SleepCut(c)
        PROVE  ExchangeTypeOK'
    BY <2>8 DEF SleepCut, MovesTo, Stages, Settled, attemptVars
  <2>9. ASSUME NEW m \in wire, Execute(m) \/ Refuse(m) \/ Lose(m)
        PROVE  ExchangeTypeOK'
    <3>1. m.call \in Calls /\ m.key \in Keys
      BY DEF Requests
    <3>2. QED
      BY <2>9, <3>1 DEF Execute, Refuse, Lose, Answer, Statuses, attemptVars
  <2>10. CASE UNCHANGED exchangeVars
    BY <2>10 DEF exchangeVars, attemptVars
  <2>11. QED
    BY <2>1, <2>2, <2>3, <2>4, <2>5, <2>6, <2>7, <2>8, <2>9, <2>10 DEF ExchangeNext, Step
<1>3. ExchangeInit => KeyInv
  BY DEF ExchangeInit, KeyInv
<1>4. ExchangeTypeOK /\ KeyInv /\ [ExchangeNext]_exchangeVars => KeyInv'
  <2> SUFFICES ASSUME ExchangeTypeOK, KeyInv, [ExchangeNext]_exchangeVars
               PROVE  KeyInv'
    OBVIOUS
  <2> USE DEF ExchangeTypeOK, KeyInv
  <2>1. ASSUME NEW c \in Calls, Start(c)
        PROVE  KeyInv'
    <3>1. PICK k \in Keys : key' = [key EXCEPT ![c] = k]
      BY <2>1 DEF Start
    <3>2. key[c] = NoKey /\ key[c] \notin applied
      BY <2>1 DEF Start
    <3>3. \A m \in wire : m.call # c
      BY <3>2 DEF Requests
    <3>4. effects[c] = 0 /\ reply[c] # "ok"
      BY <3>2
    <3>5. \A m \in wire : m.key = key'[m.call]
      BY <3>1, <3>3 DEF Requests
    <3>6. QED
      BY <2>1, <3>1, <3>4, <3>5 DEF Start, MovesTo
  <2>2. ASSUME NEW c \in Calls, TokenFails(c)
        PROVE  KeyInv'
    BY <2>2, FailOutcome DEF TokenFails, Failures
  <2>3. ASSUME NEW c \in Calls, Send(c)
        PROVE  KeyInv'
    BY <2>3 DEF Send, MovesTo, attemptVars
  <2>4. ASSUME NEW c \in Calls, TransportFails(c)
        PROVE  KeyInv'
    BY <2>4, FailOutcome DEF TransportFails, Failures
  <2>5. ASSUME NEW c \in Calls, Succeeds(c)
        PROVE  KeyInv'
    BY <2>5 DEF Succeeds, MovesTo, attemptVars
  <2>6. ASSUME NEW c \in Calls, AnswerFails(c)
        PROVE  KeyInv'
    BY <2>6, FailOutcome DEF AnswerFails, Failures, Statuses
  <2>7. ASSUME NEW c \in Calls, Wake(c)
        PROVE  KeyInv'
    BY <2>7 DEF Wake, MovesTo
  <2>8. ASSUME NEW c \in Calls, SleepCut(c)
        PROVE  KeyInv'
    BY <2>8 DEF SleepCut, MovesTo, attemptVars
  <2>9. ASSUME NEW m \in wire, Execute(m)
        PROVE  KeyInv'
    <3>1. m.call \in Calls /\ m.key \in Keys /\ m.key = key[m.call]
      BY DEF Requests
    <3>2. QED
      BY <2>9, <3>1 DEF Execute, Answer, attemptVars
  <2>10. ASSUME NEW m \in wire, Refuse(m) \/ Lose(m)
         PROVE  KeyInv'
    BY <2>10 DEF Refuse, Lose, Answer, Statuses, Requests, attemptVars
  <2>11. CASE UNCHANGED exchangeVars
    BY <2>11 DEF exchangeVars, attemptVars
  <2>12. QED
    BY <2>1, <2>2, <2>3, <2>4, <2>5, <2>6, <2>7, <2>8, <2>9, <2>10, <2>11 DEF ExchangeNext, Step
<1>5. QED
  BY <1>1, <1>2, <1>3, <1>4, PTL DEF ExchangeSpec

(* The variables keep their types; in particular a POST is never sent      *)
(* without a key (client.go Do).                                           *)
THEOREM ExchangeTypeCorrect == ExchangeSpec => []ExchangeTypeOK
BY ExchangeInductive, PTL

-----------------------------------------------------------------------------
(* No call makes more attempts than the policy allows, but for the one     *)
(* after a refreshed token, for every policy (client.go exchange).         *)
THEOREM AttemptsAreBounded == ExchangeSpec => []AttemptsBounded
<1> USE ExchangeAssumption DEF AttemptInv, AttemptsBounded, MaxAttempts
<1>1. ExchangeInit => AttemptInv
  BY DEF ExchangeInit
<1>2. ExchangeTypeOK /\ KeyInv /\ AttemptInv /\ [ExchangeNext]_exchangeVars => AttemptInv'
  <2> SUFFICES ASSUME ExchangeTypeOK, KeyInv, AttemptInv, [ExchangeNext]_exchangeVars
               PROVE  AttemptInv'
    OBVIOUS
  <2> USE DEF ExchangeTypeOK
  <2>0. ASSUME NEW c \in Calls, NEW r \in Failures, Fail(c, r), stage[c] # "waiting"
        PROVE  AttemptInv'
    <3>1. CASE Refreshes(c, r)
      BY <2>0, <3>1 DEF Fail, Refreshes, MovesTo
    <3>2. CASE ~Refreshes(c, r)
      BY <2>0, <3>2 DEF Fail, MovesTo
    <3>3. QED
      BY <3>1, <3>2
  <2>1. ASSUME NEW c \in Calls, Start(c)
        PROVE  AttemptInv'
    BY <2>1 DEF Start, MovesTo
  <2>2. ASSUME NEW c \in Calls, TokenFails(c) \/ TransportFails(c) \/ AnswerFails(c)
        PROVE  AttemptInv'
    BY <2>0, <2>2 DEF TokenFails, TransportFails, AnswerFails, Failures, Statuses
  <2>3. ASSUME NEW c \in Calls, Send(c) \/ Succeeds(c) \/ SleepCut(c)
        PROVE  AttemptInv'
    BY <2>3 DEF Send, Succeeds, SleepCut, MovesTo, attemptVars
  <2>4. ASSUME NEW c \in Calls, Wake(c)
        PROVE  AttemptInv'
    BY <2>4 DEF Wake, MovesTo
  <2>5. ASSUME NEW m \in wire, Execute(m) \/ Refuse(m) \/ Lose(m)
        PROVE  AttemptInv'
    BY <2>5 DEF Execute, Refuse, Lose, attemptVars
  <2>6. CASE UNCHANGED exchangeVars
    BY <2>6 DEF exchangeVars, attemptVars
  <2>7. QED
    BY <2>1, <2>2, <2>3, <2>4, <2>5, <2>6 DEF ExchangeNext, Step
<1>3. QED
  BY <1>1, <1>2, ExchangeInductive, PTL DEF ExchangeSpec

-----------------------------------------------------------------------------
\* Of two calls with one key, at most one had its request executed.
SharedOnce ==
  \A c, d \in Calls : c # d /\ key[c] = key[d] => effects[c] = 0 \/ effects[d] = 0

(* The API executes a POST once, however often it was sent, for every set  *)
(* of calls and keys (client.go Do, transport.go RoundTrip).               *)
THEOREM PostsApplyOnce == ExchangeSpec => []PostAppliedOnce
<1> USE ExchangeAssumption DEF SharedOnce
<1>1. ExchangeInit => SharedOnce
  BY DEF ExchangeInit
<1>2. ExchangeTypeOK /\ KeyInv /\ SharedOnce /\ [ExchangeNext]_exchangeVars => SharedOnce'
  <2> SUFFICES ASSUME ExchangeTypeOK, KeyInv, SharedOnce, [ExchangeNext]_exchangeVars
               PROVE  SharedOnce'
    OBVIOUS
  <2> USE DEF ExchangeTypeOK
  <2>1. ASSUME NEW c \in Calls, Start(c)
        PROVE  SharedOnce'
    BY <2>1 DEF Start, KeyInv
  <2>2. ASSUME NEW c \in Calls, Step(c)
        PROVE  key' = key /\ effects' = effects
    BY <2>2 DEF Step, TokenFails, Send, TransportFails, Succeeds, AnswerFails, Wake,
                SleepCut, attemptVars
  <2>3. ASSUME NEW m \in wire, Execute(m)
        PROVE  SharedOnce'
    <3>1. m.call \in Calls /\ m.key = key[m.call]
      BY DEF Requests, KeyInv
    <3>2. CASE m.key \in applied
      BY <2>3, <3>2 DEF Execute, attemptVars
    <3>3. CASE m.key \notin applied
      <4>1. \A d \in Calls : key[d] = m.key => effects[d] = 0
        BY <3>3 DEF KeyInv
      <4>2. QED
        BY <2>3, <3>1, <3>3, <4>1 DEF Execute, attemptVars
    <3>4. QED
      BY <3>2, <3>3
  <2>4. ASSUME NEW m \in wire, Refuse(m) \/ Lose(m)
        PROVE  SharedOnce'
    BY <2>4 DEF Refuse, Lose, attemptVars
  <2>5. CASE UNCHANGED exchangeVars
    BY <2>5 DEF exchangeVars, attemptVars
  <2>6. QED
    BY <2>1, <2>2, <2>3, <2>4, <2>5 DEF ExchangeNext
<1>3. ExchangeTypeOK /\ KeyInv /\ SharedOnce => PostAppliedOnce
  BY DEF ExchangeTypeOK, KeyInv, PostAppliedOnce
<1>4. QED
  BY <1>1, <1>2, <1>3, ExchangeInductive, PTL DEF ExchangeSpec

-----------------------------------------------------------------------------
(* Do implements AppliedOnce: each step is a step of it or leaves it as it *)
(* is, for every set of calls and keys and every policy.                   *)
THEOREM Refinement == ExchangeSpec => ImplementsAppliedOnce
<1> USE ExchangeAssumption
<1> DEFINE outcome == [c \in Calls |-> IF stage[c] \in Settled THEN stage[c] ELSE "pending"]
<1>1. ExchangeInit => Abstract!Init
  BY DEF ExchangeInit, Abstract!Init, Settled
<1>2. ExchangeTypeOK /\ KeyInv /\ [ExchangeNext]_exchangeVars => [Abstract!Next]_(Abstract!absVars)
  <2> SUFFICES ASSUME ExchangeTypeOK, KeyInv, [ExchangeNext]_exchangeVars
               PROVE  Abstract!Next \/ UNCHANGED Abstract!absVars
    BY DEF Abstract!absVars
  <2> USE DEF ExchangeTypeOK, Settled
  <2>1. ASSUME NEW c \in Calls, NEW r \in Failures, Fail(c, r), stage[c] \notin Settled,
               stage[c] # "idle", key' = key, applied' = applied
        PROVE  Abstract!Next \/ UNCHANGED Abstract!absVars
    <3>1. PICK state \in {"token", "waiting", "error"} : stage' = [stage EXCEPT ![c] = state]
      BY <2>1, FailOutcome
    <3>2. CASE state = "error"
      <4>1. key[c] \in Keys
        BY <2>1 DEF KeyInv
      <4>2. outcome[c] = "pending" /\ outcome' = [outcome EXCEPT ![c] = "error"]
        BY <2>1, <3>1, <3>2
      <4>3. Abstract!Fail(c)
        BY <2>1, <4>1, <4>2 DEF Abstract!Fail
      <4>4. QED
        BY <4>3 DEF Abstract!Next
    <3>3. CASE state # "error"
      BY <2>1, <3>1, <3>3 DEF Abstract!absVars
    <3>4. QED
      BY <3>2, <3>3
  <2>2. ASSUME NEW c \in Calls, Start(c)
        PROVE  Abstract!Next \/ UNCHANGED Abstract!absVars
    <3>1. PICK k \in Keys : key' = [key EXCEPT ![c] = k]
      BY <2>2 DEF Start
    <3>2. Abstract!Start(c, k)
      BY <2>2, <3>1 DEF Start, Abstract!Start, MovesTo, KeyInv
    <3>3. QED
      BY <3>2 DEF Abstract!Next
  <2>3. ASSUME NEW c \in Calls, TokenFails(c) \/ TransportFails(c) \/ AnswerFails(c)
        PROVE  Abstract!Next \/ UNCHANGED Abstract!absVars
    BY <2>1, <2>3 DEF TokenFails, TransportFails, AnswerFails, Failures, Statuses
  <2>4. ASSUME NEW c \in Calls, Send(c) \/ Wake(c)
        PROVE  Abstract!Next \/ UNCHANGED Abstract!absVars
    BY <2>4 DEF Send, Wake, MovesTo, attemptVars, Abstract!absVars
  <2>5. ASSUME NEW c \in Calls, Succeeds(c)
        PROVE  Abstract!Next \/ UNCHANGED Abstract!absVars
    <3>1. Abstract!Succeed(c)
      BY <2>5 DEF Succeeds, MovesTo, attemptVars, Abstract!Succeed, KeyInv
    <3>2. QED
      BY <3>1 DEF Abstract!Next
  <2>6. ASSUME NEW c \in Calls, SleepCut(c)
        PROVE  Abstract!Next \/ UNCHANGED Abstract!absVars
    <3>1. key[c] \in Keys
      BY <2>6 DEF SleepCut, KeyInv
    <3>2. outcome[c] = "pending" /\ outcome' = [outcome EXCEPT ![c] = "error"]
      BY <2>6 DEF SleepCut, MovesTo
    <3>3. Abstract!Fail(c)
      BY <2>6, <3>1, <3>2 DEF SleepCut, attemptVars, Abstract!Fail
    <3>4. QED
      BY <3>3 DEF Abstract!Next
  <2>7. ASSUME NEW m \in wire, Execute(m)
        PROVE  Abstract!Next \/ UNCHANGED Abstract!absVars
    <3>1. m.call \in Calls /\ m.key \in Keys /\ m.key = key[m.call]
      BY DEF Requests, KeyInv
    <3>2. CASE m.key \in applied
      BY <2>7, <3>1, <3>2 DEF Execute, attemptVars, Abstract!absVars
    <3>3. CASE m.key \notin applied
      <4>1. Abstract!Apply(m.call)
        BY <2>7, <3>1, <3>3 DEF Execute, attemptVars, Abstract!Apply
      <4>2. QED
        BY <3>1, <4>1 DEF Abstract!Next
    <3>4. QED
      BY <3>2, <3>3
  <2>8. ASSUME NEW m \in wire, Refuse(m) \/ Lose(m)
        PROVE  Abstract!Next \/ UNCHANGED Abstract!absVars
    BY <2>8 DEF Refuse, Lose, attemptVars, Abstract!absVars
  <2>9. CASE UNCHANGED exchangeVars
    BY <2>9 DEF exchangeVars, attemptVars, Abstract!absVars
  <2>10. QED
    BY <2>2, <2>3, <2>4, <2>5, <2>6, <2>7, <2>8, <2>9 DEF ExchangeNext, Step
<1>3. QED
  BY <1>1, <1>2, ExchangeInductive, PTL DEF ExchangeSpec, Abstract!Spec, ImplementsAppliedOnce

-----------------------------------------------------------------------------
(* The two together.                                                       *)

(* A client's calls are those of both parts, each as its module states.    *)
LEMMA ClientIsBoth == ClientSpec => Spec /\ ExchangeSpec
<1>1. ClientInit => Init /\ ExchangeInit
  BY DEF ClientInit
<1>2. [ClientNext]_everything => [Next]_vars /\ [ExchangeNext]_exchangeVars
  BY DEF ClientNext, everything
<1>3. QED
  BY <1>1, <1>2, PTL DEF ClientSpec, Spec, ExchangeSpec

(* Every variable of the client keeps its type (token.go, client.go).      *)
THEOREM ClientTypeCorrect == ClientSpec => []ClientTypeOK
<1>1. TypeOK /\ ExchangeTypeOK => ClientTypeOK
  BY DEF ClientTypeOK
<1>2. QED
  BY <1>1, ClientIsBoth, TokensTypeCorrect, ExchangeTypeCorrect, PTL

(* What holds of each part holds of the client: a token is sent within its *)
(* term, attempts are bounded, a POST has one effect, a token is asked for *)
(* by who has none, and the attempts implement AppliedOnce.                *)
THEOREM ClientHolds ==
  ClientSpec => /\ []ValidIsUnexpired /\ MintOnlyWithoutToken
                /\ []AttemptsBounded /\ []PostAppliedOnce /\ ImplementsAppliedOnce
BY ClientIsBoth, MarginSuffices, MintsAreShared, AttemptsAreBounded, PostsApplyOnce,
   Refinement, PTL

=============================================================================
