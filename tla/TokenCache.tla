----------------------------- MODULE TokenCache -----------------------------
(***************************************************************************)
(* Bearer tokens of one profile: pkg/transpareo/token.go as client.go uses *)
(* it.  A process of the command-line tool, or a program that embeds the   *)
(* package, holds one cachedSource over one credentialsSource; its         *)
(* goroutines (callers) share both, and every process shares the profile's *)
(* token store.  A caller asks for a token, sends its request, and on a    *)
(* 401 TOKEN_EXPIRED invalidates the token once and asks again.            *)
(* Retries after other failures are in Exchange: a call ends here at its   *)
(* first one, and the next attempt is a call of its own.                   *)
(*                                                                         *)
(* Time is counted in units of the refresh margin's choice.  The API       *)
(* counts a token's life from the moment it issues it, the client from the *)
(* moment it has read the answer, which is what the margin is there for.   *)
(***************************************************************************)
EXTENDS Integers

CONSTANTS
  Processes,      \* processes that share the profile's token store
  Callers,        \* goroutines that make requests
  ProcOf,         \* the process of each caller
  RefreshMargin,  \* refreshMargin
  HTTPTimeout,    \* http.Client.Timeout: the longest a token exchange takes
  Lifetimes,      \* values of expires_in the API answers; 0: it sent none
  StoreFaults,    \* store operations that may fail: "load", "save", "clear"
  MaxTime,        \* bound on the clock
  MaxTokens       \* bound on the tokens the API issues

ASSUME TokenCacheAssumption ==
  /\ ProcOf \in [Callers -> Processes]
  /\ RefreshMargin \in Nat
  /\ HTTPTimeout \in Nat
  /\ Lifetimes \subseteq Nat
  /\ MaxTime \in Nat
  /\ MaxTokens \in Nat
  \* client.go gives its HTTP client the very 60 seconds of refreshMargin.
  /\ HTTPTimeout <= RefreshMargin

VARIABLES
  now,          \* the wall clock
  issued,       \* how many tokens the API has issued; also the last one's id
  revoked,      \* ids the API reports as expired ahead of their time
  stored,       \* the profile's entry of the token store
  cachedToken,  \* cachedSource.token of each process
  sourceToken,  \* credentialsSource.token of each process
  mu,           \* cachedSource.mu: the callers that hold it
  sourceMu,     \* credentialsSource.mu: the callers that hold it
  pc,           \* where each caller is
  token,        \* the token the caller was handed, or is about to be
  askedAt,      \* when the caller's token exchange started
  refreshed,    \* exchange's local of the same name: 401 already handled
  rejected      \* the id the API reported expired to this call, in a set

clientVars == <<cachedToken, sourceToken, mu, sourceMu>>
callVars == <<askedAt, refreshed, rejected>>
vars == <<now, issued, revoked, stored, clientVars, pc, token, callVars>>

-----------------------------------------------------------------------------
(* dies is the API's expiry and expiresAt the client's Token.ExpiresAt, 0  *)
(* standing for the zero time of a token without expires_in.               *)
TokenType == [id : 1..MaxTokens, dies : Nat, expiresAt : Nat]
NoToken == [id |-> 0, dies |-> 0, expiresAt |-> 0]

\* States in which a caller holds cachedSource.mu.
Inside == {"load", "source", "exchange", "answer", "save"}
\* States in which it holds credentialsSource.mu as well.
Exchanging == {"exchange", "answer"}
PC == Inside \cup {"idle", "wait", "have", "drop", "dropSource"}

\* Mutant of Valid: the refresh margin is forgotten.
ValidToTheEnd(t) ==
  /\ t # NoToken
  /\ t.expiresAt # 0 => now < t.expiresAt

\* Token.Valid
Valid(t) ==
  /\ t # NoToken
  /\ t.expiresAt # 0 => now + RefreshMargin < t.expiresAt

\* The API's verdict on a token it is shown now.
Accepted(t) ==
  /\ t.id \notin revoked
  /\ t.dies # 0 => now < t.dies

Goto(c, state) == pc' = [pc EXCEPT ![c] = state]
Lock(m, c) == m' = [m EXCEPT ![ProcOf[c]] = @ \cup {c}]
Unlock(m, c) == m' = [m EXCEPT ![ProcOf[c]] = @ \ {c}]
IsFree(m, c) == m[ProcOf[c]] = {}

\* The call returns, whatever its outcome, and its locals are gone.
Return(c) ==
  /\ Goto(c, "idle")
  /\ token' = [token EXCEPT ![c] = NoToken]
  /\ askedAt' = [askedAt EXCEPT ![c] = 0]
  /\ refreshed' = [refreshed EXCEPT ![c] = FALSE]
  /\ rejected' = [rejected EXCEPT ![c] = {}]

Init ==
  /\ now = 0
  /\ issued = 0
  /\ revoked = {}
  /\ stored = NoToken
  /\ cachedToken = [p \in Processes |-> NoToken]
  /\ sourceToken = [p \in Processes |-> NoToken]
  /\ mu = [p \in Processes |-> {}]
  /\ sourceMu = [p \in Processes |-> {}]
  /\ pc = [c \in Callers |-> "idle"]
  /\ token = [c \in Callers |-> NoToken]
  /\ askedAt = [c \in Callers |-> 0]
  /\ refreshed = [c \in Callers |-> FALSE]
  /\ rejected = [c \in Callers |-> {}]

-----------------------------------------------------------------------------
(* The environment. *)

\* An exchange under way never outlives the HTTP client's timeout.
Tick ==
  /\ now < MaxTime
  /\ \A c \in Callers : pc[c] \in Exchanging => now - askedAt[c] < HTTPTimeout
  /\ now' = now + 1
  /\ UNCHANGED <<issued, revoked, stored, clientVars, pc, token, callVars>>

\* The API stops honouring a token early: the consumer's secret was rotated,
\* or its clock runs ahead of the client's.
Revoke(i) ==
  /\ i \in 1..issued \ revoked
  /\ revoked' = revoked \cup {i}
  /\ UNCHANGED <<now, issued, stored, clientVars, pc, token, callVars>>

-----------------------------------------------------------------------------
(* cachedSource.Token *)

\* A call enters exchange with refreshed false and asks for a token.
Begin(c) ==
  /\ pc[c] = "idle"
  /\ Goto(c, "wait")
  /\ UNCHANGED <<now, issued, revoked, stored, clientVars, token, callVars>>

\* The lock, and the token in memory when it is still valid.
Look(c) ==
  /\ pc[c] = "wait"
  /\ IsFree(mu, c)
  /\ \/ /\ Valid(cachedToken[ProcOf[c]])
        /\ token' = [token EXCEPT ![c] = cachedToken[ProcOf[c]]]
        /\ Goto(c, "have")
        /\ UNCHANGED mu
     \/ /\ ~Valid(cachedToken[ProcOf[c]])
        /\ Goto(c, "load")
        /\ Lock(mu, c)
        /\ UNCHANGED token
  /\ UNCHANGED <<now, issued, revoked, stored, cachedToken, sourceToken,
                 sourceMu, callVars>>

\* store.Load: a valid stored token is used as it is.
LoadHit(c) ==
  /\ pc[c] = "load"
  /\ Valid(stored)
  /\ cachedToken' = [cachedToken EXCEPT ![ProcOf[c]] = stored]
  /\ token' = [token EXCEPT ![c] = stored]
  /\ Goto(c, "have")
  /\ Unlock(mu, c)
  /\ UNCHANGED <<now, issued, revoked, stored, sourceToken, sourceMu, callVars>>

LoadMiss(c) ==
  /\ pc[c] = "load"
  /\ ~Valid(stored)
  /\ Goto(c, "source")
  /\ UNCHANGED <<now, issued, revoked, stored, clientVars, token, callVars>>

LoadFails(c) ==
  /\ pc[c] = "load"
  /\ "load" \in StoreFaults
  /\ Return(c)
  /\ Unlock(mu, c)
  /\ UNCHANGED <<now, issued, revoked, stored, cachedToken, sourceToken, sourceMu>>

\* Mutant of AskSource: credentialsSource does not look at its own token.
AskSourceAnew(c) ==
  /\ pc[c] = "source"
  /\ IsFree(sourceMu, c)
  /\ askedAt' = [askedAt EXCEPT ![c] = now]
  /\ Goto(c, "exchange")
  /\ Lock(sourceMu, c)
  /\ UNCHANGED <<now, issued, revoked, stored, cachedToken, sourceToken, mu,
                 token, refreshed, rejected>>

\* credentialsSource.Token: its own lock, then its own memory.
AskSource(c) ==
  /\ pc[c] = "source"
  /\ IsFree(sourceMu, c)
  /\ \/ /\ Valid(sourceToken[ProcOf[c]])
        /\ token' = [token EXCEPT ![c] = sourceToken[ProcOf[c]]]
        /\ Goto(c, "save")
        /\ UNCHANGED <<sourceMu, askedAt>>
     \/ /\ ~Valid(sourceToken[ProcOf[c]])
        /\ askedAt' = [askedAt EXCEPT ![c] = now]
        /\ Goto(c, "exchange")
        /\ Lock(sourceMu, c)
        /\ UNCHANGED token
  /\ UNCHANGED <<now, issued, revoked, stored, cachedToken, sourceToken, mu,
                 refreshed, rejected>>

\* The token endpoint issues a token; its answer is still under way.
Issue(c) ==
  /\ pc[c] = "exchange"
  /\ issued < MaxTokens
  /\ issued' = issued + 1
  /\ \E life \in Lifetimes :
       token' = [token EXCEPT ![c] =
                   [id |-> issued + 1,
                    dies |-> IF life = 0 THEN 0 ELSE now + life,
                    expiresAt |-> life]]
  /\ Goto(c, "answer")
  /\ UNCHANGED <<now, revoked, stored, clientVars, callVars>>

\* Mutant of Receive: the clock is subtracted from expires_in, not added.
ReceiveSubtracting(c) ==
  LET t == IF token[c].expiresAt = 0 THEN token[c]
           ELSE [token[c] EXCEPT !.expiresAt = @ - now]
  IN
  /\ pc[c] = "answer"
  /\ token' = [token EXCEPT ![c] = t]
  /\ sourceToken' = [sourceToken EXCEPT ![ProcOf[c]] = t]
  /\ askedAt' = [askedAt EXCEPT ![c] = 0]
  /\ Goto(c, "save")
  /\ Unlock(sourceMu, c)
  /\ UNCHANGED <<now, issued, revoked, stored, cachedToken, mu, refreshed, rejected>>

\* The answer is read: only now does expires_in become an instant.
Receive(c) ==
  LET t == IF token[c].expiresAt = 0 THEN token[c]
           ELSE [token[c] EXCEPT !.expiresAt = now + @]
  IN
  /\ pc[c] = "answer"
  /\ token' = [token EXCEPT ![c] = t]
  /\ sourceToken' = [sourceToken EXCEPT ![ProcOf[c]] = t]
  /\ askedAt' = [askedAt EXCEPT ![c] = 0]
  /\ Goto(c, "save")
  /\ Unlock(sourceMu, c)
  /\ UNCHANGED <<now, issued, revoked, stored, cachedToken, mu, refreshed, rejected>>

\* No answer, a refusal, or a lost answer to a token already issued.
ExchangeFails(c) ==
  /\ pc[c] \in Exchanging
  /\ Return(c)
  /\ Unlock(mu, c)
  /\ Unlock(sourceMu, c)
  /\ UNCHANGED <<now, issued, revoked, stored, cachedToken, sourceToken>>

\* store.Save, then memory.
Save(c) ==
  /\ pc[c] = "save"
  /\ stored' = token[c]
  /\ cachedToken' = [cachedToken EXCEPT ![ProcOf[c]] = token[c]]
  /\ Goto(c, "have")
  /\ Unlock(mu, c)
  /\ UNCHANGED <<now, issued, revoked, sourceToken, sourceMu, token, callVars>>

\* A failed Save loses the call its token; only credentialsSource keeps it.
SaveFails(c) ==
  /\ pc[c] = "save"
  /\ "save" \in StoreFaults
  /\ Return(c)
  /\ Unlock(mu, c)
  /\ UNCHANGED <<now, issued, revoked, stored, cachedToken, sourceToken, sourceMu>>

-----------------------------------------------------------------------------
(* The request, and the 401 of Client.exchange. *)

SendAccepted(c) ==
  /\ pc[c] = "have"
  /\ Accepted(token[c])
  /\ Return(c)
  /\ UNCHANGED <<now, issued, revoked, stored, clientVars>>

\* Mutant of SendExpired: every 401 is followed by another refresh.
SendExpiredAgain(c) ==
  /\ pc[c] = "have"
  /\ ~Accepted(token[c])
  /\ rejected' = [rejected EXCEPT ![c] = {token[c].id}]
  /\ token' = [token EXCEPT ![c] = NoToken]
  /\ Goto(c, "drop")
  /\ UNCHANGED <<now, issued, revoked, stored, clientVars, askedAt, refreshed>>

\* 401 TOKEN_EXPIRED: the first one invalidates, the second one settles.
SendExpired(c) ==
  /\ pc[c] = "have"
  /\ ~Accepted(token[c])
  /\ \/ /\ ~refreshed[c]
        /\ rejected' = [rejected EXCEPT ![c] = {token[c].id}]
        /\ token' = [token EXCEPT ![c] = NoToken]
        /\ Goto(c, "drop")
        /\ UNCHANGED <<askedAt, refreshed>>
     \/ /\ refreshed[c]
        /\ Return(c)
  /\ UNCHANGED <<now, issued, revoked, stored, clientVars>>

\* cachedSource.Invalidate under its lock; the store's error is dropped.
Drop(c) ==
  /\ pc[c] = "drop"
  /\ IsFree(mu, c)
  /\ cachedToken' = [cachedToken EXCEPT ![ProcOf[c]] = NoToken]
  /\ \/ stored' = NoToken
     \/ /\ "clear" \in StoreFaults
        /\ UNCHANGED stored
  /\ Goto(c, "dropSource")
  /\ UNCHANGED <<now, issued, revoked, sourceToken, mu, sourceMu, token, callVars>>

\* credentialsSource.Invalidate, after cachedSource.mu was released; then
\* the loop of exchange goes round.
DropSource(c) ==
  /\ pc[c] = "dropSource"
  /\ IsFree(sourceMu, c)
  /\ sourceToken' = [sourceToken EXCEPT ![ProcOf[c]] = NoToken]
  /\ refreshed' = [refreshed EXCEPT ![c] = TRUE]
  /\ Goto(c, "wait")
  /\ UNCHANGED <<now, issued, revoked, stored, cachedToken, mu, sourceMu,
                 token, askedAt, rejected>>

-----------------------------------------------------------------------------
Locking(c) == Look(c) \/ AskSource(c) \/ Drop(c) \/ DropSource(c)

Running(c) ==
  \/ LoadHit(c) \/ LoadMiss(c) \/ LoadFails(c)
  \/ Issue(c) \/ Receive(c) \/ ExchangeFails(c)
  \/ Save(c) \/ SaveFails(c)
  \/ SendAccepted(c) \/ SendExpired(c)

Next ==
  \/ Tick
  \/ \E i \in 1..MaxTokens : Revoke(i)
  \/ \E c \in Callers : Begin(c) \/ Locking(c) \/ Running(c)

Spec == Init /\ [][Next]_vars

(* A goroutine in a call keeps running; sync.Mutex hands itself to a waiter *)
(* in the end (its starvation mode), hence strong fairness on locking.      *)
Fairness == \A c \in Callers : WF_vars(Running(c)) /\ SF_vars(Locking(c))
FairSpec == Spec /\ Fairness

-----------------------------------------------------------------------------
TypeOK ==
  /\ now \in Nat
  /\ issued \in 0..MaxTokens
  /\ revoked \subseteq 1..MaxTokens
  /\ stored \in TokenType \cup {NoToken}
  /\ cachedToken \in [Processes -> TokenType \cup {NoToken}]
  /\ sourceToken \in [Processes -> TokenType \cup {NoToken}]
  /\ mu \in [Processes -> SUBSET Callers]
  /\ sourceMu \in [Processes -> SUBSET Callers]
  /\ pc \in [Callers -> PC]
  /\ token \in [Callers -> TokenType \cup {NoToken}]
  /\ askedAt \in [Callers -> Nat]
  /\ refreshed \in [Callers -> BOOLEAN]
  /\ rejected \in [Callers -> SUBSET (0..MaxTokens)]

\* Every token a process may still hand to a caller.
Kept == {stored} \cup {cachedToken[p] : p \in Processes}
                 \cup {sourceToken[p] : p \in Processes}

(* The refresh margin is enough: no token the client would still hand out  *)
(* has run out at the API, however long its exchange took and whichever    *)
(* process minted it (token.go Valid and refreshMargin, client.go          *)
(* defaultHTTPClient).                                                     *)
ValidIsUnexpired ==
  \A t \in Kept : Valid(t) => t.dies = 0 \/ now < t.dies

(* Goroutines of one process share one exchange: none starts while the     *)
(* process keeps a token it would hand out (token.go, cachedSource.mu held *)
(* from the look in memory to the save).                                   *)
MintOnlyWithoutToken ==
  [][\A c \in Callers :
       pc[c] # "exchange" /\ pc'[c] = "exchange" =>
         /\ ~Valid(cachedToken[ProcOf[c]])
         /\ ~Valid(sourceToken[ProcOf[c]])]_vars

(* The token a call is handed after it invalidated one is not the one the  *)
(* API had just refused (token.go, NewCachedTokenSource: "so the next      *)
(* request mints a fresh one").                                            *)
FreshAfterInvalidate ==
  \A c \in Callers : pc[c] = "have" => token[c].id \notin rejected[c]

(* Every call is answered: no lock is left behind on any path and no two   *)
(* callers wait on each other (token.go, the two mutexes).                 *)
CallEnds ==
  \A c \in Callers : pc[c] = "wait" ~> pc[c] = "idle"

-----------------------------------------------------------------------------
(* The inductive invariants behind the theorems of ClientProofs. *)

\* What the client believes of a token's life is late by at most an exchange.
Timely(t) ==
  /\ t.expiresAt = 0 => t.dies = 0
  /\ t.expiresAt # 0 => t.dies # 0 /\ t.expiresAt <= t.dies + HTTPTimeout

\* A token whose answer is under way was issued after it was asked for.
ExchangeInTime(c) ==
  /\ askedAt[c] <= now
  /\ now <= askedAt[c] + HTTPTimeout
  /\ pc[c] = "answer" =>
       /\ token[c].expiresAt = 0 => token[c].dies = 0
       /\ token[c].expiresAt # 0 => token[c].dies >= askedAt[c] + token[c].expiresAt

TimelyInv ==
  /\ \A t \in Kept : Timely(t)
  /\ \A c \in Callers : pc[c] = "save" => Timely(token[c])
  /\ \A c \in Callers : pc[c] \in Exchanging => ExchangeInTime(c)

\* cachedSource.mu excludes, and what a caller read under it stays true.
LockInv ==
  /\ \A c \in Callers : pc[c] \in Inside => mu[ProcOf[c]] = {c}
  /\ \A c \in Callers : pc[c] \in {"load", "source"} => ~Valid(cachedToken[ProcOf[c]])

=============================================================================
