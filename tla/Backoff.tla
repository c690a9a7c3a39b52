------------------------------ MODULE Backoff ------------------------------
(***************************************************************************)
(* Client.backoff of pkg/transpareo/client.go: the waits between the       *)
(* attempts of one call, in Go's arithmetic.  A time.Duration is a signed  *)
(* integer of Width bits, whose shifts wrap around; the jitter, a float in *)
(* [0.5, 1.5), is counted in eighths.                                      *)
(***************************************************************************)
EXTENDS Integers

CONSTANTS
  Width,       \* bits of a time.Duration
  Waits,       \* values of BaseWait and MaxWait, positive
  RetryAfters, \* values of Retry-After, 0 for none
  MaxAttempt   \* bound on the attempts

ASSUME BackoffAssumption ==
  /\ Width \in Nat \ {0, 1}
  /\ Waits \subseteq {w \in Nat \ {0} : 3 * w < 2^Width}
  /\ RetryAfters \subseteq Nat
  /\ MaxAttempt \in Nat

Jitters == 4..11

VARIABLES
  policy,   \* RetryPolicy
  attempt,  \* attempts made
  after,    \* Retry-After of the last answer
  wait      \* the wait that follows it

backoffVars == <<policy, attempt, after, wait>>

\* Of a wait over two thirds of the longest duration, 195 years of the 64 bits,
\* half as much again is out of a duration's range; those are left out.
Policies == [base: Waits, max: Waits]

BackoffInit ==
  /\ policy \in Policies
  /\ attempt = 0
  /\ after = 0
  /\ wait = 0

-----------------------------------------------------------------------------
Signed(x) ==
  LET y == x % 2^Width IN IF y >= 2^(Width - 1) THEN y - 2^Width ELSE y

ShiftLeft(x, n) == IF n >= Width THEN 0 ELSE Signed(x * 2^n)

\* Mutant of Grown: a wait that wrapped around is not caught.
GrownUnguarded(n) ==
  LET shifted == ShiftLeft(policy.base, n - 1)
  IN IF shifted > policy.max THEN policy.max ELSE shifted

\* The policy's wait after attempt n, before the jitter.
Grown(n) ==
  LET shifted == ShiftLeft(policy.base, n - 1)
  IN IF shifted > policy.max \/ shifted <= 0 THEN policy.max ELSE shifted

Jittered(w, jitter) == (w * jitter) \div 8

Retry ==
  /\ attempt < MaxAttempt
  /\ attempt' = attempt + 1
  /\ \E r \in RetryAfters, jitter \in Jitters :
       /\ after' = r
       /\ wait' = IF r > 0 THEN r ELSE Jittered(Grown(attempt'), jitter)
  /\ UNCHANGED policy

BackoffNext == Retry

BackoffSpec == BackoffInit /\ [][BackoffNext]_backoffVars

-----------------------------------------------------------------------------
BackoffTypeOK ==
  /\ policy \in Policies
  /\ attempt \in 0..MaxAttempt
  /\ after \in RetryAfters \cup {0}
  /\ wait \in Int

\* The wait doubles per attempt up to the limit, in numbers of any size.
Doubled(n) ==
  LET w == policy.base * 2^(n - 1) IN IF w > policy.max THEN policy.max ELSE w

\* The doubled wait is within the range of a duration, or what is left of it
\* after a shift wraps has too many zeros to be within the limit: but for its
\* trailing zeros, the first wait times the limit is within the range.
Shiftable(n) ==
  \/ policy.base * 2^(n - 1) < 2^(Width - 1)
  \/ \E k \in 0..Width - 1 :
       /\ policy.base % 2^k = 0
       /\ (policy.base \div 2^k) * policy.max < 2^(Width - 1)

(* "The wait doubles per attempt, varies randomly by up to half its        *)
(* length, and never exceeds MaxWait" (client.go:31-32).  It does double   *)
(* up to the limit, shifts that wrap around included, wherever the width   *)
(* leaves enough digits; where it does not, a late wait may fall back.     *)
(* What it never exceeds, for any policy, is one and a half times MaxWait: *)
(* it varies after the limit is applied (client.go backoff).               *)
WaitDoubles ==
  attempt > 0 /\ after = 0 =>
    /\ 0 <= wait /\ 2 * wait < 3 * policy.max
    /\ Shiftable(attempt) =>
         \E jitter \in Jitters : wait = Jittered(Doubled(attempt), jitter)

=============================================================================
