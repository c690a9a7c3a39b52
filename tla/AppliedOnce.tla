---------------------------- MODULE AppliedOnce -----------------------------
(***************************************************************************)
(* What Client.Do promises of a POST, and what it cannot promise: the      *)
(* effect happens at most once per idempotency key, a call that reports    *)
(* success has had its effect, and a call that reports an error may still  *)
(* have it, before or after it returned.                                   *)
(***************************************************************************)
CONSTANTS Calls, Keys, NoKey

VARIABLES
  key,      \* the key of each call; NoKey until it starts
  applied,  \* keys whose effect has happened
  outcome   \* what each call reported

absVars == <<key, applied, outcome>>

Init ==
  /\ key = [c \in Calls |-> NoKey]
  /\ applied = {}
  /\ outcome = [c \in Calls |-> "pending"]

Start(c, k) ==
  /\ key[c] = NoKey
  /\ key' = [key EXCEPT ![c] = k]
  /\ UNCHANGED <<applied, outcome>>

Apply(c) ==
  /\ key[c] \in Keys \ applied
  /\ applied' = applied \cup {key[c]}
  /\ UNCHANGED <<key, outcome>>

Succeed(c) ==
  /\ outcome[c] = "pending"
  /\ key[c] \in applied
  /\ outcome' = [outcome EXCEPT ![c] = "ok"]
  /\ UNCHANGED <<key, applied>>

Fail(c) ==
  /\ outcome[c] = "pending"
  /\ key[c] \in Keys
  /\ outcome' = [outcome EXCEPT ![c] = "error"]
  /\ UNCHANGED <<key, applied>>

Next ==
  \E c \in Calls :
    \/ \E k \in Keys : Start(c, k)
    \/ Apply(c)
    \/ Succeed(c)
    \/ Fail(c)

Spec == Init /\ [][Next]_absVars

=============================================================================
