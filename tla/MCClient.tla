------------------------------ MODULE MCClient ------------------------------
(***************************************************************************)
(* Instances of TokenCache and Exchange for TLC: what every call of the    *)
(* client goes through.  To Exchange a token is there or refused, so the   *)
(* two share no state: a behaviour is of one of them, chosen at the start, *)
(* and the other stays as it begins.                                       *)
(***************************************************************************)
EXTENDS MCTokenCache, MCExchange

VARIABLE part

everything == <<part, vars, exchangeVars>>

ClientInit == part \in {"token", "exchange"} /\ Init /\ ExchangeInit

ClientNext ==
  /\ UNCHANGED part
  /\ \/ part = "token" /\ Next /\ UNCHANGED exchangeVars
     \/ part = "exchange" /\ ExchangeNext /\ UNCHANGED vars

\* The part in play has the fairness its module states.
ClientFairness ==
  /\ \A c \in Callers : /\ WF_vars(part = "token" /\ Running(c))
                        /\ SF_vars(part = "token" /\ Locking(c))
  /\ \A c \in Calls : WF_exchangeVars(part = "exchange" /\ Step(c))

ClientSpec == ClientInit /\ [][ClientNext]_everything /\ ClientFairness

\* The types of both parts.
ClientTypeOK == TypeOK /\ ExchangeTypeOK

(* Every call returns, whatever the token sources, the API and the network *)
(* do: no lock is kept, no refresh or retry goes on for ever (token.go     *)
(* Token and Invalidate, client.go exchange).                              *)
CallsReturn == CallEnds /\ CallSettles

=============================================================================
