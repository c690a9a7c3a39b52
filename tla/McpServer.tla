----------------------------- MODULE McpServer -----------------------------
(***************************************************************************)
(* transpareo mcp (internal/mcp/server.go, tools.go, data.go): an          *)
(* assistant's tool calls, which the server handles concurrently, each     *)
(* through the guards of its kind of tool and then with the one client of  *)
(* the server.  Tool groups are left out: call_api is served with every    *)
(* group and reaches what the groups narrow.  An operation with a body of  *)
(* its own takes part as its request does.                                 *)
(*                                                                         *)
(* The call of the client is Exchange's, and is one step here: the         *)
(* platform executes the request once or never, and the answer may be      *)
(* lost.                                                                   *)
(***************************************************************************)
CONSTANTS
  Calls,        \* tool calls
  Operations,   \* of the registry
  Safe,         \* those Operation.ReadOnly says change nothing
  Destructive,  \* those that cannot be undone
  Idempotent,   \* those that take an Idempotency-Key
  Callable,     \* those a consumer token can call
  Curated,      \* those with a curated tool
  Flow,         \* what export_catalogue and import_spreadsheet send
  Objects,      \* values of the path parameters
  Keys,         \* keys an assistant may give
  None          \* no operation, object, phrase or key

ASSUME McpAssumption ==
  /\ Safe \cup Destructive \cup Idempotent \subseteq Operations
  /\ Safe \cap (Destructive \cup Idempotent) = {}
  /\ Curated \subseteq Callable /\ Callable \subseteq Operations
  /\ Flow \in Operations \ (Safe \cup Destructive \cup Idempotent)
  /\ None \notin UNION {Operations, Objects, Keys, Calls}
  /\ Objects # {} /\ {"new", "done"} \cap Calls = {}

Tools == {"curated", "call_api", "flow"}

\* The phrase that confirms an operation on an object.
Phrases == Destructive \X Objects

VARIABLES
  readOnly,    \* whether the server was started with --read-only
  once,        \* the sync.Once: "new", the call that runs it, or "done"
  client,      \* what it left: "none", "ok" or "error"
  at,          \* where each call is
  args,        \* what it asks for
  answer,      \* what it was answered
  sent,        \* the calls whose request the platform has seen
  seen         \* the operations and keys executed, with the call each was

serving == <<readOnly, once, client>>
mcpVars == <<serving, at, args, answer, sent, seen>>

Anything == CHOOSE o \in Objects : TRUE

\* What a call asks for, as far as its operation knows the arguments.
Arguments ==
  { a \in [tool: Tools, op: Operations, object: Objects,
           phrase: Phrases \cup {None}, key: Keys \cup {None}] :
      /\ a.op \notin Destructive => a.phrase = None /\ a.object = Anything
      /\ a.op \notin Idempotent => a.key = None
      /\ a.tool = "flow" => a.op = Flow }

NoArguments == [tool |-> "flow", op |-> Flow, object |-> Anything,
                phrase |-> None, key |-> None]

McpInit ==
  /\ readOnly \in BOOLEAN
  /\ once = "new" /\ client = "none"
  /\ at = [c \in Calls |-> "idle"]
  /\ args = [c \in Calls |-> NoArguments]
  /\ answer = [c \in Calls |-> "none"]
  /\ sent = {} /\ seen = {}

-----------------------------------------------------------------------------
\* The tools the server was built with: Tools, addDiscovery, addDataTools.
Served(a) ==
  CASE a.tool = "curated" -> a.op \in Curated /\ (readOnly => a.op \in Safe)
    [] a.tool = "call_api" -> TRUE
    [] a.tool = "flow" -> ~readOnly

\* Mutant of Confirmed: the phrase of another object will do.
ConfirmedAny(a) ==
  a.tool # "flow" /\ a.op \in Destructive =>
    a.phrase # None /\ a.phrase[1] = a.op

\* The confirm guard of callCurated and of callAPI.
Confirmed(a) ==
  a.tool # "flow" /\ a.op \in Destructive => a.phrase = <<a.op, a.object>>

\* Mutant of Allowed: call_api looks at no mode.
AllowedAlways(a) == a.tool = "call_api" => a.op \in Callable

\* callAPI's own guards.
Allowed(a) ==
  a.tool = "call_api" => a.op \in Callable /\ (readOnly => a.op \in Safe)

\* Mutant of KeyOf: the key is not handed on.
KeyOfNone(a) == None

\* buildRequest takes the assistant's key; call_api and the flows know none,
\* and the client makes one up.
KeyOf(a) ==
  IF a.tool = "curated" /\ a.op \in Idempotent THEN a.key ELSE None

-----------------------------------------------------------------------------
Answers(c, how) ==
  /\ at' = [at EXCEPT ![c] = "answered"]
  /\ answer' = [answer EXCEPT ![c] = how]

\* The SDK hands over a call of a tool it knows.
Receive(c) ==
  /\ at[c] = "idle"
  /\ \E a \in Arguments : Served(a) /\ args' = [args EXCEPT ![c] = a]
  /\ at' = [at EXCEPT ![c] = "guard"]
  /\ UNCHANGED <<serving, answer, sent, seen>>

\* The guards that come before the client.
CheckCall(c) ==
  /\ at[c] = "guard"
  /\ IF Confirmed(args[c]) /\ Allowed(args[c])
     THEN at' = [at EXCEPT ![c] = "api"] /\ UNCHANGED answer
     ELSE Answers(c, "refused")
  /\ UNCHANGED <<serving, args, sent, seen>>

\* api: the first caller runs the function, the others wait for it.
EnterOnce(c) ==
  /\ at[c] = "api" /\ once = "new"
  /\ once' = c
  /\ at' = [at EXCEPT ![c] = "build"]
  /\ UNCHANGED <<readOnly, client, args, answer, sent, seen>>

\* Mutant of BuildClient: the failure is not kept with the once.
BuildClientForgetful(c) ==
  /\ at[c] = "build"
  /\ client' \in {"ok", "none"}
  /\ once' = "done"
  /\ at' = [at EXCEPT ![c] = "api"]
  /\ UNCHANGED <<readOnly, args, answer, sent, seen>>

\* Mutant of BuildClient: a failed caller does not leave the once.
BuildClientStuck(c) ==
  /\ at[c] = "build"
  /\ \/ client' = "ok" /\ once' = "done" /\ at' = [at EXCEPT ![c] = "api"]
        /\ UNCHANGED answer
     \/ Answers(c, "no client") /\ UNCHANGED <<once, client>>
  /\ UNCHANGED <<readOnly, args, sent, seen>>

\* Options.Client resolves the profile and its credential, or fails; what it
\* left stays.
BuildClient(c) ==
  /\ at[c] = "build"
  /\ client' \in {"ok", "error"}
  /\ once' = "done"
  /\ at' = [at EXCEPT ![c] = "api"]
  /\ UNCHANGED <<readOnly, args, answer, sent, seen>>

TakeClient(c) ==
  /\ at[c] = "api" /\ once = "done"
  /\ IF client = "ok"
     THEN at' = [at EXCEPT ![c] = "send"] /\ UNCHANGED answer
     ELSE Answers(c, "no client")
  /\ UNCHANGED <<serving, args, sent, seen>>

\* client.Do: executed unless the platform knows the key, and answered or not.
Send(c) ==
  LET key == KeyOf(args[c])
      known == key # None /\ \E e \in seen : e.op = args[c].op /\ e.key = key
  IN /\ at[c] = "send"
     /\ \/ /\ sent' = sent \cup {c}
           /\ seen' = IF known THEN seen ELSE seen \cup
                {[op |-> args[c].op, key |-> key, by |-> c]}
           /\ \E how \in {"ok", "lost"} : Answers(c, how)
        \/ Answers(c, "lost") /\ UNCHANGED <<sent, seen>>
     /\ UNCHANGED <<serving, args>>

Handle(c) ==
  CheckCall(c) \/ EnterOnce(c) \/ BuildClient(c) \/ TakeClient(c) \/ Send(c)

McpNext == \E c \in Calls : Receive(c) \/ Handle(c)

McpSpec == McpInit /\ [][McpNext]_mcpVars

McpFairness == \A c \in Calls : WF_mcpVars(Handle(c))

-----------------------------------------------------------------------------
McpTypeOK ==
  /\ readOnly \in BOOLEAN
  /\ once \in {"new", "done"} \cup Calls
  /\ client \in {"none", "ok", "error"}
  /\ at \in [Calls -> {"idle", "guard", "api", "build", "send", "answered"}]
  /\ args \in [Calls -> Arguments]
  /\ answer \in [Calls -> {"none", "refused", "no client", "lost", "ok"}]
  /\ sent \subseteq Calls
  /\ \A e \in seen : e.op \in Operations /\ e.by \in sent
  /\ client = "none" <=> once # "done"
  /\ \A c \in Calls : at[c] = "build" <=> once = c
  /\ \A c \in Calls : at[c] = "send" => client = "ok"

(* A server started with --read-only sends nothing that changes data,      *)
(* through whichever of its tools it is asked (cli/mcp.go, "--read-only    *)
(* removes every tool that changes data"; server.go callAPI).              *)
ReadOnlySends == readOnly => \A c \in sent : args[c].op \in Safe

(* Nothing that cannot be undone is done to an object but the one the      *)
(* assistant's phrase names (server.go callCurated and callAPI).           *)
ConfirmedFirst ==
  \A c \in sent :
    args[c].op \in Destructive =>
      args[c].phrase = <<args[c].op, args[c].object>>

(* However many calls are lost and repeated at a time, what was asked for  *)
(* under one key through a curated tool is done once (server.go            *)
(* buildRequest, "no way to say it is the same create").                   *)
KeyedOnce ==
  \A c, d \in sent :
    LET a == args[c] b == args[d]
    IN /\ a.tool = "curated" /\ b.tool = "curated"
       /\ a.op = b.op /\ a.op \in Idempotent
       /\ a.key = b.key /\ a.key # None
       /\ \E e \in seen : e.by = c
       /\ \E e \in seen : e.by = d
       => c = d

(* Every call is answered, the ones that waited for another's client too   *)
(* (server.go api, callCurated and callAPI).                               *)
CallsAnswered == \A c \in Calls : at[c] = "guard" ~> at[c] = "answered"

(* The guards of --read-only and of the confirming phrase hold through     *)
(* every kind of tool (server.go callCurated and callAPI, tools.go Tools). *)
ToolsGuarded == ReadOnlySends /\ ConfirmedFirst

-----------------------------------------------------------------------------
(* The inductive invariant behind the theorems of WorkProofs. *)

\* What a call that is past the guards has shown them.
Passed(a) == Served(a) /\ Confirmed(a) /\ Allowed(a)

GuardInv ==
  \A c \in Calls :
    /\ at[c] = "guard" => Served(args[c])
    /\ at[c] \in {"api", "build", "send"} => Passed(args[c])
    /\ c \in sent => at[c] = "answered" /\ Passed(args[c])

\* What the platform has executed is what the call asked for, once per key.
KeyInv ==
  /\ \A e \in seen : e = [op |-> args[e.by].op, key |-> KeyOf(args[e.by]),
                          by |-> e.by]
  /\ \A e, f \in seen : e.op = f.op /\ e.key = f.key /\ e.key # None => e = f

=============================================================================
