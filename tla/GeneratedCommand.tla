-------------------------- MODULE GeneratedCommand --------------------------
(***************************************************************************)
(* A generated command of the command line (cli/generated.go): the query   *)
(* and the body it builds from its options, the guard before it sends      *)
(* them, and where the answer goes.                                        *)
(*                                                                         *)
(* A JSON object is a function from paths to leaves, closed under          *)
(* prefixes: the paths of its objects have the value Map.  The call of the *)
(* client is Exchange's and the polling of a task is Tasks'; each is one   *)
(* step here.  Header options and the fields of a form are left out, and a *)
(* form stands for the files it uploads.                                   *)
(***************************************************************************)
EXTENDS Naturals, FiniteSets, SequencesExt, TLC

CONSTANTS
  Params,       \* the query parameters of an operation
  KindOf,       \* "integer", "boolean" or "string", of each
  Omitted,      \* an option that was not given
  JsonKeys,     \* the names of fields
  Map,          \* a JSON object, among the leaves
  NoBody, FileBody,  \* a request without a body, and with that of --file
  Invocations   \* the command lines considered

Blank == ""

Default == [integer |-> "0", boolean |-> "false", string |-> Blank]

ASSUME GeneratedAssumption ==
  /\ KindOf \in [Params -> DOMAIN Default]
  /\ \A i \in Invocations :
       /\ {i.safe, i.destructive, i.task, i.required} \subseteq BOOLEAN
       /\ i.takes \in {"nothing", "json", "form"}
       /\ i.file \in {"none", "readable", "unreadable"}
       /\ i.output \in {"none", "writable", "unwritable"}
       /\ {i.confirmed, i.careful, i.wait} \subseteq BOOLEAN
       /\ ~(i.safe /\ i.destructive) /\ (i.wait => i.task)
       /\ DOMAIN i.query = Params
       /\ i.sets \in Seq(ToSet(i.sets))
       /\ \A set \in ToSet(i.sets) :
            /\ set.path \in Seq(JsonKeys) \ {<<>>}
            /\ <<>> \in DOMAIN set.value
            /\ DOMAIN set.value \subseteq Seq(JsonKeys)

VARIABLES
  invocation,  \* the operation and the options given
  stage,       \* where runOperation is
  query,       \* of the request: pairs of a parameter and its text
  body,        \* of the request
  executed,    \* whether the platform has executed the request
  shown,       \* where the answer went, of standard output and the file
  exit         \* the exit code, NoExit before the end

commandVars == <<invocation, stage, query, body, executed, shown, exit>>

NoExit == 9

CommandInit ==
  /\ invocation \in Invocations
  /\ stage = "start"
  /\ query = {}
  /\ body = NoBody
  /\ executed = FALSE
  /\ shown = {}
  /\ exit = NoExit

-----------------------------------------------------------------------------
(* The request. *)

\* An option's text, which is its type's default when it was not given.
TextOf(i, p) ==
  IF i.query[p] = Omitted THEN Default[KindOf[p]] ELSE i.query[p]

\* Mutant of Query: only the empty text counts as not given.
QueryAll(i) ==
  {q \in {<<p, TextOf(i, p)>> : p \in Params} : q[2] # Blank}

Query(i) ==
  {q \in {<<p, TextOf(i, p)>> : p \in Params} : q[2] \notin {Blank, "0", "false"}}

\* Mutant of Assign: the objects on the way are made anew.
AssignAnew(object, set) ==
  LET n == Len(set.path)
      way == {SubSeq(set.path, 1, k) : k \in 0..n - 1}
      kept == {q \in DOMAIN object \ way :
                 \A w \in way \cup {set.path} : w # <<>> => ~IsPrefix(w, q)}
      held == {set.path \o r : r \in DOMAIN set.value}
  IN [q \in way \cup kept \cup held |->
        IF q \in way THEN Map
        ELSE IF q \in kept THEN object[q] ELSE set.value[SubSeq(q, n + 1, Len(q))]]

\* One --set: objects on the way to the path, whatever was there, and the
\* value in place of what the path held.
Assign(object, set) ==
  LET n == Len(set.path)
      way == {SubSeq(set.path, 1, k) : k \in 0..n - 1}
      kept == {q \in DOMAIN object \ way : ~IsPrefix(set.path, q)}
      held == {set.path \o r : r \in DOMAIN set.value}
  IN [q \in way \cup kept \cup held |->
        IF q \in way THEN Map
        ELSE IF q \in kept THEN object[q] ELSE set.value[SubSeq(q, n + 1, Len(q))]]

EmptyObject == [q \in {<<>>} |-> Map]

\* The sets one after the other.
BodyFromSets(sets) ==
  LET built[j \in 0..Len(sets)] ==
        IF j = 0 THEN EmptyObject ELSE Assign(built[j - 1], sets[j])
  IN built[Len(sets)]

\* attachBody's errors.
Misused(i) ==
  \/ i.takes = "json" /\ i.file # "none" /\ i.sets # <<>>
  \/ i.takes # "nothing" /\ i.file = "unreadable"
  \/ i.takes = "json" /\ i.required /\ i.file = "none" /\ i.sets = <<>>

Body(i) ==
  CASE i.takes = "nothing" -> NoBody
    [] i.takes = "form" \/ i.file # "none" -> FileBody
    [] i.sets # <<>> -> BodyFromSets(i.sets)
    [] OTHER -> NoBody

-----------------------------------------------------------------------------
(* runOperation. *)

\* refuseUnlessAllowed: careful is --read-only, confirmed is --yes.
Passes(i) == (i.careful => i.safe) /\ (i.destructive => i.confirmed)

Exits(code) == stage' = "ended" /\ exit' = code

Refused ==
  /\ stage = "start" /\ ~Passes(invocation)
  /\ Exits(4)
  /\ UNCHANGED <<invocation, query, body, executed, shown>>

Misuse ==
  /\ stage = "start" /\ Passes(invocation) /\ Misused(invocation)
  /\ Exits(2)
  /\ UNCHANGED <<invocation, query, body, executed, shown>>

Build ==
  /\ stage = "start" /\ Passes(invocation) /\ ~Misused(invocation)
  /\ query' = Query(invocation)
  /\ body' = Body(invocation)
  /\ stage' = "built"
  /\ UNCHANGED <<invocation, executed, shown, exit>>

\* App.Client: no profile is an error with a hint, a store or a file that
\* cannot be read an error of its own.
NoClient ==
  /\ stage = "built"
  /\ Exits(1) \/ Exits(2)
  /\ UNCHANGED <<invocation, query, body, executed, shown>>

\* An error of the call does not tell whether it was executed.
CallFailed ==
  /\ stage = "built"
  /\ executed' \in BOOLEAN
  /\ Exits(1)
  /\ UNCHANGED <<invocation, query, body, shown>>

Executed ==
  /\ stage = "built"
  /\ executed' = TRUE
  /\ stage' = "answered"
  /\ UNCHANGED <<invocation, query, body, shown, exit>>

\* Standard output may be closed.  An answer without a body counts as shown.
Prints(code) ==
  \/ shown' = shown \cup {"stdout"} /\ Exits(code)
  \/ UNCHANGED shown /\ Exits(2)

\* Mutant of Deliver: what is waited for or written is printed before.
DeliverTwice ==
  /\ stage = "answered" /\ ~invocation.wait
  /\ IF invocation.output = "writable"
     THEN shown' = {"file", "stdout"} /\ Exits(0)
     ELSE Prints(0)
  /\ UNCHANGED <<invocation, query, body, executed>>

\* os.WriteFile or printOperationResponse.
Deliver ==
  /\ stage = "answered" /\ ~invocation.wait
  /\ CASE invocation.output = "writable" -> shown' = shown \cup {"file"} /\ Exits(0)
       [] invocation.output = "unwritable" -> UNCHANGED shown /\ Exits(2)
       [] OTHER -> Prints(0)
  /\ UNCHANGED <<invocation, query, body, executed>>

\* waitForTask: the last document is printed, wherever --output points; an
\* answer without a status URL is taken for it.  A poll fails with an error
\* of the API, an interrupted pause with the context's.
Waited ==
  /\ stage = "answered" /\ invocation.wait
  /\ \/ Prints(0)
     \/ Prints(1)
     \/ UNCHANGED shown /\ (Exits(1) \/ Exits(2))
  /\ UNCHANGED <<invocation, query, body, executed>>

CommandNext ==
  \/ Refused \/ Misuse \/ Build \/ NoClient \/ CallFailed \/ Executed
  \/ Deliver \/ Waited

CommandSpec == CommandInit /\ [][CommandNext]_commandVars

-----------------------------------------------------------------------------
(* No parameter is sent that was not given, and none with another value:   *)
(* pflag's defaults stay out of the query (generated.go runOperation).     *)
OnlyGivenIsSent ==
  \A q \in query : invocation.query[q[1]] = q[2]

(* Of a yes-or-no parameter the answer given is sent, whichever it is:     *)
(* "`true` lists the published records and `false` the drafts; left out,   *)
(* the list carries both" (registry.gen.go:21).  The code sends no false.  *)
GivenIsSent ==
  executed =>
    \A p \in Params :
      KindOf[p] = "boolean" /\ invocation.query[p] # Omitted =>
        <<p, invocation.query[p]>> \in query

\* The leaves of an object, an empty object being one.
LeavesOf(object) ==
  {<<q, object[q]>> : q \in {q \in DOMAIN object :
     object[q] = Map => ~\E r \in DOMAIN object : IsStrictPrefix(q, r)}}

Fields(set) == {<<set.path \o f[1], f[2]>> : f \in LeavesOf(set.value)}

Comparable(p, q) == IsPrefix(p, q) \/ IsPrefix(q, p)

(* The body holds what the sets say, and nothing else: a field is there    *)
(* unless a later set names it, an object it lies in or a field below it   *)
(* (generated.go bodyFromSets: "Keys nest with dots").                     *)
SetsStand ==
  body \notin {NoBody, FileBody} =>
    LET sets == invocation.sets
    IN LeavesOf(body) =
         UNION { { f \in Fields(sets[j]) :
                     \A k \in j + 1..Len(sets) : ~Comparable(sets[k].path, f[1]) }
                 : j \in DOMAIN sets }

(* Success is reported for a request that was executed and whose answer is *)
(* in one place, and of a refused command nothing was executed             *)
(* (generated.go runOperation, README "Exit codes").                       *)
ExitTells ==
  /\ exit = 0 => executed /\ Cardinality(shown) = 1
  /\ exit = 4 => ~executed

(* The query holds nothing the command line does not say, the body is what *)
(* its --set options leave, and an exit of 0 or 4 says what became of the  *)
(* request (generated.go runOperation).  That all that was given is sent   *)
(* is another matter: see GivenIsSent.                                     *)
CommandKeepsWord == OnlyGivenIsSent /\ SetsStand /\ ExitTells

\* Nothing is executed or shown out of turn, and what is sent was built from
\* the options.
CommandInv ==
  /\ invocation \in Invocations
  /\ stage \in {"start", "built", "answered", "ended"}
  /\ query \in {{}, Query(invocation)}
  /\ body \in {NoBody, Body(invocation)}
  /\ stage # "ended" => shown = {} /\ exit = NoExit
  /\ stage = "start" => ~executed
  /\ stage = "answered" => executed
  /\ ExitTells

=============================================================================
