---------------------------- MODULE MCGenerated ----------------------------
(***************************************************************************)
(* Instances of GeneratedCommand for TLC: the values of three parameters   *)
(* of different types, the orders of three sets of two keys, and the       *)
(* options that decide what is sent and where the answer goes.             *)
(***************************************************************************)
EXTENDS GeneratedCommand

CONSTANTS page, published, search, f1, f2, leaf1, leaf2

Types == (page :> "integer") @@ (published :> "boolean") @@ (search :> "string")

Typed == [integer |-> {"0", "2"}, boolean |-> {"true", "false"},
          string |-> {"", "0", "false", "text"}]

Plain ==
  [safe |-> FALSE, destructive |-> FALSE, task |-> FALSE, required |-> FALSE,
   takes |-> "json", confirmed |-> FALSE, careful |-> FALSE, wait |-> FALSE,
   file |-> "none", output |-> "none", sets |-> <<>>,
   query |-> [p \in Params |-> Omitted]]

WithQuery ==
  { [Plain EXCEPT !.query = (page :> a) @@ (published :> b) @@ (search :> s)] :
      a \in Typed["integer"] \cup {Omitted}, b \in Typed["boolean"] \cup {Omitted},
      s \in Typed["string"] \cup {Omitted} }

\* A leaf, {} and {"f2": leaf2}.
Values == {<<>> :> leaf1, <<>> :> Map, (<<>> :> Map) @@ (<<f2>> :> leaf2)}

SetsOf(paths) == [path: paths, value: Values]

WithSets ==
  LET short == SetsOf({<<f1>>, <<f1, f2>>, <<f2>>, <<f1, f2, f1>>})
  IN { [Plain EXCEPT !.sets = s] : s \in UNION {[1..n -> short] : n \in 1..3} }

WithOptions ==
  LET one == <<[path |-> <<f1>>, value |-> <<>> :> leaf1]>>
  IN { i \in [safe: BOOLEAN, destructive: BOOLEAN, task: BOOLEAN, required: BOOLEAN,
              takes: {"nothing", "json", "form"}, confirmed: BOOLEAN,
              careful: BOOLEAN, wait: BOOLEAN,
              file: {"none", "readable", "unreadable"},
              output: {"none", "writable", "unwritable"},
              sets: {<<>>, one}, query: {Plain.query}] :
         /\ ~(i.safe /\ i.destructive)
         /\ i.wait => i.task
         /\ i.takes = "nothing" => i.file = "none" /\ i.sets = <<>> /\ ~i.required
         /\ i.takes = "form" => i.sets = <<>> }

CommandLines == WithQuery \cup WithSets \cup WithOptions
=============================================================================
