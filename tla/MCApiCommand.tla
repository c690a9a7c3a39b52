---------------------------- MODULE MCApiCommand ----------------------------
(***************************************************************************)
(* Instances of ApiCommand for TLC: routes of the registry that compete,   *)
(* in its order, with reads, validations and what cannot be undone.        *)
(***************************************************************************)
EXTENDS ApiCommand

CONSTANTS dpps, imports, bulk, stats, validate, void, escaped, hashed

Read(path) ==
  [method |-> "GET", path |-> path, safe |-> FALSE, destructive |-> FALSE]
Write(path) == [Read(path) EXCEPT !.method = "POST"]
Validation(path) == [Write(path) EXCEPT !.safe = TRUE]
Undoable(method, path) ==
  [method |-> method, path |-> path, safe |-> FALSE, destructive |-> TRUE]

Registry == <<
  Read(<<dpps>>), Write(<<dpps>>), Read(<<dpps, Param>>),
  Write(<<dpps, bulk>>), Undoable("DELETE", <<dpps, Param>>), Read(<<dpps, stats>>),
  Validation(<<dpps, validate>>), Read(<<dpps, bulk, Param>>),
  Read(<<dpps, Param, stats>>), Validation(<<dpps, bulk, validate>>),
  Undoable("POST", <<dpps, Param, void>>), Write(<<imports>>),
  Validation(<<imports, Param, validate>>) >>

\* One segment that can be typed with an escape, one with a "#".
Escapes == escaped :> dpps
Hashes == hashed :> validate
=============================================================================
