\* Every command line of the instance; the values false and 0 are among those
\* given.
SPECIFICATION CommandSpec
CONSTANTS
  page = page
  published = published
  search = search
  f1 = f1
  f2 = f2
  leaf1 = leaf1
  leaf2 = leaf2
  Params = {page, published, search}
  KindOf <- Types
  Omitted = Omitted
  JsonKeys = {f1, f2}
  Map = Map
  NoBody = NoBody
  FileBody = FileBody
  Invocations <- CommandLines
INVARIANTS GivenIsSent
CHECK_DEADLOCK FALSE
