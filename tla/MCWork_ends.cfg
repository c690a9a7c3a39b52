\* An import that two other programs map or revert; four events in pages of two, over
\* runs of which two may be killed; up to five items in pages of two, a list
\* changed twice; two waits on a bulk create without end, an import and an
\* export; two tool calls on five operations.
SPECIFICATION WorkSpec
CONSTANTS
  m1 = m1 m2 = m2
  Run = Run
  Nobody = Nobody
  Mappers = {m1, m2}
  Limit = 2
  MaxEvents = 4
  MaxKills = 2
  Modes = {"read", "once"}
  PerPage = 2
  FirstPages = {1, 2}
  MaxItems = 5
  MaxChanges = 2
  w1 = w1 w2 = w2 b1 = b1 i1 = i1 e1 = e1
  Waiters = {w1, w2}
  Bulks = {b1}
  Imports = {i1}
  Exports = {e1}
  Endless = {b1}
  NoTask = NoTask
  t1 = t1 t2 = t2 o1 = o1 o2 = o2 k1 = k1
  exchange_token = exchange_token
  list_dpps = list_dpps
  create_dpp = create_dpp
  delete_brand = delete_brand
  create_export = create_export
  Calls = {t1, t2}
  Operations = {exchange_token, list_dpps, create_dpp, delete_brand, create_export}
  Safe = {list_dpps}
  Destructive = {delete_brand}
  Idempotent = {create_dpp}
  Callable = {create_export, list_dpps, create_dpp, delete_brand}
  Curated = {list_dpps, create_dpp, delete_brand}
  Flow = create_export
  Objects = {o1, o2}
  Keys = {k1}
  None = None
INVARIANTS
  WorkTypeOK WritesWhenAsked OwnMappingValidated NothingSkipped
  NoNeedlessRepeat EveryItemOnce DownloadsKeepWord ToolsGuarded KeyedOnce
PROPERTIES WrittenIsTrue RestedWhenTold WorkEnds
CHECK_DEADLOCK FALSE
