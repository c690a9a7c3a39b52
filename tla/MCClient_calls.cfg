\* Two goroutines of one process, tokens with and without a term, and a store
\* that may fail at every operation; two POSTs, of one key or two, of three
\* attempts each.
SPECIFICATION ClientSpec
CONSTANTS
  g1 = g1
  g2 = g2
  p1 = p1
  Callers = {g1, g2}
  Processes = {p1}
  ProcOf <- SharedProcess
  RefreshMargin = 1
  HTTPTimeout = 1
  Lifetimes = {0, 3}
  StoreFaults = {"load", "save", "clear"}
  MaxTime = 4
  MaxTokens = 2
  c1 = c1
  c2 = c2
  k1 = k1
  k2 = k2
  k3 = k3
  NoKey = NoKey
  Calls = {c1, c2}
  Keys = {k1, k2, k3}
  GivenKeys <- SomeKeys
  Attempts = 3
  CanRefresh = TRUE
INVARIANTS ClientTypeOK ValidIsUnexpired AttemptsBounded PostAppliedOnce
PROPERTIES MintOnlyWithoutToken ImplementsAppliedOnce CallsReturn
CHECK_DEADLOCK FALSE
