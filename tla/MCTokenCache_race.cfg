\* Two goroutines of one process, and a store that never fails.
SPECIFICATION Spec
CONSTANTS
  g1 = g1
  g2 = g2
  p1 = p1
  Callers = {g1, g2}
  Processes = {p1}
  ProcOf <- SharedProcess
  RefreshMargin = 1
  HTTPTimeout = 1
  Lifetimes = {3}
  StoreFaults = {}
  MaxTime = 3
  MaxTokens = 2
INVARIANTS FreshAfterInvalidate
