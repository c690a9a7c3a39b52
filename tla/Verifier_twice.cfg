\* One goroutine and one request of a platform whose clock may be ahead.
SPECIFICATION VerifierSpec
CONSTANTS
  Handlers = {h1}
  Nonces = {n1}
  NoNonce = NoNonce
  MaxKey = 1
  PublishesStatement = TRUE
  ReplayWindow = 1
  RefetchInterval = 5
  FetchTimeout = 1
  Lag = 1
  MaxAhead = 1
  MaxTime = 5
PROPERTIES NeverSeenBefore
CHECK_DEADLOCK FALSE
