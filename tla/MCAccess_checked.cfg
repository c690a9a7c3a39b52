\* One command after another with two credentials, or two at a time with one.
\* Or two goroutines, two requests and three keys, under a platform clock that
\* may be ahead: room for a slow rotation that the next one overtakes, and for
\* a nonce to be delivered again until its memory is purged.
SPECIFICATION AccessSpec
CONSTANTS
  Processes = {p1, p2}
  Names = {acme, beta}
  Credentials = {c1, c2}
  Nothing = Nothing
  KeyringAnswers = {FALSE, TRUE}
  KeyringNames = {acme}
  Handlers = {p1, p2}
  Nonces = {c1, c2}
  NoNonce = Nothing
  MaxKey = 2
  PublishesStatement = TRUE
  ReplayWindow = 1
  RefetchInterval = 5
  FetchTimeout = 1
  Lag = 1
  MaxAhead = 1
  MaxTime = 5
INVARIANTS
  AccessTypeOK DefaultExists SecretKept TokenServesApart WordKeptApart OneLookAtATime
PROPERTIES ReplayOutlivesWindow PinAdvances
SYMMETRY Interchangeable
CHECK_DEADLOCK FALSE
