SPECIFICATION ApiSpec
CONSTANTS
  dpps = dpps imports = imports bulk = bulk stats = stats validate = validate
  void = void escaped = escaped hashed = hashed
  Param = Param
  Segments = {dpps, imports, bulk, stats, validate, void}
  Decoded <- Escapes
  BeforeHash <- Hashes
  MaxLength = 3
  Operations <- Registry
INVARIANTS UndoneNeedsYes
CHECK_DEADLOCK FALSE
