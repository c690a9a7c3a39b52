\* Three upgrades of one binary; three runs of keygen and a server; two
\* writers of a file, killed anywhere, and a reader; commands on two profiles
\* with any part of a credential in the environment; every path
\* of up to three segments in every form; the values of three parameters and
\* three sets of a body; two columns and two written mappings;
\* pairs of keys, strings and bytes at the edges of their encodings; every
\* policy of a six bit clock.
SPECIFICATION LocalSpec
CONSTANTS
  u1 = u1 u2 = u2 u3 = u3 v1 = v1 v2 = v2
  Upgraders = {u1, u2, u3}
  Versions = {v1, v2}
  Junk = Junk
  Original = Original
  None = None
  g1 = g1 g2 = g2 g3 = g3 s1 = s1
  Generators = {g1, g2, g3}
  Servers = {s1}
  NoKey = NoKey
  HalfKey = HalfKey
  w1 = w1 w2 = w2 r1 = r1 d1 = d1 d2 = d2
  Hole = Hole
  NoDoc = NoDoc
  Writers = {w1, w2}
  Readers = {r1}
  Docs = {d1, d2}
  Size <- SizeOf
  MaxSize = 2
  n1 = n1 n2 = n2 h1 = h1 h2 = h2 c1 = c1 c2 = c2
  ProfileNames = {n1, n2}
  Stored <- StoredPair
  EnvHosts = {h2}
  EnvClients = {c2}
  Given = Given
  Unset = Unset
  dpps = dpps imports = imports bulk = bulk stats = stats validate = validate
  void = void escaped = escaped hashed = hashed
  Param = Param
  Segments = {dpps, imports, bulk, stats, validate, void}
  Decoded <- Escapes
  BeforeHash <- Hashes
  MaxLength = 3
  Operations <- Registry
  page = page published = published search = search
  f1 = f1 f2 = f2 leaf1 = leaf1 leaf2 = leaf2
  Params = {page, published, search}
  KindOf <- Types
  Omitted = Omitted
  JsonKeys = {f1, f2}
  Map = Map
  NoBody = NoBody
  FileBody = FileBody
  Invocations <- CommandLines
  a = a b = b c = c t1 = t1 t2 = t2
  Keys <- TwoKeys
  Names = {a, b, c}
  Targets = {t1, t2, Unknown}
  Unknown = Unknown
  MaxWritten = 2
  NoMapping = NoMapping
  KeyChars = {13, 49, 8364, 64307, 128512}
  StringChars = {8, 31, 34, 48, 92, 98, 117, 8364}
  DigitRuns <- Runs
  Points <- PlacesOfPoint
  ByteValues = {0, 1, 57, 58, 255}
  TextValues = {0, 1, 57, 58}
  MaxKeys = 2
  MaxChars = 2
  MaxBytes = 3
  NoText = NoText
  Width = 6
  Waits <- AllWaits
  RetryAfters = {0, 3}
  MaxAttempt = 8
INVARIANTS
  LocalTypeOK BinaryKept PairsKept WholeDocuments EnvironmentRespected
  GuardSeesRequest ReadOnlyRefuses CommandKeepsWord MappingKeepsWord TextsReadBack WaitDoubles
PROPERTIES NoFalseAlarm LoneWriteLands
SYMMETRY Interchangeable
CHECK_DEADLOCK FALSE
