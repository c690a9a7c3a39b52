\* Commands on two profiles, with any part of a credential in the environment.
SPECIFICATION ResolutionSpec
CONSTANTS
  n1 = n1 n2 = n2 h1 = h1 h2 = h2 c1 = c1 c2 = c2
  ProfileNames = {n1, n2}
  Stored <- StoredPair
  EnvHosts = {h2}
  EnvClients = {c2}
  Given = Given
  Unset = Unset
INVARIANTS EnvironmentOverrides
CHECK_DEADLOCK FALSE
