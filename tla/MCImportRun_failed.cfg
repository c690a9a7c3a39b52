\* The run as the only user of its import.
SPECIFICATION Spec
CONSTANTS
  m1 = m1
  m2 = m2
  Run = Run
  Nobody = Nobody
  Mappers = {}
INVARIANTS PassedIsTrue
CHECK_DEADLOCK FALSE
