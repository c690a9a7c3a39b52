\* A command that calls the API beside a login that brings a new credential.
SPECIFICATION Spec
CONSTANTS
  Processes = {p1, p2}
  Names = {acme}
  Credentials = {c1, c2}
  Nothing = Nothing
  KeyringAnswers = {TRUE}
INVARIANTS TokenServesProfile
