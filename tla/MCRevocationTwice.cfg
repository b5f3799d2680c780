SPECIFICATION Spec
CONSTANTS
  Certs = {c1, c2}
  Revokes = {r1, r2}
  Fetches = {f1}
  None = None
PROPERTY RevokingTwiceChangesNothing
CHECK_DEADLOCK FALSE
