SPECIFICATION Spec
CONSTANTS
  Certs = {c1, c2}
  Revokes = {r1, r2}
  Fetches = {f1}
  None = None
INVARIANT ListCoversAllRevoked
CHECK_DEADLOCK FALSE
