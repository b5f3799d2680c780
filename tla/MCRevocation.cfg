SPECIFICATION FairSpec
CONSTANTS
  Certs = {c1, c2}
  Revokes = {r1, r2, r3}
  Fetches = {f1}
  None = None
INVARIANTS NoFalseRevocation RevokedIsListed
PROPERTIES SoloPublishHeals SequentialRevokeKeepsReason VerdictStable RequestsFinish
CHECK_DEADLOCK FALSE
