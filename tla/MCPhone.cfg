SPECIFICATION MCSpec
CONSTANTS
  None = None
  Workers = {w1}
  Attempts = {a1}
  Certificates = {c1}
  Names = {"ravi"}
  Langs = {"hi", "sat"}
  MaxClock = 2
  MaxUpdatedAt = 3
  BatchSize = 2
  MaxDepth = 4
  DEFAULT_LOCALE = "hi"
INVARIANTS NothingIsLost DeletedAreGone FocusShowsStored
PROPERTY ImplementsStore
CHECK_DEADLOCK FALSE
