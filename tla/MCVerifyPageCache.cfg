SPECIFICATION Spec
CONSTANTS
  None = None
  Tabs = {t1, t2}
  Checks = {k1, k2}
  Certs = {c1}
  MaxLists = 2
  MaxIat = 2
PROPERTY NewerIatIsKept
CHECK_DEADLOCK FALSE
