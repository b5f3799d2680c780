SPECIFICATION Spec
CONSTANTS
  None = None
  Tabs = {t1}
  Checks = {k1, k2, k3}
  Certs = {c1, c2}
  MaxLists = 2
  MaxIat = 2
SYMMETRY Symmetry
CONSTRAINT ThirdIsOfOne
INVARIANT CardIsOfOneCheck
PROPERTIES RevokedStays OnlyRaceKeepsOlder
CHECK_DEADLOCK FALSE
