SPECIFICATION Spec
CONSTANTS
  Root = Root
  TestRoot = TestRoot
  DeviceKey = DeviceKey
  Nobody = Nobody
  Weak = Weak
  NoToken = NoToken
  Site = Site
  Required <- Modules
  Shapes <- Drills
  RootFiles = {Root, TestRoot, "placeholder"}
  Offsets <- ClockErrors
  Skew = 1
  Validity = 2
  Day = 2
  ExpiringWindow = 2
  DueDays = {1, 2}
  MaxTime = 4
  MaxRecords = 3
INVARIANTS IInv OnlyClockInvalidates VerifiersAgree ViewsAgree
PROPERTIES OfferStandsUntilPassed
CHECK_DEADLOCK FALSE
