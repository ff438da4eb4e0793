SPECIFICATION Spec
CONSTANTS
  t1 = t1
  t2 = t2
  h1 = h1
  h2 = h2
  Token = {t1}
  Parcel = {1, 2}
  About <- OneForBoth
  Kinds = {"charge", "carnet", "subscription"}
  Reported = {"new", "paid", "unpaid"}
  Handler = {h1, h2}
  MaxHistory = 3
  MaxRecords = 1
  MaxFaults = 1
SYMMETRY Calls
INVARIANT TypeOK DefaultersJudged ConfirmedIsOnFile
PROPERTY FrozenOnceDefaulter ImplementsReports
CHECK_DEADLOCK FALSE
