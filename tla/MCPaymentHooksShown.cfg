SPECIFICATION FairSpec
CONSTANTS
  t1 = t1
  t2 = t2
  h1 = h1
  h2 = h2
  Token = {t1, t2}
  Parcel = {1, 2}
  About <- EachItsOwn
  Kinds = {"charge"}
  Reported = {"new", "paid", "unpaid", "contested"}
  Handler = {h1}
  MaxHistory = 2
  MaxRecords = 1
  MaxFaults = 1
PROPERTY ReportsShown
CHECK_DEADLOCK FALSE
