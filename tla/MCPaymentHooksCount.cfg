SPECIFICATION Spec
CONSTANTS
  t1 = t1
  t2 = t2
  h1 = h1
  h2 = h2
  Token = {t1}
  Parcel = {1, 2}
  About <- OneForBoth
  Kinds = {"charge"}
  Reported = {"unpaid", "canceled"}
  Handler = {h1}
  MaxHistory = 2
  MaxRecords = 1
  MaxFaults = 0
INVARIANT DefaultCountsParcels
CHECK_DEADLOCK FALSE
