SPECIFICATION AdministrationSpec
CONSTANTS
  a1 = a1
  Scene <- MCScene
  Limit <- MCLimit
  Plan = {n1, n2}
  Request = {t1, t2, t3, t4}
  MaxRestarts = 1
  NoPlan = NoPlan
  Call = {c1, c2}
  Id = {a1, a2}
  User = {a1}
  NoCall = NoCall
  NoId = NoId
  Graveyard = {n1, n2}
  Task = {t1, t2, t3, t4}
  Name = {n1, n2}
  Most = 2
  NoGraveyard = NoGraveyard
  NoTask = NoTask
  NoName = NoName
SYMMETRY Interchangeable
INVARIANTS TypeOK CopyWasActive AloneOneActive
  RecordsOnFile PlacedOnFile AloneWithinQuantity
PROPERTY AloneKeepsActive
CHECK_DEADLOCK FALSE
