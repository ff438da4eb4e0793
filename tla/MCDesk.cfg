SPECIFICATION Spec
CONSTANTS
  Task = {1, 2, 3, 4, 5, 6}
  NoTask = 0
  Scene <- MCScene
  Asked <- MCAsked
  Assignee = {a1, a2}
  Valt = {1, 2}
  Registered <- MCRegistered
  Vaults <- MCVaults
  NoAssignee = NoAssignee
  NoValt = NoValt
  Promo = {p1, p2}
  NoPromo = NoPromo
  DiscountOf <- MCDiscountOf
  ValtType = {1, 2}
  TypeOf <- MCTypeOf
  TypeName <- MCTypeName
  OwedAtFirst <- MCOwedAtFirst
  OwedTyped <- MCOwedTyped
  Price <- MCPrice
  Forms <- MCForms
  PaymentOld = {"p", "q", "r"}
  Files <- MCFiles
  Fee <- MCFee
  Deceased = {d1, d2}
  Born = {d1}
  NoOne = NoOne
  Room = {r1}
  NoRoom = NoRoom
  MaxTime = 3
  a1 = a1
  a2 = a2
  p1 = p1
  p2 = p2
INVARIANTS TypeOK ActiveBySignature SignatureApplied PendingIsDisabled
  DebtCovered PriceWithinPromotions PaidByHolder PaidFromTheTop
  MaintenanceBooked AloneWithinQuota AloneTokenStands RoomsNotShared
CHECK_DEADLOCK FALSE
