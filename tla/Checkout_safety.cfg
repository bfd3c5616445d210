SPECIFICATION Spec
CONSTANTS
  r1 = r1 r2 = r2 r3 = r3 milk = milk rice = rice ten = ten five = five ana = ana bob = bob
  Requests = {r1, r2, r3}
  Admins = {a1}
  NoKey = NoKey NoCode = NoCode Nobody = Nobody NoRequest = NoRequest
  Keys = {k1}
  Products = {milk, rice}
  Codes = {ten, five}
  Customers = {ana}
  Forms <- AllForms
  Stock0 <- LastRice
  Points0 <- OnePoint
  MaxUses <- TwoUses
  MaxPerCustomer <- PerCustomer
  FirstOrderOnly = {ten}
  IdOrder <- ById
  SlotCapacity = 3
  PoolSize = 5
  MaxCrashes = 1
SYMMETRY Symmetry
CHECK_DEADLOCK FALSE
INVARIANTS
  StockAccounted OneOrderPerKey CheckoutsNeverDeadlock AnswersAreTrue
  CustomerUsesCapped ChecksStillHold
PROPERTY BookSpec
