SPECIFICATION FairSpec
CONSTANTS
  r1 = r1 r2 = r2 r3 = r3 milk = milk rice = rice ten = ten five = five ana = ana bob = bob
  Requests = {r1, r2}
  Admins = {}
  NoKey = NoKey NoCode = NoCode Nobody = Nobody NoRequest = NoRequest
  Keys = {k1}
  Products = {milk, rice}
  Codes = {ten, five}
  Customers = {ana, bob}
  Forms <- OneForm
  Stock0 <- Units
  Points0 <- OnePoint
  MaxUses <- TwoUses
  MaxPerCustomer <- PerCustomer
  FirstOrderOnly = {ten}
  IdOrder <- ById
  SlotCapacity = 2
  PoolSize = 2
  MaxCrashes = 0
PROPERTY EveryCheckoutAnswered
CHECK_DEADLOCK FALSE
