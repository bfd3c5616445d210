SPECIFICATION Spec
CONSTANTS
  milk = milk litre = litre old = old new = new more = more bottle = bottle
  p1 = p1 s1 = s1 c1 = c1 shed = shed NoBatch = NoBatch
  Products = {milk}
  Variants = {litre}
  ParentOf <- MilkOfLitre
  Batches = {old, new, more, bottle}
  SkuOf <- BatchSkus
  FefoRank <- ByExpiry
  Orders = {p1, s1, c1, shed}
  PurchaseOrders = {p1}
  SupplierReturns = {s1}
  CustomerOrders = {c1}
  Shed = shed
  Baskets <- WithTwins
  Deliveries <- ComesIn
  Claims <- GoesBack
  Portions = {1}
  Changes <- UpAndDown
  MaxOrdered = 2
  MaxMoves = 4
  Wanted = {litre}
  Stock0 <- Shelves
  Left0 <- InBatch
  Perishable = {old}
CHECK_DEADLOCK FALSE
INVARIANTS StockExplained ReceiptsAddUp ApprovedLinesHaveMoves
PROPERTY WaitersAreTold
