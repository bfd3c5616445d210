SPECIFICATION Spec
CONSTANTS
  tea = tea gift = gift big = big o1 = o1 r1 = r1 r2 = r2 k1 = k1 b1 = b1 ann = ann bob = bob
  NoClaim = NoClaim
  Products = {tea, gift}
  Variants = {big}
  ParentOf <- GiftOfBig
  Batches = {}
  SkuOf <- NoRow
  FefoRank <- NoRank
  Orders = {o1, r1, r2, k1, b1}
  CustomerOrders = {o1}
  Returns = {r1, r2}
  Counts = {k1}
  Bulks = {b1}
  Clerks = {ann, bob}
  Bought <- TeaAndBig
  Claims <- EitherLine
  Category = {gift}
  Adjustments <- UpAndDown
  MaxMoves = 4
  MaxRolls = 2
  Stock0 <- OnFile
  Goods0 <- OnShelf
  Waiting0 = {big}
SYMMETRY Symmetry
CHECK_DEADLOCK FALSE
INVARIANTS
   ReturnsMoveOnReceipt FullReturnsUndoPoints RollbackUndoes
PROPERTY WaitersAreTold
