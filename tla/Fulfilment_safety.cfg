SPECIFICATION Spec
CONSTANTS
  milk = milk rice = rice litre = litre soon = soon later = later sack = sack o1 = o1 o2 = o2
  Products = {milk, rice}
  Variants = {litre}
  ParentOf <- MilkOfLitre
  Batches = {soon, later, sack}
  SkuOf <- BatchSkus
  FefoRank <- ByExpiry
  Orders = {o1, o2}
  Carts <- Two
  Preferences = {"replace_similar", "contact_me"}
  Marks = {"picked"}
  MaxQuantity = 1
  Stock0 <- LastBag
  Left0 <- LastInBatch
  Perishable = {soon}
SYMMETRY Symmetry
CHECK_DEADLOCK FALSE
INVARIANT UnitsAddUp
PROPERTIES NearestExpiryFirst DecisionsAreFinal
