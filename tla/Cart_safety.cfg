SPECIFICATION CartSpec
CONSTANTS
  milk = milk rice = rice ten = ten ship = ship near = near far = far
  Products = {milk, rice}
  Price <- Prices
  IdOrder <- ById
  Promotions <- ThreePromotions
  Codes = {ten, ship}
  NoCode = NoCode
  CodeTerms <- Terms
  Zones = {near, far}
  ZoneFee <- Fees
  FreeFrom = 120
  MinimumOrder = 50
  PointValue = 3
  MaxPercent = 50
  MinRedeem = 2
  MinRedeemOrder = 40
  MaxQuantity = 3
  Balance = 9
INVARIANTS
  PageTellsTheTruth  PromotionsAreEarned
