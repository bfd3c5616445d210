SPECIFICATION Spec
CONSTANTS
  u1 = u1
  u2 = u2
  o1 = o1
  o2 = o2
  Users = {u1, u2}
  Orders = {o1, o2}
  Requests = {r1}
  NoOrder = NoOrder
  None = None
  Owner <- MCOwner
  Worth <- MCWorth
  MaxRedeem <- MCMaxRedeem
  MinRedeem = 1
  Referrer <- MCReferrer
  ReferralEnabled = TRUE
  ReferrerBonus = 1
  ReferredBonus = 0
  ExpiryEnabled = TRUE
  BatchSize = 2
  Amounts = {1}
  MaxAdjustments = 1
CHECK_DEADLOCK FALSE
INVARIANTS LotsInOrder BooksAgree  CancelledOrdersAreNeutral
PROPERTY RedemptionsAreCovered
