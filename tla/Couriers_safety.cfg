SPECIFICATION Spec
CONSTANTS
  o1 = o1 o2 = o2 ali = ali badr = badr adm1 = adm1 adm2 = adm2
  Orders = {o1, o2}
  Total <- Totals
  Riders = {ali, badr}
  Users = {ann}
  Admins = {adm1, adm2}
  NoOne = NoOne
  Start = {"ready_for_delivery"}
  MaxSettlements = 2
SYMMETRY Alike
INVARIANTS HistoriesAreTrue SettledAreDelivered SettlementsAddUp
PROPERTY RidersMoveTheirOwn
