SPECIFICATION MessagesSpec
CONSTANTS
  Checkout = Checkout
  Runs = {r1, r2}
  MaxAttempts = 2
  Nobody = Nobody
  Manual = {m1}
  EventsCap = 2
SYMMETRY RunsAreAlike
CHECK_DEADLOCK FALSE
INVARIANTS OneMessage StatusKeepsUp RowsTellTheTruth
PROPERTY ConfirmationUndisturbed
