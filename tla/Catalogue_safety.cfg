SPECIFICATION Spec
CONSTANTS
  p = p
  v = v
  Products = {p}
  Variants = {v}
  Clerks = {c1}
  Bulks = {b1}
  LastSchedule = 2
  Runs = {r1, r2}
  Prices = {1, 2, 3}
  Costs = {1, 2}
  Uploads <- SomeUploads
  Edits <- SomeEdits
  BatchSize = 2
  MaxBegun = 3
  MaxRolls = 1
  MaxStops = 1
CHECK_DEADLOCK FALSE
INVARIANTS  BatchesUndo
PROPERTIES SchedulesAreFinal DueIsDecided
