SPECIFICATION RSpec
CONSTANTS
  Requests = {r1, r2}
  Gateways = {g1, g2}
  Prefetch = 2
  MaxRuns = 2
  MaxFaults = 1
  Values = {a, b}
  Tables <- AllTables
SYMMETRY Symmetry
INVARIANTS
  NothingIsLost
  CreatedOnce
  RetryIsSafe
PROPERTIES
  KeepsPromise
CHECK_DEADLOCK FALSE
