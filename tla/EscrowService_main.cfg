SPECIFICATION Spec
CONSTANTS
  Jobs = {j1}
  Clients = {c1, c2}
  Freelancers = {f1, f2}
  Supply = 123
  Withdrawals = {}
  FeeVaultStart = {0}
  MaxU64 = 1000000
  RentMin = 0
  NoKey = NoKey
  Authority = a1
  Deposit = 40
  Calls = {k1, k2, k3}
  Ops <- AllOps
  Modes = {"server", "client"}
  MaxHandled = 3
  MaxCrashes = 1
  Outages = TRUE
SYMMETRY Symmetry
INVARIANTS
  RecordTrailsChain
  RecordNamesPayee
  ChargedOncePerDelivery
  AgreesWhenQuiet
  ToldWhenQuiet
CHECK_DEADLOCK FALSE
