SPECIFICATION Spec
CONSTANTS
  Milestones = {m1, m2}
  Clients = {c1}
  Freelancers = {f1, f2}
  Supply = 160
  Withdrawals = {31}
  FeeVaultStart = {30}
  MaxU64 = 1000000
  RentMin = 30
  NoKey = NoKey
  Authority = a1
  Deposit = 40
  Calls = {k1, k2, k3}
  Modes = {"server", "client"}
  MaxHandled = 3
  MaxCrashes = 1
  Outages = TRUE
SYMMETRY Symmetry
INVARIANTS
  RowTrailsChain
  HireLocksListed
  AgreesWhenOrderly
CHECK_DEADLOCK FALSE
