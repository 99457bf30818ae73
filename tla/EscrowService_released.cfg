SPECIFICATION Spec
CONSTANTS
  Jobs = {j1}
  Clients = {c1}
  Freelancers = {f1, f2}
  Supply = 82
  Withdrawals = {}
  FeeVaultStart = {0}
  MaxU64 = 1000000
  RentMin = 0
  NoKey = NoKey
  Authority = a1
  Deposit = 40
  Calls = {k1, k2, k3, k4}
  Ops <- AllOps
  Modes = {"server"}
  MaxHandled = 4
  MaxCrashes = 0
  Outages = FALSE
SYMMETRY Symmetry
INVARIANTS
  ReleasedMeansPaid
CHECK_DEADLOCK FALSE
