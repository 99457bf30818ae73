SPECIFICATION Spec
CONSTANTS
  Jobs = {j1}
  Clients = {c1}
  Freelancers = {f1}
  Supply = 82
  Withdrawals = {2}
  FeeVaultStart = {2}
  MaxU64 = 1000000
  RentMin = 2
  NoKey = NoKey
  Authority = a1
  Deposit = 40
  Calls = {k1, k2}
  Ops <- AllOps
  Modes = {"server", "client", "relay"}
  MaxHandled = 2
  MaxCrashes = 1
  Outages = TRUE
PROPERTIES
  EveryCallEnds
  FundedJobGoesLive
CHECK_DEADLOCK FALSE
