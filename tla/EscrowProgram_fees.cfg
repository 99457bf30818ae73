SPECIFICATION Spec
CONSTANTS
  Jobs = {j1}
  Clients = {c1}
  Freelancers = {f1}
  Authorities = {a1}
  Amounts = {800}
  Withdrawals = {20, 40}
  Supply = 2460
  FeeVaultStart = {0}
  MaxU64 = 599750
  RentMin = 0
  NoKey = NoKey
PROPERTIES
  KeepsCustody
CHECK_DEADLOCK FALSE
