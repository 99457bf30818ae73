SPECIFICATION Spec
CONSTANTS
  Jobs = {j1, j2}
  Clients = {c1, c2}
  Freelancers = {f1, f2}
  Authorities = {a1}
  Amounts = {39, 799, 800, 1600, 2400}
  Withdrawals = {39, 40}
  Supply = 2460
  FeeVaultStart = {0, 80}
  MaxU64 = 599750
  RentMin = 40
  NoKey = NoKey
SYMMETRY Symmetry
INVARIANTS
  TypeOK
  Solvency
  FreeExitBeforeHire
  DisputeReturnsPrincipal
  ReleasePaysPrincipalLessFee
  FivePercentCap
  RefundNeverBlocked
PROPERTIES
  KeepsJobMoney
CHECK_DEADLOCK FALSE
