SPECIFICATION Spec
CONSTANTS
  client = client
  freelancer = freelancer
  j1 = j1
  Users = {client, freelancer}
  Jobs = {j1, j2, j3, j4}
  Owner <- OneClient
  Proposals <- OneFreelancer
  Applied <- OneApplied
  MaxCalls = 3
  DailyLimit = 1
  MaxHandled = 2
  MaxCrashes = 1
  NoUser = NoUser
INVARIANTS
  AgreedByBoth
  LimitOvershoot
  SignaturesFitStatus
PROPERTIES
  NeverStartsOver
  RejectedIsFinal
  HireIsAnnounced
CHECK_DEADLOCK FALSE
