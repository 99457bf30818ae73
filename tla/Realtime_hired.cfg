SPECIFICATION Spec
CONSTANTS
  Client = client
  Freelancer = freelancer
  Activities = {k1, k2, k3}
  Prefetch = 2
  MaxCrashes = 1
SYMMETRY Symmetry
INVARIANTS
  HireOpensConversation
CHECK_DEADLOCK FALSE
