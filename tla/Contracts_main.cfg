SPECIFICATION Spec
CONSTANTS
  p1 = p1
  p2 = p2
  j1 = j1
  Proposals = {p1, p2}
  Jobs = {j1}
  JobOf <- OneJob
  Hires <- FirstTwice
  Releases <- Once
  MaxCrashes = 1
  MaxHandled = 2
  Outages = TRUE
INVARIANTS
  OnePdfPerProposal
  RowTrailsAccount
  CertificateAgrees
  HireGetsContract
PROPERTIES
  CompletedIsFinal
CHECK_DEADLOCK FALSE
