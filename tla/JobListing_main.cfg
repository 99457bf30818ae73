SPECIFICATION Spec
CONSTANTS
  Jobs = {j1}
  Users = {u1, u2}
  Calls = {k1, k2, k3}
  Ops <- AllOps
  MaxHandled = 2
  Nobody = Nobody
SYMMETRY Symmetry
INVARIANTS
  MilestoneJobsHaveMilestones
  ListedAsAnnounced
  BookmarkStays
CHECK_DEADLOCK FALSE
