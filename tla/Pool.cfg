CONSTANTS
  MaxRoutes = 3
  Want = 2
  Rotates = TRUE
  CreateMayFail = TRUE
SPECIFICATION FairSpec
INVARIANT RecordIsThePool
PROPERTY NeverDropsAdvertised
PROPERTY DeadIsUnpublished
