CONSTANTS
  Routes = {r1, r2}
  Files = 2
  MaxPoolRefreshes = 3
  PoolSize = 2
SPECIFICATION FairSpec
INVARIANT AlwaysARoute
INVARIANT BoundedTries
PROPERTY SendReturns
