CONSTANTS
  Conns = {c1, c2, c3}
  Asks <- MCAsks
  MaxHeaders = 3
  HeadChunk = 2
  BodyChunk = 3
  MaxBody = 4
  Keys = {k1, k2}
  k1 = k1
  k2 = k2
  c1 = c1
  c2 = c2
  Own = Own
  NoKey = NoKey
  MaxFails = 1
  MaxRestarts = 1
SPECIFICATION MCSpec
INVARIANT CutsDoNotShow
INVARIANT CalmFollowsKept
PROPERTY ClientsAreAnswered
