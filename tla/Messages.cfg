CONSTANTS
  DMs = {d1}
  Want = 2
  MaxRoutes = 6
  MaxDeaths = 2
  MaxFails = 1
  MaxEdits = 1
  MaxRestarts = 1
  None = None
SPECIFICATION MCSpec
INVARIANT OkIsReceived
INVARIANT CopiesAreTries
PROPERTY CalmEndsCurrent
