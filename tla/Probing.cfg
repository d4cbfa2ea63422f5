CONSTANTS
  MaxProbes = 3
  MaxRoutes = 2
  MaxFaults = 1
  ProbePermits = 1
  EchoPermits = 1
  Never = Never
  None = None
SPECIFICATION Spec
INVARIANT TalliesSound
INVARIANT LossesAreGaps
INVARIANT Accounted
INVARIANT EchoedWasSent
INVARIANT InferredIsExplained
INVARIANT ProbingInv
