CONSTANTS
  Xfers = {x1, x2}
  Contents = {v1, v2}
  Manifests <- MCManifests
  Chunks <- MCChunks
  MaxBytes = 3
  MaxChunkData = 2
  MaxListed = 1
  WriteMayFail = TRUE
  Absent = Absent
  Zero = Zero
  None = None
  MaxInputs = 6
  MaxRestarts = 1
SPECIFICATION MCSpec
SYMMETRY MCSymmetry
CHECK_DEADLOCK FALSE
INVARIANT ReceiverInv
INVARIANT SpansCoverFile
INVARIANT NoHoles
INVARIANT WrittenOncePerRun
PROPERTY NeverLosesProgress
