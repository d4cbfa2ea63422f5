CONSTANTS
  v1 = v1
  v2 = v2
  v3 = v3
  Xfers = {x1}
  Contents = {v1, v2, v3}
  Manifests <- MCManifests
  Chunks <- MCChunks
  MaxBytes = 3
  MaxChunkData = 2
  MaxListed = 1
  WriteMayFail = FALSE
  Absent = Absent
  Zero = Zero
  None = None
  FileLen <- MCShrinking
  ChunkSize = 2
  MaxRounds = 1
  Attempts = 2
  MaxTries = 2
  MaxLost = 1
  MaxLate = 1
  MaxCopies = 1
  MaxEdits = 1
  MaxRestarts = 1
SPECIFICATION FairSpec
INVARIANT AlwaysNamesOne
PROPERTY SenderEnds
