CONSTANTS
  v1 = v1
  v2 = v2
  v3 = v3
  Xfers = {x1}
  Contents = {v1, v2}
  Manifests <- MCManifests
  Chunks <- MCChunks
  MaxBytes = 3
  MaxChunkData = 2
  MaxListed = 2
  WriteMayFail = FALSE
  Absent = Absent
  Zero = Zero
  None = None
  FileLen <- MCSameLen
  ChunkSize = 2
  MaxRounds = 2
  Attempts = 2
  MaxTries = 2
  MaxLost = 2
  MaxLate = 1
  MaxCopies = 2
  MaxEdits = 1
  MaxRestarts = 0
SPECIFICATION TransferSpec
INVARIANT WrittenIsOneFile
