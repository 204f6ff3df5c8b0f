SPECIFICATION ProgramsSpec
CONSTANTS
  CacheObjects = 2
  MaxLoads = 2
  Top = 3
  Count = 3
  MaxEntries = 2
  MaxMmFaults = 2
  Qemu = {q1, q2}
  MaxIoctls = 2
  MaxRuns = 2
  MaxMaps = 3
  MaxIrqs = 2
  QueueSizeMax = 3
  IdxMod = 6
  EntropyFails = FALSE
  Gpa <- FixedGpas
SYMMETRY Symmetry
CHECK_DEADLOCK FALSE
INVARIANT NoLeak
INVARIANT TableCovers
INVARIANT GapsAreUnclaimed
INVARIANT PhaseSnapshotExact
INVARIANT NoWildAccess
INVARIANT VerdictAndCleanUp
INVARIANT VtdTraceExact
INVARIANT GateHandshake
INVARIANT ServesOldestRequest
INVARIANT UsedRingExact
INVARIANT DoorbellReachesLiveQueue
