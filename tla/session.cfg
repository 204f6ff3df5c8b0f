SPECIFICATION VtdFairSpec
CONSTANTS
    RingSize = 1
    MaxDrains = 2
    Workflows <- MCWorkflows
    Careless <- MCCareless
    Modules = {"qedu_trace", "qedu"}
    Leftovers <- MCLeftovers
    MaxEvents = 2
    TraceSize = 1
    MaxAttempts = 2
    MaxSignals = 1
CONSTRAINT SignalOrRecords
CHECK_DEADLOCK FALSE
INVARIANT PublishedIsComplete
INVARIANT RestoredIsTrue
INVARIANT LeftoverIsExplained
INVARIANT CardComesBack
INVARIANT RestoreNeverWaitsForQemu
PROPERTY ForeignUntouched
PROPERTY AttemptEnds
