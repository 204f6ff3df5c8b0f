SPECIFICATION VtdSpec
CONSTANTS
    RingSize = 1
    MaxDrains = 2
    Workflows <- MCWorkflows
    Careless <- MCCareless
    Modules = {"qedu_trace", "qedu"}
    Leftovers <- MCLeftovers
    MaxEvents = 1
    TraceSize = 1
    MaxAttempts = 2
    MaxSignals = 0
CHECK_DEADLOCK FALSE
INVARIANT FailedRunKeepsCapture
