SPECIFICATION TraceFairSpec
CONSTANTS
  QueueSizeMax = 8
  IdxMod = 65536
  EntropyFails = TRUE
  Gpa <- FixedGpas
  RequestCount = 5
  Faults = {"KVM_RUN", "read", "write", "wake", "drop_ioeventfd", "drop_irqfd", "kick_fd", "call_fd", "ioeventfd", "irqfd", "worker"}
  MaxEntries = 2
CHECK_DEADLOCK FALSE
INVARIANT VirtioTraceExact
INVARIANT InterruptMeansCompletion
INVARIANT OneConsumer
INVARIANT ShutdownExact
PROPERTY RunEnds
PROPERTY RunSucceeds
