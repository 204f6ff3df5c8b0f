SPECIFICATION ToySpec
CONSTANTS
  Others = {o1, o2}
  MaxFaults = 2
  MaxEntries = 2
CHECK_DEADLOCK FALSE
PROPERTY HaltEndsRun
