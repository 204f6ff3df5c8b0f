SPECIFICATION DriverSpec
CONSTANTS
  Tasks = {a}
  Numbers = {n1}
  Texts = {t1}
  NoTask = NoTask
  NoPayload = NoPayload
  MaxIo = 2
  MaxAborts = 1
  TextLen = 1
  FactLen = 1
  Timeouts = {1000}
  MaxBinds = 2
  Unbind = TRUE
CHECK_DEADLOCK FALSE
INVARIANT TeardownStopsJobs
