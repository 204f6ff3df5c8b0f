SPECIFICATION BrokenHardwareSpec
CONSTANTS
  Tasks = {a, b}
  Numbers = {n1}
  Texts = {t1}
  NoTask = NoTask
  NoPayload = NoPayload
  MaxIo = 2
  MaxAborts = 2
  TextLen = 2
  FactLen = 1
  Timeouts = {0, 1000, 60001}
PROPERTY WriteReturns
PROPERTY LeftoversDieOut
