SPECIFICATION Spec
CONSTANTS
  Tasks = {a, b}
  Numbers = {n1, n2}
  Texts = {t1, t2}
  NoTask = NoTask
  NoPayload = NoPayload
  MaxIo = 2
  MaxAborts = 1
  TextLen = 2
  FactLen = 1
  Timeouts = {0, 1000, 60001}
SYMMETRY Symmetry
INVARIANT FactorialTextExact
