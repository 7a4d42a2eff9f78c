\* Up to two appends are refused or stop early, by an error or by a crash.
SPECIFICATION FairSpec
\* The system stops when every goroutine has made its calls.
CHECK_DEADLOCK FALSE
CONSTANTS
  s1 = s1
  s2 = s2
  g1 = g1
  g2 = g2
  g3 = g3
  None = None
  Sessions = {s1, s2}
  Goroutines = {g1, g2, g3}
  SessionOf <- MCSessionOf
  MaxAppends = 1
  MaxOpens = 2
  MaxFaults = 2
INVARIANTS
  LinesIntact
  AckedDurable
  SameOrder
PROPERTIES
  Implements
  AppendReturns
