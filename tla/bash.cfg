\* Every requested timeout in integers of five bits, a command of up to three processes.
SPECIFICATION FairSpec
\* The tool is called once.
CHECK_DEADLOCK FALSE
CONSTANTS
  Children = {c1, c2}
  DefaultTimeout = 2
  MaxTimeout = 3
  Second = 4
  IntMin <- MCIntMin
  IntMax = 15
  MaxChunks = 2
  MaxClock = 4
INVARIANTS
  LateMeansLate
  WholeOutput
  SuccessIsReal
PROPERTIES
  CallReturns
