\* Two agents on one file, with failures, deaths and a loss of power.
SPECIFICATION Spec
SYMMETRY Symmetry
\* The system stops when all MaxCalls calls have been made and are over.
CHECK_DEADLOCK FALSE
CONSTANTS
  p1 = p1
  p2 = p2
  Procs = {p1, p2}
  Original = Original
  None = None
  Parts = 2
  MaxCalls = 3
  MaxLosses = 1
INVARIANTS
  EditAllOrNothing
  ErrorLeavesNoTrace
  ModeKept
