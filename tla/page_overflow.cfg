\* A request whose offset and limit add up to more than the largest integer.
SPECIFICATION ToolSpec
\* The tool is called once.
CHECK_DEADLOCK FALSE
CONSTANTS
  MaxBytes = 8
  MaxLines = 6
  IntMin <- MCIntMin
  IntMax = 15
  Budgets <- MCBudgets
  Letters = {"a", "b"}
  Contents <- NoTexts
  OldTexts <- NoTexts
  NewTexts <- NoTexts
INVARIANT PageReturns
