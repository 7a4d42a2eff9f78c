\* Old texts of one line with a newline behind it, and of one line between two newlines.
SPECIFICATION ToolSpec
\* The tool is called once.
CHECK_DEADLOCK FALSE
CONSTANTS
  MaxBytes = 0
  MaxLines = 1
  IntMin <- MCIntMin
  IntMax = 15
  Budgets <- NoBudgets
  Letters = {"a", "b"}
  Contents <- WordContents
  OldTexts <- LineTexts
  NewTexts <- MCNewTexts
INVARIANT StripsOuterLinesOnly
