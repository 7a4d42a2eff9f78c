\* Every text of up to eight bytes, and every page of up to six lines, with integers of five bits;
\* every edit of short texts.
SPECIFICATION ToolSpec
\* The tool is called once.
CHECK_DEADLOCK FALSE
CONSTANTS
  MaxBytes = 8
  MaxLines = 6
  IntMin <- MCIntMin
  IntMax = 15
  Budgets <- MCBudgets
  Letters = {"a", "b"}
  Contents <- MCContents
  OldTexts <- MCOldTexts
  NewTexts <- MCNewTexts
INVARIANTS
  CutsAtRunes
  BudgetKept
  PageIsAsked
  OnlyTheMatchChanges
  UniqueOrRefused
  MissIsReal
