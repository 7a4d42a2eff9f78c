\* Every start of the three families, while others edit skills once or sessions twice.
SPECIFICATION Spec
\* The program may run, or may have failed, and nobody does anything more.
CHECK_DEADLOCK FALSE
CONSTANTS
  Unset = Unset
  Values = {"https", "http", "far"}
  Safe = {"https", "far"}
  DefaultURL = "defaultURL"
  DefaultModel = "defaultModel"
  NEntries = 2
  Names = {"a", "b"}
  NoName = "noName"
  NoFile = NoFile
  Files <- MCFiles
  Places <- MCPlaces
  Callers = {c1, c2}
  MaxCalls = 2
  MaxChanges = 2
  Ids = {i1, i2}
  NoId = NoId
  BadId = BadId
  Missing = Missing
  Worlds <- MCWorlds
INVARIANTS
  ConfigByPrecedence
  FailedStartLeavesNoSession
  CatalogFirstWins
  ToldOnceInPrompt
PROPERTY StartKeepsHistories
