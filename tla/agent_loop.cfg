\* One process: scheduling of tools, the skill barrier, cancellation, failures.
SPECIFICATION FairSpec
\* The system stops when all MaxRuns runs have been started and have returned.
CHECK_DEADLOCK FALSE
CONSTANTS
  Procs = {p1}
  p1 = p1
  MaxRuns = 1
  Histories <- EarlierHistories
  Interruptible = {p1}
  MaxTurnsBound = 2
  CallId <- MCCallId
  NoCall <- MCNoCall
  ToolName <- MCToolName
  Registered <- MCRegistered
  ParallelSafe <- MCParallelSafe
  MaxConcurrency <- MCMaxConcurrency
  LoadSkill = "load_skill"
  Skills = {s1, s2}
  Thinking = TRUE
  MaxTurns = 2
  MaxParallel = 3
  Responses <- LoopResponses
  ThinkResponses <- ThinkAnswers
  Malformed = TRUE
  DiskFaults = TRUE
  MaxUserTurns = 3
  MaxTokens = 90
  PromptBytes = 4
  AnswerBytes = 4
  ResultBytes = 80
INVARIANTS
  TypeOK
  OwnTurnInView
  ObservationsInOrder
  ScheduledByPolicy
  NothingRunsAfterReturn
  CancelKeepsWholeGroups
  OthersDeferred
  FreshSystemPrompt
PROPERTIES
  Terminates
