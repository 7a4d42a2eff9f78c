\* The model sends arguments that are not JSON.
SPECIFICATION Spec
\* The system stops when all MaxRuns runs have been started and have returned.
CHECK_DEADLOCK FALSE
CONSTANTS
  Procs = {p1}
  p1 = p1
  MaxRuns = 1
  Histories <- NoHistory
  Interruptible = {}
  MaxTurnsBound = 2
  CallId <- MCCallId
  NoCall <- MCNoCall
  ToolName <- MCToolName
  Registered <- MCRegistered
  ParallelSafe <- MCParallelSafe
  MaxConcurrency <- MCMaxConcurrency
  LoadSkill = "load_skill"
  Skills = {}
  Thinking = FALSE
  MaxTurns = 2
  MaxParallel = 3
  Responses <- OneCallResponses
  ThinkResponses <- ThinkAnswers
  Malformed = TRUE
  DiskFaults = FALSE
  MaxUserTurns = 20
  MaxTokens = 20
  PromptBytes = 4
  AnswerBytes = 4
  ResultBytes = 4
INVARIANT MalformedArgumentsNotFatal
