\* Two processes on one session file, dying, cancelled and resumed at any
\* point, with a window and a token budget small enough to cut history.
SPECIFICATION Spec
SYMMETRY Symmetry
\* The system stops when all MaxRuns runs have been started and have returned.
CHECK_DEADLOCK FALSE
CONSTANTS
  Procs = {p1, p2}
  p1 = p1
  p2 = p2
  MaxRuns = 3
  Histories <- NoHistory
  Interruptible = {}
  MaxTurnsBound = 1
  CallId <- MCCallId
  NoCall <- MCNoCall
  ToolName <- MCToolName
  Registered <- MCRegistered
  ParallelSafe <- MCParallelSafe
  MaxConcurrency <- MCMaxConcurrency
  LoadSkill = "load_skill"
  Skills = {s1}
  Thinking = TRUE
  MaxTurns = 1
  MaxParallel = 1
  Responses <- ShareResponses
  ThinkResponses <- ThinkAnswers
  Malformed = FALSE
  DiskFaults = FALSE
  MaxUserTurns = 2
  MaxTokens = 60
  PromptBytes = 4
  AnswerBytes = 4
  ResultBytes = 4
INVARIANTS
  ViewIsValid
  AnsweredOnce
  WireValid
