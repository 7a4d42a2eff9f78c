------------------------------ MODULE AgentLoop -----------------------------
(***************************************************************************)
(* The agent's main loop (internal/engine/loop.go, tool_groups.go) run by  *)
(* several processes on one session file.                                  *)
(*                                                                         *)
(* Each process opens the session (reading the file into memory), appends  *)
(* its prompt, and then turns: a view of its history goes to the model,    *)
(* the answer is appended, the tools it asks for are executed and their    *)
(* results appended.  A process may be cancelled, fail or die anywhere and *)
(* be started again on the same session.                                   *)
(*                                                                         *)
(* Session.Append is one step here: it puts a message at the end of the    *)
(* file and of the process's memory, or fails and changes neither.         *)
(* SessionStore models its inside.  The executor of a group of calls is    *)
(* modelled by what ToolGroup is shown to do: calls start in order, at     *)
(* most a limit of them run at once, and it returns when none runs.        *)
(***************************************************************************)
EXTENDS Providers

CONSTANTS
  Procs,          \* processes that use the session
  Registered,     \* names of the tools in the registry
  ParallelSafe,   \* those whose policy says they may run concurrently
  MaxConcurrency, \* the per-tool cap of each parallel-safe tool
  LoadSkill,      \* the name of the load_skill tool
  Skills,         \* local skills the manager can load
  Thinking,       \* EnableThinking
  MaxTurns,       \* AgentEngine.MaxTurns
  MaxParallel,    \* AgentEngine.MaxParallelToolCalls
  Responses,      \* sequences of tool names the model may ask for in a turn
  ThinkResponses, \* and those it may ask for when it is offered no tools
  Malformed,      \* whether the model may send arguments that are not JSON
  DiskFaults,     \* whether an append may fail
  Histories,      \* contents the session file may have before the first run
  MaxRuns,        \* bound: how many runs are started in all
  Interruptible,  \* bound: the processes whose context may be cancelled
  PromptBytes, AnswerBytes, ResultBytes   \* content lengths

ASSUME LoopAssumption ==
  /\ ParallelSafe \subseteq Registered /\ Registered \subseteq ToolName
  /\ LoadSkill \in ToolName \ ParallelSafe
  /\ MaxConcurrency \in [ParallelSafe -> Int]
  /\ Responses \subseteq Seq(ToolName) /\ ThinkResponses \subseteq Seq(ToolName)
  /\ Histories \subseteq Seq(Message)
  /\ Thinking \in BOOLEAN /\ Malformed \in BOOLEAN /\ DiskFaults \in BOOLEAN
  /\ Interruptible \subseteq Procs
  /\ MaxTurns \in Int /\ MaxParallel \in Int /\ MaxRuns \in Nat
  /\ PromptBytes \in Nat /\ AnswerBytes \in Nat /\ ResultBytes \in Nat

VARIABLES
  disk,      \* the session file: its messages in order
  mem,       \* Session.messages of each process
  base,      \* how many of them were read from the file when it was opened
  pc,        \* where each process is in Run
  exit,      \* what Run returned, once it has
  turn,      \* turnCount
  thought,   \* what the think phase added to this turn's view
  calls,     \* ToolCalls of this turn's act response
  next,      \* first of them not yet in an executed group, or not yet
             \* passed by the load_skill barrier
  started,   \* those whose tool has been entered
  finished,  \* those whose tool has returned
  answered,  \* how many of them have their result appended
  cancelled, \* ctx.Err() # nil
  loaded,    \* skills in the context manager's composer
  sys,       \* skills in the engine's current system message
  run,       \* the number of the run each process is or was last in, or 0
  runs       \* how many runs were started in all

vars == <<disk, mem, base, pc, exit, turn, thought, calls, next, started, finished,
          answered, cancelled, loaded, sys, run, runs>>

toolVars == <<next, started, finished, answered>>
skillVars == <<loaded, sys>>
runVars == <<run, runs>>

-----------------------------------------------------------------------------
(* Scheduling policy: registry.ExecutionPolicyFor, PlanToolCallGroups,     *)
(* toolGroupLimit, boundedWorkerCount.                                     *)

TurnLimit == IF MaxTurns <= 0 THEN 25 ELSE MaxTurns

IsParallelSafe(call) == call.name \in ParallelSafe

\* Mutant: the first call of a group is taken without looking at its policy.
GroupAt_SerialLeads(cs, k) ==
  {j \in k..Len(cs) : \A i \in (k + 1)..j : IsParallelSafe(cs[i])}

\* The group that begins at position k: a serial call stands alone, a
\* parallel-safe one is joined by the parallel-safe calls that follow it.
GroupAt(cs, k) ==
  {j \in k..Len(cs) : j = k \/ \A i \in k..j : IsParallelSafe(cs[i])}

\* The smallest positive cap among the engine's and the group's tools.
ToolGroupLimit(cs, group) ==
  Min({IF MaxParallel <= 0 THEN 4 ELSE MaxParallel}
      \cup {MaxConcurrency[cs[i].name] :
              i \in {j \in group : IsParallelSafe(cs[j]) /\ MaxConcurrency[cs[j].name] > 0}})

\* boundedWorkerCount: how many calls of a group may run at once.
WorkerCount(cs, group) ==
  LET limit == ToolGroupLimit(cs, group)
  IN IF limit <= 0 \/ limit > Cardinality(group) THEN Cardinality(group) ELSE limit

HasLoadSkillCall(cs) == \E i \in DOMAIN cs : cs[i].name = LoadSkill

CurrentGroup(p) == GroupAt(calls[p], next[p])
Running(p) == started[p] \ finished[p]

\* Enough identifiers for every call of every answer of every run.
ASSUME CallIdAssumption ==
  \A names \in Responses \cup ThinkResponses :
    (1..MaxRuns) \X (1..TurnLimit) \X DOMAIN names \subseteq CallId

\* What earlier runs leave in a file: a prompt comes first, and by AnsweredOnce
\* every result answers a call made before it and no two the same one.  The
\* model never reuses an identifier, neither within an answer nor, in the runs
\* to come, one that occurs in the file.
ASSUME HistoryAssumption ==
  \A h \in Histories :
    /\ h # <<>> => h[1].role = "user"
    /\ \A t \in DOMAIN h :
         /\ \A j, k \in DOMAIN h[t].calls : h[t].calls[j].id = h[t].calls[k].id => j = k
         /\ h[t].role # "tool" => h[t].answers = NoCall
         /\ h[t].role = "tool" =>
              /\ h[t].answers \in CallId \ ((1..MaxRuns) \X Nat \X Nat)
              /\ \E a \in 1..(t - 1) : h[t].answers \in CallIds(h[a])
              /\ \A u \in DOMAIN h : h[u].answers = h[t].answers => u = t

-----------------------------------------------------------------------------
Init ==
  /\ disk \in Histories
  /\ mem = [p \in Procs |-> <<>>]
  /\ base = [p \in Procs |-> 0]
  /\ pc = [p \in Procs |-> "done"]
  /\ exit = [p \in Procs |-> "none"]
  /\ turn = [p \in Procs |-> 0]
  /\ thought = [p \in Procs |-> <<>>]
  /\ calls = [p \in Procs |-> <<>>]
  /\ next = [p \in Procs |-> 1]
  /\ started = [p \in Procs |-> {}]
  /\ finished = [p \in Procs |-> {}]
  /\ answered = [p \in Procs |-> 0]
  /\ cancelled = [p \in Procs |-> FALSE]
  /\ loaded = [p \in Procs |-> {}]
  /\ sys = [p \in Procs |-> {}]
  /\ run = [p \in Procs |-> 0]
  /\ runs = 0

\* The turn's view is gone when its answer is there, or Run returns.
DropView(p) == thought' = [thought EXCEPT ![p] = <<>>]

\* Run returns with the given outcome.
Return(p, outcome) ==
  /\ pc' = [pc EXCEPT ![p] = "done"]
  /\ exit' = [exit EXCEPT ![p] = outcome]
  /\ DropView(p)

Goto(p, where) ==
  /\ pc' = [pc EXCEPT ![p] = where]
  /\ DropView(p)
  /\ UNCHANGED exit

\* Session.Append succeeds: the message is last in the file and in memory.
SessionAppend(p, m) ==
  /\ disk' = Append(disk, m)
  /\ mem' = [mem EXCEPT ![p] = Append(@, m)]

\* A process starts: OpenSession reads the file, the context manager holds no
\* loaded skill, Run composes the first system message.
Start(p) ==
  /\ pc[p] = "done" /\ runs < MaxRuns
  /\ runs' = runs + 1
  /\ run' = [run EXCEPT ![p] = runs + 1]
  /\ mem' = [mem EXCEPT ![p] = disk]
  /\ base' = [base EXCEPT ![p] = Len(disk)]
  /\ turn' = [turn EXCEPT ![p] = 0]
  /\ calls' = [calls EXCEPT ![p] = <<>>]
  /\ next' = [next EXCEPT ![p] = 1]
  /\ started' = [started EXCEPT ![p] = {}]
  /\ finished' = [finished EXCEPT ![p] = {}]
  /\ answered' = [answered EXCEPT ![p] = 0]
  /\ cancelled' = [cancelled EXCEPT ![p] = FALSE]
  /\ loaded' = [loaded EXCEPT ![p] = {}]
  /\ sys' = [sys EXCEPT ![p] = {}]
  /\ pc' = [pc EXCEPT ![p] = "prompt"]
  /\ exit' = [exit EXCEPT ![p] = "none"]
  /\ DropView(p)
  /\ UNCHANGED disk

AppendPrompt(p) ==
  /\ pc[p] = "prompt"
  /\ SessionAppend(p, UserMessage(PromptBytes))
  /\ Goto(p, "top")
  /\ UNCHANGED <<base, turn, calls, toolVars, cancelled, skillVars, runVars>>

\* Mutant: one turn more than the budget.
BudgetLeft_OneMore(p) == turn[p] <= TurnLimit

BudgetLeft(p) == turn[p] < TurnLimit

\* The head of the loop: the cancellation check, the turn budget.
BeginTurn(p) ==
  /\ pc[p] = "top" /\ ~cancelled[p] /\ BudgetLeft(p)
  /\ turn' = [turn EXCEPT ![p] = @ + 1]
  /\ Goto(p, IF Thinking THEN "think" ELSE "act")
  /\ UNCHANGED <<disk, mem, base, calls, toolVars, cancelled, skillVars, runVars>>

StopAtTop(p) ==
  /\ pc[p] = "top"
  /\ \/ cancelled[p] /\ Return(p, "cancelled") /\ UNCHANGED turn
     \/ /\ ~cancelled[p] /\ ~BudgetLeft(p)
        /\ Return(p, "maxTurns")
        /\ turn' = [turn EXCEPT ![p] = @ + 1]
  /\ UNCHANGED <<disk, mem, base, calls, toolVars, cancelled, skillVars, runVars>>

\* Call identifiers are chosen by the model and never reused.
FreshCalls(p, names) ==
  [i \in DOMAIN names |-> [id |-> <<run[p], turn[p], i>>, name |-> names[i]]]

\* Mutant: the think answer is stored in the session like any other (TODOS.md:7).
Think_Persisted(p) ==
  /\ pc[p] = "think"
  /\ SessionAppend(p, AssistantMessage(<<>>, AnswerBytes))
  /\ Goto(p, "act")
  /\ UNCHANGED <<base, turn, calls, toolVars, cancelled, skillVars, runVars>>

\* The think phase: its answer, whole, is shown to the act phase only, and not
\* at all when it has no content.
Think(p) ==
  /\ pc[p] = "think"
  /\ pc' = [pc EXCEPT ![p] = "act"]
  /\ \/ UNCHANGED thought
     \/ \E names \in ThinkResponses :
          LET answer == AssistantMessage(FreshCalls(p, names), AnswerBytes)
          IN answer.bytes > 0 /\ thought' = [thought EXCEPT ![p] = <<answer>>]
  /\ UNCHANGED <<disk, mem, base, exit, turn, calls, toolVars, cancelled, skillVars, runVars>>

\* Either phase's Generate fails.
ProviderFails(p) ==
  /\ pc[p] \in {"think", "act"}
  /\ Return(p, "providerError")
  /\ UNCHANGED <<disk, mem, base, turn, calls, toolVars, cancelled, skillVars, runVars>>

\* The act phase answers and the answer is appended.  json.Marshal refuses a
\* message whose raw arguments are not JSON, and a write may fail: Run returns
\* the error either way.
Act(p) ==
  /\ pc[p] = "act"
  /\ \E names \in Responses :
       LET cs == FreshCalls(p, names) IN
       \/ /\ SessionAppend(p, AssistantMessage(cs, AnswerBytes))
          /\ calls' = [calls EXCEPT ![p] = cs]
          /\ next' = [next EXCEPT ![p] = 1]
          /\ started' = [started EXCEPT ![p] = {}]
          /\ finished' = [finished EXCEPT ![p] = {}]
          /\ answered' = [answered EXCEPT ![p] = 0]
          /\ IF cs = <<>> THEN Return(p, "complete")
             ELSE Goto(p, IF HasLoadSkillCall(cs) THEN "barrier" ELSE "group")
       \/ /\ Malformed /\ names # <<>>
          /\ Return(p, "marshalError")
          /\ UNCHANGED <<disk, mem, calls, toolVars>>
  /\ UNCHANGED <<base, turn, cancelled, skillVars, runVars>>

\* A write of the prompt, of an answer or of a result fails.
AppendFails(p) ==
  /\ DiskFaults /\ pc[p] \in {"prompt", "act", "results"}
  /\ Return(p, "persistError")
  /\ UNCHANGED <<disk, mem, base, turn, calls, toolVars, cancelled, skillVars, runVars>>

-----------------------------------------------------------------------------
(* executeLoadSkillBarrier: one call after the other, load_skill executed, *)
(* any other deferred; the context is looked at before each of them.       *)

\* Mutant: only the calls of unknown tools are deferred.
Deferred_UnknownOnly(call) == call.name \notin Registered

Deferred(call) == call.name # LoadSkill

\* A skill that is unknown, cannot be read or is there already changes nothing.
ManagerLoadSkill(p) ==
  \/ UNCHANGED loaded
  \/ /\ LoadSkill \in Registered
     /\ \E s \in Skills : loaded' = [loaded EXCEPT ![p] = @ \cup {s}]

BarrierCall(p) ==
  /\ pc[p] = "barrier" /\ ~cancelled[p]
  /\ next' = [next EXCEPT ![p] = @ + 1]
  /\ IF Deferred(calls[p][next[p]])
     THEN UNCHANGED <<started, finished, loaded>>
     ELSE /\ started' = [started EXCEPT ![p] = @ \cup {next[p]}]
          /\ finished' = [finished EXCEPT ![p] = @ \cup {next[p]}]
          /\ ManagerLoadSkill(p)
  /\ Goto(p, IF next[p] = Len(calls[p]) THEN "results" ELSE "barrier")
  /\ UNCHANGED <<disk, mem, base, turn, calls, answered, cancelled, sys, runVars>>

BarrierCancelled(p) ==
  /\ pc[p] = "barrier" /\ cancelled[p]
  /\ Return(p, "cancelled")
  /\ UNCHANGED <<disk, mem, base, turn, calls, toolVars, cancelled, skillVars, runVars>>

-----------------------------------------------------------------------------
(* Groups: each is executed, then its results are appended in the order of *)
(* its calls, before the next one is looked at.                            *)

EnterGroup(p) ==
  /\ pc[p] = "group"
  /\ IF cancelled[p] THEN Return(p, "cancelled") ELSE Goto(p, "running")
  /\ UNCHANGED <<disk, mem, base, turn, calls, toolVars, cancelled, skillVars, runVars>>

\* The next call of the group is handed to a worker that is free.
StartCall(p) ==
  /\ pc[p] = "running"
  /\ LET rest == CurrentGroup(p) \ started[p] IN
     /\ rest # {}
     /\ Cardinality(Running(p)) < WorkerCount(calls[p], CurrentGroup(p))
     /\ started' = [started EXCEPT ![p] = @ \cup {Min(rest)}]
  /\ UNCHANGED <<disk, mem, base, pc, exit, turn, thought, calls, next, finished,
                 answered, cancelled, skillVars, runVars>>

FinishCall(p) ==
  /\ pc[p] = "running"
  /\ \E i \in Running(p) : finished' = [finished EXCEPT ![p] = @ \cup {i}]
  /\ UNCHANGED <<disk, mem, base, pc, exit, turn, thought, calls, next, started,
                 answered, cancelled, skillVars, runVars>>

\* Mutant: the executor waits for every call of the answer.
GroupDone_AllCalls(p) == DOMAIN calls[p] \subseteq finished[p]

GroupDone(p) == CurrentGroup(p) \subseteq finished[p]

\* Mutant: an aborted group does not wait for its workers.
GroupQuiet_NoWait(p) == ~(CurrentGroup(p) \subseteq started[p])

\* Not all of the group was started, and what was has returned.
GroupQuiet(p) == ~(CurrentGroup(p) \subseteq started[p]) /\ Running(p) = {}

\* Every call of the group has returned: the results are kept only if the
\* context is still alive.
CollectGroup(p) ==
  /\ pc[p] = "running" /\ GroupDone(p)
  /\ IF cancelled[p]
     THEN Return(p, "cancelled") /\ UNCHANGED next
     ELSE /\ next' = [next EXCEPT ![p] = Max(CurrentGroup(p)) + 1]
          /\ Goto(p, "results")
  /\ UNCHANGED <<disk, mem, base, turn, calls, started, finished, answered,
                 cancelled, skillVars, runVars>>

\* A group of several calls stops being dispatched when the context is
\* cancelled, and returns once the calls that did start have returned.
AbortGroup(p) ==
  /\ pc[p] = "running" /\ cancelled[p]
  /\ Cardinality(CurrentGroup(p)) > 1 /\ GroupQuiet(p)
  /\ Return(p, "cancelled")
  /\ UNCHANGED <<disk, mem, base, turn, calls, toolVars, cancelled, skillVars, runVars>>

\* Mutant: every result is tagged with the group's last call.
ResultOf_LastCall(p, k) == ToolMessage(calls[p][next[p] - 1].id, ResultBytes)

\* The observation of the k-th call.
ResultOf(p, k) == ToolMessage(calls[p][k].id, ResultBytes)

\* Mutant: the next turn begins after the first group.
AfterResult_OneGroup(p, k) == IF k + 1 < next[p] THEN "results" ELSE "top"

\* Mutant: the context is looked at after every result.
AfterResult_ChecksContext(p, k) ==
  IF k + 1 < next[p] /\ ~cancelled[p] THEN "results"
  ELSE IF k < Len(calls[p]) /\ ~cancelled[p] THEN "group" ELSE "top"

\* Where the loop goes on once k results are stored.
AfterResult(p, k) ==
  IF k + 1 < next[p] THEN "results" ELSE IF k < Len(calls[p]) THEN "group" ELSE "top"

\* Mutant: the system message is composed once per run.
RecomposedPrompt_Never(p, k) == sys[p]

\* After the last result of a load_skill answer the system message is
\* composed again.
RecomposedPrompt(p, k) ==
  IF HasLoadSkillCall(calls[p]) /\ k = Len(calls[p]) THEN loaded[p] ELSE sys[p]

PersistResult(p) ==
  /\ pc[p] = "results"
  /\ LET k == answered[p] + 1 IN
     /\ SessionAppend(p, ResultOf(p, k))
     /\ answered' = [answered EXCEPT ![p] = k]
     /\ Goto(p, AfterResult(p, k))
     /\ sys' = [sys EXCEPT ![p] = RecomposedPrompt(p, k)]
  /\ UNCHANGED <<base, turn, calls, next, started, finished, cancelled, loaded, runVars>>

-----------------------------------------------------------------------------
(* The environment: Ctrl-C at any time, death at any time.                 *)

Cancel(p) ==
  /\ p \in Interruptible /\ pc[p] # "done" /\ ~cancelled[p]
  /\ cancelled' = [cancelled EXCEPT ![p] = TRUE]
  /\ UNCHANGED <<disk, mem, base, pc, exit, turn, thought, calls, toolVars, skillVars, runVars>>

Crash(p) ==
  /\ pc[p] # "done"
  /\ Return(p, "crashed")
  /\ UNCHANGED <<disk, mem, base, turn, calls, toolVars, cancelled, skillVars, runVars>>

\* What the process does by itself once started.
Step(p) ==
  \/ AppendPrompt(p) \/ BeginTurn(p) \/ StopAtTop(p) \/ Think(p) \/ ProviderFails(p)
  \/ Act(p) \/ AppendFails(p) \/ BarrierCall(p) \/ BarrierCancelled(p)
  \/ EnterGroup(p) \/ StartCall(p) \/ FinishCall(p) \/ CollectGroup(p) \/ AbortGroup(p)
  \/ PersistResult(p)

Next == \E p \in Procs : Start(p) \/ Step(p) \/ Cancel(p) \/ Crash(p)

Spec == Init /\ [][Next]_vars

\* A started process keeps running: the provider answers or fails, and a tool
\* returns.  Nobody has to start, cancel or kill anything.
FairSpec == Spec /\ \A p \in Procs : WF_vars(Step(p))

-----------------------------------------------------------------------------
(* Properties.                                                             *)

\* Results are stored of executed calls only, and only calls of the answer are
\* ever looked at.
CountersOK(p) ==
  /\ answered[p] < next[p] /\ next[p] <= Len(calls[p]) + 1
  /\ finished[p] \subseteq started[p] /\ started[p] \subseteq DOMAIN calls[p]

\* Every variable has its type, the exit values are those of Run plus a crash,
\* and the turn and call counters stay within the response and the budget.
TypeOK ==
  /\ disk \in Seq(Message)
  /\ mem \in [Procs -> Seq(Message)]
  /\ base \in [Procs -> Nat]
  /\ pc \in [Procs -> {"done", "prompt", "top", "think", "act", "barrier", "group",
                       "running", "results"}]
  /\ exit \in [Procs -> {"none", "complete", "cancelled", "maxTurns", "providerError",
                         "marshalError", "persistError", "crashed"}]
  /\ turn \in [Procs -> 0..(TurnLimit + 1)]
  /\ thought \in [Procs -> Seq(Message)]
  /\ calls \in [Procs -> Seq(ToolCall)]
  /\ next \in [Procs -> Nat] /\ answered \in [Procs -> Nat]
  /\ started \in [Procs -> SUBSET Nat] /\ finished \in [Procs -> SUBSET Nat]
  /\ \A p \in Procs : CountersOK(p)
  /\ cancelled \in [Procs -> BOOLEAN]
  /\ loaded \in [Procs -> SUBSET Skills] /\ sys \in [Procs -> SUBSET Skills]
  /\ run \in [Procs -> 0..MaxRuns] /\ runs \in 0..MaxRuns

Asking(p) == pc[p] \in {"think", "act"}

\* What is shown of the history this turn: the messages are read at the head of
\* the loop, and none is stored until the answer is appended.
View(p) == ProviderView(mem[p])

\* The request: the think answer stands behind the view, in the act phase only.
Sent(p) == Request(mem[p], View(p)) \o thought[p]

\* What is sent to the provider is a history it accepts, whatever other
\* processes interleaved in the file and wherever an earlier run was cut off
\* (window.go:7-10, "always provider-valid").
ViewIsValid ==
  \A p \in Procs : Asking(p) => ProviderValid(mem[p], View(p))

\* The messages of the run that is going on, as they are sent.
OwnTurn(p) == SubSeq(mem[p], base[p] + 1, Len(mem[p])) \o thought[p]

\* No answer of the model stands directly behind another.
AnswersApart(msgs) ==
  \A n \in 1..(Len(msgs) - 1) : msgs[n].role = "assistant" => msgs[n + 1].role # "assistant"

\* However two processes wrote into one history, were killed and resumed, however
\* it is cut and whatever the think phase added to it (loop.go:119): both services
\* accept what is sent ("the surviving slice is always provider-valid even if
\* concurrent writers interleaved messages", window.go:9), and the run itself puts
\* no two answers next to each other ("two consecutive assistant messages cause a
\* 400 validation error", TODOS.md:7). The model is offered no tools when it is
\* to think (loop.go:110): of an answer that calls one all the same nothing is said.
WireValid ==
  \A p \in Procs : Asking(p) /\ (\A n \in DOMAIN thought[p] : thought[p][n].calls = <<>>) =>
    /\ AnthropicAccepts(TranslateMessagesToAnthropic(Sent(p)))
    /\ OpenAIAccepts(TranslateMessagesToOpenAI(Sent(p)))
    /\ AnswersApart(OwnTurn(p))

\* However small the window and the token budget, the model is shown the whole
\* of the run it is in: the prompt, and every answer and result since.
OwnTurnInView ==
  \A p \in Procs : Asking(p) => base[p] + 1 .. Len(mem[p]) \subseteq View(p)

\* The memory of a process shows the results of an answer right after it, in the
\* order it asked for them whatever order they finished in, and no further answer
\* before all of them are there; nor does the request of any turn put two answers
\* of the run next to each other, the think answer of loop.go:119 included (the
\* fault TODOS.md:5-8 tells of).
ObservationsInOrder ==
  \A p \in Procs :
    /\ \A a \in base[p] + 1 .. Len(mem[p]) :
         mem[p][a].role = "assistant" =>
           \A k \in 1..Len(mem[p][a].calls) :
             a + k <= Len(mem[p]) =>
               mem[p][a + k] = ToolMessage(mem[p][a].calls[k].id, ResultBytes)
    /\ AnswersApart(OwnTurn(p))

\* In the file every call is answered at most once and after it was made,
\* across processes, cancellations, crashes and resumed runs.
AnsweredOnce ==
  \A t \in DOMAIN disk : disk[t].role = "tool" =>
    /\ \E a \in 1..(t - 1) : disk[t].answers \in CallIds(disk[a])
    /\ \A u \in DOMAIN disk : disk[u].answers = disk[t].answers => u = t

\* A running serial call runs alone, no tool runs more often at once than its
\* cap, and nothing runs before the results of all earlier groups are stored.
ScheduledByPolicy ==
  \A p \in Procs : pc[p] = "running" => \A i \in Running(p) :
    /\ ~IsParallelSafe(calls[p][i]) => Running(p) = {i}
    /\ IsParallelSafe(calls[p][i]) /\ MaxConcurrency[calls[p][i].name] > 0
         => Cardinality(Running(p)) <= MaxConcurrency[calls[p][i].name]
    /\ \A j \in 1..(i - 1) : \/ j <= answered[p]
                             \/ \A m \in j..i : IsParallelSafe(calls[p][m])

\* Run does not return while a tool it started is still running.
NothingRunsAfterReturn ==
  \A p \in Procs : pc[p] = "done" /\ exit[p] # "crashed" => Running(p) = {}

\* A run stopped by cancellation leaves each group answered as a whole or not
\* at all: results are never stored for a part of one.
CancelKeepsWholeGroups ==
  \A p \in Procs : exit[p] = "cancelled" =>
    \/ answered[p] \in {0, Len(calls[p])}
    \/ /\ ~HasLoadSkillCall(calls[p])
       /\ ~(/\ IsParallelSafe(calls[p][answered[p]])
            /\ IsParallelSafe(calls[p][answered[p] + 1]))

\* An answer that loads a skill runs no other tool: what it asked for besides
\* is answered "deferred" (loop.go:246).
OthersDeferred ==
  \A p \in Procs : HasLoadSkillCall(calls[p]) =>
    \A i \in started[p] : calls[p][i].name = LoadSkill

\* A skill loaded in an answer is in the system prompt of the next request.
FreshSystemPrompt == \A p \in Procs : Asking(p) => sys[p] = loaded[p]

\* "Parsing is delegated to the concrete tool" (schema/message.go:36), which
\* reports arguments it cannot parse to the model: they do not end the run.
\* Not so: Append marshals the answer, and refuses what is not JSON.
MalformedArgumentsNotFatal == \A p \in Procs : exit[p] # "marshalError"

\* A started run returns, whatever is cancelled and whatever fails.
Terminates == \A p \in Procs : pc[p] = "prompt" ~> pc[p] = "done"
=============================================================================
