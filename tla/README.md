# Verification of penelope-agent

penelope-agent is a coding agent for the command line: it sends a conversation
to a language model, executes the tools the model asks for, appends the results
and goes on until the model is done. This directory holds TLA+ modules of its
core, TLC configurations that check them on small instances, and TLAPS proofs
of the properties that matter most. Paths below are relative to the repository
(`src/` in `PROJECT.json`).

    tlc -workers 2 -config agent_loop.cfg MCAgentLoop     # one run
    tlapm AgentLoopProofs.tla                             # one proof module

`PROJECT.json` lists components, runs, mutants, the source lines of every
definition, findings, hazards and theorems.

## 1. The system

| component | state | operations | interacts with |
|---|---|---|---|
| agent loop, `internal/engine/loop.go` | turn count, current answer, system message | `Run`, `executeLoadSkillBarrier`, `providerView` | session, trimmer, provider, executor, skill manager |
| planner, `engine/tool_groups.go` | none | `PlanToolCallGroups` | policies of the registry |
| executor, `engine/tool_execution.go` | worker goroutines, two channels, a WaitGroup | `executeToolCallGroup` | registry, context |
| session, `internal/session/session.go`, `lock_posix.go` | messages in memory, file descriptor, mutex, flock | `Append`, `Messages`, `Close` | the file, other processes |
| session store, `session/store.go`, `id.go` | files in a directory | `NewSession`, `OpenSession` | session |
| trimmer, `session/window.go`, `tokens.go`, `trim.go` | none | `Trim`, `EstimateTokens` | called once a turn |
| registry, `internal/tools/registry.go` | table of tools | `Execute`, `ExecutionPolicyFor` | tools |
| file tools, `tools/edit_file.go`, `atomic_write.go`, `write_file.go`, `read_file.go`, `truncate.go`, `fuzzy.go`, `safepath.go` | files of the workspace | `Execute` | file system, other agents |
| bash, `tools/bash.go` | a process | `Execute` | context, a deadline |
| skills, `internal/context/` | catalogue, loaded skills | `NewManager`, `LoadSkill`, `SystemPrompt` | agent loop, workspace files |
| providers, `internal/provider/` | none | `Generate`, translation of messages | the network |
| settings, `internal/provider/config.go` | none | `LoadConfigFromDir` | environment, `.env` files |
| program, `cmd/claw/main.go` | flags | start, wiring | all |

Hard behaviour, and what makes each component correct:

* **Session file shared by processes.** Nothing stops two processes from using
  one session. Each reads the file once, then appends under `flock`. Their
  turns interleave line by line, memories differ, and a run may die between an
  answer and its results. Correct: lines intact, order in memory and file the
  same, acknowledged messages durable (`SessionStore`), and whatever mixture a
  process reads, what it *sends* is a history a provider accepts
  (`WindowTrimmer`, `AgentLoop`).
* **Concurrent tools.** Parallel-safe calls of an answer run in a pool; others
  alone. Correct: results in order of the requests, nothing left running when
  the executor returns, no deadlock between channels and WaitGroup, caps kept.
* **Cancellation.** Looked at at the head of a turn, before each group, while
  dispatching, after collecting, and before each call of the barrier. Correct:
  no tool outlives `Run`, groups are stored as a whole, `Run` returns.
* **Skills.** A `load_skill` call is a barrier: other calls of the answer are
  deferred and the system prompt is composed anew before the next request.
* **Files.** `edit_file` must be all or nothing under failing steps, death and
  loss of power; `write_file` promises nothing of that kind.
* **Matching.** An edit names text the model remembers, with the wrong endings,
  blanks or indentation. Four levels forgive that one after the other. Past the
  first one the whole file is read, and written back, with every CRLF as LF.
  Correct: one place changes and it reads as what was asked for, the rest of the
  file stays but for those line endings, two candidates are refused, and "not
  found" is said only of what is not there.
* **Commands.** A shell runs under a deadline, and processes it started outlive
  it. Correct: "timed out" only after the granted time, output complete, success
  only of a command that ended by itself, and the call returns.
* **Start.** Settings come from three keys in two places; skills and sessions
  change while the program starts. Correct: the right place wins, a failed start
  leaves no session, no name that does not exist becomes a new conversation.
* **Numbers.** Budgets that cut text in the middle of a rune, page requests at
  the ends of the integers, caps and budgets that are zero or negative.

Every hazard, at its line and with the properties that cover it, is listed in
`PROJECT.json`.

## 2. Modules

| module | models | proofs |
|---|---|---|
| `Conversation` | `schema/message.go`, `session/tokens.go`: roles, calls, messages, the token estimate | |
| `WindowTrimmer` | `session/window.go`, `providerView`: the passes, what is sent, what a provider accepts | `TrimProofs` |
| `AgentLoop` | `engine/loop.go`, `tool_groups.go`, several processes on one session | `AgentLoopProofs` |
| `OrderedExecution` | abstract: what executing a group of calls promises | |
| `ToolGroup` | `engine/tool_execution.go`, implements `OrderedExecution` | `ToolGroupProofs` |
| `MessageLog` | abstract: what sessions on one file promise | |
| `SessionStore` | `session/session.go`, `store.go`, `lock_posix.go`, implements `MessageLog` | `SessionStoreProofs` |
| `Providers` | the translation of messages in `provider/claude.go`, `openai.go`, and the services' rules | `TrimProofs`, `AgentLoopProofs` |
| `FileTools` | `tools/edit_file.go`, `atomic_write.go`, `write_file.go` | `FileToolsProofs` |
| `FuzzyReplace` | `tools/fuzzy.go` | `TextToolsProofs` |
| `TextLimits` | `tools/truncate.go`, `sliceLines` of `read_file.go` | `TextToolsProofs` |
| `Bash` | `tools/bash.go`, with the command, time and `os/exec` around it | `BashProofs` |
| `SkillManager` | `context/manager.go`, `loaders.go`, `frontmatter.go`, `composer.go` | `StartupProofs` |
| `ProviderConfig` | `provider/config.go` | `StartupProofs` |
| `Startup` | `cmd/claw/main.go`, the first half of `session/store.go`; composes `ProviderConfig` and `SkillManager` | `StartupProofs` |
| `MC...` | constants of the instances for TLC; `MCTextTools` puts `TextLimits` and `FuzzyReplace` side by side | |

**Conversation, WindowTrimmer.** A message is a record of what the trimmer and
the providers look at: role, calls, the call it answers, the number of bytes of
its content. The code's passes copy slices; here a pass maps the set of kept
positions to the set it keeps, which is the same because no pass reorders.
`ProviderValid` says: each result stands in the run of results right behind an
answer that made its call, and each call has a result there. It is defined
apart from the passes it is used to judge.

**AgentLoop.** One process per value of `Procs`; `pc` is where it is in `Run`:

    prompt -> top -> [think ->] act -> done                       no tool calls
                                 |--> barrier -> results -> top    load_skill
                                 `--> group -> running -> results -> group | top

`AppendPrompt` is lines 82-94, `BeginTurn`/`StopAtTop` 96-106, `Think` and `Act`
108-142, `BarrierCall` `executeLoadSkillBarrier`, `EnterGroup` 158-166,
`StartCall`/`FinishCall`/`CollectGroup`/`AbortGroup` the call of the executor,
`PersistResult` the loops that append results, with the new system prompt
behind the last one of a barrier. `disk` is the session file, `mem` the messages
in memory. Both phases of a turn send `View`; an answer of the think phase that
is not empty is in `thought`, whole, until the turn's act phase is over, and
`Sent` is the request the provider gets: the system message, the view and, in
the act phase, `thought`. `ThinkResponses` are the answers a model may give when
it is offered no tools, ones that ask for tools included. `Append` is one step: it stores at the end of both, or fails and
changes neither; `SessionStore` has its inside. Tools run as `OrderedExecution`
says; `ToolGroup` shows the pool does so. `Start` is `main`: a process that
starts, also again on the same session, after it returned, failed or died.

**ToolGroup.** The caller and each worker are processes; `next` is the loop over
the group, `Dispatch` a rendezvous on the channel without buffer, `Send` and
`Drain` the channel with a buffer, `jobsClosed`, `Joined` the closed channel and
the WaitGroup. Both cases of the `select` may be taken when both are ready.

**SessionStore.** A line is a sequence of pieces, a message two of them and a
newline, each appended in a step of its own, so another process can see the file
in between and a write can stop there. `mu` is the mutex, `flock` the lock of
the descriptor. The pieces of one message are the bytes of one `write`.
What is read of a file is its places, a line and a piece in it, by rank in
reading order (`InOrder`): the n-th message is at the place with n - 1 before it.
`Refused` stands for an append that returns an error before it wrote anything.
`MessageLog` promises of the sessions together: the log only grows at its end; a
session starts with the whole log and from then on remembers only its own
messages, each after it was stored and in the order they were stored. A message
it was told it failed to store may be in the log, and is not remembered. A closed
session may remember a message that is not in the log: `Append` after `Close` does
that without an error (`session.go:48`), `main` never calls it so, and nothing
promises otherwise; `MessageLog` leaves it open.

**FileTools.** Files are inodes: the path names one, a temporary name another,
an open descriptor a third. `edit_file` is a step per system call, `write_file`
opens with truncation and writes pieces at its own offset. `past` holds what the
path named since the last loss of power: the directory is never synced, so after
a loss any of those may be back. Edits of text are pieces appended to the
content in memory; that an edit does not match is `EditFails`.

**TextLimits.** A text is its length, the offsets of its runes and its number of
lines. Integers are bounded and wrap around, as Go's do.

**FuzzyReplace.** A text is a sequence of characters: letters, a blank, CR, LF.
`ExactReplace`, `TrimmedReplace` and `LineByLineReplace` are the code's levels;
`FuzzyReplace` is the first of them that finds anything. Positions of
occurrences are sets, and `NonOverlapping` is the leftmost choice both
`strings.Count` and `findLineWindowMatches` make. The properties do not use
these: they quantify over parts of the content and say what a reader sees there.
`OnlyTheMatchChanges` is about the content of the file as it was, CRLF and all:
`Written` says how the parts around the match are written back.

**Bash.** `pc` is where `Execute` and `CombinedOutput` are: the shell is started,
reaped, the pipe read to its end, the report made. The command is the
environment: the shell and its children write, fork and end, or do not. `ctx` is
what ended the context first, and `Expire` may come late. `Reap` is `Wait` of
`os/exec`: when the context ended as well, a shell that succeeded may be counted
as failed.

**SkillManager, ProviderConfig, Startup.** `Startup` is `main` with `stage` as
its program counter. `NewManager` is `ListSkills` and a `ScanEntry` per
directory; `LoadSkill` is the look-up, the read outside the lock and the insert
inside, for several callers. `NewSession` and `OpenSession` are the look at the
file, the read and the open. `Others` edits skill directories and session files
between any two steps. `World` is everything a start depends on.

**Providers.** `Request` is the system message and the view the agent loop sends;
`Slice` are the messages at the kept positions in their order (`Increasing`: the
n-th has n of them up to it). Both translations are functions of it; what
Anthropic joins into one turn is the set of positions with one `TurnNumber`.
`AnthropicAccepts` and `OpenAIAccepts` are the services' rules, written from how
the code prepares for them: results behind their calls, one each, no other, the
user first. Anthropic joins neighbours of one role, OpenAI takes them as they
are. `AgentLoop` extends the module and asks for both in `WireValid`, of what is
sent in either phase, unless the think answer asks for tools (see section 4);
and since TODOS.md:7 says the services refuse two answers next to each other,
`WireValid` and `ObservationsInOrder` ask that a run's own part of a request,
`OwnTurn`, never has two. That part takes two turns to become long enough, so it
is the run `agent_loop` that shows it, and the theorem for any number of turns.

## 3. Runs

| run | instance | asks | states |
|---|---|---|---|
| `agent_loop` | one process, one run of two turns, six shapes of answers, three earlier contents of the file, thinking, failing writes, cancellation, death | completeness of what is sent, order of results, scheduling, nothing left running, barrier, prompt, termination | 10 827 |
| `agent_share` | two processes, three runs of one turn with both phases, window of two user turns and a budget of 60 tokens | validity of what is sent, also as the services get it; one answer per call | 418 648 |
| `tool_group` | up to four calls, caps -1, 0, 1, 2, 5 | order, leaks, deadlock, refinement, termination | 63 389 |
| `session_store` | two goroutines on one session and one process more, each session opened twice, two faults | intact lines, durability, order, refinement, progress | 323 348 |
| `file_tools` | two agents, three calls of two edits or pieces, one loss of power | all or nothing, cleanup, permissions | 545 648 |
| `text_tools` | every text of up to 8 bytes, budgets -1 to 9, pages of up to 6 lines, integers of 5 bits; every edit of a text of up to four characters or three lines | cuts, budgets, pages; what an edit changes, when it is refused, when it is said not to match | 391 930 |
| `bash` | every timeout in 5 bits, default 2 and maximum 3 seconds, two children, two writes | true reports, complete output, return | 433 394 |
| `startup` | two settings of the environment and two of a `.env`, with up to four directories between; two skill directories and one edit; two session files and two edits | precedence, catalogue, skills in the prompt, no forked or orphaned session | 1 126 363 |
| `malformed_arguments`, `torn_line`, `page_overflow`, `word_match` | see the findings | one property each, violated | |

Why the bounds are enough. *agent_loop*: two turns are needed for anything one
turn leaves to the next (prompt, results of the turn before); answers of three
calls have a serial call between and beside parallel ones, more parallel calls
than a cap of two, and `load_skill` before and behind another tool. The
estimate of one result is close to the budget, so the cap cuts. *agent_share*:
validity of a view is a matter of one answer, its results and what stands
between them; two writers and one resumed run produce every such pattern, and
the theorem has no bound. *tool_group*: four calls and two workers let a worker
take a second job while both the channel and the loop are in use; the proofs
have no bound. *session_store*: two goroutines contend for the mutex, two
processes for the file, a second `OpenSession` reads what the first left; two
faults damage one line twice, or two lines.
*file_tools*: two calls overlap at every pair of steps, and a third one follows
them. *text_tools*: eight bytes hold two runes of four bytes, so both halves of
a budget can fall into one rune or into two; the arithmetic is exact at both
ends of the integers. Four characters hold two overlapping occurrences of two,
and every way white space can surround a letter; three lines hold two windows of
two that overlap. *bash*: the product of a request and a second overflows for
most requests of five bits, as it does for large ones of 64; one child outlives
the shell and a second one is started by it. *startup*: three families of
starts, because settings, skills and sessions do not touch each other's state: a
product of them would repeat each family for every member of the others. Two
directories have every relation of names two entries can have; two callers race
for one skill or load two; two edits delete a session file and bring it back
between any two steps of `OpenSession`.

Every property of a passing run has a mutant in `PROJECT.json`: a changed
definition, kept beside the one it replaces (`..._Forgotten`, `..._OneMore`),
under which TLC finds the property violated.

Deadlock is checked in `tool_group` (a state where neither the caller nor a
worker can go on is an error unless the executor has returned). The other
instances stop when their bounded number of runs, appends or calls is over.

### Fairness

* `AgentLoop`: weak fairness of each process's own steps. A provider call
  returns an answer or an error, a tool returns, the Go scheduler runs a
  goroutine that can run. Nobody has to start, cancel or kill anything. That a
  tool returns is an assumption: `Bash` shows when bash does, and that it does
  not while a process its command left behind holds the output pipe.
* `ToolGroup`: weak fairness of the caller and of each worker. Whether a
  `select` prefers the job or the cancellation is left open.
* `SessionStore`: weak fairness of a goroutine inside `Append`, whose holder of
  the mutex or of the lock goes on. Faults, opening, closing and death are not
  fair. Weak fairness is enough for `Append` to return because calls are
  bounded; nothing is claimed of starvation under an endless supply of calls.
* `Bash`: weak fairness of the tool's own steps, of the clock and of the timer.
  The command owes nothing: it may hang, fork and write as it likes. That
  processes which hold the pipe end is a premise of `CallReturns`, not fairness.

## 4. Findings

* **Arguments that are not JSON end the run** (`malformed_arguments`). They are
  kept as `json.RawMessage` and marshalled by `Append` before a tool sees them.
  An empty argument string is of that kind too.
* **A torn line swallows the next message** (`torn_line`). After a write that
  stopped early the next message is glued to the fragment, its `Append` returns
  nil, and the session cannot be opened again.
* **`read_file` panics on large pages** (`page_overflow`). `start+limit` wraps.
* **An edit may match inside of a word** (`word_match`). The third level takes a
  newline anywhere in `old_text` as the sign that only outer blank lines are
  stripped; `" b\n"` loses its blank too and is found in `"ab"`.

Seen while modelling and not the subject of a run:

* `OpenSession` reads without the lock and may report a session as corrupt while
  a peer is writing a line (the state is in `SessionStore`).
* An identifier drawn twice opens the other session instead of failing:
  `store.go:25` has no `O_EXCL`, while `id.go:22` says it collides loudly.
  `StartKeepsHistories` shows that nothing is lost by it.
* `MissingError` (`store.go:69`) is false of exactly the error `OpenSession`
  builds for a missing session, which does not wrap `os.ErrNotExist`.
* The token cap never cuts the last user turn, which everything a run does
  belongs to: `main.go:30` calls it a hard ceiling,
  `session-management-design.md:201` says when it stops.
* The context is not looked at between the two provider phases. Results of tools
  that ran are dropped when the context ends before they are collected, and a
  resumed run does not see that they ran.
* The emergency floor of `providerView` is not reached with the window trimmer
  once the session has a user message.
* A command that succeeded is reported as timed out when a process it left behind
  holds the pipe past the deadline, or when it is looked at late (`bash.go:83`).
* Two agents editing one file undo each other's edits silently.
* An edit that is not found exactly changes every line ending of a CRLF file, not
  only those of the lines it is about (`fuzzy.go:26`).
  `2026-05-07-edit-file-tool-design.md:165` and `fuzzy_test.go:69` want it so.
* Two runs that overlap on one session and both finish leave two answers next to
  each other, and two prompts, and a third run sends them so. `window.go:9` calls
  what is sent always valid for a provider, and TODOS.md:7 says providers want
  strict alternation. Both cannot be meant of a shared session. The services'
  rules in `Providers` follow the code that prepares for them and allow
  neighbours of one role; `WireValid` asks for no two answers next to each other
  of what one run did itself.
* A think answer that asks for tools, although none were offered, is sent to the
  act phase with its calls and without results (`loop.go:119`), which both services
  refuse. The run then ends with an error, and nothing of it is stored. A service
  that never asks for tools it was not offered does not show this; `WireValid` says
  nothing of such a request. Whether a service accepts a think request, which
  declares no tools, when its history mentions some, is not modelled.
* Overlapping occurrences count as one (`fuzzy.go:55`): an edit of `aa` in `aaa`
  is made at the first of two places.
* A loaded skill whose file was changed or removed gives an error when it is
  loaded again, not "already loaded": the file is read first (`manager.go:87`).
  Skills that were loaded are not loaded again in a resumed run.
* Of two API keys the one earlier in the list wins even if it stands in `.env`
  and the other in the environment; `config.go:37` can be read either way.
* `.env` is looked for from the process's own directory, not from `--workdir`.
* `read_file` recommends an offset and a limit for a file that is too large, but
  refuses the file before it looks at them (`read_file.go:81`).
* Arguments that are JSON but not an object are stored, and every later request
  to Claude on that session fails while it is translated (`claude.go:122`).

## 5. Proofs

Proved with TLAPS for every value of the constants, from the assumptions the
modules state and TLC evaluates in the runs: `NoCallAssumption`,
`TrimConfigAssumption`, `LoopAssumption`, `CallIdAssumption`, `HistoryAssumption`
(the agent loop), `GroupAssumption`, `StoreAssumption`, `FileAssumption`,
`BashAssumption`, `ConfigAssumption`, `SkillAssumption`, `StartupAssumption`,
`TextAssumption`, `FuzzyAssumption`. They give constants their types and say that
letters are no white space and that a session file starts with what earlier runs may leave: a prompt first, no call answered twice or
before it was made, no answer that makes one call twice, and no identifier of a
run to come. Nothing is assumed of sizes: groups,
processes, goroutines, faults, windows, texts and integers are of any number or
width. In the model identifiers of calls are given once; that providers do so is
what `AnsweredOnce` rests on.

An invariant that a run checks is seldom inductive. Each proof module begins with
the strengthening, `IInv`, in named parts, has one lemma per action or per part,
and ends in `THEOREM Invariant == Spec => []IInv` and the theorems that follow.

| theorem | of | property |
|---|---|---|
| `ViewValid`, `LastTurnShown`, `CleanupIsValid`, `ViewAccepted` | `TrimProofs` | lemmas on the passes and the translation, for every history |
| `ViewAlwaysValid`, `WireAlwaysValid`, `RunLeavesNothingRunning`, `BarrierDefers`, `PromptNeverStale`, `PolicyKept`, `GroupsAreAtomic`, `ResultsInOrder`, `RunAlwaysShown`, `CallsAnsweredOnce`, `TypeCorrect` | `AgentLoopProofs` | all safety properties of `AgentLoop` but the finding |
| `ResultsInOrder`, `NoLeak`, `PoolImplements`, `TypeCorrect` | `ToolGroupProofs` | `ResultsMatchRequests`, `NoLeakedWorker`, `Implements`, `TypeOK` |
| `LinesStayIntact`, `AckedIsDurable`, `OrderIsOne`, `StoreImplements` | `SessionStoreProofs` | `LinesIntact`, `AckedDurable`, `SameOrder`, `Implements` |
| `EditsAreAtomic`, `FailureIsClean`, `ModeIsKept` | `FileToolsProofs` | `EditAllOrNothing`, `ErrorLeavesNoTrace`, `ModeKept` |
| `TimeoutIsTrue`, `OutputIsWhole`, `SuccessIsTrue` | `BashProofs` | `LateMeansLate`, `WholeOutput`, `SuccessIsReal` |
| `ConfigIsByPrecedence`, `NoSessionLeft`, `HistoriesKept`, `CatalogIsFirst`, `ToldOnce` | `StartupProofs` | `ConfigByPrecedence`, `FailedStartLeavesNoSession`, `StartKeepsHistories`, `CatalogFirstWins`, `ToldOnceInPrompt` |
| `RunesStayWhole`, `BudgetIsKept`, `PageShowsRequest` | `TextToolsProofs` | `CutsAtRunes`, `BudgetKept`, `PageIsAsked` |
| `MissesAreReal`, `UniquenessEnforced`, `NothingElseChanges` | `TextToolsProofs` | `MissIsReal`, `UniqueOrRefused`, `OnlyTheMatchChanges` |

**TrimProofs.** `CleanupIsValid`: for any history and any kept part of it,
`DefensiveCleanup` leaves a valid history. After orphans are dropped each result
follows an answer that made its call (`OrphansDropped`, by taking that answer's
position); a result is in the run of one answer only (`OneRunEach`), so dropping
dangling answers with their runs takes nothing away from another answer; and then
no history begins with a result. `ViewValid` adds the emergency floor.
`LastTurnShown`: a user turn that answers its calls survives the window
(`WindowKeepsTurn`), the cap (`CapKeepsTurn`: it drops what is before a user
message only) and the cleanup (`CleanupKeepsTurn`: nothing in it is an orphan or
dangling). `MaxIsGreatest` and `MinIsLeast` prove of the library's `Max` and `Min`
what their definitions by CHOOSE leave open, from the well-foundedness of strict
inclusion on finite sets. `ViewAccepted`: every pass keeps a user message at the
head of what it keeps (`ViewStartsWithUser`), so what is sent begins with one;
`SlicePaired` says of the sequence that is sent what `ProviderValid` says of the
kept positions; and since an answer's results follow it in one run, they are the
replies OpenAI counts (`OpenAIAcceptsPaired`), and the head of the turn behind
the answer's, where Anthropic looks for them (`TurnNumbers`,
`AnthropicAcceptsPaired`). The numbers of calls and results agree because both
are in one-to-one correspondence with the identifiers.

**ToolGroupProofs.** The invariant is `TypeOK` with `CallerInv` (what the caller's
position says of `next`, `jobsClosed`, the results), `PoolInv` (which worker
phases are possible when), `RunningInv` (begun and not ended is what the workers
hold), `ResultInv`: every dispatched call is accounted for in exactly the place it
has got to, a worker, the channel or the results. Without the last, that results
are complete when the channel is drained does not follow. `PoolImplements` adds
`PathInv` and maps each step to one of `OrderedExecution` or a stutter: a worker's
start is the abstract `Begin`, for which a worker less than the cap must be
running (a count of the busy workers), and the caller's return is the abstract
one.

**AgentLoopProofs.** The core invariant is `TypeOK` with `ControlInv` (the
counters at each `pc`), `PromptInv` (past its first step a run has a user message
in memory, which `ViewValid` needs), `ToolInv` (tools run only in the current
group, and only at `running`), `SkillInv` (an answer with `load_skill` never
reaches the groups, and the prompt differs from the loaded skills only until its
last result is stored). Four more are proved on top of it. They speak of one
process each, and `OthersUntouched` says that a step of one does not change what
they say of another, except through the file:

* `SchedInv`, no more tools run than the group has workers; `WorkersWithinCaps`
  bounds those by every cap in the group. From it `ScheduledByPolicy`.
* `BoundaryInv`, between groups the answered calls end at a boundary, which is
  where `GroupEndsAtBoundary` says a group ends. From it `CancelKeepsWholeGroups`.
* `OwnInv`, what a run has stored is one user turn: its prompt, then answers with
  all their results in order, the current one with `answered` of them. From it
  `ObservationsInOrder`, and with `LastTurnShown` also `OwnTurnInView`.
* `IdInv`, of the identifiers of a run that is at work the file answers only those
  it is past, no two runs at work have one number, and results in the file carry
  numbers of runs that were started. From it `AnsweredOnce`.
* `WireInv`, file and memories begin with a prompt, no answer makes a call twice,
  a memory has one result of a call, and all of it is in the file. These are the
  premises of `ViewAccepted`; from it `WireValid`.
* `ThoughtInv`, in the act phase there is at most one think answer, and in any
  other none. `ViewAccepted` allows one without calls behind the view
  (`PairedWithThought`): it follows the last results and asks for none. `OwnApart`
  is that answers of the run's own turn do not stand next to each other: each but
  the last is followed by a result, since one without calls ends the run.

**SessionStoreProofs.** `LockInv` is mutual exclusion: whoever is past `mu.Lock`
holds the mutex, whoever writes the file lock too, and its session is open, so
that neither `Close` nor the death of another process takes it away. `PieceInv`:
a piece is in the file once, written by a call that got that far. `TailInv`: the
message being written is the end of the file, an acknowledged one the end of a
terminated line; this is what survives writes that stop early, and `AckedDurable`
follows with `PieceInv`. `LineInv` is the same without faults, for whole lines.
`OrderInv`: the message a goroutine is about to remember is the last one of its
session in the file; it holds because the mutex spans write and memory, and
remembering it keeps `SameOrder`. `MemInv` and `LogInv` are for the refinement:
the log is the last pieces by rank, and `InOrderGrows` and `LogGrows` show that a
piece written at the end adds one rank and keeps the others. `StepImplements`
then maps writing a last piece to the log's growth, opening to taking the
log over (`ReadsWritten`), `Remember` to the abstract one, and all else
to a stutter. `ReadsWritten` needs that each line that parses is one message, so
that what the code reads is what the log has.

**FileToolsProofs.** `NameInv`: the path names an inode of an edit only when that
edit succeeded; what may be named after a loss of power (`past`) is no edit's file that
is still being made, and what is about to be renamed is synced. `ContentInv`: of
every such file each edit shows wholly or not at all, wholly only if it succeeded,
and a file that is not synced shows none, so tearing it tears no edit; the same of
what an edit holds in memory and in its temporary file, but for its own edits.
Another agent's `write_file` through an old descriptor is why it speaks of all of
`past`, not of the path alone. `CallInv` ties calls to agents and temporary
files, `ModeInv` gives every file the path ever named the mode to keep.

**BashProofs.** `TimeInv`: past the first step the deadline is the granted time,
which the product with a second does not overflow once it is capped (`WrapFits`,
`SecondsOrder`), and the context ends by the deadline only at or after it.
`ProcessInv`: behind the reading end nobody holds the pipe. `ReportInv`: what is
known of the shell once it is waited for.

**StartupProofs.** `SkillInv` is the catalogue's: as long as nobody edits, after
each entry it has exactly the first usable entry of each name so far, in lexical
order; what is loaded comes from it, once each; who waits to insert holds a file
with the name it wants. `MainInv` says no file is made before all that can fail is
over, and that settings are what `LoadConfig` found. `StartKeepsHistories` is an
action property, proved step by step from it.

**TextToolsProofs, cuts and pages.** `HeadCut` and `TailCut`: the two cuts are at a
rune's start, within the half they are for, and lose at most three bytes;
`NoWrap`: the page arithmetic does not wrap under the condition `PageIsAsked`
states, for integers of any width.

**TextToolsProofs, edits.** The invariant of the one step is `EditInv`: what was
tried is `FuzzyReplace` of the file and the edit as they still are. The work is in
what `FuzzyReplace` computes, for texts of any length. The induction theorems of
the library take an operator as a parameter; `NatInduct` and `SeqInduct` say the
same with sets, as facts about one set of numbers or of sequences. A function
over a text is computed step by step (`FoldDef`, `ConcatAppend`, `LinesAppend`,
`NormAppend`), lines and text are each other's inverse (`JoinOfLines`,
`LinesOfJoin`), and `TrimSpace` and CRLF leave a line's ink alone.

* `TakenIsMost`, `MostIsTaken`: the search from the left, which goes on behind
  each place it took, takes as many as there are side by side. Each place of any
  other choice overlaps a place taken at or before it, and no two the same one.
* `MissHolds`, for `MissIsReal`: each level that found nothing had nothing to
  find. A part of whole lines is a window of the lines (`WholeLinesSplit`,
  `WindowOfLines`), also after the endings were changed (`NormLines`).
* `UniqueHolds`, for `UniqueOrRefused`: the level that decided (`Deciding`)
  counted `MostApart` places. That each of them is replaced once is a matter of
  weight: `SpliceWeight` adds up what replacing at disjoint places does to any
  quantity that is a sum over the parts, by taking the last place off
  (`LastSplice`). `TextsReplaced` uses it with the ink of characters,
  `LinesReplaced` with the ink of lines.
* `OnlyHolds`, for `OnlyTheMatchChanges`: one place splits the text in three
  (`OneSplice`); lines that are replaced are whole lines of the text
  (`LinesAreWithin`), and `ReindentFacts` says where re-indented lines begin. That
  is about the text a level looked at. `NormCleft` carries it over to the file: a
  text can be cut wherever it can be cut with its line endings normalized, so the
  three parts are those of three parts of the file (`WrittenParts`).

**Only model-checked.** Liveness (`Terminates`, `Returns`, `AppendReturns`,
`CallReturns`), which the prover cannot handle under fairness. The four violated
properties are counterexamples. Everything else a run checks is proved. No module
declares a recursive operator: what goes through a sequence is a recursive
function.

## 6. What is left out

* Text: contents are lengths, arguments are absent, tool output is one length.
  `BudgetKept` and `CutsAtRunes` are about valid UTF-8; the code takes any bytes.
* `AgentLoop` begins with a prompt that is not empty; `Startup` has its refusal.
  `main` passes a context nobody cancels; the models cancel it, since `Run` takes
  one.
* A failing `Close` or unlock, `os.Remove` of the temporary file failing,
  symbolic links under `edit_file`, a file that is deleted by somebody else.
* `readAllMessages` is one step. Loss of power does not reach the session file:
  it is never synced, so anything unsynced may go, and nothing promises more.
* After a loss of power a file that was not synced has a prefix of what was
  written to it, never older content. Its mode is assumed to last: `Chmod`
  (`atomic_write.go:51`) comes behind the `Sync` of line 43, and `FileTools` takes
  it that a rename which lasts brings along what was done to the file's metadata
  before it. Nobody but an edit changes a mode in the model, so `ModeKept` is about
  the temporary file's mode and other edits', not about a `chmod` by somebody else.
* A temporary file an agent leaves when it dies stays; nothing removes it.
* In `FuzzyReplace` a tab is a blank: two lines indented by different mixtures
  of tabs and spaces are not told apart. White space outside ASCII is left out.
* In `Bash` the shell is one process; what it does with signals of its own, and
  truncation of what is returned, are left out (`TextLimits` has the latter).
* Skill documents and `.env` files are what their parsers tell apart; the lines
  they are parsed from are left out. The list of skipped skills has no reader.
* Schemas of tools, the network, retries inside of the vendors' libraries and the
  decoding of answers. A request that is accepted may still fail: the loop's
  model has that as an error.
* `read_file` up to the text it pages through; the path check (stateless
  comparison of path strings); reporters (output only); Windows (no locking
  there); `server.go` (prints a line). See the components in `PROJECT.json`.

## 7. Plan

Written so far, in this order: Conversation, WindowTrimmer, AgentLoop,
OrderedExecution, ToolGroup, MessageLog, SessionStore, FileTools, TextLimits,
FuzzyReplace, Bash, ProviderConfig, SkillManager, Startup, Providers.

Proved so far: every safety property of a passing run, and both refinements.

Next: `AtomicFile`, abstract, a file whose content is replaced as a whole, which
`edit_file` implements, proved from `EditsAreAtomic`; the arguments of calls in
`Providers`, with what Claude's translation makes of those that are no objects.
