-------------------------------- MODULE Bash --------------------------------
(***************************************************************************)
(* One call of the bash tool (internal/tools/bash.go): a shell is started  *)
(* under a deadline and killed when that or the caller's context ends; the *)
(* tool returns when the shell is gone and nobody holds the pipe its       *)
(* output goes through, and says what happened.                            *)
(*                                                                         *)
(* Only the shell is killed.  Processes it started live on, and those that *)
(* inherited the pipe keep it open.  Time passes in steps of a second; the *)
(* timer may fire late.                                                    *)
(***************************************************************************)
EXTENDS Integers, FiniteSetsExt

CONSTANTS
  Children,        \* processes the command may start that inherit the pipe
  DefaultTimeout,  \* 30 seconds in the code
  MaxTimeout,      \* 600 seconds
  Second,          \* a second in units of time.Duration
  IntMin, IntMax,  \* the machine's integers
  MaxChunks,       \* bound: how often the command writes
  MaxClock         \* bound: seconds that are told apart

ASSUME BashAssumption ==
  /\ {DefaultTimeout, MaxTimeout, Second} \subseteq Nat \ {0}
  /\ DefaultTimeout <= MaxTimeout
  /\ IntMin \in Int /\ IntMax \in Nat /\ IntMin = -IntMax - 1
  /\ MaxTimeout * Second <= IntMax
  /\ MaxChunks \in Nat /\ MaxClock \in Nat /\ MaxClock > MaxTimeout

VARIABLES
  request,    \* timeout_s
  pc,         \* where Execute and CombinedOutput are
  clock,      \* seconds since the deadline was set
  deadline,   \* when timeoutCtx ends, in units of Duration
  ctx,        \* timeoutCtx: "live", "deadline" or "cancelled", whichever came first
  cancelAt,   \* when the caller's context was cancelled, or MaxClock + 1
  shell,      \* the shell: "none", "running", "succeeded", "failed", "killed"
  failed,     \* whether CombinedOutput has an error to return
  holders,    \* children that hold the pipe
  born,       \* children there were
  written, collected,  \* chunks written to the pipe, and read from it
  outcome     \* what Execute returned

timeVars == <<clock, deadline, ctx, cancelAt>>
procVars == <<shell, holders, born>>
pipeVars == <<written, collected>>
vars == <<request, pc, timeVars, procVars, pipeVars, failed, outcome>>

Wrap(n) == ((n - IntMin) % (IntMax - IntMin + 1)) + IntMin
Never == MaxClock + 1

Init ==
  /\ request \in IntMin..IntMax
  /\ pc = "called" /\ clock = 0 /\ deadline = 0 /\ ctx = "live" /\ cancelAt = Never
  /\ shell = "none" /\ failed = FALSE /\ holders = {} /\ born = {}
  /\ written = 0 /\ collected = 0 /\ outcome = "none"

\* Mutant: the limit is applied to the product.
Timeout_CapsProduct ==
  IF request <= 0 THEN DefaultTimeout * Second
  ELSE Min({Wrap(request * Second), MaxTimeout * Second})

\* "Cap before Duration multiplication to prevent int64 overflow" (bash.go:64).
Timeout ==
  IF request <= 0 THEN DefaultTimeout * Second
  ELSE Wrap(Min({request, MaxTimeout}) * Second)

\* The shell starts, or cannot be started, as when the context is cancelled.
Start ==
  /\ pc = "called"
  /\ deadline' = Timeout
  /\ \/ ctx = "live" /\ shell' = "running" /\ pc' = "running" /\ UNCHANGED failed
     \/ failed' = TRUE /\ pc' = "returned" /\ UNCHANGED shell
  /\ UNCHANGED <<request, clock, ctx, cancelAt, holders, born, pipeVars, outcome>>

-----------------------------------------------------------------------------
(* The command.                                                            *)

\* Processes that have the writing end of the pipe.
PipeOpen == shell = "running" \/ holders # {}

WriteChunk ==
  /\ PipeOpen /\ written < MaxChunks
  /\ written' = written + 1
  /\ UNCHANGED <<request, pc, timeVars, procVars, collected, failed, outcome>>

Spawn ==
  /\ PipeOpen
  /\ \E c \in Children \ born : born' = born \cup {c} /\ holders' = holders \cup {c}
  /\ UNCHANGED <<request, pc, timeVars, shell, pipeVars, failed, outcome>>

ChildEnds ==
  /\ \E c \in holders : holders' = holders \ {c}
  /\ UNCHANGED <<request, pc, timeVars, shell, born, pipeVars, failed, outcome>>

ShellEnds ==
  /\ shell = "running" /\ shell' \in {"succeeded", "failed"}
  /\ UNCHANGED <<request, pc, timeVars, holders, born, pipeVars, failed, outcome>>

-----------------------------------------------------------------------------
(* Time, and the caller's context.                                         *)

Tick ==
  /\ pc \notin {"called", "done"} /\ clock < MaxClock /\ clock' = clock + 1
  /\ UNCHANGED <<request, pc, deadline, ctx, cancelAt, procVars, pipeVars, failed, outcome>>

Expire ==
  /\ pc \notin {"called", "done"} /\ ctx = "live" /\ clock * Second >= deadline
  /\ ctx' = "deadline"
  /\ UNCHANGED <<request, pc, clock, deadline, cancelAt, procVars, pipeVars, failed, outcome>>

Cancel ==
  /\ outcome = "none" /\ cancelAt = Never
  /\ cancelAt' = clock
  /\ ctx' = IF ctx = "live" THEN "cancelled" ELSE ctx
  /\ UNCHANGED <<request, pc, clock, deadline, procVars, pipeVars, failed, outcome>>

-----------------------------------------------------------------------------
(* CombinedOutput.                                                         *)

\* Mutant: only the deadline kills the shell.
MustKill_Deadline == ctx = "deadline"

MustKill == ctx # "live"

Kill ==
  /\ pc = "running" /\ MustKill /\ shell = "running"
  /\ shell' = "killed"
  /\ UNCHANGED <<request, pc, timeVars, holders, born, pipeVars, failed, outcome>>

\* The shell is waited for.  When the context ended as well, the shell may have
\* been sent its signal after it ended, and that counts as an error.
Reap ==
  /\ pc = "running" /\ shell # "running"
  /\ pc' = "reading"
  /\ \/ failed' = (shell # "succeeded")
     \/ ctx # "live" /\ failed' = TRUE
  /\ UNCHANGED <<request, timeVars, procVars, pipeVars, outcome>>

Copy ==
  /\ pc \in {"running", "reading"} /\ collected < written
  /\ collected' = collected + 1
  /\ UNCHANGED <<request, pc, timeVars, procVars, written, failed, outcome>>

\* Mutant: what children may still write is not waited for.
AtEOF_ShellOnly == collected = written

AtEOF == ~PipeOpen /\ collected = written

\* There is no WaitDelay: the pipe is read to its end, whatever the context says.
ReadToEnd ==
  /\ pc = "reading" /\ AtEOF
  /\ pc' = "returned"
  /\ UNCHANGED <<request, timeVars, procVars, pipeVars, failed, outcome>>

TimedOut == ctx = "deadline"

\* Mutant: output is taken for success.
Succeeded_IfOutput == ~failed \/ collected > 0

Succeeded == ~failed

\* Whether the command was too slow is asked of the context, now.
Report ==
  /\ pc = "returned"
  /\ pc' = "done"
  /\ outcome' = IF TimedOut THEN "timedOut"
                ELSE IF ~Succeeded THEN "executionError"
                ELSE IF collected = 0 THEN "noOutput" ELSE "output"
  /\ UNCHANGED <<request, timeVars, procVars, pipeVars, failed>>

Tool == Start \/ Kill \/ Reap \/ Copy \/ ReadToEnd \/ Report
Command == WriteChunk \/ Spawn \/ ChildEnds \/ ShellEnds
Next == Tool \/ Command \/ Tick \/ Expire \/ Cancel

Spec == Init /\ [][Next]_vars

\* The tool's goroutines run, time passes and the timer fires.  The command
\* need not do anything, nor the caller.
FairSpec == Spec /\ WF_vars(Start) /\ WF_vars(Kill) /\ WF_vars(Reap) /\ WF_vars(Copy)
                 /\ WF_vars(ReadToEnd) /\ WF_vars(Report) /\ WF_vars(Tick) /\ WF_vars(Expire)

-----------------------------------------------------------------------------
(* Properties.                                                             *)

\* The seconds a request is entitled to: "default 30, max 600" (bash.go:40).
Granted ==
  IF request <= 0 THEN DefaultTimeout
  ELSE IF request < MaxTimeout THEN request ELSE MaxTimeout

\* A command is reported as too slow only after the time it was entitled to,
\* whatever integer the model asked for, and never when the caller's context
\* was cancelled before that.
LateMeansLate == outcome = "timedOut" => clock >= Granted /\ cancelAt >= Granted

\* "pass the combined error + output back to the model" (bash.go:88): what is
\* returned is all the shell and the processes that share its pipe ever wrote
\* up to then, and none of them can write any more.
WholeOutput == outcome # "none" => collected = written /\ ~PipeOpen

\* A command is reported as successful only when the shell ended by itself with
\* status zero; "command finished with no output" only if nothing was written.
SuccessIsReal ==
  /\ outcome \in {"output", "noOutput"} => shell = "succeeded"
  /\ outcome = "noOutput" => written = 0

\* The call returns, unless from some point on some process that inherited the
\* pipe never ends: a shell that hangs is killed at the deadline, or as soon as
\* the caller's context is cancelled.
CallReturns == <>[](holders = {}) => <>(outcome # "none")
=============================================================================
