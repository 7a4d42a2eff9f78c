----------------------------- MODULE ToolGroup ------------------------------
(***************************************************************************)
(* The executor of one group of tool calls (executeToolCallGroup in        *)
(* internal/engine/tool_execution.go): a pool of goroutines fed over an    *)
(* unbuffered channel, their results collected over a buffered one, and a  *)
(* context that may be cancelled at any moment.  A group of one call is    *)
(* executed by the caller itself.                                          *)
(*                                                                         *)
(* Calls are their indices in the group, from 1.  A tool's output is       *)
(* identified with the call that was executed to get it.                   *)
(***************************************************************************)
EXTENDS Integers, Sequences, FiniteSets, FiniteSetsExt

CONSTANTS
  MaxCalls,  \* bound: calls in a group
  Limits     \* caps toolGroupLimit may compute; not positive means no cap

ASSUME GroupAssumption == MaxCalls \in Nat /\ Limits \subseteq Int

VARIABLES
  size,        \* argument: the number of calls in the group
  limit,       \* argument: the cap
  main,        \* where the caller is
  next,        \* the call to dispatch next
  jobsClosed,  \* close(jobs) was called
  phase,       \* where each worker is
  job,         \* the call each worker holds, or 0
  resultCh,    \* buffer of the result channel
  results,     \* the slice to return: per call, the call whose output it holds, or 0
  begun,       \* calls handed to whoever executes them
  ended,       \* calls whose tool has returned
  cancelled,   \* ctx.Err() # nil
  outcome      \* what the executor returned: "none" so far

args == <<size, limit>>
workerVars == <<phase, job>>
callVars == <<begun, ended>>
vars == <<size, limit, main, next, jobsClosed, phase, job, resultCh, results, begun, ended,
          cancelled, outcome>>

Calls == 1..size

\* Mutant: the cap is ignored.
WorkerCount_Uncapped == size

\* boundedWorkerCount.
WorkerCount == IF limit <= 0 \/ limit > size THEN size ELSE limit

\* The goroutines of the pool; a group of one call or none has no pool.
Workers == IF size <= 1 THEN {} ELSE 1..WorkerCount

Init ==
  /\ size \in 0..MaxCalls /\ limit \in Limits
  /\ main = IF size = 0 THEN "empty" ELSE IF size = 1 THEN "direct" ELSE "dispatch"
  /\ next = 1
  /\ jobsClosed = FALSE
  /\ phase = [w \in Workers |-> "idle"]
  /\ job = [w \in Workers |-> 0]
  /\ resultCh = <<>>
  /\ results = [i \in Calls |-> 0]
  /\ begun = {} /\ ended = {}
  /\ cancelled \in BOOLEAN
  /\ outcome = "none"

Return(what) == main' = "returned" /\ outcome' = what

-----------------------------------------------------------------------------
(* The caller.                                                             *)

\* No calls: nil results, whatever the context.
ReturnEmpty ==
  /\ main = "empty"
  /\ Return("results")
  /\ UNCHANGED <<args, next, jobsClosed, workerVars, resultCh, results, callVars, cancelled>>

\* One call: no worker, and no look at the context before it.
DirectBegin ==
  /\ main = "direct"
  /\ main' = "directRunning"
  /\ begun' = {1}
  /\ UNCHANGED <<args, next, jobsClosed, workerVars, resultCh, results, ended, cancelled, outcome>>

DirectEnd ==
  /\ main = "directRunning"
  /\ main' = "check"
  /\ ended' = {1}
  /\ results' = [results EXCEPT ![1] = 1]
  /\ UNCHANGED <<args, next, jobsClosed, workerVars, resultCh, begun, cancelled, outcome>>

\* Mutant: the dispatch loop runs once too often.
MoreCalls_OneMore == next \in 1..(size + 1)

MoreCalls == next \in Calls

\* jobs <- call: an idle worker takes it.  When the context is done as well,
\* select may still choose this branch.
Dispatch(w) ==
  /\ main = "dispatch" /\ MoreCalls /\ phase[w] = "idle"
  /\ phase' = [phase EXCEPT ![w] = "running"]
  /\ job' = [job EXCEPT ![w] = next]
  /\ begun' = begun \cup {next}
  /\ next' = next + 1
  /\ UNCHANGED <<args, main, jobsClosed, resultCh, results, ended, cancelled, outcome>>

\* <-ctx.Done(): no more jobs.
StopDispatching ==
  /\ main = "dispatch" /\ MoreCalls /\ cancelled
  /\ main' = "abort"
  /\ jobsClosed' = TRUE
  /\ UNCHANGED <<args, next, workerVars, resultCh, results, callVars, cancelled, outcome>>

\* Mutant: jobs is closed only on the cancellation path.
AllDispatched_LeavesJobsOpen ==
  /\ main = "dispatch" /\ ~MoreCalls
  /\ main' = "join"
  /\ UNCHANGED <<args, next, jobsClosed, workerVars, resultCh, results, callVars, cancelled, outcome>>

AllDispatched ==
  /\ main = "dispatch" /\ ~MoreCalls
  /\ main' = "join"
  /\ jobsClosed' = TRUE
  /\ UNCHANGED <<args, next, workerVars, resultCh, results, callVars, cancelled, outcome>>

\* wg.Wait returns: every worker has gone.
Joined == \A w \in Workers : phase[w] = "exited"

\* Mutant: a cancelled dispatch does not wait for the workers.
ReturnAborted_NoWait ==
  /\ main = "abort"
  /\ Return("cancelled")
  /\ UNCHANGED <<args, next, jobsClosed, workerVars, resultCh, results, callVars, cancelled>>

ReturnAborted ==
  /\ main = "abort" /\ Joined
  /\ Return("cancelled")
  /\ UNCHANGED <<args, next, jobsClosed, workerVars, resultCh, results, callVars, cancelled>>

JoinWorkers ==
  /\ main = "join" /\ Joined
  /\ main' = "drain"
  /\ UNCHANGED <<args, next, jobsClosed, workerVars, resultCh, results, callVars, cancelled, outcome>>

\* One item of the closed result channel is put where its index says.
Drain ==
  /\ main = "drain" /\ resultCh # <<>>
  /\ results' = [results EXCEPT ![Head(resultCh).index] = Head(resultCh).call]
  /\ resultCh' = Tail(resultCh)
  /\ UNCHANGED <<args, main, next, jobsClosed, phase, job, begun, ended, cancelled, outcome>>

Drained ==
  /\ main = "drain" /\ resultCh = <<>>
  /\ main' = "check"
  /\ UNCHANGED <<args, next, jobsClosed, workerVars, resultCh, results, callVars, cancelled, outcome>>

ReturnChecked ==
  /\ main = "check"
  /\ Return(IF cancelled THEN "cancelled" ELSE "results")
  /\ UNCHANGED <<args, next, jobsClosed, workerVars, resultCh, results, callVars, cancelled>>

Caller ==
  \/ ReturnEmpty \/ DirectBegin \/ DirectEnd
  \/ (\E w \in Workers : Dispatch(w)) \/ StopDispatching \/ AllDispatched
  \/ ReturnAborted \/ JoinWorkers \/ Drain \/ Drained \/ ReturnChecked

-----------------------------------------------------------------------------
(* A worker: for job := range jobs { resultCh <- execute(job) }.           *)

ToolReturns(w) ==
  /\ phase[w] = "running"
  /\ phase' = [phase EXCEPT ![w] = "sending"]
  /\ ended' = ended \cup {job[w]}
  /\ UNCHANGED <<args, main, next, jobsClosed, job, resultCh, results, begun, cancelled, outcome>>

\* The channel's buffer has room for as many results as there are calls.
ResultCapacity == size

\* Mutant: the index is read from the loop variable when the result is sent.
ItemOf_SharedIndex(w) == [index |-> next - 1, call |-> job[w]]

ItemOf(w) == [index |-> job[w], call |-> job[w]]

Send(w) ==
  /\ phase[w] = "sending" /\ Len(resultCh) < ResultCapacity
  /\ resultCh' = Append(resultCh, ItemOf(w))
  /\ phase' = [phase EXCEPT ![w] = "idle"]
  /\ job' = [job EXCEPT ![w] = 0]
  /\ UNCHANGED <<args, main, next, jobsClosed, results, callVars, cancelled, outcome>>

\* The channel is closed and empty (it has no buffer): the range loop ends.
Exit(w) ==
  /\ phase[w] = "idle" /\ jobsClosed
  /\ phase' = [phase EXCEPT ![w] = "exited"]
  /\ UNCHANGED <<args, main, next, jobsClosed, job, resultCh, results, callVars, cancelled, outcome>>

Worker(w) == w \in Workers /\ (ToolReturns(w) \/ Send(w) \/ Exit(w))

-----------------------------------------------------------------------------

Cancel ==
  /\ ~cancelled
  /\ cancelled' = TRUE
  /\ UNCHANGED <<args, main, next, jobsClosed, workerVars, resultCh, results, callVars, outcome>>

\* The executor has returned; nothing is left to happen.
Finished == main = "returned" /\ Joined /\ cancelled /\ UNCHANGED vars

Next == Caller \/ (\E w \in 1..MaxCalls : Worker(w)) \/ Cancel \/ Finished

Spec == Init /\ [][Next]_vars

\* The scheduler runs every goroutine that can run, and a tool returns.
FairSpec == Spec /\ WF_vars(Caller) /\ \A w \in 1..MaxCalls : WF_vars(Worker(w))

-----------------------------------------------------------------------------
(* Properties.                                                             *)

Item == [index : Calls, call : Calls]

\* Every variable has its type, and indices stay within the group.
TypeOK ==
  /\ size \in 0..MaxCalls /\ limit \in Limits
  /\ main \in {"empty", "direct", "directRunning", "dispatch", "abort", "join", "drain",
                "check", "returned"}
  /\ next \in 1..(size + 1)
  /\ jobsClosed \in BOOLEAN
  /\ phase \in [Workers -> {"idle", "running", "sending", "exited"}]
  /\ job \in [Workers -> 0..size]
  /\ resultCh \in Seq(Item)
  /\ results \in [Calls -> 0..size]
  /\ begun \in SUBSET Calls /\ ended \in SUBSET Calls
  /\ cancelled \in BOOLEAN
  /\ outcome \in {"none", "results", "cancelled"}

\* Results are returned in the order of the requests, each with the output of
\* its own call, whatever order the tools finished in.
ResultsMatchRequests == outcome = "results" => \A i \in Calls : results[i] = i

\* When the executor has returned no goroutine of the pool is left and no tool
\* is still running.
NoLeakedWorker == outcome # "none" => Joined /\ begun = ended

\* The pool does what OrderedExecution says: calls begin in order, within the
\* cap, once each, and the group returns everything or the cancellation.
OE == INSTANCE OrderedExecution
Implements == OE!Spec

\* The executor returns, cancelled or not.
Returns == <>(main = "returned")
=============================================================================
