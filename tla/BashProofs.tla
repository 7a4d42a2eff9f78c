----------------------------- MODULE BashProofs -----------------------------
(***************************************************************************)
(* Proofs about Bash, for every width of the integers, every pair of       *)
(* limits, and a command of any number of processes.                       *)
(***************************************************************************)
EXTENDS Bash, TLAPS

TypeOK ==
  /\ request \in IntMin..IntMax
  /\ pc \in {"called", "running", "reading", "returned", "done"}
  /\ clock \in 0..MaxClock /\ cancelAt \in 0..Never
  /\ deadline \in Int /\ ctx \in {"live", "deadline", "cancelled"}
  /\ shell \in {"none", "running", "succeeded", "failed", "killed"}
  /\ failed \in BOOLEAN
  /\ holders \subseteq born /\ born \subseteq Children
  /\ written \in 0..MaxChunks /\ collected \in 0..written
  /\ outcome \in {"none", "timedOut", "executionError", "noOutput", "output"}

-----------------------------------------------------------------------------
(* The inductive invariant.                                                *)

\* Once the call has started its deadline is the granted time, and nothing
\* ends the context by the deadline, or later by anything else, before that.
TimeInv ==
  /\ pc # "called" => deadline = Granted * Second
  /\ pc = "called" => ctx # "deadline"
  /\ ctx = "live" => cancelAt = Never
  /\ ctx = "deadline" => clock >= Granted /\ cancelAt >= Granted

\* Before the shell there is no process, and behind the reading end none.
ProcessInv ==
  /\ pc = "called" => shell = "none"
  /\ shell = "none" => pc \in {"called", "returned", "done"} /\ holders = {} /\ written = 0
  /\ pc \in {"reading", "returned", "done"} => shell # "running"
  /\ pc \in {"returned", "done"} => holders = {} /\ collected = written

\* What is known of the shell when it is waited for, and what is reported.
ReportInv ==
  /\ pc \in {"reading", "returned", "done"} /\ ~failed => shell = "succeeded"
  /\ outcome # "none" => pc = "done"
  /\ outcome \in {"output", "noOutput"} => ~failed
  /\ outcome = "noOutput" => collected = 0
  /\ outcome = "timedOut" => ctx = "deadline"

IInv == TypeOK /\ TimeInv /\ ProcessInv /\ ReportInv
-----------------------------------------------------------------------------
(* Arithmetic of the deadline.                                             *)

\* A value in the range of the integers is not changed by wrapping around.
LEMMA WrapFits == ASSUME NEW n \in IntMin..IntMax PROVE Wrap(n) = n
  <1>1. /\ IntMin \in Int /\ IntMax \in Nat /\ IntMin = -IntMax - 1 /\ n \in Int
        /\ n - IntMin >= 0 /\ n - IntMin < IntMax - IntMin + 1
    BY BashAssumption
  <1>2. (n - IntMin) % (IntMax - IntMin + 1) = n - IntMin
    BY <1>1
  <1> QED BY <1>1, <1>2 DEF Wrap

\* Multiplication by a second keeps the order, in both directions.
LEMMA SecondsOrder ==
  ASSUME NEW a \in Nat, NEW b \in Nat
  PROVE  /\ a <= b => a * Second <= b * Second
         /\ a * Second >= b * Second => a >= b
  <1>1. Second \in Nat /\ Second >= 1
    BY BashAssumption
  <1>2. ASSUME NEW d \in Nat PROVE (a + d) * Second = a * Second + d * Second
    BY <1>1
  <1>3. ASSUME NEW d \in Nat PROVE (b + d) * Second = b * Second + d * Second
    BY <1>1
  <1>4. ASSUME NEW d \in Nat PROVE d * Second \in Nat
    BY <1>1
  <1>5. ASSUME NEW d \in Nat, d >= 1 PROVE d * Second >= 1
    <2>1. (d - 1) * Second \in Nat /\ d * Second = (d - 1) * Second + Second
      BY <1>1, <1>5
    <2> QED BY <1>1, <2>1
  <1>6. ASSUME a <= b PROVE a * Second <= b * Second
    <2>1. b - a \in Nat /\ a + (b - a) = b
      BY <1>6
    <2>2. b * Second = a * Second + (b - a) * Second
      BY <1>2, <2>1
    <2> QED BY <1>4, <2>1, <2>2
  <1>7. ASSUME a < b PROVE a * Second < b * Second
    <2>1. b - a \in Nat /\ b - a >= 1 /\ a + (b - a) = b
      BY <1>7
    <2>2. b * Second = a * Second + (b - a) * Second
      BY <1>2, <2>1
    <2>3. (b - a) * Second >= 1 /\ (b - a) * Second \in Nat /\ a * Second \in Nat
      BY <1>4, <1>5, <2>1
    <2> QED BY <2>2, <2>3
  <1>8. a * Second \in Nat /\ b * Second \in Nat
    BY <1>4
  <1> QED BY <1>6, <1>7, <1>8

LEMMA GrantedType ==
  ASSUME TypeOK PROVE Granted \in 0..MaxTimeout
  BY BashAssumption DEF TypeOK, Granted

\* The request is capped before it is multiplied, so the product is exact.
LEMMA TimeoutIsGranted == ASSUME TypeOK PROVE Timeout = Granted * Second
  <1>1. request \in Int /\ MaxTimeout \in Nat /\ Second \in Nat
    BY BashAssumption DEF TypeOK
  <1>2. CASE request <= 0
    BY <1>2 DEF Timeout, Granted
  <1>3. CASE request > 0
    <2>1. Min({request, MaxTimeout}) = Granted
      BY <1>1, <1>3 DEF Min, Granted
    <2>2. Granted * Second <= MaxTimeout * Second
      BY <1>1, GrantedType, SecondsOrder
    <2>3. Granted * Second \in Nat
      BY <1>1, GrantedType
    <2>4. Granted * Second \in IntMin..IntMax
      BY <1>1, <2>2, <2>3, BashAssumption
    <2> QED BY <1>1, <1>3, <2>1, <2>4, WrapFits DEF Timeout
  <1> QED BY <1>1, <1>2, <1>3
-----------------------------------------------------------------------------
LEMMA InitInv == Init => IInv
  <1> SUFFICES ASSUME Init PROVE IInv OBVIOUS
  <1>1. TypeOK
    <2>1. MaxClock \in Nat /\ MaxChunks \in Nat
      BY BashAssumption
    <2>2. clock \in 0..MaxClock /\ cancelAt \in 0..Never /\ deadline \in Int
      BY <2>1 DEF Init, Never
    <2>3. holders \subseteq born /\ born \subseteq Children
      BY DEF Init
    <2>4. written \in 0..MaxChunks /\ collected \in 0..written
      BY <2>1 DEF Init
    <2> QED BY <2>2, <2>3, <2>4 DEF Init, TypeOK
  <1> QED BY <1>1 DEF Init, IInv, TimeInv, ProcessInv, ReportInv

\* The tool's steps.
LEMMA ToolInv == ASSUME IInv, Tool PROVE IInv'
  <1> USE DEF IInv, timeVars, procVars, pipeVars
  <1>1. CASE Start
    <2> USE <1>1 DEF Start
    <2>1. TypeOK'
      <3>1. Granted * Second \in Int
        BY GrantedType, BashAssumption
      <3> QED BY <3>1, TimeoutIsGranted DEF TypeOK
    <2>2. TimeInv'
      BY TimeoutIsGranted DEF TimeInv, Granted
    <2>3. ProcessInv'
      BY DEF TypeOK, ProcessInv
    <2>4. ReportInv'
      BY DEF ProcessInv, ReportInv
    <2> QED BY <2>1, <2>2, <2>3, <2>4
  <1>2. CASE Kill
    BY <1>2 DEF Kill, TypeOK, TimeInv, Granted, ProcessInv, ReportInv
  <1>3. CASE Reap
    BY <1>3 DEF Reap, TypeOK, TimeInv, Granted, ProcessInv, ReportInv
  <1>4. CASE Copy
    BY <1>4, BashAssumption DEF Copy, TypeOK, TimeInv, Granted, ProcessInv, ReportInv
  <1>5. CASE ReadToEnd
    BY <1>5 DEF ReadToEnd, AtEOF, PipeOpen, TypeOK, TimeInv, Granted, ProcessInv, ReportInv
  <1>6. CASE Report
    BY <1>6 DEF Report, TimedOut, Succeeded, TypeOK, TimeInv, Granted, ProcessInv, ReportInv
  <1> QED BY <1>1, <1>2, <1>3, <1>4, <1>5, <1>6 DEF Tool

\* What the command does: it can write and fork only while the pipe is open.
LEMMA CommandInv == ASSUME IInv, Command PROVE IInv'
  <1> USE DEF IInv, timeVars, procVars, pipeVars
  <1>1. CASE WriteChunk
    BY <1>1, BashAssumption DEF WriteChunk, PipeOpen, TypeOK, TimeInv, Granted, ProcessInv, ReportInv
  <1>2. CASE Spawn
    BY <1>2 DEF Spawn, PipeOpen, TypeOK, TimeInv, Granted, ProcessInv, ReportInv
  <1>3. CASE ChildEnds
    BY <1>3 DEF ChildEnds, TypeOK, TimeInv, Granted, ProcessInv, ReportInv
  <1>4. CASE ShellEnds
    BY <1>4 DEF ShellEnds, TypeOK, TimeInv, Granted, ProcessInv, ReportInv
  <1> QED BY <1>1, <1>2, <1>3, <1>4 DEF Command

\* Time, the timer and the caller.
LEMMA TickInv == ASSUME IInv, Tick PROVE IInv'
  <1> USE DEF IInv, Tick, procVars, pipeVars
  <1>1. TypeOK' /\ ProcessInv' /\ ReportInv'
    BY BashAssumption DEF TypeOK, ProcessInv, ReportInv
  <1>2. TimeInv'
    <2>1. Granted \in Int /\ clock \in Int /\ Granted' = Granted
      BY GrantedType, BashAssumption DEF TypeOK, Granted
    <2> QED BY <2>1 DEF TimeInv
  <1> QED BY <1>1, <1>2

LEMMA ExpireInv == ASSUME IInv, Expire PROVE IInv'
  <1> USE DEF IInv, Expire, procVars, pipeVars
  <1>1. TypeOK' /\ ProcessInv' /\ ReportInv'
    BY DEF TypeOK, ProcessInv, ReportInv
  <1>2. TimeInv'
    <2>1. Granted \in 0..MaxTimeout /\ Granted \in Nat /\ clock \in Nat /\ Granted' = Granted
      BY GrantedType, BashAssumption DEF TypeOK, Granted
    <2>2. clock >= Granted
      BY <2>1, SecondsOrder DEF TimeInv
    <2>3. cancelAt >= Granted
      BY <2>1, BashAssumption DEF TimeInv, Never
    <2> QED BY <2>1, <2>2, <2>3 DEF TimeInv
  <1> QED BY <1>1, <1>2

LEMMA CancelInv == ASSUME IInv, Cancel PROVE IInv'
  <1> USE DEF IInv, Cancel, procVars, pipeVars
  <1>1. TypeOK' /\ ProcessInv' /\ ReportInv'
    BY BashAssumption DEF TypeOK, ProcessInv, ReportInv, Never
  <1>2. TimeInv'
    BY DEF TypeOK, TimeInv, Granted
  <1> QED BY <1>1, <1>2

LEMMA NextInv == IInv /\ [Next]_vars => IInv'
  <1> SUFFICES ASSUME IInv, [Next]_vars PROVE IInv' OBVIOUS
  <1>1. CASE UNCHANGED vars
    BY <1>1 DEF IInv, vars, timeVars, procVars, pipeVars,
                TypeOK, TimeInv, Granted, ProcessInv, ReportInv
  <1> QED BY <1>1, ToolInv, CommandInv, TickInv, ExpireInv, CancelInv DEF Next

\* The inductive invariant holds of every reachable state.
THEOREM Invariant == Spec => []IInv
  BY InitInv, NextInv, PTL DEF Spec

-----------------------------------------------------------------------------

\* bash says "timed out" only when the seconds the request was entitled to have
\* passed, and not if the caller's context was cancelled before, for every
\* requested integer: the cap of bash.go:64 keeps the product from overflowing
\* whatever the width of the integers, as long as the maximum itself fits.
THEOREM TimeoutIsTrue == Spec => []LateMeansLate
  <1>1. IInv => LateMeansLate
    BY DEF IInv, TimeInv, ReportInv, LateMeansLate
  <1> QED BY <1>1, Invariant, PTL

\* What bash returns is everything the shell and the processes that share its
\* pipe wrote, and nobody is left who could write more.
THEOREM OutputIsWhole == Spec => []WholeOutput
  <1>1. IInv => WholeOutput
    BY DEF IInv, ProcessInv, ReportInv, WholeOutput, PipeOpen
  <1> QED BY <1>1, Invariant, PTL

\* bash reports success only of a shell that ended by itself with status zero,
\* and "no output" only if nothing was written.
THEOREM SuccessIsTrue == Spec => []SuccessIsReal
  <1>1. IInv => SuccessIsReal
    BY DEF IInv, ProcessInv, ReportInv, SuccessIsReal
  <1> QED BY <1>1, Invariant, PTL
=============================================================================
