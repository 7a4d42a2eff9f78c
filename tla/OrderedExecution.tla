-------------------------- MODULE OrderedExecution --------------------------
(***************************************************************************)
(* What executing a group of tool calls promises the agent loop: calls are *)
(* begun in the order the model asked for them, no more of them run at     *)
(* once than the limit says, each runs once, and the group returns either  *)
(* all results or the cancellation, never with a call still running.       *)
(***************************************************************************)
EXTENDS Integers, FiniteSets

VARIABLES
  size,       \* how many calls there are
  limit,      \* how many may run at once; not positive means all
  begun,      \* calls handed to a worker
  ended,      \* calls whose tool has returned
  cancelled,  \* the context is cancelled
  outcome     \* "none" until the group returns

Running == begun \ ended

Init ==
  /\ size \in Nat /\ limit \in Int
  /\ begun = {} /\ ended = {}
  /\ cancelled \in BOOLEAN /\ outcome = "none"

Begin(i) ==
  /\ outcome = "none"
  /\ i \in 1..size \ begun /\ begun = 1..(i - 1)
  /\ limit > 0 => Cardinality(Running) < limit
  /\ begun' = begun \cup {i}
  /\ UNCHANGED <<size, limit, ended, cancelled, outcome>>

End(i) ==
  /\ i \in Running
  /\ ended' = ended \cup {i}
  /\ UNCHANGED <<size, limit, begun, cancelled, outcome>>

Cancel ==
  /\ ~cancelled
  /\ cancelled' = TRUE
  /\ UNCHANGED <<size, limit, begun, ended, outcome>>

ReturnResults ==
  /\ outcome = "none" /\ ended = 1..size
  /\ cancelled => size = 0
  /\ outcome' = "results"
  /\ UNCHANGED <<size, limit, begun, ended, cancelled>>

ReturnCancelled ==
  /\ outcome = "none" /\ cancelled /\ Running = {}
  /\ outcome' = "cancelled"
  /\ UNCHANGED <<size, limit, begun, ended, cancelled>>

Next ==
  \/ \E i \in 1..size : Begin(i) \/ End(i)
  \/ Cancel \/ ReturnResults \/ ReturnCancelled

Spec == Init /\ [][Next]_<<size, limit, begun, ended, cancelled, outcome>>
=============================================================================
