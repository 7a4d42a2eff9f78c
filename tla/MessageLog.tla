----------------------------- MODULE MessageLog -----------------------------
(***************************************************************************)
(* What a session promises the engine, several of them sharing one file:   *)
(* the stored history only grows, a session starts from the whole of it,   *)
(* and from then on its memory grows by its own messages only, each stored *)
(* before it is remembered and in the order it was stored.  A message it   *)
(* was told it failed to store may be stored, and is not remembered.  A    *)
(* session that was closed only remembers.                                 *)
(***************************************************************************)
EXTENDS Integers, Sequences

CONSTANTS
  Sessions,   \* handles on the stored history
  Own         \* per session, the messages it may append

VARIABLES
  log,        \* the stored history
  hist,       \* what each session remembers
  serving     \* sessions that are open

Stored == {log[i] : i \in DOMAIN log}
Known(s) == {hist[s][i] : i \in DOMAIN hist[s]}

\* s may still remember m: it stored m, and everything of its own it remembers
\* was stored before.  What it skips is what it was told it failed to store.
Memorable(s, m) ==
  /\ m \in Own[s] \cap Stored /\ m \notin Known(s)
  /\ \A i, j \in DOMAIN log : log[i] = m /\ log[j] \in Own[s] \cap Known(s) => j < i

Init == log = <<>> /\ hist = [s \in Sessions |-> <<>>] /\ serving = {}

Open(s) ==
  /\ s \notin serving
  /\ hist' = [hist EXCEPT ![s] = log]
  /\ serving' = serving \cup {s}
  /\ UNCHANGED log

Leave(s) ==
  /\ s \in serving
  /\ serving' = serving \ {s}
  /\ UNCHANGED <<log, hist>>

Store(s, m) ==
  /\ s \in serving /\ m \in Own[s] \ Stored
  /\ log' = Append(log, m)
  /\ UNCHANGED <<hist, serving>>

Remember(s, m) ==
  /\ s \in serving /\ Memorable(s, m)
  /\ hist' = [hist EXCEPT ![s] = Append(@, m)]
  /\ UNCHANGED <<log, serving>>

RememberOnly(s, m) ==
  /\ s \notin serving /\ m \in Own[s] \ Stored
  /\ hist' = [hist EXCEPT ![s] = Append(@, m)]
  /\ UNCHANGED <<log, serving>>

Next ==
  \E s \in Sessions :
    \/ Open(s) \/ Leave(s)
    \/ \E m \in Own[s] : Store(s, m) \/ Remember(s, m) \/ RememberOnly(s, m)

Spec == Init /\ [][Next]_<<log, hist, serving>>
=============================================================================
