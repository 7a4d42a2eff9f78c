---------------------------- MODULE SessionStore ----------------------------
(***************************************************************************)
(* Sessions on one JSONL file (internal/session/session.go, store.go,      *)
(* lock_posix.go): goroutines that share a Session through its mutex,      *)
(* Sessions of different processes that share the file through flock, and  *)
(* a disk that may stop in the middle of a line.                           *)
(*                                                                         *)
(* The file is a sequence of lines, the last of them not terminated; a     *)
(* line is the sequence of the pieces written into it.  A message is       *)
(* written as two pieces, neither of which is JSON alone, and a newline.   *)
(* One write() call covers all three; other processes may still see the    *)
(* file between two of them, and the call may stop between two of them.    *)
(***************************************************************************)
EXTENDS Integers, Sequences, FiniteSets, Functions

CONSTANTS
  Sessions,    \* Session values, one process each
  Goroutines,  \* callers of Append
  SessionOf,   \* the Session each of them uses
  None,        \* nobody
  MaxAppends,  \* bound: calls of Append per goroutine
  MaxOpens,    \* bound: calls of OpenSession per session
  MaxFaults    \* bound: appends that are refused, and writes that stop early

ASSUME StoreAssumption ==
  /\ SessionOf \in [Goroutines -> Sessions]
  /\ None \notin Sessions \cup Goroutines
  /\ MaxAppends \in Nat /\ MaxOpens \in Nat /\ MaxFaults \in Nat

VARIABLES
  file,    \* the file's lines
  flock,   \* the session whose descriptor holds the exclusive lock, or None
  mu,      \* per session, the goroutine that holds Session.mu, or None
  status,  \* per session: "absent", "read", "open", "closed" or "corrupt"
  mem,     \* Session.messages
  base,    \* how many of them OpenSession read
  opens,   \* how often OpenSession was called
  pc,      \* where each goroutine is in Append
  sent,    \* how often each goroutine called Append
  err,     \* whether its current call failed
  acked,   \* messages whose Append returned nil after writing them
  faults   \* appends refused, and writes that stopped early

vars == <<file, flock, mu, status, mem, base, opens, pc, sent, err, acked, faults>>

-----------------------------------------------------------------------------
(* The file's content.                                                     *)

Message == Goroutines \X (1..MaxAppends)

\* The message of g's current call.
Msg(g) == <<g, sent[g]>>

Piece(m, part) == [of |-> m, part |-> part]
Whole(m) == <<Piece(m, "head"), Piece(m, "rest")>>

\* Lines json.Unmarshal accepts.
IsMessage(line) == line # <<>> /\ line = Whole(line[1].of)

Blank(line) == line = <<>>

\* Where the pieces of a file stand: the line, and the piece of the line.
PlacesIn(lines) == UNION {{i} \X DOMAIN lines[i] : i \in DOMAIN lines}

\* The places of S in the order in which they are read, line by line.
Before(p, q) == p[1] < q[1] \/ (p[1] = q[1] /\ p[2] < q[2])
Upto(S, p) == {q \in S : q = p \/ Before(q, p)}
Ranked(S, n) == {p \in S : Cardinality(Upto(S, p)) = n}
InOrder(S) == [n \in 1..Cardinality(S) |-> CHOOSE p \in Ranked(S, n) : TRUE]

\* readAllMessages: blank lines are skipped, any other must be a message; the
\* last line counts although it is not terminated.
Parses(lines) == \A i \in DOMAIN lines : Blank(lines[i]) \/ IsMessage(lines[i])

\* Mutant: the end of the file ends the reading before its last line is looked at.
MessagesOf_Terminated(lines) ==
  LET read == InOrder({i \in 1..(Len(lines) - 1) : IsMessage(lines[i])} \X {2})
  IN [n \in DOMAIN read |-> lines[read[n][1]][1].of]

MessagesOf(lines) ==
  LET read == InOrder({i \in DOMAIN lines : IsMessage(lines[i])} \X {2})
  IN [n \in DOMAIN read |-> lines[read[n][1]][1].of]

\* O_APPEND: a piece goes to the end of the file.
AppendPiece(piece) == [file EXCEPT ![Len(file)] = Append(@, piece)]

AppendNewline == Append(file, <<>>)

-----------------------------------------------------------------------------
Init ==
  /\ file = << <<>> >>
  /\ flock = None
  /\ mu = [s \in Sessions |-> None]
  /\ status = [s \in Sessions |-> "absent"]
  /\ mem = [s \in Sessions |-> <<>>]
  /\ base = [s \in Sessions |-> 0]
  /\ opens = [s \in Sessions |-> 0]
  /\ pc = [g \in Goroutines |-> "idle"]
  /\ sent = [g \in Goroutines |-> 0]
  /\ err = [g \in Goroutines |-> FALSE]
  /\ acked = {}
  /\ faults = 0

lockVars == <<flock, mu>>
sessionVars == <<status, mem, base, opens>>

-----------------------------------------------------------------------------
(* OpenSession: the file is read without a lock, then opened for append.   *)
(* (NewSession is the same on a file that is still empty.)                 *)

ReadAllMessages(s) ==
  /\ status[s] \in {"absent", "closed", "corrupt"} /\ opens[s] < MaxOpens
  /\ \A g \in Goroutines : SessionOf[g] = s => pc[g] = "idle"
  /\ opens' = [opens EXCEPT ![s] = @ + 1]
  /\ IF Parses(file)
     THEN /\ status' = [status EXCEPT ![s] = "read"]
          /\ mem' = [mem EXCEPT ![s] = MessagesOf(file)]
          /\ base' = [base EXCEPT ![s] = Len(MessagesOf(file))]
     ELSE /\ status' = [status EXCEPT ![s] = "corrupt"]
          /\ UNCHANGED <<mem, base>>
  /\ UNCHANGED <<file, lockVars, pc, sent, err, acked, faults>>

OpenForAppend(s) ==
  /\ status[s] = "read"
  /\ status' = [status EXCEPT ![s] = "open"]
  /\ UNCHANGED <<file, lockVars, mem, base, opens, pc, sent, err, acked, faults>>

-----------------------------------------------------------------------------
(* Append, step by step.                                                   *)

Goto(g, where) == pc' = [pc EXCEPT ![g] = where]

CallAppend(g) ==
  /\ pc[g] = "idle" /\ sent[g] < MaxAppends
  /\ status[SessionOf[g]] \in {"open", "closed"}
  /\ sent' = [sent EXCEPT ![g] = @ + 1]
  /\ err' = [err EXCEPT ![g] = FALSE]
  /\ Goto(g, "lock")
  /\ UNCHANGED <<file, lockVars, sessionVars, acked, faults>>

\* Mutant: the mutex is not waited for.
MuFree_Always(s) == TRUE

MuFree(s) == mu[s] = None

\* s.mu.Lock(), then the look at s.file.
LockMu(g) ==
  /\ pc[g] = "lock" /\ MuFree(SessionOf[g])
  /\ mu' = [mu EXCEPT ![SessionOf[g]] = g]
  /\ Goto(g, IF status[SessionOf[g]] = "open" THEN "flock" ELSE "remember")
  /\ UNCHANGED <<file, flock, sessionVars, sent, err, acked, faults>>

\* Mutant: a shared lock is taken.
FlockFree_Shared(s) == TRUE

\* A descriptor that holds the lock gets it again.
FlockFree(s) == flock \in {None, s}

LockFile(g) ==
  /\ pc[g] = "flock" /\ FlockFree(SessionOf[g])
  /\ flock' = SessionOf[g]
  /\ Goto(g, "head")
  /\ UNCHANGED <<file, mu, sessionVars, sent, err, acked, faults>>

\* json.Marshal refuses the message, or flock(2) fails: Append returns the error
\* and neither the file nor the memory has the message.
Refused(g) ==
  /\ pc[g] = "flock" /\ faults < MaxFaults
  /\ faults' = faults + 1
  /\ err' = [err EXCEPT ![g] = TRUE]
  /\ Goto(g, "release")
  /\ UNCHANGED <<file, lockVars, sessionVars, sent, acked>>

WritePiece(g) ==
  /\ pc[g] \in {"head", "rest"}
  /\ file' = AppendPiece(Piece(Msg(g), pc[g]))
  /\ Goto(g, IF pc[g] = "head" THEN "rest" ELSE "newline")
  /\ UNCHANGED <<lockVars, sessionVars, sent, err, acked, faults>>

WriteNewline(g) ==
  /\ pc[g] = "newline"
  /\ file' = AppendNewline
  /\ Goto(g, "unlock")
  /\ UNCHANGED <<lockVars, sessionVars, sent, err, acked, faults>>

\* The write stops early and returns an error; what is written stays.
WriteFails(g) ==
  /\ pc[g] \in {"head", "rest", "newline"} /\ faults < MaxFaults
  /\ faults' = faults + 1
  /\ err' = [err EXCEPT ![g] = TRUE]
  /\ Goto(g, "unlock")
  /\ UNCHANGED <<file, lockVars, sessionVars, sent, acked>>

\* Mutant: unlocking is not deferred, so that an error skips it.
Unlocked_OnSuccess(g) == IF err[g] THEN flock ELSE None

Unlocked(g) == None

\* Mutant: the error of the write is dropped.
Failed_Dropped(g) == FALSE

Failed(g) == err[g]

\* persist returns: the deferred unlock.
UnlockFile(g) ==
  /\ pc[g] = "unlock"
  /\ flock' = Unlocked(g)
  /\ Goto(g, IF Failed(g) THEN "release" ELSE "remember")
  /\ acked' = IF Failed(g) THEN acked ELSE acked \cup {Msg(g)}
  /\ UNCHANGED <<file, mu, sessionVars, sent, err, faults>>

Remember(g) ==
  /\ pc[g] = "remember"
  /\ mem' = [mem EXCEPT ![SessionOf[g]] = Append(@, Msg(g))]
  /\ Goto(g, "release")
  /\ UNCHANGED <<file, lockVars, status, base, opens, sent, err, acked, faults>>

Released(g) == [mu EXCEPT ![SessionOf[g]] = None]

ReleaseMu(g) ==
  /\ pc[g] = "release"
  /\ mu' = Released(g)
  /\ Goto(g, "idle")
  /\ UNCHANGED <<file, flock, sessionVars, sent, err, acked, faults>>

InAppend(g) ==
  \/ LockMu(g) \/ LockFile(g) \/ WritePiece(g) \/ WriteNewline(g)
  \/ UnlockFile(g) \/ Remember(g) \/ ReleaseMu(g)

-----------------------------------------------------------------------------

\* Close takes the mutex for its whole duration.
Close(s) ==
  /\ status[s] = "open" /\ mu[s] = None
  /\ status' = [status EXCEPT ![s] = "closed"]
  /\ flock' = IF flock = s THEN None ELSE flock
  /\ UNCHANGED <<file, mu, mem, base, opens, pc, sent, err, acked, faults>>

\* Writing into the file and not yet done with it.
Writing(g) == pc[g] \in {"rest", "newline"}

\* The process dies; the kernel releases its lock.  A death in the middle of a
\* write leaves the line as it is and counts as a fault.
Crash(s) ==
  LET own == {g \in Goroutines : SessionOf[g] = s} IN
  /\ status[s] \in {"read", "open"}
  /\ IF \E g \in own : Writing(g)
     THEN faults < MaxFaults /\ faults' = faults + 1 ELSE UNCHANGED faults
  /\ status' = [status EXCEPT ![s] = "absent"]
  /\ flock' = IF flock = s THEN None ELSE flock
  /\ mu' = [mu EXCEPT ![s] = None]
  /\ pc' = [g \in Goroutines |-> IF g \in own THEN "idle" ELSE pc[g]]
  /\ UNCHANGED <<file, mem, base, opens, sent, err, acked>>

Next ==
  \/ \E s \in Sessions : ReadAllMessages(s) \/ OpenForAppend(s) \/ Close(s) \/ Crash(s)
  \/ \E g \in Goroutines : CallAppend(g) \/ InAppend(g) \/ Refused(g) \/ WriteFails(g)

Spec == Init /\ [][Next]_vars

\* A goroutine inside Append keeps running; nobody has to call, close, fail or
\* die.
FairSpec == Spec /\ \A g \in Goroutines : WF_vars(InAppend(g))

-----------------------------------------------------------------------------
(* Properties.                                                             *)

Terminated == 1..(Len(file) - 1)

\* "Each appended JSONL line is intact" (lock_posix.go:14): as long as every
\* write runs to its end, a terminated line is one message, whoever appended
\* what at the same time.
LinesIntact == faults = 0 => \A i \in Terminated : IsMessage(file[i])

\* Where a message stands whole: the line, and its last piece in the line.
Places(m) ==
  {place \in UNION {{i} \X (2..Len(file[i])) : i \in DOMAIN file} :
     Whole(m) = SubSeq(file[place[1]], place[2] - 1, place[2])}

\* A message whose Append returned nil, on a session that was open, is in the
\* file whole, once, and at the end of a terminated line, whatever stopped early
\* before or behind it.
AckedDurable ==
  \A m \in acked :
    /\ Cardinality(Places(m)) = 1
    /\ \A place \in Places(m) :
         place[1] \in Terminated /\ place[2] = Len(file[place[1]])

Position(m) == CHOOSE i \in DOMAIN file : Piece(m, "head") \in Range(file[i])

\* "Without the on-disk and in-memory orderings diverging" (session.go:42): the
\* messages a session stored since it was opened stand in its memory in the
\* order they have in the file.
SameOrder ==
  \A s \in Sessions : \A i, j \in base[s] + 1 .. Len(mem[s]) :
    i < j /\ mem[s][i] \in acked /\ mem[s][j] \in acked =>
      Position(mem[s][i]) < Position(mem[s][j])

\* "Already-persisted messages remain on disk. Resume picks up from the
\* last-persisted state" (session-management-design.md:268): what Append
\* acknowledged can be read again.  Not so after a write that stopped early:
\* the next message is glued to what it left.
AckedReadable == \A m \in acked : \E i \in DOMAIN file : file[i] = Whole(m)

\* An Append returns, whatever the other goroutines and processes do or fail at.
AppendReturns == \A g \in Goroutines : pc[g] = "lock" ~> pc[g] = "idle"

\* The messages written to their last piece, in the order of the file.
LastPieces == {p \in PlacesIn(file) : file[p[1]][p[2]].part = "rest"}
Written ==
  LET last == InOrder(LastPieces)
  IN [n \in DOMAIN last |-> file[last[n][1]][last[n][2]].of]

\* The sessions implement MessageLog, also when writes stop early: a message is
\* stored when its last piece is written, and what readAllMessages returns, if
\* it returns, is all that was stored.
ML == INSTANCE MessageLog WITH
  log <- Written,
  hist <- mem,
  serving <- {s \in Sessions : status[s] \in {"read", "open"}},
  Own <- [s \in Sessions |-> {m \in Message : SessionOf[m[1]] = s}]
Implements == ML!Spec
=============================================================================
