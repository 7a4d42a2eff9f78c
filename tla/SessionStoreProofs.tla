------------------------- MODULE SessionStoreProofs -------------------------
(***************************************************************************)
(* Proofs about SessionStore, for any number of sessions, goroutines,      *)
(* appends and faults.                                                     *)
(***************************************************************************)
EXTENDS SessionStore, FiniteSetTheorems, SequenceTheorems, TLAPS

-----------------------------------------------------------------------------
(* Places in order.                                                        *)

\* A place behind all others comes last, and the others keep their ranks.
LEMMA InOrderGrows ==
  ASSUME NEW S, IsFiniteSet(S), NEW x, x \notin S,
         \A p \in S : Before(p, x) /\ ~Before(x, p)
  PROVE  /\ IsFiniteSet(S \cup {x}) /\ Cardinality(S) \in Nat
         /\ Cardinality(S \cup {x}) = Cardinality(S) + 1
         /\ \A n \in 1..Cardinality(S) : InOrder(S \cup {x})[n] = InOrder(S)[n]
         /\ InOrder(S \cup {x})[Cardinality(S) + 1] = x
  <1> DEFINE T == S \cup {x}
             size == Cardinality(S)
  <1>1. IsFiniteSet(T) /\ size \in Nat /\ Cardinality(T) = size + 1
    BY FS_AddElement, FS_CardinalityType
  <1>2. ASSUME NEW p \in S
        PROVE  Upto(T, p) = Upto(S, p) /\ Cardinality(Upto(S, p)) <= size /\ Cardinality(Upto(S, p)) \in Nat
    <2>1. Upto(T, p) = Upto(S, p)
      BY DEF Upto
    <2>2. Upto(S, p) \subseteq S
      BY DEF Upto
    <2> QED BY <2>1, <2>2, FS_Subset, FS_CardinalityType
  <1>3. Upto(T, x) = T
    BY DEF Upto
  <1>t. T = S \cup {x}
    OBVIOUS
  <1> HIDE DEF T, size
  <1>4. ASSUME NEW n \in 1..size PROVE Ranked(T, n) = Ranked(S, n)
    <2>1. Cardinality(Upto(T, x)) # n
      BY <1>1, <1>3
    <2>2. \A p \in S : Cardinality(Upto(T, p)) = n <=> Cardinality(Upto(S, p)) = n
      BY <1>2
    <2> QED BY <1>t, <2>1, <2>2 DEF Ranked
  <1>5. Ranked(T, size + 1) = {x}
    <2>1. Cardinality(Upto(T, x)) = size + 1
      BY <1>1, <1>3
    <2>2. \A p \in S : Cardinality(Upto(T, p)) # size + 1
      BY <1>1, <1>2
    <2> QED BY <1>t, <2>1, <2>2 DEF Ranked
  <1>6. ASSUME NEW n \in 1..size PROVE InOrder(T)[n] = InOrder(S)[n]
    <2>1. n \in 1..Cardinality(T) /\ n \in 1..Cardinality(S)
      BY <1>1 DEF size
    <2>2. /\ InOrder(T)[n] = CHOOSE p \in Ranked(T, n) : TRUE
          /\ InOrder(S)[n] = CHOOSE p \in Ranked(S, n) : TRUE
      BY <2>1 DEF InOrder
    <2> QED BY <1>4, <2>2
  <1>7. InOrder(T)[size + 1] = x
    <2>1. size + 1 \in 1..Cardinality(T)
      BY <1>1
    <2>2. InOrder(T)[size + 1] = CHOOSE p \in Ranked(T, size + 1) : TRUE
      BY <2>1 DEF InOrder
    <2> QED BY <1>5, <2>2
  <1> USE DEF T, size
  <1> QED BY <1>1, <1>6, <1>7

\* A place comes before another by line, then by piece.
LEMMA PlacesOf ==
  ASSUME NEW S, NEW lines \in Seq(Seq(S))
  PROVE  /\ \A p : p \in PlacesIn(lines) <=>
                     \E i \in 1..Len(lines) : \E k \in 1..Len(lines[i]) : p = <<i, k>>
         /\ \A p \in PlacesIn(lines) :
              /\ p = <<p[1], p[2]>> /\ p[1] \in 1..Len(lines) /\ p[2] \in 1..Len(lines[p[1]])
              /\ lines[p[1]][p[2]] \in S
  <1>1. \A i \in 1..Len(lines) : lines[i] \in Seq(S) /\ DOMAIN lines[i] = 1..Len(lines[i])
    OBVIOUS
  <1>2. DOMAIN lines = 1..Len(lines)
    OBVIOUS
  <1>3. \A p : p \in PlacesIn(lines) <=>
                     \E i \in 1..Len(lines) : \E k \in 1..Len(lines[i]) : p = <<i, k>>
    BY <1>1, <1>2 DEF PlacesIn
  <1> QED BY <1>1, <1>3

\* A file with one more piece, the place of the piece, and a file with one more
\* line.
WithPiece(f, x) == [f EXCEPT ![Len(f)] = Append(@, x)]
EndOf(f) == <<Len(f), Len(f[Len(f)]) + 1>>
WithNewline(f) == Append(f, <<>>)

\* t is f with x at the place new, behind all others.
Grown(f, x, t, new) ==
  /\ Len(t) = Len(f)
  /\ \A i \in 1..(Len(f) - 1) : t[i] = f[i]
  /\ t[Len(f)] = Append(f[Len(f)], x)
  /\ PlacesIn(t) = PlacesIn(f) \cup {new} /\ new \notin PlacesIn(f)
  /\ t[new[1]][new[2]] = x
  /\ \A p \in PlacesIn(f) : t[p[1]][p[2]] = f[p[1]][p[2]] /\ Before(p, new) /\ ~Before(new, p)

\* t is f with a new line, and no piece moved.
Longer(f, t) ==
  /\ Len(t) = Len(f) + 1
  /\ \A i \in 1..Len(f) : t[i] = f[i]
  /\ t[Len(f) + 1] = <<>>
  /\ PlacesIn(t) = PlacesIn(f)
  /\ \A p \in PlacesIn(f) : t[p[1]][p[2]] = f[p[1]][p[2]]

\* A piece is written behind all others.
LEMMA PieceWritten ==
  ASSUME NEW S, NEW f \in Seq(Seq(S)), Len(f) >= 1, NEW x \in S,
         NEW t, t = WithPiece(f, x), NEW new, new = EndOf(f)
  PROVE  t \in Seq(Seq(S)) /\ Grown(f, x, t, new)
  <1> USE DEF WithPiece, EndOf
  <1> DEFINE n == Len(f)
             line == f[n]
  <1>1. n \in Nat /\ n \in DOMAIN f /\ line \in Seq(S) /\ Len(line) \in Nat
    OBVIOUS
  <1>2. Append(line, x) \in Seq(S) /\ Len(Append(line, x)) = Len(line) + 1
    BY <1>1
  <1>3. t \in Seq(Seq(S)) /\ Len(t) = n /\ t[n] = Append(line, x) /\ \A i \in 1..(n - 1) : t[i] = f[i]
    BY <1>1, <1>2
  <1>4. /\ \A k \in 1..Len(line) : t[n][k] = line[k]
        /\ t[n][Len(line) + 1] = x /\ Len(t[n]) = Len(line) + 1
    BY <1>1, <1>2, <1>3
  <1>5. PlacesIn(t) = PlacesIn(f) \cup {new}
    <2>1. \A p : p \in PlacesIn(t) <=> \E i \in 1..n : \E k \in 1..Len(t[i]) : p = <<i, k>>
      <3>1. \A p : p \in PlacesIn(t) <=> \E i \in 1..Len(t) : \E k \in 1..Len(t[i]) : p = <<i, k>>
        <4>1. t \in Seq(Seq(S))
          BY <1>3
        <4> HIDE DEF n, line
        <4> QED BY ONLY <4>1, PlacesOf
      <3>2. Len(t) = n
        BY <1>3
      <3> HIDE DEF n, line
      <3> QED BY ONLY <3>1, <3>2
    <2>2. \A p : p \in PlacesIn(f) <=> \E i \in 1..n : \E k \in 1..Len(f[i]) : p = <<i, k>>
      BY PlacesOf
    <2>3. \A p : p \in PlacesIn(t) <=>
             \/ \E i \in 1..(n - 1) : \E k \in 1..Len(f[i]) : p = <<i, k>>
             \/ \E k \in 1..(Len(line) + 1) : p = <<n, k>>
      <3>1. 1..n = 1..(n - 1) \cup {n}
        BY <1>1
      <3>2. n \notin 1..(n - 1) /\ Len(t[n]) = Len(line) + 1
        BY <1>1, <1>4
      <3>3. \A i \in 1..(n - 1) : Len(t[i]) = Len(f[i])
        BY <1>3
      <3> HIDE DEF n, line
      <3> QED BY ONLY <2>1, <3>1, <3>2, <3>3
    <2>4. \A p : p \in PlacesIn(f) <=>
             \/ \E i \in 1..(n - 1) : \E k \in 1..Len(f[i]) : p = <<i, k>>
             \/ \E k \in 1..Len(line) : p = <<n, k>>
      <3>1. 1..n = 1..(n - 1) \cup {n} /\ f[n] = line
        BY <1>1
      <3> HIDE DEF n, line
      <3> QED BY ONLY <2>2, <3>1
    <2>5. 1..(Len(line) + 1) = 1..Len(line) \cup {Len(line) + 1}
      BY <1>1
    <2> HIDE DEF n, line
    <2>6. new = <<n, Len(line) + 1>>
      BY DEF n, line
    <2> QED BY <2>3, <2>4, <2>5, <2>6
  <1>6. \A p \in PlacesIn(f) : p[1] \in 1..n /\ p[2] \in 1..Len(f[p[1]])
    BY PlacesOf
  <1>7. new \notin PlacesIn(f)
    BY <1>1, <1>6
  <1>8. t[new[1]][new[2]] = x
    BY <1>4
  <1>9. \A p \in PlacesIn(f) : t[p[1]][p[2]] = f[p[1]][p[2]]
    BY <1>1, <1>3, <1>4, <1>6
  <1>10. \A p \in PlacesIn(f) : Before(p, new) /\ ~Before(new, p)
    BY <1>1, <1>6 DEF Before
  <1> QED BY <1>3, <1>5, <1>7, <1>8, <1>9, <1>10 DEF Grown

\* A newline moves no piece.
LEMMA NewlineWritten ==
  ASSUME NEW S, NEW f \in Seq(Seq(S)), NEW t, t = WithNewline(f)
  PROVE  t \in Seq(Seq(S)) /\ Longer(f, t)
  <1> USE DEF WithNewline
  <1> DEFINE n == Len(f)
  <1>1. n \in Nat /\ <<>> \in Seq(S) /\ Len(<<>>) = 0
    OBVIOUS
  <1>2. t \in Seq(Seq(S)) /\ Len(t) = n + 1 /\ t[n + 1] = <<>> /\ \A i \in 1..n : t[i] = f[i]
    BY <1>1
  <1>3. PlacesIn(t) = PlacesIn(f)
    <2>1. \A p : p \in PlacesIn(t) <=> \E i \in 1..(n + 1) : \E k \in 1..Len(t[i]) : p = <<i, k>>
      <3>1. \A p : p \in PlacesIn(t) <=> \E i \in 1..Len(t) : \E k \in 1..Len(t[i]) : p = <<i, k>>
        <4>1. t \in Seq(Seq(S))
          BY <1>2
        <4> QED BY ONLY <4>1, PlacesOf
      <3> QED BY <1>2, <3>1
    <2>2. \A p : p \in PlacesIn(f) <=> \E i \in 1..n : \E k \in 1..Len(f[i]) : p = <<i, k>>
      BY PlacesOf
    <2>3. 1..(n + 1) = 1..n \cup {n + 1} /\ n + 1 \notin 1..n /\ 1..Len(t[n + 1]) = {}
      BY <1>1, <1>2
    <2>4. \A i \in 1..n : t[i] = f[i]
      BY <1>2
    <2> HIDE DEF n
    <2>5. \A p : p \in PlacesIn(t) <=> p \in PlacesIn(f)
      BY ONLY <2>1, <2>2, <2>3, <2>4
    <2> QED BY <2>5
  <1>4. \A p \in PlacesIn(f) : p[1] \in 1..n
    BY PlacesOf
  <1> QED BY <1>2, <1>3, <1>4 DEF Longer

-----------------------------------------------------------------------------
(* The inductive invariant, in layers.                                     *)

InMu == {"flock", "head", "rest", "newline", "unlock", "remember", "release"}
InFlock == {"head", "rest", "newline", "unlock"}
Pieces == [of : Message, part : {"head", "rest"}]

TypeOK ==
  /\ file \in Seq(Seq(Pieces)) /\ Len(file) >= 1
  /\ flock \in Sessions \cup {None}
  /\ mu \in [Sessions -> Goroutines \cup {None}]
  /\ status \in [Sessions -> {"absent", "read", "open", "closed", "corrupt"}]
  /\ mem \in [Sessions -> Seq(Message)] /\ base \in [Sessions -> Nat]
  /\ opens \in [Sessions -> 0..MaxOpens]
  /\ pc \in [Goroutines -> InMu \cup {"idle", "lock"}]
  /\ sent \in [Goroutines -> 0..MaxAppends]
  /\ err \in [Goroutines -> BOOLEAN]
  /\ acked \subseteq Message
  /\ faults \in 0..MaxFaults

\* Whoever is past mu.Lock holds the mutex, and whoever writes the file lock as
\* well: one at a time.
LockInv ==
  \A g \in Goroutines :
    /\ pc[g] \in InMu => mu[SessionOf[g]] = g
    /\ pc[g] \in InFlock => flock = SessionOf[g]
    /\ pc[g] \in InFlock \cup {"flock"} => status[SessionOf[g]] = "open"
    /\ pc[g] # "idle" => status[SessionOf[g]] \in {"open", "closed"} /\ sent[g] >= 1

Filed == PlacesIn(file)
At(p) == file[p[1]][p[2]]

\* A piece is written once, by a call that has got that far.
PieceInv ==
  /\ \A p, q \in Filed : At(p) = At(q) => p = q
  /\ \A p \in Filed : \A g \in Goroutines : At(p).of[1] = g =>
       /\ At(p).of[2] <= sent[g]
       /\ At(p).of[2] = sent[g] =>
            /\ pc[g] \notin {"lock", "flock", "head"}
            /\ At(p).part = "rest" => pc[g] # "rest"
            /\ pc[g] = "remember" => status[SessionOf[g]] = "open"

EndsWhole(line, m) ==
  /\ Len(line) >= 2
  /\ line[Len(line) - 1] = Piece(m, "head") /\ line[Len(line)] = Piece(m, "rest")

\* A message being written is the end of the file, one that was acknowledged
\* the end of a terminated line.
TailInv ==
  /\ \A g \in Goroutines :
       /\ pc[g] = "rest" => /\ Len(file[Len(file)]) >= 1
                            /\ file[Len(file)][Len(file[Len(file)])] = Piece(Msg(g), "head")
       /\ pc[g] = "newline" => EndsWhole(file[Len(file)], Msg(g))
       /\ pc[g] = "unlock" /\ ~err[g] => \E i \in Terminated : EndsWhole(file[i], Msg(g))
       /\ pc[g] = "remember" /\ status[SessionOf[g]] = "open" => Msg(g) \in acked
       /\ pc[g] \in {"lock", "flock", "head", "rest", "newline", "remember"} => ~err[g]
  /\ \A m \in acked : \E i \in Terminated : EndsWhole(file[i], m)

\* While no write stopped early every line but the one being written is a
\* message.
LineInv ==
  faults = 0 =>
    /\ \A i \in Terminated : IsMessage(file[i])
    /\ \/ file[Len(file)] = <<>>
       \/ \E g \in Goroutines :
            \/ pc[g] = "rest" /\ file[Len(file)] = <<Piece(Msg(g), "head")>>
            \/ pc[g] = "newline" /\ file[Len(file)] = Whole(Msg(g))

\* What a session remembers of its own are calls that are over, all but their
\* return; and only its own since it was opened.
MemInv ==
  \A s \in Sessions : \A n \in 1..Len(mem[s]) :
    /\ SessionOf[mem[s][n][1]] = s =>
         /\ mem[s][n][2] <= sent[mem[s][n][1]]
         /\ mem[s][n][2] = sent[mem[s][n][1]] => pc[mem[s][n][1]] \in {"release", "idle"}
    /\ n > base[s] => SessionOf[mem[s][n][1]] = s

\* The message a goroutine is about to remember is the last of its session in
\* the file, and so the session's memory has the file's order.
OrderInv ==
  /\ \A g \in Goroutines : pc[g] \in {"newline", "unlock", "remember"} =>
       \A p, q \in LastPieces :
         At(p) = Piece(Msg(g), "rest") /\ SessionOf[At(q).of[1]] = SessionOf[g] =>
           q = p \/ Before(q, p)
  /\ \A s \in Sessions : \A i, j \in base[s] + 1 .. Len(mem[s]) :
       i < j /\ mem[s][i] \in acked /\ mem[s][j] \in acked =>
         \A p, q \in Filed :
           At(p) = Piece(mem[s][i], "rest") /\ At(q) = Piece(mem[s][j], "rest") => Before(p, q)

\* The order of the last pieces is one: each has its rank, and they rise.
LogInv ==
  /\ IsFiniteSet(LastPieces)
  /\ \A n \in 1..Cardinality(LastPieces) : InOrder(LastPieces)[n] \in LastPieces
  /\ \A p \in LastPieces : \E n \in 1..Cardinality(LastPieces) : InOrder(LastPieces)[n] = p
  /\ \A i, j \in 1..Cardinality(LastPieces) :
       i < j => Before(InOrder(LastPieces)[i], InOrder(LastPieces)[j])

IInv == TypeOK /\ LockInv /\ PieceInv /\ TailInv /\ LineInv /\ MemInv /\ LogInv /\ OrderInv

-----------------------------------------------------------------------------
(* Types and locks.                                                        *)

\* What the invariant says of every call in types.
LEMMA Typing ==
  ASSUME TypeOK
  PROVE  /\ flock \in Sessions \cup {None} /\ mu \in [Sessions -> Goroutines \cup {None}]
         /\ status \in [Sessions -> {"absent", "read", "open", "closed", "corrupt"}]
         /\ pc \in [Goroutines -> InMu \cup {"idle", "lock"}]
         /\ sent \in [Goroutines -> 0..MaxAppends] /\ err \in [Goroutines -> BOOLEAN]
         /\ acked \subseteq Message /\ faults \in 0..MaxFaults
         /\ SessionOf \in [Goroutines -> Sessions] /\ None \notin Sessions \cup Goroutines
         /\ MaxAppends \in Nat /\ MaxOpens \in Nat /\ MaxFaults \in Nat
  BY StoreAssumption DEF TypeOK

\* The sequences, kept apart from the rest.
LEMMA SeqTyping ==
  ASSUME TypeOK
  PROVE  /\ file \in Seq(Seq(Pieces)) /\ Len(file) >= 1 /\ Len(file) \in Nat
         /\ file[Len(file)] \in Seq(Pieces) /\ Len(file[Len(file)]) \in Nat
         /\ mem \in [Sessions -> Seq(Message)] /\ base \in [Sessions -> Nat]
         /\ opens \in [Sessions -> 0..MaxOpens]
  BY DEF TypeOK

\* A message that was appended is one of the bounded number.
LEMMA MsgType ==
  ASSUME TypeOK, NEW g \in Goroutines, sent[g] >= 1
  PROVE  Msg(g) \in Message /\ Msg(g)[1] = g /\ Msg(g)[2] = sent[g]
  BY Typing DEF Msg, Message

\* Whatever is on file is a piece of a message.
LEMMA PieceType ==
  ASSUME TypeOK, NEW p \in Filed
  PROVE  /\ At(p) \in Pieces /\ At(p).of \in Message /\ At(p).part \in {"head", "rest"}
         /\ At(p) = Piece(At(p).of, At(p).part)
         /\ At(p).of[1] \in Goroutines /\ At(p).of[2] \in 1..MaxAppends
         /\ At(p).of = <<At(p).of[1], At(p).of[2]>>
         /\ p = <<p[1], p[2]>> /\ p[1] \in 1..Len(file) /\ p[2] \in 1..Len(file[p[1]])
  <1>1. /\ p = <<p[1], p[2]>> /\ p[1] \in 1..Len(file) /\ p[2] \in 1..Len(file[p[1]])
        /\ At(p) \in Pieces
    BY SeqTyping, PlacesOf DEF Filed, At
  <1>2. At(p).of \in Message /\ At(p).part \in {"head", "rest"} /\ At(p) = Piece(At(p).of, At(p).part)
    BY <1>1 DEF Pieces, Piece
  <1> QED BY <1>1, <1>2 DEF Message

\* A step of one goroutine inside Append leaves the others where they are.
StepOf(g) ==
  \/ LockMu(g) \/ LockFile(g) \/ Refused(g) \/ WritePiece(g) \/ WriteNewline(g)
  \/ WriteFails(g) \/ UnlockFile(g) \/ Remember(g) \/ ReleaseMu(g)

\* The steps there are.
LEMMA StepForms ==
  ASSUME [Next]_vars
  PROVE  \/ \E s \in Sessions : ReadAllMessages(s) \/ OpenForAppend(s) \/ Close(s) \/ Crash(s)
         \/ \E g \in Goroutines : CallAppend(g) \/ StepOf(g)
         \/ UNCHANGED vars
  BY DEF Next, InAppend, StepOf

\* Where a goroutine goes inside Append.
LEMMA GoesOn ==
  ASSUME TypeOK, NEW g \in Goroutines, StepOf(g)
  PROVE  /\ pc' = [pc EXCEPT ![g] = pc'[g]] /\ pc[g] # "idle"
         /\ UNCHANGED <<status, base, opens, sent>>
         /\ \/ pc[g] = "lock" /\ pc'[g] \in {"flock", "remember"}
            \/ pc[g] = "flock" /\ pc'[g] \in {"head", "release"}
            \/ pc[g] = "head" /\ pc'[g] \in {"rest", "unlock"}
            \/ pc[g] = "rest" /\ pc'[g] \in {"newline", "unlock"}
            \/ pc[g] = "newline" /\ pc'[g] = "unlock"
            \/ pc[g] = "unlock" /\ pc'[g] \in {"remember", "release"}
            \/ pc[g] = "remember" /\ pc'[g] = "release"
            \/ pc[g] = "release" /\ pc'[g] = "idle"
  <1> USE Typing DEF Goto, sessionVars, lockVars
  <1>1. CASE LockMu(g) \/ LockFile(g) \/ Refused(g)
    BY <1>1 DEF LockMu, LockFile, Refused
  <1>2. CASE WritePiece(g) \/ WriteNewline(g) \/ WriteFails(g)
    BY <1>2 DEF WritePiece, WriteNewline, WriteFails
  <1>3. CASE UnlockFile(g) \/ Remember(g) \/ ReleaseMu(g)
    BY <1>3 DEF UnlockFile, Remember, ReleaseMu
  <1> QED BY <1>1, <1>2, <1>3 DEF StepOf

\* One writer at a time, and one goroutine of a session past its mutex.
LEMMA Exclusive ==
  ASSUME TypeOK, LockInv, NEW g \in Goroutines, NEW h \in Goroutines
  PROVE  /\ pc[g] \in InMu /\ pc[h] \in InMu /\ SessionOf[g] = SessionOf[h] => g = h
         /\ pc[g] \in InFlock /\ pc[h] \in InFlock => g = h
  BY DEF LockInv, InFlock, InMu

\* Mutual exclusion is kept by every step.
LEMMA NextLock == ASSUME TypeOK, LockInv, [Next]_vars PROVE LockInv'
  <1> USE Typing DEF Goto, sessionVars, lockVars
  <1>1. ASSUME NEW s \in Sessions, ReadAllMessages(s) PROVE LockInv'
    <2>1. /\ \A g \in Goroutines : SessionOf[g] = s => pc[g] = "idle"
          /\ \A r \in Sessions : r # s => status'[r] = status[r]
          /\ UNCHANGED <<flock, mu, pc, sent>>
      BY <1>1 DEF ReadAllMessages
    <2> QED BY <2>1 DEF LockInv, InMu, InFlock
  <1>2. ASSUME NEW s \in Sessions, OpenForAppend(s) PROVE LockInv'
    <2>1. status' = [status EXCEPT ![s] = "open"] /\ UNCHANGED <<flock, mu, pc, sent>>
      BY <1>2 DEF OpenForAppend
    <2> QED BY <2>1 DEF LockInv
  <1>3. ASSUME NEW s \in Sessions, Close(s) PROVE LockInv'
    <2>1. /\ mu[s] = None /\ status' = [status EXCEPT ![s] = "closed"]
          /\ flock' = (IF flock = s THEN None ELSE flock) /\ UNCHANGED <<mu, pc, sent>>
      BY <1>3 DEF Close
    <2>2. \A g \in Goroutines : pc[g] \in InMu => SessionOf[g] # s
      BY <2>1 DEF LockInv
    <2>3. InFlock \cup {"flock"} \subseteq InMu
      BY DEF InFlock, InMu
    <2> QED BY <2>1, <2>2, <2>3 DEF LockInv
  <1>4. ASSUME NEW s \in Sessions, Crash(s) PROVE LockInv'
    <2>1. /\ status' = [status EXCEPT ![s] = "absent"] /\ mu' = [mu EXCEPT ![s] = None]
          /\ flock' = (IF flock = s THEN None ELSE flock) /\ UNCHANGED sent
          /\ pc' = [g \in Goroutines |-> IF g \in {h \in Goroutines : SessionOf[h] = s} THEN "idle" ELSE pc[g]]
      BY <1>4 DEF Crash
    <2>2. \A g \in Goroutines : IF SessionOf[g] = s THEN pc'[g] = "idle" ELSE pc'[g] = pc[g]
      BY <2>1
    <2>3. "idle" \notin InMu /\ "idle" \notin InFlock \cup {"flock"}
      BY DEF InFlock, InMu
    <2>4. \A g \in Goroutines : SessionOf[g] # s =>
            mu'[SessionOf[g]] = mu[SessionOf[g]] /\ status'[SessionOf[g]] = status[SessionOf[g]]
      BY <2>1
    <2> QED BY <2>1, <2>2, <2>3, <2>4 DEF LockInv
  <1>5. ASSUME NEW g \in Goroutines, CallAppend(g) PROVE LockInv'
    <2>1. /\ pc' = [pc EXCEPT ![g] = "lock"] /\ sent' = [sent EXCEPT ![g] = @ + 1]
          /\ status[SessionOf[g]] \in {"open", "closed"} /\ UNCHANGED <<flock, mu, status>>
      BY <1>5 DEF CallAppend
    <2> QED BY <2>1 DEF LockInv, InMu, InFlock
  <1>6. ASSUME NEW g \in Goroutines, StepOf(g) PROVE LockInv'
    <2>1. /\ pc' = [pc EXCEPT ![g] = pc'[g]] /\ pc[g] # "idle" /\ UNCHANGED <<status, sent>>
          /\ \A h \in Goroutines : h # g => pc'[h] = pc[h]
      BY <1>6, GoesOn
    <2>2. CASE LockMu(g)
      <3>1. /\ pc[g] = "lock" /\ mu[SessionOf[g]] = None
            /\ mu' = [mu EXCEPT ![SessionOf[g]] = g] /\ UNCHANGED flock
            /\ pc'[g] = IF status[SessionOf[g]] = "open" THEN "flock" ELSE "remember"
        BY <2>2 DEF LockMu, MuFree
      <3>2. \A h \in Goroutines : pc[h] \in InMu => SessionOf[h] # SessionOf[g]
        BY <3>1 DEF LockInv
      <3> QED BY <2>1, <3>1, <3>2 DEF LockInv, InMu, InFlock
    <2>3. CASE LockFile(g)
      <3>1. /\ pc[g] = "flock" /\ pc'[g] = "head" /\ flock \in {None, SessionOf[g]}
            /\ flock' = SessionOf[g] /\ UNCHANGED mu
        BY <2>3 DEF LockFile, FlockFree
      <3>2. \A h \in Goroutines : pc[h] \in InFlock => h = g
        <4> SUFFICES ASSUME NEW h \in Goroutines, pc[h] \in InFlock PROVE h = g
          OBVIOUS
        <4>1. SessionOf[h] = SessionOf[g]
          BY <3>1 DEF LockInv
        <4> QED BY <3>1, <4>1, Exclusive DEF InFlock, InMu
      <3> QED BY <2>1, <3>1, <3>2 DEF LockInv, InMu, InFlock
    <2>4. CASE UnlockFile(g)
      <3>1. pc[g] = "unlock" /\ pc'[g] \in {"release", "remember"} /\ flock' = None /\ UNCHANGED mu
        BY <2>4 DEF UnlockFile, Unlocked
      <3>2. \A h \in Goroutines : pc[h] \in InFlock => h = g
        BY <3>1, Exclusive DEF InFlock
      <3> QED BY <2>1, <3>1, <3>2 DEF LockInv, InMu, InFlock
    <2>5. CASE ReleaseMu(g)
      <3>1. pc[g] = "release" /\ pc'[g] = "idle" /\ mu' = [mu EXCEPT ![SessionOf[g]] = None]
            /\ UNCHANGED flock
        BY <2>5 DEF ReleaseMu, Released
      <3>2. \A h \in Goroutines : h # g /\ pc[h] \in InMu => SessionOf[h] # SessionOf[g]
        BY <3>1, Exclusive DEF InMu
      <3> QED BY <2>1, <3>1, <3>2 DEF LockInv, InMu, InFlock
    <2>6. CASE Refused(g) \/ WritePiece(g) \/ WriteNewline(g) \/ WriteFails(g) \/ Remember(g)
      <3>1. UNCHANGED <<mu, flock>> /\ pc[g] \in InMu
            /\ pc'[g] \in InMu \ {"flock"} /\ (pc'[g] \in InFlock => pc[g] \in InFlock)
        BY <2>6 DEF Refused, WritePiece, WriteNewline, WriteFails, Remember, InMu, InFlock
      <3> QED BY <2>1, <3>1 DEF LockInv
    <2> QED BY <1>6, <2>2, <2>3, <2>4, <2>5, <2>6 DEF StepOf
  <1>7. CASE UNCHANGED vars
    BY <1>7 DEF vars, LockInv
  <1> QED BY <1>1, <1>2, <1>3, <1>4, <1>5, <1>6, <1>7, StepForms

-----------------------------------------------------------------------------
(* What a step does to the file.                                           *)

\* The place the next piece goes to.
NewPlace == EndOf(file)

\* A piece is put behind the others and moves none.
LEMMA WriteEffect ==
  ASSUME TypeOK, NEW g \in Goroutines, WritePiece(g), sent[g] >= 1
  PROVE  /\ pc[g] \in {"head", "rest"} /\ Piece(Msg(g), pc[g]) \in Pieces
         /\ file' \in Seq(Seq(Pieces)) /\ Len(file') = Len(file)
         /\ \A i \in Terminated : file'[i] = file[i]
         /\ file'[Len(file)] = Append(file[Len(file)], Piece(Msg(g), pc[g]))
         /\ Filed' = Filed \cup {NewPlace} /\ NewPlace \notin Filed
         /\ file'[NewPlace[1]][NewPlace[2]] = Piece(Msg(g), pc[g])
         /\ \A p \in Filed : At(p)' = At(p) /\ Before(p, NewPlace) /\ ~Before(NewPlace, p)
  <1>1. /\ pc[g] \in {"head", "rest"}
        /\ file' = [file EXCEPT ![Len(file)] = Append(@, Piece(Msg(g), pc[g]))]
    BY DEF WritePiece, AppendPiece
  <1>2. Piece(Msg(g), pc[g]) \in Pieces
    BY <1>1, MsgType DEF Piece, Pieces
  <1>3. PICK x : x = Piece(Msg(g), pc[g])
    OBVIOUS
  <1>4. PICK new : new = EndOf(file)
    OBVIOUS
  <1>5. PICK t : t = file'
    OBVIOUS
  <1>6. t \in Seq(Seq(Pieces)) /\ Grown(file, x, t, new)
    <2>1. t = WithPiece(file, x) /\ x \in Pieces
      BY <1>1, <1>2, <1>3, <1>5 DEF WithPiece
    <2>2. file \in Seq(Seq(Pieces)) /\ Len(file) >= 1
      BY SeqTyping
    <2> QED BY ONLY <1>4, <2>1, <2>2, PieceWritten
  <1>7. /\ file' \in Seq(Seq(Pieces)) /\ Len(file') = Len(file)
        /\ \A i \in Terminated : file'[i] = file[i]
        /\ file'[Len(file)] = Append(file[Len(file)], Piece(Msg(g), pc[g]))
    BY <1>3, <1>5, <1>6 DEF Terminated, Grown
  <1>8. Filed' = Filed \cup {NewPlace} /\ NewPlace \notin Filed
    BY <1>4, <1>5, <1>6 DEF Filed, NewPlace, Grown
  <1>9. file'[NewPlace[1]][NewPlace[2]] = Piece(Msg(g), pc[g])
    BY <1>3, <1>4, <1>5, <1>6 DEF NewPlace, Grown
  <1>10. \A p \in Filed : At(p)' = At(p) /\ Before(p, NewPlace) /\ ~Before(NewPlace, p)
    BY <1>4, <1>5, <1>6 DEF Filed, At, NewPlace, Grown
  <1> QED BY <1>1, <1>2, <1>7, <1>8, <1>9, <1>10

\* A newline begins a line and moves no piece.
LEMMA NewlineEffect ==
  ASSUME TypeOK, file' = AppendNewline
  PROVE  /\ file' \in Seq(Seq(Pieces)) /\ Len(file') = Len(file) + 1
         /\ \A i \in 1..Len(file) : file'[i] = file[i]
         /\ file'[Len(file) + 1] = <<>>
         /\ Filed' = Filed /\ \A p \in Filed : At(p)' = At(p)
  <1>1. PICK t : t = file'
    OBVIOUS
  <1>2. t = WithNewline(file)
    BY <1>1 DEF AppendNewline, WithNewline
  <1>3. t \in Seq(Seq(Pieces)) /\ Longer(file, t)
    <2>1. file \in Seq(Seq(Pieces))
      BY SeqTyping
    <2> QED BY ONLY <1>2, <2>1, NewlineWritten
  <1> QED BY <1>1, <1>3 DEF Filed, At, Longer

\* Only writing changes the file.
LEMMA FileStays ==
  ASSUME [Next]_vars, \A g \in Goroutines : ~WritePiece(g) /\ ~WriteNewline(g)
  PROVE  file' = file /\ UNCHANGED <<Filed, LastPieces>> /\ \A p : At(p)' = At(p)
  <1>1. file' = file
    BY StepForms DEF StepOf, ReadAllMessages, OpenForAppend, Close, Crash, CallAppend, LockMu, LockFile,
       Refused, WriteFails, UnlockFile, Remember, ReleaseMu, vars
  <1> QED BY <1>1 DEF Filed, At, LastPieces

-----------------------------------------------------------------------------
(* The log.                                                                *)

\* The log is a sequence of the messages of the last pieces.
LEMMA WrittenType ==
  ASSUME TypeOK, LogInv
  PROVE  /\ Written \in Seq(Message) /\ Len(Written) = Cardinality(LastPieces)
         /\ Cardinality(LastPieces) \in Nat
         /\ \A n \in 1..Len(Written) : /\ Written[n] = At(InOrder(LastPieces)[n]).of
                                       /\ InOrder(LastPieces)[n] \in LastPieces
  <1>1. PICK last : last = InOrder(LastPieces)
    OBVIOUS
  <1>2. PICK k : k = Cardinality(LastPieces)
    OBVIOUS
  <1>3. k \in Nat /\ DOMAIN last = 1..k
    BY <1>1, <1>2, FS_CardinalityType DEF LogInv, InOrder
  <1>4. Written = [n \in 1..k |-> At(last[n]).of]
    BY <1>1, <1>3 DEF Written, At
  <1>5. \A n \in 1..k : last[n] \in LastPieces
    BY <1>1, <1>2 DEF LogInv
  <1>6. \A p \in LastPieces : At(p).of \in Message
    <2>1. LastPieces \subseteq Filed
      BY DEF LastPieces, Filed
    <2> QED BY <2>1, PieceType
  <1>7. Written \in Seq(Message) /\ Len(Written) = k
    BY <1>3, <1>4, <1>5, <1>6
  <1> QED BY <1>1, <1>2, <1>3, <1>4, <1>5, <1>7

\* The last pieces stand in one order, which grows at its end.
LEMMA LogGrows ==
  ASSUME TypeOK, LockInv, LogInv, [Next]_vars
  PROVE  /\ LogInv'
         /\ \A g \in Goroutines : WritePiece(g) /\ pc[g] = "rest" => Written' = Append(Written, Msg(g))
         /\ (\A g \in Goroutines : ~(WritePiece(g) /\ pc[g] = "rest")) => UNCHANGED Written
  <1>1. CASE \A g \in Goroutines : ~WritePiece(g) /\ ~WriteNewline(g)
    <2>1. UNCHANGED <<file, LastPieces>>
      BY <1>1, FileStays
    <2>2. LogInv' /\ UNCHANGED Written
      BY <2>1 DEF LogInv, Written
    <2> QED BY <1>1, <2>2
  <1>w. ASSUME Filed' = Filed, \A p \in Filed : At(p)' = At(p)
        PROVE  LogInv' /\ UNCHANGED Written
    <2>1. LastPieces = {p \in Filed : At(p).part = "rest"}
      BY DEF LastPieces, Filed, At
    <2>2. LastPieces' = {p \in Filed' : At(p)'.part = "rest"}
      BY DEF LastPieces, Filed, At
    <2>3. LastPieces' = LastPieces
      BY <1>w, <2>1, <2>2
    <2>4. LogInv'
      BY <2>3 DEF LogInv
    <2>5. \A n \in 1..Cardinality(LastPieces) : InOrder(LastPieces)[n] \in Filed
      BY <2>1 DEF LogInv
    <2>6. Written' = Written
      <3>1. PICK last : last = InOrder(LastPieces)
        OBVIOUS
      <3>2. DOMAIN last = 1..Cardinality(LastPieces) /\ last = InOrder(LastPieces')
        BY <2>3, <3>1 DEF InOrder
      <3>3. \A n \in DOMAIN last : last[n] \in Filed
        BY <2>5, <3>1, <3>2
      <3>4. /\ Written = [n \in DOMAIN last |-> At(last[n]).of]
            /\ Written' = [n \in DOMAIN last |-> At(last[n])'.of]
        BY <3>1, <3>2 DEF Written, At
      <3> QED BY <1>w, <3>3, <3>4
    <2> QED BY <2>4, <2>6
  <1>2. ASSUME NEW g \in Goroutines, WriteNewline(g) PROVE LogInv' /\ UNCHANGED Written
    <2>1. file' = AppendNewline
      BY <1>2 DEF WriteNewline
    <2> QED BY <1>w, <2>1, NewlineEffect
  <1>3. ASSUME NEW g \in Goroutines, WritePiece(g)
        PROVE  /\ LogInv'
               /\ IF pc[g] = "rest" THEN Written' = Append(Written, Msg(g)) ELSE UNCHANGED Written
    <2>0. pc[g] \in {"head", "rest"} /\ sent[g] >= 1
      BY <1>3 DEF WritePiece, LockInv
    <2>1. PICK new : new = NewPlace
      OBVIOUS
    <2>2. /\ Filed' = Filed \cup {new} /\ new \notin Filed
          /\ At(new)' = Piece(Msg(g), pc[g])
          /\ \A p \in Filed : At(p)' = At(p) /\ Before(p, new) /\ ~Before(new, p)
      BY <1>3, <2>0, <2>1, WriteEffect DEF At
    <2>3. /\ LastPieces = {p \in Filed : At(p).part = "rest"}
          /\ LastPieces' = {p \in Filed' : At(p)'.part = "rest"}
      BY DEF LastPieces, Filed, At
    <2>4. LastPieces' = IF pc[g] = "rest" THEN LastPieces \cup {new} ELSE LastPieces
      BY <2>0, <2>2, <2>3 DEF Piece
    <2> DEFINE size == Cardinality(LastPieces)
    <2>5. \A n \in 1..size : InOrder(LastPieces)[n] \in Filed
      BY <2>3 DEF LogInv
    <2>6. CASE pc[g] = "head"
      <3>1. LastPieces' = LastPieces
        BY <2>4, <2>6
      <3>2. LogInv'
        BY <3>1 DEF LogInv
      <3>3. PICK last : last = InOrder(LastPieces)
        OBVIOUS
      <3>4. DOMAIN last = 1..size /\ last = InOrder(LastPieces')
        BY <3>1, <3>3 DEF InOrder
      <3>5. /\ Written = [n \in DOMAIN last |-> At(last[n]).of]
            /\ Written' = [n \in DOMAIN last |-> At(last[n])'.of]
        BY <3>3, <3>4 DEF Written, At
      <3>6. Written' = Written
        BY <2>2, <2>5, <3>3, <3>4, <3>5
      <3>7. pc[g] # "rest"
        BY <2>6
      <3> QED BY <3>2, <3>6, <3>7, Zenon
    <2>7. CASE pc[g] = "rest"
      <3>1. PICK S : S = LastPieces
        OBVIOUS
      <3>2. LastPieces' = S \cup {new}
        BY <2>4, <2>7, <3>1
      <3>3. IsFiniteSet(S) /\ new \notin S /\ \A p \in S : Before(p, new) /\ ~Before(new, p)
        BY <2>2, <2>3, <3>1 DEF LogInv
      <3>4. /\ IsFiniteSet(S \cup {new}) /\ Cardinality(S) \in Nat
            /\ Cardinality(S \cup {new}) = Cardinality(S) + 1
            /\ \A n \in 1..Cardinality(S) : InOrder(S \cup {new})[n] = InOrder(S)[n]
            /\ InOrder(S \cup {new})[Cardinality(S) + 1] = new
        BY <3>3, InOrderGrows
      <3>5. PICK k : k = Cardinality(S)
        OBVIOUS
      <3>6. PICK last, later : last = InOrder(S) /\ later = InOrder(S \cup {new})
        OBVIOUS
      <3>7. /\ k \in Nat /\ DOMAIN last = 1..k /\ DOMAIN later = 1..(k + 1)
            /\ \A n \in 1..k : later[n] = last[n]
            /\ later[k + 1] = new
        BY <3>4, <3>5, <3>6 DEF InOrder
      <3>8. /\ \A n \in 1..k : last[n] \in S
            /\ \A p \in S : \E n \in 1..k : last[n] = p
            /\ \A i, j \in 1..k : i < j => Before(last[i], last[j])
        BY <3>1, <3>5, <3>6 DEF LogInv
      <3>9. /\ \A n \in 1..(k + 1) : later[n] \in S \cup {new}
            /\ \A p \in S \cup {new} : \E n \in 1..(k + 1) : later[n] = p
            /\ \A i, j \in 1..(k + 1) : i < j => Before(later[i], later[j])
        BY <3>3, <3>7, <3>8
      <3>10. LogInv'
        BY <3>2, <3>4, <3>5, <3>6, <3>9 DEF LogInv
      <3>11. /\ Written = [n \in 1..k |-> At(last[n]).of]
             /\ Written' = [n \in 1..(k + 1) |-> At(later[n])'.of]
        BY <3>1, <3>2, <3>6, <3>7 DEF Written, At
      <3>12. \A n \in 1..k : At(later[n])' = At(last[n])
        <4> SUFFICES ASSUME NEW n \in 1..k PROVE At(later[n])' = At(last[n])
          OBVIOUS
        <4>1. later[n] = last[n] /\ last[n] \in Filed
          BY <2>3, <3>1, <3>7, <3>8
        <4> QED BY <2>2, <4>1 DEF At
      <3>13. At(later[k + 1])' = Piece(Msg(g), "rest")
        BY <2>2, <2>7, <3>7 DEF At
      <3>14. Written' = [n \in 1..(k + 1) |-> IF n = k + 1 THEN Msg(g) ELSE Written[n]]
        BY <3>7, <3>11, <3>12, <3>13 DEF Piece
      <3>15. Written \in Seq(Message) /\ Len(Written) = k
        BY <3>1, <3>5, WrittenType
      <3>16. Written' = Append(Written, Msg(g))
        <4>1. PICK log, m : log = Written /\ m = Msg(g)
          OBVIOUS
        <4>2. log \in Seq(Message) /\ Len(log) = k
          BY <3>15, <4>1
        <4>3. /\ DOMAIN Append(log, m) = 1..(k + 1) /\ Append(log, m)[k + 1] = m
              /\ \A n \in 1..k : Append(log, m)[n] = log[n]
          BY <3>7, <4>2
        <4>4. Append(log, m) = [n \in 1..(k + 1) |-> Append(log, m)[n]]
          <5>1. PICK longer : longer = Append(log, m)
            OBVIOUS
          <5>2. longer \in Seq(Message \cup {m}) /\ Len(longer) = k + 1
            BY <4>2, <5>1
          <5>3. longer = [n \in 1..(k + 1) |-> longer[n]]
            BY <5>2, <3>7
          <5> QED BY ONLY <5>1, <5>3
        <4>5. Append(log, m) = [n \in 1..(k + 1) |-> IF n = k + 1 THEN m ELSE log[n]]
          BY <3>7, <4>3, <4>4
        <4> QED BY <3>14, <4>1, <4>5
      <3> QED BY <2>7, <3>10, <3>16, Zenon
    <2>8. pc[g] = "head" \/ pc[g] = "rest"
      BY <2>0
    <2>9. "head" # "rest"
      OBVIOUS
    <2> HIDE DEF size
    <2> QED BY <2>6, <2>7, <2>8, <2>9, Zenon
  <1> QED BY <1>1, <1>2, <1>3
\* readAllMessages, if it returns, returns the log.
LEMMA ReadsWritten ==
  ASSUME TypeOK, LogInv, Parses(file)
  PROVE  MessagesOf(file) = Written /\ MessagesOf(file) \in Seq(Message)
  <1>1. \A i \in 1..Len(file) : file[i] \in Seq(Pieces) /\ DOMAIN file[i] = 1..Len(file[i])
    BY SeqTyping
  <1>2. DOMAIN file = 1..Len(file)
    BY SeqTyping
  <1>3. ASSUME NEW i \in 1..Len(file), IsMessage(file[i])
        PROVE  /\ Len(file[i]) = 2 /\ file[i][1].part = "head" /\ file[i][2].part = "rest"
               /\ file[i][1].of = file[i][2].of
    <2>1. PICK m : file[i] = <<Piece(m, "head"), Piece(m, "rest")>>
      BY <1>3 DEF IsMessage, Whole
    <2> QED BY <2>1 DEF Piece
  <1>4. \A i \in 1..Len(file) : IsMessage(file[i]) \/ Len(file[i]) = 0
    BY <1>2 DEF Parses, Blank
  <1>5. {i \in DOMAIN file : IsMessage(file[i])} \X {2} = LastPieces
    <2>1. \A p \in Filed : p = <<p[1], p[2]>> /\ p[1] \in 1..Len(file) /\ p[2] \in 1..Len(file[p[1]])
      BY PieceType
    <2>2. LastPieces = {p \in Filed : file[p[1]][p[2]].part = "rest"}
      BY DEF LastPieces, Filed
    <2>3. \A i \in 1..Len(file) : \A k \in 1..Len(file[i]) : <<i, k>> \in Filed
      BY SeqTyping, PlacesOf DEF Filed
    <2>4. ASSUME NEW p \in LastPieces
          PROVE  p \in {i \in DOMAIN file : IsMessage(file[i])} \X {2}
      <3>1. p[1] \in 1..Len(file) /\ p[2] \in 1..Len(file[p[1]]) /\ p = <<p[1], p[2]>>
        BY <2>1, <2>2
      <3>2. IsMessage(file[p[1]])
        BY <1>4, <3>1
      <3>3. p[2] \in {1, 2} /\ p[2] # 1
        BY <1>3, <2>2, <3>1, <3>2
      <3>4. p = <<p[1], 2>>
        BY <3>1, <3>3
      <3> QED BY <1>2, <3>1, <3>2, <3>4
    <2>5. ASSUME NEW i \in 1..Len(file), IsMessage(file[i]) PROVE <<i, 2>> \in LastPieces
      BY <1>3, <2>2, <2>3, <2>5
    <2>6. \A p \in {i \in DOMAIN file : IsMessage(file[i])} \X {2} : p \in LastPieces
      BY <1>2, <2>5
    <2> QED BY <2>4, <2>6
  <1>6. PICK read : read = InOrder(LastPieces)
    OBVIOUS
  <1>7. MessagesOf(file) = [n \in DOMAIN read |-> file[read[n][1]][1].of]
    BY <1>5, <1>6 DEF MessagesOf
  <1>8. Written = [n \in DOMAIN read |-> file[read[n][1]][read[n][2]].of]
    BY <1>6 DEF Written
  <1>9. \A n \in DOMAIN read : file[read[n][1]][1].of = file[read[n][1]][read[n][2]].of
    <2> SUFFICES ASSUME NEW n \in DOMAIN read
                 PROVE  file[read[n][1]][1].of = file[read[n][1]][read[n][2]].of
      OBVIOUS
    <2>1. n \in 1..Cardinality(LastPieces)
      BY <1>6 DEF InOrder
    <2>2. read[n] \in {i \in DOMAIN file : IsMessage(file[i])} \X {2}
      BY <1>5, <1>6, <2>1 DEF LogInv
    <2>3. read[n][1] \in 1..Len(file) /\ IsMessage(file[read[n][1]]) /\ read[n][2] = 2
      BY <1>2, <2>2
    <2> QED BY <1>3, <2>3
  <1>10. MessagesOf(file) = Written
    BY <1>7, <1>8, <1>9
  <1> QED BY <1>10, WrittenType

-----------------------------------------------------------------------------
(* Every part of the invariant holds after every step.                     *)

\* What a step may do to one goroutine: nothing, a return or a death, a call of
\* Append, or a step inside Append.
Moved(g) ==
  \/ /\ sent'[g] = sent[g] /\ pc'[g] = pc[g] /\ err'[g] = err[g]
     /\ pc[g] \in InMu => status'[SessionOf[g]] = status[SessionOf[g]]
  \/ sent'[g] = sent[g] /\ pc'[g] = "idle"
  \/ sent'[g] = sent[g] + 1 /\ pc[g] = "idle" /\ pc'[g] = "lock" /\ ~err'[g]
  \/ StepOf(g) /\ sent'[g] = sent[g] /\ status'[SessionOf[g]] = status[SessionOf[g]]

\* Nothing else happens to a goroutine.
LEMMA MovedAll ==
  ASSUME TypeOK, LockInv, [Next]_vars
  PROVE  \A g \in Goroutines : Moved(g)
  <1> USE Typing DEF Goto, sessionVars, lockVars
  <1>1. ASSUME NEW s \in Sessions, ReadAllMessages(s) \/ OpenForAppend(s) \/ Close(s), NEW g \in Goroutines
        PROVE  Moved(g)
    <2>1. UNCHANGED <<pc, sent, err>> /\ \A r \in Sessions : r # s => status'[r] = status[r]
      BY <1>1 DEF ReadAllMessages, OpenForAppend, Close
    <2>2. pc[g] \in InMu /\ SessionOf[g] = s => status'[s] = status[s]
      BY <1>1 DEF ReadAllMessages, OpenForAppend, Close, LockInv, InMu
    <2> QED BY <2>1, <2>2 DEF Moved
  <1>2. ASSUME NEW s \in Sessions, Crash(s), NEW g \in Goroutines PROVE Moved(g)
    <2>1. /\ status' = [status EXCEPT ![s] = "absent"] /\ UNCHANGED <<sent, err>>
          /\ pc' = [h \in Goroutines |-> IF h \in {k \in Goroutines : SessionOf[k] = s} THEN "idle" ELSE pc[h]]
      BY <1>2 DEF Crash
    <2>2. IF SessionOf[g] = s THEN pc'[g] = "idle" ELSE pc'[g] = pc[g]
      BY <2>1
    <2> QED BY <2>1, <2>2 DEF Moved
  <1>3. ASSUME NEW h \in Goroutines, CallAppend(h), NEW g \in Goroutines PROVE Moved(g)
    <2>1. /\ pc' = [pc EXCEPT ![h] = "lock"] /\ sent' = [sent EXCEPT ![h] = @ + 1] /\ pc[h] = "idle"
          /\ err' = [err EXCEPT ![h] = FALSE] /\ UNCHANGED status
      BY <1>3 DEF CallAppend
    <2> QED BY <2>1 DEF Moved
  <1>4. ASSUME NEW h \in Goroutines, StepOf(h), NEW g \in Goroutines PROVE Moved(g)
    <2>1. pc' = [pc EXCEPT ![h] = pc'[h]] /\ UNCHANGED <<status, sent>>
      BY <1>4, GoesOn
    <2>2. err' = [err EXCEPT ![h] = err'[h]]
      BY <1>4 DEF StepOf, LockMu, LockFile, Refused, WritePiece, WriteNewline, WriteFails, UnlockFile,
         Remember, ReleaseMu
    <2> QED BY <1>4, <2>1, <2>2 DEF Moved
  <1>5. CASE UNCHANGED vars
    BY <1>5 DEF vars, Moved
  <1> QED BY <1>1, <1>2, <1>3, <1>4, <1>5, StepForms

\* Types are kept.
LEMMA NextType == ASSUME TypeOK, LockInv, LogInv, [Next]_vars PROVE TypeOK'
  <1>1. file' \in Seq(Seq(Pieces)) /\ Len(file') >= 1
    <2>1. CASE \A g \in Goroutines : ~WritePiece(g) /\ ~WriteNewline(g)
      BY <2>1, FileStays, SeqTyping
    <2>2. ASSUME NEW g \in Goroutines, WritePiece(g) PROVE file' \in Seq(Seq(Pieces)) /\ Len(file') >= 1
      <3>1. sent[g] >= 1
        BY <2>2 DEF WritePiece, LockInv
      <3> QED BY <2>2, <3>1, WriteEffect, SeqTyping
    <2>3. ASSUME NEW g \in Goroutines, WriteNewline(g) PROVE file' \in Seq(Seq(Pieces)) /\ Len(file') >= 1
      BY <2>3, NewlineEffect, SeqTyping DEF WriteNewline
    <2> QED BY <2>1, <2>2, <2>3
  <1>2. mem' \in [Sessions -> Seq(Message)] /\ base' \in [Sessions -> Nat]
    <2>1. mem \in [Sessions -> Seq(Message)] /\ base \in [Sessions -> Nat]
      BY SeqTyping
    <2>2. ASSUME NEW s \in Sessions, ReadAllMessages(s)
          PROVE  mem' \in [Sessions -> Seq(Message)] /\ base' \in [Sessions -> Nat]
      <3>1. CASE Parses(file)
        <4>1. PICK log : log = MessagesOf(file)
          OBVIOUS
        <4>2. log \in Seq(Message) /\ Len(log) \in Nat
          BY <3>1, <4>1, ReadsWritten
        <4>3. mem' = [mem EXCEPT ![s] = log] /\ base' = [base EXCEPT ![s] = Len(log)]
          BY <2>2, <3>1, <4>1 DEF ReadAllMessages
        <4> QED BY <2>1, <4>2, <4>3
      <3>2. CASE ~Parses(file)
        BY <2>1, <2>2, <3>2 DEF ReadAllMessages
      <3> QED BY <3>1, <3>2
    <2>3. ASSUME NEW g \in Goroutines, Remember(g)
          PROVE  mem' \in [Sessions -> Seq(Message)] /\ base' \in [Sessions -> Nat]
      <3>1. Msg(g) \in Message
        BY <2>3, MsgType DEF Remember, LockInv
      <3>2. mem' = [mem EXCEPT ![SessionOf[g]] = Append(@, Msg(g))] /\ UNCHANGED base /\ SessionOf[g] \in Sessions
        BY <2>3, Typing DEF Remember
      <3> QED BY <2>1, <3>1, <3>2
    <2>4. CASE /\ \A s \in Sessions : ~ReadAllMessages(s)
               /\ \A g \in Goroutines : ~Remember(g)
      <3>1. UNCHANGED <<mem, base>>
        BY <2>4, StepForms DEF StepOf, OpenForAppend, Close, Crash, CallAppend, LockMu, LockFile,
           Refused, WritePiece, WriteNewline, WriteFails, UnlockFile, ReleaseMu, vars, sessionVars
      <3> QED BY <2>1, <3>1
    <2> QED BY <2>2, <2>3, <2>4
  <1>3. opens' \in [Sessions -> 0..MaxOpens] /\ status' \in [Sessions -> {"absent", "read", "open", "closed", "corrupt"}]
    <2>1. opens \in [Sessions -> 0..MaxOpens] /\ MaxOpens \in Nat
      BY SeqTyping, Typing
    <2>2. CASE UNCHANGED opens
      <3>1. UNCHANGED status \/ \E s \in Sessions : OpenForAppend(s) \/ Close(s) \/ Crash(s) \/ ReadAllMessages(s)
        BY StepForms, GoesOn DEF CallAppend, sessionVars, vars
      <3>2. status' = status \/ \E s \in Sessions, x \in {"absent", "read", "open", "closed", "corrupt"} :
              status' = [status EXCEPT ![s] = x]
        <4>1. ASSUME NEW s \in Sessions, OpenForAppend(s) \/ Close(s) \/ Crash(s) \/ ReadAllMessages(s)
              PROVE  \E x \in {"absent", "read", "open", "closed", "corrupt"} : status' = [status EXCEPT ![s] = x]
          BY <4>1 DEF OpenForAppend, Close, Crash, ReadAllMessages
        <4> QED BY <3>1, <4>1
      <3> QED BY <2>1, <2>2, <3>2, Typing
    <2>3. ASSUME NEW s \in Sessions, ReadAllMessages(s)
          PROVE  opens' \in [Sessions -> 0..MaxOpens] /\ status' \in [Sessions -> {"absent", "read", "open", "closed", "corrupt"}]
      <3>1. opens[s] < MaxOpens /\ opens' = [opens EXCEPT ![s] = @ + 1]
            /\ \E x \in {"read", "corrupt"} : status' = [status EXCEPT ![s] = x]
        BY <2>3 DEF ReadAllMessages
      <3> QED BY <2>1, <3>1, Typing
    <2>4. UNCHANGED opens \/ \E s \in Sessions : ReadAllMessages(s)
      BY StepForms, GoesOn DEF OpenForAppend, Close, Crash, CallAppend, sessionVars, vars,
         StepOf, LockMu, LockFile, Refused, WritePiece, WriteNewline, WriteFails, UnlockFile, Remember, ReleaseMu
    <2> QED BY <2>2, <2>3, <2>4
  <1>4. /\ flock' \in Sessions \cup {None} /\ mu' \in [Sessions -> Goroutines \cup {None}]
        /\ pc' \in [Goroutines -> InMu \cup {"idle", "lock"}]
        /\ sent' \in [Goroutines -> 0..MaxAppends] /\ err' \in [Goroutines -> BOOLEAN]
        /\ faults' \in 0..MaxFaults
    <2> USE Typing DEF Goto, sessionVars, lockVars
    <2> DEFINE Good == /\ flock' \in Sessions \cup {None} /\ mu' \in [Sessions -> Goroutines \cup {None}]
                       /\ pc' \in [Goroutines -> InMu \cup {"idle", "lock"}]
                       /\ sent' \in [Goroutines -> 0..MaxAppends] /\ err' \in [Goroutines -> BOOLEAN]
                       /\ faults' \in 0..MaxFaults
    <2>1. ASSUME NEW s \in Sessions, ReadAllMessages(s) \/ OpenForAppend(s) \/ Close(s) PROVE Good
      <3>1. UNCHANGED <<mu, pc, sent, err, faults>> /\ flock' \in {flock, None}
        BY <2>1 DEF ReadAllMessages, OpenForAppend, Close
      <3> QED BY <3>1
    <2>2. ASSUME NEW s \in Sessions, Crash(s) PROVE Good
      <3>1. /\ UNCHANGED <<sent, err>> /\ flock' \in {flock, None} /\ mu' = [mu EXCEPT ![s] = None]
            /\ \E own : pc' = [g \in Goroutines |-> IF g \in own THEN "idle" ELSE pc[g]]
            /\ faults' = faults \/ (faults < MaxFaults /\ faults' = faults + 1)
        BY <2>2 DEF Crash
      <3> QED BY <3>1
    <2>3. ASSUME NEW g \in Goroutines, CallAppend(g) PROVE Good
      <3>1. /\ UNCHANGED <<flock, mu, faults>> /\ sent[g] < MaxAppends /\ sent' = [sent EXCEPT ![g] = @ + 1]
            /\ err' = [err EXCEPT ![g] = FALSE] /\ pc' = [pc EXCEPT ![g] = "lock"]
        BY <2>3 DEF CallAppend
      <3> QED BY <3>1
    <2>4. ASSUME NEW g \in Goroutines, StepOf(g) PROVE Good
      <3>1. pc' = [pc EXCEPT ![g] = pc'[g]] /\ UNCHANGED sent /\ pc'[g] \in InMu \cup {"idle", "lock"}
        BY <2>4, GoesOn DEF InMu
      <3>2. err' = err \/ err' = [err EXCEPT ![g] = TRUE]
        BY <2>4 DEF StepOf, LockMu, LockFile, Refused, WritePiece, WriteNewline, WriteFails, UnlockFile,
           Remember, ReleaseMu
      <3>3. faults' = faults \/ (faults < MaxFaults /\ faults' = faults + 1)
        BY <2>4 DEF StepOf, LockMu, LockFile, Refused, WritePiece, WriteNewline, WriteFails, UnlockFile,
           Remember, ReleaseMu
      <3>4. flock' \in {flock, None, SessionOf[g]}
        BY <2>4 DEF StepOf, LockMu, LockFile, Refused, WritePiece, WriteNewline, WriteFails, UnlockFile,
           Unlocked, Remember, ReleaseMu
      <3>5. mu' = mu \/ mu' = [mu EXCEPT ![SessionOf[g]] = g] \/ mu' = [mu EXCEPT ![SessionOf[g]] = None]
        BY <2>4 DEF StepOf, LockMu, LockFile, Refused, WritePiece, WriteNewline, WriteFails, UnlockFile,
           Remember, ReleaseMu, Released
      <3>6. pc' \in [Goroutines -> InMu \cup {"idle", "lock"}] /\ sent' \in [Goroutines -> 0..MaxAppends]
        BY <3>1
      <3>7. err' \in [Goroutines -> BOOLEAN]
        BY <3>2
      <3>8. faults' \in 0..MaxFaults
        BY <3>3
      <3>9. flock' \in Sessions \cup {None} /\ mu' \in [Sessions -> Goroutines \cup {None}]
        BY <3>4, <3>5
      <3> QED BY <3>6, <3>7, <3>8, <3>9
    <2>5. CASE UNCHANGED vars
      BY <2>5 DEF vars
    <2> QED BY <2>1, <2>2, <2>3, <2>4, <2>5, StepForms
  <1>5. acked' \subseteq Message
    <2>1. UNCHANGED acked \/ \E g \in Goroutines : UnlockFile(g)
      BY StepForms DEF StepOf, ReadAllMessages, OpenForAppend, Close, Crash, CallAppend, LockMu, LockFile,
         Refused, WritePiece, WriteNewline, WriteFails, Remember, ReleaseMu, vars, sessionVars
    <2>2. ASSUME NEW g \in Goroutines, UnlockFile(g) PROVE acked' \subseteq Message
      <3>1. Msg(g) \in Message /\ acked' \subseteq acked \cup {Msg(g)}
        BY <2>2, MsgType DEF UnlockFile, LockInv
      <3> QED BY <3>1, Typing
    <2> QED BY <2>1, <2>2, Typing
  <1> QED BY <1>1, <1>2, <1>3, <1>4, <1>5 DEF TypeOK

\* A step of a goroutine that writes leaves all others where they are.
LEMMA Others ==
  ASSUME TypeOK, NEW g \in Goroutines, StepOf(g), NEW h \in Goroutines, h # g
  PROVE  pc'[h] = pc[h] /\ sent'[h] = sent[h] /\ Msg(h)' = Msg(h)
  BY GoesOn, Typing DEF Msg

\* Pieces are written once.
LEMMA NextPiece == ASSUME TypeOK, LockInv, PieceInv, [Next]_vars PROVE PieceInv'
  <1> DEFINE Said(p, h) == At(p).of[1] = h =>
               /\ At(p).of[2] <= sent[h]
               /\ At(p).of[2] = sent[h] =>
                    /\ pc[h] \notin {"lock", "flock", "head"}
                    /\ At(p).part = "rest" => pc[h] # "rest"
                    /\ pc[h] = "remember" => status[SessionOf[h]] = "open"
  <1>1. ASSUME NEW p \in Filed, NEW h \in Goroutines, At(p)' = At(p),
               \A g \in Goroutines : StepOf(g) => g = h \/ pc'[h] = pc[h]
        PROVE  Said(p, h)'
    <2>1. Said(p, h) /\ Moved(h)
      BY MovedAll DEF PieceInv
    <2>2. At(p).of[2] \in 1..MaxAppends /\ sent[h] \in 0..MaxAppends /\ MaxAppends \in Nat
      BY PieceType, Typing
    <2>3. CASE sent'[h] = sent[h] /\ pc'[h] = pc[h] /\ (pc[h] \in InMu => status'[SessionOf[h]] = status[SessionOf[h]])
      BY <1>1, <2>1, <2>3 DEF InMu
    <2>4. CASE sent'[h] = sent[h] /\ pc'[h] = "idle"
      BY <1>1, <2>1, <2>4
    <2>5. CASE sent'[h] = sent[h] + 1
      BY <1>1, <2>1, <2>2, <2>5
    <2>6. CASE StepOf(h) /\ sent'[h] = sent[h] /\ status'[SessionOf[h]] = status[SessionOf[h]]
      <3>1. pc[h] \in InFlock => status[SessionOf[h]] = "open"
        BY DEF LockInv
      <3>2. /\ pc'[h] \notin {"lock", "flock"} \/ pc[h] \in {"lock", "flock", "head"}
            /\ pc'[h] \in {"head", "rest", "newline"} => pc[h] \in {"lock", "flock", "head", "rest"}
            /\ pc'[h] = "rest" => pc[h] = "head"
            /\ pc'[h] = "head" => pc[h] = "flock"
            /\ pc'[h] = "remember" => pc[h] \in {"lock", "unlock"}
        BY <2>6, GoesOn
      <3> QED BY <1>1, <2>1, <2>6, <3>1, <3>2 DEF InFlock
    <2> QED BY <2>1, <2>3, <2>4, <2>5, <2>6 DEF Moved
  <1>2. CASE Filed' = Filed /\ \A p \in Filed : At(p)' = At(p)
    <2>1. \A p \in Filed : \A h \in Goroutines : Said(p, h)'
      <3> SUFFICES ASSUME NEW p \in Filed, NEW h \in Goroutines PROVE Said(p, h)'
        OBVIOUS
      <3>1. \A g \in Goroutines : StepOf(g) => g = h \/ pc'[h] = pc[h]
        BY Others
      <3> QED BY <1>1, <1>2, <3>1
    <2>2. \A p, q \in Filed' : At(p)' = At(q)' => p = q
      BY <1>2 DEF PieceInv
    <2> QED BY <1>2, <2>1, <2>2 DEF PieceInv
  <1>3. ASSUME NEW g \in Goroutines, WritePiece(g) PROVE PieceInv'
    <2>1. PICK new : new = NewPlace
      OBVIOUS
    <2>2. sent[g] >= 1 /\ pc[g] \in {"head", "rest"} /\ StepOf(g)
      BY <1>3 DEF WritePiece, LockInv, StepOf
    <2>3. /\ Filed' = Filed \cup {new} /\ new \notin Filed
          /\ At(new)' = Piece(Msg(g), pc[g])
          /\ \A p \in Filed : At(p)' = At(p)
      BY <1>3, <2>1, <2>2, WriteEffect DEF At
    <2>4. Msg(g)[1] = g /\ Msg(g)[2] = sent[g]
      BY <2>2, MsgType
    <2>5. \A p \in Filed : At(p) # Piece(Msg(g), pc[g])
      <3> SUFFICES ASSUME NEW p \in Filed, At(p) = Piece(Msg(g), pc[g]) PROVE FALSE
        OBVIOUS
      <3>1. At(p).of = Msg(g) /\ At(p).part = pc[g]
        BY DEF Piece
      <3>2. Said(p, g)
        BY DEF PieceInv
      <3> QED BY <2>2, <2>4, <3>1, <3>2
    <2>6. \A p, q \in Filed' : At(p)' = At(q)' => p = q
      BY <2>3, <2>5 DEF PieceInv
    <2>7. pc'[g] = (IF pc[g] = "head" THEN "rest" ELSE "newline") /\ UNCHANGED <<sent, status>>
      BY <1>3, Typing DEF WritePiece, Goto, sessionVars
    <2>8. \A p \in Filed : \A h \in Goroutines : Said(p, h)'
      <3> SUFFICES ASSUME NEW p \in Filed, NEW h \in Goroutines PROVE Said(p, h)'
        OBVIOUS
      <3>1. \A k \in Goroutines : StepOf(k) => k = h \/ pc'[h] = pc[h]
        BY Others
      <3> QED BY <1>1, <2>3, <3>1
    <2>9. \A h \in Goroutines : Said(new, h)'
      <3> SUFFICES ASSUME NEW h \in Goroutines, At(new)'.of[1] = h
                   PROVE  /\ At(new)'.of[2] <= sent'[h]
                          /\ pc'[h] \notin {"lock", "flock", "head", "remember"}
                          /\ At(new)'.part = "rest" => pc'[h] # "rest"
        OBVIOUS
      <3>1. At(new)'.of = Msg(g) /\ At(new)'.part = pc[g]
        BY <2>3 DEF Piece
      <3>2. h = g /\ sent[g] \in Nat
        BY <2>4, <3>1, Typing
      <3> QED BY <2>2, <2>4, <2>7, <3>1, <3>2
    <2> QED BY <2>3, <2>6, <2>8, <2>9 DEF PieceInv
  <1>4. CASE \A g \in Goroutines : ~WritePiece(g) /\ ~WriteNewline(g)
    BY <1>2, <1>4, FileStays
  <1>5. ASSUME NEW g \in Goroutines, WriteNewline(g) PROVE PieceInv'
    BY <1>2, <1>5, NewlineEffect DEF WriteNewline
  <1> QED BY <1>3, <1>4, <1>5

\* A message being written is the end of the file.
LEMMA NextTail == ASSUME TypeOK, LockInv, TailInv, [Next]_vars PROVE TailInv'
  <1> DEFINE Tail1(h) == pc[h] = "rest" => /\ Len(file[Len(file)]) >= 1
                                           /\ file[Len(file)][Len(file[Len(file)])] = Piece(Msg(h), "head")
             Tail2(h) == pc[h] = "newline" => EndsWhole(file[Len(file)], Msg(h))
             Tail3(h) == pc[h] = "unlock" /\ ~err[h] => \E i \in Terminated : EndsWhole(file[i], Msg(h))
             Tail4(h) == pc[h] = "remember" /\ status[SessionOf[h]] = "open" => Msg(h) \in acked
             Tail5(h) == pc[h] \in {"lock", "flock", "head", "rest", "newline", "remember"} => ~err[h]
             Ended == \A m \in acked : \E i \in Terminated : EndsWhole(file[i], m)
  <1>0. \A h \in Goroutines : Tail1(h) /\ Tail2(h) /\ Tail3(h) /\ Tail4(h) /\ Tail5(h)
    BY DEF TailInv
  <1>e. Ended
    BY DEF TailInv
  <1>a. acked' = acked \/ \E g \in Goroutines : UnlockFile(g)
    BY StepForms DEF StepOf, ReadAllMessages, OpenForAppend, Close, Crash, CallAppend, LockMu, LockFile,
       Refused, WritePiece, WriteNewline, WriteFails, Remember, ReleaseMu, vars, sessionVars
  <1>b. \A g \in Goroutines : UnlockFile(g) =>
          /\ pc[g] = "unlock" /\ acked' = IF err[g] THEN acked ELSE acked \cup {Msg(g)}
          /\ pc'[g] = (IF err[g] THEN "release" ELSE "remember") /\ err' = err
    BY Typing DEF UnlockFile, Failed, Goto
  <1>1. CASE \A g \in Goroutines : ~WritePiece(g) /\ ~WriteNewline(g)
    <2>1. file' = file
      BY <1>1, FileStays
    <2>2. Ended'
      <3>1. Terminated' = Terminated
        BY <2>1 DEF Terminated
      <3>2. \A m \in acked' : m \in acked \/ \E i \in Terminated : EndsWhole(file[i], m)
        <4>1. ASSUME NEW g \in Goroutines, UnlockFile(g), NEW m \in acked'
              PROVE  m \in acked \/ \E i \in Terminated : EndsWhole(file[i], m)
          BY <1>0, <1>b, <4>1
        <4> QED BY <1>a, <4>1
      <3> QED BY <1>e, <2>1, <3>1, <3>2 DEF EndsWhole
    <2>3. acked \subseteq acked'
      BY <1>a, <1>b
    <2>4. ASSUME NEW h \in Goroutines PROVE Tail1(h)' /\ Tail2(h)' /\ Tail3(h)' /\ Tail4(h)' /\ Tail5(h)'
      <3>1. Tail1(h) /\ Tail2(h) /\ Tail3(h) /\ Tail4(h) /\ Tail5(h) /\ Moved(h)
        BY <1>0, MovedAll
      <3>2. sent'[h] = sent[h] => Msg(h)' = Msg(h)
        BY DEF Msg
      <3>3. Terminated' = Terminated
        BY <2>1 DEF Terminated
      <3>4. CASE /\ sent'[h] = sent[h] /\ pc'[h] = pc[h] /\ err'[h] = err[h]
                 /\ pc[h] \in InMu => status'[SessionOf[h]] = status[SessionOf[h]]
        <4> HIDE DEF Tail1, Tail2, Tail3, Tail4, Tail5
        <4>1. Tail1(h)' BY <2>1, <3>1, <3>2, <3>4 DEF Tail1
        <4>2. Tail2(h)' BY <2>1, <3>1, <3>2, <3>4 DEF Tail2, EndsWhole
        <4>3. Tail3(h)' BY <2>1, <3>1, <3>2, <3>3, <3>4 DEF Tail3, EndsWhole
        <4>4. Tail4(h)' BY <2>3, <3>1, <3>2, <3>4 DEF Tail4, InMu
        <4>5. Tail5(h)' BY <3>1, <3>4 DEF Tail5
        <4> QED BY <4>1, <4>2, <4>3, <4>4, <4>5
      <3>5. CASE sent'[h] = sent[h] /\ pc'[h] = "idle"
        BY <3>5
      <3>6. CASE sent'[h] = sent[h] + 1 /\ pc[h] = "idle" /\ pc'[h] = "lock" /\ ~err'[h]
        BY <3>6
      <3>7. CASE StepOf(h) /\ sent'[h] = sent[h] /\ status'[SessionOf[h]] = status[SessionOf[h]]
        <4>1. \/ LockMu(h) \/ LockFile(h) \/ Refused(h) \/ WriteFails(h)
              \/ UnlockFile(h) \/ Remember(h) \/ ReleaseMu(h)
          BY <1>1, <3>7 DEF StepOf
        <4> USE Typing DEF Goto, sessionVars, lockVars
        <4>2. CASE LockMu(h)
          <5>1. pc[h] = "lock" /\ err' = err
                /\ pc'[h] = IF status[SessionOf[h]] = "open" THEN "flock" ELSE "remember"
            BY <4>2 DEF LockMu
          <5> QED BY <3>1, <3>7, <5>1
        <4>3. CASE LockFile(h)
          <5>1. pc[h] = "flock" /\ err' = err /\ pc'[h] = "head"
            BY <4>3 DEF LockFile
          <5> QED BY <3>1, <5>1
        <4>4. CASE Refused(h) \/ Remember(h) \/ ReleaseMu(h)
          <5>1. pc'[h] \in {"release", "idle"}
            BY <4>4 DEF Refused, Remember, ReleaseMu
          <5> QED BY <5>1
        <4>5. CASE WriteFails(h)
          <5>1. pc'[h] = "unlock" /\ err'[h] = TRUE
            BY <4>5 DEF WriteFails
          <5> QED BY <5>1
        <4>6. CASE UnlockFile(h)
          <5>1. /\ pc[h] = "unlock" /\ acked' = IF err[h] THEN acked ELSE acked \cup {Msg(h)}
                /\ pc'[h] = (IF err[h] THEN "release" ELSE "remember") /\ err' = err
            BY <1>b, <4>6
          <5>2. pc'[h] = "remember" => Msg(h)' \in acked' /\ ~err'[h]
            BY <3>2, <3>7, <5>1
          <5>3. pc'[h] \in {"release", "remember"}
            BY <5>1
          <5> QED BY <5>2, <5>3
        <4> QED BY <4>1, <4>2, <4>3, <4>4, <4>5, <4>6
      <3> QED BY <3>1, <3>4, <3>5, <3>6, <3>7 DEF Moved
    <2> QED BY <2>2, <2>4 DEF TailInv
  <1>c. UNCHANGED acked \/ \A g \in Goroutines : ~WritePiece(g) /\ ~WriteNewline(g)
    BY <1>a, <1>b DEF WritePiece, WriteNewline
  <1>x. ASSUME NEW g \in Goroutines, WritePiece(g) \/ WriteNewline(g)
        PROVE  /\ pc[g] \in InFlock /\ StepOf(g) /\ sent[g] >= 1 /\ UNCHANGED <<acked, err, status>>
               /\ sent'[g] = sent[g] /\ Msg(g)' = Msg(g)
               /\ \A h \in Goroutines : h # g => /\ pc'[h] = pc[h] /\ pc'[h] \notin InFlock /\ Msg(h)' = Msg(h)
    <2>1. /\ pc[g] \in InFlock /\ StepOf(g) /\ sent[g] >= 1 /\ UNCHANGED <<acked, err, status>>
      BY <1>x DEF WritePiece, WriteNewline, InFlock, StepOf, LockInv, sessionVars
    <2>2. UNCHANGED sent
      BY <1>x DEF WritePiece, WriteNewline
    <2>3. \A h \in Goroutines : h # g => /\ pc'[h] = pc[h] /\ pc'[h] \notin InFlock /\ Msg(h)' = Msg(h)
      BY <2>1, Exclusive, Others
    <2> QED BY <2>1, <2>2, <2>3 DEF Msg
  <1>y. ASSUME NEW g \in Goroutines, WritePiece(g) \/ WriteNewline(g), NEW h \in Goroutines, h # g
        PROVE  Tail1(h)' /\ Tail2(h)' /\ Tail3(h)' /\ Tail4(h)' /\ Tail5(h)'
    <2>1. /\ pc'[h] = pc[h] /\ pc'[h] \notin InFlock /\ Msg(h)' = Msg(h) /\ UNCHANGED <<acked, err, status>>
      BY <1>x, <1>y
    <2>2. pc'[h] \notin {"head", "rest", "newline", "unlock"}
      BY <2>1 DEF InFlock
    <2> QED BY <1>0, <2>1, <2>2
  <1>2. ASSUME NEW g \in Goroutines, WritePiece(g) PROVE TailInv'
    <2>1. /\ pc[g] \in {"head", "rest"} /\ file' \in Seq(Seq(Pieces)) /\ Len(file') = Len(file)
          /\ \A i \in Terminated : file'[i] = file[i]
          /\ file'[Len(file)] = Append(file[Len(file)], Piece(Msg(g), pc[g]))
      BY <1>2, <1>x, WriteEffect
    <2>2. Terminated' = Terminated /\ file[Len(file)] \in Seq(Pieces) /\ Piece(Msg(g), pc[g]) \in Pieces
      BY <1>2, <1>x, <2>1, SeqTyping, WriteEffect DEF Terminated
    <2>3. Ended'
      BY <1>2, <1>e, <1>x, <2>1, <2>2 DEF EndsWhole
    <2>4. Tail1(g)' /\ Tail2(g)' /\ Tail3(g)' /\ Tail4(g)' /\ Tail5(g)'
      <3>1. pc'[g] = (IF pc[g] = "head" THEN "rest" ELSE "newline") /\ ~err'[g]
        BY <1>0, <1>2, <2>1, Typing DEF WritePiece, Goto
      <3>2. PICK line, x : line = file[Len(file)] /\ x = Piece(Msg(g), pc[g])
        OBVIOUS
      <3>3. /\ Len(Append(line, x)) = Len(line) + 1 /\ Append(line, x)[Len(line) + 1] = x
            /\ \A k \in 1..Len(line) : Append(line, x)[k] = line[k]
            /\ Len(line) \in Nat
        BY <2>2, <3>2
      <3>4. file'[Len(file')] = Append(line, x) /\ Msg(g)' = Msg(g)
        BY <1>2, <1>x, <2>1, <3>2
      <3>5. CASE pc[g] = "head"
        <4>1. Tail1(g)'
          BY <3>2, <3>3, <3>4, <3>5
        <4> QED BY <3>1, <3>5, <4>1
      <3>6. CASE pc[g] = "rest"
        <4>1. Len(line) >= 1 /\ line[Len(line)] = Piece(Msg(g), "head")
          BY <1>0, <3>2, <3>6
        <4>2. PICK longer : longer = Append(line, x)
          OBVIOUS
        <4>3. /\ Len(longer) >= 2 /\ Len(longer) - 1 = Len(line) /\ longer[Len(longer)] = Piece(Msg(g), "rest")
              /\ longer[Len(line)] = Piece(Msg(g), "head")
          BY <3>2, <3>3, <3>6, <4>1, <4>2
        <4>4. EndsWhole(longer, Msg(g))
          BY <4>3 DEF EndsWhole
        <4>5. Tail2(g)'
          BY <3>4, <4>2, <4>4 DEF EndsWhole
        <4> QED BY <3>1, <3>6, <4>5
      <3> QED BY <2>1, <3>5, <3>6
    <2> QED BY <1>2, <1>y, <2>3, <2>4 DEF TailInv
  <1>3. ASSUME NEW g \in Goroutines, WriteNewline(g) PROVE TailInv'
    <2>1. /\ Len(file') = Len(file) + 1 /\ \A i \in 1..Len(file) : file'[i] = file[i]
      BY <1>3, NewlineEffect DEF WriteNewline
    <2>2. Len(file) \in Nat /\ Len(file) >= 1
      BY SeqTyping
    <2>3. Terminated' = 1..Len(file) /\ Terminated \subseteq 1..Len(file) /\ Len(file) \in 1..Len(file)
      BY <2>1, <2>2 DEF Terminated
    <2>4. Ended'
      BY <1>3, <1>e, <1>x, <2>1, <2>3 DEF EndsWhole
    <2>5. Tail1(g)' /\ Tail2(g)' /\ Tail3(g)' /\ Tail4(g)' /\ Tail5(g)'
      <3>1. pc[g] = "newline" /\ pc'[g] = "unlock" /\ Msg(g)' = Msg(g)
        BY <1>3, <1>x, Typing DEF WriteNewline, Goto
      <3>2. EndsWhole(file[Len(file)], Msg(g))
        BY <1>0, <3>1
      <3>3. Tail3(g)'
        BY <2>1, <2>3, <3>1, <3>2 DEF EndsWhole
      <3> QED BY <3>1, <3>3
    <2> QED BY <1>3, <1>y, <2>4, <2>5 DEF TailInv
  <1> QED BY <1>1, <1>2, <1>3

\* Without a write that stopped early every line is a message.
LEMMA NextLine == ASSUME TypeOK, LockInv, TailInv, LineInv, [Next]_vars PROVE LineInv'
  <1> SUFFICES ASSUME faults' = 0
               PROVE  /\ \A i \in Terminated' : IsMessage(file'[i])
                      /\ \/ file'[Len(file')] = <<>>
                         \/ \E g \in Goroutines :
                              \/ pc'[g] = "rest" /\ file'[Len(file')] = <<Piece(Msg(g)', "head")>>
                              \/ pc'[g] = "newline" /\ file'[Len(file')] = Whole(Msg(g)')
    BY DEF LineInv, IsMessage, Whole, Piece
  <1>1. faults = 0
    BY Typing, StepForms DEF StepOf, ReadAllMessages, OpenForAppend, Close, Crash, CallAppend, LockMu, LockFile,
       Refused, WritePiece, WriteNewline, WriteFails, UnlockFile, Remember, ReleaseMu, vars, sessionVars
  <1>2. \A i \in Terminated : IsMessage(file[i])
    BY <1>1 DEF LineInv
  <1>3. \/ file[Len(file)] = <<>>
        \/ \E g \in Goroutines :
             \/ pc[g] = "rest" /\ file[Len(file)] = <<Piece(Msg(g), "head")>>
             \/ pc[g] = "newline" /\ file[Len(file)] = Whole(Msg(g))
    BY <1>1 DEF LineInv
  <1>4. CASE \A g \in Goroutines : ~WritePiece(g) /\ ~WriteNewline(g)
    <2>1. file' = file /\ Terminated' = Terminated
      BY <1>4, FileStays DEF Terminated
    <2>2. ASSUME NEW g \in Goroutines, pc[g] \in {"rest", "newline"}
          PROVE  pc'[g] = pc[g] /\ Msg(g)' = Msg(g)
      <3>1. pc'[g] = pc[g] /\ sent'[g] = sent[g]
        <4>1. Moved(g)
          BY MovedAll
        <4>2. ~(StepOf(g))
          <5>1. ~WriteFails(g)
            BY <1>1 DEF WriteFails
          <5> QED BY <1>4, <2>2, <5>1 DEF StepOf, LockMu, LockFile, Refused, UnlockFile, Remember, ReleaseMu
        <4>3. pc'[g] # "idle"
          <5>1. \A s \in Sessions : Crash(s) => SessionOf[g] # s
            <6> SUFFICES ASSUME NEW s \in Sessions, Crash(s), SessionOf[g] = s PROVE FALSE
              OBVIOUS
            <6>1. \E h \in {h \in Goroutines : SessionOf[h] = s} : Writing(h)
              BY <2>2 DEF Writing
            <6>2. faults' = faults + 1
              BY <6>1 DEF Crash
            <6> QED BY <1>1, <6>2
          <5>2. \A s \in Sessions : Crash(s) => pc'[g] = pc[g]
            BY <5>1 DEF Crash
          <5>3. \A h \in Goroutines : StepOf(h) \/ CallAppend(h) => pc'[g] = pc[g]
            <6>1. \A h \in Goroutines : StepOf(h) => pc'[g] = pc[g]
              BY <4>2, Others
            <6>2. \A h \in Goroutines : CallAppend(h) => pc'[g] = pc[g]
              BY <2>2, Typing DEF CallAppend, Goto
            <6> QED BY <6>1, <6>2
          <5>4. \A s \in Sessions : ReadAllMessages(s) \/ OpenForAppend(s) \/ Close(s) => pc' = pc
            BY DEF ReadAllMessages, OpenForAppend, Close
          <5> QED BY <2>2, <5>2, <5>3, <5>4, StepForms DEF vars
        <4> QED BY <2>2, <4>1, <4>2, <4>3 DEF Moved
      <3> QED BY <3>1 DEF Msg
    <2> QED BY <1>2, <1>3, <2>1, <2>2
  <1>5. ASSUME NEW g \in Goroutines, WritePiece(g) \/ WriteNewline(g)
        PROVE  /\ pc[g] \in {"head", "rest", "newline"} /\ Msg(g)' = Msg(g) /\ sent[g] >= 1
               /\ \A h \in Goroutines : pc[h] \in {"rest", "newline"} => h = g
    <2>1. pc[g] \in {"head", "rest", "newline"} /\ UNCHANGED sent
      BY <1>5 DEF WritePiece, WriteNewline
    <2>2. sent[g] >= 1
      BY <2>1 DEF LockInv
    <2>3. \A h \in Goroutines : pc[h] \in {"rest", "newline"} => h = g
      BY <2>1, Exclusive DEF InFlock
    <2> QED BY <2>1, <2>2, <2>3 DEF Msg
  <1>6. ASSUME NEW g \in Goroutines, WritePiece(g)
        PROVE  /\ \A i \in Terminated' : IsMessage(file'[i])
               /\ \/ pc'[g] = "rest" /\ file'[Len(file')] = <<Piece(Msg(g)', "head")>>
                  \/ pc'[g] = "newline" /\ file'[Len(file')] = Whole(Msg(g)')
    <2>1. /\ pc[g] \in {"head", "rest"} /\ Len(file') = Len(file)
          /\ \A i \in Terminated : file'[i] = file[i]
          /\ file'[Len(file)] = Append(file[Len(file)], Piece(Msg(g), pc[g]))
      BY <1>5, <1>6, WriteEffect
    <2>2. pc'[g] = IF pc[g] = "head" THEN "rest" ELSE "newline"
      BY <1>6, Typing DEF WritePiece, Goto
    <2>3. \A i \in Terminated' : IsMessage(file'[i])
      BY <1>2, <2>1 DEF Terminated, IsMessage
    <2>4. CASE pc[g] = "head"
      <3>1. file[Len(file)] = <<>>
        BY <1>3, <1>5, <1>6, <2>4
      <3>2. file'[Len(file')] = <<Piece(Msg(g)', "head")>>
        BY <1>5, <1>6, <2>1, <2>4, <3>1
      <3> QED BY <2>2, <2>3, <2>4, <3>2
    <2>5. CASE pc[g] = "rest"
      <3>1. file[Len(file)] # <<>>
        BY <2>5 DEF TailInv
      <3>2. file[Len(file)] = <<Piece(Msg(g), "head")>>
        BY <1>3, <1>5, <1>6, <2>5, <3>1
      <3>3. file'[Len(file')] = Whole(Msg(g)')
        <4>1. PICK h, r : h = Piece(Msg(g), "head") /\ r = Piece(Msg(g), "rest")
          OBVIOUS
        <4>2. Append(<<h>>, r) = <<h, r>>
          <5>1. PICK S : S = {h, r}
            OBVIOUS
          <5>2. <<h>> \in Seq(S) /\ Len(<<h>>) = 1 /\ <<h>>[1] = h
            BY <5>1
          <5>3. PICK t, u : t = Append(<<h>>, r) /\ u = <<h, r>>
            OBVIOUS
          <5>4. t \in Seq(S) /\ Len(t) = 2 /\ t[1] = h /\ t[2] = r
            BY <5>1, <5>2, <5>3
          <5>5. u \in Seq(S) /\ Len(u) = 2 /\ u[1] = h /\ u[2] = r
            BY <5>1, <5>3
          <5>6. t = u
            BY <5>4, <5>5, SeqEqual
          <5> QED BY <5>3, <5>6
        <4>3. file'[Len(file')] = <<h, r>>
          BY <2>1, <2>5, <3>2, <4>1, <4>2
        <4> QED BY <1>5, <1>6, <4>1, <4>3 DEF Whole
      <3> QED BY <2>2, <2>3, <2>5, <3>3
    <2> QED BY <2>1, <2>4, <2>5
  <1>7. ASSUME NEW g \in Goroutines, WriteNewline(g)
        PROVE  (\A i \in Terminated' : IsMessage(file'[i])) /\ file'[Len(file')] = <<>>
    <2>1. /\ Len(file') = Len(file) + 1 /\ \A i \in 1..Len(file) : file'[i] = file[i]
          /\ file'[Len(file) + 1] = <<>>
      BY <1>7, NewlineEffect DEF WriteNewline
    <2>2. Len(file) \in Nat /\ Len(file) >= 1
      BY SeqTyping
    <2>3. Terminated' = Terminated \cup {Len(file)} /\ Terminated \subseteq 1..Len(file) /\ Len(file) \in 1..Len(file)
      BY <2>1, <2>2 DEF Terminated
    <2>4. pc[g] = "newline"
      BY <1>7 DEF WriteNewline
    <2>5. IsMessage(file[Len(file)])
      <3>1. file[Len(file)] # <<>>
        BY <2>4 DEF TailInv, EndsWhole
      <3>2. file[Len(file)] = Whole(Msg(g))
        BY <1>3, <1>5, <1>7, <2>4, <3>1
      <3> QED BY <3>2 DEF IsMessage, Whole, Piece
    <2>6. \A i \in Terminated' : IsMessage(file'[i])
      BY <1>2, <2>1, <2>3, <2>5 DEF IsMessage
    <2> QED BY <2>1, <2>6
  <1> QED BY <1>4, <1>6, <1>7

\* What a session remembers of its own are calls that are over.
LEMMA NextMem == ASSUME TypeOK, LockInv, PieceInv, LogInv, MemInv, [Next]_vars PROVE MemInv'
  <1> DEFINE Over(m, s) == SessionOf[m[1]] = s =>
               /\ m[2] <= sent[m[1]]
               /\ m[2] = sent[m[1]] => pc[m[1]] \in {"release", "idle"}
             OverNext(m, s) == SessionOf[m[1]] = s =>
               /\ m[2] <= sent'[m[1]]
               /\ m[2] = sent'[m[1]] => pc'[m[1]] \in {"release", "idle"}
  <1>0. ASSUME NEW s \in Sessions, NEW n \in 1..Len(mem[s])
        PROVE  Over(mem[s][n], s) /\ (n > base[s] => SessionOf[mem[s][n][1]] = s) /\ mem[s][n] \in Message
    <2>1. mem[s][n] \in Message
      BY SeqTyping
    <2>2. Over(mem[s][n], s) /\ (n > base[s] => SessionOf[mem[s][n][1]] = s)
      BY DEF MemInv
    <2> QED BY <2>1, <2>2
  <1>1. ASSUME NEW s \in Sessions, NEW m \in Message, Over(m, s) PROVE OverNext(m, s)
    <2>1. m[1] \in Goroutines /\ m[2] \in Nat /\ sent[m[1]] \in Nat
      BY Typing DEF Message
    <2>2. Moved(m[1])
      BY <2>1, MovedAll
    <2>3. StepOf(m[1]) => (pc[m[1]] \in {"release", "idle"} => pc'[m[1]] \in {"release", "idle"})
      BY <2>1, GoesOn
    <2> QED BY <1>1, <2>1, <2>2, <2>3 DEF Moved
  <1>2. ASSUME NEW s \in Sessions, ReadAllMessages(s), NEW r \in Sessions, NEW n \in 1..Len(mem'[r])
        PROVE  OverNext(mem'[r][n], r) /\ (n > base'[r] => SessionOf[mem'[r][n][1]] = r)
    <2>1. CASE mem'[r] = mem[r] /\ base'[r] = base[r]
      BY <1>0, <1>1, <2>1
    <2>2. CASE mem'[r] # mem[r] \/ base'[r] # base[r]
      <3>1. mem \in [Sessions -> Seq(Message)] /\ base \in [Sessions -> Nat]
        BY SeqTyping
      <3>2. r = s /\ Parses(file) /\ mem'[s] = MessagesOf(file) /\ base'[s] = Len(MessagesOf(file))
        BY <1>2, <2>2, <3>1 DEF ReadAllMessages
      <3>3. mem'[s] = Written /\ base'[s] = Len(Written) /\ Written \in Seq(Message)
        BY <3>2, ReadsWritten
      <3>4. PICK p \in LastPieces : Written[n] = At(p).of
        BY <3>2, <3>3, WrittenType
      <3>5. p \in Filed /\ At(p).of \in Message
        BY PieceType DEF LastPieces, Filed
      <3>6. PICK m \in Message : m = mem'[r][n]
        BY <3>2, <3>3, <3>4, <3>5
      <3>7. m[1] \in Goroutines /\ m[2] <= sent[m[1]]
        BY <3>2, <3>3, <3>4, <3>5, <3>6 DEF PieceInv, Message
      <3>8. SessionOf[m[1]] = s => pc'[m[1]] = "idle" /\ sent' = sent
        BY <1>2, <3>7 DEF ReadAllMessages
      <3>9. UNCHANGED sent
        BY <1>2 DEF ReadAllMessages
      <3>10. ~(n > base'[r])
        <4>1. n <= Len(Written) /\ Len(Written) \in Nat
          BY <3>2, <3>3
        <4> QED BY <3>2, <3>3, <4>1
      <3> QED BY <3>2, <3>6, <3>7, <3>8, <3>9, <3>10
    <2> QED BY <2>1, <2>2
  <1>3. ASSUME NEW g \in Goroutines, Remember(g), NEW r \in Sessions, NEW n \in 1..Len(mem'[r])
        PROVE  OverNext(mem'[r][n], r) /\ (n > base'[r] => SessionOf[mem'[r][n][1]] = r)
    <2>1. /\ pc[g] = "remember" /\ pc'[g] = "release" /\ UNCHANGED <<base, sent>>
          /\ mem' = [mem EXCEPT ![SessionOf[g]] = Append(@, Msg(g))]
      BY <1>3, Typing DEF Remember, Goto
    <2>2. mem[r] \in Seq(Message) /\ Msg(g) \in Message /\ Msg(g)[1] = g /\ Msg(g)[2] = sent[g]
      BY <2>1, SeqTyping, MsgType DEF LockInv
    <2>3. CASE n \in 1..Len(mem[r])
      <3>1. mem'[r][n] = mem[r][n]
        <4>1. mem \in [Sessions -> Seq(Message)]
          BY SeqTyping
        <4>2. mem'[r] = mem[r] \/ mem'[r] = Append(mem[r], Msg(g))
          BY <2>1, <4>1
        <4> QED BY <2>2, <2>3, <4>2
      <3> QED BY <1>0, <1>1, <2>1, <2>3, <3>1
    <2>4. CASE n \notin 1..Len(mem[r])
      <3>1. mem \in [Sessions -> Seq(Message)]
        BY SeqTyping
      <3>2. r = SessionOf[g] /\ mem'[r] = Append(mem[r], Msg(g))
        BY <2>1, <2>4, <3>1
      <3>3. mem'[r][n] = Msg(g)
        BY <2>2, <2>4, <3>2
      <3>4. sent[g] \in Nat /\ sent' = sent
        BY <2>1, Typing
      <3> QED BY <2>1, <2>2, <3>2, <3>3, <3>4
    <2> QED BY <2>3, <2>4
  <1>4. CASE (\A s \in Sessions : ~ReadAllMessages(s)) /\ (\A g \in Goroutines : ~Remember(g))
    <2>1. UNCHANGED <<mem, base>>
      BY <1>4, StepForms DEF StepOf, OpenForAppend, Close, Crash, CallAppend, LockMu, LockFile,
         Refused, WritePiece, WriteNewline, WriteFails, UnlockFile, ReleaseMu, vars, sessionVars
    <2>2. \A s \in Sessions : \A n \in 1..Len(mem[s]) : OverNext(mem[s][n], s)
      BY <1>0, <1>1
    <2> QED BY <1>0, <2>1, <2>2 DEF MemInv
  <1> QED BY <1>2, <1>3, <1>4 DEF MemInv

\* A session's memory has the order of the file.
LEMMA NextOrder ==
  ASSUME TypeOK, LockInv, PieceInv, MemInv, LogInv, OrderInv, [Next]_vars
  PROVE  OrderInv'
  <1> DEFINE Last(p) == p \in Filed /\ At(p).part = "rest"
             Behind(g, p, q) ==
               At(p) = Piece(Msg(g), "rest") /\ SessionOf[At(q).of[1]] = SessionOf[g] => q = p \/ Before(q, p)
             Near(g) == pc[g] \in {"newline", "unlock", "remember"}
             Ordered(a, b) == \A p, q \in Filed :
               At(p) = Piece(a, "rest") /\ At(q) = Piece(b, "rest") => Before(p, q)
             OrderedNext(a, b) == \A p, q \in Filed' :
               At(p)' = Piece(a, "rest") /\ At(q)' = Piece(b, "rest") => Before(p, q)
  <1>l. LastPieces = {p \in Filed : At(p).part = "rest"} /\ LastPieces' = {p \in Filed' : At(p)'.part = "rest"}
    BY DEF LastPieces, Filed, At
  <1>0. \A g \in Goroutines : Near(g) => \A p, q \in LastPieces : Behind(g, p, q)
    BY DEF OrderInv
  <1>1. \A s \in Sessions : \A i, j \in base[s] + 1 .. Len(mem[s]) :
          i < j /\ mem[s][i] \in acked /\ mem[s][j] \in acked => Ordered(mem[s][i], mem[s][j])
    BY DEF OrderInv
  <1>2. \A g \in Goroutines : \A p \in Filed : At(p) = Piece(Msg(g), "rest") /\ sent[g] >= 1 =>
          pc[g] \notin {"lock", "flock", "head", "rest"}
    <2> SUFFICES ASSUME NEW g \in Goroutines, NEW p \in Filed, At(p) = Piece(Msg(g), "rest"), sent[g] >= 1
                 PROVE  pc[g] \notin {"lock", "flock", "head", "rest"}
      OBVIOUS
    <2>1. At(p).of = Msg(g) /\ At(p).part = "rest" /\ Msg(g)[1] = g /\ Msg(g)[2] = sent[g]
      BY MsgType DEF Piece
    <2> QED BY <2>1 DEF PieceInv
  <1>3. ASSUME NEW s \in Sessions, NEW n \in base[s] + 1 .. Len(mem[s]), NEW g \in Goroutines,
               pc[g] \in {"head", "rest", "newline", "unlock", "remember"}
        PROVE  mem[s][n] # Msg(g)
    <2>1. n \in 1..Len(mem[s]) /\ n > base[s]
      BY SeqTyping
    <2>2. Msg(g)[1] = g /\ Msg(g)[2] = sent[g]
      BY <1>3, MsgType DEF LockInv
    <2> QED BY <1>3, <2>1, <2>2 DEF MemInv
  \* What a goroutine is about to remember, after each step.
  <1>4. ASSUME NEW h \in Goroutines, Near(h)', LastPieces' = LastPieces, \A p \in LastPieces : At(p)' = At(p)
        PROVE  \A p, q \in LastPieces' : Behind(h, p, q)'
    <2>1. Moved(h)
      BY MovedAll
    <2>2. Near(h) \/ StepOf(h)
      BY <1>4, <2>1 DEF Moved
    <2>3. sent'[h] = sent[h] /\ Msg(h)' = Msg(h)
      BY <1>4, <2>1 DEF Moved, Msg
    <2>4. CASE Near(h)
      BY <1>0, <1>4, <2>3, <2>4
    <2>5. CASE ~Near(h)
      <3>1. pc[h] \in {"lock", "flock", "head", "rest"} /\ pc[h] # "idle"
        BY <1>4, <2>2, <2>5, GoesOn
      <3>2. sent[h] >= 1
        BY <3>1 DEF LockInv
      <3>3. \A p \in LastPieces : At(p) # Piece(Msg(h), "rest")
        BY <1>2, <1>l, <3>1, <3>2
      <3> QED BY <1>4, <2>3, <3>3
    <2> QED BY <2>4, <2>5
  \* What is written meanwhile.
  <1>w. ASSUME NEW g \in Goroutines, WritePiece(g)
        PROVE  \E new : /\ sent[g] >= 1 /\ pc[g] \in {"head", "rest"} /\ StepOf(g)
                        /\ Filed' = Filed \cup {new} /\ new \notin Filed
                        /\ At(new)' = Piece(Msg(g), pc[g])
                        /\ \A p \in Filed : At(p)' = At(p) /\ Before(p, new)
    <2>1. PICK new : new = NewPlace
      OBVIOUS
    <2>2. sent[g] >= 1 /\ pc[g] \in {"head", "rest"} /\ StepOf(g)
      BY <1>w DEF WritePiece, LockInv, StepOf
    <2>3. /\ Filed' = Filed \cup {new} /\ new \notin Filed
          /\ At(new)' = Piece(Msg(g), pc[g])
          /\ \A p \in Filed : At(p)' = At(p) /\ Before(p, new)
      BY <1>w, <2>1, <2>2, WriteEffect DEF At
    <2> QED BY <2>2, <2>3
  <1>q. (\A g \in Goroutines : ~WritePiece(g)) => Filed' = Filed /\ \A p \in Filed : At(p)' = At(p)
    <2>1. CASE \A g \in Goroutines : ~WritePiece(g) /\ ~WriteNewline(g)
      BY <2>1, FileStays
    <2>2. ASSUME NEW g \in Goroutines, WriteNewline(g) PROVE Filed' = Filed /\ \A p \in Filed : At(p)' = At(p)
      BY <2>2, NewlineEffect DEF WriteNewline
    <2> QED BY <2>1, <2>2
  <1>a. acked' = acked \/ \E g \in Goroutines : pc[g] = "unlock" /\ acked' \subseteq acked \cup {Msg(g)}
    <2>1. ASSUME NEW g \in Goroutines, UnlockFile(g)
          PROVE  pc[g] = "unlock" /\ acked' \subseteq acked \cup {Msg(g)}
      BY <2>1 DEF UnlockFile
    <2>2. acked' = acked \/ \E g \in Goroutines : UnlockFile(g)
      BY StepForms DEF StepOf, ReadAllMessages, OpenForAppend, Close, Crash, CallAppend, LockMu, LockFile,
         Refused, WritePiece, WriteNewline, WriteFails, Remember, ReleaseMu, vars, sessionVars
    <2> QED BY <2>1, <2>2
  \* The orders already there.
  <1>5. ASSUME NEW s \in Sessions, NEW i \in base[s] + 1 .. Len(mem[s]), NEW j \in base[s] + 1 .. Len(mem[s]),
               i < j, mem[s][i] \in acked', mem[s][j] \in acked'
        PROVE  OrderedNext(mem[s][i], mem[s][j])
    <2>1. mem[s][i] \in acked /\ mem[s][j] \in acked
      BY <1>3, <1>5, <1>a
    <2>2. PICK a, b : a = mem[s][i] /\ b = mem[s][j]
      OBVIOUS
    <2>3. Ordered(a, b)
      BY <1>1, <1>5, <2>1, <2>2
    <2>4. CASE \A g \in Goroutines : ~WritePiece(g)
      BY <1>q, <2>2, <2>3, <2>4
    <2>5. ASSUME NEW g \in Goroutines, WritePiece(g) PROVE OrderedNext(a, b)
      <3>1. PICK new : /\ sent[g] >= 1 /\ pc[g] \in {"head", "rest"} /\ StepOf(g)
                       /\ Filed' = Filed \cup {new} /\ new \notin Filed
                       /\ At(new)' = Piece(Msg(g), pc[g])
                       /\ \A p \in Filed : At(p)' = At(p) /\ Before(p, new)
        BY <1>w, <2>5
      <3>2. a # Msg(g) /\ b # Msg(g)
        BY <1>3, <2>2, <3>1
      <3>3. At(new)' # Piece(a, "rest") /\ At(new)' # Piece(b, "rest")
        BY <3>1, <3>2 DEF Piece
      <3> QED BY <2>3, <3>1, <3>3
    <2> QED BY <2>2, <2>4, <2>5
  <1>6. ASSUME NEW h \in Goroutines, Near(h)' PROVE \A p, q \in LastPieces' : Behind(h, p, q)'
    <2>1. CASE \A g \in Goroutines : ~WritePiece(g)
      BY <1>4, <1>6, <1>l, <1>q, <2>1
    <2>2. ASSUME NEW g \in Goroutines, WritePiece(g) PROVE \A p, q \in LastPieces' : Behind(h, p, q)'
      <3>1. PICK new : /\ sent[g] >= 1 /\ pc[g] \in {"head", "rest"} /\ StepOf(g)
                       /\ Filed' = Filed \cup {new} /\ new \notin Filed
                       /\ At(new)' = Piece(Msg(g), pc[g])
                       /\ \A p \in Filed : At(p)' = At(p) /\ Before(p, new)
        BY <1>w, <2>2
      <3>2. LastPieces' = IF pc[g] = "rest" THEN LastPieces \cup {new} ELSE LastPieces
        BY <1>l, <3>1 DEF Piece
      <3>3. CASE pc[g] = "head"
        BY <1>4, <1>6, <1>l, <3>1, <3>2, <3>3
      <3>4. CASE pc[g] = "rest"
        <4>1. At(new)' = Piece(Msg(g), "rest") /\ LastPieces' = LastPieces \cup {new} /\ Msg(g)[1] = g
          BY <3>1, <3>2, <3>4, MsgType
        <4>2. UNCHANGED sent
          BY <2>2 DEF WritePiece
        <4>3. CASE h = g
          <5>1. \A p \in LastPieces : At(p) # Piece(Msg(g), "rest")
            BY <1>2, <1>l, <3>1, <3>4
          <5>2. Msg(g)' = Msg(g)
            BY <4>2 DEF Msg
          <5>3. ASSUME NEW p \in LastPieces', At(p)' = Piece(Msg(g)', "rest") PROVE p = new
            BY <1>l, <3>1, <4>1, <5>1, <5>2, <5>3
          <5>4. \A q \in LastPieces' : q = new \/ Before(q, new)
            BY <1>l, <3>1, <4>1
          <5> QED BY <4>3, <5>3, <5>4
        <4>4. CASE h # g
          <5>1. pc'[h] = pc[h] /\ Msg(h)' = Msg(h)
            BY <3>1, <4>4, Others
          <5>2. Near(h) /\ SessionOf[h] # SessionOf[g] /\ sent[h] >= 1
            BY <1>6, <3>4, <4>4, <5>1, Exclusive DEF InMu, LockInv
          <5>3. Msg(h)[1] = h
            BY <5>2, MsgType
          <5>4. At(new)' # Piece(Msg(h), "rest")
            BY <4>1, <4>4, <5>3 DEF Piece
          <5>5. SessionOf[At(new)'.of[1]] # SessionOf[h]
            BY <4>1, <5>2 DEF Piece
          <5>6. ASSUME NEW p \in LastPieces', NEW q \in LastPieces',
                       At(p)' = Piece(Msg(h), "rest"), SessionOf[At(q)'.of[1]] = SessionOf[h]
                PROVE  q = p \/ Before(q, p)
            <6>1. p \in LastPieces /\ q \in LastPieces
              BY <4>1, <5>4, <5>5, <5>6
            <6>2. At(p)' = At(p) /\ At(q)' = At(q)
              BY <1>l, <3>1, <6>1
            <6> QED BY <1>0, <5>2, <5>6, <6>1, <6>2
          <5> QED BY <5>1, <5>6
        <4> QED BY <4>3, <4>4
      <3> QED BY <3>1, <3>3, <3>4
    <2> QED BY <2>1, <2>2
  <1>7. ASSUME NEW s \in Sessions, NEW i \in base'[s] + 1 .. Len(mem'[s]), NEW j \in base'[s] + 1 .. Len(mem'[s]),
               i < j, mem'[s][i] \in acked', mem'[s][j] \in acked'
        PROVE  OrderedNext(mem'[s][i], mem'[s][j])
    <2>0. mem \in [Sessions -> Seq(Message)] /\ base \in [Sessions -> Nat]
      BY SeqTyping
    <2>1. CASE mem'[s] = mem[s] /\ base'[s] = base[s]
      BY <1>5, <1>7, <2>1
    <2>2. ASSUME ReadAllMessages(s), ~(mem'[s] = mem[s] /\ base'[s] = base[s]) PROVE FALSE
      <3>1. Parses(file) /\ mem'[s] = MessagesOf(file) /\ base'[s] = Len(MessagesOf(file))
        BY <2>0, <2>2 DEF ReadAllMessages
      <3>2. PICK k : k = Len(MessagesOf(file))
        OBVIOUS
      <3>3. i \in (k + 1)..k /\ k \in Nat
        BY <3>1, <3>2, ReadsWritten
      <3> QED BY <3>3
    <2>3. ASSUME NEW g \in Goroutines, Remember(g), s = SessionOf[g] PROVE OrderedNext(mem'[s][i], mem'[s][j])
      <3>1. /\ pc[g] = "remember" /\ base'[s] = base[s] /\ UNCHANGED <<file, acked>>
            /\ mem'[s] = Append(mem[s], Msg(g))
        BY <2>0, <2>3 DEF Remember
      <3>2. mem[s] \in Seq(Message) /\ base[s] \in Nat /\ Msg(g) \in Message
        BY <2>0, <3>1, MsgType DEF LockInv
      <3>3. PICK k : k = Len(mem[s])
        OBVIOUS
      <3>4. /\ k \in Nat /\ Len(Append(mem[s], Msg(g))) = k + 1
            /\ Append(mem[s], Msg(g))[k + 1] = Msg(g)
            /\ \A n \in 1..k : Append(mem[s], Msg(g))[n] = mem[s][n]
        BY <3>2, <3>3
      <3>5. i \in base[s] + 1 .. k + 1 /\ j \in base[s] + 1 .. k + 1
        BY <3>1, <3>4
      <3>6. i \in base[s] + 1 .. k /\ mem'[s][i] = mem[s][i]
        BY <1>7, <3>1, <3>2, <3>4, <3>5
      <3>7. CASE j \in base[s] + 1 .. k
        <4>1. mem'[s][j] = mem[s][j]
          BY <3>1, <3>2, <3>4, <3>7
        <4> QED BY <1>5, <1>7, <3>3, <3>6, <3>7, <4>1
      <3>8. CASE j = k + 1
        <4>1. mem'[s][j] = Msg(g)
          BY <3>1, <3>4, <3>8
        <4>2. Filed' = Filed /\ LastPieces' = LastPieces /\ \A p : At(p)' = At(p)
          BY <3>1 DEF Filed, LastPieces, At
        <4>3. PICK a : a = mem[s][i]
          OBVIOUS
        <4>4. a # Msg(g) /\ SessionOf[a[1]] = s
          <5>1. i \in 1..Len(mem[s]) /\ i > base[s]
            BY <3>2, <3>3, <3>4, <3>6
          <5> QED BY <1>3, <3>1, <3>3, <3>6, <4>3, <5>1 DEF MemInv
        <4>5. ASSUME NEW p \in Filed, NEW q \in Filed, At(p) = Piece(a, "rest"), At(q) = Piece(Msg(g), "rest")
              PROVE  Before(p, q)
          <5>1. p \in LastPieces /\ q \in LastPieces /\ At(p).of = a
            BY <1>l, <4>5 DEF Piece
          <5>2. p # q
            BY <4>4, <4>5 DEF Piece
          <5>3. Behind(g, q, p)
            BY <1>0, <3>1, <5>1
          <5> QED BY <2>3, <4>4, <4>5, <5>1, <5>2, <5>3
        <4> QED BY <3>6, <4>1, <4>2, <4>3, <4>5
      <3> QED BY <3>2, <3>4, <3>5, <3>7, <3>8
    <2>4. \/ mem'[s] = mem[s] /\ base'[s] = base[s]
          \/ ReadAllMessages(s)
          \/ \E g \in Goroutines : Remember(g) /\ s = SessionOf[g]
      <3>1. ASSUME NEW r \in Sessions, ReadAllMessages(r), r # s PROVE mem'[s] = mem[s] /\ base'[s] = base[s]
        BY <2>0, <3>1 DEF ReadAllMessages
      <3>2. ASSUME NEW g \in Goroutines, Remember(g), SessionOf[g] # s PROVE mem'[s] = mem[s] /\ base'[s] = base[s]
        BY <2>0, <3>2 DEF Remember
      <3>3. CASE (\A r \in Sessions : ~ReadAllMessages(r)) /\ (\A g \in Goroutines : ~Remember(g))
        BY <3>3, StepForms DEF StepOf, OpenForAppend, Close, Crash, CallAppend, LockMu, LockFile,
           Refused, WritePiece, WriteNewline, WriteFails, UnlockFile, ReleaseMu, vars, sessionVars
      <3> QED BY <3>1, <3>2, <3>3
    <2> QED BY <2>1, <2>2, <2>3, <2>4
  <1> QED BY <1>6, <1>7 DEF OrderInv

-----------------------------------------------------------------------------
(* The invariant and what follows from it.                                 *)

\* An empty file has no piece, and nobody writes.
LEMMA InitInv == ASSUME Init PROVE IInv
  <1>1. TypeOK
    <2>1. file \in Seq(Seq(Pieces)) /\ Len(file) = 1
      <3>1. << <<>> >> \in Seq(Seq(Pieces)) /\ Len(<< <<>> >>) = 1
        OBVIOUS
      <3> QED BY <3>1 DEF Init
    <2>2. mem \in [Sessions -> Seq(Message)]
      BY DEF Init
    <2> QED BY <2>1, <2>2, StoreAssumption DEF Init, TypeOK
  <1>2. Filed = {} /\ LastPieces = {}
    <2>1. Len(file) = 1 /\ file[1] = <<>>
      BY DEF Init
    <2>2. \A p \in Filed : FALSE
      BY <1>1, <2>1, PieceType
    <2> QED BY <2>2 DEF Filed, LastPieces
  <1>3. LockInv /\ TailInv
    BY DEF Init, LockInv, TailInv, InMu, InFlock
  <1>4. PieceInv /\ OrderInv
    <2>1. \A s \in Sessions : base[s] + 1 .. Len(mem[s]) = {}
      BY DEF Init
    <2> QED BY <1>2, <2>1 DEF PieceInv, OrderInv, Init
  <1>5. LineInv
    <2>1. Terminated = {} /\ file[Len(file)] = <<>>
      BY DEF Init, Terminated
    <2> QED BY <2>1 DEF LineInv
  <1>6. MemInv
    BY DEF Init, MemInv
  <1>7. LogInv
    <2>1. IsFiniteSet({}) /\ Cardinality({}) = 0
      BY FS_EmptySet
    <2> QED BY <1>2, <2>1 DEF LogInv
  <1> QED BY <1>1, <1>3, <1>4, <1>5, <1>6, <1>7 DEF IInv

\* Every step keeps the invariant.
LEMMA NextInv == ASSUME IInv, [Next]_vars PROVE IInv'
  <1> USE DEF IInv
  <1>1. TypeOK' BY NextType
  <1>2. LockInv' BY NextLock
  <1>3. PieceInv' BY NextPiece
  <1>4. TailInv' BY NextTail
  <1>5. LineInv' BY NextLine
  <1>6. MemInv' BY NextMem
  <1>7. LogInv' BY LogGrows
  <1>8. OrderInv' BY NextOrder
  <1> QED BY <1>1, <1>2, <1>3, <1>4, <1>5, <1>6, <1>7, <1>8

\* One writer at a time, whatever crashes or fails: the mutex and the file lock
\* hold what the rest of the code relies on.
THEOREM Invariant == Spec => []IInv
  <1>1. Init => IInv
    BY InitInv
  <1>2. IInv /\ [Next]_vars => IInv'
    BY NextInv
  <1> QED BY <1>1, <1>2, PTL DEF Spec

\* As long as no write stops early, every terminated line is one message.
THEOREM LinesStayIntact == Spec => []LinesIntact
  <1>1. IInv => LinesIntact
    BY DEF IInv, LineInv, LinesIntact
  <1> QED BY <1>1, Invariant, PTL

\* The places of a message that ends a line whole.
LEMMA WholeOnce ==
  ASSUME IInv, NEW m, NEW i \in Terminated, EndsWhole(file[i], m)
  PROVE  /\ i \in 1..Len(file) /\ Len(file[i]) \in Nat /\ Len(file[i]) >= 2 /\ file[i] \in Seq(Pieces)
         /\ <<i, Len(file[i])>> \in Filed /\ At(<<i, Len(file[i])>>) = Piece(m, "rest")
         /\ <<i, Len(file[i]) - 1>> \in Filed /\ At(<<i, Len(file[i]) - 1>>) = Piece(m, "head")
         /\ \A p \in Filed : At(p) = Piece(m, "rest") => p = <<i, Len(file[i])>>
         /\ \A p \in Filed : At(p) = Piece(m, "head") => p = <<i, Len(file[i]) - 1>>
  <1>1. TypeOK /\ PieceInv
    BY DEF IInv
  <1>2. i \in 1..Len(file) /\ file[i] \in Seq(Pieces)
    BY <1>1, SeqTyping DEF Terminated
  <1>3. Len(file[i]) \in Nat /\ Len(file[i]) >= 2
    BY <1>2 DEF EndsWhole
  <1>4. Len(file[i]) \in 1..Len(file[i]) /\ Len(file[i]) - 1 \in 1..Len(file[i])
    BY <1>3
  <1>5. <<i, Len(file[i])>> \in Filed /\ <<i, Len(file[i]) - 1>> \in Filed
    BY <1>1, <1>2, <1>4, SeqTyping, PlacesOf DEF Filed
  <1>6. At(<<i, Len(file[i])>>) = Piece(m, "rest") /\ At(<<i, Len(file[i]) - 1>>) = Piece(m, "head")
    BY DEF At, EndsWhole
  <1> QED BY <1>1, <1>2, <1>3, <1>5, <1>6 DEF PieceInv

\* What Append acknowledged is in the file whole, once, at the end of its line.
THEOREM AckedIsDurable == Spec => []AckedDurable
  <1>1. ASSUME IInv PROVE AckedDurable
    <2> SUFFICES ASSUME NEW m \in acked
                 PROVE  /\ Cardinality(Places(m)) = 1
                        /\ \A place \in Places(m) :
                             place[1] \in Terminated /\ place[2] = Len(file[place[1]])
      BY DEF AckedDurable
    <2>1. TypeOK /\ TailInv
      BY <1>1 DEF IInv
    <2>2. PICK i \in Terminated : EndsWhole(file[i], m)
      BY <2>1 DEF TailInv
    <2>3. PICK last : last = <<i, Len(file[i])>>
      OBVIOUS
    <2>4. /\ i \in 1..Len(file) /\ Len(file[i]) \in Nat /\ Len(file[i]) >= 2 /\ file[i] \in Seq(Pieces)
          /\ \A p \in Filed : At(p) = Piece(m, "rest") => p = last
      BY <1>1, <2>2, <2>3, WholeOnce
    <2>5. \A p : p \in Places(m) <=> \E j \in 1..Len(file) : \E k \in 2..Len(file[j]) :
                   p = <<j, k>> /\ Whole(m) = SubSeq(file[j], k - 1, k)
      <3>1. DOMAIN file = 1..Len(file)
        BY <2>1, SeqTyping
      <3>2. PICK U : U = UNION {{j} \X (2..Len(file[j])) : j \in DOMAIN file}
        OBVIOUS
      <3>3. \A p : p \in U <=> \E j \in 1..Len(file) : \E k \in 2..Len(file[j]) : p = <<j, k>>
        BY <3>1, <3>2
      <3>4. \A p : p \in Places(m) <=> p \in U /\ Whole(m) = SubSeq(file[p[1]], p[2] - 1, p[2])
        BY <3>2, Zenon DEF Places
      <3>5. ASSUME NEW p, NEW j, NEW k, p = <<j, k>>
            PROVE  SubSeq(file[p[1]], p[2] - 1, p[2]) = SubSeq(file[j], k - 1, k)
        <4>1. p[1] = j /\ p[2] = k
          BY <3>5
        <4> QED BY <4>1, Zenon
      <3>6. ASSUME NEW p, p \in Places(m)
            PROVE  \E j \in 1..Len(file) : \E k \in 2..Len(file[j]) :
                     p = <<j, k>> /\ Whole(m) = SubSeq(file[j], k - 1, k)
        <4>1. PICK j \in 1..Len(file) : \E k \in 2..Len(file[j]) : p = <<j, k>>
          BY <3>3, <3>4, <3>6
        <4>2. PICK k \in 2..Len(file[j]) : p = <<j, k>>
          BY <4>1
        <4>3. Whole(m) = SubSeq(file[j], k - 1, k)
          BY <3>4, <3>5, <3>6, <4>2
        <4> QED BY <4>2, <4>3
      <3>7. ASSUME NEW j \in 1..Len(file), NEW k \in 2..Len(file[j]), Whole(m) = SubSeq(file[j], k - 1, k)
            PROVE  <<j, k>> \in Places(m)
        <4>1. PICK p : p = <<j, k>>
          OBVIOUS
        <4>2. p \in U
          BY <3>3, <4>1
        <4>3. Whole(m) = SubSeq(file[p[1]], p[2] - 1, p[2])
          BY <3>5, <3>7, <4>1
        <4> QED BY <3>4, <4>1, <4>2, <4>3
      <3> QED BY ONLY <3>6, <3>7, Zenon
    <2>6. ASSUME NEW j \in 1..Len(file), NEW k \in 2..Len(file[j])
          PROVE  Whole(m) = SubSeq(file[j], k - 1, k) <=>
                   file[j][k - 1] = Piece(m, "head") /\ file[j][k] = Piece(m, "rest")
      <3>1. PICK line : line = file[j]
        OBVIOUS
      <3>2. line \in Seq(Pieces) /\ Len(line) \in Nat
        BY <2>1, <3>1, SeqTyping
      <3>3. k - 1 \in 1..Len(line) /\ k \in 1..Len(line) /\ k \in Int
        BY <3>1, <3>2
      <3>4. PICK two : two = SubSeq(line, k - 1, k)
        OBVIOUS
      <3>5. two \in Seq(Pieces) /\ Len(two) = 2 /\ two[1] = line[k - 1] /\ two[2] = line[k]
        BY <3>2, <3>3, <3>4
      <3>6. Whole(m) = two <=> Piece(m, "head") = two[1] /\ Piece(m, "rest") = two[2]
        BY <3>5 DEF Whole
      <3> QED BY <3>1, <3>4, <3>5, <3>6
    <2>7. last \in Places(m)
      <3>1. i \in 1..Len(file) /\ Len(file[i]) \in 2..Len(file[i])
        BY <2>4
      <3>2. Whole(m) = SubSeq(file[i], Len(file[i]) - 1, Len(file[i]))
        BY <2>2, <2>6, <3>1 DEF EndsWhole
      <3> QED BY <2>3, <2>5, <3>1, <3>2
    <2>8. ASSUME NEW p \in Places(m) PROVE p = last
      <3>0. PICK j \in 1..Len(file) : \E k \in 2..Len(file[j]) :
                p = <<j, k>> /\ Whole(m) = SubSeq(file[j], k - 1, k)
        BY <2>5, <2>8
      <3>1. PICK k \in 2..Len(file[j]) : p = <<j, k>> /\ Whole(m) = SubSeq(file[j], k - 1, k)
        BY <3>0
      <3>2. file[j][k] = Piece(m, "rest")
        BY <2>6, <3>1
      <3>3. k \in 1..Len(file[j])
        BY <2>1, SeqTyping
      <3>4. <<j, k>> \in Filed /\ At(<<j, k>>) = Piece(m, "rest")
        BY <2>1, <3>2, <3>3, SeqTyping, PlacesOf DEF Filed, At
      <3> QED BY <2>4, <3>1, <3>4
    <2>9. Places(m) = {last}
      BY <2>7, <2>8
    <2>10. Cardinality(Places(m)) = 1
      BY <2>9, FS_Singleton
    <2> QED BY <2>2, <2>3, <2>9, <2>10
  <1>2. IInv => AckedDurable
    BY <1>1
  <1> QED BY <1>2, Invariant, PTL

\* A session remembers its messages in the order they have in the file.
THEOREM OrderIsOne == Spec => []SameOrder
  <1>1. ASSUME IInv PROVE SameOrder
    <2>1. TypeOK /\ TailInv /\ OrderInv
      BY <1>1 DEF IInv
    <2>2. ASSUME NEW m, NEW i \in Terminated, EndsWhole(file[i], m) PROVE Position(m) = i
      <3>1. /\ i \in 1..Len(file) /\ Len(file[i]) \in Nat /\ Len(file[i]) >= 2 /\ file[i] \in Seq(Pieces)
            /\ \A p \in Filed : At(p) = Piece(m, "head") => p = <<i, Len(file[i]) - 1>>
        BY <1>1, <2>2, WholeOnce
      <3>2. DOMAIN file = 1..Len(file) /\ \A j \in 1..Len(file) : DOMAIN file[j] = 1..Len(file[j])
        BY <2>1, SeqTyping
      <3>3. Piece(m, "head") \in Range(file[i])
        <4>1. Len(file[i]) - 1 \in DOMAIN file[i] /\ file[i][Len(file[i]) - 1] = Piece(m, "head")
          BY <2>2, <3>1, <3>2 DEF EndsWhole
        <4> QED BY <4>1 DEF Range
      <3>4. ASSUME NEW j \in DOMAIN file, Piece(m, "head") \in Range(file[j]) PROVE j = i
        <4>1. PICK k \in 1..Len(file[j]) : file[j][k] = Piece(m, "head")
          BY <3>2, <3>4 DEF Range
        <4>2. <<j, k>> \in Filed /\ At(<<j, k>>) = Piece(m, "head")
          BY <2>1, <3>2, <4>1, SeqTyping, PlacesOf DEF Filed, At
        <4> QED BY <3>1, <4>2
      <3> QED BY <3>1, <3>2, <3>3, <3>4 DEF Position
    <2>3. ASSUME NEW s \in Sessions, NEW i \in base[s] + 1 .. Len(mem[s]), NEW j \in base[s] + 1 .. Len(mem[s]),
                 i < j, mem[s][i] \in acked, mem[s][j] \in acked
          PROVE  Position(mem[s][i]) < Position(mem[s][j])
      <3>1. PICK a, b : a = mem[s][i] /\ b = mem[s][j]
        OBVIOUS
      <3>2. PICK x \in Terminated : EndsWhole(file[x], a)
        BY <2>1, <2>3, <3>1 DEF TailInv
      <3>3. PICK y \in Terminated : EndsWhole(file[y], b)
        BY <2>1, <2>3, <3>1 DEF TailInv
      <3>4. Position(a) = x /\ Position(b) = y
        BY <2>2, <3>2, <3>3
      <3>5. PICK p \in Filed : p = <<x, Len(file[x])>> /\ At(p) = Piece(a, "rest") /\ Len(file[x]) \in Nat
        BY <1>1, <3>2, WholeOnce
      <3>6. PICK q \in Filed : q = <<y, Len(file[y])>> /\ At(q) = Piece(b, "rest") /\ Len(file[y]) \in Nat
        BY <1>1, <3>3, WholeOnce
      <3>7. Before(p, q)
        BY <2>1, <2>3, <3>1, <3>5, <3>6 DEF OrderInv
      <3>8. x < y
        BY <3>5, <3>6, <3>7 DEF Before
      <3> QED BY <3>1, <3>4, <3>8
    <2> QED BY <2>3 DEF SameOrder
  <1>2. IInv => SameOrder
    BY <1>1
  <1> QED BY <1>2, Invariant, PTL

-----------------------------------------------------------------------------
(* The sessions implement MessageLog.                                      *)

Serving == {s \in Sessions : status[s] \in {"read", "open"}}
OwnOf(s) == {m \in Message : SessionOf[m[1]] = s}
InLog == {Written[i] : i \in DOMAIN Written}
Remembered(s) == {mem[s][i] : i \in DOMAIN mem[s]}

abstract == <<Written, mem, Serving>>

\* What the log holds are the messages whose last piece is on file.
LEMMA InLogIs ==
  ASSUME IInv
  PROVE  /\ \A m \in Message : m \in InLog <=> \E p \in Filed : At(p) = Piece(m, "rest")
         /\ DOMAIN Written = 1..Len(Written) /\ Len(Written) \in Nat
         /\ \A i \in 1..Len(Written) :
              /\ InOrder(LastPieces)[i] \in Filed
              /\ At(InOrder(LastPieces)[i]) = Piece(Written[i], "rest")
         /\ \A i, j \in 1..Len(Written) :
              Before(InOrder(LastPieces)[j], InOrder(LastPieces)[i]) => j < i
  <1>1. TypeOK /\ LogInv
    BY DEF IInv
  <1>2. PICK last, k : last = InOrder(LastPieces) /\ k = Cardinality(LastPieces)
    OBVIOUS
  <1>3. /\ Written \in Seq(Message) /\ Len(Written) = k /\ k \in Nat /\ DOMAIN Written = 1..k
        /\ \A n \in 1..k : Written[n] = At(last[n]).of /\ last[n] \in LastPieces
    <2>1. Written \in Seq(Message) /\ Len(Written) = k /\ k \in Nat
      BY <1>1, <1>2, WrittenType
    <2>2. \A n \in 1..k : Written[n] = At(last[n]).of /\ last[n] \in LastPieces
      BY <1>1, <1>2, <2>1, WrittenType
    <2> QED BY <2>1, <2>2
  <1>4. LastPieces = {p \in Filed : At(p).part = "rest"}
    BY DEF LastPieces, Filed, At
  <1>5. \A p \in LastPieces : p \in Filed /\ At(p) = Piece(At(p).of, "rest") /\ At(p).of \in Message
    BY <1>1, <1>4, PieceType
  <1>6. \A i \in 1..k : last[i] \in Filed /\ At(last[i]) = Piece(Written[i], "rest")
    BY <1>3, <1>5
  <1>7. ASSUME NEW m \in Message PROVE m \in InLog <=> \E p \in Filed : At(p) = Piece(m, "rest")
    <2>1. ASSUME m \in InLog PROVE \E p \in Filed : At(p) = Piece(m, "rest")
      <3>1. PICK i \in 1..k : m = Written[i]
        BY <1>3, <2>1 DEF InLog
      <3> QED BY <1>6, <3>1
    <2>2. ASSUME NEW p \in Filed, At(p) = Piece(m, "rest") PROVE m \in InLog
      <3>1. p \in LastPieces /\ At(p).of = m
        BY <1>4, <2>2 DEF Piece
      <3>2. PICK i \in 1..k : last[i] = p
        BY <1>1, <1>2, <3>1 DEF LogInv
      <3>3. Written[i] = m
        BY <1>3, <3>1, <3>2
      <3> QED BY <1>3, <3>3 DEF InLog
    <2> QED BY <2>1, <2>2
  <1>8. ASSUME NEW i \in 1..k, NEW j \in 1..k, Before(last[j], last[i]) PROVE j < i
    <2>1. i < j => Before(last[i], last[j])
      BY <1>1, <1>2 DEF LogInv
    <2>2. /\ last[i][1] \in Int /\ last[i][2] \in Int /\ last[j][1] \in Int /\ last[j][2] \in Int
      BY <1>1, <1>6, PieceType
    <2>3. ~Before(last[i], last[j]) /\ last[i] # last[j]
      BY <1>8, <2>2 DEF Before
    <2> QED BY <2>1, <2>3
  <1> QED BY <1>2, <1>3, <1>6, <1>7, <1>8

\* The abstract operators under the mapping.
LEMMA Mapped ==
  /\ ML!Stored = InLog
  /\ \A s \in Sessions : ML!Known(s) = Remembered(s)
  /\ \A s \in Sessions : [r \in Sessions |-> {m \in Message : SessionOf[m[1]] = r}][s] = OwnOf(s)
  BY DEF ML!Stored, ML!Known, InLog, Remembered, OwnOf

\* What a goroutine is about to remember is in no session's memory of its own,
\* and in the log exactly if its session is open.
LEMMA AboutToRemember ==
  ASSUME IInv, NEW g \in Goroutines, pc[g] = "remember"
  PROVE  /\ Msg(g) \in OwnOf(SessionOf[g]) /\ Msg(g) \notin Remembered(SessionOf[g])
         /\ status[SessionOf[g]] \in {"open", "closed"}
         /\ Msg(g) \in InLog <=> status[SessionOf[g]] = "open"
  <1>1. TypeOK /\ LockInv /\ PieceInv /\ TailInv /\ MemInv
    BY DEF IInv
  <1>2. sent[g] >= 1 /\ status[SessionOf[g]] \in {"open", "closed"} /\ SessionOf[g] \in Sessions
    BY <1>1, Typing DEF LockInv
  <1>3. Msg(g) \in Message /\ Msg(g)[1] = g /\ Msg(g)[2] = sent[g]
    BY <1>1, <1>2, MsgType
  <1>4. Msg(g) \in OwnOf(SessionOf[g])
    BY <1>3 DEF OwnOf
  <1>5. Msg(g) \notin Remembered(SessionOf[g])
    <2>1. DOMAIN mem[SessionOf[g]] = 1..Len(mem[SessionOf[g]])
      BY <1>1, <1>2, SeqTyping
    <2>2. \A n \in 1..Len(mem[SessionOf[g]]) : mem[SessionOf[g]][n] # Msg(g)
      BY <1>1, <1>2, <1>3 DEF MemInv
    <2> QED BY <2>1, <2>2 DEF Remembered
  <1>6. ASSUME status[SessionOf[g]] = "open" PROVE Msg(g) \in InLog
    <2>1. PICK i \in Terminated : EndsWhole(file[i], Msg(g))
      BY <1>1, <1>6 DEF TailInv
    <2>2. <<i, Len(file[i])>> \in Filed /\ At(<<i, Len(file[i])>>) = Piece(Msg(g), "rest")
      BY <2>1, WholeOnce
    <2> QED BY <1>3, <2>2, InLogIs
  <1>7. ASSUME Msg(g) \in InLog PROVE status[SessionOf[g]] = "open"
    <2>1. PICK p \in Filed : At(p) = Piece(Msg(g), "rest")
      BY <1>3, <1>7, InLogIs
    <2>2. At(p).of = Msg(g)
      BY <2>1 DEF Piece
    <2> QED BY <1>1, <1>3, <2>2 DEF PieceInv
  <1> QED BY <1>2, <1>4, <1>5, <1>6, <1>7

\* Every step of the sessions is a step of MessageLog, or none.
LEMMA StepImplements == ASSUME IInv, [Next]_vars PROVE [ML!Next]_abstract
  <1>0. TypeOK /\ LockInv /\ PieceInv /\ MemInv /\ LogInv /\ OrderInv
    BY DEF IInv
  <1>m. mem \in [Sessions -> Seq(Message)]
    BY <1>0, SeqTyping
  <1>w. (\A g \in Goroutines : ~(WritePiece(g) /\ pc[g] = "rest")) => UNCHANGED Written
    BY <1>0, LogGrows
  <1>1. ASSUME NEW s \in Sessions, ReadAllMessages(s) PROVE [ML!Next]_abstract
    <2>1. UNCHANGED Written /\ s \notin Serving
      BY <1>1, <1>w DEF ReadAllMessages, WritePiece, Serving, Written, LastPieces
    <2>2. CASE Parses(file)
      <3>1. mem' = [mem EXCEPT ![s] = Written] /\ status' = [status EXCEPT ![s] = "read"]
        BY <1>0, <1>1, <2>2, ReadsWritten DEF ReadAllMessages
      <3>2. Serving' = Serving \cup {s}
        BY <1>0, <3>1, Typing DEF Serving
      <3>3. ML!Open(s)
        BY <2>1, <3>1, <3>2 DEF ML!Open, Serving
      <3> QED BY <3>3 DEF ML!Next
    <2>3. CASE ~Parses(file)
      <3>1. UNCHANGED mem /\ status' = [status EXCEPT ![s] = "corrupt"]
        BY <1>1, <2>3 DEF ReadAllMessages
      <3>2. Serving' = Serving
        BY <1>0, <2>1, <3>1, Typing DEF Serving
      <3> QED BY <2>1, <3>1, <3>2 DEF abstract
    <2> QED BY <2>2, <2>3
  <1>2. ASSUME NEW s \in Sessions, OpenForAppend(s) PROVE [ML!Next]_abstract
    <2>1. status[s] = "read" /\ status' = [status EXCEPT ![s] = "open"] /\ UNCHANGED <<mem, file>>
      BY <1>2 DEF OpenForAppend
    <2>2. Serving' = Serving
      BY <1>0, <2>1, Typing DEF Serving
    <2> QED BY <2>1, <2>2 DEF abstract, Written, LastPieces
  <1>3. ASSUME NEW s \in Sessions, Close(s) \/ Crash(s) PROVE [ML!Next]_abstract
    <2>1. PICK x \in {"closed", "absent"} : status' = [status EXCEPT ![s] = x]
      BY <1>3 DEF Close, Crash
    <2>2. s \in Serving /\ UNCHANGED <<mem, file>>
      BY <1>3 DEF Close, Crash, Serving
    <2>3. Serving' = Serving \ {s}
      BY <1>0, <2>1, <2>2, Typing DEF Serving
    <2>4. UNCHANGED Written
      BY <2>2 DEF Written, LastPieces
    <2>5. ML!Leave(s)
      BY <2>2, <2>3, <2>4 DEF ML!Leave, Serving
    <2> QED BY <2>5 DEF ML!Next
  <1>4. ASSUME NEW g \in Goroutines, WritePiece(g), pc[g] = "rest" PROVE [ML!Next]_abstract
    <2>1. PICK s \in Sessions : s = SessionOf[g]
      BY <1>0, Typing
    <2>2. sent[g] >= 1 /\ status[s] = "open" /\ UNCHANGED <<status, mem>>
      BY <1>0, <1>4, <2>1 DEF LockInv, InFlock, WritePiece, sessionVars
    <2>3. Msg(g) \in Message /\ Msg(g)[1] = g /\ Msg(g)[2] = sent[g]
      BY <1>0, <2>2, MsgType
    <2>4. Msg(g) \notin InLog
      <3> SUFFICES ASSUME NEW p \in Filed, At(p) = Piece(Msg(g), "rest") PROVE FALSE
        BY <2>3, InLogIs
      <3>1. At(p).of = Msg(g) /\ At(p).part = "rest"
        BY DEF Piece
      <3> QED BY <1>0, <1>4, <2>3, <3>1 DEF PieceInv
    <2>5. Written' = Append(Written, Msg(g))
      BY <1>0, <1>4, LogGrows
    <2>6. s \in Serving /\ UNCHANGED Serving /\ Msg(g) \in OwnOf(s)
      BY <2>1, <2>2, <2>3 DEF Serving, OwnOf
    <2>7. ML!Store(s, Msg(g))
      BY <2>2, <2>4, <2>5, <2>6, Mapped DEF ML!Store, Serving
    <2>8. Msg(g) \in [r \in Sessions |-> {m \in Message : SessionOf[m[1]] = r}][s]
      BY <2>6, Mapped
    <2> QED BY <2>7, <2>8 DEF ML!Next
  <1>5. ASSUME NEW g \in Goroutines, Remember(g) PROVE [ML!Next]_abstract
    <2>1. PICK s \in Sessions : s = SessionOf[g]
      BY <1>0, Typing
    <2>2. PICK m : m = Msg(g)
      OBVIOUS
    <2>3. /\ pc[g] = "remember" /\ mem' = [mem EXCEPT ![s] = Append(@, m)] /\ UNCHANGED <<file, status>>
      BY <1>5, <2>1, <2>2 DEF Remember
    <2>4. UNCHANGED <<Written, Serving>>
      BY <2>3 DEF Written, LastPieces, Serving
    <2>5. /\ m \in OwnOf(s) /\ m \notin Remembered(s) /\ status[s] \in {"open", "closed"}
          /\ m \in InLog <=> status[s] = "open"
      BY <2>1, <2>2, <2>3, AboutToRemember
    <2>6. m \in [r \in Sessions |-> {x \in Message : SessionOf[x[1]] = r}][s]
      BY <2>5, Mapped
    <2>7. CASE status[s] = "closed"
      <3>1. s \notin Serving
        BY <2>7 DEF Serving
      <3>2. ML!RememberOnly(s, m)
        BY <2>3, <2>4, <2>5, <2>7, <3>1, Mapped DEF ML!RememberOnly, Serving
      <3> QED BY <2>6, <3>2 DEF ML!Next
    <2>8. CASE status[s] = "open"
      <3>1. s \in Serving
        BY <2>8 DEF Serving
      <3>2. ASSUME NEW i \in DOMAIN Written, NEW j \in DOMAIN Written,
                   Written[i] = m, Written[j] \in OwnOf(s) \cap Remembered(s)
            PROVE  j < i
        <4>1. i \in 1..Len(Written) /\ j \in 1..Len(Written)
          BY InLogIs
        <4>2. PICK p, q : p = InOrder(LastPieces)[i] /\ q = InOrder(LastPieces)[j]
          OBVIOUS
        <4>3. /\ p \in Filed /\ At(p) = Piece(m, "rest")
              /\ q \in Filed /\ At(q) = Piece(Written[j], "rest")
          BY <3>2, <4>1, <4>2, InLogIs
        <4>4. p \in LastPieces /\ q \in LastPieces
          BY <4>3 DEF LastPieces, Filed, At, Piece
        <4>5. p # q
          <5>1. Written[j] # m
            BY <2>5, <3>2
          <5> QED BY <4>3, <5>1 DEF Piece
        <4>6. SessionOf[At(q).of[1]] = SessionOf[g]
          BY <2>1, <3>2, <4>3 DEF OwnOf, Piece
        <4>7. Before(q, p)
          BY <1>0, <2>2, <2>3, <4>3, <4>4, <4>5, <4>6 DEF OrderInv
        <4> QED BY <4>1, <4>2, <4>7, InLogIs
      <3>3. ML!Memorable(s, m)
        BY <2>5, <2>8, <3>2, Mapped DEF ML!Memorable
      <3>4. ML!Remember(s, m)
        BY <2>3, <2>4, <3>1, <3>3 DEF ML!Remember, Serving
      <3> QED BY <2>6, <3>4 DEF ML!Next
    <2> QED BY <2>5, <2>7, <2>8
  <1>6. ASSUME NEW g \in Goroutines,
               \/ CallAppend(g) \/ LockMu(g) \/ LockFile(g) \/ Refused(g) \/ WriteNewline(g) \/ WriteFails(g)
               \/ UnlockFile(g) \/ ReleaseMu(g) \/ (WritePiece(g) /\ pc[g] = "head")
        PROVE  [ML!Next]_abstract
    <2>1. UNCHANGED <<status, mem>>
      BY <1>6 DEF CallAppend, LockMu, LockFile, Refused, WriteNewline, WriteFails, UnlockFile, ReleaseMu,
         WritePiece, sessionVars
    <2>2. pc' = [pc EXCEPT ![g] = pc'[g]] /\ ~(pc[g] = "rest" /\ pc'[g] = "newline")
      <3>1. CASE CallAppend(g)
        BY <1>0, <3>1, Typing DEF CallAppend, Goto
      <3>2. CASE StepOf(g)
        <4>1. pc' = [pc EXCEPT ![g] = pc'[g]]
          BY <1>0, <3>2, GoesOn
        <4>2. ~(pc[g] = "rest" /\ pc'[g] = "newline")
          BY <1>0, <1>6, Typing DEF CallAppend, LockMu, LockFile, Refused, WriteNewline, WriteFails, UnlockFile,
             ReleaseMu, WritePiece, Goto
        <4> QED BY <4>1, <4>2
      <3> QED BY <1>6, <3>1, <3>2 DEF StepOf
    <2>3. \A h \in Goroutines : ~(WritePiece(h) /\ pc[h] = "rest")
      <3> SUFFICES ASSUME NEW h \in Goroutines, WritePiece(h), pc[h] = "rest" PROVE FALSE
        OBVIOUS
      <3>1. pc'[h] = "newline"
        BY <1>0, Typing DEF WritePiece, Goto
      <3> QED BY <1>0, <2>2, <3>1, Typing
    <2> QED BY <1>w, <2>1, <2>3 DEF abstract, Serving
  <1>7. CASE UNCHANGED vars
    BY <1>7 DEF vars, abstract, Serving, Written, LastPieces
  <1>8. \A g \in Goroutines : WritePiece(g) => pc[g] \in {"head", "rest"}
    BY DEF WritePiece
  <1> QED BY <1>1, <1>2, <1>3, <1>4, <1>5, <1>6, <1>7, <1>8, StepForms DEF StepOf

\* The sessions keep one log, whoever shares it and whatever fails.
THEOREM StoreImplements == Spec => Implements
  <1>1. Init => ML!Init
    <2> SUFFICES ASSUME Init PROVE ML!Init
      OBVIOUS
    <2>1. IInv
      BY InitInv
    <2>2. Written = <<>>
      <3>1. LastPieces = {}
        <4>1. Len(file) = 1 /\ file[1] = <<>> /\ TypeOK
          BY <2>1 DEF Init, IInv
        <4>2. \A p \in Filed : FALSE
          BY <4>1, PieceType
        <4> QED BY <4>2 DEF Filed, LastPieces
      <3>2. Written \in Seq(Message) /\ Len(Written) = Cardinality(LastPieces)
        BY <2>1, WrittenType DEF IInv
      <3>3. Len(Written) = 0
        BY <3>1, <3>2, FS_EmptySet
      <3> QED BY <3>2, <3>3
    <2>3. Serving = {} /\ mem = [s \in Sessions |-> <<>>]
      BY DEF Init, Serving
    <2> QED BY <2>2, <2>3 DEF ML!Init, Serving
  <1>2. IInv /\ [Next]_vars => [ML!Next]_abstract
    BY StepImplements
  <1> QED BY <1>1, <1>2, Invariant, PTL DEF Spec, Implements, ML!Spec, abstract, Serving
=============================================================================
