--------------------------- MODULE FileToolsProofs ---------------------------
(***************************************************************************)
(* Proofs about FileTools, for any number of agents, calls, edits per call *)
(* and losses of power.                                                    *)
(***************************************************************************)
EXTENDS FileTools, SequenceTheorems, TLAPS

-----------------------------------------------------------------------------
(* The inductive invariant.                                                *)

Editing == {"read", "replace", "stat", "create", "write", "sync", "chmod", "rename"}
Mode == {"none", "original", "0600", "0644"}

\* Pieces a content may have: those of the calls made so far.
SeenPiece == [of : 1..calls \cup {Original, None}, part : Nat]

TypeOK ==
  /\ path \in Inode \cup {None}
  /\ data \in [Inode -> Seq(SeenPiece)]
  /\ mode \in [Inode -> Mode]
  /\ synced \subseteq Inode /\ past \subseteq Inode \cup {None} /\ temps \subseteq edits
  /\ pc \in [Procs -> Editing \cup {"idle", "open", "fill"}]
  /\ calls \in 0..MaxCalls /\ call \in [Procs -> 0..calls]
  /\ buf \in [Procs -> Seq(SeenPiece)] /\ perm \in [Procs -> Mode]
  /\ fd \in [Procs -> Inode \cup {None}] /\ offset \in [Procs -> 0..Parts]
  /\ edits \subseteq 1..calls
  /\ result \in [Call -> {"none", "ok", "error", "crashed"}]
  /\ losses \in 0..MaxLosses

\* A call belongs to one agent and has no result while it runs; a temporary
\* file is that of a call that runs or died.
CallInv ==
  /\ \A p \in Procs : pc[p] # "idle" =>
       /\ call[p] \in 1..calls /\ result[call[p]] = "none"
       /\ call[p] \in edits <=> pc[p] \in Editing
  /\ \A p, q \in Procs : pc[p] # "idle" /\ pc[q] # "idle" /\ call[p] = call[q] => p = q
  /\ \A c \in Call : c > calls => result[c] = "none"
  /\ \A c \in temps : result[c] \in {"none", "crashed"}

\* The path names the file of an edit when that has succeeded; a file being
\* written in place is not on disk, one about to be renamed is.
NameInv ==
  /\ path \in past
  /\ \A i \in past \cap Call : i <= calls /\ (i \in edits => result[i] = "ok")
  /\ \A p \in Procs : pc[p] = "fill" => fd[p] \in past \ ({None} \cup synced)
  /\ \A p \in Procs : pc[p] \in {"chmod", "rename"} => call[p] \in synced

\* The edits of call c that content has.
Shows(content, c) == {k \in 1..Parts : \E i \in DOMAIN content : content[i] = Piece(c, k)}

\* None of them, or all and the call has succeeded.
Settled(content, c, how) ==
  Shows(content, c) = {} \/ (Shows(content, c) = 1..Parts /\ how = "ok")

\* Every content a name ever led to is settled, and one that is not on disk
\* has no edit in it: losing a part of it tears none.  The same holds of what
\* an edit has in memory or in its temporary file, but for its own edits.
ContentInv ==
  /\ \A i \in past \ {None} : \A c \in edits :
       /\ Settled(data[i], c, result[c])
       /\ i \notin synced => Shows(data[i], c) = {}
  /\ \A p \in Procs :
       /\ pc[p] \in {"replace", "stat", "create", "write"} =>
            \A c \in edits \ {call[p]} : Settled(buf[p], c, result[c])
       /\ pc[p] \in {"stat", "create", "write"} => Shows(buf[p], call[p]) = 1..Parts
       /\ pc[p] \in {"sync", "chmod", "rename"} =>
            /\ \A c \in edits \ {call[p]} : Settled(data[call[p]], c, result[c])
            /\ Shows(data[call[p]], call[p]) = 1..Parts

Kept == IF mode[Original] = "original" THEN "original" ELSE "0644"

\* Every file the path named has the mode to keep, and an edit knows it.
ModeInv ==
  /\ mode[Original] \in {"original", "none"}
  /\ None \in past => mode[Original] = "none"
  /\ \A i \in past \ {None} : mode[i] = Kept
  /\ \A p \in Procs :
       /\ pc[p] \in {"create", "write", "sync", "chmod", "rename"} => perm[p] = Kept
       /\ pc[p] = "rename" => mode[call[p]] = Kept

IInv == TypeOK /\ CallInv /\ NameInv /\ ContentInv /\ ModeInv

-----------------------------------------------------------------------------
(* Lemmas about contents.                                                  *)

\* Appending an edit shows it, and nothing else.
LEMMA ShowsAppend ==
  ASSUME NEW S, NEW s \in Seq(S), NEW c, NEW k \in 1..Parts, NEW d
  PROVE  Shows(Append(s, Piece(c, k)), d) =
           IF d = c THEN Shows(s, c) \cup {k} ELSE Shows(s, d)
  <1> DEFINE t == Append(s, Piece(c, k))
  <1>1. /\ DOMAIN t = DOMAIN s \cup {Len(s) + 1} /\ Len(s) + 1 \notin DOMAIN s
        /\ t[Len(s) + 1] = Piece(c, k) /\ \A i \in DOMAIN s : t[i] = s[i]
    OBVIOUS
  <1>2. \A j : Piece(d, j) = Piece(c, k) <=> d = c /\ j = k
    BY DEF Piece
  <1> HIDE DEF t
  <1>3. Shows(t, d) = IF d = c THEN Shows(s, c) \cup {k} ELSE Shows(s, d)
    BY <1>1, <1>2 DEF Shows
  <1> QED BY <1>3 DEF t

\* A piece written anywhere into a content that has no edit of d adds none.
LEMMA ShowsWritten ==
  ASSUME NEW S, NEW s \in Seq(S), NEW k \in Nat \ {0}, NEW c, NEW j, NEW d,
         d # c, d # None, Shows(s, d) = {}
  PROVE  Shows(WrittenAt(s, k, Piece(c, j)), d) = {}
  <1> DEFINE t == WrittenAt(s, k, Piece(c, j))
  <1>1. \A i \in DOMAIN t : t[i] = Piece(c, j) \/ t[i] = HolePiece \/ (i \in DOMAIN s /\ t[i] = s[i])
    BY DEF WrittenAt
  <1>2. \A n : Piece(d, n) # Piece(c, j) /\ Piece(d, n) # HolePiece
    BY DEF Piece, HolePiece
  <1> HIDE DEF t
  <1>3. Shows(t, d) = {}
    BY <1>1, <1>2 DEF Shows
  <1> QED BY <1>3 DEF t

\* Nor does losing the end of it.
LEMMA ShowsSubSeq ==
  ASSUME NEW S, NEW s \in Seq(S), NEW n \in 0..Len(s), NEW d, Shows(s, d) = {}
  PROVE  SubSeq(s, 1, n) \in Seq(S) /\ Shows(SubSeq(s, 1, n), d) = {}
  <1> DEFINE t == SubSeq(s, 1, n)
  <1>1. t \in Seq(S) /\ DOMAIN t \subseteq DOMAIN s /\ \A i \in DOMAIN t : t[i] = s[i]
    OBVIOUS
  <1> HIDE DEF t
  <1>2. Shows(t, d) = {}
    BY <1>1 DEF Shows
  <1> QED BY <1>1, <1>2 DEF t

\* Writing at an offset leaves a sequence, with a hole where nothing was.
LEMMA WrittenType ==
  ASSUME NEW S, NEW s \in Seq(S), NEW k \in Nat \ {0}, NEW x \in S, HolePiece \in S
  PROVE  WrittenAt(s, k, x) \in Seq(S)
  <1> DEFINE n == IF k > Len(s) THEN k ELSE Len(s)
  <1>1. n \in Nat /\ Len(s) \in Nat
    OBVIOUS
  <1>2. \A i \in 1..n : (IF i = k THEN x ELSE IF i <= Len(s) THEN s[i] ELSE HolePiece) \in S
    OBVIOUS
  <1> QED BY <1>1, <1>2 DEF WrittenAt

\* A call of which no piece was seen shows nothing.
LEMMA ShowsUnseen ==
  ASSUME NEW s \in Seq(SeenPiece), NEW c, c \notin 1..calls \cup {Original, None}
  PROVE  Shows(s, c) = {}
  <1>1. \A i \in DOMAIN s : s[i] \in SeenPiece
    OBVIOUS
  <1>2. \A k : Piece(c, k) \notin SeenPiece
    BY DEF Piece, SeenPiece
  <1> QED BY <1>1, <1>2 DEF Shows

-----------------------------------------------------------------------------
(* Each part of the invariant is kept by every step.                       *)

\* What the assumptions say of the constants.
LEMMA Constants ==
  /\ Parts \in Nat /\ MaxCalls \in Nat /\ MaxLosses \in Nat
  /\ Original \in Inode /\ None \notin Inode /\ Original # None /\ Original \notin Call
  /\ Call = 1..MaxCalls /\ Call \subseteq Inode
  BY FileAssumption DEF Call, Inode

\* A piece that was seen still was when calls has grown.
LEMMA SeenGrows ==
  ASSUME calls \in Nat, calls' \in Nat, calls <= calls'
  PROVE  SeenPiece \subseteq SeenPiece' /\ Seq(SeenPiece) \subseteq Seq(SeenPiece')
  <1>1. SeenPiece \subseteq SeenPiece'
    BY DEF SeenPiece
  <1> QED BY <1>1

\* Types are kept.
LEMMA NextType == ASSUME IInv, [Next]_vars PROVE TypeOK'
  <1> USE Constants DEF fileVars, editVars, writeVars, callVars, Goto
  <1>0. TypeOK /\ CallInv /\ NameInv
    BY DEF IInv
  <1>t. /\ path \in Inode \cup {None} /\ mode \in [Inode -> Mode]
        /\ synced \subseteq Inode /\ past \subseteq Inode \cup {None} /\ temps \subseteq edits
        /\ pc \in [Procs -> Editing \cup {"idle", "open", "fill"}]
        /\ calls \in 0..MaxCalls /\ call \in [Procs -> 0..calls] /\ perm \in [Procs -> Mode]
        /\ fd \in [Procs -> Inode \cup {None}] /\ offset \in [Procs -> 0..Parts]
        /\ edits \subseteq 1..calls
        /\ result \in [Call -> {"none", "ok", "error", "crashed"}] /\ losses \in 0..MaxLosses
    BY <1>0 DEF TypeOK
  <1>c. data \in [Inode -> Seq(SeenPiece)] /\ buf \in [Procs -> Seq(SeenPiece)]
    BY <1>0 DEF TypeOK
  <1>e. <<>> \in Seq(SeenPiece)
    OBVIOUS
  <1>s. calls' = calls => SeenPiece' = SeenPiece
    BY DEF SeenPiece
  <1>1. ASSUME NEW p \in Procs, BeginEdit(p) \/ BeginWrite(p) PROVE TypeOK'
    <2>1. calls' = calls + 1 /\ calls' \in 1..MaxCalls /\ call' = [call EXCEPT ![p] = calls + 1]
      BY <1>t, <1>1 DEF BeginEdit, BeginWrite, Begin
    <2>2. UNCHANGED <<fileVars, temps, editVars, writeVars, result, losses>>
      BY <1>1 DEF BeginEdit, BeginWrite
    <2>3. Seq(SeenPiece) \subseteq Seq(SeenPiece')
      BY <1>t, <2>1, SeenGrows
    <2>4. data' \in [Inode -> Seq(SeenPiece')] /\ buf' \in [Procs -> Seq(SeenPiece')]
      BY <1>c, <2>2, <2>3
    <2>5. pc' \in [Procs -> Editing \cup {"idle", "open", "fill"}]
      BY <1>t, <1>1 DEF BeginEdit, BeginWrite, Begin, Editing
    <2>6. edits' \subseteq 1..calls' /\ temps' \subseteq edits'
      <3>1. edits' = edits \/ edits' = edits \cup {calls + 1}
        BY <1>1 DEF BeginEdit, BeginWrite
      <3>2. temps' \subseteq edits /\ calls + 1 \in 1..calls' /\ 1..calls \subseteq 1..calls'
        BY <1>t, <2>1, <2>2
      <3> QED BY <1>t, <3>1, <3>2
    <2>7. call' \in [Procs -> 0..calls']
      BY <1>t, <2>1
    <2>8. UNCHANGED <<path, mode, synced, past, perm, fd, offset, result, losses>>
      BY <2>2
    <2>9. calls' \in 0..MaxCalls
      BY <2>1
    <2> QED BY <1>t, <2>4, <2>5, <2>6, <2>7, <2>8, <2>9 DEF TypeOK
  <1>2. ASSUME NEW p \in Procs, ReadOriginal(p) PROVE TypeOK'
    <2>1. SeenPiece' = SeenPiece
      BY <1>2, <1>s DEF ReadOriginal
    <2> QED BY <1>t, <1>c, <1>2, <2>1 DEF ReadOriginal, Editing, TypeOK
  <1>3. ASSUME NEW p \in Procs, Replace(p) PROVE TypeOK'
    <2>1. SeenPiece' = SeenPiece
      BY <1>3, <1>s DEF Replace
    <2>2. PICK k \in NextEdits(p) : /\ buf' = [buf EXCEPT ![p] = Append(@, Piece(call[p], k))]
                                    /\ Goto(p, IF k = Parts THEN "stat" ELSE "replace")
      BY <1>3 DEF Replace
    <2>3. Piece(call[p], k) \in SeenPiece
      BY <1>0, <1>t, <1>3, <2>2 DEF Replace, CallInv, NextEdits, Piece, SeenPiece
    <2>4. Append(buf[p], Piece(call[p], k)) \in Seq(SeenPiece)
      BY <1>c, <2>3
    <2> QED BY <1>t, <1>c, <1>3, <2>1, <2>2, <2>4 DEF Replace, Editing, TypeOK
  <1>4. ASSUME NEW p \in Procs, StatOriginal(p) PROVE TypeOK'
    <2>1. SeenPiece' = SeenPiece
      BY <1>4, <1>s DEF StatOriginal
    <2> QED BY <1>t, <1>c, <1>4, <2>1 DEF StatOriginal, Editing, TypeOK
  <1>5. ASSUME NEW p \in Procs, CreateTemp(p) PROVE TypeOK'
    <2>1. SeenPiece' = SeenPiece /\ call[p] \in edits
      BY <1>0, <1>5, <1>s DEF CreateTemp, CallInv, Editing
    <2> QED BY <1>t, <1>c, <1>5, <2>1 DEF CreateTemp, Editing, Mode, TypeOK
  <1>6. ASSUME NEW p \in Procs, WriteTemp(p) \/ SyncTemp(p) PROVE TypeOK'
    <2>1. SeenPiece' = SeenPiece /\ call[p] \in Call
      BY <1>0, <1>t, <1>6, <1>s DEF WriteTemp, SyncTemp, CallInv, Editing
    <2> QED BY <1>t, <1>c, <1>6, <2>1 DEF WriteTemp, SyncTemp, Synced, Editing, TypeOK
  <1>7. ASSUME NEW p \in Procs, ChmodTemp(p) PROVE TypeOK'
    <2>1. SeenPiece' = SeenPiece
      BY <1>7, <1>s DEF ChmodTemp
    <2> QED BY <1>t, <1>c, <1>7, <2>1 DEF ChmodTemp, NewMode, Editing, TypeOK
  <1>8. ASSUME NEW p \in Procs, End(p, "ok") \/ End(p, "error") \/ End(p, "crashed"),
               pc[p] # "idle", UNCHANGED <<data, mode, synced, callVars, edits, losses>>,
               path' \in {path, call[p]}, past' \subseteq past \cup {call[p]}, temps' \subseteq temps
        PROVE  TypeOK'
    <2>1. SeenPiece' = SeenPiece /\ call[p] \in Call
      BY <1>0, <1>t, <1>8, <1>s DEF CallInv
    <2>e. /\ pc' = [pc EXCEPT ![p] = "idle"]
          /\ buf' = [buf EXCEPT ![p] = <<>>] /\ perm' = [perm EXCEPT ![p] = "none"]
          /\ fd' = [fd EXCEPT ![p] = None] /\ offset' = [offset EXCEPT ![p] = 0]
      BY <1>8 DEF End
    <2>2. result' \in [Call -> {"none", "ok", "error", "crashed"}]
      BY <1>t, <1>8, <2>1 DEF End
    <2>3. buf' \in [Procs -> Seq(SeenPiece)] /\ perm' \in [Procs -> Mode]
      BY <1>t, <1>c, <1>e, <2>e DEF Mode
    <2>4. fd' \in [Procs -> Inode \cup {None}] /\ offset' \in [Procs -> 0..Parts]
      BY <1>t, <2>e
    <2>5. pc' \in [Procs -> Editing \cup {"idle", "open", "fill"}]
      BY <1>t, <2>e
    <2> QED BY <1>t, <1>c, <1>8, <2>1, <2>2, <2>3, <2>4, <2>5 DEF TypeOK
  <1>9. ASSUME NEW p \in Procs, Rename(p) \/ EditFails(p) \/ WriteDone(p) \/ WriteFails(p) \/ Crash(p)
        PROVE  TypeOK'
    <2>1. CASE Rename(p)
      BY <1>8, <2>1 DEF Rename
    <2>2. CASE EditFails(p)
      BY <1>8, <2>2 DEF EditFails, Cleaned
    <2>3. CASE WriteDone(p) \/ WriteFails(p) \/ Crash(p)
      BY <1>8, <2>3 DEF WriteDone, WriteFails, Crash
    <2> QED BY <1>9, <2>1, <2>2, <2>3
  <1>10. ASSUME NEW p \in Procs, OpenTruncated(p) PROVE TypeOK'
    <2>1. SeenPiece' = SeenPiece /\ call[p] \in Call
      BY <1>0, <1>t, <1>10, <1>s DEF OpenTruncated, CallInv
    <2> DEFINE i == IF path = None THEN call[p] ELSE path
    <2>2. i \in Inode
      BY <1>t, <2>1
    <2> HIDE DEF i
    <2>3. /\ path' = i /\ past' = past \cup {i} /\ data' = [data EXCEPT ![i] = <<>>]
          /\ synced' = synced \ {i} /\ mode' \in {[mode EXCEPT ![i] = "0644"], mode}
          /\ fd' = [fd EXCEPT ![p] = i]
      BY <1>10 DEF OpenTruncated, i
    <2>4. data' \in [Inode -> Seq(SeenPiece)] /\ mode' \in [Inode -> Mode]
      BY <1>t, <1>c, <1>e, <2>2, <2>3 DEF Mode
    <2>5. path' \in Inode /\ past' \subseteq Inode \cup {None} /\ synced' \subseteq Inode
      BY <1>t, <2>2, <2>3
    <2>6. fd' \in [Procs -> Inode \cup {None}] /\ offset' \in [Procs -> 0..Parts]
      BY <1>t, <1>10, <2>2, <2>3 DEF OpenTruncated
    <2>7. pc' \in [Procs -> Editing \cup {"idle", "open", "fill"}]
      BY <1>t, <1>10 DEF OpenTruncated
    <2>8. UNCHANGED <<temps, calls, call, buf, perm, edits, result, losses>>
      BY <1>10 DEF OpenTruncated
    <2> QED BY <1>t, <1>c, <2>1, <2>4, <2>5, <2>6, <2>7, <2>8 DEF TypeOK
  <1>11. ASSUME NEW p \in Procs, Fill(p) PROVE TypeOK'
    <2>1. SeenPiece' = SeenPiece /\ call[p] \in 1..calls /\ offset[p] + 1 \in Nat \ {0}
      BY <1>0, <1>t, <1>11, <1>s DEF Fill, CallInv
    <2>2. Piece(call[p], offset[p] + 1) \in SeenPiece /\ HolePiece \in SeenPiece
      BY <2>1 DEF SeenPiece, HolePiece, Piece
    <2>3. fd[p] \in Inode
      BY <1>0, <1>t, <1>11 DEF Fill, NameInv
    <2>4. WrittenAt(data[fd[p]], offset[p] + 1, Piece(call[p], offset[p] + 1)) \in Seq(SeenPiece)
      BY <1>c, <2>1, <2>2, <2>3, WrittenType
    <2>5. data' \in [Inode -> Seq(SeenPiece)] /\ offset' \in [Procs -> 0..Parts]
      BY <1>t, <1>c, <1>11, <2>1, <2>3, <2>4 DEF Fill, MorePieces
    <2> QED BY <1>t, <1>c, <1>11, <2>1, <2>5 DEF Fill, TypeOK
  <1>12. CASE PowerLoss
    <2>1. SeenPiece' = SeenPiece
      BY <1>12, <1>s DEF PowerLoss
    <2>2. data' \in [Inode -> Seq(SeenPiece)]
      <3>1. CASE UNCHANGED data
        BY <1>c, <3>1
      <3>2. CASE \E n \in 0..Len(data[path']) : data' = [data EXCEPT ![path'] = SubSeq(@, 1, n)]
        <4>1. PICK n \in 0..Len(data[path']) : data' = [data EXCEPT ![path'] = SubSeq(@, 1, n)]
          BY <3>2
        <4>2. CASE path' \in Inode
          <5>1. data[path'] \in Seq(SeenPiece)
            BY <1>c, <4>2
          <5>2. SubSeq(data[path'], 1, n) \in Seq(SeenPiece)
            BY <5>1
          <5> QED BY <1>c, <4>1, <5>2
        <4>3. CASE path' \notin Inode
          BY <1>c, <4>1, <4>3
        <4> QED BY <4>2, <4>3
      <3> QED BY <1>12, <3>1, <3>2 DEF PowerLoss
    <2>3. path' \in Inode \cup {None} /\ synced' \subseteq Inode /\ past' \subseteq Inode \cup {None}
      BY <1>t, <1>c, <1>e, <1>12 DEF PowerLoss
    <2>4. result' \in [Call -> {"none", "ok", "error", "crashed"}]
      BY <1>t, <1>c, <1>e, <1>12 DEF PowerLoss
    <2>5. /\ buf' \in [Procs -> Seq(SeenPiece)] /\ perm' \in [Procs -> Mode]
          /\ fd' \in [Procs -> Inode \cup {None}] /\ offset' \in [Procs -> 0..Parts]
          /\ pc' \in [Procs -> Editing \cup {"idle", "open", "fill"}]
      BY <1>t, <1>c, <1>e, <1>12 DEF PowerLoss, Mode
    <2>6. losses' \in 0..MaxLosses
      BY <1>t, <1>c, <1>e, <1>12 DEF PowerLoss
    <2>7. UNCHANGED <<mode, temps, callVars, edits>>
      BY <1>12 DEF PowerLoss
    <2> QED BY <1>t, <1>c, <1>12, <2>1, <2>2, <2>3, <2>4, <2>5, <2>6, <2>7 DEF TypeOK
  <1>13. CASE UNCHANGED vars
    BY <1>0, <1>13, <1>s DEF vars, TypeOK
  <1> QED BY <1>1, <1>2, <1>3, <1>4, <1>5, <1>6, <1>7, <1>9, <1>10, <1>11, <1>12, <1>13
      DEF Next, Edit, Write

\* What the parts of the invariant say of calls in types.
LEMMA Typing ==
  ASSUME TypeOK
  PROVE  /\ pc \in [Procs -> Editing \cup {"idle", "open", "fill"}]
         /\ calls \in 0..MaxCalls /\ call \in [Procs -> 0..calls]
         /\ edits \subseteq 1..calls /\ temps \subseteq edits
         /\ result \in [Call -> {"none", "ok", "error", "crashed"}]
         /\ path \in Inode \cup {None} /\ past \subseteq Inode \cup {None} /\ synced \subseteq Inode
         /\ fd \in [Procs -> Inode \cup {None}]
         /\ mode \in [Inode -> Mode] /\ perm \in [Procs -> Mode]
  BY DEF TypeOK

\* A step inside an edit, with what it leaves alone.
Advance(p) ==
  \/ ReadOriginal(p) \/ Replace(p) \/ StatOriginal(p) \/ CreateTemp(p)
  \/ WriteTemp(p) \/ SyncTemp(p) \/ ChmodTemp(p)

\* It stays inside the edit and gives nothing a name.
LEMMA AdvanceStays ==
  ASSUME TypeOK, NEW p \in Procs, Advance(p)
  PROVE  /\ pc[p] \in Editing \ {"rename"}
         /\ pc' = [pc EXCEPT ![p] = pc'[p]] /\ pc'[p] \in Editing \ {"read"}
         /\ UNCHANGED <<path, past, calls, call, fd, offset, edits, result, losses>>
  <1> USE Typing DEF fileVars, editVars, writeVars, callVars, Goto, Editing
  <1>1. CASE Replace(p)
    BY <1>1 DEF Replace
  <1>2. CASE ReadOriginal(p) \/ StatOriginal(p) \/ CreateTemp(p)
    BY <1>2 DEF ReadOriginal, StatOriginal, CreateTemp
  <1>3. CASE WriteTemp(p) \/ SyncTemp(p) \/ ChmodTemp(p)
    BY <1>3 DEF WriteTemp, SyncTemp, ChmodTemp
  <1> QED BY <1>1, <1>2, <1>3 DEF Advance

\* A call that ends, and how.
Ends(p) == Rename(p) \/ EditFails(p) \/ WriteDone(p) \/ WriteFails(p) \/ Crash(p)

\* Its call gets a result, and leaves a temporary file only by dying.
LEMMA EndsCall ==
  ASSUME TypeOK, NEW p \in Procs, Ends(p)
  PROVE  /\ pc[p] # "idle" /\ pc' = [pc EXCEPT ![p] = "idle"]
         /\ \E how \in {"ok", "error", "crashed"} :
              /\ result' = [result EXCEPT ![call[p]] = how]
              /\ how # "crashed" => call[p] \notin temps' \/ pc[p] \notin Editing
         /\ temps' \subseteq temps
         /\ UNCHANGED <<data, mode, synced, calls, call, edits, losses>>
         /\ ~Rename(p) => UNCHANGED <<path, past>>
  <1> USE Typing DEF fileVars, callVars, Goto, Editing, End
  <1>1. CASE Rename(p)
    BY <1>1 DEF Rename
  <1>2. CASE EditFails(p)
    BY <1>2 DEF EditFails, Cleaned
  <1>3. CASE WriteDone(p) \/ WriteFails(p)
    BY <1>3 DEF WriteDone, WriteFails
  <1>4. CASE Crash(p)
    BY <1>4 DEF Crash
  <1> QED BY <1>1, <1>2, <1>3, <1>4 DEF Ends

\* Every step is one of these.
LEMMA StepForms ==
  ASSUME [Next]_vars
  PROVE  \/ \E p \in Procs : \/ BeginEdit(p) \/ BeginWrite(p) \/ Advance(p) \/ Ends(p)
                             \/ OpenTruncated(p) \/ Fill(p)
         \/ PowerLoss \/ UNCHANGED vars
  BY DEF Next, Edit, Write, Advance, Ends

\* Calls stay apart, and temporary files theirs.
LEMMA NextCall == ASSUME IInv, [Next]_vars PROVE CallInv'
  <1> USE Constants DEF fileVars, editVars, writeVars, callVars, Goto, Editing
  <1>0. CallInv /\ TypeOK
    BY DEF IInv
  <1>1. ASSUME NEW p \in Procs, BeginEdit(p) \/ BeginWrite(p) PROVE CallInv'
    <2>1. /\ calls' = calls + 1 /\ call' = [call EXCEPT ![p] = calls + 1]
          /\ calls + 1 \in 1..MaxCalls
          /\ UNCHANGED <<temps, result>>
      BY <1>0, <1>1, Typing DEF BeginEdit, BeginWrite, Begin
    <2>2. /\ pc' = [pc EXCEPT ![p] = pc'[p]] /\ pc'[p] \in {"read", "open"}
          /\ IF pc'[p] = "read" THEN edits' = edits \cup {calls + 1} ELSE edits' = edits
      BY <1>0, <1>1, Typing DEF BeginEdit, BeginWrite, Begin
    <2>3. result[calls + 1] = "none" /\ calls + 1 \notin edits
      BY <1>0, <2>1, Typing DEF CallInv
    <2>4. ASSUME NEW q \in Procs, pc'[q] # "idle"
          PROVE  /\ call'[q] \in 1..calls' /\ result'[call'[q]] = "none"
                 /\ call'[q] \in edits' <=> pc'[q] \in Editing
                 /\ q # p => call'[q] = call[q] /\ call[q] <= calls /\ pc[q] # "idle"
      <3>1. CASE q = p
        BY <1>0, <2>1, <2>2, <2>3, <3>1, Typing
      <3>2. CASE q # p
        <4>1. pc'[q] = pc[q] /\ call'[q] = call[q] /\ call[q] \in 1..calls
          BY <1>0, <2>1, <2>2, <2>4, <3>2, Typing DEF CallInv
        <4>2. call[q] \in edits' <=> call[q] \in edits
          BY <1>0, <2>2, <4>1, Typing
        <4> QED BY <1>0, <2>1, <2>4, <3>2, <4>1, <4>2, Typing DEF CallInv
      <3> QED BY <3>1, <3>2
    <2>5. \A q, r \in Procs : pc'[q] # "idle" /\ pc'[r] # "idle" /\ call'[q] = call'[r] => q = r
      BY <1>0, <2>1, <2>4, Typing DEF CallInv
    <2>6. \A c \in Call : c > calls' => result'[c] = "none"
      BY <1>0, <2>1, Typing DEF CallInv
    <2> QED BY <1>0, <2>1, <2>4, <2>5, <2>6 DEF CallInv
  <1>2. ASSUME NEW p \in Procs, Advance(p) PROVE CallInv'
    <2>1. /\ pc[p] \in Editing /\ pc' = [pc EXCEPT ![p] = pc'[p]] /\ pc'[p] \in Editing
          /\ UNCHANGED <<calls, call, edits, result>>
      BY <1>0, <1>2, AdvanceStays
    <2>2. temps' \subseteq temps \cup {call[p]}
      BY <1>2 DEF Advance, ReadOriginal, Replace, StatOriginal, CreateTemp, WriteTemp, SyncTemp,
         ChmodTemp
    <2> HIDE DEF Editing
    <2>3. \A q \in Procs : (pc'[q] # "idle" <=> pc[q] # "idle") /\ (pc'[q] \in Editing <=> pc[q] \in Editing)
      BY <1>0, <2>1, Typing DEF Editing
    <2>4. \A c \in temps' : result'[c] \in {"none", "crashed"}
      <3>1. result[call[p]] = "none"
        BY <1>0, <2>1 DEF CallInv, Editing
      <3> QED BY <1>0, <2>1, <2>2, <3>1 DEF CallInv
    <2>5. \A q \in Procs : pc'[q] # "idle" =>
            /\ call'[q] \in 1..calls' /\ result'[call'[q]] = "none"
            /\ call'[q] \in edits' <=> pc'[q] \in Editing
      BY <1>0, <2>1, <2>3 DEF CallInv
    <2> QED BY <1>0, <2>1, <2>3, <2>4, <2>5 DEF CallInv
  <1>3. ASSUME NEW p \in Procs, Ends(p) PROVE CallInv'
    <2>1. /\ pc[p] # "idle" /\ pc' = [pc EXCEPT ![p] = "idle"]
          /\ temps' \subseteq temps /\ UNCHANGED <<calls, call, edits>>
      BY <1>0, <1>3, EndsCall
    <2>2. PICK how \in {"ok", "error", "crashed"} :
            /\ result' = [result EXCEPT ![call[p]] = how]
            /\ how # "crashed" => call[p] \notin temps' \/ pc[p] \notin Editing
      BY <1>0, <1>3, EndsCall
    <2> HIDE DEF Editing
    <2>3. \A q \in Procs : pc'[q] # "idle" => pc[q] = pc'[q] /\ q # p /\ pc[q] # "idle"
      BY <1>0, <2>1, Typing
    <2>4. \A q \in Procs : pc'[q] # "idle" => call[q] # call[p]
      BY <1>0, <2>1, <2>3 DEF CallInv
    <2>5. \A c \in temps' : result'[c] \in {"none", "crashed"}
      <3> SUFFICES ASSUME NEW c \in temps' PROVE result'[c] \in {"none", "crashed"}
        OBVIOUS
      <3>1. CASE c = call[p]
        BY <1>0, <2>1, <2>2, <3>1, Typing DEF CallInv
      <3>2. CASE c # call[p]
        BY <1>0, <2>1, <2>2, <3>2, Typing DEF CallInv
      <3> QED BY <3>1, <3>2
    <2>6. \A c \in Call : c > calls => result'[c] = "none"
      BY <1>0, <2>1, <2>2, Typing DEF CallInv
    <2>7. \A q \in Procs : pc'[q] # "idle" => result'[call[q]] = "none"
      BY <1>0, <2>2, <2>3, <2>4, Typing DEF CallInv
    <2> QED BY <1>0, <2>1, <2>3, <2>5, <2>6, <2>7, Typing DEF CallInv
  <1>4. ASSUME NEW p \in Procs, OpenTruncated(p) \/ Fill(p) PROVE CallInv'
    <2>1. /\ pc[p] \in {"open", "fill"} /\ pc' = [pc EXCEPT ![p] = pc'[p]] /\ pc'[p] = "fill"
          /\ UNCHANGED <<temps, calls, call, edits, result>>
      BY <1>0, <1>4, Typing DEF OpenTruncated, Fill
    <2>2. \A q \in Procs : (pc'[q] # "idle" <=> pc[q] # "idle") /\ (pc'[q] \in Editing <=> pc[q] \in Editing)
      BY <1>0, <2>1, Typing
    <2> HIDE DEF Editing
    <2> QED BY <1>0, <2>1, <2>2, Typing DEF CallInv
  <1>5. CASE PowerLoss
    <2>1. /\ \A q \in Procs : pc'[q] = "idle"
          /\ UNCHANGED <<temps, calls, call, edits>>
          /\ result' = [c \in Call |->
               IF \E p \in Procs : pc[p] # "idle" /\ c = call[p] THEN "crashed" ELSE result[c]]
      BY <1>5 DEF PowerLoss
    <2>2. \A c \in Call : c > calls => result'[c] = "none"
      BY <1>0, <2>1, Typing DEF CallInv
    <2>3. \A c \in temps' : result'[c] \in {"none", "crashed"}
      <3>1. \A c \in temps' : c \in Call /\ result[c] \in {"none", "crashed"}
        BY <1>0, <2>1, Typing DEF CallInv
      <3> QED BY <2>1, <3>1
    <2> QED BY <2>1, <2>2, <2>3 DEF CallInv
  <1>6. CASE UNCHANGED vars
    BY <1>0, <1>6 DEF vars, CallInv
  <1> QED BY <1>1, <1>2, <1>3, <1>4, <1>5, <1>6, StepForms

\* The path names what has succeeded, and what is on disk before it is renamed.
LEMMA NextName == ASSUME IInv, [Next]_vars PROVE NameInv'
  <1> USE Constants DEF fileVars, editVars, writeVars, callVars, Goto, Editing
  <1>0. NameInv /\ CallInv /\ TypeOK
    BY DEF IInv
  <1>1. ASSUME NEW p \in Procs, BeginEdit(p) \/ BeginWrite(p) PROVE NameInv'
    <2>1. /\ calls' = calls + 1 /\ call' = [call EXCEPT ![p] = calls + 1]
          /\ UNCHANGED <<path, past, synced, fd, result>>
          /\ edits' \subseteq edits \cup {calls + 1}
          /\ pc' = [pc EXCEPT ![p] = pc'[p]] /\ pc'[p] \in {"read", "open"}
      BY <1>0, <1>1, Typing DEF BeginEdit, BeginWrite, Begin
    <2>2. \A i \in past \cap Call : i <= calls' /\ (i \in edits' => result[i] = "ok")
      BY <1>0, <2>1, Typing DEF NameInv
    <2>3. \A q \in Procs : pc'[q] \in {"fill", "chmod", "rename"} => pc[q] = pc'[q] /\ call'[q] = call[q]
      BY <1>0, <2>1, Typing
    <2> QED BY <1>0, <2>1, <2>2, <2>3, Typing DEF NameInv
  <1>2. ASSUME NEW p \in Procs, Advance(p) PROVE NameInv'
    <2>1. /\ pc[p] \in Editing /\ pc' = [pc EXCEPT ![p] = pc'[p]] /\ pc'[p] \in Editing
          /\ UNCHANGED <<path, past, calls, call, edits, result, fd>>
      BY <1>0, <1>2, AdvanceStays
    <2>2. /\ synced \subseteq synced' /\ synced' \subseteq synced \cup {call[p]}
          /\ pc'[p] \in {"chmod", "rename"} => call[p] \in synced'
      <3>1. CASE SyncTemp(p)
        BY <3>1 DEF SyncTemp, Synced
      <3>2. CASE ChmodTemp(p)
        BY <1>0, <3>2 DEF ChmodTemp, NameInv
      <3>3. CASE ReadOriginal(p) \/ Replace(p) \/ StatOriginal(p) \/ CreateTemp(p) \/ WriteTemp(p)
        BY <1>0, <3>3, Typing DEF ReadOriginal, Replace, StatOriginal, CreateTemp, WriteTemp
      <3> QED BY <1>2, <3>1, <3>2, <3>3 DEF Advance
    <2>3. call[p] \notin past
      BY <1>0, <2>1, Typing DEF NameInv, CallInv
    <2>4. \A q \in Procs : pc'[q] = "fill" => fd'[q] \in past' \ ({None} \cup synced')
      BY <1>0, <2>1, <2>2, <2>3, Typing DEF NameInv
    <2>5. \A q \in Procs : pc'[q] \in {"chmod", "rename"} => call'[q] \in synced'
      BY <1>0, <2>1, <2>2, Typing DEF NameInv
    <2> QED BY <1>0, <2>1, <2>4, <2>5 DEF NameInv
  <1>3. ASSUME NEW p \in Procs, Ends(p) PROVE NameInv'
    <2>1. /\ pc[p] # "idle" /\ pc' = [pc EXCEPT ![p] = "idle"]
          /\ UNCHANGED <<synced, calls, call, edits>>
          /\ \E how \in {"ok", "error", "crashed"} : result' = [result EXCEPT ![call[p]] = how]
          /\ ~Rename(p) => UNCHANGED <<path, past>>
      BY <1>0, <1>3, EndsCall
    <2>2. path' \in past' /\ past \subseteq past' /\ past' \subseteq past \cup {call[p]}
      BY <1>0, <2>1 DEF NameInv, Rename
    <2>3. \A i \in past' \cap Call : i <= calls /\ (i \in edits => result'[i] = "ok")
      <3> SUFFICES ASSUME NEW i \in past' \cap Call
                   PROVE  i <= calls /\ (i \in edits => result'[i] = "ok")
        OBVIOUS
      <3>1. CASE i \in past
        <4>1. i <= calls /\ (i \in edits => result[i] = "ok" /\ i # call[p])
          BY <1>0, <2>1, <3>1, Typing DEF NameInv, CallInv
        <4> QED BY <1>0, <2>1, <4>1, Typing
      <3>2. CASE i \notin past
        <4>1. Rename(p) /\ i = call[p]
          BY <2>1, <2>2, <3>2
        <4>2. result' = [result EXCEPT ![i] = "ok"]
          BY <4>1 DEF Rename, End
        <4> QED BY <1>0, <4>1, <4>2, Typing
      <3> QED BY <3>1, <3>2
    <2>4. \A q \in Procs : pc'[q] # "idle" => pc[q] = pc'[q]
      BY <1>0, <2>1, Typing
    <2>5. \A q \in Procs : pc'[q] = "fill" => fd'[q] = fd[q]
      <3>1. fd' = [fd EXCEPT ![p] = None]
        BY <1>3 DEF Ends, Rename, EditFails, WriteDone, WriteFails, Crash, End
      <3> QED BY <1>0, <2>1, <3>1, Typing
    <2> QED BY <1>0, <2>1, <2>2, <2>3, <2>4, <2>5 DEF NameInv
  <1>4. ASSUME NEW p \in Procs, OpenTruncated(p) PROVE NameInv'
    <2> DEFINE i == IF path = None THEN call[p] ELSE path
    <2>1. /\ pc[p] = "open" /\ pc' = [pc EXCEPT ![p] = "fill"]
          /\ path' = i /\ past' = past \cup {i} /\ synced' = synced \ {i}
          /\ fd' = [fd EXCEPT ![p] = i] /\ UNCHANGED <<calls, call, edits, result>>
      BY <1>4 DEF OpenTruncated
    <2>2. /\ (i # None /\ i \in past) \/ (i = call[p] /\ i \in 1..calls /\ i \notin edits)
          /\ \A q \in Procs : pc[q] \in {"chmod", "rename"} => call[q] # i
      <3>1. call[p] \in 1..calls /\ call[p] \notin edits
        BY <1>0, <2>1 DEF CallInv
      <3>2. \A q \in Procs : pc[q] \in {"chmod", "rename"} => call[q] \in edits /\ call[q] \notin past
        BY <1>0, Typing DEF CallInv, NameInv
      <3> QED BY <1>0, <3>1, <3>2, Typing DEF NameInv
    <2>3. i # None
      BY <1>0, <2>2, Typing
    <2> HIDE DEF i
    <2>4. \A j \in past' \cap Call : j <= calls' /\ (j \in edits' => result'[j] = "ok")
      BY <1>0, <2>1, <2>2, Typing DEF NameInv
    <2>5. \A q \in Procs : pc'[q] = "fill" => fd'[q] \in past' \ ({None} \cup synced')
      BY <1>0, <2>1, <2>3, Typing DEF NameInv
    <2>6. \A q \in Procs : pc'[q] \in {"chmod", "rename"} => call'[q] \in synced'
      BY <1>0, <2>1, <2>2, Typing DEF NameInv
    <2> QED BY <2>1, <2>4, <2>5, <2>6 DEF NameInv
  <1>5. ASSUME NEW p \in Procs, Fill(p) PROVE NameInv'
    BY <1>0, <1>5 DEF Fill, NameInv
  <1>6. CASE PowerLoss
    <2>1. /\ \A q \in Procs : pc'[q] = "idle"
          /\ path' \in past /\ past' = {path'} /\ UNCHANGED <<calls, call, edits>>
          /\ result' = [c \in Call |->
               IF \E p \in Procs : pc[p] # "idle" /\ c = call[p] THEN "crashed" ELSE result[c]]
      BY <1>6 DEF PowerLoss
    <2>2. \A i \in past \cap Call : i \in edits => result'[i] = "ok"
      <3> SUFFICES ASSUME NEW i \in past \cap Call, i \in edits PROVE result'[i] = "ok"
        OBVIOUS
      <3>1. result[i] = "ok"
        BY <1>0 DEF NameInv
      <3>2. ~\E p \in Procs : pc[p] # "idle" /\ i = call[p]
        BY <1>0, <3>1 DEF CallInv
      <3> QED BY <2>1, <3>1, <3>2
    <2> QED BY <1>0, <2>1, <2>2 DEF NameInv
  <1>7. CASE UNCHANGED vars
    BY <1>0, <1>7 DEF vars, NameInv
  <1> QED BY <1>1, <1>2, <1>3, <1>4, <1>5, <1>6, <1>7, StepForms

\* The mode to keep is that of every file the path comes to name.
LEMMA NextMode == ASSUME IInv, [Next]_vars PROVE ModeInv'
  <1> USE Constants DEF fileVars, editVars, writeVars, callVars, Goto, Editing
  <1>0. NameInv /\ CallInv /\ TypeOK /\ ModeInv
    BY DEF IInv
  <1>1. ASSUME NEW p \in Procs, BeginEdit(p) \/ BeginWrite(p) PROVE ModeInv'
    <2>1. /\ call' = [call EXCEPT ![p] = calls + 1] /\ UNCHANGED <<past, mode, perm>>
          /\ pc' = [pc EXCEPT ![p] = pc'[p]] /\ pc'[p] \in {"read", "open"}
      BY <1>0, <1>1, Typing DEF BeginEdit, BeginWrite, Begin
    <2>2. \A q \in Procs : pc'[q] \in {"create", "write", "sync", "chmod", "rename"} =>
            pc[q] = pc'[q] /\ call'[q] = call[q]
      BY <1>0, <2>1, Typing
    <2> QED BY <1>0, <2>1, <2>2 DEF ModeInv, Kept
  <1>2. ASSUME NEW p \in Procs, Advance(p) PROVE ModeInv'
    <2>1. /\ pc[p] \in Editing /\ pc' = [pc EXCEPT ![p] = pc'[p]] /\ UNCHANGED <<path, past, call>>
      BY <1>0, <1>2, AdvanceStays
    <2>2. call[p] \notin past /\ call[p] \in Call
      BY <1>0, <2>1, Typing DEF NameInv, CallInv
    <2>3. \A q \in Procs : q # p /\ pc[q] # "idle" => call[q] # call[p]
      BY <1>0, <2>1 DEF CallInv
    <2>4. CASE ReadOriginal(p) \/ Replace(p) \/ WriteTemp(p) \/ SyncTemp(p)
      <3>1. /\ UNCHANGED <<mode, perm>>
            /\ \/ pc[p] \in {"read", "replace"} /\ pc'[p] \notin {"create", "write", "sync", "chmod", "rename"}
               \/ pc[p] \in {"write", "sync"} /\ pc'[p] # "rename"
        BY <1>0, <2>4, Typing DEF ReadOriginal, Replace, WriteTemp, SyncTemp
      <3> QED BY <1>0, <2>1, <3>1, Typing DEF ModeInv, Kept
    <2>5. CASE StatOriginal(p)
      <3>1. pc' = [pc EXCEPT ![p] = "create"] /\ UNCHANGED mode /\ perm' = [perm EXCEPT ![p] = mode[path]]
            /\ path # None
        BY <2>5 DEF StatOriginal
      <3>2. mode[path] = Kept
        BY <1>0, <3>1 DEF ModeInv, NameInv
      <3> QED BY <1>0, <2>1, <3>1, <3>2, Typing DEF ModeInv, Kept
    <2>6. CASE CreateTemp(p)
      <3>1. pc[p] = "create" /\ pc' = [pc EXCEPT ![p] = "write"] /\ UNCHANGED perm
            /\ mode' = [mode EXCEPT ![call[p]] = "0600"]
        BY <2>6 DEF CreateTemp
      <3>2. Kept' = Kept /\ mode'[Original] = mode[Original]
        BY <1>0, <2>2, <3>1, Typing DEF Kept
      <3> QED BY <1>0, <2>1, <2>2, <2>3, <3>1, <3>2, Typing DEF ModeInv
    <2>7. CASE ChmodTemp(p)
      <3>1. pc[p] = "chmod" /\ pc' = [pc EXCEPT ![p] = "rename"] /\ UNCHANGED perm
            /\ mode' = [mode EXCEPT ![call[p]] = perm[p]]
        BY <2>7 DEF ChmodTemp, NewMode
      <3>2. Kept' = Kept /\ mode'[Original] = mode[Original] /\ perm[p] = Kept
        BY <1>0, <2>2, <3>1, Typing DEF Kept, ModeInv
      <3> QED BY <1>0, <2>1, <2>2, <2>3, <3>1, <3>2, Typing DEF ModeInv
    <2> QED BY <1>2, <2>4, <2>5, <2>6, <2>7 DEF Advance
  <1>3. ASSUME NEW p \in Procs, Ends(p) PROVE ModeInv'
    <2>1. /\ pc' = [pc EXCEPT ![p] = "idle"] /\ UNCHANGED <<mode, call>>
          /\ ~Rename(p) => UNCHANGED past
      BY <1>0, <1>3, EndsCall
    <2>2. perm' = [perm EXCEPT ![p] = "none"]
      BY <1>3 DEF Ends, Rename, EditFails, WriteDone, WriteFails, Crash, End
    <2>3. past' = past \/ (past' = past \cup {call[p]} /\ mode[call[p]] = Kept /\ call[p] # None)
      BY <1>0, <2>1, Typing DEF Rename, ModeInv, CallInv
    <2>4. \A q \in Procs : pc'[q] \in Editing => pc[q] = pc'[q] /\ perm'[q] = perm[q]
      BY <1>0, <2>1, <2>2, Typing
    <2>5. Kept' = Kept
      BY <2>1 DEF Kept
    <2> QED BY <1>0, <2>1, <2>3, <2>4, <2>5 DEF ModeInv
  <1>4. ASSUME NEW p \in Procs, OpenTruncated(p) PROVE ModeInv'
    <2>1. pc[p] = "open" /\ pc' = [pc EXCEPT ![p] = "fill"] /\ UNCHANGED <<call, perm>>
      BY <1>4 DEF OpenTruncated
    <2>2. call[p] \in Call /\ call[p] # None
      BY <1>0, <2>1, Typing DEF CallInv
    <2>3. /\ path = None => past' = past \cup {call[p]} /\ mode' = [mode EXCEPT ![call[p]] = "0644"]
          /\ path # None => past' = past \cup {path} /\ mode' = mode
      BY <1>4 DEF OpenTruncated
    <2>4. CASE path # None
      BY <1>0, <2>1, <2>3, <2>4, Typing DEF ModeInv, NameInv, Kept
    <2>5. CASE path = None
      <3>1. mode[Original] = "none" /\ mode'[Original] = "none" /\ Kept = "0644" /\ Kept' = "0644"
        BY <1>0, <2>2, <2>3, <2>5, Typing DEF ModeInv, NameInv, Kept
      <3>2. \A q \in Procs : q # p /\ pc[q] # "idle" => call[q] # call[p]
        BY <1>0, <2>1 DEF CallInv
      <3>3. \A i \in past' \ {None} : mode'[i] = "0644"
        BY <1>0, <2>2, <2>3, <2>5, <3>1, Typing DEF ModeInv
      <3>4. \A q \in Procs : pc'[q] = "rename" => mode'[call'[q]] = "0644"
        BY <1>0, <2>1, <2>2, <2>3, <2>5, <3>1, <3>2, Typing DEF ModeInv, CallInv
      <3>5. \A q \in Procs : pc'[q] \in {"create", "write", "sync", "chmod", "rename"} => perm'[q] = "0644"
        BY <1>0, <2>1, <3>1, Typing DEF ModeInv
      <3> QED BY <3>1, <3>3, <3>4, <3>5 DEF ModeInv
    <2> QED BY <2>4, <2>5
  <1>5. ASSUME NEW p \in Procs, Fill(p) PROVE ModeInv'
    BY <1>0, <1>5 DEF Fill, ModeInv, Kept
  <1>6. CASE PowerLoss
    BY <1>0, <1>6 DEF PowerLoss, ModeInv, Kept
  <1>7. CASE UNCHANGED vars
    BY <1>0, <1>7 DEF vars, ModeInv, Kept
  <1> QED BY <1>1, <1>2, <1>3, <1>4, <1>5, <1>6, <1>7, StepForms

\* What a call has is settled also when others have ended.
LEMMA SettledStays ==
  ASSUME NEW content, NEW c, NEW how, NEW later, Settled(content, c, how), how = "ok" => later = "ok"
  PROVE  Settled(content, c, later)
  BY DEF Settled

\* No step tears an edit that can be seen.
LEMMA NextContent == ASSUME IInv, [Next]_vars PROVE ContentInv'
  <1> USE Constants DEF fileVars, editVars, writeVars, callVars, Goto, Editing
  <1>0. NameInv /\ CallInv /\ TypeOK /\ ContentInv
    BY DEF IInv
  <1>c. data \in [Inode -> Seq(SeenPiece)] /\ buf \in [Procs -> Seq(SeenPiece)]
    BY <1>0 DEF TypeOK
  <1>1. ASSUME NEW p \in Procs, BeginEdit(p) \/ BeginWrite(p) PROVE ContentInv'
    <2>1. /\ call' = [call EXCEPT ![p] = calls + 1]
          /\ UNCHANGED <<path, data, synced, past, buf, result>>
          /\ edits' \subseteq edits \cup {calls + 1} /\ calls + 1 \in Call
          /\ pc' = [pc EXCEPT ![p] = pc'[p]] /\ pc'[p] \in {"read", "open"}
      BY <1>0, <1>1, Typing DEF BeginEdit, BeginWrite, Begin
    <2>2. calls + 1 \notin 1..calls \cup {Original, None}
      BY <1>0, <2>1, Typing, FileAssumption
    <2>3. /\ \A i \in Inode : Shows(data[i], calls + 1) = {}
          /\ \A q \in Procs : Shows(buf[q], calls + 1) = {}
      BY <1>c, <2>2, ShowsUnseen
    <2>4. \A q \in Procs : pc'[q] \in Editing \ {"read"} => pc[q] = pc'[q] /\ call'[q] = call[q]
      BY <1>0, <2>1, Typing
    <2>5. \A i \in past \ {None} : \A c \in edits' :
             Settled(data[i], c, result[c]) /\ (i \notin synced => Shows(data[i], c) = {})
      BY <1>0, <2>1, <2>3, Typing DEF ContentInv, Settled
    <2>6. \A q \in Procs : pc'[q] \in {"replace", "stat", "create", "write"} =>
            \A c \in edits' \ {call'[q]} : Settled(buf[q], c, result[c])
      BY <1>0, <2>1, <2>3, <2>4 DEF ContentInv, Settled
    <2>7. \A q \in Procs : pc'[q] \in {"sync", "chmod", "rename"} =>
            \A c \in edits' \ {call'[q]} : Settled(data[call'[q]], c, result[c])
      <3> SUFFICES ASSUME NEW q \in Procs, pc'[q] \in {"sync", "chmod", "rename"},
                          NEW c \in edits' \ {call'[q]}
                   PROVE  Settled(data[call'[q]], c, result[c])
        OBVIOUS
      <3>1. pc[q] = pc'[q] /\ call'[q] = call[q]
        BY <2>4
      <3>2. call[q] \in Inode
        BY <1>0, <3>1, Typing DEF CallInv
      <3>3. c \in edits => Settled(data[call[q]], c, result[c])
        BY <1>0, <3>1 DEF ContentInv
      <3> QED BY <2>1, <2>3, <3>1, <3>2, <3>3 DEF Settled
    <2>8. \A q \in Procs : /\ pc'[q] \in {"stat", "create", "write"} => Shows(buf[q], call'[q]) = 1..Parts
                           /\ pc'[q] \in {"sync", "chmod", "rename"} => Shows(data[call'[q]], call'[q]) = 1..Parts
      BY <1>0, <2>4 DEF ContentInv
    <2> QED BY <2>1, <2>5, <2>6, <2>7, <2>8 DEF ContentInv
  <1>2. ASSUME NEW p \in Procs, Advance(p) PROVE ContentInv'
    <2>1. /\ pc[p] \in Editing /\ pc' = [pc EXCEPT ![p] = pc'[p]]
          /\ UNCHANGED <<path, past, call, edits, result>>
      BY <1>0, <1>2, AdvanceStays
    <2>2. call[p] \notin past /\ call[p] \in Inode /\ call[p] \in edits
      BY <1>0, <2>1, Typing DEF NameInv, CallInv
    <2>3. \A q \in Procs : q # p /\ pc[q] # "idle" => call[q] # call[p]
      BY <1>0, <2>1 DEF CallInv
    <2>4. \A q \in Procs : q # p => pc'[q] = pc[q]
      BY <1>0, <2>1, Typing
    <2>5. CASE ReadOriginal(p)
      <3>1. pc' = [pc EXCEPT ![p] = "replace"] /\ buf' = [buf EXCEPT ![p] = data[path]]
            /\ path # None /\ UNCHANGED <<data, synced>>
        BY <2>5 DEF ReadOriginal
      <3>2. \A c \in edits : Settled(data[path], c, result[c])
        BY <1>0, <3>1 DEF ContentInv, NameInv
      <3>3. pc'[p] = "replace" /\ buf'[p] = data[path] /\ \A q \in Procs : q # p => buf'[q] = buf[q]
        BY <1>0, <1>c, <3>1, Typing
      <3> QED BY <1>0, <2>1, <2>4, <3>1, <3>2, <3>3 DEF ContentInv
    <2>6. CASE Replace(p)
      <3>1. PICK k \in NextEdits(p) : /\ buf' = [buf EXCEPT ![p] = Append(@, Piece(call[p], k))]
                                      /\ Goto(p, IF k = Parts THEN "stat" ELSE "replace")
        BY <2>6 DEF Replace
      <3>2. pc[p] = "replace" /\ UNCHANGED <<data, synced>>
        BY <2>6 DEF Replace
      <3>3. k \in 1..Parts /\ Shows(buf[p], call[p]) = 1..(k - 1)
        BY DEF NextEdits, Applied, Shows
      <3>4. /\ buf'[p] = Append(buf[p], Piece(call[p], k))
            /\ pc'[p] = IF k = Parts THEN "stat" ELSE "replace"
            /\ \A q \in Procs : q # p => buf'[q] = buf[q]
        BY <1>0, <1>c, <3>1, Typing
      <3>5. \A c \in edits \ {call[p]} : Shows(buf'[p], c) = Shows(buf[p], c)
        BY <1>c, <3>3, <3>4, ShowsAppend
      <3>6. Shows(buf'[p], call[p]) = 1..(k - 1) \cup {k}
        BY <1>c, <3>3, <3>4, ShowsAppend
      <3>7. k = Parts => Shows(buf'[p], call[p]) = 1..Parts
        BY <3>3, <3>6
      <3>8. \A c \in edits \ {call[p]} : Settled(buf'[p], c, result[c])
        BY <1>0, <3>2, <3>5 DEF ContentInv, Settled
      <3> QED BY <1>0, <2>1, <2>4, <3>2, <3>4, <3>7, <3>8 DEF ContentInv
    <2>7. CASE StatOriginal(p) \/ CreateTemp(p) \/ SyncTemp(p) \/ ChmodTemp(p)
      <3>1. /\ UNCHANGED <<data, buf>> /\ synced \subseteq synced'
            /\ \/ pc[p] \in {"stat", "create"} /\ pc'[p] \in {"create", "write"}
               \/ pc[p] \in {"sync", "chmod"} /\ pc'[p] \in {"chmod", "rename"}
        BY <1>0, <2>7, Typing DEF StatOriginal, CreateTemp, SyncTemp, ChmodTemp, Synced
      <3> QED BY <1>0, <2>1, <2>4, <3>1 DEF ContentInv
    <2>8. CASE WriteTemp(p)
      <3>1. pc[p] = "write" /\ pc' = [pc EXCEPT ![p] = "sync"] /\ data' = [data EXCEPT ![call[p]] = buf[p]]
            /\ UNCHANGED <<buf, synced>>
        BY <2>8 DEF WriteTemp
      <3>2. /\ data'[call[p]] = buf[p] /\ pc'[p] = "sync"
            /\ \A i \in past \ {None} : data'[i] = data[i]
            /\ \A q \in Procs : q # p /\ pc[q] # "idle" => data'[call[q]] = data[call[q]]
        BY <1>0, <1>c, <2>2, <2>3, <3>1, Typing
      <3>3. \A q \in Procs : pc'[q] \in {"sync", "chmod", "rename"} =>
              /\ \A c \in edits \ {call[q]} : Settled(data'[call[q]], c, result[c])
              /\ Shows(data'[call[q]], call[q]) = 1..Parts
        <4> SUFFICES ASSUME NEW q \in Procs, pc'[q] \in {"sync", "chmod", "rename"}
                     PROVE  /\ \A c \in edits \ {call[q]} : Settled(data'[call[q]], c, result[c])
                            /\ Shows(data'[call[q]], call[q]) = 1..Parts
          OBVIOUS
        <4>1. CASE q = p
          BY <1>0, <3>1, <3>2, <4>1 DEF ContentInv
        <4>2. CASE q # p
          BY <1>0, <2>4, <3>2, <4>2 DEF ContentInv
        <4> QED BY <4>1, <4>2
      <3>4. \A q \in Procs : pc'[q] \in {"replace", "stat", "create", "write"} => pc'[q] = pc[q]
        BY <2>4, <3>2
      <3> QED BY <1>0, <2>1, <3>1, <3>2, <3>3, <3>4 DEF ContentInv
    <2> QED BY <1>2, <2>5, <2>6, <2>7, <2>8 DEF Advance
  <1>3. ASSUME NEW p \in Procs, Ends(p) PROVE ContentInv'
    <2>1. /\ pc[p] # "idle" /\ pc' = [pc EXCEPT ![p] = "idle"]
          /\ UNCHANGED <<data, synced, call, edits>>
          /\ \E how \in {"ok", "error", "crashed"} : result' = [result EXCEPT ![call[p]] = how]
          /\ ~Rename(p) => UNCHANGED <<path, past>>
      BY <1>0, <1>3, EndsCall
    <2>2. \A c \in edits : result[c] = "ok" => result'[c] = "ok"
      BY <1>0, <2>1, Typing DEF CallInv
    <2>3. \A content : \A c \in edits : Settled(content, c, result[c]) => Settled(content, c, result'[c])
      BY <2>2, SettledStays
    <2>4. \A q \in Procs : pc'[q] # "idle" => q # p /\ pc'[q] = pc[q]
      BY <1>0, <2>1, Typing
    <2>5. \A q \in Procs : q # p => buf'[q] = buf[q]
      <3>1. buf' = [buf EXCEPT ![p] = <<>>]
        BY <1>3 DEF Ends, Rename, EditFails, WriteDone, WriteFails, Crash, End
      <3> QED BY <1>c, <3>1
    <2>6. \A i \in past' \ {None} : \A c \in edits :
             Settled(data[i], c, result'[c]) /\ (i \notin synced => Shows(data[i], c) = {})
      <3>1. CASE UNCHANGED past
        BY <1>0, <2>3, <3>1 DEF ContentInv
      <3>2. CASE Rename(p)
        <4>1. /\ pc[p] = "rename" /\ past' = past \cup {call[p]}
              /\ result' = [result EXCEPT ![call[p]] = "ok"]
          BY <3>2 DEF Rename, End
        <4>2. call[p] \in synced /\ call[p] \in edits /\ result'[call[p]] = "ok"
          BY <1>0, <4>1, Typing DEF NameInv, CallInv
        <4>3. \A c \in edits : Settled(data[call[p]], c, result'[c])
          <5>1. \A c \in edits \ {call[p]} : Settled(data[call[p]], c, result'[c])
            BY <1>0, <2>3, <4>1 DEF ContentInv
          <5>2. Settled(data[call[p]], call[p], result'[call[p]])
            BY <1>0, <4>1, <4>2 DEF ContentInv, Settled
          <5> QED BY <5>1, <5>2
        <4> QED BY <1>0, <2>3, <4>1, <4>2, <4>3 DEF ContentInv
      <3> QED BY <2>1, <3>1, <3>2
    <2> QED BY <1>0, <2>1, <2>3, <2>4, <2>5, <2>6 DEF ContentInv
  <1>4. ASSUME NEW p \in Procs, OpenTruncated(p) PROVE ContentInv'
    <2> DEFINE i == IF path = None THEN call[p] ELSE path
    <2>1. /\ pc[p] = "open" /\ pc' = [pc EXCEPT ![p] = "fill"]
          /\ path' = i /\ past' = past \cup {i} /\ synced' = synced \ {i}
          /\ data' = [data EXCEPT ![i] = <<>>] /\ UNCHANGED <<call, edits, result, buf>>
      BY <1>4 DEF OpenTruncated
    <2>2. i \in Inode /\ \A q \in Procs : pc[q] \in {"sync", "chmod", "rename"} => call[q] # i
      <3>1. call[p] \in 1..calls /\ call[p] \notin edits
        BY <1>0, <2>1 DEF CallInv
      <3>2. \A q \in Procs : pc[q] \in {"sync", "chmod", "rename"} => call[q] \in edits /\ call[q] \notin past
        BY <1>0, Typing DEF CallInv, NameInv
      <3> QED BY <1>0, <3>1, <3>2, Typing DEF NameInv
    <2> HIDE DEF i
    <2>3. data'[i] = <<>> /\ \A j \in Inode \ {i} : data'[j] = data[j]
      BY <1>c, <2>1, <2>2
    <2>4. \A c : Shows(<<>>, c) = {}
      BY DEF Shows
    <2>5. \A q \in Procs : q # p => pc'[q] = pc[q]
      BY <1>0, <2>1, Typing
    <2>6. \A j \in past' \ {None} : \A c \in edits :
             Settled(data'[j], c, result[c]) /\ (j \notin synced' => Shows(data'[j], c) = {})
      <3> SUFFICES ASSUME NEW j \in past' \ {None}, NEW c \in edits
                   PROVE  Settled(data'[j], c, result[c]) /\ (j \notin synced' => Shows(data'[j], c) = {})
        OBVIOUS
      <3>1. CASE j = i
        BY <2>3, <2>4, <3>1 DEF Settled
      <3>2. CASE j # i
        <4>1. j \in past /\ j \in Inode /\ (j \in synced => j \in synced')
          BY <1>0, <2>1, <3>2, Typing
        <4>2. data'[j] = data[j]
          BY <2>3, <3>2, <4>1
        <4> QED BY <1>0, <4>1, <4>2 DEF ContentInv
      <3> QED BY <3>1, <3>2
    <2>7. \A q \in Procs : pc'[q] \in {"sync", "chmod", "rename"} =>
            pc[q] = pc'[q] /\ data'[call[q]] = data[call[q]]
      BY <1>0, <2>1, <2>2, <2>3, <2>5, Typing DEF CallInv
    <2>8. \A q \in Procs : pc'[q] \in {"replace", "stat", "create", "write"} => pc[q] = pc'[q]
      BY <1>0, <2>1, <2>5, Typing
    <2>9. \A q \in Procs : pc'[q] \in {"sync", "chmod", "rename"} =>
            /\ \A c \in edits \ {call[q]} : Settled(data'[call[q]], c, result[c])
            /\ Shows(data'[call[q]], call[q]) = 1..Parts
      BY <1>0, <2>7 DEF ContentInv
    <2>10. \A q \in Procs :
            /\ pc'[q] \in {"replace", "stat", "create", "write"} =>
                 \A c \in edits \ {call[q]} : Settled(buf[q], c, result[c])
            /\ pc'[q] \in {"stat", "create", "write"} => Shows(buf[q], call[q]) = 1..Parts
      BY <1>0, <2>8 DEF ContentInv
    <2>11. UNCHANGED <<call, edits, result, buf>>
      BY <2>1
    <2> QED BY <2>6, <2>9, <2>10, <2>11 DEF ContentInv
  <1>5. ASSUME NEW p \in Procs, Fill(p) PROVE ContentInv'
    <2> DEFINE i == fd[p]
               k == offset[p] + 1
    <2>1. /\ pc[p] = "fill" /\ data' = [data EXCEPT ![i] = WrittenAt(@, k, Piece(call[p], k))]
          /\ UNCHANGED <<past, synced, pc, call, edits, result, buf>>
      BY <1>5 DEF Fill
    <2>2. i \in past \ {None} /\ i \notin synced /\ i \in Inode
      BY <1>0, <2>1, Typing DEF NameInv
    <2>3. \A q \in Procs : pc[q] \in {"sync", "chmod", "rename"} => call[q] # i /\ call[q] \in Inode
      BY <1>0, <2>2, Typing DEF CallInv, NameInv
    <2>4. call[p] \notin edits /\ None \notin edits
      <3>1. edits \subseteq Call
        BY <1>0, Typing
      <3> QED BY <1>0, <2>1, <3>1, Constants DEF CallInv
    <2>5. k \in Nat \ {0}
      BY <1>0 DEF TypeOK
    <2> HIDE DEF i, k
    <2>6. data'[i] = WrittenAt(data[i], k, Piece(call[p], k)) /\ \A j \in Inode \ {i} : data'[j] = data[j]
      BY <1>c, <2>1, <2>2
    <2>7. \A c \in edits : Shows(data'[i], c) = {}
      <3> SUFFICES ASSUME NEW c \in edits PROVE Shows(data'[i], c) = {}
        OBVIOUS
      <3>1. Shows(data[i], c) = {} /\ data[i] \in Seq(SeenPiece)
        BY <1>0, <1>c, <2>2 DEF ContentInv
      <3>2. c # call[p] /\ c # None
        BY <2>4
      <3> QED BY <2>5, <2>6, <3>1, <3>2, ShowsWritten
    <2>8. \A j \in past \ {None} : \A c \in edits :
             Settled(data'[j], c, result[c]) /\ (j \notin synced => Shows(data'[j], c) = {})
      <3> SUFFICES ASSUME NEW j \in past \ {None}, NEW c \in edits
                   PROVE  Settled(data'[j], c, result[c]) /\ (j \notin synced => Shows(data'[j], c) = {})
        OBVIOUS
      <3>1. CASE j = i
        BY <2>7, <3>1 DEF Settled
      <3>2. CASE j # i
        <4>1. data'[j] = data[j]
          BY <1>0, <2>6, <3>2, Typing
        <4> QED BY <1>0, <4>1 DEF ContentInv
      <3> QED BY <3>1, <3>2
    <2>9. \A q \in Procs : pc[q] \in {"sync", "chmod", "rename"} => data'[call[q]] = data[call[q]]
      BY <2>3, <2>6
    <2> QED BY <1>0, <2>1, <2>8, <2>9 DEF ContentInv
  <1>6. CASE PowerLoss
    <2>1. /\ \A q \in Procs : pc'[q] = "idle"
          /\ path' \in past /\ past' = {path'} /\ UNCHANGED <<call, edits>>
          /\ result' = [c \in Call |->
               IF \E p \in Procs : pc[p] # "idle" /\ c = call[p] THEN "crashed" ELSE result[c]]
          /\ path' # None => path' \in synced'
      BY <1>6 DEF PowerLoss
    <2>2. \A c \in edits : result[c] = "ok" => result'[c] = "ok"
      BY <1>0, <2>1, Typing DEF CallInv
    <2>3. ASSUME path' # None, NEW c \in edits PROVE Settled(data'[path'], c, result'[c])
      <3>1. path' \in Inode /\ data[path'] \in Seq(SeenPiece)
        BY <1>0, <1>c, <2>1, <2>3, Typing
      <3>2. Settled(data[path'], c, result[c])
        BY <1>0, <2>1, <2>3 DEF ContentInv
      <3>3. CASE path' \in synced
        BY <1>6, <2>2, <2>3, <3>2, <3>3, SettledStays DEF PowerLoss
      <3>4. CASE path' \notin synced
        <4>1. PICK n \in 0..Len(data[path']) : data' = [data EXCEPT ![path'] = SubSeq(@, 1, n)]
          BY <1>6, <2>3, <3>4 DEF PowerLoss
        <4>2. Shows(data[path'], c) = {}
          BY <1>0, <2>1, <2>3, <3>4 DEF ContentInv
        <4>3. data'[path'] = SubSeq(data[path'], 1, n)
          BY <1>c, <3>1, <4>1
        <4>4. Shows(data'[path'], c) = {}
          BY <3>1, <4>2, <4>3, ShowsSubSeq
        <4> QED BY <4>4 DEF Settled
      <3> QED BY <3>3, <3>4
    <2> QED BY <2>1, <2>3 DEF ContentInv
  <1>7. CASE UNCHANGED vars
    BY <1>0, <1>7 DEF vars, ContentInv
  <1> QED BY <1>1, <1>2, <1>3, <1>4, <1>5, <1>6, <1>7, StepForms

\* The invariant holds at the start.
LEMMA InitInv == ASSUME Init PROVE IInv
  <1> USE Constants DEF Init
  <1>1. Piece(Original, 1) \in SeenPiece
    BY DEF Piece, SeenPiece
  <1>2. data \in [Inode -> Seq(SeenPiece)]
    BY <1>1
  <1>3. buf \in [Procs -> Seq(SeenPiece)]
    OBVIOUS
  <1>4. TypeOK
    BY <1>2, <1>3 DEF TypeOK, Mode
  <1>5. CallInv /\ NameInv
    BY DEF CallInv, NameInv
  <1>6. ContentInv
    BY DEF ContentInv
  <1>7. ModeInv
    BY DEF ModeInv, Kept
  <1> QED BY <1>4, <1>5, <1>6, <1>7 DEF IInv

-----------------------------------------------------------------------------
(* The theorems.                                                           *)

\* The invariant holds of every behaviour: the types, who is in which call
\* (edit_file.go:84-137, write_file.go), and what the path may name.
THEOREM Invariant == Spec => []IInv
  <1>1. IInv /\ [Next]_vars => IInv'
    BY NextType, NextCall, NextName, NextContent, NextMode DEF IInv
  <1> QED BY <1>1, InitInv, PTL DEF Spec

\* Whatever agents do to the file at once, and whichever of them fails, dies or
\* loses power when, it shows all the edits of a call of edit_file or none
\* (edit_file.go:33, atomic_write.go).
THEOREM EditsAreAtomic == Spec => []EditAllOrNothing
  <1>1. IInv => EditAllOrNothing
    BY DEF IInv, NameInv, ContentInv, Settled, EditAllOrNothing, Parted, Content, Shows
  <1> QED BY <1>1, Invariant, PTL

\* A call of edit_file that returned an error never left anything in the file,
\* and none that returned left a temporary file (atomic_write.go:10).
THEOREM FailureIsClean == Spec => []ErrorLeavesNoTrace
  <1>1. IInv => ErrorLeavesNoTrace
    <2> SUFFICES ASSUME IInv, NEW c \in edits
                 PROVE  /\ result[c] = "error" => Parted(c) = {}
                        /\ result[c] \in {"error", "ok"} => c \notin temps
      BY DEF ErrorLeavesNoTrace
    <2>1. result[c] = "error" => Parted(c) = {}
      BY DEF IInv, NameInv, ContentInv, Settled, Parted, Content, Shows
    <2>2. result[c] \in {"error", "ok"} => c \notin temps
      BY DEF IInv, CallInv
    <2> QED BY <2>1, <2>2
  <1> QED BY <1>1, Invariant, PTL

\* The file never shows another mode than the original one, and the mode of a
\* new file when there was none (atomic_write.go:11).
THEOREM ModeIsKept == Spec => []ModeKept
  <1>1. IInv => ModeKept
    BY DEF IInv, NameInv, ModeInv, ModeKept, Kept
  <1> QED BY <1>1, Invariant, PTL
=============================================================================
