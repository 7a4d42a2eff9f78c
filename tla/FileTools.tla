------------------------------ MODULE FileTools ------------------------------
(***************************************************************************)
(* The tools that change files of the workspace, edit_file                 *)
(* (internal/tools/edit_file.go, atomic_write.go) and write_file           *)
(* (internal/tools/write_file.go), used on one file by several agents.  An *)
(* agent runs one such call at a time: neither tool is parallel-safe.      *)
(*                                                                         *)
(* edit_file reads the file, applies its edits in memory, and replaces the *)
(* file by a temporary one; write_file truncates the file and fills it in  *)
(* place.  A step may fail, an agent may die, and the machine may lose     *)
(* power, which keeps of a file what was synced.                           *)
(*                                                                         *)
(* A file's content is the sequence of the pieces that went into it.       *)
(* Files are known by inode: the path names one, a writer holds one open.  *)
(***************************************************************************)
EXTENDS Integers, Sequences

CONSTANTS
  Procs,      \* agents, in processes of their own
  Original,   \* the inode of the file that may be there at the start
  None,       \* no inode
  Parts,      \* edits of an edit_file call, pieces of a write_file call
  MaxCalls,   \* bound: calls in all
  MaxLosses   \* bound: losses of power

Call == 1..MaxCalls

\* A call makes at most one inode, and gives it its name.
Inode == Call \cup {Original}

ASSUME FileAssumption ==
  /\ Original \notin Call \cup {None} /\ None \notin Call
  /\ Parts \in Nat /\ MaxCalls \in Nat /\ MaxLosses \in Nat

VARIABLES
  path,    \* the inode the path names, or None
  data,    \* content per inode
  mode,    \* permissions per inode
  synced,  \* inodes whose content is on disk
  past,    \* what the path named since power was lost last: its directory is
           \* never synced
  temps,   \* inodes with a temporary name, ".edit-*.tmp"
  pc,      \* where each agent is in its call
  calls,   \* how many calls were made
  call,    \* the call each agent is or was last in, or 0
  buf,     \* edit_file: the content in memory
  perm,    \* edit_file: permissions to keep
  fd,      \* write_file: the inode it has open
  offset,  \* write_file: pieces written
  edits,   \* calls of edit_file
  result,  \* what each call returned
  losses   \* how often power was lost

fileVars == <<path, data, mode, synced, past>>
editVars == <<buf, perm>>
writeVars == <<fd, offset>>
callVars == <<calls, call>>
vars == <<fileVars, temps, pc, callVars, editVars, writeVars, edits, result, losses>>

Piece(c, k) == [of |-> c, part |-> k]
HolePiece == Piece(None, 0)

Init ==
  /\ path \in {Original, None}
  /\ data = [i \in Inode |-> IF i = Original THEN <<Piece(Original, 1)>> ELSE <<>>]
  /\ mode = [i \in Inode |-> IF i = path THEN "original" ELSE "none"]
  /\ synced = {Original} /\ past = {path} /\ temps = {}
  /\ pc = [p \in Procs |-> "idle"] /\ calls = 0 /\ call = [p \in Procs |-> 0]
  /\ buf = [p \in Procs |-> <<>>] /\ perm = [p \in Procs |-> "none"]
  /\ fd = [p \in Procs |-> None] /\ offset = [p \in Procs |-> 0]
  /\ edits = {} /\ result = [c \in Call |-> "none"] /\ losses = 0

Goto(p, where) == pc' = [pc EXCEPT ![p] = where]

Begin(p, where) ==
  /\ pc[p] = "idle" /\ calls < MaxCalls
  /\ calls' = calls + 1 /\ call' = [call EXCEPT ![p] = calls + 1]
  /\ Goto(p, where)

\* The call of p is over, and its local variables are gone.
End(p, how) ==
  /\ Goto(p, "idle") /\ result' = [result EXCEPT ![call[p]] = how]
  /\ buf' = [buf EXCEPT ![p] = <<>>] /\ perm' = [perm EXCEPT ![p] = "none"]
  /\ fd' = [fd EXCEPT ![p] = None] /\ offset' = [offset EXCEPT ![p] = 0]

-----------------------------------------------------------------------------
(* edit_file.                                                              *)

BeginEdit(p) ==
  /\ Begin(p, "read")
  /\ edits' = edits \cup {calls + 1}
  /\ UNCHANGED <<fileVars, temps, editVars, writeVars, result, losses>>

ReadOriginal(p) ==
  /\ pc[p] = "read" /\ path # None
  /\ buf' = [buf EXCEPT ![p] = data[path]]
  /\ Goto(p, "replace")
  /\ UNCHANGED <<fileVars, temps, callVars, perm, writeVars, edits, result, losses>>

Applied(p) == {k \in 1..Parts : \E i \in DOMAIN buf[p] : buf[p][i] = Piece(call[p], k)}

\* The edits are applied in order, each to the result of those before it.
NextEdits(p) == {k \in 1..Parts : Applied(p) = 1..(k - 1)}

Replace(p) ==
  /\ pc[p] = "replace"
  /\ \E k \in NextEdits(p) :
       /\ buf' = [buf EXCEPT ![p] = Append(@, Piece(call[p], k))]
       /\ Goto(p, IF k = Parts THEN "stat" ELSE "replace")
  /\ UNCHANGED <<fileVars, temps, callVars, perm, writeVars, edits, result, losses>>

StatOriginal(p) ==
  /\ pc[p] = "stat" /\ path # None
  /\ perm' = [perm EXCEPT ![p] = mode[path]]
  /\ Goto(p, "create")
  /\ UNCHANGED <<fileVars, temps, callVars, buf, writeVars, edits, result, losses>>

CreateTemp(p) ==
  /\ pc[p] = "create"
  /\ temps' = temps \cup {call[p]}
  /\ mode' = [mode EXCEPT ![call[p]] = "0600"]
  /\ Goto(p, "write")
  /\ UNCHANGED <<path, data, synced, past, callVars, editVars, writeVars, edits, result, losses>>

WriteTemp(p) ==
  /\ pc[p] = "write"
  /\ data' = [data EXCEPT ![call[p]] = buf[p]]
  /\ Goto(p, "sync")
  /\ UNCHANGED <<path, mode, synced, past, temps, callVars, editVars, writeVars, edits, result, losses>>

\* Mutant: the temporary file is not synced.
Synced_Never(i) == synced

Synced(i) == synced \cup {i}

SyncTemp(p) ==
  /\ pc[p] = "sync"
  /\ synced' = Synced(call[p])
  /\ Goto(p, "chmod")
  /\ UNCHANGED <<path, data, mode, past, temps, callVars, editVars, writeVars, edits, result, losses>>

\* Mutant: the temporary file keeps its permissions.
NewMode_OfTemp(p) == mode[call[p]]

NewMode(p) == perm[p]

ChmodTemp(p) ==
  /\ pc[p] = "chmod"
  /\ mode' = [mode EXCEPT ![call[p]] = NewMode(p)]
  /\ Goto(p, "rename")
  /\ UNCHANGED <<path, data, synced, past, temps, callVars, editVars, writeVars, edits, result, losses>>

Rename(p) ==
  /\ pc[p] = "rename"
  /\ path' = call[p] /\ past' = past \cup {call[p]}
  /\ temps' = temps \ {call[p]}
  /\ End(p, "ok")
  /\ UNCHANGED <<data, mode, synced, callVars, edits, losses>>

\* Mutant: the temporary file is not removed.
Cleaned_Never(p) == temps

Cleaned(p) == temps \ {call[p]}

\* Any step returns its error: bad arguments, no such file, an edit that
\* matches nothing or too much, a failing system call.
EditFails(p) ==
  /\ pc[p] \in {"read", "replace", "stat", "create", "write", "sync", "chmod", "rename"}
  /\ temps' = Cleaned(p)
  /\ End(p, "error")
  /\ UNCHANGED <<fileVars, callVars, edits, losses>>

-----------------------------------------------------------------------------
(* write_file.                                                             *)

BeginWrite(p) ==
  /\ Begin(p, "open")
  /\ UNCHANGED <<fileVars, temps, editVars, writeVars, edits, result, losses>>

\* O_CREATE | O_TRUNC.
OpenTruncated(p) ==
  /\ pc[p] = "open"
  /\ LET i == IF path = None THEN call[p] ELSE path IN
     /\ path' = i /\ past' = past \cup {i}
     /\ data' = [data EXCEPT ![i] = <<>>]
     /\ synced' = synced \ {i}
     /\ mode' = IF path = None THEN [mode EXCEPT ![i] = "0644"] ELSE mode
     /\ fd' = [fd EXCEPT ![p] = i]
  /\ offset' = [offset EXCEPT ![p] = 0]
  /\ Goto(p, "fill")
  /\ UNCHANGED <<temps, callVars, editVars, edits, result, losses>>

\* A write beyond the end, after another writer truncated, leaves a hole.
WrittenAt(content, k, piece) ==
  [i \in 1..(IF k > Len(content) THEN k ELSE Len(content)) |->
     IF i = k THEN piece ELSE IF i <= Len(content) THEN content[i] ELSE HolePiece]

MorePieces(p) == offset[p] < Parts

Fill(p) ==
  /\ pc[p] = "fill" /\ MorePieces(p)
  /\ offset' = [offset EXCEPT ![p] = @ + 1]
  /\ data' = [data EXCEPT ![fd[p]] = WrittenAt(@, offset[p] + 1, Piece(call[p], offset[p] + 1))]
  /\ UNCHANGED <<path, mode, synced, past, temps, pc, callVars, editVars, fd, edits, result, losses>>

WriteDone(p) ==
  /\ pc[p] = "fill" /\ ~MorePieces(p)
  /\ End(p, "ok")
  /\ UNCHANGED <<fileVars, temps, callVars, edits, losses>>

\* What was written stays.
WriteFails(p) ==
  /\ pc[p] \in {"open", "fill"}
  /\ End(p, "error")
  /\ UNCHANGED <<fileVars, temps, callVars, edits, losses>>

-----------------------------------------------------------------------------

Crash(p) ==
  /\ pc[p] # "idle"
  /\ End(p, "crashed")
  /\ UNCHANGED <<fileVars, temps, callVars, edits, losses>>

\* Every agent dies.  The path names again what it named at any time since the
\* last loss, and a file that was not synced keeps a part of its content.
\* Modes are kept: what Chmod set before the rename is assumed to last with the
\* rename, although nothing syncs it (atomic_write.go:51 is behind the Sync of :43).
PowerLoss ==
  /\ losses < MaxLosses /\ losses' = losses + 1
  /\ pc' = [p \in Procs |-> "idle"]
  /\ buf' = [p \in Procs |-> <<>>] /\ perm' = [p \in Procs |-> "none"]
  /\ fd' = [p \in Procs |-> None] /\ offset' = [p \in Procs |-> 0]
  /\ result' = [c \in Call |->
       IF \E p \in Procs : pc[p] # "idle" /\ c = call[p] THEN "crashed" ELSE result[c]]
  /\ path' \in past /\ past' = {path'}
  /\ IF path' = None \/ path' \in synced THEN UNCHANGED data
     ELSE \E n \in 0..Len(data[path']) : data' = [data EXCEPT ![path'] = SubSeq(@, 1, n)]
  /\ synced' = IF path' = None THEN synced ELSE synced \cup {path'}
  /\ UNCHANGED <<mode, temps, callVars, edits>>

Edit(p) ==
  \/ BeginEdit(p) \/ ReadOriginal(p) \/ Replace(p) \/ StatOriginal(p) \/ CreateTemp(p)
  \/ WriteTemp(p) \/ SyncTemp(p) \/ ChmodTemp(p) \/ Rename(p) \/ EditFails(p)

Write(p) ==
  BeginWrite(p) \/ OpenTruncated(p) \/ Fill(p) \/ WriteDone(p) \/ WriteFails(p)

Next == (\E p \in Procs : Edit(p) \/ Write(p) \/ Crash(p)) \/ PowerLoss

Spec == Init /\ [][Next]_vars

-----------------------------------------------------------------------------
(* Properties.                                                             *)

Content == IF path = None THEN {} ELSE {data[path][i] : i \in DOMAIN data[path]}
Parted(c) == {k \in 1..Parts : Piece(c, k) \in Content}

\* "If any edit fails, none are applied" (edit_file.go:33), and what is renamed
\* is synced: whoever fails, dies or loses power when, the file shows all the
\* edits of a call or none of them.
EditAllOrNothing == \A c \in edits : Parted(c) \in {{}, 1..Parts}

\* "On any error, the temp file is removed and the original path is untouched"
\* (atomic_write.go:10): a call of edit_file that returned an error left
\* nothing in the file and no temporary file; one that succeeded left none.
ErrorLeavesNoTrace ==
  \A c \in edits :
    /\ result[c] = "error" => Parted(c) = {}
    /\ result[c] \in {"error", "ok"} => c \notin temps

\* "Preserves the original file's mode" (atomic_write.go:11): the file never
\* shows another mode than that of the file that was edited, nor that of the
\* temporary file.
ModeKept ==
  path # None =>
    mode[path] = IF mode[Original] = "original" THEN "original" ELSE "0644"
=============================================================================
