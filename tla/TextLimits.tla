----------------------------- MODULE TextLimits -----------------------------
(***************************************************************************)
(* What of a text a tool shows the model: a page of its lines (sliceLines  *)
(* in internal/tools/read_file.go) or its head and its tail                *)
(* (internal/tools/truncate.go, also used by bash).                        *)
(*                                                                         *)
(* A text is its length in bytes, the offsets at which a rune starts, and  *)
(* its number of lines; a part of it is a range of offsets.  Integers are  *)
(* those of the machine and wrap around.                                   *)
(***************************************************************************)
EXTENDS Integers, FiniteSetsExt

CONSTANTS
  MaxBytes,        \* bound: length of a text
  MaxLines,        \* bound: lines of a text that is asked for by lines
  IntMin, IntMax,  \* the machine's integers
  Budgets          \* byte budgets a caller may give

ASSUME TextAssumption ==
  /\ IntMin \in Int /\ IntMax \in Nat /\ IntMin = -IntMax - 1
  /\ MaxBytes \in 0..IntMax /\ MaxLines \in 1..(MaxBytes + 1)
  /\ Budgets \subseteq Int

VARIABLES
  len,      \* length of the text in bytes
  starts,   \* offsets where a rune starts
  lines,    \* number of its lines
  budget,   \* maxBytes
  offset,   \* the request's offset
  limit,    \* and limit
  shown     \* what the tool returns

textVars == <<len, starts, lines>>
requestVars == <<budget, offset, limit>>

MachineInt == IntMin..IntMax
Wrap(n) == ((n - IntMin) % (IntMax - IntMin + 1)) + IntMin

\* UTF-8: the text begins with a rune, and a rune has at most four bytes.
RuneStarts(n) ==
  {s \in SUBSET (0..(n - 1)) :
     n > 0 => 0 \in s /\ \A i \in 0..(n - 1) : \E j \in s : j <= i /\ i < j + 4}

Nothing == [how |-> "nothing", from |-> 0, to |-> 0]

\* A text to truncate has one line; a text to page through consists of newlines.
Init ==
  /\ len \in 0..MaxBytes /\ starts \in RuneStarts(len)
  /\ budget \in Budgets
  /\ \/ lines = 1 /\ offset = 0 /\ limit = 0
     \/ /\ lines = len + 1 /\ lines <= MaxLines /\ starts = 0..(len - 1)
        /\ offset \in MachineInt /\ limit \in MachineInt
  /\ shown = Nothing

-----------------------------------------------------------------------------
(* TruncateForLLM: what is left out is the range from..to.                 *)

\* Mutant: a rune may be cut.
SafeRuneBoundaryDown_Anywhere(n) == n

SafeRuneBoundaryDown(n) == IF n >= len THEN len ELSE Max({i \in starts : i <= n} \cup {0})

\* Mutant: the tail begins with the rune the cut falls into.
SafeRuneBoundaryUp_Before(n) == SafeRuneBoundaryDown(n)

SafeRuneBoundaryUp(n) ==
  IF n <= 0 THEN 0 ELSE Min({i \in starts : i >= n} \cup {len})

Truncate ==
  /\ shown = Nothing /\ offset <= 0 /\ limit <= 0
  /\ LET half == budget \div 2
         head == SafeRuneBoundaryDown(half)
         tail == SafeRuneBoundaryUp(len - half)
     IN shown' = IF len <= budget THEN [how |-> "whole", from |-> 0, to |-> 0]
                 ELSE IF budget <= 0 THEN [how |-> "elided", from |-> 0, to |-> len]
                 ELSE [how |-> "elided", from |-> head, to |-> IF tail <= head THEN head ELSE tail]
  /\ UNCHANGED <<textVars, requestVars>>

-----------------------------------------------------------------------------
(* sliceLines: what is shown are the lines from + 1 .. to.                 *)

\* Mutant: the offset counts from zero.
FirstLine_FromZero == offset

\* The offset counts from one.
FirstLine == Wrap(offset - 1)

Page ==
  /\ shown = Nothing /\ (offset > 0 \/ limit > 0)
  /\ LET start == IF FirstLine < 0 THEN 0 ELSE FirstLine
         end   == IF limit > 0 /\ Wrap(start + limit) < lines THEN Wrap(start + limit) ELSE lines
     IN shown' = IF start >= lines THEN [how |-> "page", from |-> lines, to |-> lines]
                 ELSE [how |-> IF start <= end THEN "page" ELSE "panic", from |-> start, to |-> end]
  /\ UNCHANGED <<textVars, requestVars>>

Next == Truncate \/ Page

Spec == Init /\ [][Next]_<<textVars, requestVars, shown>>

-----------------------------------------------------------------------------
(* Properties.                                                             *)

\* "Both cuts backed up to the nearest valid UTF-8 rune boundary"
\* (truncate.go:10): no rune is cut in two, whatever the budget and wherever
\* the halves of it fall.
CutsAtRunes == shown.how = "elided" => {shown.from, shown.to} \subseteq starts \cup {0, len}

\* A text that fits is shown as it is; of another one no more than the budget
\* is shown, something is left out, and no more than the two cuts and an odd
\* budget cost.
BudgetKept ==
  /\ shown.how = "whole" => len <= budget
  /\ shown.how = "elided" /\ budget > 0 =>
       /\ shown.from < shown.to
       /\ shown.from + (len - shown.to) <= budget
       /\ shown.to - shown.from <= len - budget + 7

\* The lines a request asks for, counted from one: from the offset on, at most
\* limit of them.
Asked ==
  LET first == IF offset > 0 THEN offset ELSE 1
  IN {i \in 1..lines : i >= first /\ (limit > 0 => i < first + limit)}

\* A page shows the lines that were asked for (read_file.go:40, 44), as long as
\* neither their first number nor their last leaves the machine's integers.
PageIsAsked ==
  shown.how = "page" /\ offset > IntMin /\ offset + limit <= IntMax =>
    (shown.from + 1)..shown.to = Asked

\* "Tool execution errors stay non-fatal" (parallel-tool-calling-design.md:255):
\* whatever the model asks for, the tool returns.  Not so: a limit close to the
\* largest integer makes the end of the page negative, and slicing panics.
PageReturns == shown.how # "panic"
=============================================================================
