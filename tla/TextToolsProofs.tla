-------------------------- MODULE TextToolsProofs ---------------------------
(***************************************************************************)
(* Proofs about TextLimits, for every text, every budget and every request *)
(* and for machine integers of any width, and about FuzzyReplace, for every*)
(* alphabet, every content and every edit.                                 *)
(*                                                                         *)
(* The functions of FuzzyReplace go through a text character by character. *)
(* What they do is proved by induction over texts, stated with sets: a set *)
(* of sequences that has the empty one, and with each sequence every one   *)
(* with one more element, has them all.                                    *)
(***************************************************************************)
EXTENDS TextLimits, FuzzyReplace, FiniteSetTheorems, SequenceTheorems, WellFoundedInduction, TLAPS

-----------------------------------------------------------------------------
(* The least and the greatest of a set of offsets.                         *)

\* A set of naturals has a least element.
LEMMA LeastOffset ==
  ASSUME NEW S \in SUBSET Nat, S # {}
  PROVE  Min(S) \in S /\ \A i \in S : Min(S) <= i
  <1>1. PICK x \in S : \A y \in S : ~(<<y, x>> \in OpToRel(<, Nat))
    BY NatLessThanWellFounded, WFMin
  <1>2. \A y \in S : ~(y < x)
    BY <1>1 DEF OpToRel
  <1>3. \A y \in S : x <= y
    BY <1>2
  <1> QED BY <1>3 DEF Min

\* A bounded one has a greatest element: the one that is the least from above.
LEMMA GreatestOffset ==
  ASSUME NEW n \in Nat, NEW S \in SUBSET (0..n), S # {}
  PROVE  Max(S) \in S /\ \A i \in S : i <= Max(S)
  <1> DEFINE Gaps == {n - i : i \in S}
  <1>1. Gaps \in SUBSET Nat /\ Gaps # {}
    <2>1. \A i \in S : n - i \in Nat
      OBVIOUS
    <2> QED BY <2>1
  <1>2. PICK d \in Gaps : \A e \in Gaps : d <= e
    <2> HIDE DEF Gaps
    <2> QED BY <1>1, LeastOffset
  <1>3. PICK x \in S : d = n - x
    OBVIOUS
  <1>4. \A i \in S : n - i \in Gaps
    OBVIOUS
  <1>5. \A i \in S : x >= i
    <2> SUFFICES ASSUME NEW i \in S PROVE x >= i
      OBVIOUS
    <2>1. d <= n - i
      BY <1>2, <1>4
    <2> QED BY <1>3, <2>1
  <1> QED BY <1>5 DEF Max

-----------------------------------------------------------------------------
(* The cuts.                                                               *)

TextOK ==
  /\ len \in Nat /\ starts \subseteq 0..(len - 1)
  /\ len > 0 => \A i \in 0..(len - 1) : \E j \in starts : j <= i /\ i < j + 4
  /\ lines \in Nat /\ lines >= 1 /\ lines <= IntMax + 1
  /\ budget \in Int
  /\ \/ offset = 0 /\ limit = 0
     \/ offset \in MachineInt /\ limit \in MachineInt /\ lines <= IntMax + 1

\* The head ends at a rune, at most three bytes early.
LEMMA HeadCut ==
  ASSUME TextOK, NEW n \in Nat, n < len
  PROVE  /\ SafeRuneBoundaryDown(n) \in starts \cup {0} /\ SafeRuneBoundaryDown(n) \in Nat
         /\ SafeRuneBoundaryDown(n) <= n /\ n <= SafeRuneBoundaryDown(n) + 3
  <1> DEFINE S == {i \in starts : i <= n} \cup {0}
  <1>1. S \in SUBSET (0..n) /\ S # {}
    <2>1. \A i \in starts : i \in Nat
      BY DEF TextOK
    <2>2. \A i \in S : i \in 0..n
      BY <2>1
    <2> QED BY <2>2
  <1>2. SafeRuneBoundaryDown(n) = Max(S)
    BY DEF SafeRuneBoundaryDown, TextOK
  <1>3. PICK x : x = Max(S)
    OBVIOUS
  <1>4. x \in S /\ \A i \in S : i <= x
    <2> HIDE DEF S
    <2> QED BY <1>1, <1>3, GreatestOffset
  <1>5. PICK j \in starts : j <= n /\ n < j + 4
    BY DEF TextOK
  <1>6. j \in S /\ j \in Int
    BY <1>5 DEF TextOK
  <1>7. j <= x /\ x \in 0..n
    BY <1>1, <1>4, <1>6
  <1> QED BY <1>2, <1>3, <1>4, <1>5, <1>6, <1>7

\* The tail begins with a rune, at most three bytes late.
LEMMA TailCut ==
  ASSUME TextOK, NEW n \in Nat, n > 0, n <= len
  PROVE  /\ SafeRuneBoundaryUp(n) \in starts \cup {len} /\ SafeRuneBoundaryUp(n) \in Nat
         /\ n <= SafeRuneBoundaryUp(n) /\ SafeRuneBoundaryUp(n) <= n + 3
         /\ SafeRuneBoundaryUp(n) <= len
  <1> DEFINE S == {i \in starts : i >= n} \cup {len}
  <1>0. len \in Nat /\ \A i \in starts : i \in Nat /\ i < len
    BY DEF TextOK
  <1>1. S \in SUBSET Nat /\ S # {}
    BY <1>0
  <1>2. SafeRuneBoundaryUp(n) = Min(S)
    BY DEF SafeRuneBoundaryUp
  <1>3. PICK x : x = Min(S)
    OBVIOUS
  <1>4. x \in S /\ \A i \in S : x <= i
    <2> HIDE DEF S
    <2> QED BY <1>1, <1>3, LeastOffset
  <1>5. x \in Nat /\ n <= x /\ x <= len
    BY <1>0, <1>4
  <1>6. x <= n + 3
    <2>1. CASE n + 3 >= len
      BY <1>0, <1>5, <2>1
    <2>2. CASE n + 3 < len
      <3>1. PICK j \in starts : j <= n + 3 /\ n + 3 < j + 4
        BY <1>0, <2>2 DEF TextOK
      <3>2. j \in S
        BY <1>0, <3>1
      <3> QED BY <1>0, <1>4, <1>5, <3>1, <3>2
    <2> QED BY <1>0, <2>1, <2>2
  <1> QED BY <1>2, <1>3, <1>4, <1>5, <1>6

-----------------------------------------------------------------------------
(* The machine's integers.                                                 *)

\* Arithmetic that does not leave them is arithmetic.
LEMMA NoWrap == ASSUME NEW n \in MachineInt PROVE Wrap(n) = n
  <1>1. IntMin \in Int /\ IntMax \in Nat /\ n \in Int /\ IntMin <= n /\ n <= IntMax
    BY TextAssumption DEF MachineInt
  <1>2. PICK a, m : a = n - IntMin /\ m = IntMax - IntMin + 1
    OBVIOUS
  <1>3. a \in Nat /\ m \in Nat /\ a < m
    BY <1>1, <1>2
  <1>4. a % m = a
    BY <1>3
  <1> QED BY <1>1, <1>2, <1>4 DEF Wrap

-----------------------------------------------------------------------------
(* What is shown.                                                          *)

\* The whole text, or a head and a tail that lose little.
LEMMA TruncateShows ==
  ASSUME TextOK, Truncate
  PROVE  CutsAtRunes' /\ BudgetKept' /\ PageIsAsked'
  <1>0. len \in Nat /\ budget \in Int /\ UNCHANGED <<len, starts, lines, budget, offset, limit>>
    BY DEF TextOK, Truncate, textVars, requestVars
  <1>1. CASE len <= budget
    <2>1. shown' = [how |-> "whole", from |-> 0, to |-> 0]
      BY <1>1 DEF Truncate
    <2> QED BY <1>0, <1>1, <2>1 DEF CutsAtRunes, BudgetKept, PageIsAsked
  <1>2. CASE len > budget /\ budget <= 0
    <2>1. shown' = [how |-> "elided", from |-> 0, to |-> len]
      BY <1>0, <1>2 DEF Truncate
    <2> QED BY <1>0, <1>2, <2>1 DEF CutsAtRunes, BudgetKept, PageIsAsked
  <1>3. CASE len > budget /\ budget > 0
    <2>1. PICK half : half = budget \div 2
      OBVIOUS
    <2>2. half \in Nat /\ 2 * half <= budget /\ budget <= 2 * half + 1 /\ half < len
      BY <1>0, <1>3, <2>1
    <2>3. len - half \in Nat /\ len - half > 0 /\ len - half <= len
      BY <1>0, <2>2
    <2>4. PICK head, tail : head = SafeRuneBoundaryDown(half) /\ tail = SafeRuneBoundaryUp(len - half)
      OBVIOUS
    <2>5. head \in starts \cup {0} /\ head \in Nat /\ head <= half /\ half <= head + 3
      BY <2>2, <2>4, HeadCut
    <2>6. /\ tail \in starts \cup {len} /\ tail \in Nat
          /\ len - half <= tail /\ tail <= (len - half) + 3 /\ tail <= len
      BY <2>3, <2>4, TailCut
    <2>7. ~(tail <= head)
      BY <1>0, <1>3, <2>2, <2>5, <2>6
    <2>8. shown' = [how |-> "elided", from |-> head, to |-> tail]
      BY <1>0, <1>3, <2>1, <2>4, <2>7 DEF Truncate
    <2>9. CutsAtRunes'
      BY <1>0, <2>5, <2>6, <2>8 DEF CutsAtRunes
    <2>10. BudgetKept'
      <3>1. head < tail /\ head + (len - tail) <= budget /\ tail - head <= len - budget + 7
        BY <1>0, <1>3, <2>2, <2>5, <2>6, <2>7
      <3> QED BY <1>0, <1>3, <2>8, <3>1 DEF BudgetKept
    <2>11. PageIsAsked'
      BY <2>8 DEF PageIsAsked
    <2> QED BY <2>9, <2>10, <2>11
  <1> QED BY <1>0, <1>1, <1>2, <1>3

\* The lines that were asked for.
LEMMA PageShows ==
  ASSUME TextOK, Page
  PROVE  CutsAtRunes' /\ BudgetKept' /\ PageIsAsked'
  <1>0. /\ lines \in Nat /\ lines >= 1 /\ offset \in MachineInt /\ limit \in MachineInt
        /\ offset > 0 \/ limit > 0
        /\ UNCHANGED <<len, starts, lines, budget, offset, limit>>
    BY TextAssumption DEF TextOK, Page, textVars, requestVars, MachineInt
  <1>1. IntMin \in Int /\ IntMax \in Nat /\ IntMin < 0
    BY TextAssumption
  <1>2. offset \in Int /\ limit \in Int /\ IntMin <= offset /\ offset <= IntMax /\ limit <= IntMax
    BY <1>0, <1>1 DEF MachineInt
  <1> DEFINE start == IF FirstLine < 0 THEN 0 ELSE FirstLine
             end == IF limit > 0 /\ Wrap(start + limit) < lines THEN Wrap(start + limit) ELSE lines
  <1>3. shown' = IF start >= lines THEN [how |-> "page", from |-> lines, to |-> lines]
                 ELSE [how |-> IF start <= end THEN "page" ELSE "panic", from |-> start, to |-> end]
    BY DEF Page
  <1>4. shown'.how \in {"page", "panic"}
    <2> HIDE DEF start, end
    <2> QED BY <1>3
  <1>5. CutsAtRunes' /\ BudgetKept'
    BY <1>4 DEF CutsAtRunes, BudgetKept
  <1>6. ASSUME offset > IntMin, offset + limit <= IntMax
        PROVE  shown'.how = "page" => (shown'.from + 1)..shown'.to = Asked
    <2>1. FirstLine = offset - 1
      <3>1. offset - 1 \in MachineInt
        BY <1>1, <1>2, <1>6 DEF MachineInt
      <3> QED BY <3>1, NoWrap DEF FirstLine
    <2>2. PICK first \in Nat : first = (IF offset > 0 THEN offset ELSE 1) /\ first >= 1
      BY <1>2
    <2>3. start = first - 1
      BY <1>2, <2>1, <2>2
    <2>4. limit > 0 => Wrap(start + limit) = start + limit
      <3>1. limit > 0 => start + limit \in MachineInt
        <4>1. PICK sum : sum = (first - 1) + limit
          OBVIOUS
        <4>2. limit > 0 => sum \in Int /\ IntMin <= sum /\ sum <= IntMax
          BY <1>1, <1>2, <1>6, <2>2, <4>1
        <4> HIDE DEF start
        <4> QED BY <1>1, <2>3, <4>1, <4>2 DEF MachineInt
      <3> HIDE DEF start
      <3> QED BY <3>1, NoWrap
    <2>5. end = IF limit > 0 /\ start + limit < lines THEN start + limit ELSE lines
      BY <2>4
    <2>6. PICK s, e : s = start /\ e = end
      OBVIOUS
    <2>7. /\ s = first - 1 /\ e = (IF limit > 0 /\ s + limit < lines THEN s + limit ELSE lines)
          /\ shown' = IF s >= lines THEN [how |-> "page", from |-> lines, to |-> lines]
                      ELSE [how |-> IF s <= e THEN "page" ELSE "panic", from |-> s, to |-> e]
      BY <1>3, <2>3, <2>5, <2>6
    <2>8. Asked = {i \in 1..lines : i >= first /\ (limit > 0 => i < first + limit)}
      BY <2>2 DEF Asked
    <2> HIDE DEF start, end
    <2>9. CASE s >= lines
      <3>1. shown'.from = lines /\ shown'.to = lines
        BY <2>7, <2>9
      <3>2. \A i \in 1..lines : ~(i >= first)
        BY <1>0, <2>2, <2>7, <2>9
      <3> QED BY <1>0, <2>8, <3>1, <3>2
    <2>10. CASE s < lines
      <3>1. shown'.from = s /\ shown'.to = e
        BY <1>0, <2>2, <2>7, <2>10
      <3>2. \A i \in Int : i \in (s + 1)..e <=> i \in 1..lines /\ i >= first /\ (limit > 0 => i < first + limit)
        BY <1>0, <1>2, <2>2, <2>7, <2>10
      <3>3. (s + 1)..e \subseteq Int /\ 1..lines \subseteq Int
        BY <1>0, <1>2, <2>2, <2>7
      <3>4. (s + 1)..e = Asked
        BY <2>8, <3>2, <3>3
      <3> QED BY <3>1, <3>4
    <2> QED BY <1>0, <2>2, <2>7, <2>9, <2>10
  <1>7. PageIsAsked'
    <2>1. Asked' = Asked
      BY <1>0 DEF Asked
    <2> QED BY <1>0, <1>6, <2>1 DEF PageIsAsked
  <1> QED BY <1>5, <1>7

-----------------------------------------------------------------------------
(* The tool is called once, and its text and its request stay.             *)

IInv == TextOK /\ CutsAtRunes /\ BudgetKept /\ PageIsAsked

\* Texts and requests are what TextOK says, and nothing is shown yet.
LEMMA InitInv == ASSUME Init PROVE IInv
  <1>1. MaxBytes \in Nat /\ MaxLines \in Nat /\ MaxLines <= IntMax + 1 /\ IntMax \in Nat
    BY TextAssumption
  <1>2. len \in Nat /\ starts \in RuneStarts(len) /\ budget \in Int
    BY <1>1, TextAssumption DEF Init
  <1>3. /\ starts \subseteq 0..(len - 1)
        /\ len > 0 => \A i \in 0..(len - 1) : \E j \in starts : j <= i /\ i < j + 4
    BY <1>2 DEF RuneStarts
  <1>4. /\ lines \in Nat /\ lines >= 1 /\ lines <= IntMax + 1
        /\ (offset = 0 /\ limit = 0) \/ (offset \in MachineInt /\ limit \in MachineInt)
    BY <1>1, <1>2 DEF Init
  <1>5. TextOK
    BY <1>2, <1>3, <1>4 DEF TextOK
  <1> QED BY <1>5 DEF Init, Nothing, IInv, CutsAtRunes, BudgetKept, PageIsAsked

\* Every step keeps the invariant.
LEMMA NextInv == ASSUME IInv, [Next]_<<textVars, requestVars, shown>> PROVE IInv'
  <1>1. TextOK'
    <2>1. UNCHANGED <<textVars, requestVars>>
      BY DEF Next, Truncate, Page
    <2> QED BY <2>1 DEF IInv, TextOK, textVars, requestVars
  <1>2. CASE Truncate
    BY <1>1, <1>2, TruncateShows DEF IInv
  <1>3. CASE Page
    BY <1>1, <1>3, PageShows DEF IInv
  <1>4. CASE UNCHANGED <<textVars, requestVars, shown>>
    BY <1>1, <1>4 DEF IInv, CutsAtRunes, BudgetKept, PageIsAsked, Asked, textVars, requestVars
  <1> QED BY <1>2, <1>3, <1>4 DEF Next

\* Whatever the text, the budget and the request.
THEOREM Invariant == Spec => []IInv
  <1>1. Init => IInv
    BY InitInv
  <1>2. IInv /\ [Next]_<<textVars, requestVars, shown>> => IInv'
    BY NextInv
  <1> QED BY <1>1, <1>2, PTL DEF Spec

\* No rune is cut in two (truncate.go:10).
THEOREM RunesStayWhole == Spec => []CutsAtRunes
  <1>1. IInv => CutsAtRunes
    BY DEF IInv
  <1> QED BY <1>1, Invariant, PTL

\* What is shown of a text keeps to the budget and wastes little of it
\* (truncate.go).
THEOREM BudgetIsKept == Spec => []BudgetKept
  <1>1. IInv => BudgetKept
    BY DEF IInv
  <1> QED BY <1>1, Invariant, PTL

\* A page is the lines that were asked for (read_file.go:40), as long as no sum
\* leaves the machine's integers.
THEOREM PageShowsRequest == Spec => []PageIsAsked
  <1>1. IInv => PageIsAsked
    BY DEF IInv
  <1> QED BY <1>1, Invariant, PTL

-----------------------------------------------------------------------------
(* Sequences, by induction.                                                *)

\* Parts may be put together in either order.
Grouped(a, b, c) == (a \o b) \o c = a \o (b \o c)

LEMMA Regroup ==
  ASSUME NEW E, NEW a \in Seq(E), NEW b \in Seq(E), NEW c \in Seq(E)
  PROVE  Grouped(a, b, c)
  BY ConcatAssociative DEF Grouped

\* What 0 has, and n + 1 if n has it, every natural has.
LEMMA NatInduct ==
  ASSUME NEW S \in SUBSET Nat, 0 \in S, \A n \in S : n + 1 \in S
  PROVE  \A n \in Nat : n \in S
  <1> SUFFICES ASSUME Nat \ S # {} PROVE FALSE
    OBVIOUS
  <1>1. PICK m \in Nat \ S : \A k \in Nat \ S : m <= k
    BY LeastOffset
  <1>2. m # 0 /\ m - 1 \in Nat
    OBVIOUS
  <1>3. m - 1 \in S
    BY <1>1, <1>2
  <1> QED BY <1>3

\* What the empty sequence has, and Append(s, e) if s has it, every sequence has.
LEMMA SeqInduct ==
  ASSUME NEW E, NEW S \in SUBSET Seq(E), <<>> \in S, \A s \in S : \A e \in E : Append(s, e) \in S
  PROVE  \A s \in Seq(E) : s \in S
  <1> DEFINE T == {n \in Nat : \A s \in Seq(E) : Len(s) = n => s \in S}
  <1>1. 0 \in T
    BY EmptySeq
  <1>2. ASSUME NEW n \in T, NEW s \in Seq(E), Len(s) = n + 1 PROVE s \in S
    <2>1. PICK r \in Seq(E), e \in E : s = Append(r, e)
      <3>1. s # <<>>
        BY <1>2
      <3> QED BY <3>1, SequenceEmptyOrAppend
    <2>2. Len(r) = n
      BY <1>2, <2>1
    <2>3. r \in S
      BY <2>2
    <2> QED BY <2>1, <2>3
  <1>4. \A n \in T : n + 1 \in T
    <2>1. \A n \in T : n + 1 \in Nat
      OBVIOUS
    <2>2. \A n \in T : \A s \in Seq(E) : Len(s) = n + 1 => s \in S
      <3> HIDE DEF T
      <3> QED BY <1>2
    <2> QED BY <2>1, <2>2
  <1>3. \A n \in Nat : n \in T
    <2> HIDE DEF T
    <2>1. T \in SUBSET Nat
      BY DEF T
    <2> QED BY <1>1, <1>4, <2>1, NatInduct
  <1> QED BY <1>3

\* From c each value of f is made of the one before.
Folded(f, V, N, c, step) ==
  f \in [0..N -> V] /\ f[0] = c /\ \A n \in 1..N : f[n] = step[n][f[n - 1]]

\* A function that is defined from each number to the next exists.
LEMMA FoldDef ==
  ASSUME NEW V, NEW N \in Nat, NEW c \in V, NEW step \in [1..N -> [V -> V]]
  PROVE  \E f : Folded(f, V, N, c, step)
  <1> DEFINE Good(m, f) == f[0] = c /\ \A n \in 1..m : f[n] = step[n][f[n - 1]]
             S == {m \in Nat : m <= N => \E f \in [0..m -> V] : Good(m, f)}
  <1>1. 0 \in S
    <2>1. [n \in 0..0 |-> c] \in [0..0 -> V] /\ Good(0, [n \in 0..0 |-> c])
      OBVIOUS
    <2> QED BY <2>1
  <1>2. \A m \in S : m + 1 \in S
    <2> SUFFICES ASSUME NEW m \in Nat, m + 1 <= N, \E f \in [0..m -> V] : Good(m, f)
                 PROVE  \E f \in [0..(m + 1) -> V] : Good(m + 1, f)
      <3> HIDE DEF Good
      <3> QED OBVIOUS
    <2>1. PICK f \in [0..m -> V] : Good(m, f)
      OBVIOUS
    <2>2. f[m] \in V /\ m + 1 \in 1..N
      OBVIOUS
    <2>3. step[m + 1][f[m]] \in V
      BY <2>2
    <2> DEFINE g == [n \in 0..(m + 1) |-> IF n = m + 1 THEN step[m + 1][f[m]] ELSE f[n]]
    <2>4. g \in [0..(m + 1) -> V]
      BY <2>3
    <2>5. g[0] = c
      BY <2>1
    <2>6. ASSUME NEW n \in 1..(m + 1) PROVE g[n] = step[n][g[n - 1]]
      <3>1. CASE n = m + 1
        <4>1. n - 1 = m /\ m \in 0..(m + 1) /\ m # m + 1
          BY <3>1
        <4>2. g[n] = step[m + 1][f[m]] /\ g[m] = f[m]
          BY <3>1, <4>1
        <4> QED BY <3>1, <4>1, <4>2
      <3>2. CASE n # m + 1
        <4>1. n \in 1..m /\ n - 1 \in 0..(m + 1) /\ n - 1 # m + 1
          BY <3>2
        <4>2. g[n] = f[n] /\ g[n - 1] = f[n - 1]
          BY <3>2, <4>1
        <4>3. f[n] = step[n][f[n - 1]]
          BY <2>1, <4>1
        <4> QED BY <4>2, <4>3
      <3> QED BY <3>1, <3>2
    <2> QED BY <2>4, <2>5, <2>6
  <1>3. N \in S
    <2> HIDE DEF S
    <2>1. S \in SUBSET Nat
      BY DEF S
    <2> QED BY <1>1, <1>2, <2>1, NatInduct
  <1> QED BY <1>3 DEF Folded

\* Joining parts: the joined parts so far and the next one.
LEMMA ConcatDef ==
  ASSUME NEW E, NEW parts \in Seq(Seq(E))
  PROVE  \E f \in [0..Len(parts) -> Seq(E)] :
           /\ f[0] = <<>> /\ \A n \in 1..Len(parts) : f[n] = f[n - 1] \o parts[n]
           /\ Concat(parts) = f[Len(parts)]
  <1> DEFINE upto[n \in 0..Len(parts)] == IF n = 0 THEN <<>> ELSE upto[n - 1] \o parts[n]
             step == [n \in 1..Len(parts) |-> [s \in Seq(E) |-> s \o parts[n]]]
  <1>1. step \in [1..Len(parts) -> [Seq(E) -> Seq(E)]]
    <2>1. \A n \in 1..Len(parts) : parts[n] \in Seq(E)
      OBVIOUS
    <2>2. \A n \in 1..Len(parts) : \A s \in Seq(E) : s \o parts[n] \in Seq(E)
      BY <2>1, ConcatProperties
    <2> QED BY <2>2
  <1>2. Len(parts) \in Nat /\ <<>> \in Seq(E)
    BY EmptySeq
  <1>3. PICK f \in [0..Len(parts) -> Seq(E)] :
          f[0] = <<>> /\ \A n \in 1..Len(parts) : f[n] = step[n][f[n - 1]]
    <2>1. PICK V, N, c, g : V = Seq(E) /\ N = Len(parts) /\ c = <<>> /\ g = step
      OBVIOUS
    <2>2. g \in [1..N -> [V -> V]] /\ N \in Nat /\ c \in V
      BY <1>1, <1>2, <2>1
    <2>3. \E f : Folded(f, V, N, c, g)
      BY <2>2, FoldDef
    <2> QED BY <2>1, <2>3 DEF Folded
  <1>4. \A n \in 1..Len(parts) : f[n] = f[n - 1] \o parts[n]
    <2> SUFFICES ASSUME NEW n \in 1..Len(parts) PROVE f[n] = f[n - 1] \o parts[n]
      OBVIOUS
    <2>1. n - 1 \in 0..Len(parts)
      OBVIOUS
    <2> QED BY <1>3, <2>1
  <1>5. f = [n \in 0..Len(parts) |-> IF n = 0 THEN <<>> ELSE f[n - 1] \o parts[n]]
    <2>1. f = [n \in 0..Len(parts) |-> f[n]]
      OBVIOUS
    <2>2. \A n \in 0..Len(parts) : f[n] = IF n = 0 THEN <<>> ELSE f[n - 1] \o parts[n]
      <3>1. \A n \in 0..Len(parts) : n # 0 => n \in 1..Len(parts)
        BY <1>2
      <3> QED BY <1>3, <1>4, <3>1
    <2> QED BY <2>1, <2>2
  <1>6. upto = [n \in 0..Len(parts) |-> IF n = 0 THEN <<>> ELSE upto[n - 1] \o parts[n]]
    BY <1>5
  <1>7. Concat(parts) = upto[Len(parts)]
    BY DEF Concat
  <1> HIDE DEF upto
  <1> DEFINE S == {n \in Nat : n <= Len(parts) => upto[n] = f[n]}
  <1>8. 0 \in S
    BY <1>2, <1>3, <1>6
  <1>9. \A n \in S : n + 1 \in S
    <2> SUFFICES ASSUME NEW n \in S, n + 1 <= Len(parts) PROVE upto[n + 1] = f[n + 1]
      OBVIOUS
    <2>1. upto[n] = f[n] /\ n + 1 \in 1..Len(parts) /\ n + 1 # 0 /\ (n + 1) - 1 = n
      BY <1>2
    <2>2. upto[n + 1] = upto[n] \o parts[n + 1]
      <3>1. n + 1 \in 0..Len(parts)
        BY <2>1
      <3>2. upto[n + 1] = IF n + 1 = 0 THEN <<>> ELSE upto[(n + 1) - 1] \o parts[n + 1]
        BY <1>6, <3>1
      <3> QED BY <2>1, <3>2
    <2>3. f[n + 1] = f[n] \o parts[n + 1]
      BY <1>4, <2>1
    <2> QED BY <2>1, <2>2, <2>3
  <1>10. Len(parts) \in S
    <2> HIDE DEF S
    <2>1. S \in SUBSET Nat
      BY DEF S
    <2> QED BY <1>2, <1>8, <1>9, <2>1, NatInduct
  <1>11. Concat(parts) = f[Len(parts)]
    BY <1>2, <1>7, <1>10
  <1> QED BY <1>3, <1>4, <1>11

\* Nothing put together.
LEMMA ConcatStart ==
  ASSUME NEW E
  PROVE  Concat(<<>>) = <<>> /\ <<>> \in Seq(Seq(E)) /\ <<>> \in Seq(E)
  <1>1. <<>> \in Seq(Seq(E)) /\ Len(<<>>) = 0 /\ <<>> \in Seq(E)
    BY EmptySeq
  <1>2. PICK f \in [0..Len(<<>>) -> Seq(E)] : f[0] = <<>> /\ Concat(<<>>) = f[Len(<<>>)]
    BY <1>1, ConcatDef
  <1> QED BY <1>1, <1>2

\* One more part.
LEMMA ConcatAppend ==
  ASSUME NEW E, NEW parts \in Seq(Seq(E)), NEW s \in Seq(E)
  PROVE  Concat(parts) \in Seq(E) /\ Concat(Append(parts, s)) = Concat(parts) \o s
  <1> DEFINE all == Append(parts, s)
             N == Len(parts)
  <1>1. /\ all \in Seq(Seq(E)) /\ Len(all) = N + 1 /\ all[N + 1] = s
        /\ \A i \in 1..N : all[i] = parts[i]
    BY AppendProperties
  <1>2. N \in Nat
    OBVIOUS
  <1> HIDE DEF all
  <1>3. PICK f \in [0..N -> Seq(E)] :
          /\ f[0] = <<>> /\ \A n \in 1..N : f[n] = f[n - 1] \o parts[n]
          /\ Concat(parts) = f[N]
    BY ConcatDef
  <1>4. PICK g \in [0..Len(all) -> Seq(E)] :
          /\ g[0] = <<>> /\ \A n \in 1..Len(all) : g[n] = g[n - 1] \o all[n]
          /\ Concat(all) = g[Len(all)]
    BY <1>1, ConcatDef
  <1> DEFINE S == {n \in Nat : n <= N => g[n] = f[n]}
  <1>5. 0 \in S
    BY <1>3, <1>4
  <1>6. \A n \in S : n + 1 \in S
    <2> SUFFICES ASSUME NEW n \in S, n + 1 <= N PROVE g[n + 1] = f[n + 1]
      OBVIOUS
    <2>1. n + 1 \in 1..N /\ n + 1 \in 1..Len(all) /\ (n + 1) - 1 = n /\ g[n] = f[n]
      BY <1>1, <1>2
    <2>2. f[n + 1] = f[n] \o parts[n + 1]
      BY <1>3, <2>1
    <2>3. g[n + 1] = g[n] \o all[n + 1]
      BY <1>4, <2>1
    <2> QED BY <1>1, <2>1, <2>2, <2>3
  <1>7. N \in S
    <2>1. S \in SUBSET Nat
      OBVIOUS
    <2> HIDE DEF S
    <2> QED BY <1>2, <1>5, <1>6, <2>1, NatInduct
  <1>8. g[N] = f[N]
    BY <1>2, <1>7
  <1>9. N + 1 \in 1..Len(all) /\ (N + 1) - 1 = N
    BY <1>1, <1>2
  <1>10. g[N + 1] = g[N] \o all[N + 1]
    BY <1>4, <1>9
  <1>11. Concat(all) = Concat(parts) \o s
    BY <1>1, <1>3, <1>4, <1>8, <1>10
  <1> QED BY <1>2, <1>3, <1>11 DEF all

\* More parts.
LEMMA ConcatCat ==
  ASSUME NEW E, NEW p \in Seq(Seq(E)), NEW q \in Seq(Seq(E))
  PROVE  Concat(p \o q) = Concat(p) \o Concat(q)
  <1> DEFINE S == {r \in Seq(Seq(E)) : Concat(p \o r) = Concat(p) \o Concat(r)}
  <1>1. <<>> \in S
    <2>1. Concat(p) \in Seq(E)
      BY ConcatAppend, EmptySeq
    <2>2. p \o <<>> = p /\ Concat(p) \o <<>> = Concat(p)
      BY <2>1, ConcatEmptySeq
    <2> QED BY <2>2, ConcatStart
  <1>2. ASSUME NEW r \in S, NEW e \in Seq(E) PROVE Append(r, e) \in S
    <2>1. p \o r \in Seq(Seq(E)) /\ r \in Seq(Seq(E))
      BY ConcatProperties
    <2>2. p \o Append(r, e) = Append(p \o r, e)
      <3>1. <<e>> \in Seq(Seq(E))
        OBVIOUS
      <3>2. Append(r, e) = r \o <<e>> /\ Append(p \o r, e) = (p \o r) \o <<e>>
        BY <2>1, AppendIsConcat
      <3>3. PICK z \in Seq(Seq(E)) : z = <<e>>
        BY <3>1
      <3>4. Grouped(p, r, z)
        BY <2>1, <3>3, Regroup
      <3> QED BY <3>2, <3>3, <3>4 DEF Grouped
    <2>3. Concat(p \o Append(r, e)) = Concat(p \o r) \o e
      BY <2>1, <2>2, ConcatAppend
    <2>4. Concat(p) \in Seq(E) /\ Concat(r) \in Seq(E) /\ Concat(Append(r, e)) = Concat(r) \o e
      BY <2>1, ConcatAppend
    <2>5. Concat(p \o r) = Concat(p) \o Concat(r)
      OBVIOUS
    <2>6. (Concat(p) \o Concat(r)) \o e = Concat(p) \o (Concat(r) \o e)
      <3>1. PICK a \in Seq(E), b \in Seq(E) : a = Concat(p) /\ b = Concat(r)
        BY <2>4
      <3>2. Grouped(a, b, e)
        BY Regroup
      <3> QED BY <3>1, <3>2 DEF Grouped
    <2>7. Append(r, e) \in Seq(Seq(E))
      BY <2>1, AppendProperties
    <2> QED BY <2>3, <2>4, <2>5, <2>6, <2>7
  <1>3. S \in SUBSET Seq(Seq(E))
    OBVIOUS
  <1>4. q \in S
    <2> HIDE DEF S
    <2>1. PICK F : F = Seq(E)
      OBVIOUS
    <2> QED BY <1>1, <1>2, <1>3, <2>1, SeqInduct
  <1> QED BY <1>4

-----------------------------------------------------------------------------
\* Each element of s made into a part, and the parts joined.
Map(h, s) == [i \in DOMAIN s |-> h[s[i]]]
Flat(h, s) == Concat(Map(h, s))

\* Mapping the elements of a sequence.
LEMMA MapInto ==
  ASSUME NEW D, NEW h, NEW s \in Seq(D)
  PROVE  Map(h, s) \in Seq({h[d] : d \in D})
  <1>1. Map(h, s) \in [1..Len(s) -> {h[d] : d \in D}] /\ Len(s) \in Nat
    BY DEF Map
  <1> QED BY <1>1, SeqDef

\* It keeps the length,
LEMMA MapLen ==
  ASSUME NEW D, NEW h, NEW s \in Seq(D)
  PROVE  Len(Map(h, s)) = Len(s)
  <1>1. DOMAIN Map(h, s) = 1..Len(s) /\ Len(s) \in Nat
    BY DEF Map
  <1>2. Map(h, s) \in Seq({h[s[i]] : i \in 1..Len(s)})
    <2>1. Map(h, s) \in [1..Len(s) -> {h[s[i]] : i \in 1..Len(s)}]
      BY DEF Map
    <2> QED BY <1>1, <2>1, SeqDef
  <1> QED BY <1>1, <1>2

\* goes element by element,
LEMMA MapPoint ==
  ASSUME NEW D, NEW h, NEW s \in Seq(D)
  PROVE  \A i \in 1..Len(s) : Map(h, s)[i] = h[s[i]]
  BY DEF Map

\* and part by part.
LEMMA MapCat ==
  ASSUME NEW D, NEW h, NEW s \in Seq(D), NEW t \in Seq(D)
  PROVE  Map(h, s \o t) = Map(h, s) \o Map(h, t)
  <1> DEFINE V == {h[d] : d \in D}
             all == s \o t
             both == Map(h, s) \o Map(h, t)
  <1>1. /\ all \in Seq(D) /\ Len(all) = Len(s) + Len(t)
        /\ \A i \in 1..(Len(s) + Len(t)) : all[i] = IF i <= Len(s) THEN s[i] ELSE t[i - Len(s)]
    BY ConcatProperties
  <1> HIDE DEF V, all, both
  <1>0. all \in Seq(D)
    BY <1>1
  <1>2. /\ Map(h, s) \in Seq(V) /\ Len(Map(h, s)) = Len(s)
        /\ Map(h, t) \in Seq(V) /\ Len(Map(h, t)) = Len(t)
        /\ Map(h, all) \in Seq(V) /\ Len(Map(h, all)) = Len(all)
    <2>1. \A r \in Seq(D) : Map(h, r) \in Seq(V)
      BY MapInto DEF V
    <2> QED BY <1>0, <2>1, MapLen
  <1>3. /\ \A i \in 1..Len(s) : Map(h, s)[i] = h[s[i]]
        /\ \A i \in 1..Len(t) : Map(h, t)[i] = h[t[i]]
        /\ \A i \in 1..Len(all) : Map(h, all)[i] = h[all[i]]
    BY <1>0, MapPoint
  <1>4. /\ both \in Seq(V) /\ Len(both) = Len(s) + Len(t)
        /\ \A i \in 1..(Len(s) + Len(t)) :
             both[i] = IF i <= Len(s) THEN Map(h, s)[i] ELSE Map(h, t)[i - Len(s)]
    <2>1. PICK p \in Seq(V), q \in Seq(V) : p = Map(h, s) /\ q = Map(h, t)
      BY <1>2
    <2>2. Len(p) = Len(s) /\ Len(q) = Len(t) /\ both = p \o q
      BY <1>2, <2>1 DEF both
    <2>3. /\ p \o q \in Seq(V) /\ Len(p \o q) = Len(p) + Len(q)
          /\ \A i \in 1..(Len(p) + Len(q)) : (p \o q)[i] = IF i <= Len(p) THEN p[i] ELSE q[i - Len(p)]
      BY ConcatProperties
    <2> QED BY <2>1, <2>2, <2>3
  <1>6. ASSUME NEW i \in 1..Len(all) PROVE Map(h, all)[i] = both[i]
    <2>1. Len(s) \in Nat /\ Len(t) \in Nat
      OBVIOUS
    <2>2. CASE i <= Len(s)
      <3>1. i \in 1..Len(s)
        BY <2>1, <2>2
      <3> QED BY <1>1, <1>3, <1>4, <2>2, <3>1
    <2>3. CASE ~(i <= Len(s))
      <3>1. i - Len(s) \in 1..Len(t)
        BY <1>1, <2>1, <2>3
      <3> QED BY <1>1, <1>3, <1>4, <2>3, <3>1
    <2> QED BY <2>2, <2>3
  <1>7. Map(h, all) = both
    BY <1>1, <1>2, <1>4, <1>6, SeqEqual
  <1> QED BY <1>7 DEF all, both

\* h makes sequences of elements of E out of those of D.
MakesParts(h, D, E) == \A d \in D : h[d] \in Seq(E)

\* What is made of a sequence is made of its elements, one after the other.
PartByPart(h, D, E) ==
  /\ Flat(h, <<>>) = <<>>
  /\ \A e \in D : Flat(h, <<e>>) = h[e]
  /\ \A s \in Seq(D) : Flat(h, s) \in Seq(E)
  /\ \A s, t \in Seq(D) : Flat(h, s \o t) = Flat(h, s) \o Flat(h, t)
  /\ \A s \in Seq(D) : \A e \in D : Flat(h, Append(s, e)) = Flat(h, s) \o h[e]

\* A sequence made by parts is made part by part.
LEMMA FlatCat ==
  ASSUME NEW D, NEW E, NEW h, MakesParts(h, D, E)
  PROVE  PartByPart(h, D, E)
  <1>1. Flat(h, <<>>) = <<>>
    <2>1. Map(h, <<>>) = <<>>
      BY DEF Map
    <2> QED BY <2>1, ConcatStart DEF Flat
  <1>0. \A s \in Seq(D) : Map(h, s) \in Seq(Seq(E))
    <2>1. PICK V, W : V = {h[d] : d \in D} /\ W = Seq(E)
      OBVIOUS
    <2>2. V \subseteq W
      BY <2>1 DEF MakesParts
    <2>3. \A s \in Seq(D) : Map(h, s) \in Seq(V)
      BY <2>1, MapInto
    <2>4. \A s \in Seq(D) : Map(h, s) \in Seq(W)
      BY <2>2, <2>3, SeqMonotonic
    <2> QED BY <2>1, <2>4
  <1>2. \A s \in Seq(D) : Flat(h, s) \in Seq(E)
    BY <1>0, ConcatAppend, ConcatStart DEF Flat
  <1>3. \A e \in D : Flat(h, <<e>>) = h[e]
    <2> SUFFICES ASSUME NEW e \in D PROVE Flat(h, <<e>>) = h[e]
      OBVIOUS
    <2>1. Map(h, <<e>>) = Append(<<>>, h[e])
      BY DEF Map
    <2>2. <<>> \in Seq(Seq(E)) /\ h[e] \in Seq(E)
      BY ConcatStart DEF MakesParts
    <2>3. Concat(Append(<<>>, h[e])) = <<>> \o h[e]
      BY <2>2, ConcatAppend, ConcatStart
    <2>4. <<>> \o h[e] = h[e]
      BY <2>2, ConcatEmptySeq
    <2> QED BY <2>1, <2>3, <2>4 DEF Flat
  <1>4. \A s, t \in Seq(D) : Flat(h, s \o t) = Flat(h, s) \o Flat(h, t)
    <2> SUFFICES ASSUME NEW s \in Seq(D), NEW t \in Seq(D) PROVE Flat(h, s \o t) = Flat(h, s) \o Flat(h, t)
      OBVIOUS
    <2>1. Map(h, s) \in Seq(Seq(E)) /\ Map(h, t) \in Seq(Seq(E))
      BY <1>0
    <2>2. Map(h, s \o t) = Map(h, s) \o Map(h, t)
      BY MapCat
    <2>3. Concat(Map(h, s) \o Map(h, t)) = Concat(Map(h, s)) \o Concat(Map(h, t))
      BY <2>1, ConcatCat
    <2> QED BY <2>2, <2>3 DEF Flat
  <1>5. \A s \in Seq(D) : \A e \in D : Flat(h, Append(s, e)) = Flat(h, s) \o h[e]
    <2> SUFFICES ASSUME NEW s \in Seq(D), NEW e \in D PROVE Flat(h, Append(s, e)) = Flat(h, s) \o h[e]
      OBVIOUS
    <2>1. Append(s, e) = s \o <<e>> /\ <<e>> \in Seq(D)
      BY AppendIsConcat
    <2> QED BY <1>3, <1>4, <2>1
  <1> QED BY <1>1, <1>2, <1>3, <1>4, <1>5 DEF PartByPart

-----------------------------------------------------------------------------
(* Ink.                                                                    *)

Char == Letters \cup Space
inkOf == [c \in Char |-> IF c \in Space THEN <<>> ELSE <<c>>]

\* What is ink of a character.
LEMMA InkOfType == inkOf \in [Char -> Seq(Char)]
  BY DEF inkOf

LEMMA TextIsSeq == Text = Seq(Char)
  BY DEF Text, Char

\* The ink of a text is made character by character,
LEMMA InkFlat ==
  ASSUME NEW t \in Seq(Char)
  PROVE  Ink(t) = Flat(inkOf, t)
  <1>1. \A i \in DOMAIN t : t[i] \in Char
    OBVIOUS
  <1>2. \A i \in DOMAIN t : inkOf[t[i]] = IF t[i] \in Space THEN <<>> ELSE <<t[i]>>
    BY <1>1 DEF inkOf
  <1>3. Map(inkOf, t) = [i \in DOMAIN t |-> IF t[i] \in Space THEN <<>> ELSE <<t[i]>>]
    BY <1>2 DEF Map
  <1> QED BY <1>3 DEF Ink, Flat

\* Ink of a text is the ink of its parts.
LEMMA InkCat ==
  /\ Ink(<<>>) = <<>>
  /\ \A t \in Text : Ink(t) \in Text
  /\ \A s, t \in Text : Ink(s \o t) = Ink(s) \o Ink(t)
  /\ \A s \in Text : \A c \in Char : Ink(Append(s, c)) = Ink(s) \o (IF c \in Space THEN <<>> ELSE <<c>>)
  <1>1. PICK h : h = inkOf
    OBVIOUS
  <1>2. MakesParts(h, Char, Char)
    BY <1>1, InkOfType DEF MakesParts
  <1>3. /\ Flat(h, <<>>) = <<>>
        /\ \A s \in Seq(Char) : Flat(h, s) \in Seq(Char)
        /\ \A s, t \in Seq(Char) : Flat(h, s \o t) = Flat(h, s) \o Flat(h, t)
        /\ \A s \in Seq(Char) : \A e \in Char : Flat(h, Append(s, e)) = Flat(h, s) \o h[e]
    <2>1. PartByPart(h, Char, Char)
      BY <1>2, FlatCat
    <2> QED BY <2>1 DEF PartByPart
  <1>4. \A s \in Seq(Char) : Ink(s) = Flat(h, s)
    BY <1>1, InkFlat
  <1>5. Ink(<<>>) = <<>>
    BY <1>3, <1>4, EmptySeq
  <1>6. \A s, t \in Seq(Char) : s \o t \in Seq(Char)
    BY ConcatProperties
  <1>7. \A s \in Seq(Char) : \A e \in Char : Append(s, e) \in Seq(Char)
    BY AppendProperties
  <1>8. \A c \in Char : h[c] = IF c \in Space THEN <<>> ELSE <<c>>
    BY <1>1 DEF inkOf
  <1>9. \A s, t \in Seq(Char) : Ink(s \o t) = Ink(s) \o Ink(t)
    BY <1>3, <1>4, <1>6
  <1>10. \A s \in Seq(Char) : \A c \in Char : Ink(Append(s, c)) = Ink(s) \o (IF c \in Space THEN <<>> ELSE <<c>>)
    BY <1>3, <1>4, <1>7, <1>8
  <1>11. \A t \in Seq(Char) : Ink(t) \in Seq(Char)
    BY <1>3, <1>4
  <1> QED BY <1>5, <1>9, <1>10, <1>11, TextIsSeq

\* White space has none.
LEMMA InkBlank ==
  ASSUME NEW t \in Seq(Space)
  PROVE  Ink(t) = <<>> /\ t \in Text
  <1> DEFINE S == {s \in Seq(Space) : Ink(s) = <<>>}
  <1>0. \A s \in Seq(Space) : s \in Text
    <2>1. Space \subseteq Char
      BY DEF Char
    <2> QED BY <2>1, TextIsSeq, SeqMonotonic
  <1>1. <<>> \in S
    BY InkCat, EmptySeq
  <1>2. ASSUME NEW s \in S, NEW c \in Space PROVE Append(s, c) \in S
    <2>1. s \in Text /\ c \in Char /\ Append(s, c) \in Seq(Space)
      BY <1>0, AppendProperties DEF Char
    <2>2. Ink(Append(s, c)) = <<>> \o <<>>
      BY <2>1, InkCat
    <2>3. <<>> \o <<>> = <<>>
      OBVIOUS
    <2> QED BY <2>1, <2>2, <2>3
  <1>3. S \in SUBSET Seq(Space)
    OBVIOUS
  <1>4. t \in S
    <2> HIDE DEF S
    <2> QED BY <1>1, <1>2, <1>3, SeqInduct
  <1> QED BY <1>0, <1>4

inkMap == [s \in Text |-> Ink(s)]

\* Ink of joined parts is the joined ink of the parts.
LEMMA InkConcat ==
  ASSUME NEW parts \in Seq(Text)
  PROVE  Concat(parts) \in Text /\ Ink(Concat(parts)) = Flat(inkMap, parts)
  <1>0. inkMap \in [Text -> Seq(Char)] /\ Text = Seq(Char)
    BY InkCat, TextIsSeq DEF inkMap
  <1>1. PICK h : h = inkMap
    OBVIOUS
  <1>2. MakesParts(h, Text, Char)
    BY <1>0, <1>1 DEF MakesParts
  <1>3. /\ Flat(h, <<>>) = <<>>
        /\ \A s \in Seq(Text) : \A e \in Text : Flat(h, Append(s, e)) = Flat(h, s) \o h[e]
    BY <1>2, FlatCat DEF PartByPart
  <1>4. \A e \in Text : h[e] = Ink(e)
    BY <1>1 DEF inkMap
  <1>5. \A s \in Seq(Text) : Concat(s) \in Text
    BY <1>0, ConcatAppend, ConcatStart
  <1> DEFINE S == {s \in Seq(Text) : Ink(Concat(s)) = Flat(h, s)}
  <1>6. <<>> \in S
    BY <1>3, ConcatStart, InkCat, EmptySeq
  <1>7. ASSUME NEW s \in S, NEW e \in Text PROVE Append(s, e) \in S
    <2>1. s \in Seq(Text) /\ Concat(s) \in Text /\ Append(s, e) \in Seq(Text)
      BY <1>5, AppendProperties
    <2>2. Concat(Append(s, e)) = Concat(s) \o e
      BY <1>0, <2>1, ConcatAppend
    <2>3. Ink(Concat(s) \o e) = Ink(Concat(s)) \o Ink(e)
      BY <2>1, InkCat
    <2> QED BY <1>3, <1>4, <2>1, <2>2, <2>3
  <1>8. S \in SUBSET Seq(Text)
    OBVIOUS
  <1>9. parts \in S
    <2> HIDE DEF S
    <2>1. PICK F : F = Text
      OBVIOUS
    <2> QED BY <1>6, <1>7, <1>8, <2>1, SeqInduct
  <1> QED BY <1>1, <1>5, <1>9

-----------------------------------------------------------------------------
(* Lines and Join.                                                         *)

\* The lines with a newline before each of them.
NL == <<LF>>
lead == [l \in Text |-> NL \o l]
Fore(ls) == Flat(lead, ls)

\* A newline is a text.
LEMMA NewLine ==
  NL \in Text /\ LF \in Char /\ <<>> \in Text
  <1>1. LF \in Char
    BY DEF Char, Space
  <1>2. NL \in Seq(Char) /\ <<>> \in Seq(Char)
    BY <1>1 DEF NL
  <1> QED BY <1>1, <1>2, TextIsSeq

\* Texts put together.
LEMMA TextCat ==
  /\ \A s, t \in Text : s \o t \in Text
  /\ \A s \in Text : \A c \in Char : Append(s, c) \in Text /\ <<c>> \in Text
  /\ \A s \in Text : s \o <<>> = s /\ <<>> \o s = s
  /\ \A s, t, u \in Text : (s \o t) \o u = s \o (t \o u)
  /\ \A s \in Text : \A c \in Char : Append(s, c) = s \o <<c>>
  <1>1. \A s, t \in Seq(Char) : s \o t \in Seq(Char)
    BY ConcatProperties
  <1>2. \A s \in Seq(Char) : \A c \in Char : Append(s, c) \in Seq(Char) /\ <<c>> \in Seq(Char)
    BY AppendProperties
  <1>3. \A s \in Seq(Char) : s \o <<>> = s /\ <<>> \o s = s
    BY ConcatEmptySeq
  <1>4. \A s, t, u \in Seq(Char) : (s \o t) \o u = s \o (t \o u)
    BY ConcatAssociative
  <1>5. \A s \in Seq(Char) : \A c \in Char : Append(s, c) = s \o <<c>>
    BY AppendIsConcat
  <1> QED BY <1>1, <1>2, <1>3, <1>4, <1>5 DEF Text, Char

\* A newline before each line, made line by line.
LEMMA ForeCat ==
  /\ Fore(<<>>) = <<>>
  /\ \A l \in Text : Fore(<<l>>) = NL \o l
  /\ \A ls \in Seq(Text) : Fore(ls) \in Text
  /\ \A a, b \in Seq(Text) : Fore(a \o b) = Fore(a) \o Fore(b)
  /\ \A ls \in Seq(Text) : \A l \in Text : Fore(Append(ls, l)) = Fore(ls) \o (NL \o l)
  <1>1. PICK h : h = lead
    OBVIOUS
  <1>2. \A l \in Text : h[l] = NL \o l
    BY <1>1 DEF lead
  <1>3. MakesParts(h, Text, Char)
    <2>1. \A l \in Text : NL \o l \in Text
      BY NewLine, TextCat
    <2> QED BY <1>2, <2>1, TextIsSeq DEF MakesParts
  <1>4. PartByPart(h, Text, Char)
    BY <1>3, FlatCat
  <1>5. \A ls : Fore(ls) = Flat(h, ls)
    BY <1>1 DEF Fore
  <1>6. /\ Flat(h, <<>>) = <<>>
        /\ \A l \in Text : Flat(h, <<l>>) = h[l]
        /\ \A ls \in Seq(Text) : Flat(h, ls) \in Text
        /\ \A a, b \in Seq(Text) : Flat(h, a \o b) = Flat(h, a) \o Flat(h, b)
        /\ \A ls \in Seq(Text) : \A l \in Text : Flat(h, Append(ls, l)) = Flat(h, ls) \o h[l]
    BY <1>4, TextIsSeq DEF PartByPart
  <1> HIDE DEF Fore, Flat
  <1> QED BY <1>2, <1>5, <1>6, Zenon

\* Joined lines are that without the first newline,
LEMMA JoinIsTail ==
  ASSUME NEW ls \in Seq(Text)
  PROVE  Join(ls) = Tail(Fore(ls))
  <1>1. \A k \in DOMAIN ls : lead[ls[k]] = <<LF>> \o ls[k]
    BY DEF lead, NL
  <1>2. Map(lead, ls) = [k \in DOMAIN ls |-> <<LF>> \o ls[k]]
    BY <1>1 DEF Map
  <1> QED BY <1>2 DEF Join, Fore, Flat

LEMMA TailOfCat ==
  ASSUME NEW t \in Text
  PROVE  Tail(NL \o t) = t
  <1> DEFINE u == NL \o t
  <1>1. t \in Seq(Char) /\ NL \in Seq(Char) /\ Len(NL) = 1
    BY NewLine, TextIsSeq DEF NL
  <1>2. /\ u \in Seq(Char) /\ Len(u) = 1 + Len(t)
        /\ \A i \in 1..(1 + Len(t)) : u[i] = IF i <= 1 THEN NL[i] ELSE t[i - 1]
    <2>1. PICK n \in Seq(Char) : n = NL
      BY <1>1
    <2>2. /\ n \o t \in Seq(Char) /\ Len(n \o t) = Len(n) + Len(t)
          /\ \A i \in 1..(Len(n) + Len(t)) : (n \o t)[i] = IF i <= Len(n) THEN n[i] ELSE t[i - Len(n)]
      BY <1>1, ConcatProperties
    <2> QED BY <1>1, <2>1, <2>2
  <1> HIDE DEF u
  <1>3. Len(t) \in Nat
    BY <1>1
  <1>4. u # <<>>
    BY <1>2, <1>3
  <1>5. /\ Tail(u) \in Seq(Char) /\ Len(Tail(u)) = Len(u) - 1
        /\ \A i \in 1..Len(Tail(u)) : Tail(u)[i] = u[i + 1]
    BY <1>2, <1>4, HeadTailProperties
  <1>6. Len(Tail(u)) = Len(t)
    BY <1>2, <1>3, <1>5
  <1>7. ASSUME NEW i \in 1..Len(t) PROVE Tail(u)[i] = t[i]
    <2>1. i + 1 \in 1..(1 + Len(t)) /\ ~(i + 1 <= 1) /\ (i + 1) - 1 = i
      BY <1>3
    <2> QED BY <1>2, <1>5, <1>6, <2>1
  <1>8. Tail(u) = t
    BY <1>1, <1>5, <1>6, <1>7, SeqEqual
  <1> QED BY <1>8 DEF u

\* Join takes away the newline before the first line.
LEMMA ForeJoin ==
  ASSUME NEW ls \in Seq(Text), ls # <<>>
  PROVE  Join(ls) \in Text /\ Fore(ls) = NL \o Join(ls)
  <1> DEFINE S == {a \in Seq(Text) : a = <<>> \/ \E t \in Text : Fore(a) = NL \o t}
  <1>1. <<>> \in S
    BY EmptySeq
  <1>2. ASSUME NEW a \in S, NEW l \in Text PROVE Append(a, l) \in S
    <2>1. Append(a, l) \in Seq(Text) /\ Fore(Append(a, l)) = Fore(a) \o (NL \o l)
      BY ForeCat, AppendProperties
    <2>2. CASE a = <<>>
      <3>1. Fore(Append(a, l)) = NL \o l
        BY <2>1, <2>2, ForeCat, NewLine, TextCat
      <3> QED BY <2>1, <3>1
    <2>3. CASE a # <<>>
      <3>1. PICK t \in Text : Fore(a) = NL \o t
        BY <2>3
      <3>2. Fore(Append(a, l)) = NL \o (t \o (NL \o l)) /\ t \o (NL \o l) \in Text
        <4>1. NL \in Text /\ NL \o l \in Text /\ t \o (NL \o l) \in Text
          BY NewLine, TextCat
        <4>2. (NL \o t) \o (NL \o l) = NL \o (t \o (NL \o l))
          BY <4>1, TextCat
        <4> QED BY <2>1, <3>1, <4>1, <4>2
      <3> QED BY <2>1, <3>2
    <2> QED BY <2>2, <2>3
  <1>3. S \in SUBSET Seq(Text)
    OBVIOUS
  <1>4. ls \in S
    <2> HIDE DEF S
    <2>1. PICK F : F = Text
      OBVIOUS
    <2> QED BY <1>1, <1>2, <1>3, <2>1, SeqInduct
  <1>5. PICK t \in Text : Fore(ls) = NL \o t
    BY <1>4
  <1>6. Join(ls) = t
    BY <1>5, JoinIsTail, TailOfCat
  <1> QED BY <1>5, <1>6

\* Texts that begin alike and are alike end alike.
LEMMA LeftCancel ==
  ASSUME NEW s \in Text, NEW t \in Text, NEW u \in Text, s \o t = s \o u
  PROVE  t = u
  <1>1. \A a, b, c \in Seq(Char) : a \o b = a \o c => b = c
    BY ConcatSimplifications
  <1> QED BY <1>1, TextIsSeq

\* Joining lines in two halves.
LEMMA JoinCat ==
  /\ \A l \in Text : Join(<<l>>) = l
  /\ \A a, b \in Seq(Text) : a # <<>> => Join(a \o b) = Join(a) \o Fore(b)
  /\ \A a \in Seq(Text) : \A l \in Text :
       a # <<>> => Join(Append(a, l)) = Join(a) \o (NL \o l)
  <1>1. \A l \in Text : Join(<<l>>) = l
    <2> SUFFICES ASSUME NEW l \in Text PROVE Join(<<l>>) = l
      OBVIOUS
    <2>1. <<l>> \in Seq(Text)
      OBVIOUS
    <2>2. Fore(<<l>>) = NL \o l
      BY ForeCat
    <2> QED BY <2>1, <2>2, JoinIsTail, TailOfCat
  <1>2. \A a, b \in Seq(Text) : a # <<>> => Join(a \o b) = Join(a) \o Fore(b)
    <2> SUFFICES ASSUME NEW a \in Seq(Text), NEW b \in Seq(Text), a # <<>>
                 PROVE  Join(a \o b) = Join(a) \o Fore(b)
      OBVIOUS
    <2>1. a \o b \in Seq(Text) /\ a \o b # <<>>
      BY ConcatProperties, ConcatEqualIffEmpty
    <2>2. Join(a \o b) \in Text /\ Fore(a \o b) = NL \o Join(a \o b)
      BY <2>1, ForeJoin
    <2>3. Join(a) \in Text /\ Fore(a) = NL \o Join(a) /\ Fore(b) \in Text
      BY ForeJoin, ForeCat
    <2>4. Fore(a \o b) = Fore(a) \o Fore(b)
      BY ForeCat
    <2>5. NL \o Join(a \o b) = NL \o (Join(a) \o Fore(b)) /\ Join(a) \o Fore(b) \in Text
      <3>1. PICK x \in Text, y \in Text : x = Join(a) /\ y = Fore(b)
        BY <2>3
      <3>2. (NL \o x) \o y = NL \o (x \o y) /\ x \o y \in Text
        BY NewLine, TextCat, Zenon
      <3> QED BY <2>2, <2>3, <2>4, <3>1, <3>2
    <2> QED BY <2>2, <2>5, NewLine, LeftCancel
  <1>3. \A a \in Seq(Text) : \A l \in Text :
          a # <<>> => Join(Append(a, l)) = Join(a) \o (NL \o l)
    <2> SUFFICES ASSUME NEW a \in Seq(Text), NEW l \in Text, a # <<>>
                 PROVE  Join(Append(a, l)) = Join(a) \o (NL \o l)
      OBVIOUS
    <2>1. Append(a, l) = a \o <<l>> /\ <<l>> \in Seq(Text)
      BY AppendIsConcat
    <2>2. Fore(<<l>>) = NL \o l
      BY ForeCat
    <2> QED BY <1>2, <2>1, <2>2
  <1> QED BY <1>1, <1>2, <1>3

\* What the next character makes of the lines so far.
Scanned(v, c) == IF c = LF THEN Append(v, <<>>) ELSE [v EXCEPT ![Len(v)] = Append(@, c)]

\* Reading one character changes the last line or begins one.
LEMMA ScannedType ==
  ASSUME NEW v \in Seq(Text) \ {<<>>}, NEW c \in Char
  PROVE  /\ Scanned(v, c) \in Seq(Text) \ {<<>>}
         /\ c # LF => /\ Len(Scanned(v, c)) = Len(v)
                      /\ Scanned(v, c)[Len(v)] = Append(v[Len(v)], c)
                      /\ \A i \in 1..(Len(v) - 1) : Scanned(v, c)[i] = v[i]
  <1>1. Len(v) \in Nat \ {0} /\ Len(v) \in 1..Len(v) /\ v[Len(v)] \in Text
    BY EmptySeq
  <1>2. Append(v[Len(v)], c) \in Text
    BY <1>1, TextCat
  <1>3. CASE c = LF
    <2>1. Append(v, <<>>) \in Seq(Text) /\ Append(v, <<>>) # <<>>
      BY NewLine, AppendProperties
    <2> QED BY <1>3, <2>1 DEF Scanned
  <1>4. CASE c # LF
    <2>1. PICK w : w = [v EXCEPT ![Len(v)] = Append(v[Len(v)], c)]
      OBVIOUS
    <2>2. w \in Seq(Text) /\ Len(w) = Len(v)
          /\ \A j \in 1..Len(v) : w[j] = IF j = Len(v) THEN Append(v[Len(v)], c) ELSE v[j]
      BY <1>1, <1>2, <2>1, ExceptSeq
    <2>3. Scanned(v, c) = w
      BY <1>4, <2>1 DEF Scanned
    <2>4. w # <<>>
      BY <1>1, <2>2
    <2>5. \A i \in 1..(Len(v) - 1) : i \in 1..Len(v) /\ i # Len(v)
      BY <1>1
    <2> QED BY <1>1, <2>2, <2>3, <2>4, <2>5
  <1> QED BY <1>3, <1>4

\* Lines reads one character after the other.
LEMMA LinesDef ==
  ASSUME NEW t \in Text
  PROVE  \E f \in [0..Len(t) -> Seq(Text) \ {<<>>}] :
           /\ f[0] = << <<>> >> /\ \A n \in 1..Len(t) : f[n] = Scanned(f[n - 1], t[n])
           /\ Lines(t) = f[Len(t)]
  <1> DEFINE upto[n \in 0..Len(t)] ==
               IF n = 0 THEN << <<>> >>
               ELSE LET before == upto[n - 1]
                    IN IF t[n] = LF THEN Append(before, <<>>)
                       ELSE [before EXCEPT ![Len(before)] = Append(@, t[n])]
             W == Seq(Text) \ {<<>>}
             step == [n \in 1..Len(t) |-> [v \in W |-> Scanned(v, t[n])]]
  <1>1. step \in [1..Len(t) -> [W -> W]]
    <2>1. \A n \in 1..Len(t) : t[n] \in Char
      BY TextIsSeq
    <2>2. \A n \in 1..Len(t) : \A v \in W : Scanned(v, t[n]) \in W
      BY <2>1, ScannedType
    <2> HIDE DEF W
    <2> QED BY <2>2
  <1>2. Len(t) \in Nat /\ << <<>> >> \in W
    <2>1. Len(t) \in Nat
      BY TextIsSeq
    <2>2. << <<>> >> \in Seq(Text) /\ << <<>> >> # <<>>
      BY NewLine
    <2> QED BY <2>1, <2>2
  <1>3. PICK f \in [0..Len(t) -> W] :
          f[0] = << <<>> >> /\ \A n \in 1..Len(t) : f[n] = step[n][f[n - 1]]
    <2>1. PICK V, N, c, g : V = W /\ N = Len(t) /\ c = << <<>> >> /\ g = step
      OBVIOUS
    <2>2. g \in [1..N -> [V -> V]] /\ N \in Nat /\ c \in V
      BY <1>1, <1>2, <2>1
    <2>3. \E f : Folded(f, V, N, c, g)
      BY <2>2, FoldDef
    <2> QED BY <2>1, <2>3 DEF Folded
  <1>4. \A n \in 1..Len(t) : f[n] = Scanned(f[n - 1], t[n])
    <2> SUFFICES ASSUME NEW n \in 1..Len(t) PROVE f[n] = Scanned(f[n - 1], t[n])
      OBVIOUS
    <2>1. n - 1 \in 0..Len(t)
      OBVIOUS
    <2> HIDE DEF W
    <2> QED BY <1>3, <2>1
  <1>5. f = [n \in 0..Len(t) |->
               IF n = 0 THEN << <<>> >>
               ELSE LET before == f[n - 1]
                    IN IF t[n] = LF THEN Append(before, <<>>)
                       ELSE [before EXCEPT ![Len(before)] = Append(@, t[n])]]
    <2>1. f = [n \in 0..Len(t) |-> f[n]]
      OBVIOUS
    <2>2. \A n \in 0..Len(t) : f[n] = IF n = 0 THEN << <<>> >> ELSE Scanned(f[n - 1], t[n])
      <3>1. \A n \in 0..Len(t) : n # 0 => n \in 1..Len(t)
        BY <1>2
      <3> QED BY <1>3, <1>4, <3>1
    <2>3. f = [n \in 0..Len(t) |-> IF n = 0 THEN << <<>> >> ELSE Scanned(f[n - 1], t[n])]
      BY <2>1, <2>2
    <2> QED BY <2>3 DEF Scanned
  <1>6. upto = [n \in 0..Len(t) |->
               IF n = 0 THEN << <<>> >>
               ELSE LET before == upto[n - 1]
                    IN IF t[n] = LF THEN Append(before, <<>>)
                       ELSE [before EXCEPT ![Len(before)] = Append(@, t[n])]]
    BY <1>5
  <1>7. Lines(t) = upto[Len(t)]
    BY DEF Lines
  <1> HIDE DEF upto
  <1>12. upto = [n \in 0..Len(t) |-> IF n = 0 THEN << <<>> >> ELSE Scanned(upto[n - 1], t[n])]
    BY <1>6 DEF Scanned
  <1> DEFINE S == {n \in Nat : n <= Len(t) => upto[n] = f[n]}
  <1>8. 0 \in S
    BY <1>2, <1>3, <1>12
  <1>9. \A n \in S : n + 1 \in S
    <2> SUFFICES ASSUME NEW n \in S, n + 1 <= Len(t) PROVE upto[n + 1] = f[n + 1]
      OBVIOUS
    <2>1. upto[n] = f[n] /\ n + 1 \in 1..Len(t) /\ n + 1 # 0 /\ (n + 1) - 1 = n
      BY <1>2
    <2>2. upto[n + 1] = Scanned(upto[n], t[n + 1])
      <3>1. n + 1 \in 0..Len(t)
        BY <2>1
      <3>2. upto[n + 1] = IF n + 1 = 0 THEN << <<>> >> ELSE Scanned(upto[(n + 1) - 1], t[n + 1])
        BY <1>12, <3>1
      <3> QED BY <2>1, <3>2
    <2>3. f[n + 1] = Scanned(f[n], t[n + 1])
      BY <1>4, <2>1
    <2> QED BY <2>1, <2>2, <2>3
  <1>10. Len(t) \in S
    <2> HIDE DEF S
    <2>1. S \in SUBSET Nat
      BY DEF S
    <2> QED BY <1>2, <1>8, <1>9, <2>1, NatInduct
  <1>11. Lines(t) = f[Len(t)]
    BY <1>2, <1>7, <1>10
  <1> QED BY <1>3, <1>4, <1>11

\* Character by character.
LEMMA LinesAppend ==
  /\ Lines(<<>>) = << <<>> >>
  /\ \A t \in Text : Lines(t) \in Seq(Text) /\ Lines(t) # <<>>
  /\ \A t \in Text : \A c \in Char : Lines(Append(t, c)) = Scanned(Lines(t), c)
  <1>1. Lines(<<>>) = << <<>> >>
    <2>1. <<>> \in Text /\ Len(<<>>) = 0
      BY NewLine
    <2>2. PICK f : f[0] = << <<>> >> /\ Lines(<<>>) = f[Len(<<>>)]
      BY <2>1, LinesDef
    <2> QED BY <2>1, <2>2
  <1>2. \A t \in Text : Lines(t) \in Seq(Text) /\ Lines(t) # <<>>
    <2> SUFFICES ASSUME NEW t \in Text PROVE Lines(t) \in Seq(Text) \ {<<>>}
      OBVIOUS
    <2>1. Len(t) \in 0..Len(t)
      BY TextIsSeq
    <2>2. PICK f \in [0..Len(t) -> Seq(Text) \ {<<>>}] : Lines(t) = f[Len(t)]
      BY LinesDef
    <2> QED BY <2>1, <2>2
  <1>3. \A t \in Text : \A c \in Char : Lines(Append(t, c)) = Scanned(Lines(t), c)
    <2> SUFFICES ASSUME NEW t \in Text, NEW c \in Char PROVE Lines(Append(t, c)) = Scanned(Lines(t), c)
      OBVIOUS
    <2> DEFINE u == Append(t, c)
               N == Len(t)
    <2>1. /\ u \in Text /\ Len(u) = N + 1 /\ u[N + 1] = c
          /\ \A i \in 1..N : u[i] = t[i]
      BY TextIsSeq, AppendProperties
    <2>2. N \in Nat
      BY TextIsSeq
    <2> HIDE DEF u
    <2>3. PICK f \in [0..N -> Seq(Text) \ {<<>>}] :
            /\ f[0] = << <<>> >> /\ \A n \in 1..N : f[n] = Scanned(f[n - 1], t[n])
            /\ Lines(t) = f[N]
      BY LinesDef
    <2>4. PICK g \in [0..Len(u) -> Seq(Text) \ {<<>>}] :
            /\ g[0] = << <<>> >> /\ \A n \in 1..Len(u) : g[n] = Scanned(g[n - 1], u[n])
            /\ Lines(u) = g[Len(u)]
      BY <2>1, LinesDef
    <2> DEFINE S == {n \in Nat : n <= N => g[n] = f[n]}
    <2>5. 0 \in S
      BY <2>3, <2>4
    <2>6. \A n \in S : n + 1 \in S
      <3> SUFFICES ASSUME NEW n \in S, n + 1 <= N PROVE g[n + 1] = f[n + 1]
        OBVIOUS
      <3>1. n + 1 \in 1..N /\ n + 1 \in 1..Len(u) /\ (n + 1) - 1 = n /\ g[n] = f[n]
        BY <2>1, <2>2
      <3>2. f[n + 1] = Scanned(f[n], t[n + 1])
        BY <2>3, <3>1
      <3>3. g[n + 1] = Scanned(g[n], u[n + 1])
        BY <2>4, <3>1
      <3> QED BY <2>1, <3>1, <3>2, <3>3
    <2>7. N \in S
      <3>1. S \in SUBSET Nat
        OBVIOUS
      <3> HIDE DEF S
      <3> QED BY <2>2, <2>5, <2>6, <3>1, NatInduct
    <2>8. g[N] = f[N]
      BY <2>2, <2>7
    <2>9. N + 1 \in 1..Len(u) /\ (N + 1) - 1 = N
      BY <2>1, <2>2
    <2>10. g[N + 1] = Scanned(g[N], u[N + 1])
      BY <2>4, <2>9
    <2>11. Lines(u) = Scanned(Lines(t), c)
      BY <2>1, <2>3, <2>4, <2>8, <2>10
    <2> QED BY <2>11 DEF u
  <1> QED BY <1>1, <1>2, <1>3

LEMMA ScannedLast ==
  ASSUME NEW r \in Seq(Text), NEW l \in Text, NEW c \in Char, c # LF
  PROVE  Scanned(Append(r, l), c) = Append(r, Append(l, c))
  <1> DEFINE v == Append(r, l)
             w == Append(r, Append(l, c))
  <1>1. Append(l, c) \in Text
    BY TextCat
  <1>2. /\ v \in Seq(Text) \ {<<>>} /\ Len(v) = Len(r) + 1 /\ v[Len(r) + 1] = l
        /\ \A i \in 1..Len(r) : v[i] = r[i]
    BY AppendProperties
  <1>3. /\ w \in Seq(Text) /\ Len(w) = Len(r) + 1 /\ w[Len(r) + 1] = Append(l, c)
        /\ \A i \in 1..Len(r) : w[i] = r[i]
    BY <1>1, AppendProperties
  <1> HIDE DEF v, w
  <1>4. /\ Scanned(v, c) \in Seq(Text) /\ Len(Scanned(v, c)) = Len(v)
        /\ Scanned(v, c)[Len(v)] = Append(v[Len(v)], c)
        /\ \A i \in 1..(Len(v) - 1) : Scanned(v, c)[i] = v[i]
    BY <1>2, ScannedType
  <1>5. Len(r) \in Nat
    OBVIOUS
  <1>6. ASSUME NEW i \in 1..(Len(r) + 1) PROVE Scanned(v, c)[i] = w[i]
    <2>1. CASE i = Len(r) + 1
      BY <1>2, <1>3, <1>4, <2>1
    <2>2. CASE i # Len(r) + 1
      <3>1. i \in 1..Len(r) /\ i \in 1..(Len(v) - 1)
        BY <1>2, <1>5, <2>2
      <3> QED BY <1>2, <1>3, <1>4, <3>1
    <2> QED BY <2>1, <2>2
  <1>7. Scanned(v, c) = w
    BY <1>2, <1>3, <1>4, <1>6, SeqEqual
  <1> QED BY <1>7 DEF v, w

\* Texts of one line.
Unbroken == Seq(Char \ {LF})

\* Texts without a newline.
LEMMA UnbrokenText ==
  /\ Unbroken \subseteq Text /\ <<>> \in Unbroken
  /\ Seq(Unbroken) \subseteq Seq(Text)
  /\ \A l \in Unbroken : \A c \in Char \ {LF} : Append(l, c) \in Unbroken
  <1>1. \A l \in Unbroken : l \in Text
    <2>1. Char \ {LF} \subseteq Char
      OBVIOUS
    <2> QED BY <2>1, TextIsSeq, SeqMonotonic DEF Unbroken
  <1>2. \A ls \in Seq(Unbroken) : ls \in Seq(Text)
    <2>1. PICK U, T : U = Unbroken /\ T = Text
      OBVIOUS
    <2>2. U \subseteq T
      BY <1>1, <2>1
    <2>3. \A ls \in Seq(U) : ls \in Seq(T)
      BY <2>2, SeqMonotonic
    <2> QED BY <2>1, <2>3
  <1>3. <<>> \in Unbroken
    BY EmptySeq DEF Unbroken
  <1>4. \A l \in Unbroken : \A c \in Char \ {LF} : Append(l, c) \in Unbroken
    BY AppendProperties DEF Unbroken
  <1> QED BY <1>1, <1>2, <1>3, <1>4

\* One more character on the last line.
LEMMA JoinExtend ==
  ASSUME NEW r \in Seq(Text), NEW l \in Text, NEW c \in Char
  PROVE  Join(Append(r, Append(l, c))) = Append(Join(Append(r, l)), c)
  <1>1. Append(l, c) \in Text /\ NL \in Text /\ <<c>> \in Text /\ Append(l, c) = l \o <<c>>
    BY TextCat, NewLine
  <1>2. CASE r = <<>>
    <2>1. Append(r, Append(l, c)) = <<Append(l, c)>> /\ Append(r, l) = <<l>>
      BY <1>2
    <2> QED BY <1>1, <2>1, JoinCat
  <1>3. CASE r # <<>>
    <2>1. Join(Append(r, Append(l, c))) = Join(r) \o (NL \o Append(l, c))
      BY <1>1, <1>3, JoinCat
    <2>2. Join(Append(r, l)) = Join(r) \o (NL \o l) /\ Join(r) \in Text
      BY <1>1, <1>3, JoinCat, ForeJoin
    <2>3. NL \o l \in Text /\ Join(r) \o (NL \o l) \in Text
      BY <1>1, <2>2, TextCat
    <2>4. NL \o (l \o <<c>>) = (NL \o l) \o <<c>>
      BY <1>1, TextCat
    <2>5. Join(r) \o ((NL \o l) \o <<c>>) = (Join(r) \o (NL \o l)) \o <<c>>
      <3>1. PICK x \in Text, y \in Text, z \in Text : x = Join(r) /\ y = NL \o l /\ z = <<c>>
        BY <1>1, <2>2, <2>3
      <3>2. (x \o y) \o z = x \o (y \o z)
        BY TextCat, Zenon
      <3> QED BY <3>1, <3>2
    <2>6. Append(Join(r) \o (NL \o l), c) = (Join(r) \o (NL \o l)) \o <<c>>
      BY <2>3, TextCat
    <2> QED BY <1>1, <2>1, <2>2, <2>4, <2>5, <2>6
  <1> QED BY <1>2, <1>3

\* Lines have no newline, and joined they are the text again.
LEMMA JoinOfLines ==
  ASSUME NEW t \in Text
  PROVE  Lines(t) \in Seq(Unbroken) /\ Join(Lines(t)) = t
  <1> DEFINE S == {s \in Text : Lines(s) \in Seq(Unbroken) /\ Join(Lines(s)) = s}
  <1>1. <<>> \in S
    <2>1. << <<>> >> \in Seq(Unbroken)
      BY UnbrokenText
    <2> QED BY <2>1, NewLine, LinesAppend, JoinCat
  <1>2. ASSUME NEW s \in S, NEW c \in Char PROVE Append(s, c) \in S
    <2>1. /\ s \in Text /\ Append(s, c) \in Text /\ Lines(s) \in Seq(Unbroken) /\ Join(Lines(s)) = s
          /\ Lines(s) \in Seq(Text) /\ Lines(s) # <<>>
          /\ Lines(Append(s, c)) = Scanned(Lines(s), c)
      BY TextCat, LinesAppend
    <2>2. CASE c = LF
      <3>1. Scanned(Lines(s), c) = Append(Lines(s), <<>>)
        BY <2>2 DEF Scanned
      <3>2. Append(Lines(s), <<>>) \in Seq(Unbroken)
        BY <2>1, UnbrokenText, AppendProperties
      <3>3. Join(Append(Lines(s), <<>>)) = s \o (NL \o <<>>)
        BY <2>1, NewLine, JoinCat
      <3>4. NL \o <<>> = NL /\ Append(s, c) = s \o NL
        BY <2>1, <2>2, NewLine, TextCat DEF NL
      <3> QED BY <2>1, <3>1, <3>2, <3>3, <3>4
    <2>3. CASE c # LF
      <3>1. PICK r \in Seq(Unbroken), l \in Unbroken : Lines(s) = Append(r, l)
        <4>1. PICK U : U = Unbroken
          OBVIOUS
        <4>2. Lines(s) \in Seq(U) /\ Lines(s) # <<>>
          BY <2>1, <4>1
        <4>3. \E r \in Seq(U), l \in U : Lines(s) = Append(r, l)
          BY <4>2, SequenceEmptyOrAppend
        <4> QED BY <4>1, <4>3
      <3>2. r \in Seq(Text) /\ l \in Text /\ Append(l, c) \in Unbroken
        BY <2>3, UnbrokenText
      <3>3. Scanned(Lines(s), c) = Append(r, Append(l, c))
        BY <2>3, <3>1, <3>2, ScannedLast
      <3>4. Append(r, Append(l, c)) \in Seq(Unbroken)
        BY <3>2, AppendProperties
      <3>5. Join(Append(r, Append(l, c))) = Append(s, c)
        BY <2>1, <3>1, <3>2, JoinExtend
      <3> QED BY <2>1, <3>3, <3>4, <3>5
    <2> QED BY <2>2, <2>3
  <1>3. S \in SUBSET Seq(Char)
    BY TextIsSeq
  <1>4. t \in S
    <2> HIDE DEF S
    <2> QED BY <1>1, <1>2, <1>3, SeqInduct, TextIsSeq
  <1> QED BY <1>4

\* Behind a newline a line of its own.
LEMMA LinesOne ==
  ASSUME NEW s \in Text, NEW u \in Unbroken
  PROVE  Lines(u) = <<u>> /\ Lines(s \o (NL \o u)) = Append(Lines(s), u)
  <1> DEFINE S == {x \in Unbroken : Lines(x) = <<x>> /\ Lines(s \o (NL \o x)) = Append(Lines(s), x)}
  <1>0. NL \in Text /\ LF \in Char
    BY NewLine
  <1>1. <<>> \in S
    <2>1. NL \o <<>> = NL /\ s \o NL = Append(s, LF)
      BY <1>0, TextCat DEF NL
    <2>2. Lines(Append(s, LF)) = Append(Lines(s), <<>>)
      BY <1>0, LinesAppend DEF Scanned
    <2> QED BY <2>1, <2>2, LinesAppend, UnbrokenText
  <1>2. ASSUME NEW x \in S, NEW c \in Char \ {LF} PROVE Append(x, c) \in S
    <2>1. x \in Text /\ Append(x, c) \in Unbroken /\ Append(x, c) \in Text /\ c \in Char /\ c # LF
      BY UnbrokenText
    <2>2. Lines(Append(x, c)) = <<Append(x, c)>>
      <3>1. Lines(Append(x, c)) = Scanned(<<x>>, c)
        BY <2>1, LinesAppend
      <3>2. <<x>> = Append(<<>>, x) /\ <<>> \in Seq(Text) /\ Append(<<>>, Append(x, c)) = <<Append(x, c)>>
        OBVIOUS
      <3>3. Scanned(Append(<<>>, x), c) = Append(<<>>, Append(x, c))
        BY <2>1, <3>2, ScannedLast
      <3> QED BY <3>1, <3>2, <3>3
    <2>3. s \o (NL \o Append(x, c)) = Append(s \o (NL \o x), c) /\ s \o (NL \o x) \in Text
      <3>1. NL \o x \in Text /\ s \o (NL \o x) \in Text /\ <<c>> \in Text
        BY <1>0, <2>1, TextCat
      <3>2. Append(x, c) = x \o <<c>> /\ Append(s \o (NL \o x), c) = (s \o (NL \o x)) \o <<c>>
        BY <2>1, <3>1, TextCat
      <3>3. (s \o (NL \o x)) \o <<c>> = s \o ((NL \o x) \o <<c>>)
        BY <3>1, TextCat
      <3>4. (NL \o x) \o <<c>> = NL \o (x \o <<c>>)
        <4>1. PICK y \in Text : y = <<c>>
          BY <3>1
        <4>2. Grouped(NL, x, y)
          <5>1. NL \in Seq(Char) /\ x \in Seq(Char) /\ y \in Seq(Char)
            BY <1>0, <2>1, TextIsSeq
          <5> QED BY <5>1, Regroup
        <4> QED BY <4>1, <4>2 DEF Grouped
      <3> QED BY <3>1, <3>2, <3>3, <3>4
    <2>4. Lines(Append(s \o (NL \o x), c)) = Scanned(Append(Lines(s), x), c)
      BY <2>1, <2>3, LinesAppend
    <2>5. Scanned(Append(Lines(s), x), c) = Append(Lines(s), Append(x, c))
      BY <2>1, LinesAppend, ScannedLast
    <2> QED BY <2>1, <2>2, <2>3, <2>4, <2>5
  <1>3. S \in SUBSET Seq(Char \ {LF})
    BY DEF Unbroken
  <1>4. u \in S
    <2>1. PICK E : E = Char \ {LF}
      OBVIOUS
    <2> HIDE DEF S
    <2>2. S \in SUBSET Seq(E) /\ \A x \in S : \A c \in E : Append(x, c) \in S
      BY <1>2, <1>3, <2>1
    <2>3. \A x \in Seq(E) : x \in S
      BY <1>1, <2>2, SeqInduct
    <2> QED BY <2>1, <2>3 DEF Unbroken
  <1> QED BY <1>4

\* The lines of joined lines are these lines.
LEMMA LinesOfJoin ==
  ASSUME NEW ls \in Seq(Unbroken), ls # <<>>
  PROVE  Lines(Join(ls)) = ls
  <1> DEFINE S == {a \in Seq(Unbroken) : a = <<>> \/ Lines(Join(a)) = a}
  <1>1. <<>> \in S
    BY EmptySeq
  <1>2. ASSUME NEW a \in S, NEW u \in Unbroken PROVE Append(a, u) \in S
    <2>1. Append(a, u) \in Seq(Unbroken) /\ a \in Seq(Text) /\ u \in Text
      BY AppendProperties, UnbrokenText
    <2>2. CASE a = <<>>
      <3>1. Append(a, u) = <<u>>
        BY <2>2
      <3>2. Join(<<u>>) = u /\ Lines(u) = <<u>>
        BY <2>1, JoinCat, LinesOne, NewLine
      <3> QED BY <2>1, <3>1, <3>2
    <2>3. CASE a # <<>>
      <3>1. Join(Append(a, u)) = Join(a) \o (NL \o u) /\ Join(a) \in Text
        BY <2>1, <2>3, JoinCat, ForeJoin
      <3>2. Lines(Join(a)) = a
        BY <2>3
      <3> QED BY <2>1, <3>1, <3>2, LinesOne
    <2> QED BY <2>2, <2>3
  <1>3. S \in SUBSET Seq(Unbroken)
    OBVIOUS
  <1>4. ls \in S
    <2> HIDE DEF S
    <2>1. PICK F : F = Unbroken
      OBVIOUS
    <2> QED BY <1>1, <1>2, <1>3, <2>1, SeqInduct
  <1> QED BY <1>4

-----------------------------------------------------------------------------
(* Places side by side.                                                    *)

\* No element of N stands in the width behind another one of S.
Free(i, S, N, w) == \A j \in S : i - w < j /\ j < i => j \notin N

\* The search takes a place if none it took reaches into it.
LEMMA Taken ==
  ASSUME NEW m \in Nat, NEW S \in SUBSET (0..m), NEW w \in Nat
  PROVE  /\ NonOverlapping(S, w) \subseteq S
         /\ \A i \in S : i \in NonOverlapping(S, w) <=> Free(i, S, NonOverlapping(S, w), w)
  <1> DEFINE Good(n, N) == \A i \in S : i <= n => (i \in N <=> Free(i, S, N, w))
             T == {n \in Nat : \E N \in SUBSET S : Good(n, N)}
  <1>0. S \subseteq Nat
    OBVIOUS
  <1>1. 0 \in T
    <2>1. Good(0, S)
      <3> SUFFICES ASSUME NEW i \in S, i <= 0 PROVE Free(i, S, S, w)
        OBVIOUS
      <3>1. i = 0 /\ \A j \in S : ~(j < i)
        BY <1>0
      <3> QED BY <3>1 DEF Free
    <2> QED BY <2>1
  <1>2. ASSUME NEW n \in T PROVE n + 1 \in T
    <2>1. PICK N \in SUBSET S : Good(n, N)
      OBVIOUS
    <2> DEFINE M == {i \in S : (i <= n /\ i \in N) \/ (i = n + 1 /\ Free(i, S, N, w))}
    <2>2. n \in Nat /\ n + 1 \in Nat
      OBVIOUS
    <2>3. ASSUME NEW i \in S, i <= n + 1 PROVE Free(i, S, M, w) <=> Free(i, S, N, w)
      <3>1. \A j \in S : j < i => (j \in M <=> j \in N)
        BY <1>0, <2>2, <2>3
      <3> HIDE DEF M
      <3> QED BY <3>1 DEF Free
    <2>4. Good(n + 1, M)
      <3> SUFFICES ASSUME NEW i \in S, i <= n + 1 PROVE i \in M <=> Free(i, S, M, w)
        OBVIOUS
      <3>1. CASE i <= n
        <4>1. i \in M <=> i \in N
          BY <1>0, <2>2, <3>1
        <4>2. i \in N <=> Free(i, S, N, w)
          BY <2>1, <3>1
        <4> HIDE DEF M
        <4> QED BY <2>3, <4>1, <4>2
      <3>2. CASE i = n + 1
        <4>1. i \in M <=> Free(i, S, N, w)
          BY <2>2, <3>2
        <4> HIDE DEF M
        <4> QED BY <2>3, <4>1
      <3> QED BY <1>0, <2>2, <3>1, <3>2
    <2>5. M \in SUBSET S
      OBVIOUS
    <2> HIDE DEF M
    <2> QED BY <2>2, <2>4, <2>5
  <1>3. m \in T
    <2>1. T \in SUBSET Nat
      OBVIOUS
    <2> HIDE DEF T
    <2> QED BY <1>1, <1>2, <2>1, NatInduct
  <1>4. PICK N \in SUBSET S : \A i \in S : i \in N <=> Free(i, S, N, w)
    BY <1>3
  <1> DEFINE taken[i \in S] == \A j \in S : i - w < j /\ j < i => ~taken[j]
  <1>5. \E f : f = [i \in S |-> \A j \in S : i - w < j /\ j < i => ~f[j]]
    <2>1. PICK f : f = [k \in S |-> k \in N]
      OBVIOUS
    <2>2. \A k \in S : f[k] = (k \in N)
      BY <2>1
    <2>3. ASSUME NEW i \in S
          PROVE  (i \in N) = (\A j \in S : i - w < j /\ j < i => ~f[j])
      <3>1. (\A j \in S : i - w < j /\ j < i => ~f[j]) <=> Free(i, S, N, w)
        BY <2>2, Zenon DEF Free
      <3>2. i \in N <=> Free(i, S, N, w)
        BY <1>4
      <3>3. i \in N <=> \A j \in S : i - w < j /\ j < i => ~f[j]
        BY <3>1, <3>2
      <3>4. CASE i \in N
        <4>1. (i \in N) = TRUE
          BY <3>4
        <4>2. (\A j \in S : i - w < j /\ j < i => ~f[j]) = TRUE
          BY <3>3, <3>4
        <4> QED BY <4>1, <4>2
      <3>5. CASE i \notin N
        <4>1. (i \in N) = FALSE
          BY <3>5
        <4>2. (\A j \in S : i - w < j /\ j < i => ~f[j]) = FALSE
          BY <3>3, <3>5
        <4> QED BY <4>1, <4>2
      <3> QED BY <3>4, <3>5
    <2>4. f = [i \in S |-> \A j \in S : i - w < j /\ j < i => ~f[j]]
      BY <2>1, <2>3, Zenon
    <2> QED BY <2>4
  <1>6. taken = [i \in S |-> \A j \in S : i - w < j /\ j < i => ~taken[j]]
    BY <1>5
  <1>7. NonOverlapping(S, w) = {i \in S : taken[i]}
    BY DEF NonOverlapping
  <1> HIDE DEF taken
  <1>8. \A i \in S : taken[i] <=> \A j \in S : i - w < j /\ j < i => ~taken[j]
    BY <1>6
  <1>9. \A i \in S : i \in NonOverlapping(S, w) <=> taken[i]
    BY <1>7
  <1> QED BY <1>7, <1>8, <1>9 DEF Free

Apart(P, w) == \A i, j \in P : i < j => i + w <= j

\* Taken places are side by side, and there is one if there is a place.
LEMMA TakenApart ==
  ASSUME NEW m \in Nat, NEW S \in SUBSET (0..m), NEW w \in Nat
  PROVE  /\ NonOverlapping(S, w) \subseteq S
         /\ Apart(NonOverlapping(S, w), w)
         /\ S # {} => NonOverlapping(S, w) # {}
  <1> DEFINE N == NonOverlapping(S, w)
  <1>1. N \subseteq S /\ \A i \in S : i \in N <=> Free(i, S, N, w)
    BY Taken
  <1> HIDE DEF N
  <1>2. Apart(N, w)
    <2> SUFFICES ASSUME NEW i \in N, NEW j \in N, i < j PROVE i + w <= j
      BY DEF Apart
    <2>1. i \in S /\ j \in S /\ i \in Int /\ j \in Int
      BY <1>1
    <2>2. ~(j - w < i)
      BY <1>1, <2>1 DEF Free
    <2> QED BY <2>1, <2>2
  <1>3. S # {} => N # {}
    <2> SUFFICES ASSUME S # {} PROVE N # {}
      OBVIOUS
    <2>0. S \in SUBSET Nat
      OBVIOUS
    <2>1. PICK x \in S : \A i \in S : x <= i
      BY <2>0, LeastOffset
    <2>2. \A j \in S : ~(j < x)
      BY <2>0, <2>1
    <2>3. Free(x, S, N, w)
      BY <2>2 DEF Free
    <2> QED BY <1>1, <2>3
  <1> QED BY <1>1, <1>2, <1>3 DEF N

\* No choice of places side by side is larger.
LEMMA TakenIsMost ==
  ASSUME NEW m \in Nat, NEW S \in SUBSET (0..m), NEW w \in Nat \ {0},
         NEW P \in SUBSET S, Apart(P, w)
  PROVE  /\ IsFiniteSet(P) /\ IsFiniteSet(NonOverlapping(S, w))
         /\ Cardinality(P) <= Cardinality(NonOverlapping(S, w))
  <1> DEFINE N == NonOverlapping(S, w)
             g == [q \in P |-> CHOOSE j \in N : q - w < j /\ j <= q]
  <1>1. N \subseteq S /\ \A i \in S : i \in N <=> Free(i, S, N, w)
    BY Taken
  <1> HIDE DEF N
  <1>2. \A q \in P : \E j \in N : q - w < j /\ j <= q
    <2> SUFFICES ASSUME NEW q \in P PROVE \E j \in N : q - w < j /\ j <= q
      OBVIOUS
    <2>1. q \in S /\ q \in Int
      OBVIOUS
    <2>2. CASE q \in N
      <3>1. q - w < q /\ q <= q
        BY <2>1
      <3> QED BY <2>2, <3>1
    <2>3. CASE q \notin N
      <3>1. PICK j \in S : q - w < j /\ j < q /\ j \in N
        BY <1>1, <2>1, <2>3 DEF Free
      <3>2. j <= q
        BY <2>1, <3>1
      <3> QED BY <3>1, <3>2
    <2> QED BY <2>2, <2>3
  <1>3. \A q \in P : g[q] \in N /\ q - w < g[q] /\ g[q] <= q
    BY <1>2
  <1> HIDE DEF g
  <1>4. g \in [P -> N]
    <2>1. g = [q \in P |-> g[q]]
      BY DEF g
    <2> QED BY <1>3, <2>1
  <1>5. \A p, q \in P : p < q => g[p] # g[q]
    <2> SUFFICES ASSUME NEW p \in P, NEW q \in P, p < q, g[p] = g[q] PROVE FALSE
      OBVIOUS
    <2>1. p + w <= q
      BY DEF Apart
    <2>2. PICK j \in Int : j = g[p]
      <3>1. g[p] \in S
        BY <1>1, <1>3
      <3>2. \A i \in S : i \in Int
        OBVIOUS
      <3>3. g[p] \in Int
        BY <3>1, <3>2
      <3> QED BY <3>3, Zenon
    <2>3. j <= p /\ q - w < j /\ p \in Int /\ q \in Int
      BY <1>3, <2>2
    <2> QED BY <2>1, <2>3
  <1>6. \A p, q \in P : p # q => g[p] # g[q]
    <2>1. \A p, q \in P : p # q => p < q \/ q < p
      OBVIOUS
    <2> QED BY <1>5, <2>1
  <1>7. g \in Injection(P, N)
    BY <1>4, <1>6 DEF Injection, IsInjective
  <1>8. IsFiniteSet(N)
    <2>1. IsFiniteSet(0..m)
      BY FS_Interval
    <2> QED BY <1>1, <2>1, FS_Subset
  <1>9. IsFiniteSet(P) /\ Cardinality(P) <= Cardinality(N)
    BY <1>7, <1>8, FS_Injection
  <1> QED BY <1>8, <1>9 DEF N

\* How many places there are side by side.
LEMMA MostIsTaken ==
  ASSUME NEW m \in Nat, NEW S \in SUBSET (0..m), NEW w \in Nat \ {0}
  PROVE  Max({Cardinality(P) : P \in {Q \in SUBSET S : \A i, j \in Q : i < j => i + w <= j}})
           = Cardinality(NonOverlapping(S, w))
  <1> DEFINE N == NonOverlapping(S, w)
             All == {Q \in SUBSET S : \A i, j \in Q : i < j => i + w <= j}
             C == {Cardinality(P) : P \in All}
  <1>1. N \in All
    BY TakenApart DEF Apart
  <1>2. \A P \in All : Cardinality(P) <= Cardinality(N) /\ IsFiniteSet(P)
    BY TakenIsMost DEF Apart
  <1>3. \A P \in All : Cardinality(P) \in Nat
    BY <1>2, FS_CardinalityType
  <1> HIDE DEF N, All
  <1>4. Cardinality(N) \in C /\ C \subseteq Nat /\ \A c \in C : c <= Cardinality(N)
    BY <1>1, <1>2, <1>3
  <1> HIDE DEF C
  <1>5. \A c \in C : Cardinality(N) >= c
    BY <1>4
  <1>6. Max(C) \in C /\ \A c \in C : Max(C) >= c
    BY <1>4, <1>5 DEF Max
  <1>7. Max(C) = Cardinality(N)
    <2>1. Max(C) \in Nat /\ Cardinality(N) \in Nat
      BY <1>4, <1>6
    <2>2. Max(C) <= Cardinality(N) /\ Max(C) >= Cardinality(N)
      BY <1>4, <1>6
    <2> QED BY <2>1, <2>2
  <1> QED BY <1>7 DEF N, All, C

-----------------------------------------------------------------------------
(* White space around a text.                                              *)

InkSet(t) == {i \in DOMAIN t : t[i] \notin Space}

\* The first and the last ink of a text.
LEMMA InkSetEnds ==
  ASSUME NEW t \in Text, InkSet(t) # {}
  PROVE  /\ Min(InkSet(t)) \in InkSet(t) /\ Max(InkSet(t)) \in InkSet(t)
         /\ \A i \in InkSet(t) : Min(InkSet(t)) <= i /\ i <= Max(InkSet(t))
  <1>1. Len(t) \in Nat /\ DOMAIN t = 1..Len(t)
    BY TextIsSeq
  <1>2. InkSet(t) \in SUBSET (0..Len(t)) /\ InkSet(t) \in SUBSET Nat
    BY <1>1 DEF InkSet
  <1> QED BY <1>1, <1>2, LeastOffset, GreatestOffset

\* One blank more behind it changes nothing.
LEMMA TrimAppend ==
  ASSUME NEW t \in Text, NEW c \in Space
  PROVE  TrimSpace(Append(t, c)) = TrimSpace(t)
  <1> DEFINE u == Append(t, c)
  <1>0. c \in Char
    BY DEF Char
  <1>1. /\ u \in Text /\ Len(u) = Len(t) + 1 /\ u[Len(t) + 1] = c
        /\ \A i \in 1..Len(t) : u[i] = t[i]
    BY <1>0, TextIsSeq, AppendProperties
  <1>2. Len(t) \in Nat /\ DOMAIN t = 1..Len(t) /\ DOMAIN u = 1..(Len(t) + 1)
    BY <1>1, TextIsSeq
  <1> HIDE DEF u
  <1>3. InkSet(u) = InkSet(t)
    <2>1. \A i \in DOMAIN u : i \in DOMAIN t \/ i = Len(t) + 1
      BY <1>2
    <2>2. \A i \in DOMAIN t : i \in DOMAIN u /\ u[i] = t[i]
      BY <1>1, <1>2
    <2> QED BY <1>1, <2>1, <2>2 DEF InkSet
  <1>4. CASE InkSet(t) = {}
    BY <1>3, <1>4 DEF TrimSpace, InkSet, u
  <1>5. CASE InkSet(t) # {}
    <2>1. PICK a, b : a = Min(InkSet(t)) /\ b = Max(InkSet(t))
      OBVIOUS
    <2>2. a \in DOMAIN t /\ b \in DOMAIN t
      BY <1>5, <2>1, InkSetEnds DEF InkSet
    <2>3. TrimSpace(u) = SubSeq(u, a, b) /\ TrimSpace(t) = SubSeq(t, a, b)
      BY <1>3, <1>5, <2>1 DEF TrimSpace, InkSet
    <2>4. a \in Int /\ b \in Int /\ 1 <= a /\ b <= Len(t)
      BY <1>2, <2>2
    <2>5. \A i \in a..b : i \in 1..Len(t) /\ u[i] = t[i] /\ t[i] \in Char
      BY <1>1, <1>2, <2>4, TextIsSeq
    <2>6. /\ SubSeq(t, a, b) \in Seq(Char) /\ Len(SubSeq(t, a, b)) = IF a <= b THEN b - a + 1 ELSE 0
          /\ \A i \in 1..(b - a + 1) : SubSeq(t, a, b)[i] = t[a + i - 1]
      BY <2>4, <2>5, SubSeqProperties
    <2>7. /\ SubSeq(u, a, b) \in Seq(Char) /\ Len(SubSeq(u, a, b)) = IF a <= b THEN b - a + 1 ELSE 0
          /\ \A i \in 1..(b - a + 1) : SubSeq(u, a, b)[i] = u[a + i - 1]
      BY <2>4, <2>5, SubSeqProperties
    <2>8. ASSUME NEW i \in 1..Len(SubSeq(t, a, b)) PROVE SubSeq(t, a, b)[i] = SubSeq(u, a, b)[i]
      <3>1. a <= b /\ i \in 1..(b - a + 1)
        BY <2>4, <2>6
      <3>2. a + i - 1 \in a..b
        BY <2>4, <3>1
      <3> QED BY <2>5, <2>6, <2>7, <3>1, <3>2
    <2>9. SubSeq(t, a, b) = SubSeq(u, a, b)
      BY <2>6, <2>7, <2>8, SeqEqual
    <2> QED BY <2>3, <2>9 DEF u
  <1> QED BY <1>4, <1>5

-----------------------------------------------------------------------------
(* Line endings.                                                           *)

NormParts(t) ==
  [i \in DOMAIN t |-> IF t[i] = CR /\ i < Len(t) /\ t[i + 1] = LF THEN <<>> ELSE <<t[i]>>]

\* Each character gives one part.
LEMMA NormPartsType ==
  ASSUME NEW t \in Text
  PROVE  /\ NormalizeLineEndings(t) = Concat(NormParts(t))
         /\ NormParts(t) \in Seq(Text) /\ Len(NormParts(t)) = Len(t)
         /\ NormParts(t) \in Seq(Seq(Char))
  <1>1. Len(t) \in Nat /\ DOMAIN t = 1..Len(t) /\ \A i \in DOMAIN t : t[i] \in Char
    BY TextIsSeq
  <1>2. \A i \in DOMAIN t : <<t[i]>> \in Text /\ <<>> \in Text
    BY <1>1, TextCat, NewLine
  <1>3. NormParts(t) \in [1..Len(t) -> Text]
    BY <1>1, <1>2 DEF NormParts
  <1>4. NormParts(t) \in Seq(Text)
    BY <1>1, <1>3, SeqDef
  <1>5. Len(NormParts(t)) = Len(t)
    BY <1>1, <1>3, <1>4
  <1> QED BY <1>4, <1>5, TextIsSeq DEF NormalizeLineEndings, NormParts

\* Two texts have their line endings normalized apart, unless a CRLF is split.
LEMMA NormCat ==
  ASSUME NEW s \in Text, NEW t \in Text,
         (s # <<>> /\ s[Len(s)] = CR) => ~(t # <<>> /\ t[1] = LF)
  PROVE  NormalizeLineEndings(s \o t) = NormalizeLineEndings(s) \o NormalizeLineEndings(t)
  <1> DEFINE u == s \o t
             both == NormParts(s) \o NormParts(t)
  <1>1. Len(s) \in Nat /\ Len(t) \in Nat
    BY TextIsSeq
  <1>2. /\ u \in Text /\ Len(u) = Len(s) + Len(t)
        /\ \A i \in 1..(Len(s) + Len(t)) : u[i] = IF i <= Len(s) THEN s[i] ELSE t[i - Len(s)]
    BY TextIsSeq, ConcatProperties
  <1> HIDE DEF u
  <1>3. /\ NormParts(s) \in Seq(Text) /\ Len(NormParts(s)) = Len(s)
        /\ NormParts(t) \in Seq(Text) /\ Len(NormParts(t)) = Len(t)
        /\ NormParts(u) \in Seq(Text) /\ Len(NormParts(u)) = Len(u)
    BY <1>2, NormPartsType
  <1>4. /\ both \in Seq(Text) /\ Len(both) = Len(s) + Len(t)
        /\ \A i \in 1..(Len(s) + Len(t)) :
             both[i] = IF i <= Len(s) THEN NormParts(s)[i] ELSE NormParts(t)[i - Len(s)]
    <2>1. PICK p \in Seq(Text), q \in Seq(Text) : p = NormParts(s) /\ q = NormParts(t)
      BY <1>3
    <2>2. /\ p \o q \in Seq(Text) /\ Len(p \o q) = Len(p) + Len(q)
          /\ \A i \in 1..(Len(p) + Len(q)) : (p \o q)[i] = IF i <= Len(p) THEN p[i] ELSE q[i - Len(p)]
      BY ConcatProperties
    <2> QED BY <1>3, <2>1, <2>2
  <1> HIDE DEF both
  <1>5. ASSUME NEW i \in 1..Len(u) PROVE NormParts(u)[i] = both[i]
    <2>0. /\ DOMAIN s = 1..Len(s) /\ DOMAIN t = 1..Len(t) /\ DOMAIN u = 1..Len(u)
      BY <1>2, TextIsSeq
    <2>1. NormParts(u)[i] = IF u[i] = CR /\ i < Len(u) /\ u[i + 1] = LF THEN <<>> ELSE <<u[i]>>
      BY <2>0 DEF NormParts
    <2>2. CASE i < Len(s)
      <3>1. /\ i \in 1..Len(s) /\ i + 1 \in 1..(Len(s) + Len(t)) /\ i <= Len(s) /\ i + 1 <= Len(s)
            /\ i < Len(u)
        BY <1>1, <1>2, <2>2
      <3>2. u[i] = s[i] /\ u[i + 1] = s[i + 1] /\ both[i] = NormParts(s)[i]
        BY <1>2, <1>4, <3>1
      <3>3. NormParts(s)[i] = IF s[i] = CR /\ i < Len(s) /\ s[i + 1] = LF THEN <<>> ELSE <<s[i]>>
        BY <2>0, <3>1 DEF NormParts
      <3> QED BY <2>1, <2>2, <3>1, <3>2, <3>3
    <2>3. CASE i = Len(s)
      <3>1. i \in 1..Len(s) /\ i <= Len(s) /\ s # <<>>
        BY <1>1, <2>3
      <3>2. u[i] = s[i] /\ both[i] = NormParts(s)[i]
        BY <1>2, <1>4, <3>1
      <3>3. NormParts(s)[i] = <<s[i]>>
        BY <2>0, <2>3, <3>1 DEF NormParts
      <3>4. ~(u[i] = CR /\ i < Len(u) /\ u[i + 1] = LF)
        <4> SUFFICES ASSUME u[i] = CR, i < Len(u), u[i + 1] = LF PROVE FALSE
          OBVIOUS
        <4>1. i + 1 \in 1..(Len(s) + Len(t)) /\ ~(i + 1 <= Len(s)) /\ (i + 1) - Len(s) = 1 /\ Len(t) >= 1
          BY <1>1, <1>2, <2>3
        <4>2. u[i + 1] = t[1] /\ t # <<>>
          BY <1>2, <4>1
        <4> QED BY <2>3, <3>1, <3>2, <4>2
      <3> QED BY <2>1, <3>2, <3>3, <3>4
    <2>4. CASE i > Len(s)
      <3>1. PICK k \in Int : k = i - Len(s)
        BY <1>1
      <3>2. /\ k \in 1..Len(t) /\ ~(i <= Len(s)) /\ i \in 1..(Len(s) + Len(t))
            /\ (i < Len(u) <=> k < Len(t))
        BY <1>1, <1>2, <2>4, <3>1
      <3>3. u[i] = t[k] /\ both[i] = NormParts(t)[k]
        BY <1>2, <1>4, <3>1, <3>2
      <3>4. k < Len(t) => u[i + 1] = t[k + 1]
        <4>1. k < Len(t) => i + 1 \in 1..(Len(s) + Len(t)) /\ ~(i + 1 <= Len(s)) /\ (i + 1) - Len(s) = k + 1
          BY <1>1, <1>2, <2>4, <3>1
        <4> QED BY <1>2, <4>1
      <3>5. NormParts(t)[k] = IF t[k] = CR /\ k < Len(t) /\ t[k + 1] = LF THEN <<>> ELSE <<t[k]>>
        BY <2>0, <3>2 DEF NormParts
      <3> QED BY <2>1, <3>2, <3>3, <3>4, <3>5
    <2> QED BY <1>1, <2>2, <2>3, <2>4
  <1>6. NormParts(u) = both
    BY <1>2, <1>3, <1>4, <1>5, SeqEqual
  <1>7. Concat(both) = Concat(NormParts(s)) \o Concat(NormParts(t))
    BY NormPartsType, ConcatCat DEF both
  <1> QED BY <1>2, <1>6, <1>7, NormPartsType DEF u

\* Short texts have no line ending to normalize.
LEMMA NormOne ==
  /\ NormalizeLineEndings(<<>>) = <<>>
  /\ \A c \in Char : NormalizeLineEndings(<<c>>) = <<c>>
  <1>1. NormalizeLineEndings(<<>>) = <<>>
    <2>1. NormParts(<<>>) = <<>>
      BY DEF NormParts
    <2> QED BY <2>1, ConcatStart, NewLine, NormPartsType
  <1>2. ASSUME NEW c \in Char PROVE NormalizeLineEndings(<<c>>) = <<c>>
    <2>1. <<c>> \in Text /\ <<c>> \in Seq(Char)
      BY TextCat, NewLine
    <2>2. NormParts(<<c>>) = Append(<<>>, <<c>>)
      <3>1. DOMAIN <<c>> = 1..1 /\ Len(<<c>>) = 1 /\ <<c>>[1] = c
        OBVIOUS
      <3>2. NormParts(<<c>>) = [i \in 1..1 |-> <<c>>]
        BY <3>1 DEF NormParts
      <3> QED BY <3>2
    <2>3. <<>> \in Seq(Seq(Char))
      BY ConcatStart
    <2>4. PICK y \in Seq(Char) : y = <<c>>
      BY <2>1
    <2>5. Concat(Append(<<>>, y)) = <<>> \o y
      BY <2>3, ConcatAppend, ConcatStart
    <2>6. <<>> \o y = y
      BY ConcatEmptySeq
    <2> QED BY <2>1, <2>2, <2>4, <2>5, <2>6, NormPartsType
  <1> QED BY <1>1, <1>2

\* Normalizing keeps the ink.
LEMMA NormType ==
  ASSUME NEW t \in Text
  PROVE  NormalizeLineEndings(t) \in Text /\ Ink(NormalizeLineEndings(t)) = Ink(t)
  <1>1. /\ NormalizeLineEndings(t) = Concat(NormParts(t)) /\ NormParts(t) \in Seq(Text)
        /\ Len(NormParts(t)) = Len(t)
    BY NormPartsType
  <1>2. /\ Concat(NormParts(t)) \in Text
        /\ Ink(Concat(NormParts(t))) = Concat(Map(inkMap, NormParts(t)))
    BY <1>1, InkConcat DEF Flat
  <1>3. Len(t) \in Nat /\ DOMAIN t = 1..Len(t) /\ \A i \in DOMAIN t : t[i] \in Char
    BY TextIsSeq
  <1>4. ASSUME NEW i \in DOMAIN t
        PROVE  inkMap[NormParts(t)[i]] = IF t[i] \in Space THEN <<>> ELSE <<t[i]>>
    <2>1. t[i] \in Char /\ CR \in Space
      BY <1>3 DEF Space
    <2>2. \A c \in Char : <<c>> \in Text /\ Ink(<<c>>) = IF c \in Space THEN <<>> ELSE <<c>>
      <3> SUFFICES ASSUME NEW c \in Char
                   PROVE <<c>> \in Text /\ Ink(<<c>>) = IF c \in Space THEN <<>> ELSE <<c>>
        OBVIOUS
      <3>1. <<c>> = Append(<<>>, c) /\ <<c>> \in Text /\ <<>> \in Text
        BY TextCat, NewLine
      <3>2. Ink(Append(<<>>, c)) = <<>> \o (IF c \in Space THEN <<>> ELSE <<c>>)
        BY <3>1, InkCat
      <3>3. (IF c \in Space THEN <<>> ELSE <<c>>) \in Text
        BY <3>1
      <3> QED BY <3>1, <3>2, <3>3, TextCat
    <2>3. \A s \in Text : inkMap[s] = Ink(s)
      BY DEF inkMap
    <2>4. CASE t[i] = CR /\ i < Len(t) /\ t[i + 1] = LF
      <3>1. NormParts(t)[i] = <<>>
        BY <2>4 DEF NormParts
      <3> QED BY <2>1, <2>3, <2>4, <3>1, InkCat, NewLine
    <2>5. CASE ~(t[i] = CR /\ i < Len(t) /\ t[i + 1] = LF)
      <3>1. NormParts(t)[i] = <<t[i]>>
        BY <2>5 DEF NormParts
      <3> QED BY <2>1, <2>2, <2>3, <3>1
    <2> QED BY <2>4, <2>5
  <1>5. Map(inkMap, NormParts(t)) = [i \in DOMAIN t |-> IF t[i] \in Space THEN <<>> ELSE <<t[i]>>]
    <2>1. DOMAIN NormParts(t) = DOMAIN t
      BY DEF NormParts
    <2> QED BY <1>4, <2>1 DEF Map
  <1> QED BY <1>1, <1>2, <1>5 DEF Ink

\* Character by character.
LEMMA NormAppend ==
  /\ \A t \in Text : \A c \in Char :
       c # LF \/ t = <<>> \/ t[Len(t)] # CR
         => NormalizeLineEndings(Append(t, c)) = Append(NormalizeLineEndings(t), c)
  /\ \A t \in Text :
       NormalizeLineEndings(Append(Append(t, CR), LF)) = Append(NormalizeLineEndings(t), LF)
  <1>0. CR \in Char /\ LF \in Char /\ CR # LF
    BY DEF Char, Space, CR, LF
  <1>1. ASSUME NEW t \in Text, NEW c \in Char, c # LF \/ t = <<>> \/ t[Len(t)] # CR
        PROVE NormalizeLineEndings(Append(t, c)) = Append(NormalizeLineEndings(t), c)
    <2>1. /\ <<c>> \in Text /\ Append(t, c) = t \o <<c>>
          /\ Append(NormalizeLineEndings(t), c) = NormalizeLineEndings(t) \o <<c>>
      BY NormType, TextCat
    <2>2. <<c>>[1] = c
      OBVIOUS
    <2>3. PICK y \in Text : y = <<c>>
      BY <2>1
    <2>4. (t # <<>> /\ t[Len(t)] = CR) => ~(y # <<>> /\ y[1] = LF)
      BY <1>1, <2>2, <2>3
    <2>5. NormalizeLineEndings(t \o y) = NormalizeLineEndings(t) \o NormalizeLineEndings(y)
      BY <2>4, NormCat
    <2> QED BY <2>1, <2>3, <2>5, NormOne
  <1>2. ASSUME NEW t \in Text
        PROVE  NormalizeLineEndings(Append(Append(t, CR), LF)) = Append(NormalizeLineEndings(t), LF)
    <2> DEFINE ending == <<CR, LF>>
    <2>1. ending \in Text /\ Len(ending) = 2 /\ ending[1] = CR /\ ending[2] = LF
      BY <1>0, TextIsSeq
    <2>2. NormalizeLineEndings(ending) = NL
      <3>1. NormParts(ending) = <<<<>>, NL>>
        BY <1>0 DEF NormParts, NL
      <3>2. <<<<>>, NL>> = Append(Append(<<>>, <<>>), NL) /\ NL \in Seq(Char) /\ <<>> \in Seq(Char)
        BY NewLine, TextIsSeq
      <3>3. <<>> \in Seq(Seq(Char)) /\ Append(<<>>, <<>>) \in Seq(Seq(Char))
        BY ConcatStart, <3>2
      <3>4. Concat(Append(<<>>, <<>>)) = <<>> \o <<>>
        BY <3>2, <3>3, ConcatAppend, ConcatStart
      <3>5. Concat(Append(Append(<<>>, <<>>), NL)) = (<<>> \o <<>>) \o NL
        BY <3>2, <3>3, <3>4, ConcatAppend
      <3>6. <<>> \o <<>> = <<>> /\ <<>> \o NL = NL
        BY NewLine, TextCat
      <3> QED BY <2>1, <3>1, <3>2, <3>5, <3>6, NormPartsType
    <2> HIDE DEF ending
    <2>3. Append(Append(t, CR), LF) = t \o ending
      <3>1. PICK x \in Text, y \in Text : x = <<CR>> /\ y = <<LF>>
        BY <1>0, TextCat, NewLine
      <3>2. Append(t, CR) = t \o x /\ Append(Append(t, CR), LF) = (t \o x) \o y
        <4>1. Append(t, CR) \in Text /\ Append(t, CR) = t \o <<CR>>
          BY <1>0, TextCat
        <4>2. Append(Append(t, CR), LF) = Append(t, CR) \o <<LF>>
          BY <1>0, <4>1, TextCat
        <4> QED BY <3>1, <4>1, <4>2
      <3>3. (t \o x) \o y = t \o (x \o y)
        BY TextCat
      <3>4. x \o y = ending
        <4>1. /\ x \in Seq(Char) /\ Len(x) = 1 /\ x[1] = CR
              /\ y \in Seq(Char) /\ Len(y) = 1 /\ y[1] = LF
          BY <3>1, TextIsSeq
        <4>2. /\ x \o y \in Seq(Char) /\ Len(x \o y) = Len(x) + Len(y)
              /\ \A i \in 1..(Len(x) + Len(y)) : (x \o y)[i] = IF i <= Len(x) THEN x[i] ELSE y[i - Len(x)]
          BY <4>1, ConcatProperties
        <4>3. ending \in Seq(Char) /\ Len(ending) = 2
          BY <2>1, TextIsSeq
        <4>4. \A i \in 1..2 : i = 1 \/ i = 2
          OBVIOUS
        <4>5. \A i \in 1..2 : (x \o y)[i] = ending[i]
          BY <2>1, <4>1, <4>2, <4>4
        <4> QED BY <4>1, <4>2, <4>3, <4>5, SeqEqual
      <3> QED BY <3>2, <3>3, <3>4
    <2>4. NormalizeLineEndings(t \o ending) = NormalizeLineEndings(t) \o NormalizeLineEndings(ending)
      BY <1>0, <2>1, NormCat
    <2>5. NormalizeLineEndings(t) \o NL = Append(NormalizeLineEndings(t), LF)
      BY <1>0, NormType, TextCat DEF NL
    <2> QED BY <2>2, <2>3, <2>4, <2>5
  <1> QED BY <1>1, <1>2

\* Lines read the same.
SameRead(a, b) ==
  /\ a \in Seq(Text) /\ b \in Seq(Text) /\ Len(a) = Len(b)
  /\ \A k \in 1..Len(a) : TrimSpace(a[k]) = TrimSpace(b[k])

\* One more line that reads the same.
LEMMA SameReadAppend ==
  ASSUME NEW a, NEW b, SameRead(a, b), NEW s \in Text, NEW t \in Text, TrimSpace(s) = TrimSpace(t)
  PROVE  SameRead(Append(a, s), Append(b, t))
  <1>0. a \in Seq(Text) /\ b \in Seq(Text) /\ Len(a) = Len(b)
        /\ \A k \in 1..Len(a) : TrimSpace(a[k]) = TrimSpace(b[k])
    BY DEF SameRead
  <1>1. PICK x, y : x = Append(a, s) /\ y = Append(b, t)
    OBVIOUS
  <1>2. /\ x \in Seq(Text) /\ Len(x) = Len(a) + 1 /\ x[Len(a) + 1] = s
        /\ \A k \in 1..Len(a) : x[k] = a[k]
    BY <1>0, <1>1, AppendProperties
  <1>3. /\ y \in Seq(Text) /\ Len(y) = Len(a) + 1 /\ y[Len(a) + 1] = t
        /\ \A k \in 1..Len(a) : y[k] = b[k]
    BY <1>0, <1>1, AppendProperties
  <1>4. ASSUME NEW k \in 1..Len(x) PROVE TrimSpace(x[k]) = TrimSpace(y[k])
    <2>0. Len(a) \in Nat
      BY <1>0
    <2>1. CASE k = Len(a) + 1
      BY <1>2, <1>3, <2>1
    <2>2. CASE k # Len(a) + 1
      <3>1. k \in 1..Len(a)
        BY <1>2, <2>0, <2>2
      <3> QED BY <1>0, <1>2, <1>3, <3>1
    <2> QED BY <2>1, <2>2
  <1> QED BY <1>1, <1>2, <1>3, <1>4 DEF SameRead

\* Normalized line endings leave the last line as it is, the lines before it
\* lose white space at their end.
LastSame(t) ==
  \E ms, ls \in Seq(Text), u \in Text :
    /\ Lines(NormalizeLineEndings(t)) = Append(ms, u) /\ Lines(t) = Append(ls, u)
    /\ SameRead(ms, ls)

\* One more character that does not end a CRLF.
LEMMA LastSameStep ==
  ASSUME NEW t \in Text, LastSame(t), NEW c \in Char,
         c # LF \/ t = <<>> \/ t[Len(t)] # CR
  PROVE  LastSame(Append(t, c))
  <1>1. PICK ms \in Seq(Text), ls \in Seq(Text), u \in Text :
          /\ Lines(NormalizeLineEndings(t)) = Append(ms, u) /\ Lines(t) = Append(ls, u)
          /\ SameRead(ms, ls)
    BY DEF LastSame
  <1>2. /\ Lines(Append(t, c)) = Scanned(Append(ls, u), c)
        /\ Lines(NormalizeLineEndings(Append(t, c))) = Scanned(Append(ms, u), c)
    <2>1. NormalizeLineEndings(Append(t, c)) = Append(NormalizeLineEndings(t), c)
      BY NormAppend
    <2> QED BY <1>1, <2>1, LinesAppend, NormType
  <1>3. CASE c = LF
    <2>1. /\ Scanned(Append(ls, u), c) = Append(Append(ls, u), <<>>)
          /\ Scanned(Append(ms, u), c) = Append(Append(ms, u), <<>>)
      BY <1>3 DEF Scanned
    <2>2. SameRead(Append(ms, u), Append(ls, u))
      BY <1>1, SameReadAppend
    <2>3. PICK x \in Seq(Text), y \in Seq(Text), e \in Text :
            x = Append(ms, u) /\ y = Append(ls, u) /\ e = <<>>
      BY AppendProperties, NewLine
    <2>4. /\ Lines(NormalizeLineEndings(Append(t, c))) = Append(x, e)
          /\ Lines(Append(t, c)) = Append(y, e) /\ SameRead(x, y)
      BY <1>2, <2>1, <2>2, <2>3
    <2> QED BY <2>4 DEF LastSame
  <1>4. CASE c # LF
    <2>1. /\ Scanned(Append(ls, u), c) = Append(ls, Append(u, c))
          /\ Scanned(Append(ms, u), c) = Append(ms, Append(u, c))
      BY <1>4, ScannedLast
    <2>2. Append(u, c) \in Text
      BY TextCat
    <2> QED BY <1>1, <1>2, <2>1, <2>2 DEF LastSame
  <1> QED BY <1>3, <1>4

\* A CRLF.
LEMMA LastSameBreak ==
  ASSUME NEW t \in Text, LastSame(t)
  PROVE  LastSame(Append(Append(t, CR), LF))
  <1>1. PICK ms \in Seq(Text), ls \in Seq(Text), u \in Text :
          /\ Lines(NormalizeLineEndings(t)) = Append(ms, u) /\ Lines(t) = Append(ls, u)
          /\ SameRead(ms, ls)
    BY DEF LastSame
  <1>0. CR \in Char /\ LF \in Char /\ CR # LF /\ CR \in Space
    BY DEF Char, Space, CR, LF
  <1>2. Append(u, CR) \in Text /\ Append(t, CR) \in Text /\ <<>> \in Text
    BY <1>0, TextCat, NewLine
  <1>3. Lines(NormalizeLineEndings(Append(Append(t, CR), LF))) = Append(Append(ms, u), <<>>)
    <2>1. NormalizeLineEndings(Append(Append(t, CR), LF)) = Append(NormalizeLineEndings(t), LF)
      BY NormAppend
    <2> QED BY <1>0, <1>1, <2>1, LinesAppend, NormType DEF Scanned
  <1>4. Lines(Append(Append(t, CR), LF)) = Append(Append(ls, Append(u, CR)), <<>>)
    <2>1. Lines(Append(t, CR)) = Scanned(Append(ls, u), CR)
      BY <1>0, <1>1, LinesAppend
    <2>2. Scanned(Append(ls, u), CR) = Append(ls, Append(u, CR))
      BY <1>0, ScannedLast
    <2>3. Lines(Append(Append(t, CR), LF)) = Scanned(Lines(Append(t, CR)), LF)
      BY <1>0, <1>2, LinesAppend
    <2> QED BY <2>1, <2>2, <2>3 DEF Scanned
  <1>5. SameRead(Append(ms, u), Append(ls, Append(u, CR)))
    <2>1. TrimSpace(u) = TrimSpace(Append(u, CR))
      BY <1>0, TrimAppend
    <2> QED BY <1>1, <1>2, <2>1, SameReadAppend
  <1>6. PICK x \in Seq(Text), y \in Seq(Text), e \in Text :
          x = Append(ms, u) /\ y = Append(ls, Append(u, CR)) /\ e = <<>>
    BY <1>2, AppendProperties
  <1>7. /\ Lines(NormalizeLineEndings(Append(Append(t, CR), LF))) = Append(x, e)
        /\ Lines(Append(Append(t, CR), LF)) = Append(y, e) /\ SameRead(x, y)
    BY <1>3, <1>4, <1>5, <1>6
  <1> QED BY <1>7 DEF LastSame

\* Normalized line endings: as many lines, that read the same.
LEMMA NormLines ==
  ASSUME NEW t \in Text
  PROVE  SameRead(Lines(NormalizeLineEndings(t)), Lines(t))
  <1> DEFINE S == {s \in Text : LastSame(s) /\ \A r \in Text : s = Append(r, CR) => LastSame(r)}
  <1>0. CR \in Char /\ LF \in Char /\ CR # LF
    BY DEF Char, Space, CR, LF
  <1>1. <<>> \in S
    <2>1. Lines(<<>>) = Append(<<>>, <<>>) /\ <<>> \in Seq(Text) /\ <<>> \in Text /\ Len(<<>>) = 0
      BY LinesAppend, NewLine, EmptySeq
    <2>2. SameRead(<<>>, <<>>)
      BY <2>1 DEF SameRead
    <2>3. LastSame(<<>>)
      BY <2>1, <2>2, NormOne DEF LastSame
    <2>4. \A r \in Text : <<>> # Append(r, CR)
      <3> TAKE r \in Text
      <3>1. Append(r, CR) # <<>>
        BY <1>0, TextIsSeq, AppendProperties
      <3> QED BY <3>1
    <2> QED BY <2>1, <2>3, <2>4
  <1>2. ASSUME NEW s \in S, NEW c \in Char PROVE Append(s, c) \in S
    <2>1. s \in Text /\ LastSame(s) /\ Append(s, c) \in Text
      BY TextCat
    <2>2. LastSame(Append(s, c))
      <3>1. CASE c # LF \/ s = <<>> \/ s[Len(s)] # CR
        BY <2>1, <3>1, LastSameStep
      <3>2. CASE c = LF /\ s # <<>> /\ s[Len(s)] = CR
        <4>1. PICK r \in Seq(Char), e \in Char : s = Append(r, e)
          BY <2>1, <3>2, TextIsSeq, SequenceEmptyOrAppend
        <4>2. e = CR /\ r \in Text
          BY <3>2, <4>1, TextIsSeq, AppendProperties
        <4>3. LastSame(r)
          BY <4>1, <4>2
        <4> QED BY <3>2, <4>1, <4>2, <4>3, LastSameBreak
      <3> QED BY <3>1, <3>2
    <2>3. \A r \in Text : Append(s, c) = Append(r, CR) => r = s
      <3>1. \A a, b \in Seq(Char) : \A d, e \in Char : Append(a, d) = Append(b, e) => a = b
        BY AppendInjective
      <3> QED BY <1>0, <2>1, <3>1, TextIsSeq
    <2> QED BY <2>1, <2>2, <2>3
  <1>3. S \in SUBSET Seq(Char)
    BY TextIsSeq
  <1>4. t \in S
    <2> HIDE DEF S
    <2> QED BY <1>1, <1>2, <1>3, SeqInduct, TextIsSeq
  <1>5. PICK ms \in Seq(Text), ls \in Seq(Text), u \in Text :
          /\ Lines(NormalizeLineEndings(t)) = Append(ms, u) /\ Lines(t) = Append(ls, u)
          /\ SameRead(ms, ls)
    BY <1>4 DEF LastSame
  <1> QED BY <1>5, SameReadAppend

\* No text with characters loses all of them.
LEMMA NormNonempty ==
  ASSUME NEW t \in Text, t # <<>>
  PROVE  NormalizeLineEndings(t) # <<>>
  <1>0. CR \in Char /\ LF \in Char /\ CR # LF
    BY DEF Char, Space, CR, LF
  <1>1. PICK s \in Text, c \in Char : t = Append(s, c)
    BY TextIsSeq, SequenceEmptyOrAppend
  <1>2. \A r \in Text : \A d \in Char : Append(r, d) # <<>>
    BY TextIsSeq, AppendProperties
  <1>3. CASE c # LF \/ s = <<>> \/ s[Len(s)] # CR
    BY <1>1, <1>2, <1>3, NormAppend, NormType
  <1>4. CASE c = LF /\ s # <<>> /\ s[Len(s)] = CR
    <2>1. PICK r \in Seq(Char), e \in Char : s = Append(r, e)
      BY <1>4, TextIsSeq, SequenceEmptyOrAppend
    <2>2. e = CR /\ r \in Text
      BY <1>4, <2>1, TextIsSeq, AppendProperties
    <2> QED BY <1>0, <1>1, <1>2, <1>4, <2>1, <2>2, NormAppend, NormType
  <1> QED BY <1>3, <1>4

\* A text can be cut wherever it can be cut with its line endings normalized.
CutInto(t, p, q) ==
  \E s, r \in Text : /\ t = s \o r
                     /\ NormalizeLineEndings(s) = p /\ NormalizeLineEndings(r) = q
Cleft(t) == \A p, q \in Text : NormalizeLineEndings(t) = p \o q => CutInto(t, p, q)

\* The last character of two texts is that of the second one.
LEMMA SameLast ==
  ASSUME NEW s \in Text, NEW r \in Text, NEW c \in Char, NEW d \in Char, Append(s, c) = Append(r, d)
  PROVE  s = r /\ c = d
  BY TextIsSeq, AppendInjective

LEMMA CatAppend ==
  /\ \A s, r \in Text : \A c \in Char : s \o Append(r, c) = Append(s \o r, c)
  /\ \A s, r \in Text : r # <<>> => s \o r # <<>> /\ (s \o r)[Len(s \o r)] = r[Len(r)]
  <1>1. ASSUME NEW s \in Text, NEW r \in Text, NEW c \in Char
        PROVE  s \o Append(r, c) = Append(s \o r, c)
    <2>1. PICK y \in Text : y = <<c>>
      BY TextCat
    <2>2. (s \o r) \o y = s \o (r \o y)
      BY TextCat
    <2>3. s \o r \in Text
      BY TextCat
    <2> QED BY <2>1, <2>2, <2>3, TextCat
  <1>2. ASSUME NEW s \in Text, NEW r \in Text, r # <<>>
        PROVE  s \o r # <<>> /\ (s \o r)[Len(s \o r)] = r[Len(r)]
    <2>1. PICK S \in Seq(Char), R \in Seq(Char) : S = s /\ R = r
      BY TextIsSeq
    <2>2. /\ S \o R \in Seq(Char) /\ Len(S \o R) = Len(S) + Len(R)
          /\ \A i \in 1..(Len(S) + Len(R)) : (S \o R)[i] = IF i <= Len(S) THEN S[i] ELSE R[i - Len(S)]
      BY ConcatProperties
    <2>6. PICK u : u = S \o R
      OBVIOUS
    <2>3. PICK m \in Nat, n \in Nat : m = Len(S) /\ n = Len(R) /\ n # 0
      BY <1>2, <2>1
    <2>4. m + n \in 1..(m + n) /\ ~(m + n <= m) /\ (m + n) - m = n /\ m + n # 0
      BY <2>3
    <2>5. u # <<>> /\ u[m + n] = R[n]
      BY <2>2, <2>3, <2>4, <2>6
    <2> QED BY <2>1, <2>2, <2>3, <2>5, <2>6
  <1> QED BY <1>1, <1>2

EndsAs(n, c, p, y, d) == Append(n, c) = p \o Append(y, d)
SplitAs(n, c, p, y, d) == n = p \o y /\ c = d

LEMMA CatLast ==
  ASSUME NEW n \in Text, NEW p \in Text, NEW y \in Text, NEW c \in Char, NEW d \in Char,
         EndsAs(n, c, p, y, d)
  PROVE  SplitAs(n, c, p, y, d)
  <1>1. PICK a \in Text : a = p \o y
    BY TextCat
  <1>2. Append(n, c) = Append(a, d)
    BY <1>1, CatAppend DEF EndsAs
  <1>3. n = a /\ c = d
    BY <1>2, SameLast
  <1> QED BY <1>1, <1>3 DEF SplitAs

\* u goes on where t ends, as every end of t does, with what is normalized to c.
GoesOn(t, u, c) ==
  /\ NormalizeLineEndings(u) = Append(NormalizeLineEndings(t), c)
  /\ \A s, r \in Text : t = s \o r =>
       \E v \in Text : u = s \o v /\ NormalizeLineEndings(v) = Append(NormalizeLineEndings(r), c)

\* The cut of a text that goes on is behind it, or one of the text before,
LEMMA CleftOn ==
  ASSUME NEW t \in Text, Cleft(t), NEW u \in Text, NEW c \in Char, GoesOn(t, u, c)
  PROVE  Cleft(u)
  <1> SUFFICES ASSUME NEW p \in Text, NEW q \in Text, NormalizeLineEndings(u) = p \o q
               PROVE  CutInto(u, p, q)
    BY DEF Cleft
  <1>1. CASE q = <<>>
    <2>1. u = u \o <<>> /\ NormalizeLineEndings(u) = p /\ <<>> \in Text
      BY <1>1, TextCat, NewLine
    <2> QED BY <1>1, <2>1, NormOne DEF CutInto
  <1>2. CASE q # <<>>
    <2>1. PICK y \in Text, d \in Char : q = Append(y, d)
      BY <1>2, TextIsSeq, SequenceEmptyOrAppend
    <2>2. PICK n \in Text : n = NormalizeLineEndings(t) /\ EndsAs(n, c, p, y, d)
      BY <2>1, NormType DEF GoesOn, EndsAs
    <2>6. SplitAs(n, c, p, y, d)
      BY <2>2, CatLast
    <2>3. n = p \o y /\ c = d
      BY <2>6 DEF SplitAs
    <2>4. PICK s \in Text, r \in Text : /\ t = s \o r
                                        /\ NormalizeLineEndings(s) = p /\ NormalizeLineEndings(r) = y
      <3>1. CutInto(t, p, y)
        BY <2>2, <2>3 DEF Cleft
      <3> QED BY <3>1 DEF CutInto
    <2>5. PICK v \in Text : u = s \o v /\ NormalizeLineEndings(v) = Append(NormalizeLineEndings(r), c)
      BY <2>4 DEF GoesOn
    <2> QED BY <2>1, <2>3, <2>4, <2>5 DEF CutInto
  <1> QED BY <1>1, <1>2

LEMMA CleftStep ==
  ASSUME NEW t \in Text, Cleft(t), NEW c \in Char, c # LF \/ t = <<>> \/ t[Len(t)] # CR
  PROVE  Cleft(Append(t, c))
  <1>1. /\ Append(t, c) \in Text
        /\ NormalizeLineEndings(Append(t, c)) = Append(NormalizeLineEndings(t), c)
    BY TextCat, NormAppend
  <1>2. ASSUME NEW s \in Text, NEW r \in Text, t = s \o r
        PROVE  \E v \in Text : /\ Append(t, c) = s \o v
                               /\ NormalizeLineEndings(v) = Append(NormalizeLineEndings(r), c)
    <2>1. c # LF \/ r = <<>> \/ r[Len(r)] # CR
      BY <1>2, CatAppend
    <2>2. NormalizeLineEndings(Append(r, c)) = Append(NormalizeLineEndings(r), c)
      BY <2>1, NormAppend
    <2>3. Append(r, c) \in Text /\ Append(t, c) = s \o Append(r, c)
      <3>1. s \o Append(r, c) = Append(s \o r, c)
        BY CatAppend
      <3> QED BY <1>2, <3>1, TextCat
    <2> QED BY <2>2, <2>3
  <1> QED BY <1>1, <1>2, CleftOn DEF GoesOn

\* and with one more CRLF as well.
LEMMA CleftBreak ==
  ASSUME NEW t \in Text, Cleft(t)
  PROVE  Cleft(Append(Append(t, CR), LF))
  <1>0. CR \in Char /\ LF \in Char
    BY DEF Char, Space
  <1> DEFINE Broken(r) == Append(Append(r, CR), LF)
  <1>1. ASSUME NEW r \in Text
        PROVE  Broken(r) \in Text /\ NormalizeLineEndings(Broken(r)) = Append(NormalizeLineEndings(r), LF)
    BY <1>0, TextCat, NormAppend
  <1>2. ASSUME NEW s \in Text, NEW r \in Text, t = s \o r
        PROVE  Broken(t) = s \o Broken(r)
    <2>1. Append(r, CR) \in Text
      BY <1>0, TextCat
    <2>2. s \o Append(Append(r, CR), LF) = Append(s \o Append(r, CR), LF)
      BY <1>0, <2>1, CatAppend
    <2>3. s \o Append(r, CR) = Append(s \o r, CR)
      BY <1>0, CatAppend
    <2> QED BY <1>2, <2>2, <2>3
  <1> HIDE DEF Broken
  <1>3. ASSUME NEW s \in Text, NEW r \in Text, t = s \o r
        PROVE  \E v \in Text : /\ Broken(t) = s \o v
                               /\ NormalizeLineEndings(v) = Append(NormalizeLineEndings(r), LF)
    BY <1>1, <1>2, <1>3
  <1>4. Cleft(Broken(t))
    BY <1>0, <1>1, <1>3, CleftOn DEF GoesOn
  <1> QED BY <1>4 DEF Broken

LEMMA NormCleft ==
  ASSUME NEW t \in Text
  PROVE  Cleft(t)
  <1> DEFINE S == {s \in Text : Cleft(s) /\ \A r \in Text : s = Append(r, CR) => Cleft(r)}
  <1>0. CR \in Char /\ LF \in Char /\ CR # LF
    BY DEF Char, Space, CR, LF
  <1>1. <<>> \in S
    <2>1. Cleft(<<>>)
      <3> SUFFICES ASSUME NEW p \in Text, NEW q \in Text, NormalizeLineEndings(<<>>) = p \o q
                   PROVE  CutInto(<<>>, p, q)
        BY DEF Cleft
      <3>1. p = <<>> /\ q = <<>>
        BY NormOne, TextIsSeq, ConcatEqualIffEmpty, EmptySeq
      <3>2. <<>> \in Text /\ <<>> = <<>> \o <<>>
        BY NewLine, TextCat
      <3> QED BY <3>1, <3>2, NormOne DEF CutInto
    <2>2. \A r \in Text : <<>> # Append(r, CR)
      <3> TAKE r \in Text
      <3>1. Append(r, CR) # <<>>
        BY <1>0, TextIsSeq, AppendProperties
      <3> QED BY <3>1
    <2> QED BY <2>1, <2>2, NewLine
  <1>2. ASSUME NEW s \in S, NEW c \in Char PROVE Append(s, c) \in S
    <2>1. s \in Text /\ Cleft(s) /\ Append(s, c) \in Text
      BY TextCat
    <2>2. Cleft(Append(s, c))
      <3>1. CASE c # LF \/ s = <<>> \/ s[Len(s)] # CR
        BY <2>1, <3>1, CleftStep
      <3>2. CASE c = LF /\ s # <<>> /\ s[Len(s)] = CR
        <4>1. PICK r \in Seq(Char), e \in Char : s = Append(r, e)
          BY <2>1, <3>2, TextIsSeq, SequenceEmptyOrAppend
        <4>2. e = CR /\ r \in Text
          BY <3>2, <4>1, TextIsSeq, AppendProperties
        <4>3. Cleft(r)
          BY <4>1, <4>2
        <4> QED BY <3>2, <4>1, <4>2, <4>3, CleftBreak
      <3> QED BY <3>1, <3>2
    <2>3. \A r \in Text : Append(s, c) = Append(r, CR) => r = s
      BY <1>0, <2>1, SameLast
    <2> QED BY <2>1, <2>2, <2>3
  <1>3. S \in SUBSET Seq(Char)
    BY TextIsSeq
  <1>4. t \in S
    <2> HIDE DEF S
    <2> QED BY <1>1, <1>2, <1>3, SeqInduct, TextIsSeq
  <1> QED BY <1>4

-----------------------------------------------------------------------------
(* Parts of a sequence.                                                    *)

\* A part of a sequence.
LEMMA Part ==
  ASSUME NEW E, NEW t \in Seq(E), NEW i \in 1..(Len(t) + 1), NEW j \in (i - 1)..Len(t)
  PROVE  /\ SubSeq(t, i, j) \in Seq(E) /\ Len(SubSeq(t, i, j)) = j - i + 1
         /\ \A k \in 1..(j - i + 1) : SubSeq(t, i, j)[k] = t[i + k - 1]
  <1>1. i \in Int /\ j \in Int /\ Len(t) \in Nat /\ 1 <= i /\ i - 1 <= j /\ j <= Len(t)
    OBVIOUS
  <1>2. \A k \in i..j : t[k] \in E
    <2>1. \A k \in i..j : k \in 1..Len(t)
      BY <1>1
    <2> QED BY <2>1
  <1>3. /\ SubSeq(t, i, j) \in Seq(E) /\ Len(SubSeq(t, i, j)) = IF i <= j THEN j - i + 1 ELSE 0
        /\ \A k \in 1..(j - i + 1) : SubSeq(t, i, j)[k] = t[i + k - 1]
    BY <1>1, <1>2, SubSeqProperties
  <1>4. ~(i <= j) => j - i + 1 = 0
    BY <1>1
  <1> QED BY <1>3, <1>4

\* What stands before a part, the part, and what stands behind it.
InParts(E, t, i, j) ==
  /\ t = SubSeq(t, 1, i - 1) \o (SubSeq(t, i, j) \o SubSeq(t, j + 1, Len(t)))
  /\ SubSeq(t, 1, i - 1) \in Seq(E) /\ Len(SubSeq(t, 1, i - 1)) = i - 1
  /\ SubSeq(t, i, j) \in Seq(E) /\ Len(SubSeq(t, i, j)) = j - i + 1
  /\ SubSeq(t, j + 1, Len(t)) \in Seq(E) /\ Len(SubSeq(t, j + 1, Len(t))) = Len(t) - j

\* Before, between and behind.
LEMMA Parted ==
  ASSUME NEW E, NEW t \in Seq(E), NEW i \in 1..(Len(t) + 1), NEW j \in (i - 1)..Len(t)
  PROVE  InParts(E, t, i, j)
  <1>1. i \in Int /\ j \in Int /\ Len(t) \in Nat /\ 1 <= i /\ i - 1 <= j /\ j <= Len(t) /\ i <= Len(t) + 1
    OBVIOUS
  <1>2. PICK a, n : a = i - 1 /\ n = Len(t)
    OBVIOUS
  <1>3. /\ 1 \in 1..(Len(t) + 1) /\ a \in (1 - 1)..Len(t) /\ n \in a..Len(t) /\ a + 1 = i
        /\ i \in 1..(Len(t) + 1) /\ j \in (i - 1)..Len(t) /\ n \in j..Len(t)
        /\ j + 1 \in 1..(Len(t) + 1) /\ n \in ((j + 1) - 1)..Len(t)
    BY <1>1, <1>2
  <1>4. SubSeq(t, 1, a) \o SubSeq(t, a + 1, n) = SubSeq(t, 1, n)
    BY <1>3, ConcatAdjacentSubSeq
  <1>5. SubSeq(t, i, j) \o SubSeq(t, j + 1, n) = SubSeq(t, i, n)
    BY <1>3, ConcatAdjacentSubSeq
  <1>6. SubSeq(t, 1, n) = t
    BY <1>2, SubSeqFull
  <1>7. /\ SubSeq(t, 1, a) \in Seq(E) /\ Len(SubSeq(t, 1, a)) = a - 1 + 1
    BY <1>3, Part
  <1>8. /\ SubSeq(t, i, j) \in Seq(E) /\ Len(SubSeq(t, i, j)) = j - i + 1
    BY <1>3, Part
  <1>9. /\ SubSeq(t, j + 1, n) \in Seq(E) /\ Len(SubSeq(t, j + 1, n)) = n - (j + 1) + 1
    BY <1>3, Part
  <1>10. a - 1 + 1 = i - 1 /\ n - (j + 1) + 1 = Len(t) - j
    BY <1>1, <1>2
  <1> QED BY <1>2, <1>3, <1>4, <1>5, <1>6, <1>7, <1>8, <1>9, <1>10 DEF InParts

\* The parts of three sequences one behind the other.
HasParts(E, u, a, m, b) ==
  /\ u \in Seq(E) /\ Len(u) = Len(a) + Len(m) + Len(b)
  /\ SubSeq(u, 1, Len(a)) = a
  /\ SubSeq(u, Len(a) + 1, Len(a) + Len(m)) = m
  /\ SubSeq(u, Len(a) + Len(m) + 1, Len(u)) = b
  /\ \A k \in 1..Len(u) :
       u[k] = IF k <= Len(a) THEN a[k]
              ELSE IF k <= Len(a) + Len(m) THEN m[k - Len(a)]
              ELSE b[k - Len(a) - Len(m)]

\* What is put between stands between.
LEMMA Middle ==
  ASSUME NEW E, NEW a \in Seq(E), NEW m \in Seq(E), NEW b \in Seq(E)
  PROVE  HasParts(E, a \o (m \o b), a, m, b)
  <1> DEFINE mb == m \o b
             u == a \o mb
  <1>1. Len(a) \in Nat /\ Len(m) \in Nat /\ Len(b) \in Nat
    OBVIOUS
  <1>2. /\ mb \in Seq(E) /\ Len(mb) = Len(m) + Len(b)
        /\ \A k \in 1..(Len(m) + Len(b)) : mb[k] = IF k <= Len(m) THEN m[k] ELSE b[k - Len(m)]
    BY ConcatProperties
  <1> HIDE DEF mb
  <1>3. /\ u \in Seq(E) /\ Len(u) = Len(a) + Len(mb)
        /\ \A k \in 1..(Len(a) + Len(mb)) : u[k] = IF k <= Len(a) THEN a[k] ELSE mb[k - Len(a)]
    <2>1. PICK v \in Seq(E) : v = mb
      BY <1>2
    <2>2. /\ a \o v \in Seq(E) /\ Len(a \o v) = Len(a) + Len(v)
          /\ \A k \in 1..(Len(a) + Len(v)) : (a \o v)[k] = IF k <= Len(a) THEN a[k] ELSE v[k - Len(a)]
      BY ConcatProperties
    <2> QED BY <2>1, <2>2
  <1> HIDE DEF u
  <1>4. Len(u) = Len(a) + Len(m) + Len(b)
    BY <1>1, <1>2, <1>3
  <1>5. ASSUME NEW k \in 1..Len(u)
        PROVE  u[k] = IF k <= Len(a) THEN a[k]
                      ELSE IF k <= Len(a) + Len(m) THEN m[k - Len(a)]
                      ELSE b[k - Len(a) - Len(m)]
    <2>1. k \in 1..(Len(a) + Len(mb)) /\ k \in Int
      BY <1>3
    <2>2. CASE k <= Len(a)
      BY <1>3, <2>1, <2>2
    <2>3. CASE ~(k <= Len(a))
      <3>1. u[k] = mb[k - Len(a)]
        BY <1>3, <2>1, <2>3
      <3>2. PICK l \in Int : l = k - Len(a)
        <4>1. Len(a) \in Int /\ k \in Int
          BY <1>1, <2>1
        <4>2. \A n \in Int : k - n \in Int
          BY <4>1
        <4> QED BY <4>1, <4>2
      <3>3. l \in 1..(Len(m) + Len(b)) /\ (l <= Len(m) <=> k <= Len(a) + Len(m))
            /\ l - Len(m) = k - Len(a) - Len(m)
        BY <1>1, <1>4, <2>1, <2>3, <3>2
      <3> QED BY <1>2, <2>3, <3>1, <3>2, <3>3
    <2> QED BY <2>2, <2>3
  <1>6. SubSeq(u, 1, Len(a)) = a
    <2>1. PICK i, j : i = 1 /\ j = Len(a)
      OBVIOUS
    <2>2. i \in 1..(Len(u) + 1) /\ j \in (i - 1)..Len(u) /\ j - i + 1 = Len(a)
      BY <1>1, <1>4, <2>1
    <2>3. /\ SubSeq(u, i, j) \in Seq(E) /\ Len(SubSeq(u, i, j)) = j - i + 1
          /\ \A k \in 1..(j - i + 1) : SubSeq(u, i, j)[k] = u[i + k - 1]
      BY <1>3, <2>2, Part
    <2>4. ASSUME NEW k \in 1..Len(a) PROVE SubSeq(u, i, j)[k] = a[k]
      <3>1. i + k - 1 = k /\ k \in 1..Len(u) /\ k <= Len(a)
        BY <1>1, <1>4, <2>1
      <3> QED BY <1>5, <2>2, <2>3, <3>1
    <2> QED BY <2>1, <2>2, <2>3, <2>4, SeqEqual
  <1>7. SubSeq(u, Len(a) + 1, Len(a) + Len(m)) = m
    <2>1. PICK i, j : i = Len(a) + 1 /\ j = Len(a) + Len(m)
      OBVIOUS
    <2>2. i \in 1..(Len(u) + 1) /\ j \in (i - 1)..Len(u) /\ j - i + 1 = Len(m)
      BY <1>1, <1>4, <2>1
    <2>3. /\ SubSeq(u, i, j) \in Seq(E) /\ Len(SubSeq(u, i, j)) = j - i + 1
          /\ \A k \in 1..(j - i + 1) : SubSeq(u, i, j)[k] = u[i + k - 1]
      BY <1>3, <2>2, Part
    <2>4. ASSUME NEW k \in 1..Len(m) PROVE SubSeq(u, i, j)[k] = m[k]
      <3>1. i + k - 1 = Len(a) + k /\ Len(a) + k \in 1..Len(u) /\ ~(Len(a) + k <= Len(a))
            /\ Len(a) + k <= Len(a) + Len(m) /\ (Len(a) + k) - Len(a) = k
        BY <1>1, <1>4, <2>1
      <3> QED BY <1>5, <2>2, <2>3, <3>1
    <2> QED BY <2>1, <2>2, <2>3, <2>4, SeqEqual
  <1>8. SubSeq(u, Len(a) + Len(m) + 1, Len(u)) = b
    <2>1. PICK i, j : i = Len(a) + Len(m) + 1 /\ j = Len(u)
      OBVIOUS
    <2>2. i \in 1..(Len(u) + 1) /\ j \in (i - 1)..Len(u) /\ j - i + 1 = Len(b)
      BY <1>1, <1>4, <2>1
    <2>3. /\ SubSeq(u, i, j) \in Seq(E) /\ Len(SubSeq(u, i, j)) = j - i + 1
          /\ \A k \in 1..(j - i + 1) : SubSeq(u, i, j)[k] = u[i + k - 1]
      BY <1>3, <2>2, Part
    <2>4. ASSUME NEW k \in 1..Len(b) PROVE SubSeq(u, i, j)[k] = b[k]
      <3>1. PICK l \in Int : l = Len(a) + Len(m) + k
        BY <1>1
      <3>2. i + k - 1 = l /\ l \in 1..Len(u) /\ ~(l <= Len(a)) /\ ~(l <= Len(a) + Len(m))
            /\ l - Len(a) - Len(m) = k
        BY <1>1, <1>4, <2>1, <3>1
      <3> QED BY <1>5, <2>2, <2>3, <3>2
    <2> QED BY <2>1, <2>2, <2>3, <2>4, SeqEqual
  <1> QED BY <1>3, <1>4, <1>5, <1>6, <1>7, <1>8 DEF u, mb, HasParts

\* A newline between texts parts their lines.
LEMMA LinesCat ==
  ASSUME NEW s \in Text, NEW t \in Text
  PROVE  Lines(s \o (NL \o t)) = Lines(s) \o Lines(t)
  <1> DEFINE a == Lines(s)
             b == Lines(t)
  <1>1. /\ a \in Seq(Unbroken) /\ Join(a) = s /\ a # <<>> /\ a \in Seq(Text)
        /\ b \in Seq(Unbroken) /\ Join(b) = t /\ b # <<>> /\ b \in Seq(Text)
    BY JoinOfLines, LinesAppend
  <1> HIDE DEF a, b
  <1>2. a \o b \in Seq(Unbroken) /\ a \o b # <<>>
    <2>1. PICK U : U = Unbroken
      OBVIOUS
    <2>2. a \in Seq(U) /\ b \in Seq(U)
      BY <1>1, <2>1
    <2>3. a \o b \in Seq(U) /\ a \o b # <<>>
      BY <1>1, <2>2, ConcatProperties, ConcatEqualIffEmpty
    <2> QED BY <2>1, <2>3
  <1>3. Join(a \o b) = s \o (NL \o t)
    <2>1. Join(a \o b) = Join(a) \o Fore(b)
      BY <1>1, JoinCat
    <2>2. Fore(b) = NL \o Join(b)
      BY <1>1, ForeJoin
    <2> QED BY <1>1, <2>1, <2>2
  <1>4. Lines(Join(a \o b)) = a \o b
    BY <1>2, LinesOfJoin
  <1> QED BY <1>3, <1>4 DEF a, b

\* Whole lines of a text are a part of its lines.
LEMMA WholeLinesSplit ==
  ASSUME NEW t \in Text, NEW i \in 1..(Len(t) + 1), NEW j \in (i - 1)..Len(t), WholeLines(t, i, j)
  PROVE  \E pre, post \in Seq(Text) : Lines(t) = pre \o (Lines(SubSeq(t, i, j)) \o post)
  <1>0. t \in Seq(Char) /\ Len(t) \in Nat /\ i \in Int /\ j \in Int /\ <<>> \in Seq(Text)
        /\ 1 <= i /\ i <= Len(t) + 1 /\ i - 1 <= j /\ j <= Len(t)
    BY TextIsSeq, EmptySeq
  <1>1. PICK a, m, b : a = SubSeq(t, 1, i - 1) /\ m = SubSeq(t, i, j) /\ b = SubSeq(t, j + 1, Len(t))
    OBVIOUS
  <1>2. t = a \o (m \o b) /\ a \in Text /\ m \in Text /\ b \in Text /\ Len(a) = i - 1 /\ Len(b) = Len(t) - j
    <2>1. PICK E : E = Char
      OBVIOUS
    <2>2. t \in Seq(E)
      BY <1>0, <2>1
    <2>3. t = a \o (m \o b) /\ a \in Seq(E) /\ m \in Seq(E) /\ b \in Seq(E) /\ Len(a) = i - 1 /\ Len(b) = Len(t) - j
      <3>1. InParts(E, t, i, j)
        BY <2>2, Parted
      <3> QED BY <1>1, <3>1 DEF InParts
    <2> QED BY <2>1, <2>3, TextIsSeq
  <1>3. \E post \in Seq(Text) : Lines(m \o b) = Lines(m) \o post
    <2>0. Lines(m) \in Seq(Text)
      BY <1>2, LinesAppend
    <2>1. CASE j = Len(t)
      <3>1. Len(b) = 0
        BY <1>0, <1>2, <2>1
      <3>2. b = <<>>
        BY <1>2, <3>1, TextIsSeq, EmptySeq
      <3>3. m \o b = m
        BY <1>2, <3>2, TextCat
      <3>4. Lines(m) \o <<>> = Lines(m)
        BY <2>0, ConcatEmptySeq
      <3> QED BY <1>0, <3>3, <3>4
    <2>2. CASE j # Len(t)
      <3>1. t[j + 1] = LF
        BY <2>2 DEF WholeLines
      <3>2. PICK k, n : k = j + 1 /\ n = Len(t)
        OBVIOUS
      <3>3. k \in 1..Len(t) /\ n \in k..Len(t) /\ k + 1 \in 1..(Len(t) + 1) /\ n \in (k + 1 - 1)..Len(t)
        BY <1>0, <2>2, <3>2
      <3>4. SubSeq(t, k, n) = <<t[k]>> \o SubSeq(t, k + 1, n)
        BY <1>0, <3>3, SubSeqRecursiveFirst
      <3>5. PICK r \in Text : r = SubSeq(t, k + 1, n)
        <4>1. SubSeq(t, k + 1, n) \in Seq(Char)
          BY <1>0, <3>3, Part
        <4> QED BY <4>1, TextIsSeq
      <3>6. b = NL \o r
        BY <1>1, <3>1, <3>2, <3>4, <3>5 DEF NL
      <3>7. Lines(m \o (NL \o r)) = Lines(m) \o Lines(r)
        BY <1>2, LinesCat
      <3> QED BY <3>6, <3>7, LinesAppend
    <2> QED BY <2>1, <2>2
  <1>4. PICK post \in Seq(Text) : Lines(m \o b) = Lines(m) \o post
    BY <1>3
  <1>5. m \o b \in Text /\ Lines(m \o b) \in Seq(Text)
    BY <1>2, TextCat, LinesAppend
  <1>6. \E pre \in Seq(Text) : Lines(t) = pre \o Lines(m \o b)
    <2>1. CASE i = 1
      <3>1. Len(a) = 0
        BY <1>0, <1>2, <2>1
      <3>2. a = <<>>
        BY <1>2, <3>1, TextIsSeq, EmptySeq
      <3>3. t = m \o b
        BY <1>2, <1>5, <3>2, TextCat
      <3>4. <<>> \o Lines(m \o b) = Lines(m \o b)
        BY <1>5, ConcatEmptySeq
      <3> QED BY <1>0, <3>3, <3>4
    <2>2. CASE i # 1
      <3>1. t[i - 1] = LF
        BY <2>2 DEF WholeLines
      <3>2. PICK n : n = i - 1
        OBVIOUS
      <3>3. 1 \in 1..Len(t) /\ n \in 1..Len(t) /\ 1 \in 1..(Len(t) + 1) /\ n - 1 \in (1 - 1)..Len(t)
        BY <1>0, <2>2, <3>2
      <3>4. SubSeq(t, 1, n) = SubSeq(t, 1, n - 1) \o <<t[n]>>
        BY <1>0, <3>3, SubSeqRecursiveSecond
      <3>5. PICK r \in Text : r = SubSeq(t, 1, n - 1)
        <4>1. SubSeq(t, 1, n - 1) \in Seq(Char)
          BY <1>0, <3>3, Part
        <4> QED BY <4>1, TextIsSeq
      <3>6. a = r \o NL
        BY <1>1, <3>1, <3>2, <3>4, <3>5 DEF NL
      <3>7. t = r \o (NL \o (m \o b))
        <4>1. PICK x \in Text, y \in Text : x = NL /\ y = m \o b
          BY <1>5, NewLine
        <4>2. (r \o x) \o y = r \o (x \o y)
          BY TextCat
        <4> QED BY <1>2, <3>6, <4>1, <4>2
      <3>8. Lines(t) = Lines(r) \o Lines(m \o b)
        BY <1>5, <3>7, LinesCat
      <3> QED BY <3>8, LinesAppend
    <2> QED BY <2>1, <2>2
  <1> QED BY <1>1, <1>4, <1>6

-----------------------------------------------------------------------------
(* The four levels.                                                        *)

NormContent == NormalizeLineEndings(content)
NormOld == NormalizeLineEndings(old)

Tried == <<ExactReplace(content, old), ExactReplace(NormContent, NormOld),
           TrimmedReplace(NormContent, NormOld), LineByLineReplace(NormContent, NormOld)>>

\* The uniqueness check decides one of three ways.
LEMMA DecidedCases ==
  ASSUME NEW matches, NEW t
  PROVE  /\ Decided(matches, t) = Missing <=> matches = {}
         /\ matches # {} =>
              \/ Decided(matches, t) = Ambiguous /\ Cardinality(matches) > 1 /\ ~replaceAll
              \/ Decided(matches, t) = Replaced(t) /\ (replaceAll \/ ~(Cardinality(matches) > 1))
  <1>1. Missing # Ambiguous /\ Missing # Replaced(t)
    BY DEF Missing, Ambiguous, Replaced
  <1> QED BY <1>1 DEF Decided

\* The first level that finds something decides.
LEMMA FirstHit ==
  ASSUME result = FuzzyReplace
  PROVE  \/ result = Missing /\ \A k \in 1..4 : Tried[k] = Missing
         \/ \E k \in 1..4 : Tried[k] # Missing /\ result = [Tried[k] EXCEPT !.level = k]
  <1> DEFINE hits == {k \in 1..4 : Tried[k] # Missing}
  <1>1. result = IF hits = {} THEN Missing ELSE [Tried[Min(hits)] EXCEPT !.level = Min(hits)]
    BY DEF FuzzyReplace, Tried, NormContent, NormOld
  <1>2. CASE hits = {}
    <2>1. \A k \in 1..4 : Tried[k] = Missing
      BY <1>2
    <2> HIDE DEF hits
    <2> QED BY <1>1, <1>2, <2>1
  <1>3. CASE hits # {}
    <2>1. hits \in SUBSET Nat
      OBVIOUS
    <2>2. Min(hits) \in hits
      <3> HIDE DEF hits
      <3> QED BY <1>3, <2>1, LeastOffset
    <2>3. PICK k : k = Min(hits)
      OBVIOUS
    <2>4. k \in 1..4 /\ Tried[k] # Missing
      BY <2>2, <2>3
    <2> HIDE DEF hits
    <2> QED BY <1>1, <1>3, <2>3, <2>4
  <1> QED BY <1>2, <1>3

\* Places are places of a text or of lines.
LEMMA PlacesBound ==
  /\ \A t, p \in Text : Occurrences(t, p) \in SUBSET (0..(Len(t) + 1)) /\ Len(t) + 1 \in Nat
  /\ \A ls, p \in Seq(Text) : LineWindows(ls, p) \in SUBSET (0..(Len(ls) + 1)) /\ Len(ls) + 1 \in Nat
  <1>1. ASSUME NEW t \in Text, NEW p \in Text
        PROVE  Occurrences(t, p) \in SUBSET (0..(Len(t) + 1)) /\ Len(t) + 1 \in Nat
    <2>1. Len(t) \in Nat /\ Len(p) \in Nat
      BY TextIsSeq
    <2>2. \A i \in 1..(Len(t) - Len(p) + 1) : i \in 0..(Len(t) + 1)
      BY <2>1
    <2> QED BY <2>1, <2>2 DEF Occurrences
  <1>2. ASSUME NEW ls \in Seq(Text), NEW p \in Seq(Text)
        PROVE  LineWindows(ls, p) \in SUBSET (0..(Len(ls) + 1)) /\ Len(ls) + 1 \in Nat
    <2>1. Len(ls) \in Nat /\ Len(p) \in Nat
      OBVIOUS
    <2>2. \A i \in 1..(Len(ls) - Len(p) + 1) : i \in 0..(Len(ls) + 1)
      BY <2>1
    <2> QED BY <2>1, <2>2 DEF LineWindows
  <1> QED BY <1>1, <1>2

\* It is the level of the result.
LEMMA LevelOf ==
  ASSUME result = FuzzyReplace, result.how # "missing"
  PROVE  \E k \in 1..4 : /\ Tried[k] # Missing /\ result = [Tried[k] EXCEPT !.level = k]
                          /\ result.level = k
  <1>1. PICK k \in 1..4 : Tried[k] # Missing /\ result = [Tried[k] EXCEPT !.level = k]
    <2>1. result # Missing
      BY DEF Missing
    <2> QED BY <2>1, FirstHit
  <1>2. result.level = k
    <2>1. \A m, t : Decided(m, t) = Ambiguous \/ Decided(m, t) = Replaced(t) \/ Decided(m, t) = Missing
      BY DEF Decided
    <2>2. Tried[k] = Ambiguous \/ Tried[k] = Missing \/ \E t : Tried[k] = Replaced(t)
      <3>1. k = 1 \/ k = 2 \/ k = 3 \/ k = 4
        OBVIOUS
      <3>2. CASE k = 1
        <4>1. Tried[k] = ExactReplace(content, old)
          BY <3>2 DEF Tried
        <4> QED BY <2>1, <4>1 DEF ExactReplace
      <3>3. CASE k = 2
        <4>1. Tried[k] = ExactReplace(NormContent, NormOld)
          BY <3>3 DEF Tried
        <4> QED BY <2>1, <4>1 DEF ExactReplace
      <3>4. CASE k = 3
        <4>1. Tried[k] = TrimmedReplace(NormContent, NormOld)
          BY <3>4 DEF Tried
        <4> QED BY <2>1, <4>1 DEF ExactReplace, TrimmedReplace
      <3>5. CASE k = 4
        <4>1. Tried[k] = LineByLineReplace(NormContent, NormOld)
          BY <3>5 DEF Tried
        <4> QED BY <2>1, <4>1 DEF LineByLineReplace
      <3> QED BY <3>1, <3>2, <3>3, <3>4, <3>5
    <2> QED BY <1>1, <2>2 DEF Ambiguous, Replaced
  <1> QED BY <1>1, <1>2

\* The third level does not look for nothing.
LEMMA ThirdLevel ==
  ASSUME result = FuzzyReplace, result.how # "missing", result.level = 3
  PROVE  TrimSpace(NormOld) # <<>>
  <1>1. Tried[3] # Missing
    BY LevelOf
  <1>2. Tried[3] = TrimmedReplace(NormContent, NormOld)
    BY DEF Tried
  <1> QED BY <1>1, <1>2 DEF TrimmedReplace

\* What a level that decided looked for, what it found, and what it made of it.
Spliceable ==
  IF result.level < 4
  THEN Spliced(Base, NonOverlapping(Places, Width), Width, [i \in NonOverlapping(Places, Width) |-> new])
  ELSE Join(Spliced(Lines(Base), NonOverlapping(Places, Width), Width,
              [i \in NonOverlapping(Places, Width) |-> Reindent(new, BasePrefix(Lines(Base)[i]))]))

\* What the level that decided returned.
LEMMA Deciding ==
  ASSUME result = FuzzyReplace, result.how # "missing"
  PROVE  /\ result.level \in 1..4
         /\ NonOverlapping(Places, Width) # {}
         /\ \/ /\ result.how = "ambiguous" /\ ~replaceAll
               /\ Cardinality(NonOverlapping(Places, Width)) > 1
            \/ /\ result.how = "replaced" /\ result.text = Spliceable
               /\ replaceAll \/ ~(Cardinality(NonOverlapping(Places, Width)) > 1)
  <1>1. PICK k \in 1..4 : /\ Tried[k] # Missing /\ result = [Tried[k] EXCEPT !.level = k]
                           /\ result.level = k
    BY LevelOf
  <1>3. result.level = k
    BY <1>1
  <1> DEFINE M == NonOverlapping(Places, Width)
  <1>2. ASSUME NEW t, Tried[k] = Decided(M, t), result.level = k => t = Spliceable
        PROVE  /\ result.level \in 1..4
               /\ M # {}
               /\ \/ result.how = "ambiguous" /\ ~replaceAll /\ Cardinality(M) > 1
                  \/ /\ result.how = "replaced" /\ result.text = Spliceable
                     /\ replaceAll \/ ~(Cardinality(M) > 1)
    <2> HIDE DEF M
    <2>1. M # {}
      BY <1>1, <1>2, DecidedCases
    <2>2. CASE Decided(M, t) = Ambiguous /\ Cardinality(M) > 1 /\ ~replaceAll
      <3>1. result = [how |-> "ambiguous", level |-> k, text |-> <<>>]
        BY <1>1, <1>2, <2>2 DEF Ambiguous
      <3> QED BY <2>1, <2>2, <3>1
    <2>3. CASE Decided(M, t) = Replaced(t) /\ (replaceAll \/ ~(Cardinality(M) > 1))
      <3>1. result = [how |-> "replaced", level |-> k, text |-> t]
        BY <1>1, <1>2, <2>3 DEF Replaced
      <3> QED BY <1>2, <2>1, <2>3, <3>1
    <2> QED BY <2>1, <2>2, <2>3, DecidedCases
  <1>4. CASE k = 1
    <2>1. Places = Occurrences(content, old) /\ Width = Len(old) /\ Base = content
      BY <1>3, <1>4 DEF Places, Width, Base, Written
    <2>2. Tried[k] = Decided(M, Spliced(content, M, Len(old), [i \in M |-> new]))
      BY <1>4, <2>1 DEF Tried, ExactReplace
    <2>3. Spliceable = Spliced(content, M, Len(old), [i \in M |-> new])
      BY <1>3, <1>4, <2>1 DEF Spliceable
    <2> HIDE DEF M
    <2>4. PICK t : t = Spliced(content, M, Len(old), [i \in M |-> new])
      OBVIOUS
    <2>5. Tried[k] = Decided(M, t) /\ t = Spliceable
      BY <2>2, <2>3, <2>4
    <2> QED BY <1>2, <2>5 DEF M
  <1>5. CASE k = 2
    <2>1. Places = Occurrences(NormContent, NormOld) /\ Width = Len(NormOld) /\ Base = NormContent
      BY <1>3, <1>5 DEF Places, Width, Base, Written, NormContent, NormOld
    <2>2. Tried[k] = Decided(M, Spliced(NormContent, M, Len(NormOld), [i \in M |-> new]))
      BY <1>5, <2>1 DEF Tried, ExactReplace
    <2>3. Spliceable = Spliced(NormContent, M, Len(NormOld), [i \in M |-> new])
      BY <1>3, <1>5, <2>1 DEF Spliceable
    <2> HIDE DEF M
    <2>4. PICK t : t = Spliced(NormContent, M, Len(NormOld), [i \in M |-> new])
      OBVIOUS
    <2>5. Tried[k] = Decided(M, t) /\ t = Spliceable
      BY <2>2, <2>3, <2>4
    <2> QED BY <1>2, <2>5 DEF M
  <1>6. CASE k = 3
    <2>1. Places = Occurrences(NormContent, TrimSpace(NormOld)) /\ Width = Len(TrimSpace(NormOld))
          /\ Base = NormContent
      BY <1>3, <1>6 DEF Places, Width, Base, Written, NormContent, NormOld
    <2>0. Tried[k] = ExactReplace(NormContent, TrimSpace(NormOld))
      <3>1. Tried[k] = TrimmedReplace(NormContent, NormOld)
        BY <1>6 DEF Tried
      <3> QED BY <1>1, <3>1 DEF TrimmedReplace
    <2>2. Tried[k] = Decided(M, Spliced(NormContent, M, Len(TrimSpace(NormOld)), [i \in M |-> new]))
      BY <2>0, <2>1 DEF ExactReplace
    <2>3. Spliceable = Spliced(NormContent, M, Len(TrimSpace(NormOld)), [i \in M |-> new])
      BY <1>3, <1>6, <2>1 DEF Spliceable
    <2> HIDE DEF M
    <2>4. PICK t : t = Spliced(NormContent, M, Len(TrimSpace(NormOld)), [i \in M |-> new])
      OBVIOUS
    <2>5. Tried[k] = Decided(M, t) /\ t = Spliceable
      BY <2>2, <2>3, <2>4
    <2> QED BY <1>2, <2>5 DEF M
  <1>7. CASE k = 4
    <2>1. Places = LineWindows(Lines(NormContent), Lines(NormOld)) /\ Width = Len(Lines(NormOld))
          /\ Base = NormContent
      BY <1>3, <1>7 DEF Places, Width, Base, Written, NormContent, NormOld
    <2> DEFINE made == Join(Spliced(Lines(NormContent), M, Len(Lines(NormOld)),
                              [i \in M |-> Reindent(new, BasePrefix(Lines(NormContent)[i]))]))
    <2>2. Tried[k] = Decided(M, made)
      BY <1>7, <2>1 DEF Tried, LineByLineReplace
    <2>3. Spliceable = made
      BY <1>3, <1>7, <2>1 DEF Spliceable
    <2> HIDE DEF M, made
    <2> QED BY <1>2, <2>2, <2>3 DEF M
  <1> HIDE DEF M
  <1>8. k = 1 \/ k = 2 \/ k = 3 \/ k = 4
    OBVIOUS
  <1> USE DEF M
  <1> QED BY <1>4, <1>5, <1>6, <1>7, <1>8

-----------------------------------------------------------------------------
(* A miss.                                                                 *)

\* Lines that stand in a text, whatever its line endings, are a window of its lines.
LEMMA WindowOfLines ==
  ASSUME NEW t \in Text, NEW p \in Text, NEW i \in 1..(Len(t) + 1), NEW j \in (i - 1)..Len(t),
         WholeLines(t, i, j), SameRead(Lines(SubSeq(t, i, j)), Lines(p))
  PROVE  LineWindows(Lines(NormalizeLineEndings(t)), Lines(NormalizeLineEndings(p))) # {}
  <1>1. PICK a, m, b, L, P :
          /\ m = Lines(SubSeq(t, i, j)) /\ Lines(t) = a \o (m \o b)
          /\ a \in Seq(Text) /\ b \in Seq(Text)
          /\ L = Lines(NormalizeLineEndings(t)) /\ P = Lines(NormalizeLineEndings(p))
    <2>1. PICK a \in Seq(Text), b \in Seq(Text) : Lines(t) = a \o (Lines(SubSeq(t, i, j)) \o b)
      BY WholeLinesSplit
    <2> QED BY <2>1
  <1>2. SameRead(L, a \o (m \o b)) /\ SameRead(P, Lines(p)) /\ SameRead(m, Lines(p))
    BY <1>1, NormLines
  <1>3. m \in Seq(Text) /\ Len(L) = Len(a \o (m \o b)) /\ Len(P) = Len(m)
        /\ L \in Seq(Text) /\ P \in Seq(Text)
    BY <1>2 DEF SameRead
  <1>4. /\ Len(a \o (m \o b)) = Len(a) + Len(m) + Len(b)
        /\ \A k \in 1..Len(a \o (m \o b)) :
             (a \o (m \o b))[k] = IF k <= Len(a) THEN a[k]
                        ELSE IF k <= Len(a) + Len(m) THEN m[k - Len(a)]
                        ELSE b[k - Len(a) - Len(m)]
    <2>1. HasParts(Text, a \o (m \o b), a, m, b)
      BY <1>1, <1>3, Middle
    <2> QED BY <2>1 DEF HasParts
  <1>5. Len(a) \in Nat /\ Len(m) \in Nat /\ Len(b) \in Nat /\ DOMAIN P = 1..Len(m)
    BY <1>1, <1>3
  <1>6. PICK w \in Nat : w = Len(a) + 1
    BY <1>5
  <1>7. w \in 1..(Len(L) - Len(P) + 1)
    BY <1>3, <1>4, <1>5, <1>6
  <1>8. ASSUME NEW k \in DOMAIN P PROVE TrimSpace(L[w + k - 1]) = TrimSpace(P[k])
    <2>1. PICK l \in Nat : l = w + k - 1
      BY <1>5, <1>6
    <2>0. k \in 1..Len(m) /\ k \in Int
      BY <1>5
    <2>2. /\ l \in 1..Len(a \o (m \o b)) /\ ~(l <= Len(a)) /\ l <= Len(a) + Len(m) /\ l - Len(a) = k
          /\ k \in 1..Len(m)
      <3>1. l = Len(a) + k
        BY <1>5, <1>6, <2>0, <2>1
      <3>2. PICK A, B, C \in Nat : A = Len(a) /\ B = Len(m) /\ C = Len(b)
        BY <1>5
      <3>3. PICK N : N = Len(a \o (m \o b))
        OBVIOUS
      <3>4. N = A + B + C
        BY <1>4, <3>2, <3>3
      <3>5. l \in 1..N /\ ~(l <= A) /\ l <= A + B /\ l - A = k
        BY <2>0, <3>1, <3>2, <3>4
      <3> QED BY <2>0, <3>2, <3>3, <3>5
    <2>3. (a \o (m \o b))[l] = m[k]
      BY <1>4, <2>2
    <2>4. TrimSpace(L[l]) = TrimSpace((a \o (m \o b))[l])
      BY <1>2, <1>3, <2>2 DEF SameRead
    <2>5. TrimSpace(m[k]) = TrimSpace(Lines(p)[k]) /\ TrimSpace(P[k]) = TrimSpace(Lines(p)[k])
      BY <1>2, <1>3, <2>2 DEF SameRead
    <2> QED BY <2>1, <2>3, <2>4, <2>5
  <1>9. w \in LineWindows(L, P)
    BY <1>7, <1>8 DEF LineWindows
  <1> QED BY <1>1, <1>9

\* No level found anything.
LEMMA AllMissing ==
  ASSUME result = FuzzyReplace, result.how = "missing", content \in Text, old \in Text
  PROVE  /\ Occurrences(content, old) = {}
         /\ LineWindows(Lines(NormContent), Lines(NormOld)) = {}
  <1>1. \A k \in 1..4 : Tried[k] = Missing
    <2>1. ASSUME NEW k \in 1..4, Tried[k] # Missing, result = [Tried[k] EXCEPT !.level = k]
          PROVE FALSE
      <3>1. CASE k = 1
        <4>1. Tried[k] = ExactReplace(content, old)
          BY <3>1 DEF Tried
        <4> QED BY <2>1, <4>1 DEF ExactReplace, Decided, Missing, Ambiguous, Replaced
      <3>2. CASE k = 2
        <4>1. Tried[k] = ExactReplace(NormContent, NormOld)
          BY <3>2 DEF Tried
        <4> QED BY <2>1, <4>1 DEF ExactReplace, Decided, Missing, Ambiguous, Replaced
      <3>3. CASE k = 3
        <4>1. Tried[k] = ExactReplace(NormContent, TrimSpace(NormOld))
          <5>1. Tried[k] = TrimmedReplace(NormContent, NormOld)
            BY <3>3 DEF Tried
          <5> QED BY <2>1, <5>1 DEF TrimmedReplace
        <4> QED BY <2>1, <4>1 DEF ExactReplace, Decided, Missing, Ambiguous, Replaced
      <3>4. CASE k = 4
        <4>1. Tried[k] = LineByLineReplace(NormContent, NormOld)
          BY <3>4 DEF Tried
        <4> QED BY <2>1, <4>1 DEF LineByLineReplace, Decided, Missing, Ambiguous, Replaced
      <3> QED BY <3>1, <3>2, <3>3, <3>4
    <2> QED BY <2>1, FirstHit
  <1>2. Tried[1] = Missing /\ Tried[4] = Missing
    BY <1>1
  <1>3. NormContent \in Text /\ NormOld \in Text
    BY NormType DEF NormContent, NormOld
  <1>4. Occurrences(content, old) = {}
    <2>1. ExactReplace(content, old) = Missing
      BY <1>2 DEF Tried
    <2>2. NonOverlapping(Occurrences(content, old), Len(old)) = {}
      BY <2>1, DecidedCases DEF ExactReplace
    <2>3. PICK m \in Nat : Occurrences(content, old) \in SUBSET (0..m)
      BY PlacesBound
    <2>4. Len(old) \in Nat
      BY TextIsSeq
    <2> QED BY <2>2, <2>3, <2>4, TakenApart
  <1>5. LineWindows(Lines(NormContent), Lines(NormOld)) = {}
    <2>1. LineByLineReplace(NormContent, NormOld) = Missing
      BY <1>2 DEF Tried
    <2>2. NonOverlapping(LineWindows(Lines(NormContent), Lines(NormOld)), Len(Lines(NormOld))) = {}
      BY <2>1, DecidedCases DEF LineByLineReplace
    <2>3. Lines(NormContent) \in Seq(Text) /\ Lines(NormOld) \in Seq(Text)
      BY <1>3, LinesAppend
    <2>4. PICK m \in Nat : LineWindows(Lines(NormContent), Lines(NormOld)) \in SUBSET (0..m)
      BY <2>3, PlacesBound
    <2>5. Len(Lines(NormOld)) \in Nat
      BY <2>3
    <2> QED BY <2>2, <2>4, <2>5, TakenApart
  <1> QED BY <1>4, <1>5

\* A miss is real.
LEMMA MissHolds ==
  ASSUME result = FuzzyReplace, content \in Text, old \in Text
  PROVE  MissIsReal
  <1> SUFFICES ASSUME result.how = "missing"
               PROVE  /\ Occurrences(content, old) = {}
                      /\ \A i \in 1..(Len(content) + 1) : \A j \in (i - 1)..Len(content) :
                           ~ReadsLineByLine(i, j)
    BY DEF MissIsReal
  <1>1. /\ Occurrences(content, old) = {}
        /\ LineWindows(Lines(NormContent), Lines(NormOld)) = {}
    BY AllMissing
  <1>2. ASSUME NEW i \in 1..(Len(content) + 1), NEW j \in (i - 1)..Len(content), ReadsLineByLine(i, j)
        PROVE  FALSE
    <2>1. PICK M, P : M = Lines(SubSeq(content, i, j)) /\ P = Lines(old)
      OBVIOUS
    <2>2. WholeLines(content, i, j)
          /\ [k \in DOMAIN M |-> TrimSpace(M[k])] = [k \in DOMAIN P |-> TrimSpace(P[k])]
      BY <1>2, <2>1 DEF ReadsLineByLine
    <2>3. M \in Seq(Text) /\ P \in Seq(Text)
      <3>1. SubSeq(content, i, j) \in Text
        BY TextIsSeq, Part
      <3> QED BY <2>1, <3>1, LinesAppend
    <2>4. DOMAIN M = DOMAIN P /\ \A k \in DOMAIN M : TrimSpace(M[k]) = TrimSpace(P[k])
      <3>1. PICK f, g : f = [k \in DOMAIN M |-> TrimSpace(M[k])] /\ g = [k \in DOMAIN P |-> TrimSpace(P[k])]
        OBVIOUS
      <3>2. DOMAIN f = DOMAIN M /\ DOMAIN g = DOMAIN P /\ f = g
        BY <2>2, <3>1
      <3>3. \A k \in DOMAIN M : f[k] = TrimSpace(M[k]) /\ g[k] = TrimSpace(P[k])
        BY <3>1, <3>2
      <3> QED BY <3>2, <3>3
    <2>5. SameRead(M, P)
      <3>1. DOMAIN M = 1..Len(M) /\ DOMAIN P = 1..Len(P) /\ Len(M) \in Nat /\ Len(P) \in Nat
        BY <2>3
      <3>2. Len(M) = Len(P)
        <4>1. PICK a \in Nat, b \in Nat : a = Len(M) /\ b = Len(P)
          BY <3>1
        <4>2. 1..a = 1..b
          BY <2>4, <3>1, <4>1
        <4>3. a = b
          <5>1. a >= 1 => a \in 1..b
            BY <4>2
          <5>2. b >= 1 => b \in 1..a
            BY <4>2
          <5> QED BY <5>1, <5>2
        <4> QED BY <4>1, <4>3
      <3> QED BY <2>3, <2>4, <3>1, <3>2 DEF SameRead
    <2>6. LineWindows(Lines(NormContent), Lines(NormOld)) # {}
      BY <2>1, <2>2, <2>5, WindowOfLines DEF NormContent, NormOld
    <2> QED BY <1>1, <2>6
  <1> QED BY <1>1, <1>2

-----------------------------------------------------------------------------
(* Splices.                                                                *)

\* Empty parts make nothing.
LEMMA EmptyParts ==
  ASSUME NEW parts \in Seq({<<>>})
  PROVE  Concat(parts) = <<>>
  <1> DEFINE S == {s \in Seq({<<>>}) : Concat(s) = <<>>}
  <1>0. \A s \in Seq({<<>>}) : s \in Seq(Text)
    <2>1. PICK T : T = Text
      OBVIOUS
    <2>2. {<<>>} \subseteq T
      BY <2>1, NewLine
    <2>3. \A s \in Seq({<<>>}) : s \in Seq(T)
      BY <2>2, SeqMonotonic
    <2> QED BY <2>1, <2>3
  <1>1. <<>> \in S
    BY EmptySeq, ConcatStart
  <1>2. ASSUME NEW s \in S, NEW e \in {<<>>} PROVE Append(s, e) \in S
    <2>1. Concat(Append(s, e)) = <<>> \o <<>>
      <3>1. s \in Seq(Seq(Char)) /\ e \in Seq(Char)
        BY <1>0, TextIsSeq, EmptySeq
      <3> QED BY <3>1, ConcatAppend
    <2>2. <<>> \o <<>> = <<>>
      BY NewLine, TextCat
    <2>3. Append(s, e) \in Seq({<<>>})
      BY AppendProperties
    <2> QED BY <2>1, <2>2, <2>3
  <1>3. S \in SUBSET Seq({<<>>})
    OBVIOUS
  <1>4. parts \in S
    <2> HIDE DEF S
    <2>1. PICK F : F = {<<>>}
      OBVIOUS
    <2> QED BY <1>1, <1>2, <1>3, <2>1, SeqInduct
  <1> QED BY <1>4

\* Of single elements s is made of.
Singles(s) == [i \in DOMAIN s |-> <<s[i]>>]

\* They make it up again.
LEMMA SinglesType ==
  ASSUME NEW E, NEW s \in Seq(E)
  PROVE  /\ Singles(s) \in Seq(Seq(E)) /\ Len(Singles(s)) = Len(s)
         /\ \A i \in 1..Len(s) : Singles(s)[i] = <<s[i]>>
         /\ Concat(Singles(s)) = s
  <1> DEFINE h == [e \in E |-> <<e>>]
             S == {t \in Seq(E) : Flat(h, t) = t}
  <1>1. MakesParts(h, E, E)
    BY DEF MakesParts
  <1>2. \A e \in E : h[e] = <<e>>
    OBVIOUS
  <1>3. Map(h, s) = Singles(s)
    <2>1. \A i \in DOMAIN s : s[i] \in E
      OBVIOUS
    <2> QED BY <1>2, <2>1 DEF Map, Singles
  <1> HIDE DEF h
  <1>4. PartByPart(h, E, E)
    BY <1>1, FlatCat
  <1>5. <<>> \in S
    BY <1>4, EmptySeq DEF PartByPart
  <1>6. ASSUME NEW t \in S, NEW e \in E PROVE Append(t, e) \in S
    <2>1. Flat(h, Append(t, e)) = t \o <<e>>
      BY <1>2, <1>4, <1>6 DEF PartByPart
    <2>2. Append(t, e) = t \o <<e>> /\ Append(t, e) \in Seq(E)
      BY <1>6, AppendIsConcat, AppendProperties
    <2> QED BY <2>1, <2>2
  <1>7. S \in SUBSET Seq(E)
    OBVIOUS
  <1>8. s \in S
    <2> HIDE DEF S
    <2> QED BY <1>5, <1>6, <1>7, SeqInduct
  <1>9. Concat(Singles(s)) = s
    BY <1>3, <1>8 DEF Flat
  <1>10. Len(Singles(s)) = Len(s)
    BY <1>3, MapLen
  <1>11. Singles(s) \in Seq(Seq(E))
    <2>1. Singles(s) \in [1..Len(s) -> Seq(E)] /\ Len(s) \in Nat
      <3>1. \A i \in 1..Len(s) : <<s[i]>> \in Seq(E)
        OBVIOUS
      <3> QED BY <3>1 DEF Singles
    <2>2. PICK F : F = Seq(E)
      OBVIOUS
    <2> QED BY <2>1, <2>2, SeqDef
  <1> QED BY <1>9, <1>10, <1>11 DEF Singles

SpliceParts(s, places, width, segment) ==
  [i \in DOMAIN s |->
    IF i \in places THEN segment[i]
    ELSE IF \E j \in places : j < i /\ i < j + width THEN <<>>
    ELSE <<s[i]>>]

\* What is put in a place is a sequence of elements of E.
Segments(segment, places, E) == \A i \in places : segment[i] \in Seq(E)

\* A splice is made element by element.
LEMMA SplicePartsType ==
  ASSUME NEW E, NEW s \in Seq(E), NEW places, NEW width, NEW segment,
         Segments(segment, places, E)
  PROVE  /\ Spliced(s, places, width, segment) = Concat(SpliceParts(s, places, width, segment))
         /\ SpliceParts(s, places, width, segment) \in Seq(Seq(E))
         /\ Len(SpliceParts(s, places, width, segment)) = Len(s)
         /\ Spliced(s, places, width, segment) \in Seq(E)
  <1>1. DOMAIN s = 1..Len(s) /\ Len(s) \in Nat
    OBVIOUS
  <1>2. \A i \in 1..Len(s) : <<s[i]>> \in Seq(E) /\ <<>> \in Seq(E)
    BY EmptySeq
  <1>3. SpliceParts(s, places, width, segment) \in [1..Len(s) -> Seq(E)]
    BY <1>1, <1>2 DEF SpliceParts, Segments
  <1>4. SpliceParts(s, places, width, segment) \in Seq(Seq(E))
    <2>1. PICK F : F = Seq(E)
      OBVIOUS
    <2> QED BY <1>1, <1>3, <2>1, SeqDef
  <1>5. Len(SpliceParts(s, places, width, segment)) = Len(s)
    <2>1. PICK F, p : F = Seq(E) /\ p = SpliceParts(s, places, width, segment)
      OBVIOUS
    <2>2. p \in [1..Len(s) -> F] /\ p \in Seq(F)
      BY <1>3, <1>4, <2>1
    <2>3. Len(p) = Len(s)
      BY <1>1, <2>2
    <2> QED BY <2>1, <2>3
  <1>6. Spliced(s, places, width, segment) = Concat(SpliceParts(s, places, width, segment))
    BY DEF Spliced, SpliceParts
  <1>7. Concat(SpliceParts(s, places, width, segment)) \in Seq(E)
    BY <1>4, ConcatAppend, ConcatStart
  <1> QED BY <1>4, <1>5, <1>6, <1>7

\* Nothing is replaced.
LEMMA NoSplice ==
  ASSUME NEW E, NEW s \in Seq(E), NEW width, NEW segment
  PROVE  Spliced(s, {}, width, segment) = s
  <1>1. SpliceParts(s, {}, width, segment) = Singles(s)
    BY DEF SpliceParts, Singles
  <1>2. Spliced(s, {}, width, segment) = Concat(SpliceParts(s, {}, width, segment))
    BY DEF Spliced, SpliceParts
  <1> QED BY <1>1, <1>2, SinglesType

Greatest(last, places) == last \in places /\ \A j \in places : j <= last

\* The last place that is replaced: before it the others are, behind it nothing is.
SplicedLast(s, places, width, segment, last) ==
  Spliced(s, places, width, segment)
    = Spliced(SubSeq(s, 1, last - 1), places \ {last}, width, segment)
        \o (segment[last] \o SubSeq(s, last + width, Len(s)))

LEMMA LastSplice ==
  ASSUME NEW E, NEW s \in Seq(E), NEW width \in Nat \ {0}, NEW places, NEW segment,
         places \subseteq 1..(Len(s) - width + 1), Segments(segment, places, E),
         NEW last, Greatest(last, places)
  PROVE  SplicedLast(s, places, width, segment, last)
  <1>1. Len(s) \in Nat /\ width \in Nat /\ width >= 1 /\ last \in Int /\ 1 <= last
        /\ last + width <= Len(s) + 1 /\ \A j \in places : j \in Int
    BY DEF Greatest
  <1>0. last \in places /\ \A j \in places : j <= last
    BY DEF Greatest
  <1>2. PICK n \in Nat : n = last + width
    BY <1>1
  <1>3. PICK a, w, b : a = SubSeq(s, 1, last - 1) /\ w = SubSeq(s, last, n - 1) /\ b = SubSeq(s, n, Len(s))
    OBVIOUS
  <1>4. /\ s = a \o (w \o b)
        /\ a \in Seq(E) /\ Len(a) = last - 1
        /\ w \in Seq(E) /\ Len(w) = width
        /\ b \in Seq(E) /\ Len(b) = Len(s) - n + 1
    <2>0. PICK i \in 1..(Len(s) + 1) : i = last
      BY <1>1
    <2>1. PICK j \in (i - 1)..Len(s) : j = n - 1
      BY <1>1, <1>2, <2>0
    <2>2. j + 1 = n /\ j - i + 1 = width /\ Len(s) - j = Len(s) - n + 1
      BY <1>1, <1>2, <2>0, <2>1
    <2>3. /\ s = SubSeq(s, 1, i - 1) \o (SubSeq(s, i, j) \o SubSeq(s, j + 1, Len(s)))
          /\ SubSeq(s, 1, i - 1) \in Seq(E) /\ Len(SubSeq(s, 1, i - 1)) = i - 1
          /\ SubSeq(s, i, j) \in Seq(E) /\ Len(SubSeq(s, i, j)) = j - i + 1
          /\ SubSeq(s, j + 1, Len(s)) \in Seq(E) /\ Len(SubSeq(s, j + 1, Len(s))) = Len(s) - j
      <3>1. InParts(E, s, i, j)
        BY Parted
      <3> QED BY <3>1 DEF InParts
    <2> QED BY <1>3, <2>0, <2>1, <2>2, <2>3
  <1>5. \A k \in 1..Len(s) : s[k] = IF k <= Len(a) THEN a[k]
                        ELSE IF k <= Len(a) + Len(w) THEN w[k - Len(a)]
                        ELSE b[k - Len(a) - Len(w)]
    <2>1. HasParts(E, a \o (w \o b), a, w, b)
      BY <1>4, Middle
    <2> QED BY <1>4, <2>1 DEF HasParts
  <1> DEFINE others == places \ {last}
             pa == SpliceParts(a, others, width, segment)
             none == [k \in 1..(width - 1) |-> <<>>]
             pw == <<segment[last]>> \o none
             pb == Singles(b)
             p == SpliceParts(s, places, width, segment)
  <1>6. /\ pa \in Seq(Seq(E)) /\ Len(pa) = last - 1
        /\ Spliced(a, others, width, segment) = Concat(pa)
    <2>1. Segments(segment, others, E)
      BY DEF Segments
    <2> HIDE DEF others
    <2> QED BY <1>4, <2>1, SplicePartsType
  <1>7. /\ pb \in Seq(Seq(E)) /\ Len(pb) = Len(b) /\ Concat(pb) = b
        /\ \A k \in 1..Len(b) : pb[k] = <<b[k]>>
    BY <1>4, SinglesType
  <1>8. /\ none \in Seq({<<>>}) /\ Len(none) = width - 1 /\ none \in Seq(Seq(E))
        /\ \A k \in 1..(width - 1) : none[k] = <<>>
    <2>1. PICK m \in Nat : m = width - 1
      BY <1>1
    <2>2. PICK f : f = [k \in 1..m |-> <<>>]
      OBVIOUS
    <2>3. f \in [1..m -> {<<>>}] /\ f = none
      BY <2>1, <2>2
    <2>4. f \in Seq({<<>>})
      BY <2>3, SeqDef
    <2>5. Len(f) = m
      BY <2>3, <2>4
    <2>6. f \in Seq(Seq(E))
      <3>1. PICK F : F = Seq(E)
        OBVIOUS
      <3>2. {<<>>} \subseteq F
        BY <3>1, EmptySeq
      <3> QED BY <2>4, <3>1, <3>2, SeqMonotonic
    <2> QED BY <2>1, <2>2, <2>3, <2>4, <2>5, <2>6
  <1>9. /\ p \in Seq(Seq(E)) /\ Len(p) = Len(s)
        /\ Spliced(s, places, width, segment) = Concat(p)
    BY SplicePartsType
  <1>10. PICK first \in Seq(Seq(E)) : /\ first = <<segment[last]>> /\ Len(first) = 1
                                      /\ first[1] = segment[last] /\ Concat(first) = segment[last]
    <2>1. PICK x \in Seq(E) : x = segment[last]
      BY <1>0 DEF Segments
    <2>2. <<x>> \in Seq(Seq(E)) /\ Len(<<x>>) = 1 /\ <<x>>[1] = x
      OBVIOUS
    <2>3. Concat(<<x>>) = x
      <3>1. <<x>> = Append(<<>>, x) /\ <<>> \in Seq(Seq(E))
        BY ConcatStart
      <3>2. Concat(Append(<<>>, x)) = <<>> \o x
        BY <3>1, ConcatAppend, ConcatStart
      <3>3. <<>> \o x = x
        BY ConcatEmptySeq
      <3> QED BY <3>1, <3>2, <3>3
    <2> QED BY <2>1, <2>2, <2>3
  <1> HIDE DEF pa, none, pb
  <1>11. /\ pw \in Seq(Seq(E)) /\ Len(pw) = width /\ Concat(pw) = segment[last]
         /\ pw[1] = segment[last] /\ \A k \in 2..width : pw[k] = <<>>
    <2>0. pw = first \o none
      BY <1>10
    <2> HIDE DEF pw
    <2>1. PICK g \in Seq(Seq(E)) : g = none
      BY <1>8
    <2>2. /\ first \o g \in Seq(Seq(E)) /\ Len(first \o g) = Len(first) + Len(g)
          /\ \A k \in 1..(Len(first) + Len(g)) :
               (first \o g)[k] = IF k <= Len(first) THEN first[k] ELSE g[k - Len(first)]
      <3>1. PICK F : F = Seq(E)
        OBVIOUS
      <3>2. first \in Seq(F) /\ g \in Seq(F)
        BY <3>1
      <3>3. /\ first \o g \in Seq(F) /\ Len(first \o g) = Len(first) + Len(g)
            /\ \A k \in 1..(Len(first) + Len(g)) :
                 (first \o g)[k] = IF k <= Len(first) THEN first[k] ELSE g[k - Len(first)]
        BY <3>2, ConcatProperties
      <3> QED BY <3>1, <3>3
    <2>3. Len(first) + Len(g) = width
      BY <1>1, <1>8, <1>10, <2>1
    <2>4. pw[1] = segment[last]
      <3>1. 1 \in 1..(Len(first) + Len(g)) /\ 1 <= Len(first)
        BY <1>1, <1>10, <2>3
      <3> QED BY <1>10, <2>0, <2>1, <2>2, <3>1
    <2>5. ASSUME NEW k \in 2..width PROVE pw[k] = <<>>
      <3>1. k \in 1..(Len(first) + Len(g)) /\ ~(k <= Len(first)) /\ k - Len(first) \in 1..(width - 1)
        BY <1>1, <1>10, <2>3
      <3> QED BY <1>8, <2>0, <2>1, <2>2, <3>1
    <2>6. Concat(first \o g) = Concat(first) \o Concat(g)
      BY ConcatCat
    <2>7. Concat(g) = <<>> /\ segment[last] \o <<>> = segment[last]
      BY <1>8, <2>1, EmptyParts, ConcatEmptySeq
    <2> QED BY <1>10, <2>0, <2>1, <2>2, <2>3, <2>4, <2>5, <2>6, <2>7
  <1> HIDE DEF pw
  <1>12. PICK q \in Seq(Seq(E)) : /\ q = pa \o (pw \o pb) /\ Len(q) = Len(pa) + Len(pw) + Len(pb)
                                  /\ \A k \in 1..Len(q) :
                                       q[k] = IF k <= Len(pa) THEN pa[k]
                                              ELSE IF k <= Len(pa) + Len(pw) THEN pw[k - Len(pa)]
                                              ELSE pb[k - Len(pa) - Len(pw)]
    <2>1. PICK F : F = Seq(E)
      OBVIOUS
    <2>2. pa \in Seq(F) /\ pw \in Seq(F) /\ pb \in Seq(F)
      BY <1>6, <1>7, <1>11, <2>1
    <2>3. /\ pa \o (pw \o pb) \in Seq(F) /\ Len(pa \o (pw \o pb)) = Len(pa) + Len(pw) + Len(pb)
          /\ \A k \in 1..Len(pa \o (pw \o pb)) :
               (pa \o (pw \o pb))[k] = IF k <= Len(pa) THEN pa[k]
                                       ELSE IF k <= Len(pa) + Len(pw) THEN pw[k - Len(pa)]
                                       ELSE pb[k - Len(pa) - Len(pw)]
      <3>1. HasParts(F, pa \o (pw \o pb), pa, pw, pb)
        BY <2>2, Middle
      <3> QED BY <3>1 DEF HasParts
    <2> QED BY <2>1, <2>3
  <1>13. Len(q) = Len(s)
    BY <1>1, <1>2, <1>4, <1>6, <1>7, <1>11, <1>12
  <1>14. ASSUME NEW k \in 1..Len(s) PROVE p[k] = q[k]
    <2>0. k \in Int /\ k \in DOMAIN s /\ Len(pa) = last - 1 /\ Len(pw) = width /\ Len(a) = last - 1
          /\ Len(w) = width /\ DOMAIN a = 1..Len(a)
      BY <1>4, <1>6, <1>11
    <2>1. p[k] = IF k \in places THEN segment[k]
                 ELSE IF \E j \in places : j < k /\ k < j + width THEN <<>>
                 ELSE <<s[k]>>
      BY <2>0 DEF SpliceParts
    <2>2. CASE k < last
      <3>1. k <= Len(pa) /\ k \in DOMAIN a /\ k # last /\ k <= Len(a)
        BY <1>1, <2>0, <2>2
      <3>2. q[k] = pa[k] /\ s[k] = a[k]
        BY <1>5, <1>12, <1>13, <3>1
      <3>3. pa[k] = IF k \in others THEN segment[k]
                    ELSE IF \E j \in others : j < k /\ k < j + width THEN <<>>
                    ELSE <<a[k]>>
        BY <3>1 DEF pa, SpliceParts
      <3>4. k \in others <=> k \in places
        BY <3>1
      <3>5. (\E j \in others : j < k /\ k < j + width) <=> (\E j \in places : j < k /\ k < j + width)
        <4>1. ~(last < k)
          BY <1>1, <2>0, <2>2
        <4> QED BY <4>1
      <3> HIDE DEF p, others
      <3> QED BY <2>1, <3>2, <3>3, <3>4, <3>5
    <2>3. CASE k = last
      <3>1. ~(k <= Len(pa)) /\ k <= Len(pa) + Len(pw) /\ k - Len(pa) = 1
        BY <1>1, <2>0, <2>3
      <3>2. q[k] = pw[1]
        BY <1>12, <1>13, <3>1
      <3> HIDE DEF p
      <3> QED BY <1>0, <1>11, <2>1, <2>3, <3>2
    <2>4. CASE last < k /\ k < last + width
      <3>1. ~(k <= Len(pa)) /\ k <= Len(pa) + Len(pw) /\ k - Len(pa) \in 2..width
        BY <1>1, <2>0, <2>4
      <3>2. q[k] = <<>>
        BY <1>11, <1>12, <1>13, <3>1
      <3>3. k \notin places
        BY <1>0, <1>1, <2>0, <2>4
      <3> HIDE DEF p
      <3> QED BY <1>0, <2>1, <2>4, <3>2, <3>3
    <2>5. CASE last + width <= k
      <3>1. PICK l \in Int : l = k - Len(a) - Len(w)
        BY <1>1, <2>0
      <3>2. /\ ~(k <= Len(pa)) /\ ~(k <= Len(pa) + Len(pw)) /\ l = k - Len(pa) - Len(pw)
            /\ ~(k <= Len(a)) /\ ~(k <= Len(a) + Len(w)) /\ l \in 1..Len(b)
        BY <1>1, <1>2, <1>4, <2>0, <2>5, <3>1
      <3>3. q[k] = pb[l] /\ s[k] = b[l] /\ pb[l] = <<b[l]>>
        BY <1>5, <1>7, <1>12, <1>13, <3>1, <3>2
      <3>4. k \notin places /\ ~(\E j \in places : j < k /\ k < j + width)
        <4>1. \A j \in places : j + width <= k
          BY <1>0, <1>1, <2>0, <2>5
        <4>2. \A j \in places : ~(k < j + width) /\ j # k
          BY <1>1, <2>0, <4>1
        <4> QED BY <4>2
      <3> HIDE DEF p
      <3> QED BY <2>1, <3>3, <3>4
    <2> QED BY <1>1, <2>0, <2>2, <2>3, <2>4, <2>5
  <1>15. p = q
    <2>1. PICK F : F = Seq(E)
      OBVIOUS
    <2>2. p \in Seq(F) /\ q \in Seq(F) /\ Len(p) = Len(q) /\ \A k \in 1..Len(p) : p[k] = q[k]
      <3> HIDE DEF p
      <3> QED BY <1>9, <1>13, <1>14, <2>1
    <2> HIDE DEF p
    <2> QED BY <2>2, SeqEqual
  <1>16. Concat(q) = Concat(pa) \o (Concat(pw) \o Concat(pb))
    <2>1. PICK x \in Seq(Seq(E)) : x = pw \o pb
      BY <1>7, <1>11, ConcatProperties
    <2>2. Concat(x) = Concat(pw) \o Concat(pb)
      BY <1>7, <1>11, <2>1, ConcatCat
    <2>3. Concat(pa \o x) = Concat(pa) \o Concat(x)
      BY <1>6, ConcatCat
    <2> QED BY <1>12, <2>1, <2>2, <2>3
  <1> HIDE DEF p
  <1> QED BY <1>2, <1>3, <1>6, <1>7, <1>9, <1>11, <1>15, <1>16 DEF SplicedLast

-----------------------------------------------------------------------------
(* How much a splice adds.                                                 *)

\* wt measures sequences, and parts add up.
Additive(wt, E) ==
  /\ \A a \in Seq(E) : wt[a] \in Nat
  /\ \A a, b \in Seq(E) : wt[a \o b] = wt[a] + wt[b]

\* Parts of s of that width begin at places, side by side, and each measures weight.
Weighted(s, places, width, wt, weight) ==
  /\ places \subseteq 1..(Len(s) - width + 1) /\ Apart(places, width)
  /\ \A j \in places : wt[SubSeq(s, j, j + width - 1)] = weight

\* s parted at the last of these places.
PartedLast(E, s, places, width, wt, weight, last) ==
  /\ SubSeq(s, 1, last - 1) \in Seq(E)
  /\ SubSeq(s, last, last + width - 1) \in Seq(E)
  /\ SubSeq(s, last + width, Len(s)) \in Seq(E)
  /\ s = SubSeq(s, 1, last - 1)
           \o (SubSeq(s, last, last + width - 1) \o SubSeq(s, last + width, Len(s)))
  /\ Weighted(SubSeq(s, 1, last - 1), places \ {last}, width, wt, weight)

LEMMA WeightedStep ==
  ASSUME NEW E, NEW s \in Seq(E), NEW places, NEW width \in Nat \ {0}, NEW wt, NEW weight,
         Weighted(s, places, width, wt, weight), NEW last, Greatest(last, places)
  PROVE  PartedLast(E, s, places, width, wt, weight, last)
  <1>1. /\ Len(s) \in Nat /\ width \in Nat /\ width >= 1 /\ last \in Int /\ 1 <= last
        /\ last + width <= Len(s) + 1 /\ places \subseteq 1..(Len(s) - width + 1)
        /\ \A j \in places : j \in Int /\ 1 <= j
    BY DEF Weighted, Greatest
  <1>0. last \in places /\ \A j \in places : j <= last
    BY DEF Greatest
  <1>2. PICK i \in 1..(Len(s) + 1) : i = last
    BY <1>1
  <1>3. PICK j \in (i - 1)..Len(s) : j = last + width - 1
    BY <1>1, <1>2
  <1>4. j + 1 = last + width /\ i - 1 = last - 1
    BY <1>1, <1>2, <1>3
  <1>5. InParts(E, s, i, j)
    BY Parted
  <1>6. /\ SubSeq(s, 1, last - 1) \in Seq(E) /\ Len(SubSeq(s, 1, last - 1)) = last - 1
        /\ SubSeq(s, last, last + width - 1) \in Seq(E)
        /\ SubSeq(s, last + width, Len(s)) \in Seq(E)
        /\ s = SubSeq(s, 1, last - 1)
                 \o (SubSeq(s, last, last + width - 1) \o SubSeq(s, last + width, Len(s)))
    BY <1>2, <1>3, <1>4, <1>5 DEF InParts
  <1>7. PICK a \in Seq(E) : a = SubSeq(s, 1, last - 1)
    BY <1>6
  <1>8. \A k \in 1..Len(a) : a[k] = s[k]
    <2>0. PICK m \in Nat : m = last - 1
      BY <1>1
    <2>1. 1 \in 1..(Len(s) + 1) /\ m \in (1 - 1)..Len(s)
      BY <1>1, <2>0
    <2>2. \A k \in 1..(m - 1 + 1) : SubSeq(s, 1, m)[k] = s[1 + k - 1]
      BY <2>1, Part
    <2>3. \A k \in 1..Len(a) : k \in 1..(m - 1 + 1) /\ 1 + k - 1 = k
      BY <1>6, <1>7, <2>0
    <2> QED BY <1>7, <2>0, <2>2, <2>3
  <1>9. ASSUME NEW k \in places \ {last}
        PROVE  /\ k \in 1..(Len(a) - width + 1)
               /\ SubSeq(a, k, k + width - 1) = SubSeq(s, k, k + width - 1)
    <2>1. k < last /\ k \in Int /\ 1 <= k
      <3>1. k <= last /\ k # last /\ k \in Int
        BY <1>0, <1>1
      <3> QED BY <1>1, <3>1
    <2>2. k + width <= last
      BY <1>0, <2>1 DEF Apart, Weighted
    <2>3. k \in 1..(Len(a) - width + 1)
      BY <1>1, <1>6, <1>7, <2>1, <2>2
    <2>4. PICK l \in Int : l = k + width - 1
      BY <1>1, <2>1
    <2>5. /\ k \in 1..(Len(s) + 1) /\ l \in (k - 1)..Len(s)
          /\ k \in 1..(Len(a) + 1) /\ l \in (k - 1)..Len(a) /\ l <= Len(a)
      BY <1>1, <1>6, <1>7, <2>1, <2>2, <2>4
    <2>6. /\ SubSeq(s, k, l) \in Seq(E) /\ Len(SubSeq(s, k, l)) = l - k + 1
          /\ \A x \in 1..(l - k + 1) : SubSeq(s, k, l)[x] = s[k + x - 1]
      BY <2>5, Part
    <2>7. /\ SubSeq(a, k, l) \in Seq(E) /\ Len(SubSeq(a, k, l)) = l - k + 1
          /\ \A x \in 1..(l - k + 1) : SubSeq(a, k, l)[x] = a[k + x - 1]
      BY <2>5, Part
    <2>8. ASSUME NEW x \in 1..(l - k + 1) PROVE SubSeq(a, k, l)[x] = SubSeq(s, k, l)[x]
      <3>1. k + x - 1 \in 1..Len(a)
        BY <1>1, <1>6, <1>7, <2>1, <2>5
      <3> QED BY <1>8, <2>6, <2>7, <3>1
    <2>9. SubSeq(a, k, l) = SubSeq(s, k, l)
      BY <2>6, <2>7, <2>8, SeqEqual
    <2> QED BY <2>3, <2>4, <2>9
  <1>10. Weighted(a, places \ {last}, width, wt, weight)
    <2>1. Apart(places \ {last}, width)
      BY DEF Weighted, Apart
    <2>2. \A k \in places \ {last} : wt[SubSeq(a, k, k + width - 1)] = weight
      BY <1>9 DEF Weighted
    <2>3. places \ {last} \subseteq 1..(Len(a) - width + 1)
      BY <1>9
    <2> QED BY <2>1, <2>2, <2>3 DEF Weighted
  <1> QED BY <1>6, <1>7, <1>10 DEF PartedLast

\* What is put in each place measures put.
PutMeasures(wt, segment, all, put) == \A j \in all : wt[segment[j]] = put

SpliceMeasures(wt, s, all, width, segment, put, weight) ==
  /\ Cardinality(all) \in Nat
  /\ wt[Spliced(s, all, width, segment)] = wt[s] + Cardinality(all) * (put - weight)

\* Each place that is replaced adds what stands there now and takes what stood there.
LEMMA SpliceWeight ==
  ASSUME NEW E, NEW wt, Additive(wt, E), NEW width \in Nat \ {0}, NEW weight \in Int, NEW put \in Int,
         NEW segment, NEW all, Segments(segment, all, E), PutMeasures(wt, segment, all, put),
         NEW s \in Seq(E), Weighted(s, all, width, wt, weight)
  PROVE  SpliceMeasures(wt, s, all, width, segment, put, weight)
  <1> DEFINE Counts(r, places) ==
               wt[Spliced(r, places, width, segment)] = wt[r] + Cardinality(places) * (put - weight)
             S == {c \in Nat : \A r \in Seq(E) : \A places \in SUBSET all :
                     Weighted(r, places, width, wt, weight) /\ Cardinality(places) = c
                       => Counts(r, places)}
  <1>1. ASSUME NEW r \in Seq(E), NEW places, Weighted(r, places, width, wt, weight)
        PROVE  IsFiniteSet(places) /\ places \in SUBSET (0..Len(r)) /\ Len(r) \in Nat
    <2>1. places \in SUBSET (0..Len(r)) /\ Len(r) \in Nat
      <3>1. \A i \in 1..(Len(r) - width + 1) : i \in 0..Len(r)
        OBVIOUS
      <3> QED BY <1>1, <3>1 DEF Weighted
    <2>2. IsFiniteSet(0..Len(r))
      BY <2>1, FS_Interval
    <2> QED BY <2>1, <2>2, FS_Subset
  <1>2. 0 \in S
    <2> SUFFICES ASSUME NEW r \in Seq(E), NEW places \in SUBSET all,
                        Weighted(r, places, width, wt, weight), Cardinality(places) = 0
                 PROVE  Counts(r, places)
      <3> HIDE DEF Counts
      <3> QED OBVIOUS
    <2>1. places = {}
      BY <1>1, FS_EmptySet
    <2>2. Spliced(r, {}, width, segment) = r
      BY NoSplice
    <2>3. wt[r] \in Nat /\ 0 * (put - weight) = 0
      BY DEF Additive
    <2>4. wt[r] + 0 * (put - weight) = wt[r]
      BY <2>3
    <2>5. Cardinality({}) = 0
      BY FS_EmptySet
    <2> QED BY <2>1, <2>2, <2>4, <2>5
  <1>3. ASSUME NEW c \in S PROVE c + 1 \in S
    <2>0. c \in Nat
      OBVIOUS
    <2> SUFFICES ASSUME NEW r \in Seq(E), NEW places \in SUBSET all,
                        Weighted(r, places, width, wt, weight), Cardinality(places) = c + 1
                 PROVE  Counts(r, places)
      <3> HIDE DEF Counts
      <3> QED BY <2>0
    <2>1. IsFiniteSet(places) /\ places \in SUBSET (0..Len(r)) /\ Len(r) \in Nat
      BY <1>1
    <2>2. places # {}
      BY <2>0, <2>1, FS_EmptySet
    <2>3. PICK last \in places : Greatest(last, places)
      BY <2>1, <2>2, GreatestOffset DEF Greatest
    <2>4. PICK a \in Seq(E), w \in Seq(E), b \in Seq(E) :
            /\ a = SubSeq(r, 1, last - 1) /\ w = SubSeq(r, last, last + width - 1)
            /\ b = SubSeq(r, last + width, Len(r)) /\ r = a \o (w \o b)
            /\ Weighted(a, places \ {last}, width, wt, weight)
      <3>1. PartedLast(E, r, places, width, wt, weight, last)
        BY <2>3, WeightedStep
      <3> QED BY <3>1 DEF PartedLast
    <2>5. Cardinality(places \ {last}) = c
      <3>1. Cardinality(places \ {last}) = IF last \in places THEN Cardinality(places) - 1 ELSE Cardinality(places)
        BY <2>1, FS_RemoveElement
      <3> QED BY <2>0, <3>1
    <2>6. wt[Spliced(a, places \ {last}, width, segment)] = wt[a] + c * (put - weight)
      <3>1. places \ {last} \in SUBSET all
        OBVIOUS
      <3>2. Counts(a, places \ {last})
        <4> HIDE DEF Counts
        <4> QED BY <2>4, <2>5, <3>1
      <3> QED BY <2>5, <3>2
    <2>7. PICK x \in Seq(E), g \in Seq(E) :
            /\ x = Spliced(a, places \ {last}, width, segment) /\ g = segment[last]
            /\ Spliced(r, places, width, segment) = x \o (g \o b) /\ wt[g] = put
      <3>1. Segments(segment, places, E) /\ Segments(segment, places \ {last}, E)
        BY DEF Segments
      <3>2. Spliced(r, places, width, segment)
              = Spliced(SubSeq(r, 1, last - 1), places \ {last}, width, segment)
                  \o (segment[last] \o SubSeq(r, last + width, Len(r)))
        <4>1. places \in SUBSET (1..(Len(r) - width + 1))
          BY DEF Weighted
        <4>2. SplicedLast(r, places, width, segment, last)
          BY <2>3, <3>1, <4>1, LastSplice
        <4> QED BY <4>2 DEF SplicedLast
      <3>3. Spliced(a, places \ {last}, width, segment) \in Seq(E)
        BY <3>1, SplicePartsType
      <3>4. segment[last] \in Seq(E) /\ wt[segment[last]] = put
        BY DEF Segments, PutMeasures
      <3> QED BY <2>4, <3>2, <3>3, <3>4
    <2>8. wt[x \o (g \o b)] = wt[x] + (wt[g] + wt[b]) /\ wt[a \o (w \o b)] = wt[a] + (wt[w] + wt[b])
      <3>1. g \o b \in Seq(E) /\ w \o b \in Seq(E)
        BY ConcatProperties
      <3>2. wt[x \o (g \o b)] = wt[x] + wt[g \o b] /\ wt[a \o (w \o b)] = wt[a] + wt[w \o b]
        BY <3>1 DEF Additive
      <3>3. wt[g \o b] = wt[g] + wt[b] /\ wt[w \o b] = wt[w] + wt[b]
        BY DEF Additive
      <3> QED BY <3>2, <3>3
    <2>9. wt[w] = weight
      BY <2>3, <2>4 DEF Weighted
    <2>10. wt[a] \in Nat /\ wt[b] \in Nat /\ wt[x] = wt[a] + c * (put - weight)
      BY <2>6, <2>7 DEF Additive
    <2>11. wt[x \o (g \o b)] = wt[r] + (c + 1) * (put - weight)
      <3>1. PICK A \in Nat, B \in Nat, d \in Int, cd \in Int :
              A = wt[a] /\ B = wt[b] /\ d = put - weight /\ cd = c * d
        <4>1. put - weight \in Int
          OBVIOUS
        <4>2. \A d \in Int : c * d \in Int
          BY <2>0
        <4> QED BY <2>10, <4>1, <4>2
      <3>2. (c + 1) * d = cd + d
        <4>1. \A n \in Nat, e \in Int : (n + 1) * e = n * e + e
          OBVIOUS
        <4> QED BY <2>0, <3>1, <4>1
      <3>3. wt[r] = A + (weight + B) /\ wt[x \o (g \o b)] = (A + cd) + (put + B)
        BY <2>4, <2>7, <2>8, <2>9, <2>10, <3>1
      <3>4. (A + cd) + (put + B) = (A + (weight + B)) + (cd + d)
        <4>1. d = put - weight
          BY <3>1
        <4> QED BY <4>1
      <3> QED BY <3>1, <3>2, <3>3, <3>4
    <2> QED BY <2>7, <2>11
  <1>4. \A c \in Nat : c \in S
    <2>1. S \in SUBSET Nat
      OBVIOUS
    <2>2. \A c \in S : c + 1 \in S
      <3> HIDE DEF S
      <3> QED BY <1>3
    <2> HIDE DEF S
    <2> QED BY <1>2, <2>1, <2>2, NatInduct
  <1>5. IsFiniteSet(all)
    BY <1>1
  <1>6. Cardinality(all) \in S /\ Cardinality(all) \in Nat
    <2> HIDE DEF S
    <2> QED BY <1>4, <1>5, FS_CardinalityType
  <1>7. Counts(s, all)
    <2> HIDE DEF Counts
    <2> QED BY <1>6
  <1> QED BY <1>6, <1>7 DEF SpliceMeasures

-----------------------------------------------------------------------------
(* Ink is kept.                                                            *)

\* A part without ink.
LEMMA NoInk ==
  ASSUME NEW t \in Text, NEW i \in 1..(Len(t) + 1), NEW j \in (i - 1)..Len(t),
         \A k \in i..j : t[k] \in Space
  PROVE  Ink(SubSeq(t, i, j)) = <<>>
  <1>1. t \in Seq(Char) /\ Len(t) \in Nat /\ i \in Int /\ j \in Int
    BY TextIsSeq
  <1>2. SubSeq(t, i, j) \in Seq(Space)
    BY <1>1, SubSeqProperties
  <1> QED BY <1>2, InkBlank

\* Trimming keeps the ink.
LEMMA InkTrim ==
  ASSUME NEW t \in Text
  PROVE  TrimSpace(t) \in Text /\ Ink(TrimSpace(t)) = Ink(t)
  <1>1. t \in Seq(Char) /\ Len(t) \in Nat /\ DOMAIN t = 1..Len(t)
    BY TextIsSeq
  <1>2. CASE InkSet(t) = {}
    <2>1. \A k \in 1..Len(t) : t[k] \in Space
      BY <1>1, <1>2 DEF InkSet
    <2>2. t \in Seq(Space)
      <3>1. t = [k \in 1..Len(t) |-> t[k]]
        BY <1>1
      <3>2. t \in [1..Len(t) -> Space]
        BY <2>1, <3>1
      <3> QED BY <1>1, <3>2, SeqDef
    <2>3. TrimSpace(t) = <<>>
      BY <1>2 DEF TrimSpace, InkSet
    <2> QED BY <2>2, <2>3, InkBlank, InkCat, NewLine
  <1>3. CASE InkSet(t) # {}
    <2>1. PICK a, b : a = Min(InkSet(t)) /\ b = Max(InkSet(t))
      OBVIOUS
    <2>2. a \in InkSet(t) /\ b \in InkSet(t) /\ \A k \in InkSet(t) : a <= k /\ k <= b
      BY <1>3, <2>1, InkSetEnds
    <2>3. a \in 1..Len(t) /\ b \in 1..Len(t) /\ a <= b
      BY <1>1, <2>2 DEF InkSet
    <2>4. TrimSpace(t) = SubSeq(t, a, b)
      BY <1>3, <2>1 DEF TrimSpace, InkSet
    <2>5. PICK i \in 1..(Len(t) + 1) : i = a
      BY <1>1, <2>3
    <2>6. PICK j \in (i - 1)..Len(t) : j = b
      BY <1>1, <2>3, <2>5
    <2>7. InParts(Char, t, i, j)
      BY <1>1, Parted
    <2>8. PICK x \in Text, y \in Text, z \in Text :
            x = SubSeq(t, 1, i - 1) /\ y = SubSeq(t, i, j) /\ z = SubSeq(t, j + 1, Len(t))
            /\ t = x \o (y \o z)
      BY <2>7, TextIsSeq DEF InParts
    <2>9. \A k \in 1..Len(t) : k < a \/ b < k => t[k] \in Space
      <3> SUFFICES ASSUME NEW k \in 1..Len(t), k < a \/ b < k, t[k] \notin Space PROVE FALSE
        OBVIOUS
      <3>1. k \in InkSet(t)
        BY <1>1 DEF InkSet
      <3> QED BY <2>2, <2>3, <3>1
    <2>10. Ink(x) = <<>>
      <3>1. PICK m \in Int : m = i - 1
        BY <1>1
      <3>2. 1 \in 1..(Len(t) + 1) /\ m \in (1 - 1)..Len(t) /\ \A k \in 1..m : k \in 1..Len(t) /\ k < a
        BY <1>1, <2>3, <2>5, <3>1
      <3>3. \A k \in 1..m : t[k] \in Space
        BY <2>9, <3>2
      <3> QED BY <2>8, <3>1, <3>2, <3>3, NoInk
    <2>11. Ink(z) = <<>>
      <3>1. PICK m \in Int : m = j + 1
        BY <1>1, <2>3, <2>6
      <3>2. m \in 1..(Len(t) + 1) /\ Len(t) \in (m - 1)..Len(t) /\ \A k \in m..Len(t) : k \in 1..Len(t) /\ b < k
        BY <1>1, <2>3, <2>6, <3>1
      <3>3. \A k \in m..Len(t) : t[k] \in Space
        BY <2>9, <3>2
      <3> QED BY <2>8, <3>1, <3>2, <3>3, NoInk
    <2>12. Ink(t) = Ink(x) \o (Ink(y) \o Ink(z))
      <3>1. PICK q \in Text : q = y \o z
        BY TextCat
      <3>2. Ink(x \o q) = Ink(x) \o Ink(q)
        BY InkCat
      <3>3. Ink(y \o z) = Ink(y) \o Ink(z)
        BY InkCat
      <3> QED BY <2>8, <3>1, <3>2, <3>3
    <2>13. Ink(t) = Ink(y)
      <3>1. Ink(y) \in Text
        BY InkCat
      <3> QED BY <2>10, <2>11, <2>12, <3>1, TextCat
    <2> QED BY <2>4, <2>5, <2>6, <2>8, <2>13
  <1> QED BY <1>2, <1>3

\* Lines with the same ink.
SameInk(a, b) ==
  /\ a \in Seq(Text) /\ b \in Seq(Text) /\ Len(a) = Len(b)
  /\ \A k \in 1..Len(a) : Ink(a[k]) = Ink(b[k])

\* The ink of lines is made line by line.
LEMMA InkOfFore ==
  ASSUME NEW ls \in Seq(Text)
  PROVE  Ink(Fore(ls)) = Concat([k \in DOMAIN ls |-> Ink(ls[k])])
  <1>1. PICK h : h = lead
    OBVIOUS
  <1>2. \A l \in Text : h[l] = NL \o l /\ NL \o l \in Text /\ Ink(NL \o l) = Ink(l)
    <2>1. Ink(NL) = <<>>
      <3>1. NL \in Seq(Space)
        BY DEF NL, Space
      <3> QED BY <3>1, InkBlank
    <2>2. \A l \in Text : NL \o l \in Text /\ Ink(NL \o l) = Ink(NL) \o Ink(l)
      BY NewLine, TextCat, InkCat
    <2>3. \A l \in Text : <<>> \o Ink(l) = Ink(l)
      BY InkCat, TextCat
    <2> QED BY <1>1, <2>1, <2>2, <2>3 DEF lead
  <1>3. Map(h, ls) \in Seq(Text)
    <2>1. PICK V, T : V = {h[l] : l \in Text} /\ T = Text
      OBVIOUS
    <2>2. V \subseteq T
      BY <1>2, <2>1
    <2>3. Map(h, ls) \in Seq(V)
      BY <2>1, MapInto
    <2>4. Map(h, ls) \in Seq(T)
      BY <2>2, <2>3, SeqMonotonic
    <2> QED BY <2>1, <2>4
  <1>4. Ink(Concat(Map(h, ls))) = Concat(Map(inkMap, Map(h, ls)))
    BY <1>3, InkConcat DEF Flat
  <1>5. Map(inkMap, Map(h, ls)) = [k \in DOMAIN ls |-> Ink(ls[k])]
    <2>1. DOMAIN Map(h, ls) = DOMAIN ls
      BY DEF Map
    <2>2. ASSUME NEW k \in DOMAIN ls PROVE inkMap[Map(h, ls)[k]] = Ink(ls[k])
      <3>1. Map(h, ls)[k] = h[ls[k]] /\ ls[k] \in Text
        BY DEF Map
      <3>2. \A t \in Text : inkMap[t] = Ink(t)
        BY DEF inkMap
      <3>3. PICK l \in Text : l = ls[k]
        BY <3>1
      <3>4. h[l] \in Text /\ Ink(h[l]) = Ink(l)
        BY <1>2
      <3>5. inkMap[h[l]] = Ink(h[l])
        BY <3>2, <3>4
      <3> QED BY <3>1, <3>3, <3>4, <3>5
    <2> QED BY <2>1, <2>2 DEF Map
  <1> QED BY <1>1, <1>4, <1>5 DEF Fore, Flat

\* Put together they have the same ink.
LEMMA SameInkSameText ==
  ASSUME NEW a, NEW b, SameInk(a, b)
  PROVE  Ink(Fore(a)) = Ink(Fore(b))
  <1>1. a \in Seq(Text) /\ b \in Seq(Text) /\ DOMAIN a = DOMAIN b /\ \A k \in DOMAIN a : Ink(a[k]) = Ink(b[k])
    BY DEF SameInk
  <1>2. [k \in DOMAIN a |-> Ink(a[k])] = [k \in DOMAIN b |-> Ink(b[k])]
    BY <1>1
  <1> QED BY <1>1, <1>2, InkOfFore

\* The newlines between lines have no ink.
LEMMA InkOfJoin ==
  ASSUME NEW ls \in Seq(Text), ls # <<>>
  PROVE  Ink(Join(ls)) = Ink(Fore(ls))
  <1>1. Join(ls) \in Text /\ Fore(ls) = NL \o Join(ls)
    BY ForeJoin
  <1>2. Ink(NL) = <<>>
    <2>1. NL \in Seq(Space)
      BY DEF NL, Space
    <2> QED BY <2>1, InkBlank
  <1>3. Ink(NL \o Join(ls)) = Ink(NL) \o Ink(Join(ls)) /\ Ink(Join(ls)) \in Text
    BY <1>1, NewLine, InkCat
  <1> QED BY <1>1, <1>2, <1>3, TextCat

\* Lines that read the same have the same ink.
LEMMA SameReadSameInk ==
  ASSUME NEW a, NEW b, SameRead(a, b)
  PROVE  SameInk(a, b)
  <1>1. a \in Seq(Text) /\ b \in Seq(Text) /\ Len(a) = Len(b)
        /\ \A k \in 1..Len(a) : TrimSpace(a[k]) = TrimSpace(b[k])
    BY DEF SameRead
  <1>2. ASSUME NEW k \in 1..Len(a) PROVE Ink(a[k]) = Ink(b[k])
    <2>1. a[k] \in Text /\ b[k] \in Text /\ TrimSpace(a[k]) = TrimSpace(b[k])
      BY <1>1
    <2> QED BY <2>1, InkTrim
  <1> QED BY <1>1, <1>2 DEF SameInk

-----------------------------------------------------------------------------
(* Indentation.                                                            *)

\* A line begins with its indentation, and an ink or its end follows.
LEMMA IndentFacts ==
  ASSUME NEW l \in Text
  PROVE  /\ Indent(l) \in Nat /\ Indent(l) <= Len(l)
         /\ \A i \in 1..Indent(l) : l[i] = Blank
         /\ Indent(l) < Len(l) => l[Indent(l) + 1] # Blank
  <1>1. Len(l) \in Nat /\ DOMAIN l = 1..Len(l)
    BY TextIsSeq
  <1> DEFINE S == {i \in DOMAIN l : l[i] # Blank} \cup {Len(l) + 1}
  <1>2. S \in SUBSET Nat /\ S # {}
    BY <1>1
  <1>3. Min(S) \in S /\ \A i \in S : Min(S) <= i
    <2> HIDE DEF S
    <2> QED BY <1>2, LeastOffset
  <1>4. PICK n : n = Min(S)
    OBVIOUS
  <1>5. Indent(l) = n - 1
    BY <1>4 DEF Indent
  <1>6. n \in S /\ \A i \in S : n <= i
    BY <1>3, <1>4
  <1>7. n \in Nat /\ 1 <= n /\ n <= Len(l) + 1
    BY <1>1, <1>6
  <1>8. \A i \in 1..(n - 1) : l[i] = Blank
    <2> SUFFICES ASSUME NEW i \in 1..(n - 1), l[i] # Blank PROVE FALSE
      OBVIOUS
    <2>1. i \in S
      BY <1>1, <1>7
    <2>2. n <= i
      BY <1>6, <2>1
    <2> QED BY <1>7, <2>2
  <1>9. n < Len(l) + 1 => l[n] # Blank
    BY <1>1, <1>6
  <1> QED BY <1>1, <1>5, <1>7, <1>8, <1>9

\* These facts make out how many blanks a line begins with.
LEMMA IndentIs ==
  ASSUME NEW l \in Text, NEW n \in Nat, n <= Len(l), \A i \in 1..n : l[i] = Blank,
         n < Len(l) => l[n + 1] # Blank
  PROVE  Indent(l) = n
  <1>1. /\ Indent(l) \in Nat /\ Indent(l) <= Len(l)
        /\ \A i \in 1..Indent(l) : l[i] = Blank
        /\ Indent(l) < Len(l) => l[Indent(l) + 1] # Blank
    BY IndentFacts
  <1>2. PICK m \in Nat : m = Indent(l)
    BY <1>1
  <1>3. Len(l) \in Nat
    BY TextIsSeq
  <1>4. ~(m < n)
    <2> SUFFICES ASSUME m < n PROVE FALSE
      OBVIOUS
    <2>1. m + 1 \in 1..n /\ m < Len(l)
      BY <1>2, <1>3
    <2> QED BY <1>1, <1>2, <2>1
  <1>5. ~(n < m)
    <2> SUFFICES ASSUME n < m PROVE FALSE
      OBVIOUS
    <2>1. n + 1 \in 1..m /\ n < Len(l)
      BY <1>1, <1>2, <1>3
    <2> QED BY <1>1, <1>2, <2>1
  <1> QED BY <1>2, <1>4, <1>5

\* The base prefix is that indentation.
LEMMA BasePrefixFacts ==
  ASSUME NEW l \in Text
  PROVE  /\ BasePrefix(l) \in Seq({Blank}) /\ Len(BasePrefix(l)) = Indent(l)
         /\ \A i \in 1..Len(BasePrefix(l)) : BasePrefix(l)[i] = Blank
  <1>1. /\ Indent(l) \in Nat /\ Indent(l) <= Len(l)
        /\ \A i \in 1..Indent(l) : l[i] = Blank
    BY IndentFacts
  <1>2. PICK n \in Nat : n = Indent(l)
    BY <1>1
  <1>3. \A i \in 1..n : l[i] \in {Blank}
    BY <1>1, <1>2
  <1>4. /\ SubSeq(l, 1, n) \in Seq({Blank})
        /\ Len(SubSeq(l, 1, n)) = IF 1 <= n THEN n - 1 + 1 ELSE 0
        /\ \A i \in 1..(n - 1 + 1) : SubSeq(l, 1, n)[i] = l[1 + i - 1]
    BY <1>2, <1>3, SubSeqProperties
  <1>5. Len(SubSeq(l, 1, n)) = n
    BY <1>2, <1>4
  <1>6. \A i \in 1..n : i \in 1..(n - 1 + 1) /\ 1 + i - 1 = i
    BY <1>2
  <1> QED BY <1>2, <1>3, <1>4, <1>5, <1>6 DEF BasePrefix

\* Joined lines are as long as each of them at least.
LEMMA JoinLength ==
  ASSUME NEW ls \in Seq(Text)
  PROVE  Fore(ls) \in Text /\ \A k \in 1..Len(ls) : Len(ls[k]) + 1 <= Len(Fore(ls))
  <1> DEFINE S == {a \in Seq(Text) : \A k \in 1..Len(a) : Len(a[k]) + 1 <= Len(Fore(a))}
  <1>0. \A t \in Text : Len(t) \in Nat
    BY TextIsSeq
  <1>1. <<>> \in S
    BY EmptySeq
  <1>2. ASSUME NEW a \in S, NEW l \in Text PROVE Append(a, l) \in S
    <2>1. PICK u : u = Append(a, l)
      OBVIOUS
    <2>2. /\ u \in Seq(Text) /\ Len(u) = Len(a) + 1 /\ u[Len(a) + 1] = l
          /\ \A k \in 1..Len(a) : u[k] = a[k]
      BY <1>2, <2>1, AppendProperties
    <2>3. Fore(u) = Fore(a) \o (NL \o l) /\ Fore(a) \in Text
      BY <1>2, <2>1, ForeCat
    <2>4. NL \o l \in Text /\ Len(NL \o l) = 1 + Len(l)
      <3>1. PICK n \in Seq(Char) : n = NL /\ Len(n) = 1
        BY NewLine, TextIsSeq DEF NL
      <3>2. n \o l \in Seq(Char) /\ Len(n \o l) = Len(n) + Len(l)
        BY TextIsSeq, ConcatProperties
      <3> QED BY <3>1, <3>2, TextIsSeq
    <2>5. Len(Fore(u)) = Len(Fore(a)) + (1 + Len(l))
      <3>1. \A x, y \in Seq(Char) : Len(x \o y) = Len(x) + Len(y)
        BY ConcatProperties
      <3> QED BY <2>3, <2>4, <3>1, TextIsSeq
    <2>6. ASSUME NEW k \in 1..Len(u) PROVE Len(u[k]) + 1 <= Len(Fore(u))
      <3>0. Len(a) \in Nat /\ Len(Fore(a)) \in Nat /\ Len(l) \in Nat
        BY <1>0, <1>2, <2>3
      <3>1. CASE k = Len(a) + 1
        <4>1. Len(u[k]) = Len(l)
          BY <2>2, <3>1
        <4> QED BY <2>5, <3>0, <4>1
      <3>2. CASE k # Len(a) + 1
        <4>1. k \in 1..Len(a)
          BY <2>2, <3>0, <3>2
        <4>2. Len(u[k]) = Len(a[k]) /\ Len(a[k]) + 1 <= Len(Fore(a)) /\ Len(a[k]) \in Nat
          <5>1. PICK e \in Text : e = a[k]
            BY <1>2, <4>1
          <5>2. u[k] = e /\ Len(e) \in Nat
            BY <1>0, <2>2, <4>1, <5>1
          <5>3. Len(a[k]) + 1 <= Len(Fore(a))
            BY <1>2, <4>1
          <5> QED BY <5>1, <5>2, <5>3
        <4> QED BY <2>5, <3>0, <4>2
      <3> QED BY <3>1, <3>2
    <2> QED BY <2>1, <2>2, <2>6
  <1>3. S \in SUBSET Seq(Text)
    OBVIOUS
  <1>4. ls \in S
    <2> HIDE DEF S
    <2>1. PICK F : F = Text
      OBVIOUS
    <2> QED BY <1>1, <1>2, <1>3, <2>1, SeqInduct
  <1> QED BY <1>4, ForeCat

\* The common indentation is that of the least indented line that is not empty.
LEMMA CommonIndentFacts ==
  ASSUME NEW ls \in Seq(Text), ls # <<>>
  PROVE  /\ CommonIndent(ls) \in Nat
         /\ \A k \in 1..Len(ls) : ls[k] # <<>> => CommonIndent(ls) <= Indent(ls[k])
         /\ \A k \in 1..Len(ls) :
              ls[k] # <<>> /\ (\A j \in 1..Len(ls) : ls[j] # <<>> => Indent(ls[k]) <= Indent(ls[j]))
                => CommonIndent(ls) = Indent(ls[k])
  <1> DEFINE S == {Indent(ls[k]) : k \in {j \in DOMAIN ls : ls[j] # <<>>}} \cup {Len(Join(ls))}
  <1>1. DOMAIN ls = 1..Len(ls) /\ \A k \in 1..Len(ls) : ls[k] \in Text
    OBVIOUS
  <1>2. \A k \in 1..Len(ls) : Indent(ls[k]) \in Nat /\ Indent(ls[k]) <= Len(ls[k])
    BY <1>1, IndentFacts
  <1>3. Len(Join(ls)) \in Nat /\ \A k \in 1..Len(ls) : Indent(ls[k]) <= Len(Join(ls))
    <2>1. Join(ls) \in Text /\ Fore(ls) = NL \o Join(ls)
      BY ForeJoin
    <2>2. Len(Fore(ls)) = 1 + Len(Join(ls)) /\ Len(Join(ls)) \in Nat
      <3>1. PICK n \in Seq(Char) : n = NL /\ Len(n) = 1
        BY NewLine, TextIsSeq DEF NL
      <3>2. PICK t \in Seq(Char) : t = Join(ls)
        BY <2>1, TextIsSeq
      <3>3. Len(n \o t) = Len(n) + Len(t) /\ Len(t) \in Nat
        BY ConcatProperties
      <3> QED BY <2>1, <3>1, <3>2, <3>3
    <2>3. ASSUME NEW k \in 1..Len(ls) PROVE Indent(ls[k]) <= Len(Join(ls))
      <3>1. Len(ls[k]) + 1 <= Len(Fore(ls)) /\ Len(ls[k]) \in Nat
        BY <1>1, JoinLength, TextIsSeq
      <3> QED BY <1>2, <2>2, <3>1
    <2> QED BY <2>2, <2>3
  <1>4. S \in SUBSET Nat /\ S # {}
    BY <1>1, <1>2, <1>3
  <1>5. Min(S) \in S /\ \A i \in S : Min(S) <= i
    <2> HIDE DEF S
    <2> QED BY <1>4, LeastOffset
  <1>6. PICK n : n = CommonIndent(ls) /\ n = Min(S)
    BY DEF CommonIndent
  <1>7. n \in Nat
    BY <1>4, <1>5, <1>6
  <1>8. \A k \in 1..Len(ls) : ls[k] # <<>> => n <= Indent(ls[k])
    BY <1>1, <1>5, <1>6
  <1>9. ASSUME NEW k \in 1..Len(ls), ls[k] # <<>>,
               \A j \in 1..Len(ls) : ls[j] # <<>> => Indent(ls[k]) <= Indent(ls[j])
        PROVE  n = Indent(ls[k])
    <2>1. n <= Indent(ls[k])
      BY <1>8, <1>9
    <2>2. Indent(ls[k]) <= n
      <3>1. n = Len(Join(ls)) \/ \E j \in 1..Len(ls) : ls[j] # <<>> /\ n = Indent(ls[j])
        BY <1>1, <1>5, <1>6
      <3> QED BY <1>3, <1>9, <3>1
    <2> QED BY <1>2, <1>7, <2>1, <2>2
  <1> QED BY <1>6, <1>7, <1>8, <1>9

-----------------------------------------------------------------------------
(* New indentation.                                                        *)

Rest(line) == SubSeq(line, Indent(line) + 1, Len(line))

\* Blanks are parts of a line.
LEMMA BlankText ==
  ASSUME NEW p \in Seq({Blank})
  PROVE  p \in Unbroken /\ p \in Text /\ Ink(p) = <<>> /\ \A i \in 1..Len(p) : p[i] = Blank
  <1>1. Blank \in Char \ {LF} /\ {Blank} \subseteq Space
    BY DEF Char, Space, Blank, LF
  <1>2. p \in Unbroken
    <2>1. {Blank} \subseteq Char \ {LF}
      BY <1>1
    <2> QED BY <2>1, SeqMonotonic DEF Unbroken
  <1>3. p \in Seq(Space)
    BY <1>1, SeqMonotonic
  <1> QED BY <1>2, <1>3, UnbrokenText, InkBlank

\* A line that loses c of its blanks and gets the prefix before it.
Moved(r, l, prefix, c) ==
  /\ r \in Unbroken /\ Ink(r) = Ink(l)
  /\ Indent(r) = Len(prefix) + Indent(l) - c
  /\ Rest(r) = Rest(l)

LEMMA MovedLine ==
  ASSUME NEW l \in Unbroken, NEW prefix \in Seq({Blank}), NEW c \in Nat, c <= Indent(l)
  PROVE  Moved(prefix \o SubSeq(l, c + 1, Len(l)), l, prefix, c)
  <1>0. l \in Text /\ l \in Seq(Char) /\ Len(l) \in Nat /\ Len(prefix) \in Nat
    BY UnbrokenText, TextIsSeq
  <1>1. /\ Indent(l) \in Nat /\ Indent(l) <= Len(l)
        /\ \A i \in 1..Indent(l) : l[i] = Blank
        /\ Indent(l) < Len(l) => l[Indent(l) + 1] # Blank
    BY <1>0, IndentFacts
  <1>2. PICK N \in Nat, L \in Nat, P \in Nat : N = Indent(l) /\ L = Len(l) /\ P = Len(prefix)
    BY <1>0, <1>1
  <1>3. PICK d \in Nat : d = c + 1
    OBVIOUS
  <1>4. d \in 1..(Len(l) + 1) /\ Len(l) \in (d - 1)..Len(l)
    BY <1>0, <1>1, <1>2, <1>3
  <1>5. PICK q : q = SubSeq(l, d, Len(l))
    OBVIOUS
  <1>6. q \in Unbroken /\ q \in Text /\ Len(q) = L - c /\ \A x \in 1..(L - c) : q[x] = l[c + x]
    <2>1. PICK E : E = Char \ {LF}
      OBVIOUS
    <2>2. l \in Seq(E)
      BY <2>1 DEF Unbroken
    <2>3. /\ SubSeq(l, d, Len(l)) \in Seq(E) /\ Len(SubSeq(l, d, Len(l))) = Len(l) - d + 1
          /\ \A x \in 1..(Len(l) - d + 1) : SubSeq(l, d, Len(l))[x] = l[d + x - 1]
      BY <1>4, <2>2, Part
    <2>4. Len(l) - d + 1 = L - c /\ \A x \in 1..(L - c) : d + x - 1 = c + x
      BY <1>2, <1>3
    <2> QED BY <1>5, <2>1, <2>3, <2>4, UnbrokenText DEF Unbroken
  <1>7. prefix \in Unbroken /\ prefix \in Text /\ Ink(prefix) = <<>> /\ \A i \in 1..P : prefix[i] = Blank
    BY <1>2, BlankText
  <1>8. PICK r \in Unbroken : /\ r = prefix \o q /\ Len(r) = P + (L - c)
                              /\ \A i \in 1..(P + (L - c)) : r[i] = IF i <= P THEN prefix[i] ELSE q[i - P]
    <2>1. PICK E : E = Char \ {LF}
      OBVIOUS
    <2>2. prefix \in Seq(E) /\ q \in Seq(E)
      BY <1>6, <1>7, <2>1 DEF Unbroken
    <2>3. /\ prefix \o q \in Seq(E) /\ Len(prefix \o q) = Len(prefix) + Len(q)
          /\ \A i \in 1..(Len(prefix) + Len(q)) :
               (prefix \o q)[i] = IF i <= Len(prefix) THEN prefix[i] ELSE q[i - Len(prefix)]
      BY <2>2, ConcatProperties
    <2>4. prefix \o q \in Unbroken
      BY <2>1, <2>3 DEF Unbroken
    <2>5. Len(prefix) = P /\ Len(q) = L - c
      BY <1>2, <1>6
    <2> QED BY <2>3, <2>4, <2>5
  <1>9. r \in Text /\ r \in Seq(Char)
    BY UnbrokenText, TextIsSeq
  <1>10. c <= N /\ N <= L
    BY <1>1, <1>2
  <1>11. \A x \in 1..(L - c) : P + x \in 1..(P + (L - c)) /\ r[P + x] = l[c + x]
    <2> TAKE x \in 1..(L - c)
    <2>1. P + x \in 1..(P + (L - c)) /\ ~(P + x <= P) /\ (P + x) - P = x
      BY <1>10
    <2> QED BY <1>6, <1>8, <2>1
  <1>12. PICK I \in Nat : I = P + N - c
    BY <1>10
  <1>13. Indent(r) = I
    <2>1. I <= Len(r)
      BY <1>8, <1>10, <1>12
    <2>2. ASSUME NEW i \in 1..I PROVE r[i] = Blank
      <3>1. CASE i <= P
        <4>1. i \in 1..P /\ i \in 1..(P + (L - c))
          BY <1>10, <3>1
        <4> QED BY <1>7, <1>8, <3>1, <4>1
      <3>2. CASE ~(i <= P)
        <4>1. PICK x \in Int : x = i - P
          OBVIOUS
        <4>2. x \in 1..(L - c) /\ c + x \in 1..N /\ P + x = i
          BY <1>10, <1>12, <3>2, <4>1
        <4> QED BY <1>1, <1>2, <1>11, <4>2
      <3> QED BY <3>1, <3>2
    <2>3. I < Len(r) => r[I + 1] # Blank
      <3> SUFFICES ASSUME I < Len(r) PROVE r[I + 1] # Blank
        OBVIOUS
      <3>1. PICK x \in Int : x = N - c + 1
        OBVIOUS
      <3>2. x \in 1..(L - c) /\ c + x = N + 1 /\ P + x = I + 1 /\ N < L
        BY <1>8, <1>10, <1>12, <3>1
      <3> QED BY <1>1, <1>2, <1>11, <3>2
    <2> QED BY <1>9, <2>1, <2>2, <2>3, IndentIs
  <1>14. Rest(r) = Rest(l)
    <2>1. PICK i, j : i = I + 1 /\ j = N + 1
      OBVIOUS
    <2>2. /\ i \in 1..(Len(r) + 1) /\ Len(r) \in (i - 1)..Len(r) /\ Len(r) - i + 1 = L - N
          /\ j \in 1..(Len(l) + 1) /\ Len(l) \in (j - 1)..Len(l) /\ Len(l) - j + 1 = L - N
      <3>1. PICK lr \in Nat : lr = Len(r) /\ lr = P + (L - c)
        BY <1>8, <1>10
      <3>2. i \in 1..(lr + 1) /\ lr \in (i - 1)..lr /\ lr - i + 1 = L - N
        BY <1>10, <1>12, <2>1, <3>1
      <3>3. j \in 1..(L + 1) /\ L \in (j - 1)..L /\ L - j + 1 = L - N
        BY <1>10, <2>1
      <3> QED BY <1>2, <3>1, <3>2, <3>3
    <2>3. /\ SubSeq(r, i, Len(r)) \in Seq(Char) /\ Len(SubSeq(r, i, Len(r))) = Len(r) - i + 1
          /\ \A x \in 1..(Len(r) - i + 1) : SubSeq(r, i, Len(r))[x] = r[i + x - 1]
      BY <1>9, <2>2, Part
    <2>4. /\ SubSeq(l, j, Len(l)) \in Seq(Char) /\ Len(SubSeq(l, j, Len(l))) = Len(l) - j + 1
          /\ \A x \in 1..(Len(l) - j + 1) : SubSeq(l, j, Len(l))[x] = l[j + x - 1]
      BY <1>0, <2>2, Part
    <2>5. ASSUME NEW x \in 1..(L - N) PROVE SubSeq(r, i, Len(r))[x] = SubSeq(l, j, Len(l))[x]
      <3>1. PICK y \in Int : y = N - c + x
        OBVIOUS
      <3>2. y \in 1..(L - c) /\ P + y = i + x - 1 /\ c + y = j + x - 1
        BY <1>10, <1>12, <2>1, <3>1
      <3> QED BY <1>11, <2>2, <2>3, <2>4, <3>2
    <2>6. SubSeq(r, i, Len(r)) = SubSeq(l, j, Len(l))
      BY <2>2, <2>3, <2>4, <2>5, SeqEqual
    <2> QED BY <1>2, <1>13, <2>1, <2>6 DEF Rest
  <1>15. Ink(r) = Ink(l)
    <2>1. Ink(r) = Ink(prefix) \o Ink(q) /\ Ink(q) \in Text
      BY <1>6, <1>7, <1>8, InkCat
    <2>2. Ink(r) = Ink(q)
      BY <1>7, <2>1, TextCat
    <2>3. 1 \in 1..(Len(l) + 1) /\ c \in (1 - 1)..Len(l) /\ Len(l) \in c..Len(l)
      BY <1>2, <1>10
    <2>4. SubSeq(l, 1, c) \o SubSeq(l, c + 1, Len(l)) = SubSeq(l, 1, Len(l))
      BY <1>0, <2>3, ConcatAdjacentSubSeq
    <2>5. SubSeq(l, 1, Len(l)) = l
      BY <1>0, SubSeqFull
    <2>6. PICK a \in Text : a = SubSeq(l, 1, c)
      <3>1. SubSeq(l, 1, c) \in Seq(Char)
        BY <1>0, <2>3, Part
      <3> QED BY <3>1, TextIsSeq
    <2>7. Ink(a) = <<>>
      <3>1. \A k \in 1..c : l[k] \in Space
        <4>1. \A k \in 1..c : k \in 1..N
          BY <1>10
        <4>2. Blank \in Space
          BY DEF Space
        <4> QED BY <1>1, <1>2, <4>1, <4>2
      <3> QED BY <1>0, <2>3, <2>6, <3>1, NoInk
    <2>8. l = a \o q
      BY <1>3, <1>5, <2>4, <2>5, <2>6
    <2>9. Ink(l) = Ink(a) \o Ink(q)
      BY <1>6, <2>8, InkCat
    <2> QED BY <2>1, <2>2, <2>7, <2>9, TextCat
  <1> QED BY <1>2, <1>3, <1>5, <1>8, <1>12, <1>13, <1>14, <1>15 DEF Moved

\* What the last level puts in place of the lines it found.
Reindented(R, b, prefix) ==
  /\ R \in Seq(Unbroken) /\ R # <<>> /\ Len(R) = Len(b) /\ SameInk(R, b)
  /\ \A k \in 1..Len(b) : b[k] = <<>> => R[k] = <<>>
  /\ \A k \in 1..Len(b) : Rest(R[k]) = Rest(b[k])
  /\ \A k \in 1..Len(b) : b[k] # <<>> =>
       \A least \in 1..Len(b) :
         b[least] # <<>> /\ (\A j \in 1..Len(b) : b[j] # <<>> => Indent(b[least]) <= Indent(b[j]))
           => Indent(R[k]) = Len(prefix) + Indent(b[k]) - Indent(b[least])

LEMMA ReindentFacts ==
  ASSUME NEW t \in Text, NEW prefix \in Seq({Blank})
  PROVE  Reindented(Reindent(t, prefix), Lines(t), prefix)
  <1>1. PICK b \in Seq(Unbroken) : b = Lines(t) /\ b # <<>> /\ b \in Seq(Text)
    BY JoinOfLines, LinesAppend
  <1>2. PICK c \in Nat :
          /\ c = CommonIndent(b)
          /\ \A k \in 1..Len(b) : b[k] # <<>> => c <= Indent(b[k])
          /\ \A k \in 1..Len(b) :
               b[k] # <<>> /\ (\A j \in 1..Len(b) : b[j] # <<>> => Indent(b[k]) <= Indent(b[j]))
                 => c = Indent(b[k])
    BY <1>1, CommonIndentFacts
  <1>3. PICK R : R = [k \in DOMAIN b |-> IF b[k] = <<>> THEN <<>>
                                        ELSE prefix \o SubSeq(b[k], c + 1, Len(b[k]))]
    OBVIOUS
  <1>4. Reindent(t, prefix) = R
    BY <1>1, <1>2, <1>3 DEF Reindent
  <1>5. DOMAIN b = 1..Len(b) /\ Len(b) \in Nat /\ \A k \in 1..Len(b) : b[k] \in Unbroken
    BY <1>1
  <1>6. ASSUME NEW k \in 1..Len(b), b[k] # <<>> PROVE Moved(R[k], b[k], prefix, c)
    <2>1. PICK l \in Unbroken : l = b[k]
      BY <1>5
    <2>2. c <= Indent(l)
      BY <1>2, <1>6, <2>1
    <2>3. Moved(prefix \o SubSeq(l, c + 1, Len(l)), l, prefix, c)
      BY <2>2, MovedLine
    <2>4. R[k] = prefix \o SubSeq(l, c + 1, Len(l))
      BY <1>3, <1>5, <1>6, <2>1
    <2> QED BY <2>1, <2>3, <2>4
  <1>7. \A k \in 1..Len(b) : b[k] = <<>> => R[k] = <<>>
    BY <1>3, <1>5
  <1>8. \A k \in 1..Len(b) : R[k] \in Unbroken /\ Ink(R[k]) = Ink(b[k]) /\ Rest(R[k]) = Rest(b[k])
    <2> TAKE k \in 1..Len(b)
    <2>1. CASE b[k] = <<>>
      BY <1>7, <2>1, UnbrokenText
    <2>2. CASE b[k] # <<>>
      BY <1>6, <2>2 DEF Moved
    <2> QED BY <2>1, <2>2
  <1>9. R \in Seq(Unbroken) /\ Len(R) = Len(b)
    <2>1. DOMAIN R = 1..Len(b) /\ R = [k \in 1..Len(b) |-> R[k]]
      BY <1>3, <1>5
    <2>2. PICK U : U = Unbroken
      OBVIOUS
    <2>3. R \in [1..Len(b) -> U]
      BY <1>8, <2>1, <2>2
    <2>4. R \in Seq(U)
      BY <1>5, <2>3, SeqDef
    <2>5. Len(R) = Len(b)
      BY <1>5, <2>3, <2>4
    <2> QED BY <2>2, <2>4, <2>5
  <1>10. R # <<>>
    <2>1. Len(b) # 0
      BY <1>1
    <2> QED BY <1>9, <2>1
  <1>11. SameInk(R, b)
    BY <1>1, <1>8, <1>9, UnbrokenText DEF SameInk
  <1>12. ASSUME NEW k \in 1..Len(b), b[k] # <<>>, NEW least \in 1..Len(b),
                b[least] # <<>>, \A j \in 1..Len(b) : b[j] # <<>> => Indent(b[least]) <= Indent(b[j])
         PROVE  Indent(R[k]) = Len(prefix) + Indent(b[k]) - Indent(b[least])
    <2>1. c = Indent(b[least])
      BY <1>2, <1>12
    <2> QED BY <1>6, <1>12, <2>1 DEF Moved
  <1> QED BY <1>1, <1>4, <1>7, <1>8, <1>9, <1>10, <1>11, <1>12 DEF Reindented

-----------------------------------------------------------------------------
(* What stands at the places.                                              *)

\* The edit that is tried.
Tryable == content \in Text /\ old \in Text /\ new \in Text /\ old # <<>>

Decisive == Tryable /\ result = FuzzyReplace /\ result.how # "missing"

\* The text a level looked at.
LEMMA BaseType ==
  ASSUME Decisive
  PROVE  Base \in Text
  BY NormType DEF Decisive, Tryable, Base, Written

\* Before the last level: occurrences of a text with the ink of the old text.
LookedFor(p) ==
  /\ p \in Text /\ p # <<>> /\ Ink(p) = Ink(old)
  /\ Places = Occurrences(Base, p) /\ Width = Len(p)

LEMMA TextPlaces ==
  ASSUME Decisive, result.level # 4
  PROVE  \E p : LookedFor(p)
  <1>1. /\ content \in Text /\ old \in Text /\ old # <<>>
        /\ result = FuzzyReplace /\ result.how # "missing"
    BY DEF Decisive, Tryable
  <1>2. result.level \in 1..4
    BY <1>1, LevelOf
  <1>3. NormOld \in Text /\ Ink(NormOld) = Ink(old)
    BY <1>1, NormType DEF NormOld
  <1>4. CASE result.level = 1
    <2>1. Places = Occurrences(Base, old) /\ Width = Len(old)
      BY <1>4 DEF Places, Width
    <2> QED BY <1>1, <2>1 DEF LookedFor
  <1>5. CASE result.level = 2
    <2>1. Places = Occurrences(Base, NormOld) /\ Width = Len(NormOld)
      BY <1>5 DEF Places, Width, NormOld
    <2>2. NormOld # <<>>
      BY <1>1, NormNonempty DEF NormOld
    <2> QED BY <1>3, <2>1, <2>2 DEF LookedFor
  <1>6. CASE result.level = 3
    <2>1. Places = Occurrences(Base, TrimSpace(NormOld)) /\ Width = Len(TrimSpace(NormOld))
      BY <1>6 DEF Places, Width, NormOld
    <2>2. TrimSpace(NormOld) # <<>>
      BY <1>1, <1>6, ThirdLevel
    <2>3. TrimSpace(NormOld) \in Text /\ Ink(TrimSpace(NormOld)) = Ink(NormOld)
      BY <1>3, InkTrim
    <2> QED BY <1>3, <2>1, <2>2, <2>3 DEF LookedFor
  <1> QED BY <1>2, <1>4, <1>5, <1>6

\* At the last level: windows of lines.
LookedForLines(p) ==
  /\ p \in Seq(Text) /\ p # <<>> /\ Ink(Fore(p)) = Ink(old)
  /\ Places = LineWindows(Lines(Base), p) /\ Width = Len(p)

LEMMA LinePlaces ==
  ASSUME Decisive, result.level = 4
  PROVE  \E p : LookedForLines(p)
  <1>1. old \in Text
    BY DEF Decisive, Tryable
  <1>2. NormOld \in Text /\ Ink(NormOld) = Ink(old)
    BY <1>1, NormType DEF NormOld
  <1>3. PICK p : p = Lines(NormOld)
    OBVIOUS
  <1>4. p \in Seq(Text) /\ p # <<>> /\ Join(p) = NormOld
    BY <1>2, <1>3, LinesAppend, JoinOfLines
  <1>5. Ink(Fore(p)) = Ink(old)
    BY <1>2, <1>4, InkOfJoin
  <1>6. Places = LineWindows(Lines(Base), p) /\ Width = Len(p)
    BY <1>3 DEF Places, Width, NormOld
  <1> QED BY <1>4, <1>5, <1>6 DEF LookedForLines

\* A window of lines reads as the lines looked for.
LEMMA WindowReads ==
  ASSUME NEW ls \in Seq(Text), NEW p \in Seq(Text), NEW i \in LineWindows(ls, p)
  PROVE  SameRead(SubSeq(ls, i, i + Len(p) - 1), p)
  <1>1. /\ i \in 1..(Len(ls) - Len(p) + 1) /\ Len(ls) \in Nat /\ Len(p) \in Nat /\ DOMAIN p = 1..Len(p)
        /\ \A k \in DOMAIN p : TrimSpace(ls[i + k - 1]) = TrimSpace(p[k])
    BY DEF LineWindows
  <1>2. PICK j \in Int : j = i + Len(p) - 1
    BY <1>1
  <1>3. i \in 1..(Len(ls) + 1) /\ j \in (i - 1)..Len(ls) /\ j - i + 1 = Len(p)
    BY <1>1, <1>2
  <1>4. /\ SubSeq(ls, i, j) \in Seq(Text) /\ Len(SubSeq(ls, i, j)) = j - i + 1
        /\ \A k \in 1..(j - i + 1) : SubSeq(ls, i, j)[k] = ls[i + k - 1]
    <2>1. PICK T : T = Text
      OBVIOUS
    <2>2. ls \in Seq(T)
      BY <2>1
    <2>3. /\ SubSeq(ls, i, j) \in Seq(T) /\ Len(SubSeq(ls, i, j)) = j - i + 1
          /\ \A k \in 1..(j - i + 1) : SubSeq(ls, i, j)[k] = ls[i + k - 1]
      BY <1>3, <2>2, Part
    <2> QED BY <2>1, <2>3
  <1> QED BY <1>1, <1>2, <1>3, <1>4 DEF SameRead

\* Places are places of the base, and what is looked for is not empty.
LEMMA PlacesFacts ==
  ASSUME Decisive
  PROVE  /\ Width \in Nat \ {0}
         /\ \E m \in Nat : Places \in SUBSET (0..m)
         /\ result.level # 4 => Places \subseteq 1..(Len(Base) - Width + 1)
         /\ result.level = 4 => Places \subseteq 1..(Len(Lines(Base)) - Width + 1)
  <1>1. Base \in Text /\ Lines(Base) \in Seq(Text)
    BY BaseType, LinesAppend
  <1>2. CASE result.level # 4
    <2>1. PICK p : LookedFor(p)
      BY <1>2, TextPlaces
    <2>2. Width \in Nat \ {0}
      BY <2>1, TextIsSeq DEF LookedFor
    <2>3. \E m \in Nat : Places \in SUBSET (0..m)
      BY <1>1, <2>1, PlacesBound DEF LookedFor
    <2>4. Places \subseteq 1..(Len(Base) - Width + 1)
      BY <2>1 DEF LookedFor, Occurrences
    <2> QED BY <1>2, <2>2, <2>3, <2>4
  <1>3. CASE result.level = 4
    <2>1. PICK p : LookedForLines(p)
      BY <1>3, LinePlaces
    <2>2. Width \in Nat \ {0}
      BY <2>1 DEF LookedForLines
    <2>3. \E m \in Nat : Places \in SUBSET (0..m)
      BY <1>1, <2>1, PlacesBound DEF LookedForLines
    <2>4. Places \subseteq 1..(Len(Lines(Base)) - Width + 1)
      BY <2>1 DEF LookedForLines, LineWindows
    <2> QED BY <1>3, <2>2, <2>3, <2>4
  <1> QED BY <1>2, <1>3

\* The places the search took.
Found == NonOverlapping(Places, Width)

\* They are side by side, and no more are.
LEMMA FoundFacts ==
  ASSUME Decisive
  PROVE  /\ MostApart = Cardinality(Found)
         /\ IsFiniteSet(Found) /\ Cardinality(Found) \in Nat \ {0}
         /\ Found \subseteq Places /\ Apart(Found, Width) /\ Found # {}
  <1>0. PICK m \in Nat : Places \in SUBSET (0..m)
    BY PlacesFacts
  <1>1. PICK S \in SUBSET (0..m), w \in Nat \ {0} : S = Places /\ w = Width
    BY <1>0, PlacesFacts
  <1>2. Max({Cardinality(P) : P \in {Q \in SUBSET S : \A i, j \in Q : i < j => i + w <= j}})
          = Cardinality(NonOverlapping(S, w))
    BY MostIsTaken
  <1>3. MostApart = Cardinality(Found)
    BY <1>1, <1>2 DEF MostApart, Found
  <1>4. NonOverlapping(S, w) \subseteq S /\ Apart(NonOverlapping(S, w), w)
    BY TakenApart
  <1>5. Found # {}
    BY Deciding DEF Decisive, Found
  <1>6. IsFiniteSet(Found)
    <2>1. IsFiniteSet(0..m)
      BY FS_Interval
    <2>2. Found \in SUBSET (0..m)
      BY <1>1, <1>4 DEF Found
    <2> QED BY <2>1, <2>2, FS_Subset
  <1>7. Cardinality(Found) \in Nat \ {0}
    BY <1>5, <1>6, FS_CardinalityType, FS_EmptySet
  <1> QED BY <1>1, <1>3, <1>4, <1>5, <1>6, <1>7 DEF Found

-----------------------------------------------------------------------------
(* With replace_all.                                                       *)

textWeight == [s \in Seq(Char) |-> Len(Ink(s))]
lineWeight == [ls \in Seq(Text) |-> Len(Ink(Fore(ls)))]

\* Lengths add up,
LEMMA LenCat ==
  ASSUME NEW s \in Text, NEW t \in Text
  PROVE  Len(s) \in Nat /\ Len(s \o t) = Len(s) + Len(t)
  <1>1. \A a, b \in Seq(Char) : Len(a) \in Nat /\ Len(a \o b) = Len(a) + Len(b)
    BY ConcatProperties
  <1> QED BY <1>1, TextIsSeq

\* so the ink of texts does,
LEMMA TextWeightAdds ==
  Additive(textWeight, Char)
  <1>1. \A s \in Text : textWeight[s] = Len(Ink(s)) /\ Ink(s) \in Text
    BY TextIsSeq, InkCat DEF textWeight
  <1>2. \A s \in Text : textWeight[s] \in Nat
    BY <1>1, LenCat
  <1>3. ASSUME NEW s \in Text, NEW t \in Text PROVE textWeight[s \o t] = textWeight[s] + textWeight[t]
    <2>1. s \o t \in Text /\ Ink(s \o t) = Ink(s) \o Ink(t)
      BY TextCat, InkCat
    <2>2. Len(Ink(s) \o Ink(t)) = Len(Ink(s)) + Len(Ink(t))
      BY <1>1, LenCat
    <2> QED BY <1>1, <2>1, <2>2
  <1> QED BY <1>2, <1>3, TextIsSeq DEF Additive

\* and that of lines.
LEMMA LineWeightAdds ==
  Additive(lineWeight, Text)
  <1>1. \A ls \in Seq(Text) : lineWeight[ls] = Len(Ink(Fore(ls))) /\ Fore(ls) \in Text /\ Ink(Fore(ls)) \in Text
    BY InkCat, ForeCat DEF lineWeight
  <1>2. \A ls \in Seq(Text) : lineWeight[ls] \in Nat
    BY <1>1, LenCat
  <1>3. ASSUME NEW a \in Seq(Text), NEW b \in Seq(Text)
        PROVE  lineWeight[a \o b] = lineWeight[a] + lineWeight[b]
    <2>1. a \o b \in Seq(Text) /\ Fore(a \o b) = Fore(a) \o Fore(b)
      <3>1. PICK T : T = Text
        OBVIOUS
      <3>2. \A x, y \in Seq(T) : x \o y \in Seq(T)
        BY ConcatProperties
      <3> QED BY <3>1, <3>2, ForeCat
    <2>2. Ink(Fore(a) \o Fore(b)) = Ink(Fore(a)) \o Ink(Fore(b))
      BY <1>1, InkCat
    <2>3. Len(Ink(Fore(a)) \o Ink(Fore(b))) = Len(Ink(Fore(a))) + Len(Ink(Fore(b)))
      BY <1>1, LenCat
    <2> QED BY <1>1, <2>1, <2>2, <2>3
  <1> QED BY <1>2, <1>3 DEF Additive

\* At an occurrence stands the text looked for.
LEMMA OccurrenceIs ==
  ASSUME NEW t, NEW p, NEW i \in Occurrences(t, p)
  PROVE  SubSeq(t, i, i + Len(p) - 1) = p
  BY DEF Occurrences

\* Each occurrence that is replaced loses the ink of the old text and gets that of the new one.
LEMMA TextsReplaced ==
  ASSUME Decisive, result.level # 4
  PROVE  Len(Ink(Spliced(Base, Found, Width, [i \in Found |-> new])))
           = Len(Ink(Base)) + Cardinality(Found) * (Len(Ink(new)) - Len(Ink(old)))
  <1>1. PICK p : LookedFor(p)
    BY TextPlaces
  <1>2. /\ p \in Text /\ Ink(p) = Ink(old) /\ Places = Occurrences(Base, p) /\ Width = Len(p)
        /\ Width \in Nat \ {0} /\ Places \subseteq 1..(Len(Base) - Width + 1)
        /\ Found \subseteq Places /\ Apart(Found, Width)
    BY <1>1, PlacesFacts, FoundFacts DEF LookedFor
  <1>3. Base \in Text /\ new \in Text /\ old \in Text
    BY BaseType DEF Decisive, Tryable
  <1>4. \A s \in Text : textWeight[s] = Len(Ink(s)) /\ Len(Ink(s)) \in Nat
    BY TextIsSeq, InkCat, LenCat DEF textWeight
  <1>5. PICK wt, segment, weight, put :
          /\ wt = textWeight /\ segment = [i \in Found |-> new]
          /\ weight = Len(Ink(old)) /\ put = Len(Ink(new))
    OBVIOUS
  <1>6. weight \in Int /\ put \in Int
    BY <1>3, <1>4, <1>5
  <1>7. Weighted(Base, Found, Width, wt, weight)
    <2>1. ASSUME NEW j \in Found PROVE wt[SubSeq(Base, j, j + Width - 1)] = weight
      <3>1. SubSeq(Base, j, j + Width - 1) = p
        BY <1>2, OccurrenceIs
      <3> QED BY <1>2, <1>4, <1>5, <3>1
    <2> QED BY <1>2, <2>1 DEF Weighted
  <1>8. Segments(segment, Found, Char) /\ PutMeasures(wt, segment, Found, put)
    <2>1. \A j \in Found : segment[j] = new
      BY <1>5
    <2> QED BY <1>3, <1>4, <1>5, <2>1, TextIsSeq DEF Segments, PutMeasures
  <1>9. Additive(wt, Char) /\ Base \in Seq(Char)
    BY <1>3, <1>5, TextWeightAdds, TextIsSeq
  <1>10. wt[Spliced(Base, Found, Width, segment)] = wt[Base] + Cardinality(Found) * (put - weight)
    <2>1. SpliceMeasures(wt, Base, Found, Width, segment, put, weight)
      BY <1>2, <1>6, <1>7, <1>8, <1>9, SpliceWeight
    <2> QED BY <2>1 DEF SpliceMeasures
  <1>11. Spliced(Base, Found, Width, segment) \in Text
    BY <1>8, <1>9, SplicePartsType, TextIsSeq
  <1> QED BY <1>3, <1>4, <1>5, <1>10, <1>11

\* Something is put in each place.
PutNonempty(segment, places) == \A i \in places : segment[i] # <<>>

\* Then something is there.
LEMMA SplicedNonempty ==
  ASSUME NEW E, NEW s \in Seq(E), NEW width \in Nat \ {0}, NEW places, NEW segment,
         places \subseteq 1..(Len(s) - width + 1), places # {},
         Segments(segment, places, E), PutNonempty(segment, places)
  PROVE  Spliced(s, places, width, segment) # <<>>
  <1>1. Len(s) \in Nat
    OBVIOUS
  <1>2. places \in SUBSET (0..Len(s))
    <2>1. \A i \in 1..(Len(s) - width + 1) : i \in 0..Len(s)
      BY <1>1
    <2> QED BY <2>1
  <1>3. PICK last \in places : Greatest(last, places)
    BY <1>1, <1>2, GreatestOffset DEF Greatest
  <1>4. SplicedLast(s, places, width, segment, last)
    BY <1>3, LastSplice
  <1>5. PICK x \in Seq(E) : x = Spliced(SubSeq(s, 1, last - 1), places \ {last}, width, segment)
    <2>1. SubSeq(s, 1, last - 1) \in Seq(E)
      <3>1. PICK m \in Nat : m = last - 1
        BY <1>2, <1>3
      <3>2. 1 \in 1..(Len(s) + 1) /\ m \in (1 - 1)..Len(s)
        BY <1>1, <1>2, <1>3, <3>1
      <3> QED BY <3>1, <3>2, Part
    <2>2. Segments(segment, places \ {last}, E)
      BY DEF Segments
    <2> QED BY <2>1, <2>2, SplicePartsType
  <1>6. PICK g \in Seq(E) : g = segment[last] /\ g # <<>>
    BY <1>3 DEF Segments, PutNonempty
  <1>7. PICK b \in Seq(E) : b = SubSeq(s, last + width, Len(s))
    <2>1. PICK n \in Nat : n = last + width
      BY <1>2, <1>3
    <2>2. n \in 1..(Len(s) + 1) /\ Len(s) \in (n - 1)..Len(s)
      BY <1>1, <1>2, <1>3, <2>1
    <2> QED BY <2>1, <2>2, Part
  <1>8. Spliced(s, places, width, segment) = x \o (g \o b)
    BY <1>4, <1>5, <1>6, <1>7 DEF SplicedLast
  <1>9. Len(x \o (g \o b)) > 0
    <2>1. g \o b \in Seq(E) /\ Len(g \o b) = Len(g) + Len(b)
      BY ConcatProperties
    <2>2. Len(x \o (g \o b)) = Len(x) + Len(g \o b)
      BY <2>1, ConcatProperties
    <2>3. Len(g) > 0 /\ Len(x) \in Nat /\ Len(b) \in Nat
      BY <1>6
    <2> QED BY <2>1, <2>2, <2>3
  <1> QED BY <1>8, <1>9

\* What the last level puts in place of the lines it found at i.
Replacement == [i \in Found |-> Reindent(new, BasePrefix(Lines(Base)[i]))]

LEMMA ReplacementFacts ==
  ASSUME Decisive, result.level = 4
  PROVE  /\ \A i \in Found : Reindented(Replacement[i], Lines(new), BasePrefix(Lines(Base)[i]))
         /\ Segments(Replacement, Found, Text) /\ Segments(Replacement, Found, Unbroken)
         /\ PutNonempty(Replacement, Found)
         /\ PutMeasures(lineWeight, Replacement, Found, Len(Ink(new)))
  <1>0. new \in Text /\ Base \in Text
    BY BaseType DEF Decisive, Tryable
  <1>1. PICK ls \in Seq(Text) : ls = Lines(Base)
    BY <1>0, LinesAppend
  <1>2. Found \subseteq 1..Len(ls)
    <2>1. Found \subseteq 1..(Len(ls) - Width + 1) /\ Width \in Nat \ {0}
      BY <1>1, PlacesFacts, FoundFacts
    <2>2. \A i \in 1..(Len(ls) - Width + 1) : i \in 1..Len(ls)
      BY <2>1
    <2> QED BY <2>1, <2>2
  <1>3. PICK b \in Seq(Text) : b = Lines(new) /\ b # <<>> /\ Join(b) = new
    BY <1>0, LinesAppend, JoinOfLines
  <1>4. Ink(Fore(b)) = Ink(new)
    BY <1>3, InkOfJoin
  <1>5. ASSUME NEW i \in Found
        PROVE  /\ Reindented(Replacement[i], Lines(new), BasePrefix(Lines(Base)[i]))
               /\ Replacement[i] \in Seq(Text) /\ Replacement[i] \in Seq(Unbroken)
               /\ Replacement[i] # <<>> /\ lineWeight[Replacement[i]] = Len(Ink(new))
    <2>1. PICK l \in Text : l = Lines(Base)[i]
      BY <1>1, <1>2
    <2>2. PICK R : R = Reindent(new, BasePrefix(l)) /\ R = Replacement[i]
      BY <2>1 DEF Replacement
    <2>3. Reindented(R, b, BasePrefix(l))
      BY <1>0, <1>3, <2>2, BasePrefixFacts, ReindentFacts
    <2>4. R \in Seq(Unbroken) /\ R # <<>> /\ SameInk(R, b)
      BY <2>3 DEF Reindented
    <2>5. R \in Seq(Text) /\ Ink(Fore(R)) = Ink(new)
      BY <1>4, <2>4, SameInkSameText DEF SameInk
    <2>6. lineWeight[R] = Len(Ink(new))
      BY <2>5 DEF lineWeight
    <2> QED BY <1>3, <2>1, <2>2, <2>3, <2>4, <2>5, <2>6
  <1> QED BY <1>5 DEF Segments, PutNonempty, PutMeasures

\* So does each window of lines.
LEMMA LinesReplaced ==
  ASSUME Decisive, result.level = 4
  PROVE  Len(Ink(Join(Spliced(Lines(Base), Found, Width, Replacement))))
           = Len(Ink(Base)) + Cardinality(Found) * (Len(Ink(new)) - Len(Ink(old)))
  <1>1. PICK p : LookedForLines(p)
    BY LinePlaces
  <1>2. Base \in Text /\ new \in Text /\ old \in Text
    BY BaseType DEF Decisive, Tryable
  <1>3. PICK ls \in Seq(Text) : ls = Lines(Base) /\ ls # <<>> /\ Join(ls) = Base
    BY <1>2, LinesAppend, JoinOfLines
  <1>4. /\ p \in Seq(Text) /\ Ink(Fore(p)) = Ink(old) /\ Places = LineWindows(ls, p) /\ Width = Len(p)
        /\ Width \in Nat \ {0} /\ Places \subseteq 1..(Len(ls) - Width + 1)
        /\ Found \subseteq Places /\ Apart(Found, Width) /\ Found # {}
    BY <1>1, <1>3, PlacesFacts, FoundFacts DEF LookedForLines
  <1>5. PICK wt, segment, weight, put :
          /\ wt = lineWeight /\ segment = Replacement
          /\ weight = Len(Ink(old)) /\ put = Len(Ink(new))
    OBVIOUS
  <1>6. weight \in Int /\ put \in Int
    <2>1. Ink(old) \in Text /\ Ink(new) \in Text
      BY <1>2, InkCat
    <2> QED BY <1>5, <2>1, LenCat
  <1>0. \A a \in Seq(Text) : wt[a] = Len(Ink(Fore(a)))
    BY <1>5 DEF lineWeight
  <1>7. Weighted(ls, Found, Width, wt, weight)
    <2>1. ASSUME NEW j \in Found PROVE wt[SubSeq(ls, j, j + Width - 1)] = weight
      <3>1. PICK q : q = SubSeq(ls, j, j + Len(p) - 1)
        OBVIOUS
      <3>2. SameRead(q, p)
        BY <1>4, <3>1, WindowReads
      <3>3. SameInk(q, p)
        BY <3>2, SameReadSameInk
      <3>4. q \in Seq(Text) /\ Ink(Fore(q)) = Ink(old)
        BY <1>4, <3>3, SameInkSameText DEF SameInk
      <3> QED BY <1>0, <1>4, <1>5, <3>1, <3>4
    <2> QED BY <1>4, <2>1 DEF Weighted
  <1>8. /\ Segments(segment, Found, Text) /\ PutMeasures(wt, segment, Found, put)
        /\ PutNonempty(segment, Found)
    BY <1>5, ReplacementFacts
  <1>9. Additive(wt, Text)
    BY <1>5, LineWeightAdds
  <1>10. wt[Spliced(ls, Found, Width, segment)] = wt[ls] + Cardinality(Found) * (put - weight)
    <2>0. PICK T : T = Text
      OBVIOUS
    <2>1. SpliceMeasures(wt, ls, Found, Width, segment, put, weight)
      BY <1>4, <1>6, <1>7, <1>8, <1>9, <2>0, SpliceWeight
    <2> QED BY <2>1 DEF SpliceMeasures
  <1>11. PICK sp \in Seq(Text) : sp = Spliced(ls, Found, Width, segment) /\ sp # <<>>
    <2>0. PICK T : T = Text
      OBVIOUS
    <2>1. Spliced(ls, Found, Width, segment) \in Seq(T)
      BY <1>8, <2>0, SplicePartsType
    <2>2. Spliced(ls, Found, Width, segment) # <<>>
      <3>1. Found \subseteq 1..(Len(ls) - Width + 1)
        BY <1>4
      <3>2. ls \in Seq(T) /\ Segments(segment, Found, T)
        BY <1>8, <2>0
      <3> QED BY <1>4, <1>8, <3>1, <3>2, SplicedNonempty
    <2> QED BY <2>0, <2>1, <2>2
  <1>12. wt[sp] = Len(Ink(Join(sp))) /\ wt[ls] = Len(Ink(Base))
    BY <1>0, <1>3, <1>11, InkOfJoin
  <1> QED BY <1>3, <1>5, <1>10, <1>11, <1>12

\* Uniqueness is enforced.
LEMMA UniqueHolds ==
  ASSUME Decisive
  PROVE  UniqueOrRefused
  <1>1. PICK n \in Nat \ {0} : n = Cardinality(Found) /\ n = MostApart
    BY FoundFacts
  <1>2. /\ result.level \in 1..4
        /\ \/ result.how = "ambiguous" /\ ~replaceAll /\ n > 1
           \/ /\ result.how = "replaced" /\ result.text = Spliceable
              /\ replaceAll \/ ~(n > 1)
    BY <1>1, Deciding DEF Decisive, Found
  <1>3. CASE result.how = "ambiguous"
    BY <1>1, <1>2, <1>3 DEF UniqueOrRefused
  <1>4. CASE result.how = "replaced"
    <2>1. ~replaceAll => n = 1
      BY <1>2, <1>4
    <2>2. Len(Ink(result.text)) = Len(Ink(Base)) + n * (Len(Ink(new)) - Len(Ink(old)))
      <3>1. CASE result.level = 4
        <4>1. result.text = Join(Spliced(Lines(Base), Found, Width, Replacement))
          BY <1>2, <1>4, <3>1 DEF Spliceable, Found, Replacement
        <4> QED BY <1>1, <3>1, <4>1, LinesReplaced
      <3>2. CASE result.level # 4
        <4>0. result.level < 4
          BY <1>2, <3>2
        <4>1. result.text = Spliced(Base, Found, Width, [i \in Found |-> new])
          BY <1>2, <1>4, <4>0 DEF Spliceable, Found
        <4> QED BY <1>1, <3>2, <4>1, TextsReplaced
      <3> QED BY <3>1, <3>2
    <2> QED BY <1>1, <1>4, <2>1, <2>2 DEF UniqueOrRefused
  <1> QED BY <1>2, <1>3, <1>4

\* One place is replaced.
SplicedOnce(s, i, width, segment) ==
  Spliced(s, {i}, width, segment)
    = SubSeq(s, 1, i - 1) \o (segment[i] \o SubSeq(s, i + width, Len(s)))

LEMMA OneSplice ==
  ASSUME NEW E, NEW s \in Seq(E), NEW width \in Nat \ {0}, NEW segment,
         NEW i \in 1..(Len(s) - width + 1), segment[i] \in Seq(E)
  PROVE  SplicedOnce(s, i, width, segment)
  <1>1. Len(s) \in Nat /\ i \in Int /\ {i} \subseteq 1..(Len(s) - width + 1) /\ {i} \ {i} = {}
    OBVIOUS
  <1>2. Greatest(i, {i})
    BY <1>1 DEF Greatest
  <1>3. Segments(segment, {i}, E)
    BY DEF Segments
  <1>4. SplicedLast(s, {i}, width, segment, i)
    BY <1>1, <1>2, <1>3, LastSplice
  <1>5. Spliced(SubSeq(s, 1, i - 1), {}, width, segment) = SubSeq(s, 1, i - 1)
    <2>1. PICK m \in Nat : m = i - 1
      BY <1>1
    <2>2. 1 \in 1..(Len(s) + 1) /\ m \in (1 - 1)..Len(s)
      BY <1>1, <2>1
    <2>3. SubSeq(s, 1, i - 1) \in Seq(E)
      BY <2>1, <2>2, Part
    <2> QED BY <2>3, NoSplice
  <1> QED BY <1>1, <1>4, <1>5 DEF SplicedLast, SplicedOnce

-----------------------------------------------------------------------------
(* Lines within joined lines.                                              *)

\* What stands before the lines that follow those.
Ahead(a) == IF a = <<>> THEN <<>> ELSE Join(a) \o NL

Joined3(a, m, b) ==
  /\ Ahead(a) \in Text /\ Join(m) \in Text /\ Fore(b) \in Text
  /\ Join(a \o (m \o b)) = Ahead(a) \o (Join(m) \o Fore(b))

LEMMA JoinThree ==
  ASSUME NEW a \in Seq(Text), NEW m \in Seq(Text), NEW b \in Seq(Text), m # <<>>
  PROVE  Joined3(a, m, b)
  <1>0. PICK T : T = Text
    OBVIOUS
  <1>1. PICK c \in Seq(Text) : c = m \o b /\ c # <<>>
    <2>0. PICK p \in Seq(T), q \in Seq(T) : p = m /\ q = b
      BY <1>0
    <2>1. p \o q \in Seq(T) /\ Len(p \o q) = Len(p) + Len(q)
      BY ConcatProperties
    <2>2. Len(p) > 0 /\ Len(q) \in Nat
      BY <2>0
    <2>3. p \o q # <<>>
      <3>1. Len(p \o q) > 0
        BY <2>1, <2>2
      <3> QED BY <3>1
    <2> QED BY <1>0, <2>0, <2>1, <2>3
  <1>2. Join(m) \in Text /\ Join(c) \in Text /\ Fore(c) = NL \o Join(c) /\ Fore(b) \in Text
    BY <1>1, ForeJoin, ForeCat
  <1>3. Join(c) = Join(m) \o Fore(b)
    BY <1>1, JoinCat
  <1>4. CASE a = <<>>
    <2>1. a \o c = c
      <3>1. c \in Seq(T)
        BY <1>0
      <3> QED BY <1>4, <3>1, ConcatEmptySeq
    <2>2. Ahead(a) = <<>> /\ <<>> \o Join(c) = Join(c)
      BY <1>2, <1>4, TextCat DEF Ahead
    <2> QED BY <1>1, <1>2, <1>3, <2>1, <2>2, NewLine DEF Joined3
  <1>5. CASE a # <<>>
    <2>1. Join(a \o c) = Join(a) \o Fore(c) /\ Join(a) \in Text
      BY <1>5, JoinCat, ForeJoin
    <2>2. Join(a) \o (NL \o Join(c)) = (Join(a) \o NL) \o Join(c)
      <3>1. PICK x \in Text, y \in Text, z \in Text : x = Join(a) /\ y = NL /\ z = Join(c)
        BY <1>2, <2>1, NewLine
      <3>2. Grouped(x, y, z)
        BY TextIsSeq, Regroup
      <3> QED BY <3>1, <3>2 DEF Grouped
    <2>3. Ahead(a) = Join(a) \o NL /\ Ahead(a) \in Text
      BY <1>5, <2>1, NewLine, TextCat DEF Ahead
    <2> QED BY <1>1, <1>2, <1>3, <2>1, <2>2, <2>3 DEF Joined3
  <1> QED BY <1>4, <1>5

\* The joined text of lines m between lines a and b, and where it stands.
LinesWithin(t, a, m, b, i, j) ==
  /\ i \in 1..(Len(t) + 1) /\ j \in (i - 1)..Len(t)
  /\ SubSeq(t, 1, i - 1) = Ahead(a)
  /\ SubSeq(t, i, j) = Join(m)
  /\ SubSeq(t, j + 1, Len(t)) = Fore(b)
  /\ WholeLines(t, i, j)

LEMMA LinesAreWithin ==
  ASSUME NEW a \in Seq(Text), NEW m \in Seq(Text), NEW b \in Seq(Text), m # <<>>
  PROVE  \E i, j : LinesWithin(Join(a \o (m \o b)), a, m, b, i, j)
  <1>0. PICK t : t = Join(a \o (m \o b))
    OBVIOUS
  <1>1. PICK x \in Seq(Char), y \in Seq(Char), z \in Seq(Char) :
          /\ x = Ahead(a) /\ y = Join(m) /\ z = Fore(b) /\ t = x \o (y \o z)
    <2>1. Joined3(a, m, b)
      BY JoinThree
    <2> QED BY <1>0, <2>1, TextIsSeq DEF Joined3
  <1>2. /\ t \in Seq(Char) /\ Len(t) = Len(x) + Len(y) + Len(z)
        /\ SubSeq(t, 1, Len(x)) = x
        /\ SubSeq(t, Len(x) + 1, Len(x) + Len(y)) = y
        /\ SubSeq(t, Len(x) + Len(y) + 1, Len(t)) = z
        /\ \A k \in 1..Len(t) :
             t[k] = IF k <= Len(x) THEN x[k]
                    ELSE IF k <= Len(x) + Len(y) THEN y[k - Len(x)]
                    ELSE z[k - Len(x) - Len(y)]
    <2>1. HasParts(Char, x \o (y \o z), x, y, z)
      BY Middle
    <2> QED BY <1>1, <2>1 DEF HasParts
  <1>3. PICK X \in Nat, Y \in Nat, Z \in Nat : X = Len(x) /\ Y = Len(y) /\ Z = Len(z)
    OBVIOUS
  <1>4. PICK i, j : i = X + 1 /\ j = X + Y
    OBVIOUS
  <1>5. PICK T \in Nat : T = Len(t) /\ T = X + Y + Z
    BY <1>2, <1>3
  <1>6. i \in 1..(T + 1) /\ j \in (i - 1)..T /\ i - 1 = X /\ j + 1 = X + Y + 1
    BY <1>4, <1>5
  <1>7. i = 1 \/ t[i - 1] = LF
    <2>1. CASE a = <<>>
      <3>1. x = <<>>
        BY <1>1, <2>1 DEF Ahead
      <3>2. X = 0
        BY <1>3, <3>1
      <3> QED BY <1>4, <3>2
    <2>2. CASE a # <<>>
      <3>1. PICK u \in Seq(Char), n \in Seq(Char) : u = Join(a) /\ n = NL /\ Len(n) = 1 /\ n[1] = LF
        BY <2>2, ForeJoin, NewLine, TextIsSeq DEF NL
      <3>2. x = u \o n
        BY <1>1, <2>2, <3>1 DEF Ahead
      <3>3. Len(x) = Len(u) + Len(n) /\ x[Len(u) + 1] = n[Len(u) + 1 - Len(u)]
        <4>1. /\ Len(u \o n) = Len(u) + Len(n) /\ Len(u) \in Nat
              /\ \A k \in 1..(Len(u) + Len(n)) : (u \o n)[k] = IF k <= Len(u) THEN u[k] ELSE n[k - Len(u)]
          BY ConcatProperties
        <4>2. Len(u) + 1 \in 1..(Len(u) + Len(n)) /\ ~(Len(u) + 1 <= Len(u))
          BY <3>1, <4>1
        <4> QED BY <3>2, <4>1, <4>2
      <3>4. PICK U \in Nat : U = Len(u)
        OBVIOUS
      <3>5. X = U + 1 /\ x[X] = LF
        <4>1. U + 1 - U = 1
          OBVIOUS
        <4> QED BY <1>3, <3>1, <3>3, <3>4, <4>1
      <3>6. X \in 1..T /\ X <= X
        BY <1>5, <3>5
      <3>7. t[X] = x[X]
        BY <1>2, <1>3, <1>5, <3>6
      <3> QED BY <1>6, <3>5, <3>7
    <2> QED BY <2>1, <2>2
  <1>8. j = T \/ t[j + 1] = LF
    <2>1. CASE b = <<>>
      <3>1. z = <<>>
        BY <1>1, <2>1, ForeCat
      <3>2. Z = 0
        BY <1>3, <3>1
      <3> QED BY <1>4, <1>5, <3>2
    <2>2. CASE b # <<>>
      <3>1. PICK u \in Seq(Char), n \in Seq(Char) : u = Join(b) /\ n = NL /\ Len(n) = 1 /\ n[1] = LF
        BY <2>2, ForeJoin, NewLine, TextIsSeq DEF NL
      <3>2. z = n \o u
        BY <1>1, <2>2, <3>1, ForeJoin
      <3>3. Len(z) = Len(n) + Len(u) /\ z[1] = n[1]
        <4>1. /\ Len(n \o u) = Len(n) + Len(u) /\ Len(u) \in Nat
              /\ \A k \in 1..(Len(n) + Len(u)) : (n \o u)[k] = IF k <= Len(n) THEN n[k] ELSE u[k - Len(n)]
          BY ConcatProperties
        <4>2. 1 \in 1..(Len(n) + Len(u)) /\ 1 <= Len(n)
          BY <3>1, <4>1
        <4> QED BY <3>2, <4>1, <4>2
      <3>4. Z >= 1
        <4>1. Len(u) \in Nat
          OBVIOUS
        <4> QED BY <1>3, <3>1, <3>3, <4>1
      <3>5. PICK k \in Int : k = X + Y + 1
        OBVIOUS
      <3>6. k \in 1..T /\ ~(k <= X) /\ ~(k <= X + Y) /\ k - X - Y = 1 /\ k = j + 1
        BY <1>4, <1>5, <3>4, <3>5
      <3>7. t[k] = z[1]
        BY <1>2, <1>3, <1>5, <3>6
      <3> QED BY <3>1, <3>3, <3>6, <3>7
    <2> QED BY <2>1, <2>2
  <1>9. LinesWithin(t, a, m, b, i, j)
    <2>1. SubSeq(t, 1, i - 1) = x /\ SubSeq(t, i, j) = y /\ SubSeq(t, j + 1, Len(t)) = z
      BY <1>2, <1>3, <1>4, <1>6
    <2> QED BY <1>1, <1>5, <1>6, <1>7, <1>8, <2>1 DEF LinesWithin, WholeLines
  <1> QED BY <1>0, <1>9

\* One match, from i to j, and what was put there.
Placed(i, j, r) ==
  /\ i \in 1..(Len(Base) + 1) /\ j \in (i - 1)..Len(Base) /\ r \in Text
  /\ Ink(SubSeq(Base, i, j)) = Ink(old)
  /\ result.text = SubSeq(Base, 1, i - 1) \o (r \o SubSeq(Base, j + 1, Len(Base)))
  /\ result.level < 4 => r = new
  /\ ~(result.level < 4) =>
       WholeLines(Base, i, j) /\ SameButMoved(r, new, Indent(Lines(SubSeq(Base, i, j))[1]))

\* One place is found.
LEMMA OneFound ==
  ASSUME Decisive, result.how = "replaced", ~replaceAll
  PROVE  \E i \in Found : Found = {i}
  <1>1. PICK n \in Nat \ {0} : n = Cardinality(Found) /\ IsFiniteSet(Found)
    BY FoundFacts
  <1>2. ~(n > 1)
    BY <1>1, Deciding DEF Decisive, Found
  <1>3. n = 1
    BY <1>2
  <1> QED BY <1>1, <1>3, FS_Singleton

\* At the first three levels the new text stands there,
LEMMA OneTextPlaced ==
  ASSUME Decisive, result.how = "replaced", ~replaceAll, result.level < 4
  PROVE  \E i, j, r : Placed(i, j, r)
  <1>1. result.level # 4 /\ result.text = Spliced(Base, Found, Width, [i \in Found |-> new])
    BY Deciding DEF Decisive, Spliceable, Found
  <1>2. PICK p : LookedFor(p)
    BY <1>1, TextPlaces
  <1>3. PICK i : i \in Found /\ Found = {i}
    BY OneFound
  <1>4. /\ p \in Text /\ Ink(p) = Ink(old) /\ i \in Occurrences(Base, p) /\ Width = Len(p)
        /\ Width \in Nat \ {0} /\ i \in 1..(Len(Base) - Width + 1)
    BY <1>1, <1>2, <1>3, PlacesFacts, FoundFacts DEF LookedFor
  <1>5. Base \in Seq(Char) /\ new \in Text /\ new \in Seq(Char) /\ Len(Base) \in Nat
    BY BaseType, TextIsSeq DEF Decisive, Tryable
  <1>6. PICK w \in Nat \ {0} : w = Width
    BY <1>4
  <1>7. PICK j : j = i + w - 1
    OBVIOUS
  <1>8. i \in 1..(Len(Base) + 1) /\ j \in (i - 1)..Len(Base) /\ j + 1 = i + w
    BY <1>4, <1>5, <1>6, <1>7
  <1>9. Ink(SubSeq(Base, i, j)) = Ink(old)
    <2>1. SubSeq(Base, i, i + Len(p) - 1) = p
      BY <1>4, OccurrenceIs
    <2> QED BY <1>4, <1>6, <1>7, <2>1
  <1>10. result.text = SubSeq(Base, 1, i - 1) \o (new \o SubSeq(Base, j + 1, Len(Base)))
    <2>0. PICK segment : segment = [k \in Found |-> new]
      OBVIOUS
    <2>1. segment = [k \in Found |-> new] /\ segment[i] = new
      BY <1>3, <2>0
    <2>2. segment[i] \in Seq(Char) /\ i \in 1..(Len(Base) - w + 1)
      BY <1>4, <1>5, <1>6, <2>1
    <2>3. SplicedOnce(Base, i, w, segment)
      BY <1>5, <2>2, OneSplice
    <2> QED BY <1>1, <1>3, <1>6, <1>8, <2>1, <2>3 DEF SplicedOnce
  <1>11. Placed(i, j, new)
    BY <1>5, <1>8, <1>9, <1>10 DEF Placed
  <1> QED BY <1>11

\* Reindented lines are the new text's lines, moved sideways.
LEMMA ReindentedMoved ==
  ASSUME NEW R, NEW prefix, Reindented(R, Lines(new), prefix), new \in Text
  PROVE  SameButMoved(Join(R), new, Len(prefix))
  <1>1. PICK b \in Seq(Text) : b = Lines(new)
    BY LinesAppend
  <1>2. R \in Seq(Unbroken) /\ R # <<>> /\ Len(R) = Len(b)
    BY <1>1 DEF Reindented
  <1>3. Lines(Join(R)) = R
    BY <1>2, LinesOfJoin
  <1>4. DOMAIN R = 1..Len(b) /\ DOMAIN b = 1..Len(b)
    BY <1>2
  <1>5. \A k \in DOMAIN b : SubSeq(R[k], Indent(R[k]) + 1, Len(R[k]))
                              = SubSeq(b[k], Indent(b[k]) + 1, Len(b[k]))
    <2>1. \A k \in 1..Len(b) : Rest(R[k]) = Rest(b[k])
      BY <1>1 DEF Reindented
    <2> QED BY <1>4, <2>1 DEF Rest
  <1>6. \A k \in DOMAIN b : b[k] = <<>> => R[k] = <<>>
    BY <1>1, <1>4 DEF Reindented
  <1>7. PICK full : full = {k \in DOMAIN b : b[k] # <<>>}
    OBVIOUS
  <1>8. ASSUME NEW k \in full, NEW least \in full, \A j \in full : Indent(b[least]) <= Indent(b[j])
        PROVE  Indent(R[k]) = Len(prefix) + Indent(b[k]) - Indent(b[least])
    <2>1. k \in 1..Len(b) /\ b[k] # <<>> /\ least \in 1..Len(b) /\ b[least] # <<>>
      BY <1>4, <1>7
    <2>2. \A j \in 1..Len(b) : b[j] # <<>> => Indent(b[least]) <= Indent(b[j])
      BY <1>4, <1>7, <1>8
    <2> QED BY <1>1, <2>1, <2>2 DEF Reindented
  <1>9. ASSUME NEW k \in DOMAIN b, k \notin full PROVE R[k] = <<>>
    BY <1>6, <1>7, <1>9
  <1>10. PICK t, c : t = Join(R) /\ c = Len(prefix)
    OBVIOUS
  <1>11. SameButMoved(t, new, c)
    <2>1. Lines(t) = R /\ Lines(new) = b
      BY <1>1, <1>3, <1>10
    <2>2. \A k \in full : \A least \in full :
            (\A j \in full : Indent(b[least]) <= Indent(b[j]))
              => Indent(R[k]) = c + Indent(b[k]) - Indent(b[least])
      BY <1>8, <1>10
    <2>3. DOMAIN R = DOMAIN b
      BY <1>4
    <2>4. \A k \in DOMAIN b :
            /\ SubSeq(R[k], Indent(R[k]) + 1, Len(R[k])) = SubSeq(b[k], Indent(b[k]) + 1, Len(b[k]))
            /\ k \notin full => R[k] = <<>>
      BY <1>5, <1>9
    <2>5. /\ DOMAIN Lines(t) = DOMAIN Lines(new)
          /\ \A k \in DOMAIN Lines(new) :
               /\ SubSeq(Lines(t)[k], Indent(Lines(t)[k]) + 1, Len(Lines(t)[k]))
                    = SubSeq(Lines(new)[k], Indent(Lines(new)[k]) + 1, Len(Lines(new)[k]))
               /\ k \notin full => Lines(t)[k] = <<>>
          /\ \A k \in full : \A least \in full :
               (\A j \in full : Indent(Lines(new)[least]) <= Indent(Lines(new)[j]))
                 => Indent(Lines(t)[k]) = c + Indent(Lines(new)[k]) - Indent(Lines(new)[least])
      BY <2>1, <2>2, <2>3, <2>4
    <2>6. full = {k \in DOMAIN Lines(new) : Lines(new)[k] # <<>>}
      BY <1>7, <2>1
    <2> QED BY <2>5, <2>6, Zenon DEF SameButMoved
  <1> QED BY <1>10, <1>11

\* at the last one its lines do.
LEMMA OneWindowPlaced ==
  ASSUME Decisive, result.how = "replaced", ~replaceAll, ~(result.level < 4)
  PROVE  \E i, j, r : Placed(i, j, r)
  <1>1. result.level = 4 /\ result.text = Join(Spliced(Lines(Base), Found, Width, Replacement))
    BY Deciding DEF Decisive, Spliceable, Found, Replacement
  <1>2. PICK p : LookedForLines(p)
    BY <1>1, LinePlaces
  <1>3. PICK f : f \in Found /\ Found = {f}
    BY OneFound
  <1>4. new \in Text /\ Base \in Text
    BY BaseType DEF Decisive, Tryable
  <1>5. PICK ls \in Seq(Unbroken) : ls = Lines(Base) /\ Join(ls) = Base /\ ls \in Seq(Text)
    BY <1>4, JoinOfLines, LinesAppend
  <1>6. /\ p \in Seq(Text) /\ Ink(Fore(p)) = Ink(old) /\ f \in LineWindows(ls, p) /\ Width = Len(p)
        /\ Width \in Nat \ {0} /\ f \in 1..(Len(ls) - Width + 1)
    BY <1>1, <1>2, <1>3, <1>5, PlacesFacts, FoundFacts DEF LookedForLines
  <1>7. PICK w \in Nat \ {0} : w = Width
    BY <1>6
  <1>8. PICK g : g = f + w - 1
    OBVIOUS
  <1>9. f \in 1..(Len(ls) + 1) /\ g \in (f - 1)..Len(ls) /\ g + 1 = f + w /\ g - f + 1 = w
        /\ Len(ls) \in Nat /\ 1 <= w
    BY <1>6, <1>7, <1>8
  <1>10. PICK U : U = Unbroken
    OBVIOUS
  <1>11. PICK a \in Seq(U), m \in Seq(U), b \in Seq(U) :
           /\ a = SubSeq(ls, 1, f - 1) /\ m = SubSeq(ls, f, g) /\ b = SubSeq(ls, f + w, Len(ls))
           /\ ls = a \o (m \o b) /\ Len(m) = w
    <2>1. ls \in Seq(U)
      BY <1>10
    <2>2. InParts(U, ls, f, g)
      BY <1>9, <2>1, Parted
    <2> QED BY <1>9, <2>2 DEF InParts
  <1>12. /\ a \in Seq(Text) /\ m \in Seq(Text) /\ b \in Seq(Text) /\ m # <<>>
         /\ m[1] = ls[f]
    <2>1. m # <<>>
      <3>1. Len(m) # 0
        BY <1>9, <1>11
      <3> QED BY <3>1
    <2>2. m[1] = ls[f]
      <3>1. \A k \in 1..(g - f + 1) : SubSeq(ls, f, g)[k] = ls[f + k - 1]
        <4>1. ls \in Seq(U)
          BY <1>10
        <4> QED BY <1>9, <4>1, Part
      <3>2. 1 \in 1..(g - f + 1) /\ f + 1 - 1 = f
        BY <1>9
      <3> QED BY <1>11, <3>1, <3>2
    <2> QED BY <1>10, <1>11, <2>1, <2>2, UnbrokenText
  <1>13. PICK R : /\ R = Replacement[f] /\ R \in Seq(Unbroken) /\ R \in Seq(Text) /\ R # <<>>
                  /\ Reindented(R, Lines(new), BasePrefix(ls[f]))
    <2>1. Reindented(Replacement[f], Lines(new), BasePrefix(ls[f]))
      BY <1>1, <1>3, <1>5, ReplacementFacts
    <2>2. Replacement[f] \in Seq(Unbroken) /\ Replacement[f] # <<>>
      BY <2>1 DEF Reindented
    <2> QED BY <2>1, <2>2, UnbrokenText
  <1>14. Spliced(ls, {f}, w, Replacement) = a \o (R \o b)
    <2>1. Replacement[f] \in Seq(U) /\ ls \in Seq(U) /\ f \in 1..(Len(ls) - w + 1)
      BY <1>6, <1>7, <1>10, <1>13
    <2>2. SplicedOnce(ls, f, w, Replacement)
      BY <2>1, OneSplice
    <2> QED BY <1>11, <1>13, <2>2 DEF SplicedOnce
  <1>15. result.text = Ahead(a) \o (Join(R) \o Fore(b)) /\ Join(R) \in Text
    <2>1. result.text = Join(a \o (R \o b))
      BY <1>1, <1>3, <1>5, <1>7, <1>14
    <2>2. Joined3(a, R, b)
      BY <1>12, <1>13, JoinThree
    <2> QED BY <2>1, <2>2 DEF Joined3
  <1>16. PICK i, j : LinesWithin(Base, a, m, b, i, j)
    <2>1. \E i, j : LinesWithin(Join(a \o (m \o b)), a, m, b, i, j)
      BY <1>12, LinesAreWithin
    <2> QED BY <1>5, <1>11, <2>1
  <1>17. /\ i \in 1..(Len(Base) + 1) /\ j \in (i - 1)..Len(Base) /\ WholeLines(Base, i, j)
         /\ SubSeq(Base, i, j) = Join(m)
         /\ result.text = SubSeq(Base, 1, i - 1) \o (Join(R) \o SubSeq(Base, j + 1, Len(Base)))
    BY <1>15, <1>16 DEF LinesWithin
  <1>18. Ink(SubSeq(Base, i, j)) = Ink(old)
    <2>1. SameRead(m, p)
      <3>1. SameRead(SubSeq(ls, f, f + Len(p) - 1), p)
        BY <1>5, <1>6, WindowReads
      <3> QED BY <1>6, <1>7, <1>8, <1>11, <3>1
    <2>2. Ink(Fore(m)) = Ink(Fore(p))
      BY <2>1, SameReadSameInk, SameInkSameText
    <2>3. Ink(Join(m)) = Ink(Fore(m))
      BY <1>12, InkOfJoin
    <2> QED BY <1>6, <1>17, <2>2, <2>3
  <1>19. SameButMoved(Join(R), new, Indent(Lines(SubSeq(Base, i, j))[1]))
    <2>1. Lines(Join(m)) = m
      BY <1>10, <1>12, LinesOfJoin
    <2>2. ls[f] \in Text
      <3>1. f \in 1..Len(ls)
        BY <1>6, <1>7, <1>9
      <3> QED BY <1>5, <3>1
    <2>3. Len(BasePrefix(ls[f])) = Indent(ls[f])
      BY <2>2, BasePrefixFacts
    <2>4. SameButMoved(Join(R), new, Len(BasePrefix(ls[f])))
      BY <1>4, <1>13, ReindentedMoved
    <2> QED BY <1>12, <1>17, <2>1, <2>3, <2>4
  <1>20. Placed(i, j, Join(R))
    BY <1>1, <1>15, <1>17, <1>18, <1>19 DEF Placed
  <1> QED BY <1>20

\* One part of the file, what stood around it, and what was written: the parts
\* around it as they are written back, and r between them.
Exchanged(s, b, c, r) ==
  /\ s \in Text /\ b \in Text /\ c \in Text /\ r \in Text
  /\ content = s \o (b \o c)
  /\ Ink(Written(b)) = Ink(old)
  /\ result.text = Written(s) \o (r \o Written(c))
  /\ result.level < 4 => r = new
  /\ ~(result.level < 4) =>
       /\ Written(s) # <<>> => Written(s)[Len(Written(s))] = LF
       /\ Written(c) # <<>> => Written(c)[1] = LF
       /\ SameButMoved(r, new, Indent(Lines(Written(b))[1]))

\* The parts of what the level looked at are parts of the file, as they are written back.
WrittenAs(x, m, z) ==
  \E s, b, c \in Text : /\ content = s \o (b \o c)
                        /\ Written(s) = x /\ Written(b) = m /\ Written(c) = z

LEMMA WrittenParts ==
  ASSUME Decisive, NEW x \in Text, NEW m \in Text, NEW z \in Text, Base = x \o (m \o z)
  PROVE  WrittenAs(x, m, z)
  <1>0. content \in Text
    BY DEF Decisive, Tryable
  <1>1. CASE result.level = 1
    BY <1>1 DEF Base, Written, WrittenAs
  <1>2. CASE result.level # 1
    <2>1. NormalizeLineEndings(content) = x \o (m \o z) /\ m \o z \in Text
      BY <1>2, TextCat DEF Base, Written
    <2>2. PICK s \in Text, r \in Text :
            content = s \o r /\ NormalizeLineEndings(s) = x /\ NormalizeLineEndings(r) = m \o z
      <3>1. CutInto(content, x, m \o z)
        BY <1>0, <2>1, NormCleft DEF Cleft
      <3> QED BY <3>1 DEF CutInto
    <2>3. PICK b \in Text, c \in Text :
            r = b \o c /\ NormalizeLineEndings(b) = m /\ NormalizeLineEndings(c) = z
      <3>1. CutInto(r, m, z)
        BY <2>2, NormCleft DEF Cleft
      <3> QED BY <3>1 DEF CutInto
    <2> QED BY <1>2, <2>2, <2>3 DEF Written, WrittenAs
  <1> QED BY <1>1, <1>2

\* What was placed was exchanged for a part of the file.
LEMMA PlacedIsExchanged ==
  ASSUME Decisive, NEW i, NEW j, NEW r, Placed(i, j, r)
  PROVE  \E s, b, c : Exchanged(s, b, c, r)
  <1>1. /\ Base \in Seq(Char) /\ i \in 1..(Len(Base) + 1) /\ j \in (i - 1)..Len(Base) /\ r \in Text
        /\ Len(Base) \in Nat
    BY BaseType, TextIsSeq DEF Placed
  <1>2. PICK x \in Text, m \in Text, z \in Text :
          /\ x = SubSeq(Base, 1, i - 1) /\ m = SubSeq(Base, i, j) /\ z = SubSeq(Base, j + 1, Len(Base))
          /\ Len(x) = i - 1 /\ Len(z) = Len(Base) - j /\ Base = x \o (m \o z)
    <2>0. PICK E : E = Char
      OBVIOUS
    <2>1. InParts(E, Base, i, j)
      BY <1>1, <2>0, Parted
    <2>2. PICK x, m, z : x = SubSeq(Base, 1, i - 1) /\ m = SubSeq(Base, i, j) /\ z = SubSeq(Base, j + 1, Len(Base))
      OBVIOUS
    <2>3. /\ x \in Seq(E) /\ m \in Seq(E) /\ z \in Seq(E)
          /\ Len(x) = i - 1 /\ Len(z) = Len(Base) - j /\ Base = x \o (m \o z)
      BY <2>1, <2>2 DEF InParts
    <2> QED BY <2>0, <2>2, <2>3, TextIsSeq
  <1>3. PICK s \in Text, b \in Text, c \in Text :
          /\ content = s \o (b \o c)
          /\ Written(s) = x /\ Written(b) = m /\ Written(c) = z
    <2>1. Base = x \o (m \o z)
      BY <1>2
    <2>2. WrittenAs(x, m, z)
      BY <2>1, WrittenParts
    <2> QED BY <2>2 DEF WrittenAs
  <1>4. PICK n : n = Len(Base)
    OBVIOUS
  <1>5. i \in Int /\ j \in Int /\ n \in Nat /\ 1 <= i /\ i - 1 <= j /\ j <= n /\ i - 1 <= n
    BY <1>1, <1>4
  <1>6. ASSUME WholeLines(Base, i, j), x # <<>> PROVE x[Len(x)] = LF
    <2>1. PICK k \in Nat : k = i - 1 /\ k # 0 /\ i # 1
      <3>1. Len(x) # 0
        BY <1>6, TextIsSeq, EmptySeq
      <3>2. Len(x) = i - 1
        BY <1>2
      <3>3. i - 1 \in Nat /\ i - 1 # 0 /\ i # 1
        BY <1>5, <3>1, <3>2
      <3> QED BY <3>3
    <2>2. k \in 1..k /\ 1 \in 1..(Len(Base) + 1) /\ k \in (1 - 1)..Len(Base) /\ k \in 1..(k - 1 + 1)
          /\ 1 + k - 1 = k
      BY <1>4, <1>5, <2>1
    <2>3. SubSeq(Base, 1, k)[k] = Base[1 + k - 1]
      BY <1>1, <2>2, Part
    <2> QED BY <1>2, <1>6, <2>1, <2>2, <2>3 DEF WholeLines
  <1>7. ASSUME WholeLines(Base, i, j), z # <<>> PROVE z[1] = LF
    <2>1. j # n
      <3>1. Len(z) # 0
        BY <1>7, TextIsSeq, EmptySeq
      <3>2. Len(z) = Len(Base) - j
        BY <1>2
      <3> QED BY <1>4, <1>5, <3>1, <3>2
    <2>2. PICK k : k = j + 1
      OBVIOUS
    <2>3. /\ k \in 1..(Len(Base) + 1) /\ n \in (k - 1)..Len(Base) /\ 1 \in 1..(n - k + 1)
          /\ k + 1 - 1 = k
      BY <1>4, <1>5, <2>1, <2>2
    <2>4. SubSeq(Base, k, n)[1] = Base[k + 1 - 1]
      BY <1>1, <2>3, Part
    <2> QED BY <1>2, <1>4, <1>7, <2>1, <2>2, <2>3, <2>4 DEF WholeLines
  <1>8. Exchanged(s, b, c, r)
    BY <1>1, <1>2, <1>3, <1>6, <1>7 DEF Placed, Exchanged
  <1> QED BY <1>8

\* r stands in t between x and z.
StandsBetween(t, x, r, z) ==
  /\ SubSeq(t, Len(x) + 1, Len(t) - Len(z)) = r
  /\ t = x \o r \o z

LEMMA PutBetween ==
  ASSUME NEW x \in Text, NEW r \in Text, NEW z \in Text, NEW t, t = x \o (r \o z)
  PROVE  StandsBetween(t, x, r, z)
  <1>1. x \in Seq(Char) /\ r \in Seq(Char) /\ z \in Seq(Char)
    BY TextIsSeq
  <1>2. HasParts(Char, x \o (r \o z), x, r, z)
    BY <1>1, Middle
  <1>3. PICK X \in Nat, R \in Nat, Z \in Nat : X = Len(x) /\ R = Len(r) /\ Z = Len(z)
    BY <1>1
  <1>4. Len(t) = X + R + Z /\ SubSeq(t, X + 1, X + R) = r
    BY <1>2, <1>3 DEF HasParts
  <1>5. X + R + Z - Z = X + R
    BY <1>3
  <1>6. Grouped(x, r, z)
    BY <1>1, Regroup
  <1>7. SubSeq(t, Len(x) + 1, Len(t) - Len(z)) = r
    <2>1. Len(t) - Len(z) = X + R /\ Len(x) + 1 = X + 1
      BY <1>3, <1>4, <1>5
    <2> QED BY <1>4, <2>1
  <1>8. t = (x \o r) \o z
    BY <1>6 DEF Grouped
  <1> QED BY <1>7, <1>8 DEF StandsBetween

\* Nothing else changes, line endings of an inexact match apart.
LEMMA OnlyHolds ==
  ASSUME Decisive
  PROVE  OnlyTheMatchChanges
  <1> DEFINE Change(before, match, behind, put) ==
               /\ Ink(match) = Ink(old)
               /\ result.text = before \o put \o behind
               /\ IF result.level < 4 THEN put = new
                  ELSE /\ before # <<>> => before[Len(before)] = LF
                       /\ behind # <<>> => behind[1] = LF
                       /\ SameButMoved(put, new, Indent(Lines(match)[1]))
             Between(before, behind) ==
               SubSeq(result.text, Len(before) + 1, Len(result.text) - Len(behind))
             Changes(before, match, behind) == Change(before, match, behind, Between(before, behind))
  <1>1. SUFFICES ASSUME result.how = "replaced", ~replaceAll
                 PROVE  \E i \in 1..(Len(content) + 1) : \E j \in (i - 1)..Len(content) :
                          Changes(Written(SubSeq(content, 1, i - 1)), Written(SubSeq(content, i, j)),
                                  Written(SubSeq(content, j + 1, Len(content))))
    BY DEF OnlyTheMatchChanges
  <1>2. PICK s, b, c, r : Exchanged(s, b, c, r)
    <2>1. PICK i, j, r : Placed(i, j, r)
      BY <1>1, OneTextPlaced, OneWindowPlaced
    <2> QED BY <2>1, PlacedIsExchanged
  <1>3. /\ s \in Text /\ b \in Text /\ c \in Text /\ r \in Text /\ content = s \o (b \o c)
        /\ s \in Seq(Char) /\ b \in Seq(Char) /\ c \in Seq(Char)
        /\ Written(s) \in Text /\ Written(c) \in Text
    BY <1>2, NormType, TextIsSeq DEF Exchanged, Written
  <1>4. PICK S \in Nat, B \in Nat, C \in Nat : S = Len(s) /\ B = Len(b) /\ C = Len(c)
    BY <1>3
  <1>5. PICK i, j : i = S + 1 /\ j = S + B
    OBVIOUS
  <1>6. /\ Len(content) = S + B + C /\ SubSeq(content, 1, S) = s
        /\ SubSeq(content, S + 1, S + B) = b /\ SubSeq(content, S + B + 1, Len(content)) = c
    <2>1. HasParts(Char, s \o (b \o c), s, b, c)
      BY <1>3, Middle
    <2> QED BY <1>3, <1>4, <2>1 DEF HasParts
  <1>7. i \in 1..(Len(content) + 1) /\ j \in (i - 1)..Len(content) /\ i - 1 = S /\ j + 1 = S + B + 1
    BY <1>4, <1>5, <1>6
  <1>8. Changes(Written(s), Written(b), Written(c))
    <2>1. StandsBetween(result.text, Written(s), r, Written(c))
      BY <1>2, <1>3, PutBetween DEF Exchanged
    <2>2. Between(Written(s), Written(c)) = r /\ result.text = Written(s) \o r \o Written(c)
      BY <2>1 DEF StandsBetween
    <2>3. Change(Written(s), Written(b), Written(c), r)
      BY <1>2, <2>2 DEF Exchanged
    <2> HIDE DEF Change, Between
    <2> QED BY <2>2, <2>3
  <1> HIDE DEF Changes
  <1> QED BY <1>5, <1>6, <1>7, <1>8

-----------------------------------------------------------------------------
(* An edit is tried once, and nothing changes what it was made of.         *)

EditInv ==
  /\ content \in Contents /\ old \in OldTexts /\ new \in NewTexts
  /\ \/ result \in {Untried, [Untried EXCEPT !.how = "refused"]}
     \/ old # <<>> /\ result = FuzzyReplace

\* What was not tried has no outcome; what was is what the four levels make of
\* the file and the edit as they still are.
LEMMA EditInvariant == EditSpec => []EditInv
  <1>1. EditInit => EditInv
    BY DEF EditInit, EditInv
  <1>2. EditInv /\ [EditNext]_<<editVars, result>> => EditInv'
    <2> SUFFICES ASSUME EditInv, [EditNext]_<<editVars, result>>
                 PROVE  EditInv'
      OBVIOUS
    <2>1. content' = content /\ old' = old /\ new' = new /\ replaceAll' = replaceAll
      BY DEF EditNext, Refuse, Edit, editVars
    <2>2. FuzzyReplace' = FuzzyReplace
      BY <2>1 DEF FuzzyReplace, ExactReplace, TrimmedReplace, LineByLineReplace, Decided
    <2>3. CASE Refuse
      BY <2>1, <2>3 DEF EditInv, Refuse
    <2>4. CASE Edit
      BY <2>1, <2>2, <2>4 DEF EditInv, Edit
    <2>5. CASE UNCHANGED <<editVars, result>>
      BY <2>1, <2>2, <2>5 DEF EditInv
    <2> QED BY <2>3, <2>4, <2>5 DEF EditNext
  <1> QED BY <1>1, <1>2, PTL DEF EditSpec

\* So the properties are about what FuzzyReplace returns.
LEMMA WhatIsReturned ==
  ASSUME EditInv, result.how \in {"missing", "ambiguous", "replaced"}
  PROVE  Tryable /\ result = FuzzyReplace
  <1>1. content \in Text /\ old \in Text /\ new \in Text
    BY FuzzyAssumption DEF EditInv
  <1>2. old # <<>> /\ result = FuzzyReplace
    BY DEF EditInv, Untried
  <1> QED BY <1>1, <1>2 DEF Tryable

\* An edit is said not to match only if the old text stands nowhere in the file,
\* neither as it is nor line by line (edit_file.go:142), whatever the texts.
THEOREM MissesAreReal == EditSpec => []MissIsReal
  <1>1. EditInv => MissIsReal
    <2> SUFFICES ASSUME EditInv, result.how = "missing" PROVE MissIsReal
      BY DEF MissIsReal
    <2>1. Tryable /\ result = FuzzyReplace
      BY WhatIsReturned
    <2> QED BY <2>1, MissHolds DEF Tryable
  <1> QED BY <1>1, EditInvariant, PTL

\* An edit is made at one place only if there are no two side by side, refused
\* only if there are, and with replace_all made at as many as there are side by
\* side (README.md:115), whatever the texts.
THEOREM UniquenessEnforced == EditSpec => []UniqueOrRefused
  <1>1. EditInv => UniqueOrRefused
    <2> SUFFICES ASSUME EditInv, result.how \in {"ambiguous", "replaced"} PROVE UniqueOrRefused
      BY DEF UniqueOrRefused
    <2>1. Decisive
      BY WhatIsReturned DEF Decisive
    <2> QED BY <2>1, UniqueHolds
  <1> QED BY <1>1, EditInvariant, PTL

\* Without replace_all an edit replaces one part of the file that reads as the
\* old text, by the new text or its lines moved sideways (edit_file.go:30), whatever
\* the texts. What stands before and behind it stays as it is when the old text was
\* found exactly, and has its CRLF line endings written as LF otherwise (fuzzy.go:26).
THEOREM NothingElseChanges == EditSpec => []OnlyTheMatchChanges
  <1>1. EditInv => OnlyTheMatchChanges
    <2> SUFFICES ASSUME EditInv, result.how = "replaced" PROVE OnlyTheMatchChanges
      BY DEF OnlyTheMatchChanges
    <2>1. Decisive
      BY WhatIsReturned DEF Decisive
    <2> QED BY <2>1, OnlyHolds
  <1> QED BY <1>1, EditInvariant, PTL
=============================================================================
