---------------------------- MODULE TrimProofs -----------------------------
(***************************************************************************)
(* Proofs about WindowTrimmer and Providers, for every history and every   *)
(* configuration: whatever is cut from whatever file, the provider is sent *)
(* a history it accepts.                                                   *)
(***************************************************************************)
EXTENDS Providers, FiniteSetTheorems, SequenceTheorems, WellFoundedInduction, TLAPS

(* The greatest and the least element of a finite set: the elements above  *)
(* (below) each of them form a finite set, and one of these sets is        *)
(* minimal.                                                                *)

LEMMA MinimalSubset ==
  ASSUME NEW S, NEW Family \in SUBSET FiniteSubsetsOf(S), Family # {}
  PROVE  \E U \in Family : \A V \in Family : ~(V \subseteq U /\ V # U)
  <1>1. PICK U \in Family : \A V \in Family : ~(<<V, U>> \in StrictSubsetOrdering(S))
    BY FS_StrictSubsetOrderingWellFounded, WFMin
  <1>2. \A V \in Family : V \in SUBSET S
    BY DEF FiniteSubsetsOf
  <1> QED BY <1>1, <1>2 DEF StrictSubsetOrdering

LEMMA MaxIsGreatest ==
  ASSUME NEW S \in SUBSET Int, IsFiniteSet(S), S # {}
  PROVE  Max(S) \in S /\ \A y \in S : Max(S) >= y
  <1> DEFINE Above(x) == {y \in S : y > x}
             Family == {Above(x) : x \in S}
  <1>1. Family \in SUBSET FiniteSubsetsOf(S) /\ Family # {}
    <2>1. ASSUME NEW x \in S PROVE Above(x) \in FiniteSubsetsOf(S)
      <3>1. Above(x) \in SUBSET S
        OBVIOUS
      <3>2. IsFiniteSet(Above(x))
        BY <3>1, FS_Subset
      <3> QED BY <3>1, <3>2 DEF FiniteSubsetsOf
    <2> HIDE DEF Above
    <2> QED BY <2>1
  <1>2. PICK x \in S : \A y \in S : ~(Above(y) \subseteq Above(x) /\ Above(y) # Above(x))
    <2>1. PICK U \in Family : \A V \in Family : ~(V \subseteq U /\ V # U)
      <3> HIDE DEF Family
      <3> QED BY <1>1, MinimalSubset
    <2> HIDE DEF Above
    <2> QED BY <2>1
  <1>3. ASSUME NEW y \in S, y > x PROVE FALSE
    <2>1. Above(y) \subseteq Above(x)
      <3>1. \A z \in S : z > y => z > x
        BY <1>3
      <3> QED BY <3>1
    <2>2. y \in Above(x) /\ y \notin Above(y)
      BY <1>3
    <2> QED BY <1>2, <2>1, <2>2
  <1>4. \A y \in S : x >= y
    BY <1>3
  <1> QED BY <1>4 DEF Max

LEMMA MinIsLeast ==
  ASSUME NEW S \in SUBSET Int, IsFiniteSet(S), S # {}
  PROVE  Min(S) \in S /\ \A y \in S : Min(S) <= y
  <1> DEFINE Below(x) == {y \in S : y < x}
             Family == {Below(x) : x \in S}
  <1>1. Family \in SUBSET FiniteSubsetsOf(S) /\ Family # {}
    <2>1. ASSUME NEW x \in S PROVE Below(x) \in FiniteSubsetsOf(S)
      <3>1. Below(x) \in SUBSET S
        OBVIOUS
      <3>2. IsFiniteSet(Below(x))
        BY <3>1, FS_Subset
      <3> QED BY <3>1, <3>2 DEF FiniteSubsetsOf
    <2> HIDE DEF Below
    <2> QED BY <2>1
  <1>2. PICK x \in S : \A y \in S : ~(Below(y) \subseteq Below(x) /\ Below(y) # Below(x))
    <2>1. PICK U \in Family : \A V \in Family : ~(V \subseteq U /\ V # U)
      <3> HIDE DEF Family
      <3> QED BY <1>1, MinimalSubset
    <2> HIDE DEF Below
    <2> QED BY <2>1
  <1>3. ASSUME NEW y \in S, y < x PROVE FALSE
    <2>1. Below(y) \subseteq Below(x)
      <3>1. \A z \in S : z < y => z < x
        BY <1>3
      <3> QED BY <3>1
    <2>2. y \in Below(x) /\ y \notin Below(y)
      BY <1>3
    <2> QED BY <1>2, <2>1, <2>2
  <1>4. \A y \in S : x <= y
    BY <1>3
  <1> QED BY <1>4 DEF Min

-----------------------------------------------------------------------------
(* What defensiveCleanup leaves is valid.                                  *)

\* The first pass leaves a result only if the answer that asked for it is
\* kept, with nothing but results between them.
LEMMA OrphansDropped ==
  ASSUME NEW tail, NEW kept \in SUBSET Int, NEW t \in DropOrphanResults(tail, kept),
         tail[t].role = "tool"
  PROVE  \E a \in WithRole(tail, DropOrphanResults(tail, kept), "assistant") :
           /\ t \in ResultRun(tail, DropOrphanResults(tail, kept), a)
           /\ tail[t].answers \in CallIds(tail[a])
  <1> DEFINE K1 == DropOrphanResults(tail, kept)
  <1>1. PICK a \in kept : /\ a < t
                          /\ tail[a].role = "assistant"
                          /\ tail[t].answers \in CallIds(tail[a])
                          /\ OnlyToolsBetween(tail, kept, a, t)
    BY DEF DropOrphanResults, MatchingCallExists
  <1>2. K1 \subseteq kept
    BY DEF DropOrphanResults
  <1>3. a \in WithRole(tail, K1, "assistant")
    BY <1>1 DEF WithRole, DropOrphanResults
  <1>4. OnlyToolsBetween(tail, K1, a, t)
    BY <1>1, <1>2 DEF OnlyToolsBetween
  <1>5. t \in ResultRun(tail, K1, a)
    BY <1>1, <1>4 DEF ResultRun
  <1> QED BY <1>1, <1>3, <1>5

\* A result follows one answer only.
LEMMA OneRunEach ==
  ASSUME NEW tail, NEW kept \in SUBSET Int,
         NEW a \in WithRole(tail, kept, "assistant"), NEW b \in WithRole(tail, kept, "assistant"),
         NEW t \in ResultRun(tail, kept, a), t \in ResultRun(tail, kept, b)
  PROVE  a = b
  <1>1. a \in Int /\ b \in Int /\ a < t /\ b < t
    BY DEF WithRole, ResultRun
  <1>2. ~(a < b) /\ ~(b < a)
    BY <1>1 DEF WithRole, ResultRun, OnlyToolsBetween
  <1> QED BY <1>1, <1>2

\* Whatever was kept, what defensiveCleanup leaves of it is a history the
\* provider accepts: every result right after its answer, every call answered
\* (window.go:99-162).
THEOREM CleanupIsValid ==
  ASSUME NEW tail, NEW kept \in SUBSET Int
  PROVE  ProviderValid(tail, DefensiveCleanup(tail, kept))
  <1> DEFINE K1 == DropOrphanResults(tail, kept)
             K2 == DropDanglingCalls(tail, K1)
             K3 == DropLeadingTools(tail, K2)
  <1>1. K1 \in SUBSET Int /\ K2 \subseteq K1 /\ K3 \subseteq K2
    BY DEF DropOrphanResults, DropDanglingCalls, DropLeadingTools
  <1>2. K3 = DefensiveCleanup(tail, kept)
    BY DEF DefensiveCleanup
  <1>3. ASSUME NEW a \in WithRole(tail, K1, "assistant"), a \notin Dangling(tail, K1)
        PROVE  a \in WithRole(tail, K3, "assistant")
    <2>1. a \in K1 /\ tail[a].role = "assistant" /\ a \in Int
      BY <1>1 DEF WithRole
    <2>2. a \in K2
      BY <1>3, <2>1 DEF DropDanglingCalls, ResultRun
    <2> QED BY <2>1, <2>2 DEF DropLeadingTools, WithRole
  <1>4. ASSUME NEW a, NEW t \in K3, t \in ResultRun(tail, K1, a)
        PROVE  Follows(tail, K3, a, t)
    BY <1>1, <1>4 DEF Follows, ResultRun, OnlyToolsBetween
  <1>5. NoOrphanResult(tail, K3)
    <2> SUFFICES ASSUME NEW t \in WithRole(tail, K3, "tool")
                 PROVE  \E a \in WithRole(tail, K3, "assistant") :
                          Follows(tail, K3, a, t) /\ tail[t].answers \in CallIds(tail[a])
      BY DEF NoOrphanResult
    <2>1. t \in K3 /\ t \in K2 /\ t \in K1 /\ tail[t].role = "tool"
      BY <1>1 DEF WithRole
    <2>2. PICK a \in WithRole(tail, K1, "assistant") :
            t \in ResultRun(tail, K1, a) /\ tail[t].answers \in CallIds(tail[a])
      BY <2>1, OrphansDropped
    <2>3. a \notin Dangling(tail, K1)
      BY <2>1, <2>2 DEF DropDanglingCalls
    <2> QED BY <1>3, <1>4, <2>1, <2>2, <2>3
  <1>6. NoDanglingCall(tail, K3)
    <2> SUFFICES ASSUME NEW a \in WithRole(tail, K3, "assistant"), NEW id \in CallIds(tail[a])
                 PROVE  \E t \in K3 : Follows(tail, K3, a, t) /\ tail[t].answers = id
      BY DEF NoDanglingCall
    <2>1. a \in WithRole(tail, K1, "assistant") /\ a \in K2 /\ a \in K3 /\ a \in Int
      BY <1>1 DEF WithRole
    <2>2. a \notin Dangling(tail, K1)
      BY <2>1 DEF DropDanglingCalls
    <2>3. PICK t \in ResultRun(tail, K1, a) : tail[t].answers = id
      BY <2>1, <2>2 DEF Dangling
    <2>4. t \in K1 /\ t \in Int /\ tail[t].role = "tool" /\ a < t
      BY <1>1 DEF ResultRun
    <2>5. t \in K2
      <3>1. t \notin Dangling(tail, K1)
        BY <2>4 DEF Dangling, WithRole
      <3>2. ASSUME NEW d \in Dangling(tail, K1), t \in ResultRun(tail, K1, d) PROVE FALSE
        <4>1. d \in WithRole(tail, K1, "assistant")
          BY DEF Dangling
        <4>2. d = a
          BY <1>1, <2>1, <2>3, <3>2, <4>1, OneRunEach
        <4> QED BY <2>2, <4>2
      <3> QED BY <2>4, <3>1, <3>2 DEF DropDanglingCalls
    <2>6. t \in K3
      <3>1. tail[a].role # "tool"
        BY DEF WithRole
      <3> QED BY <2>1, <2>4, <2>5, <3>1 DEF DropLeadingTools
    <2> QED BY <1>4, <2>3, <2>6
  <1> QED BY <1>2, <1>5, <1>6 DEF ProviderValid

\* In a session that has a user message, what Trim returns and what the engine
\* falls back on when that is nothing are both valid (loop.go:190-205).
THEOREM ViewValid ==
  ASSUME NEW tail \in Seq(Message), \E i \in DOMAIN tail : tail[i].role = "user"
  PROVE  ProviderValid(tail, ProviderView(tail))
  <1> DEFINE users == WithRole(tail, DOMAIN tail, "user")
  <1>1. ASSUME NEW kept \in SUBSET DOMAIN tail PROVE kept \in SUBSET Int
    OBVIOUS
  <1>2. ProviderValid(tail, Trim(tail))
    <2>1. ApplyTokenCap(tail, WindowByUserTurns(tail)) \in SUBSET DOMAIN tail
      BY DEF ApplyTokenCap, WindowByUserTurns, DropOldestUserTurns
    <2> QED BY <1>1, <2>1, CleanupIsValid DEF Trim
  <1>3. ProviderValid(tail, {LastUserMessage(tail)})
    <2>1. users \in SUBSET Int /\ users # {}
      BY DEF WithRole
    <2>2. IsFiniteSet(users)
      BY FS_Interval, FS_Subset DEF WithRole
    <2>3. LastUserMessage(tail) \in users
      BY <2>1, <2>2, MaxIsGreatest DEF LastUserMessage
    <2>4. tail[LastUserMessage(tail)].role = "user"
      BY <2>3 DEF WithRole
    <2> QED BY <2>4 DEF ProviderValid, NoOrphanResult, NoDanglingCall, WithRole
  <1> QED BY <1>2, <1>3 DEF ProviderView

-----------------------------------------------------------------------------
(* The trimmer never cuts into the user turn a run is in.                  *)

\* From position b on the history is one user turn, and every answer in it is
\* followed at once by the results of all its calls, in their order.
WholeTurn(tail, b) ==
  /\ b \in DOMAIN tail /\ tail[b].role = "user"
  /\ \A i \in b + 1 .. Len(tail) : tail[i].role # "user"
  /\ \A a \in b + 1 .. Len(tail) : tail[a].role = "assistant" =>
       \A k \in 1..Len(tail[a].calls) : /\ a + k <= Len(tail)
                                        /\ tail[a + k].role = "tool"
                                        /\ tail[a + k].answers = tail[a].calls[k].id
  /\ \A t \in b + 1 .. Len(tail) : tail[t].role = "tool" =>
       \E a \in b + 1 .. t - 1 : tail[a].role = "assistant" /\ t <= a + Len(tail[a].calls)

\* All messages of the last user turn are counted to the last turn.
LEMMA LastTurnCount ==
  ASSUME NEW tail \in Seq(Message), NEW kept \in SUBSET DOMAIN tail, NEW b \in kept, WholeTurn(tail, b),
         NEW i \in b..Len(tail)
  PROVE  /\ TurnOf(tail, kept, i) = Cardinality(WithRole(tail, kept, "user"))
         /\ Cardinality(WithRole(tail, kept, "user")) \in Nat \ {0}
  <1> DEFINE users == WithRole(tail, kept, "user")
  <1>1. {u \in users : u <= i} = users
    BY DEF WithRole, WholeTurn
  <1>2. users \in SUBSET (1..Len(tail)) /\ b \in users
    BY DEF WithRole, WholeTurn
  <1> HIDE DEF users
  <1>3. IsFiniteSet(users)
    <2>1. IsFiniteSet(1..Len(tail))
      BY FS_Interval
    <2> QED BY <1>2, <2>1, FS_Subset
  <1>4. Cardinality(users) \in Nat /\ Cardinality(users) # 0
    BY <1>2, <1>3, FS_CardinalityType, FS_EmptySet
  <1> QED BY <1>1, <1>4 DEF TurnOf, users

\* The window by user turns keeps the last one, and so does the token cap.
LEMMA WindowKeepsTurn ==
  ASSUME NEW tail \in Seq(Message), NEW b, WholeTurn(tail, b)
  PROVE  b..Len(tail) \subseteq WindowByUserTurns(tail)
  <1>1. b \in DOMAIN tail /\ b..Len(tail) \subseteq DOMAIN tail
    BY DEF WholeTurn
  <1>2. \A i \in b..Len(tail) :
           /\ TurnOf(tail, DOMAIN tail, i) = Cardinality(WithRole(tail, DOMAIN tail, "user"))
           /\ Cardinality(WithRole(tail, DOMAIN tail, "user")) \in Nat
    BY <1>1, LastTurnCount
  <1> QED BY <1>1, <1>2, TrimConfigAssumption DEF WindowByUserTurns

LEMMA CapKeepsTurn ==
  ASSUME NEW tail \in Seq(Message), NEW b, WholeTurn(tail, b), NEW kept \in SUBSET DOMAIN tail,
         b..Len(tail) \subseteq kept
  PROVE  b..Len(tail) \subseteq ApplyTokenCap(tail, kept)
  <1> DEFINE turns == Cardinality(WithRole(tail, kept, "user"))
             fits  == {n \in 0..turns : \/ n + 1 >= turns
                                        \/ EstimateTokens(tail, DropOldestUserTurns(tail, kept, n))
                                             <= MaxTokens}
  <1>1. b \in kept
    BY DEF WholeTurn
  <1>2. \A i \in b..Len(tail) : TurnOf(tail, kept, i) = turns /\ turns \in Nat \ {0}
    BY <1>1, LastTurnCount
  <1>3. turns \in Nat \ {0}
    BY <1>2 DEF WholeTurn
  <1>4. fits \in SUBSET Int /\ IsFiniteSet(fits) /\ turns - 1 \in fits
    <2> HIDE DEF turns
    <2>1. fits \in SUBSET (0..turns)
      OBVIOUS
    <2>2. turns - 1 \in fits
      BY <1>3
    <2>3. IsFiniteSet(0..turns) /\ 0..turns \in SUBSET Int
      BY <1>3, FS_Interval
    <2> HIDE DEF fits
    <2> QED BY <2>1, <2>2, <2>3, FS_Subset
  <1>5. Min(fits) \in Int /\ Min(fits) < turns
    <2> HIDE DEF fits, turns
    <2>1. Min(fits) \in fits /\ \A n \in fits : Min(fits) <= n
      BY <1>4, MinIsLeast
    <2>2. Min(fits) \in Int /\ Min(fits) <= turns - 1
      BY <1>4, <2>1
    <2> QED BY <1>3, <2>2
  <1>6. b..Len(tail) \subseteq DropOldestUserTurns(tail, kept, Min(fits))
    <2> HIDE DEF fits, turns
    <2> QED BY <1>2, <1>3, <1>5 DEF DropOldestUserTurns
  <1> QED BY <1>6 DEF ApplyTokenCap

\* Results and answers of a whole turn survive defensiveCleanup.
LEMMA CleanupKeepsTurn ==
  ASSUME NEW tail \in Seq(Message), NEW b, WholeTurn(tail, b), NEW kept \in SUBSET DOMAIN tail,
         b..Len(tail) \subseteq kept
  PROVE  b..Len(tail) \subseteq DefensiveCleanup(tail, kept)
  <1> DEFINE K1 == DropOrphanResults(tail, kept)
             K2 == DropDanglingCalls(tail, K1)
             K3 == DropLeadingTools(tail, K2)
  <1>0. b \in DOMAIN tail /\ b \in b..Len(tail) /\ kept \in SUBSET Int /\ Len(tail) \in Nat
    BY DEF WholeTurn
  <1>1. ASSUME NEW a \in b + 1 .. Len(tail), tail[a].role = "assistant", NEW k \in 1..Len(tail[a].calls),
               NEW K \in SUBSET kept
        PROVE  /\ a + k \in b + 1 .. Len(tail) /\ a < a + k
               /\ tail[a + k].role = "tool" /\ tail[a + k].answers = tail[a].calls[k].id
               /\ OnlyToolsBetween(tail, K, a, a + k)
    <2>1. tail[a] \in Message /\ tail[a].calls \in Seq(ToolCall) /\ Len(tail[a].calls) \in Nat
      <3>1. tail[a] \in Message
        BY <1>0
      <3> QED BY <3>1 DEF Message
    <2>2. \A j \in 1..Len(tail[a].calls) : /\ a + j <= Len(tail)
                                            /\ tail[a + j].role = "tool"
                                            /\ tail[a + j].answers = tail[a].calls[j].id
      BY <1>1 DEF WholeTurn
    <2>3. OnlyToolsBetween(tail, K, a, a + k)
      <3> SUFFICES ASSUME NEW i \in K, a < i, i < a + k PROVE tail[i].role = "tool"
        BY DEF OnlyToolsBetween
      <3>1. i \in Int /\ a \in Int /\ k \in Int
        BY <1>0
      <3>2. i - a \in 1..Len(tail[a].calls) /\ a + (i - a) = i
        BY <2>1, <3>1
      <3> QED BY <2>2, <3>2
    <2> QED BY <1>0, <2>1, <2>2, <2>3
  <1>2. b..Len(tail) \subseteq K1
    <2> SUFFICES ASSUME NEW t \in b..Len(tail), tail[t].role = "tool"
                 PROVE  MatchingCallExists(tail, kept, t)
      BY DEF DropOrphanResults
    <2>1. t \in b + 1 .. Len(tail)
      BY <1>0 DEF WholeTurn
    <2>2. PICK a \in b + 1 .. t - 1 : tail[a].role = "assistant" /\ t <= a + Len(tail[a].calls)
      BY <2>1 DEF WholeTurn
    <2>3. a \in b + 1 .. Len(tail) /\ a \in kept
      BY <1>0, <2>1, <2>2
    <2>4. tail[a].calls \in Seq(ToolCall)
      <3>1. tail[a] \in Message
        BY <1>0, <2>3
      <3> QED BY <3>1 DEF Message
    <2>5. t - a \in 1..Len(tail[a].calls) /\ a + (t - a) = t
      BY <1>0, <2>1, <2>2, <2>4
    <2>6. /\ a < t /\ tail[t].answers = tail[a].calls[t - a].id
          /\ OnlyToolsBetween(tail, kept, a, t)
      BY <1>1, <2>2, <2>3, <2>5
    <2>7. tail[t].answers \in CallIds(tail[a])
      BY <2>4, <2>5, <2>6 DEF CallIds
    <2> QED BY <2>2, <2>3, <2>6, <2>7 DEF MatchingCallExists
  <1>3. K1 \in SUBSET kept
    BY DEF DropOrphanResults
  <1>4. ASSUME NEW a \in Dangling(tail, K1) PROVE a < b
    <2> SUFFICES ASSUME ~(a < b) PROVE FALSE
      OBVIOUS
    <2>1. a \in K1 /\ tail[a].role = "assistant"
      BY DEF Dangling, WithRole
    <2>2. a \in b + 1 .. Len(tail)
      BY <1>0, <1>3, <2>1 DEF WholeTurn
    <2>3. PICK id \in CallIds(tail[a]) : \A t \in ResultRun(tail, K1, a) : tail[t].answers # id
      BY DEF Dangling
    <2>4. tail[a].calls \in Seq(ToolCall)
      <3>1. tail[a] \in Message
        BY <1>0, <2>2
      <3> QED BY <3>1 DEF Message
    <2>5. PICK k \in 1..Len(tail[a].calls) : tail[a].calls[k].id = id
      BY <2>4 DEF CallIds
    <2>6. /\ a + k \in b + 1 .. Len(tail) /\ a < a + k
          /\ tail[a + k].role = "tool" /\ tail[a + k].answers = id
          /\ OnlyToolsBetween(tail, K1, a, a + k)
      BY <1>1, <1>3, <2>1, <2>2, <2>5
    <2>7. a + k \in K1
      BY <1>0, <1>2, <2>6
    <2> QED BY <2>3, <2>6, <2>7 DEF ResultRun
  <1>5. b..Len(tail) \subseteq K2
    <2> SUFFICES ASSUME NEW i \in b..Len(tail), NEW a \in Dangling(tail, K1), i \in ResultRun(tail, K1, a)
                 PROVE  FALSE
      <3>1. \A i \in b..Len(tail) : i \in K1 /\ i \notin Dangling(tail, K1)
        BY <1>0, <1>2, <1>4
      <3> QED BY <3>1 DEF DropDanglingCalls
    <2>1. a < b /\ b \in K1 /\ tail[b].role = "user"
      BY <1>0, <1>2, <1>4 DEF WholeTurn
    <2>2. tail[i].role = "tool" /\ OnlyToolsBetween(tail, K1, a, i)
      BY DEF ResultRun
    <2>3. b < i
      BY <1>0, <2>1, <2>2
    <2> QED BY <2>1, <2>2, <2>3 DEF OnlyToolsBetween
  <1>6. b..Len(tail) \subseteq K3
    <2>1. b \in K2 /\ tail[b].role # "tool"
      BY <1>0, <1>5 DEF WholeTurn
    <2>2. \A i \in b..Len(tail) : b <= i
      BY <1>0
    <2> QED BY <1>5, <2>1, <2>2 DEF DropLeadingTools
  <1> QED BY <1>6 DEF DefensiveCleanup

\* However small the window and the token cap, the provider is shown the whole
\* of the last user turn once all its calls are answered (window.go:31-97, and
\* the cleanup of 99-162 finds nothing in it to remove).
THEOREM LastTurnShown ==
  ASSUME NEW tail \in Seq(Message), NEW b, WholeTurn(tail, b)
  PROVE  b..Len(tail) \subseteq ProviderView(tail)
  <1>1. b \in b..Len(tail)
    BY DEF WholeTurn
  <1>2. WindowByUserTurns(tail) \in SUBSET DOMAIN tail
    BY DEF WindowByUserTurns
  <1>3. ApplyTokenCap(tail, WindowByUserTurns(tail)) \in SUBSET DOMAIN tail
    BY <1>2 DEF ApplyTokenCap, DropOldestUserTurns
  <1>4. b..Len(tail) \subseteq Trim(tail)
    BY <1>2, <1>3, WindowKeepsTurn, CapKeepsTurn, CleanupKeepsTurn DEF Trim
  <1> QED BY <1>1, <1>4 DEF ProviderView

-----------------------------------------------------------------------------
(* The slice a set of positions stands for.                                *)

\* The positions of a finite set in increasing order: each has its rank, and a
\* later rank is a later position.
LEMMA IncreasingOrder ==
  ASSUME NEW kept \in SUBSET Int, IsFiniteSet(kept)
  PROVE  /\ Cardinality(kept) \in Nat
         /\ \A n \in 1..Cardinality(kept) : Increasing(kept)[n] \in kept
         /\ \A m, n \in 1..Cardinality(kept) :
              m < n <=> Increasing(kept)[m] < Increasing(kept)[n]
         /\ \A i \in kept : \E n \in 1..Cardinality(kept) : Increasing(kept)[n] = i
  <1> DEFINE N == Cardinality(kept)
             UpTo(i) == {j \in kept : j <= i}
             rank == [i \in kept |-> Cardinality(UpTo(i))]
  <1>1. N \in Nat
    BY FS_CardinalityType
  <1>2. ASSUME NEW i \in kept
        PROVE  IsFiniteSet(UpTo(i)) /\ rank[i] = Cardinality(UpTo(i)) /\ rank[i] \in 1..N
    <2>1. IsFiniteSet(UpTo(i)) /\ Cardinality(UpTo(i)) <= N
      <3>1. UpTo(i) \in SUBSET kept
        OBVIOUS
      <3> HIDE DEF UpTo
      <3> QED BY <3>1, FS_Subset
    <2>2. i \in UpTo(i)
      OBVIOUS
    <2>3. Cardinality(UpTo(i)) \in Nat /\ Cardinality(UpTo(i)) # 0
      <3> HIDE DEF UpTo
      <3> QED BY <2>1, <2>2, FS_CardinalityType, FS_EmptySet
    <2>4. rank[i] = Cardinality(UpTo(i))
      OBVIOUS
    <2> HIDE DEF rank, UpTo
    <2> QED BY <1>1, <2>1, <2>3, <2>4
  <1>3. ASSUME NEW i \in kept, NEW j \in kept, i < j PROVE rank[i] < rank[j]
    <2>0. i \in Int /\ j \in Int /\ \A k \in kept : k \in Int
      OBVIOUS
    <2>1. UpTo(i) \in SUBSET UpTo(j) /\ j \in UpTo(j) /\ j \notin UpTo(i)
      <3>1. \A k \in kept : k <= i => k <= j
        BY <1>3, <2>0
      <3>2. ~(j <= i) /\ j <= j
        BY <1>3, <2>0
      <3> QED BY <3>1, <3>2
    <2>2. Cardinality(UpTo(i)) <= Cardinality(UpTo(j)) /\ Cardinality(UpTo(i)) # Cardinality(UpTo(j))
      <3> HIDE DEF UpTo
      <3> QED BY <1>2, <2>1, FS_Subset
    <2> HIDE DEF UpTo, rank
    <2> QED BY <1>1, <1>2, <2>2
  <1>4. rank \in Injection(kept, 1..N)
    <2>1. rank \in [kept -> 1..N]
      BY <1>2
    <2>2. ASSUME NEW i \in kept, NEW j \in kept, rank[i] = rank[j] PROVE i = j
      <3> HIDE DEF rank, N
      <3>0. rank[i] \in 1..N /\ rank[j] \in 1..N
        BY <1>2
      <3>1. rank[i] \in Int /\ rank[j] \in Int
        BY <1>1, <3>0
      <3> QED BY <1>3, <2>2, <3>1
    <2> HIDE DEF rank
    <2> QED BY <2>1, <2>2 DEF Injection, IsInjective
  <1>5. rank \in Surjection(kept, 1..N)
    <2>1. IsFiniteSet(1..N) /\ Cardinality(1..N) = N
      BY <1>1, FS_Interval
    <2> HIDE DEF rank
    <2> QED BY <1>4, <2>1, FS_Injection
  <1>6. ASSUME NEW n \in 1..N
        PROVE  Increasing(kept)[n] \in kept /\ rank[Increasing(kept)[n]] = n
    <2>1. PICK i \in kept : rank[i] = n
      <3> HIDE DEF rank
      <3> QED BY <1>5 DEF Surjection
    <2>2. Increasing(kept)[n] = CHOOSE k \in kept : Cardinality({j \in kept : j <= k}) = n
      BY DEF Increasing
    <2> QED BY <1>2, <2>1, <2>2
  <1>7. ASSUME NEW m \in 1..N, NEW n \in 1..N
        PROVE  m < n <=> Increasing(kept)[m] < Increasing(kept)[n]
    <2> DEFINE i == Increasing(kept)[m]
               j == Increasing(kept)[n]
    <2>1. i \in kept /\ j \in kept /\ rank[i] = m /\ rank[j] = n
      BY <1>6
    <2> HIDE DEF i, j, rank
    <2>2. i < j => m < n
      BY <1>3, <2>1
    <2>3. j < i => n < m
      BY <1>3, <2>1
    <2>4. m < n => i < j
      BY <1>1, <2>1, <2>3
    <2> QED BY <2>2, <2>4 DEF i, j
  <1>8. ASSUME NEW i \in kept PROVE \E n \in 1..N : Increasing(kept)[n] = i
    <2> DEFINE n == rank[i]
               j == Increasing(kept)[n]
    <2>1. n \in 1..N
      BY <1>2
    <2>2. j \in kept /\ rank[j] = n
      <3> HIDE DEF n, rank
      <3> QED BY <1>6, <2>1
    <2>3. j = i
      <3> HIDE DEF rank, j
      <3> QED BY <1>4, <2>2 DEF Injection, IsInjective
    <2> QED BY <2>1, <2>3
  <1> QED BY <1>1, <1>6, <1>7, <1>8

-----------------------------------------------------------------------------
(* What is left of a history that begins with a user message begins with   *)
(* one.                                                                    *)

StartsWithUser(tail, kept) ==
  \E f \in kept : tail[f].role = "user" /\ \A i \in kept : f <= i

\* The n oldest of more than n user turns go: a user message is first again.
LEMMA DropKeepsStart ==
  ASSUME NEW tail, NEW kept \in SUBSET Int, IsFiniteSet(kept), StartsWithUser(tail, kept),
         NEW n \in Nat, n < Cardinality(WithRole(tail, kept, "user"))
  PROVE  StartsWithUser(tail, {i \in kept : TurnOf(tail, kept, i) > n})
  <1> DEFINE users == WithRole(tail, kept, "user")
             S == {i \in kept : TurnOf(tail, kept, i) > n}
             UpTo(i) == {u \in users : u <= i}
  <1>1. users \in SUBSET kept /\ users \in SUBSET Int /\ IsFiniteSet(users)
    <2>1. users \in SUBSET kept
      BY DEF WithRole
    <2> HIDE DEF users
    <2> QED BY <2>1, FS_Subset
  <1>2. PICK f \in kept : tail[f].role = "user" /\ \A i \in kept : f <= i
    BY DEF StartsWithUser
  <1>3. f \in users
    BY <1>2 DEF WithRole
  <1>4. S \in SUBSET kept /\ S \in SUBSET Int /\ IsFiniteSet(S)
    <2>1. S \in SUBSET kept
      OBVIOUS
    <2> HIDE DEF S
    <2> QED BY <2>1, FS_Subset
  <1>5. Max(users) \in users /\ \A u \in users : Max(users) >= u
    <2> HIDE DEF users
    <2> QED BY <1>1, <1>3, MaxIsGreatest
  <1>6. Max(users) \in S
    <2>1. {u \in users : u <= Max(users)} = users /\ Max(users) \in kept
      <3> HIDE DEF users
      <3> QED BY <1>1, <1>5
    <2> QED BY <2>1 DEF TurnOf
  <1>7. Min(S) \in S /\ \A i \in S : Min(S) <= i
    <2> HIDE DEF S
    <2> QED BY <1>4, <1>6, MinIsLeast
  <1>8. PICK i : i = Min(S)
    OBVIOUS
  <1>9. i \in kept /\ i \in Int /\ TurnOf(tail, kept, i) > n
    BY <1>7, <1>8
  <1>10. UpTo(i) \in SUBSET users /\ f \in UpTo(i)
    BY <1>2, <1>3, <1>9
  <1>11. Max(UpTo(i)) \in UpTo(i) /\ \A u \in UpTo(i) : Max(UpTo(i)) >= u
    <2>1. UpTo(i) \in SUBSET Int /\ IsFiniteSet(UpTo(i))
      <3> HIDE DEF UpTo, users
      <3> QED BY <1>1, <1>10, FS_Subset
    <2> HIDE DEF UpTo
    <2> QED BY <1>10, <2>1, MaxIsGreatest
  <1>12. PICK m : m = Max(UpTo(i))
    OBVIOUS
  <1>13. m \in users /\ m \in kept /\ m \in Int /\ m <= i /\ tail[m].role = "user"
    <2>1. m \in users /\ m <= i
      BY <1>11, <1>12
    <2> QED BY <1>1, <2>1 DEF WithRole
  <1>14. UpTo(m) = UpTo(i)
    <2>1. \A u \in users : u <= m <=> u <= i
      <3>1. \A u \in users : u <= i => u <= m
        <4>1. \A u \in UpTo(i) : m >= u
          BY <1>11, <1>12
        <4>2. \A u \in users : u \in Int
          BY <1>1
        <4> HIDE DEF users
        <4> QED BY <1>13, <4>1, <4>2
      <3>2. \A u \in users : u \in Int
        BY <1>1
      <3> HIDE DEF users
      <3> QED BY <1>9, <1>13, <3>1, <3>2
    <2> HIDE DEF users
    <2> QED BY <2>1
  <1>15. m \in S
    <2>1. TurnOf(tail, kept, m) = TurnOf(tail, kept, i)
      BY <1>14 DEF TurnOf
    <2> QED BY <1>9, <1>13, <2>1
  <1>16. m = i
    <2>1. i <= m
      BY <1>7, <1>8, <1>15
    <2> QED BY <1>9, <1>13, <2>1
  <1> QED BY <1>7, <1>8, <1>13, <1>15, <1>16 DEF StartsWithUser

\* With a user message first, every message is in a user turn and there is one.
LEMMA StartTurns ==
  ASSUME NEW tail, NEW kept \in SUBSET Int, IsFiniteSet(kept), StartsWithUser(tail, kept)
  PROVE  /\ Cardinality(WithRole(tail, kept, "user")) \in Nat \ {0}
         /\ \A i \in kept : TurnOf(tail, kept, i) # 0
  <1> DEFINE users == WithRole(tail, kept, "user")
             UpTo(i) == {u \in users : u <= i}
  <1>1. users \in SUBSET kept
    BY DEF WithRole
  <1>2. PICK f \in kept : tail[f].role = "user" /\ \A i \in kept : f <= i
    BY DEF StartsWithUser
  <1>3. f \in users
    BY <1>2 DEF WithRole
  <1>4. IsFiniteSet(users)
    <2> HIDE DEF users
    <2> QED BY <1>1, FS_Subset
  <1>5. ASSUME NEW i \in kept PROVE Cardinality(UpTo(i)) # 0
    <2>1. UpTo(i) \in SUBSET users /\ f \in UpTo(i)
      BY <1>2, <1>3
    <2> HIDE DEF UpTo, users
    <2> QED BY <1>4, <2>1, FS_Subset, FS_EmptySet
  <1>6. Cardinality(users) \in Nat /\ Cardinality(users) # 0
    <2> HIDE DEF users
    <2> QED BY <1>3, <1>4, FS_CardinalityType, FS_EmptySet
  <1> QED BY <1>5, <1>6 DEF TurnOf

LEMMA CapKeepsStart ==
  ASSUME NEW tail, NEW kept \in SUBSET Int, IsFiniteSet(kept), StartsWithUser(tail, kept)
  PROVE  StartsWithUser(tail, ApplyTokenCap(tail, kept))
  <1> DEFINE turns == Cardinality(WithRole(tail, kept, "user"))
             fits  == {n \in 0..turns : \/ n + 1 >= turns
                                        \/ EstimateTokens(tail, DropOldestUserTurns(tail, kept, n))
                                             <= MaxTokens}
  <1>1. turns \in Nat \ {0}
    BY StartTurns
  <1>2. fits \in SUBSET (0..turns) /\ turns - 1 \in fits
    <2> HIDE DEF turns
    <2> QED BY <1>1
  <1>3. Min(fits) \in Nat /\ Min(fits) < turns
    <2> HIDE DEF fits, turns
    <2>1. fits \in SUBSET Int /\ IsFiniteSet(fits)
      <3>1. IsFiniteSet(0..turns)
        BY <1>1, FS_Interval
      <3>2. IsFiniteSet(fits)
        BY <1>2, <3>1, FS_Subset
      <3>3. \A n \in 0..turns : n \in Int
        OBVIOUS
      <3> QED BY <1>2, <3>2, <3>3
    <2>2. Min(fits) \in fits /\ Min(fits) <= turns - 1
      BY <1>2, <2>1, MinIsLeast
    <2>3. Min(fits) \in 0..turns
      BY <1>2, <2>2
    <2> QED BY <1>1, <2>2, <2>3
  <1>4. StartsWithUser(tail, DropOldestUserTurns(tail, kept, Min(fits)))
    <2>1. DropOldestUserTurns(tail, kept, Min(fits)) =
            {i \in kept : TurnOf(tail, kept, i) > Min(fits)}
      BY StartTurns DEF DropOldestUserTurns
    <2>2. StartsWithUser(tail, {i \in kept : TurnOf(tail, kept, i) > Min(fits)})
      <3> HIDE DEF fits
      <3> QED BY <1>3, DropKeepsStart
    <2> HIDE DEF fits
    <2> QED BY <2>1, <2>2
  <1> QED BY <1>4 DEF ApplyTokenCap

\* defensiveCleanup removes no user message.
LEMMA CleanupKeepsStart ==
  ASSUME NEW tail, NEW kept \in SUBSET Int, StartsWithUser(tail, kept)
  PROVE  StartsWithUser(tail, DefensiveCleanup(tail, kept))
  <1> DEFINE K1 == DropOrphanResults(tail, kept)
             K2 == DropDanglingCalls(tail, K1)
             K3 == DropLeadingTools(tail, K2)
  <1>1. PICK f \in kept : tail[f].role = "user" /\ \A i \in kept : f <= i
    BY DEF StartsWithUser
  <1>2. f \in K1 /\ f \in Int
    BY <1>1 DEF DropOrphanResults
  <1>3. f \in K2
    BY <1>1, <1>2 DEF DropDanglingCalls, Dangling, WithRole, ResultRun
  <1>4. f \in K3
    BY <1>1, <1>2, <1>3 DEF DropLeadingTools
  <1>5. K3 \subseteq kept
    BY DEF DropOrphanResults, DropDanglingCalls, DropLeadingTools
  <1>6. K3 = DefensiveCleanup(tail, kept)
    BY DEF DefensiveCleanup
  <1> HIDE DEF K3
  <1> QED BY <1>1, <1>4, <1>5, <1>6 DEF StartsWithUser

\* However a history is cut, what the engine sends begins with a user message,
\* if the history does (window.go:31-97).
LEMMA ViewStartsWithUser ==
  ASSUME NEW tail \in Seq(Message), tail # <<>>, tail[1].role = "user"
  PROVE  /\ StartsWithUser(tail, ProviderView(tail))
         /\ ProviderView(tail) = Trim(tail) /\ ProviderView(tail) \in SUBSET DOMAIN tail
  <1> DEFINE all == DOMAIN tail
             window == WindowByUserTurns(tail)
             turns == Cardinality(WithRole(tail, all, "user"))
  <1>1. /\ all \in SUBSET Int /\ IsFiniteSet(all) /\ 1 \in all
        /\ \A i \in all : 1 <= i
    <2>1. all = 1..Len(tail) /\ Len(tail) \in Nat /\ Len(tail) # 0
      OBVIOUS
    <2>2. IsFiniteSet(1..Len(tail))
      BY <2>1, FS_Interval
    <2> HIDE DEF all
    <2> QED BY <2>1, <2>2
  <1>2. StartsWithUser(tail, all)
    BY <1>1 DEF StartsWithUser
  <1>3. window \in SUBSET all /\ StartsWithUser(tail, window)
    <2>1. CASE MaxUserTurns <= 0 \/ turns <= MaxUserTurns
      <3>1. window = all
        BY <2>1 DEF WindowByUserTurns
      <3> QED BY <1>2, <3>1
    <2>2. CASE ~(MaxUserTurns <= 0 \/ turns <= MaxUserTurns)
      <3>1. window = {i \in all : TurnOf(tail, all, i) > turns - MaxUserTurns}
        BY <2>2 DEF WindowByUserTurns
      <3>2. turns \in Nat
        <4> HIDE DEF all
        <4> QED BY <1>1, <1>2, StartTurns
      <3>3. turns - MaxUserTurns \in Nat /\ turns - MaxUserTurns < turns
        <4> HIDE DEF turns
        <4> QED BY <2>2, <3>2, TrimConfigAssumption
      <3>4. StartsWithUser(tail, {i \in all : TurnOf(tail, all, i) > turns - MaxUserTurns})
        <4> HIDE DEF all
        <4> QED BY <1>1, <1>2, <3>3, DropKeepsStart
      <3> HIDE DEF window, all, turns
      <3> QED BY <3>1, <3>4
    <2> QED BY <2>1, <2>2
  <1>4. window \in SUBSET Int /\ IsFiniteSet(window)
    <2> HIDE DEF window, all
    <2> QED BY <1>1, <1>3, FS_Subset
  <1>5. /\ StartsWithUser(tail, ApplyTokenCap(tail, window))
        /\ ApplyTokenCap(tail, window) \in SUBSET window
    <2>1. ApplyTokenCap(tail, window) \in SUBSET window
      BY DEF ApplyTokenCap, DropOldestUserTurns
    <2> HIDE DEF window
    <2> QED BY <1>3, <1>4, <2>1, CapKeepsStart
  <1>6. StartsWithUser(tail, Trim(tail)) /\ Trim(tail) \in SUBSET window
    <2>1. DefensiveCleanup(tail, ApplyTokenCap(tail, window)) \in SUBSET ApplyTokenCap(tail, window)
      BY DEF DefensiveCleanup, DropOrphanResults, DropDanglingCalls, DropLeadingTools
    <2> HIDE DEF window
    <2>2. Trim(tail) = DefensiveCleanup(tail, ApplyTokenCap(tail, window))
      BY DEF Trim, window
    <2>3. ApplyTokenCap(tail, window) \in SUBSET Int
      BY <1>4, <1>5
    <2> QED BY <1>5, <2>1, <2>2, <2>3, CleanupKeepsStart
  <1>7. ProviderView(tail) = Trim(tail)
    <2>1. Trim(tail) # {}
      BY <1>6 DEF StartsWithUser
    <2> QED BY <2>1 DEF ProviderView
  <1> QED BY <1>3, <1>6, <1>7

-----------------------------------------------------------------------------
(* Results by their places in the slice.                                   *)

\* The messages of tools right after the a-th message.
RunAfter(v, a) == {t \in a + 1 .. Len(v) : \A i \in a + 1 .. t : v[i].role = "tool"}

\* No answer uses an identifier twice.
CallsDistinct(v) ==
  \A a \in DOMAIN v : \A j, k \in DOMAIN v[a].calls : v[a].calls[j].id = v[a].calls[k].id => j = k

\* No two messages answer the same call.
OneResultEach(v) ==
  \A t, u \in DOMAIN v : v[t].role = "tool" /\ v[u].answers = v[t].answers => u = t

\* Every result stands in the run after the answer that asked for it, and every
\* call is answered there.
Paired(v) ==
  /\ \A t \in DOMAIN v : v[t].role = "tool" =>
       \E a \in DOMAIN v : /\ v[a].role = "assistant" /\ t \in RunAfter(v, a)
                           /\ v[t].answers \in CallIds(v[a])
  /\ \A a \in DOMAIN v : v[a].role = "assistant" =>
       \A id \in CallIds(v[a]) : \E t \in RunAfter(v, a) : v[t].answers = id

\* A valid set of positions is a slice whose results are where they belong.
LEMMA SlicePaired ==
  ASSUME NEW tail \in Seq(Message), NEW kept \in SUBSET DOMAIN tail, ProviderValid(tail, kept),
         CallsDistinct(tail), OneResultEach(tail)
  PROVE  LET v == Slice(tail, kept)
         IN v \in Seq(Message) /\ Paired(v) /\ CallsDistinct(v) /\ OneResultEach(v)
  <1> DEFINE v == Slice(tail, kept)
             N == Cardinality(kept)
             at(n) == Increasing(kept)[n]
  <1>1. kept \in SUBSET Int /\ IsFiniteSet(kept)
    <2>1. DOMAIN tail = 1..Len(tail) /\ Len(tail) \in Nat
      OBVIOUS
    <2>2. IsFiniteSet(1..Len(tail))
      BY <2>1, FS_Interval
    <2> QED BY <2>1, <2>2, FS_Subset
  <1>2. /\ N \in Nat
        /\ \A n \in 1..N : at(n) \in kept
        /\ \A m, n \in 1..N : m < n <=> at(m) < at(n)
        /\ \A i \in kept : \E n \in 1..N : at(n) = i
    BY <1>1, IncreasingOrder
  <1>3. /\ v \in Seq(Message) /\ Len(v) = N /\ DOMAIN v = 1..N
        /\ \A n \in 1..N : v[n] = tail[at(n)]
    <2> HIDE DEF N, at
    <2>1. v = [n \in 1..N |-> tail[at(n)]]
      BY DEF Slice, N, at
    <2>2. \A n \in 1..N : tail[at(n)] \in Message
      BY <1>2
    <2> HIDE DEF v
    <2> QED BY <1>2, <2>1, <2>2
  <1> HIDE DEF v, N, at
  <1>4. \A n \in 1..N : at(n) \in Int /\ at(n) \in DOMAIN tail /\ n \in Int
    BY <1>1, <1>2
  <1>5. ASSUME NEW a \in 1..N, NEW t \in 1..N, Follows(tail, kept, at(a), at(t))
        PROVE  t \in RunAfter(v, a)
    <2>1. a < t /\ tail[at(t)].role = "tool"
      BY <1>2, <1>5 DEF Follows
    <2>2. ASSUME NEW i \in a + 1 .. t PROVE v[i].role = "tool"
      <3>1. i \in 1..N /\ a < i
        BY <1>2, <2>1
      <3>2. CASE i = t
        BY <1>3, <2>1, <3>2
      <3>3. CASE i # t
        <4>1. i < t
          BY <3>3
        <4>2. at(a) < at(i) /\ at(i) < at(t) /\ at(i) \in kept
          BY <1>2, <3>1, <4>1
        <4>3. tail[at(i)].role = "tool"
          BY <1>5, <4>2 DEF Follows, OnlyToolsBetween
        <4> QED BY <1>3, <3>1, <4>3
      <3> QED BY <3>2, <3>3
    <2>3. t \in a + 1 .. Len(v)
      BY <1>2, <1>3, <2>1
    <2> QED BY <2>2, <2>3 DEF RunAfter
  <1>6. ASSUME NEW t \in DOMAIN v, v[t].role = "tool"
        PROVE  \E a \in DOMAIN v : /\ v[a].role = "assistant" /\ t \in RunAfter(v, a)
                                   /\ v[t].answers \in CallIds(v[a])
    <2>1. at(t) \in WithRole(tail, kept, "tool")
      BY <1>2, <1>3, <1>6 DEF WithRole
    <2>2. PICK i \in WithRole(tail, kept, "assistant") :
            Follows(tail, kept, i, at(t)) /\ tail[at(t)].answers \in CallIds(tail[i])
      BY <2>1 DEF ProviderValid, NoOrphanResult
    <2>3. i \in kept /\ tail[i].role = "assistant"
      BY DEF WithRole
    <2>4. PICK a \in 1..N : at(a) = i
      BY <1>2, <2>3
    <2> QED BY <1>3, <1>5, <1>6, <2>2, <2>3, <2>4
  <1>7. ASSUME NEW a \in DOMAIN v, v[a].role = "assistant", NEW id \in CallIds(v[a])
        PROVE  \E t \in RunAfter(v, a) : v[t].answers = id
    <2>1. at(a) \in WithRole(tail, kept, "assistant") /\ id \in CallIds(tail[at(a)])
      BY <1>2, <1>3, <1>7 DEF WithRole
    <2>2. PICK i \in kept : Follows(tail, kept, at(a), i) /\ tail[i].answers = id
      BY <2>1 DEF ProviderValid, NoDanglingCall
    <2>3. PICK t \in 1..N : at(t) = i
      BY <1>2, <2>2
    <2> QED BY <1>3, <1>5, <2>2, <2>3
  <1>8. CallsDistinct(v)
    <2> SUFFICES ASSUME NEW a \in DOMAIN v, NEW j \in DOMAIN v[a].calls, NEW k \in DOMAIN v[a].calls,
                        v[a].calls[j].id = v[a].calls[k].id
                 PROVE  j = k
      BY DEF CallsDistinct
    <2>1. v[a] = tail[at(a)] /\ at(a) \in DOMAIN tail
      BY <1>3, <1>4
    <2> QED BY <2>1 DEF CallsDistinct
  <1>9. OneResultEach(v)
    <2> SUFFICES ASSUME NEW t \in DOMAIN v, NEW u \in DOMAIN v, v[t].role = "tool",
                        v[u].answers = v[t].answers
                 PROVE  u = t
      BY DEF OneResultEach
    <2>1. v[t] = tail[at(t)] /\ v[u] = tail[at(u)] /\ t \in 1..N /\ u \in 1..N
      BY <1>3
    <2>2. at(u) = at(t)
      BY <1>4, <2>1 DEF OneResultEach
    <2>3. ~(u < t) /\ ~(t < u)
      BY <1>2, <1>4, <2>1, <2>2
    <2> QED BY <1>4, <2>1, <2>3
  <1>10. Paired(v)
    BY <1>6, <1>7 DEF Paired
  <1> QED BY <1>3, <1>8, <1>9, <1>10 DEF v

\* The results of an answer with n calls are the n messages after it.
LEMMA RunLength ==
  ASSUME NEW v \in Seq(Message), Paired(v), CallsDistinct(v), OneResultEach(v),
         NEW a \in DOMAIN v, v[a].role = "assistant"
  PROVE  /\ RunAfter(v, a) = a + 1 .. a + Len(v[a].calls)
         /\ a + Len(v[a].calls) <= Len(v)
         /\ Cardinality(RunAfter(v, a)) = Len(v[a].calls)
         /\ {v[t].answers : t \in RunAfter(v, a)} = CallIds(v[a])
  <1> DEFINE R == RunAfter(v, a)
             L == Len(v[a].calls)
             reply == [k \in 1..L |-> CHOOSE t \in R : v[t].answers = v[a].calls[k].id]
  <1>1. a \in 1..Len(v) /\ Len(v) \in Nat /\ DOMAIN v = 1..Len(v)
    OBVIOUS
  <1>2. L \in Nat /\ DOMAIN v[a].calls = 1..L
    <2>1. v[a] \in Message
      OBVIOUS
    <2>2. v[a].calls \in Seq(ToolCall)
      BY <2>1 DEF Message
    <2> QED BY <2>2
  <1>3. /\ R \in SUBSET (a + 1 .. Len(v)) /\ \A t \in R : v[t].role = "tool"
        /\ \A t \in R : \A i \in a + 1 .. t : i \in R
    <2>1. \A t \in R : \A i \in a + 1 .. t : i \in a + 1 .. Len(v) /\ \A j \in a + 1 .. i : j \in a + 1 .. t
      BY <1>1 DEF RunAfter
    <2>2. \A t \in R : t \in a + 1 .. t
      BY <1>1 DEF RunAfter
    <2> QED BY <2>1, <2>2 DEF RunAfter
  <1>4. IsFiniteSet(R)
    <2>1. IsFiniteSet(a + 1 .. Len(v))
      BY <1>1, FS_Interval
    <2> HIDE DEF R
    <2> QED BY <1>3, <2>1, FS_Subset
  <1>5. ASSUME NEW k \in 1..L
        PROVE  reply[k] \in R /\ v[reply[k]].answers = v[a].calls[k].id
    <2>1. v[a].calls[k].id \in CallIds(v[a])
      BY <1>2 DEF CallIds
    <2>2. \E t \in R : v[t].answers = v[a].calls[k].id
      BY <2>1 DEF Paired
    <2>3. reply[k] = CHOOSE t \in R : v[t].answers = v[a].calls[k].id
      OBVIOUS
    <2> HIDE DEF reply, R
    <2> QED BY <2>2, <2>3
  <1>6. ASSUME NEW t \in R
        PROVE  \E k \in 1..L : v[t].answers = v[a].calls[k].id
    <2>1. t \in DOMAIN v /\ v[t].role = "tool" /\ t \in Int /\ a < t
      BY <1>1, <1>3
    <2>2. PICK b \in DOMAIN v : /\ v[b].role = "assistant" /\ t \in RunAfter(v, b)
                                /\ v[t].answers \in CallIds(v[b])
      BY <2>1 DEF Paired
    <2>3. /\ b \in Int /\ b < t
          /\ \A i \in b + 1 .. t : v[i].role = "tool"
          /\ \A i \in a + 1 .. t : v[i].role = "tool"
      BY <1>1, <2>2 DEF RunAfter
    <2>4. ~(a < b) /\ ~(b < a)
      <3>1. a < b => b \in a + 1 .. t
        BY <2>1, <2>3
      <3>2. b < a => a \in b + 1 .. t
        BY <2>1, <2>3
      <3> QED BY <2>2, <2>3, <3>1, <3>2
    <2>5. a = b
      BY <1>1, <2>3, <2>4
    <2> QED BY <1>2, <2>2, <2>5 DEF CallIds
  <1>7. Cardinality(R) = L
    <2>1. reply \in [1..L -> R]
      BY <1>5
    <2>2. ASSUME NEW j \in 1..L, NEW k \in 1..L, reply[j] = reply[k] PROVE j = k
      <3> HIDE DEF reply
      <3>1. v[a].calls[j].id = v[a].calls[k].id
        BY <1>5, <2>2
      <3> QED BY <1>2, <3>1 DEF CallsDistinct
    <2>3. ASSUME NEW t \in R PROVE \E k \in 1..L : reply[k] = t
      <3>1. PICK k \in 1..L : v[t].answers = v[a].calls[k].id
        BY <1>6
      <3>2. reply[k] \in R /\ v[reply[k]].answers = v[t].answers
        BY <1>5, <3>1
      <3>3. t \in DOMAIN v /\ reply[k] \in DOMAIN v /\ v[t].role = "tool"
        <4> HIDE DEF reply, R
        <4>1. \A i \in R : i \in 1..Len(v)
          BY <1>1, <1>3
        <4> QED BY <1>1, <1>3, <3>2, <4>1
      <3> HIDE DEF reply
      <3> QED BY <3>2, <3>3 DEF OneResultEach
    <2>4. reply \in Bijection(1..L, R)
      <3> HIDE DEF reply, R
      <3> QED BY <2>1, <2>2, <2>3 DEF Bijection, Injection, IsInjective, Surjection
    <2>5. ExistsBijection(1..L, R)
      BY <2>4 DEF ExistsBijection
    <2> HIDE DEF L, R
    <2> QED BY <1>2, <2>5, FS_CountingElements
  <1>8. R = a + 1 .. a + L /\ a + L <= Len(v)
    <2> HIDE DEF R, L
    <2>1. CASE R = {}
      <3>1. L = 0
        BY <1>7, <2>1, FS_EmptySet
      <3> QED BY <1>1, <2>1, <3>1
    <2>2. CASE R # {}
      <3>1. R \in SUBSET Int
        BY <1>1, <1>3
      <3>2. Max(R) \in R /\ \A t \in R : Max(R) >= t
        BY <1>4, <2>2, <3>1, MaxIsGreatest
      <3>3. PICK m : m = Max(R)
        OBVIOUS
      <3>4. m \in a + 1 .. Len(v) /\ m \in Int /\ \A t \in R : t <= m
        BY <1>1, <1>3, <3>1, <3>2, <3>3
      <3>5. R = a + 1 .. m
        <4>1. m \in R
          BY <3>2, <3>3
        <4>2. \A i \in a + 1 .. m : i \in R
          BY <1>3, <4>1
        <4>3. \A t \in R : t \in a + 1 .. Len(v)
          BY <1>3
        <4>4. \A t \in R : t \in a + 1 .. m
          BY <1>1, <3>4, <4>3
        <4> QED BY <4>2, <4>4
      <3>6. Cardinality(a + 1 .. m) = m - a
        <4>1. Cardinality(a + 1 .. m) = IF a + 1 > m THEN 0 ELSE m - (a + 1) + 1
          <5>1. a + 1 \in Int
            BY <1>1
          <5> QED BY <3>4, <5>1, FS_Interval
        <4> QED BY <1>1, <3>4, <4>1
      <3>7. m = a + L
        BY <1>1, <1>2, <1>7, <3>4, <3>5, <3>6
      <3> QED BY <1>1, <3>4, <3>5, <3>7
    <2> QED BY <2>1, <2>2
  <1>9. {v[t].answers : t \in R} = CallIds(v[a])
    <2>1. CallIds(v[a]) = {v[a].calls[k].id : k \in 1..L}
      BY <1>2 DEF CallIds
    <2> HIDE DEF R, L, reply
    <2> QED BY <1>5, <1>6, <2>1
  <1> QED BY <1>7, <1>8, <1>9

-----------------------------------------------------------------------------
(* What the services are sent.                                             *)

\* openai.go sends the run of results right after the answer, as it is.
LEMMA OpenAIAcceptsPaired ==
  ASSUME NEW v \in Seq(Message), Paired(v), CallsDistinct(v), OneResultEach(v)
  PROVE  OpenAIAccepts(TranslateMessagesToOpenAI(<<SystemMessage>> \o v))
  <1> DEFINE msgs == TranslateMessagesToOpenAI(<<SystemMessage>> \o v)
             Replies(a) == {t \in DOMAIN msgs : /\ a < t /\ t <= a + Len(msgs[a].ids)
                                                /\ msgs[t].role = "tool"}
             asking == {a \in DOMAIN msgs : msgs[a].role = "assistant"}
  <1>1. /\ DOMAIN msgs = 1 .. Len(v) + 1 /\ Len(v) \in Nat /\ DOMAIN v = 1..Len(v)
        /\ msgs[1].role = "system"
        /\ \A i \in DOMAIN v : msgs[i + 1] = OpenAIMessage(v[i])
    <2> DEFINE w == <<SystemMessage>> \o v
    <2>1. SystemMessage.role = "system"
      BY DEF SystemMessage
    <2>2. /\ DOMAIN w = 1 .. Len(v) + 1 /\ Len(v) \in Nat /\ DOMAIN v = 1..Len(v)
          /\ w[1] = SystemMessage /\ \A i \in DOMAIN v : w[i + 1] = v[i]
      <3>1. Len(<<SystemMessage>>) = 1 /\ <<SystemMessage>>[1] = SystemMessage
        OBVIOUS
      <3> QED BY <3>1
    <2>3. msgs = [i \in DOMAIN w |-> OpenAIMessage(w[i])]
      BY DEF TranslateMessagesToOpenAI
    <2> HIDE DEF w, msgs
    <2>4. msgs[1].role = "system"
      <3>1. msgs[1] = OpenAIMessage(SystemMessage)
        BY <2>2, <2>3
      <3> QED BY <2>1, <3>1 DEF OpenAIMessage
    <2> QED BY <2>2, <2>3, <2>4
  <1> HIDE DEF msgs
  <1>2. ASSUME NEW i \in DOMAIN v
        PROVE  /\ i + 1 \in DOMAIN msgs
               /\ msgs[i + 1].role = v[i].role
               /\ v[i].role = "tool" => msgs[i + 1].ids[1] = v[i].answers
               /\ v[i].role = "assistant" =>
                    /\ msgs[i + 1].ids = [k \in DOMAIN v[i].calls |-> v[i].calls[k].id]
                    /\ Len(msgs[i + 1].ids) = Len(v[i].calls)
                    /\ Len(v[i].calls) \in Nat
    <2>1. v[i] \in Message
      OBVIOUS
    <2>2. v[i].calls \in Seq(ToolCall) /\ v[i].role \in {"user", "assistant", "tool"}
      BY <2>1 DEF Message, Role
    <2>3. msgs[i + 1] = OpenAIMessage(v[i]) /\ i + 1 \in DOMAIN msgs
      BY <1>1
    <2> QED BY <2>2, <2>3 DEF OpenAIMessage
  <1>3. \A j \in DOMAIN msgs : j = 1 \/ (j - 1 \in DOMAIN v /\ j = (j - 1) + 1)
    BY <1>1
  <1>4. ASSUME NEW a \in DOMAIN v, v[a].role = "assistant"
        PROVE  /\ Replies(a + 1) = {t + 1 : t \in RunAfter(v, a)}
               /\ Replies(a + 1) = a + 2 .. a + 1 + Len(v[a].calls)
    <2>1. /\ RunAfter(v, a) = a + 1 .. a + Len(v[a].calls)
          /\ a + Len(v[a].calls) <= Len(v)
      BY <1>4, RunLength
    <2>2. Len(msgs[a + 1].ids) = Len(v[a].calls) /\ Len(v[a].calls) \in Nat
      BY <1>2, <1>4
    <2>3. ASSUME NEW t \in a + 2 .. a + 1 + Len(v[a].calls) PROVE t \in Replies(a + 1)
      <3>1. t - 1 \in RunAfter(v, a) /\ t \in DOMAIN msgs /\ a + 1 < t
        BY <1>1, <2>1, <2>2
      <3>2. v[t - 1].role = "tool" /\ t - 1 \in DOMAIN v
        BY <1>1, <2>1, <2>2, <3>1 DEF RunAfter
      <3>3. (t - 1) + 1 = t /\ t <= a + 1 + Len(v[a].calls)
        BY <1>1, <2>2
      <3>4. msgs[t].role = "tool"
        <4>1. msgs[(t - 1) + 1].role = v[t - 1].role
          BY <1>2, <3>2
        <4> QED BY <3>2, <3>3, <4>1
      <3> QED BY <2>2, <3>1, <3>3, <3>4
    <2>4. ASSUME NEW t \in Replies(a + 1) PROVE t \in a + 2 .. a + 1 + Len(v[a].calls)
      BY <1>1, <2>2
    <2>5. {t + 1 : t \in a + 1 .. a + Len(v[a].calls)} = a + 2 .. a + 1 + Len(v[a].calls)
      <3>1. \A t \in a + 2 .. a + 1 + Len(v[a].calls) :
               t - 1 \in a + 1 .. a + Len(v[a].calls) /\ t = (t - 1) + 1
        BY <1>1, <2>2
      <3>2. \A t \in a + 1 .. a + Len(v[a].calls) : t + 1 \in a + 2 .. a + 1 + Len(v[a].calls)
        BY <1>1, <2>2
      <3> QED BY <3>1, <3>2
    <2> HIDE DEF Replies
    <2> QED BY <2>1, <2>3, <2>4, <2>5
  <1>5. ASSUME NEW b \in asking
        PROVE  /\ {msgs[t].ids[1] : t \in Replies(b)} = {msgs[b].ids[k] : k \in DOMAIN msgs[b].ids}
               /\ Cardinality(Replies(b)) = Len(msgs[b].ids)
    <2>1. PICK a \in DOMAIN v : b = a + 1 /\ v[a].role = "assistant"
      <3>1. b # 1
        BY <1>1
      <3>2. b - 1 \in DOMAIN v /\ b = (b - 1) + 1 /\ msgs[b].role = "assistant"
        BY <1>3, <3>1
      <3>3. v[b - 1].role = "assistant"
        <4>1. msgs[(b - 1) + 1].role = v[b - 1].role
          BY <1>2, <3>2
        <4> QED BY <3>2, <4>1
      <3> QED BY <3>2, <3>3
    <2>2. /\ msgs[b].ids = [k \in DOMAIN v[a].calls |-> v[a].calls[k].id]
          /\ Len(msgs[b].ids) = Len(v[a].calls) /\ Len(v[a].calls) \in Nat
      BY <1>2, <2>1
    <2>3. Cardinality(Replies(b)) = Len(msgs[b].ids)
      <3>1. Replies(b) = a + 2 .. a + 1 + Len(v[a].calls)
        BY <1>4, <2>1
      <3>2. a + 2 \in Int /\ a + 1 + Len(v[a].calls) \in Int
        BY <1>1, <2>2
      <3> HIDE DEF Replies
      <3>3. Cardinality(Replies(b)) =
              IF a + 2 > a + 1 + Len(v[a].calls) THEN 0 ELSE a + 1 + Len(v[a].calls) - (a + 2) + 1
        <4>1. PICK lo \in Int, hi \in Int : lo = a + 2 /\ hi = a + 1 + Len(v[a].calls)
          BY <3>2
        <4>2. Cardinality(lo..hi) = IF lo > hi THEN 0 ELSE hi - lo + 1
          BY FS_Interval
        <4> QED BY <3>1, <4>1, <4>2
      <3> QED BY <1>1, <2>2, <3>3
    <2>4. {msgs[t].ids[1] : t \in Replies(b)} = {v[t].answers : t \in RunAfter(v, a)}
      <3>1. \A t \in RunAfter(v, a) : t \in DOMAIN v /\ v[t].role = "tool"
        BY <1>1 DEF RunAfter
      <3>2. \A t \in RunAfter(v, a) : msgs[t + 1].ids[1] = v[t].answers
        BY <1>2, <3>1
      <3>3. Replies(b) = {t + 1 : t \in RunAfter(v, a)}
        BY <1>4, <2>1
      <3> HIDE DEF Replies
      <3> QED BY <3>2, <3>3
    <2>5. {msgs[b].ids[k] : k \in DOMAIN msgs[b].ids} = CallIds(v[a])
      BY <2>2 DEF CallIds
    <2>6. {v[t].answers : t \in RunAfter(v, a)} = CallIds(v[a])
      BY <2>1, RunLength
    <2> HIDE DEF Replies
    <2> QED BY <2>3, <2>4, <2>5, <2>6
  <1>6. ASSUME NEW t \in DOMAIN msgs, msgs[t].role = "tool" PROVE \E b \in asking : t \in Replies(b)
    <2>1. t # 1
      BY <1>1, <1>6
    <2>2. t - 1 \in DOMAIN v /\ t = (t - 1) + 1
      BY <1>3, <2>1
    <2>3. v[t - 1].role = "tool"
      BY <1>2, <1>6, <2>2
    <2>4. PICK a \in DOMAIN v : v[a].role = "assistant" /\ t - 1 \in RunAfter(v, a)
      BY <2>2, <2>3 DEF Paired
    <2>5. a + 1 \in asking
      BY <1>2, <2>4
    <2>6. t \in Replies(a + 1)
      <3> HIDE DEF Replies
      <3> QED BY <1>4, <2>2, <2>4
    <2> QED BY <2>5, <2>6
  <1>7. OpenAIAccepts(msgs)
    BY <1>5, <1>6 DEF OpenAIAccepts
  <1> QED BY <1>7 DEF msgs

\* The system message goes into a field of its own, the rest in order.
LEMMA AnthropicOrder ==
  ASSUME NEW v \in Seq(Message)
  PROVE  TranslateMessagesToAnthropic(<<SystemMessage>> \o v) =
           [n \in DOMAIN v |-> AnthropicMessage(v[n])]
  <1> DEFINE w == <<SystemMessage>> \o v
             N == Len(v)
             kept == {i \in DOMAIN w : w[i].role # "system"}
  <1>1. /\ DOMAIN w = 1 .. N + 1 /\ N \in Nat /\ DOMAIN v = 1..N
        /\ w[1] = SystemMessage /\ \A i \in 1..N : w[i + 1] = v[i]
    <2>1. Len(<<SystemMessage>>) = 1 /\ <<SystemMessage>>[1] = SystemMessage
      OBVIOUS
    <2> QED BY <2>1
  <1>2. kept = 2 .. N + 1
    <2>1. ASSUME NEW i \in 2 .. N + 1 PROVE w[i].role # "system" /\ i \in DOMAIN w
      <3>1. i - 1 \in 1..N /\ (i - 1) + 1 = i
        BY <1>1
      <3>2. w[i] = v[i - 1] /\ v[i - 1] \in Message
        BY <1>1, <3>1
      <3> QED BY <1>1, <3>2 DEF Message, Role
    <2>2. ASSUME NEW i \in DOMAIN w, w[i].role # "system" PROVE i \in 2 .. N + 1
      <3>1. i # 1
        BY <1>1, <2>2 DEF SystemMessage
      <3> QED BY <1>1, <3>1
    <2> HIDE DEF w, N
    <2> QED BY <2>1, <2>2
  <1> HIDE DEF w, N, kept
  <1>3. Cardinality(kept) = N
    <2>1. Cardinality(2 .. N + 1) = IF 2 > N + 1 THEN 0 ELSE N + 1 - 2 + 1
      <3>1. PICK hi \in Int : hi = N + 1
        BY <1>1
      <3>2. Cardinality(2..hi) = IF 2 > hi THEN 0 ELSE hi - 2 + 1
        BY FS_Interval
      <3> QED BY <1>1, <3>1, <3>2
    <2> QED BY <1>1, <1>2, <2>1
  <1>4. ASSUME NEW i \in kept PROVE Cardinality({j \in kept : j <= i}) = i - 1
    <2>1. i \in Int /\ 2 <= i /\ i <= N + 1
      BY <1>1, <1>2
    <2>2. {j \in kept : j <= i} = 2..i
      BY <1>1, <1>2, <2>1
    <2>3. Cardinality(2..i) = IF 2 > i THEN 0 ELSE i - 2 + 1
      BY <2>1, FS_Interval
    <2>4. Cardinality(2..i) = i - 1
      BY <2>1, <2>3
    <2> QED BY <2>2, <2>4
  <1>5. ASSUME NEW n \in 1..N PROVE Increasing(kept)[n] = n + 1
    <2>1. Increasing(kept)[n] = CHOOSE i \in kept : Cardinality({j \in kept : j <= i}) = n
      BY <1>3 DEF Increasing
    <2>2. n + 1 \in kept /\ n \in Int /\ (n + 1) - 1 = n
      BY <1>1, <1>2
    <2>3. \A i \in kept : Cardinality({j \in kept : j <= i}) = n <=> i = n + 1
      <3>1. \A i \in kept : i \in Int
        BY <1>1, <1>2
      <3> QED BY <1>4, <2>2, <3>1
    <2> QED BY <2>1, <2>2, <2>3
  <1>6. DOMAIN Increasing(kept) = 1..N
    BY <1>3 DEF Increasing
  <1>7. TranslateMessagesToAnthropic(w) = [n \in 1..N |-> AnthropicMessage(w[Increasing(kept)[n]])]
    BY <1>6 DEF TranslateMessagesToAnthropic, kept
  <1>8. \A n \in 1..N : w[Increasing(kept)[n]] = v[n]
    BY <1>1, <1>5
  <1> QED BY <1>1, <1>7, <1>8 DEF w

\* The blocks of an answer: one tool_use for each of its calls, no result.
LEMMA AssistantUses ==
  ASSUME NEW m \in Message
  PROVE  LET blocks == AssistantBlocks(m)
             uses   == {b \in DOMAIN blocks : blocks[b].type = "tool_use"}
         IN /\ Cardinality(uses) = Len(m.calls) /\ IsFiniteSet(uses)
            /\ {blocks[b].id : b \in uses} = CallIds(m)
            /\ \A b \in DOMAIN blocks : blocks[b].type # "tool_result"
  <1> DEFINE blocks == AssistantBlocks(m)
             uses == {b \in DOMAIN blocks : blocks[b].type = "tool_use"}
             L == Len(m.calls)
             text == IF m.bytes > 0 THEN <<Text(m.bytes)>> ELSE <<>>
             asked == [k \in DOMAIN m.calls |-> ToolUse(m.calls[k])]
             off == Len(text)
  <1>1. /\ m.calls \in Seq(ToolCall) /\ L \in Nat /\ DOMAIN m.calls = 1..L /\ m.bytes \in Nat
    <2>1. m.calls \in Seq(ToolCall) /\ m.bytes \in Nat
      BY DEF Message
    <2> QED BY <2>1
  <1>2. /\ off \in {0, 1} /\ \A b \in 1..off : text[b].type = "text"
        /\ text \in Seq({Text(m.bytes)})
    <2>1. Text(m.bytes).type = "text"
      BY DEF Text
    <2>2. CASE m.bytes > 0
      <3>1. text = <<Text(m.bytes)>>
        BY <2>2
      <3>2. off = 1 /\ text[1] = Text(m.bytes) /\ text \in Seq({Text(m.bytes)})
        <4> HIDE DEF text
        <4> QED BY <3>1
      <3> HIDE DEF text, off
      <3> QED BY <2>1, <3>2
    <2>3. CASE ~(m.bytes > 0)
      <3>1. text = <<>>
        BY <2>3
      <3> QED BY <3>1
    <2> QED BY <2>2, <2>3
  <1>3. /\ asked \in Seq({ToolUse(m.calls[k]) : k \in 1..L}) /\ Len(asked) = L
        /\ \A k \in 1..L : asked[k] = ToolUse(m.calls[k])
    BY <1>1
  <1>4. /\ Len(text \o asked) = off + L
        /\ DOMAIN (text \o asked) = 1 .. off + L
        /\ \A b \in 1..off : (text \o asked)[b] = text[b]
        /\ \A k \in 1..L : (text \o asked)[off + k] = asked[k]
    <2> HIDE DEF text, asked, L
    <2>1. Len(text) \in Nat /\ Len(asked) \in Nat
      BY <1>2, <1>3
    <2> QED BY <1>2, <1>3, <2>1
  <1>5. blocks = IF text \o asked = <<>> THEN <<Text(0)>> ELSE text \o asked
    BY DEF AssistantBlocks
  <1>6. \A k \in 1..L : asked[k].type = "tool_use" /\ asked[k].id = m.calls[k].id
    BY <1>3 DEF ToolUse
  <1> HIDE DEF text, asked, blocks, L, off
  <1>7. CASE text \o asked = <<>>
    <2>1. off + L = 0 /\ L = 0
      BY <1>1, <1>2, <1>4, <1>7
    <2>2. blocks = <<Text(0)>> /\ DOMAIN blocks = {1} /\ blocks[1].type = "text"
      BY <1>5, <1>7 DEF Text
    <2>3. uses = {}
      BY <2>2
    <2>4. CallIds(m) = {}
      BY <1>1, <2>1 DEF CallIds
    <2> QED BY <2>1, <2>2, <2>3, <2>4, FS_EmptySet DEF L, blocks
  <1>8. CASE text \o asked # <<>>
    <2>1. blocks = text \o asked /\ DOMAIN blocks = 1 .. off + L
      BY <1>4, <1>5, <1>8
    <2>2. \A b \in 1..off : blocks[b].type = "text"
      BY <1>2, <1>4, <2>1
    <2>3. \A k \in 1..L : off + k \in DOMAIN blocks /\ blocks[off + k] = asked[k]
      BY <1>1, <1>2, <1>4, <2>1
    <2>4. \A b \in DOMAIN blocks : b \in 1..off \/ (b - off \in 1..L /\ b = off + (b - off))
      BY <1>1, <1>2, <2>1
    <2>5. uses = off + 1 .. off + L
      <3>1. ASSUME NEW b \in off + 1 .. off + L PROVE b \in uses
        <4>1. b - off \in 1..L /\ b = off + (b - off)
          BY <1>1, <1>2
        <4>2. off + (b - off) \in DOMAIN blocks /\ blocks[off + (b - off)].type = "tool_use"
          BY <1>6, <2>3, <4>1
        <4> QED BY <4>1, <4>2
      <3>2. ASSUME NEW b \in uses PROVE b \in off + 1 .. off + L
        <4>1. b \notin 1..off
          BY <2>2
        <4> QED BY <1>1, <1>2, <2>1, <2>4, <4>1
      <3> HIDE DEF uses
      <3> QED BY <3>1, <3>2
    <2>6. Cardinality(uses) = L /\ IsFiniteSet(uses)
      <3>1. PICK lo \in Int, hi \in Int : lo = off + 1 /\ hi = off + L
        BY <1>1, <1>2
      <3>2. /\ Cardinality(lo..hi) = IF lo > hi THEN 0 ELSE hi - lo + 1
            /\ IsFiniteSet(lo..hi)
        BY FS_Interval
      <3> HIDE DEF uses
      <3> QED BY <1>1, <1>2, <2>5, <3>1, <3>2
    <2>7. {blocks[b].id : b \in uses} = CallIds(m)
      <3>1. CallIds(m) = {m.calls[k].id : k \in 1..L}
        BY <1>1 DEF CallIds
      <3>2. \A k \in 1..L : off + k \in uses /\ blocks[off + k].id = m.calls[k].id
        BY <1>6, <2>3
      <3>3. \A b \in uses : b - off \in 1..L /\ blocks[b].id = m.calls[b - off].id
        <4> SUFFICES ASSUME NEW b \in uses PROVE b - off \in 1..L /\ blocks[b].id = m.calls[b - off].id
          OBVIOUS
        <4>1. b \in off + 1 .. off + L
          BY <2>5
        <4>2. b - off \in 1..L /\ b = off + (b - off)
          BY <1>1, <1>2, <4>1
        <4>3. blocks[off + (b - off)].id = m.calls[b - off].id
          BY <3>2, <4>2
        <4> QED BY <4>2, <4>3
      <3> HIDE DEF uses
      <3> QED BY <3>1, <3>2, <3>3
    <2>8. \A b \in DOMAIN blocks : blocks[b].type # "tool_result"
      <3> SUFFICES ASSUME NEW b \in DOMAIN blocks PROVE blocks[b].type # "tool_result"
        OBVIOUS
      <3>1. CASE b \in 1..off
        BY <2>2, <3>1
      <3>2. CASE b - off \in 1..L /\ b = off + (b - off)
        <4>1. blocks[off + (b - off)].type = "tool_use"
          BY <1>6, <2>3, <3>2
        <4>2. blocks[b].type = "tool_use"
          BY <3>2, <4>1
        <4> QED BY <4>2
      <3> QED BY <2>4, <3>1, <3>2
    <2> QED BY <2>6, <2>7, <2>8 DEF L, blocks
  <1> QED BY <1>7, <1>8

\* Turns are counted upwards, and what a run of user messages after an answer
\* begins is one turn more.
LEMMA TurnNumbers ==
  ASSUME NEW x, NEW N \in Nat, NEW i \in 1..N, NEW j \in 1..N, i <= j
  PROVE  /\ TurnNumber(x, i) \in Nat /\ TurnNumber(x, i) <= TurnNumber(x, j)
         /\ x[i].role # "user" /\ i < j /\ (\A k \in i + 1 .. j : x[k].role = "user")
              => TurnNumber(x, j) = TurnNumber(x, i) + 1
  <1> DEFINE First(n) == {f \in 1..n : f = 1 \/ x[f].role # x[f - 1].role}
  <1>1. First(i) \subseteq 1..i /\ First(j) \subseteq 1..j /\ IsFiniteSet(1..i) /\ IsFiniteSet(1..j)
    BY FS_Interval
  <1>2. First(i) \in SUBSET First(j)
    OBVIOUS
  <1>3. IsFiniteSet(First(i)) /\ IsFiniteSet(First(j))
    <2> HIDE DEF First
    <2> QED BY <1>1, FS_Subset
  <1>4. Cardinality(First(i)) \in Nat /\ Cardinality(First(i)) <= Cardinality(First(j))
    <2> HIDE DEF First
    <2> QED BY <1>2, <1>3, FS_CardinalityType, FS_Subset
  <1>5. ASSUME x[i].role # "user", i < j, \A k \in i + 1 .. j : x[k].role = "user"
        PROVE  Cardinality(First(j)) = Cardinality(First(i)) + 1
    <2>1. i + 1 \in i + 1 .. j /\ i + 1 \in 1..j /\ (i + 1) - 1 = i
      BY <1>5
    <2>2. i + 1 \in First(j) /\ i + 1 \notin First(i)
      BY <1>5, <2>1
    <2>3. ASSUME NEW f \in First(j), f # i + 1 PROVE f \in First(i)
      <3>1. CASE f <= i
        BY <3>1
      <3>2. CASE ~(f <= i)
        <4>1. f \in i + 1 .. j /\ f - 1 \in i + 1 .. j /\ f # 1
          BY <2>3, <3>2
        <4>2. x[f].role = "user" /\ x[f - 1].role = "user"
          BY <1>5, <4>1
        <4> QED BY <4>1, <4>2
      <3> QED BY <3>1, <3>2
    <2>4. First(j) = First(i) \cup {i + 1}
      <3> HIDE DEF First
      <3> QED BY <1>2, <2>2, <2>3
    <2> HIDE DEF First
    <2> QED BY <1>3, <2>2, <2>4, FS_AddElement
  <1> QED BY <1>4, <1>5 DEF TurnNumber

\* claude.go: the results of an answer open the turn after it.
LEMMA AnthropicAcceptsPaired ==
  ASSUME NEW v \in Seq(Message), Paired(v), CallsDistinct(v), OneResultEach(v),
         v # <<>>, v[1].role = "user"
  PROVE  AnthropicAccepts(TranslateMessagesToAnthropic(<<SystemMessage>> \o v))
  <1> DEFINE x == [n \in DOMAIN v |-> AnthropicMessage(v[n])]
             T(n) == TurnNumber(x, n)
             uses(a) == {b \in DOMAIN x[a].blocks : x[a].blocks[b].type = "tool_use"}
  <1>1. /\ DOMAIN v = 1..Len(v) /\ Len(v) \in Nat /\ 1 \in DOMAIN v
        /\ DOMAIN x = 1..Len(v) /\ x # <<>>
    OBVIOUS
  <1>2. ASSUME NEW n \in DOMAIN v
        PROVE  /\ v[n] \in Message /\ v[n].role \in {"user", "assistant", "tool"}
               /\ x[n].role = IF v[n].role = "assistant" THEN "assistant" ELSE "user"
               /\ v[n].role = "assistant" => x[n].blocks = AssistantBlocks(v[n])
               /\ v[n].role = "tool" => x[n].blocks = <<ToolResult(v[n])>>
               /\ v[n].role = "user" => x[n].blocks = <<Text(v[n].bytes)>>
    <2>1. v[n] \in Message /\ x[n] = AnthropicMessage(v[n])
      OBVIOUS
    <2>2. v[n].role \in {"user", "assistant", "tool"}
      BY <2>1 DEF Message, Role
    <2> HIDE DEF x
    <2> QED BY <2>1, <2>2 DEF AnthropicMessage
  <1> HIDE DEF x
  <1>3. ASSUME NEW n \in DOMAIN v
        PROVE  /\ v[n].role = "assistant" =>
                    /\ Cardinality(uses(n)) = Len(v[n].calls) /\ IsFiniteSet(uses(n))
                    /\ {x[n].blocks[b].id : b \in uses(n)} = CallIds(v[n])
                    /\ \A b \in DOMAIN x[n].blocks : x[n].blocks[b].type # "tool_result"
               /\ v[n].role # "assistant" => uses(n) = {}
               /\ v[n].role = "tool" =>
                    /\ DOMAIN x[n].blocks = {1} /\ x[n].blocks[1].type = "tool_result"
                    /\ x[n].blocks[1].id = v[n].answers
               /\ v[n].role = "user" =>
                    \A b \in DOMAIN x[n].blocks : x[n].blocks[b].type # "tool_result"
    <2>1. CASE v[n].role = "assistant"
      <3>1. PICK blocks : blocks = AssistantBlocks(v[n])
        OBVIOUS
      <3>2. x[n].blocks = blocks
        BY <1>2, <2>1, <3>1
      <3>3. LET of == {b \in DOMAIN blocks : blocks[b].type = "tool_use"}
            IN /\ Cardinality(of) = Len(v[n].calls) /\ IsFiniteSet(of)
               /\ {blocks[b].id : b \in of} = CallIds(v[n])
               /\ \A b \in DOMAIN blocks : blocks[b].type # "tool_result"
        <4>1. v[n] \in Message
          BY <1>2
        <4> QED BY <3>1, <4>1, AssistantUses
      <3> QED BY <2>1, <3>2, <3>3
    <2>2. CASE v[n].role = "tool"
      <3>1. x[n].blocks = <<ToolResult(v[n])>>
        BY <1>2, <2>2
      <3>2. DOMAIN x[n].blocks = {1} /\ x[n].blocks[1] = ToolResult(v[n])
        BY <3>1
      <3> QED BY <2>2, <3>2 DEF ToolResult
    <2>3. CASE v[n].role = "user"
      <3>1. x[n].blocks = <<Text(v[n].bytes)>>
        BY <1>2, <2>3
      <3>2. DOMAIN x[n].blocks = {1} /\ x[n].blocks[1] = Text(v[n].bytes)
        BY <3>1
      <3> QED BY <2>3, <3>2 DEF Text
    <2> QED BY <1>2, <2>1, <2>2, <2>3
  <1>4. ASSUME NEW i \in DOMAIN v, NEW j \in DOMAIN v, i <= j
        PROVE  T(i) \in Nat /\ T(j) \in Nat /\ T(i) <= T(j)
    <2>1. i \in 1..Len(v) /\ j \in 1..Len(v) /\ i <= i /\ j <= j
      BY <1>1
    <2> QED BY <1>1, <1>4, <2>1, TurnNumbers
  <1>5. ASSUME NEW a \in DOMAIN v, v[a].role = "assistant", NEW t \in RunAfter(v, a)
        PROVE  /\ t \in DOMAIN v /\ a < t /\ v[t].role = "tool" /\ T(t) = T(a) + 1
               /\ a + 1 \in RunAfter(v, a)
    <2>1. /\ t \in 1..Len(v) /\ a \in 1..Len(v) /\ a < t /\ a <= t
          /\ \A i \in a + 1 .. t : i \in DOMAIN v /\ v[i].role = "tool"
          /\ t \in a + 1 .. t
      BY <1>1 DEF RunAfter
    <2>2. x[a].role # "user" /\ \A i \in a + 1 .. t : x[i].role = "user"
      BY <1>2, <1>5, <2>1
    <2>3. T(t) = T(a) + 1
      BY <1>1, <2>1, <2>2, TurnNumbers
    <2>4. a + 1 \in RunAfter(v, a)
      <3>1. a + 1 \in a + 1 .. Len(v) /\ \A i \in a + 1 .. a + 1 : i \in a + 1 .. t
        BY <1>1, <2>1
      <3> QED BY <2>1, <3>1 DEF RunAfter
    <2> QED BY <1>1, <2>1, <2>3, <2>4
  <1>6. ASSUME NEW a \in DOMAIN v, NEW b \in DOMAIN v, v[a].role = "assistant",
               CallIds(v[a]) # {}, T(a) = T(b)
        PROVE  ~(a < b)
    <2> SUFFICES ASSUME a < b PROVE FALSE
      OBVIOUS
    <2>1. a + 1 \in RunAfter(v, a)
      <3>1. PICK id \in CallIds(v[a]) : TRUE
        BY <1>6
      <3>2. PICK t \in RunAfter(v, a) : v[t].answers = id
        BY <1>6 DEF Paired
      <3> QED BY <1>5, <1>6
    <2>2. a + 1 \in DOMAIN v /\ T(a + 1) = T(a) + 1
      BY <1>5, <1>6, <2>1
    <2>3. a + 1 <= b
      BY <1>1
    <2>4. T(a + 1) <= T(b) /\ T(a) \in Nat
      BY <1>1, <1>4, <2>2, <2>3
    <2> QED BY <1>6, <2>2, <2>4
  <1>7. ASSUME NEW n \in DOMAIN v, NEW b \in uses(n)
        PROVE  v[n].role = "assistant" /\ CallIds(v[n]) # {}
    <2>1. v[n].role = "assistant"
      <3> HIDE DEF uses
      <3> QED BY <1>3, <1>7
    <2>2. {x[n].blocks[c].id : c \in uses(n)} = CallIds(v[n])
      BY <1>3, <2>1
    <2>3. x[n].blocks[b].id \in {x[n].blocks[c].id : c \in uses(n)}
      <3> HIDE DEF uses
      <3> QED OBVIOUS
    <2> QED BY <2>1, <2>2, <2>3
  <1> HIDE DEF T
  <1>8. ASSUME NEW k
        PROVE  /\ BlocksOfType(x, k, "tool_use") =
                    UNION {{i} \X uses(i) : i \in {j \in DOMAIN v : T(j) = k}}
               /\ BlocksOfType(x, k, "tool_result") =
                    {j \in DOMAIN v : T(j) = k /\ v[j].role = "tool"} \X {1}
    <2>1. BlocksOf(x, k) = UNION {{i} \X DOMAIN x[i].blocks : i \in {j \in DOMAIN v : T(j) = k}}
      BY <1>1 DEF BlocksOf, T
    <2>2. BlocksOfType(x, k, "tool_use") =
            UNION {{i} \X uses(i) : i \in {j \in DOMAIN v : T(j) = k}}
      BY <2>1 DEF BlocksOfType
    <2>3. BlocksOfType(x, k, "tool_result") =
            {j \in DOMAIN v : T(j) = k /\ v[j].role = "tool"} \X {1}
      <3>1. ASSUME NEW c \in BlocksOfType(x, k, "tool_result")
            PROVE  c \in {j \in DOMAIN v : T(j) = k /\ v[j].role = "tool"} \X {1}
        <4>1. c \in BlocksOf(x, k) /\ x[c[1]].blocks[c[2]].type = "tool_result"
          BY DEF BlocksOfType
        <4>2. PICK i \in DOMAIN v : T(i) = k /\ c \in {i} \X DOMAIN x[i].blocks
          BY <2>1, <4>1
        <4>3. c[1] = i /\ c[2] \in DOMAIN x[i].blocks /\ c = <<c[1], c[2]>>
          BY <4>2
        <4>4. v[i].role = "tool"
          BY <1>2, <1>3, <4>1, <4>3
        <4>5. c[2] = 1
          BY <1>3, <4>3, <4>4
        <4> QED BY <4>2, <4>3, <4>4, <4>5
      <3>2. ASSUME NEW i \in DOMAIN v, T(i) = k, v[i].role = "tool"
            PROVE  <<i, 1>> \in BlocksOfType(x, k, "tool_result")
        <4>1. 1 \in DOMAIN x[i].blocks /\ x[i].blocks[1].type = "tool_result"
          BY <1>3, <3>2
        <4>2. <<i, 1>> \in BlocksOf(x, k)
          BY <2>1, <3>2, <4>1
        <4> QED BY <4>1, <4>2 DEF BlocksOfType
      <3> QED BY <3>1, <3>2
    <2> QED BY <2>2, <2>3
  <1>9. ASSUME NEW k \in Int
        PROVE  LET asked    == BlocksOfType(x, k, "tool_use")
                   answered == BlocksOfType(x, k + 1, "tool_result")
               IN /\ Cardinality(answered) = Cardinality(asked)
                  /\ IdsOf(x, answered) = IdsOf(x, asked)
                  /\ \A b \in answered : \A c \in BlocksOf(x, k + 1) :
                       c[1] < b[1] \/ (c[1] = b[1] /\ c[2] < b[2]) => c \in answered
    <2> DEFINE asked    == BlocksOfType(x, k, "tool_use")
               answered == BlocksOfType(x, k + 1, "tool_result")
               Results == {j \in DOMAIN v : T(j) = k + 1 /\ v[j].role = "tool"}
    <2>1. \A j \in DOMAIN v : T(j) \in Nat
      BY <1>1, <1>4
    <2>2. ASSUME NEW t \in Results
          PROVE  \E a \in DOMAIN v : /\ v[a].role = "assistant" /\ t \in RunAfter(v, a)
                                     /\ CallIds(v[a]) # {} /\ T(t) = T(a) + 1
      <3>1. PICK a \in DOMAIN v : /\ v[a].role = "assistant" /\ t \in RunAfter(v, a)
                                  /\ v[t].answers \in CallIds(v[a])
        BY DEF Paired
      <3> QED BY <1>5, <3>1
    <2>3. CASE \E a \in DOMAIN v : T(a) = k /\ v[a].role = "assistant" /\ CallIds(v[a]) # {}
      <3>1. PICK a \in DOMAIN v : T(a) = k /\ v[a].role = "assistant" /\ CallIds(v[a]) # {}
        BY <2>3
      <3>2. ASSUME NEW b \in DOMAIN v, T(b) = k, v[b].role = "assistant", CallIds(v[b]) # {}
            PROVE  b = a
        BY <1>1, <1>6, <3>1, <3>2
      <3>3. asked = {a} \X uses(a)
        <4>1. \A i \in DOMAIN v : T(i) = k /\ i # a => uses(i) = {}
          BY <1>7, <3>2
        <4>2. UNION {{i} \X uses(i) : i \in {j \in DOMAIN v : T(j) = k}} = {a} \X uses(a)
          BY <3>1, <4>1
        <4> QED BY <1>8, <4>2
      <3>4. Results = RunAfter(v, a)
        <4>1. ASSUME NEW t \in RunAfter(v, a) PROVE t \in Results
          BY <1>5, <3>1
        <4>2. ASSUME NEW t \in Results PROVE t \in RunAfter(v, a)
          <5>1. PICK b \in DOMAIN v : /\ v[b].role = "assistant" /\ t \in RunAfter(v, b)
                                      /\ CallIds(v[b]) # {} /\ T(t) = T(b) + 1
            BY <2>2
          <5>2. T(b) = k
            <6>1. T(b) \in Nat /\ T(a) \in Nat /\ T(t) = k + 1
              BY <2>1
            <6> QED BY <3>1, <5>1, <6>1
          <5> QED BY <3>2, <5>1, <5>2
        <4> HIDE DEF Results
        <4> QED BY <4>1, <4>2
      <3>5. answered = RunAfter(v, a) \X {1}
        BY <1>8, <3>4
      <3>6. /\ Cardinality(RunAfter(v, a)) = Cardinality(uses(a))
            /\ {v[t].answers : t \in RunAfter(v, a)} = CallIds(v[a])
            /\ IsFiniteSet(RunAfter(v, a))
        <4>1. /\ Cardinality(RunAfter(v, a)) = Len(v[a].calls)
              /\ {v[t].answers : t \in RunAfter(v, a)} = CallIds(v[a])
          BY <3>1, RunLength
        <4>2. Cardinality(uses(a)) = Len(v[a].calls)
          BY <1>3, <3>1
        <4>3. RunAfter(v, a) \in SUBSET (1..Len(v))
          BY <1>1, <3>1, <1>5
        <4>4. IsFiniteSet(1..Len(v))
          BY <1>1, FS_Interval
        <4> HIDE DEF uses
        <4> QED BY <4>1, <4>2, <4>3, <4>4, FS_Subset
      <3>7. Cardinality(answered) = Cardinality(asked)
        <4> DEFINE f == [t \in RunAfter(v, a) |-> <<t, 1>>]
                   g == [b \in uses(a) |-> <<a, b>>]
        <4>1. f \in Bijection(RunAfter(v, a), answered)
          <5>1. f \in [RunAfter(v, a) -> answered]
            BY <3>5
          <5>2. \A s, t \in RunAfter(v, a) : f[s] = f[t] => s = t
            OBVIOUS
          <5>3. \A c \in answered : \E t \in RunAfter(v, a) : f[t] = c
            BY <3>5
          <5> HIDE DEF f, answered
          <5> QED BY <5>1, <5>2, <5>3 DEF Bijection, Injection, IsInjective, Surjection
        <4>2. g \in Bijection(uses(a), asked)
          <5>1. g \in [uses(a) -> asked]
            BY <3>3
          <5>2. \A s, t \in uses(a) : g[s] = g[t] => s = t
            OBVIOUS
          <5>3. \A c \in asked : \E t \in uses(a) : g[t] = c
            BY <3>3
          <5> HIDE DEF g, asked, uses
          <5> QED BY <5>1, <5>2, <5>3 DEF Bijection, Injection, IsInjective, Surjection
        <4>3. IsFiniteSet(uses(a))
          BY <1>3, <3>1
        <4> HIDE DEF f, g, uses, asked, answered
        <4>4. Cardinality(answered) = Cardinality(RunAfter(v, a))
          BY <3>6, <4>1, FS_Bijection DEF ExistsBijection
        <4>5. Cardinality(asked) = Cardinality(uses(a))
          BY <4>2, <4>3, FS_Bijection DEF ExistsBijection
        <4> QED BY <3>6, <4>4, <4>5
      <3>8. IdsOf(x, answered) = IdsOf(x, asked)
        <4>1. IdsOf(x, asked) = {x[a].blocks[b].id : b \in uses(a)}
          <5>1. \A c \in {a} \X uses(a) : c[1] = a /\ c[2] \in uses(a)
            OBVIOUS
          <5>2. \A b \in uses(a) : <<a, b>> \in {a} \X uses(a)
            OBVIOUS
          <5>3. IdsOf(x, asked) = {x[c[1]].blocks[c[2]].id : c \in {a} \X uses(a)}
            BY <3>3 DEF IdsOf
          <5>4. \A b \in uses(a) : <<a, b>>[1] = a /\ <<a, b>>[2] = b
            OBVIOUS
          <5> HIDE DEF uses, asked
          <5>5. \A b \in uses(a) : \E c \in {a} \X uses(a) : c[1] = a /\ c[2] = b
            BY <5>2, <5>4
          <5>6. \A c \in {a} \X uses(a) : x[c[1]].blocks[c[2]].id = x[a].blocks[c[2]].id
            BY <5>1
          <5> QED BY <5>1, <5>3, <5>5, <5>6
        <4>2. IdsOf(x, answered) = {x[t].blocks[1].id : t \in RunAfter(v, a)}
          <5>1. \A c \in RunAfter(v, a) \X {1} : c[1] \in RunAfter(v, a) /\ c[2] = 1
            OBVIOUS
          <5>2. \A t \in RunAfter(v, a) : <<t, 1>> \in RunAfter(v, a) \X {1}
            OBVIOUS
          <5> HIDE DEF answered
          <5> QED BY <3>5, <5>1, <5>2 DEF IdsOf
        <4>3. \A t \in RunAfter(v, a) : x[t].blocks[1].id = v[t].answers
          BY <1>3, <1>5, <3>1
        <4>4. {x[a].blocks[b].id : b \in uses(a)} = CallIds(v[a])
          BY <1>3, <3>1
        <4>5. {x[t].blocks[1].id : t \in RunAfter(v, a)} = {v[t].answers : t \in RunAfter(v, a)}
          BY <4>3
        <4> HIDE DEF uses, asked, answered
        <4> QED BY <3>6, <4>1, <4>2, <4>4, <4>5
      <3>9. ASSUME NEW b \in answered, NEW c \in BlocksOf(x, k + 1),
                   c[1] < b[1] \/ (c[1] = b[1] /\ c[2] < b[2])
            PROVE  c \in answered
        <4>1. b[1] \in RunAfter(v, a) /\ b[2] = 1
          BY <3>5
        <4>2. PICK i \in DOMAIN v : T(i) = k + 1 /\ c \in {i} \X DOMAIN x[i].blocks
          BY <1>1 DEF BlocksOf, T
        <4>3. c[1] = i /\ c[2] \in DOMAIN x[i].blocks /\ c = <<c[1], c[2]>>
          BY <4>2
        <4>4. a < i
          <5>1. T(a) \in Nat /\ T(i) # T(a)
            BY <2>1, <3>1, <4>2
          <5>2. ~(i <= a)
            <6> SUFFICES ASSUME i <= a PROVE FALSE
              OBVIOUS
            <6>1. T(i) <= T(a)
              BY <1>4
            <6> QED BY <3>1, <4>2, <5>1, <6>1
          <5> QED BY <1>1, <5>2
        <4>5. i <= b[1] /\ b[1] \in 1..Len(v)
          <5>1. b[1] \in DOMAIN v
            BY <1>5, <3>1, <4>1
          <5> QED BY <1>1, <3>9, <4>3, <5>1
        <4>6. i \in RunAfter(v, a)
          <5>1. \A j \in a + 1 .. b[1] : v[j].role = "tool"
            BY <4>1 DEF RunAfter
          <5>2. i \in a + 1 .. Len(v) /\ \A j \in a + 1 .. i : j \in a + 1 .. b[1]
            BY <1>1, <4>4, <4>5
          <5> QED BY <5>1, <5>2 DEF RunAfter
        <4>7. c[2] = 1
          <5>1. v[i].role = "tool"
            BY <1>5, <3>1, <4>6
          <5>2. DOMAIN x[i].blocks = {1}
            BY <1>3, <5>1
          <5> QED BY <4>3, <5>2
        <4> QED BY <3>5, <4>3, <4>6, <4>7
      <3> HIDE DEF asked, answered
      <3>10. \A b \in answered : \A c \in BlocksOf(x, k + 1) :
               c[1] < b[1] \/ (c[1] = b[1] /\ c[2] < b[2]) => c \in answered
        BY <3>9
      <3> QED BY <3>7, <3>8, <3>10 DEF asked, answered
    <2>4. CASE ~\E a \in DOMAIN v : T(a) = k /\ v[a].role = "assistant" /\ CallIds(v[a]) # {}
      <3>1. asked = {}
        <4>1. \A i \in DOMAIN v : T(i) = k => uses(i) = {}
          BY <1>7, <2>4
        <4>2. UNION {{i} \X uses(i) : i \in {j \in DOMAIN v : T(j) = k}} = {}
          BY <4>1
        <4> QED BY <1>8, <4>2
      <3>2. Results = {}
        <4> SUFFICES ASSUME NEW t \in Results PROVE FALSE
          OBVIOUS
        <4>1. PICK a \in DOMAIN v : /\ v[a].role = "assistant" /\ t \in RunAfter(v, a)
                                    /\ CallIds(v[a]) # {} /\ T(t) = T(a) + 1
          BY <2>2
        <4>2. T(a) \in Nat /\ T(t) = k + 1 /\ T(t) = T(a) + 1
          BY <2>1, <4>1
        <4>3. T(a) = k
          BY <4>2
        <4> QED BY <2>4, <4>1, <4>3
      <3>3. answered = {}
        BY <1>8, <3>2
      <3> QED BY <3>1, <3>3 DEF IdsOf
    <2> QED BY <2>3, <2>4
  <1>10. x[1].role = "user"
    BY <1>1, <1>2
  <1>11. AnthropicAccepts(x)
    <2>1. Len(x) = Len(v)
      BY <1>1
    <2>2. \A k \in 0..Len(x) : k \in Int
      BY <1>1, <2>1
    <2> QED BY <1>1, <1>9, <1>10, <2>2 DEF AnthropicAccepts
  <1> QED BY <1>11, AnthropicOrder DEF x

\* An answer that calls nothing may be put behind: every result stays where it is.
LEMMA PairedWithThought ==
  ASSUME NEW v \in Seq(Message), Paired(v), CallsDistinct(v), OneResultEach(v),
         NEW m \in Message, m.role = "assistant", m.calls = <<>>, m.answers = NoCall,
         \A t \in DOMAIN v : v[t].role = "tool" => v[t].answers # NoCall
  PROVE  LET w == Append(v, m)
         IN w \in Seq(Message) /\ Paired(w) /\ CallsDistinct(w) /\ OneResultEach(w)
  <1> DEFINE w == Append(v, m)
             n == Len(v)
  <1>1. /\ n \in Nat /\ DOMAIN v = 1..n /\ w \in Seq(Message)
        /\ Len(w) = n + 1 /\ DOMAIN w = 1 .. n + 1 /\ w[n + 1] = m
        /\ \A i \in 1..n : w[i] = v[i]
    OBVIOUS
  <1> HIDE DEF w, n
  <1>2. CallIds(m) = {}
    BY DEF CallIds
  <1>3. ASSUME NEW a \in 1..n, NEW t \in RunAfter(v, a) PROVE t \in RunAfter(w, a) /\ t \in 1..n
    <2>1. t \in a + 1 .. n /\ \A i \in a + 1 .. t : v[i].role = "tool"
      BY <1>3 DEF RunAfter, n
    <2>2. \A i \in a + 1 .. t : i \in 1..n
      BY <1>1, <2>1
    <2>3. t \in a + 1 .. Len(w) /\ \A i \in a + 1 .. t : w[i].role = "tool"
      BY <1>1, <2>1, <2>2
    <2>4. t \in 1..n
      BY <1>1, <2>1
    <2> QED BY <2>3, <2>4 DEF RunAfter
  <1>4. ASSUME NEW t \in DOMAIN w, w[t].role = "tool"
        PROVE  \E a \in DOMAIN w : /\ w[a].role = "assistant" /\ t \in RunAfter(w, a)
                                   /\ w[t].answers \in CallIds(w[a])
    <2>1. t \in 1..n /\ w[t] = v[t]
      BY <1>1, <1>4
    <2>2. PICK a \in 1..n : /\ v[a].role = "assistant" /\ t \in RunAfter(v, a)
                            /\ v[t].answers \in CallIds(v[a])
      BY <1>1, <1>4, <2>1 DEF Paired
    <2>3. a \in DOMAIN w /\ w[a] = v[a]
      BY <1>1
    <2> QED BY <1>3, <2>1, <2>2, <2>3
  <1>5. ASSUME NEW a \in DOMAIN w, w[a].role = "assistant", NEW id \in CallIds(w[a])
        PROVE  \E t \in RunAfter(w, a) : w[t].answers = id
    <2>1. a \in 1..n /\ w[a] = v[a]
      BY <1>1, <1>2, <1>5
    <2>2. PICK t \in RunAfter(v, a) : v[t].answers = id
      BY <1>1, <1>5, <2>1 DEF Paired
    <2> QED BY <1>1, <1>3, <2>1, <2>2
  <1>6. CallsDistinct(w)
    <2> SUFFICES ASSUME NEW a \in DOMAIN w, NEW j \in DOMAIN w[a].calls, NEW k \in DOMAIN w[a].calls,
                        w[a].calls[j].id = w[a].calls[k].id
                 PROVE  j = k
      BY DEF CallsDistinct
    <2>1. a \in 1..n /\ w[a] = v[a]
      <3>1. a = n + 1 => DOMAIN w[a].calls = {}
        BY <1>1
      <3> QED BY <1>1, <3>1
    <2> QED BY <1>1, <2>1 DEF CallsDistinct
  <1>7. OneResultEach(w)
    <2> SUFFICES ASSUME NEW t \in DOMAIN w, NEW u \in DOMAIN w, w[t].role = "tool",
                        w[u].answers = w[t].answers
                 PROVE  u = t
      BY DEF OneResultEach
    <2>1. t \in 1..n /\ w[t] = v[t]
      BY <1>1
    <2>2. u \in 1..n /\ w[u] = v[u]
      <3>1. v[t].answers # NoCall
        BY <1>1, <2>1
      <3> QED BY <1>1, <2>1, <3>1
    <2> QED BY <1>1, <2>1, <2>2 DEF OneResultEach
  <1> QED BY <1>1, <1>4, <1>5, <1>6, <1>7 DEF Paired, w

\* A history that begins with a prompt, in which no identifier of a call is used
\* twice, is accepted by both services however it is cut, with an answer of the
\* think phase behind it or without: this is the comment "always provider-valid"
\* of window.go:7-10, for claude.go and openai.go.
THEOREM ViewAccepted ==
  ASSUME NEW tail \in Seq(Message), tail # <<>>, tail[1].role = "user",
         CallsDistinct(tail), OneResultEach(tail),
         \A t \in DOMAIN tail : tail[t].role = "tool" => tail[t].answers # NoCall,
         NEW thought \in Seq(Message),
         \/ thought = <<>>
         \/ \E m \in Message : /\ thought = <<m>> /\ m.role = "assistant"
                               /\ m.calls = <<>> /\ m.answers = NoCall
  PROVE  LET msgs == Request(tail, ProviderView(tail)) \o thought
         IN /\ AnthropicAccepts(TranslateMessagesToAnthropic(msgs))
            /\ OpenAIAccepts(TranslateMessagesToOpenAI(msgs))
  <1> DEFINE view == ProviderView(tail)
             v == Slice(tail, view)
  <1>1. StartsWithUser(tail, view) /\ view \in SUBSET DOMAIN tail
    BY ViewStartsWithUser
  <1>2. ProviderValid(tail, view)
    <2>1. 1 \in DOMAIN tail
      OBVIOUS
    <2> QED BY <2>1, ViewValid
  <1> HIDE DEF view
  <1>3. v \in Seq(Message) /\ Paired(v) /\ CallsDistinct(v) /\ OneResultEach(v)
    BY <1>1, <1>2, SlicePaired
  <1>4. v # <<>> /\ v[1].role = "user"
    <2>1. view \in SUBSET Int /\ IsFiniteSet(view)
      <3>1. DOMAIN tail = 1..Len(tail) /\ Len(tail) \in Nat
        OBVIOUS
      <3>2. IsFiniteSet(1..Len(tail))
        BY <3>1, FS_Interval
      <3> QED BY <1>1, <3>1, <3>2, FS_Subset
    <2>2. /\ Cardinality(view) \in Nat
          /\ \A n \in 1..Cardinality(view) : Increasing(view)[n] \in view
          /\ \A m, n \in 1..Cardinality(view) :
               m < n <=> Increasing(view)[m] < Increasing(view)[n]
          /\ \A i \in view : \E n \in 1..Cardinality(view) : Increasing(view)[n] = i
      BY <2>1, IncreasingOrder
    <2>3. PICK f \in view : tail[f].role = "user" /\ \A i \in view : f <= i
      BY <1>1 DEF StartsWithUser
    <2>4. PICK n \in 1..Cardinality(view) : Increasing(view)[n] = f
      BY <2>2, <2>3
    <2>5. 1 \in 1..Cardinality(view)
      BY <2>2
    <2>6. ~(Increasing(view)[1] < f)
      <3>1. Increasing(view)[1] \in view
        BY <2>2, <2>5
      <3>2. Increasing(view)[1] \in Int /\ f \in Int /\ f <= Increasing(view)[1]
        BY <2>1, <2>3, <3>1
      <3> QED BY <3>2
    <2>7. n = 1
      BY <2>2, <2>4, <2>5, <2>6
    <2>8. v[1] = tail[f] /\ DOMAIN v = 1..Cardinality(view)
      BY <2>4, <2>5, <2>7 DEF Slice
    <2>9. v # <<>>
      <3>1. 1 \in DOMAIN v
        BY <2>5, <2>8
      <3>2. DOMAIN <<>> = {}
        OBVIOUS
      <3> HIDE DEF v
      <3> QED BY <3>1, <3>2
    <2> QED BY <2>3, <2>8, <2>9
  <1>5. Request(tail, view) \o thought = <<SystemMessage>> \o (v \o thought)
    <2>1. Request(tail, view) = <<SystemMessage>> \o v
      BY DEF Request
    <2> HIDE DEF v
    <2> DEFINE S == Message \cup {SystemMessage}
    <2>2. <<SystemMessage>> \in Seq(S) /\ v \in Seq(S) /\ thought \in Seq(S)
      BY <1>3
    <2> HIDE DEF S
    <2>3. (<<SystemMessage>> \o v) \o thought = <<SystemMessage>> \o (v \o thought)
      BY <2>2, ConcatAssociative
    <2> QED BY <2>1, <2>3
  <1>6. ASSUME NEW t \in DOMAIN v, v[t].role = "tool" PROVE v[t].answers # NoCall
    <2>1. view \in SUBSET Int /\ IsFiniteSet(view)
      <3>1. DOMAIN tail = 1..Len(tail) /\ Len(tail) \in Nat
        OBVIOUS
      <3>2. IsFiniteSet(1..Len(tail))
        BY <3>1, FS_Interval
      <3> QED BY <1>1, <3>1, <3>2, FS_Subset
    <2>2. \A n \in 1..Cardinality(view) : Increasing(view)[n] \in view
      BY <2>1, IncreasingOrder
    <2>3. t \in 1..Cardinality(view) /\ v[t] = tail[Increasing(view)[t]]
      BY <1>6 DEF Slice
    <2>4. Increasing(view)[t] \in DOMAIN tail
      BY <1>1, <2>2, <2>3
    <2> QED BY <1>6, <2>3, <2>4
  <1> HIDE DEF v
  <1>7. LET w == v \o thought
        IN /\ w \in Seq(Message) /\ Paired(w) /\ CallsDistinct(w) /\ OneResultEach(w)
           /\ w # <<>> /\ w[1].role = "user"
    <2>1. CASE thought = <<>>
      <3>1. v \o thought = v
        BY <1>3, <2>1
      <3> QED BY <1>3, <1>4, <3>1
    <2>2. ASSUME NEW m \in Message, thought = <<m>>, m.role = "assistant", m.calls = <<>>,
                 m.answers = NoCall
          PROVE  LET w == v \o thought
                 IN /\ w \in Seq(Message) /\ Paired(w) /\ CallsDistinct(w) /\ OneResultEach(w)
                    /\ w # <<>> /\ w[1].role = "user"
      <3>1. v \o thought = Append(v, m)
        BY <1>3, <2>2
      <3>2. Append(v, m) # <<>> /\ Append(v, m)[1].role = "user"
        <4>1. Len(v) \in Nat /\ Len(v) # 0
          BY <1>3, <1>4
        <4>2. Len(Append(v, m)) = Len(v) + 1 /\ Append(v, m)[1] = v[1]
          BY <1>3, <2>2, <4>1
        <4>3. Append(v, m) # <<>>
          BY <4>1, <4>2
        <4> QED BY <1>4, <4>2, <4>3
      <3>3. LET w == Append(v, m)
            IN w \in Seq(Message) /\ Paired(w) /\ CallsDistinct(w) /\ OneResultEach(w)
        BY <1>3, <1>6, <2>2, PairedWithThought
      <3> QED BY <3>1, <3>2, <3>3
    <2> QED BY <2>1, <2>2
  <1>8. /\ AnthropicAccepts(TranslateMessagesToAnthropic(<<SystemMessage>> \o (v \o thought)))
        /\ OpenAIAccepts(TranslateMessagesToOpenAI(<<SystemMessage>> \o (v \o thought)))
    BY <1>7, AnthropicAcceptsPaired, OpenAIAcceptsPaired
  <1> QED BY <1>5, <1>8 DEF view
=============================================================================
