--------------------------- MODULE WindowTrimmer ----------------------------
(***************************************************************************)
(* The trimmer that decides what the provider sees                         *)
(* (internal/session/window.go) and the engine's use of it                 *)
(* (providerView, lastUserMessage in internal/engine/loop.go).             *)
(*                                                                         *)
(* Every pass of the code returns a subsequence of the session's messages  *)
(* ("tail"), so a pass is modelled as a function from the set of positions *)
(* still kept to the set of positions it keeps; the slice itself is the    *)
(* kept positions in increasing order.                                     *)
(***************************************************************************)
EXTENDS Conversation

CONSTANTS
  MaxUserTurns,  \* TrimConfig.MaxUserTurns; not positive means no limit
  MaxTokens      \* TrimConfig.MaxTokens; not positive means no limit

ASSUME TrimConfigAssumption == MaxUserTurns \in Int /\ MaxTokens \in Int

WithRole(tail, kept, role) == {i \in kept : tail[i].role = role}

\* The number of the user turn position i belongs to, among the kept ones:
\* zero before the first user message.
TurnOf(tail, kept, i) == Cardinality({u \in WithRole(tail, kept, "user") : u <= i})

-----------------------------------------------------------------------------
(* Pass 1 and 2: the last MaxUserTurns user turns, then fewer of them      *)
(* until the estimate fits.                                                *)

WindowByUserTurns(tail) ==
  LET kept  == DOMAIN tail
      turns == Cardinality(WithRole(tail, kept, "user"))
  IN IF MaxUserTurns <= 0 \/ turns <= MaxUserTurns
     THEN kept
     ELSE {i \in kept : TurnOf(tail, kept, i) > turns - MaxUserTurns}

\* dropOldestUserTurn applied n times: what precedes the first user message
\* stays, the n oldest user turns go.
DropOldestUserTurns(tail, kept, n) ==
  {i \in kept : LET turn == TurnOf(tail, kept, i) IN turn = 0 \/ turn > n}

\* Mutant: the last user turn is dropped like any other.
ApplyTokenCap_DropsLast(tail, kept) ==
  LET turns == Cardinality(WithRole(tail, kept, "user"))
      fits  == {n \in 0..turns : \/ n = turns
                                 \/ EstimateTokens(tail, DropOldestUserTurns(tail, kept, n))
                                      <= MaxTokens}
  IN IF MaxTokens <= 0 THEN kept ELSE DropOldestUserTurns(tail, kept, Min(fits))

\* The loop stops as soon as the estimate fits, or when one user turn (or
\* none) is left and dropOldestUserTurn returns its argument.
ApplyTokenCap(tail, kept) ==
  LET turns == Cardinality(WithRole(tail, kept, "user"))
      fits  == {n \in 0..turns : \/ n + 1 >= turns
                                 \/ EstimateTokens(tail, DropOldestUserTurns(tail, kept, n))
                                      <= MaxTokens}
  IN IF MaxTokens <= 0 THEN kept ELSE DropOldestUserTurns(tail, kept, Min(fits))

-----------------------------------------------------------------------------
(* Pass 3: defensiveCleanup.                                               *)

\* The kept messages strictly between a and b are all tool messages.
OnlyToolsBetween(tail, kept, a, b) ==
  \A i \in kept : a < i /\ i < b => tail[i].role = "tool"

\* Walking back from tool message t, the first message that is not a tool
\* message is an assistant message that made the call t answers.  (The code
\* looks in the prefix it has already filtered; only tool messages are
\* missing from it, and the walk skips those.)
MatchingCallExists(tail, kept, t) ==
  \E a \in kept : /\ a < t
                  /\ tail[a].role = "assistant"
                  /\ tail[t].answers \in CallIds(tail[a])
                  /\ OnlyToolsBetween(tail, kept, a, t)

DropOrphanResults(tail, kept) ==
  {i \in kept : tail[i].role = "tool" => MatchingCallExists(tail, kept, i)}

\* The run of tool messages that immediately follows position a.
ResultRun(tail, kept, a) ==
  {t \in kept : a < t /\ tail[t].role = "tool" /\ OnlyToolsBetween(tail, kept, a, t)}

\* Assistant messages with a call that the run after them does not answer.
Dangling(tail, kept) ==
  {a \in WithRole(tail, kept, "assistant") :
     \E id \in CallIds(tail[a]) :
       \A t \in ResultRun(tail, kept, a) : tail[t].answers # id}

DropDanglingCalls(tail, kept) ==
  {i \in kept : /\ i \notin Dangling(tail, kept)
                /\ \A a \in Dangling(tail, kept) : i \notin ResultRun(tail, kept, a)}

DropLeadingTools(tail, kept) ==
  {i \in kept : \E j \in kept : j <= i /\ tail[j].role # "tool"}

\* Mutant: unanswered calls are left in.
DefensiveCleanup_KeepsDangling(tail, kept) ==
  DropLeadingTools(tail, DropOrphanResults(tail, kept))

DefensiveCleanup(tail, kept) ==
  DropLeadingTools(tail, DropDanglingCalls(tail, DropOrphanResults(tail, kept)))

Trim(tail) == DefensiveCleanup(tail, ApplyTokenCap(tail, WindowByUserTurns(tail)))

-----------------------------------------------------------------------------
(* The engine's view: the trimmed tail, or the last user message (failing  *)
(* that the last message) when trimming leaves nothing.                    *)

LastUserMessage(tail) ==
  LET users == WithRole(tail, DOMAIN tail, "user")
  IN IF users = {} THEN Len(tail) ELSE Max(users)

ProviderView(tail) ==
  IF Trim(tail) = {} /\ tail # <<>> THEN {LastUserMessage(tail)} ELSE Trim(tail)

-----------------------------------------------------------------------------
(* What a provider accepts: each tool message answers a call of the        *)
(* assistant message right before its run, each call is answered in the    *)
(* run right after it, and nothing is answered before it is asked.         *)

\* Kept tool message t belongs to the answer at a: only results between them.
Follows(tail, kept, a, t) ==
  a < t /\ tail[t].role = "tool" /\ OnlyToolsBetween(tail, kept, a, t)

NoOrphanResult(tail, kept) ==
  \A t \in WithRole(tail, kept, "tool") : \E a \in WithRole(tail, kept, "assistant") :
    Follows(tail, kept, a, t) /\ tail[t].answers \in CallIds(tail[a])

NoDanglingCall(tail, kept) ==
  \A a \in WithRole(tail, kept, "assistant") : \A id \in CallIds(tail[a]) :
    \E t \in kept : Follows(tail, kept, a, t) /\ tail[t].answers = id

ProviderValid(tail, kept) == NoOrphanResult(tail, kept) /\ NoDanglingCall(tail, kept)
=============================================================================
