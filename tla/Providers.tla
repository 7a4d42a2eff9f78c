------------------------------ MODULE Providers ------------------------------
(***************************************************************************)
(* What the two providers make of the messages they are given              *)
(* (internal/provider/claude.go and openai.go), and whether the services   *)
(* behind them accept it.                                                  *)
(*                                                                         *)
(* A request is the system message and what is kept of a history.          *)
(* Arguments of calls are JSON objects here; schemas of tools and the      *)
(* network are left out.                                                   *)
(***************************************************************************)
EXTENDS WindowTrimmer

SystemMessage == [role |-> "system", calls |-> <<>>, answers |-> NoCall, bytes |-> 1]

\* Positions in increasing order: the n-th has n of them up to it.
Increasing(kept) ==
  [n \in 1..Cardinality(kept) |-> CHOOSE i \in kept : Cardinality({j \in kept : j <= i}) = n]

\* The slice the kept positions stand for.
Slice(tail, kept) == [n \in 1..Cardinality(kept) |-> tail[Increasing(kept)[n]]]

\* The messages Generate gets.
Request(tail, kept) == <<SystemMessage>> \o Slice(tail, kept)

-----------------------------------------------------------------------------
(* claude.go: a message becomes blocks in a message of the user or of the  *)
(* assistant; the system message is a field of its own.                    *)

Text(bytes) == [type |-> "text", id |-> NoCall, bytes |-> bytes]
ToolUse(call) == [type |-> "tool_use", id |-> call.id, bytes |-> 0]
ToolResult(m) == [type |-> "tool_result", id |-> m.answers, bytes |-> m.bytes]

\* Mutant: an answer that says something makes no calls.
AssistantBlocks_TextOnly(m) ==
  IF m.bytes > 0 THEN <<Text(m.bytes)>> ELSE [k \in DOMAIN m.calls |-> ToolUse(m.calls[k])]

\* The text unless it is empty, the calls, and never no block at all.
AssistantBlocks(m) ==
  LET blocks == (IF m.bytes > 0 THEN <<Text(m.bytes)>> ELSE <<>>)
                  \o [k \in DOMAIN m.calls |-> ToolUse(m.calls[k])]
  IN IF blocks = <<>> THEN <<Text(0)>> ELSE blocks

AnthropicMessage(m) ==
  CASE m.role = "assistant" -> [role |-> "assistant", blocks |-> AssistantBlocks(m)]
    [] m.role = "tool" -> [role |-> "user", blocks |-> <<ToolResult(m)>>]
    [] m.role = "user" -> [role |-> "user", blocks |-> <<Text(m.bytes)>>]

TranslateMessagesToAnthropic(msgs) ==
  LET said == Increasing({i \in DOMAIN msgs : msgs[i].role # "system"})
  IN [n \in DOMAIN said |-> AnthropicMessage(msgs[said[n]])]

-----------------------------------------------------------------------------
(* openai.go: one message for each.                                        *)

OpenAIMessage(m) ==
  CASE m.role = "assistant" -> [role |-> m.role, ids |-> [k \in DOMAIN m.calls |-> m.calls[k].id]]
    [] m.role = "tool" -> [role |-> m.role, ids |-> <<m.answers>>]
    [] m.role \in {"system", "user"} -> [role |-> m.role, ids |-> <<>>]

TranslateMessagesToOpenAI(msgs) == [i \in DOMAIN msgs |-> OpenAIMessage(msgs[i])]

-----------------------------------------------------------------------------
(* The services.                                                           *)

\* Anthropic joins neighbours of one role into one turn; turns are counted.
TurnNumber(msgs, i) ==
  Cardinality({f \in 1..i : f = 1 \/ msgs[f].role # msgs[f - 1].role})

\* The blocks of the k-th turn: the message and the place in it.
BlocksOf(msgs, k) ==
  UNION {{i} \X DOMAIN msgs[i].blocks : i \in {j \in DOMAIN msgs : TurnNumber(msgs, j) = k}}

BlocksOfType(msgs, k, type) == {b \in BlocksOf(msgs, k) : msgs[b[1]].blocks[b[2]].type = type}

IdsOf(msgs, blocks) == {msgs[b[1]].blocks[b[2]].id : b \in blocks}

\* The user speaks first.  The turn after one with calls begins with one result
\* for each of them, and there are no other results.
AnthropicAccepts(msgs) ==
  /\ msgs # <<>> /\ msgs[1].role = "user"
  /\ \A k \in 0..Len(msgs) :
       LET asked    == BlocksOfType(msgs, k, "tool_use")
           answered == BlocksOfType(msgs, k + 1, "tool_result")
       IN /\ Cardinality(answered) = Cardinality(asked)
          /\ IdsOf(msgs, answered) = IdsOf(msgs, asked)
          /\ \A b \in answered : \A c \in BlocksOf(msgs, k + 1) :
               c[1] < b[1] \/ (c[1] = b[1] /\ c[2] < b[2]) => c \in answered

\* An answer with n calls is followed by n messages of tools, one for each, and
\* there are no other messages of tools.
OpenAIAccepts(msgs) ==
  LET Replies(a) == {t \in DOMAIN msgs : /\ a < t /\ t <= a + Len(msgs[a].ids)
                                         /\ msgs[t].role = "tool"}
      asking == {a \in DOMAIN msgs : msgs[a].role = "assistant"}
  IN /\ \A a \in asking :
          /\ {msgs[t].ids[1] : t \in Replies(a)} = {msgs[a].ids[k] : k \in DOMAIN msgs[a].ids}
          /\ Cardinality(Replies(a)) = Len(msgs[a].ids)
     /\ \A t \in DOMAIN msgs : msgs[t].role = "tool" => \E a \in asking : t \in Replies(a)

=============================================================================
