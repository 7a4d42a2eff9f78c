---------------------------- MODULE Conversation ----------------------------
(***************************************************************************)
(* The message vocabulary of the agent (internal/schema/message.go) and    *)
(* the token estimate made from it (internal/session/tokens.go).           *)
(*                                                                         *)
(* A message keeps what the rest of the program tells apart: its role, the *)
(* tool calls an assistant message carries, the call a tool message        *)
(* answers, and the length of its content.  Texts themselves, and the      *)
(* system message (never stored in a session), are left out.               *)
(***************************************************************************)
EXTENDS Integers, Sequences, FiniteSets, FiniteSetsExt

CONSTANTS
  CallId,     \* identifiers the model gives its tool calls
  ToolName,   \* names a call may carry, registered or not
  NoCall      \* an absent ToolCallID (the empty string in the code)

ASSUME NoCallAssumption == NoCall \notin CallId

Role == {"user", "assistant", "tool"}

\* A tool call: who it is and which tool it names.  Its arguments are opaque.
ToolCall == [id : CallId, name : ToolName]

Message ==
  [role : Role, calls : Seq(ToolCall), answers : CallId \cup {NoCall}, bytes : Nat]

UserMessage(bytes) ==
  [role |-> "user", calls |-> <<>>, answers |-> NoCall, bytes |-> bytes]

AssistantMessage(calls, bytes) ==
  [role |-> "assistant", calls |-> calls, answers |-> NoCall, bytes |-> bytes]

\* toolResultMessage: the observation that answers one call.
ToolMessage(id, bytes) ==
  [role |-> "tool", calls |-> <<>>, answers |-> id, bytes |-> bytes]

\* The identifiers of the calls a message makes (none unless an assistant).
CallIds(m) == {m.calls[k].id : k \in DOMAIN m.calls}

-----------------------------------------------------------------------------
(* Token estimate: four bytes a token, rounded up, per field.              *)

MessageOverhead == 8

CeilDiv4(n) == IF n <= 0 THEN 0 ELSE (n + 3) \div 4

\* Identifiers, tool names and arguments are opaque here and of one length
\* each, so a call costs a fixed number of tokens.
IdBytes == 4
CallTokens == CeilDiv4(IdBytes) + CeilDiv4(4) + CeilDiv4(4)

EstimateOne(m) ==
  MessageOverhead + CeilDiv4(m.bytes)
    + (IF m.answers = NoCall THEN 0 ELSE CeilDiv4(IdBytes))
    + Len(m.calls) * CallTokens

\* The estimate of the messages of tail whose positions are in kept.
EstimateTokens(tail, kept) ==
  MapThenSumSet(LAMBDA i : EstimateOne(tail[i]), kept)
=============================================================================
