---------------------------- MODULE MCAgentLoop -----------------------------
(***************************************************************************)
(* Instances of AgentLoop for TLC.                                         *)
(***************************************************************************)
EXTENDS AgentLoop, TLC

CONSTANT MaxTurnsBound  \* bound: no instance has runs of more turns

\* The names of tools: two parallel-safe ones, as read_file is, a serial one
\* and load_skill, as registered by main.go, and one nobody registered.
MCRegistered == {"read", "list", "bash", "load_skill"}
MCToolName == MCRegistered \cup {"nope"}
MCParallelSafe == {"read", "list"}
MCMaxConcurrency == [name \in MCParallelSafe |-> IF name = "read" THEN 2 ELSE 0]

MCCallId == (0..MaxRuns) \X (0..MaxTurnsBound) \X (1..3)
MCNoCall == <<>>

\* Session files earlier runs leave: none, a turn cut off after the first of
\* two results, and two turns of two processes written into each other.
EarlierCall(k) == [id |-> <<0, 0, k>>, name |-> "read"]
EarlierHistories ==
  LET ask(ks) == AssistantMessage([i \in DOMAIN ks |-> EarlierCall(ks[i])], 4)
      result(k) == ToolMessage(EarlierCall(k).id, 4)
  IN {<<>>,
      <<UserMessage(4), ask(<<1, 2>>), result(1)>>,
      <<UserMessage(4), ask(<<1, 2>>), UserMessage(4), result(1), ask(<<3>>), result(2), result(3)>>}

NoHistory == {<<>>}

\* Answers of the single-process instance: none, a group cut by a serial call,
\* more parallel calls than the cap, serial ones only, and skill loading mixed
\* with another tool.
LoopResponses ==
  {<<>>, <<"read", "list", "bash">>, <<"bash", "read", "read">>, <<"read", "read", "read">>,
   <<"nope", "bash">>, <<"load_skill", "bash", "load_skill">>}

\* Answers of the think phase: text, and text with a call nobody offered.
ThinkAnswers == {<<>>, <<"read">>}

\* Answers of the two-process instance: the two calls make one group.
ShareResponses == {<<>>, <<"read", "read">>}

\* Answers of the one-call instances.
OneCallResponses == {<<>>, <<"bash">>}

\* The processes of the two-process instance differ in nothing but their name.
Symmetry == Permutations(Procs)
=============================================================================
