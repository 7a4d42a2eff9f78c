-------------------------- MODULE AgentLoopProofs --------------------------
(***************************************************************************)
(* Proofs about AgentLoop, for any processes, tools, caps, answers and     *)
(* windows.                                                                *)
(***************************************************************************)
EXTENDS AgentLoop, TrimProofs

-----------------------------------------------------------------------------
(* The inductive invariant.                                                *)

\* The counters of a run, by where it is.
ControlInv ==
  \A p \in Procs :
    /\ pc[p] # "done" => run[p] \in 1..MaxRuns /\ turn[p] <= TurnLimit
    /\ pc[p] \in {"think", "act"} => turn[p] >= 1
    /\ pc[p] \in {"barrier", "group", "running"} => next[p] <= Len(calls[p])
    /\ pc[p] \in {"group", "running"} => next[p] = answered[p] + 1
    /\ pc[p] = "results" => answered[p] + 1 < next[p]

\* Past its first step a run has a user message.
PromptInv ==
  \A p \in Procs : pc[p] \notin {"done", "prompt"} =>
    \E i \in DOMAIN mem[p] : mem[p][i].role = "user"

\* Tools run in the current group only, and a run that returns has none.
ToolInv ==
  \A p \in Procs :
    \/ started[p] = finished[p]
    \/ pc[p] = "running" /\ Running(p) \subseteq CurrentGroup(p)
    \/ pc[p] = "done" /\ exit[p] = "crashed"

\* An answer with a load_skill call never gets to the groups, and until its
\* last result is stored it is the only one that makes the skills in the system
\* message differ from those loaded.
SkillInv ==
  \A p \in Procs :
    /\ HasLoadSkillCall(calls[p]) =>
         /\ pc[p] \notin {"group", "running"}
         /\ pc[p] = "results" => next[p] = Len(calls[p]) + 1
         /\ \A i \in started[p] : calls[p][i].name = LoadSkill
    /\ pc[p] = "barrier" => HasLoadSkillCall(calls[p])
    /\ \/ sys[p] = loaded[p]
       \/ HasLoadSkillCall(calls[p]) /\ pc[p] \in {"barrier", "results", "done"}

IInv == TypeOK /\ ControlInv /\ PromptInv /\ ToolInv /\ SkillInv
-----------------------------------------------------------------------------
LEMMA TurnLimitType == TurnLimit \in Nat /\ TurnLimit >= 1
  BY LoopAssumption DEF TurnLimit

LEMMA UserMessageType == UserMessage(PromptBytes) \in Message
  BY LoopAssumption DEF UserMessage, Message, Role

LEMMA AssistantMessageType ==
  ASSUME NEW cs \in Seq(ToolCall) PROVE AssistantMessage(cs, AnswerBytes) \in Message
  BY LoopAssumption DEF AssistantMessage, Message, Role

LEMMA ResultType ==
  ASSUME TypeOK, NEW p \in Procs, NEW k \in DOMAIN calls[p] PROVE ResultOf(p, k) \in Message
  <1>1. calls[p][k] \in ToolCall
    BY DEF TypeOK
  <1>2. calls[p][k].id \in CallId
    BY <1>1 DEF ToolCall
  <1> QED BY <1>2, LoopAssumption DEF ResultOf, ToolMessage, Message, Role

LEMMA FreshCallsType ==
  ASSUME NEW p \in Procs, NEW names \in Responses \cup ThinkResponses,
         run[p] \in 1..MaxRuns, turn[p] \in 1..TurnLimit
  PROVE  FreshCalls(p, names) \in Seq(ToolCall) /\ Len(FreshCalls(p, names)) = Len(names)
  <1>1. names \in Seq(ToolName)
    BY LoopAssumption
  <1>2. ASSUME NEW i \in DOMAIN names
        PROVE  [id |-> <<run[p], turn[p], i>>, name |-> names[i]] \in ToolCall
    <2>1. <<run[p], turn[p], i>> \in CallId
      BY CallIdAssumption
    <2> QED BY <1>1, <2>1 DEF ToolCall
  <1>3. DOMAIN names = 1..Len(names) /\ Len(names) \in Nat
    BY <1>1
  <1> QED BY <1>2, <1>3 DEF FreshCalls

\* What is shown to the act phase is one answer of the model, or nothing.
OneThought(p) ==
  \/ thought[p] = <<>>
  \/ \E m \in Message : /\ thought[p] = <<m>> /\ pc[p] = "act"
                         /\ m.role = "assistant" /\ m.answers = NoCall

\* A turn that is over, or a run, leaves nothing of it.
LEMMA ViewDropped ==
  ASSUME TypeOK, NEW p \in Procs, DropView(p) PROVE thought' \in [Procs -> Seq(Message)]
  BY DEF TypeOK, DropView

LEMMA ThoughtType ==
  ASSUME IInv, NEW p \in Procs, Think(p)
  PROVE  /\ thought' \in [Procs -> Seq(Message)]
         /\ OneThought(p)' \/ UNCHANGED thought
         /\ \A q \in Procs : q # p => thought'[q] = thought[q]
  <1>1. run[p] \in 1..MaxRuns /\ turn[p] \in 1..TurnLimit
    BY TurnLimitType DEF IInv, Think, TypeOK, ControlInv
  <1>2. ASSUME NEW names \in ThinkResponses, NEW answer,
               answer = AssistantMessage(FreshCalls(p, names), AnswerBytes),
               thought' = [thought EXCEPT ![p] = <<answer>>]
        PROVE  /\ thought' \in [Procs -> Seq(Message)] /\ OneThought(p)'
               /\ \A q \in Procs : q # p => thought'[q] = thought[q]
    <2>1. answer \in Message
      BY <1>1, <1>2, FreshCallsType, AssistantMessageType
    <2>2. answer.role = "assistant" /\ answer.answers = NoCall
      BY <1>2 DEF AssistantMessage
    <2>3. thought'[p] = <<answer>> /\ pc'[p] = "act"
      BY <1>2 DEF IInv, TypeOK, Think
    <2> QED BY <1>2, <2>1, <2>2, <2>3 DEF IInv, TypeOK, OneThought
  <1> QED BY <1>2 DEF Think, IInv, TypeOK

\* A group is a finite, non-empty part of the answer.
LEMMA GroupType ==
  ASSUME NEW cs \in Seq(ToolCall), NEW k \in 1..Len(cs)
  PROVE  /\ GroupAt(cs, k) \subseteq DOMAIN cs /\ k \in GroupAt(cs, k)
         /\ \A j \in GroupAt(cs, k) : j >= k
         /\ \A S \in SUBSET GroupAt(cs, k) : IsFiniteSet(S) /\ S \in SUBSET Int
  <1>1. GroupAt(cs, k) \subseteq k..Len(cs) /\ k \in GroupAt(cs, k)
    BY DEF GroupAt
  <1>2. IsFiniteSet(k..Len(cs))
    BY FS_Interval
  <1> QED BY <1>1, <1>2, FS_Subset
-----------------------------------------------------------------------------
(* One lemma per action.  Ending a run is common to many of them.          *)

LEMMA ReturnInv ==
  ASSUME IInv, NEW p \in Procs, pc[p] # "done",
         NEW outcome \in {"complete", "cancelled", "maxTurns", "providerError", "marshalError",
                          "persistError", "crashed"},
         started[p] = finished[p] \/ outcome = "crashed",
         Return(p, outcome), turn' \in [Procs -> 0..(TurnLimit + 1)],
         \A q \in Procs : q # p => turn'[q] = turn[q],
         UNCHANGED <<disk, mem, base, calls, toolVars, cancelled, skillVars, runVars>>
  PROVE  IInv'
  <1> USE DEF IInv, Return, toolVars, skillVars, runVars
  <1>1. TypeOK'
    <2>1. thought' \in [Procs -> Seq(Message)]
      BY ViewDropped
    <2> QED BY <2>1 DEF TypeOK, CountersOK
  <1>2. ControlInv'
    BY DEF TypeOK, ControlInv
  <1>3. PromptInv'
    BY DEF TypeOK, PromptInv
  <1>4. ToolInv'
    BY DEF TypeOK, ToolInv, Running, CurrentGroup
  <1>5. SkillInv'
    BY DEF TypeOK, SkillInv
  <1> QED BY <1>1, <1>2, <1>3, <1>4, <1>5

LEMMA StartInv == ASSUME IInv, NEW p \in Procs, Start(p) PROVE IInv'
  <1> USE DEF IInv, Start
  <1>0. \A q \in Procs : q # p =>
           /\ started'[q] = started[q] /\ finished'[q] = finished[q]
           /\ pc'[q] = pc[q] /\ exit'[q] = exit[q]
           /\ next'[q] = next[q] /\ calls'[q] = calls[q] /\ answered'[q] = answered[q]
           /\ sys'[q] = sys[q] /\ loaded'[q] = loaded[q]
    BY DEF TypeOK
  <1>1. /\ started'[p] = {} /\ finished'[p] = {} /\ calls'[p] = <<>>
        /\ next'[p] = 1 /\ answered'[p] = 0
        /\ pc'[p] = "prompt" /\ sys'[p] = loaded'[p]
    BY DEF TypeOK
  <1>2. runs + 1 \in 1..MaxRuns /\ 0 <= TurnLimit
    BY LoopAssumption, TurnLimitType DEF TypeOK
  <1>3. TypeOK'
    <2>1. run' \in [Procs -> 0..MaxRuns] /\ runs' \in 0..MaxRuns
      BY <1>2 DEF TypeOK
    <2>2. turn' \in [Procs -> 0..(TurnLimit + 1)]
      BY TurnLimitType DEF TypeOK
    <2>3. ASSUME NEW q \in Procs PROVE CountersOK(q)'
      <3>1. CASE q = p
        <4>1. 0 < 1 /\ 1 <= Len(calls'[p]) + 1
          BY <1>1
        <4> QED BY <1>1, <3>1, <4>1 DEF CountersOK
      <3>2. CASE q # p
        <4>1. CountersOK(q)
          BY DEF TypeOK
        <4> QED BY <1>0, <3>2, <4>1 DEF CountersOK
      <3> QED BY <3>1, <3>2
    <2>4. thought' \in [Procs -> Seq(Message)]
      BY ViewDropped
    <2>5. disk' \in Seq(Message) /\ mem' \in [Procs -> Seq(Message)] /\ base' \in [Procs -> Nat]
      BY DEF TypeOK
    <2>6. /\ pc' \in [Procs -> {"done", "prompt", "top", "think", "act", "barrier", "group",
                               "running", "results"}]
          /\ exit' \in [Procs -> {"none", "complete", "cancelled", "maxTurns", "providerError",
                                 "marshalError", "persistError", "crashed"}]
      BY DEF TypeOK
    <2>7. /\ calls' \in [Procs -> Seq(ToolCall)]
          /\ next' \in [Procs -> Nat] /\ answered' \in [Procs -> Nat]
      BY DEF TypeOK
    <2>8. /\ started' \in [Procs -> SUBSET Nat] /\ finished' \in [Procs -> SUBSET Nat]
          /\ cancelled' \in [Procs -> BOOLEAN]
          /\ loaded' \in [Procs -> SUBSET Skills] /\ sys' \in [Procs -> SUBSET Skills]
      BY DEF TypeOK
    <2> HIDE DEF Start
    <2> QED BY <2>1, <2>2, <2>3, <2>4, <2>5, <2>6, <2>7, <2>8 DEF TypeOK
  <1>4. ControlInv'
    <2>1. /\ run'[p] = runs + 1 /\ turn'[p] = 0
          /\ \A q \in Procs : q # p => run'[q] = run[q] /\ turn'[q] = turn[q]
      BY DEF TypeOK
    <2>2. ASSUME NEW q \in Procs, q # p
          PROVE  /\ pc'[q] = pc[q] /\ run'[q] = run[q] /\ turn'[q] = turn[q]
                 /\ next'[q] = next[q] /\ calls'[q] = calls[q] /\ answered'[q] = answered[q]
      BY <1>0, <2>1, <2>2
    <2> QED BY <1>1, <1>2, <2>1, <2>2 DEF ControlInv
  <1>5. PromptInv'
    BY DEF TypeOK, PromptInv
  <1>6. ToolInv'
    <2>1. ASSUME NEW q \in Procs, q # p
          PROVE  Running(q)' = Running(q) /\ CurrentGroup(q)' = CurrentGroup(q)
      BY <1>0, <2>1 DEF Running, CurrentGroup
    <2> SUFFICES ASSUME NEW q \in Procs
                 PROVE  \/ started'[q] = finished'[q]
                        \/ pc'[q] = "running" /\ Running(q)' \subseteq CurrentGroup(q)'
                        \/ pc'[q] = "done" /\ exit'[q] = "crashed"
      BY DEF ToolInv
    <2>2. CASE q = p
      BY <1>1, <2>2
    <2>3. CASE q # p
      <3> HIDE DEF Start
      <3> QED BY <1>0, <2>1, <2>3 DEF ToolInv
    <2> QED BY <2>2, <2>3
  <1>7. SkillInv'
    <2>1. ~HasLoadSkillCall(calls'[p])
      BY <1>1 DEF HasLoadSkillCall
    <2> QED BY <1>0, <1>1, <2>1 DEF SkillInv
  <1> QED BY <1>3, <1>4, <1>5, <1>6, <1>7

LEMMA AppendPromptInv == ASSUME IInv, NEW p \in Procs, AppendPrompt(p) PROVE IInv'
  <1> USE DEF IInv, AppendPrompt, SessionAppend, Goto, toolVars, skillVars, runVars
  <1>1. TypeOK'
    <2>1. disk' \in Seq(Message) /\ mem' \in [Procs -> Seq(Message)]
      BY UserMessageType DEF TypeOK
    <2>2. thought' \in [Procs -> Seq(Message)]
      BY ViewDropped
    <2> QED BY <2>1, <2>2 DEF TypeOK, CountersOK
  <1>2. ControlInv'
    BY DEF TypeOK, ControlInv
  <1>3. PromptInv'
    <2>1. mem[p] \in Seq(Message) /\ mem'[p] = Append(mem[p], UserMessage(PromptBytes))
      BY DEF TypeOK
    <2>2. Len(mem[p]) + 1 \in DOMAIN mem'[p] /\ mem'[p][Len(mem[p]) + 1] = UserMessage(PromptBytes)
      BY <2>1
    <2>3. UserMessage(PromptBytes).role = "user"
      BY DEF UserMessage
    <2>4. \A q \in Procs : q # p => mem'[q] = mem[q] /\ pc'[q] = pc[q]
      BY DEF TypeOK
    <2> QED BY <2>2, <2>3, <2>4 DEF PromptInv
  <1>4. ToolInv'
    BY DEF TypeOK, ToolInv, Running, CurrentGroup
  <1>5. SkillInv'
    BY DEF TypeOK, SkillInv
  <1> QED BY <1>1, <1>2, <1>3, <1>4, <1>5

LEMMA BeginTurnInv == ASSUME IInv, NEW p \in Procs, BeginTurn(p) PROVE IInv'
  <1> USE DEF IInv, BeginTurn, BudgetLeft, Goto, toolVars, skillVars, runVars
  <1>0. turn[p] \in Nat /\ turn[p] + 1 \in 1..TurnLimit
    BY TurnLimitType DEF TypeOK
  <1>1. TypeOK'
    <2>1. turn' \in [Procs -> 0..(TurnLimit + 1)]
      BY <1>0, TurnLimitType DEF TypeOK
    <2>2. thought' \in [Procs -> Seq(Message)]
      BY ViewDropped
    <2> QED BY <2>1, <2>2 DEF TypeOK, CountersOK
  <1>2. ControlInv'
    BY <1>0 DEF TypeOK, ControlInv
  <1>3. PromptInv'
    BY DEF TypeOK, PromptInv
  <1>4. ToolInv'
    BY DEF TypeOK, ToolInv, Running, CurrentGroup
  <1>5. SkillInv'
    BY DEF TypeOK, SkillInv
  <1> QED BY <1>1, <1>2, <1>3, <1>4, <1>5

LEMMA ThinkInv == ASSUME IInv, NEW p \in Procs, Think(p) PROVE IInv'
  <1> USE DEF IInv, Think, toolVars, skillVars, runVars
  <1>1. TypeOK'
    <2>1. thought' \in [Procs -> Seq(Message)]
      BY ThoughtType DEF TypeOK
    <2> QED BY <2>1 DEF TypeOK, CountersOK
  <1>2. ControlInv'
    BY DEF TypeOK, ControlInv
  <1>3. PromptInv'
    BY DEF TypeOK, PromptInv
  <1>4. ToolInv'
    BY DEF TypeOK, ToolInv, Running, CurrentGroup
  <1>5. SkillInv'
    BY DEF TypeOK, SkillInv
  <1> QED BY <1>1, <1>2, <1>3, <1>4, <1>5

LEMMA ActInv == ASSUME IInv, NEW p \in Procs, Act(p) PROVE IInv'
  <1> USE DEF IInv, skillVars, runVars
  <1>1. /\ pc[p] = "act" /\ started[p] = finished[p]
        /\ run[p] \in 1..MaxRuns /\ turn[p] \in 1..TurnLimit
    BY TurnLimitType DEF Act, TypeOK, ControlInv, ToolInv
  <1>2. UNCHANGED <<base, turn, cancelled, skillVars, runVars>>
    BY DEF Act
  <1>3. CASE Return(p, "marshalError") /\ UNCHANGED <<disk, mem, calls, toolVars>>
    <2>1. turn' \in [Procs -> 0..(TurnLimit + 1)] /\ turn' = turn
      BY <1>2 DEF TypeOK
    <2> QED BY <1>1, <1>2, <1>3, <2>1, ReturnInv
  <1>4. ASSUME NEW names \in Responses, NEW cs, cs = FreshCalls(p, names),
               SessionAppend(p, AssistantMessage(cs, AnswerBytes)),
               calls' = [calls EXCEPT ![p] = cs],
               next' = [next EXCEPT ![p] = 1],
               started' = [started EXCEPT ![p] = {}],
               finished' = [finished EXCEPT ![p] = {}],
               answered' = [answered EXCEPT ![p] = 0],
               IF cs = <<>> THEN Return(p, "complete")
               ELSE Goto(p, IF HasLoadSkillCall(cs) THEN "barrier" ELSE "group")
        PROVE  IInv'
    <2>1. cs \in Seq(ToolCall) /\ AssistantMessage(cs, AnswerBytes) \in Message
      BY <1>1, <1>4, FreshCallsType, AssistantMessageType
    <2>2. \A q \in Procs : q # p =>
             /\ started'[q] = started[q] /\ finished'[q] = finished[q]
             /\ pc'[q] = pc[q] /\ exit'[q] = exit[q] /\ mem'[q] = mem[q]
             /\ next'[q] = next[q] /\ calls'[q] = calls[q] /\ answered'[q] = answered[q]
      BY <1>4 DEF TypeOK, Return, Goto, SessionAppend
    <2>3. /\ started'[p] = {} /\ finished'[p] = {} /\ calls'[p] = cs
          /\ next'[p] = 1 /\ answered'[p] = 0
          /\ mem'[p] = Append(mem[p], AssistantMessage(cs, AnswerBytes))
      BY <1>4 DEF TypeOK, SessionAppend
    <2>4. /\ pc'[p] \in {"done", "barrier", "group"}
          /\ pc'[p] # "done" => Len(cs) \in Nat /\ 1 <= Len(cs)
          /\ pc'[p] = "barrier" => HasLoadSkillCall(cs)
          /\ pc'[p] = "group" => ~HasLoadSkillCall(cs)
      BY <1>4, <2>1 DEF TypeOK, Return, Goto
    <2>5. TypeOK'
      <3>1. disk' \in Seq(Message) /\ mem' \in [Procs -> Seq(Message)]
        BY <1>4, <2>1 DEF TypeOK, SessionAppend
      <3>2. calls' \in [Procs -> Seq(ToolCall)] /\ next' \in [Procs -> Nat] /\ answered' \in [Procs -> Nat]
        BY <1>4, <2>1 DEF TypeOK
      <3>3. started' \in [Procs -> SUBSET Nat] /\ finished' \in [Procs -> SUBSET Nat]
        BY <1>4 DEF TypeOK
      <3>4. /\ pc' \in [Procs -> {"done", "prompt", "top", "think", "act", "barrier", "group",
                                  "running", "results"}]
            /\ exit' \in [Procs -> {"none", "complete", "cancelled", "maxTurns", "providerError",
                                    "marshalError", "persistError", "crashed"}]
        BY <1>4 DEF TypeOK, Return, Goto
      <3>5. ASSUME NEW q \in Procs PROVE CountersOK(q)'
        <4>1. CASE q = p
          <5>1. 0 < 1 /\ 1 <= Len(cs) + 1
            BY <2>1
          <5> QED BY <2>3, <4>1, <5>1 DEF CountersOK
        <4>2. CASE q # p
          <5>1. CountersOK(q)
            BY DEF TypeOK
          <5> QED BY <2>2, <4>2, <5>1 DEF CountersOK
        <4> QED BY <4>1, <4>2
      <3>6. thought' \in [Procs -> Seq(Message)]
        BY <1>4, ViewDropped DEF Return, Goto
      <3> QED BY <1>2, <3>1, <3>2, <3>3, <3>4, <3>5, <3>6 DEF TypeOK
    <2>6. ControlInv'
      BY <1>1, <1>2, <2>2, <2>3, <2>4 DEF ControlInv
    <2>7. PromptInv'
      <3>1. PICK i \in DOMAIN mem[p] : mem[p][i].role = "user"
        BY <1>1 DEF PromptInv
      <3>2. i \in DOMAIN mem'[p] /\ mem'[p][i] = mem[p][i]
        BY <2>1, <2>3, <3>1 DEF TypeOK
      <3> QED BY <2>2, <3>1, <3>2 DEF PromptInv
    <2>8. ToolInv'
      <3>1. ASSUME NEW q \in Procs, q # p
            PROVE  Running(q)' = Running(q) /\ CurrentGroup(q)' = CurrentGroup(q)
        BY <2>2, <3>1 DEF Running, CurrentGroup
      <3> SUFFICES ASSUME NEW q \in Procs
                   PROVE  \/ started'[q] = finished'[q]
                          \/ pc'[q] = "running" /\ Running(q)' \subseteq CurrentGroup(q)'
                          \/ pc'[q] = "done" /\ exit'[q] = "crashed"
        BY DEF ToolInv
      <3>2. CASE q = p
        BY <2>3, <3>2
      <3>3. CASE q # p
        BY <2>2, <3>1, <3>3 DEF ToolInv
      <3> QED BY <3>2, <3>3
    <2>9. SkillInv'
      <3>1. sys[p] = loaded[p]
        BY <1>1 DEF SkillInv
      <3> QED BY <1>2, <2>2, <2>3, <2>4, <3>1 DEF SkillInv
    <2> QED BY <2>5, <2>6, <2>7, <2>8, <2>9
  <1> QED BY <1>3, <1>4 DEF Act

LEMMA BarrierCallInv == ASSUME IInv, NEW p \in Procs, BarrierCall(p) PROVE IInv'
  <1> USE DEF IInv, runVars
  <1>1. /\ pc[p] = "barrier" /\ started[p] = finished[p] /\ HasLoadSkillCall(calls[p])
        /\ next[p] \in 1..Len(calls[p]) /\ answered[p] \in Nat /\ answered[p] < next[p]
    BY DEF BarrierCall, TypeOK, CountersOK, ControlInv, ToolInv, SkillInv
  <1>2. UNCHANGED <<disk, mem, base, turn, calls, answered, cancelled, sys, runVars, exit>>
    BY DEF BarrierCall, Goto
  <1>3. \/ UNCHANGED <<started, finished>>
        \/ /\ started' = [started EXCEPT ![p] = started[p] \cup {next[p]}]
           /\ finished' = [finished EXCEPT ![p] = finished[p] \cup {next[p]}]
           /\ calls[p][next[p]].name = LoadSkill
    BY DEF BarrierCall, Deferred
  <1>4. loaded' \in [Procs -> SUBSET Skills] /\ \A q \in Procs : q # p => loaded'[q] = loaded[q]
    <2>1. loaded \in [Procs -> SUBSET Skills]
      BY DEF TypeOK
    <2>2. CASE UNCHANGED loaded
      BY <2>1, <2>2
    <2>3. ASSUME NEW s \in Skills, loaded' = [loaded EXCEPT ![p] = loaded[p] \cup {s}]
          PROVE  loaded' \in [Procs -> SUBSET Skills] /\ \A q \in Procs : q # p => loaded'[q] = loaded[q]
      BY <2>1, <2>3
    <2> QED BY <2>2, <2>3 DEF BarrierCall, ManagerLoadSkill
  <1>5. /\ next' = [next EXCEPT ![p] = next[p] + 1]
        /\ pc' = [pc EXCEPT ![p] = IF next[p] = Len(calls[p]) THEN "results" ELSE "barrier"]
    BY DEF BarrierCall, Goto
  <1>6. /\ started' \in [Procs -> SUBSET Nat] /\ finished' \in [Procs -> SUBSET Nat]
        /\ \A q \in Procs : q # p => started'[q] = started[q] /\ finished'[q] = finished[q]
        /\ started'[p] = finished'[p] /\ started'[p] \subseteq started[p] \cup {next[p]}
        /\ \A i \in started'[p] : i \in started[p] \/ calls[p][i].name = LoadSkill
    <2>1. started \in [Procs -> SUBSET Nat] /\ finished \in [Procs -> SUBSET Nat] /\ next[p] \in Nat
      BY <1>1 DEF TypeOK
    <2>2. CASE UNCHANGED <<started, finished>>
      BY <1>1, <2>1, <2>2
    <2>3. CASE /\ started' = [started EXCEPT ![p] = started[p] \cup {next[p]}]
               /\ finished' = [finished EXCEPT ![p] = finished[p] \cup {next[p]}]
               /\ calls[p][next[p]].name = LoadSkill
      <3>1. started[p] \cup {next[p]} \in SUBSET Nat
        BY <2>1
      <3>2. started'[p] = started[p] \cup {next[p]} /\ finished'[p] = started[p] \cup {next[p]}
        BY <1>1, <2>1, <2>3
      <3> QED BY <1>1, <2>1, <2>3, <3>1, <3>2
    <2> QED BY <1>3, <2>2, <2>3
  <1>7. /\ next'[p] = next[p] + 1
        /\ pc'[p] \in {"results", "barrier"}
        /\ pc'[p] = "results" => next[p] = Len(calls[p])
        /\ pc'[p] = "barrier" => next[p] # Len(calls[p])
        /\ \A q \in Procs : q # p => pc'[q] = pc[q] /\ next'[q] = next[q]
    BY <1>5 DEF TypeOK
  <1>8. TypeOK'
    <2>1. next' \in [Procs -> Nat]
      BY <1>1, <1>5 DEF TypeOK
    <2>2. pc' \in [Procs -> {"done", "prompt", "top", "think", "act", "barrier", "group",
                             "running", "results"}]
      BY <1>5 DEF TypeOK
    <2>3. ASSUME NEW q \in Procs PROVE CountersOK(q)'
      <3>1. CountersOK(q) /\ calls[q] \in Seq(ToolCall)
        BY DEF TypeOK
      <3>2. q = p => answered[q] < next'[q] /\ next'[q] <= Len(calls[q]) + 1
        BY <1>1, <1>7, <3>1
      <3>3. q = p => started'[q] \subseteq DOMAIN calls[q] /\ finished'[q] \subseteq started'[q]
        BY <1>1, <1>6, <3>1 DEF CountersOK
      <3> QED BY <1>2, <1>6, <1>7, <3>1, <3>2, <3>3 DEF CountersOK
    <2>4. thought' \in [Procs -> Seq(Message)]
      BY ViewDropped DEF BarrierCall, Goto
    <2> QED BY <1>2, <1>4, <1>6, <2>1, <2>2, <2>3, <2>4 DEF TypeOK
  <1>9. ControlInv'
    <2>1. Len(calls[p]) \in Nat
      BY DEF TypeOK
    <2>2. /\ pc'[p] = "barrier" => next[p] + 1 <= Len(calls[p])
          /\ answered[p] + 1 < next[p] + 1
      BY <1>1, <1>7, <2>1
    <2>3. \A q \in Procs : q # p => pc'[q] = pc[q] /\ next'[q] = next[q]
      BY <1>7
    <2>4. run'[p] = run[p] /\ turn'[p] = turn[p] /\ calls'[p] = calls[p] /\ answered'[p] = answered[p]
      BY <1>2
    <2> QED BY <1>1, <1>2, <1>7, <2>2, <2>3, <2>4 DEF ControlInv
  <1>10. PromptInv'
    BY <1>1, <1>2, <1>7 DEF PromptInv
  <1>11. ToolInv'
    BY <1>1, <1>2, <1>6, <1>7 DEF ToolInv, Running, CurrentGroup
  <1>12. SkillInv'
    BY <1>1, <1>2, <1>4, <1>6, <1>7 DEF SkillInv
  <1> QED BY <1>8, <1>9, <1>10, <1>11, <1>12

LEMMA EnterGroupInv == ASSUME IInv, NEW p \in Procs, EnterGroup(p) PROVE IInv'
  <1> USE DEF IInv, EnterGroup
  <1>0. started[p] = finished[p]
    BY DEF ToolInv
  <1>1. CASE cancelled[p]
    <2>1. turn' \in [Procs -> 0..(TurnLimit + 1)] /\ turn' = turn
      BY DEF TypeOK
    <2> QED BY <1>0, <1>1, <2>1, ReturnInv
  <1>2. CASE ~cancelled[p]
    <2> USE <1>2 DEF Goto, toolVars, skillVars, runVars
    <2>1. TypeOK'
      <3>1. thought' \in [Procs -> Seq(Message)]
        BY ViewDropped DEF EnterGroup
      <3> QED BY <3>1 DEF TypeOK, CountersOK
    <2>2. ControlInv'
      BY DEF TypeOK, ControlInv
    <2>3. PromptInv'
      BY DEF TypeOK, PromptInv
    <2>4. ToolInv'
      BY <1>0 DEF TypeOK, ToolInv, Running, CurrentGroup
    <2>5. SkillInv'
      <3>1. pc'[p] = "running" /\ \A q \in Procs : q # p => pc'[q] = pc[q]
        BY DEF TypeOK
      <3>2. ~HasLoadSkillCall(calls[p])
        BY DEF SkillInv
      <3> QED BY <3>1, <3>2 DEF SkillInv
    <2> QED BY <2>1, <2>2, <2>3, <2>4, <2>5
  <1> QED BY <1>1, <1>2

LEMMA StartCallInv == ASSUME IInv, NEW p \in Procs, StartCall(p) PROVE IInv'
  <1> USE DEF IInv, skillVars, runVars
  <1>1. pc[p] = "running" /\ UNCHANGED <<disk, mem, base, pc, exit, turn, thought, calls, next,
                                         finished, answered, cancelled, skillVars, runVars>>
    BY DEF StartCall
  <1>2. PICK i \in CurrentGroup(p) : started' = [started EXCEPT ![p] = started[p] \cup {i}]
    <2> DEFINE rest == CurrentGroup(p) \ started[p]
    <2>1. calls[p] \in Seq(ToolCall) /\ next[p] \in 1..Len(calls[p])
      BY <1>1 DEF TypeOK, ControlInv
    <2>2. rest \in SUBSET CurrentGroup(p) /\ rest # {}
      BY DEF StartCall
    <2>3. rest \in SUBSET Int /\ IsFiniteSet(rest)
      BY <2>1, <2>2, GroupType DEF CurrentGroup
    <2>4. started' = [started EXCEPT ![p] = started[p] \cup {Min(rest)}]
      BY DEF StartCall
    <2> HIDE DEF rest
    <2>5. Min(rest) \in rest
      BY <2>2, <2>3, MinIsLeast
    <2> QED BY <2>2, <2>4, <2>5
  <1>3. i \in DOMAIN calls[p] /\ i \in Nat
    BY <1>1, GroupType DEF TypeOK, ControlInv, CurrentGroup
  <1>4. /\ started'[p] = started[p] \cup {i}
        /\ \A q \in Procs : q # p => started'[q] = started[q]
    BY <1>2 DEF TypeOK
  <1>5. TypeOK'
    <2>1. started' \in [Procs -> SUBSET Nat]
      BY <1>2, <1>3 DEF TypeOK
    <2>2. \A q \in Procs : CountersOK(q)'
      BY <1>1, <1>3, <1>4 DEF TypeOK, CountersOK
    <2> QED BY <1>1, <2>1, <2>2 DEF TypeOK
  <1>6. ControlInv'
    BY <1>1 DEF TypeOK, ControlInv
  <1>7. PromptInv'
    BY <1>1 DEF TypeOK, PromptInv
  <1>8. ToolInv'
    BY <1>1, <1>2, <1>4 DEF ToolInv, Running, CurrentGroup
  <1>9. SkillInv'
    BY <1>1, <1>4 DEF SkillInv
  <1> QED BY <1>5, <1>6, <1>7, <1>8, <1>9

LEMMA FinishCallInv == ASSUME IInv, NEW p \in Procs, FinishCall(p) PROVE IInv'
  <1> USE DEF IInv, FinishCall, skillVars, runVars
  <1>0. PICK i \in Running(p) : finished' = [finished EXCEPT ![p] = finished[p] \cup {i}]
    OBVIOUS
  <1>1. /\ finished'[p] = finished[p] \cup {i} /\ i \in started[p] /\ i \in Nat
        /\ \A q \in Procs : q # p => finished'[q] = finished[q]
    BY <1>0 DEF TypeOK, Running
  <1>2. TypeOK'
    <2>1. finished' \in [Procs -> SUBSET Nat]
      <3>1. finished \in [Procs -> SUBSET Nat]
        BY DEF TypeOK
      <3>2. finished[p] \cup {i} \in SUBSET Nat
        BY <1>1, <3>1
      <3> QED BY <1>0, <3>1, <3>2
    <2>2. \A q \in Procs : CountersOK(q)'
      BY <1>1 DEF TypeOK, CountersOK
    <2> QED BY <2>1, <2>2 DEF TypeOK
  <1>3. ControlInv'
    BY DEF TypeOK, ControlInv
  <1>4. PromptInv'
    BY DEF TypeOK, PromptInv
  <1>5. ToolInv'
    BY <1>1 DEF ToolInv, Running, CurrentGroup
  <1>6. SkillInv'
    BY DEF TypeOK, SkillInv
  <1> QED BY <1>2, <1>3, <1>4, <1>5, <1>6

LEMMA CollectGroupInv == ASSUME IInv, NEW p \in Procs, CollectGroup(p) PROVE IInv'
  <1> USE DEF IInv, CollectGroup
  <1>0. started[p] = finished[p]
    BY DEF TypeOK, CountersOK, ToolInv, GroupDone, Running
  <1>1. CASE cancelled[p]
    <2>1. turn' \in [Procs -> 0..(TurnLimit + 1)] /\ turn' = turn
      BY DEF TypeOK
    <2> QED BY <1>0, <1>1, <2>1, ReturnInv DEF toolVars
  <1>2. CASE ~cancelled[p]
    <2> DEFINE last == Max(CurrentGroup(p))
    <2>1. last \in Nat /\ last >= next[p] /\ last <= Len(calls[p]) /\ next[p] = answered[p] + 1
      <3>1. calls[p] \in Seq(ToolCall) /\ next[p] \in 1..Len(calls[p]) /\ next[p] = answered[p] + 1
        BY DEF TypeOK, ControlInv
      <3>2. CurrentGroup(p) \in SUBSET Int /\ IsFiniteSet(CurrentGroup(p)) /\ CurrentGroup(p) # {}
        BY <3>1, GroupType DEF CurrentGroup
      <3>3. last \in CurrentGroup(p)
        BY <3>2, MaxIsGreatest
      <3> QED BY <3>1, <3>3, GroupType DEF CurrentGroup
    <2>2. next' = [next EXCEPT ![p] = last + 1] /\ pc' = [pc EXCEPT ![p] = "results"]
      BY <1>2 DEF Goto
    <2> HIDE DEF last
    <2>3. /\ next'[p] = last + 1 /\ pc'[p] = "results"
          /\ \A q \in Procs : q # p => next'[q] = next[q] /\ pc'[q] = pc[q]
      BY <2>2 DEF TypeOK
    <2> USE <1>2 DEF Goto, skillVars, runVars
    <2>4. TypeOK'
      <3>1. next' \in [Procs -> Nat] /\ answered[p] \in Nat /\ Len(calls[p]) \in Nat
        BY <2>1, <2>2 DEF TypeOK
      <3>2. ASSUME NEW q \in Procs PROVE CountersOK(q)'
        <4>1. CountersOK(q)
          BY DEF TypeOK
        <4>2. q = p => answered[q] < next'[q] /\ next'[q] <= Len(calls[q]) + 1
          BY <2>1, <2>3, <3>1
        <4> QED BY <2>3, <4>1, <4>2 DEF CountersOK
      <3>3. thought' \in [Procs -> Seq(Message)]
        BY ViewDropped
      <3> QED BY <3>1, <3>2, <3>3 DEF TypeOK
    <2>5. ControlInv'
      <3>1. answered[p] \in Nat
        BY DEF TypeOK
      <3> QED BY <2>1, <2>3, <3>1 DEF ControlInv
    <2>6. PromptInv'
      BY DEF TypeOK, PromptInv
    <2>7. ToolInv'
      BY <1>0, <2>3 DEF ToolInv, Running, CurrentGroup
    <2>8. SkillInv'
      BY <2>3 DEF SkillInv
    <2> QED BY <2>4, <2>5, <2>6, <2>7, <2>8
  <1> QED BY <1>1, <1>2

LEMMA PersistResultInv == ASSUME IInv, NEW p \in Procs, PersistResult(p) PROVE IInv'
  <1> DEFINE k == answered[p] + 1
  <1> USE DEF IInv, runVars
  <1>1. /\ pc[p] = "results" /\ started[p] = finished[p]
        /\ calls[p] \in Seq(ToolCall) /\ answered[p] \in Nat /\ next[p] \in Nat
        /\ k < next[p] /\ next[p] <= Len(calls[p]) + 1
    BY DEF PersistResult, TypeOK, CountersOK, ControlInv, ToolInv
  <1>2. k \in DOMAIN calls[p] /\ k \in Nat /\ ResultOf(p, k) \in Message
    BY <1>1, ResultType
  <1>3. UNCHANGED <<base, turn, calls, next, started, finished, cancelled, loaded, runVars, exit>>
    BY DEF PersistResult, Goto
  <1>4. /\ disk' = Append(disk, ResultOf(p, k))
        /\ mem' = [mem EXCEPT ![p] = Append(mem[p], ResultOf(p, k))]
        /\ answered' = [answered EXCEPT ![p] = k]
        /\ pc' = [pc EXCEPT ![p] = AfterResult(p, k)]
        /\ sys' = [sys EXCEPT ![p] = RecomposedPrompt(p, k)]
    BY DEF PersistResult, SessionAppend, Goto
  <1> HIDE DEF k
  <1>5. \A q \in Procs : q # p =>
          /\ mem'[q] = mem[q] /\ answered'[q] = answered[q]
          /\ pc'[q] = pc[q] /\ sys'[q] = sys[q]
    BY <1>4 DEF TypeOK
  <1>6. /\ mem'[p] = Append(mem[p], ResultOf(p, k)) /\ answered'[p] = k
        /\ pc'[p] = AfterResult(p, k) /\ sys'[p] = RecomposedPrompt(p, k)
    BY <1>4 DEF TypeOK
  <1>7. /\ pc'[p] \in {"results", "group", "top"}
        /\ pc'[p] = "results" => k + 1 < next[p]
        /\ pc'[p] = "group" => next[p] = k + 1 /\ next[p] <= Len(calls[p])
        /\ pc'[p] = "top" => k = Len(calls[p])
    <2>1. Len(calls[p]) \in Nat
      BY <1>1
    <2> QED BY <1>1, <1>2, <1>6, <2>1 DEF AfterResult
  <1>8. TypeOK'
    <2>1. disk' \in Seq(Message) /\ mem' \in [Procs -> Seq(Message)]
      BY <1>2, <1>4 DEF TypeOK
    <2>2. answered' \in [Procs -> Nat]
      BY <1>2, <1>4 DEF TypeOK
    <2>3. pc' \in [Procs -> {"done", "prompt", "top", "think", "act", "barrier", "group",
                             "running", "results"}]
      BY <1>4 DEF TypeOK, AfterResult
    <2>4. sys' \in [Procs -> SUBSET Skills]
      BY <1>4 DEF TypeOK, RecomposedPrompt
    <2>5. ASSUME NEW q \in Procs PROVE CountersOK(q)'
      <3>1. CountersOK(q)
        BY DEF TypeOK
      <3>2. answered'[q] < next[q]
        BY <1>1, <1>5, <1>6, <3>1 DEF CountersOK
      <3> QED BY <1>3, <3>1, <3>2 DEF CountersOK
    <2>6. thought' \in [Procs -> Seq(Message)]
      BY ViewDropped DEF PersistResult, Goto
    <2> QED BY <1>3, <2>1, <2>2, <2>3, <2>4, <2>5, <2>6 DEF TypeOK
  <1>9. ControlInv'
    BY <1>1, <1>3, <1>5, <1>6, <1>7 DEF ControlInv
  <1>10. PromptInv'
    <2>1. PICK i \in DOMAIN mem[p] : mem[p][i].role = "user"
      BY <1>1 DEF PromptInv
    <2>2. mem[p] \in Seq(Message)
      BY DEF TypeOK
    <2>3. i \in DOMAIN mem'[p] /\ mem'[p][i] = mem[p][i]
      BY <1>2, <1>6, <2>1, <2>2
    <2> QED BY <1>5, <2>1, <2>3 DEF PromptInv
  <1>11. ToolInv'
    BY <1>1, <1>3, <1>5 DEF ToolInv, Running, CurrentGroup
  <1>12. SkillInv'
    <2>1. pc'[p] = "group" => ~HasLoadSkillCall(calls[p])
      BY <1>1, <1>2, <1>7 DEF SkillInv
    <2>2. sys'[p] = loaded[p] \/ (HasLoadSkillCall(calls[p]) /\ pc'[p] = "results")
      BY <1>1, <1>6, <1>7, <2>1 DEF SkillInv, RecomposedPrompt
    <2> QED BY <1>1, <1>3, <1>5, <1>7, <2>1, <2>2 DEF SkillInv
  <1> QED BY <1>8, <1>9, <1>10, <1>11, <1>12

LEMMA CancelInv == ASSUME IInv, NEW p \in Procs, Cancel(p) PROVE IInv'
  <1> USE DEF IInv, Cancel, toolVars, skillVars, runVars
  <1>1. TypeOK'
    BY DEF TypeOK, CountersOK
  <1>2. ControlInv'
    BY DEF TypeOK, ControlInv
  <1>3. PromptInv'
    BY DEF TypeOK, PromptInv
  <1>4. ToolInv'
    BY DEF TypeOK, ToolInv, Running, CurrentGroup
  <1>5. SkillInv'
    BY DEF TypeOK, SkillInv
  <1> QED BY <1>1, <1>2, <1>3, <1>4, <1>5

-----------------------------------------------------------------------------
LEMMA InitInv == Init => IInv
  <1> SUFFICES ASSUME Init PROVE IInv OBVIOUS
  <1>1. TypeOK
    <2>1. \A p \in Procs : CountersOK(p)
      <3>1. \A p \in Procs : Len(calls[p]) = 0
        BY DEF Init
      <3> QED BY <3>1 DEF Init, CountersOK
    <2>2. disk \in Seq(Message) /\ runs \in 0..MaxRuns /\ 0 \in 0..MaxRuns
      BY LoopAssumption DEF Init
    <2> QED BY <2>1, <2>2, TurnLimitType DEF Init, TypeOK
  <1>2. ControlInv /\ PromptInv /\ ToolInv
    BY DEF Init, ControlInv, PromptInv, ToolInv
  <1>3. SkillInv
    <2>1. \A p \in Procs : ~HasLoadSkillCall(calls[p])
      BY DEF Init, HasLoadSkillCall
    <2> QED BY <2>1 DEF Init, SkillInv
  <1> QED BY <1>1, <1>2, <1>3 DEF IInv

\* The steps that only end the run.
LEMMA StopInv ==
  ASSUME IInv, NEW p \in Procs,
         \/ StopAtTop(p) \/ ProviderFails(p) \/ AppendFails(p) \/ BarrierCancelled(p)
         \/ AbortGroup(p) \/ Crash(p)
  PROVE  IInv'
  <1>1. turn \in [Procs -> 0..(TurnLimit + 1)]
    BY DEF IInv, TypeOK
  <1>2. pc[p] # "running" /\ pc[p] # "done" => started[p] = finished[p]
    BY DEF IInv, ToolInv
  <1>3. CASE StopAtTop(p)
    <2>1. turn' \in [Procs -> 0..(TurnLimit + 1)] /\ \A q \in Procs : q # p => turn'[q] = turn[q]
      <3>1. turn[p] <= TurnLimit
        BY <1>3 DEF StopAtTop, IInv, ControlInv
      <3> QED BY <1>1, <1>3, <3>1, TurnLimitType DEF StopAtTop
    <2>2. PICK outcome \in {"cancelled", "maxTurns"} : Return(p, outcome)
      BY <1>3 DEF StopAtTop
    <2> QED BY <1>2, <1>3, <2>1, <2>2, ReturnInv DEF StopAtTop
  <1>4. CASE ProviderFails(p)
    BY <1>1, <1>2, <1>4, ReturnInv DEF ProviderFails
  <1>5. CASE AppendFails(p)
    BY <1>1, <1>2, <1>5, ReturnInv DEF AppendFails
  <1>6. CASE BarrierCancelled(p)
    BY <1>1, <1>2, <1>6, ReturnInv DEF BarrierCancelled
  <1>7. CASE AbortGroup(p)
    <2>1. started[p] = finished[p]
      BY <1>7 DEF AbortGroup, GroupQuiet, Running, IInv, TypeOK, CountersOK
    <2> QED BY <1>1, <1>7, <2>1, ReturnInv DEF AbortGroup
  <1>8. CASE Crash(p)
    BY <1>1, <1>8, ReturnInv DEF Crash
  <1> QED BY <1>3, <1>4, <1>5, <1>6, <1>7, <1>8

LEMMA StutterInv == ASSUME IInv, UNCHANGED vars PROVE IInv'
  <1> USE DEF IInv, vars
  <1>1. TypeOK'
    BY DEF TypeOK, CountersOK
  <1>2. ControlInv' /\ PromptInv'
    BY DEF ControlInv, PromptInv
  <1>3. ToolInv'
    BY DEF ToolInv, Running, CurrentGroup
  <1>4. SkillInv'
    BY DEF SkillInv
  <1> QED BY <1>1, <1>2, <1>3, <1>4

LEMMA NextInv == IInv /\ [Next]_vars => IInv'
  <1> SUFFICES ASSUME IInv, [Next]_vars PROVE IInv' OBVIOUS
  <1>1. ASSUME NEW p \in Procs, Step(p) PROVE IInv'
    BY <1>1, AppendPromptInv, BeginTurnInv, ThinkInv, ActInv, BarrierCallInv, EnterGroupInv,
       StartCallInv, FinishCallInv, CollectGroupInv, PersistResultInv, StopInv DEF Step
  <1>2. ASSUME NEW p \in Procs, Start(p) \/ Cancel(p) \/ Crash(p) PROVE IInv'
    BY <1>2, StartInv, CancelInv, StopInv
  <1>3. CASE UNCHANGED vars
    BY <1>3, StutterInv
  <1> QED BY <1>1, <1>2, <1>3 DEF Next

\* The inductive invariant holds of every reachable state.
THEOREM Invariant == Spec => []IInv
  BY InitInv, NextInv, PTL DEF Spec

\* Every variable keeps its type: whatever the model asks for and wherever a
\* run ends, the file holds well-formed messages, no result is stored of a call
\* that was not executed, and turnCount stays within one of the budget.
THEOREM TypeCorrect == Spec => []TypeOK
  <1>1. IInv => TypeOK
    BY DEF IInv
  <1> QED BY <1>1, Invariant, PTL

\* The history sent to the provider (loop.go:106) is one it accepts, for any
\* number of processes on the file, any earlier content of it, any window and
\* any token cap.
THEOREM ViewAlwaysValid == Spec => []ViewIsValid
  <1>1. ASSUME IInv PROVE ViewIsValid
    <2> SUFFICES ASSUME NEW p \in Procs, Asking(p) PROVE ProviderValid(mem[p], View(p))
      BY DEF ViewIsValid
    <2>1. mem[p] \in Seq(Message)
      BY <1>1 DEF IInv, TypeOK
    <2>2. \E i \in DOMAIN mem[p] : mem[p][i].role = "user"
      BY <1>1 DEF IInv, PromptInv, Asking
    <2> QED BY <2>1, <2>2, ViewValid DEF View
  <1> QED BY <1>1, Invariant, PTL

\* Run (loop.go:74-183) returns only when no tool it started is still running.
THEOREM RunLeavesNothingRunning == Spec => []NothingRunsAfterReturn
  <1>1. ASSUME IInv PROVE NothingRunsAfterReturn
    BY <1>1 DEF IInv, ToolInv, NothingRunsAfterReturn, Running
  <1> QED BY <1>1, Invariant, PTL

\* Next to a load_skill call no other tool is executed (loop.go:240-256).
THEOREM BarrierDefers == Spec => []OthersDeferred
  <1>1. ASSUME IInv PROVE OthersDeferred
    BY <1>1 DEF IInv, SkillInv, OthersDeferred
  <1> QED BY <1>1, Invariant, PTL

\* Every request is made with a system message that names all skills loaded so
\* far (loop.go:144-156).
THEOREM PromptNeverStale == Spec => []FreshSystemPrompt
  <1>1. ASSUME IInv PROVE FreshSystemPrompt
    BY <1>1 DEF IInv, SkillInv, FreshSystemPrompt, Asking
  <1> QED BY <1>1, Invariant, PTL

-----------------------------------------------------------------------------
(* What the inductive invariant leaves open is proved on top of it, one    *)
(* process at a time: a step of one process is invisible to the others,    *)
(* but for the file.                                                       *)

Untouched(q) ==
  /\ mem'[q] = mem[q] /\ base'[q] = base[q]
  /\ pc'[q] = pc[q] /\ exit'[q] = exit[q] /\ turn'[q] = turn[q] /\ run'[q] = run[q]
  /\ calls'[q] = calls[q] /\ next'[q] = next[q] /\ answered'[q] = answered[q]
  /\ started'[q] = started[q] /\ finished'[q] = finished[q]

StepOf(p) == Start(p) \/ Step(p) \/ Cancel(p) \/ Crash(p)

LEMMA OthersUntouched ==
  ASSUME TypeOK, NEW p \in Procs, NEW q \in Procs, q # p, StepOf(p)
  PROVE  Untouched(q)
  <1> USE DEF TypeOK, Untouched, SessionAppend, Goto, Return, toolVars, skillVars, runVars
  <1>1. CASE Start(p)
    BY <1>1 DEF Start
  <1>2. CASE AppendPrompt(p) \/ BeginTurn(p) \/ Think(p) \/ Cancel(p)
    BY <1>2 DEF AppendPrompt, BeginTurn, Think, Cancel
  <1>3. CASE Act(p)
    <2>1. UNCHANGED <<base, turn, run, loaded, sys>>
      BY <1>3 DEF Act
    <2>2. CASE Return(p, "marshalError") /\ UNCHANGED <<disk, mem, calls, toolVars>>
      BY <2>1, <2>2
    <2>3. ASSUME NEW cs, SessionAppend(p, AssistantMessage(cs, AnswerBytes)),
                 calls' = [calls EXCEPT ![p] = cs], next' = [next EXCEPT ![p] = 1],
                 started' = [started EXCEPT ![p] = {}], finished' = [finished EXCEPT ![p] = {}],
                 answered' = [answered EXCEPT ![p] = 0],
                 \/ Return(p, "complete")
                 \/ \E where : Goto(p, where)
          PROVE  Untouched(q)
      BY <2>1, <2>3
    <2> QED BY <1>3, <2>2, <2>3 DEF Act
  <1>4. CASE StopAtTop(p) \/ ProviderFails(p) \/ AppendFails(p) \/ BarrierCancelled(p) \/ AbortGroup(p) \/ Crash(p)
    <2>1. CASE StopAtTop(p)
      BY <2>1 DEF StopAtTop
    <2>2. CASE ProviderFails(p)
      BY <2>2 DEF ProviderFails
    <2>3. CASE AppendFails(p)
      BY <2>3 DEF AppendFails
    <2>4. CASE BarrierCancelled(p)
      BY <2>4 DEF BarrierCancelled
    <2>5. CASE AbortGroup(p)
      BY <2>5 DEF AbortGroup
    <2>6. CASE Crash(p)
      BY <2>6 DEF Crash
    <2> QED BY <1>4, <2>1, <2>2, <2>3, <2>4, <2>5, <2>6
  <1>5. CASE BarrierCall(p)
    <2>1. /\ UNCHANGED <<mem, base, turn, calls, answered, run>>
          /\ \E where : Goto(p, where)
      BY <1>5 DEF BarrierCall
    <2>2. /\ next'[q] = next[q]
          /\ started'[q] = started[q] /\ finished'[q] = finished[q]
      <3>1. next'[q] = next[q]
        BY <1>5 DEF BarrierCall
      <3>2. CASE Deferred(calls[p][next[p]])
        BY <1>5, <3>1, <3>2 DEF BarrierCall
      <3>3. CASE ~Deferred(calls[p][next[p]])
        <4>1. /\ started' = [started EXCEPT ![p] = @ \cup {next[p]}]
              /\ finished' = [finished EXCEPT ![p] = @ \cup {next[p]}]
          BY <1>5, <3>3 DEF BarrierCall
        <4> QED BY <3>1, <4>1
      <3> QED BY <3>2, <3>3
    <2> QED BY <2>1, <2>2
  <1>6. CASE EnterGroup(p) \/ StartCall(p)
    <2>1. CASE EnterGroup(p)
      <3>1. /\ UNCHANGED <<mem, base, turn, calls, toolVars, run>>
            /\ Return(p, "cancelled") \/ Goto(p, "running")
        BY <2>1 DEF EnterGroup
      <3> QED BY <3>1
    <2>2. CASE StartCall(p)
      BY <2>2 DEF StartCall
    <2> QED BY <1>6, <2>1, <2>2
  <1>8. CASE FinishCall(p)
    BY <1>8 DEF FinishCall
  <1>9. CASE CollectGroup(p)
    <2>1. /\ UNCHANGED <<mem, base, turn, calls, started, finished, answered, run>>
          /\ \/ Return(p, "cancelled") /\ UNCHANGED next
             \/ (\E n : next' = [next EXCEPT ![p] = n]) /\ Goto(p, "results")
      BY <1>9 DEF CollectGroup
    <2> QED BY <2>1
  <1>7. CASE PersistResult(p)
    BY <1>7 DEF PersistResult
  <1> QED BY <1>1, <1>2, <1>3, <1>4, <1>5, <1>6, <1>7, <1>8, <1>9 DEF StepOf, Step

-----------------------------------------------------------------------------
(* The tools of a group run within the caps of their policies.             *)

SchedInv ==
  \A p \in Procs : pc[p] = "running" =>
    Cardinality(Running(p)) <= WorkerCount(calls[p], CurrentGroup(p))

\* The caller of a group may run at least none of it, no more than its tools'
\* caps, and no more than it holds.
LEMMA WorkersWithinCaps ==
  ASSUME NEW cs \in Seq(ToolCall), NEW k \in 1..Len(cs)
  PROVE  /\ WorkerCount(cs, GroupAt(cs, k)) \in Nat
         /\ \A i \in GroupAt(cs, k) :
              IsParallelSafe(cs[i]) /\ MaxConcurrency[cs[i].name] > 0
                => WorkerCount(cs, GroupAt(cs, k)) <= MaxConcurrency[cs[i].name]
  <1> DEFINE group == GroupAt(cs, k)
             capped == {j \in group : IsParallelSafe(cs[j]) /\ MaxConcurrency[cs[j].name] > 0}
             Cap(j) == MaxConcurrency[cs[j].name]
             caps == {IF MaxParallel <= 0 THEN 4 ELSE MaxParallel} \cup {Cap(j) : j \in capped}
  <1>1. group \subseteq 1..Len(cs) /\ IsFiniteSet(group)
    BY GroupType
  <1>2. Cardinality(group) \in Nat
    BY <1>1, FS_CardinalityType
  <1>3. \A j \in capped : Cap(j) \in Int /\ Cap(j) > 0
    BY LoopAssumption DEF IsParallelSafe
  <1>4. IsFiniteSet(capped)
    BY <1>1, FS_Subset
  <1>5. IsFiniteSet(caps)
    <2> HIDE DEF capped, Cap
    <2> DEFINE T == {Cap(j) : j \in capped}
               f == [j \in capped |-> Cap(j)]
    <2>1. f \in Surjection(capped, T)
      BY DEF Surjection
    <2> HIDE DEF f
    <2>2. IsFiniteSet(T)
      BY <1>4, <2>1, FS_Surjection
    <2> QED BY <2>2, FS_Singleton, FS_Union
  <1>6. caps # {} /\ \A c \in caps : c \in Int /\ c > 0
    <2> HIDE DEF capped, Cap
    <2> QED BY <1>3, LoopAssumption
  <1>7. Min(caps) \in Int /\ Min(caps) > 0 /\ \A c \in caps : Min(caps) <= c
    <2> HIDE DEF caps
    <2>1. caps \in SUBSET Int
      BY <1>6
    <2>2. Min(caps) \in caps /\ \A c \in caps : Min(caps) <= c
      BY <1>5, <1>6, <2>1, MinIsLeast
    <2> QED BY <1>6, <2>2
  <1>8. ToolGroupLimit(cs, group) = Min(caps)
    BY DEF ToolGroupLimit
  <1>9. /\ WorkerCount(cs, group) \in Nat
        /\ WorkerCount(cs, group) <= Min(caps)
    <2> HIDE DEF caps, group
    <2> QED BY <1>2, <1>7, <1>8 DEF WorkerCount
  <1>10. \A i \in capped : Cap(i) \in caps
    OBVIOUS
  <1> HIDE DEF caps
  <1> QED BY <1>3, <1>7, <1>9, <1>10

LEMMA RunningFinite ==
  ASSUME TypeOK, NEW p \in Procs
  PROVE  IsFiniteSet(Running(p)) /\ Cardinality(Running(p)) \in Nat
  <1>1. Running(p) \subseteq 1..Len(calls[p]) /\ Len(calls[p]) \in Nat
    BY DEF TypeOK, CountersOK, Running
  <1>2. IsFiniteSet(1..Len(calls[p]))
    BY <1>1, FS_Interval
  <1>3. IsFiniteSet(Running(p))
    BY <1>1, <1>2, FS_Subset
  <1> QED BY <1>3, FS_CardinalityType

LEMMA NextSched == ASSUME IInv, SchedInv, [Next]_vars PROVE SchedInv'
  <1> USE DEF IInv
  <1>1. ASSUME NEW p \in Procs, StepOf(p) PROVE SchedInv'
    <2> SUFFICES ASSUME NEW q \in Procs, pc'[q] = "running"
                 PROVE  Cardinality(Running(q)') <= WorkerCount(calls'[q], CurrentGroup(q)')
      BY DEF SchedInv
    <2>1. CASE q # p
      BY <1>1, <2>1, OthersUntouched DEF SchedInv, Untouched, Running, CurrentGroup
    <2>2. CASE q = p /\ EnterGroup(p)
      <3>0. pc[p] = "group" /\ UNCHANGED <<started, finished, calls, next>>
        BY <2>2 DEF EnterGroup, toolVars
      <3>1. /\ started[p] = finished[p]
            /\ next[p] \in 1..Len(calls[p]) /\ calls[p] \in Seq(ToolCall)
        <4>1. started[p] = finished[p]
          BY <3>0 DEF ToolInv
        <4>2. next[p] = answered[p] + 1 /\ next[p] <= Len(calls[p])
          BY <3>0 DEF ControlInv
        <4>3. answered[p] \in Nat /\ calls[p] \in Seq(ToolCall)
          BY DEF TypeOK
        <4> QED BY <4>1, <4>2, <4>3
      <3>2. Running(p)' = {}
        BY <3>0, <3>1 DEF Running
      <3> QED BY <2>2, <3>0, <3>1, <3>2, FS_EmptySet, WorkersWithinCaps DEF CurrentGroup
    <2>3. CASE q = p /\ StartCall(p)
      <3>1. /\ Cardinality(Running(p)) < WorkerCount(calls[p], CurrentGroup(p))
            /\ finished' = finished /\ calls' = calls /\ next' = next
            /\ next[p] \in 1..Len(calls[p]) /\ calls[p] \in Seq(ToolCall)
        BY <2>3 DEF StartCall, ControlInv, TypeOK
      <3> DEFINE i == Min(CurrentGroup(p) \ started[p])
      <3>2. started'[p] = started[p] \cup {i}
        BY <2>3 DEF StartCall, TypeOK
      <3> HIDE DEF i
      <3>3. Running(p)' = Running(p) \/ Running(p)' = Running(p) \cup {i}
        BY <3>1, <3>2 DEF Running
      <3>4. Cardinality(Running(p)') \in {Cardinality(Running(p)), Cardinality(Running(p)) + 1}
        <4>1. IsFiniteSet(Running(p))
          BY RunningFinite
        <4>2. Cardinality(Running(p) \cup {i}) \in {Cardinality(Running(p)), Cardinality(Running(p)) + 1}
          BY <4>1, FS_AddElement
        <4> QED BY <3>3, <4>2
      <3>5. WorkerCount(calls[p], CurrentGroup(p)) \in Nat /\ Cardinality(Running(p)) \in Nat
        BY <3>1, WorkersWithinCaps, RunningFinite DEF CurrentGroup
      <3> QED BY <2>3, <3>1, <3>4, <3>5 DEF CurrentGroup
    <2>4. CASE q = p /\ FinishCall(p)
      <3>1. PICK i \in Running(p) : finished' = [finished EXCEPT ![p] = finished[p] \cup {i}]
        BY <2>4 DEF FinishCall
      <3>2. Running(p)' = Running(p) \ {i}
        BY <2>4, <3>1 DEF FinishCall, Running, TypeOK
      <3>3. Cardinality(Running(p)') = Cardinality(Running(p)) - 1
        BY <3>1, <3>2, RunningFinite, FS_RemoveElement
      <3>4. Cardinality(Running(p)) <= WorkerCount(calls[p], CurrentGroup(p)) /\ next[p] \in 1..Len(calls[p])
        BY <2>4 DEF FinishCall, SchedInv, ControlInv, TypeOK
      <3>5. WorkerCount(calls[p], CurrentGroup(p)) \in Nat /\ Cardinality(Running(p)) \in Nat
        BY <3>4, WorkersWithinCaps, RunningFinite DEF CurrentGroup, TypeOK
      <3>6. WorkerCount(calls'[p], CurrentGroup(p)') = WorkerCount(calls[p], CurrentGroup(p))
        BY <2>4 DEF FinishCall, CurrentGroup
      <3> QED BY <2>4, <3>3, <3>4, <3>5, <3>6
    <2>5. CASE q = p /\ Cancel(p)
      BY <2>5 DEF Cancel, toolVars, SchedInv, Running, CurrentGroup
    <2>6. CASE q = p /\ ~(EnterGroup(p) \/ StartCall(p) \/ FinishCall(p) \/ Cancel(p))
      <3> USE DEF TypeOK, Return, Goto
      <3>1. ~Start(p) /\ ~AppendPrompt(p) /\ ~BeginTurn(p) /\ ~Think(p)
        BY <2>6 DEF Start, AppendPrompt, BeginTurn, Think
      <3>2. ~StopAtTop(p) /\ ~ProviderFails(p) /\ ~AppendFails(p) /\ ~BarrierCancelled(p) /\ ~AbortGroup(p) /\ ~Crash(p)
        BY <2>6 DEF StopAtTop, ProviderFails, AppendFails, BarrierCancelled, AbortGroup, Crash
      <3>3. ~Act(p) /\ ~BarrierCall(p)
        BY <2>6 DEF Act, BarrierCall
      <3>4. ~CollectGroup(p) /\ ~PersistResult(p)
        BY <2>6 DEF CollectGroup, PersistResult, AfterResult
      <3> QED BY <1>1, <2>6, <3>1, <3>2, <3>3, <3>4 DEF StepOf, Step
    <2> QED BY <2>1, <2>2, <2>3, <2>4, <2>5, <2>6
  <1>2. CASE UNCHANGED vars
    BY <1>2 DEF vars, SchedInv, Running, CurrentGroup
  <1> QED BY <1>1, <1>2 DEF Next, StepOf

\* Tools run as their policies allow, whatever the model asks for and however
\* many processes there are: one that is not parallel-safe alone, no tool more
\* often at once than its cap, nothing before the results of the groups before
\* it are stored (tool_groups.go:12-37, loop.go:158-178, 258-275).
THEOREM PolicyKept == Spec => []ScheduledByPolicy
  <1>1. Init => SchedInv
    BY DEF Init, SchedInv
  <1>2. ASSUME IInv, SchedInv PROVE ScheduledByPolicy
    <2> USE DEF IInv
    <2> SUFFICES ASSUME NEW p \in Procs, pc[p] = "running", NEW i \in Running(p)
                 PROVE  /\ ~IsParallelSafe(calls[p][i]) => Running(p) = {i}
                        /\ IsParallelSafe(calls[p][i]) /\ MaxConcurrency[calls[p][i].name] > 0
                             => Cardinality(Running(p)) <= MaxConcurrency[calls[p][i].name]
                        /\ \A j \in 1..(i - 1) : \/ j <= answered[p]
                                                 \/ \A m \in j..i : IsParallelSafe(calls[p][m])
      BY DEF ScheduledByPolicy
    <2>1. /\ calls[p] \in Seq(ToolCall) /\ next[p] \in 1..Len(calls[p])
          /\ answered[p] \in Nat /\ next[p] = answered[p] + 1
      BY <1>2 DEF TypeOK, ControlInv
    <2>2. Running(p) \subseteq CurrentGroup(p)
      BY <1>2 DEF ToolInv, Running
    <2>3. \A j \in CurrentGroup(p) :
             /\ j \in next[p]..Len(calls[p])
             /\ j = next[p] \/ \A m \in next[p]..j : IsParallelSafe(calls[p][m])
      BY DEF CurrentGroup, GroupAt
    <2>4. ASSUME ~IsParallelSafe(calls[p][i]) PROVE Running(p) = {i}
      <3>1. i = next[p]
        BY <2>1, <2>2, <2>3, <2>4
      <3>2. \A j \in CurrentGroup(p) : j = i
        <4>1. \A j \in CurrentGroup(p) : j >= i
          BY <2>1, <2>3, <3>1
        <4> QED BY <2>1, <2>3, <2>4, <3>1, <4>1
      <3> QED BY <2>2, <3>2
    <2>5. ASSUME IsParallelSafe(calls[p][i]), MaxConcurrency[calls[p][i].name] > 0
          PROVE  Cardinality(Running(p)) <= MaxConcurrency[calls[p][i].name]
      <3>1. Cardinality(Running(p)) <= WorkerCount(calls[p], CurrentGroup(p))
        BY <1>2 DEF SchedInv
      <3>2. /\ WorkerCount(calls[p], CurrentGroup(p)) \in Nat
            /\ WorkerCount(calls[p], CurrentGroup(p)) <= MaxConcurrency[calls[p][i].name]
        BY <2>1, <2>2, <2>5, WorkersWithinCaps DEF CurrentGroup
      <3>3. Cardinality(Running(p)) \in Nat /\ MaxConcurrency[calls[p][i].name] \in Int
        BY <1>2, <2>5, RunningFinite, LoopAssumption DEF IsParallelSafe
      <3> QED BY <3>1, <3>2, <3>3
    <2>6. ASSUME NEW j \in 1..(i - 1), j > answered[p], NEW m \in j..i
          PROVE  IsParallelSafe(calls[p][m])
      <3>1. i \in next[p]..Len(calls[p]) /\ i # next[p] /\ m \in next[p]..i
        BY <2>1, <2>2, <2>3, <2>6
      <3> QED BY <2>2, <2>3, <3>1
    <2>7. i \in Int
      BY <2>2, <2>3
    <2> QED BY <2>1, <2>4, <2>5, <2>6, <2>7
  <1> QED BY <1>1, <1>2, NextSched, Invariant, PTL DEF Spec

-----------------------------------------------------------------------------
(* A run stops between groups.                                             *)

\* After k of the calls no group is cut.
Boundary(cs, k) ==
  k \in {0, Len(cs)} \/ ~(IsParallelSafe(cs[k]) /\ IsParallelSafe(cs[k + 1]))

BoundaryOK(p) ==
  /\ pc[p] # "done" => exit[p] = "none"
  /\ pc[p] \in {"prompt", "top", "think", "act"} => answered[p] = Len(calls[p])
  /\ pc[p] = "barrier" => answered[p] = 0
  /\ pc[p] \in {"group", "running"} => Boundary(calls[p], answered[p])
  /\ pc[p] = "results" => Boundary(calls[p], next[p] - 1)
  /\ exit[p] = "cancelled" =>
       \/ answered[p] \in {0, Len(calls[p])}
       \/ ~HasLoadSkillCall(calls[p]) /\ Boundary(calls[p], answered[p])

BoundaryInv == \A p \in Procs : BoundaryOK(p)

LEMMA GroupEndsAtBoundary ==
  ASSUME NEW cs \in Seq(ToolCall), NEW k \in 1..Len(cs)
  PROVE  Max(GroupAt(cs, k)) \in k..Len(cs) /\ Boundary(cs, Max(GroupAt(cs, k)))
  <1> DEFINE m == Max(GroupAt(cs, k))
  <1>1. GroupAt(cs, k) \in SUBSET Int /\ IsFiniteSet(GroupAt(cs, k)) /\ GroupAt(cs, k) # {}
    BY GroupType
  <1>2. m \in GroupAt(cs, k) /\ \A j \in GroupAt(cs, k) : m >= j
    BY <1>1, MaxIsGreatest
  <1> HIDE DEF m
  <1>3. m \in k..Len(cs) /\ (m = k \/ \A i \in k..m : IsParallelSafe(cs[i]))
    BY <1>2 DEF GroupAt
  <1>4. ASSUME m # Len(cs), IsParallelSafe(cs[m]), IsParallelSafe(cs[m + 1]) PROVE FALSE
    <2>1. m + 1 \in k..Len(cs)
      BY <1>3, <1>4
    <2>2. \A i \in k..(m + 1) : IsParallelSafe(cs[i])
      <3>1. \A i \in k..(m + 1) : i = m + 1 \/ (i = m /\ m = k) \/ i \in k..m
        BY <1>3
      <3> QED BY <1>3, <1>4, <3>1
    <2>3. m + 1 \in GroupAt(cs, k)
      BY <2>1, <2>2 DEF GroupAt
    <2>4. m >= m + 1
      BY <1>2, <2>3
    <2> QED BY <1>3, <2>4
  <1> QED BY <1>3, <1>4 DEF Boundary, m

LEMMA NextBoundary == ASSUME IInv, BoundaryInv, [Next]_vars PROVE BoundaryInv'
  <1> USE DEF IInv
  <1>1. ASSUME NEW p \in Procs, StepOf(p) PROVE BoundaryInv'
    <2>0. /\ BoundaryOK(p) /\ calls[p] \in Seq(ToolCall) /\ Len(calls[p]) \in Nat
          /\ answered[p] \in Nat /\ next[p] \in Nat
      BY DEF BoundaryInv, TypeOK
    <2>1. ASSUME NEW q \in Procs, q # p PROVE BoundaryOK(q)'
      BY <1>1, <2>1, OthersUntouched DEF BoundaryInv, BoundaryOK, Untouched
    <2>2. CASE Start(p)
      <3>1. pc'[p] = "prompt" /\ exit'[p] = "none" /\ answered'[p] = 0 /\ calls'[p] = <<>>
        BY <2>2 DEF Start, TypeOK
      <3>2. Len(calls'[p]) = 0
        BY <3>1
      <3> QED BY <2>1, <3>1, <3>2 DEF BoundaryInv, BoundaryOK
    <2>3. CASE AppendPrompt(p) \/ BeginTurn(p) \/ Think(p)
      <3>1. /\ pc[p] \in {"prompt", "top", "think"} /\ pc'[p] \in {"top", "think", "act"}
            /\ exit'[p] = exit[p] /\ answered'[p] = answered[p] /\ calls'[p] = calls[p]
        BY <2>3 DEF AppendPrompt, BeginTurn, Think, Goto, toolVars, TypeOK
      <3> QED BY <2>0, <2>1, <3>1 DEF BoundaryInv, BoundaryOK
    <2>4. CASE Cancel(p)
      BY <2>0, <2>1, <2>4 DEF Cancel, toolVars, BoundaryInv, BoundaryOK
    <2>5. CASE StopAtTop(p) \/ ProviderFails(p) \/ AppendFails(p) \/ BarrierCancelled(p) \/ AbortGroup(p) \/ Crash(p)
      <3>1. /\ pc[p] # "done" /\ pc'[p] = "done" /\ answered'[p] = answered[p] /\ calls'[p] = calls[p]
            /\ exit'[p] = "cancelled" => pc[p] \in {"top", "barrier", "running"}
        BY <2>5 DEF StopAtTop, ProviderFails, AppendFails, BarrierCancelled, AbortGroup, Crash, Return, toolVars, TypeOK
      <3>2. pc[p] = "running" => ~HasLoadSkillCall(calls[p])
        BY DEF SkillInv
      <3>3. BoundaryOK(p)'
        BY <2>0, <3>1, <3>2 DEF BoundaryOK
      <3> QED BY <2>1, <3>3 DEF BoundaryInv
    <2>6. CASE Act(p)
      <3>1. CASE Return(p, "marshalError") /\ UNCHANGED <<disk, mem, calls, toolVars>>
        <4>1. pc'[p] = "done" /\ exit'[p] = "marshalError"
          BY <3>1 DEF Return, TypeOK
        <4> QED BY <2>1, <4>1 DEF BoundaryInv, BoundaryOK
      <3>2. ASSUME NEW names \in Responses, NEW cs, calls' = [calls EXCEPT ![p] = cs],
                   answered' = [answered EXCEPT ![p] = 0],
                   IF cs = <<>> THEN Return(p, "complete")
                   ELSE Goto(p, IF HasLoadSkillCall(cs) THEN "barrier" ELSE "group")
            PROVE  BoundaryInv'
        <4>1. /\ answered'[p] = 0 /\ pc'[p] \in {"done", "barrier", "group"}
              /\ exit'[p] # "cancelled"
              /\ pc'[p] # "done" => exit'[p] = "none"
          <5>1. pc[p] = "act" /\ exit[p] = "none"
            BY <2>0, <2>6 DEF Act, BoundaryOK
          <5> QED BY <3>2, <5>1 DEF Return, Goto, TypeOK
        <4>2. Boundary(calls'[p], answered'[p])
          BY <4>1 DEF Boundary
        <4>3. BoundaryOK(p)'
          BY <4>1, <4>2 DEF BoundaryOK
        <4> QED BY <2>1, <4>3 DEF BoundaryInv
      <3> QED BY <2>6, <3>1, <3>2 DEF Act
    <2>7. CASE BarrierCall(p)
      <3>1. /\ pc[p] = "barrier" /\ pc'[p] \in {"results", "barrier"} /\ exit'[p] = exit[p]
            /\ answered'[p] = answered[p] /\ calls'[p] = calls[p]
            /\ next'[p] = next[p] + 1
            /\ pc'[p] = "results" => next[p] = Len(calls[p])
        BY <2>7 DEF BarrierCall, Goto, TypeOK
      <3>2. pc'[p] = "results" => next'[p] - 1 = Len(calls[p])
        BY <2>0, <3>1
      <3>3. BoundaryOK(p)'
        BY <2>0, <3>1, <3>2 DEF BoundaryOK, Boundary
      <3> QED BY <2>1, <3>3 DEF BoundaryInv
    <2>8. CASE EnterGroup(p)
      <3>1. /\ pc[p] = "group" /\ answered'[p] = answered[p] /\ calls'[p] = calls[p]
            /\ \/ pc'[p] = "done" /\ exit'[p] = "cancelled"
               \/ pc'[p] = "running" /\ exit'[p] = exit[p]
        BY <2>8 DEF EnterGroup, Return, Goto, toolVars, TypeOK
      <3>2. ~HasLoadSkillCall(calls[p])
        BY <3>1 DEF SkillInv
      <3>3. BoundaryOK(p)'
        BY <2>0, <3>1, <3>2 DEF BoundaryOK
      <3> QED BY <2>1, <3>3 DEF BoundaryInv
    <2>9. CASE StartCall(p) \/ FinishCall(p)
      BY <2>0, <2>1, <2>9 DEF StartCall, FinishCall, BoundaryInv, BoundaryOK
    <2>10. CASE CollectGroup(p)
      <3>1. /\ pc[p] = "running" /\ answered'[p] = answered[p] /\ calls'[p] = calls[p]
            /\ \/ pc'[p] = "done" /\ exit'[p] = "cancelled"
               \/ /\ pc'[p] = "results" /\ exit'[p] = exit[p]
                  /\ next'[p] = Max(CurrentGroup(p)) + 1
        BY <2>10 DEF CollectGroup, Return, Goto, TypeOK
      <3>2. ~HasLoadSkillCall(calls[p])
        BY <3>1 DEF SkillInv
      <3>3. Boundary(calls[p], Max(CurrentGroup(p))) /\ Max(CurrentGroup(p)) \in Nat
        <4>1. next[p] = answered[p] + 1 /\ next[p] <= Len(calls[p])
          BY <3>1 DEF ControlInv
        <4>2. next[p] \in 1..Len(calls[p])
          BY <2>0, <4>1
        <4>3. Max(CurrentGroup(p)) \in next[p]..Len(calls[p]) /\ Boundary(calls[p], Max(CurrentGroup(p)))
          BY <2>0, <4>2, GroupEndsAtBoundary DEF CurrentGroup
        <4> QED BY <2>0, <4>3
      <3>4. pc'[p] = "results" => next'[p] - 1 = Max(CurrentGroup(p))
        BY <3>1, <3>3
      <3>5. BoundaryOK(p)'
        BY <2>0, <3>1, <3>2, <3>3, <3>4 DEF BoundaryOK
      <3> QED BY <2>1, <3>5 DEF BoundaryInv
    <2>11. CASE PersistResult(p)
      <3> DEFINE k == answered[p] + 1
      <3>1. /\ pc[p] = "results" /\ exit'[p] = exit[p] /\ calls'[p] = calls[p] /\ next'[p] = next[p]
            /\ answered'[p] = k /\ pc'[p] = AfterResult(p, k)
        BY <2>11 DEF PersistResult, Goto, TypeOK
      <3>2. k < next[p] /\ next[p] <= Len(calls[p]) + 1
        BY <3>1 DEF ControlInv, TypeOK, CountersOK
      <3>3. /\ pc'[p] \in {"results", "group", "top"}
            /\ pc'[p] = "group" => next[p] - 1 = k
            /\ pc'[p] = "top" => k = Len(calls[p])
        BY <2>0, <3>1, <3>2 DEF AfterResult
      <3> HIDE DEF k
      <3>4. BoundaryOK(p)'
        BY <2>0, <3>1, <3>3 DEF BoundaryOK
      <3> QED BY <2>1, <3>4 DEF BoundaryInv
    <2> QED BY <1>1, <2>2, <2>3, <2>4, <2>5, <2>6, <2>7, <2>8, <2>9, <2>10, <2>11 DEF StepOf, Step
  <1>2. CASE UNCHANGED vars
    BY <1>2 DEF vars, BoundaryInv, BoundaryOK
  <1> QED BY <1>1, <1>2 DEF Next, StepOf

\* A run that a cancellation stops (loop.go:97-99, 145-148, 160-171, 243-245)
\* has stored the results of whole groups only.
THEOREM GroupsAreAtomic == Spec => []CancelKeepsWholeGroups
  <1>1. Init => BoundaryInv
    <2>1. Init => \A p \in Procs : Len(calls[p]) = 0
      BY DEF Init
    <2> QED BY <2>1 DEF Init, BoundaryInv, BoundaryOK
  <1>2. IInv /\ BoundaryInv => CancelKeepsWholeGroups
    BY DEF BoundaryInv, BoundaryOK, Boundary, CancelKeepsWholeGroups
  <1> QED BY <1>1, <1>2, NextBoundary, Invariant, PTL DEF Spec

-----------------------------------------------------------------------------
(* What a run has stored so far is one user turn.                          *)

Answering(p) == pc[p] \in {"barrier", "group", "running", "results"}

Own(p) == base[p] + 1 .. Len(mem[p])

\* The answer at position a is followed by results of its calls, in order.
ResultsAt(p, a) ==
  \A k \in 1..Len(mem[p][a].calls) :
    a + k <= Len(mem[p]) => mem[p][a + k] = ToolMessage(mem[p][a].calls[k].id, ResultBytes)

\* Position a is that of the current answer.
Current(p, a) ==
  /\ mem[p][a].role = "assistant" /\ mem[p][a].calls = calls[p]
  /\ a + answered[p] = Len(mem[p])

\* The run's messages are its prompt and then answers with their results, all
\* of them but for the current answer; an answer without calls ends the run; and
\* no result stands anywhere else.
OwnOK(p) ==
  /\ base[p] <= Len(mem[p])
  /\ pc[p] = "prompt" => base[p] = Len(mem[p])
  /\ pc[p] \notin {"done", "prompt"} => base[p] < Len(mem[p])
  /\ base[p] < Len(mem[p]) => mem[p][base[p] + 1].role = "user"
  /\ \A i \in Own(p) : i # base[p] + 1 => mem[p][i].role # "user"
  /\ \A a \in Own(p) : mem[p][a].role = "assistant" =>
       /\ ResultsAt(p, a)
       /\ \/ a + Len(mem[p][a].calls) <= Len(mem[p])
          \/ Current(p, a) /\ (Answering(p) \/ pc[p] = "done")
  /\ \A a \in Own(p) : mem[p][a].role = "assistant" /\ mem[p][a].calls = <<>> =>
       a = Len(mem[p]) /\ pc[p] = "done"
  /\ \A t \in Own(p) : mem[p][t].role = "tool" =>
       \E a \in Own(p) : /\ a < t /\ t <= a + Len(mem[p][a].calls)
                         /\ mem[p][a].role = "assistant"
  /\ Answering(p) => \E a \in Own(p) : Current(p, a)

OwnInv == \A p \in Procs : OwnOK(p)

\* Nothing the run has stored changes.
LEMMA SameOwn ==
  ASSUME NEW p \in Procs, OwnOK(p),
         mem'[p] = mem[p], base'[p] = base[p], calls'[p] = calls[p], answered'[p] = answered[p],
         \/ pc'[p] = pc[p]
         \/ pc'[p] = "done"
         \/ Answering(p) /\ pc'[p] \in {"barrier", "group", "running", "results"}
         \/ pc[p] \in {"top", "think"} /\ pc'[p] \in {"think", "act"}
  PROVE  OwnOK(p)'
  <1>1. Own(p)' = Own(p) /\ \A a : ResultsAt(p, a)' = ResultsAt(p, a) /\ Current(p, a)' = Current(p, a)
    BY DEF Own, ResultsAt, Current
  <1>2. CASE pc'[p] = pc[p]
    BY <1>1, <1>2 DEF OwnOK, Answering
  <1>3. CASE pc'[p] = "done"
    BY <1>1, <1>3 DEF OwnOK, Answering
  <1>4. CASE Answering(p) /\ pc'[p] \in {"barrier", "group", "running", "results"}
    BY <1>1, <1>4 DEF OwnOK, Answering
  <1>5. CASE pc[p] \in {"top", "think"} /\ pc'[p] \in {"think", "act"}
    BY <1>1, <1>5 DEF OwnOK, Answering
  <1> QED BY <1>2, <1>3, <1>4, <1>5

\* A message is added: what was there stays where it was.
LEMMA OwnGrows ==
  ASSUME TypeOK, NEW p \in Procs, OwnOK(p), NEW m \in Message,
         mem'[p] = Append(mem[p], m), base'[p] = base[p]
  PROVE  /\ Len(mem'[p]) = Len(mem[p]) + 1 /\ mem'[p][Len(mem[p]) + 1] = m
         /\ Len(mem[p]) \in Nat /\ base[p] \in Nat
         /\ Own(p)' = Own(p) \cup {Len(mem[p]) + 1}
         /\ Len(mem[p]) + 1 \notin Own(p)
         /\ \A i \in Own(p) : i \in Nat /\ i <= Len(mem[p]) /\ i > base[p] /\ mem'[p][i] = mem[p][i]
         /\ \A i \in Own(p) : mem[p][i].calls \in Seq(ToolCall) /\ Len(mem[p][i].calls) \in Nat
  <1>1. mem[p] \in Seq(Message) /\ base[p] \in Nat /\ base[p] <= Len(mem[p]) /\ Len(mem[p]) \in Nat
    BY DEF TypeOK, OwnOK
  <1>2. Len(mem'[p]) = Len(mem[p]) + 1 /\ mem'[p][Len(mem[p]) + 1] = m
    BY <1>1
  <1>3. \A i \in 1..Len(mem[p]) : mem'[p][i] = mem[p][i] /\ mem[p][i] \in Message
    BY <1>1
  <1>4. \A i \in Own(p) : i \in 1..Len(mem[p]) /\ i > base[p]
    BY <1>1 DEF Own
  <1>5. Own(p)' = Own(p) \cup {Len(mem[p]) + 1}
    BY <1>1, <1>2 DEF Own
  <1>6. \A i \in Own(p) : mem[p][i].calls \in Seq(ToolCall) /\ Len(mem[p][i].calls) \in Nat
    BY <1>3, <1>4 DEF Message
  <1> QED BY <1>1, <1>2, <1>3, <1>4, <1>5, <1>6

\* A result stands behind its answer even when more is stored.
LEMMA ResultsStay ==
  ASSUME TypeOK, NEW p \in Procs, OwnOK(p), NEW m \in Message,
         mem'[p] = Append(mem[p], m), base'[p] = base[p],
         NEW a \in Own(p), mem[p][a].role = "assistant",
         \A k \in 1..Len(mem[p][a].calls) :
           a + k = Len(mem[p]) + 1 => m = ToolMessage(mem[p][a].calls[k].id, ResultBytes)
  PROVE  ResultsAt(p, a)'
  <1>1. /\ Len(mem'[p]) = Len(mem[p]) + 1 /\ mem'[p][Len(mem[p]) + 1] = m
        /\ Len(mem[p]) \in Nat /\ base[p] \in Nat /\ a \in Nat /\ a <= Len(mem[p]) /\ a > base[p]
        /\ mem'[p][a] = mem[p][a] /\ Len(mem[p][a].calls) \in Nat
        /\ \A i \in Own(p) : mem'[p][i] = mem[p][i]
    BY OwnGrows
  <1> SUFFICES ASSUME NEW k \in 1..Len(mem[p][a].calls), a + k <= Len(mem[p]) + 1
               PROVE  mem'[p][a + k] = ToolMessage(mem[p][a].calls[k].id, ResultBytes)
    BY <1>1 DEF ResultsAt
  <1>2. CASE a + k = Len(mem[p]) + 1
    <2>1. m = ToolMessage(mem[p][a].calls[k].id, ResultBytes)
      BY <1>2
    <2>2. mem'[p][a + k] = m
      BY <1>1, <1>2
    <2> QED BY <2>1, <2>2
  <1>3. CASE a + k <= Len(mem[p])
    <2>1. a + k \in Own(p)
      BY <1>1, <1>3 DEF Own
    <2>2. mem[p][a + k] = ToolMessage(mem[p][a].calls[k].id, ResultBytes)
      BY <1>3 DEF OwnOK, ResultsAt
    <2> QED BY <1>1, <2>1, <2>2
  <1>4. a + k = Len(mem[p]) + 1 \/ a + k <= Len(mem[p])
    <2>1. a + k \in Nat /\ Len(mem[p]) \in Nat
      BY <1>1
    <2> QED BY <2>1
  <1> QED BY <1>2, <1>3, <1>4

LEMMA AppendPromptOwn ==
  ASSUME IInv, NEW p \in Procs, OwnOK(p), AppendPrompt(p)
  PROVE  OwnOK(p)'
  <1> DEFINE m == UserMessage(PromptBytes)
  <1>1. /\ TypeOK /\ m \in Message /\ pc[p] = "prompt" /\ pc'[p] = "top"
        /\ mem'[p] = Append(mem[p], m) /\ base'[p] = base[p]
    BY UserMessageType DEF AppendPrompt, SessionAppend, Goto, IInv, TypeOK
  <1>2. m.role = "user"
    BY DEF UserMessage
  <1> HIDE DEF m
  <1>3. /\ Len(mem'[p]) = Len(mem[p]) + 1 /\ mem'[p][Len(mem[p]) + 1] = m
        /\ Own(p)' = Own(p) \cup {Len(mem[p]) + 1} /\ Len(mem[p]) \in Nat
    BY <1>1, OwnGrows
  <1>4. base[p] = Len(mem[p]) /\ Own(p) = {}
    BY <1>1, <1>3 DEF OwnOK, Own
  <1>5. Own(p)' = {base'[p] + 1} /\ mem'[p][base'[p] + 1].role = "user"
    BY <1>1, <1>2, <1>3, <1>4
  <1>7. base'[p] < Len(mem'[p]) /\ base'[p] <= Len(mem'[p]) /\ pc'[p] # "prompt"
    BY <1>1, <1>3, <1>4
  <1>6. ~Answering(p)'
    BY <1>1 DEF Answering
  <1> QED BY <1>5, <1>6, <1>7 DEF OwnOK

LEMMA ActOwn ==
  ASSUME IInv, NEW p \in Procs, OwnOK(p), Act(p)
  PROVE  OwnOK(p)'
  <1> USE DEF IInv
  <1>1. /\ pc[p] = "act" /\ base'[p] = base[p]
        /\ run[p] \in 1..MaxRuns /\ turn[p] \in 1..TurnLimit
    BY TurnLimitType DEF Act, TypeOK, ControlInv
  <1>2. CASE Return(p, "marshalError") /\ UNCHANGED <<disk, mem, calls, toolVars>>
    <2>1. pc'[p] = "done" /\ mem'[p] = mem[p] /\ calls'[p] = calls[p] /\ answered'[p] = answered[p]
      BY <1>2 DEF Return, toolVars, TypeOK
    <2> QED BY <1>1, <2>1, SameOwn
  <1>3. ASSUME NEW names \in Responses, NEW cs, cs = FreshCalls(p, names),
               SessionAppend(p, AssistantMessage(cs, AnswerBytes)),
               calls' = [calls EXCEPT ![p] = cs],
               answered' = [answered EXCEPT ![p] = 0],
               IF cs = <<>> THEN Return(p, "complete")
               ELSE Goto(p, IF HasLoadSkillCall(cs) THEN "barrier" ELSE "group")
        PROVE  OwnOK(p)'
    <2> DEFINE m == AssistantMessage(cs, AnswerBytes)
    <2>0. PICK new : new = Len(mem[p]) + 1
      OBVIOUS
    <2>1. cs \in Seq(ToolCall) /\ m \in Message
      BY <1>1, <1>3, FreshCallsType, AssistantMessageType
    <2>2. m.role = "assistant" /\ m.calls = cs
      BY DEF AssistantMessage
    <2>3. /\ mem'[p] = Append(mem[p], m) /\ calls'[p] = cs /\ answered'[p] = 0
          /\ pc'[p] \in {"done", "barrier", "group"}
      BY <1>3 DEF SessionAppend, Return, Goto, TypeOK
    <2> HIDE DEF m
    <2>4. /\ Len(mem'[p]) = new /\ mem'[p][new] = m /\ new = Len(mem[p]) + 1
          /\ Len(mem[p]) \in Nat /\ base[p] \in Nat
          /\ Own(p)' = Own(p) \cup {new} /\ new \notin Own(p)
          /\ \A i \in Own(p) : i \in Nat /\ i <= Len(mem[p]) /\ i > base[p] /\ mem'[p][i] = mem[p][i]
          /\ \A i \in Own(p) : mem[p][i].calls \in Seq(ToolCall) /\ Len(mem[p][i].calls) \in Nat
      BY <1>1, <2>0, <2>1, <2>3, OwnGrows
    <2>5. base[p] < Len(mem[p]) /\ base[p] + 1 \in Own(p) /\ mem[p][base[p] + 1].role = "user"
      BY <1>1, <2>4 DEF OwnOK, Own
    <2>6. \A a \in Own(p) : mem[p][a].role = "assistant" => a + Len(mem[p][a].calls) <= Len(mem[p])
      BY <1>1 DEF OwnOK, Answering
    <2>7. ASSUME NEW a \in Own(p)', mem'[p][a].role = "assistant"
          PROVE  /\ ResultsAt(p, a)'
                 /\ \/ a + Len(mem'[p][a].calls) <= Len(mem'[p])
                    \/ Current(p, a)' /\ (Answering(p)' \/ pc'[p] = "done")
      <3>1. CASE a \in Own(p)
        <4>1. a + Len(mem[p][a].calls) <= Len(mem[p]) /\ mem[p][a].role = "assistant"
          BY <2>4, <2>6, <2>7, <3>1
        <4>2. \A k \in 1..Len(mem[p][a].calls) : a + k # Len(mem[p]) + 1
          BY <2>4, <3>1, <4>1
        <4>3. ResultsAt(p, a)'
          BY <1>1, <2>1, <2>3, <3>1, <4>1, <4>2, ResultsStay
        <4> QED BY <2>4, <3>1, <4>1, <4>3
      <3>2. CASE a = new
        <4>1. ResultsAt(p, a)'
          BY <2>2, <2>4, <3>2 DEF ResultsAt
        <4>2. Current(p, a)' /\ (Answering(p)' \/ pc'[p] = "done")
          BY <2>2, <2>3, <2>4, <3>2 DEF Current, Answering
        <4> QED BY <4>1, <4>2
      <3> QED BY <2>4, <3>1, <3>2
    <2>8. ASSUME NEW t \in Own(p)', mem'[p][t].role = "tool"
          PROVE  \E a \in Own(p)' : /\ a < t /\ t <= a + Len(mem'[p][a].calls)
                                    /\ mem'[p][a].role = "assistant"
      <3>1. t \in Own(p) /\ mem[p][t].role = "tool"
        BY <2>2, <2>4, <2>8
      <3>2. PICK a \in Own(p) : /\ a < t /\ t <= a + Len(mem[p][a].calls)
                               /\ mem[p][a].role = "assistant"
        BY <3>1 DEF OwnOK
      <3> QED BY <2>4, <3>2
    <2>9. Current(p, new)'
      <3>1. mem'[p][new].role = "assistant" /\ mem'[p][new].calls = calls'[p]
        BY <2>2, <2>3, <2>4
      <3>2. new + answered'[p] = Len(mem'[p])
        BY <2>3, <2>4
      <3> QED BY <3>1, <3>2 DEF Current
    <2>10. ASSUME NEW i \in Own(p)', i # base'[p] + 1 PROVE mem'[p][i].role # "user"
      BY <1>1, <2>2, <2>4, <2>10 DEF OwnOK
    <2>11. /\ base'[p] < Len(mem'[p]) /\ mem'[p][base'[p] + 1].role = "user"
           /\ base'[p] <= Len(mem'[p])
      BY <1>1, <2>4, <2>5
    <2>12. pc'[p] # "prompt"
      BY <2>3
    <2>13. new \in Own(p)'
      BY <2>4
    <2>14. ASSUME NEW a \in Own(p)', mem'[p][a].role = "assistant", mem'[p][a].calls = <<>>
           PROVE  a = Len(mem'[p]) /\ pc'[p] = "done"
      <3>1. a \notin Own(p)
        BY <1>1, <2>4, <2>14 DEF OwnOK
      <3>2. a = new /\ cs = <<>>
        BY <2>2, <2>4, <2>14, <3>1
      <3>3. pc'[p] = "done"
        BY <1>3, <3>2 DEF Return, TypeOK
      <3> QED BY <2>4, <3>2, <3>3
    <2> QED BY <2>7, <2>8, <2>9, <2>10, <2>11, <2>12, <2>13, <2>14 DEF OwnOK
  <1> QED BY <1>2, <1>3 DEF Act

LEMMA PersistResultOwn ==
  ASSUME IInv, NEW p \in Procs, OwnOK(p), PersistResult(p)
  PROVE  OwnOK(p)'
  <1> DEFINE m == ResultOf(p, answered[p] + 1)
  <1> USE DEF IInv
  <1>0. PICK k, new : k = answered[p] + 1 /\ new = Len(mem[p]) + 1
    OBVIOUS
  <1>1. /\ pc[p] = "results" /\ base'[p] = base[p] /\ calls'[p] = calls[p]
        /\ answered'[p] = k /\ mem'[p] = Append(mem[p], m) /\ pc'[p] = AfterResult(p, k)
    BY <1>0 DEF PersistResult, SessionAppend, Goto, TypeOK
  <1>2. /\ calls[p] \in Seq(ToolCall) /\ answered[p] \in Nat /\ next[p] \in Nat
        /\ k < next[p] /\ next[p] <= Len(calls[p]) + 1 /\ Len(calls[p]) \in Nat /\ k \in Nat
    <2>1. k < next[p]
      BY <1>0, <1>1 DEF ControlInv
    <2> QED BY <1>0, <2>1 DEF TypeOK, CountersOK
  <1>3. k \in 1..Len(calls[p]) /\ m \in Message /\ m = ToolMessage(calls[p][k].id, ResultBytes)
    BY <1>0, <1>2, ResultType DEF ResultOf
  <1>4. m.role = "tool"
    BY <1>3 DEF ToolMessage
  <1>5. /\ pc'[p] \in {"results", "group", "top"}
        /\ pc'[p] = "top" => k = Len(calls[p])
    BY <1>1, <1>2 DEF AfterResult
  <1> HIDE DEF m
  <1>6. /\ Len(mem'[p]) = new /\ mem'[p][new] = m /\ new = Len(mem[p]) + 1
        /\ Len(mem[p]) \in Nat /\ base[p] \in Nat
        /\ Own(p)' = Own(p) \cup {new} /\ new \notin Own(p)
        /\ \A i \in Own(p) : i \in Nat /\ i <= Len(mem[p]) /\ i > base[p] /\ mem'[p][i] = mem[p][i]
        /\ \A i \in Own(p) : mem[p][i].calls \in Seq(ToolCall) /\ Len(mem[p][i].calls) \in Nat
    BY <1>0, <1>1, <1>3, OwnGrows
  <1>7. base[p] < Len(mem[p]) /\ base[p] + 1 \in Own(p) /\ mem[p][base[p] + 1].role = "user"
    BY <1>1, <1>6 DEF OwnOK, Own
  <1>8. PICK c \in Own(p) : Current(p, c)
    BY <1>1 DEF OwnOK, Answering
  <1>9. c + k = new /\ mem[p][c].role = "assistant" /\ mem[p][c].calls = calls[p]
    <2>1. mem[p][c].role = "assistant" /\ mem[p][c].calls = calls[p] /\ c + answered[p] = Len(mem[p])
      BY <1>8 DEF Current
    <2>2. c \in Nat
      BY <1>6
    <2>3. Len(mem[p]) \in Nat /\ new = Len(mem[p]) + 1
      BY <1>6
    <2>4. c + k = new
      <3>1. c + (answered[p] + 1) = Len(mem[p]) + 1
        <4>1. answered[p] \in Nat /\ c + answered[p] = Len(mem[p])
          BY <1>2, <2>1
        <4> QED BY <2>2, <4>1
      <3> QED BY <1>0, <3>1
    <2> QED BY <2>1, <2>4
  <1>10. /\ mem'[p][c] = mem[p][c] /\ c \in Own(p)'
         /\ Current(p, c)'
    BY <1>1, <1>6, <1>8, <1>9 DEF Current
  <1>11. ASSUME NEW a \in Own(p)', mem'[p][a].role = "assistant"
         PROVE  /\ ResultsAt(p, a)'
                /\ \/ a + Len(mem'[p][a].calls) <= Len(mem'[p])
                   \/ Current(p, a)' /\ (Answering(p)' \/ pc'[p] = "done")
    <2>1. a \in Own(p) /\ mem[p][a].role = "assistant" /\ mem'[p][a] = mem[p][a]
      BY <1>4, <1>6, <1>11
    <2>2. CASE a = c
      <3>1. \A j \in 1..Len(mem[p][a].calls) :
               a + j = Len(mem[p]) + 1 => m = ToolMessage(mem[p][a].calls[j].id, ResultBytes)
        <4> SUFFICES ASSUME NEW j \in 1..Len(mem[p][a].calls), a + j = Len(mem[p]) + 1
                     PROVE  m = ToolMessage(mem[p][a].calls[j].id, ResultBytes)
          OBVIOUS
        <4>1. j = k
          BY <1>3, <1>6, <1>9, <2>2
        <4> QED BY <1>3, <1>9, <2>2, <4>1
      <3>2. ResultsAt(p, a)'
        BY <1>1, <1>3, <2>1, <3>1, ResultsStay
      <3>3. pc'[p] = "top" => a + Len(mem'[p][a].calls) <= Len(mem'[p])
        <4>1. c + k = Len(mem'[p]) /\ mem'[p][a].calls = calls[p]
          BY <1>6, <1>9, <2>1, <2>2
        <4>2. c \in Nat
          BY <1>6
        <4> QED BY <1>5, <1>6, <2>2, <4>1, <4>2
      <3>4. pc'[p] # "top" => Answering(p)'
        BY <1>5 DEF Answering
      <3> QED BY <1>10, <2>2, <3>2, <3>3, <3>4
    <2>3. CASE a # c
      <3>1. a + Len(mem[p][a].calls) <= Len(mem[p])
        <4>1. ~Current(p, a)
          BY <1>2, <1>6, <1>8, <2>1, <2>3 DEF Current
        <4> QED BY <2>1, <4>1 DEF OwnOK
      <3>2. \A j \in 1..Len(mem[p][a].calls) : a + j # Len(mem[p]) + 1
        <4>1. a \in Nat /\ Len(mem[p][a].calls) \in Nat /\ Len(mem[p]) \in Nat
          BY <1>6, <2>1
        <4> QED BY <3>1, <4>1
      <3>3. ResultsAt(p, a)'
        BY <1>1, <1>3, <2>1, <3>2, ResultsStay
      <3> QED BY <1>6, <2>1, <3>1, <3>3
    <2> QED BY <2>2, <2>3
  <1>12. ASSUME NEW t \in Own(p)', mem'[p][t].role = "tool"
         PROVE  \E a \in Own(p)' : /\ a < t /\ t <= a + Len(mem'[p][a].calls)
                                   /\ mem'[p][a].role = "assistant"
    <2>1. CASE t \in Own(p)
      <3>1. PICK a \in Own(p) : /\ a < t /\ t <= a + Len(mem[p][a].calls)
                               /\ mem[p][a].role = "assistant"
        BY <1>6, <1>12, <2>1 DEF OwnOK
      <3> QED BY <1>6, <3>1
    <2>2. CASE t = new
      <3>1. c < t /\ t <= c + Len(calls[p])
        BY <1>2, <1>3, <1>6, <1>9, <2>2
      <3> QED BY <1>9, <1>10, <3>1
    <2> QED BY <1>6, <2>1, <2>2
  <1>13. ASSUME NEW i \in Own(p)', i # base'[p] + 1 PROVE mem'[p][i].role # "user"
    BY <1>1, <1>4, <1>6, <1>13 DEF OwnOK
  <1>14. /\ base'[p] < Len(mem'[p]) /\ mem'[p][base'[p] + 1].role = "user"
         /\ base'[p] <= Len(mem'[p]) /\ pc'[p] # "prompt"
    BY <1>1, <1>5, <1>6, <1>7
  <1>15. ASSUME NEW a \in Own(p)', mem'[p][a].role = "assistant", mem'[p][a].calls = <<>>
         PROVE  FALSE
    BY <1>1, <1>4, <1>6, <1>15 DEF OwnOK
  <1> QED BY <1>10, <1>11, <1>12, <1>13, <1>14, <1>15 DEF OwnOK

LEMMA NextOwn == ASSUME IInv, OwnInv, [Next]_vars PROVE OwnInv'
  <1>1. ASSUME NEW p \in Procs, StepOf(p) PROVE OwnInv'
    <2>0. OwnOK(p) /\ TypeOK
      BY DEF OwnInv, IInv
    <2>1. ASSUME NEW q \in Procs, q # p PROVE OwnOK(q)'
      <3>1. OwnOK(q) /\ Untouched(q)
        BY <1>1, <2>0, <2>1, OthersUntouched DEF OwnInv
      <3> QED BY <3>1, SameOwn DEF Untouched
    <2>2. CASE Start(p)
      <3>1. pc'[p] = "prompt" /\ mem'[p] = disk /\ base'[p] = Len(disk) /\ disk \in Seq(Message)
        BY <2>0, <2>2 DEF Start, TypeOK
      <3>2. Own(p)' = {} /\ ~Answering(p)' /\ Len(disk) \in Nat
        BY <3>1 DEF Own, Answering
      <3>3. OwnOK(p)'
        BY <3>1, <3>2 DEF OwnOK
      <3> QED BY <2>1, <3>3 DEF OwnInv
    <2>3. CASE AppendPrompt(p)
      BY <2>0, <2>1, <2>3, AppendPromptOwn DEF OwnInv
    <2>4. CASE Act(p)
      BY <2>0, <2>1, <2>4, ActOwn DEF OwnInv
    <2>5. CASE PersistResult(p)
      BY <2>0, <2>1, <2>5, PersistResultOwn DEF OwnInv
    <2>6. CASE \/ BeginTurn(p) \/ Think(p) \/ BarrierCall(p) \/ EnterGroup(p) \/ StartCall(p)
               \/ FinishCall(p) \/ CollectGroup(p) \/ Cancel(p) \/ StopAtTop(p) \/ ProviderFails(p)
               \/ AppendFails(p) \/ BarrierCancelled(p) \/ AbortGroup(p) \/ Crash(p)
      <3>1. mem'[p] = mem[p] /\ base'[p] = base[p] /\ calls'[p] = calls[p] /\ answered'[p] = answered[p]
        BY <2>6 DEF BeginTurn, Think, BarrierCall, EnterGroup, StartCall, FinishCall, CollectGroup,
           Cancel, StopAtTop, ProviderFails, AppendFails, BarrierCancelled, AbortGroup, Crash, toolVars
      <3>2. \/ pc'[p] = pc[p]
            \/ pc'[p] = "done"
            \/ Answering(p) /\ pc'[p] \in {"barrier", "group", "running", "results"}
            \/ pc[p] \in {"top", "think"} /\ pc'[p] \in {"think", "act"}
        BY <2>0, <2>6 DEF BeginTurn, Think, BarrierCall, EnterGroup, StartCall, FinishCall, CollectGroup,
           Cancel, StopAtTop, ProviderFails, AppendFails, BarrierCancelled, AbortGroup, Crash,
           Return, Goto, TypeOK, Answering
      <3>3. OwnOK(p)'
        BY <2>0, <3>1, <3>2, SameOwn
      <3> QED BY <2>1, <3>3 DEF OwnInv
    <2> QED BY <1>1, <2>2, <2>3, <2>4, <2>5, <2>6 DEF StepOf, Step
  <1>2. CASE UNCHANGED vars
    <2>1. ASSUME NEW q \in Procs PROVE OwnOK(q)'
      <3>1. OwnOK(q)
        BY DEF OwnInv
      <3> QED BY <1>2, <3>1, SameOwn DEF vars
    <2> QED BY <2>1 DEF OwnInv
  <1> QED BY <1>1, <1>2 DEF Next, StepOf

LEMMA InitOwn == Init => OwnInv
  <1> SUFFICES ASSUME Init, NEW p \in Procs PROVE OwnOK(p)
    BY DEF OwnInv
  <1>1. mem[p] = <<>> /\ base[p] = 0 /\ pc[p] = "done"
    BY DEF Init
  <1>2. Len(mem[p]) = 0 /\ Own(p) = {}
    BY <1>1 DEF Own
  <1> QED BY <1>1, <1>2 DEF OwnOK, Answering

\* What stands behind the view is one answer, in the act phase only.
ThoughtInv == \A p \in Procs : OneThought(p)

LEMMA NextThought == ASSUME IInv, ThoughtInv, [Next]_vars PROVE ThoughtInv'
  <1> SUFFICES ASSUME NEW q \in Procs PROVE OneThought(q)'
    BY DEF ThoughtInv
  <1>0. OneThought(q) /\ TypeOK
    BY DEF ThoughtInv, IInv
  <1>1. ASSUME thought'[q] = thought[q], pc'[q] = pc[q] PROVE OneThought(q)'
    BY <1>0, <1>1 DEF OneThought
  <1>2. ASSUME NEW p \in Procs, StepOf(p) PROVE OneThought(q)'
    <2>1. CASE q # p
      <3>1. thought'[q] = thought[q]
        <4>1. CASE Think(p)
          BY <2>1, <4>1, ThoughtType
        <4>2. CASE thought' = [thought EXCEPT ![p] = <<>>] \/ thought' = thought
          BY <1>0, <2>1, <4>2 DEF TypeOK
        <4> QED BY <1>2, <4>1, <4>2 DEF StepOf, Step, Start, AppendPrompt, BeginTurn, StopAtTop,
               ProviderFails, Act, AppendFails, BarrierCall, BarrierCancelled, EnterGroup,
               StartCall, FinishCall, CollectGroup, AbortGroup, PersistResult, Cancel, Crash,
               Return, Goto, DropView
      <3>2. pc'[q] = pc[q]
        BY <1>0, <1>2, <2>1, OthersUntouched DEF Untouched
      <3> QED BY <1>1, <3>1, <3>2
    <2>2. CASE q = p
      <3>1. CASE Think(p)
        <4>1. thought[q] = <<>>
          BY <1>0, <2>2, <3>1 DEF OneThought, Think
        <4>2. UNCHANGED thought => OneThought(q)'
          BY <4>1 DEF OneThought
        <4> QED BY <2>2, <3>1, <4>2, ThoughtType
      <3>2. CASE thought' = [thought EXCEPT ![p] = <<>>]
        BY <1>0, <2>2, <3>2 DEF TypeOK, OneThought
      <3>3. CASE UNCHANGED <<thought, pc>>
        BY <1>1, <3>3
      <3> QED BY <1>2, <3>1, <3>2, <3>3 DEF StepOf, Step, Start, AppendPrompt, BeginTurn, StopAtTop,
             ProviderFails, Act, AppendFails, BarrierCall, BarrierCancelled, EnterGroup,
             StartCall, FinishCall, CollectGroup, AbortGroup, PersistResult, Cancel, Crash,
             Return, Goto, DropView
    <2> QED BY <2>1, <2>2
  <1>3. CASE UNCHANGED vars
    BY <1>1, <1>3 DEF vars
  <1> QED BY <1>2, <1>3 DEF Next, StepOf

\* Of the messages of a run in progress, no two answers are neighbours, not even
\* with the think answer behind them.
LEMMA OwnApart ==
  ASSUME TypeOK, NEW p \in Procs, OwnOK(p), OneThought(p)
  PROVE  AnswersApart(OwnTurn(p))
  <1> DEFINE own == SubSeq(mem[p], base[p] + 1, Len(mem[p]))
             n == Len(mem[p]) - base[p]
  <1>1. mem[p] \in Seq(Message) /\ base[p] \in Nat /\ base[p] <= Len(mem[p]) /\ Len(mem[p]) \in Nat
    BY DEF TypeOK, OwnOK
  <1>2. n \in Nat /\ own \in Seq(Message) /\ Len(own) = n
    BY <1>1
  <1>3. ASSUME NEW i \in 1..n
        PROVE  own[i] = mem[p][base[p] + i] /\ base[p] + i \in Own(p)
    <2>1. base[p] + i \in base[p] + 1 .. Len(mem[p]) /\ (base[p] + 1) + i - 1 = base[p] + i
      BY <1>1
    <2>2. base[p] + 1 \in Int /\ Len(mem[p]) \in Int /\ i \in 1..(Len(mem[p]) - (base[p] + 1) + 1)
      BY <1>1
    <2>3. own[i] = mem[p][(base[p] + 1) + i - 1]
      BY <1>1, <2>2
    <2>4. base[p] + i \in Own(p)
      BY <2>1 DEF Own
    <2> QED BY <2>1, <2>3, <2>4
  <1>4. ASSUME NEW i \in 1..n, own[i].role = "assistant"
        PROVE  /\ i < n => own[i + 1].role # "assistant"
               /\ i = n => pc[p] # "act"
    <2> DEFINE a == base[p] + i
    <2>1. a \in Own(p) /\ mem[p][a].role = "assistant" /\ a \in Nat /\ a <= Len(mem[p])
      <3>1. a \in Own(p) /\ mem[p][a].role = "assistant"
        BY <1>3, <1>4
      <3>2. a \in Nat /\ a <= Len(mem[p])
        BY <1>1
      <3> QED BY <3>1, <3>2
    <2>2. mem[p][a].calls # <<>> \/ (a = Len(mem[p]) /\ pc[p] = "done")
      BY <2>1 DEF OwnOK
    <2>3. /\ ResultsAt(p, a)
          /\ a + Len(mem[p][a].calls) <= Len(mem[p]) \/ Answering(p) \/ pc[p] = "done"
      BY <2>1 DEF OwnOK
    <2>4. mem[p][a].calls \in Seq(ToolCall)
      <3>1. a \in 1..Len(mem[p])
        BY <1>1, <2>1 DEF Own
      <3>2. mem[p][a] \in Message
        BY <1>1, <3>1
      <3> QED BY <3>2 DEF Message
    <2>5. ASSUME mem[p][a].calls # <<>> PROVE Len(mem[p][a].calls) \in Nat /\ Len(mem[p][a].calls) >= 1
      BY <2>4, <2>5
    <2>6. ASSUME i < n PROVE own[i + 1].role # "assistant"
      <3>1. a + 1 <= Len(mem[p]) /\ own[i + 1] = mem[p][a + 1]
        <4>1. i + 1 \in 1..n /\ base[p] + (i + 1) = a + 1
          BY <1>1, <1>2, <2>6
        <4>2. own[i + 1] = mem[p][base[p] + (i + 1)]
          BY <1>3, <4>1
        <4>3. a + 1 <= Len(mem[p])
          BY <1>1, <2>6
        <4> HIDE DEF own, a
        <4> QED BY <4>1, <4>2, <4>3
      <3> HIDE DEF a
      <3>5. a # Len(mem[p])
        BY <1>1, <2>1, <3>1
      <3>6. mem[p][a].calls # <<>>
        BY <2>2, <3>5
      <3>2. Len(mem[p][a].calls) \in Nat /\ 1 \in 1..Len(mem[p][a].calls)
        BY <2>5, <3>6
      <3>3. mem[p][a + 1] = ToolMessage(mem[p][a].calls[1].id, ResultBytes)
        BY <2>3, <3>1, <3>2 DEF ResultsAt
      <3>4. mem[p][a + 1].role = "tool"
        BY <3>3 DEF ToolMessage
      <3> HIDE DEF own
      <3> QED BY <3>1, <3>4
    <2>7. ASSUME i = n PROVE pc[p] # "act"
      <3>1. a = Len(mem[p])
        BY <1>1, <2>7
      <3> HIDE DEF a
      <3> QED BY <1>1, <2>2, <2>3, <2>5, <3>1 DEF Answering
    <2> QED BY <2>6, <2>7
  <1> HIDE DEF own, n
  <1>5. CASE thought[p] = <<>>
    <2>1. OwnTurn(p) = own
      BY <1>2, <1>5 DEF OwnTurn, own
    <2>2. \A i \in 1..(n - 1) : i \in 1..n /\ i < n
      BY <1>2
    <2> QED BY <1>2, <1>4, <2>1, <2>2 DEF AnswersApart
  <1>6. ASSUME NEW m \in Message, thought[p] = <<m>>, pc[p] = "act" PROVE AnswersApart(OwnTurn(p))
    <2>1. OwnTurn(p) = own \o <<m>>
      BY <1>6 DEF OwnTurn, own
    <2>2. Len(own \o <<m>>) = n + 1 /\ \A i \in 1..n : (own \o <<m>>)[i] = own[i]
      BY <1>2
    <2>3. ASSUME NEW i \in 1..n, own[i].role = "assistant"
          PROVE  i < n /\ i + 1 \in 1..n /\ own[i + 1].role # "assistant"
      BY <1>2, <1>4, <1>6, <2>3
    <2>4. (n + 1) - 1 = n
      BY <1>2
    <2> QED BY <2>1, <2>2, <2>3, <2>4 DEF AnswersApart
  <1> QED BY <1>5, <1>6 DEF OneThought

\* Each run sees the results of an answer right behind it in the order of its
\* calls, and no two of its answers next to each other in any request: neither
\* the order in which tools finish (tool_groups.go) nor the think answer
\* (loop.go:119) shows in the history.
THEOREM ResultsInOrder == Spec => []ObservationsInOrder
  <1>1. TypeOK /\ OwnInv /\ ThoughtInv => ObservationsInOrder
    <2> SUFFICES ASSUME TypeOK, OwnInv, ThoughtInv, NEW p \in Procs
                 PROVE  /\ \A a \in Own(p) : mem[p][a].role = "assistant" => ResultsAt(p, a)
                        /\ AnswersApart(OwnTurn(p))
      BY DEF ObservationsInOrder, Own, ResultsAt
    <2>1. OwnOK(p) /\ OneThought(p)
      BY DEF OwnInv, ThoughtInv
    <2> QED BY <2>1, OwnApart DEF OwnOK
  <1>2. Init => ThoughtInv
    BY DEF Init, ThoughtInv, OneThought
  <1>3. IInv => TypeOK
    BY DEF IInv
  <1> QED BY <1>1, <1>2, <1>3, InitOwn, NextOwn, NextThought, Invariant, PTL DEF Spec

\* However small the window and the token cap, a request shows the model the
\* prompt of its run and everything the run has stored since
\* (loop.go:106, window.go:31-97).
THEOREM RunAlwaysShown == Spec => []OwnTurnInView
  <1>1. ASSUME IInv, OwnInv PROVE OwnTurnInView
    <2> SUFFICES ASSUME NEW p \in Procs, Asking(p) PROVE Own(p) \subseteq View(p)
      BY DEF OwnTurnInView, Own
    <2> DEFINE b == base[p] + 1
    <2>1. mem[p] \in Seq(Message) /\ base[p] \in Nat /\ Len(mem[p]) \in Nat
      BY <1>1 DEF IInv, TypeOK
    <2>2. OwnOK(p)
      BY <1>1 DEF OwnInv
    <2>3. base[p] < Len(mem[p]) /\ ~Answering(p) /\ pc[p] # "done"
      BY <2>2 DEF OwnOK, Asking, Answering
    <2>4. b \in DOMAIN mem[p] /\ mem[p][b].role = "user"
      BY <2>1, <2>2, <2>3 DEF OwnOK
    <2>5. b + 1 .. Len(mem[p]) \subseteq Own(p) /\ b \notin b + 1 .. Len(mem[p])
      BY <2>1 DEF Own
    <2> HIDE DEF b
    <2>6. \A i \in b + 1 .. Len(mem[p]) : mem[p][i].role # "user"
      BY <2>2, <2>5 DEF OwnOK, b
    <2>7. ASSUME NEW a \in b + 1 .. Len(mem[p]), mem[p][a].role = "assistant",
                 NEW k \in 1..Len(mem[p][a].calls)
          PROVE  /\ a + k <= Len(mem[p])
                 /\ mem[p][a + k].role = "tool"
                 /\ mem[p][a + k].answers = mem[p][a].calls[k].id
      <3>1. ResultsAt(p, a) /\ a + Len(mem[p][a].calls) <= Len(mem[p])
        BY <2>2, <2>3, <2>5, <2>7 DEF OwnOK
      <3>2. mem[p][a].calls \in Seq(ToolCall)
        <4>1. mem[p][a] \in Message
          BY <2>1, <2>4
        <4> QED BY <4>1 DEF Message
      <3>3. a + k <= Len(mem[p])
        BY <2>1, <2>4, <3>1, <3>2
      <3>4. mem[p][a + k] = ToolMessage(mem[p][a].calls[k].id, ResultBytes)
        BY <3>1, <3>3 DEF ResultsAt
      <3> QED BY <3>3, <3>4 DEF ToolMessage
    <2>8. ASSUME NEW t \in b + 1 .. Len(mem[p]), mem[p][t].role = "tool"
          PROVE  \E a \in b + 1 .. t - 1 : mem[p][a].role = "assistant" /\ t <= a + Len(mem[p][a].calls)
      <3>1. PICK a \in Own(p) : /\ a < t /\ t <= a + Len(mem[p][a].calls)
                               /\ mem[p][a].role = "assistant"
        BY <2>2, <2>5, <2>8 DEF OwnOK
      <3>2. a # b
        BY <2>4, <3>1
      <3>3. a \in b + 1 .. t - 1
        BY <2>1, <3>1, <3>2 DEF Own, b
      <3> QED BY <3>1, <3>3
    <2>9. WholeTurn(mem[p], b)
      BY <2>4, <2>6, <2>7, <2>8 DEF WholeTurn
    <2>10. b..Len(mem[p]) \subseteq ProviderView(mem[p])
      BY <2>1, <2>9, LastTurnShown
    <2> QED BY <2>10 DEF View, Own, b
  <1> QED BY <1>1, InitOwn, NextOwn, Invariant, PTL DEF Spec

-----------------------------------------------------------------------------
(* Across processes and runs, every call in the file is answered once.     *)

\* A result of run p's i-th call of turn n may be in the file already.
Past(p, n, i) ==
  /\ n <= turn[p]
  /\ Asking(p) => n < turn[p]
  /\ Answering(p) /\ n = turn[p] => i <= answered[p]

\* The calls being answered carry this turn's identifiers and are in the file;
\* of the run's identifiers the file answers those already passed only.
IdsOK(p) ==
  /\ run[p] <= runs
  /\ Answering(p) => \A i \in 1..Len(calls[p]) :
       /\ calls[p][i].id = <<run[p], turn[p], i>>
       /\ \E a \in DOMAIN disk : calls[p][i].id \in CallIds(disk[a])
  /\ pc[p] # "done" => \A u \in DOMAIN disk : \A n, i \in Nat :
       disk[u].role = "tool" /\ disk[u].answers = <<run[p], n, i>> => Past(p, n, i)

\* Results carry identifiers of runs that were started, other messages none.
DiskIdsOK ==
  \A u \in DOMAIN disk :
    /\ disk[u].role # "tool" => disk[u].answers = NoCall
    /\ disk[u].role = "tool" =>
         /\ disk[u].answers \in CallId
         /\ \A r \in 1..MaxRuns : \A n, i \in Nat : disk[u].answers = <<r, n, i>> => r <= runs

\* No two runs at work have the same number.
RunsDiffer == \A p, q \in Procs : p # q /\ pc[p] # "done" /\ pc[q] # "done" => run[p] # run[q]

IdInv == DiskIdsOK /\ RunsDiffer /\ AnsweredOnce /\ \A p \in Procs : IdsOK(p)

LEMMA DiskAppend ==
  ASSUME TypeOK, NEW m \in Message, disk' = Append(disk, m)
  PROVE  /\ Len(disk) \in Nat /\ DOMAIN disk = 1..Len(disk)
         /\ DOMAIN disk' = DOMAIN disk \cup {Len(disk) + 1}
         /\ disk'[Len(disk) + 1] = m
         /\ \A u \in DOMAIN disk : disk'[u] = disk[u] /\ u \in 1..Len(disk)
  <1>1. disk \in Seq(Message)
    BY DEF TypeOK
  <1> QED BY <1>1

\* A message that is no result of the run keeps its identifiers.
LEMMA OtherIds ==
  ASSUME TypeOK, NEW q \in Procs, IdsOK(q), Untouched(q), runs <= runs', runs' \in Nat,
         \/ disk' = disk
         \/ \E m \in Message : /\ disk' = Append(disk, m)
                               /\ pc[q] # "done" /\ m.role = "tool" =>
                                    \A n, i \in Nat : m.answers # <<run[q], n, i>>
  PROVE  IdsOK(q)'
  <1>1. /\ Answering(q)' = Answering(q) /\ run'[q] = run[q] /\ pc'[q] = pc[q]
        /\ calls'[q] = calls[q] /\ turn'[q] = turn[q]
        /\ \A n, i : Past(q, n, i)' = Past(q, n, i)
    BY DEF Untouched, Past, Asking, Answering
  <1>2. run'[q] <= runs'
    BY <1>1 DEF IdsOK, TypeOK
  <1>3. CASE disk' = disk
    BY <1>1, <1>2, <1>3 DEF IdsOK
  <1>4. ASSUME NEW m \in Message, disk' = Append(disk, m),
               pc[q] # "done" /\ m.role = "tool" => \A n, i \in Nat : m.answers # <<run[q], n, i>>
        PROVE  IdsOK(q)'
    <2>1. /\ DOMAIN disk' = DOMAIN disk \cup {Len(disk) + 1}
          /\ disk'[Len(disk) + 1] = m
          /\ \A u \in DOMAIN disk : disk'[u] = disk[u]
      BY <1>4, DiskAppend
    <2>2. ASSUME Answering(q)', NEW i \in 1..Len(calls'[q])
          PROVE  /\ calls'[q][i].id = <<run'[q], turn'[q], i>>
                 /\ \E a \in DOMAIN disk' : calls'[q][i].id \in CallIds(disk'[a])
      <3>1. /\ calls[q][i].id = <<run[q], turn[q], i>>
            /\ \E a \in DOMAIN disk : calls[q][i].id \in CallIds(disk[a])
        BY <1>1, <2>2 DEF IdsOK
      <3> QED BY <1>1, <2>1, <3>1
    <2>3. ASSUME pc'[q] # "done", NEW u \in DOMAIN disk', NEW n \in Nat, NEW i \in Nat,
                 disk'[u].role = "tool", disk'[u].answers = <<run'[q], n, i>>
          PROVE  Past(q, n, i)'
      <3>1. u \in DOMAIN disk /\ disk'[u] = disk[u]
        BY <1>1, <1>4, <2>1, <2>3
      <3>2. Past(q, n, i)
        BY <1>1, <2>3, <3>1 DEF IdsOK
      <3> QED BY <1>1, <3>2
    <2> QED BY <1>2, <2>2, <2>3 DEF IdsOK
  <1> QED BY <1>3, <1>4

\* What no result is does not answer anything.
LEMMA NoResultIds ==
  ASSUME TypeOK, DiskIdsOK, AnsweredOnce, NEW m \in Message, disk' = Append(disk, m),
         m.role # "tool", m.answers = NoCall, runs' = runs
  PROVE  DiskIdsOK' /\ AnsweredOnce'
  <1>1. /\ Len(disk) \in Nat
        /\ DOMAIN disk' = DOMAIN disk \cup {Len(disk) + 1}
        /\ disk'[Len(disk) + 1] = m
        /\ \A u \in DOMAIN disk : disk'[u] = disk[u] /\ u \in 1..Len(disk)
        /\ DOMAIN disk = 1..Len(disk)
    BY DiskAppend
  <1>2. DiskIdsOK'
    BY <1>1 DEF DiskIdsOK
  <1>3. ASSUME NEW t \in DOMAIN disk', disk'[t].role = "tool"
        PROVE  /\ \E a \in 1..(t - 1) : disk'[t].answers \in CallIds(disk'[a])
               /\ \A u \in DOMAIN disk' : disk'[u].answers = disk'[t].answers => u = t
    <2>1. t \in DOMAIN disk /\ disk'[t] = disk[t] /\ disk[t].answers \in CallId
      BY <1>1, <1>3 DEF DiskIdsOK
    <2>2. PICK a \in 1..(t - 1) : disk[t].answers \in CallIds(disk[a])
      BY <1>3, <2>1 DEF AnsweredOnce
    <2>3. a \in DOMAIN disk
      BY <1>1, <2>1
    <2>4. \A u \in DOMAIN disk : disk[u].answers = disk[t].answers => u = t
      BY <1>3, <2>1 DEF AnsweredOnce
    <2>5. m.answers # disk[t].answers
      BY <2>1, NoCallAssumption
    <2> QED BY <1>1, <2>1, <2>2, <2>3, <2>4, <2>5
  <1> QED BY <1>2, <1>3 DEF AnsweredOnce

LEMMA StartIds == ASSUME IInv, IdInv, NEW p \in Procs, Start(p) PROVE IdInv'
  <1>1. /\ TypeOK /\ disk' = disk /\ runs' = runs + 1 /\ run'[p] = runs + 1 /\ pc'[p] = "prompt"
        /\ turn'[p] = 0 /\ runs \in Nat /\ runs + 1 \in 1..MaxRuns
    <2>1. TypeOK
      BY DEF IInv
    <2>2. runs \in Nat /\ runs < MaxRuns /\ MaxRuns \in Nat
      BY <2>1, LoopAssumption DEF Start, TypeOK
    <2>3. runs + 1 \in 1..MaxRuns
      BY <2>2
    <2> QED BY <2>1, <2>2, <2>3 DEF Start, TypeOK
  <1>2. \A q \in Procs : q # p => Untouched(q)
    BY <1>1, OthersUntouched DEF StepOf
  <1>3. DiskIdsOK'
    BY <1>1 DEF DiskIdsOK, IdInv
  <1>4. \A q \in Procs : q # p => run'[q] = run[q] /\ pc'[q] = pc[q] /\ run[q] <= runs /\ run[q] \in Nat
    BY <1>1, <1>2 DEF IdInv, IdsOK, Untouched, TypeOK
  <1>5. RunsDiffer'
    <2>1. \A q \in Procs : q # p => run'[q] # run'[p]
      BY <1>1, <1>4
    <2> QED BY <1>4, <2>1 DEF RunsDiffer, IdInv
  <1>6. AnsweredOnce'
    BY <1>1 DEF AnsweredOnce, IdInv
  <1>7. ASSUME NEW q \in Procs, q # p PROVE IdsOK(q)'
    BY <1>1, <1>2, <1>7, OtherIds DEF IdInv
  <1>8. IdsOK(p)'
    <2>1. ASSUME NEW u \in DOMAIN disk, NEW n \in Nat, NEW i \in Nat,
                 disk[u].role = "tool", disk[u].answers = <<runs + 1, n, i>>
          PROVE  FALSE
      <3>1. runs + 1 <= runs
        BY <1>1, <2>1 DEF IdInv, DiskIdsOK
      <3> QED BY <1>1, <3>1
    <2>2. ~Answering(p)' /\ run'[p] <= runs'
      BY <1>1 DEF Answering
    <2> QED BY <1>1, <2>1, <2>2 DEF IdsOK
  <1> QED BY <1>3, <1>5, <1>6, <1>7, <1>8 DEF IdInv

\* Steps that add nothing to the file.
LEMMA QuietIds ==
  ASSUME IInv, IdInv, NEW p \in Procs, Step(p) \/ Cancel(p) \/ Crash(p),
         disk' = disk, runs' = runs, run' = run, calls'[p] = calls[p], answered'[p] = answered[p],
         \/ pc'[p] = "done"
         \/ pc'[p] = pc[p] /\ turn'[p] = turn[p]
         \/ turn'[p] = turn[p] /\ Answering(p) /\ Answering(p)'
         \/ turn'[p] = turn[p] /\ pc[p] = "think" /\ pc'[p] = "act"
         \/ pc[p] = "top" /\ pc'[p] \in {"think", "act"} /\ turn'[p] = turn[p] + 1
  PROVE  IdInv'
  <1>1. TypeOK /\ runs \in Nat /\ turn[p] \in Nat
    <2>1. TypeOK
      BY DEF IInv
    <2>2. runs \in Nat
      BY <2>1 DEF TypeOK
    <2>3. turn[p] \in 0..(TurnLimit + 1) /\ TurnLimit \in Nat
      BY <2>1, TurnLimitType DEF TypeOK
    <2>4. turn[p] \in Nat
      BY ONLY <2>3
    <2> QED BY <2>1, <2>2, <2>4
  <1>2. \A q \in Procs : q # p => Untouched(q)
    <2>1. StepOf(p)
      BY DEF StepOf
    <2>2. ASSUME NEW q \in Procs, q # p PROVE Untouched(q)
      BY <1>1, <2>1, <2>2, OthersUntouched
    <2> QED BY <2>2
  <1>3. DiskIdsOK' /\ AnsweredOnce'
    BY DEF DiskIdsOK, AnsweredOnce, IdInv
  <1>4. pc[p] # "done"
    BY DEF Step, AppendPrompt, BeginTurn, Think, Act, StopAtTop, ProviderFails, AppendFails,
       BarrierCancelled, AbortGroup, BarrierCall, EnterGroup, StartCall, FinishCall, CollectGroup,
       PersistResult, Cancel, Crash
  <1>5. RunsDiffer'
    BY <1>2, <1>4 DEF RunsDiffer, IdInv, Untouched
  <1>6. ASSUME NEW q \in Procs, q # p PROVE IdsOK(q)'
    BY <1>1, <1>2, <1>6, OtherIds DEF IdInv
  <1>7. IdsOK(p)'
    <2>1. IdsOK(p)
      BY DEF IdInv
    <2>2. run'[p] <= runs'
      BY <2>1 DEF IdsOK
    <2>3. Answering(p)' => Answering(p) /\ turn'[p] = turn[p]
      BY DEF Answering
    <2>4. ASSUME NEW n \in Nat, NEW i \in Nat, Past(p, n, i), pc'[p] # "done" PROVE Past(p, n, i)'
      BY <1>1, <2>3, <2>4 DEF Past, Asking, Answering
    <2> QED BY <1>4, <2>1, <2>2, <2>3, <2>4 DEF IdsOK
  <1> QED BY <1>3, <1>5, <1>6, <1>7 DEF IdInv

LEMMA AppendPromptIds == ASSUME IInv, IdInv, NEW p \in Procs, AppendPrompt(p) PROVE IdInv'
  <1> DEFINE m == UserMessage(PromptBytes)
  <1>1. /\ TypeOK /\ disk' = Append(disk, m) /\ runs' = runs /\ run' = run /\ turn'[p] = turn[p]
        /\ pc[p] = "prompt" /\ pc'[p] = "top" /\ m \in Message /\ runs \in Nat
    <2>1. TypeOK
      BY DEF IInv
    <2>2. runs \in Nat
      BY <2>1 DEF TypeOK
    <2>3. pc[p] = "prompt" /\ disk' = Append(disk, m) /\ pc'[p] = "top"
      BY <2>1 DEF AppendPrompt, SessionAppend, Goto, TypeOK
    <2>4. runs' = runs /\ run' = run /\ turn'[p] = turn[p]
      BY DEF AppendPrompt, runVars
    <2> QED BY <2>1, <2>2, <2>3, <2>4, UserMessageType
  <1>2. m.role = "user" /\ m.answers = NoCall
    BY DEF UserMessage
  <1> HIDE DEF m
  <1>3. \A q \in Procs : q # p => Untouched(q)
    BY <1>1, OthersUntouched DEF StepOf, Step
  <1>4. DiskIdsOK' /\ AnsweredOnce'
    BY <1>1, <1>2, NoResultIds DEF IdInv
  <1>5. RunsDiffer'
    BY <1>1, <1>3 DEF RunsDiffer, IdInv, Untouched
  <1>6. ASSUME NEW q \in Procs, q # p PROVE IdsOK(q)'
    BY <1>1, <1>2, <1>3, <1>6, OtherIds DEF IdInv
  <1>7. IdsOK(p)'
    <2>1. IdsOK(p) /\ ~Answering(p)' /\ run'[p] = run[p] /\ run'[p] <= runs'
      BY <1>1 DEF IdInv, IdsOK, Answering
    <2>2. \A u \in DOMAIN disk' : disk'[u].role = "tool" => u \in DOMAIN disk /\ disk'[u] = disk[u]
      BY <1>1, <1>2, DiskAppend
    <2>3. \A n, i \in Nat : Past(p, n, i) => Past(p, n, i)'
      BY <1>1, <2>1 DEF Past, Asking
    <2> QED BY <1>1, <2>1, <2>2, <2>3 DEF IdsOK
  <1> QED BY <1>4, <1>5, <1>6, <1>7 DEF IdInv

LEMMA ActIds == ASSUME IInv, IdInv, NEW p \in Procs, Act(p) PROVE IdInv'
  <1>1. /\ TypeOK /\ pc[p] = "act" /\ run[p] \in 1..MaxRuns /\ turn[p] \in 1..TurnLimit
        /\ runs' = runs /\ run' = run /\ turn'[p] = turn[p] /\ runs \in Nat
    <2>1. TypeOK /\ ControlInv
      BY DEF IInv
    <2>2. pc[p] = "act" /\ runs' = runs /\ run' = run /\ turn' = turn
      BY DEF Act, runVars
    <2>3. run[p] \in 1..MaxRuns /\ turn[p] >= 1 /\ turn[p] <= TurnLimit
      BY <2>1, <2>2 DEF ControlInv
    <2>4. turn[p] \in Int /\ runs \in Nat
      BY <2>1, TurnLimitType DEF TypeOK
    <2> QED BY <2>1, <2>2, <2>3, <2>4, TurnLimitType
  <1>2. CASE Return(p, "marshalError") /\ UNCHANGED <<disk, mem, calls, toolVars>>
    <2>1. pc'[p] = "done" /\ disk' = disk /\ calls'[p] = calls[p] /\ answered'[p] = answered[p]
      BY <1>1, <1>2 DEF Return, toolVars, TypeOK
    <2>2. Step(p)
      BY DEF Step
    <2> QED BY <1>1, <2>1, <2>2, QuietIds
  <1>3. ASSUME NEW names \in Responses, NEW cs, cs = FreshCalls(p, names),
               SessionAppend(p, AssistantMessage(cs, AnswerBytes)),
               calls' = [calls EXCEPT ![p] = cs],
               answered' = [answered EXCEPT ![p] = 0],
               IF cs = <<>> THEN Return(p, "complete")
               ELSE Goto(p, IF HasLoadSkillCall(cs) THEN "barrier" ELSE "group")
        PROVE  IdInv'
    <2> DEFINE m == AssistantMessage(cs, AnswerBytes)
    <2>1. cs \in Seq(ToolCall) /\ m \in Message /\ Len(cs) = Len(names)
      BY <1>1, <1>3, FreshCallsType, AssistantMessageType
    <2>2. m.role = "assistant" /\ m.calls = cs /\ m.answers = NoCall
      BY DEF AssistantMessage
    <2>3. /\ disk' = Append(disk, m) /\ calls'[p] = cs /\ answered'[p] = 0
          /\ pc'[p] \in {"done", "barrier", "group"}
      BY <1>1, <1>3 DEF SessionAppend, Return, Goto, TypeOK
    <2> HIDE DEF m
    <2>4. \A q \in Procs : q # p => Untouched(q)
      BY <1>1, OthersUntouched DEF StepOf, Step
    <2>5. DiskIdsOK' /\ AnsweredOnce'
      BY <1>1, <2>1, <2>2, <2>3, NoResultIds DEF IdInv
    <2>6. RunsDiffer'
      BY <1>1, <2>4 DEF RunsDiffer, IdInv, Untouched
    <2>7. ASSUME NEW q \in Procs, q # p PROVE IdsOK(q)'
      BY <1>1, <2>1, <2>2, <2>3, <2>4, <2>7, OtherIds DEF IdInv
    <2>8. IdsOK(p)'
      <3>1. IdsOK(p) /\ run'[p] = run[p] /\ run'[p] <= runs'
        BY <1>1 DEF IdInv, IdsOK
      <3>2. /\ \A u \in DOMAIN disk' : disk'[u].role = "tool" => u \in DOMAIN disk /\ disk'[u] = disk[u]
            /\ Len(disk) + 1 \in DOMAIN disk' /\ disk'[Len(disk) + 1] = m
        BY <1>1, <2>1, <2>2, <2>3, DiskAppend
      <3>3. ASSUME NEW i \in 1..Len(cs)
            PROVE  cs[i].id = <<run[p], turn[p], i>> /\ cs[i].id \in CallIds(m)
        <4>1. names \in Seq(ToolName)
          BY LoopAssumption
        <4>2. i \in DOMAIN names /\ i \in DOMAIN cs
          BY <2>1, <4>1
        <4> QED BY <1>3, <2>2, <4>2 DEF FreshCalls, CallIds
      <3>4. ASSUME NEW u \in DOMAIN disk, NEW n \in Nat, NEW i \in Nat,
                   disk[u].role = "tool", disk[u].answers = <<run[p], n, i>>
            PROVE  Past(p, n, i)'
        <4>1. n < turn[p]
          BY <1>1, <3>1, <3>4 DEF IdsOK, Past, Asking
        <4>2. ~Asking(p)' /\ turn'[p] = turn[p] /\ turn[p] \in Nat
          BY <1>1, <2>3, TurnLimitType DEF Asking
        <4> QED BY <4>1, <4>2 DEF Past
      <3>5. \A i \in 1..Len(calls'[p]) : /\ calls'[p][i].id = <<run'[p], turn'[p], i>>
                                         /\ \E a \in DOMAIN disk' : calls'[p][i].id \in CallIds(disk'[a])
        BY <1>1, <2>3, <3>1, <3>2, <3>3
      <3>6. \A u \in DOMAIN disk' : \A n, i \in Nat :
              disk'[u].role = "tool" /\ disk'[u].answers = <<run'[p], n, i>> => Past(p, n, i)'
        BY <3>1, <3>2, <3>4
      <3> QED BY <3>1, <3>5, <3>6 DEF IdsOK
    <2> QED BY <2>5, <2>6, <2>7, <2>8 DEF IdInv
  <1> QED BY <1>2, <1>3 DEF Act

LEMMA PersistResultIds == ASSUME IInv, IdInv, NEW p \in Procs, PersistResult(p) PROVE IdInv'
  <1>0. PICK k : k = answered[p] + 1
    OBVIOUS
  <1> DEFINE m == ResultOf(p, k)
  <1>1. /\ TypeOK /\ pc[p] = "results" /\ calls'[p] = calls[p] /\ answered'[p] = k
        /\ disk' = Append(disk, m) /\ pc'[p] = AfterResult(p, k)
        /\ runs' = runs /\ run' = run /\ turn'[p] = turn[p] /\ runs \in Nat
    <2>1. TypeOK
      BY DEF IInv
    <2>2. answered \in [Procs -> Nat] /\ runs \in Nat
      BY <2>1 DEF TypeOK
    <2>3. pc[p] = "results" /\ disk' = Append(disk, m) /\ pc'[p] = AfterResult(p, k)
      BY <1>0, <2>1 DEF PersistResult, SessionAppend, Goto, TypeOK
    <2>4. runs' = runs /\ run' = run /\ turn'[p] = turn[p] /\ calls'[p] = calls[p]
      BY DEF PersistResult, runVars
    <2>5. answered'[p] = k
      BY <1>0, <2>2 DEF PersistResult
    <2> QED BY <2>1, <2>2, <2>3, <2>4, <2>5
  <1>2. /\ calls[p] \in Seq(ToolCall) /\ answered[p] \in Nat /\ k \in Nat
        /\ k \in 1..Len(calls[p])
    <2>1. k < next[p]
      BY <1>0, <1>1 DEF IInv, ControlInv
    <2> QED BY <1>0, <2>1 DEF IInv, TypeOK, CountersOK
  <1>3. /\ m \in Message /\ m.role = "tool" /\ m.answers = <<run[p], turn[p], k>>
        /\ m.answers = calls[p][k].id /\ turn[p] \in Nat /\ run[p] \in 1..MaxRuns
        /\ m.answers \in CallId
    <2>1. calls[p][k].id = <<run[p], turn[p], k>>
      BY <1>1, <1>2 DEF IdInv, IdsOK, Answering
    <2>2. turn[p] \in Nat /\ run[p] \in 1..MaxRuns
      BY <1>1, TurnLimitType DEF IInv, TypeOK, ControlInv
    <2>3. calls[p][k].id \in CallId
      <3>1. calls[p][k] \in ToolCall
        BY <1>2
      <3> QED BY <3>1 DEF ToolCall
    <2>4. m \in Message
      BY <1>1, <1>2, ResultType
    <2>5. m.role = "tool" /\ m.answers = calls[p][k].id
      BY DEF ResultOf, ToolMessage
    <2> HIDE DEF m
    <2> QED BY <2>1, <2>2, <2>3, <2>4, <2>5
  <1>4. pc'[p] \in {"results", "group", "top"}
    BY <1>1 DEF AfterResult
  <1> HIDE DEF m
  <1>5. \A q \in Procs : q # p => Untouched(q)
    BY <1>1, OthersUntouched DEF StepOf, Step
  <1>6. /\ Len(disk) \in Nat
        /\ DOMAIN disk' = DOMAIN disk \cup {Len(disk) + 1}
        /\ disk'[Len(disk) + 1] = m
        /\ \A u \in DOMAIN disk : disk'[u] = disk[u] /\ u \in 1..Len(disk)
        /\ DOMAIN disk = 1..Len(disk)
    BY <1>1, <1>3, DiskAppend
  <1>7. IdsOK(p) /\ run[p] <= runs
    BY DEF IdInv, IdsOK
  <1>8. \A u \in DOMAIN disk : disk[u].answers # m.answers
    <2> SUFFICES ASSUME NEW u \in DOMAIN disk, disk[u].answers = m.answers PROVE FALSE
      OBVIOUS
    <2>1. disk[u].role = "tool"
      BY <1>3, NoCallAssumption DEF IdInv, DiskIdsOK
    <2>2. k <= answered[p]
      BY <1>1, <1>2, <1>3, <1>7, <2>1 DEF IdsOK, Past, Answering
    <2> QED BY <1>0, <1>2, <2>2
  <1>9. DiskIdsOK'
    <2>1. \A r \in 1..MaxRuns : \A n, i \in Nat : m.answers = <<r, n, i>> => r <= runs
      BY <1>3, <1>7
    <2>2. ASSUME NEW u \in DOMAIN disk'
          PROVE  /\ disk'[u].role # "tool" => disk'[u].answers = NoCall
                 /\ disk'[u].role = "tool" =>
                      /\ disk'[u].answers \in CallId
                      /\ \A r \in 1..MaxRuns : \A n, i \in Nat : disk'[u].answers = <<r, n, i>> => r <= runs
      <3>1. CASE u \in DOMAIN disk
        <4>1. disk'[u] = disk[u]
          BY <1>6, <3>1
        <4> QED BY <3>1, <4>1 DEF DiskIdsOK, IdInv
      <3>2. CASE u = Len(disk) + 1
        <4>1. disk'[u] = m
          BY <1>6, <3>2
        <4> QED BY <1>3, <2>1, <4>1
      <3> QED BY <1>6, <3>1, <3>2
    <2> QED BY <1>1, <2>2 DEF DiskIdsOK
  <1>10. RunsDiffer'
    BY <1>1, <1>5 DEF RunsDiffer, IdInv, Untouched
  <1>11. AnsweredOnce'
    <2> SUFFICES ASSUME NEW t \in DOMAIN disk', disk'[t].role = "tool"
                 PROVE  /\ \E a \in 1..(t - 1) : disk'[t].answers \in CallIds(disk'[a])
                        /\ \A u \in DOMAIN disk' : disk'[u].answers = disk'[t].answers => u = t
      BY DEF AnsweredOnce
    <2>1. CASE t \in DOMAIN disk
      <3>1. PICK a \in 1..(t - 1) : disk[t].answers \in CallIds(disk[a])
        BY <1>6, <2>1 DEF IdInv, AnsweredOnce
      <3>2. a \in DOMAIN disk
        BY <1>6, <2>1
      <3>3. \A u \in DOMAIN disk : disk[u].answers = disk[t].answers => u = t
        BY <1>6, <2>1 DEF IdInv, AnsweredOnce
      <3> QED BY <1>6, <1>8, <2>1, <3>1, <3>2, <3>3
    <2>2. CASE t = Len(disk) + 1
      <3>1. PICK a \in DOMAIN disk : calls[p][k].id \in CallIds(disk[a])
        BY <1>1, <1>2, <1>7 DEF IdsOK, Answering
      <3>2. a \in 1..(t - 1) /\ disk'[a] = disk[a]
        BY <1>6, <2>2, <3>1
      <3> QED BY <1>3, <1>6, <1>8, <2>2, <3>1, <3>2
    <2> QED BY <1>6, <2>1, <2>2
  <1>12. ASSUME NEW q \in Procs, q # p PROVE IdsOK(q)'
    <2>1. pc[q] # "done" => run[q] # run[p]
      BY <1>1, <1>12 DEF IdInv, RunsDiffer
    <2>2. pc[q] # "done" => \A n, i \in Nat : m.answers # <<run[q], n, i>>
      BY <1>3, <2>1
    <2> QED BY <1>1, <1>3, <1>5, <1>12, <2>2, OtherIds DEF IdInv
  <1>13. IdsOK(p)'
    <2>1. run'[p] = run[p] /\ run'[p] <= runs'
      BY <1>1, <1>7
    <2>2. \A i \in 1..Len(calls'[p]) : /\ calls'[p][i].id = <<run'[p], turn'[p], i>>
                                       /\ \E a \in DOMAIN disk' : calls'[p][i].id \in CallIds(disk'[a])
      <3>1. \A i \in 1..Len(calls[p]) : /\ calls[p][i].id = <<run[p], turn[p], i>>
                                        /\ \E a \in DOMAIN disk : calls[p][i].id \in CallIds(disk[a])
        BY <1>1, <1>7 DEF IdsOK, Answering
      <3> QED BY <1>1, <1>6, <3>1
    <2>3. ASSUME NEW u \in DOMAIN disk', NEW n \in Nat, NEW i \in Nat,
                 disk'[u].role = "tool", disk'[u].answers = <<run[p], n, i>>
          PROVE  Past(p, n, i)'
      <3>1. ~Asking(p)'
        BY <1>4 DEF Asking
      <3>2. CASE u \in DOMAIN disk
        <4>1. n <= turn[p] /\ (n = turn[p] => i <= answered[p])
          BY <1>1, <1>6, <1>7, <2>3, <3>2 DEF IdsOK, Past, Answering
        <4> QED BY <1>0, <1>1, <1>2, <3>1, <4>1 DEF Past
      <3>3. CASE u = Len(disk) + 1
        <4>1. n = turn[p] /\ i = k
          BY <1>3, <1>6, <2>3, <3>3
        <4> QED BY <1>1, <1>2, <1>3, <3>1, <4>1 DEF Past
      <3> QED BY <1>6, <3>2, <3>3
    <2> QED BY <2>1, <2>2, <2>3 DEF IdsOK
  <1> QED BY <1>9, <1>10, <1>11, <1>12, <1>13 DEF IdInv

LEMMA NextIds == ASSUME IInv, IdInv, [Next]_vars PROVE IdInv'
  <1>1. ASSUME NEW p \in Procs, StepOf(p) PROVE IdInv'
    <2>1. CASE Start(p)
      BY <2>1, StartIds
    <2>2. CASE AppendPrompt(p)
      BY <2>2, AppendPromptIds
    <2>3. CASE Act(p)
      BY <2>3, ActIds
    <2>4. CASE PersistResult(p)
      BY <2>4, PersistResultIds
    <2>5. CASE \/ BeginTurn(p) \/ Think(p) \/ BarrierCall(p) \/ EnterGroup(p) \/ StartCall(p)
               \/ FinishCall(p) \/ CollectGroup(p) \/ Cancel(p) \/ StopAtTop(p) \/ ProviderFails(p)
               \/ AppendFails(p) \/ BarrierCancelled(p) \/ AbortGroup(p) \/ Crash(p)
      <3>0. TypeOK /\ (Step(p) \/ Cancel(p) \/ Crash(p))
        BY <2>5 DEF IInv, Step
      <3>1. disk' = disk /\ runs' = runs /\ run' = run /\ calls'[p] = calls[p] /\ answered'[p] = answered[p]
        BY <2>5 DEF BeginTurn, Think, BarrierCall, EnterGroup, StartCall, FinishCall, CollectGroup,
           Cancel, StopAtTop, ProviderFails, AppendFails, BarrierCancelled, AbortGroup, Crash,
           toolVars, runVars
      <3>2. \/ pc'[p] = "done"
            \/ pc'[p] = pc[p] /\ turn'[p] = turn[p]
            \/ turn'[p] = turn[p] /\ Answering(p) /\ Answering(p)'
            \/ turn'[p] = turn[p] /\ pc[p] = "think" /\ pc'[p] = "act"
            \/ pc[p] = "top" /\ pc'[p] \in {"think", "act"} /\ turn'[p] = turn[p] + 1
        BY <2>5, <3>0 DEF BeginTurn, Think, BarrierCall, EnterGroup, StartCall, FinishCall, CollectGroup,
           Cancel, StopAtTop, ProviderFails, AppendFails, BarrierCancelled, AbortGroup, Crash,
           Return, Goto, TypeOK, Answering
      <3> QED BY <3>0, <3>1, <3>2, QuietIds
    <2> QED BY <1>1, <2>1, <2>2, <2>3, <2>4, <2>5 DEF StepOf, Step
  <1>2. CASE UNCHANGED vars
    <2>1. \A q \in Procs : Untouched(q)
      BY <1>2 DEF vars, Untouched
    <2>2. runs' = runs /\ runs \in Nat /\ disk' = disk /\ TypeOK
      BY <1>2 DEF vars, IInv, TypeOK
    <2>3. \A q \in Procs : IdsOK(q)'
      BY <2>1, <2>2, OtherIds DEF IdInv
    <2>4. DiskIdsOK' /\ AnsweredOnce' /\ RunsDiffer'
      BY <2>1, <2>2 DEF IdInv, DiskIdsOK, AnsweredOnce, RunsDiffer, Untouched
    <2> QED BY <2>3, <2>4 DEF IdInv
  <1> QED BY <1>1, <1>2 DEF Next, StepOf

LEMMA InitIds == Init => IdInv
  <1> SUFFICES ASSUME Init PROVE IdInv OBVIOUS
  <1>1. DiskIdsOK
    <2>1. ASSUME NEW u \in DOMAIN disk, disk[u].role = "tool", NEW r \in 1..MaxRuns,
                 NEW n \in Nat, NEW i \in Nat, disk[u].answers = <<r, n, i>>
          PROVE  FALSE
      <3>1. disk[u].answers \notin (1..MaxRuns) \X Nat \X Nat
        BY <2>1, HistoryAssumption DEF Init
      <3>2. <<r, n, i>> \in (1..MaxRuns) \X Nat \X Nat
        OBVIOUS
      <3> QED BY <2>1, <3>1, <3>2
    <2>2. ASSUME NEW u \in DOMAIN disk
          PROVE  /\ disk[u].role # "tool" => disk[u].answers = NoCall
                 /\ disk[u].role = "tool" => disk[u].answers \in CallId
      BY HistoryAssumption DEF Init
    <2> QED BY <2>1, <2>2 DEF DiskIdsOK
  <1>2. AnsweredOnce
    BY HistoryAssumption DEF Init, AnsweredOnce
  <1>3. RunsDiffer /\ \A p \in Procs : IdsOK(p)
    BY DEF Init, RunsDiffer, IdsOK, Answering
  <1> QED BY <1>1, <1>2, <1>3 DEF IdInv

\* In a file shared by any number of processes that are cancelled, fail, die
\* and are started again, a call is answered at most once and after it was
\* made (loop.go:128, 151, 173-178).
THEOREM CallsAnsweredOnce == Spec => []AnsweredOnce
  <1>1. IdInv => AnsweredOnce
    BY DEF IdInv
  <1> QED BY <1>1, InitIds, NextIds, Invariant, PTL DEF Spec

-----------------------------------------------------------------------------
(* What is sent is accepted by the services behind both providers.         *)

PromptFirst(h) == h # <<>> => h[1].role = "user"

\* The file and every memory begin with a prompt, and what a process remembers
\* is in the file, where a peer may have written between any two of its
\* messages: so it remembers one result of a call at most.
WireInv ==
  /\ PromptFirst(disk) /\ CallsDistinct(disk)
  /\ \A p \in Procs :
       /\ PromptFirst(mem[p]) /\ OneResultEach(mem[p])
       /\ \A t \in DOMAIN mem[p] : \E u \in DOMAIN disk : disk[u] = mem[p][t]

LEMMA AppendWire ==
  ASSUME TypeOK, WireInv, NEW p \in Procs, NEW m \in Message, SessionAppend(p, m),
         m.role = "user" \/ mem[p] # <<>>,
         \A j, k \in DOMAIN m.calls : m.calls[j].id = m.calls[k].id => j = k,
         \A u \in DOMAIN disk : disk[u].answers = m.answers => disk[u].role # "tool" /\ m.role # "tool"
  PROVE  WireInv'
  <1>1. /\ Len(disk) \in Nat /\ DOMAIN disk = 1..Len(disk)
        /\ DOMAIN disk' = DOMAIN disk \cup {Len(disk) + 1}
        /\ disk'[Len(disk) + 1] = m
        /\ \A u \in DOMAIN disk : disk'[u] = disk[u] /\ u \in 1..Len(disk)
    BY DiskAppend DEF SessionAppend
  <1>2. /\ Len(mem[p]) \in Nat /\ DOMAIN mem[p] = 1..Len(mem[p])
        /\ DOMAIN mem'[p] = DOMAIN mem[p] \cup {Len(mem[p]) + 1}
        /\ mem'[p][Len(mem[p]) + 1] = m
        /\ \A t \in DOMAIN mem[p] : mem'[p][t] = mem[p][t] /\ t # Len(mem[p]) + 1
        /\ \A q \in Procs : q # p => mem'[q] = mem[q]
    <2>1. mem[p] \in Seq(Message) /\ mem'[p] = Append(mem[p], m)
      BY DEF TypeOK, SessionAppend
    <2>2. \A q \in Procs : q # p => mem'[q] = mem[q]
      BY DEF TypeOK, SessionAppend
    <2> QED BY <2>1, <2>2
  <1>3. mem[p] = <<>> \/ 1 \in DOMAIN mem[p]
    <2>1. mem[p] \in Seq(Message)
      BY DEF TypeOK
    <2> QED BY <2>1
  <1>4. disk = <<>> \/ 1 \in DOMAIN disk
    <2>1. disk \in Seq(Message)
      BY DEF TypeOK
    <2> QED BY <2>1
  <1>5. PromptFirst(mem[p])'
    <2>1. CASE mem[p] = <<>>
      <3>1. mem'[p][1] = m
        BY <1>2, <2>1
      <3> QED BY <2>1, <3>1 DEF PromptFirst
    <2>2. CASE 1 \in DOMAIN mem[p] /\ mem[p] # <<>>
      BY <1>2, <2>2 DEF PromptFirst, WireInv
    <2> QED BY <1>3, <2>1, <2>2
  <1>6. PromptFirst(disk)'
    <2>1. CASE disk = <<>>
      <3>1. mem[p] = <<>>
        <4>1. ~(1 \in DOMAIN mem[p])
          BY <2>1 DEF WireInv
        <4> QED BY <1>3, <4>1
      <3>2. disk'[1] = m
        BY <1>1, <2>1
      <3> QED BY <3>1, <3>2 DEF PromptFirst
    <2>2. CASE 1 \in DOMAIN disk /\ disk # <<>>
      BY <1>1, <2>2 DEF PromptFirst, WireInv
    <2> QED BY <1>4, <2>1, <2>2
  <1>7. CallsDistinct(disk)'
    <2> SUFFICES ASSUME NEW a \in DOMAIN disk', NEW j \in DOMAIN disk'[a].calls,
                        NEW k \in DOMAIN disk'[a].calls,
                        disk'[a].calls[j].id = disk'[a].calls[k].id
                 PROVE  j = k
      BY DEF CallsDistinct
    <2>1. CASE a \in DOMAIN disk
      <3>1. disk'[a] = disk[a]
        BY <1>1, <2>1
      <3> QED BY <2>1, <3>1 DEF WireInv, CallsDistinct
    <2>2. CASE a = Len(disk) + 1
      <3>1. disk'[a] = m
        BY <1>1, <2>2
      <3> QED BY <3>1
    <2> QED BY <1>1, <2>1, <2>2
  <1>8. OneResultEach(mem[p])'
    <2> SUFFICES ASSUME NEW t \in DOMAIN mem'[p], NEW u \in DOMAIN mem'[p],
                        mem'[p][t].role = "tool", mem'[p][u].answers = mem'[p][t].answers
                 PROVE  u = t
      BY DEF OneResultEach
    <2>1. CASE t \in DOMAIN mem[p] /\ u \in DOMAIN mem[p]
      <3>1. mem'[p][t] = mem[p][t] /\ mem'[p][u] = mem[p][u]
        BY <1>2, <2>1
      <3> QED BY <2>1, <3>1 DEF WireInv, OneResultEach
    <2>2. ASSUME NEW i \in DOMAIN mem[p], mem[p][i].answers = m.answers
          PROVE  mem[p][i].role # "tool" /\ m.role # "tool"
      <3>1. PICK k \in DOMAIN disk : disk[k] = mem[p][i]
        BY DEF WireInv
      <3> QED BY <2>2, <3>1
    <2>3. CASE t \in DOMAIN mem[p] /\ u = Len(mem[p]) + 1
      <3>1. mem'[p][t] = mem[p][t] /\ mem'[p][u] = m
        BY <1>2, <2>3
      <3> QED BY <2>2, <2>3, <3>1
    <2>4. CASE t = Len(mem[p]) + 1 /\ u \in DOMAIN mem[p]
      <3>1. mem'[p][t] = m /\ mem'[p][u] = mem[p][u]
        BY <1>2, <2>4
      <3> QED BY <2>2, <2>4, <3>1
    <2> QED BY <1>2, <2>1, <2>3, <2>4
  <1>9. ASSUME NEW q \in Procs, NEW t \in DOMAIN mem'[q]
        PROVE  \E u \in DOMAIN disk' : disk'[u] = mem'[q][t]
    <2>1. CASE q = p /\ t = Len(mem[p]) + 1
      BY <1>1, <1>2, <2>1
    <2>2. CASE t \in DOMAIN mem[q] /\ mem'[q][t] = mem[q][t]
      <3>1. PICK u \in DOMAIN disk : disk[u] = mem[q][t]
        BY <2>2 DEF WireInv
      <3> QED BY <1>1, <2>2, <3>1
    <2> QED BY <1>2, <2>1, <2>2
  <1>10. ASSUME NEW q \in Procs PROVE PromptFirst(mem[q])' /\ OneResultEach(mem[q])'
    <2>1. CASE q = p
      BY <1>5, <1>8, <2>1
    <2>2. CASE q # p
      BY <1>2, <2>2 DEF WireInv, PromptFirst, OneResultEach
    <2> QED BY <2>1, <2>2
  <1> QED BY <1>6, <1>7, <1>9, <1>10 DEF WireInv

\* No action but Start and the appends touches the file or a memory.
LEMMA NextWire == ASSUME IInv, IdInv, WireInv, [Next]_vars PROVE WireInv'
  <1>1. TypeOK /\ DiskIdsOK /\ AnsweredOnce'
    BY NextIds DEF IInv, IdInv
  <1>2. CASE UNCHANGED <<disk, mem>>
    BY <1>2 DEF WireInv, PromptFirst, CallsDistinct, OneResultEach
  <1>3. ASSUME NEW p \in Procs, Start(p) PROVE WireInv'
    <2>1. /\ disk' = disk /\ mem'[p] = disk
          /\ \A q \in Procs : q # p => mem'[q] = mem[q]
      BY <1>1, <1>3 DEF Start, TypeOK
    <2>2. OneResultEach(disk)
      BY DEF IdInv, AnsweredOnce, OneResultEach
    <2>3. ASSUME NEW q \in Procs
          PROVE  /\ PromptFirst(mem[q])' /\ OneResultEach(mem[q])'
                 /\ \A t \in DOMAIN mem'[q] : \E u \in DOMAIN disk' : disk'[u] = mem'[q][t]
      <3>1. CASE q = p
        BY <2>1, <2>2, <3>1 DEF WireInv, PromptFirst, OneResultEach
      <3>2. CASE q # p
        BY <2>1, <3>2 DEF WireInv, PromptFirst, OneResultEach
      <3> QED BY <3>1, <3>2
    <2>4. PromptFirst(disk)' /\ CallsDistinct(disk)'
      BY <2>1 DEF WireInv, PromptFirst, CallsDistinct
    <2> QED BY <2>3, <2>4 DEF WireInv
  <1>4. ASSUME NEW m, m.answers = NoCall, NEW u \in DOMAIN disk, disk[u].answers = m.answers
        PROVE  disk[u].role # "tool"
    BY <1>1, <1>4, NoCallAssumption DEF DiskIdsOK
  <1>5. ASSUME NEW p \in Procs, AppendPrompt(p) PROVE WireInv'
    <2> DEFINE m == UserMessage(PromptBytes)
    <2>1. /\ m \in Message /\ SessionAppend(p, m)
          /\ m.role = "user" /\ m.answers = NoCall /\ m.calls = <<>>
      BY <1>5, UserMessageType DEF AppendPrompt, UserMessage
    <2> HIDE DEF m
    <2> QED BY <1>1, <1>4, <2>1, AppendWire
  <1>6. ASSUME NEW p \in Procs, NEW names \in Responses, Act(p),
               SessionAppend(p, AssistantMessage(FreshCalls(p, names), AnswerBytes))
        PROVE  WireInv'
    <2> DEFINE cs == FreshCalls(p, names)
               m == AssistantMessage(cs, AnswerBytes)
    <2>1. run[p] \in 1..MaxRuns /\ turn[p] \in 1..TurnLimit /\ pc[p] = "act"
      BY <1>6, TurnLimitType DEF IInv, Act, TypeOK, ControlInv
    <2>2. cs \in Seq(ToolCall) /\ m \in Message
      BY <2>1, FreshCallsType, AssistantMessageType
    <2>3. m.role = "assistant" /\ m.answers = NoCall /\ m.calls = cs
      BY DEF AssistantMessage
    <2>4. \A j, k \in DOMAIN cs : cs[j].id = cs[k].id => j = k
      BY DEF FreshCalls
    <2>5. mem[p] # <<>>
      <3>1. \E i \in DOMAIN mem[p] : mem[p][i].role = "user"
        BY <2>1 DEF IInv, PromptInv
      <3> QED BY <3>1
    <2> HIDE DEF cs, m
    <2>6. SessionAppend(p, m)
      BY <1>6 DEF cs, m
    <2> QED BY <1>1, <1>4, <2>2, <2>3, <2>4, <2>5, <2>6, AppendWire
  <1>7. ASSUME NEW p \in Procs, PersistResult(p) PROVE WireInv'
    <2>0. PICK k : k = answered[p] + 1
      OBVIOUS
    <2> DEFINE m == ResultOf(p, k)
    <2>1. SessionAppend(p, m) /\ pc[p] = "results"
      BY <1>7, <2>0 DEF PersistResult
    <2>2. k \in DOMAIN calls[p]
      <3>1. /\ k < next[p] /\ next[p] <= Len(calls[p]) + 1 /\ calls[p] \in Seq(ToolCall)
            /\ answered[p] \in Nat /\ next[p] \in Nat
        BY <2>0, <2>1 DEF IInv, ControlInv, TypeOK, CountersOK
      <3> QED BY <2>0, <3>1
    <2>3. m \in Message /\ m.role = "tool" /\ m.calls = <<>>
      <3>1. m.role = "tool" /\ m.calls = <<>>
        BY DEF ResultOf, ToolMessage
      <3> QED BY <1>1, <2>2, <3>1, ResultType
    <2>4. mem[p] # <<>>
      <3>1. \E i \in DOMAIN mem[p] : mem[p][i].role = "user"
        BY <2>1 DEF IInv, PromptInv
      <3> QED BY <3>1
    <2> HIDE DEF m
    <2>5. ASSUME NEW u \in DOMAIN disk PROVE disk[u].answers # m.answers
      <3>1. /\ Len(disk) \in Nat /\ Len(disk) + 1 \in DOMAIN disk' /\ disk'[Len(disk) + 1] = m
            /\ u \in DOMAIN disk' /\ disk'[u] = disk[u] /\ u \in 1..Len(disk)
        BY <1>1, <2>1, <2>3, DiskAppend DEF SessionAppend
      <3>2. \A i \in DOMAIN disk' : disk'[i].answers = m.answers => i = Len(disk) + 1
        BY <1>1, <2>3, <3>1 DEF AnsweredOnce
      <3>3. u # Len(disk) + 1
        BY <3>1
      <3> QED BY <3>1, <3>2, <3>3
    <2> QED BY <1>1, <2>1, <2>3, <2>4, <2>5, AppendWire
  <1>8. ASSUME NEW p \in Procs, Step(p) \/ Cancel(p) \/ Crash(p)
        PROVE  \/ UNCHANGED <<disk, mem>>
               \/ AppendPrompt(p) \/ PersistResult(p)
               \/ Act(p) /\ \E names \in Responses :
                              SessionAppend(p, AssistantMessage(FreshCalls(p, names), AnswerBytes))
    BY <1>8 DEF Step, BeginTurn, StopAtTop, Think, ProviderFails, Act, AppendFails, BarrierCall,
       BarrierCancelled, EnterGroup, StartCall, FinishCall, CollectGroup, AbortGroup, Cancel, Crash
  <1>9. CASE UNCHANGED vars
    BY <1>2, <1>9 DEF vars
  <1> QED BY <1>2, <1>3, <1>5, <1>6, <1>7, <1>8, <1>9 DEF Next

LEMMA InitWire == Init => WireInv
  <1> SUFFICES ASSUME Init PROVE WireInv OBVIOUS
  <1>1. PromptFirst(disk) /\ CallsDistinct(disk)
    BY HistoryAssumption DEF Init, PromptFirst, CallsDistinct
  <1>2. \A p \in Procs : mem[p] = <<>>
    BY DEF Init
  <1> QED BY <1>1, <1>2 DEF WireInv, PromptFirst, OneResultEach

\* Whatever processes wrote into one history, were killed and resumed, however it
\* is cut, and with the think answer behind it or without: the requests of both
\* phases (loop.go:106-123) are ones that the services behind claude.go and
\* openai.go accept ("always provider-valid", window.go:9), and a run adds no two
\* neighbouring answers to them.
THEOREM WireAlwaysValid == Spec => []WireValid
  <1>1. ASSUME IInv, IdInv, WireInv, OwnInv, ThoughtInv PROVE WireValid
    <2> SUFFICES ASSUME NEW p \in Procs, Asking(p),
                        \A n \in DOMAIN thought[p] : thought[p][n].calls = <<>>
                 PROVE  /\ AnthropicAccepts(TranslateMessagesToAnthropic(Sent(p)))
                        /\ OpenAIAccepts(TranslateMessagesToOpenAI(Sent(p)))
                        /\ AnswersApart(OwnTurn(p))
      BY DEF WireValid
    <2>1. mem[p] \in Seq(Message) /\ thought[p] \in Seq(Message) /\ TypeOK
      BY <1>1 DEF IInv, TypeOK
    <2>2. mem[p] # <<>>
      <3>1. \E i \in DOMAIN mem[p] : mem[p][i].role = "user"
        BY <1>1 DEF IInv, PromptInv, Asking
      <3> QED BY <3>1
    <2>3. mem[p][1].role = "user" /\ OneResultEach(mem[p])
      BY <1>1, <2>2 DEF WireInv, PromptFirst
    <2>4. CallsDistinct(mem[p])
      <3> SUFFICES ASSUME NEW a \in DOMAIN mem[p], NEW j \in DOMAIN mem[p][a].calls,
                          NEW k \in DOMAIN mem[p][a].calls,
                          mem[p][a].calls[j].id = mem[p][a].calls[k].id
                   PROVE  j = k
        BY DEF CallsDistinct
      <3>1. PICK u \in DOMAIN disk : disk[u] = mem[p][a]
        BY <1>1 DEF WireInv
      <3> QED BY <1>1, <3>1 DEF WireInv, CallsDistinct
    <2>5. ASSUME NEW t \in DOMAIN mem[p], mem[p][t].role = "tool" PROVE mem[p][t].answers # NoCall
      <3>1. PICK u \in DOMAIN disk : disk[u] = mem[p][t]
        BY <1>1 DEF WireInv
      <3>2. mem[p][t].answers \in CallId
        BY <1>1, <2>5, <3>1 DEF IdInv, DiskIdsOK
      <3> QED BY <3>2, NoCallAssumption
    <2>6. \/ thought[p] = <<>>
          \/ \E m \in Message : /\ thought[p] = <<m>> /\ m.role = "assistant"
                                /\ m.calls = <<>> /\ m.answers = NoCall
      <3>1. ASSUME NEW m \in Message, thought[p] = <<m>> PROVE m.calls = <<>>
        <4>1. 1 \in DOMAIN thought[p] /\ thought[p][1] = m
          BY <3>1
        <4> QED BY <4>1
      <3> QED BY <1>1, <3>1 DEF ThoughtInv, OneThought
    <2>7. /\ AnthropicAccepts(TranslateMessagesToAnthropic(Sent(p)))
          /\ OpenAIAccepts(TranslateMessagesToOpenAI(Sent(p)))
      BY <2>1, <2>2, <2>3, <2>4, <2>5, <2>6, ViewAccepted DEF Sent, View
    <2>8. AnswersApart(OwnTurn(p))
      BY <1>1, <2>1, OwnApart DEF OwnInv, ThoughtInv
    <2> QED BY <2>7, <2>8
  <1>2. Init => ThoughtInv
    BY DEF Init, ThoughtInv, OneThought
  <1> QED BY <1>1, <1>2, InitIds, NextIds, InitOwn, NextOwn, NextThought, InitWire, NextWire,
             Invariant, PTL DEF Spec
=============================================================================
