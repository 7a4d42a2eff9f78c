------------------------------- MODULE Startup -------------------------------
(***************************************************************************)
(* The program's start (cmd/claw/main.go): flags, provider, skills,        *)
(* trimmer and session, in this order, while users and other processes     *)
(* edit the skills and the session directory; then the skills the running  *)
(* program loads.                                                          *)
(*                                                                         *)
(* NewSession and OpenSession are taken apart as far as they look at or    *)
(* open files (internal/session/store.go, id.go).  A session file is the   *)
(* sequence of its lines, each whole or torn; what becomes of them in      *)
(* memory is SessionStore's.                                               *)
(***************************************************************************)
EXTENDS ProviderConfig, SkillManager

CONSTANTS
  Ids,      \* canonical session identifiers
  NoId,     \* --session is empty
  BadId,    \* a --session that is no identifier
  Missing,  \* no file
  Worlds    \* what the program may be started with

Line == {"whole", "torn"}

\* The arguments, whether there is a prompt among them or on standard input, what
\* the program finds, and a bound of its own for what others change meanwhile.
World ==
  [prompt : BOOLEAN, provider : {"openai", "claude", "other"}, model : Values \cup {Unset},
   strategy : {"window", "other"}, session : Ids \cup {NoId, BadId},
   env : Settings, levels : Seq(DotEnv),
   tree : [Entry -> Places], agents : {"absent", "text", "notFile", "unreadable"},
   disk : [Ids -> Seq(Line) \cup {Missing}], edits : 0..MaxChanges]

ASSUME StartupAssumption ==
  /\ NoId \notin Ids /\ BadId \notin Ids /\ Worlds \subseteq World

VARIABLES
  world,   \* what the program was started with
  stage,   \* where main is
  config,  \* the provider's settings
  model,   \* the model it asks
  disk,    \* the session directory
  made     \* session files this process created

mainVars == <<world, stage, config, model, disk, made>>
vars == <<mainVars, skillVars>>

Init ==
  /\ world \in Worlds
  /\ SkillInit(world.tree, world.agents) /\ disk = world.disk
  /\ stage = "prompt" /\ config = [error |-> "notLoaded"] /\ model = Unset
  /\ made = {}

-----------------------------------------------------------------------------
(* main.                                                                   *)

\* Mutant: the session is opened first.
After_SessionFirst(s) ==
  CASE s = "prompt" -> "provider" [] s = "provider" -> "context"
    [] s = "context" -> "session" [] s = "session" -> "trimmer"
    [] s = "trimmer" -> "running"

\* The order of the steps.
After(s) ==
  CASE s = "prompt" -> "provider" [] s = "provider" -> "context"
    [] s = "context" -> "trimmer" [] s = "trimmer" -> "session"
    [] s = "session" -> "running"

Succeed == stage' = After(stage)
Fail == stage' = "failed"

ReadPrompt ==
  /\ stage = "prompt"
  /\ IF world.prompt THEN Succeed ELSE Fail
  /\ UNCHANGED <<world, config, model, disk, made, skillVars>>

\* newProvider: the model given as a flag wins over the configured one.
NewProvider ==
  /\ stage = "provider"
  /\ LET loadedConfig == LoadConfig(world.env, world.levels) IN
     IF world.provider = "other" \/ loadedConfig.error # "none"
     THEN Fail /\ UNCHANGED <<config, model>>
     ELSE /\ Succeed /\ config' = loadedConfig
          /\ model' = IF world.model = Unset THEN loadedConfig.model ELSE world.model
  /\ UNCHANGED <<world, disk, made, skillVars>>

NewManager ==
  /\ stage = "context"
  /\ \/ ListSkills /\ UNCHANGED stage
     \/ ScanEntry /\ UNCHANGED stage
     \/ ManagerFails /\ Fail
     \/ ManagerReady /\ Succeed /\ UNCHANGED skillVars
  /\ UNCHANGED <<world, config, model, disk, made>>

GetTrimmer ==
  /\ stage = "trimmer"
  /\ IF world.strategy = "window" THEN Succeed ELSE Fail
  /\ UNCHANGED <<world, config, model, disk, made, skillVars>>

-----------------------------------------------------------------------------
(* openOrCreateSession.                                                    *)

\* Mutant: a file that is gone is created.
OpenFile_Creates(id, create) ==
  IF disk[id] = Missing THEN [disk EXCEPT ![id] = <<>>] ELSE disk

\* O_RDWR|O_APPEND, and O_CREATE for a new session: what is there stays.
OpenFile(id, create) ==
  IF create /\ disk[id] = Missing THEN [disk EXCEPT ![id] = <<>>] ELSE disk

\* The identifier is a second and three random bytes: it may be in use.
NewSession ==
  /\ stage = "session" /\ world.session = NoId
  /\ \/ Fail /\ UNCHANGED <<disk, made>>
     \/ \E id \in Ids :
          /\ disk' = OpenFile(id, TRUE)
          /\ made' = IF disk' # disk THEN made \cup {id} ELSE made
          /\ Succeed
  /\ UNCHANGED <<world, config, model, skillVars>>

\* The identifier is looked at, then the file by its name.
StatSession ==
  /\ stage = "session" /\ world.session # NoId
  /\ IF world.session = BadId THEN Fail
     ELSE IF disk[world.session] = Missing THEN Fail ELSE stage' = "read"
  /\ UNCHANGED <<world, config, model, disk, made, skillVars>>

ReadSession ==
  /\ stage = "read"
  /\ LET content == disk[world.session] IN
     IF content = Missing \/ \E i \in DOMAIN content : content[i] = "torn"
     THEN Fail ELSE stage' = "open"
  /\ UNCHANGED <<world, config, model, disk, made, skillVars>>

OpenSession ==
  /\ stage = "open"
  /\ disk' = OpenFile(world.session, FALSE)
  /\ made' = IF disk' # disk THEN made \cup {world.session} ELSE made
  /\ IF disk'[world.session] = Missing THEN Fail ELSE stage' = After("session")
  /\ UNCHANGED <<world, config, model, skillVars>>

Main ==
  \/ ReadPrompt \/ NewProvider \/ NewManager \/ GetTrimmer
  \/ NewSession \/ StatSession \/ ReadSession \/ OpenSession

-----------------------------------------------------------------------------
(* The others, and the running program.                                    *)

\* Somebody creates, appends to, tears or deletes a session file.
ChangeSessions ==
  /\ changes' = changes + 1
  /\ \E id \in Ids :
       disk' = [disk EXCEPT ![id] = IF @ = Missing THEN <<>> ELSE Missing]
       \/ /\ disk[id] # Missing
          /\ \E line \in Line : disk' = [disk EXCEPT ![id] = Append(@, line)]
  /\ UNCHANGED <<world, stage, config, model, made,
                 tree, agents, scanVars, loaded, callVars>>

Others == changes < world.edits /\ (ChangeSessions \/ (ChangeTree /\ UNCHANGED mainVars))

Running == stage = "running" /\ \E c \in Callers : LoadSkill(c) /\ UNCHANGED mainVars

Next == Main \/ Others \/ Running

Spec == Init /\ [][Next]_vars

-----------------------------------------------------------------------------
(* Properties.                                                             *)

\* The nearest .env within reach says so.
DotEnvSays(key, value) ==
  \E d \in 1..MaxDotEnvDepth :
    /\ d \in DOMAIN world.levels /\ world.levels[d].kind = "file"
    /\ \A n \in 1..(d - 1) : world.levels[n].kind \notin {"file", "broken"}
    /\ world.levels[d].settings[key] = value

Given(key, value) ==
  world.env[key] = value \/ (world.env[key] = Unset /\ DotEnvSays(key, value))

NotGiven(key) == ~\E value \in Values : Given(key, value)

\* "Environment values win over .env values; LLM_* keys win over legacy keys"
\* (config.go:36): what the provider was built with was said by the right place,
\* and a key is never sent to an endpoint that is neither https nor local, or
\* taken from a directory too far up.
ConfigByPrecedence ==
  config.error = "none" =>
    /\ \E k \in DOMAIN ApiKeys :
         Given(ApiKeys[k], config.apiKey) /\ \A j \in 1..(k - 1) : NotGiven(ApiKeys[j])
    /\ \/ Given("LLM_BASE_URL", config.baseURL) /\ config.baseURL \in Safe
       \/ NotGiven("LLM_BASE_URL") /\ config.baseURL = DefaultURL
    /\ \/ world.model # Unset /\ model = world.model
       \/ world.model = Unset /\ Given("LLM_MODEL", model)
       \/ world.model = Unset /\ NotGiven("LLM_MODEL") /\ model = DefaultModel

\* A start that fails leaves no session file behind (main.go:80-82).
FailedStartLeavesNoSession == stage = "failed" => made = {}

\* "Typos do not silently fork a conversation" (session-management-design.md:77),
\* not even when the file is deleted while it is being opened; and a new session
\* that draws an identifier in use keeps what that file holds.
StartKeepsHistories ==
  [][stage' # stage => \A id \in Ids :
       disk'[id] # disk[id] => world.session = NoId /\ disk[id] = Missing]_vars
=============================================================================
