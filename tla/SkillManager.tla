---------------------------- MODULE SkillManager ----------------------------
(***************************************************************************)
(* The local skills of a workspace (internal/context/): the catalogue read *)
(* when the program starts, the skills loaded since, and the system prompt *)
(* made of both.                                                           *)
(*                                                                         *)
(* A skill is a file SKILL.md in a directory of its own.  The directories  *)
(* are numbered in lexical order.  They may change at any time: the agent  *)
(* itself, its commands and its user edit the workspace.                   *)
(***************************************************************************)
EXTENDS Integers, FiniteSets, Sequences

CONSTANTS
  NEntries,    \* names in .claw/skills
  Names,       \* names of skills
  NoName,      \* an empty one
  Files,       \* what a SKILL.md may hold
  NoFile,      \* no readable SKILL.md
  Places,      \* what a skill directory may be changed into
  Callers,     \* goroutines that call LoadSkill
  MaxCalls,    \* bound: calls of LoadSkill
  MaxChanges   \* bound: changes of the workspace

Entry == 1..NEntries

\* What stands under a name: nothing that can be used ("absent": nothing, a plain
\* file, a link out of the workspace), a directory, a link to a directory inside,
\* a directory whose SKILL.md is a link.
Kinds == {"absent", "dir", "dirLink", "fileLink"}

\* What the parser looks at: both delimiters, the name, a description, whether
\* name, description and aliases are of one line each; and the body.
File ==
  [fenced : BOOLEAN, name : Names \cup {NoName}, described : BOOLEAN, oneLine : BOOLEAN,
   body : Nat]

\* A directory entry, with the SKILL.md that is found through it.
Place == [kind : Kinds, file : Files \cup {NoFile}]

ASSUME SkillAssumption ==
  /\ NEntries \in Nat /\ NoName \notin Names
  /\ Files \subseteq File /\ NoFile \notin Files
  /\ Places \subseteq Place
  /\ MaxCalls \in Nat /\ MaxChanges \in Nat

VARIABLES
  tree,      \* the skill directories
  agents,    \* AGENTS.md: "absent", "text", "notFile" (a link or directory) or "unreadable"
  listed,    \* the kinds ReadDir saw
  scanned,   \* how many entries were looked at since, or -1 before ReadDir
  catalog,   \* Manager.catalog: names and where they were found
  loaded,    \* Composer.loaded
  pc, want, got,  \* each call of LoadSkill: where it is, its name, the file it read
  reply,     \* what the last call of each caller returned
  calls, changes

scanVars == <<listed, scanned, catalog>>
callVars == <<pc, want, got, reply, calls>>
skillVars == <<tree, agents, scanVars, loaded, callVars, changes>>

\* The program starts in a workspace with these skill directories and AGENTS.md.
SkillInit(dirs, instructions) ==
  /\ tree = dirs /\ agents = instructions
  /\ listed = [e \in Entry |-> "absent"] /\ scanned = -1 /\ catalog = <<>> /\ loaded = <<>>
  /\ pc = [c \in Callers |-> "idle"] /\ want = [c \in Callers |-> NoName]
  /\ got = [c \in Callers |-> NoFile] /\ reply = [c \in Callers |-> "none"]
  /\ calls = 0 /\ changes = 0

\* ParseSkillDocument accepts the file.
Parses(file) ==
  file # NoFile /\ file.fenced /\ file.name # NoName /\ file.described /\ file.oneLine

\* The names in a catalogue or among the loaded skills.
NamesIn(skills) == {skills[i].name : i \in DOMAIN skills}

-----------------------------------------------------------------------------
(* NewManager.                                                             *)

\* LoadRootAgents succeeds, with or without instructions; then ReadDir.
ListSkills ==
  /\ scanned = -1 /\ agents # "unreadable"
  /\ listed' = [e \in Entry |-> tree[e].kind] /\ scanned' = 0
  /\ UNCHANGED <<tree, agents, catalog, loaded, callVars, changes>>

\* Mutant: a name that was seen before is listed again.
Listable_Again(e) ==
  /\ listed[e] \in {"dir", "fileLink"} /\ tree[e].kind \in {"dir", "dirLink"}
  /\ Parses(tree[e].file)

\* Links and files are skipped, unreadable and malformed documents, and names
\* that were seen before.
Listable(e) ==
  /\ listed[e] \in {"dir", "fileLink"} /\ tree[e].kind \in {"dir", "dirLink"}
  /\ Parses(tree[e].file) /\ tree[e].file.name \notin NamesIn(catalog)

\* Links are passed over as ReadDir saw them; then the file is looked at.
ScanEntry ==
  /\ scanned \in 0..(NEntries - 1) /\ scanned' = scanned + 1
  /\ catalog' = IF Listable(scanned + 1)
                THEN Append(catalog, [name |-> tree[scanned + 1].file.name, at |-> scanned + 1])
                ELSE catalog
  /\ UNCHANGED <<tree, agents, listed, loaded, callVars, changes>>

\* AGENTS.md or the skill directory cannot be read: NewManager fails.
ManagerFails == scanned = -1 /\ UNCHANGED skillVars

ManagerReady == scanned = NEntries

-----------------------------------------------------------------------------
(* LoadSkill.                                                              *)

Reply(c, what) ==
  pc' = [pc EXCEPT ![c] = "idle"] /\ reply' = [reply EXCEPT ![c] = what]

\* The tool is there only if there are skills.  byName is not written any more.
CallLoadSkill(c) ==
  /\ pc[c] = "idle" /\ ManagerReady /\ catalog # <<>> /\ calls < MaxCalls
  /\ calls' = calls + 1
  /\ \E name \in Names \cup {NoName} :
       /\ want' = [want EXCEPT ![c] = name]
       /\ IF name \in NamesIn(catalog)
          THEN pc' = [pc EXCEPT ![c] = "read"] /\ UNCHANGED reply
          ELSE Reply(c, "unknown")
  /\ UNCHANGED <<tree, agents, scanVars, loaded, got, changes>>

MetaOf(name) == catalog[CHOOSE i \in DOMAIN catalog : catalog[i].name = name]

\* LoadSkillBody: the file is looked at and parsed again.  A link in place of
\* the file is refused, one in place of its directory is followed.
Loadable(name, place) ==
  place.kind \in {"dir", "dirLink"} /\ Parses(place.file) /\ place.file.name = name

ReadBody(c) ==
  /\ pc[c] = "read"
  /\ LET place == tree[MetaOf(want[c]).at] IN
     IF Loadable(want[c], place)
     THEN /\ pc' = [pc EXCEPT ![c] = "insert"] /\ got' = [got EXCEPT ![c] = place.file]
          /\ UNCHANGED reply
     ELSE Reply(c, "error") /\ UNCHANGED got
  /\ UNCHANGED <<tree, agents, scanVars, loaded, want, calls, changes>>

\* Mutant: a loaded skill is not found.
HasLoadedSkill_Never(name) == FALSE

HasLoadedSkill(name) == name \in NamesIn(loaded)

WithLoadedSkill(skill) ==
  IF HasLoadedSkill(skill.name) THEN loaded ELSE Append(loaded, skill)

\* With the mutex held.
Insert(c) ==
  /\ pc[c] = "insert"
  /\ IF HasLoadedSkill(want[c])
     THEN Reply(c, "alreadyLoaded") /\ UNCHANGED loaded
     ELSE /\ Reply(c, "loaded")
          /\ loaded' = WithLoadedSkill([name |-> got[c].name, at |-> MetaOf(want[c]).at,
                                        body |-> got[c].body])
  /\ UNCHANGED <<tree, agents, scanVars, want, got, calls, changes>>

\* SystemPrompt: its sections in order.
Section(kind) == [section |-> kind]
SystemPrompt ==
  <<Section("base")>>
    \o (IF agents = "text" THEN <<Section("agents")>> ELSE <<>>)
    \o (IF catalog = <<>> THEN <<>> ELSE <<Section("catalog"), Section("loading")>>)
    \o [i \in DOMAIN loaded |-> [section |-> "skill", skill |-> loaded[i]]]

-----------------------------------------------------------------------------

\* Somebody edits the skill directories.
ChangeTree ==
  /\ changes < MaxChanges /\ changes' = changes + 1
  /\ \E e \in Entry, p \in Places : tree' = [tree EXCEPT ![e] = p]
  /\ UNCHANGED <<agents, scanVars, loaded, callVars>>

LoadSkill(c) == CallLoadSkill(c) \/ ReadBody(c) \/ Insert(c)

-----------------------------------------------------------------------------
(* Properties.                                                             *)

\* "Keep the first deterministic path in lexical order"
\* (dynamic-context-skill-lazy-load-design.md:207): a catalogue has each name
\* once, and lists its skills in lexical order; if nobody edited the directories
\* meanwhile, a usable skill is missing only behind one of its name.
CatalogFirstWins ==
  LET at == {catalog[i].at : i \in DOMAIN catalog}
      Usable(e) == tree[e].kind = "dir" /\ Parses(tree[e].file) IN
  /\ \A i, j \in DOMAIN catalog :
       i < j => catalog[i].name # catalog[j].name /\ catalog[i].at < catalog[j].at
  /\ ManagerReady /\ changes = 0 =>
       \A e \in Entry : e \in at <=>
         Usable(e) /\ \A d \in Entry : d < e /\ Usable(d) => tree[d].file.name # tree[e].file.name

\* LoadSkill is idempotent (dynamic-context-skill-lazy-load-design.md:52): whoever
\* was told that a skill is loaded finds it in the system prompt, once, and from
\* where the catalogue has it, however calls interleave and files change.
ToldOnceInPrompt ==
  \A c \in Callers :
    pc[c] = "idle" /\ reply[c] \in {"loaded", "alreadyLoaded"} =>
      LET shown == {i \in DOMAIN SystemPrompt : /\ SystemPrompt[i].section = "skill"
                                                /\ SystemPrompt[i].skill.name = want[c]}
      IN /\ Cardinality(shown) = 1
         /\ \A i \in shown : SystemPrompt[i].skill.at = MetaOf(want[c]).at
=============================================================================
