------------------------------ MODULE MCStartup ------------------------------
(***************************************************************************)
(* Instances of Startup for TLC.  Three families of starts: every place a  *)
(* setting may come from, every pair of skill directories, every session.  *)
(***************************************************************************)
EXTENDS Startup

Doc(name, described, body) ==
  [fenced |-> TRUE, name |-> name, described |-> described, oneLine |-> TRUE, body |-> body]

MCFiles == {Doc("a", TRUE, 1), Doc("a", TRUE, 2), Doc("b", TRUE, 1), Doc("b", FALSE, 1)}

At(kind, file) == [kind |-> kind, file |-> file]
MCPlaces ==
  {At("absent", NoFile), At("dir", NoFile), At("dirLink", Doc("a", TRUE, 1)),
   At("fileLink", Doc("a", TRUE, 1))}
    \cup {At("dir", file) : file \in MCFiles}

NoTree == [e \in Entry |-> At("absent", NoFile)]
OneTree == [NoTree EXCEPT ![1] = At("dir", Doc("a", TRUE, 1))]

Given1(key, value) == [NoSettings EXCEPT ![key] = value]

Plain ==
  [prompt |-> TRUE, provider |-> "openai", model |-> Unset, strategy |-> "window",
   session |-> NoId, env |-> Given1("LLM_API_KEY", "https"), levels |-> <<>>,
   tree |-> NoTree, agents |-> "absent", disk |-> [id \in Ids |-> Missing], edits |-> 0]

\* Up to two settings in the environment and two in the nearest .env.
SomeSettings ==
  {[NoSettings EXCEPT ![k] = v, ![l] = w] :
     k \in {"LLM_API_KEY", "ZHIPU_API_KEY"}, l \in {"LLM_BASE_URL", "LLM_MODEL"},
     v \in Values \cup {Unset}, w \in Values \cup {Unset}}

Nothing == [kind |-> "none"]
Says(settings) == [kind |-> "file", settings |-> settings]
Far == Says([key \in Keys |-> "far"])

Levels ==
  {<<Says(settings), Far>> : settings \in SomeSettings}
    \cup {<<[kind |-> "dir"], Far>>, <<[kind |-> "broken"], Far>>,
          <<Nothing, Nothing, Nothing, Far>>, <<Nothing, Nothing, Nothing, Nothing, Far>>}

ConfigWorlds ==
  {[Plain EXCEPT !.env = env, !.levels = levels, !.model = m] :
     env \in SomeSettings, levels \in Levels, m \in {Unset, "far"}}
    \cup {[Plain EXCEPT !.prompt = FALSE], [Plain EXCEPT !.provider = "other"],
          [Plain EXCEPT !.provider = "claude"]}

SkillWorlds ==
  {[Plain EXCEPT !.tree = dirs, !.agents = "text", !.edits = 1] : dirs \in [Entry -> MCPlaces]}
    \cup {[Plain EXCEPT !.tree = OneTree, !.agents = what] : what \in {"notFile", "unreadable"}}

SessionWorlds ==
  {[Plain EXCEPT !.session = session, !.strategy = strategy, !.disk = files, !.edits = 2] :
     session \in Ids \cup {NoId, BadId}, strategy \in {"window", "other"},
     files \in [Ids -> {Missing, <<>>, <<"whole">>, <<"whole", "torn">>}]}

MCWorlds == ConfigWorlds \cup SkillWorlds \cup SessionWorlds
=============================================================================
