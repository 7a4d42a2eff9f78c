---------------------------- MODULE ProviderConfig ----------------------------
(***************************************************************************)
(* Where the provider's key, endpoint and model come from                  *)
(* (internal/provider/config.go).                                          *)
(*                                                                         *)
(* An environment and a .env file are functions from keys to values, with  *)
(* Unset for a key that is missing or blank: firstConfiguredValue treats   *)
(* both alike.  The .env files are those of the working directory and its  *)
(* ancestors, nearest first.                                               *)
(***************************************************************************)
EXTENDS Integers, Sequences, FiniteSetsExt

CONSTANTS
  Unset,          \* no value
  Values,         \* values of keys
  Safe,           \* those that are https or local URLs
  DefaultURL, DefaultModel

Keys == {"LLM_API_KEY", "MINIMAX_API_KEY", "ZHIPU_API_KEY", "LLM_BASE_URL", "LLM_MODEL"}
ApiKeys == <<"LLM_API_KEY", "MINIMAX_API_KEY", "ZHIPU_API_KEY">>

Settings == [Keys -> Values \cup {Unset}]

ASSUME ConfigAssumption ==
  /\ Unset \notin Values /\ Safe \subseteq Values
  /\ DefaultURL \notin Values /\ DefaultModel \notin Values

\* maxDotEnvDepth.
MaxDotEnvDepth == 4

\* A .env: none, a directory, one that cannot be looked at or read, or settings.
DotEnv == [kind : {"none", "dir", "broken"}] \cup [kind : {"file"}, settings : Settings]

NoSettings == [key \in Keys |-> Unset]

\* The directories looked into: the first few, or fewer at the root.
Searched(levels) == {d \in DOMAIN levels : d <= MaxDotEnvDepth}

\* A directory named .env is passed over like a missing one.
ReadDotEnvUpward(levels) ==
  LET there == {d \in Searched(levels) : levels[d].kind \in {"broken", "file"}}
  IN IF there = {} THEN [ok |-> TRUE, settings |-> NoSettings]
     ELSE LET nearest == levels[Min(there)] IN
          IF nearest.kind = "broken" THEN [ok |-> FALSE]
          ELSE [ok |-> TRUE, settings |-> nearest.settings]

\* Mutant: the whole environment is asked before the .env file.
FirstConfiguredValue_EnvFirst(env, dotEnv, keys) ==
  LET asked == [i \in 1..(2 * Len(keys)) |->
                 IF i <= Len(keys) THEN env[keys[i]] ELSE dotEnv[keys[i - Len(keys)]]]
      set == {i \in DOMAIN asked : asked[i] # Unset}
  IN IF set = {} THEN Unset ELSE asked[Min(set)]

\* Key by key, the environment and then the .env file.
FirstConfiguredValue(env, dotEnv, keys) ==
  LET asked == [i \in 1..(2 * Len(keys)) |->
                 IF i % 2 = 1 THEN env[keys[(i + 1) \div 2]] ELSE dotEnv[keys[i \div 2]]]
      set == {i \in DOMAIN asked : asked[i] # Unset}
  IN IF set = {} THEN Unset ELSE asked[Min(set)]

\* validateBaseURL accepts.
ValidBaseURL(url) == url \in Safe

\* LoadConfigFromDir: a configuration, or the step that failed.
LoadConfig(env, levels) ==
  LET dotEnv == ReadDotEnvUpward(levels)
      First(keys) == FirstConfiguredValue(env, dotEnv.settings, keys)
      Or(key, default) == IF First(<<key>>) = Unset THEN default ELSE First(<<key>>)
  IN CASE ~dotEnv.ok -> [error |-> "dotenv"]
       [] dotEnv.ok /\ First(ApiKeys) = Unset -> [error |-> "apiKey"]
       [] /\ dotEnv.ok /\ First(ApiKeys) # Unset
          /\ First(<<"LLM_BASE_URL">>) # Unset
          /\ ~ValidBaseURL(First(<<"LLM_BASE_URL">>)) -> [error |-> "baseURL"]
       [] OTHER -> [error |-> "none", apiKey |-> First(ApiKeys),
                    baseURL |-> Or("LLM_BASE_URL", DefaultURL),
                    model |-> Or("LLM_MODEL", DefaultModel)]
=============================================================================
