---------------------------- MODULE StartupProofs ---------------------------
(***************************************************************************)
(* Proofs about Startup with SkillManager and ProviderConfig, for any      *)
(* number of skill directories, callers, sessions and calls, and for every *)
(* world the program may be started in.                                    *)
(***************************************************************************)
EXTENDS Startup, FiniteSetTheorems, SequenceTheorems, TLAPS

Skill == [name : Names, at : Entry]
Loaded == [name : Names, at : Entry, body : Nat]

\* The skills' variables.
SkillTypeOK ==
  /\ tree \in [Entry -> Places] /\ listed \in [Entry -> Kinds]
  /\ agents \in {"absent", "text", "notFile", "unreadable"}
  /\ scanned \in -1..NEntries /\ catalog \in Seq(Skill)
  /\ loaded \in Seq(Loaded)
  /\ pc \in [Callers -> {"idle", "read", "insert"}]
  /\ want \in [Callers -> Names \cup {NoName}]
  /\ got \in [Callers -> Files \cup {NoFile}]
  /\ reply \in [Callers -> {"none", "unknown", "error", "alreadyLoaded", "loaded"}]
  /\ calls \in Nat /\ changes \in Nat

\* The variables of main.
MainTypeOK ==
  /\ world \in World
  /\ stage \in {"prompt", "provider", "context", "trimmer", "session", "read", "open",
                "running", "failed"}
  /\ disk \in [Ids -> Seq(Line) \cup {Missing}] /\ made \subseteq Ids

TypeOK == SkillTypeOK /\ MainTypeOK

-----------------------------------------------------------------------------
(* The inductive invariant.                                                *)

Usable(e) == tree[e].kind = "dir" /\ Parses(tree[e].file)

At == {catalog[i].at : i \in DOMAIN catalog}

\* Nobody usable before e has its name.
FirstOfName(e) == \A d \in Entry : d < e /\ Usable(d) => tree[d].file.name # tree[e].file.name

\* The catalogue is in lexical order without repetition.  As long as nobody
\* edited a directory it holds every name that could be used up to now, each
\* from the first place it was found in.
CatalogInv ==
  /\ scanned = -1 => catalog = <<>>
  /\ \A i \in DOMAIN catalog : catalog[i].at <= scanned
  /\ \A i, j \in DOMAIN catalog :
       i < j => catalog[i].name # catalog[j].name /\ catalog[i].at < catalog[j].at
  /\ changes = 0 /\ scanned >= 0 =>
       /\ \A e \in Entry : listed[e] = tree[e].kind
       /\ NamesIn(catalog) = {tree[d].file.name : d \in {e \in Entry : e <= scanned /\ Usable(e)}}
       /\ \A e \in Entry : e <= scanned => (e \in At <=> Usable(e) /\ FirstOfName(e))

\* Nothing is loaded while the catalogue may change; from then on every loaded
\* skill has a name and a place of the catalogue, and stands among the loaded
\* ones once; who waits to insert holds a file of the name it wants.
LoadInv ==
  /\ ~ManagerReady => loaded = <<>> /\ \A c \in Callers : pc[c] = "idle" /\ reply[c] = "none"
  /\ \A i \in DOMAIN loaded : loaded[i].at = MetaOf(loaded[i].name).at
  /\ \A i, j \in DOMAIN loaded : i # j => loaded[i].name # loaded[j].name
  /\ \A c \in Callers : pc[c] \in {"read", "insert"} => want[c] \in NamesIn(catalog)
  /\ \A c \in Callers : pc[c] = "insert" => got[c] # NoFile /\ got[c].name = want[c]
  /\ \A c \in Callers :
       pc[c] = "idle" /\ reply[c] \in {"loaded", "alreadyLoaded"} => want[c] \in NamesIn(loaded)

SkillInv == SkillTypeOK /\ CatalogInv /\ LoadInv

\* The settings are those LoadConfig found, and no file is made before main is
\* past everything that may fail.
MainInv ==
  /\ MainTypeOK
  /\ stage # "running" => made = {}
  /\ config.error = "none" =>
       /\ config = LoadConfig(world.env, world.levels)
       /\ model = IF world.model = Unset THEN config.model ELSE world.model

IInv == SkillInv /\ MainInv
-----------------------------------------------------------------------------
(* The skills.                                                             *)

LEMMA SkillStutter == ASSUME SkillInv, UNCHANGED skillVars PROVE SkillInv'
  <1> USE DEF skillVars, scanVars, callVars
  <1>1. SkillTypeOK'
    BY DEF SkillInv, SkillTypeOK
  <1>2. CatalogInv'
    <2>1. NamesIn(catalog)' = NamesIn(catalog) /\ At' = At
      BY DEF NamesIn, At
    <2>2. \A e : Usable(e)' = Usable(e) /\ FirstOfName(e)' = FirstOfName(e)
      BY DEF Usable, FirstOfName
    <2>3. {tree[d].file.name : d \in {e \in Entry : e <= scanned /\ Usable(e)}}'
            = {tree[d].file.name : d \in {e \in Entry : e <= scanned /\ Usable(e)}}
      BY DEF Usable
    <2> QED BY <2>1, <2>2, <2>3 DEF SkillInv, CatalogInv
  <1>3. LoadInv'
    BY DEF SkillInv, LoadInv, ManagerReady, MetaOf, NamesIn
  <1> QED BY <1>1, <1>2, <1>3 DEF SkillInv

LEMMA ListSkillsInv == ASSUME SkillInv, ListSkills PROVE SkillInv'
  <1> USE DEF ListSkills, callVars
  <1>1. NEntries \in Nat /\ Places \subseteq Place
    BY SkillAssumption
  <1>2. \A e \in Entry : tree[e].kind \in Kinds
    BY <1>1 DEF SkillInv, SkillTypeOK, Place
  <1>3. SkillTypeOK'
    BY <1>1, <1>2 DEF SkillInv, SkillTypeOK
  <1>4. catalog = <<>> /\ catalog' = <<>>
    BY DEF SkillInv, CatalogInv
  <1>5. CatalogInv'
    <2>1. NamesIn(catalog)' = {} /\ At' = {}
      BY <1>4 DEF NamesIn, At
    <2>2. \A e \in Entry : ~(e <= scanned') /\ listed'[e] = tree'[e].kind
      BY DEF Entry
    <2> QED BY <1>4, <2>1, <2>2 DEF CatalogInv
  <1>6. LoadInv'
    BY <1>1 DEF SkillInv, LoadInv, ManagerReady, MetaOf, NamesIn
  <1> QED BY <1>3, <1>5, <1>6 DEF SkillInv

\* What the parser accepts has a name.
LEMMA ParsedName ==
  ASSUME NEW file \in Files \cup {NoFile}, Parses(file)
  PROVE  file \in File /\ file.name \in Names /\ file.body \in Nat
  BY SkillAssumption DEF Parses, File

LEMMA ScanEntryInv == ASSUME SkillInv, ScanEntry PROVE SkillInv'
  <1> USE DEF ScanEntry, callVars
  <1> DEFINE e == scanned + 1
             new == [name |-> tree[e].file.name, at |-> e]
  <1>1. NEntries \in Nat /\ Places \subseteq Place /\ scanned \in Int /\ e \in Entry
    BY SkillAssumption DEF SkillInv, SkillTypeOK, Entry
  <1>2. tree[e].file \in Files \cup {NoFile} /\ tree[e].kind \in Kinds
    BY <1>1 DEF SkillInv, SkillTypeOK, Place
  <1>3. Listable(e) => new \in Skill
    BY <1>1, <1>2, ParsedName DEF Listable, Skill
  <1>4. catalog \in Seq(Skill)
    BY DEF SkillInv, SkillTypeOK
  <1>5. catalog' \in Seq(Skill)
    BY <1>3, <1>4
  <1>6. SkillTypeOK'
    BY <1>1, <1>5 DEF SkillInv, SkillTypeOK
  <1>7. LoadInv'
    BY <1>1 DEF SkillInv, LoadInv, ManagerReady, NamesIn
  <1>8. CASE Listable(e)
    <2>1. /\ Len(catalog') = Len(catalog) + 1 /\ Len(catalog) \in Nat
          /\ \A i \in DOMAIN catalog : catalog'[i] = catalog[i] /\ i \in 1..Len(catalog)
          /\ catalog'[Len(catalog) + 1] = new
          /\ DOMAIN catalog = 1..Len(catalog) /\ DOMAIN catalog' = 1..(Len(catalog) + 1)
      BY <1>3, <1>4, <1>8
    <2>2. NamesIn(catalog') = NamesIn(catalog) \cup {tree[e].file.name}
      BY <2>1 DEF NamesIn
    <2>3. At' = At \cup {e}
      BY <2>1 DEF At
    <2>4. \A i \in DOMAIN catalog : catalog[i].at \in Int /\ catalog[i].at <= scanned
      <3>1. \A i \in DOMAIN catalog : catalog[i] \in Skill
        BY <1>4
      <3>2. \A i \in DOMAIN catalog : catalog[i].at \in Int
        BY <1>1, <3>1 DEF Skill, Entry
      <3> QED BY <3>2 DEF SkillInv, CatalogInv
    <2>5. \A i \in DOMAIN catalog' : catalog'[i].at <= scanned'
      BY <1>1, <2>1, <2>4
    <2>6. ASSUME NEW i \in DOMAIN catalog', NEW j \in DOMAIN catalog', i < j
          PROVE  catalog'[i].name # catalog'[j].name /\ catalog'[i].at < catalog'[j].at
      <3>1. CASE j \in DOMAIN catalog
        BY <2>1, <2>6, <3>1 DEF SkillInv, CatalogInv
      <3>2. CASE j = Len(catalog) + 1
        <4>1. i \in DOMAIN catalog /\ catalog'[i] = catalog[i]
          BY <2>1, <2>6, <3>2
        <4>2. catalog[i].name # tree[e].file.name
          BY <1>8, <4>1 DEF Listable, NamesIn
        <4> QED BY <1>1, <2>1, <2>4, <3>2, <4>1, <4>2
      <3> QED BY <2>1, <2>6, <3>1, <3>2
    <2>7. ASSUME changes = 0
          PROVE  /\ \A d \in Entry : listed[d] = tree[d].kind
                 /\ NamesIn(catalog') =
                      {tree[d].file.name : d \in {f \in Entry : f <= scanned' /\ Usable(f)}}
                 /\ \A d \in Entry : d <= scanned' => (d \in At' <=> Usable(d) /\ FirstOfName(d))
      <3>1. /\ \A d \in Entry : listed[d] = tree[d].kind
            /\ NamesIn(catalog) =
                 {tree[d].file.name : d \in {f \in Entry : f <= scanned /\ Usable(f)}}
            /\ \A d \in Entry : d <= scanned => (d \in At <=> Usable(d) /\ FirstOfName(d))
        BY <2>7 DEF SkillInv, CatalogInv
      <3>2. Usable(e)
        BY <1>1, <1>8, <3>1 DEF Listable, Usable
      <3>3. \A d \in Entry : d \in Int /\ (d <= scanned' <=> d <= scanned \/ d = e)
        BY <1>1 DEF Entry
      <3>4. FirstOfName(e)
        BY <1>1, <1>8, <3>1 DEF FirstOfName, Listable, Entry
      <3>5. {f \in Entry : f <= scanned' /\ Usable(f)}
              = {f \in Entry : f <= scanned /\ Usable(f)} \cup {e}
        BY <1>1, <3>2, <3>3
      <3>6. e \notin At
        BY <1>1, <2>4 DEF At
      <3> QED BY <1>1, <2>2, <2>3, <3>1, <3>2, <3>3, <3>4, <3>5, <3>6
    <2>8. CatalogInv'
      BY <1>1, <2>5, <2>6, <2>7 DEF CatalogInv, Usable, FirstOfName
    <2> QED BY <1>6, <1>7, <2>8 DEF SkillInv
  <1>9. CASE ~Listable(e)
    <2>1. catalog' = catalog /\ At' = At
      BY <1>9 DEF At
    <2>2. \A i \in DOMAIN catalog : catalog[i].at \in Int /\ catalog[i].at <= scanned
      <3>1. \A i \in DOMAIN catalog : catalog[i] \in Skill
        BY <1>4
      <3>2. \A i \in DOMAIN catalog : catalog[i].at \in Int
        BY <1>1, <3>1 DEF Skill, Entry
      <3> QED BY <3>2 DEF SkillInv, CatalogInv
    <2>3. ASSUME changes = 0
          PROVE  /\ \A d \in Entry : listed[d] = tree[d].kind
                 /\ NamesIn(catalog) =
                      {tree[d].file.name : d \in {f \in Entry : f <= scanned' /\ Usable(f)}}
                 /\ \A d \in Entry : d <= scanned' => (d \in At <=> Usable(d) /\ FirstOfName(d))
      <3>1. /\ \A d \in Entry : listed[d] = tree[d].kind
            /\ NamesIn(catalog) =
                 {tree[d].file.name : d \in {f \in Entry : f <= scanned /\ Usable(f)}}
            /\ \A d \in Entry : d <= scanned => (d \in At <=> Usable(d) /\ FirstOfName(d))
        BY <2>3 DEF SkillInv, CatalogInv
      <3>2. Usable(e) => tree[e].file.name \in NamesIn(catalog)
        BY <1>1, <1>9, <3>1 DEF Listable, Usable
      <3>3. \A d \in Entry : d \in Int /\ (d <= scanned' <=> d <= scanned \/ d = e)
        BY <1>1 DEF Entry
      <3>4. {tree[d].file.name : d \in {f \in Entry : f <= scanned' /\ Usable(f)}}
              = NamesIn(catalog)
        BY <3>1, <3>2, <3>3
      <3>5. Usable(e) => ~FirstOfName(e)
        BY <1>1, <3>1, <3>2 DEF FirstOfName, Entry
      <3>6. e \notin At
        BY <1>1, <2>2 DEF At
      <3> QED BY <3>1, <3>3, <3>4, <3>5, <3>6
    <2>4. CatalogInv'
      BY <1>1, <2>1, <2>2, <2>3 DEF SkillInv, CatalogInv, Usable, FirstOfName
    <2> QED BY <1>6, <1>7, <2>4 DEF SkillInv
  <1> QED BY <1>8, <1>9

\* What an operation on the loaded skills leaves of the catalogue's part.
LEMMA CatalogKept ==
  ASSUME SkillInv, UNCHANGED <<tree, scanVars, changes>>
  PROVE  CatalogInv'
  <1> USE DEF scanVars
  <1>1. NamesIn(catalog)' = NamesIn(catalog) /\ At' = At
    BY DEF NamesIn, At
  <1>2. \A e : Usable(e)' = Usable(e) /\ FirstOfName(e)' = FirstOfName(e)
    BY DEF Usable, FirstOfName
  <1>3. {tree[d].file.name : d \in {e \in Entry : e <= scanned /\ Usable(e)}}'
          = {tree[d].file.name : d \in {e \in Entry : e <= scanned /\ Usable(e)}}
    BY DEF Usable
  <1> QED BY <1>1, <1>2, <1>3 DEF SkillInv, CatalogInv

LEMMA CallLoadSkillInv ==
  ASSUME SkillInv, NEW c \in Callers, CallLoadSkill(c) PROVE SkillInv'
  <1> USE DEF CallLoadSkill, Reply, scanVars
  <1>1. PICK name \in Names \cup {NoName} :
          /\ want' = [want EXCEPT ![c] = name]
          /\ IF name \in NamesIn(catalog)
             THEN pc' = [pc EXCEPT ![c] = "read"] /\ UNCHANGED reply
             ELSE Reply(c, "unknown")
    OBVIOUS
  <1>2. SkillTypeOK'
    BY <1>1 DEF SkillInv, SkillTypeOK
  <1>3. CatalogInv'
    BY CatalogKept
  <1>4. LoadInv'
    <2>1. ManagerReady' /\ NamesIn(catalog)' = NamesIn(catalog) /\ NamesIn(loaded)' = NamesIn(loaded)
      BY DEF ManagerReady, NamesIn
    <2>2. \A d \in Callers : d # c => pc'[d] = pc[d] /\ reply'[d] = reply[d] /\ want'[d] = want[d]
      BY <1>1 DEF SkillInv, SkillTypeOK
    <2>3. want'[c] = name /\ (name \in NamesIn(catalog) => pc'[c] = "read")
          /\ (name \notin NamesIn(catalog) => pc'[c] = "idle" /\ reply'[c] = "unknown")
      BY <1>1 DEF SkillInv, SkillTypeOK
    <2>4. \A d \in Callers : pc'[d] \in {"read", "insert"} => want'[d] \in NamesIn(catalog)
      BY <2>2, <2>3 DEF SkillInv, LoadInv
    <2>5. \A d \in Callers : pc'[d] = "insert" => got[d] # NoFile /\ got[d].name = want'[d]
      BY <2>2, <2>3 DEF SkillInv, LoadInv
    <2>6. \A d \in Callers :
            pc'[d] = "idle" /\ reply'[d] \in {"loaded", "alreadyLoaded"} => want'[d] \in NamesIn(loaded)
      BY <2>2, <2>3 DEF SkillInv, LoadInv
    <2> QED BY <2>1, <2>4, <2>5, <2>6 DEF SkillInv, LoadInv, MetaOf
  <1> QED BY <1>2, <1>3, <1>4 DEF SkillInv

\* The entry of the catalogue a listed name stands for.
LEMMA MetaListed ==
  ASSUME NEW name \in NamesIn(catalog), catalog \in Seq(Skill)
  PROVE  MetaOf(name) \in Skill /\ MetaOf(name).name = name /\ MetaOf(name).at \in Entry
  <1>1. \E i \in DOMAIN catalog : catalog[i].name = name
    BY DEF NamesIn
  <1>2. PICK i \in DOMAIN catalog : catalog[i].name = name /\ MetaOf(name) = catalog[i]
    BY <1>1 DEF MetaOf
  <1>3. catalog[i] \in Skill
    BY <1>2
  <1> QED BY <1>2, <1>3 DEF Skill

\* A caller that waits has a manager that is ready.
LEMMA Waiting ==
  ASSUME SkillInv, NEW c \in Callers, pc[c] # "idle" PROVE ManagerReady
  BY DEF SkillInv, LoadInv

LEMMA ReadBodyInv ==
  ASSUME SkillInv, NEW c \in Callers, ReadBody(c) PROVE SkillInv'
  <1> USE DEF ReadBody, Reply, scanVars
  <1> DEFINE place == tree[MetaOf(want[c]).at]
  <1>1. want[c] \in NamesIn(catalog) /\ ManagerReady /\ ManagerReady'
    BY Waiting DEF SkillInv, LoadInv, ManagerReady
  <1>2. place \in Place
    <2>1. MetaOf(want[c]).at \in Entry
      BY <1>1, MetaListed DEF SkillInv, SkillTypeOK
    <2> QED BY <2>1, SkillAssumption DEF SkillInv, SkillTypeOK
  <1>3. place.file \in Files \cup {NoFile}
    BY <1>2 DEF Place
  <1>4. SkillTypeOK'
    BY <1>3 DEF SkillInv, SkillTypeOK
  <1>5. CatalogInv'
    BY CatalogKept
  <1>6. LoadInv'
    <2>1. NamesIn(catalog)' = NamesIn(catalog) /\ NamesIn(loaded)' = NamesIn(loaded)
      BY DEF NamesIn
    <2>2. \A d \in Callers : d # c => pc'[d] = pc[d] /\ reply'[d] = reply[d] /\ got'[d] = got[d]
      BY DEF SkillInv, SkillTypeOK
    <2>3. \/ pc'[c] = "insert" /\ got'[c] = place.file /\ Loadable(want[c], place)
          \/ pc'[c] = "idle" /\ reply'[c] = "error"
      BY DEF SkillInv, SkillTypeOK
    <2>4. Loadable(want[c], place) => place.file # NoFile /\ place.file.name = want[c]
      BY DEF Loadable, Parses
    <2>5. \A d \in Callers : pc'[d] \in {"read", "insert"} => want[d] \in NamesIn(catalog)
      BY <1>1, <2>2 DEF SkillInv, LoadInv
    <2>6. \A d \in Callers : pc'[d] = "insert" => got'[d] # NoFile /\ got'[d].name = want[d]
      BY <2>2, <2>3, <2>4 DEF SkillInv, LoadInv
    <2>7. \A d \in Callers :
            pc'[d] = "idle" /\ reply'[d] \in {"loaded", "alreadyLoaded"} => want[d] \in NamesIn(loaded)
      BY <2>2, <2>3 DEF SkillInv, LoadInv
    <2> QED BY <1>1, <2>1, <2>5, <2>6, <2>7 DEF SkillInv, LoadInv, MetaOf
  <1> QED BY <1>4, <1>5, <1>6 DEF SkillInv

LEMMA InsertInv ==
  ASSUME SkillInv, NEW c \in Callers, Insert(c) PROVE SkillInv'
  <1> USE DEF Insert, Reply, scanVars
  <1> DEFINE new == [name |-> got[c].name, at |-> MetaOf(want[c]).at, body |-> got[c].body]
  <1>1. want[c] \in NamesIn(catalog) /\ ManagerReady /\ ManagerReady'
    BY Waiting DEF SkillInv, LoadInv, ManagerReady
  <1>2. got[c] # NoFile /\ got[c].name = want[c]
    BY DEF SkillInv, LoadInv
  <1>3. new \in Loaded
    <2>1. MetaOf(want[c]) \in Skill /\ MetaOf(want[c]).name = want[c] /\ MetaOf(want[c]).at \in Entry
      BY <1>1, MetaListed DEF SkillInv, SkillTypeOK
    <2>2. got[c] \in File
      BY <1>2, SkillAssumption DEF SkillInv, SkillTypeOK
    <2>3. got[c].body \in Nat /\ got[c].name \in Names
      BY <1>2, <2>1, <2>2 DEF File, Skill
    <2> QED BY <2>1, <2>3 DEF Loaded
  <1>4. SkillTypeOK'
    <2>1. loaded' \in Seq(Loaded)
      BY <1>3 DEF WithLoadedSkill, SkillInv, SkillTypeOK
    <2> QED BY <2>1 DEF SkillInv, SkillTypeOK
  <1>5. CatalogInv'
    BY CatalogKept
  <1>6. \A d \in Callers : d # c => pc'[d] = pc[d] /\ reply'[d] = reply[d]
    BY DEF SkillInv, SkillTypeOK
  <1>7. pc'[c] = "idle"
    BY DEF SkillInv, SkillTypeOK
  <1>8. \A d \in Callers : pc'[d] \in {"read", "insert"} => d # c /\ pc[d] = pc'[d]
    BY <1>6, <1>7
  <1>9. NamesIn(catalog)' = NamesIn(catalog)
    BY DEF NamesIn
  <1>10. CASE HasLoadedSkill(want[c])
    <2>1. loaded' = loaded /\ NamesIn(loaded)' = NamesIn(loaded) /\ want[c] \in NamesIn(loaded)
      BY <1>10 DEF HasLoadedSkill, NamesIn
    <2>2. \A d \in Callers : pc'[d] = "idle" /\ reply'[d] \in {"loaded", "alreadyLoaded"}
                               => want[d] \in NamesIn(loaded)
      BY <1>6, <2>1 DEF SkillInv, LoadInv
    <2>3. LoadInv'
      BY <1>1, <1>8, <1>9, <2>1, <2>2 DEF SkillInv, LoadInv, MetaOf
    <2> QED BY <1>4, <1>5, <2>3 DEF SkillInv
  <1>11. CASE ~HasLoadedSkill(want[c])
    <2>1. loaded' = Append(loaded, new) /\ new.name = want[c]
      BY <1>2, <1>11 DEF WithLoadedSkill
    <2>2. /\ Len(loaded) \in Nat /\ DOMAIN loaded = 1..Len(loaded)
          /\ DOMAIN loaded' = 1..(Len(loaded) + 1)
          /\ \A i \in DOMAIN loaded : loaded'[i] = loaded[i]
          /\ loaded'[Len(loaded) + 1] = new
      BY <1>3, <2>1 DEF SkillInv, SkillTypeOK
    <2> HIDE DEF new
    <2>8. \A i \in DOMAIN loaded' : i \in DOMAIN loaded \/ i = Len(loaded) + 1
      BY <2>2
    <2>3. NamesIn(loaded)' = NamesIn(loaded) \cup {want[c]}
      <3>2. Len(loaded) + 1 \in DOMAIN loaded' /\ DOMAIN loaded \subseteq DOMAIN loaded'
        BY <2>2
      <3> QED BY <2>1, <2>2, <2>8, <3>2 DEF NamesIn
    <2>4. \A i \in DOMAIN loaded' : loaded'[i].at = MetaOf(loaded'[i].name).at
      BY <1>2, <2>2 DEF SkillInv, LoadInv, new
    <2>5. \A i, j \in DOMAIN loaded' : i # j => loaded'[i].name # loaded'[j].name
      <3>1. \A i \in DOMAIN loaded : loaded[i].name # want[c]
        BY <1>11 DEF HasLoadedSkill, NamesIn
      <3>2. \A i \in DOMAIN loaded' :
              \/ i \in DOMAIN loaded /\ loaded'[i].name = loaded[i].name
              \/ i = Len(loaded) + 1 /\ loaded'[i].name = want[c]
        <4>1. \A i \in DOMAIN loaded : loaded'[i].name = loaded[i].name
          BY <2>2
        <4>2. loaded'[Len(loaded) + 1].name = want[c]
          BY <2>1, <2>2
        <4> QED BY <2>8, <4>1, <4>2
      <3> QED BY <3>1, <3>2 DEF SkillInv, LoadInv
    <2>6. \A d \in Callers : pc'[d] = "idle" /\ reply'[d] \in {"loaded", "alreadyLoaded"}
                               => want[d] \in NamesIn(loaded)'
      BY <1>6, <2>3 DEF SkillInv, LoadInv
    <2>7. LoadInv'
      BY <1>1, <1>8, <1>9, <2>4, <2>5, <2>6 DEF SkillInv, LoadInv, MetaOf
    <2> QED BY <1>4, <1>5, <2>7 DEF SkillInv
  <1> QED BY <1>10, <1>11

LEMMA ChangeTreeInv == ASSUME SkillInv, ChangeTree PROVE SkillInv'
  <1> USE DEF ChangeTree, scanVars, callVars
  <1>1. SkillTypeOK'
    BY DEF SkillInv, SkillTypeOK
  <1>2. CatalogInv'
    <2>1. changes' # 0
      BY DEF SkillInv, SkillTypeOK
    <2> QED BY <2>1 DEF SkillInv, CatalogInv
  <1>3. LoadInv'
    BY DEF SkillInv, LoadInv, ManagerReady, MetaOf, NamesIn
  <1> QED BY <1>1, <1>2, <1>3 DEF SkillInv

-----------------------------------------------------------------------------
(* The settings.                                                           *)

\* The least of a few numbers: there are three API keys in two places, and
\* four directories.
LEMMA LeastOfFew ==
  ASSUME NEW S \in SUBSET (1..6), S # {}
  PROVE  Min(S) \in S /\ \A y \in S : Min(S) <= y
  <1>1. \E x \in S : \A y \in S : x <= y
    <2>1. CASE 1 \in S
      BY <2>1
    <2>2. CASE 1 \notin S /\ 2 \in S
      BY <2>2
    <2>3. CASE 1 \notin S /\ 2 \notin S /\ 3 \in S
      BY <2>3
    <2>4. CASE 1 \notin S /\ 2 \notin S /\ 3 \notin S /\ 4 \in S
      BY <2>4
    <2>5. CASE 1 \notin S /\ 2 \notin S /\ 3 \notin S /\ 4 \notin S /\ 5 \in S
      BY <2>5
    <2>6. CASE 1 \notin S /\ 2 \notin S /\ 3 \notin S /\ 4 \notin S /\ 5 \notin S
      <3>1. \A y \in S : y = 6
        BY <2>6
      <3>2. PICK x \in S : TRUE
        OBVIOUS
      <3> QED BY <3>1, <3>2
    <2> QED BY <2>1, <2>2, <2>3, <2>4, <2>5, <2>6
  <1> QED BY <1>1 DEF Min

\* What firstConfiguredValue returns for up to three keys: the value of the
\* first key that has one, its own in the environment before that in the .env.
LEMMA FirstConfigured ==
  ASSUME NEW env \in Settings, NEW dotEnv \in Settings, NEW keys \in Seq(Keys), Len(keys) <= 3,
         NEW value, value = FirstConfiguredValue(env, dotEnv, keys)
  PROVE  /\ value = Unset => \A k \in 1..Len(keys) : env[keys[k]] = Unset /\ dotEnv[keys[k]] = Unset
         /\ value # Unset =>
              \E k \in 1..Len(keys) :
                /\ env[keys[k]] = value \/ (env[keys[k]] = Unset /\ dotEnv[keys[k]] = value)
                /\ \A j \in 1..(k - 1) : env[keys[j]] = Unset /\ dotEnv[keys[j]] = Unset
  <1> DEFINE n == Len(keys)
             asked == [i \in 1..(2 * n) |->
                        IF i % 2 = 1 THEN env[keys[(i + 1) \div 2]] ELSE dotEnv[keys[i \div 2]]]
             set == {i \in DOMAIN asked : asked[i] # Unset}
  <1>1. n \in 0..3 /\ DOMAIN asked = 1..(2 * n)
    <2>1. n \in Nat /\ n <= 3
      OBVIOUS
    <2>2. DOMAIN asked = 1..(2 * n)
      OBVIOUS
    <2> HIDE DEF n, asked
    <2> QED BY <2>1, <2>2
  <1>2. value = IF set = {} THEN Unset ELSE asked[Min(set)]
    BY DEF FirstConfiguredValue
  <1>3. \A k \in 1..n : asked[2 * k - 1] = env[keys[k]] /\ asked[2 * k] = dotEnv[keys[k]]
    <2> SUFFICES ASSUME NEW k \in 1..n
                 PROVE  asked[2 * k - 1] = env[keys[k]] /\ asked[2 * k] = dotEnv[keys[k]]
      OBVIOUS
    <2>1. 2 * k - 1 \in 1..(2 * n) /\ 2 * k \in 1..(2 * n)
      BY <1>1
    <2>2. (2 * k - 1) % 2 = 1 /\ ((2 * k - 1) + 1) \div 2 = k /\ (2 * k) % 2 = 0 /\ (2 * k) \div 2 = k
      BY <1>1
    <2> QED BY <2>1, <2>2
  <1>4. \A k \in 1..n : 2 * k - 1 \in DOMAIN asked /\ 2 * k \in DOMAIN asked
    BY <1>1
  <1>5. \A m \in DOMAIN asked : \E k \in 1..n : m = 2 * k - 1 \/ m = 2 * k
    <2> SUFFICES ASSUME NEW m \in 1..(2 * n) PROVE \E k \in 1..n : m = 2 * k - 1 \/ m = 2 * k
      BY <1>1
    <2>1. (m + 1) \div 2 \in 1..n /\ (m = 2 * ((m + 1) \div 2) - 1 \/ m = 2 * ((m + 1) \div 2))
      BY <1>1
    <2> QED BY <2>1
  <1> HIDE DEF asked
  <1>6. CASE set = {}
    <2>1. \A m \in DOMAIN asked : asked[m] = Unset
      BY <1>6
    <2>2. \A k \in 1..n : env[keys[k]] = Unset /\ dotEnv[keys[k]] = Unset
      BY <1>3, <1>4, <2>1
    <2> QED BY <1>2, <1>6, <2>2
  <1>7. CASE set # {}
    <2> DEFINE m == Min(set)
    <2>1. set \in SUBSET (1..6)
      BY <1>1
    <2>2. m \in set /\ \A y \in set : m <= y
      BY <1>7, <2>1, LeastOfFew
    <2>3. value = asked[m] /\ value # Unset /\ m \in DOMAIN asked
      BY <1>2, <1>7, <2>2
    <2>4. \A y \in DOMAIN asked : y < m => asked[y] = Unset
      <3>1. m \in Int /\ \A y \in DOMAIN asked : y \in Int
        BY <1>1, <2>1, <2>2
      <3> SUFFICES ASSUME NEW y \in DOMAIN asked, y < m, asked[y] # Unset PROVE FALSE
        OBVIOUS
      <3>2. y \in set
        OBVIOUS
      <3> HIDE DEF m, set
      <3> QED BY <2>2, <3>1, <3>2
    <2> HIDE DEF m, set
    <2>5. PICK k \in 1..n : m = 2 * k - 1 \/ m = 2 * k
      BY <1>5, <2>3
    <2>6. \A j \in 1..(k - 1) : j \in 1..n /\ 2 * j - 1 < m /\ 2 * j < m
      BY <1>1, <2>5
    <2>7. \A j \in 1..(k - 1) : env[keys[j]] = Unset /\ dotEnv[keys[j]] = Unset
      BY <1>3, <1>4, <2>4, <2>6
    <2>8. env[keys[k]] = value \/ (env[keys[k]] = Unset /\ dotEnv[keys[k]] = value)
      <3>1. CASE m = 2 * k - 1
        BY <1>3, <2>3, <2>5, <3>1
      <3>2. CASE m = 2 * k
        <4>1. 2 * k - 1 \in DOMAIN asked /\ 2 * k - 1 < m
          BY <1>1, <1>4, <2>5, <3>2
        <4>2. env[keys[k]] = Unset
          BY <1>3, <2>4, <2>5, <4>1
        <4> QED BY <1>3, <2>3, <2>5, <3>2, <4>2
      <3> QED BY <2>5, <3>1, <3>2
    <2> QED BY <2>3, <2>5, <2>7, <2>8
  <1> QED BY <1>6, <1>7

\* What ReadDotEnvUpward finds is what the nearest .env within reach says.
LEMMA NearestDotEnv ==
  ASSUME world \in World, NEW dotEnv, dotEnv = ReadDotEnvUpward(world.levels), dotEnv.ok
  PROVE  /\ dotEnv.settings \in Settings
         /\ \A key \in Keys, value \in Values : DotEnvSays(key, value) <=> dotEnv.settings[key] = value
  <1> DEFINE levels == world.levels
             there == {d \in Searched(levels) : levels[d].kind \in {"broken", "file"}}
  <1>1. levels \in Seq(DotEnv)
    BY DEF World
  <1>2. /\ \A d \in DOMAIN levels : levels[d] \in DotEnv
        /\ DOMAIN levels = 1..Len(levels) /\ Len(levels) \in Nat
    BY <1>1
  <1>3. \A d \in DOMAIN levels : levels[d].kind = "file" => levels[d].settings \in Settings
    BY <1>2 DEF DotEnv
  <1>4. there \in SUBSET (1..4) /\ \A d \in there : d \in DOMAIN levels
    BY <1>2 DEF Searched, MaxDotEnvDepth
  <1>5. CASE there = {}
    <2>1. dotEnv = [ok |-> TRUE, settings |-> NoSettings]
      BY <1>5 DEF ReadDotEnvUpward
    <2>2. NoSettings \in Settings /\ \A key \in Keys : NoSettings[key] = Unset
      BY DEF NoSettings, Settings
    <2>3. ASSUME NEW key \in Keys, NEW value \in Values PROVE ~DotEnvSays(key, value)
      BY <1>2, <1>5 DEF DotEnvSays, Searched, MaxDotEnvDepth
    <2> QED BY <2>1, <2>2, <2>3, ConfigAssumption
  <1>6. CASE there # {}
    <2> DEFINE m == Min(there)
    <2>1. m \in there /\ \A y \in there : m <= y
      BY <1>4, <1>6, LeastOfFew
    <2>2. levels[m].kind = "file" /\ dotEnv.settings = levels[m].settings
      BY <1>6, <2>1 DEF ReadDotEnvUpward
    <2>3. m \in 1..4 /\ m \in DOMAIN levels
      BY <1>4, <2>1
    <2>4. \A d \in DOMAIN levels : d < m => levels[d].kind \notin {"file", "broken"}
      <3> SUFFICES ASSUME NEW d \in DOMAIN levels, d < m, levels[d].kind \in {"file", "broken"}
                   PROVE  FALSE
        OBVIOUS
      <3>1. m \in 1..4 /\ d \in Int
        BY <1>2, <2>3
      <3>2. d \in there
        <4> HIDE DEF m
        <4> QED BY <3>1 DEF Searched, MaxDotEnvDepth
      <3> HIDE DEF m, there
      <3> QED BY <2>1, <3>1, <3>2
    <2>5. \A n \in 1..(m - 1) : n \in DOMAIN levels /\ n < m
      BY <1>2, <2>3
    <2> HIDE DEF m
    <2>6. \A key, value : levels[m].settings[key] = value => DotEnvSays(key, value)
      BY <2>2, <2>3, <2>4, <2>5 DEF DotEnvSays, MaxDotEnvDepth
    <2>7. ASSUME NEW key, NEW value, DotEnvSays(key, value) PROVE levels[m].settings[key] = value
      <3>1. PICK d \in 1..4 :
              /\ d \in DOMAIN levels /\ levels[d].kind = "file"
              /\ \A n \in 1..(d - 1) : levels[n].kind \notin {"file", "broken"}
              /\ levels[d].settings[key] = value
        BY <2>7 DEF DotEnvSays, MaxDotEnvDepth
      <3>2. ~(d < m)
        BY <2>4, <3>1
      <3>3. ~(m < d)
        BY <2>2, <2>3, <3>1
      <3>4. d = m
        BY <2>3, <3>1, <3>2, <3>3
      <3> QED BY <3>1, <3>4
    <2> QED BY <1>3, <2>2, <2>3, <2>6, <2>7
  <1> QED BY <1>5, <1>6

\* A configuration without an error comes from a .env that could be read, has a
\* key, and has an endpoint that was accepted or is the default.
LEMMA LoadedConfig ==
  ASSUME NEW env, NEW levels, LoadConfig(env, levels).error = "none"
  PROVE  LET dotEnv == ReadDotEnvUpward(levels)
             First(keys) == FirstConfiguredValue(env, dotEnv.settings, keys)
             url == First(<<"LLM_BASE_URL">>)
             asked == First(<<"LLM_MODEL">>)
         IN /\ dotEnv.ok /\ First(ApiKeys) # Unset
            /\ url # Unset => ValidBaseURL(url)
            /\ LoadConfig(env, levels) =
                 [error |-> "none", apiKey |-> First(ApiKeys),
                  baseURL |-> IF url = Unset THEN DefaultURL ELSE url,
                  model |-> IF asked = Unset THEN DefaultModel ELSE asked]
  <1> DEFINE dotEnv == ReadDotEnvUpward(levels)
             First(keys) == FirstConfiguredValue(env, dotEnv.settings, keys)
  <1>1. CASE ~dotEnv.ok
    BY <1>1 DEF LoadConfig
  <1>2. CASE dotEnv.ok /\ First(ApiKeys) = Unset
    BY <1>2 DEF LoadConfig
  <1>3. CASE /\ dotEnv.ok /\ First(ApiKeys) # Unset
             /\ First(<<"LLM_BASE_URL">>) # Unset /\ ~ValidBaseURL(First(<<"LLM_BASE_URL">>))
    BY <1>3 DEF LoadConfig
  <1>4. CASE /\ dotEnv.ok /\ First(ApiKeys) # Unset
             /\ First(<<"LLM_BASE_URL">>) # Unset => ValidBaseURL(First(<<"LLM_BASE_URL">>))
    BY <1>4 DEF LoadConfig
  <1> QED BY <1>1, <1>2, <1>3, <1>4

\* What one key, of the environment and the .env, says.
LEMMA OneKey ==
  ASSUME world \in World, NEW dotEnv, dotEnv = ReadDotEnvUpward(world.levels), dotEnv.ok,
         NEW key \in Keys, NEW value,
         value = FirstConfiguredValue(world.env, dotEnv.settings, <<key>>)
  PROVE  /\ value = Unset => NotGiven(key)
         /\ value # Unset => value \in Values /\ Given(key, value)
  <1>1. world.env \in Settings /\ dotEnv.settings \in Settings
    BY NearestDotEnv DEF World
  <1>2. <<key>> \in Seq(Keys) /\ Len(<<key>>) = 1 /\ <<key>>[1] = key /\ 1..1 = {1}
    OBVIOUS
  <1>3. /\ value = Unset => world.env[key] = Unset /\ dotEnv.settings[key] = Unset
        /\ value # Unset => \/ world.env[key] = value
                            \/ world.env[key] = Unset /\ dotEnv.settings[key] = value
    <2> DEFINE keys == <<key>>
    <2>1. keys \in Seq(Keys) /\ Len(keys) <= 3 /\ 1..Len(keys) = {1} /\ keys[1] = key
      BY <1>2
    <2>2. value = FirstConfiguredValue(world.env, dotEnv.settings, keys)
      OBVIOUS
    <2> HIDE DEF keys
    <2>3. /\ value = Unset => \A k \in 1..Len(keys) :
                                world.env[keys[k]] = Unset /\ dotEnv.settings[keys[k]] = Unset
          /\ value # Unset => \E k \in 1..Len(keys) :
                                \/ world.env[keys[k]] = value
                                \/ world.env[keys[k]] = Unset /\ dotEnv.settings[keys[k]] = value
      BY <1>1, <2>1, <2>2, FirstConfigured
    <2> QED BY <2>1, <2>3
  <1>4. ASSUME value = Unset PROVE NotGiven(key)
    BY <1>3, <1>4, NearestDotEnv, ConfigAssumption DEF NotGiven, Given
  <1>5. ASSUME value # Unset PROVE value \in Values /\ Given(key, value)
    <2>1. value \in Values
      BY <1>1, <1>3, <1>5 DEF Settings
    <2> QED BY <1>3, <1>5, <2>1, NearestDotEnv DEF Given
  <1> QED BY <1>4, <1>5

\* Which key is sent.
LEMMA ApiKeyGiven ==
  ASSUME world \in World, NEW dotEnv, dotEnv = ReadDotEnvUpward(world.levels), dotEnv.ok,
         NEW value, value = FirstConfiguredValue(world.env, dotEnv.settings, ApiKeys),
         value # Unset
  PROVE  \E k \in DOMAIN ApiKeys :
           Given(ApiKeys[k], value) /\ \A j \in 1..(k - 1) : NotGiven(ApiKeys[j])
  <1>1. world.env \in Settings /\ dotEnv.settings \in Settings
    BY NearestDotEnv DEF World
  <1>2. ApiKeys \in Seq(Keys) /\ Len(ApiKeys) = 3 /\ DOMAIN ApiKeys = 1..3
    BY DEF ApiKeys, Keys
  <1>3. PICK k \in 1..3 :
          /\ \/ world.env[ApiKeys[k]] = value
             \/ world.env[ApiKeys[k]] = Unset /\ dotEnv.settings[ApiKeys[k]] = value
          /\ \A j \in 1..(k - 1) :
               world.env[ApiKeys[j]] = Unset /\ dotEnv.settings[ApiKeys[j]] = Unset
    <2>1. Len(ApiKeys) <= 3 /\ 1..Len(ApiKeys) = 1..3
      BY <1>2
    <2> DEFINE settings == dotEnv.settings
    <2>2. settings \in Settings /\ value = FirstConfiguredValue(world.env, settings, ApiKeys)
      BY <1>1
    <2> HIDE DEF settings
    <2>3. \E k \in 1..Len(ApiKeys) :
            /\ world.env[ApiKeys[k]] = value
                 \/ (world.env[ApiKeys[k]] = Unset /\ settings[ApiKeys[k]] = value)
            /\ \A j \in 1..(k - 1) :
                 world.env[ApiKeys[j]] = Unset /\ settings[ApiKeys[j]] = Unset
      <3> DEFINE keys == ApiKeys
                 env == world.env
      <3>1. env \in Settings /\ keys \in Seq(Keys) /\ Len(keys) <= 3
        BY <1>1, <1>2
      <3>2. value = FirstConfiguredValue(env, settings, keys)
        BY <2>2
      <3> HIDE DEF keys, env
      <3>3. value # Unset =>
              \E k \in 1..Len(keys) :
                /\ env[keys[k]] = value \/ (env[keys[k]] = Unset /\ settings[keys[k]] = value)
                /\ \A j \in 1..(k - 1) : env[keys[j]] = Unset /\ settings[keys[j]] = Unset
        BY <2>2, <3>1, <3>2, FirstConfigured
      <3> QED BY <3>3 DEF keys, env
    <2> QED BY <2>1, <2>3 DEF settings
  <1>4. \A j \in 1..3 : ApiKeys[j] \in Keys
    BY DEF ApiKeys, Keys
  <1>5. value \in Values
    BY <1>1, <1>3, <1>4 DEF Settings
  <1>6. Given(ApiKeys[k], value)
    BY <1>3, <1>4, <1>5, NearestDotEnv DEF Given
  <1>7. ASSUME NEW j \in 1..(k - 1) PROVE NotGiven(ApiKeys[j])
    <2>1. ApiKeys[j] \in Keys
      BY <1>4
    <2> QED BY <1>3, <2>1, NearestDotEnv, ConfigAssumption DEF NotGiven, Given
  <1> QED BY <1>2, <1>6, <1>7

-----------------------------------------------------------------------------
(* main.                                                                   *)

LEMMA InitInv == Init => IInv
  <1> SUFFICES ASSUME Init PROVE IInv OBVIOUS
  <1>1. world \in World
    BY StartupAssumption DEF Init
  <1>2. NEntries \in Nat /\ tree \in [Entry -> Places] /\ agents \in {"absent", "text", "notFile", "unreadable"}
    BY <1>1, SkillAssumption DEF Init, SkillInit, World
  <1>3. SkillTypeOK
    BY <1>2 DEF Init, SkillInit, SkillTypeOK, Kinds
  <1>4. CatalogInv
    BY DEF Init, SkillInit, CatalogInv
  <1>5. LoadInv
    BY DEF Init, SkillInit, LoadInv
  <1>6. disk \in [Ids -> Seq(Line) \cup {Missing}]
    BY <1>1 DEF Init, World
  <1>7. MainInv
    BY <1>1, <1>6 DEF Init, MainInv, MainTypeOK
  <1> QED BY <1>3, <1>4, <1>5, <1>7 DEF IInv, SkillInv

\* What leaves main's variables alone leaves its part of the invariant.
LEMMA MainStutter == ASSUME MainInv, UNCHANGED mainVars PROVE MainInv'
  BY DEF mainVars, MainInv, MainTypeOK

\* Opening a file makes at most an empty one.
LEMMA OpenFileType ==
  ASSUME MainTypeOK, NEW id \in Ids, NEW create \in BOOLEAN
  PROVE  OpenFile(id, create) \in [Ids -> Seq(Line) \cup {Missing}]
  BY DEF MainTypeOK, OpenFile

LEMMA MainStepInv == ASSUME IInv, Main PROVE IInv'
  <1> USE DEF IInv
  <1>1. CASE ReadPrompt
    <2>1. SkillInv'
      BY <1>1, SkillStutter DEF ReadPrompt
    <2>2. MainInv'
      BY <1>1 DEF ReadPrompt, Succeed, Fail, After, MainInv, MainTypeOK
    <2> QED BY <2>1, <2>2
  <1>2. CASE NewProvider
    <2>1. SkillInv'
      BY <1>2, SkillStutter DEF NewProvider
    <2>2. MainTypeOK' /\ made' = {}
      BY <1>2 DEF NewProvider, Succeed, Fail, After, MainInv, MainTypeOK
    <2>3. config'.error = "none" =>
            /\ config' = LoadConfig(world'.env, world'.levels)
            /\ model' = IF world'.model = Unset THEN config'.model ELSE world'.model
      BY <1>2 DEF NewProvider, MainInv
    <2> QED BY <2>1, <2>2, <2>3 DEF MainInv
  <1>3. CASE NewManager
    <2>1. SkillInv'
      BY <1>3, SkillStutter, ListSkillsInv, ScanEntryInv DEF NewManager, ManagerFails
    <2>2. MainInv'
      BY <1>3 DEF NewManager, Succeed, Fail, After, MainInv, MainTypeOK
    <2> QED BY <2>1, <2>2
  <1>4. CASE GetTrimmer
    <2>1. SkillInv'
      BY <1>4, SkillStutter DEF GetTrimmer
    <2>2. MainInv'
      BY <1>4 DEF GetTrimmer, Succeed, Fail, After, MainInv, MainTypeOK
    <2> QED BY <2>1, <2>2
  <1>5. CASE NewSession
    <2>1. SkillInv'
      BY <1>5, SkillStutter DEF NewSession
    <2>2. MainInv'
      <3>1. CASE Fail /\ UNCHANGED <<disk, made>>
        BY <1>5, <3>1 DEF NewSession, Fail, MainInv, MainTypeOK
      <3>2. CASE ~(Fail /\ UNCHANGED <<disk, made>>)
        <4>1. PICK id \in Ids : /\ disk' = OpenFile(id, TRUE)
                                /\ made' = IF disk' # disk THEN made \cup {id} ELSE made
                                /\ Succeed
          BY <1>5, <3>2 DEF NewSession
        <4>2. disk' \in [Ids -> Seq(Line) \cup {Missing}]
          BY <4>1, OpenFileType DEF MainInv
        <4>3. stage' = "running"
          BY <1>5, <4>1 DEF NewSession, Succeed, After
        <4> QED BY <1>5, <4>1, <4>2, <4>3 DEF NewSession, MainInv, MainTypeOK
      <3> QED BY <3>1, <3>2
    <2> QED BY <2>1, <2>2
  <1>6. CASE StatSession
    <2>1. SkillInv'
      BY <1>6, SkillStutter DEF StatSession
    <2>2. MainInv'
      BY <1>6 DEF StatSession, Fail, MainInv, MainTypeOK
    <2> QED BY <2>1, <2>2
  <1>7. CASE ReadSession
    <2>1. SkillInv'
      BY <1>7, SkillStutter DEF ReadSession
    <2>2. MainInv'
      BY <1>7 DEF ReadSession, Fail, MainInv, MainTypeOK
    <2> QED BY <2>1, <2>2
  <1>8. CASE OpenSession
    <2>1. SkillInv'
      BY <1>8, SkillStutter DEF OpenSession
    <2>2. disk' = disk /\ made' = made
      BY <1>8 DEF OpenSession, OpenFile
    <2>3. MainInv'
      BY <1>8, <2>2 DEF OpenSession, Fail, After, MainInv, MainTypeOK
    <2> QED BY <2>1, <2>3
  <1> QED BY <1>1, <1>2, <1>3, <1>4, <1>5, <1>6, <1>7, <1>8 DEF Main

LEMMA OthersInv == ASSUME IInv, Others PROVE IInv'
  <1> USE DEF IInv
  <1>1. CASE ChangeSessions
    <2> USE <1>1 DEF ChangeSessions
    <2>1. SkillTypeOK'
      BY DEF SkillInv, SkillTypeOK, scanVars, callVars
    <2>2. CatalogInv' /\ LoadInv'
      <3>1. changes' # 0
        BY DEF SkillInv, SkillTypeOK
      <3> QED BY <3>1 DEF SkillInv, CatalogInv, LoadInv, ManagerReady, MetaOf, NamesIn, scanVars, callVars
    <2>3. disk' \in [Ids -> Seq(Line) \cup {Missing}]
      <3>1. PICK id \in Ids :
              \/ disk' = [disk EXCEPT ![id] = IF @ = Missing THEN <<>> ELSE Missing]
              \/ /\ disk[id] # Missing
                 /\ \E line \in Line : disk' = [disk EXCEPT ![id] = Append(@, line)]
        OBVIOUS
      <3>2. disk \in [Ids -> Seq(Line) \cup {Missing}]
        BY DEF MainInv, MainTypeOK
      <3>3. CASE disk' = [disk EXCEPT ![id] = IF @ = Missing THEN <<>> ELSE Missing]
        <4>1. <<>> \in Seq(Line)
          OBVIOUS
        <4> QED BY <3>2, <3>3, <4>1
      <3>4. ASSUME disk[id] # Missing, NEW line \in Line,
                   disk' = [disk EXCEPT ![id] = Append(@, line)]
            PROVE  disk' \in [Ids -> Seq(Line) \cup {Missing}]
        <4>1. Append(disk[id], line) \in Seq(Line)
          BY <3>2, <3>4
        <4> QED BY <3>2, <3>4, <4>1
      <3> QED BY <3>1, <3>3, <3>4
    <2>4. MainInv'
      BY <2>3 DEF MainInv, MainTypeOK
    <2> QED BY <2>1, <2>2, <2>4 DEF SkillInv
  <1>2. CASE ChangeTree /\ UNCHANGED mainVars
    BY <1>2, ChangeTreeInv, MainStutter
  <1> QED BY <1>1, <1>2 DEF Others

LEMMA RunningInv == ASSUME IInv, Running PROVE IInv'
  <1>1. PICK c \in Callers : LoadSkill(c) /\ UNCHANGED mainVars
    BY DEF Running
  <1> QED BY <1>1, CallLoadSkillInv, ReadBodyInv, InsertInv, MainStutter DEF IInv, LoadSkill

LEMMA NextInv == IInv /\ [Next]_vars => IInv'
  <1> SUFFICES ASSUME IInv, [Next]_vars PROVE IInv' OBVIOUS
  <1>1. CASE UNCHANGED vars
    BY <1>1, SkillStutter, MainStutter DEF IInv, vars
  <1> QED BY <1>1, MainStepInv, OthersInv, RunningInv DEF Next

\* The inductive invariant holds of every reachable state.
THEOREM Invariant == Spec => []IInv
  BY InitInv, NextInv, PTL DEF Spec

-----------------------------------------------------------------------------

\* The provider is built with the key, endpoint and model said by the place
\* that wins: environment before .env key by key, LLM_* before legacy keys, the
\* nearest .env of four directories, an endpoint that is https or local
\* (config.go:36-110), for every environment and every chain of directories.
THEOREM ConfigIsByPrecedence == Spec => []ConfigByPrecedence
  <1>1. ASSUME IInv PROVE ConfigByPrecedence
    <2> SUFFICES ASSUME config.error = "none"
                 PROVE  /\ \E k \in DOMAIN ApiKeys : Given(ApiKeys[k], config.apiKey)
                                                     /\ \A j \in 1..(k - 1) : NotGiven(ApiKeys[j])
                        /\ \/ Given("LLM_BASE_URL", config.baseURL) /\ config.baseURL \in Safe
                           \/ NotGiven("LLM_BASE_URL") /\ config.baseURL = DefaultURL
                        /\ \/ world.model # Unset /\ model = world.model
                           \/ world.model = Unset /\ Given("LLM_MODEL", model)
                           \/ world.model = Unset /\ NotGiven("LLM_MODEL") /\ model = DefaultModel
      BY DEF ConfigByPrecedence
    <2> DEFINE dotEnv == ReadDotEnvUpward(world.levels)
               First(keys) == FirstConfiguredValue(world.env, dotEnv.settings, keys)
               key == First(ApiKeys)
               url == First(<<"LLM_BASE_URL">>)
               asked == First(<<"LLM_MODEL">>)
    <2>1. /\ world \in World /\ config = LoadConfig(world.env, world.levels)
          /\ model = IF world.model = Unset THEN config.model ELSE world.model
      BY <1>1 DEF IInv, MainInv, MainTypeOK
    <2>2. /\ dotEnv.ok /\ key # Unset
          /\ url # Unset => ValidBaseURL(url)
          /\ config = [error |-> "none", apiKey |-> key,
                       baseURL |-> IF url = Unset THEN DefaultURL ELSE url,
                       model |-> IF asked = Unset THEN DefaultModel ELSE asked]
      BY <2>1, LoadedConfig
    <2>3. \E k \in DOMAIN ApiKeys : Given(ApiKeys[k], key) /\ \A j \in 1..(k - 1) : NotGiven(ApiKeys[j])
      BY <2>1, <2>2, ApiKeyGiven
    <2>4. "LLM_BASE_URL" \in Keys /\ "LLM_MODEL" \in Keys
      BY DEF Keys
    <2>5. (url = Unset => NotGiven("LLM_BASE_URL")) /\ (url # Unset => Given("LLM_BASE_URL", url))
      BY <2>1, <2>2, <2>4, OneKey
    <2>6. (asked = Unset => NotGiven("LLM_MODEL")) /\ (asked # Unset => Given("LLM_MODEL", asked))
      BY <2>1, <2>2, <2>4, OneKey
    <2> HIDE DEF dotEnv, key, url, asked
    <2>7. /\ config.apiKey = key
          /\ config.baseURL = IF url = Unset THEN DefaultURL ELSE url
          /\ config.model = IF asked = Unset THEN DefaultModel ELSE asked
      BY <2>2
    <2>8. \/ Given("LLM_BASE_URL", config.baseURL) /\ config.baseURL \in Safe
          \/ NotGiven("LLM_BASE_URL") /\ config.baseURL = DefaultURL
      BY <2>2, <2>5, <2>7 DEF ValidBaseURL
    <2>9. \/ world.model # Unset /\ model = world.model
          \/ world.model = Unset /\ Given("LLM_MODEL", model)
          \/ world.model = Unset /\ NotGiven("LLM_MODEL") /\ model = DefaultModel
      BY <2>1, <2>6, <2>7
    <2> QED BY <2>3, <2>7, <2>8, <2>9
  <1> QED BY <1>1, Invariant, PTL

\* A start that fails, at whatever step, has made no session file.
THEOREM NoSessionLeft == Spec => []FailedStartLeavesNoSession
  <1>1. IInv => FailedStartLeavesNoSession
    BY DEF IInv, MainInv, FailedStartLeavesNoSession
  <1> QED BY <1>1, Invariant, PTL

\* No step of main changes a session file, except that a start without
\* --session may create one under a name that is free: a resumed session is
\* never created, and an identifier in use is opened as it is.
THEOREM HistoriesKept == Spec => StartKeepsHistories
  <1>1. ASSUME IInv, [Next]_vars
        PROVE  [stage' # stage => \A id \in Ids :
                  disk'[id] # disk[id] => world.session = NoId /\ disk[id] = Missing]_vars
    <2> SUFFICES ASSUME Next, stage' # stage, NEW id \in Ids, disk'[id] # disk[id]
                 PROVE  world.session = NoId /\ disk[id] = Missing
      BY <1>1
    <2>1. disk \in [Ids -> Seq(Line) \cup {Missing}]
      BY <1>1 DEF IInv, MainInv, MainTypeOK
    <2>2. CASE NewSession
      <3>1. PICK new \in Ids : disk' = OpenFile(new, TRUE)
        BY <2>2 DEF NewSession
      <3>2. id = new /\ disk[id] = Missing
        BY <2>1, <3>1 DEF OpenFile
      <3> QED BY <2>2, <3>2 DEF NewSession
    <2>3. CASE Main /\ ~NewSession
      BY <2>3 DEF Main, ReadPrompt, NewProvider, NewManager, GetTrimmer, StatSession,
                  ReadSession, OpenSession, OpenFile
    <2>4. CASE Others
      BY <2>4 DEF Others, ChangeSessions, mainVars
    <2>5. CASE Running
      BY <2>5 DEF Running, mainVars
    <2> QED BY <2>2, <2>3, <2>4, <2>5 DEF Next
  <1> QED BY <1>1, Invariant, PTL DEF Spec, StartKeepsHistories

\* The catalogue has each name once and in lexical order; if no directory was
\* edited while it was made, it holds exactly the usable skills that are the
\* first of their name, for any number of directories.
THEOREM CatalogIsFirst == Spec => []CatalogFirstWins
  <1>1. ASSUME IInv PROVE CatalogFirstWins
    <2>1. \A i, j \in DOMAIN catalog :
            i < j => catalog[i].name # catalog[j].name /\ catalog[i].at < catalog[j].at
      BY <1>1 DEF IInv, SkillInv, CatalogInv
    <2>2. ASSUME ManagerReady, changes = 0, NEW e \in Entry
          PROVE  e \in At <=> Usable(e) /\ FirstOfName(e)
      <3>1. NEntries \in Nat /\ scanned = NEntries
        BY <2>2, SkillAssumption DEF ManagerReady
      <3>2. scanned >= 0 /\ e <= scanned
        BY <3>1 DEF Entry
      <3> QED BY <1>1, <2>2, <3>2 DEF IInv, SkillInv, CatalogInv
    <2> QED BY <2>1, <2>2 DEF CatalogFirstWins, At, Usable, FirstOfName
  <1> QED BY <1>1, Invariant, PTL

\* What stands where in two sequences put together.
LEMMA Concatenated ==
  ASSUME NEW S, NEW T, NEW s \in Seq(S), NEW t \in Seq(T)
  PROVE  /\ DOMAIN (s \o t) = 1..(Len(s) + Len(t))
         /\ \A i \in 1..Len(s) : (s \o t)[i] = s[i]
         /\ \A i \in DOMAIN t : (s \o t)[Len(s) + i] = t[i]
  <1>1. s \in Seq(S \cup T) /\ t \in Seq(S \cup T)
    OBVIOUS
  <1>2. Len(s) \in Nat /\ Len(t) \in Nat /\ DOMAIN t = 1..Len(t)
    OBVIOUS
  <1>3. /\ Len(s \o t) = Len(s) + Len(t) /\ s \o t \in Seq(S \cup T)
        /\ \A i \in 1..(Len(s) + Len(t)) :
             (s \o t)[i] = IF i <= Len(s) THEN s[i] ELSE t[i - Len(s)]
    BY <1>1, ConcatProperties
  <1>4. DOMAIN (s \o t) = 1..(Len(s) + Len(t))
    BY <1>3
  <1>5. \A i \in 1..Len(s) : i \in 1..(Len(s) + Len(t)) /\ i <= Len(s)
    BY <1>2
  <1>6. \A i \in DOMAIN t : /\ Len(s) + i \in 1..(Len(s) + Len(t)) /\ ~(Len(s) + i <= Len(s))
                           /\ Len(s) + i - Len(s) = i
    BY <1>2
  <1> QED BY <1>3, <1>4, <1>5, <1>6

\* Whoever was told that a skill is loaded finds it in the system prompt exactly
\* once, as the catalogue has it, for any number of callers and however the
\* files change in between: the second look-up under the mutex is enough.
THEOREM ToldOnce == Spec => []ToldOnceInPrompt
  <1>1. ASSUME IInv PROVE ToldOnceInPrompt
    <2> DEFINE Plain == [section : {"base", "agents", "catalog", "loading"}]
               skills == [i \in DOMAIN loaded |-> [section |-> "skill", skill |-> loaded[i]]]
               first == <<Section("base")>>
               agentsMd == IF agents = "text" THEN <<Section("agents")>> ELSE <<>>
               listing == IF catalog = <<>> THEN <<>> ELSE <<Section("catalog"), Section("loading")>>
               head == (first \o agentsMd) \o listing
    <2> SUFFICES ASSUME NEW c \in Callers, pc[c] = "idle", reply[c] \in {"loaded", "alreadyLoaded"}
                 PROVE  LET shown == {i \in DOMAIN SystemPrompt :
                                        /\ SystemPrompt[i].section = "skill"
                                        /\ SystemPrompt[i].skill.name = want[c]}
                        IN /\ Cardinality(shown) = 1
                           /\ \A i \in shown : SystemPrompt[i].skill.at = MetaOf(want[c]).at
      BY DEF ToldOnceInPrompt
    <2>1. loaded \in Seq(Loaded) /\ Len(loaded) \in Nat /\ DOMAIN loaded = 1..Len(loaded)
      BY <1>1 DEF IInv, SkillInv, SkillTypeOK
    <2>2. first \in Seq(Plain) /\ agentsMd \in Seq(Plain) /\ listing \in Seq(Plain)
      <3>1. /\ Section("base") \in Plain /\ Section("agents") \in Plain
            /\ Section("catalog") \in Plain /\ Section("loading") \in Plain
        BY DEF Section
      <3> HIDE DEF Plain
      <3> QED BY <3>1
    <2>3. head \in Seq(Plain)
      <3> HIDE DEF Plain, first, agentsMd, listing
      <3> QED BY <2>2
    <2> DEFINE n == Len(head)
    <2>4. n \in Nat /\ \A i \in 1..n : head[i].section # "skill"
      <3> HIDE DEF head
      <3>1. n \in Nat /\ \A i \in 1..n : head[i] \in Plain
        <4> HIDE DEF Plain
        <4> QED BY <2>3
      <3> QED BY <3>1
    <2>5. SystemPrompt = head \o skills
      BY DEF SystemPrompt
    <2>6. /\ skills \in Seq({[section |-> "skill", skill |-> s] : s \in Loaded})
          /\ Len(skills) = Len(loaded)
          /\ \A i \in DOMAIN loaded : skills[i] = [section |-> "skill", skill |-> loaded[i]]
      BY <2>1
    <2> HIDE DEF head, skills
    <2>7. /\ DOMAIN SystemPrompt = 1..(n + Len(loaded))
          /\ \A i \in 1..n : SystemPrompt[i] = head[i]
          /\ \A i \in DOMAIN loaded : SystemPrompt[n + i] = skills[i]
      <3> DEFINE Sections == {[section |-> "skill", skill |-> s] : s \in Loaded}
      <3>1. skills \in Seq(Sections) /\ DOMAIN skills = DOMAIN loaded
        BY <2>1, <2>6
      <3> HIDE DEF Sections, Plain
      <3>2. /\ DOMAIN (head \o skills) = 1..(Len(head) + Len(skills))
            /\ \A i \in 1..Len(head) : (head \o skills)[i] = head[i]
            /\ \A i \in DOMAIN skills : (head \o skills)[Len(head) + i] = skills[i]
        BY <2>3, <3>1, Concatenated
      <3> QED BY <2>5, <2>6, <3>1, <3>2
    <2>8. PICK k \in DOMAIN loaded : loaded[k].name = want[c]
      BY <1>1 DEF IInv, SkillInv, LoadInv, NamesIn
    <2> DEFINE shown == {i \in DOMAIN SystemPrompt : /\ SystemPrompt[i].section = "skill"
                                                     /\ SystemPrompt[i].skill.name = want[c]}
    <2>9. n + k \in shown /\ SystemPrompt[n + k].skill = loaded[k]
      <3>1. SystemPrompt[n + k] = [section |-> "skill", skill |-> loaded[k]]
        BY <2>6, <2>7, <2>8
      <3>2. n + k \in DOMAIN SystemPrompt
        BY <2>1, <2>4, <2>7
      <3> QED BY <2>8, <3>1, <3>2
    <2>10. ASSUME NEW i \in shown PROVE i = n + k
      <3>1. i \in 1..(n + Len(loaded)) /\ i \notin 1..n
        BY <2>4, <2>7, <2>10
      <3>2. PICK j \in DOMAIN loaded : i = n + j
        <4>1. i - n \in DOMAIN loaded /\ i = n + (i - n)
          BY <2>1, <2>4, <3>1
        <4> QED BY <4>1
      <3>3. loaded[j].name = want[c]
        <4>1. SystemPrompt[i] = [section |-> "skill", skill |-> loaded[j]]
          BY <2>6, <2>7, <3>2
        <4> QED BY <2>10, <4>1
      <3>4. j = k
        BY <1>1, <2>8, <3>3 DEF IInv, SkillInv, LoadInv
      <3> QED BY <3>2, <3>4
    <2>11. shown = {n + k}
      BY <2>9, <2>10
    <2>12. Cardinality(shown) = 1
      BY <2>11, FS_Singleton
    <2>13. loaded[k].at = MetaOf(want[c]).at
      BY <1>1, <2>8 DEF IInv, SkillInv, LoadInv
    <2> QED BY <2>9, <2>11, <2>12, <2>13
  <1> QED BY <1>1, Invariant, PTL
=============================================================================
