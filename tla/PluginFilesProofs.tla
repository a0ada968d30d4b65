--------------------------- MODULE PluginFilesProofs ---------------------------
(***************************************************************************)
(* Proofs about module PluginFiles, for every set of plugins, inits and    *)
(* versions and every bound.                                               *)
(***************************************************************************)
EXTENDS PluginFiles, TLAPS

Contents == Codes \cup {"absent", "torn"}
Busy     == at \in {"require", "config", "open", "write"}
Runs     == {p \in Plugins : active[p] # "none"}

TypeInv ==
  /\ at \in {"started", "loading", "require", "config", "open", "write", "running"}
  /\ code \in [Plugins -> Contents]
  /\ kept \in [Plugins -> Contents \cup {"none"}]
  /\ active \in [Plugins -> Contents \cup {"none"}]
  /\ seen \in [Plugins -> SUBSET Contents]

\* What is to be visited has not run or been kept since the load began.
TodoInv == \A p \in todo \cap Plugins : active[p] = "none" /\ p \notin cached

\* The registry lists what runs and, while a plugin is being loaded, that one.
RegInv ==
  /\ Busy => /\ current \in Plugins /\ current \notin todo /\ active[current] = "none"
             /\ registry = Runs \cup {current}
  /\ ~Busy => registry = Runs

\* What a plugin is loaded from has been its init.lua since the load began, and
\* Lua has not kept an older module of it.
FreshInv ==
  /\ at # "started" => \A p \in Plugins : code[p] \in seen[p]
  /\ at = "require" => current \notin cached
  /\ at \in {"config", "open", "write"} =>
       kept[current] \in Codes /\ kept[current] \in seen[current]

IInv == TypeInv /\ TodoInv /\ RegInv /\ FreshInv /\ ReloadIsFresh
-----------------------------------------------------------------------------
\* No version is called none.
LEMMA CodeFacts ==
  /\ "none" \notin Contents /\ Codes \subseteq Contents /\ "torn" \in Contents
  /\ "generated" \in Contents /\ "absent" \in Contents /\ Versions \subseteq Contents
BY PluginFilesAssumption DEF Contents, Codes

\* No plugin is there, none has been loaded.
LEMMA InitInv == Init => IInv
<1> SUFFICES ASSUME Init PROVE IInv
  OBVIOUS
<1>1. TypeInv
  BY CodeFacts DEF Init, TypeInv
<1>2. TodoInv /\ RegInv /\ FreshInv /\ ReloadIsFresh
  BY DEF Init, TodoInv, RegInv, Busy, Runs, FreshInv, ReloadIsFresh
<1> QED
  BY <1>1, <1>2 DEF IInv

\* Whoever changes the files leaves the loader alone, and what becomes of an
\* init.lua is seen.
LEMMA FilesKeep ==
  ASSUME IInv, UNCHANGED loader,
         code' \in [Plugins -> Contents], seen' \in [Plugins -> SUBSET Contents],
         \A p \in Plugins : /\ seen[p] \subseteq seen'[p]
                            /\ code'[p] = code[p] \/ code'[p] \in seen'[p]
  PROVE  IInv'
<1> USE DEF IInv, loader
<1>1. TypeInv'
  BY DEF TypeInv
<1>2. TodoInv' /\ RegInv'
  BY DEF TodoInv, RegInv, Busy, Runs
<1>3. FreshInv'
  BY DEF FreshInv, RegInv, Busy
<1>4. ReloadIsFresh'
  BY DEF ReloadIsFresh
<1> QED
  BY <1>1, <1>2, <1>3, <1>4

\* Writing a file of a plugin.
LEMMA PutFacts ==
  ASSUME TypeInv, NEW p, NEW f, NEW whole \in BOOLEAN, Put(p, f, whole)
  PROVE  /\ code' \in [Plugins -> Contents] /\ seen' \in [Plugins -> SUBSET Contents]
         /\ \A q \in Plugins : /\ seen[q] \subseteq seen'[q]
                               /\ code'[q] = code[q] \/ code'[q] \in seen'[q]
<1>1. code' \in [Plugins -> Contents]
  BY CodeFacts DEF Put, TypeInv
<1>2. /\ seen' = [seen EXCEPT ![p] = @ \cup {code'[p]}]
      /\ \A q \in Plugins : q # p => code'[q] = code[q]
  BY DEF Put, TypeInv
<1>3. seen' \in [Plugins -> SUBSET Contents]
  <2>1. CASE p \in Plugins
    <3>1. code'[p] \in Contents
      BY <1>1, <2>1
    <3> QED
      BY <1>2, <2>1, <3>1 DEF TypeInv
  <2>2. CASE p \notin Plugins
    <3>1. seen' = seen
      BY <1>2, <2>2 DEF TypeInv
    <3> QED
      BY <3>1 DEF TypeInv
  <2> QED
    BY <2>1, <2>2
<1>4. \A q \in Plugins : seen'[q] = IF q = p THEN seen[q] \cup {code'[p]} ELSE seen[q]
  BY <1>2 DEF TypeInv
<1> QED
  BY <1>1, <1>2, <1>3, <1>4

\* mcrstw init writes an init.lua, and nothing the loader keeps.
LEMMA ScaffoldKeeps ==
  ASSUME IInv, Scaffold PROVE IInv'
<1> USE DEF IInv
<1>1. ASSUME NEW i \in Inits, \/ \E p \in Plugins : Check(i, p)
                              \/ MakeDir(i) \/ InitFails(i)
      PROVE  IInv'
  <2>1. UNCHANGED <<code, loader, seen>>
    BY <1>1 DEF Check, MakeDir, InitFails, files
  <2> QED
    BY <2>1, FilesKeep DEF TypeInv
<1>2. ASSUME NEW i \in Inits, OpenNext(i) \/ WriteNext(i)
      PROVE  IInv'
  <2>1. \E whole \in BOOLEAN : Put(init[i].for, Order[init[i].file], whole)
    BY <1>2 DEF OpenNext, WriteNext
  <2>2. UNCHANGED loader
    BY <1>2 DEF OpenNext, WriteNext
  <2> QED
    BY <2>1, <2>2, PutFacts, FilesKeep
<1> QED
  BY <1>1, <1>2 DEF Scaffold

\* Nor does the user, whose versions of init.lua are seen as well.
LEMMA UserKeeps ==
  ASSUME IInv, User PROVE IInv'
<1> USE DEF IInv
<1>1. PICK p \in Plugins : EditCode(p) \/ EditMeta(p) \/ EditConfig(p)
  BY DEF User
<1>2. UNCHANGED loader
  BY <1>1 DEF EditCode, EditMeta, EditConfig, Edit
<1>3. CASE EditCode(p)
  <2>1. code' \in [Plugins -> Contents] /\ \A q \in Plugins : q # p => code'[q] = code[q]
    BY <1>3, CodeFacts DEF EditCode, TypeInv
  <2>2. \A q \in Plugins : seen'[q] = IF q = p THEN seen[q] \cup {code'[p]} ELSE seen[q]
    BY <1>3 DEF EditCode, TypeInv
  <2>3. seen' \in [Plugins -> SUBSET Contents]
    BY <1>3, <2>1 DEF EditCode, TypeInv
  <2> QED
    BY <1>2, <2>1, <2>2, <2>3, FilesKeep
<1>4. CASE EditMeta(p) \/ EditConfig(p)
  <2>1. UNCHANGED <<code, seen>>
    BY <1>4 DEF EditMeta, EditConfig
  <2> QED
    BY <1>2, <2>1, FilesKeep DEF TypeInv
<1> QED
  BY <1>1, <1>3, <1>4
-----------------------------------------------------------------------------
\* A load starts with nothing running, nothing kept, an empty registry.
LEMMA BeginKeeps ==
  ASSUME IInv, BeginLoad PROVE IInv'
<1> USE DEF IInv, BeginLoad, Begin
<1>1. TypeInv'
  BY CodeFacts DEF TypeInv, files
<1>2. TodoInv' /\ RegInv' /\ ReloadIsFresh'
  BY DEF TodoInv, RegInv, Busy, Runs, ReloadIsFresh
<1>3. FreshInv'
  BY DEF FreshInv, TypeInv, files
<1> QED
  BY <1>1, <1>2, <1>3

\* A directory that is entered is in the registry and runs nothing yet.
LEMMA VisitKeeps ==
  ASSUME IInv, NEW p \in Plugins, Visit(p) PROVE IInv'
<1> USE DEF IInv, Visit
<1>1. TypeInv'
  BY DEF TypeInv, files
<1>2. TodoInv' /\ ReloadIsFresh'
  BY DEF TodoInv, ReloadIsFresh
<1>3. RegInv'
  BY DEF RegInv, Busy, Runs, TodoInv
<1>4. FreshInv'
  BY DEF FreshInv, TodoInv, files
<1> QED
  BY <1>1, <1>2, <1>3, <1>4

\* The plugin that was being loaded runs v, which its init.lua has been.
LEMMA LoadedKeeps ==
  ASSUME IInv, Busy, NEW v \in Contents, Loaded(current, v), v \in seen[current],
         UNCHANGED <<todo, code, seen>>
  PROVE  IInv'
<1> USE DEF IInv, Loaded
<1>1. current \in Plugins /\ current \notin todo /\ v # "none"
  BY CodeFacts DEF RegInv
<1>2. TypeInv'
  BY <1>1 DEF TypeInv
<1>3. TodoInv'
  BY <1>1 DEF TodoInv, TypeInv
<1>4. RegInv'
  <2>1. Runs' = Runs \cup {current}
    BY <1>1 DEF Runs, TypeInv
  <2> QED
    BY <2>1 DEF RegInv, Busy
<1>5. FreshInv'
  BY DEF FreshInv, Busy
<1>6. ReloadIsFresh'
  BY <1>1 DEF ReloadIsFresh, TypeInv
<1> QED
  BY <1>2, <1>3, <1>4, <1>5, <1>6

\* One that fails leaves the registry, and did not run.
LEMMA LoadFailsKeeps ==
  ASSUME IInv, Busy, LoadFails(current), UNCHANGED <<todo, code, seen>>
  PROVE  IInv'
<1> USE DEF IInv, LoadFails
<1>1. TypeInv' /\ TodoInv' /\ ReloadIsFresh'
  BY DEF TypeInv, TodoInv, ReloadIsFresh
<1>2. RegInv'
  BY DEF RegInv, Busy, Runs
<1>3. FreshInv'
  BY DEF FreshInv, Busy
<1> QED
  BY <1>1, <1>2, <1>3

\* require reads the file: no older module is kept.
LEMMA RequireKeeps ==
  ASSUME IInv, NEW p \in Plugins, Require(p) PROVE IInv'
<1> USE DEF IInv
<1>1. /\ p = current /\ at = "require" /\ Busy /\ Module(p) = code[p]
      /\ code[p] \in seen[p] /\ code[p] \in Contents
  BY DEF Require, Busy, Module, FreshInv, TypeInv
<1>2. UNCHANGED <<todo, code, seen>>
  BY DEF Require, files
<1>3. CASE Module(p) = "torn" /\ (Loaded(p, "torn") \/ LoadFails(p))
  BY <1>1, <1>2, <1>3, LoadedKeeps, LoadFailsKeeps
<1>4. CASE /\ Module(p) \in Codes
           /\ at' = "config" /\ kept' = [kept EXCEPT ![p] = Module(p)]
           /\ UNCHANGED <<current, registry, cached, active>>
  <2>1. TypeInv'
    BY <1>1, <1>2, <1>4 DEF TypeInv
  <2>2. TodoInv' /\ RegInv' /\ ReloadIsFresh'
    BY <1>1, <1>2, <1>4 DEF TodoInv, RegInv, Busy, Runs, ReloadIsFresh
  <2>3. FreshInv'
    BY <1>1, <1>2, <1>4 DEF FreshInv, TypeInv
  <2> QED
    BY <2>1, <2>2, <2>3
<1> QED
  BY <1>3, <1>4 DEF Require

\* load_config and what it does when there is no file.
LEMMA ConfigKeeps ==
  ASSUME IInv, NEW p \in Plugins,
         \/ LoadConfig(p) \/ OpenConfig(p) \/ WriteConfig(p) \/ WriteConfigFails(p)
  PROVE  IInv'
<1> USE DEF IInv
<1> DEFINE Ends == \/ Loaded(p, kept[p]) \/ LoadFails(p)
           GoesOn == /\ at' \in {"open", "write"}
                     /\ UNCHANGED <<current, registry, active, cached, kept>>
<1>1. /\ p = current /\ at \in {"config", "open", "write"} /\ Busy
      /\ kept[p] \in seen[p] /\ kept[p] \in Contents
  BY CodeFacts DEF LoadConfig, OpenConfig, WriteConfig, WriteConfigFails, Busy, FreshInv
<1>2. UNCHANGED <<todo, code, seen>> /\ (Ends \/ GoesOn)
  BY DEF LoadConfig, OpenConfig, WriteConfig, WriteConfigFails, files
<1>3. CASE Ends
  BY <1>1, <1>2, <1>3, LoadedKeeps, LoadFailsKeeps
<1>4. CASE GoesOn
  <2>1. TypeInv' /\ TodoInv' /\ ReloadIsFresh'
    BY <1>2, <1>4 DEF TypeInv, TodoInv, ReloadIsFresh
  <2>2. RegInv' /\ FreshInv'
    BY <1>1, <1>2, <1>4 DEF RegInv, Busy, Runs, FreshInv
  <2> QED
    BY <2>1, <2>2
<1> QED
  BY <1>2, <1>3, <1>4

\* The load is over.
LEMMA EndKeeps ==
  ASSUME IInv, EndLoad PROVE IInv'
<1> USE DEF IInv, EndLoad
<1>1. TypeInv' /\ TodoInv' /\ ReloadIsFresh'
  BY DEF TypeInv, TodoInv, ReloadIsFresh, files
<1>2. RegInv' /\ FreshInv'
  BY DEF RegInv, Busy, Runs, FreshInv, files
<1> QED
  BY <1>1, <1>2

\* Every step keeps the invariant.
LEMMA NextInv == IInv /\ [Next]_vars => IInv'
<1> SUFFICES ASSUME IInv, [Next]_vars PROVE IInv'
  OBVIOUS
<1>1. CASE Scaffold \/ User
  BY <1>1, ScaffoldKeeps, UserKeeps
<1>2. CASE Load
  BY <1>2, BeginKeeps, EndKeeps, VisitKeeps, RequireKeeps, ConfigKeeps DEF Load
<1>3. CASE UNCHANGED vars
  BY <1>3, FilesKeep DEF vars, files, IInv, TypeInv
<1> QED
  BY <1>1, <1>2, <1>3 DEF Next

\* The invariant of the files and of the loader.
THEOREM Invariant == Spec => []IInv
BY InitInv, NextInv, PTL DEF Spec

\* When a load is through, the registry lists the plugins that run, whatever
\* failed in it and whatever wrote to the files at the same time.
THEOREM RegistryExactHolds == Spec => []RegistryExact
<1>1. IInv => RegistryExact
  BY DEF IInv, RegInv, Busy, Runs, RegistryExact
<1> QED
  BY Invariant, <1>1, PTL

\* A plugin runs code its init.lua has had since the last load began.
THEOREM ReloadIsFreshHolds == Spec => []ReloadIsFresh
<1>1. IInv => ReloadIsFresh
  BY DEF IInv
<1> QED
  BY Invariant, <1>1, PTL
-----------------------------------------------------------------------------
(* The files, and mcrstw init beside the loads. *)

Steps == {"idle", "checked", "refused", "open", "write", "done", "failed"}

\* Process i creates plugin p.
Creates(i, p) == init[i].for = p /\ init[i].at # "refused"

\* It is in the middle of writing its nth file, which is therefore torn.
Writes(n, p) == \E i \in Inits : /\ init[i].for = p /\ init[i].at = "write"
                                 /\ init[i].file = n

FilesType ==
  /\ init \in [Inits -> [at : Steps, for : Plugins \cup {NoPlugin}, file : 1..4]]
  /\ meta \in [Plugins -> {"absent", "torn", "bad", "good"}]
  /\ config \in [Plugins -> {"absent", "torn", "whole"}]
  /\ sets \in [Plugins -> SUBSET Keys] /\ got \in [Plugins -> SUBSET Keys]
  /\ dir \subseteq Plugins /\ todo \subseteq Plugins
  /\ used \in [edits : Nat, loads : Nat, failures : Nat]

\* Where a process is, for whom, and at which file belong together.
StepInv == \A i \in Inits :
  /\ init[i].at = "idle" <=> init[i].for = NoPlugin
  /\ init[i].at \in {"idle", "checked", "refused"} => init[i].file = 1
  /\ init[i].at \in {"open", "write"} => init[i].file < 4
  /\ init[i].at = "done" => init[i].file = 4
  /\ init[i].at = "failed" => used.failures > 0

\* A plugin that one process creates and nobody edits has a good meta.toml
\* before it has an init.lua.
MetaBeforeCode(p) ==
  /\ code[p] # "absent" => meta[p] = "good"
  /\ \A i \in Inits : Creates(i, p) => IF init[i].file = 1 THEN code[p] = "absent"
                                                           ELSE meta[p] = "good"
  /\ (\A i \in Inits : ~Creates(i, p)) => code[p] = "absent"

MetaFirst == \A p \in Plugins \ (touched \cup Raced) : MetaBeforeCode(p)

\* A directory was made by a process, and those that are ready are left alone.
DirInv ==
  /\ \A p \in dir : \E i \in Inits :
       init[i].for = p /\ init[i].at \in {"open", "write", "done", "failed"}
  /\ ready \subseteq dir
  /\ \A p \in ready : \A i \in Inits :
       init[i].for = p => init[i].at \in {"done", "refused", "failed"}

\* As long as no write has failed, a file that nobody edits is there once a
\* process is past it, and torn only while somebody writes it.
Whole(p) ==
  /\ \A i \in Inits : init[i].for = p =>
       /\ init[i].file > 1 => meta[p] # "absent"
       /\ init[i].file > 2 => code[p] # "absent"
       /\ init[i].file > 3 => config[p] # "absent"
  /\ meta[p] # "bad" /\ (meta[p] = "torn" => Writes(1, p))
  /\ code[p] \in {"absent", "torn", "generated"} /\ (code[p] = "torn" => Writes(2, p))
  /\ config[p] = "torn" => Writes(3, p) \/ (at = "write" /\ current = p)
  /\ config[p] = "whole" => "enabled" \in sets[p]

WholeInv == used.failures = 0 => \A p \in Plugins \ touched : Whole(p)

\* A plugin that was ready is still to be visited, is being loaded from what is
\* there, or runs with its settings.
ReadyInv == used.failures = 0 => \A p \in ready \ touched :
  \/ p \in todo
  \/ at \in {"require", "config"} /\ current = p /\ (at = "config" => kept[p] = "generated")
  \/ active[p] = "generated" /\ "enabled" \in got[p]

\* The loader changes a config.json only of a plugin that was not ready.
LoaderInv ==
  /\ used.failures = 0 /\ at \in {"open", "write"} => current \notin ready \ touched
  /\ at = "running" => todo = {}

FInv == FilesType /\ StepInv /\ MetaFirst /\ SkipsOnlyEdited /\ DirInv /\ WholeInv
        /\ ReadyInv /\ LoaderInv
-----------------------------------------------------------------------------
\* Whatever init.lua asks for, enabled is part of it.
LEMMA DefaultsFacts ==
  \A v : "enabled" \in Defaults(v) /\ Defaults(v) \in SUBSET Keys
BY PluginFilesAssumption DEF Defaults

\* Nothing is there, and nobody is at it.
LEMMA FInit == Init => FInv
<1> SUFFICES ASSUME Init PROVE FInv
  OBVIOUS
<1>1. FilesType
  BY DEF Init, FilesType, Steps
<1>2. StepInv /\ DirInv /\ LoaderInv
  BY DEF Init, StepInv, DirInv, LoaderInv
<1>3. SkipsOnlyEdited /\ ReadyInv
  BY DEF Init, SkipsOnlyEdited, ReadyInv
<1>4. MetaFirst /\ WholeInv
  BY DEF Init, MetaFirst, MetaBeforeCode, WholeInv, Whole
<1> QED
  BY <1>1, <1>2, <1>3, <1>4 DEF FInv

\* A step of process i: the others stay where they are, and it changes neither
\* its plugin nor to refused once it has begun.
Advances(i, r) ==
  /\ init' = [init EXCEPT ![i] = r]
  /\ r \in [at : Steps, for : Plugins \cup {NoPlugin}, file : 1..4]
  /\ init[i].at # "idle" => r.for = init[i].for /\ (r.at = "refused" => init[i].at = "refused")

LEMMA AdvancesFacts ==
  ASSUME FilesType, StepInv, NEW i \in Inits, NEW r, Advances(i, r)
  PROVE  /\ init' \in [Inits -> [at : Steps, for : Plugins \cup {NoPlugin}, file : 1..4]]
         /\ init'[i] = r
         /\ \A j \in Inits : j # i => init'[j] = init[j]
         /\ Raced \subseteq Raced'
<1>1. /\ init' \in [Inits -> [at : Steps, for : Plugins \cup {NoPlugin}, file : 1..4]]
      /\ init'[i] = r
      /\ \A j \in Inits : j # i => init'[j] = init[j]
  BY DEF FilesType, Advances
<1>2. ASSUME NEW p \in Plugins, NEW j \in Inits, init[j].for = p, init[j].at # "refused"
      PROVE  init'[j].for = p /\ init'[j].at # "refused"
  BY <1>1, <1>2, PluginFilesAssumption DEF StepInv, Advances
<1> QED
  BY <1>1, <1>2 DEF Raced

\* mcrstw init starts: it is refused if the directory is there, and otherwise
\* it is alone in creating the plugin, or the plugin is raced for.
CheckedAt(p) == [at |-> IF p \in dir THEN "refused" ELSE "checked", for |-> p, file |-> 1]

LEMMA CheckAdvances ==
  ASSUME FInv, NEW i \in Inits, NEW p \in Plugins, Check(i, p)
  PROVE  init[i].at = "idle" /\ Advances(i, CheckedAt(p))
<1>1. init[i].at = "idle" /\ init[i].file = 1
  BY DEF Check, FInv, StepInv
<1>2. init[i] \in [at : Steps, for : Plugins \cup {NoPlugin}, file : 1..4]
  BY DEF FInv, FilesType
<1>3. init[i] = [at |-> init[i].at, for |-> init[i].for, file |-> 1]
  BY <1>1, <1>2
<1>4. init' = [init EXCEPT ![i] = CheckedAt(p)]
  BY <1>3 DEF Check, CheckedAt, FInv, FilesType
<1>5. CheckedAt(p) \in [at : Steps, for : Plugins \cup {NoPlugin}, file : 1..4]
  BY DEF CheckedAt, Steps
<1> QED
  BY <1>1, <1>4, <1>5 DEF Advances

LEMMA CheckKeeps ==
  ASSUME FInv, NEW i \in Inits, NEW p \in Plugins, Check(i, p) PROVE FInv'
<1> USE DEF FInv
<1>1. init[i].at = "idle" /\ init[i].for = NoPlugin /\ NoPlugin \notin Plugins
  BY CheckAdvances, PluginFilesAssumption DEF StepInv
<1>2. /\ init'[i].for = p /\ init'[i].file = 1
      /\ init'[i].at = IF p \in dir THEN "refused" ELSE "checked"
      /\ \A j \in Inits : j # i => init'[j] = init[j]
      /\ init' \in [Inits -> [at : Steps, for : Plugins \cup {NoPlugin}, file : 1..4]]
      /\ Raced \subseteq Raced'
  <2>1. Advances(i, CheckedAt(p))
    BY CheckAdvances
  <2>2. /\ init'[i] = CheckedAt(p) /\ (\A j \in Inits : j # i => init'[j] = init[j])
        /\ init' \in [Inits -> [at : Steps, for : Plugins \cup {NoPlugin}, file : 1..4]]
        /\ Raced \subseteq Raced'
    BY <2>1, AdvancesFacts
  <2> QED
    BY <2>2 DEF CheckedAt
<1>3. /\ UNCHANGED <<dir, meta, code, config, sets, touched, seen, used>>
      /\ UNCHANGED <<at, todo, current, kept, active, got, skipped, ready>>
  BY DEF Check, files, loader
<1>4. FilesType'
  BY <1>2, <1>3 DEF FilesType
<1>5. StepInv'
  BY <1>1, <1>2, <1>3 DEF StepInv
<1>6. ASSUME NEW q \in Plugins, q \notin touched, q \notin Raced'
      PROVE  MetaBeforeCode(q)'
  <2>1. MetaBeforeCode(q) /\ (\A j \in Inits : j # i => (Creates(j, q)' <=> Creates(j, q)))
    BY <1>2, <1>3, <1>6 DEF MetaFirst, Creates
  <2>2. ~Creates(i, q)
    BY <1>1, <1>6 DEF Creates
  <2>3. CASE q # p \/ p \in dir
    <3>1. ~Creates(i, q)'
      BY <1>2, <2>3 DEF Creates
    <3> QED
      BY <1>2, <1>3, <2>1, <2>2, <3>1 DEF MetaBeforeCode
  <2>4. CASE q = p /\ p \notin dir
    <3>1. \A j \in Inits : j # i => ~Creates(j, q)
      BY <1>2, <1>6, <2>1, <2>4 DEF Creates, Raced
    <3>2. code[q] = "absent"
      BY <2>1, <2>2, <3>1 DEF MetaBeforeCode
    <3>3. Creates(i, q)'
      BY <1>2, <2>4 DEF Creates
    <3> QED
      BY <1>2, <1>3, <2>1, <3>1, <3>2, <3>3 DEF MetaBeforeCode
  <2> QED
    BY <2>3, <2>4
<1>7. MetaFirst' /\ SkipsOnlyEdited'
  BY <1>2, <1>3, <1>6 DEF MetaFirst, SkipsOnlyEdited
<1>8. DirInv'
  BY <1>1, <1>2, <1>3 DEF DirInv, FilesType
<1>9. WholeInv'
  <2>1. ASSUME NEW q \in Plugins, Whole(q) PROVE Whole(q)'
    <3>1. \A n \in 1..3 : Writes(n, q) => Writes(n, q)'
      BY <1>1, <1>2 DEF Writes
    <3> QED
      BY <1>2, <1>3, <2>1, <3>1 DEF Whole
  <2> QED
    BY <1>3, <2>1 DEF WholeInv
<1>10. ReadyInv' /\ LoaderInv'
  BY <1>3 DEF ReadyInv, LoaderInv
<1> QED
  BY <1>4, <1>5, <1>7, <1>8, <1>9, <1>10

\* A process that is at work goes on: to a, at file n, for the same plugin.
GoesOn(i, a, n) ==
  /\ init[i].at \notin {"idle", "refused"} /\ init[i].for \in Plugins
  /\ init'[i].at = a /\ init'[i].for = init[i].for /\ init'[i].file = n
  /\ \A j \in Inits : j # i => init'[j] = init[j]
  /\ init' \in [Inits -> [at : Steps, for : Plugins \cup {NoPlugin}, file : 1..4]]
  /\ Raced \subseteq Raced'
  /\ \A p \in Plugins : \A j \in Inits : Creates(j, p)' <=> Creates(j, p)

LEMMA Going ==
  ASSUME FInv, NEW i \in Inits
  PROVE  /\ MakeDir(i) => GoesOn(i, "open", 1)
         /\ OpenNext(i) => GoesOn(i, "write", init[i].file)
         /\ WriteNext(i) => GoesOn(i, IF init[i].file = 3 THEN "done" ELSE "open",
                                      init[i].file + 1)
         /\ InitFails(i) => GoesOn(i, "failed", init[i].file)
<1> USE DEF FInv
<1> DEFINE T == [at : Steps, for : Plugins \cup {NoPlugin}, file : 1..4]
<1>1. init[i] \in T /\ init \in [Inits -> T]
  BY DEF FilesType
<1>2. ASSUME NEW a \in Steps, NEW n \in 1..4, a # "refused",
             init[i].at \notin {"idle", "refused"},
             init' = [init EXCEPT ![i] = [at |-> a, for |-> init[i].for, file |-> n]]
      PROVE  GoesOn(i, a, n)
  <2> DEFINE r == [at |-> a, for |-> init[i].for, file |-> n]
  <2>1. r \in T
    BY <1>1
  <2>2. Advances(i, r)
    BY <1>2, <2>1 DEF Advances
  <2>3. /\ init'[i] = r /\ (\A j \in Inits : j # i => init'[j] = init[j])
        /\ init' \in [Inits -> T] /\ Raced \subseteq Raced'
    BY <2>2, AdvancesFacts
  <2>4. init[i].for \in Plugins
    BY <1>1, <1>2 DEF StepInv
  <2>5. init'[i].at = a /\ init'[i].for = init[i].for /\ init'[i].file = n
    BY <2>3
  <2> HIDE DEF r
  <2>6. \A p \in Plugins : \A j \in Inits : Creates(j, p)' <=> Creates(j, p)
    BY <1>2, <2>3, <2>5 DEF Creates
  <2> QED
    BY <1>2, <2>3, <2>4, <2>5, <2>6 DEF GoesOn
<1>3. \A a \in Steps : [init[i] EXCEPT !.at = a] =
                         [at |-> a, for |-> init[i].for, file |-> init[i].file]
  BY <1>1
<1>4. ASSUME MakeDir(i) PROVE GoesOn(i, "open", 1)
  <2>1. /\ init[i].at = "checked" /\ init[i].file \in 1..4 /\ init[i].file = 1
        /\ init' = [init EXCEPT ![i] = [init[i] EXCEPT !.at = "open"]]
    BY <1>1, <1>4 DEF MakeDir, StepInv, FilesType
  <2>2. GoesOn(i, "open", init[i].file)
    BY <1>2, <1>3, <2>1 DEF Steps
  <2> QED
    BY <2>1, <2>2
<1>5. ASSUME OpenNext(i) PROVE GoesOn(i, "write", init[i].file)
  <2>1. /\ init[i].at = "open" /\ init[i].file \in 1..4
        /\ init' = [init EXCEPT ![i] = [init[i] EXCEPT !.at = "write"]]
    BY <1>1, <1>5 DEF OpenNext, FilesType
  <2> QED
    BY <1>2, <1>3, <2>1 DEF Steps
<1>6. ASSUME WriteNext(i)
      PROVE  GoesOn(i, IF init[i].file = 3 THEN "done" ELSE "open", init[i].file + 1)
  <2> DEFINE a == IF init[i].file = 3 THEN "done" ELSE "open"
             n == init[i].file + 1
  <2>1. init[i].at = "write" /\ n \in 1..4 /\ a \in Steps /\ Len(Order) = 3
    BY <1>1, <1>6 DEF WriteNext, StepInv, Steps, Order
  <2>2. init' = [init EXCEPT ![i] = [[init[i] EXCEPT !.file = n] EXCEPT !.at = a]]
    BY <1>1, <1>6, <2>1 DEF WriteNext, FilesType
  <2>3. [[init[i] EXCEPT !.file = n] EXCEPT !.at = a]
          = [at |-> a, for |-> init[i].for, file |-> n]
    <3> HIDE DEF a, n
    <3>1. [init[i] EXCEPT !.file = n] = [at |-> init[i].at, for |-> init[i].for, file |-> n]
      BY <1>1
    <3>2. \A x, y : x = [at |-> y, for |-> init[i].for, file |-> n] =>
             [x EXCEPT !.at = a] = [at |-> a, for |-> init[i].for, file |-> n]
      OBVIOUS
    <3> QED
      BY <3>1, <3>2
  <2>4. a # "refused"
    OBVIOUS
  <2> HIDE DEF a, n
  <2>5. GoesOn(i, a, n)
    BY <1>2, <2>1, <2>2, <2>3, <2>4
  <2> QED
    BY <2>5 DEF a, n
<1>7. ASSUME InitFails(i) PROVE GoesOn(i, "failed", init[i].file)
  <2>1. /\ init[i].at \in {"checked", "open", "write"} /\ init[i].file \in 1..4
        /\ init' = [init EXCEPT ![i] = [init[i] EXCEPT !.at = "failed"]]
    BY <1>1, <1>7 DEF InitFails, FilesType
  <2> QED
    BY <1>2, <1>3, <2>1 DEF Steps
<1> QED
  BY <1>4, <1>5, <1>6, <1>7

\* The directory is made.
LEMMA MakeDirKeeps ==
  ASSUME FInv, NEW i \in Inits, MakeDir(i) PROVE FInv'
<1> USE DEF FInv
<1>1. GoesOn(i, "open", 1) /\ init[i].at = "checked" /\ init[i].file = 1
  BY Going DEF MakeDir, StepInv
<1>2. /\ dir' = dir \cup {init[i].for}
      /\ UNCHANGED <<meta, code, config, sets, touched, seen, used>>
      /\ UNCHANGED <<at, todo, current, kept, active, got, skipped, ready>>
  BY DEF MakeDir, loader
<1>3. FilesType' /\ SkipsOnlyEdited'
  BY <1>1, <1>2 DEF FilesType, GoesOn, SkipsOnlyEdited
<1>4. StepInv'
  BY <1>1, <1>2, PluginFilesAssumption DEF StepInv, GoesOn
<1>5. MetaFirst'
  BY <1>1, <1>2 DEF MetaFirst, MetaBeforeCode, GoesOn
<1>6. DirInv'
  BY <1>1, <1>2 DEF DirInv, GoesOn, FilesType
<1>7. WholeInv'
  <2>1. ASSUME NEW q \in Plugins, Whole(q) PROVE Whole(q)'
    <3>1. \A n \in 1..3 : Writes(n, q) => Writes(n, q)'
      BY <1>1 DEF Writes, GoesOn
    <3> QED
      BY <1>1, <1>2, <2>1, <3>1 DEF Whole, GoesOn
  <2> QED
    BY <1>2, <2>1 DEF WholeInv
<1>8. ReadyInv' /\ LoaderInv'
  BY <1>2 DEF ReadyInv, LoaderInv
<1> QED
  BY <1>3, <1>4, <1>5, <1>6, <1>7, <1>8

\* mcrstw init gives up: nothing is promised any more about whole files.
LEMMA InitFailsKeeps ==
  ASSUME FInv, NEW i \in Inits, InitFails(i) PROVE FInv'
<1> USE DEF FInv
<1>1. GoesOn(i, "failed", init[i].file) /\ init[i].at \in {"checked", "open", "write"}
  BY Going DEF InitFails
<1>2. /\ UNCHANGED <<dir, meta, code, config, sets, touched, seen>>
      /\ UNCHANGED <<at, todo, current, kept, active, got, skipped, ready>>
      /\ used'.failures = used.failures + 1 /\ used.failures \in Nat
      /\ used' \in [edits : Nat, loads : Nat, failures : Nat]
  BY DEF InitFails, files, loader, FilesType
<1>3. FilesType' /\ SkipsOnlyEdited'
  BY <1>1, <1>2 DEF FilesType, GoesOn, SkipsOnlyEdited
<1>4. StepInv'
  BY <1>1, <1>2, PluginFilesAssumption DEF StepInv, GoesOn
<1>5. MetaFirst'
  BY <1>1, <1>2 DEF MetaFirst, MetaBeforeCode, GoesOn
<1>6. DirInv'
  BY <1>1, <1>2 DEF DirInv, GoesOn, FilesType
<1>7. WholeInv' /\ ReadyInv' /\ LoaderInv'
  BY <1>2 DEF WholeInv, ReadyInv, LoaderInv
<1> QED
  BY <1>3, <1>4, <1>5, <1>6, <1>7

\* What opening or writing the nth file of plugin p does to the files.
LEMMA PutNth ==
  ASSUME FInv, TypeInv, NEW p \in Plugins, NEW n \in 1..3, NEW whole \in BOOLEAN,
         Put(p, Order[n], whole)
  PROVE  /\ meta'[p] = IF n = 1 THEN (IF whole THEN "good" ELSE "torn") ELSE meta[p]
         /\ code'[p] = IF n = 2 THEN (IF whole THEN "generated" ELSE "torn") ELSE code[p]
         /\ config'[p] = IF n = 3 THEN (IF whole THEN "whole" ELSE "torn") ELSE config[p]
         /\ sets'[p] = IF n = 3 /\ whole THEN {"enabled"} ELSE sets[p]
         /\ \A q \in Plugins : q # p => /\ meta'[q] = meta[q] /\ code'[q] = code[q]
                                        /\ config'[q] = config[q] /\ sets'[q] = sets[q]
         /\ meta' \in [Plugins -> {"absent", "torn", "bad", "good"}]
         /\ config' \in [Plugins -> {"absent", "torn", "whole"}]
         /\ sets' \in [Plugins -> SUBSET Keys]
<1> USE DEF FInv, FilesType, TypeInv
<1>1. Order[n] = IF n = 1 THEN "meta.toml" ELSE IF n = 2 THEN "init.lua" ELSE "config.json"
  BY DEF Order
<1>2. /\ meta' = IF n = 1 THEN [meta EXCEPT ![p] = IF whole THEN "good" ELSE "torn"] ELSE meta
      /\ code' = IF n = 2 THEN [code EXCEPT ![p] = IF whole THEN "generated" ELSE "torn"]
                 ELSE code
      /\ config' = IF n = 3 THEN [config EXCEPT ![p] = IF whole THEN "whole" ELSE "torn"]
                   ELSE config
      /\ sets' = IF n = 3 /\ whole THEN [sets EXCEPT ![p] = {"enabled"}] ELSE sets
  BY <1>1 DEF Put
<1>3. {"enabled"} \in SUBSET Keys
  BY PluginFilesAssumption
<1> QED
  BY <1>2, <1>3

\* mcrstw init opens its next file, or writes what it has opened.
LEMMA FileKeeps ==
  ASSUME FInv, TypeInv, NEW i \in Inits, OpenNext(i) \/ WriteNext(i) PROVE FInv'
<1> USE DEF FInv
<1>p. /\ init[i].for \in Plugins /\ init[i].file \in 1..3
  <2>1. init[i] \in [at : Steps, for : Plugins \cup {NoPlugin}, file : 1..4]
    BY DEF FilesType
  <2>2. init[i].at \in {"open", "write"} /\ init[i].file < 4 /\ init[i].file \in 1..4
    BY <2>1 DEF OpenNext, WriteNext, StepInv
  <2>3. init[i].for # NoPlugin
    BY <2>2 DEF StepInv
  <2> QED
    BY <2>1, <2>2, <2>3
<1>n. PICK p \in Plugins, n \in 1..3, whole \in BOOLEAN :
        p = init[i].for /\ n = init[i].file /\ (whole <=> init[i].at = "write")
  <2> DEFINE w == init[i].at = "write"
  <2>1. w \in BOOLEAN
    OBVIOUS
  <2> QED
    BY <1>p, <2>1
<1> DEFINE next == IF ~whole THEN "write" ELSE IF n = 3 THEN "done" ELSE "open"
           m == IF whole THEN n + 1 ELSE n
<1>1. /\ init[i].at \in {"open", "write"}
      /\ GoesOn(i, next, m) /\ Put(p, Order[n], whole)
  <2>2. CASE OpenNext(i)
    <3>1. init[i].at = "open" /\ whole = FALSE
      BY <1>n, <2>2 DEF OpenNext
    <3> QED
      BY <1>n, <2>2, <3>1, Going DEF OpenNext
  <2>3. CASE WriteNext(i)
    <3>1. init[i].at = "write" /\ whole = TRUE
      BY <1>n, <2>3 DEF WriteNext
    <3> QED
      BY <1>n, <2>3, <3>1, Going DEF WriteNext
  <2> QED
    BY <2>2, <2>3
<1>2. /\ UNCHANGED <<dir, touched, used>>
      /\ UNCHANGED <<at, todo, current, kept, active, got, skipped, ready>>
  BY DEF OpenNext, WriteNext, loader
<1>3. /\ meta'[p] = IF n = 1 THEN (IF whole THEN "good" ELSE "torn") ELSE meta[p]
      /\ code'[p] = IF n = 2 THEN (IF whole THEN "generated" ELSE "torn") ELSE code[p]
      /\ config'[p] = IF n = 3 THEN (IF whole THEN "whole" ELSE "torn") ELSE config[p]
      /\ sets'[p] = IF n = 3 /\ whole THEN {"enabled"} ELSE sets[p]
      /\ \A q \in Plugins : q # p => /\ meta'[q] = meta[q] /\ code'[q] = code[q]
                                     /\ config'[q] = config[q] /\ sets'[q] = sets[q]
      /\ meta' \in [Plugins -> {"absent", "torn", "bad", "good"}]
      /\ config' \in [Plugins -> {"absent", "torn", "whole"}]
      /\ sets' \in [Plugins -> SUBSET Keys]
  BY <1>1, PutNth
<1>4. /\ init'[i].at = next /\ init'[i].for = p /\ init'[i].file = m
      /\ m = IF whole THEN n + 1 ELSE n
      /\ next = IF ~whole THEN "write" ELSE IF n = 3 THEN "done" ELSE "open"
      /\ whole <=> init[i].at = "write"
  BY <1>1, <1>n DEF GoesOn
<1>5. /\ \A j \in Inits : j # i => init'[j] = init[j]
      /\ init' \in [Inits -> [at : Steps, for : Plugins \cup {NoPlugin}, file : 1..4]]
      /\ Raced \subseteq Raced'
      /\ \A q \in Plugins : \A j \in Inits : Creates(j, q)' <=> Creates(j, q)
  BY <1>1 DEF GoesOn
<1>6. init[i].for = p /\ init[i].file = n /\ Creates(i, p)
  BY <1>1, <1>n DEF Creates
<1> HIDE DEF next, m
<1>7. FilesType' /\ SkipsOnlyEdited'
  BY <1>2, <1>3, <1>5 DEF FilesType, SkipsOnlyEdited
<1>8. StepInv'
  BY <1>1, <1>2, <1>4, <1>5, PluginFilesAssumption DEF StepInv
<1>9. MetaFirst'
  <2>1. ASSUME NEW q \in Plugins, q \notin touched, q \notin Raced'
        PROVE  MetaBeforeCode(q)'
    <3>1. MetaBeforeCode(q)
      BY <1>5, <2>1 DEF MetaFirst
    <3>2. CASE q # p
      <4>1. ~Creates(i, q)
        BY <1>6, <3>2 DEF Creates
      <4> QED
        BY <1>3, <1>5, <2>1, <3>1, <3>2, <4>1 DEF MetaBeforeCode
    <3>3. CASE q = p
      <4>1. \A j \in Inits : j # i => ~Creates(j, q)
        BY <1>5, <1>6, <2>1, <3>3 DEF Raced, Creates
      <4>2. IF n = 1 THEN code[q] = "absent" ELSE meta[q] = "good"
        BY <1>6, <3>1, <3>3 DEF MetaBeforeCode
      <4>3. code'[q] # "absent" => meta'[q] = "good"
        BY <1>1, <1>3, <3>1, <3>3, <4>2 DEF MetaBeforeCode
      <4>4. IF m = 1 THEN code'[q] = "absent" ELSE meta'[q] = "good"
        BY <1>1, <1>3, <1>4, <3>3, <4>2
      <4>5. Creates(i, q)'
        BY <1>5, <1>6, <3>3, <2>1
      <4> QED
        BY <1>4, <1>5, <2>1, <4>1, <4>3, <4>4, <4>5 DEF MetaBeforeCode
    <3> QED
      BY <3>2, <3>3
  <2> QED
    BY <1>2, <2>1 DEF MetaFirst
<1>10. DirInv'
  <2>1. ASSUME NEW q \in dir
        PROVE  \E j \in Inits : init'[j].for = q /\ init'[j].at \in {"open", "write", "done", "failed"}
    <3>1. PICK j \in Inits : init[j].for = q /\ init[j].at \in {"open", "write", "done", "failed"}
      BY DEF DirInv
    <3> QED
      BY <1>4, <1>5, <1>6, <3>1
  <2>2. \A q \in ready : \A j \in Inits :
          init'[j].for = q => init'[j].at \in {"done", "refused", "failed"}
    BY <1>1, <1>4, <1>5, <1>6 DEF DirInv
  <2> QED
    BY <1>2, <2>1, <2>2 DEF DirInv
<1>11. WholeInv'
  <2>1. ASSUME NEW q \in Plugins, Whole(q) PROVE Whole(q)'
    <3>1. \A k \in 1..3 : (q # p \/ k # n) => (Writes(k, q) => Writes(k, q)')
      BY <1>4, <1>5, <1>6 DEF Writes
    <3>2. CASE q # p
      BY <1>2, <1>3, <1>4, <1>5, <1>6, <2>1, <3>1, <3>2 DEF Whole
    <3>3. CASE q = p
      <4>1. ~whole => Writes(n, q)'
        BY <1>4, <1>5, <3>3 DEF Writes
      <4>2. /\ n > 1 => meta[q] # "absent"
            /\ n > 2 => code[q] # "absent"
        BY <1>6, <2>1, <3>3 DEF Whole
      <4>3. \A j \in Inits : init'[j].for = q =>
              /\ init'[j].file > 1 => meta'[q] # "absent"
              /\ init'[j].file > 2 => code'[q] # "absent"
              /\ init'[j].file > 3 => config'[q] # "absent"
        <5>1. /\ m > 1 => meta'[q] # "absent"
              /\ m > 2 => code'[q] # "absent"
              /\ m > 3 => config'[q] # "absent"
          BY <1>1, <1>3, <1>4, <3>3, <4>2
        <5>2. /\ meta[q] # "absent" => meta'[q] # "absent"
              /\ code[q] # "absent" => code'[q] # "absent"
              /\ config[q] # "absent" => config'[q] # "absent"
          BY <1>3, <3>3
        <5> QED
          BY <1>4, <1>5, <2>1, <5>1, <5>2 DEF Whole
      <4>4. meta'[q] # "bad" /\ (meta'[q] = "torn" => Writes(1, q)')
        BY <1>1, <1>3, <2>1, <3>1, <3>3, <4>1 DEF Whole
      <4>5. /\ code'[q] \in {"absent", "torn", "generated"}
            /\ code'[q] = "torn" => Writes(2, q)'
        BY <1>1, <1>3, <2>1, <3>1, <3>3, <4>1 DEF Whole
      <4>6. config'[q] = "torn" => Writes(3, q)' \/ (at' = "write" /\ current' = q)
        BY <1>1, <1>2, <1>3, <2>1, <3>1, <3>3, <4>1 DEF Whole
      <4>7. config'[q] = "whole" => "enabled" \in sets'[q]
        BY <1>1, <1>3, <2>1, <3>3 DEF Whole
      <4> QED
        BY <4>3, <4>4, <4>5, <4>6, <4>7 DEF Whole
    <3> QED
      BY <3>2, <3>3
  <2> QED
    BY <1>2, <2>1 DEF WholeInv
<1>12. ReadyInv' /\ LoaderInv'
  BY <1>2 DEF ReadyInv, LoaderInv
<1> QED
  BY <1>7, <1>8, <1>9, <1>10, <1>11, <1>12

\* What the user edits is the user's from then on.
LEMMA EditKeeps ==
  ASSUME FInv, User PROVE FInv'
<1> USE DEF FInv
<1>1. PICK p \in Plugins : EditCode(p) \/ EditMeta(p) \/ EditConfig(p)
  BY DEF User
<1>2. /\ touched' = touched \cup {p} /\ UNCHANGED <<dir, init>>
      /\ UNCHANGED <<at, todo, current, kept, active, got, skipped, ready>>
      /\ used'.failures = used.failures /\ used' \in [edits : Nat, loads : Nat, failures : Nat]
  BY <1>1 DEF EditCode, EditMeta, EditConfig, Edit, loader, FilesType
<1>3. \A q \in Plugins : q # p => /\ meta'[q] = meta[q] /\ code'[q] = code[q]
                                  /\ config'[q] = config[q] /\ sets'[q] = sets[q]
  <2>1. CASE EditCode(p)
    BY <2>1 DEF EditCode
  <2>2. CASE EditMeta(p)
    BY <2>2 DEF EditMeta
  <2>3. CASE EditConfig(p)
    BY <2>3 DEF EditConfig
  <2> QED
    BY <1>1, <2>1, <2>2, <2>3
<1>4. FilesType'
  <2>1. /\ meta' \in [Plugins -> {"absent", "torn", "bad", "good"}]
        /\ sets' \in [Plugins -> SUBSET Keys]
    BY <1>1 DEF EditCode, EditMeta, EditConfig, FilesType
  <2>2. UNCHANGED config
    BY <1>1 DEF EditCode, EditMeta, EditConfig
  <2> QED
    BY <1>2, <2>1, <2>2 DEF FilesType
<1>5. StepInv' /\ DirInv' /\ LoaderInv'
  BY <1>2 DEF StepInv, DirInv, LoaderInv
<1>6. Raced' = Raced /\ SkipsOnlyEdited'
  BY <1>2 DEF Raced, SkipsOnlyEdited
<1>7. MetaFirst'
  BY <1>2, <1>3, <1>6 DEF MetaFirst, MetaBeforeCode, Creates
<1>8. WholeInv'
  BY <1>2, <1>3 DEF WholeInv, Whole, Writes
<1>9. ReadyInv'
  BY <1>2 DEF ReadyInv
<1> QED
  BY <1>4, <1>5, <1>6, <1>7, <1>8, <1>9
-----------------------------------------------------------------------------
(* The loader beside them. *)

\* A plugin that was ready when the load began, and is nobody's since, is
\* complete as long as no write fails.
LEMMA ReadyIsWhole ==
  ASSUME FInv, TypeInv, used.failures = 0, NEW p \in ready, p \notin touched
  PROVE  /\ p \in Plugins /\ p \in dir /\ meta[p] = "good" /\ code[p] = "generated"
         /\ config[p] = "whole" /\ "enabled" \in sets[p]
<1>1. p \in Plugins /\ p \in dir /\ Whole(p)
  BY DEF FInv, FilesType, DirInv, WholeInv
<1>2. \A n \in 1..3 : ~Writes(n, p)
  BY DEF FInv, DirInv, Writes
<1>3. PICK i \in Inits : init[i].for = p /\ init[i].file = 4
  BY <1>1 DEF FInv, DirInv, StepInv
<1>4. ~(at = "write" /\ current = p)
  BY DEF FInv, LoaderInv
<1>5. /\ meta[p] \in {"absent", "torn", "bad", "good"}
      /\ config[p] \in {"absent", "torn", "whole"}
  BY <1>1 DEF FInv, FilesType
<1> QED
  BY <1>1, <1>2, <1>3, <1>4, <1>5 DEF Whole

\* What the loader leaves alone.
LEMMA LoaderFrame ==
  ASSUME FInv, UNCHANGED <<dir, meta, code, touched, init, used>>
  PROVE  StepInv' /\ MetaFirst' /\ Raced' = Raced
<1>1. Raced' = Raced
  BY DEF Raced
<1> QED
  BY <1>1 DEF FInv, StepInv, MetaFirst, MetaBeforeCode, Creates

\* A load begins: what is ready is to be visited.
LEMMA BeginFiles ==
  ASSUME FInv, BeginLoad PROVE FInv'
<1> USE DEF FInv
<1>1. /\ UNCHANGED <<dir, meta, code, config, sets, touched, init, current, got>>
      /\ at' = "loading" /\ todo' = dir /\ skipped' = {}
      /\ ready' = {p \in dir : \A i \in Inits :
                     init[i].for = p => init[i].at \in {"done", "refused", "failed"}}
      /\ used'.failures = used.failures /\ used' \in [edits : Nat, loads : Nat, failures : Nat]
  BY DEF BeginLoad, Begin, files, FilesType
<1>2. FilesType' /\ SkipsOnlyEdited' /\ ReadyInv' /\ LoaderInv'
  BY <1>1 DEF FilesType, SkipsOnlyEdited, ReadyInv, LoaderInv
<1>3. StepInv' /\ DirInv' /\ Raced' = Raced
  BY <1>1 DEF StepInv, DirInv, Raced
<1>4. MetaFirst'
  BY <1>1, <1>3 DEF MetaFirst, MetaBeforeCode, Creates
<1>5. WholeInv'
  <2>1. ASSUME NEW p \in Plugins, Whole(p) PROVE Whole(p)'
    <3>1. at \in {"started", "running"}
      BY DEF BeginLoad, Begin
    <3> QED
      BY <1>1, <2>1, <3>1 DEF Whole, Writes
  <2> QED
    BY <1>1, <2>1 DEF WholeInv
<1> QED
  BY <1>2, <1>3, <1>4, <1>5

\* A directory is visited: one that was ready is not skipped.
LEMMA VisitFiles ==
  ASSUME FInv, TypeInv, NEW p \in Plugins, Visit(p) PROVE FInv'
<1> USE DEF FInv
<1>1. /\ UNCHANGED <<dir, meta, code, config, sets, touched, init, kept, active, got, ready, used>>
      /\ at = "loading" /\ p \in todo /\ todo' = todo \ {p} /\ at' \in {"loading", "require"}
  BY DEF Visit, files
<1>2. FilesType' /\ DirInv'
  BY <1>1 DEF FilesType, DirInv
<1>3. StepInv' /\ MetaFirst' /\ Raced' = Raced
  BY <1>1, LoaderFrame
<1>4. SkipsOnlyEdited'
  BY <1>1, <1>3 DEF Visit, SkipsOnlyEdited, MetaFirst, MetaBeforeCode
<1>5. WholeInv'
  BY <1>1 DEF WholeInv, Whole, Writes
<1>6. LoaderInv'
  BY <1>1 DEF LoaderInv
<1>7. ReadyInv'
  <2>1. ASSUME used.failures = 0, p \in ready, p \notin touched
        PROVE  at' = "require" /\ current' = p
    BY <2>1, ReadyIsWhole DEF Visit
  <2> QED
    BY <1>1, <2>1 DEF ReadyInv
<1> QED
  BY <1>2, <1>3, <1>4, <1>5, <1>6, <1>7

\* require: the init.lua of a plugin that was ready is the generated one.
LEMMA RequireFiles ==
  ASSUME FInv, IInv, NEW p \in Plugins, Require(p) PROVE FInv'
<1> USE DEF FInv
<1>1. /\ UNCHANGED <<dir, meta, code, config, sets, touched, init, todo, got, skipped, ready, used>>
      /\ at = "require" /\ current = p /\ at' \in {"loading", "config"}
      /\ \A q \in Plugins : q # p => active'[q] = active[q]
      /\ Module(p) = code[p]
  BY DEF Require, files, Loaded, LoadFails, IInv, TypeInv, FreshInv, Module
<1>2. FilesType' /\ DirInv' /\ SkipsOnlyEdited'
  BY <1>1, LoaderFrame DEF FilesType, DirInv, SkipsOnlyEdited
<1>3. StepInv' /\ MetaFirst'
  BY <1>1, LoaderFrame
<1>4. WholeInv'
  BY <1>1 DEF WholeInv, Whole, Writes
<1>5. LoaderInv'
  BY <1>1 DEF LoaderInv
<1>6. ReadyInv'
  <2>1. ASSUME used.failures = 0, NEW q \in ready, q \notin touched
        PROVE  \/ q \in todo'
               \/ at' = "config" /\ current' = q /\ kept'[q] = "generated"
               \/ active'[q] = "generated" /\ "enabled" \in got'[q]
    <3>1. q \in Plugins /\ code[q] = "generated"
      BY <2>1, ReadyIsWhole DEF IInv
    <3>2. CASE q # p
      BY <1>1, <2>1, <3>1, <3>2 DEF ReadyInv
    <3>3. CASE q = p
      <4>1. at' = "config" /\ current' = p /\ kept' = [kept EXCEPT ![p] = "generated"]
        BY <1>1, <3>1, <3>3 DEF Require
      <4> QED
        BY <3>3, <4>1 DEF IInv, TypeInv
    <3> QED
      BY <3>2, <3>3
  <2> QED
    BY <1>1, <2>1 DEF ReadyInv
<1> QED
  BY <1>2, <1>3, <1>4, <1>5, <1>6

\* load_config: the config.json of a plugin that was ready is there, whole, and
\* says whether it is enabled.
LEMMA LoadConfigFiles ==
  ASSUME FInv, IInv, NEW p \in Plugins, LoadConfig(p) PROVE FInv'
<1> USE DEF FInv
<1>1. /\ UNCHANGED <<dir, meta, code, config, sets, touched, init, todo, skipped, ready, used>>
      /\ at = "config" /\ current = p /\ at' \in {"loading", "open"}
      /\ at' = "open" => current' = p /\ config[p] = "absent"
      /\ \A q \in Plugins : q # p => active'[q] = active[q] /\ got'[q] = got[q]
      /\ got' \in [Plugins -> SUBSET Keys]
  BY DEF LoadConfig, files, Loaded, LoadFails, IInv, TypeInv, FilesType
<1>2. FilesType' /\ DirInv' /\ SkipsOnlyEdited'
  BY <1>1, LoaderFrame DEF FilesType, DirInv, SkipsOnlyEdited
<1>3. StepInv' /\ MetaFirst'
  BY <1>1, LoaderFrame
<1>4. WholeInv'
  BY <1>1 DEF WholeInv, Whole, Writes
<1>5. LoaderInv'
  BY <1>1, ReadyIsWhole DEF LoaderInv, IInv
<1>6. ReadyInv'
  <2>1. ASSUME used.failures = 0, NEW q \in ready, q \notin touched
        PROVE  q \in todo' \/ (active'[q] = "generated" /\ "enabled" \in got'[q])
    <3>1. q \in Plugins /\ config[q] = "whole" /\ "enabled" \in sets[q]
      BY <2>1, ReadyIsWhole DEF IInv
    <3>2. CASE q # p
      BY <1>1, <2>1, <3>1, <3>2 DEF ReadyInv
    <3>3. CASE q = p
      <4>1. kept[p] = "generated"
        <5>1. active[p] = "none" /\ p \notin todo
          BY <1>1 DEF IInv, RegInv, Busy
        <5> QED
          BY <1>1, <2>1, <3>3, <5>1 DEF ReadyInv
      <4>2. got' = [got EXCEPT ![p] = sets[p]] /\ active' = [active EXCEPT ![p] = kept[p]]
        BY <3>1, <3>3 DEF LoadConfig, Loaded
      <4> QED
        BY <3>1, <3>3, <4>1, <4>2 DEF IInv, TypeInv, FilesType
    <3> QED
      BY <3>2, <3>3
  <2> QED
    BY <1>1, <2>1 DEF ReadyInv
<1> QED
  BY <1>2, <1>3, <1>4, <1>5, <1>6

\* A missing config.json is created, of a plugin that was not ready.
LEMMA MakeConfigFiles ==
  ASSUME FInv, IInv, NEW p \in Plugins, OpenConfig(p) \/ WriteConfig(p) PROVE FInv'
<1> USE DEF FInv
<1>1. /\ UNCHANGED <<dir, meta, code, touched, init, todo, skipped, ready, used>>
      /\ at \in {"open", "write"} /\ current = p /\ at' \in {"write", "loading"}
      /\ at' = "write" => current' = p /\ config'[p] = "torn"
      /\ at' = "loading" => config'[p] = "whole" /\ "enabled" \in sets'[p]
      /\ config' \in [Plugins -> {"absent", "torn", "whole"}]
      /\ sets' \in [Plugins -> SUBSET Keys] /\ got' \in [Plugins -> SUBSET Keys]
      /\ \A q \in Plugins : q # p => /\ config'[q] = config[q] /\ sets'[q] = sets[q]
                                     /\ active'[q] = active[q] /\ got'[q] = got[q]
  BY DefaultsFacts DEF OpenConfig, WriteConfig, Loaded, IInv, TypeInv, FilesType
<1>2. FilesType' /\ DirInv' /\ SkipsOnlyEdited'
  BY <1>1, LoaderFrame DEF FilesType, DirInv, SkipsOnlyEdited
<1>3. StepInv' /\ MetaFirst'
  BY <1>1, LoaderFrame
<1>4. WholeInv'
  <2>1. ASSUME NEW q \in Plugins, Whole(q) PROVE Whole(q)'
    <3>1. \A n \in 1..3 : Writes(n, q)' <=> Writes(n, q)
      BY <1>1 DEF Writes
    <3>2. config[q] # "absent" => config'[q] # "absent"
      BY <1>1
    <3>3. config'[q] = "torn" => Writes(3, q)' \/ (at' = "write" /\ current' = q)
      BY <1>1, <2>1, <3>1 DEF Whole
    <3>4. config'[q] = "whole" => "enabled" \in sets'[q]
      BY <1>1, <2>1 DEF Whole
    <3> QED
      BY <1>1, <2>1, <3>1, <3>2, <3>3, <3>4 DEF Whole
  <2> QED
    BY <1>1, <2>1 DEF WholeInv
<1>5. LoaderInv'
  BY <1>1 DEF LoaderInv
<1>6. ReadyInv'
  BY <1>1 DEF ReadyInv, LoaderInv, FilesType, DirInv
<1> QED
  BY <1>2, <1>3, <1>4, <1>5, <1>6

\* It cannot be created; the load ends; or nothing happens.
LEMMA RestFiles ==
  ASSUME FInv, IInv,
         (\E p \in Plugins : WriteConfigFails(p)) \/ EndLoad \/ UNCHANGED vars
  PROVE  FInv'
<1> USE DEF FInv
<1>1. /\ UNCHANGED <<dir, meta, code, config, sets, touched, init, todo, kept, active, got,
                     skipped, ready>>
      /\ used' \in [edits : Nat, loads : Nat, failures : Nat]
      /\ used'.failures > used.failures \/ used' = used
      /\ used.failures \in Nat
  BY DEF WriteConfigFails, LoadFails, EndLoad, vars, loader, files, FilesType
<1>2. Raced' = Raced
  BY <1>1 DEF Raced
<1>3. FilesType' /\ StepInv' /\ DirInv' /\ SkipsOnlyEdited'
  BY <1>1, <1>2 DEF FilesType, StepInv, DirInv, SkipsOnlyEdited
<1>4. MetaFirst'
  BY <1>1, <1>2 DEF MetaFirst, MetaBeforeCode, Creates
<1>5. CASE \E p \in Plugins : WriteConfigFails(p)
  <2>1. used'.failures # 0 /\ at' = "loading"
    BY <1>1, <1>5 DEF WriteConfigFails, LoadFails, FilesType
  <2> QED
    BY <1>3, <1>4, <2>1 DEF WholeInv, ReadyInv, LoaderInv
<1>6. CASE EndLoad
  <2>1. at = "loading" /\ todo = {} /\ at' = "running" /\ used' = used /\ current' = current
    BY <1>6 DEF EndLoad
  <2>2. WholeInv' /\ ReadyInv' /\ LoaderInv'
    BY <1>1, <2>1 DEF WholeInv, Whole, Writes, ReadyInv, LoaderInv
  <2> QED
    BY <1>3, <1>4, <2>2
<1>7. CASE UNCHANGED vars
  <2>1. WholeInv' /\ ReadyInv' /\ LoaderInv'
    BY <1>7 DEF vars, loader, files, WholeInv, Whole, Writes, ReadyInv, LoaderInv
  <2> QED
    BY <1>3, <1>4, <2>1
<1> QED
  BY <1>5, <1>6, <1>7

\* Every step keeps the invariant of the files.
LEMMA NextFInv == FInv /\ IInv /\ [Next]_vars => FInv'
<1> SUFFICES ASSUME FInv, IInv, [Next]_vars PROVE FInv'
  OBVIOUS
<1>1. TypeInv
  BY DEF IInv
<1>2. CASE Scaffold
  BY <1>1, <1>2, CheckKeeps, MakeDirKeeps, FileKeeps, InitFailsKeeps DEF Scaffold
<1>3. CASE User
  BY <1>3, EditKeeps
<1>4. CASE Load
  BY <1>1, <1>4, BeginFiles, VisitFiles, RequireFiles, LoadConfigFiles, MakeConfigFiles,
     RestFiles DEF Load
<1>5. CASE UNCHANGED vars
  BY <1>5, RestFiles
<1> QED
  BY <1>2, <1>3, <1>4, <1>5 DEF Next

\* Both invariants, of the files and of the loader.
THEOREM FilesInvariant == Spec => [](IInv /\ FInv)
<1>1. Init => IInv /\ FInv
  BY InitInv, FInit
<1>2. IInv /\ FInv /\ [Next]_vars => (IInv /\ FInv)'
  BY NextInv, NextFInv
<1> QED
  BY <1>1, <1>2, PTL DEF Spec

\* A load skips a plugin for its meta.toml only if the user edited it or two
\* mcrstw init create it at the same time: wherever init is, or has failed.
THEOREM SkipsOnlyEditedHolds == Spec => []SkipsOnlyEdited
<1>1. FInv => SkipsOnlyEdited
  BY DEF FInv
<1> QED
  BY FilesInvariant, <1>1, PTL

\* A plugin that was complete when a load began runs when it ends, with every
\* setting its init.lua asks for, unless the user edited it or a write failed.
THEOREM ScaffoldLoadsHolds == Spec => []ScaffoldLoads
<1>1. IInv /\ FInv => ScaffoldLoads
  <2> SUFFICES ASSUME IInv, FInv, at = "running", used.failures = 0,
                      NEW p \in ready \ touched
               PROVE  p \in registry /\ Defaults(active[p]) \subseteq got[p]
    BY DEF ScaffoldLoads
  <2>1. p \in Plugins /\ todo = {}
    BY ReadyIsWhole DEF IInv, FInv, LoaderInv
  <2>2. active[p] = "generated" /\ "enabled" \in got[p]
    BY <2>1 DEF FInv, ReadyInv
  <2>3. registry = Runs
    BY DEF IInv, RegInv, Busy
  <2> QED
    BY <2>1, <2>2, <2>3 DEF Runs, Defaults
<1> QED
  BY FilesInvariant, <1>1, PTL
=============================================================================
