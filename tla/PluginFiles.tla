---------------------------- MODULE PluginFiles ----------------------------
(***************************************************************************)
(* The files of a plugin (meta.toml, init.lua, config.json), and the three *)
(* that work on them without knowing of each other: mcrstw init, which     *)
(* creates them one by one (scaffold.rs); the wrapper, whose load_plugins  *)
(* reads them at the start and on each !reload, and whose load_config      *)
(* creates config.json when there is none (lua_ctx.rs); and the user.      *)
(*                                                                         *)
(* fs::write creates or empties a file, then writes it: in between, or     *)
(* when that fails, the file is torn.                                      *)
(***************************************************************************)
EXTENDS Integers, Sequences

CONSTANTS
  Plugins,  \* directory names, all of them valid
  Inits,    \* processes that run mcrstw init
  Keys,     \* what a config.json may set; "enabled" is one of them
  Versions, \* versions of init.lua the user writes after the generated one
  \* bounds of the exploration
  MaxEdits, MaxLoads, MaxFailures

NoPlugin == "no plugin"

ASSUME PluginFilesAssumption ==
  /\ "enabled" \in Keys /\ Versions \cap {"absent", "torn", "none", "generated"} = {}
  /\ NoPlugin \notin Plugins
  /\ MaxEdits \in Nat /\ MaxLoads \in Nat /\ MaxFailures \in Nat

VARIABLES
  dir,      \* plugins that have a directory
  meta,     \* meta[p]: "absent", "torn", "bad" (it does not parse) or "good"
  code,     \* code[p], its init.lua: "absent", "torn", or a version
  config,   \* config[p]: "absent", "torn" or "whole"
  sets,     \* sets[p]: the keys a whole config.json has
  touched,  \* history: plugins the user has edited
  init,     \* init[i]: where process i is, for which plugin, at which file
  \* the wrapper
  at,       \* "started", "loading", "require", "config", "open", "write", "running"
  todo, current,  \* directories still to be visited; the plugin being loaded
  registry, \* PluginRegistry
  cached,   \* package.loaded: plugins whose init.lua Lua has kept
  kept,     \* kept[p]: the version that was kept
  active,   \* active[p]: the version that runs, or "none"
  got,      \* got[p]: the keys load_config gave it
  skipped,  \* plugins skipped for their meta.toml by this load
  ready,    \* history: plugins that were created, and nobody at it, when this load began
  seen,     \* history: seen[p], what init.lua has been since this load began
  used      \* how much of each bound is used up

files   == <<dir, meta, code, config, sets>>
loader  == <<at, todo, current, registry, cached, kept, active, got, skipped, ready>>
vars    == <<files, touched, init, loader, seen, used>>

Codes == {"generated"} \cup Versions

\* What init.lua passes to load_config: a version of the user's wants all keys.
Defaults(v) == IF v = "generated" THEN {"enabled"} ELSE Keys

Init ==
  /\ dir = {} /\ touched = {}
  /\ meta = [p \in Plugins |-> "absent"] /\ code = [p \in Plugins |-> "absent"]
  /\ config = [p \in Plugins |-> "absent"] /\ sets = [p \in Plugins |-> {}]
  /\ init = [i \in Inits |-> [at |-> "idle", for |-> NoPlugin, file |-> 1]]
  /\ at = "started" /\ todo = {} /\ current = NoPlugin
  /\ registry = {} /\ cached = {} /\ kept = [p \in Plugins |-> "none"]
  /\ active = [p \in Plugins |-> "none"] /\ got = [p \in Plugins |-> {}]
  /\ skipped = {} /\ ready = {} /\ seen = [p \in Plugins |-> {}]
  /\ used = [edits |-> 0, loads |-> 0, failures |-> 0]
-----------------------------------------------------------------------------
(* mcrstw init. *)

\* It never enters a directory that is there.
Check(i, p) ==
  /\ init[i].at = "idle"
  /\ init' = [init EXCEPT ![i].for = p,
                          ![i].at = IF p \in dir THEN "refused" ELSE "checked"]
  /\ UNCHANGED <<files, touched, loader, seen, used>>

MakeDir(i) ==
  /\ init[i].at = "checked"
  /\ dir' = dir \cup {init[i].for}
  /\ init' = [init EXCEPT ![i].at = "open"]
  /\ UNCHANGED <<meta, code, config, sets, touched, loader, seen, used>>

\* Mutants: another order; no meta.toml.
CodeFirst == <<"init.lua", "meta.toml", "config.json">>
NoMeta    == <<"init.lua", "config.json">>

Order == <<"meta.toml", "init.lua", "config.json">>

\* File f of plugin p becomes torn, or what the templates say.
Put(p, f, whole) ==
  /\ meta' = IF f # "meta.toml" THEN meta
             ELSE [meta EXCEPT ![p] = IF whole THEN "good" ELSE "torn"]
  /\ code' = IF f # "init.lua" THEN code
             ELSE [code EXCEPT ![p] = IF whole THEN "generated" ELSE "torn"]
  /\ config' = IF f # "config.json" THEN config
               ELSE [config EXCEPT ![p] = IF whole THEN "whole" ELSE "torn"]
  /\ sets' = IF f = "config.json" /\ whole THEN [sets EXCEPT ![p] = {"enabled"}] ELSE sets
  /\ seen' = [seen EXCEPT ![p] = @ \cup {code'[p]}]

OpenNext(i) ==
  /\ init[i].at = "open"
  /\ Put(init[i].for, Order[init[i].file], FALSE)
  /\ init' = [init EXCEPT ![i].at = "write"]
  /\ UNCHANGED <<dir, touched, loader, used>>

WriteNext(i) ==
  /\ init[i].at = "write"
  /\ Put(init[i].for, Order[init[i].file], TRUE)
  /\ init' = [init EXCEPT ![i].file = @ + 1,
                          ![i].at = IF init[i].file = Len(Order) THEN "done" ELSE "open"]
  /\ UNCHANGED <<dir, touched, loader, used>>

\* An error ends it where it is: what it has created stays.
InitFails(i) ==
  /\ init[i].at \in {"checked", "open", "write"} /\ used.failures < MaxFailures
  /\ init' = [init EXCEPT ![i].at = "failed"]
  /\ used' = [used EXCEPT !.failures = @ + 1]
  /\ UNCHANGED <<files, touched, loader, seen>>
-----------------------------------------------------------------------------
(* The user edits the files of a plugin that is there. *)

Edit(p) ==
  /\ used.edits < MaxEdits /\ used' = [used EXCEPT !.edits = @ + 1]
  /\ touched' = touched \cup {p}
  /\ UNCHANGED <<dir, init, loader>>

EditCode(p) ==
  /\ code[p] \in Codes /\ Edit(p)
  /\ \E v \in Versions : code' = [code EXCEPT ![p] = v]
  /\ seen' = [seen EXCEPT ![p] = @ \cup {code'[p]}]
  /\ UNCHANGED <<meta, config, sets>>

EditMeta(p) ==
  /\ meta[p] \in {"good", "bad"} /\ Edit(p)
  /\ \E m \in {"good", "bad"} : meta' = [meta EXCEPT ![p] = m]
  /\ UNCHANGED <<code, config, sets, seen>>

EditConfig(p) ==
  /\ config[p] = "whole" /\ Edit(p)
  /\ \E ks \in SUBSET Keys : sets' = [sets EXCEPT ![p] = ks]
  /\ UNCHANGED <<meta, code, config, seen>>
-----------------------------------------------------------------------------
(* The wrapper: load_plugins, require, load_config. *)

Begin ==
  /\ at \in {"started", "running"} /\ used.loads < MaxLoads
  /\ used' = [used EXCEPT !.loads = @ + 1]
  /\ at' = "loading" /\ todo' = dir /\ registry' = {} /\ skipped' = {}
  /\ active' = [p \in Plugins |-> "none"]
  /\ ready' = {p \in dir : \A i \in Inits :
                 init[i].for = p => init[i].at \in {"done", "refused", "failed"}}
  /\ seen' = [p \in Plugins |-> {code[p]}]
  /\ UNCHANGED <<files, touched, init, current, got>>

\* Mutant: Lua keeps the modules.
BeginCached == Begin /\ UNCHANGED <<cached, kept>>

\* At the start, or on !reload, which empties the registry and takes from
\* package.loaded all modules under lua_plugins, as each init.lua is; helper modules
\* that a plugin requires by a shorter name stay there, and are not in the model.
BeginLoad == Begin /\ cached' = {} /\ UNCHANGED kept

\* A directory without init.lua is no plugin; one without a meta.toml that can
\* be read is skipped with an error; the others are entered and required.
Visit(p) ==
  /\ at = "loading" /\ p \in todo
  /\ todo' = todo \ {p}
  /\ \/ code[p] = "absent" /\ UNCHANGED <<at, current, registry, skipped>>
     \/ /\ code[p] # "absent" /\ meta[p] # "good"
        /\ skipped' = skipped \cup {p} /\ UNCHANGED <<at, current, registry>>
     \/ /\ code[p] # "absent" /\ meta[p] = "good"
        /\ registry' = registry \cup {p} /\ current' = p /\ at' = "require"
        /\ UNCHANGED skipped
  /\ UNCHANGED <<files, touched, init, cached, kept, active, got, ready, seen, used>>

Loaded(p, v) ==
  /\ active' = [active EXCEPT ![p] = v]
  /\ cached' = cached \cup {p} /\ kept' = [kept EXCEPT ![p] = v]
  /\ at' = "loading" /\ current' = NoPlugin /\ UNCHANGED registry

\* Mutant: a plugin that fails stays in the registry.
LoadFailsQuietly(p) ==
  /\ at' = "loading" /\ current' = NoPlugin
  /\ UNCHANGED <<registry, active, cached, kept>>

LoadFails(p) ==
  /\ at' = "loading" /\ current' = NoPlugin /\ registry' = registry \ {p}
  /\ UNCHANGED <<active, cached, kept>>

\* What require finds: a module that Lua has kept is not read again.
Module(p) == IF p \in cached THEN kept[p] ELSE code[p]

\* An init.lua that is cut off is an error, or, when it is still empty, runs and
\* does nothing.
Require(p) ==
  /\ at = "require" /\ current = p
  /\ \/ Module(p) = "torn" /\ (Loaded(p, "torn") \/ LoadFails(p))
     \/ /\ Module(p) \in Codes
        /\ at' = "config" /\ kept' = [kept EXCEPT ![p] = Module(p)]
        /\ UNCHANGED <<current, registry, cached, active>>
  /\ UNCHANGED <<files, touched, init, todo, got, skipped, ready, seen, used>>

\* load_config: what is in the file, all of it and nothing else; it may not
\* parse; or there is none.
LoadConfig(p) ==
  /\ at = "config" /\ current = p
  /\ \/ /\ config[p] = "whole"
        /\ got' = [got EXCEPT ![p] = sets[p]] /\ Loaded(p, kept[p])
     \/ config[p] = "torn" /\ LoadFails(p) /\ UNCHANGED got
     \/ /\ config[p] = "absent" /\ at' = "open"
        /\ UNCHANGED <<current, registry, active, cached, kept, got>>
  /\ UNCHANGED <<files, touched, init, todo, skipped, ready, seen, used>>

OpenConfig(p) ==
  /\ at = "open" /\ current = p
  /\ config' = [config EXCEPT ![p] = "torn"] /\ at' = "write"
  /\ UNCHANGED <<dir, meta, code, sets, touched, init, todo, current, registry, cached,
                 kept, active, got, skipped, ready, seen, used>>

WriteConfig(p) ==
  /\ at = "write" /\ current = p
  /\ config' = [config EXCEPT ![p] = "whole"]
  /\ sets' = [sets EXCEPT ![p] = Defaults(kept[p])]
  /\ got' = [got EXCEPT ![p] = Defaults(kept[p])]
  /\ Loaded(p, kept[p])
  /\ UNCHANGED <<dir, meta, code, touched, init, todo, skipped, ready, seen, used>>

WriteConfigFails(p) ==
  /\ at \in {"open", "write"} /\ current = p /\ used.failures < MaxFailures
  /\ used' = [used EXCEPT !.failures = @ + 1]
  /\ LoadFails(p)
  /\ UNCHANGED <<files, touched, init, todo, got, skipped, ready, seen>>

EndLoad ==
  /\ at = "loading" /\ todo = {}
  /\ at' = "running"
  /\ UNCHANGED <<files, touched, init, todo, current, registry, cached, kept, active, got,
                 skipped, ready, seen, used>>

Scaffold == \E i \in Inits : \/ \E p \in Plugins : Check(i, p)
                             \/ MakeDir(i) \/ OpenNext(i) \/ WriteNext(i) \/ InitFails(i)
User     == \E p \in Plugins : EditCode(p) \/ EditMeta(p) \/ EditConfig(p)
Load     == \/ BeginLoad \/ EndLoad
            \/ \E p \in Plugins : \/ Visit(p) \/ Require(p) \/ LoadConfig(p)
                                  \/ OpenConfig(p) \/ WriteConfig(p) \/ WriteConfigFails(p)

Next == Scaffold \/ User \/ Load

Spec == Init /\ [][Next]_vars
-----------------------------------------------------------------------------
(* Properties. *)

\* When a load is through, the registry lists the plugins that run, no others:
\* one whose init.lua or configuration failed is not in it.
RegistryExact ==
  at = "running" => registry = {p \in Plugins : active[p] # "none"}

\* A plugin runs an init.lua that was its own at some time since the last load
\* began: a reload never leaves an old init.lua running. This says nothing of other
\* modules, which Lua may have kept.
ReloadIsFresh == \A p \in Plugins : active[p] # "none" => active[p] \in seen[p]

\* Plugins that two processes create: each found no directory, since checking
\* and creating are two steps, and the later one writes over the other's files.
Raced == {p \in Plugins : \E i, j \in Inits :
            i # j /\ init[i].for = p /\ init[j].for = p /\ "refused" \notin {init[i].at, init[j].at}}

\* A reload in the middle of mcrstw init, or after one that failed half-way,
\* finds no plugin it must skip for its meta.toml: only the user breaks one, or
\* two that create the same plugin at the same time.
SkipsOnlyEdited == skipped \subseteq touched \cup Raced

\* What mcrstw init has created loads: unless the user has edited it, or a write
\* has failed, a load that begins after it ends with the plugin running, and with
\* every setting its init.lua asks for.
ScaffoldLoads ==
  (at = "running" /\ used.failures = 0) =>
    \A p \in ready \ touched : p \in registry /\ Defaults(active[p]) \subseteq got[p]
=============================================================================
