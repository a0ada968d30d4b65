------------------------------ MODULE Settings ------------------------------
(***************************************************************************)
(* The settings in force and the files they come from: trigger_config.toml *)
(* and mcrw.toml (lua_ctx.rs) and, for RCON, the server's own              *)
(* server.properties (rcon.rs), over several runs of the wrapper.          *)
(*                                                                         *)
(* Starting, main reads the three in this order, writing the first two     *)
(* when they are missing, and then starts the server, which reads its      *)
(* server.properties and writes it again. !reload reads only the first.    *)
(* The user edits any of them at any time.                                 *)
(***************************************************************************)
EXTENDS Integers

CONSTANTS
  Events,    \* names of lifecycle events; "start" is one of them
  Passwords, \* RCON passwords somebody may choose
  Special,   \* those with a character that server.properties escapes
  \* bounds of the exploration
  MaxEdits, MaxRuns, MaxFailures

ASSUME SettingsAssumption ==
  /\ "start" \in Events /\ Special \subseteq Passwords
  /\ Passwords \cap {"", "omitted"} = {}
  /\ MaxEdits \in Nat /\ MaxRuns \in Nat /\ MaxFailures \in Nat

VARIABLES
  at,      \* main: "off", about to read "trigger", "mcrw" or "rcon", "spawn", "up"
  events,  \* events[e]: "no" event, or its patterns: "builtin", "own", "none"
  config,  \* the settings of mcrw.toml in force
  rcon,    \* where RconHandle connects to
  server,  \* where the server listens
  trigger, \* trigger_config.toml: its state, and what it has for each event
  mcrw,    \* mcrw.toml: its state, and what it sets
  props,   \* server.properties: what it sets
  edited,  \* history: files the user has edited
  behind,  \* history: server.properties has been edited since the wrapper read it
  used     \* how much of each bound is used up

vars == <<at, events, config, rcon, server, trigger, mcrw, props, edited, behind, used>>

Omitted == "omitted"

\* What is written for a password: itself, or a longer text, which escapes it.
Text == [of : Passwords \cup {"", Omitted}, escaped : BOOLEAN]
Plain(p) == [of |-> p, escaped |-> FALSE]

\* timeout stands for every value with a built-in default.
Config == [timeout : {"default", "own"}, enabled : {Omitted, "true", "false"},
           port : {Omitted, "own"}, password : {Plain(p) : p \in Passwords \cup {Omitted}}]
Defaults == [timeout |-> "default", enabled |-> Omitted, port |-> Omitted,
             password |-> Plain(Omitted)]

Props   == [enabled : {Omitted, "true", "false"}, port : {Omitted, "own", "default", "no number"},
            password : Text]
NoProps == [enabled |-> Omitted, port |-> Omitted, password |-> Plain(Omitted)]

Rcon == [on : BOOLEAN, port : {"default", "own"},
         password : {t \in Text : t.of # Omitted}]
Off  == [on |-> FALSE, port |-> "default", password |-> Plain("")]

BuiltIn == [e \in Events |-> IF e = "start" THEN "builtin" ELSE "no"]
Nothing == [e \in Events |-> "no"]

Init ==
  /\ at = "off" /\ events = BuiltIn /\ config = Defaults /\ rcon = Off /\ server = Off
  /\ trigger = [st |-> "missing", has |-> Nothing]
  /\ mcrw = [st |-> "missing", sets |-> Defaults]
  /\ props = NoProps
  /\ edited = {} /\ behind = FALSE /\ used = [edits |-> 0, runs |-> 0, failures |-> 0]
-----------------------------------------------------------------------------
(* The wrapper starts. *)

Go(from, to) == at = from /\ at' = to

\* The first run writes the file, with contents c, or cannot.
WriteFirst(file, c) ==
  \/ file' = c /\ UNCHANGED used
  \/ /\ used.failures < MaxFailures /\ used' = [used EXCEPT !.failures = @ + 1]
     /\ UNCHANGED file

Start ==
  /\ Go("off", "trigger") /\ used.runs < MaxRuns
  /\ used' = [used EXCEPT !.runs = @ + 1]
  /\ UNCHANGED <<events, config, rcon, server, trigger, mcrw, props, edited, behind>>

\* Mutant: the user's events replace all the built-in ones.
TheirsOnly(file) == IF file.st = "ok" THEN file.has ELSE BuiltIn

\* The user's events replace the built-in ones of the same name; a pattern that
\* does not compile is dropped and its event stays.
EventsOf(file) ==
  [e \in Events |-> IF file.st = "ok" /\ file.has[e] # "no" THEN file.has[e] ELSE BuiltIn[e]]

\* load_trigger_config, where the file that is written is all comments.
LoadTrigger ==
  /\ events' = EventsOf(trigger)
  /\ IF trigger.st = "missing" THEN WriteFirst(trigger, [st |-> "ok", has |-> Nothing])
     ELSE UNCHANGED <<trigger, used>>

ReadTrigger ==
  /\ Go("trigger", "mcrw") /\ LoadTrigger
  /\ UNCHANGED <<config, rcon, server, mcrw, props, edited, behind>>

\* Mutant: the template switches RCON off.
TemplateOff == [Defaults EXCEPT !.enabled = "false"]

\* What DEFAULT_MCRW_TOML sets: what it does not comment out, it sets to the
\* built-in defaults.
Template == [timeout |-> "default", enabled |-> Omitted, port |-> Omitted,
             password |-> Plain(Omitted)]

ConfigOf(file) == IF file.st = "ok" THEN file.sets ELSE Defaults

\* load_mcrw_config.
ReadMcrw ==
  /\ Go("mcrw", "rcon")
  /\ config' = ConfigOf(mcrw)
  /\ IF mcrw.st = "missing" THEN WriteFirst(mcrw, [st |-> "ok", sets |-> Template])
     ELSE UNCHANGED <<mcrw, used>>
  /\ UNCHANGED <<events, rcon, server, trigger, props, edited, behind>>

First(a, b) == IF a # Omitted THEN a ELSE b

\* Mutant: RCON is taken to be on unless it is switched off.
OnByDefault == First(config.enabled, props.enabled) # "false"

Enabled == First(config.enabled, props.enabled) = "true"

Password == IF config.password.of # Omitted THEN config.password
            ELSE IF props.password.of # Omitted THEN props.password ELSE Plain("")

\* resolve_settings: mcrw.toml, else server.properties as it stands, else the
\* defaults.
ReadRcon ==
  /\ Go("rcon", "spawn")
  /\ rcon' =
       IF ~Enabled THEN Off
       ELSE [on |-> TRUE,
             port |-> IF "own" \in {config.port, props.port} THEN "own" ELSE "default",
             password |-> Password]
  /\ behind' = FALSE
  /\ UNCHANGED <<events, config, server, trigger, mcrw, props, edited, used>>

\* The server reads its properties as Java does, does not listen without a
\* password, and writes them out again, with what was missing, and escaped.
Spawn ==
  LET password == IF props.password.of = Omitted THEN "" ELSE props.password.of
  IN /\ Go("spawn", "up")
     /\ server' = IF props.enabled # "true" \/ password = "" THEN Off
                  ELSE [on |-> TRUE, port |-> IF props.port = "own" THEN "own" ELSE "default",
                        password |-> Plain(password)]
     /\ props' = [enabled |-> First(props.enabled, "false"),
                  port |-> IF props.port = "own" THEN "own" ELSE "default",
                  password |-> [of |-> password, escaped |-> password \in Special]]
     /\ UNCHANGED <<events, config, rcon, trigger, mcrw, edited, behind, used>>
-----------------------------------------------------------------------------
(* The wrapper runs, and ends. *)

\* reload_plugins reads trigger_config.toml, and not mcrw.toml.
Reload ==
  /\ at = "up" /\ UNCHANGED at
  /\ LoadTrigger
  /\ UNCHANGED <<config, rcon, server, mcrw, props, edited, behind>>

Stop ==
  /\ at # "off" /\ at' = "off"
  /\ rcon' = Off /\ server' = Off
  /\ UNCHANGED <<events, config, trigger, mcrw, props, edited, behind, used>>
-----------------------------------------------------------------------------
(* The user. *)

Edit(file) ==
  /\ used.edits < MaxEdits /\ used' = [used EXCEPT !.edits = @ + 1]
  /\ edited' = edited \cup {file}
  /\ UNCHANGED <<at, events, config, rcon, server>>

\* A file of the user's parses, or does not.
EditTrigger ==
  /\ Edit("trigger")
  /\ \/ \E has \in [Events -> {"no", "own", "none"}] : trigger' = [st |-> "ok", has |-> has]
     \/ trigger' = [trigger EXCEPT !.st = "bad"]
  /\ UNCHANGED <<mcrw, props, behind>>

EditMcrw ==
  /\ Edit("mcrw")
  /\ \/ \E sets \in Config : mcrw' = [st |-> "ok", sets |-> sets]
     \/ mcrw' = [mcrw EXCEPT !.st = "bad"]
  /\ UNCHANGED <<trigger, props, behind>>

\* The user need not escape anything to be understood.
EditProps ==
  /\ Edit("props") /\ behind' = TRUE
  /\ \E new \in Props : ~new.password.escaped /\ props' = new
  /\ UNCHANGED <<trigger, mcrw>>

Main == Start \/ ReadTrigger \/ ReadMcrw \/ ReadRcon \/ Spawn \/ Reload \/ Stop
User == EditTrigger \/ EditMcrw \/ EditProps

Next == Main \/ User

Spec == Init /\ [][Next]_vars
-----------------------------------------------------------------------------
(* Properties. *)

\* A plugin's register_start is never left without a start event: whatever the
\* user's file defines, misspells or breaks, "start" is there, with the built-in
\* pattern unless the file gives it others.
StartIsThere ==
  /\ events["start"] # "no"
  /\ events["start"] = "builtin" \/ "trigger" \in edited

\* The files the wrapper writes change nothing: for as long as the user does not
\* edit them, each later run that reads them has the settings of the first one,
\* which found none.
TemplatesChangeNothing ==
  /\ "trigger" \notin edited => events = BuiltIn
  /\ "mcrw" \notin edited => config = Defaults

\* Without overrides in mcrw.toml, the wrapper connects to RCON exactly if the
\* server listens, to the same port and with the same password; the first run,
\* when there is no server.properties yet, included, and the later ones, when the
\* server has rewritten it. Excepted are an edit between the wrapper's reading
\* and the server's, an empty password, which the wrapper tries, with a warning,
\* and a password that the server escapes when it rewrites the file.
RconAgrees ==
  (at = "up" /\ ~behind /\ props.password.of \notin Special
     /\ config.enabled = Omitted /\ config.port = Omitted /\ config.password.of = Omitted)
   => rcon = server \/ (rcon.password.of = "" /\ ~server.on)
=============================================================================
