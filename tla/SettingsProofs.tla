---------------------------- MODULE SettingsProofs ----------------------------
(***************************************************************************)
(* Proofs about module Settings, for every set of events and passwords and *)
(* every bound.                                                            *)
(***************************************************************************)
EXTENDS Settings, TLAPS

TypeInv ==
  /\ events \in [Events -> {"no", "builtin", "own", "none"}]
  /\ trigger \in [st : {"missing", "ok", "bad"}, has : [Events -> {"no", "own", "none"}]]
  /\ mcrw \in [st : {"missing", "ok", "bad"}, sets : Config]
  /\ config \in Config /\ props \in Props
  /\ behind \in BOOLEAN

\* A file that the user has not edited sets nothing of its own.
TemplateInv ==
  /\ "trigger" \notin edited => trigger.has = Nothing /\ events = BuiltIn
  /\ "mcrw" \notin edited => mcrw.sets = Defaults /\ config = Defaults

\* Only what has to be is escaped in server.properties.
EscapeInv == props.password.escaped => props.password.of \in Special

\* Where the wrapper connects to, given what it has read.
Resolved ==
  IF ~Enabled THEN Off
  ELSE [on |-> TRUE,
        port |-> IF "own" \in {config.port, props.port} THEN "own" ELSE "default",
        password |-> Password]

\* Until the server has started, the wrapper has what server.properties says.
ReadInv == at = "spawn" /\ ~behind => rcon = Resolved

IInv == TypeInv /\ StartIsThere /\ TemplateInv /\ EscapeInv /\ ReadInv /\ RconAgrees
-----------------------------------------------------------------------------
\* The texts for passwords, and the built-in settings.
LEMMA ConstantFacts ==
  /\ \A p \in Passwords \cup {"", Omitted} :
        Plain(p) \in Text /\ Plain(p).of = p /\ ~Plain(p).escaped
  /\ Defaults \in Config /\ NoProps \in Props /\ Template = Defaults
  /\ Nothing \in [Events -> {"no", "own", "none"}]
  /\ BuiltIn \in [Events -> {"no", "builtin"}] /\ BuiltIn["start"] = "builtin"
BY SettingsAssumption
DEF Plain, Text, Defaults, Config, NoProps, Props, Template, Nothing, BuiltIn, Omitted

\* The first start of the wrapper, without files.
LEMMA InitInv == Init => IInv
<1> SUFFICES ASSUME Init PROVE IInv
  OBVIOUS
<1>1. TypeInv
  BY ConstantFacts DEF Init, TypeInv
<1>2. StartIsThere /\ TemplateInv
  BY ConstantFacts DEF Init, StartIsThere, TemplateInv
<1>3. EscapeInv
  BY ConstantFacts DEF Init, EscapeInv, NoProps
<1>4. ReadInv /\ RconAgrees
  BY DEF Init, ReadInv, RconAgrees
<1> QED
  BY <1>1, <1>2, <1>3, <1>4 DEF IInv

\* The events of a file: "start" is always one of them, and without the user's
\* own all are built in.
LEMMA EventFacts ==
  ASSUME TypeInv
  PROVE  /\ EventsOf(trigger) \in [Events -> {"no", "builtin", "own", "none"}]
         /\ EventsOf(trigger)["start"] # "no"
         /\ trigger.has = Nothing => EventsOf(trigger) = BuiltIn
<1>1. trigger.has \in [Events -> {"no", "own", "none"}]
  BY DEF TypeInv
<1>2. \A e \in Events : BuiltIn[e] \in {"no", "builtin"}
  BY ConstantFacts
<1>3. EventsOf(trigger) \in [Events -> {"no", "builtin", "own", "none"}]
  BY <1>1, <1>2 DEF EventsOf
<1>4. EventsOf(trigger)["start"] # "no"
  BY <1>1, ConstantFacts, SettingsAssumption DEF EventsOf
<1>5. ASSUME trigger.has = Nothing
      PROVE  EventsOf(trigger) = BuiltIn
  <2>1. \A e \in Events : trigger.has[e] = "no"
    BY <1>5 DEF Nothing
  <2>2. EventsOf(trigger) = [e \in Events |-> BuiltIn[e]]
    BY <2>1 DEF EventsOf
  <2> QED BY <2>2, ConstantFacts
<1> QED
  BY <1>3, <1>4, <1>5

\* Reading trigger_config.toml, at the start or at a reload.
LEMMA TriggerKeeps ==
  ASSUME IInv, LoadTrigger, UNCHANGED <<config, mcrw, props, edited, behind>>
  PROVE  TypeInv' /\ StartIsThere' /\ TemplateInv' /\ EscapeInv'
<1> USE DEF IInv
<1>1. events' = EventsOf(trigger)
  BY DEF LoadTrigger
<1>2. trigger' = trigger \/ trigger' = [st |-> "ok", has |-> Nothing]
  BY DEF LoadTrigger, WriteFirst
<1>3. trigger' \in [st : {"missing", "ok", "bad"}, has : [Events -> {"no", "own", "none"}]]
  <2>1. [st |-> "ok", has |-> Nothing]
          \in [st : {"missing", "ok", "bad"}, has : [Events -> {"no", "own", "none"}]]
    BY ConstantFacts
  <2> QED BY <1>2, <2>1 DEF TypeInv
<1>4. TypeInv'
  BY <1>1, <1>3, EventFacts DEF TypeInv
<1>5. TemplateInv'
  BY <1>1, <1>2, EventFacts DEF TemplateInv
<1>6. StartIsThere'
  BY <1>1, <1>5, EventFacts, ConstantFacts DEF StartIsThere, TemplateInv
<1>7. EscapeInv'
  BY DEF EscapeInv
<1> QED
  BY <1>4, <1>5, <1>6, <1>7

\* What the server makes of its properties is where the wrapper connects to.
LEMMA SpawnAgrees ==
  ASSUME IInv, Spawn
  PROVE  RconAgrees'
<1> SUFFICES ASSUME ~behind, props'.password.of \notin Special,
                    config.enabled = Omitted, config.port = Omitted,
                    config.password.of = Omitted
             PROVE  rcon' = server' \/ (rcon'.password.of = "" /\ ~server'.on)
  BY DEF RconAgrees, Spawn
<1> DEFINE password == IF props.password.of = Omitted THEN "" ELSE props.password.of
<1>1. rcon' = Resolved
  BY DEF Spawn, Go, IInv, ReadInv
<1>2. props \in Props /\ EscapeInv
  BY DEF IInv, TypeInv
<1>3. props'.password.of = password
  BY DEF Spawn
<1>4. Password = Plain(password)
  <2>1. CASE props.password.of = Omitted
    BY <2>1 DEF Password
  <2>2. CASE props.password.of # Omitted
    <3>1. ~props.password.escaped
      BY <1>2, <1>3, <2>2 DEF EscapeInv
    <3>2. props.password = Plain(props.password.of)
      BY <1>2, <3>1 DEF Props, Text, Plain
    <3> QED BY <2>2, <3>2 DEF Password
  <2> QED BY <2>1, <2>2
<1>5. Enabled <=> props.enabled = "true"
  BY DEF Enabled, First
<1>6. CASE props.enabled # "true"
  BY <1>1, <1>5, <1>6 DEF Resolved, Spawn
<1>7. CASE props.enabled = "true" /\ password = ""
  <2>1. rcon'.password = Plain("")
    BY <1>1, <1>4, <1>5, <1>7 DEF Resolved
  <2>2. ~server'.on
    BY <1>7 DEF Spawn, Off
  <2>3. Plain("").of = ""
    BY ConstantFacts
  <2> QED BY <2>1, <2>2, <2>3
<1>8. CASE props.enabled = "true" /\ password # ""
  <2>1. "own" \in {config.port, props.port} <=> props.port = "own"
    BY DEF Omitted
  <2>2. rcon' = [on |-> TRUE, port |-> IF props.port = "own" THEN "own" ELSE "default",
                 password |-> Plain(password)]
    BY <1>1, <1>4, <1>5, <1>8, <2>1 DEF Resolved
  <2>3. server' = [on |-> TRUE, port |-> IF props.port = "own" THEN "own" ELSE "default",
                   password |-> Plain(password)]
    BY <1>8 DEF Spawn
  <2> QED BY <2>2, <2>3
<1> QED
  BY <1>6, <1>7, <1>8

\* Every step of main keeps the invariant.
LEMMA MainKeeps ==
  ASSUME IInv, Main
  PROVE  IInv'
<1> USE DEF IInv
<1>1. CASE Start \/ Stop
  <2>1. TypeInv' /\ StartIsThere' /\ TemplateInv' /\ EscapeInv'
    BY <1>1 DEF Start, Stop, TypeInv, StartIsThere, TemplateInv, EscapeInv
  <2>2. ReadInv' /\ RconAgrees'
    BY <1>1 DEF Start, Stop, Go, ReadInv, RconAgrees
  <2> QED BY <2>1, <2>2
<1>2. CASE ReadTrigger
  <2>1. TypeInv' /\ StartIsThere' /\ TemplateInv' /\ EscapeInv'
    BY <1>2, TriggerKeeps DEF ReadTrigger
  <2>2. ReadInv' /\ RconAgrees'
    BY <1>2 DEF ReadTrigger, Go, ReadInv, RconAgrees
  <2> QED BY <2>1, <2>2
<1>3. CASE ReadMcrw
  <2>1. config' = ConfigOf(mcrw)
    BY <1>3 DEF ReadMcrw
  <2>2. mcrw' = mcrw \/ mcrw' = [st |-> "ok", sets |-> Defaults]
    BY <1>3, ConstantFacts DEF ReadMcrw, WriteFirst
  <2>3. mcrw' \in [st : {"missing", "ok", "bad"}, sets : Config] /\ config' \in Config
    <3>1. mcrw.sets \in Config /\ Defaults \in Config
      BY ConstantFacts DEF TypeInv
    <3>2. [st |-> "ok", sets |-> Defaults]
            \in [st : {"missing", "ok", "bad"}, sets : Config]
      BY <3>1
    <3> QED BY <2>1, <2>2, <3>1, <3>2 DEF TypeInv, ConfigOf
  <2>4. UNCHANGED <<events, rcon, server, trigger, props, edited, behind>>
    BY <1>3 DEF ReadMcrw
  <2>5. TypeInv'
    BY <2>3, <2>4 DEF TypeInv
  <2>6. StartIsThere' /\ TemplateInv' /\ EscapeInv'
    BY <2>1, <2>2, <2>4 DEF StartIsThere, TemplateInv, EscapeInv, ConfigOf
  <2>7. ReadInv' /\ RconAgrees'
    BY <1>3 DEF ReadMcrw, Go, ReadInv, RconAgrees
  <2> QED BY <2>5, <2>6, <2>7
<1>4. CASE ReadRcon
  <2>1. TypeInv' /\ StartIsThere' /\ TemplateInv' /\ EscapeInv'
    BY <1>4 DEF ReadRcon, TypeInv, StartIsThere, TemplateInv, EscapeInv
  <2>2. rcon' = Resolved /\ UNCHANGED <<config, props>>
    BY <1>4 DEF ReadRcon, Resolved
  <2>3. ReadInv'
    BY <2>2 DEF ReadInv, Resolved, Enabled, Password
  <2>4. RconAgrees'
    BY <1>4 DEF ReadRcon, Go, RconAgrees
  <2> QED BY <2>1, <2>3, <2>4
<1>5. CASE Spawn
  <2>1. UNCHANGED <<events, rcon, config, trigger, mcrw, edited, behind>> /\ at' = "up"
    BY <1>5 DEF Spawn, Go
  <2> DEFINE password == IF props.password.of = Omitted THEN "" ELSE props.password.of
  <2>2. props' = [enabled |-> First(props.enabled, "false"),
                  port |-> IF props.port = "own" THEN "own" ELSE "default",
                  password |-> [of |-> password, escaped |-> password \in Special]]
    BY <1>5 DEF Spawn
  <2>3. password \in Passwords \cup {"", Omitted}
    BY DEF TypeInv, Props, Text
  <2>4. First(props.enabled, "false") \in {Omitted, "true", "false"}
    BY DEF First, TypeInv, Props
  <2>5. [of |-> password, escaped |-> password \in Special] \in Text
    <3>1. \A b \in BOOLEAN : [of |-> password, escaped |-> b] \in Text
      BY <2>3 DEF Text
    <3>2. (password \in Special) \in BOOLEAN
      OBVIOUS
    <3> QED BY <3>1, <3>2, Zenon
  <2>6. props' \in Props
    BY <2>2, <2>4, <2>5 DEF Props
  <2>7. TypeInv'
    BY <2>1, <2>6 DEF TypeInv
  <2>8. StartIsThere' /\ TemplateInv' /\ EscapeInv'
    BY <2>1, <2>2 DEF StartIsThere, TemplateInv, EscapeInv
  <2>9. ReadInv'
    BY <2>1 DEF ReadInv
  <2> QED BY <1>5, <2>7, <2>8, <2>9, SpawnAgrees
<1>6. CASE Reload
  <2>1. TypeInv' /\ StartIsThere' /\ TemplateInv' /\ EscapeInv'
    BY <1>6, TriggerKeeps DEF Reload
  <2>2. ReadInv' /\ RconAgrees'
    BY <1>6 DEF Reload, ReadInv, RconAgrees
  <2> QED BY <2>1, <2>2
<1> QED
  BY <1>1, <1>2, <1>3, <1>4, <1>5, <1>6 DEF Main

\* So does every edit of the user's.
LEMMA UserKeeps ==
  ASSUME IInv, User
  PROVE  IInv'
<1> USE DEF IInv
<1>1. CASE EditTrigger
  <2>1. trigger' \in [st : {"missing", "ok", "bad"}, has : [Events -> {"no", "own", "none"}]]
    BY <1>1 DEF EditTrigger, TypeInv
  <2>2. /\ UNCHANGED <<at, events, config, rcon, server, mcrw, props, behind>>
        /\ edited' = edited \cup {"trigger"}
    BY <1>1 DEF EditTrigger, Edit
  <2>3. TypeInv' /\ StartIsThere' /\ TemplateInv' /\ EscapeInv'
    BY <2>1, <2>2 DEF TypeInv, StartIsThere, TemplateInv, EscapeInv
  <2>4. ReadInv' /\ RconAgrees'
    BY <2>2 DEF ReadInv, RconAgrees, Resolved, Enabled, Password
  <2> QED BY <2>3, <2>4
<1>2. CASE EditMcrw
  <2>1. mcrw' \in [st : {"missing", "ok", "bad"}, sets : Config]
    BY <1>2 DEF EditMcrw, TypeInv
  <2>2. /\ UNCHANGED <<at, events, config, rcon, server, trigger, props, behind>>
        /\ edited' = edited \cup {"mcrw"}
    BY <1>2 DEF EditMcrw, Edit
  <2>3. TypeInv' /\ StartIsThere' /\ TemplateInv' /\ EscapeInv'
    BY <2>1, <2>2 DEF TypeInv, StartIsThere, TemplateInv, EscapeInv
  <2>4. ReadInv' /\ RconAgrees'
    BY <2>2 DEF ReadInv, RconAgrees, Resolved, Enabled, Password
  <2> QED BY <2>3, <2>4
<1>3. CASE EditProps
  <2>1. props' \in Props /\ ~props'.password.escaped /\ behind' = TRUE
    BY <1>3 DEF EditProps
  <2>2. /\ UNCHANGED <<at, events, config, rcon, server, trigger, mcrw>>
        /\ edited' = edited \cup {"props"}
    BY <1>3 DEF EditProps, Edit
  <2>3. TypeInv' /\ StartIsThere' /\ TemplateInv' /\ EscapeInv'
    BY <2>1, <2>2 DEF TypeInv, StartIsThere, TemplateInv, EscapeInv
  <2>4. ReadInv' /\ RconAgrees'
    BY <2>1 DEF ReadInv, RconAgrees
  <2> QED BY <2>3, <2>4
<1> QED
  BY <1>1, <1>2, <1>3 DEF User

\* Every step keeps the invariant.
LEMMA NextInv == IInv /\ [Next]_vars => IInv'
<1> SUFFICES ASSUME IInv, [Next]_vars PROVE IInv'
  OBVIOUS
<1>1. CASE UNCHANGED vars
  <2>1. TypeInv' /\ StartIsThere' /\ TemplateInv' /\ EscapeInv'
    BY <1>1 DEF vars, IInv, TypeInv, StartIsThere, TemplateInv, EscapeInv
  <2>2. ReadInv' /\ RconAgrees'
    BY <1>1 DEF vars, IInv, ReadInv, RconAgrees, Resolved, Enabled, Password
  <2> QED BY <2>1, <2>2 DEF IInv
<1> QED
  BY <1>1, MainKeeps, UserKeeps DEF Next

\* The invariant holds in every state.
THEOREM Invariant == Spec => []IInv
BY InitInv, NextInv, PTL DEF Spec

\* The start event survives whatever becomes of trigger_config.toml.
THEOREM StartIsThereHolds == Spec => []StartIsThere
<1>1. IInv => StartIsThere
  BY DEF IInv
<1> QED
  BY Invariant, <1>1, PTL

\* The first-run templates change nothing for the runs that read them.
THEOREM TemplatesChangeNothingHolds == Spec => []TemplatesChangeNothing
<1>1. IInv => TemplatesChangeNothing
  BY DEF IInv, TemplateInv, TemplatesChangeNothing
<1> QED
  BY Invariant, <1>1, PTL

\* The wrapper and the server come to the same RCON settings.
THEOREM RconAgreesHolds == Spec => []RconAgrees
<1>1. IInv => RconAgrees
  BY DEF IInv
<1> QED
  BY Invariant, <1>1, PTL
=============================================================================
