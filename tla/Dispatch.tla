------------------------------ MODULE Dispatch ------------------------------
(***************************************************************************)
(* The wrapper's event loop: run_main_loop and check_shutdown (handler.rs) *)
(* with the registration methods, load_plugins and reload_plugins          *)
(* (lua_ctx.rs) and the command queue with its sender (spawn_cmd_sender).  *)
(*                                                                         *)
(* The main thread reads the server's output line by line. For each line   *)
(* it locks the callback lists one after the other, snapshots the matching *)
(* callbacks and hands them to a task of their own. The tasks run Lua code *)
(* under one interpreter lock, give it up at every await, and in the end   *)
(* send the commands their callbacks returned to a bounded queue.          *)
(*                                                                         *)
(* A list (a Rust Vec) is the set of its callbacks, each with the number   *)
(* id of its registration: the order of a Vec that only grows by push and  *)
(* shrinks by clear is the order of the ids.                               *)
(***************************************************************************)
EXTENDS Integers, Sequences, FiniteSets

CONSTANTS
  Plugins,       \* plugin directories under lua_plugins/
  Script,        \* Script[p]: what p's init.lua registers, in order
  Faulty,        \* plugins whose init.lua may raise an error
  Lines,         \* server output lines
  Garbled,       \* those that are not UTF-8
  Keys,          \* regexes of triggers, and the names of the lists
  Matches,       \* Matches[l]: regexes, "join", "leave" and patterns l matches
  Patterns,      \* patterns of the "start" event in trigger_config.toml
  Once,          \* those with once = true
  LateRegs,      \* registrations a running callback may make
  Results,       \* how many commands a callback may return
  Cap,           \* slots of the command queue (1000 in main.rs)
  CtlCap,        \* slots of the control channel (16 in main.rs)
  \* bounds of the exploration
  Exits,         \* ways in which the server exits: "stopped", "crashed"
  MaxLines, MaxReloads, MaxTicks,
  MaxAsides      \* registrations and pushes by running callbacks

Lists == {"triggers", "stop", "crash", "cron", "join", "leave", "start"}

\* What a registration call names: the list it appends to and, for a trigger,
\* its regex. The key of any other list is the list's own name.
Reg == [list : Lists, key : Keys]
IsReg(r) == r \in Reg /\ (r.list = "triggers" \/ r.key = r.list)

ASSUME ScriptAssumption ==
  /\ Script \in [Plugins -> Seq(Reg)]
  /\ \A p \in Plugins : \A i \in DOMAIN Script[p] : IsReg(Script[p][i])
  /\ \A r \in LateRegs : IsReg(r)
ASSUME LinesAssumption ==
  /\ Garbled \subseteq Lines /\ DOMAIN Matches = Lines
  /\ Faulty \subseteq Plugins /\ Once \subseteq Patterns /\ Results \subseteq Nat
ASSUME BoundsAssumption ==
  /\ Cap \in Nat \ {0} /\ CtlCap \in Nat \ {0}
  /\ MaxLines \in Nat /\ MaxReloads \in Nat /\ MaxTicks \in Nat
  /\ MaxAsides \in Nat /\ Exits \subseteq {"stopped", "crashed"}

Free   == -1     \* nobody holds the Lua lock
NoList == "none" \* the main thread holds no list lock
NoLine == "no line"
NoReg  == [list |-> NoList, key |-> NoList]

\* Task 0 is check_shutdown running the stop or crash callbacks itself.
TaskIds == 0..(MaxLines + MaxTicks)

VARIABLES
  server,   \* the child process: "off", "up", "stopped" or "crashed"
  stdout,   \* lines printed and not yet read
  ctl,      \* reload requests waiting in the control channel
  pc, at,   \* where the main thread is, and the list it is working on
  line,     \* the line being dispatched
  got, why, \* callbacks snapshotted for it, patterns that fired on it
  toLoad,   \* plugins this load has not tried yet
  gen,      \* number of reloads so far
  held,     \* the list lock the main thread holds
  lua,      \* the task that holds the Lua lock
  regs,     \* regs[l]: the callbacks in list l
  nextId,   \* registrations so far
  fired,    \* once-patterns whose fired flag is set
  plugins,  \* the plugin registry
  tasks,    \* the dispatch tasks
  spawned,  \* tasks spawned so far
  queue, writing, stdin, rx, \* command queue, command in the sender's hands,
                             \* commands written, "open" or "closed" receiver
  used      \* how much of each bound is used up

mainVars   == <<pc, at, line, got, why, toLoad, gen>>
regVars    == <<regs, nextId, fired, plugins>>
taskVars   == <<tasks, spawned>>
senderVars == <<queue, writing, stdin, rx>>
envVars    == <<server, stdout, ctl>>
vars == <<envVars, mainVars, held, lua, regVars, taskVars, senderVars, used>>
-----------------------------------------------------------------------------
(* Callbacks, and the order in which a dispatch runs them. *)

Callback == [list : Lists, key : Keys, id : Nat \ {0}, gen : Nat, late : BOOLEAN]

NewCallback(r, id, g, late) ==
  [list |-> r.list, key |-> r.key, id |-> id, gen |-> g, late |-> late]

\* Player callbacks run first, then regex triggers, then the lifecycle ones.
Phase == [join |-> 1, leave |-> 1, triggers |-> 2, start |-> 3,
          cron |-> 1, stop |-> 1, crash |-> 1]

Before(c, d) == \/ Phase[c.list] < Phase[d.list]
                \/ Phase[c.list] = Phase[d.list] /\ c.id < d.id

\* Mutant: the phases are forgotten, registration alone decides.
FirstRegistered(S) == {c \in S : \A d \in S \ {c} : c.id < d.id}

\* The callback of S that a dispatch runs next (none if S is empty).
First(S) == {c \in S : \A d \in S \ {c} : Before(c, d)}

\* The nth command that callback c returns to task t; 0 is one it pushes.
Command(t, c, n) == [task |-> t, cb |-> c, nth |-> n]

IdleTask == [st |-> "none", cbs |-> {}, into |-> NoReg, cmds |-> <<>>,
             made |-> <<>>, gen |-> 0, why |-> {}]

NewTask(cbs, g, w) ==
  [st |-> IF cbs = {} THEN "done" ELSE "suspended", cbs |-> cbs,
   into |-> NoReg, cmds |-> <<>>, made |-> <<>>, gen |-> g, why |-> w]

Init ==
  /\ server = "off" /\ stdout = <<>> /\ ctl = 0
  /\ pc = "load" /\ at = NoList /\ line = NoLine /\ got = {} /\ why = {}
  /\ toLoad = Plugins /\ gen = 0
  /\ held = NoList /\ lua = Free
  /\ regs = [l \in Lists |-> {}] /\ nextId = 0 /\ fired = {} /\ plugins = {}
  /\ tasks = [t \in TaskIds |-> IdleTask] /\ spawned = 0
  /\ queue = <<>> /\ writing = <<>> /\ stdin = <<>> /\ rx = "open"
  /\ used = [lines |-> 0, reloads |-> 0, ticks |-> 0, asides |-> 0]

-----------------------------------------------------------------------------
(* The environment: the Minecraft server and the operator. *)

ServerPrints(l) ==
  /\ server = "up" /\ used.lines < MaxLines
  /\ stdout' = Append(stdout, l)
  /\ used' = [used EXCEPT !.lines = @ + 1]
  /\ UNCHANGED <<server, ctl, mainVars, held, lua, regVars, taskVars, senderVars>>

ServerExits(how) ==
  /\ server = "up"
  /\ server' = how
  /\ UNCHANGED <<stdout, ctl, mainVars, held, lua, regVars, taskVars, senderVars, used>>

LoopEnded == pc \in {"wait", "shutdown", "callbacks", "exited"} \/ at \in {"stop", "crash"}

\* The receiver of the control channel goes with the loop.
TypeReload ==
  /\ server # "off" /\ ~LoopEnded
  /\ used.reloads < MaxReloads /\ ctl < CtlCap
  /\ ctl' = ctl + 1
  /\ used' = [used EXCEPT !.reloads = @ + 1]
  /\ UNCHANGED <<server, stdout, mainVars, held, lua, regVars, taskVars, senderVars>>
-----------------------------------------------------------------------------
(* The main thread: one select! iteration at a time. *)

\* The next list a dispatch looks at, once it is done with the list l.
NextList == [join |-> "triggers", leave |-> "triggers", triggers |-> "start",
             start |-> NoList, cron |-> NoList, stop |-> NoList, crash |-> NoList]

\* observe_line reports a join or a leave, never both, before the triggers
\* are looked at.
ReadLine ==
  /\ pc = "select" /\ stdout # <<>> /\ Head(stdout) \notin Garbled
  /\ line' = Head(stdout) /\ stdout' = Tail(stdout)
  /\ pc' = "scan"
  /\ at' = IF "join" \in Matches[line'] THEN "join"
           ELSE IF "leave" \in Matches[line'] THEN "leave" ELSE "triggers"
  /\ got' = {} /\ why' = {}
  /\ UNCHANGED <<server, ctl, toLoad, gen, held, lua, regVars, taskVars, senderVars, used>>

\* The cron arm's timer expires; which jobs are due is module Cron's matter.
CronWakes ==
  /\ pc = "select" /\ regs["cron"] # {} /\ used.ticks < MaxTicks
  /\ pc' = "scan" /\ at' = "cron" /\ line' = NoLine /\ got' = {} /\ why' = {}
  /\ used' = [used EXCEPT !.ticks = @ + 1]
  /\ UNCHANGED <<envVars, toLoad, gen, held, lua, regVars, taskVars, senderVars>>

\* The loop breaks at the end of the output, and at a line that cannot be read.
LoopEnds ==
  /\ pc = "select"
  /\ IF stdout = <<>> THEN server \in {"stopped", "crashed"} ELSE Head(stdout) \in Garbled
  /\ pc' = "wait"
  /\ UNCHANGED <<envVars, at, line, got, why, toLoad, gen, held, lua, regVars,
                 taskVars, senderVars, used>>

\* check_shutdown has waited for the exit code.
SeeExit ==
  /\ pc = "wait" /\ server \in {"stopped", "crashed"}
  /\ pc' = "scan" /\ at' = IF server = "stopped" THEN "stop" ELSE "crash"
  /\ line' = NoLine /\ got' = {} /\ why' = {}
  /\ UNCHANGED <<envVars, toLoad, gen, held, lua, regVars, taskVars, senderVars, used>>

LockList ==
  /\ pc = "scan" /\ held = NoList
  /\ held' = at
  /\ UNCHANGED <<envVars, mainVars, lua, regVars, taskVars, senderVars, used>>

\* The patterns of the start event that this line newly satisfies.
Hits == IF at = "start" THEN (Matches[line] \cap Patterns) \ fired ELSE {}

\* Mutant: the fired flag is never set.
FiredUnmarked == fired

FiredNow == fired \cup (Hits \cap Once)

Selections ==
  CASE at \in {"join", "leave", "triggers"} ->
         {{c \in regs[at] : c.key \in Matches[line]}}
    [] at = "start" -> {IF Hits = {} THEN {} ELSE regs[at]}
    [] at = "cron"  -> SUBSET regs[at]
    [] OTHER        -> {regs[at]}

\* With the list locked, collect the callbacks to run. Looking up a callback
\* (lua.registry_value) takes the Lua lock, which a running callback holds.
Snapshot ==
  /\ pc = "scan" /\ held = at
  /\ \E sel \in Selections :
       /\ sel # {} => lua = Free
       /\ got' = got \cup sel
  /\ fired' = FiredNow
  /\ why' = why \cup Hits
  /\ held' = NoList
  /\ at' = NextList[at]
  /\ pc' = IF at' # NoList THEN "scan"
           ELSE IF at \in {"stop", "crash"} THEN "shutdown" ELSE "spawn"
  /\ UNCHANGED <<envVars, line, toLoad, gen, lua, regs, nextId, plugins,
                 taskVars, senderVars, used>>

\* Hand the snapshot to a task, unless it is empty, and go back to select!.
SpawnDispatch ==
  /\ pc = "spawn"
  /\ pc' = "select" /\ got' = {} /\ why' = {} /\ line' = NoLine
  /\ IF got = {}
     THEN UNCHANGED taskVars
     ELSE /\ spawned' = spawned + 1
          /\ tasks' = [tasks EXCEPT ![spawned + 1] = NewTask(got, gen, why)]
  /\ UNCHANGED <<envVars, at, toLoad, gen, held, lua, regVars, senderVars, used>>

\* check_shutdown awaits the stop or crash callbacks one by one; then main
\* returns and the runtime drops every other task.
RunShutdownCallbacks ==
  /\ pc = "shutdown"
  /\ pc' = "callbacks" /\ got' = {}
  /\ tasks' = [tasks EXCEPT ![0] = NewTask(got, gen, {})]
  /\ UNCHANGED <<envVars, at, line, why, toLoad, gen, held, lua, regVars,
                 spawned, senderVars, used>>

Exit ==
  /\ pc = "callbacks" /\ tasks[0].st = "done"
  /\ pc' = "exited"
  /\ UNCHANGED <<envVars, at, line, got, why, toLoad, gen, held, lua, regVars,
                 taskVars, senderVars, used>>
-----------------------------------------------------------------------------
(* Reload, on the main thread: clear every list, then load every plugin. *)

\* Place of each list in the order in which reload_plugins clears them.
ClearStep == [triggers |-> 1, stop |-> 2, crash |-> 3, cron |-> 4,
              join |-> 5, leave |-> 6, start |-> 7]

StartReload ==
  /\ pc = "select" /\ ctl > 0
  /\ ctl' = ctl - 1
  /\ pc' = "clear" /\ at' = "triggers" /\ gen' = gen + 1
  /\ UNCHANGED <<server, stdout, line, got, why, toLoad, held, lua, regVars,
                 taskVars, senderVars, used>>

\* Mutant: the lists of player callbacks are left out.
ClearedButPlayers ==
  IF at \in {"join", "leave"} THEN regs ELSE [regs EXCEPT ![at] = {}]

Cleared == [regs EXCEPT ![at] = {}]

\* The last list goes with the compiled patterns, whose fired flags it resets,
\* and with the plugin registry.
ClearList ==
  /\ pc = "clear"
  /\ regs' = Cleared
  /\ IF at = "start"
     THEN /\ pc' = "load" /\ at' = NoList /\ toLoad' = Plugins
          /\ fired' = {} /\ plugins' = {}
     ELSE /\ \E l \in Lists : ClearStep[l] = ClearStep[at] + 1 /\ at' = l
          /\ UNCHANGED <<pc, toLoad, fired, plugins>>
  /\ UNCHANGED <<envVars, line, got, why, gen, held, lua, nextId, taskVars,
                 senderVars, used>>

\* require runs p's init.lua, which gets through the first n of its
\* registrations; an error after that keeps p out of the registry, no more.
LoadPlugin(p, n) ==
  /\ pc = "load" /\ p \in toLoad /\ lua = Free
  /\ \/ n = Len(Script[p]) /\ plugins' = plugins \cup {p}
     \/ p \in Faulty /\ n \in 0..Len(Script[p]) /\ plugins' = plugins
  /\ regs' = [l \in Lists |-> regs[l] \cup
                {NewCallback(Script[p][i], nextId + i, gen, FALSE) :
                   i \in {j \in DOMAIN Script[p] : j <= n /\ Script[p][j].list = l}}]
  /\ nextId' = nextId + n
  /\ toLoad' = toLoad \ {p}
  /\ UNCHANGED <<envVars, pc, at, line, got, why, gen, held, lua, fired, taskVars,
                 senderVars, used>>

\* The first load is followed by the start of the server, a reload by select!.
LoadDone ==
  /\ pc = "load" /\ toLoad = {}
  /\ pc' = "select"
  /\ server' = IF server = "off" THEN "up" ELSE server
  /\ UNCHANGED <<stdout, ctl, at, line, got, why, toLoad, gen, held, lua, regVars,
                 taskVars, senderVars, used>>

\* reload_plugins returns an error (lua_plugins/ cannot be read): what is
\* cleared stays cleared. At startup the wrapper would panic instead.
LoadFails ==
  /\ pc = "load" /\ gen > 0
  /\ pc' = "select" /\ toLoad' = {}
  /\ UNCHANGED <<envVars, at, line, got, why, gen, held, lua, regVars, taskVars,
                 senderVars, used>>
-----------------------------------------------------------------------------
(* A dispatch task t, on a worker thread. *)

Running(t, st) == pc # "exited" /\ tasks[t].st = st

\* call_async polls the callback's coroutine: it needs the Lua lock.
Resume(t) ==
  /\ Running(t, "suspended") /\ lua = Free
  /\ lua' = t
  /\ tasks' = [tasks EXCEPT ![t].st = "lua"]
  /\ UNCHANGED <<envVars, mainVars, held, regVars, spawned, senderVars, used>>

\* Mutant: the Lua lock is kept across the await.
YieldHolding(t) ==
  /\ Running(t, "lua")
  /\ tasks' = [tasks EXCEPT ![t].st = "suspended"]
  /\ UNCHANGED <<envVars, mainVars, held, lua, regVars, spawned, senderVars, used>>

\* The callback awaits something (run_python, http_request, pos, ...).
Yield(t) ==
  /\ Running(t, "lua")
  /\ lua' = Free
  /\ tasks' = [tasks EXCEPT ![t].st = "suspended"]
  /\ UNCHANGED <<envVars, mainVars, held, regVars, spawned, senderVars, used>>

\* The callback calls a register method: it wants the list's lock and keeps
\* the Lua lock until it has it.
BeginRegister(t, r) ==
  /\ Running(t, "lua") /\ used.asides < MaxAsides
  /\ tasks' = [tasks EXCEPT ![t].st = "registering", ![t].into = r]
  /\ used' = [used EXCEPT !.asides = @ + 1]
  /\ UNCHANGED <<envVars, mainVars, held, lua, regVars, spawned, senderVars>>

Register(t) ==
  /\ Running(t, "registering") /\ held # tasks[t].into.list
  /\ \E c \in First(tasks[t].cbs) :
       regs' = [regs EXCEPT ![tasks[t].into.list] =
                  @ \cup {NewCallback(tasks[t].into, nextId + 1, c.gen, TRUE)}]
  /\ nextId' = nextId + 1
  /\ tasks' = [tasks EXCEPT ![t].st = "lua", ![t].into = NoReg]
  /\ UNCHANGED <<envVars, mainVars, held, lua, fired, plugins, spawned,
                 senderVars, used>>

\* wrapper:command awaits a slot of the queue; a closed queue raises an error.
BeginPush(t) ==
  /\ Running(t, "lua") /\ used.asides < MaxAsides
  /\ lua' = Free
  /\ tasks' = [tasks EXCEPT ![t].st = "pushing"]
  /\ used' = [used EXCEPT !.asides = @ + 1]
  /\ UNCHANGED <<envVars, mainVars, held, regVars, spawned, senderVars>>

\* Mutants: a send that ignores the slots; one that drops when they are full.
EnqueueUnbounded(cmd) ==
  \/ rx = "open" /\ queue' = Append(queue, cmd)
  \/ rx = "closed" /\ UNCHANGED queue
EnqueueOrDrop(cmd) ==
  \/ rx = "open" /\ Len(queue) < Cap /\ queue' = Append(queue, cmd)
  \/ (rx = "closed" \/ Len(queue) = Cap) /\ UNCHANGED queue

Enqueue(cmd) ==
  \/ rx = "open" /\ Len(queue) < Cap /\ queue' = Append(queue, cmd)
  \/ rx = "closed" /\ UNCHANGED queue

Push(t) ==
  /\ Running(t, "pushing")
  /\ \E c \in First(tasks[t].cbs) : Enqueue(Command(t, c, 0))
  /\ tasks' = [tasks EXCEPT ![t].st = "suspended"]
  /\ UNCHANGED <<envVars, mainVars, held, lua, regVars, spawned, writing, stdin,
                 rx, used>>

\* The callback returns n commands, or nil or an error (n is 0). When it was
\* the task's last, the task turns to sending what it has collected.
Return(t, n) ==
  \E c \in First(tasks[t].cbs) :
    LET new  == IF t = 0 THEN <<>> ELSE [k \in 1..n |-> Command(t, c, k)]
        cmds == tasks[t].cmds \o new
        left == tasks[t].cbs \ {c}
    IN /\ Running(t, "lua")
       /\ lua' = Free
       /\ tasks' = [tasks EXCEPT
                      ![t].cbs = left, ![t].cmds = cmds, ![t].made = @ \o new,
                      ![t].st = IF left # {} THEN "suspended"
                                ELSE IF cmds # <<>> THEN "sending" ELSE "done"]
       /\ UNCHANGED <<envVars, mainVars, held, regVars, spawned, senderVars, used>>

\* One tx.send().await: it waits for a slot, and fails when rx is closed.
Send(t) ==
  /\ Running(t, "sending")
  /\ Enqueue(Head(tasks[t].cmds))
  /\ tasks' = [tasks EXCEPT
                 ![t].cmds = Tail(@),
                 ![t].st = IF Len(tasks[t].cmds) = 1 THEN "done" ELSE "sending"]
  /\ UNCHANGED <<envVars, mainVars, held, lua, regVars, spawned, writing, stdin,
                 rx, used>>
-----------------------------------------------------------------------------
(* The sender task: queue to the server's stdin. *)

Take ==
  /\ pc # "exited" /\ rx = "open" /\ writing = <<>> /\ queue # <<>>
  /\ writing' = <<Head(queue)>> /\ queue' = Tail(queue)
  /\ UNCHANGED <<envVars, mainVars, held, lua, regVars, taskVars, stdin, rx, used>>

Write ==
  /\ pc # "exited" /\ writing # <<>> /\ server = "up"
  /\ stdin' = stdin \o writing /\ writing' = <<>>
  /\ UNCHANGED <<envVars, mainVars, held, lua, regVars, taskVars, queue, rx, used>>

\* Mutant: the failed write is tried again and again.
RetryWrite == UNCHANGED <<rx, writing, queue>>

CloseQueue == rx' = "closed" /\ writing' = <<>> /\ queue' = <<>>

\* The write fails once the server is gone: the sender stops and the queue
\* goes with it.
WriteFails ==
  /\ pc # "exited" /\ writing # <<>> /\ server \in {"stopped", "crashed"}
  /\ CloseQueue
  /\ UNCHANGED <<envVars, mainVars, held, lua, regVars, taskVars, stdin, used>>

Terminated == pc = "exited" /\ UNCHANGED vars
-----------------------------------------------------------------------------
Environment == \/ \E l \in Lines : ServerPrints(l)
               \/ \E how \in Exits : ServerExits(how)
               \/ TypeReload
Main == \/ ReadLine \/ CronWakes \/ LoopEnds \/ SeeExit \/ LockList \/ Snapshot
        \/ SpawnDispatch \/ RunShutdownCallbacks \/ Exit
        \/ StartReload \/ ClearList \/ LoadDone \/ LoadFails
        \/ \E p \in Plugins : \E n \in 0..Len(Script[p]) : LoadPlugin(p, n)
Task(t) == \/ Resume(t) \/ Yield(t) \/ Register(t)
           \/ \E r \in LateRegs : BeginRegister(t, r)
           \/ BeginPush(t) \/ Push(t) \/ Send(t)
           \/ \E n \in Results : Return(t, n)
Sender == Take \/ Write \/ WriteFails

Next == Environment \/ Main \/ (\E t \in TaskIds : Task(t)) \/ Sender \/ Terminated

Spec == Init /\ [][Next]_vars

\* The runtime's scheduling. Main steps are taken, and so is the Lua lock when
\* it comes free again and again (parking_lot hands it over fairly). Lua code
\* between two awaits ends. A full queue serves its senders in turn, and the
\* server reads its stdin. Nothing says that an awaiting callback resumes.
LeaveLua(t) == Yield(t) \/ BeginPush(t) \/ \E n \in Results : Return(t, n)
LoadAny == \E p \in Plugins : \E n \in 0..Len(Script[p]) : LoadPlugin(p, n)

Fairness ==
  /\ WF_vars(Main) /\ SF_vars(Snapshot \/ LoadAny)
  /\ WF_vars(Sender)
  /\ WF_vars(\E t \in TaskIds : LeaveLua(t) \/ Register(t))
  /\ \A t \in TaskIds : SF_vars(Push(t) \/ Send(t))

FairSpec == Spec /\ Fairness
-----------------------------------------------------------------------------
(* Properties. *)

\* Every variable has its type; in particular the command queue stays within
\* its slots (handler.rs, mpsc::channel of main.rs).
CommandType == [task : TaskIds, cb : Callback, nth : Nat]
TaskType ==
  [st : {"none", "suspended", "lua", "registering", "pushing", "sending", "done"},
   cbs : SUBSET Callback, into : Reg \cup {NoReg}, cmds : Seq(CommandType),
   made : Seq(CommandType), gen : Nat, why : SUBSET Patterns]
EnvType ==
  /\ server \in {"off", "up", "stopped", "crashed"}
  /\ stdout \in Seq(Lines) /\ ctl \in 0..CtlCap
MainType ==
  /\ pc \in {"load", "select", "scan", "spawn", "clear", "wait", "shutdown", "callbacks", "exited"}
  /\ at \in Lists \cup {NoList} /\ line \in Lines \cup {NoLine}
  /\ got \subseteq Callback /\ why \subseteq Patterns
  /\ toLoad \subseteq Plugins /\ gen \in Nat
LocksType == held \in Lists \cup {NoList} /\ lua \in TaskIds \cup {Free}
RegsType ==
  /\ regs \in [Lists -> SUBSET Callback] /\ nextId \in Nat
  /\ fired \subseteq Once /\ plugins \subseteq Plugins
TasksType == tasks \in [TaskIds -> TaskType] /\ spawned \in TaskIds
SenderType ==
  /\ queue \in Seq(CommandType) /\ Len(queue) <= Cap
  /\ writing \in Seq(CommandType) /\ Len(writing) <= 1
  /\ stdin \in Seq(CommandType) /\ rx \in {"open", "closed"}
UsedType ==
  used \in [lines : 0..MaxLines, reloads : 0..MaxReloads, ticks : 0..MaxTicks,
            asides : 0..MaxAsides]
TypeOK == /\ EnvType /\ MainType /\ LocksType /\ RegsType
          /\ TasksType /\ SenderType /\ UsedType

\* A once-pattern of trigger_config.toml fires for at most one dispatch between
\* two reloads, whatever else is being dispatched at the time.
OncePerLoad ==
  \A t, u \in TaskIds : t # u =>
    \A p \in Once : p \in tasks[t].why \cap tasks[u].why => tasks[t].gen # tasks[u].gen

\* A dispatch runs no callback of an earlier load, except one that a callback
\* already running at the reload registered after its list was cleared.
FreshDispatch ==
  \A t \in TaskIds : \A c \in tasks[t].cbs : c.gen = tasks[t].gen \/ c.late

\* The commands that one line's callbacks return reach the server in the order
\* of the callbacks: player, then trigger, then lifecycle, each in the order of
\* registration, and for one callback in the order in which it returned them;
\* whatever other tasks, sends and registrations come between.
CommandOrder ==
  \A i, j \in 1..Len(stdin) :
    (i < j /\ stdin[i].task = stdin[j].task /\ stdin[i].nth # 0 /\ stdin[j].nth # 0)
      => \/ Before(stdin[i].cb, stdin[j].cb)
         \/ stdin[i].cb = stdin[j].cb /\ stdin[i].nth < stdin[j].nth

\* What has been sent, and those of task t in it that callbacks returned; the
\* ith of what was sent is the Nth of these.
Sent       == stdin \o writing \o queue
Mine(s, t) == {i \in 1..Len(s) : s[i].task = t /\ s[i].nth # 0}
Nth(s, t, i) == Cardinality({j \in Mine(s, t) : j <= i})

\* Each returned command is on its way exactly once and in order until the
\* sender stops, and what was written by then is a prefix of what was returned.
CommandsKept ==
  \A t \in TaskIds :
    LET n == Cardinality(Mine(Sent, t))
    IN /\ n <= Len(tasks[t].made)
       /\ \A i \in Mine(Sent, t) : Sent[i] = tasks[t].made[Nth(Sent, t, i)]
       /\ rx = "open" => /\ Len(tasks[t].made) = n + Len(tasks[t].cmds)
                         /\ \A k \in 1..Len(tasks[t].cmds) :
                              tasks[t].cmds[k] = tasks[t].made[n + k]

\* A callback that never comes back does not keep the main loop from reading
\* the server's output and dispatching every line of it (the comment on the
\* spawned task in run_main_loop). A line that cannot be read ends the loop.
LinesDispatched == used.lines - Len(stdout) - (IF line = NoLine THEN 0 ELSE 1)
ReadLoopProgress == \A n \in 1..MaxLines : used.lines >= n ~> LinesDispatched >= n

\* A task whose callbacks are done gets rid of its commands: a full queue or a
\* dead server does not hold it forever.
SendsFinish ==
  \A t \in TaskIds : tasks[t].st = "sending" ~> (tasks[t].st = "done" \/ pc = "exited")
=============================================================================
