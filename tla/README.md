# MCRW in TLA+

MCRW (`mcrstw`) wraps a Minecraft server: it starts the server as a child
process, reads its output line by line, and runs Lua plugins that react to it
and send commands back. This directory models the parts of the wrapper where
processes, tasks, locks and timers meet, checks the models with TLC, and proves
the most important invariants with TLAPS.

Contents: [the system](#the-system), [modules](#modules-and-how-they-correspond-to-the-code),
[runs and bounds](#runs-and-bounds), [fairness](#fairness), [proofs](#proofs),
[what the models found](#what-the-models-found), [not modelled](#not-modelled),
[plan](#plan), [how to run](#how-to-run).

## The system

All paths are relative to `src/` (the repository), so the program is in
`src/src/`.

| component | code | state it keeps | operations |
|---|---|---|---|
| event loop | `handler.rs` `run_main_loop`, `check_shutdown` | the line in hand | stdout arm, `!reload` arm, cron arm; end of output and exit |
| callback lists and loading | `lua_ctx.rs` `register*`, `load_plugins`, `reload_plugins` | seven mutex-guarded lists, the compiled lifecycle patterns with their `fired` flags, the plugin registry | register, clear, load |
| dispatch tasks | spawned by `handler.rs` per line | callbacks snapshotted, commands collected | `call_async` under the Lua lock, `tx.send().await` |
| command queue and sender | `main.rs` channel of 1000, `handler.rs` `spawn_cmd_sender` | bounded queue, the child's stdin | send, receive, write, stop at a write error |
| store | `store.rs` | a JSON tree per namespace, dirty flag, time of the last save | set, delete, get, keys, flush, debounced save, atomic write |
| player registry | `players.rs` | player records, online flags, waiters for positions and dimensions | `observe_line`, `query_pos`, `query_dimension`, `mark_all_offline`, players.json |
| RCON client | `rcon.rs` | one actor with its connection, a connected flag, a request channel of 64 | `command`, connect and retry, serve |
| Python scripts | `lua_ctx.rs` `run_python_impl` | child processes and the tracker | spawn, wait, timeout, drain, kill at reload |
| cron | `lua_ctx.rs` `register_cron`, `next_cron_fire`, `drain_due_cron_jobs`; `handler.rs` cron arm | jobs with a cached next fire | register, sleep, fire, advance |
| console | `handler.rs` `spawn_console_editor`, `spawn_terminal_receiver`, `force_quit` | pending Ctrl-C, the buffer of the line reader, the server's pid | forward lines, `!reload`, stop, force quit |
| terminal output | `term.rs` | the global printer behind a mutex | `print_line`, `eprint_line`, `colorize` |
| settings | `lua_ctx.rs` `load_trigger_config`, `load_mcrw_config`; `rcon.rs` `resolve_settings` | the settings in force; three files, one of them the server's | read, write a first template, reload |
| plugin files | `scaffold.rs`; `lua_ctx.rs` `load_plugins`, `load_config` | directories of files, the plugin registry, Lua's loaded modules | `mcrstw init`, load, reload, create config.json |
| HTTP client | `lua_ctx.rs` `http_request_impl` | one request per call | check, send, read the answer |
| permissions, wiring | `lua_ctx.rs` `is_op`, `utils.rs`, `main.rs` | none | one file read; construction |

How they interact:

* The main thread runs the event loop and holds nothing across an iteration.
  For each line it lets the player registry look at it first, then takes the
  lock of one list after the other, and *while it holds a list* asks the Lua
  interpreter for each matching callback, which takes the interpreter's lock.
* A dispatch task runs on a worker thread. It holds the Lua lock while its
  callback runs, and gives it up at each await: `run_python`, `http_request`,
  `pos`, `dimension`, `rcon_command`, `command`. A callback may register
  further callbacks; it then waits for a list lock *with the Lua lock in hand*.
* Commands, whether returned by callbacks, pushed by `wrapper:command` or typed
  by the operator, meet in one bounded queue in front of the server's stdin.
* The store is changed by Lua code, so by one thread at a time, but flushed by
  the main thread at shutdown, which does not hold the Lua lock.
* A live query of the player registry goes out over RCON or through the command
  queue; in the second case the answer comes back as a line of output and is
  handed over by the main thread.
* `!reload` runs on the main thread, between two lines, while the dispatch tasks
  of the old plugins go on.
* The console's thread puts what is typed into the command queue, or `!reload`
  into the control channel of the main loop; it prints, as everybody does, through
  the line editor's printer, which hands lines to the editor that thread runs.
* Files are shared with others who know nothing of the wrapper: the Minecraft
  server rewrites `server.properties`, users edit plugins and settings at any
  time, and `mcrstw init` is a process of its own.

What is hard here, and what makes each component correct:

* **Event loop, lists and tasks.** Reloads, late registrations and dispatches
  interleave. A new dispatch must not run callbacks of an earlier load; a
  once-pattern must not fire twice; a callback that hangs must not stop the
  reading of the output; the locks must not be taken in opposite orders.
* **Command queue.** Senders wait when it is full and fail when the server is
  gone. The commands of one line must arrive in the promised order, none lost
  or doubled; and nobody may wait for a slot for ever.
* **Store.** The process can be killed between any two file operations, a save
  can fail, and two threads can save. `store.json` must always be one whole
  version, never one older than an earlier start would have found.
* **Player registry and RCON.** A flag is read before it is used, answers are
  matched by name, players leave while they are asked about, and the server may
  go away without a word. No answer may be lost between the registration of a
  waiter and the command, every query must come back, and the online set must be
  right whenever the output has been read up.
* **Python scripts.** Wait, timeout, reload and exit compete for one child. No
  script may run on unowned, and the output of a call must be whole.
* **Cron.** The sleep runs on a monotonic clock and the jobs on the wall clock.
  Each time must fire exactly once, and no job be overlooked for long.
* **Console and terminal.** The thread that reads keys also waits for the queue
  and for the printer. Typed lines must arrive once and in order, the operator
  must be able to end a server that hangs, no line of output may be lost, and
  nobody may hang in printing.
* **Files.** A save, an init or a first template can fail or be cut off half-way,
  and two processes can meet in one directory. What is loaded must be what was
  saved; an old copy (a cached module, a kept pid, settings read once) must not be
  taken for the new.

`PROJECT.json` lists the hazards line by line, each with the properties that
watch it.

## Modules and how they correspond to the code

| module | models | state |
|---|---|---|
| `Dispatch` | event loop, lists, load and reload, dispatch tasks, command queue, sender | see below |
| `DurableStore` | what the store promises over crashes: an abstract log | `log` |
| `Store` | `store.rs`, and the shutdown that flushes it | versions of the contents, writers, files as inodes |
| `Rcon` | `rcon.rs`: actor, flag, requests, replies | used by `Players`, as operators over its own variables |
| `Players` | `players.rs` queries over RCON or console, and the registry's online set; extends `Rcon` | server, output, waiters, calls |
| `PythonChildren` | `run_python_impl`, the tracker, reload, exit | calls, children, tracker, output |
| `Cron` | the jobs and the cron arm | wall clock, sleep, jobs, fires |
| `Console` | keyboard to server: editor or line reader, command queue, sender, control channel and main loop, shutdown, force quit | see below |
| `PlayersFile` | the records of `players.rs` and `players.json` over several runs | records, flag, file, clock |
| `PluginFiles` | `scaffold.rs`, `load_plugins`, `load_config` and the user on the files of plugins | files, inits, registry, Lua's modules |
| `Settings` | `trigger_config.toml`, `mcrw.toml`, `server.properties` and what comes of them over several runs | files, settings in force |
| `Terminal` | `term.rs` printing, with the console's thread | lock, callers, hand-over slot, lines shown |
| `MC*` | values of the constants for TLC | |
| `*Proofs` | theorems about `Dispatch`, `Store`, `Cron`, `Players` with `Rcon` and `PlayersFile`, `Console` with `Terminal`, `PythonChildren`, `Settings` and `PluginFiles` | |

`PlayersFile` and `Terminal` share a proof module with `Players` and `Console`, and
their specifications are therefore called `FileSpec` and `TermSpec` (of `FileInit`,
`FileNext` and `TermInit`, `TermNext`).

`PROJECT.json` maps each definition to the lines it stands for. The main choices:

**Dispatch.** The main thread's place is `pc` with the list `at` it is working
on. A line goes through `ReadLine`, then `LockList` and `Snapshot` once per list
in the code's order (join or leave, triggers, start), then `SpawnDispatch`.
`Snapshot` is enabled only while the Lua lock is free if there is a callback to
look up, since `lua.registry_value` needs it, and the list lock is kept
meanwhile. `CronWakes` and `SeeExit` are the other ways into the same sequence.
`LoopEnds` is the end of the output, or a line that is not UTF-8 (`Garbled`),
which ends the loop while the server may run on.
`StartReload`, one `ClearList` per list, `LoadPlugin` per plugin, and `LoadDone`
or `LoadFails` are a reload; each list is cleared under its own lock, so late
registrations can come between. A list is a set of callbacks with the numbers of
their registrations: a vector that only grows by push and shrinks by clear is
ordered by these numbers. A callback carries the load it belongs to (`gen`) and
whether a running callback registered it (`late`); the properties use this, no
guard does. A task is `suspended` (runnable, or waiting for something that may
never come), in `lua`, `registering`, `pushing`, `sending` or `done`. A callback
returns a list of commands, whose possible lengths are `Results`; Lua errors, nil
and an empty list are length 0. A command knows its task, its callback and its
place in the list (0 for one that `wrapper:command` pushes). `made` is history: what
the callbacks of a task have returned so far. `CommandsKept` compares it with what
is on its way (`Sent`) position by position: `Mine` are the places in it of the task's
own commands, and `Nth` says which of them one is.
Task 0 is `check_shutdown` awaiting the stop or crash callbacks in turn, whose
results are dropped.

**Store.** A change makes a new version of the contents; files are inodes that
hold a version or are `Torn`. `Open`, `Write` and `Rename` are the steps of
`write_json_atomic`, for either thread, with the failure of each. `InFlight` says
whether callbacks are still running Lua code when the shutdown begins. `Restart`
is the next start after an exit or a kill at any point, with what `load_store`
makes of the file. The debounce window is the flag `due`; how long it is does
not matter to what may be lost.

**Players and Rcon.** A line of output is a join, a leave or an answer (position
or dimension) about a player; the call whose command caused it is noted for the
properties only. An actor that has lost its connection first answers the caller
(`Drop`) and then lowers the flag (`LowerFlag`); in between another call may still
choose RCON. `For(l)` wakes all waiters of the kind under the name, as the
code does. A waiter that timed out stays registered. Reading the connected flag,
reading it again in `RconHandle::command`, queuing, and waiting are separate
steps. `rcon_command` (`"raw"`) has a timeout and no console path; `pos` and
`dimension` over RCON have no timeout of their own. What each call asks is chosen
when it begins.

**PythonChildren.** A call is `spawned`, `tracked`, then `waiting` (it has taken
its child out of the tracker), `draining` and `done`. Output is counted in
pieces. A reload first drains the tracker and then, without its lock, kills what it
found (`drained`); a timeout or a `force_quit` can come between. A script may leave behind a process that holds its stdout (`heir`). Three
endings of the wrapper are told apart: it runs on, `main` returns (children are
killed as they are dropped), or `force_quit` calls `exit` (nothing is dropped).

**Cron.** Time passes in ticks. The sleep counts ticks down; the wall clock moves
with the ticks and can be set by `SetClock`. `Arm` computes the sleep as the code
does, `OtherArm` is any other arm of the `select!`, `Wake` fires and advances the
due jobs. `fires` and `overslept` record what happened for the
properties and are read by no guard.

**Console.** `console` is where the thread (or task) is: `reading`, `sending`,
`controlling` or `left`. Only in `reading` are Ctrl-C and Ctrl-D keys; elsewhere
the terminal is in cooked mode and Ctrl-C is a SIGINT to the foreground processes,
which the wrapper does not handle (`Interrupt`). The server is `up`, `wedged` (it
neither reads, nor prints, nor stops) or `gone`; between the sender and the server
is a pipe that holds `PipeCap` commands. `Unix` says what the wrapper is built for:
elsewhere `force_quit` exits and kills nothing, and `NoOrphan` promises nothing of it. `pid` says whose the server's number is:
nobody's after `Reap`, and then perhaps another's (`ReusePid`). `editor`, chosen in
`Init`, says whether the line editor or the line reader is at the keyboard. `PickControl` with
a closed channel is the `None` that `recv` answers at once. A command is a
sequence of typed lines, of one line in the code, and carries, as history, the number
of the key it was typed with (`Item`; 0 for a plugin's). The properties follow the
commands from the console to the server (`Path`, `OnWay`, `NextUp`). `keys` holds every
key pressed: a line is one of `Texts`, empty or `!reload`, and an event is Ctrl-C, Ctrl-D
or an error of the terminal; the assumption keeps these apart, as the editor's results
are of different types.

**PlayersFile.** Only the main thread saves, so there is one writer. `uuid` and
`ip` are one field, known or not. A join line comes for a player who is not
online, a leave line for one who is. `ever`, `left` and `intact` are history.

**PluginFiles.** Files are absent, torn (created, or cut off), or whole in some
version. `fs::write` is two steps, `OpenNext` and `WriteNext` or `OpenConfig` and
`WriteConfig`. `kept` is what `package.loaded` has of each `init.lua`, and a reload
clears it; `ReloadIsFresh` is a claim about `init.lua` only. The plugins directory itself
is there (without it `main` panics). A name is a valid one (`valid_name` is a
check of characters). Directories are visited in any order, as `read_dir` does.

**Settings.** An event's patterns are the built-in ones, the user's, or none
(defined, but nothing compiles). `timeout` stands for every setting with a plain
default. A password in a file is the text as it stands: with or without the
escapes Java writes. `Spawn` is the server: it reads its properties, listens if
RCON is on and has a password, and writes them out again.

**Terminal.** A call of `print_line` is `locking`, `printing`, `handing` (it has
SINK's lock and waits for the slot) or `plain`. The console's thread is at `prompt`, with
`ctrl_c_armed` as in the code. Between two calls of `readline` it may be `sending` (a
`blocking_send` into the command queue) or `reloading` (one into the control channel),
and these wait as in the code: the queue is `open`, `full` or `closed`, the server reads,
hangs or is gone, the sender prints its write error before it drops the receiver, and the
main loop takes a message only while no task prints, since that task may be a callback
with the Lua lock. What the commands are is left to `Console`. Of rustyline 14 it assumes: in raw
mode the printer puts the line into a channel of one slot and waits while it is
taken; `readline` empties it between keys, a key going first; otherwise the
printer writes to the terminal itself, and it fails when the editor is gone.

## Runs and bounds

Passing runs:

| run | checks | instance | states |
|---|---|---|---|
| `dispatch_safety` | `TypeOK`, `OncePerLoad`, `FreshDispatch`, `CommandOrder`, `CommandsKept` | 2 lines of 3 kinds, one of them unreadable; 1 plugin that registers a start and a join callback and may fail at any point of its init.lua; callbacks that return 0 or 2 commands; 1 once-pattern, 1 reload, 1 late registration or push, a queue of 1 slot | 1.3 million |
| `dispatch_live` | `ReadLoopProgress`, `SendsFinish`, no deadlock | 1 readable line, 1 cron tick, 1 reload, 1 push, callbacks that return at most 1 command, the server stops or crashes, no late registration | 104 thousand |
| `store_durable` | `WholeFile`, `CleanMeansSaved`, `FlushKept`, `Durability` (refinement of `DurableStore`) | 2 keys, 1 value, 3 changes, 1 failed write, 1 restart at any point, no callback in flight at the shutdown | 149 thousand |
| `players_queries` | `NoAnswerLost`, `OnlineIsThere`, `RconFailsForCause`, `CallsReturn` | 2 calls about one player, each a `pos` or an `rcon_command`; 3 joins and leaves, 1 lost connection, channels of 1 slot, the server exits and the output becomes unreadable at any time | 147 thousand |
| `python_children` | `NoStray`, `OutputWhole`, `RunReturns` | 2 calls, 2 pieces of output each, 1 reload, either end of the wrapper | 82 thousand |
| `cron_fires` | `TypeOK`, `EachTimeOnce`, `NotSleptOver` | 2 jobs with 2 times each, one registered by a callback; 8 ticks, 2 settings of the clock (by -2 or +4), 1 reload, cap of 3 ticks | 81 thousand |
| `console` | `TypedOrder`, `QuitsDeliberately`, `NoOrphan`, `ConsoleGoesOn`, `OutputRead` | the line editor with 3 keys of any kind, or the line reader with 2 lines; 1 plugin command, 1 line of output, channels and pipe of 1 slot, a server that hangs or goes at any time | 220 thousand |
| `players_file` | `TypeOK`, `FirstEver`, `LastSeen`, `ExitSaves` | 2 players (interchangeable), 2 seconds, 1 failed save, 2 restarts, kills at any point | 1.7 million |
| `plugin_files` | `RegistryExact`, `ReloadIsFresh`, `SkipsOnlyEdited`, `ScaffoldLoads` | 2 plugins, 2 inits, 1 edit, 2 loads, 1 failed write | 2.3 million |
| `settings` | `StartIsThere`, `TemplatesChangeNothing`, `RconAgrees` | 2 events, 2 passwords, one of them with a character that is escaped, 2 edits of any file, 2 runs, 1 template that cannot be written | 361 thousand |
| `terminal` | `NeverDropped`, `PrintingReturns`, `HandedIsShown` | main and a task with 1 line each, the console with what it says, the sender with its error; 2 keys of any kind, a printer that fails at any time, a control channel of 1 slot, a queue that others fill once, a server that hangs or goes at any time | 383 thousand |

One run shows a claim violated: `dispatch_deadlock`, which is `dispatch_live` with 2
lines, a late registration in place of the push, and neither a reload nor a cron tick
(see [below](#what-the-models-found)).

Some properties are stated with an exception for what a finding
says does happen, each named in the property's comment: `RconAgrees` for passwords
that are escaped, `SkipsOnlyEdited` for a plugin that two inits create at the same
time (`Raced`), `PrintingReturns` and `HandedIsShown` for a line that arrives while
the console is kept from `readline` (`Entangled`, and `HeldByServer` for one that waits for
a server that hangs), `ConsoleGoesOn` for a server that hangs, `NoOrphan` for other systems
than unix, `CleanMeansSaved` and `FlushKept` for a save that failed, `FirstEver` and `LastSeen` for
runs that were killed.

Why these bounds are enough to see the interesting cases:

* *Dispatch*: two lines and a reload are needed for a dispatch before and one
  after the reload, and for one pattern to fire in both loads; with a
  queue of one slot a task waits for it while another, or a direct push, gets it
  first. Callbacks in two phases and two commands of each are enough to disturb
  an order. The theorems cover every number of lines, plugins, reloads, commands and
  slots.
* *Store*: three changes leave a saved, a half saved and an unsaved version at
  the same time; a restart then a further save is what monotony is about.
* *Players*: with two calls an answer to one serves the other, one can be in the
  request channel while the other is executed, or hold the only slot; three
  moves let the player leave and come back. A dimension query is the same code
  as a position query with another list of waiters and another pattern; the
  module has it (`"dim"`), the run has the kinds that differ in control.
* *PythonChildren*: calls only interact through reload and exit, so two suffice.
* *Cron*: the clock can be set over a time of either job and back before it, and
  a late job can be due before the sleep that does not know it ends.
* *Console*: three keys are a first Ctrl-C, something in between and a second one;
  with one slot in the queue, one in the pipe and one command in the sender's hand,
  typed and plugins' commands compete and the console waits.
* *PlayersFile*: three runs make a first, a middle and a last; two seconds tell a
  first join from a later one; one failed save is repaired by the next.
* *PluginFiles*: an init interleaves with a load and its reload. Plugins only
  interact through the order of the load and a shared name, so two suffice.
* *Settings*: the first run finds no file and the second what the wrapper and the
  server have left, with an edit in each or two in one.
* *Terminal*: one holds the lock, one waits for it, and the console prints or sends; the
  slot is taken by an earlier line. Two keys are a Ctrl-C and another one, or a command
  that fills the queue, or a reload the control channel, and one that waits for it.

`CHECK_DEADLOCK FALSE` stands where the system stops by itself (the wrapper has
exited, all calls are done) or where the bounds stop it. `dispatch_live` checks
deadlock: there `Terminated` is the only way to stand still.

In `cron_fires` a tick cannot pass while an expired timer is unserved: the loop
serves its timer when it is in `select!`. `NotSleptOver` therefore measures what
the sleep itself adds, and not how busy the loop is.

## Fairness

* *Dispatch.* The main thread and the sender are scheduled (weak fairness). The
  Lua lock and the queue hand over fairly: mlua guards the interpreter with a
  `parking_lot` reentrant mutex, which by its eventual fairness does not starve a
  waiter, and tokio's channel queues its senders. So `Snapshot`, `LoadPlugin`,
  `Push` and `Send` have strong fairness. Lua code between two awaits ends (a
  callback in an endless loop stops the wrapper; that is no property of this
  code). The server reads its stdin as long as it is up. Nothing says that a
  suspended callback resumes: `ReadLoopProgress` and `SendsFinish` hold with
  callbacks that never come back.
* *Players.* Tasks run and timers fire (weak fairness). Senders of a full
  channel are served in turn, and a request that arrives in the retry window is
  answered within it (strong fairness of `ActorTurnsAway`): the window is seconds
  of `select!` on the request channel. Connecting and each RCON command end, with
  a response or an error. The code has no timeout around them; the plugin guide
  has a caveat about it, and `CallsReturn` depends on it.
* *PythonChildren.* The wrapper's tasks run and timers fire. Scripts may hang. A
  process that a script leaves behind lets go of stdout some day (`HeirEnds`):
  `RunReturns` needs it, because the drain after the child's end has no timeout.
* *Console.* Tasks and the thread run; a full channel serves its senders in turn
  (strong fairness of `SendTyped`, `SendReload`); `select!` polls its arms in random
  order, so an arm that is ready again and again is picked (strong fairness of
  `PickLine`, `PickControl`); a server that is up reads its stdin. Nothing says that
  a server that hangs recovers, that anything is typed, or that the server exits.
* *Terminal.* Threads run, and `readline` comes to what was handed over (weak fairness,
  also where one competes: in these bounds each competition ends). Nothing says that a
  server that hangs recovers, nor that the main loop takes a reload while a task prints.
  The printer may fail at any time, and fails for sure when the editor is gone.
* *Store, Cron, PlayersFile, PluginFiles, Settings.* Safety only, no fairness.

## Proofs

The `*Proofs` modules are checked by TLAPS for every value of the constants
that satisfies the named assumptions (TLC checks those on its instances).

**DispatchProofs** (assumptions `ScriptAssumption`, `LinesAssumption`,
`BoundsAssumption`).

* `TypeCorrect`: `Spec => []TypeOK`. `TypeOK` is not inductive: that `spawned`
  stays within the task numbers needs the count of lines and ticks that can still
  lead to a task (`Budget`), that `Head(cmds)` is a command needs a sending task
  to have one, and so on (`TypeInv`). One lemma per group of actions.
* `OncePerLoadHolds`: by `OnceInv`: what the tasks of the current load fired on
  is marked as fired, and disjoint from what the line in hand fired on; the flags
  are reset only when no task of the new load exists.
* `FreshDispatchHolds`: by `FreshInv`: every list holds fresh or late callbacks,
  or is one of those a reload in progress has not cleared yet; while one is in
  progress no line is in hand.
* `CommandOrderHolds`: by `OrderInv`: not only what was written but all that was sent
  is in order (`SentInOrder`); so is what a task has yet to send, all of it from callbacks
  before those it has yet to run (`TaskInOrder`), and a task that has sent something has no
  callback left (`SentBefore`). When the sender stops, what it had taken is dropped
  with the queue (`ClosedInv`), so that what was written stays as it is.
* `CommandsKeptHolds`: `CommandsKept` is inductive over `OrderInv`: a command added
  at the end raises the rank of no other, and a push between them none of the task's
  (lemmas about `Mine` and `Nth`, by the library's facts on cardinality).

**StoreProofs** (assumption `StoreAssumption`).

* `TypeCorrect`: for both values of `InFlight`. The types of the store are proved only, no
  run checks them.
* `WholeFileHolds`, `CleanMeansSavedHolds`, `FlushKeptHolds`, `DurabilityHolds` assume `~InFlight`,
  and without it they are false (a flush and a save share the *.tmp path). They rest on one invariant, `IInv`:
  at most one thread saves (`Exclusive`), it saves the latest version and the
  *.tmp file is where it says it is (`WriterInv`), the two paths are different
  files (`DiskInv`), and a clear flag between saves means saved unless the save
  failed (`SavedInv`). `FlushKept` says nothing of the flush on its way: while it
  runs the flag is clear and nothing is set, and a clear flag with nobody saving means
  that the last version is saved, unless that failed (`FlushInv`). `DurabilityHolds` shows that each step of `Store` maps to
  a step or a stutter of `DurableStore` under `Log`: a change appends, a rename
  drops what came before the saved version, a restart keeps the head, and all
  other steps stutter.

**CronProofs** (assumption `CronAssumption`: the times are finitely many natural
numbers).

* `TypeCorrect`, `EachTimeOnceHolds`, `NotSleptOverHolds` from `IInv`: a pending
  job's next fire is one of its times, after its registration (`JobInv`), and
  while the arm sleeps, what a job has been overdue and what is left of the sleep
  are together within the cap (`SleepInv`).

**PlayersProofs** (assumptions `RconAssumption`, `PlayersAssumption`, and
`PlayersFileAssumption` for the file).

* `NoAnswerLostHolds` from `IInv`: every answer among the lines is of the kind and name
  its call asked for, so that reading it wakes that call (`LineInv`); a call has its
  waiter registered from before it sends its command until it is given something
  (`WaiterInv`); commands and requests belong to calls of the right path (`InboxInv`,
  `PathInv`), so that RCON never overwrites what the console said.
* `OnlineIsThereHolds`: by `ThereInv`, in which what is online and what is still to be
  read together make up who is on the server (`Known`): a player is known if a join of
  hers is unread with no leave after it, or if she is online with no leave unread.
* `RconFailsForCauseHolds`: by `CauseInv`: as long as no connection was lost and the
  server is up, a query that chose RCON finds the flag raised and the actor serving, and
  by `ReqInv` the actor has its request once.
* `TypeCorrect` and `ExitSavesHolds` (of `PlayersFile`) from `FileInv`: a record of somebody
  who is not online has no session (`SessionInv`), a save under way writes the records as
  they are and only before the callbacks of the shutdown (`WriterInv`), from the shutdown
  on nobody is online (`OfflineInv`), and once its save is through the file is up to
  date, or it failed (`FlushedInv`). `ExitSaves` alone is not inductive: it says
  nothing of the text that is on its way to the file.
* `FirstEverHolds` and `LastSeenHolds`: the two are inductive together over `FileInv`.
  The step that matters is the restart, which finds the records as they were because
  of `ExitSaves`.

**ConsoleProofs** (assumptions `ConsoleAssumption`, `TerminalAssumption`).

* `TypedOrderHolds`, `QuitsDeliberatelyHolds` and `NoOrphanHolds` from `IInv`. `TypedOrder`
  says that nothing is lost while the server is there; it is inductive only in the
  stronger form that nothing is lost until the queue is closed (`CompleteInv`), and the
  queue is closed only when the server is gone (`ClosedInv`). The console that sends
  has in its buffer what the last key stands for, which is not on its way yet
  (`LineInv`); so a command that is queued comes after all others (`PathInv`). Ctrl-C is armed
  only right after a Ctrl-C (`ArmedInv`). The server's pid becomes free only once the
  server is gone (`ReapInv`), and so `force_quit` leaves nobody behind, whomever it hits.
  The sender and the server only move commands along `Path` (`TakeMoves`,
  `WriteMoves` and their like), which is why they cannot disturb the order.
* `NeverDroppedHolds` (of `Terminal`) from `TermInv`: what is shown and what is in the slot
  are apart, neither repeats a line, and together they are the lines that were printed
  (`Apart`); who is printing has begun a line (`BegunInv`), and the console's thread does
  not print while it reads or sends (`QuietInv`).

**PythonChildrenProofs** (assumption `PythonAssumption`).

* `NoStrayHolds` and `OutputWholeHolds` from `IInv`: the child of a tracked call is in
  the tracker, or in the hands of a reload, or no longer runs (`TrackInv`); a call
  without a child, or one that drains, has none that runs (`ChildInv`); a call that
  has returned output has nobody left to print more (`OutputInv`). `NoStray` speaks of
  calls that are done and needs the others to know what a call ends with.

**SettingsProofs** (assumption `SettingsAssumption`).

* `StartIsThereHolds`, `TemplatesChangeNothingHolds` and `RconAgreesHolds` from `IInv`: a
  file nobody has edited says nothing, whether it is there or not (`TemplateInv`); only a
  special character is ever escaped (`EscapeInv`); between reading and the server's start
  what the wrapper resolved follows from the files as they are, unless they were
  edited since (`ReadInv`).

**PluginFilesProofs** (assumption `PluginFilesAssumption`).

* `RegistryExactHolds` and `ReloadIsFreshHolds` from `IInv`: the registry lists what runs
  and, while one is being loaded, that plugin (`RegInv`); what is still to be visited
  neither runs nor is kept by Lua (`TodoInv`); whatever an `init.lua` becomes is seen, and
  the module in hand was its `init.lua` since the load began (`FreshInv`). The files
  change under the loader at every step (`FilesKeep`).
* `SkipsOnlyEditedHolds` and `ScaffoldLoadsHolds` from `FInv`, which is inductive over
  `IInv`: an init writes meta.toml before init.lua, so a directory in which a load finds
  something to run has a good one (`MetaFirst`); as long as no write failed, the files an init
  is past are whole unless somebody is writing them (`WholeInv`), and a plugin that was
  ready is still to be visited, being loaded, or running with its settings (`ReadyInv`).
  The loader writes config.json only of plugins that were not ready (`LoaderInv`).
  Both need that `NoPlugin`, for whom an idle init works, is no plugin (part of the assumption).

Every invariant that a run checks, and the refinement, has a theorem. Only
model-checked are the liveness properties, since fairness and ENABLED are
out of the prover's reach: `ReadLoopProgress`, `SendsFinish`, `CallsReturn`, `RunReturns`,
`ConsoleGoesOn`, `OutputRead`, `PrintingReturns` and `HandedIsShown`; and the deadlock
check of `dispatch_live`.

## What the models found

Each is listed with the quoted text and the line in `PROJECT.json` under `findings`.
The first has a run of its own; the others were met while modelling, and the
properties that are checked are stated so as to hold beside them.

* `dispatch_deadlock`: the main thread looks callbacks up with a list locked; a
  callback that registers waits for the list with the Lua lock held. The two lock
  orders meet, and the read loop stops for good.
* *Store, race*: the flush at shutdown and the save of a callback in flight share
  one *.tmp path; `store.json` can come out torn.
* *Store, exit*: what the stop and crash callbacks set is not flushed after them.
* *RCON fallback*: a query that chose RCON does not go back to the console when
  RCON fails under it.
* *Python, reload*: a call takes its child out of the tracker before it waits, so
  a reload kills nothing.
* *Cron, parked*: without jobs the cron driver sleeps for ever and does not notice
  a job that a callback registers.
* *Store, debounce*: the five seconds are a least distance between saves, not a
  bound on how long a change stays unsaved.
* *Store, flush*: after a save that failed, flush does nothing.
* *Console, hanging server*: with a server that hangs and a full queue the second Ctrl-C
  reaches nobody who would kill the server.
* *Console, pid*: while the stop or crash callbacks run, Ctrl-D kills by a number
  that is no longer the server's.
* *Console, force quit*: on other systems than unix it leaves the server behind.
* *Console, end of the loop*: after a line that is not UTF-8, `!reload` ends the console of a
  wrapper whose server runs on.
* *Players' file*: `players.json` is rewritten in place; a kill can cost it all.
* *Plugins, overwriting*: two `mcrstw init` of one name; the later overwrites.
* *Plugins, defaults*: the comment in a generated `init.lua` promises a merge that
  neither the code nor the guide knows.
* *Settings, escapes*: a password with a special character is misread once the server
  has rewritten `server.properties`.
* *Settings, reload*: `mcrw.toml` is not read at a reload.
* *Terminal*: after Ctrl-C the console's thread waits for SINK, whose
  holder waits for the console's thread. It may also wait for a queue that a hanging
  server, a sender with an error to report, or a main loop in print keeps full. It rests on the assumption about rustyline
  above.
* *Dispatch*: a once-pattern fires again after a reload (the documents say
  once per wrapper run); what a failing plugin has registered stays active.

## Not modelled

* The HTTP client: `http_request_impl` is a straight line of checks, one request and
  one answer under one timeout. It holds no lock meanwhile and shares no state with
  other components; a callback that waits for it is a suspended task in `Dispatch`.
* `colorize` and the palette: the layout of a line.
* Parsing and formatting: regexes, cron expressions (a job is a set of times),
  JSON, NBT, the collapse of line breaks in commands, the characters of a plugin's
  name.
* `is_op` reads the server's `ops.json` anew for each call and keeps nothing;
  `json_encode` and `json_decode` are conversions.
* Helper modules of plugins that are required by a name outside `lua_plugins`: a reload
  does not clear them, and nothing is claimed of them.
* `Terminal` leaves out a poisoned lock (it takes a panic in the printer) and does
  not tell stdout from stderr. `print_logo` writes past it before it exists.
* First templates are written as a whole or not at all in `Settings`; the torn file
  a crash would leave is read as the `bad` one of a user.
* An error of `child.wait` in `check_shutdown`, after which nothing is flushed: the
  wrapper only waits for its own child, once.
* `utils.rs` and the construction of shared state in `main.rs`.
* Composition: `Console` has the main loop's `select!` and the queue, but not the
  dispatch of `Dispatch`; a dispatch that hangs in a deadlock is shown there.

## Plan

Done, in this order: `Dispatch` with its proofs; `DurableStore`, `Store` and the
refinement proof; `Rcon` and `Players`; `PythonChildren`; `Cron` with its proofs;
`Console`; `PlayersFile` with its proofs; `PluginFiles`; `Settings`; `Terminal`; the
proofs of `PythonChildren`, `Settings`, `PluginFiles` and `Players`; the order of the
commands in `Dispatch`, `SkipsOnlyEdited` and `ScaffoldLoads`, the proofs of `Console`
and `Terminal`; the flush of the shutdown (`FlushKept`), and in `Terminal` the channels
the console waits for.

Next, to prove more:

1. The safety facts that the liveness properties rest on, as invariants of their own
   that runs check too: in `Terminal`, where SINK's holder can be and for whom it
   waits; in `Players`, that a request is never
   left in the channel of an actor that has gone.
2. An abstract specification of the command queue, a log in which each
   task's commands are in order, implemented by `Dispatch` and by `Console`.

## How to run

    tlc -workers 2 -config Dispatch_safety.cfg MCDispatch
    tlapm DispatchProofs.tla

and likewise for the other configurations (each run's module is in
`PROJECT.json`) and proof modules.
