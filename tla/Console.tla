------------------------------ MODULE Console ------------------------------
(***************************************************************************)
(* The operator's console of handler.rs, from the keyboard to the server.  *)
(*                                                                         *)
(* At a terminal a thread of its own runs the line editor; otherwise a     *)
(* task reads plain lines. Both put what is typed into the command queue,  *)
(* except !reload, which goes into the control channel to the main loop.   *)
(* The sender task writes the queue to the server's stdin. The main loop   *)
(* selects between the server's output and the control channel, and when   *)
(* it has ended waits for the server, runs callbacks and returns.          *)
(*                                                                         *)
(* The editor sees Ctrl-C and Ctrl-D as keys only inside readline, when    *)
(* the terminal is in raw mode. Elsewhere Ctrl-C is a SIGINT to wrapper    *)
(* and server, which the wrapper does not handle.                          *)
(***************************************************************************)
EXTENDS Integers, Sequences

CONSTANTS
  Unix,      \* the wrapper is built for unix
  Texts,     \* what may be typed as a server command
  QueueCap,  \* slots of the command queue
  CtlCap,    \* slots of the control channel
  PipeCap,   \* commands the pipe to the server's stdin holds
  \* bounds of the exploration
  MaxKeys, MaxTyped, \* keys at the editor, lines at the reader
  MaxPlugin, MaxOut

\* What the keyboard gives beside a command: a line that is none, and the events
\* of readline that are no line.
Lines  == {"", "!reload"}
Events == {"^C", "^D", "error"}

ASSUME ConsoleAssumption ==
  /\ Unix \in BOOLEAN
  /\ Texts \cap (Lines \cup Events) = {}
  /\ QueueCap \in Nat \ {0} /\ CtlCap \in Nat \ {0} /\ PipeCap \in Nat \ {0}
  /\ MaxKeys \in Nat /\ MaxTyped \in Nat /\ MaxPlugin \in Nat /\ MaxOut \in Nat

VARIABLES
  editor,   \* TRUE: the line editor at a terminal; FALSE: the line reader
  wrapper,  \* "running", "returned" (main), "forced" (force_quit), "interrupted"
  server,   \* "up", "wedged" (it neither reads, nor prints, nor stops) or "gone"
  pid,      \* whose the server's pid is: "server", "nobody" (reaped), "other"
  killed,   \* whom force_quit killed
  keys,     \* history: the lines and keys typed
  console,  \* the console: "reading", "sending", "controlling" or "left"
  armed,    \* ctrl_c_armed
  line,     \* the lines in the buffer that is sent next
  queue,    \* the command queue
  open,     \* the sender task still holds its receiver
  hand,     \* the command it has taken, as a sequence of at most one
  pipe,     \* written, and not yet read by the server
  received, \* history: the commands the server has read
  ctl,      \* messages in the control channel
  loop,     \* "selecting", "line", "reload", "none", "ended" or "callbacks"
  garbled,  \* the loop was ended by a line it could not read
  out,      \* lines the server has printed and the loop has not read
  used      \* how much of each bound is used up

consoleVars == <<keys, console, armed, line>>
queueVars   == <<queue, open, hand, pipe, received>>
loopVars    == <<ctl, loop, garbled, out>>
worldVars   == <<editor, wrapper, server, pid, killed>>
vars == <<worldVars, consoleVars, queueVars, loopVars, used>>

Init ==
  /\ editor \in BOOLEAN
  /\ wrapper = "running" /\ server = "up" /\ pid = "server" /\ killed = "none"
  /\ keys = <<>> /\ console = "reading" /\ armed = FALSE /\ line = <<>>
  /\ queue = <<>> /\ open = TRUE /\ hand = <<>> /\ pipe = <<>> /\ received = <<>>
  /\ ctl = 0 /\ loop = "selecting" /\ garbled = FALSE /\ out = 0
  /\ used = [plugin |-> 0, out |-> 0]

Running == wrapper = "running"

\* A command in the queue. key is history: the number of the key it was typed
\* with, 0 for a command of a plugin.
Item(key, text) == [key |-> key, text |-> text]
-----------------------------------------------------------------------------
(* The line editor. *)

Press(k) == /\ Running /\ console = "reading"
            /\ Len(keys) < IF editor THEN MaxKeys ELSE MaxTyped
            /\ keys' = Append(keys, k)

\* Mutant: an empty line leaves Ctrl-C armed.
EnterKeepingArmed(l) ==
  /\ editor /\ Press(l)
  /\ armed' = (l = "" /\ armed)
  /\ \/ l = "" /\ UNCHANGED <<console, line>>
     \/ l = "!reload" /\ console' = "controlling" /\ UNCHANGED line
     \/ l \in Texts /\ console' = "sending" /\ line' = <<l>>
  /\ UNCHANGED <<worldVars, queueVars, loopVars, used>>

\* A line is entered, empty or not.
Enter(l) ==
  /\ editor /\ Press(l)
  /\ armed' = FALSE
  /\ \/ l = "" /\ UNCHANGED <<console, line>>
     \/ l = "!reload" /\ console' = "controlling" /\ UNCHANGED line
     \/ l \in Texts /\ console' = "sending" /\ line' = <<l>>
  /\ UNCHANGED <<worldVars, queueVars, loopVars, used>>

\* Mutant: the wrapper exits and leaves the server to itself.
ForceQuitOnly ==
  /\ wrapper' = "forced"
  /\ UNCHANGED <<editor, server, pid, killed>>

\* On unix, SIGKILL to the pid the server had when it was started; then exit.
ForceQuit ==
  /\ wrapper' = "forced"
  /\ killed' = IF Unix THEN pid ELSE killed
  /\ server' = IF Unix /\ pid = "server" THEN "gone" ELSE server
  /\ UNCHANGED <<editor, pid>>

\* The first Ctrl-C offers a stop, another one right after it quits.
CtrlC ==
  /\ editor /\ Press("^C")
  /\ \/ armed /\ ForceQuit /\ UNCHANGED <<console, armed, line>>
     \/ /\ ~armed /\ armed' = TRUE
        /\ console' = "sending" /\ line' = <<"stop">>
        /\ UNCHANGED worldVars
  /\ UNCHANGED <<queueVars, loopVars, used>>

CtrlD ==
  /\ editor /\ Press("^D")
  /\ ForceQuit
  /\ UNCHANGED <<console, armed, line, queueVars, loopVars, used>>

ReadlineFails ==
  /\ editor /\ Press("error")
  /\ console' = "left"
  /\ UNCHANGED <<worldVars, armed, line, queueVars, loopVars, used>>

\* Outside readline, Ctrl-C ends the wrapper and a server that heeds it.
Interrupt ==
  /\ editor /\ Running /\ console # "reading" /\ Len(keys) < MaxKeys
  /\ keys' = Append(keys, "^C")
  /\ wrapper' = "interrupted"
  /\ server' = IF server = "up" THEN "gone" ELSE server
  /\ UNCHANGED <<editor, pid, killed, console, armed, line, queueVars, loopVars, used>>
-----------------------------------------------------------------------------
(* The line reader. *)

\* read_line appends to the buffer, which is cleared after each line.
ReadTyped(l) ==
  /\ ~editor /\ Press(l)
  /\ line' = Append(line, l)
  /\ console' = IF line' = <<"!reload">> THEN "controlling" ELSE "sending"
  /\ UNCHANGED <<worldVars, armed, queueVars, loopVars, used>>

EndOfInput ==
  /\ ~editor /\ Running /\ console = "reading"
  /\ console' = "left"
  /\ UNCHANGED <<worldVars, keys, armed, line, queueVars, loopVars, used>>
-----------------------------------------------------------------------------
(* Both: what is typed goes into a channel. *)

\* Mutant: what does not fit into the queue is dropped.
SendOrDrop ==
  /\ Running /\ console = "sending"
  /\ \/ ~open /\ console' = "left" /\ UNCHANGED <<queue, line>>
     \/ /\ open /\ console' = "reading" /\ line' = <<>>
        /\ queue' = IF Len(queue) < QueueCap THEN Append(queue, Item(Len(keys), line))
                    ELSE queue
  /\ UNCHANGED <<worldVars, keys, armed, open, hand, pipe, received, loopVars, used>>

\* It waits while the queue is full, and leaves when the queue is closed.
SendTyped ==
  /\ Running /\ console = "sending"
  /\ \/ ~open /\ console' = "left" /\ UNCHANGED <<queue, line>>
     \/ /\ open /\ Len(queue) < QueueCap
        /\ queue' = Append(queue, Item(Len(keys), line))
        /\ console' = "reading" /\ line' = <<>>
  /\ UNCHANGED <<worldVars, keys, armed, open, hand, pipe, received, loopVars, used>>

Selecting == loop \in {"selecting", "line", "reload", "none"}

SendReload ==
  /\ Running /\ console = "controlling"
  /\ \/ ~Selecting /\ console' = "left" /\ UNCHANGED <<ctl, line>>
     \/ Selecting /\ ctl < CtlCap /\ ctl' = ctl + 1 /\ console' = "reading" /\ line' = <<>>
  /\ UNCHANGED <<worldVars, keys, armed, queueVars, loop, garbled, out, used>>
-----------------------------------------------------------------------------
(* The command queue, the sender and the server. *)

PluginSends ==
  /\ Running /\ open /\ Len(queue) < QueueCap /\ used.plugin < MaxPlugin
  /\ queue' = Append(queue, Item(0, <<"cmd">>))
  /\ used' = [used EXCEPT !.plugin = @ + 1]
  /\ UNCHANGED <<worldVars, consoleVars, open, hand, pipe, received, loopVars>>

Take ==
  /\ Running /\ open /\ hand = <<>> /\ queue # <<>>
  /\ hand' = <<Head(queue)>> /\ queue' = Tail(queue)
  /\ UNCHANGED <<worldVars, consoleVars, open, pipe, received, loopVars, used>>

\* Mutant: the task ends, the queue is not closed.
WriteFailsSilently ==
  /\ server = "gone"
  /\ hand' = hand /\ UNCHANGED <<open, queue, pipe>>

\* The task ends, and the queue with it.
WriteFails ==
  /\ server = "gone"
  /\ open' = FALSE /\ queue' = <<>> /\ hand' = <<>> /\ UNCHANGED pipe

Write ==
  /\ Running /\ hand # <<>>
  /\ \/ /\ server # "gone" /\ Len(pipe) < PipeCap
        /\ pipe' = pipe \o hand /\ hand' = <<>> /\ UNCHANGED <<open, queue>>
     \/ WriteFails
  /\ UNCHANGED <<worldVars, consoleVars, received, loopVars, used>>

ServerReads ==
  /\ server = "up" /\ pipe # <<>>
  /\ received' = Append(received, Head(pipe)) /\ pipe' = Tail(pipe)
  /\ UNCHANGED <<worldVars, consoleVars, queue, open, hand, loopVars, used>>

ServerPrints ==
  /\ Running /\ server = "up" /\ used.out < MaxOut
  /\ out' = out + 1 /\ used' = [used EXCEPT !.out = @ + 1]
  /\ UNCHANGED <<worldVars, consoleVars, queueVars, ctl, loop, garbled>>

ServerWedges ==
  /\ Running /\ server = "up"
  /\ server' = "wedged"
  /\ UNCHANGED <<editor, wrapper, pid, killed, consoleVars, queueVars, loopVars, used>>

ServerExits ==
  /\ Running /\ server = "up"
  /\ server' = "gone"
  /\ UNCHANGED <<editor, wrapper, pid, killed, consoleVars, queueVars, loopVars, used>>
-----------------------------------------------------------------------------
(* The main loop: select!, and what follows it. *)

\* The arm of next_line: a line, one that is not UTF-8, or the end.
PickLine ==
  /\ Running /\ loop = "selecting"
  /\ \/ out > 0 /\ out' = out - 1 /\ loop' = "line" /\ UNCHANGED garbled
     \/ out > 0 /\ out' = out - 1 /\ loop' = "ended" /\ garbled' = TRUE
     \/ server = "gone" /\ out = 0 /\ loop' = "ended" /\ UNCHANGED <<out, garbled>>
  /\ UNCHANGED <<worldVars, consoleVars, queueVars, ctl, used>>

\* The arm of recv: a message, or None, at once, when the console has left.
PickControl ==
  /\ Running /\ loop = "selecting"
  /\ \/ ctl > 0 /\ ctl' = ctl - 1 /\ loop' = "reload"
     \/ ctl = 0 /\ console = "left" /\ loop' = "none" /\ UNCHANGED ctl
  /\ UNCHANGED <<worldVars, consoleVars, queueVars, garbled, out, used>>

\* Mutant: the loop ends when the control channel is closed.
ServeOrBreak ==
  /\ Running /\ loop \in {"line", "reload", "none"}
  /\ loop' = IF loop = "none" THEN "ended" ELSE "selecting"
  /\ UNCHANGED <<worldVars, consoleVars, queueVars, ctl, garbled, out, used>>

\* The line is dispatched, the plugins are reloaded, None is ignored.
Serve ==
  /\ Running /\ loop \in {"line", "reload", "none"}
  /\ loop' = "selecting"
  /\ UNCHANGED <<worldVars, consoleVars, queueVars, ctl, garbled, out, used>>

\* check_shutdown: child.wait returns, and has reaped the process.
Reap ==
  /\ Running /\ loop = "ended" /\ server = "gone"
  /\ loop' = "callbacks" /\ pid' = "nobody"
  /\ UNCHANGED <<editor, wrapper, server, killed, consoleVars, queueVars, ctl, garbled, out, used>>

\* The kernel gives the number to a new process.
ReusePid ==
  /\ pid = "nobody"
  /\ pid' = "other"
  /\ UNCHANGED <<editor, wrapper, server, killed, consoleVars, queueVars, loopVars, used>>

\* The stop or crash callbacks are through, and main returns.
Return ==
  /\ Running /\ loop = "callbacks"
  /\ wrapper' = "returned"
  /\ UNCHANGED <<editor, server, pid, killed, consoleVars, queueVars, loopVars, used>>
-----------------------------------------------------------------------------
Operator == \/ \E l \in Texts \cup Lines : Enter(l) \/ ReadTyped(l)
            \/ CtrlC \/ CtrlD \/ ReadlineFails \/ EndOfInput \/ Interrupt
Forward  == SendTyped \/ SendReload \/ Take \/ Write
World    == \/ PluginSends \/ ServerReads \/ ServerPrints \/ ServerWedges
            \/ ServerExits \/ ReusePid
MainLoop == PickLine \/ PickControl \/ Serve \/ Reap \/ Return

Next == Operator \/ Forward \/ World \/ MainLoop

Spec == Init /\ [][Next]_vars

\* Tasks and the console's thread run; a full channel serves its senders in
\* turn; select! polls its arms in random order, so an arm that is ready again
\* and again is picked. A server that is up reads its stdin.
Fairness ==
  /\ WF_vars(Take) /\ WF_vars(Write) /\ WF_vars(ServerReads) /\ WF_vars(Serve)
  /\ SF_vars(SendTyped) /\ SF_vars(SendReload)
  /\ SF_vars(PickLine) /\ SF_vars(PickControl)

FairSpec == Spec /\ Fairness
-----------------------------------------------------------------------------
(* Properties. *)

\* The keys that are for the server, and what is sent for them: the editor sends
\* no empty line, and a stop for the first of two Ctrl-C.
ForServer(k) == k \in Texts \/ (k = "" /\ ~editor) \/ k = "^C"
TextOf(k)    == IF k = "^C" THEN "stop" ELSE k

\* The way of the commands, from the server back to the console, and its end.
Path      == received \o pipe \o hand \o queue
OnWay(k)  == \E i \in DOMAIN Path : Path[i].key = k
NextUp(k) == console = "sending" /\ k = Len(keys) /\ line = <<TextOf(keys[k])>>

\* What the operator types reaches the server in the order in which it was
\* typed, each line by itself and once, none passed over, and while the server is
\* there nothing is lost on the way: whatever plugins send in between, full or not.
TypedOrder ==
  /\ \A i \in DOMAIN Path : Path[i].key # 0 =>
       LET k == Path[i].key
       IN /\ k \in DOMAIN keys /\ ForServer(keys[k]) /\ Path[i].text = <<TextOf(keys[k])>>
          /\ \A j \in DOMAIN Path : i < j /\ Path[j].key # 0 => k < Path[j].key
          /\ \A l \in 1..k : ForServer(keys[l]) => OnWay(l)
  /\ (Running /\ server # "gone") =>
       \A k \in DOMAIN keys : ForServer(keys[k]) => OnWay(k) \/ NextUp(k)

\* Ctrl-C quits the wrapper only right after another Ctrl-C, whose stop was
\* accepted into the queue: never after a line, even an empty one, was entered.
QuitsDeliberately ==
  LET before == Len(keys) - 1
  IN (wrapper = "forced" /\ keys[Len(keys)] = "^C") =>
       /\ before > 0 /\ keys[before] = "^C"
       /\ open => \E i \in DOMAIN Path : Path[i] = Item(before, <<"stop">>)

\* When main returns the server is dead; and when force_quit exits, on unix: on
\* other systems it kills nothing.
NoOrphan ==
  wrapper = "returned" \/ (wrapper = "forced" /\ Unix) => server = "gone"

\* Each line the server prints is read, even after the terminal's input has
\* ended and recv() answers None at once in every round, for as long as the
\* wrapper runs; only a line that is not UTF-8 ends this.
OutputRead == out > 0 ~> (out = 0 \/ garbled \/ ~Running)

\* The console does not stay stuck in a send: it reads on or leaves, unless the
\* server is wedged.
ConsoleGoesOn ==
  console = "sending" ~> (console # "sending" \/ server = "wedged" \/ ~Running)
=============================================================================
