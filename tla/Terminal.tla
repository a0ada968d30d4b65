------------------------------ MODULE Terminal ------------------------------
(***************************************************************************)
(* The one way to the operator's terminal (term.rs): every task that has   *)
(* something to say calls print_line or eprint_line, which hand the line   *)
(* to the line editor's external printer under the lock of SINK, or print  *)
(* it plainly when there is no printer or it fails. The console's thread   *)
(* (handler.rs), which runs the line editor, prints this way too, and so   *)
(* does the task that writes the command queue to the server, when it has  *)
(* failed. Between two calls of readline the console's thread may wait:    *)
(* for SINK, for the command queue, or for the control channel.            *)
(*                                                                         *)
(* The line editor, rustyline 14, is outside this repository. The model    *)
(* assumes of it: while readline has the terminal in raw mode, the printer *)
(* puts the line into a channel of one slot, waiting while it is taken,    *)
(* and readline empties the slot between keys, a key going first; at other *)
(* times the printer writes to the terminal itself.                        *)
(***************************************************************************)
EXTENDS Integers, SequencesExt

CONSTANTS
  Tasks,  \* tasks that print; "main" is one of them
  Keys,   \* what the operator may do at the prompt: "enter" (a command), "empty"
          \* (an empty line), "reload", "ctrl-c", "ctrl-d", or "error"
  CtlSlots, \* slots of the control channel
  \* bounds of the exploration
  MaxLines, MaxPresses, MaxOthers

ASSUME TerminalAssumption ==
  /\ "main" \in Tasks /\ Tasks \cap {"console", "sender"} = {}
  /\ CtlSlots \in Nat \ {0}
  /\ MaxLines \in Nat /\ MaxPresses \in Nat /\ MaxOthers \in Nat

Nobody  == "nobody"
Threads == Tasks \cup {"console", "sender"}

VARIABLES
  installed, \* SINK holds the printer
  lock,      \* who holds SINK's lock
  at,        \* at[t]: "idle", or in print_line: "locking", "printing", "handing", "plain"
  lines,     \* lines[t]: how many lines t has begun to print
  slot,      \* the line handed over and not yet shown, as a sequence of at most one
  shown,     \* history: the lines on the terminal
  raw,       \* readline has the terminal
  prompt,    \* where the console's thread is:
             \* "none", "ready", "reading"; "sending" (what was entered, or a stop) or
             \* "reloading", when it puts a message into a channel; "stopping",
             \* "quitting", "killing" or "leaving", when it says so; "left"
  ctrl_c_armed, \* the next Ctrl-C quits
  channel,   \* the command queue: "open" (a slot is free), "full" or "closed"
  child,     \* the server: "up", "hanging" (it does not read, and the pipe is full) or "gone"
  failing,   \* the sender has met a write error
  reloads,   \* messages in the control channel
  serving,   \* the main loop runs, and holds the channel's receiver
  exited,    \* the process is gone
  spent      \* how much of each bound is used up

printVars   == <<installed, lock, at, lines, slot, shown>>
promptVars  == <<raw, prompt, ctrl_c_armed>>
channelVars == <<channel, child, failing, reloads, serving>>
termVars == <<printVars, promptVars, channelVars, exited, spent>>

TermInit ==
  /\ installed = FALSE /\ lock = Nobody
  /\ at = [t \in Threads |-> "idle"] /\ lines = [t \in Threads |-> 0]
  /\ slot = <<>> /\ shown = <<>>
  /\ raw = FALSE /\ prompt = "none" /\ ctrl_c_armed = FALSE /\ exited = FALSE
  /\ channel = "open" /\ child = "up" /\ failing = FALSE
  /\ reloads = 0 /\ serving = TRUE
  /\ spent = [keys |-> 0, others |-> 0]

Line(t) == <<t, lines[t]>>
-----------------------------------------------------------------------------
(* print_line. *)

\* A line is begun. Without a printer it goes to the terminal at once.
Begin(t) ==
  /\ lines' = [lines EXCEPT ![t] = @ + 1]
  /\ at' = [at EXCEPT ![t] = IF installed THEN "locking" ELSE "plain"]

\* Before main has installed the printer nobody else runs.
Say(t) ==
  /\ ~exited /\ at[t] = "idle" /\ lines[t] < MaxLines /\ (installed \/ t = "main")
  /\ Begin(t)
  /\ UNCHANGED <<installed, lock, slot, shown, promptVars, channelVars, exited, spent>>

Lock(t) ==
  /\ ~exited /\ at[t] = "locking" /\ lock = Nobody
  /\ lock' = t /\ at' = [at EXCEPT ![t] = "printing"]
  /\ UNCHANGED <<installed, lines, slot, shown, promptVars, channelVars, exited, spent>>

Leave(t, next) == lock' = Nobody /\ at' = [at EXCEPT ![t] = next]

\* The printer looks at the mode and then writes, or turns to the channel.
WriteOrHand(t) ==
  /\ ~exited /\ at[t] = "printing"
  /\ \/ ~raw /\ shown' = Append(shown, Line(t)) /\ Leave(t, "idle")
     \/ raw /\ at' = [at EXCEPT ![t] = "handing"] /\ UNCHANGED <<lock, shown>>
  /\ UNCHANGED <<installed, lines, slot, promptVars, channelVars, exited, spent>>

HandOver(t) ==
  /\ ~exited /\ at[t] = "handing" /\ slot = <<>>
  /\ slot' = <<Line(t)>> /\ Leave(t, "idle")
  /\ UNCHANGED <<installed, lines, shown, promptVars, channelVars, exited, spent>>

\* Mutant: the result of print is not looked at.
Dropped(t) == Leave(t, "idle")

\* After an error the line is printed plainly.
FallThrough(t) == Leave(t, "plain")

\* Printing may fail, and does when the editor is gone, and with it the channel.
PrinterFails(t) ==
  /\ ~exited /\ at[t] \in {"printing", "handing"}
  /\ FallThrough(t)
  /\ UNCHANGED <<installed, lines, slot, shown, promptVars, channelVars, exited, spent>>

Plain(t) ==
  /\ ~exited /\ at[t] = "plain"
  /\ shown' = Append(shown, Line(t)) /\ at' = [at EXCEPT ![t] = "idle"]
  /\ UNCHANGED <<installed, lock, lines, slot, promptVars, channelVars, exited, spent>>
-----------------------------------------------------------------------------
(* main, and the console's thread. *)

\* main installs the printer before the server runs, and starts the thread.
Install ==
  /\ ~exited /\ ~installed /\ at["main"] = "idle"
  /\ installed' = TRUE /\ prompt' = "ready"
  /\ UNCHANGED <<lock, at, lines, slot, shown, raw, ctrl_c_armed, channelVars, exited, spent>>

Readline ==
  /\ ~exited /\ prompt = "ready" /\ at["console"] = "idle"
  /\ prompt' = "reading" /\ raw' = TRUE
  /\ UNCHANGED <<printVars, ctrl_c_armed, channelVars, exited, spent>>

\* What was handed over appears above the prompt.
Show ==
  /\ ~exited /\ raw /\ slot # <<>>
  /\ shown' = shown \o slot /\ slot' = <<>>
  /\ UNCHANGED <<installed, lock, at, lines, promptVars, channelVars, exited, spent>>

Silent == UNCHANGED <<at, lines>>

\* readline returns, the terminal is itself again. What was entered is to be
\* sent, and after Ctrl-C a stop. After a second Ctrl-C, or Ctrl-D, the console
\* says that it quits; an error it reports before it leaves.
Key(k) ==
  /\ ~exited /\ prompt = "reading" /\ spent.keys < MaxPresses
  /\ spent' = [spent EXCEPT !.keys = @ + 1]
  /\ raw' = FALSE
  /\ \/ k = "empty"  /\ prompt' = "ready" /\ ctrl_c_armed' = FALSE /\ Silent
     \/ k = "enter"  /\ prompt' = "sending" /\ ctrl_c_armed' = FALSE /\ Silent
     \/ k = "reload" /\ prompt' = "reloading" /\ ctrl_c_armed' = FALSE /\ Silent
     \/ k = "ctrl-c" /\ ~ctrl_c_armed /\ prompt' = "sending" /\ ctrl_c_armed' = TRUE /\ Silent
     \/ /\ k = "ctrl-d" \/ (k = "ctrl-c" /\ ctrl_c_armed)
        /\ prompt' = "quitting" /\ UNCHANGED ctrl_c_armed /\ Begin("console")
     \/ k = "error" /\ prompt' = "leaving" /\ UNCHANGED ctrl_c_armed /\ Begin("console")
  /\ UNCHANGED <<installed, lock, slot, shown, channelVars, exited>>

\* Mutant: the console confirms each line it has sent.
SentConfirmed ==
  /\ prompt' = IF ctrl_c_armed THEN "stopping" ELSE "ready"
  /\ Begin("console")

\* The stop of a Ctrl-C is announced once it is sent.
Sent == IF ctrl_c_armed THEN prompt' = "stopping" /\ Begin("console")
        ELSE prompt' = "ready" /\ Silent

\* blocking_send waits while the queue is full; a closed one makes the console leave.
SendEntered ==
  /\ ~exited /\ prompt = "sending"
  /\ \/ channel = "open" /\ channel' \in {"open", "full"} /\ Sent
     \/ channel = "closed" /\ prompt' = "left" /\ Silent /\ UNCHANGED channel
  /\ UNCHANGED <<installed, lock, slot, shown, raw, ctrl_c_armed, child, failing,
                 reloads, serving, exited, spent>>

SendToLoop ==
  /\ ~exited /\ prompt = "reloading"
  /\ \/ serving /\ reloads < CtlSlots /\ reloads' = reloads + 1 /\ prompt' = "ready"
     \/ ~serving /\ prompt' = "left" /\ UNCHANGED reloads
  /\ UNCHANGED <<printVars, raw, ctrl_c_armed, channel, child, failing, serving, exited, spent>>

\* The console has said what it had to say. force_quit kills the server and says
\* that too, before it exits; other systems than unix have no such kill.
Said ==
  /\ ~exited /\ at["console"] = "idle"
  /\ \/ prompt = "stopping" /\ prompt' = "ready" /\ Silent /\ UNCHANGED <<child, exited>>
     \/ prompt = "leaving" /\ prompt' = "left" /\ Silent /\ UNCHANGED <<child, exited>>
     \/ prompt = "quitting" /\ prompt' = "killing" /\ child' = "gone" /\ Begin("console")
        /\ UNCHANGED exited
     \/ prompt \in {"quitting", "killing"} /\ exited' = TRUE /\ Silent
        /\ UNCHANGED <<prompt, child>>
  /\ UNCHANGED <<installed, lock, slot, shown, raw, ctrl_c_armed, channel, failing,
                 reloads, serving, spent>>
-----------------------------------------------------------------------------
(* The other ends of the two channels. *)

\* Tasks and callbacks fill the queue.
OthersSend ==
  /\ ~exited /\ installed /\ channel = "open" /\ spent.others < MaxOthers
  /\ channel' = "full" /\ spent' = [spent EXCEPT !.others = @ + 1]
  /\ UNCHANGED <<printVars, promptVars, child, failing, reloads, serving, exited>>

\* The sender goes on as long as the server reads.
SenderTakes ==
  /\ ~exited /\ channel = "full" /\ child = "up" /\ channel' = "open"
  /\ UNCHANGED <<printVars, promptVars, child, failing, reloads, serving, exited, spent>>

\* It reports that it cannot write ...
WriteError ==
  /\ ~exited /\ channel # "closed" /\ child = "gone" /\ ~failing /\ at["sender"] = "idle"
  /\ failing' = TRUE /\ Begin("sender")
  /\ UNCHANGED <<installed, lock, slot, shown, promptVars, channel, child, reloads,
                 serving, exited, spent>>

\* Mutant: it ends, and leaves the queue as it is.
SenderIsGone ==
  /\ channel' = channel
  /\ UNCHANGED <<printVars, promptVars, child, failing, reloads, serving, exited, spent>>

\* ... and only then drops the receiver.
DropReceiver ==
  /\ channel' = "closed"
  /\ UNCHANGED <<printVars, promptVars, child, failing, reloads, serving, exited, spent>>

SenderEnds ==
  /\ ~exited /\ failing /\ at["sender"] = "idle" /\ channel # "closed"
  /\ DropReceiver

ServerChanges ==
  /\ ~exited /\ installed
  /\ \/ child = "up" /\ child' = "hanging"
     \/ child # "gone" /\ child' = "gone"
  /\ UNCHANGED <<printVars, promptVars, channel, failing, reloads, serving, exited, spent>>

\* The control arm. What a reload prints is said by Say.
TakeReload ==
  /\ ~exited /\ serving /\ reloads > 0 /\ at["main"] = "idle"
  /\ reloads' = reloads - 1
  /\ UNCHANGED <<printVars, promptVars, channel, child, failing, serving, exited, spent>>

\* The server's output ends, or a line of it cannot be read.
LoopIsOver ==
  /\ ~exited /\ serving /\ installed /\ at["main"] = "idle"
  /\ serving' = FALSE /\ reloads' = 0
  /\ UNCHANGED <<printVars, promptVars, channel, child, failing, exited, spent>>

\* The server is gone, and main returns.
Exit ==
  /\ ~exited /\ ~serving /\ child = "gone" /\ at["main"] = "idle"
  /\ exited' = TRUE
  /\ UNCHANGED <<printVars, promptVars, channelVars, spent>>

PrintLine(t) == Lock(t) \/ WriteOrHand(t) \/ HandOver(t) \/ Plain(t)
Prompting    == Readline \/ SendEntered \/ SendToLoop \/ Said
Sending      == OthersSend \/ SenderTakes \/ WriteError \/ SenderEnds
Others       == ServerChanges \/ TakeReload \/ LoopIsOver \/ Install \/ Exit

TermNext ==
  \/ \E t \in Tasks : Say(t)
  \/ \E t \in Threads : PrintLine(t) \/ PrinterFails(t)
  \/ \E k \in Keys : Key(k)
  \/ Prompting \/ Show \/ Sending \/ Others

TermSpec == TermInit /\ [][TermNext]_termVars

\* Threads run. SINK's mutex and the channels serve those who wait in turn, and
\* readline, called again after each key, comes to what was handed over: as each
\* bound ends a competition some day, weak fairness says less than that and is
\* enough. Nothing is assumed of a server that hangs, nor of the main loop while a
\* task prints: the task may be a callback, which holds the Lua lock that the main
\* loop waits for.
TermFairness ==
  /\ \A t \in Threads : WF_termVars(PrintLine(t) \/ (at[t] = "handing" /\ prompt = "left" /\ PrinterFails(t)))
  /\ WF_termVars(Prompting) /\ WF_termVars(Show)
  /\ WF_termVars(SenderTakes) /\ WF_termVars(SenderEnds \/ (channel = "full" /\ WriteError))
  /\ WF_termVars((\A t \in Tasks : at[t] = "idle") /\ TakeReload)

TermFairSpec == TermSpec /\ TermFairness
-----------------------------------------------------------------------------
(* Properties. *)

Printed(t) == IF at[t] = "idle" THEN 1..lines[t] ELSE 1..lines[t] - 1

\* Comment of print_line: a message is never silently dropped. Each line whose
\* print_line has returned is on the terminal or in readline's hands, exactly
\* once, and no other is, whatever failed on the way.
NeverDropped ==
  LET here == shown \o slot
  IN /\ ToSet(here) = UNION {{t} \X Printed(t) : t \in Threads}
     /\ IsInjective(here)

\* The command queue is full and the server does not read: the console, in
\* blocking_send, does not get back to readline.
HeldByServer == prompt = "sending" /\ channel = "full" /\ child = "hanging"

\* A task holds SINK until readline takes the line before its own, and the
\* console's thread, which would call readline, waits for somebody who needs SINK:
\* it has something to say itself; or the queue is full and the server hangs, or
\* the sender has an error to report before it closes the queue; or the control
\* channel is full and the main loop is held up, by SINK or by a callback that prints.
Entangled ==
  /\ slot # <<>> /\ \E t \in Threads : at[t] = "handing"
  /\ \/ prompt \in {"stopping", "quitting", "killing", "leaving"}
     \/ HeldByServer
     \/ prompt = "sending" /\ channel = "full" /\ failing
     \/ prompt = "reloading" /\ reloads = CtlSlots /\ serving

\* Each call of print_line returns, whatever is typed and whatever becomes of the
\* server, except in the deadlocks of Entangled: there is no other way to hang.
PrintingReturns ==
  \A t \in Threads : at[t] # "idle" ~> (at[t] = "idle" \/ exited \/ Entangled)

\* What was handed to readline is shown, unless the console leaves or the process
\* ends first, or the console does not come back to readline, as above.
HandedIsShown ==
  slot # <<>> ~> (slot = <<>> \/ prompt = "left" \/ exited \/ HeldByServer \/ Entangled)
=============================================================================
