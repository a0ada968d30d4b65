-------------------------- MODULE PythonChildren --------------------------
(***************************************************************************)
(* wrapper:run_python (run_python_impl of lua_ctx.rs): Python processes,   *)
(* the tracker a reload drains, the timeout, and the collection of what    *)
(* the script prints.                                                      *)
(*                                                                         *)
(* A call spawns its child, enters it into the tracker, and in its next    *)
(* step takes it out again to wait for it: the tracker lists the children  *)
(* whose call stands between these two steps. A child that nobody owns any *)
(* more is killed (kill_on_drop). Script, collector task, call and main    *)
(* thread run side by side.                                                *)
(***************************************************************************)
EXTENDS Integers

CONSTANTS
  Calls,       \* calls of run_python
  MaxOut,      \* bound: what a script prints
  MaxReloads   \* bound

ASSUME PythonAssumption == MaxOut \in Nat /\ MaxReloads \in Nat

VARIABLES
  wrapper, \* "running", "exited" (main returned) or "quit" (force_quit)
  reloads, \* reloads so far
  call,    \* call[c]: "idle", "spawned", "tracked", "waiting", "draining", "done"
  child,   \* child[c]: "none", "running", "ended" or "killed"
  tracker, \* calls whose child is in the tracker
  drained, \* calls whose child a reload has taken out and not killed yet
  heir,    \* calls whose child left a process behind that holds its stdout
  wrote, got, \* what the script has printed, and what the collector has read
  result,  \* result[c]: "none" yet, "ok", "timeout", "reload", "error"
  output   \* output[c]: how much of what was printed c returned

vars == <<wrapper, reloads, call, child, tracker, drained, heir, wrote, got, result, output>>

Init ==
  /\ wrapper = "running" /\ reloads = 0
  /\ call = [c \in Calls |-> "idle"]
  /\ child = [c \in Calls |-> "none"] /\ tracker = {} /\ drained = {} /\ heir = {}
  /\ wrote = [c \in Calls |-> 0] /\ got = [c \in Calls |-> 0]
  /\ result = [c \in Calls |-> "none"] /\ output = [c \in Calls |-> 0]

At(c, here) == wrapper = "running" /\ call[c] = here

\* Mutant: without kill_on_drop an orphan runs on.
LeftAlone(C) == child

\* What becomes of the processes when the children of the calls in C are
\* killed, or dropped.
Killed(C) == [c \in Calls |-> IF c \in C /\ child[c] = "running" THEN "killed" ELSE child[c]]

End(c, r, n) ==
  /\ call' = [call EXCEPT ![c] = "done"]
  /\ result' = [result EXCEPT ![c] = r] /\ output' = [output EXCEPT ![c] = n]
-----------------------------------------------------------------------------
(* The call. *)

Spawn(c) ==
  /\ At(c, "idle")
  /\ call' = [call EXCEPT ![c] = "spawned"] /\ child' = [child EXCEPT ![c] = "running"]
  /\ UNCHANGED <<wrapper, reloads, tracker, drained, heir, wrote, got, result, output>>

\* No such script in the plugin's directory, or no interpreter.
SpawnFails(c) ==
  /\ At(c, "idle")
  /\ End(c, "error", 0)
  /\ UNCHANGED <<wrapper, reloads, child, tracker, drained, heir, wrote, got>>

Track(c) ==
  /\ At(c, "spawned")
  /\ call' = [call EXCEPT ![c] = "tracked"] /\ tracker' = tracker \cup {c}
  /\ UNCHANGED <<wrapper, reloads, child, drained, heir, wrote, got, result, output>>

\* The first poll of wait_fut; None if a reload came in between.
TakeChild(c) ==
  /\ At(c, "tracked")
  /\ tracker' = tracker \ {c}
  /\ IF c \in tracker THEN call' = [call EXCEPT ![c] = "waiting"] /\ UNCHANGED <<result, output>>
     ELSE End(c, "reload", 0)
  /\ UNCHANGED <<wrapper, reloads, child, drained, heir, wrote, got>>

Reap(c) ==
  /\ At(c, "waiting") /\ child[c] # "running"
  /\ call' = [call EXCEPT ![c] = "draining"]
  /\ UNCHANGED <<wrapper, reloads, child, tracker, drained, heir, wrote, got, result, output>>

\* Mutant: the collector's buffer is taken when the child has ended.
ReturnAtOnce(c) ==
  /\ At(c, "draining")
  /\ End(c, "ok", got[c])
  /\ UNCHANGED <<wrapper, reloads, child, tracker, drained, heir, wrote, got>>

\* stdout_task ends at end of file: when nobody holds the pipe any more. What
\* the call makes of the text it returns (JSON, or an error) is left out.
Return(c) ==
  /\ At(c, "draining") /\ got[c] = wrote[c] /\ c \notin heir
  /\ End(c, "ok", got[c])
  /\ UNCHANGED <<wrapper, reloads, child, tracker, drained, heir, wrote, got>>

\* Mutant: the call waits for as long as it takes.
NoTimeout(c) == FALSE /\ UNCHANGED vars

\* The timeout drops wait_fut and with it the child; the tracker is empty.
Timeout(c) ==
  /\ At(c, "waiting")
  /\ child' = Killed({c})
  /\ tracker' = tracker \ {c}
  /\ End(c, "timeout", 0)
  /\ UNCHANGED <<wrapper, reloads, drained, heir, wrote, got>>

\* The collector task reads on, until end of file.
Collect(c) ==
  /\ wrapper = "running" /\ got[c] < wrote[c]
  /\ got' = [got EXCEPT ![c] = @ + 1]
  /\ UNCHANGED <<wrapper, reloads, call, child, tracker, drained, heir, wrote, result, output>>
-----------------------------------------------------------------------------
(* The scripts, the reload and the end of the wrapper. *)

Prints(c) ==
  /\ child[c] = "running" \/ c \in heir
  /\ wrote[c] < MaxOut
  /\ wrote' = [wrote EXCEPT ![c] = @ + 1]
  /\ UNCHANGED <<wrapper, reloads, call, child, tracker, drained, heir, got, result, output>>

Ends(c, leaves) ==
  /\ child[c] = "running"
  /\ child' = [child EXCEPT ![c] = "ended"]
  /\ heir' = IF leaves THEN heir \cup {c} ELSE heir
  /\ UNCHANGED <<wrapper, reloads, call, tracker, drained, wrote, got, result, output>>

HeirEnds(c) ==
  /\ c \in heir
  /\ heir' = heir \ {c}
  /\ UNCHANGED <<wrapper, reloads, call, child, tracker, drained, wrote, got, result, output>>

\* reload_plugins drains the tracker under its lock.
Reload ==
  /\ wrapper = "running" /\ drained = {} /\ reloads < MaxReloads
  /\ reloads' = reloads + 1
  /\ drained' = tracker /\ tracker' = {}
  /\ UNCHANGED <<wrapper, call, child, heir, wrote, got, result, output>>

\* Then, without the lock, it kills what it found.
KillDrained ==
  /\ wrapper = "running" /\ drained # {}
  /\ child' = Killed(drained) /\ drained' = {}
  /\ UNCHANGED <<wrapper, reloads, call, tracker, heir, wrote, got, result, output>>

\* main returns: the runtime drops every task and every child with it.
Exit ==
  /\ wrapper = "running" /\ drained = {}
  /\ wrapper' = "exited"
  /\ child' = Killed(Calls) /\ tracker' = {}
  /\ UNCHANGED <<reloads, call, drained, heir, wrote, got, result, output>>

\* force_quit kills the server and calls exit: nothing is dropped.
ForceQuit ==
  /\ wrapper = "running"
  /\ wrapper' = "quit"
  /\ UNCHANGED <<reloads, call, child, tracker, drained, heir, wrote, got, result, output>>

Call(c) == Spawn(c) \/ SpawnFails(c) \/ Track(c) \/ TakeChild(c) \/ Reap(c) \/ Return(c) \/ Timeout(c)
Next == \/ \E c \in Calls : \/ Call(c) \/ Collect(c) \/ Prints(c) \/ HeirEnds(c)
                            \/ \E leaves \in BOOLEAN : Ends(c, leaves)
        \/ Reload \/ KillDrained \/ Exit \/ ForceQuit

Spec == Init /\ [][Next]_vars

\* The wrapper's tasks run and its timers fire. A script may do as it likes, but
\* what it leaves behind lets go of its stdout: the drain has no timeout.
Fairness ==
  \A c \in Calls : /\ WF_vars(Track(c) \/ TakeChild(c) \/ Reap(c) \/ Return(c) \/ Timeout(c))
                   /\ WF_vars(Collect(c)) /\ WF_vars(HeirEnds(c))
FairSpec == Spec /\ Fairness
-----------------------------------------------------------------------------
(* Properties. *)

\* No script runs on once its call has returned, be it by a timeout or by a
\* reload (which is then about to kill it), or once the wrapper has exited.
NoStray ==
  \A c \in Calls :
     (call[c] = "done" /\ c \notin drained) \/ wrapper = "exited" => child[c] # "running"

\* The plugin guide (8.1): a call returns when the script has ended and its
\* output has been drained. What it returns is all that was printed.
OutputWhole == \A c \in Calls : result[c] = "ok" => output[c] = wrote[c]

\* A call comes back to the callback that made it, whatever its script does.
RunReturns ==
  \A c \in Calls : call[c] = "spawned" ~> (call[c] = "done" \/ wrapper # "running")
=============================================================================
