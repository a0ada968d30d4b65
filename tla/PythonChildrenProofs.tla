------------------------- MODULE PythonChildrenProofs -------------------------
(***************************************************************************)
(* Proofs about module PythonChildren, for every set of calls and every    *)
(* bound.                                                                  *)
(***************************************************************************)
EXTENDS PythonChildren, TLAPS

TypeInv ==
  /\ wrapper \in {"running", "exited", "quit"}
  /\ call \in [Calls -> {"idle", "spawned", "tracked", "waiting", "draining", "done"}]
  /\ child \in [Calls -> {"none", "running", "ended", "killed"}]
  /\ tracker \subseteq Calls /\ drained \subseteq Calls /\ heir \subseteq Calls
  /\ wrote \in [Calls -> Nat] /\ got \in [Calls -> Nat]
  /\ result \in [Calls -> {"none", "ok", "timeout", "reload", "error"}]
  /\ output \in [Calls -> Nat]

\* A child whose call looks for it in vain, because a reload has drained the
\* tracker, is in the reload's hands or does not run any more.
TrackInv ==
  \A c \in Calls : (call[c] = "tracked" /\ c \notin tracker /\ c \notin drained)
                     => child[c] # "running"

\* A child that was not spawned does not run, and one whose call has seen its
\* end has ended.
ChildInv ==
  \A c \in Calls : call[c] \in {"idle", "draining"} => child[c] # "running"

\* A main that has returned leaves nothing running.
ExitInv == wrapper = "exited" => \A c \in Calls : child[c] # "running"

\* A call that has returned output did so when nobody was left to print more.
OutputInv ==
  \A c \in Calls : result[c] = "ok" =>
     call[c] = "done" /\ child[c] # "running" /\ c \notin heir /\ output[c] = wrote[c]

IInv == TypeInv /\ TrackInv /\ ChildInv /\ ExitInv /\ OutputInv /\ NoStray
-----------------------------------------------------------------------------
\* Killing only ends processes.
LEMMA KilledFacts ==
  ASSUME TypeInv, NEW C
  PROVE  /\ Killed(C) \in [Calls -> {"none", "running", "ended", "killed"}]
         /\ \A c \in Calls : /\ child[c] # "running" => Killed(C)[c] # "running"
                             /\ c \in C => Killed(C)[c] # "running"
BY DEF Killed, TypeInv

\* No call has begun.
LEMMA InitInv == Init => IInv
BY DEF Init, IInv, TypeInv, TrackInv, ChildInv, ExitInv, OutputInv, NoStray

\* What a call does before its child is waited for keeps the invariant.
LEMMA CallBegins ==
  ASSUME IInv, NEW c \in Calls, Spawn(c) \/ SpawnFails(c) \/ Track(c) \/ TakeChild(c)
  PROVE  IInv'
<1> USE DEF IInv, At, End
<1>1. CASE Spawn(c)
  <2>1. TypeInv'
    BY <1>1 DEF Spawn, TypeInv
  <2>2. TrackInv' /\ ChildInv' /\ ExitInv' /\ OutputInv' /\ NoStray'
    BY <1>1 DEF Spawn, TypeInv, TrackInv, ChildInv, ExitInv, OutputInv, NoStray
  <2> QED BY <2>1, <2>2
<1>2. CASE SpawnFails(c)
  <2>1. TypeInv'
    BY <1>2 DEF SpawnFails, TypeInv
  <2>2. TrackInv' /\ ChildInv' /\ ExitInv' /\ OutputInv' /\ NoStray'
    BY <1>2 DEF SpawnFails, TypeInv, TrackInv, ChildInv, ExitInv, OutputInv, NoStray
  <2> QED BY <2>1, <2>2
<1>3. CASE Track(c)
  <2>1. TypeInv'
    BY <1>3 DEF Track, TypeInv
  <2>2. TrackInv' /\ ChildInv' /\ ExitInv' /\ OutputInv' /\ NoStray'
    BY <1>3 DEF Track, TypeInv, TrackInv, ChildInv, ExitInv, OutputInv, NoStray
  <2> QED BY <2>1, <2>2
<1>4. CASE TakeChild(c) /\ c \in tracker
  <2>1. TypeInv'
    BY <1>4 DEF TakeChild, TypeInv
  <2>2. TrackInv' /\ ChildInv' /\ ExitInv' /\ OutputInv' /\ NoStray'
    BY <1>4 DEF TakeChild, TypeInv, TrackInv, ChildInv, ExitInv, OutputInv, NoStray
  <2> QED BY <2>1, <2>2
<1>5. CASE TakeChild(c) /\ c \notin tracker
  <2>1. TypeInv'
    BY <1>5 DEF TakeChild, TypeInv
  <2>2. TrackInv' /\ ChildInv' /\ ExitInv' /\ OutputInv' /\ NoStray'
    BY <1>5 DEF TakeChild, TypeInv, TrackInv, ChildInv, ExitInv, OutputInv, NoStray
  <2> QED BY <2>1, <2>2
<1> QED
  BY <1>1, <1>2, <1>3, <1>4, <1>5

\* So does what it does from then on.
LEMMA CallEnds ==
  ASSUME IInv, NEW c \in Calls, Reap(c) \/ Return(c) \/ Timeout(c)
  PROVE  IInv'
<1> USE DEF IInv, At, End
<1>1. CASE Reap(c)
  <2>1. TypeInv'
    BY <1>1 DEF Reap, TypeInv
  <2>2. TrackInv' /\ ChildInv' /\ ExitInv' /\ OutputInv' /\ NoStray'
    BY <1>1 DEF Reap, TypeInv, TrackInv, ChildInv, ExitInv, OutputInv, NoStray
  <2> QED BY <2>1, <2>2
<1>2. CASE Return(c)
  <2>1. TypeInv'
    BY <1>2 DEF Return, TypeInv
  <2>2. TrackInv' /\ ChildInv' /\ ExitInv' /\ NoStray'
    BY <1>2 DEF Return, TypeInv, TrackInv, ChildInv, ExitInv, NoStray
  <2>3. child[c] # "running" /\ c \notin heir /\ got[c] = wrote[c]
    BY <1>2 DEF Return, ChildInv
  <2>4. OutputInv'
    BY <1>2, <2>3 DEF Return, TypeInv, OutputInv
  <2> QED BY <2>1, <2>2, <2>4
<1>3. CASE Timeout(c)
  <2>1. child' \in [Calls -> {"none", "running", "ended", "killed"}]
    BY <1>3, KilledFacts DEF Timeout
  <2>2. /\ child'[c] # "running"
        /\ \A d \in Calls : child[d] # "running" => child'[d] # "running"
    BY <1>3, KilledFacts DEF Timeout
  <2>3. /\ call' = [call EXCEPT ![c] = "done"] /\ tracker' = tracker \ {c}
        /\ result' = [result EXCEPT ![c] = "timeout"] /\ output' = [output EXCEPT ![c] = 0]
        /\ UNCHANGED <<wrapper, drained, heir, wrote, got>>
    BY <1>3 DEF Timeout
  <2>4. TypeInv'
    BY <2>1, <2>3 DEF TypeInv
  <2>5. TrackInv' /\ ChildInv' /\ ExitInv' /\ NoStray'
    BY <1>3, <2>2, <2>3 DEF Timeout, TypeInv, TrackInv, ChildInv, ExitInv, NoStray
  <2>6. OutputInv'
    BY <2>2, <2>3 DEF TypeInv, OutputInv
  <2> QED BY <2>4, <2>5, <2>6
<1> QED
  BY <1>1, <1>2, <1>3

\* What the script prints and its end keep it: who returned output has no
\* script, and no process left behind, that could print more.
LEMMA ScriptSteps ==
  ASSUME IInv, NEW c \in Calls,
         Collect(c) \/ Prints(c) \/ HeirEnds(c) \/ \E leaves \in BOOLEAN : Ends(c, leaves)
  PROVE  IInv'
<1> USE DEF IInv
<1>1. CASE Collect(c)
  <2>1. TypeInv'
    BY <1>1 DEF Collect, TypeInv
  <2>2. TrackInv' /\ ChildInv' /\ ExitInv' /\ OutputInv' /\ NoStray'
    BY <1>1 DEF Collect, TrackInv, ChildInv, ExitInv, OutputInv, NoStray
  <2> QED BY <2>1, <2>2
<1>2. CASE Prints(c)
  <2>1. TypeInv'
    BY <1>2 DEF Prints, TypeInv
  <2>2. TrackInv' /\ ChildInv' /\ ExitInv' /\ NoStray'
    BY <1>2 DEF Prints, TrackInv, ChildInv, ExitInv, NoStray
  <2>3. OutputInv'
    BY <1>2 DEF Prints, TypeInv, OutputInv
  <2> QED BY <2>1, <2>2, <2>3
<1>3. CASE HeirEnds(c)
  <2>1. TypeInv'
    BY <1>3 DEF HeirEnds, TypeInv
  <2>2. TrackInv' /\ ChildInv' /\ ExitInv' /\ OutputInv' /\ NoStray'
    BY <1>3 DEF HeirEnds, TrackInv, ChildInv, ExitInv, OutputInv, NoStray
  <2> QED BY <2>1, <2>2
<1>4. ASSUME NEW leaves \in BOOLEAN, Ends(c, leaves)
      PROVE  IInv'
  <2>1. TypeInv'
    BY <1>4 DEF Ends, TypeInv
  <2>2. TrackInv' /\ ChildInv' /\ ExitInv' /\ NoStray'
    BY <1>4 DEF Ends, TypeInv, TrackInv, ChildInv, ExitInv, NoStray
  <2>3. OutputInv'
    BY <1>4 DEF Ends, TypeInv, OutputInv
  <2> QED BY <2>1, <2>2, <2>3
<1> QED
  BY <1>1, <1>2, <1>3, <1>4

\* So do a reload, in its two steps, and either end of the wrapper.
LEMMA WrapperSteps ==
  ASSUME IInv, Reload \/ KillDrained \/ Exit \/ ForceQuit
  PROVE  IInv'
<1> USE DEF IInv
<1>1. CASE Reload
  <2>1. TypeInv'
    BY <1>1 DEF Reload, TypeInv
  <2>2. TrackInv' /\ ChildInv' /\ ExitInv' /\ OutputInv' /\ NoStray'
    BY <1>1 DEF Reload, TypeInv, TrackInv, ChildInv, ExitInv, OutputInv, NoStray
  <2> QED BY <2>1, <2>2
<1>2. CASE KillDrained
  <2>1. child' \in [Calls -> {"none", "running", "ended", "killed"}]
    BY <1>2, KilledFacts DEF KillDrained
  <2>2. \A c \in Calls : child[c] # "running" \/ c \in drained => child'[c] # "running"
    BY <1>2, KilledFacts DEF KillDrained
  <2>3. /\ drained' = {}
        /\ UNCHANGED <<wrapper, call, tracker, heir, wrote, got, result, output>>
    BY <1>2 DEF KillDrained
  <2>4. TypeInv'
    BY <2>1, <2>3 DEF TypeInv
  <2>5. TrackInv' /\ ChildInv' /\ ExitInv' /\ OutputInv' /\ NoStray'
    BY <2>2, <2>3 DEF TrackInv, ChildInv, ExitInv, OutputInv, NoStray
  <2> QED BY <2>4, <2>5
<1>3. CASE Exit
  <2>1. child' \in [Calls -> {"none", "running", "ended", "killed"}]
    BY <1>3, KilledFacts DEF Exit
  <2>2. \A c \in Calls : child'[c] # "running"
    BY <1>3, KilledFacts DEF Exit
  <2>3. /\ wrapper' = "exited" /\ tracker' = {}
        /\ UNCHANGED <<call, drained, heir, wrote, got, result, output>>
    BY <1>3 DEF Exit
  <2>4. TypeInv'
    BY <2>1, <2>3 DEF TypeInv
  <2>5. TrackInv' /\ ChildInv' /\ ExitInv' /\ OutputInv' /\ NoStray'
    BY <2>2, <2>3 DEF TrackInv, ChildInv, ExitInv, OutputInv, NoStray
  <2> QED BY <2>4, <2>5
<1>4. CASE ForceQuit
  <2>1. TypeInv'
    BY <1>4 DEF ForceQuit, TypeInv
  <2>2. TrackInv' /\ ChildInv' /\ ExitInv' /\ OutputInv' /\ NoStray'
    BY <1>4 DEF ForceQuit, TrackInv, ChildInv, ExitInv, OutputInv, NoStray
  <2> QED BY <2>1, <2>2
<1> QED
  BY <1>1, <1>2, <1>3, <1>4

\* Every step keeps the invariant.
LEMMA NextInv == IInv /\ [Next]_vars => IInv'
<1> SUFFICES ASSUME IInv, [Next]_vars PROVE IInv'
  OBVIOUS
<1>1. ASSUME NEW c \in Calls, Call(c)
      PROVE  IInv'
  BY <1>1, CallBegins, CallEnds DEF Call
<1>2. CASE UNCHANGED vars
  <2>1. TypeInv' /\ TrackInv' /\ ChildInv'
    BY <1>2 DEF vars, IInv, TypeInv, TrackInv, ChildInv
  <2>2. ExitInv' /\ OutputInv' /\ NoStray'
    BY <1>2 DEF vars, IInv, ExitInv, OutputInv, NoStray
  <2> QED BY <2>1, <2>2 DEF IInv
<1> QED
  BY <1>1, <1>2, ScriptSteps, WrapperSteps DEF Next

\* The invariant holds in every state.
THEOREM Invariant == Spec => []IInv
BY InitInv, NextInv, PTL DEF Spec

\* No script runs on that no call waits for, whatever timeouts, reloads and the
\* end of the wrapper do to the tracker; force_quit apart.
THEOREM NoStrayHolds == Spec => []NoStray
<1>1. IInv => NoStray
  BY DEF IInv
<1> QED
  BY Invariant, <1>1, PTL

\* A call that returns output returns all that was ever printed.
THEOREM OutputWholeHolds == Spec => []OutputWhole
<1>1. IInv => OutputWhole
  BY DEF IInv, OutputInv, OutputWhole
<1> QED
  BY Invariant, <1>1, PTL
=============================================================================
