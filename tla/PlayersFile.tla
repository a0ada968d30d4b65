---------------------------- MODULE PlayersFile ----------------------------
(***************************************************************************)
(* What the player registry of players.rs remembers, in memory and in      *)
(* .mcrw/players.json, over several runs of the wrapper.                   *)
(*                                                                         *)
(* Only the main thread changes the records: observe_line on each line of  *)
(* output, which also saves at most once per debounce window, and at the   *)
(* end mark_all_offline and flush. A save rewrites the file in place: it   *)
(* is cut to nothing, then written. Saving clears the dirty flag first,    *)
(* and a save that fails is logged only. With tracking disabled no line is *)
(* looked at, but the file is loaded and saved all the same.               *)
(***************************************************************************)
EXTENDS Integers

CONSTANTS
  People,  \* players
  \* bounds of the exploration
  MaxClock, MaxFailures, MaxRestarts

ASSUME PlayersFileAssumption ==
  MaxClock \in Nat \ {0} /\ MaxFailures \in Nat /\ MaxRestarts \in Nat

Never == 0              \* no time: first_join or join_time is None
Times == 0..MaxClock

\* login stands for uuid and ip: known or not.
Record == [login : BOOLEAN, online : BOOLEAN,
           first : Times, last : Times, joined : Times]
Nobody == [login |-> FALSE, online |-> FALSE, first |-> Never, last |-> Never,
           joined |-> Never]   \* no record under this name

VARIABLES
  phase,   \* "running", "flushing", "callbacks", "exited" or "killed"
  enabled, \* [players] enabled, of this run
  records, \* records[n]
  dirty,   \* changed since the last save
  due,     \* the debounce window since the last save has passed
  writer,  \* "idle", or where it is in write_players_json: "open", "write"
  text,    \* what it writes
  file,    \* players.json: "none", "torn" (it does not parse) or "whole"
  disk,    \* what it holds when it is whole
  failed,  \* the last save of this run failed
  clock,   \* seconds
  intact,  \* history: each run so far ended orderly, and its last save succeeded
  ever,    \* history: ever[n], when n was first seen to join
  left,    \* history: left[n], when n was last seen to go
  used     \* how much of each bound is used up

history == <<intact, ever, left>>
fileVars == <<phase, enabled, records, dirty, due, writer, text, file, disk,
          failed, clock, intact, ever, left, used>>

Empty == [n \in People |-> Nobody]

\* serialize_records: session state is not saved.
Saved(recs) == [n \in People |-> [recs[n] EXCEPT !.online = FALSE, !.joined = Never]]

\* load_records: a file that is missing or does not parse is an empty one.
Loaded == IF file = "whole" THEN disk ELSE Empty

FileInit ==
  /\ phase = "running" /\ enabled \in BOOLEAN
  /\ records = Empty /\ dirty = FALSE /\ due = TRUE
  /\ writer = "idle" /\ text = Empty /\ file = "none" /\ disk = Empty
  /\ failed = FALSE
  /\ clock = 1 /\ intact = TRUE
  /\ ever = [n \in People |-> Never] /\ left = [n \in People |-> Never]
  /\ used = [failures |-> 0, restarts |-> 0]
-----------------------------------------------------------------------------
(* The lines. *)

\* Mutant: session state is saved too.
BeginSaveOfAll(recs) ==
  /\ dirty' = FALSE /\ due' = FALSE
  /\ writer' = "open" /\ text' = recs

\* A save begins: the flag is cleared, the records are rendered.
BeginSave(recs) ==
  /\ dirty' = FALSE /\ due' = FALSE
  /\ writer' = "open" /\ text' = Saved(recs)

\* upsert: a record that is new carries the time it was made.
Upserted(n) == IF records[n] = Nobody THEN [Nobody EXCEPT !.last = clock] ELSE records[n]

\* Mutant: the first join is overwritten by every join.
JoinedAnew(r) == [r EXCEPT !.online = TRUE, !.joined = clock, !.last = clock,
                           !.first = clock]

Joined(r) == [r EXCEPT !.online = TRUE, !.joined = clock, !.last = clock,
                       !.first = IF r.first = Never THEN clock ELSE r.first]
Gone(r)   == [r EXCEPT !.online = FALSE, !.joined = Never, !.last = clock]

Running == phase = "running" /\ writer = "idle"

\* The changes a line makes are followed by maybe_persist.
Change(n, r) ==
  /\ Running /\ enabled
  /\ records' = [records EXCEPT ![n] = r]
  /\ IF due THEN BeginSave(records') ELSE dirty' = TRUE /\ UNCHANGED <<due, writer, text>>
  /\ UNCHANGED <<phase, enabled, file, disk, failed, clock, intact, used>>

SeeLogin(n) ==
  /\ Change(n, [Upserted(n) EXCEPT !.login = TRUE])
  /\ UNCHANGED <<ever, left>>

SeeJoin(n) ==
  /\ ~records[n].online
  /\ Change(n, Joined(Upserted(n)))
  /\ ever' = [ever EXCEPT ![n] = IF ever[n] = Never THEN clock ELSE ever[n]]
  /\ UNCHANGED left

SeeLeave(n) ==
  /\ records[n].online
  /\ Change(n, Gone(Upserted(n)))
  /\ left' = [left EXCEPT ![n] = clock]
  /\ UNCHANGED ever

\* Any other line changes nothing, but saves what is due.
SeeOther ==
  /\ Running /\ enabled /\ dirty /\ due
  /\ BeginSave(records)
  /\ UNCHANGED <<phase, enabled, records, file, disk, failed, clock, history, used>>

Elapse ==
  /\ ~due
  /\ due' = TRUE
  /\ UNCHANGED <<phase, enabled, records, dirty, writer, text, file, disk, failed, clock,
                 history, used>>

Tick ==
  /\ clock < MaxClock
  /\ clock' = clock + 1
  /\ UNCHANGED <<phase, enabled, records, dirty, due, writer, text, file, disk, failed,
                 history, used>>
-----------------------------------------------------------------------------
(* write_players_json. *)

Open ==
  /\ writer = "open"
  /\ file' = "torn" /\ writer' = "write"
  /\ UNCHANGED <<phase, enabled, records, dirty, due, text, disk, failed, clock, history,
                 used>>

Write ==
  /\ writer = "write"
  /\ file' = "whole" /\ disk' = text /\ writer' = "idle" /\ text' = Empty /\ failed' = FALSE
  /\ UNCHANGED <<phase, enabled, records, dirty, due, clock, history, used>>

\* The file cannot be opened, or not written in full.
Fail ==
  /\ writer # "idle" /\ used.failures < MaxFailures
  /\ writer' = "idle" /\ text' = Empty /\ failed' = TRUE
  /\ used' = [used EXCEPT !.failures = @ + 1]
  /\ UNCHANGED <<phase, enabled, records, dirty, due, file, disk, clock, history>>
-----------------------------------------------------------------------------
(* The end of the run, and the next one. *)

\* Mutant: who was online keeps an old last_seen.
AllOfflineStale == [n \in People |-> [records[n] EXCEPT !.online = FALSE, !.joined = Never]]

AllOffline == [n \in People |-> IF records[n].online THEN Gone(records[n]) ELSE records[n]]

\* Mutant: the flag is set only when somebody was online.
FlushIfAnyOnline ==
  IF dirty \/ \E n \in People : records[n].online THEN BeginSave(AllOffline)
  ELSE UNCHANGED <<dirty, due, writer, text>>

\* flush writes what is dirty, and mark_all_offline has set the flag.
FlushAll == BeginSave(AllOffline)

\* check_shutdown, when the server is gone: mark_all_offline, then flush.
Shutdown ==
  /\ Running
  /\ phase' = "flushing" /\ records' = AllOffline
  /\ FlushAll
  /\ left' = [n \in People |-> IF records[n].online THEN clock ELSE left[n]]
  /\ UNCHANGED <<enabled, file, disk, failed, clock, intact, ever, used>>

BeginCallbacks ==
  /\ phase = "flushing" /\ writer = "idle"
  /\ phase' = "callbacks"
  /\ UNCHANGED <<enabled, records, dirty, due, writer, text, file, disk, failed, clock,
                 history, used>>

Exit ==
  /\ phase = "callbacks"
  /\ phase' = "exited"
  /\ UNCHANGED <<enabled, records, dirty, due, writer, text, file, disk, failed, clock,
                 history, used>>

\* force_quit, a kill, a power cut: anywhere.
Kill ==
  /\ phase \in {"running", "flushing", "callbacks"}
  /\ phase' = "killed"
  /\ writer' = "idle" /\ text' = Empty
  /\ UNCHANGED <<enabled, records, dirty, due, file, disk, failed, clock, history, used>>

Restart ==
  /\ phase \in {"exited", "killed"} /\ used.restarts < MaxRestarts
  /\ phase' = "running" /\ enabled' \in BOOLEAN
  /\ records' = Loaded /\ dirty' = FALSE /\ due' = TRUE /\ failed' = FALSE
  /\ intact' = (intact /\ phase = "exited" /\ ~failed)
  /\ used' = [used EXCEPT !.restarts = @ + 1]
  /\ UNCHANGED <<writer, text, file, disk, clock, ever, left>>

Seen    == SeeOther \/ \E n \in People : SeeLogin(n) \/ SeeJoin(n) \/ SeeLeave(n)
Saving  == Open \/ Write \/ Fail
Process == Shutdown \/ BeginCallbacks \/ Exit \/ Kill \/ Restart

FileNext == Seen \/ Saving \/ Process \/ Elapse \/ Tick

FileSpec == FileInit /\ [][FileNext]_fileVars
-----------------------------------------------------------------------------
(* Properties. *)

\* Every variable has its type; what is saved holds no session state.
TypeOK ==
  /\ phase \in {"running", "flushing", "callbacks", "exited", "killed"}
  /\ enabled \in BOOLEAN /\ dirty \in BOOLEAN /\ due \in BOOLEAN
  /\ failed \in BOOLEAN /\ intact \in BOOLEAN
  /\ records \in [People -> Record] /\ writer \in {"idle", "open", "write"}
  /\ file \in {"none", "torn", "whole"}
  /\ \A saved \in {text, disk} : saved \in [People -> Record] /\ saved = Saved(saved)
  /\ clock \in 1..MaxClock
  /\ ever \in [People -> Times] /\ left \in [People -> Times]
  /\ used \in [failures : 0..MaxFailures, restarts : 0..MaxRestarts]

\* As long as no run ended abruptly or with a save that failed, first_join is the
\* time of the first join ever, over all the runs: neither the debounce nor a
\* save that fails on the way, nor a run with tracking disabled, loses it.
FirstEver == intact => \A n \in People : records[n].first = ever[n]

\* Likewise, last_seen of a player who is not there is when she was last seen to
\* go, be it by a leave line or because the server went.
LastSeen ==
  intact => \A n \in People :
    (ever[n] # Never /\ ~records[n].online) => records[n].last = left[n]

\* When the callbacks of shutdown begin, the file holds what is in memory, with
\* nobody online, unless that very save failed: also what an earlier save that
\* failed has left unsaved under a clear flag.
ExitSaves ==
  (phase \in {"callbacks", "exited"} /\ ~failed) => file = "whole" /\ disk = records
=============================================================================
