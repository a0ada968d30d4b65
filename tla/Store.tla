------------------------------- MODULE Store -------------------------------
(***************************************************************************)
(* The persistent key-value store of store.rs, with the shutdown of        *)
(* handler.rs that flushes it.                                             *)
(*                                                                         *)
(* The Lua thread (whichever task holds the Lua lock) changes the memory   *)
(* under the inner lock and then saves it, at most once per debounce       *)
(* window, outside of that lock: open and truncate store.json.tmp, write   *)
(* it, rename it over store.json. At shutdown the main thread saves the    *)
(* same way, without the Lua lock. The process may be killed anywhere.     *)
(*                                                                         *)
(* Each change makes a new version of the contents; a file is the version  *)
(* it holds. Files are inodes, so that two writers that share the *.tmp    *)
(* path are told apart.                                                    *)
(***************************************************************************)
EXTENDS Integers, Sequences

CONSTANTS
  Slots,      \* a namespace and a key in it
  Vals, Nil,  \* JSON values; Nil is a key that is absent
  InFlight,   \* callbacks still run Lua code when the server has exited
  \* bounds of the exploration
  MaxChanges, MaxFailures, MaxRestarts

ASSUME StoreAssumption ==
  /\ Nil \notin Vals /\ InFlight \in BOOLEAN
  /\ MaxChanges \in Nat /\ MaxFailures \in Nat /\ MaxRestarts \in Nat

Threads  == {"lua", "main"}
Contents == [Slots -> Vals \cup {Nil}]
Empty    == [s \in Slots |-> Nil]

\* At most one inode is store.json, one the *.tmp, and one is still open.
Inodes == 1..3
NoFile == 0
Torn   == 0    \* a file whose contents do not parse: empty, cut off or mixed

VARIABLES
  phase,  \* "running", "flushing", "callbacks" or "exited"
  hist,   \* versions of the contents since the start; the last is in memory
  dirty,  \* changed since the last save
  due,    \* the debounce window since the last save has passed
  wr,     \* wr[t]: where thread t is in saving, the version it saves, its file
  tmp, disk, data, \* the inodes at the two paths, and what each inode holds
  failed, \* the last save that ended failed
  flushed, \* history: the version in memory when the shutdown's flush began;
           \* 0 before, or if that flush, or the save before it, failed
  used    \* how much of each bound is used up

vars == <<phase, hist, dirty, due, wr, tmp, disk, data, failed, flushed, used>>

mem == hist[Len(hist)]
Idle == [st |-> "idle", ver |-> 0, fd |-> NoFile]

\* What load_store makes of store.json: empty when it is missing or corrupt.
Loaded == IF disk = NoFile \/ data[disk] = Torn THEN Empty ELSE hist[data[disk]]

Init ==
  /\ phase = "running" /\ hist = <<Empty>> /\ dirty = FALSE /\ due = TRUE
  /\ wr = [t \in Threads |-> Idle]
  /\ tmp = NoFile /\ disk = NoFile /\ data = [i \in Inodes |-> Torn]
  /\ failed = FALSE /\ flushed = 0
  /\ used = [changes |-> 0, failures |-> 0, restarts |-> 0]
-----------------------------------------------------------------------------
(* The Lua side: set, delete and flush, one at a time. *)

LuaRuns == phase \in {"running", "callbacks"} \/ (phase = "flushing" /\ InFlight)
LuaIdle == LuaRuns /\ wr["lua"].st = "idle"

\* set, or delete of a key that is there; then maybe_persist.
Change(s, v) ==
  /\ LuaIdle /\ used.changes < MaxChanges
  /\ v = Nil => mem[s] # Nil
  /\ hist' = Append(hist, [mem EXCEPT ![s] = v])
  /\ dirty' = TRUE
  /\ wr' = [wr EXCEPT !["lua"].st = "persist"]
  /\ used' = [used EXCEPT !.changes = @ + 1]
  /\ UNCHANGED <<phase, due, tmp, disk, data, failed, flushed>>

\* Under the inner lock: clear the flag, render the contents.
TakeSnapshot(t) ==
  /\ dirty' = FALSE /\ due' = FALSE
  /\ wr' = [wr EXCEPT ![t] = [st |-> "open", ver |-> Len(hist), fd |-> NoFile]]

\* Mutant: the flag is cleared although the window has not passed.
PersistForgetting ==
  /\ wr["lua"].st = "persist"
  /\ IF dirty /\ due THEN TakeSnapshot("lua")
     ELSE wr' = [wr EXCEPT !["lua"] = Idle] /\ dirty' = FALSE /\ UNCHANGED due
  /\ UNCHANGED <<phase, hist, tmp, disk, data, failed, flushed, used>>

\* The debounce check of maybe_persist.
Persist ==
  /\ wr["lua"].st = "persist"
  /\ IF dirty /\ due THEN TakeSnapshot("lua")
     ELSE wr' = [wr EXCEPT !["lua"] = Idle] /\ UNCHANGED <<dirty, due>>
  /\ UNCHANGED <<phase, hist, tmp, disk, data, failed, flushed, used>>

\* flush() from a plugin; a no-op when nothing has changed.
Flush ==
  /\ LuaIdle /\ dirty
  /\ TakeSnapshot("lua")
  /\ UNCHANGED <<phase, hist, tmp, disk, data, failed, flushed, used>>

Elapse ==
  /\ ~due
  /\ due' = TRUE
  /\ UNCHANGED <<phase, hist, dirty, wr, tmp, disk, data, failed, flushed, used>>
-----------------------------------------------------------------------------
(* write_json_atomic, by either thread. *)

\* Mutant: once there is a store.json it is rewritten in place.
OpenInPlace(t) ==
  /\ wr[t].st = "open"
  /\ \E i \in Inodes :
       /\ IF disk = NoFile THEN tmp' = i ELSE i = disk /\ UNCHANGED tmp
       /\ data' = [data EXCEPT ![i] = Torn]
       /\ wr' = [wr EXCEPT ![t].st = "write", ![t].fd = i]
  /\ UNCHANGED <<phase, hist, dirty, due, disk, failed, flushed, used>>

\* fs::write opens the *.tmp path, creating or truncating it.
Open(t) ==
  /\ wr[t].st = "open"
  /\ \E i \in Inodes :
       /\ IF tmp = NoFile THEN i # disk /\ \A u \in Threads : i # wr[u].fd
          ELSE i = tmp
       /\ tmp' = i
       /\ data' = [data EXCEPT ![i] = Torn]
       /\ wr' = [wr EXCEPT ![t].st = "write", ![t].fd = i]
  /\ UNCHANGED <<phase, hist, dirty, due, disk, failed, flushed, used>>

\* Over what another writer put into the same file, the rest of a longer text
\* may stay behind.
Write(t) ==
  /\ wr[t].st = "write"
  /\ \E v \in {wr[t].ver} \cup (IF data[wr[t].fd] = Torn THEN {} ELSE {Torn}) :
       data' = [data EXCEPT ![wr[t].fd] = v]
  /\ wr' = [wr EXCEPT ![t].st = "rename", ![t].fd = NoFile]
  /\ UNCHANGED <<phase, hist, dirty, due, tmp, disk, failed, flushed, used>>

\* The rename fails when another writer has already moved the *.tmp away.
Rename(t) ==
  /\ wr[t].st = "rename"
  /\ IF tmp = NoFile THEN failed' = TRUE /\ UNCHANGED <<tmp, disk>>
     ELSE failed' = FALSE /\ disk' = tmp /\ tmp' = NoFile
  /\ wr' = [wr EXCEPT ![t] = Idle]
  /\ UNCHANGED <<phase, hist, dirty, due, data, flushed, used>>

\* Any step of it may fail (disk full, read-only): logged, not retried.
Fail(t) ==
  /\ wr[t].st \in {"open", "write", "rename"} /\ used.failures < MaxFailures
  /\ wr' = [wr EXCEPT ![t] = Idle]
  /\ failed' = TRUE
  /\ used' = [used EXCEPT !.failures = @ + 1]
  /\ UNCHANGED <<phase, hist, dirty, due, tmp, disk, data, flushed>>
-----------------------------------------------------------------------------
(* The process: shutdown, exit, kill and restart. *)

\* Mutant: the flush heeds the debounce window, as the saves of changes do.
ShutdownDebounced ==
  /\ phase = "running" /\ (InFlight \/ wr["lua"].st = "idle")
  /\ phase' = "flushing" /\ flushed' = Len(hist)
  /\ IF dirty /\ due THEN TakeSnapshot("main") ELSE UNCHANGED <<dirty, due, wr>>
  /\ UNCHANGED <<hist, tmp, disk, data, failed, used>>

\* The server has exited: check_shutdown calls store.flush() on the main
\* thread, without the Lua lock.
BeginShutdown ==
  /\ phase = "running" /\ (InFlight \/ wr["lua"].st = "idle")
  /\ phase' = "flushing" /\ flushed' = Len(hist)
  /\ IF dirty THEN TakeSnapshot("main") ELSE UNCHANGED <<dirty, due, wr>>
  /\ UNCHANGED <<hist, tmp, disk, data, failed, used>>

\* Mutant: the callbacks are started while the flush still writes.
BeginCallbacksEarly ==
  /\ phase = "flushing"
  /\ phase' = "callbacks" /\ flushed' = IF failed THEN 0 ELSE flushed
  /\ UNCHANGED <<hist, dirty, due, wr, tmp, disk, data, failed, used>>

\* Then it runs the stop or crash callbacks, which may use the store.
BeginCallbacks ==
  /\ phase = "flushing" /\ wr["main"].st = "idle"
  /\ phase' = "callbacks" /\ flushed' = IF failed THEN 0 ELSE flushed
  /\ UNCHANGED <<hist, dirty, due, wr, tmp, disk, data, failed, used>>

\* main returns. The runtime lets a worker finish the poll it is in.
Exit ==
  /\ phase = "callbacks" /\ wr["lua"].st = "idle"
  /\ phase' = "exited"
  /\ UNCHANGED <<hist, dirty, due, wr, tmp, disk, data, failed, flushed, used>>

\* The next start, after an exit, a force quit or a kill at any point. Versions
\* are counted anew from what is loaded.
Restart ==
  /\ used.restarts < MaxRestarts
  /\ phase' = "running" /\ hist' = <<Loaded>> /\ dirty' = FALSE /\ due' = TRUE
  /\ wr' = [t \in Threads |-> Idle] /\ failed' = FALSE /\ flushed' = 0
  /\ data' = [i \in Inodes |-> IF i = disk /\ data[i] # Torn THEN 1 ELSE Torn]
  /\ used' = [used EXCEPT !.restarts = @ + 1]
  /\ UNCHANGED <<tmp, disk>>

Next ==
  \/ \E s \in Slots, v \in Vals \cup {Nil} : Change(s, v)
  \/ Persist \/ Flush \/ Elapse
  \/ \E t \in Threads : Open(t) \/ Write(t) \/ Rename(t) \/ Fail(t)
  \/ BeginShutdown \/ BeginCallbacks \/ Exit \/ Restart

Spec == Init /\ [][Next]_vars
-----------------------------------------------------------------------------
(* Properties. *)

\* Every variable has its type: each version holds JSON values only, and no
\* writer or file holds a version that was never in memory.
Writer(n) == [st : {"idle", "persist", "open", "write", "rename"}, ver : 0..n,
              fd : Inodes \cup {NoFile}]
ProcessType ==
  /\ phase \in {"running", "flushing", "callbacks", "exited"}
  /\ dirty \in BOOLEAN /\ due \in BOOLEAN /\ failed \in BOOLEAN /\ flushed \in Nat
  /\ used \in [changes : 0..MaxChanges, failures : 0..MaxFailures,
               restarts : 0..MaxRestarts]
HistType == hist \in Seq(Contents) /\ hist # <<>>
WritersType == wr \in [Threads -> Writer(Len(hist))]
FilesType ==
  /\ tmp \in Inodes \cup {NoFile} /\ disk \in Inodes \cup {NoFile}
  /\ data \in [Inodes -> 0..Len(hist)]
TypeOK == ProcessType /\ HistType /\ WritersType /\ FilesType

\* store.json is never cut off or mixed, wherever the process stops: the claim
\* of the comment on write_json_atomic.
WholeFile == disk # NoFile => data[disk] # Torn

\* When the dirty flag is clear and no save is under way, what a restart would
\* load is what is in memory; unless the last save failed, since a failed save
\* leaves the flag clear.
CleanMeansSaved ==
  (~dirty /\ ~failed /\ \A t \in Threads : wr[t].st = "idle") => Loaded = mem

\* The store implements DurableStore: its log begins with what a restart would
\* load and goes on with the later versions, up to the one in memory. Whatever
\* is killed or fails on the way, a restart finds one version, never an older
\* one than an earlier save left.
SavedVersion == IF disk = NoFile THEN 1 ELSE data[disk]
Log == <<Loaded>> \o SubSeq(hist, SavedVersion + 1, Len(hist))
Durable == INSTANCE DurableStore WITH log <- Log
Durability == Durable!Spec

\* Comment of maybe_persist: the tail of a burst is covered by the flush at
\* shutdown. From the stop callbacks on, and after an orderly exit, store.json
\* holds all that was set before the shutdown, however short the time since the
\* save before; unless the flush failed, or the last save before it did and
\* nothing was set since (it left the flag clear, and the flush did nothing).
FlushKept == phase \in {"callbacks", "exited"} => flushed <= SavedVersion
=============================================================================
