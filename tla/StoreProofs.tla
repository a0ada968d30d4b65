---------------------------- MODULE StoreProofs ----------------------------
(***************************************************************************)
(* Proofs about module Store, for every set of slots and values and every  *)
(* bound, under the assumption that no Lua code runs any more when the     *)
(* server has exited (~InFlight). With one that does, two threads save at  *)
(* the same time, over one *.tmp path, and WholeFile is false.             *)
(***************************************************************************)
EXTENDS Store, SequenceTheorems, TLAPS

Saving(t) == wr[t].st \in {"open", "write", "rename"}

\* Only one thread at a time is in the middle of a save.
Exclusive ==
  /\ wr["main"].st # "persist"
  /\ wr["main"].st # "idle" => phase = "flushing"
  /\ phase = "flushing" => wr["lua"].st = "idle"

\* What is being saved is what is in memory, and is where the writer thinks.
WriterInv ==
  \A t \in Threads :
    /\ Saving(t) => wr[t].ver = Len(hist) /\ ~dirty
    /\ wr[t].st = "write" => tmp # NoFile /\ wr[t].fd = tmp /\ data[tmp] = Torn
    /\ wr[t].st = "rename" => tmp # NoFile /\ data[tmp] = wr[t].ver

\* The two paths name different files, and a missing store.json means that
\* nothing was ever loaded.
DiskInv ==
  /\ tmp # NoFile => tmp # disk
  /\ disk = NoFile => hist[1] = Empty

\* Between saves, a clear flag means that the last save went through.
SavedInv ==
  (~dirty /\ ~failed /\ \A t \in Threads : ~Saving(t)) => Loaded = mem

IInv == TypeOK /\ Exclusive /\ WriterInv /\ DiskInv /\ WholeFile /\ SavedInv
-----------------------------------------------------------------------------
(* Types. *)

\* What a longer history does to the types that count versions.
LEMMA Grows ==
  ASSUME NEW n \in Nat, NEW w \in [Threads -> Writer(n)], NEW d \in [Inodes -> 0..n]
  PROVE  w \in [Threads -> Writer(n + 1)] /\ d \in [Inodes -> 0..(n + 1)]
<1>1. 0..n \subseteq 0..(n + 1)
  OBVIOUS
<1>2. Writer(n) \subseteq Writer(n + 1)
  BY <1>1 DEF Writer
<1> QED
  BY <1>1, <1>2

\* Versions are counted from 1.
LEMMA Counted == ASSUME HistType PROVE Len(hist) \in Nat \ {0} /\ mem \in Contents
<1>1. Len(hist) \in Nat \ {0}
  BY DEF HistType
<1> QED
  BY <1>1 DEF HistType, mem

\* A restart loads contents.
LEMMA LoadsContents == ASSUME HistType, FilesType PROVE Loaded \in Contents
<1>1. Len(hist) \in Nat \ {0} /\ \A i \in 1..Len(hist) : hist[i] \in Contents
  BY DEF HistType
<1>2. Empty \in Contents
  BY DEF Empty, Contents
<1>3. disk # NoFile => data[disk] \in 0..Len(hist)
  BY DEF FilesType
<1> QED
  BY <1>1, <1>2, <1>3 DEF Loaded, Torn

\* The initial state has its types.
LEMMA TypeInit == ASSUME Init PROVE TypeOK
<1>1. hist = <<Empty>> /\ Len(hist) = 1 /\ HistType
  BY DEF Init, Empty, Contents, HistType
<1>2. Idle \in Writer(1)
  BY DEF Idle, Writer, NoFile
<1>3. WritersType
  BY <1>1, <1>2 DEF Init, WritersType
<1>4. FilesType
  BY <1>1 DEF Init, FilesType, NoFile, Torn
<1>5. used \in [changes : 0..MaxChanges, failures : 0..MaxFailures,
               restarts : 0..MaxRestarts]
  BY StoreAssumption DEF Init
<1>6. ProcessType
  BY <1>5 DEF Init, ProcessType
<1> QED
  BY <1>1, <1>3, <1>4, <1>6 DEF TypeOK

\* A thread that saves leaves the history alone; a new record for it is enough.
LEMMA WriterStep ==
  ASSUME WritersType, NEW t \in Threads, NEW r \in Writer(Len(hist)),
         wr' = [wr EXCEPT ![t] = r], hist' = hist
  PROVE  WritersType'
  BY DEF WritersType

\* The record of a thread that takes its snapshot.
LEMMA SnapshotRecord ==
  ASSUME TypeOK, NEW t \in Threads, TakeSnapshot(t)
  PROVE  /\ dirty' = FALSE /\ due' = FALSE
         /\ \E r \in Writer(Len(hist)) : wr' = [wr EXCEPT ![t] = r]
<1>1. [st |-> "open", ver |-> Len(hist), fd |-> NoFile] \in Writer(Len(hist))
  BY Counted DEF TypeOK, Writer
<1> QED
  BY <1>1 DEF TakeSnapshot

\* A step of one thread towards its save keeps the types.
LEMMA SavingType ==
  ASSUME TypeOK, NEW t \in Threads, Open(t) \/ Write(t) \/ Rename(t) \/ Fail(t)
  PROVE  TypeOK'
<1> USE StoreAssumption
<1>1. Len(hist) \in Nat \ {0} /\ wr[t] \in Writer(Len(hist)) /\ hist' = hist
  BY Counted DEF TypeOK, WritersType, Open, Write, Rename, Fail
<1>2. wr[t].ver \in 0..Len(hist) /\ wr[t].fd \in Inodes \cup {NoFile}
  BY <1>1 DEF Writer
<1>3. \E r \in Writer(Len(hist)) : wr' = [wr EXCEPT ![t] = r]
  <2>1. CASE Open(t)
    <3>1. PICK i \in Inodes : wr' = [wr EXCEPT ![t].st = "write", ![t].fd = i]
      BY <2>1 DEF Open
    <3>2. [wr[t] EXCEPT !.st = "write", !.fd = i] \in Writer(Len(hist))
      BY <1>1 DEF Writer
    <3> QED BY <3>1, <3>2, <1>1
  <2>2. CASE Write(t)
    <3>1. [wr[t] EXCEPT !.st = "rename", !.fd = NoFile] \in Writer(Len(hist))
      BY <1>1 DEF Writer
    <3> QED BY <2>2, <3>1 DEF Write
  <2>3. CASE Rename(t) \/ Fail(t)
    <3>1. Idle \in Writer(Len(hist))
      BY <1>1 DEF Idle, Writer, NoFile
    <3> QED BY <2>3, <3>1 DEF Rename, Fail
  <2> QED BY <2>1, <2>2, <2>3
<1>4. WritersType'
  BY <1>1, <1>3, WriterStep DEF TypeOK
<1>5. FilesType'
  BY <1>1, <1>2 DEF Open, Write, Rename, Fail, FilesType, TypeOK, NoFile, Torn
<1>6. used' \in [changes : 0..MaxChanges, failures : 0..MaxFailures,
                restarts : 0..MaxRestarts]
  <2>1. used' = used \/ (used.failures < MaxFailures
                         /\ used' = [used EXCEPT !.failures = @ + 1])
    BY DEF Open, Write, Rename, Fail
  <2> QED BY <2>1 DEF TypeOK, ProcessType
<1>7. ProcessType'
  BY <1>6 DEF Open, Write, Rename, Fail, ProcessType, TypeOK
<1> QED
  BY <1>1, <1>4, <1>5, <1>7 DEF TypeOK, HistType

\* Every step keeps the types.
LEMMA TypeStep == ASSUME TypeOK, [Next]_vars PROVE TypeOK'
<1> USE StoreAssumption
<1>0. Len(hist) \in Nat \ {0} /\ mem \in Contents /\ Loaded \in Contents
  BY Counted, LoadsContents DEF TypeOK
<1>1. ASSUME NEW s \in Slots, NEW v \in Vals \cup {Nil}, Change(s, v) PROVE TypeOK'
  <2> DEFINE c == [mem EXCEPT ![s] = v]
  <2>1. c \in Contents
    BY <1>0 DEF Contents
  <2>2. hist' = Append(hist, c)
    BY <1>1 DEF Change
  <2>3. HistType' /\ Len(hist') = Len(hist) + 1
    BY <2>1, <2>2, <1>0 DEF TypeOK, HistType
  <2>4. [wr["lua"] EXCEPT !.st = "persist"] \in Writer(Len(hist))
    BY DEF TypeOK, WritersType, Threads, Writer
  <2>5. wr' \in [Threads -> Writer(Len(hist))] /\ data' \in [Inodes -> 0..Len(hist)]
    BY <1>1, <2>4 DEF Change, TypeOK, WritersType, FilesType
  <2>6. WritersType' /\ FilesType'
    BY <1>1, <2>3, <2>5, <1>0, Grows DEF Change, TypeOK, WritersType, FilesType
  <2>7. ProcessType'
    BY <1>1 DEF Change, TypeOK, ProcessType
  <2> QED
    BY <2>3, <2>6, <2>7 DEF TypeOK
<1>2. CASE Persist \/ Flush
  <2>1. UNCHANGED <<hist, tmp, disk, data, phase, failed, flushed, used>>
    BY <1>2 DEF Persist, Flush
  <2>2. Idle \in Writer(Len(hist)) /\ "lua" \in Threads
    BY <1>0 DEF Idle, Writer, NoFile, Threads
  <2>3. /\ \E r \in Writer(Len(hist)) : wr' = [wr EXCEPT !["lua"] = r]
        /\ dirty' \in BOOLEAN /\ due' \in BOOLEAN
    BY <1>2, <2>2, SnapshotRecord DEF Persist, Flush, TypeOK, ProcessType
  <2> QED
    BY <2>1, <2>2, <2>3, WriterStep DEF TypeOK, ProcessType, HistType, FilesType
<1>3. CASE Elapse \/ BeginCallbacks \/ Exit \/ UNCHANGED vars
  <2>1. UNCHANGED <<hist, tmp, disk, data, failed, wr, used>>
    BY <1>3 DEF Elapse, BeginCallbacks, Exit, vars
  <2>2. flushed' \in Nat
    BY <1>3 DEF Elapse, BeginCallbacks, Exit, vars, TypeOK, ProcessType
  <2>3. dirty' \in BOOLEAN /\ due' \in BOOLEAN
    BY <1>3 DEF Elapse, BeginCallbacks, Exit, vars, TypeOK, ProcessType
  <2>4. phase' \in {"running", "flushing", "callbacks", "exited"}
    BY <1>3 DEF Elapse, BeginCallbacks, Exit, vars, TypeOK, ProcessType
  <2>5. ProcessType'
    BY <2>1, <2>2, <2>3, <2>4 DEF TypeOK, ProcessType
  <2> QED
    BY <2>1, <2>5 DEF TypeOK, HistType, FilesType, WritersType
<1>4. CASE BeginShutdown
  <2>1. /\ UNCHANGED <<hist, tmp, disk, data, failed, used>>
        /\ phase' = "flushing" /\ flushed' \in Nat
    BY <1>4, <1>0 DEF BeginShutdown
  <2>2. /\ dirty' \in BOOLEAN /\ due' \in BOOLEAN
        /\ \/ wr' = wr
           \/ \E r \in Writer(Len(hist)) : wr' = [wr EXCEPT !["main"] = r]
    BY <1>4, SnapshotRecord DEF BeginShutdown, TypeOK, ProcessType, Threads
  <2>3. WritersType'
    BY <2>1, <2>2, WriterStep DEF TypeOK, WritersType, Threads
  <2> QED
    BY <2>1, <2>2, <2>3 DEF TypeOK, ProcessType, HistType, FilesType
<1>5. CASE Restart
  <2>1. HistType' /\ Len(hist') = 1
    BY <1>5, <1>0 DEF Restart, HistType
  <2>2. Idle \in Writer(1)
    BY DEF Idle, Writer, NoFile
  <2>3. WritersType' /\ FilesType'
    BY <1>5, <2>1, <2>2 DEF Restart, WritersType, FilesType, TypeOK, Torn
  <2>4. used' \in [changes : 0..MaxChanges, failures : 0..MaxFailures,
                  restarts : 0..MaxRestarts]
    BY <1>5 DEF Restart, TypeOK, ProcessType
  <2>5. ProcessType'
    BY <1>5, <2>4 DEF Restart, ProcessType
  <2> QED
    BY <2>1, <2>3, <2>5 DEF TypeOK
<1> QED
  BY <1>1, <1>2, <1>3, <1>4, <1>5, SavingType DEF Next

\* Every variable of the store has its type in every reachable state, whoever
\* saves at the same time.
THEOREM TypeCorrect == Spec => []TypeOK
<1>1. Init => TypeOK
  BY TypeInit
<1>2. TypeOK /\ [Next]_vars => TypeOK'
  BY TypeStep
<1> QED
  BY <1>1, <1>2, PTL DEF Spec
-----------------------------------------------------------------------------
(* Files. *)

\* The initial state: no files, nobody saving.
LEMMA FilesInit == ASSUME Init PROVE IInv
<1>1. TypeOK
  BY TypeInit
<1>2. \A t \in Threads : wr[t].st = "idle"
  BY DEF Init, Idle
<1>3. hist[1] = Empty /\ Loaded = mem
  BY DEF Init, Loaded, mem
<1> QED
  BY <1>1, <1>2, <1>3
  DEF Init, IInv, Exclusive, WriterInv, Saving, DiskInv, WholeFile, SavedInv, Threads

\* A change finds nobody saving, and leaves the files alone.
LEMMA ChangeFiles ==
  ASSUME ~InFlight, IInv, TypeOK', NEW s \in Slots, NEW v \in Vals \cup {Nil}, Change(s, v)
  PROVE  IInv'
<1>1. \A t \in Threads : ~Saving(t) /\ ~Saving(t)'
  BY DEF Change, LuaIdle, LuaRuns, IInv, Exclusive, Threads, Saving, TypeOK, WritersType
<1>2. Exclusive'
  BY DEF Change, LuaIdle, LuaRuns, IInv, Exclusive, Threads, TypeOK, WritersType
<1>3. WriterInv'
  BY <1>1 DEF WriterInv, Saving
<1>4. hist'[1] = hist[1]
  BY DEF Change, IInv, TypeOK, HistType
<1>5. UNCHANGED <<tmp, disk, data>> /\ dirty'
  BY DEF Change
<1> QED
  BY <1>2, <1>3, <1>4, <1>5 DEF IInv, DiskInv, WholeFile, SavedInv

\* A snapshot is what is in memory, and clears the flag.
LEMMA SnapshotFiles ==
  ASSUME IInv, TypeOK', NEW t \in Threads, TakeSnapshot(t), Exclusive',
         \A u \in Threads : ~Saving(u), UNCHANGED <<hist, tmp, disk, data, failed>>
  PROVE  IInv'
<1>1. wr'[t] = [st |-> "open", ver |-> Len(hist), fd |-> NoFile]
  BY DEF TakeSnapshot, IInv, TypeOK, WritersType
<1>2. \A u \in Threads \ {t} : wr'[u] = wr[u]
  BY DEF TakeSnapshot, IInv, TypeOK, WritersType
<1>3. WriterInv'
  BY <1>1, <1>2 DEF WriterInv, Saving, TakeSnapshot
<1>4. Saving(t)'
  BY <1>1 DEF Saving
<1> QED
  BY <1>3, <1>4 DEF IInv, DiskInv, WholeFile, SavedInv

\* When one thread saves, the other does nothing.
LEMMA OneSaves ==
  ASSUME IInv, NEW t \in Threads, Saving(t)
  PROVE  \A u \in Threads \ {t} : ~Saving(u)
  BY DEF IInv, Exclusive, Saving, Threads

\* The steps of a save touch the *.tmp file only, until it is complete.
LEMMA SavingFiles ==
  ASSUME IInv, TypeOK', NEW t \in Threads, Open(t) \/ Write(t) \/ Rename(t) \/ Fail(t)
  PROVE  IInv'
<1>1. /\ Saving(t) /\ \A u \in Threads \ {t} : ~Saving(u) /\ wr'[u] = wr[u]
      /\ hist' = hist /\ phase' = phase /\ dirty' = dirty /\ ~dirty /\ wr[t].ver = Len(hist)
  BY OneSaves DEF Open, Write, Rename, Fail, Saving, IInv, TypeOK, WritersType, WriterInv
<1>2. wr[t] \in Writer(Len(hist)) /\ Len(hist) \in Nat \ {0}
  BY Counted DEF IInv, TypeOK, WritersType
<1>3. Exclusive'
  <2>1. wr'[t].st \in {"write", "rename", "idle"}
    BY <1>2 DEF Open, Write, Rename, Fail, Idle, Writer, IInv, TypeOK, WritersType
  <2>2. t = "main" => phase = "flushing"
    BY <1>1 DEF IInv, Exclusive, Saving
  <2>3. t = "lua" => phase # "flushing"
    BY <1>1 DEF IInv, Exclusive, Saving
  <2> QED
    BY <1>1, <2>1, <2>2, <2>3 DEF IInv, Exclusive, Threads
<1>4. CASE Open(t)
  <2>1. PICK i \in Inodes :
          /\ tmp = NoFile => i # disk
          /\ tmp # NoFile => i = tmp
          /\ tmp' = i /\ data' = [data EXCEPT ![i] = Torn]
          /\ wr' = [wr EXCEPT ![t].st = "write", ![t].fd = i]
    BY <1>4 DEF Open
  <2>2. wr'[t].st = "write" /\ wr'[t].fd = i /\ wr'[t].ver = Len(hist)
    BY <1>1, <1>2, <2>1 DEF IInv, TypeOK, WritersType, Writer
  <2>3. i # disk /\ tmp' # NoFile /\ data'[i] = Torn
    BY <2>1 DEF IInv, DiskInv, TypeOK, FilesType, Inodes, NoFile
  <2>4. disk' = disk /\ (disk # NoFile => data'[disk] = data[disk])
    BY <1>4, <2>1, <2>3 DEF Open, IInv, TypeOK, FilesType
  <2>5. WriterInv'
    BY <1>1, <2>1, <2>2, <2>3 DEF WriterInv, Saving
  <2> QED
    BY <1>1, <1>3, <2>1, <2>2, <2>3, <2>4, <2>5
    DEF IInv, DiskInv, WholeFile, SavedInv, Saving
<1>5. CASE Write(t)
  <2>1. tmp # NoFile /\ wr[t].fd = tmp /\ data[tmp] = Torn /\ tmp # disk
    BY <1>5 DEF Write, IInv, WriterInv, DiskInv
  <2>2. data' = [data EXCEPT ![tmp] = Len(hist)] /\ UNCHANGED <<tmp, disk>>
    BY <1>1, <1>5, <2>1 DEF Write
  <2>3. wr'[t].st = "rename" /\ wr'[t].ver = Len(hist)
    BY <1>1, <1>2, <1>5 DEF Write, IInv, TypeOK, WritersType, Writer
  <2>4. data'[tmp] = Len(hist) /\ (disk # NoFile => data'[disk] = data[disk])
    BY <2>1, <2>2 DEF IInv, TypeOK, FilesType
  <2>5. WriterInv'
    BY <1>1, <2>1, <2>2, <2>3, <2>4 DEF WriterInv, Saving
  <2> QED
    BY <1>1, <1>3, <2>1, <2>2, <2>3, <2>4, <2>5
    DEF IInv, DiskInv, WholeFile, SavedInv, Saving
<1>6. CASE Rename(t)
  <2>1. tmp # NoFile /\ data[tmp] = Len(hist)
    BY <1>1, <1>6 DEF Rename, IInv, WriterInv
  <2>2. disk' = tmp /\ tmp' = NoFile /\ data' = data /\ failed' = FALSE
    BY <1>6, <2>1 DEF Rename
  <2>3. wr'[t].st = "idle"
    BY <1>6 DEF Rename, Idle, IInv, TypeOK, WritersType
  <2>4. Loaded' = mem'
    BY <1>1, <1>2, <2>1, <2>2 DEF Loaded, mem, Torn
  <2>5. WriterInv'
    BY <1>1, <2>3 DEF WriterInv, Saving, IInv, Exclusive, Threads
  <2> QED
    BY <1>1, <1>2, <1>3, <2>1, <2>2, <2>4, <2>5
    DEF IInv, DiskInv, WholeFile, SavedInv, Torn
<1>7. CASE Fail(t)
  <2>1. wr'[t].st = "idle" /\ failed' /\ UNCHANGED <<tmp, disk, data>>
    BY <1>7 DEF Fail, Idle, IInv, TypeOK, WritersType
  <2>2. WriterInv'
    BY <1>1, <2>1 DEF WriterInv, Saving
  <2> QED
    BY <1>1, <1>3, <2>1, <2>2 DEF IInv, DiskInv, WholeFile, SavedInv
<1> QED
  BY <1>4, <1>5, <1>6, <1>7

\* A restart finds the file that is there, and counts from it.
LEMMA RestartFiles == ASSUME IInv, TypeOK', Restart PROVE IInv'
<1>1. \A t \in Threads : wr'[t].st = "idle"
  BY DEF Restart, Idle
<1>2. hist' = <<Loaded>> /\ mem' = Loaded /\ hist'[1] = Loaded
  BY DEF Restart, mem
<1>3. disk' = disk /\ tmp' = tmp
  BY DEF Restart
<1>4. disk # NoFile => data'[disk] = 1
  BY DEF Restart, IInv, WholeFile, TypeOK, FilesType
<1>5. Loaded' = Loaded
  BY <1>2, <1>3, <1>4 DEF Loaded, Torn
<1>6. disk = NoFile => Loaded = Empty
  BY DEF Loaded
<1> QED
  BY <1>1, <1>2, <1>3, <1>4, <1>5, <1>6
  DEF IInv, Exclusive, WriterInv, Saving, DiskInv, WholeFile, SavedInv, Torn, Threads

\* Every step keeps the invariant.
LEMMA FilesStep == ASSUME ~InFlight, IInv, [Next]_vars PROVE IInv'
<1>0. TypeOK'
  BY TypeStep DEF IInv
<1>1. CASE \E s \in Slots, v \in Vals \cup {Nil} : Change(s, v)
  BY <1>0, <1>1, ChangeFiles
<1>2. CASE Persist \/ Flush
  <2>1. UNCHANGED <<hist, tmp, disk, data, failed, phase>> /\ phase # "flushing"
    BY <1>2 DEF Persist, Flush, LuaIdle, LuaRuns, IInv, Exclusive
  <2>2. \A t \in Threads : ~Saving(t)
    BY <1>2, <2>1 DEF Persist, Flush, LuaIdle, Saving, IInv, Exclusive, Threads
  <2>3. CASE TakeSnapshot("lua")
    <3>1. wr'["main"] = wr["main"]
      BY <2>3 DEF TakeSnapshot, IInv, TypeOK, WritersType, Threads
    <3>2. Exclusive'
      BY <2>1, <3>1 DEF IInv, Exclusive
    <3> QED
      BY <1>0, <2>1, <2>2, <2>3, <3>2, SnapshotFiles DEF Threads
  <2>4. CASE wr' = [wr EXCEPT !["lua"] = Idle] /\ UNCHANGED <<dirty, due>>
    <3>1. wr'["lua"].st = "idle" /\ wr'["main"] = wr["main"]
      BY <2>4 DEF Idle, IInv, TypeOK, WritersType, Threads
    <3>2. Exclusive' /\ \A t \in Threads : ~Saving(t)'
      BY <2>1, <2>2, <3>1 DEF IInv, Exclusive, Saving, Threads
    <3>3. WriterInv'
      BY <3>2 DEF WriterInv, Saving
    <3> QED
      BY <1>0, <2>1, <2>2, <2>4, <3>2, <3>3 DEF IInv, DiskInv, WholeFile, SavedInv, Loaded, mem
  <2> QED
    BY <1>2, <2>3, <2>4 DEF Persist, Flush
<1>3. CASE Elapse \/ BeginCallbacks \/ Exit \/ UNCHANGED vars
  <2>1. UNCHANGED <<hist, tmp, disk, data, failed, dirty, wr>>
    BY <1>3 DEF Elapse, BeginCallbacks, Exit, vars
  <2>2. \/ phase' = phase
        \/ phase' # "flushing" /\ wr["main"].st = "idle"
    BY <1>3 DEF Elapse, BeginCallbacks, Exit, vars, IInv, Exclusive
  <2>3. Exclusive'
    BY <2>1, <2>2 DEF IInv, Exclusive
  <2> QED
    BY <1>0, <2>1, <2>3 DEF IInv, WriterInv, Saving, DiskInv, WholeFile, SavedInv, Loaded, mem
<1>4. \A t \in Threads : Open(t) \/ Write(t) \/ Rename(t) \/ Fail(t) => IInv'
  BY <1>0, SavingFiles
<1>5. CASE BeginShutdown
  <2>1. UNCHANGED <<hist, tmp, disk, data, failed>> /\ phase' = "flushing"
    BY <1>5 DEF BeginShutdown
  <2>2. wr["lua"].st = "idle" /\ wr["main"].st = "idle"
    BY <1>5 DEF BeginShutdown, IInv, Exclusive
  <2>3. Exclusive'
    <3>1. wr'["lua"] = wr["lua"] /\ wr'["main"].st \in {"idle", "open"}
      BY <1>5, <2>2 DEF BeginShutdown, TakeSnapshot, IInv, TypeOK, WritersType, Threads
    <3> QED BY <2>1, <2>2, <3>1 DEF IInv, Exclusive
  <2>4. CASE TakeSnapshot("main")
    BY <1>0, <2>1, <2>2, <2>3, <2>4, SnapshotFiles DEF Threads, Saving
  <2>5. CASE UNCHANGED <<dirty, due, wr>>
    BY <1>0, <2>1, <2>3, <2>5 DEF IInv, WriterInv, Saving, DiskInv, WholeFile, SavedInv, Loaded, mem
  <2> QED
    BY <1>5, <2>4, <2>5 DEF BeginShutdown
<1>6. CASE Restart
  BY <1>0, <1>6, RestartFiles
<1> QED
  BY <1>1, <1>2, <1>3, <1>4, <1>5, <1>6 DEF Next

\* Everything above, in every reachable state.
LEMMA FilesInv == ASSUME ~InFlight PROVE Spec => []IInv
<1>1. Init => IInv
  BY FilesInit
<1>2. IInv /\ [Next]_vars => IInv'
  BY FilesStep
<1> QED
  BY <1>1, <1>2, PTL DEF Spec

\* store.json is whole at every moment at which the process could be killed.
THEOREM WholeFileHolds == ASSUME ~InFlight PROVE Spec => []WholeFile
<1>1. IInv => WholeFile
  BY DEF IInv
<1> QED
  BY <1>1, FilesInv, PTL

\* A clear dirty flag means that memory is saved, between saves and unless the
\* last one failed.
THEOREM CleanMeansSavedHolds == ASSUME ~InFlight PROVE Spec => []CleanMeansSaved
<1>1. IInv => CleanMeansSaved
  BY DEF IInv, SavedInv, CleanMeansSaved, Saving
<1> QED
  BY <1>1, FilesInv, PTL
-----------------------------------------------------------------------------
(* The store implements DurableStore. *)

\* The part of a sequence from m on grows with the sequence.
LEMMA AppendTail ==
  ASSUME NEW S, NEW h \in Seq(S), NEW c \in S, NEW m \in 1..Len(h)
  PROVE  SubSeq(Append(h, c), m, Len(h) + 1) = Append(SubSeq(h, m, Len(h)), c)
<1> DEFINE n == Len(h)
           g == Append(h, c)
<1>1. n \in Nat \ {0} /\ g \in Seq(S) /\ Len(g) = n + 1 /\ g[n + 1] = c
  BY AppendProperties
<1>2. <<c>> \in Seq(S)
  OBVIOUS
<1>3. g = h \o <<c>>
  BY AppendIsConcat
<1>4. SubSeq(g, m, n + 1) = SubSeq(g, m, (n + 1) - 1) \o <<g[n + 1]>>
  <2>1. m \in 1..Len(g) /\ n + 1 \in m..Len(g)
    BY <1>1
  <2> HIDE DEF g, n
  <2> QED BY <1>1, <2>1, SubSeqRecursiveSecond
<1>5. SubSeq(h \o <<c>>, m, n) = SubSeq(h, m, n)
  <2>1. n \in 1..Len(h)
    BY <1>1
  <2> QED BY <1>2, <2>1, SubSeqOfConcat1
<1>6. (n + 1) - 1 = n
  BY <1>1
<1>7. SubSeq(g, m, n + 1) = SubSeq(h, m, n) \o <<c>>
  BY <1>1, <1>3, <1>4, <1>5, <1>6
<1>8. SubSeq(h, m, n) \in Seq(S)
  <2>1. \A i \in m..n : h[i] \in S
    BY <1>1
  <2> QED BY <1>1, <2>1, SubSeqProperties
<1>9. Append(SubSeq(h, m, n), c) = SubSeq(h, m, n) \o <<c>>
  BY <1>8, AppendIsConcat
<1> QED
  BY <1>7, <1>9

\* A sequence of one element is that element and nothing else.
LEMMA Single ==
  ASSUME NEW S, NEW c \in S, NEW h
  PROVE  <<c>> \o SubSeq(h, 2, 1) = <<c>>
<1>1. SubSeq(h, 2, 1) = <<>>
  BY SubSeqEmpty
<1>2. <<c>> \in Seq(S)
  OBVIOUS
<1> QED
  BY <1>1, <1>2, ConcatEmptySeq

\* What is on disk is one of the counted versions, so the abstract log is the
\* part of the history from there on.
LogFacts ==
  /\ SavedVersion \in 1..Len(hist) /\ Loaded = hist[SavedVersion]
  /\ Log = SubSeq(hist, SavedVersion, Len(hist))
  /\ Len(Log) = Len(hist) - SavedVersion + 1 /\ Head(Log) = Loaded

\* The abstract log is the part of the history from the saved version on.
LEMMA LogIsHistory == IInv => LogFacts
<1> SUFFICES ASSUME IInv PROVE LogFacts
  OBVIOUS
<1>1. Len(hist) \in Nat \ {0} /\ hist \in Seq(Contents)
  BY Counted DEF IInv, TypeOK, HistType
<1>2. SavedVersion \in 1..Len(hist)
  BY <1>1 DEF SavedVersion, IInv, TypeOK, FilesType, WholeFile, Torn
<1>3. Loaded = hist[SavedVersion]
  BY DEF Loaded, SavedVersion, IInv, WholeFile, DiskInv
<1>4. Log = SubSeq(hist, SavedVersion, Len(hist))
  BY <1>1, <1>2, <1>3, SubSeqRecursiveFirst DEF Log
<1>5. \A i \in SavedVersion..Len(hist) : hist[i] \in Contents
  BY <1>1, <1>2
<1>6. Len(Log) = Len(hist) - SavedVersion + 1
  BY <1>1, <1>2, <1>4, <1>5, SubSeqProperties
<1>7. Head(Log) = Loaded
  BY <1>1, <1>2, <1>3, <1>4, HeadTailOfSubSeq
<1> QED
  BY <1>2, <1>3, <1>4, <1>6, <1>7 DEF LogFacts

\* The same in the next state.
LEMMA LogIsHistoryNext == IInv' => LogFacts'
  BY LogIsHistory, PTL

\* A change appends to the abstract log.
LEMMA ChangeRefines ==
  ASSUME IInv, IInv', NEW s \in Slots, NEW v \in Vals \cup {Nil}, Change(s, v)
  PROVE  Durable!Change
<1> DEFINE c == [mem EXCEPT ![s] = v]
           n == Len(hist)
           m == SavedVersion
<1>1. n \in Nat \ {0} /\ hist \in Seq(Contents) /\ c \in Contents
  BY Counted DEF IInv, TypeOK, HistType, Contents
<1>2. m \in 1..n /\ SavedVersion' = m /\ Log = SubSeq(hist, m, n)
  BY LogIsHistory DEF Change, SavedVersion, LogFacts
<1>3. hist' = Append(hist, c) /\ Len(hist') = n + 1
  BY <1>1 DEF Change
<1>4. Log' = SubSeq(Append(hist, c), m, n + 1)
  BY <1>2, <1>3, LogIsHistoryNext DEF LogFacts
<1>5. Log' = Append(Log, c)
  <2> HIDE DEF c, m
  <2> QED BY <1>1, <1>2, <1>4, AppendTail
<1> QED
  BY <1>1, <1>5 DEF Durable!Change

\* The rename makes the version in memory the first of the log.
LEMMA RenameRefines ==
  ASSUME IInv, IInv', NEW t \in Threads, Rename(t)
  PROVE  Durable!Save
<1> DEFINE n == Len(hist)
           m == SavedVersion
<1>1. n \in Nat \ {0} /\ hist \in Seq(Contents) /\ m \in 1..n
  BY Counted, LogIsHistory DEF IInv, TypeOK, HistType, LogFacts
<1>2. tmp # NoFile /\ data[tmp] = n /\ hist' = hist
  BY DEF Rename, IInv, WriterInv, Saving
<1>3. SavedVersion' = n
  BY <1>2 DEF Rename, SavedVersion
<1>4. Log' = SubSeq(hist, n, n)
  BY <1>2, <1>3, LogIsHistoryNext DEF LogFacts
<1>5. Len(Log) = n - m + 1 /\ Log = SubSeq(hist, m, n)
  BY LogIsHistory DEF LogFacts
<1>6. n - m + 1 \in 1..(n - m + 1) /\ n \in 1..n
  BY <1>1
<1>7. SubSeq(Log, n - m + 1, n - m + 1) = SubSeq(hist, n, n)
  <2>1. SubSeq(SubSeq(hist, m, n), n - m + 1, n - m + 1)
          = SubSeq(hist, m + (n - m + 1) - 1, m + (n - m + 1) - 1)
    BY <1>1, <1>6, SubSeqOfSubSeq
  <2>2. m + (n - m + 1) - 1 = n
    BY <1>1
  <2> QED BY <1>5, <2>1, <2>2
<1> QED
  BY <1>4, <1>5, <1>6, <1>7 DEF Durable!Save

\* A restart leaves its first contents.
LEMMA RestartRefines == ASSUME IInv, IInv', Restart PROVE Durable!Restart
<1>1. hist' = <<Loaded>> /\ Len(hist') = 1
  BY DEF Restart
<1>2. SavedVersion' = 1 /\ Loaded' = Loaded
  BY <1>1, LogIsHistoryNext DEF LogFacts
<1>3. Log' = <<Loaded>> \o SubSeq(hist', 2, 1)
  BY <1>1, <1>2 DEF Log
<1>4. Log' = <<Loaded>>
  BY <1>3, Single
<1>5. Head(Log) = Loaded
  BY LogIsHistory DEF LogFacts
<1> QED
  BY <1>4, <1>5 DEF Durable!Restart

\* Every other step is a stutter of the abstract store.
LEMMA OtherStutters ==
  ASSUME IInv, IInv', UNCHANGED <<hist, disk>>,
         disk # NoFile => data'[disk] = data[disk]
  PROVE  Log' = Log
  BY DEF Log, Loaded, SavedVersion

\* store.json is not written to.
LEMMA KeepsDisk ==
  ASSUME IInv, NEW t \in Threads, Open(t) \/ Write(t)
  PROVE  disk # NoFile => data'[disk] = data[disk]
<1>1. \E i \in Inodes : i # disk /\ \E d : data' = [data EXCEPT ![i] = d]
  <2>1. CASE Open(t)
    BY <2>1 DEF Open, IInv, DiskInv
  <2>2. CASE Write(t)
    BY <2>2 DEF Write, IInv, WriterInv, DiskInv, TypeOK, FilesType
  <2> QED BY <2>1, <2>2
<1> QED
  BY <1>1 DEF IInv, TypeOK, FilesType

\* The writing of store.json implements the abstract store: whatever fails or
\* is killed, a restart finds contents the store really had, and none older
\* than what was already saved.
THEOREM DurabilityHolds == ASSUME ~InFlight PROVE Spec => Durability
<1>1. Init => Durable!Init
  <2> SUFFICES ASSUME Init PROVE Durable!Init
    OBVIOUS
  <2>1. Loaded = Empty /\ SavedVersion = 1 /\ Len(hist) = 1
    BY DEF Init, Loaded, SavedVersion
  <2>2. Log = <<Empty>> \o SubSeq(hist, 2, 1)
    BY <2>1 DEF Log
  <2>3. Log = <<Empty>>
    BY <2>2, Single
  <2> QED BY <2>3 DEF Durable!Init
<1>2. IInv /\ IInv' /\ [Next]_vars => [Durable!Next]_Log
  <2> SUFFICES ASSUME IInv, IInv', [Next]_vars PROVE [Durable!Next]_Log
    OBVIOUS
  <2>1. CASE \E s \in Slots, v \in Vals \cup {Nil} : Change(s, v)
    BY <2>1, ChangeRefines DEF Durable!Next
  <2>2. CASE \E t \in Threads : Rename(t)
    BY <2>2, RenameRefines DEF Durable!Next
  <2>3. CASE Restart
    BY <2>3, RestartRefines DEF Durable!Next
  <2>4. ASSUME NEW t \in Threads, Open(t) \/ Write(t) PROVE Log' = Log
    <3>1. UNCHANGED <<hist, disk>>
      BY <2>4 DEF Open, Write
    <3>3. disk # NoFile => data'[disk] = data[disk]
      BY <2>4, KeepsDisk
    <3> QED BY <3>1, <3>3, OtherStutters
  <2>5. CASE \/ Persist \/ Flush \/ Elapse \/ (\E t \in Threads : Fail(t))
             \/ BeginShutdown \/ BeginCallbacks \/ Exit \/ UNCHANGED vars
    <3>1. UNCHANGED <<hist, disk, data>>
      BY <2>5 DEF Persist, Flush, Elapse, Fail, BeginShutdown, BeginCallbacks, Exit, vars
    <3> QED BY <3>1, OtherStutters
  <2> QED
    BY <2>1, <2>2, <2>3, <2>4, <2>5 DEF Next
<1> QED
  BY <1>1, <1>2, FilesInv, PTL DEF Spec, Durability, Durable!Spec
-----------------------------------------------------------------------------
(* The flush at shutdown. *)

\* Not only the contents but the version on disk is the last one, unless there
\* is something to save; the flush leaves nothing to save.
FlushInv ==
  /\ (~dirty /\ ~failed /\ \A t \in Threads : ~Saving(t)) => SavedVersion = Len(hist)
  /\ phase = "flushing" => ~dirty /\ flushed = Len(hist)
  /\ FlushKept

\* What does not touch memory, flag, files and flush keeps it.
LEMMA FlushFrame ==
  ASSUME FlushInv, UNCHANGED <<phase, hist, dirty, disk, failed, flushed>>,
         disk # NoFile => data'[disk] = data[disk],
         (\A t \in Threads : ~Saving(t)') => \A t \in Threads : ~Saving(t)
  PROVE  FlushInv'
<1>1. SavedVersion' = SavedVersion
  BY DEF SavedVersion
<1> QED
  BY <1>1 DEF FlushInv, FlushKept

\* Every step keeps it.
LEMMA FlushStep ==
  ASSUME ~InFlight, IInv, IInv', FlushInv, [Next]_vars
  PROVE  FlushInv'
<1>0. SavedVersion \in 1..Len(hist) /\ Len(hist) \in Nat \ {0}
  BY LogIsHistory, Counted DEF LogFacts, IInv, TypeOK
<1>1. ASSUME NEW s \in Slots, NEW v \in Vals \cup {Nil}, Change(s, v) PROVE FlushInv'
  <2>1. phase' = phase /\ phase # "flushing" /\ dirty' /\ flushed' = flushed
    BY <1>1 DEF Change, LuaIdle, LuaRuns
  <2>2. SavedVersion' = SavedVersion
    BY <1>1 DEF Change, SavedVersion
  <2> QED BY <2>1, <2>2 DEF FlushInv, FlushKept
<1>2. CASE Persist \/ Flush
  <2>1. /\ UNCHANGED <<hist, tmp, disk, data, failed, phase, flushed>> /\ phase # "flushing"
        /\ \A t \in Threads : ~Saving(t)
    BY <1>2 DEF Persist, Flush, LuaIdle, LuaRuns, IInv, Exclusive, Saving, Threads
  <2>2. SavedVersion' = SavedVersion
    BY <2>1 DEF SavedVersion
  <2>3. CASE TakeSnapshot("lua")
    <3>1. Saving("lua")' /\ "lua" \in Threads
      BY <2>3 DEF TakeSnapshot, Saving, IInv, TypeOK, WritersType, Threads
    <3> QED BY <2>1, <2>2, <3>1 DEF FlushInv, FlushKept
  <2>4. CASE dirty' = dirty
    BY <2>1, <2>2, <2>4 DEF FlushInv, FlushKept
  <2> QED BY <1>2, <2>3, <2>4 DEF Persist, Flush
<1>3. CASE Elapse \/ UNCHANGED vars
  <2>1. UNCHANGED <<phase, hist, dirty, disk, data, failed, flushed, wr>>
    BY <1>3 DEF Elapse, vars
  <2> QED BY <2>1, FlushFrame DEF Saving
<1>4. ASSUME NEW t \in Threads, Open(t) \/ Write(t) PROVE FlushInv'
  <2>1. UNCHANGED <<phase, hist, dirty, disk, failed, flushed>> /\ Saving(t)
    BY <1>4 DEF Open, Write, Saving
  <2>2. disk # NoFile => data'[disk] = data[disk]
    BY <1>4, KeepsDisk
  <2>3. wr'[t].st \in {"write", "rename"}
    BY <1>4 DEF Open, Write, IInv, TypeOK, WritersType, Writer
  <2> QED BY <2>1, <2>2, <2>3, FlushFrame DEF Saving
<1>5. ASSUME NEW t \in Threads, Rename(t) PROVE FlushInv'
  <2>1. tmp # NoFile /\ data[tmp] = Len(hist)
    BY <1>5 DEF Rename, IInv, WriterInv, Saving
  <2>2. SavedVersion' = Len(hist) /\ UNCHANGED <<phase, hist, dirty, flushed>>
    BY <1>5, <2>1 DEF Rename, SavedVersion
  <2>3. flushed \in Nat
    BY DEF IInv, TypeOK, ProcessType
  <2>4. phase \in {"callbacks", "exited"} => flushed <= Len(hist)
    BY <1>0, <2>3 DEF FlushInv, FlushKept
  <2> QED BY <2>2, <2>4 DEF FlushInv, FlushKept
<1>6. ASSUME NEW t \in Threads, Fail(t) PROVE FlushInv'
  <2>1. UNCHANGED <<phase, hist, dirty, disk, data, flushed>> /\ failed'
    BY <1>6 DEF Fail
  <2>2. SavedVersion' = SavedVersion
    BY <2>1 DEF SavedVersion
  <2> QED BY <2>1, <2>2 DEF FlushInv, FlushKept
<1>7. CASE BeginShutdown
  <2>1. /\ UNCHANGED <<hist, tmp, disk, data, failed>>
        /\ phase' = "flushing" /\ flushed' = Len(hist)
    BY <1>7 DEF BeginShutdown
  <2>2. SavedVersion' = SavedVersion
    BY <2>1 DEF SavedVersion
  <2>3. CASE dirty
    <3>1. TakeSnapshot("main")
      BY <1>7, <2>3 DEF BeginShutdown
    <3>2. Saving("main")' /\ ~dirty' /\ "main" \in Threads
      BY <3>1 DEF TakeSnapshot, Saving, IInv, TypeOK, WritersType, Threads
    <3> QED BY <2>1, <3>2 DEF FlushInv, FlushKept
  <2>4. CASE ~dirty
    <3>1. UNCHANGED <<dirty, wr>>
      BY <1>7, <2>4 DEF BeginShutdown
    <3> QED BY <2>1, <2>2, <2>4, <3>1 DEF FlushInv, FlushKept, Saving
  <2> QED BY <2>3, <2>4
<1>8. CASE BeginCallbacks
  <2>1. /\ UNCHANGED <<hist, disk, data, failed, dirty, wr>> /\ phase = "flushing"
        /\ phase' = "callbacks" /\ flushed' = IF failed THEN 0 ELSE flushed
    BY <1>8 DEF BeginCallbacks
  <2>2. SavedVersion' = SavedVersion
    BY <2>1 DEF SavedVersion
  <2>3. \A t \in Threads : ~Saving(t)
    BY <1>8 DEF BeginCallbacks, IInv, Exclusive, Saving, Threads
  <2>4. ~failed => flushed = SavedVersion
    BY <2>1, <2>3 DEF FlushInv
  <2>5. flushed' <= SavedVersion'
    BY <1>0, <2>1, <2>2, <2>4
  <2> QED BY <2>1, <2>2, <2>5 DEF FlushInv, FlushKept, Saving
<1>9. CASE Exit
  <2>1. /\ UNCHANGED <<hist, disk, data, failed, dirty, wr, flushed>>
        /\ phase = "callbacks" /\ phase' = "exited"
    BY <1>9 DEF Exit
  <2>2. SavedVersion' = SavedVersion
    BY <2>1 DEF SavedVersion
  <2> QED BY <2>1, <2>2 DEF FlushInv, FlushKept, Saving
<1>10. CASE Restart
  <2>1. phase' = "running" /\ Len(hist') = 1
    BY <1>10 DEF Restart
  <2>2. SavedVersion' = 1
    BY <1>10 DEF Restart, SavedVersion, IInv, WholeFile, TypeOK, FilesType
  <2> QED BY <2>1, <2>2 DEF FlushInv, FlushKept
<1> QED
  BY <1>1, <1>2, <1>3, <1>4, <1>5, <1>6, <1>7, <1>8, <1>9, <1>10 DEF Next

\* What was set before the shutdown is on disk from the stop callbacks on.
THEOREM FlushKeptHolds == ASSUME ~InFlight PROVE Spec => []FlushKept
<1>1. Init => FlushInv
  BY DEF Init, FlushInv, FlushKept, SavedVersion
<1>2. IInv /\ IInv' /\ FlushInv /\ [Next]_vars => FlushInv'
  BY FlushStep
<1>3. FlushInv => FlushKept
  BY DEF FlushInv
<1> QED
  BY <1>1, <1>2, <1>3, FilesInv, PTL DEF Spec
=============================================================================
