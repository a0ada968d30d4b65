--------------------------- MODULE DispatchProofs ---------------------------
(* Proofs about module Dispatch, for every value of its constants. *)
EXTENDS Dispatch, FiniteSetTheorems, TLAPS

\* Task numbers suffice: a task is spawned for a line that was printed or for
\* a tick that was counted, and each is dispatched at most once.
Dispatching ==
  IF pc = "spawn" \/ (pc = "scan" /\ at \notin {"stop", "crash"}) THEN 1 ELSE 0
Budget == spawned + Len(stdout) + Dispatching <= used.lines + used.ticks

\* The list the main thread works on is a list.
PlaceInv == pc \in {"scan", "clear"} => at \in Lists

\* What a task is doing agrees with what it holds.
TaskInv ==
  /\ \A t \in TaskIds : tasks[t].st \in {"lua", "registering"} <=> lua = t
  /\ \A t \in TaskIds : tasks[t].st = "registering" => tasks[t].into \in Reg
  /\ \A t \in TaskIds : tasks[t].st = "sending" => tasks[t].cmds # <<>>

\* A task that has not been spawned does nothing.
IdleInv ==
  /\ \A t \in TaskIds : t > spawned => tasks[t].st = "none"
  /\ pc \notin {"callbacks", "exited"} => tasks[0].st = "none"

TypeInv == TypeOK /\ Budget /\ PlaceInv /\ TaskInv /\ IdleInv

\* The wrapper starts idle, with empty lists and an empty queue.
LEMMA TypeInit == Init => TypeInv
<1> SUFFICES ASSUME Init PROVE TypeInv
  OBVIOUS
<1> USE DEF Init
<1>1. TypeOK
  <2>1. tasks \in [TaskIds -> TaskType]
    BY DEF IdleTask, TaskType, NoReg
  <2>2. EnvType /\ MainType /\ LocksType /\ SenderType
    BY BoundsAssumption
    DEF EnvType, MainType, LocksType, SenderType, Lists, NoList
  <2>3. RegsType /\ UsedType
    BY BoundsAssumption DEF RegsType, UsedType
  <2> QED
    BY <2>1, <2>2, <2>3, BoundsAssumption DEF TypeOK, TasksType, TaskIds
<1>2. Budget /\ PlaceInv
  BY DEF Budget, Dispatching, PlaceInv
<1>3. TaskInv /\ IdleInv
  BY BoundsAssumption DEF TaskInv, IdleInv, IdleTask, Free, TaskIds
<1> QED BY <1>1, <1>2, <1>3 DEF TypeInv

\* What an action leaves alone keeps its part of the invariant.
LEMMA Frame ==
  ASSUME TypeInv
  PROVE /\ UNCHANGED envVars => EnvType'
        /\ UNCHANGED mainVars => MainType' /\ PlaceInv'
        /\ UNCHANGED <<held, lua>> => LocksType'
        /\ UNCHANGED regVars => RegsType'
        /\ UNCHANGED taskVars => TasksType'
        /\ UNCHANGED <<taskVars, lua>> => TaskInv'
        /\ UNCHANGED <<taskVars, pc>> => IdleInv'
        /\ UNCHANGED taskVars /\ pc' \notin {"callbacks", "exited"}
             /\ pc \notin {"callbacks", "exited"} => IdleInv'
        /\ UNCHANGED senderVars => SenderType'
        /\ UNCHANGED used => UsedType'
<1> USE DEF TypeInv, TypeOK
<1>1. UNCHANGED envVars => EnvType'
  BY DEF EnvType, envVars
<1>2. UNCHANGED mainVars => MainType' /\ PlaceInv'
  BY DEF MainType, PlaceInv, mainVars
<1>3. UNCHANGED <<held, lua>> => LocksType'
  BY DEF LocksType
<1>4. UNCHANGED regVars => RegsType'
  BY DEF RegsType, regVars
<1>5. UNCHANGED taskVars => TasksType'
  BY DEF TasksType, taskVars
<1>6. UNCHANGED <<taskVars, lua>> => TaskInv'
  BY DEF TaskInv, taskVars
<1>7. UNCHANGED senderVars => SenderType'
  BY DEF SenderType, senderVars
<1>8. UNCHANGED used => UsedType'
  BY DEF UsedType
<1>9. UNCHANGED taskVars /\ (pc' = pc \/ pc \notin {"callbacks", "exited"}) => IdleInv'
  BY DEF IdleInv, taskVars
<1> QED BY <1>1, <1>2, <1>3, <1>4, <1>5, <1>6, <1>7, <1>8, <1>9

\* The numbers Budget adds up are natural numbers.
LEMMA Numbers ==
  ASSUME TypeInv
  PROVE /\ spawned \in Nat /\ Len(stdout) \in Nat /\ Dispatching \in {0, 1}
        /\ used.lines \in Nat /\ used.ticks \in Nat
BY BoundsAssumption
DEF TypeInv, TypeOK, EnvType, TasksType, UsedType, TaskIds, Dispatching

\* What the server and the operator do keeps the types.
LEMMA EnvironmentType == TypeInv /\ Environment => TypeInv'
<1> SUFFICES ASSUME TypeInv, Environment PROVE TypeInv'
  OBVIOUS
<1>1. UNCHANGED <<mainVars, held, lua, regVars, taskVars, senderVars>>
  BY DEF Environment, ServerPrints, ServerExits, TypeReload
<1>2. Dispatching' = Dispatching /\ spawned' = spawned
  BY <1>1 DEF Dispatching, mainVars, taskVars
<1>3. EnvType' /\ UsedType' /\ Budget'
  <2> USE BoundsAssumption
  <2>1. ASSUME NEW l \in Lines, ServerPrints(l) PROVE EnvType' /\ UsedType' /\ Budget'
    <3>1. EnvType' /\ Len(stdout') = Len(stdout) + 1
      BY <2>1 DEF ServerPrints, EnvType, TypeInv, TypeOK
    <3>2. used' = [used EXCEPT !.lines = @ + 1] /\ used.lines < MaxLines
      BY <2>1 DEF ServerPrints
    <3>3. UsedType' /\ used'.lines = used.lines + 1 /\ used'.ticks = used.ticks
      BY <3>2 DEF UsedType, TypeInv, TypeOK
    <3>4. Budget'
      BY <1>2, <3>1, <3>3, Numbers DEF Budget, TypeInv
    <3> QED BY <3>1, <3>3, <3>4
  <2>2. ASSUME NEW how \in Exits, ServerExits(how) PROVE EnvType' /\ UsedType' /\ Budget'
    BY <1>2, <2>2, Frame DEF ServerExits, EnvType, Budget, TypeInv, TypeOK
  <2>3. ASSUME TypeReload PROVE EnvType' /\ UsedType' /\ Budget'
    <3>1. EnvType' /\ stdout' = stdout
      BY <2>3 DEF TypeReload, EnvType, TypeInv, TypeOK
    <3>2. UsedType' /\ used'.lines = used.lines /\ used'.ticks = used.ticks
      BY <2>3 DEF TypeReload, UsedType, TypeInv, TypeOK
    <3> QED
      BY <1>2, <3>1, <3>2 DEF Budget, TypeInv
  <2> QED BY <2>1, <2>2, <2>3 DEF Environment
<1> QED BY <1>1, <1>3, Frame DEF TypeInv, TypeOK, mainVars

\* Going to the next line, tick or end of output.
LEMMA SelectType ==
  ASSUME TypeInv, ReadLine \/ CronWakes \/ LoopEnds \/ SeeExit
  PROVE  TypeInv'
<1>1. UNCHANGED <<held, lua, regVars, taskVars, senderVars>>
  BY DEF ReadLine, CronWakes, LoopEnds, SeeExit
<1>2. MainType' /\ PlaceInv' 
      /\ pc \in {"select", "wait"} /\ pc' \in {"scan", "wait"}
  BY DEF ReadLine, CronWakes, LoopEnds, SeeExit, MainType, EnvType, PlaceInv, TypeInv, TypeOK, Lists
<1>3. EnvType' /\ UsedType' /\ Budget'
  <2> USE DEF TypeInv, TypeOK
  <2>1. Dispatching = 0 /\ spawned' = spawned
    BY <1>1 DEF ReadLine, CronWakes, LoopEnds, SeeExit, Dispatching, taskVars
  <2>2. CASE ReadLine
    <3>1. EnvType' /\ Len(stdout') = Len(stdout) - 1
      BY <2>2 DEF ReadLine, EnvType
    <3>2. Dispatching' \in {0, 1} /\ used' = used
      BY <2>2 DEF ReadLine, Dispatching
    <3> QED BY <2>1, <3>1, <3>2, Numbers, Frame DEF Budget
  <2>3. CASE CronWakes
    <3>1. UNCHANGED envVars /\ used' = [used EXCEPT !.ticks = @ + 1]
          /\ used.ticks < MaxTicks
      BY <2>3 DEF CronWakes
    <3>2. UsedType' /\ used'.lines = used.lines /\ used'.ticks = used.ticks + 1
      BY <3>1, BoundsAssumption DEF UsedType
    <3>3. Dispatching' \in {0, 1} /\ stdout' = stdout
      BY <3>1 DEF Dispatching, envVars
    <3> QED BY <2>1, <3>1, <3>2, <3>3, Numbers, Frame DEF Budget
  <2>4. CASE LoopEnds \/ SeeExit
    <3>1. UNCHANGED <<envVars, used>> /\ Dispatching' = 0
      BY <2>4 DEF LoopEnds, SeeExit, Dispatching
    <3> QED BY <2>1, <3>1, Frame DEF Budget, envVars
  <2> QED BY <2>2, <2>3, <2>4
<1> QED BY <1>1, <1>2, <1>3, Frame DEF TypeInv, TypeOK

\* Locking a list and snapshotting it.
LEMMA ScanType ==
  ASSUME TypeInv, LockList \/ Snapshot
  PROVE  TypeInv'
<1>1. UNCHANGED <<envVars, lua, taskVars, senderVars, used>>
  BY DEF LockList, Snapshot
<1>2. LocksType'
  BY DEF LockList, Snapshot, LocksType, PlaceInv, TypeInv, TypeOK
<1>3. CASE LockList
  <2>1. UNCHANGED <<mainVars, regVars>>
    BY <1>3 DEF LockList
  <2>2. Budget'
    BY <1>1, <2>1 DEF Budget, Dispatching, envVars, mainVars, taskVars, TypeInv
  <2> QED BY <1>1, <1>2, <2>1, <2>2, Frame DEF TypeInv, TypeOK, mainVars
<1>4. CASE Snapshot
  <2>1. at \in Lists /\ pc = "scan"
    BY <1>4 DEF Snapshot, TypeInv, PlaceInv
  <2>2. \A sel \in Selections : sel \subseteq Callback
    BY <2>1 DEF Selections, TypeInv, TypeOK, RegsType
  <2>3. got' \subseteq Callback
    BY <1>4, <2>2 DEF Snapshot, TypeInv, TypeOK, MainType
  <2>4. RegsType'
    BY <1>4 DEF Snapshot, FiredNow, RegsType, TypeInv, TypeOK
  <2>5. why' \subseteq Patterns
    BY <1>4 DEF Snapshot, Hits, MainType, TypeInv, TypeOK
  <2>6. at' \in Lists \cup {NoList} /\ (at' = NoList \/ at' \in Lists)
        /\ pc' \in {"scan", "spawn", "shutdown"} /\ PlaceInv'
    BY <1>4, <2>1 DEF Snapshot, NextList, Lists, NoList, PlaceInv
  <2>7. MainType'
    BY <1>4, <2>3, <2>5, <2>6 DEF Snapshot, MainType, TypeInv, TypeOK
  <2>8. Dispatching' <= Dispatching
    BY <1>4, <2>1 DEF Snapshot, Dispatching, NextList, Lists, NoList
  <2>9. Dispatching' \in {0, 1}
    BY DEF Dispatching
  <2>10. Budget'
    BY <1>1, <2>8, <2>9, Numbers DEF Budget, envVars, taskVars, TypeInv
  <2> QED BY <1>1, <1>2, <2>1, <2>4, <2>6, <2>7, <2>10, Frame DEF TypeInv, TypeOK
<1> QED BY <1>3, <1>4

\* Leaving a dispatch: to a task of its own, or to the shutdown callbacks.
LEMMA HandOverType ==
  ASSUME TypeInv, SpawnDispatch \/ RunShutdownCallbacks \/ Exit
  PROVE  TypeInv'
<1>1. UNCHANGED <<envVars, held, lua, regVars, senderVars, used>>
  BY DEF SpawnDispatch, RunShutdownCallbacks, Exit
<1>2. MainType' /\ PlaceInv'
  BY DEF SpawnDispatch, RunShutdownCallbacks, Exit, MainType, PlaceInv, TypeInv, TypeOK
<1>3. NewTask(got, gen, why) \in TaskType /\ NewTask(got, gen, {}) \in TaskType
  BY DEF NewTask, TaskType, MainType, TypeInv, TypeOK
<1>4. CASE SpawnDispatch /\ got # {}
  <2>1. Dispatching = 1 /\ Dispatching' = 0 /\ spawned' = spawned + 1
    BY <1>4 DEF SpawnDispatch, Dispatching
  <2>2. spawned' \in TaskIds
    BY <2>1, Numbers, BoundsAssumption DEF Budget, TypeInv, TypeOK, UsedType, TaskIds
  <2>3. Budget'
    BY <1>1, <2>1, Numbers DEF Budget, TypeInv, envVars
  <2>4. tasks' = [tasks EXCEPT ![spawned + 1] = NewTask(got, gen, why)]
    BY <1>4 DEF SpawnDispatch
  <2>5. TasksType'
    BY <1>3, <2>2, <2>4, <2>1 DEF TasksType, TypeInv, TypeOK
  <2>6. tasks[spawned + 1].st = "none" /\ spawned + 1 # 0 /\ pc' = "select"
    BY <1>4, <2>1, <2>2, Numbers DEF IdleInv, TypeInv, SpawnDispatch
  <2>7. tasks'[spawned + 1].st \in {"done", "suspended"}
    BY <2>1, <2>2, <2>4 DEF NewTask, TasksType, TypeInv, TypeOK
  <2>8. \A t \in TaskIds : t # spawned + 1 => tasks'[t] = tasks[t]
    BY <2>4 DEF TasksType, TypeInv, TypeOK
  <2>9. TaskInv'
    BY <1>1, <2>1, <2>2, <2>6, <2>7, <2>8 DEF TaskInv, TypeInv
  <2>10. IdleInv'
    BY <1>4, <2>1, <2>6, <2>8, Numbers, BoundsAssumption
    DEF IdleInv, TypeInv, TaskIds, SpawnDispatch
  <2> QED BY <1>1, <1>2, <2>3, <2>5, <2>9, <2>10, Frame DEF TypeInv, TypeOK
<1>5. CASE SpawnDispatch /\ got = {}
  <2>1. UNCHANGED taskVars /\ Dispatching = 1 /\ Dispatching' = 0
        /\ pc = "spawn" /\ pc' = "select"
    BY <1>5 DEF SpawnDispatch, Dispatching
  <2>2. Budget'
    BY <1>1, <2>1, Numbers DEF Budget, TypeInv, envVars, taskVars
  <2> QED BY <1>1, <1>2, <2>1, <2>2, Frame DEF TypeInv, TypeOK
<1>6. CASE RunShutdownCallbacks
  <2>1. spawned' = spawned /\ Dispatching' = Dispatching /\ pc' = "callbacks"
        /\ pc = "shutdown" /\ tasks' = [tasks EXCEPT ![0] = NewTask(got, gen, {})]
    BY <1>6 DEF RunShutdownCallbacks, Dispatching
  <2>2. Budget'
    BY <1>1, <2>1 DEF Budget, TypeInv, envVars
  <2>3. 0 \in TaskIds /\ tasks[0].st = "none"
    BY <2>1, BoundsAssumption DEF TaskIds, IdleInv, TypeInv
  <2>4. TasksType'
    BY <1>3, <2>1 DEF TasksType, TypeInv, TypeOK
  <2>5. tasks'[0].st \in {"done", "suspended"}
    BY <2>1, <2>3 DEF NewTask, TasksType, TypeInv, TypeOK
  <2>6. \A t \in TaskIds : t # 0 => tasks'[t] = tasks[t]
    BY <2>1 DEF TasksType, TypeInv, TypeOK
  <2>7. TaskInv'
    BY <1>1, <2>3, <2>5, <2>6 DEF TaskInv, TypeInv
  <2>8. IdleInv'
    BY <2>1, <2>6, Numbers DEF IdleInv, TypeInv
  <2> QED BY <1>1, <1>2, <2>2, <2>4, <2>7, <2>8, Frame DEF TypeInv, TypeOK
<1>7. CASE Exit
  <2>1. UNCHANGED taskVars /\ Dispatching' = Dispatching /\ pc = "callbacks"
    BY <1>7 DEF Exit, Dispatching
  <2>2. Budget' /\ IdleInv'
    BY <1>1, <1>7, <2>1 DEF Exit, Budget, IdleInv, TypeInv, envVars, taskVars
  <2> QED BY <1>1, <1>2, <2>1, <2>2, Frame DEF TypeInv, TypeOK
<1> QED BY <1>4, <1>5, <1>6, <1>7

\* Reloading and loading.
LEMMA ReloadType ==
  ASSUME TypeInv, StartReload \/ ClearList \/ LoadDone \/ LoadFails
                  \/ \E p \in Plugins : \E n \in 0..Len(Script[p]) : LoadPlugin(p, n)
  PROVE  TypeInv'
<1>1. UNCHANGED <<held, lua, taskVars, senderVars, used>>
  BY DEF StartReload, ClearList, LoadDone, LoadFails, LoadPlugin
<1>2. pc \in {"select", "clear", "load"} /\ pc' \in {"select", "clear", "load"}
  BY DEF StartReload, ClearList, LoadDone, LoadFails, LoadPlugin
<1>3. stdout' = stdout /\ EnvType'
  <2>1. CASE StartReload
    BY <2>1, BoundsAssumption DEF StartReload, EnvType, TypeInv, TypeOK
  <2>2. CASE LoadDone
    BY <2>2 DEF LoadDone, EnvType, TypeInv, TypeOK
  <2>3. CASE UNCHANGED envVars
    BY <2>3, Frame DEF envVars
  <2> QED BY <2>1, <2>2, <2>3 DEF ClearList, LoadFails, LoadPlugin
<1>4. Budget'
  BY <1>1, <1>2, <1>3 DEF Budget, Dispatching, TypeInv, taskVars
<1>5. MainType' /\ PlaceInv' /\ RegsType'
  <2> USE DEF TypeInv, TypeOK
  <2>1. CASE StartReload
    BY <2>1, Frame DEF StartReload, MainType, PlaceInv, Lists
  <2>2. CASE ClearList
    <3>1. RegsType'
      BY <2>2 DEF ClearList, Cleared, RegsType
    <3>2. MainType' /\ PlaceInv'
      BY <2>2 DEF ClearList, MainType, PlaceInv
    <3> QED BY <3>1, <3>2
  <2>3. CASE LoadDone \/ LoadFails
    BY <2>3, Frame DEF LoadDone, LoadFails, MainType, PlaceInv
  <2>4. ASSUME NEW p \in Plugins, NEW n \in 0..Len(Script[p]), LoadPlugin(p, n)
        PROVE  MainType' /\ PlaceInv' /\ RegsType'
    <3>1. MainType' /\ PlaceInv'
      BY <2>4 DEF LoadPlugin, MainType, PlaceInv
    <3>2. Len(Script[p]) \in Nat /\ DOMAIN Script[p] \subseteq Nat \ {0}
          /\ \A i \in DOMAIN Script[p] : Script[p][i] \in Reg
      BY ScriptAssumption DEF IsReg
    <3>3. \A i \in DOMAIN Script[p] :
            NewCallback(Script[p][i], nextId + i, gen, FALSE) \in Callback
      BY <3>2 DEF NewCallback, Callback, Reg, RegsType, MainType
    <3>4. regs' \in [Lists -> SUBSET Callback]
      <4> DEFINE new(l) == {NewCallback(Script[p][i], nextId + i, gen, FALSE) :
                   i \in {j \in DOMAIN Script[p] : j <= n /\ Script[p][j].list = l}}
      <4>1. \A l \in Lists : regs[l] \cup new(l) \subseteq Callback
        BY <3>3 DEF RegsType
      <4>2. regs' = [l \in Lists |-> regs[l] \cup new(l)]
        BY <2>4 DEF LoadPlugin
      <4> HIDE DEF new
      <4> QED BY <4>1, <4>2
    <3>5. nextId' \in Nat /\ fired' \subseteq Once /\ plugins' \subseteq Plugins
      BY <2>4, <3>2 DEF LoadPlugin, RegsType
    <3> QED BY <3>1, <3>4, <3>5 DEF RegsType
  <2> QED BY <2>1, <2>2, <2>3, <2>4
<1> QED BY <1>1, <1>2, <1>3, <1>4, <1>5, Frame DEF TypeInv, TypeOK

\* Taking a command from the queue and writing it.
LEMMA SenderTypeStep ==
  ASSUME TypeInv, Sender
  PROVE  TypeInv'
<1>1. UNCHANGED <<envVars, mainVars, held, lua, regVars, taskVars, used>>
  BY DEF Sender, Take, Write, WriteFails
<1>2. Budget'
  BY <1>1 DEF Budget, Dispatching, TypeInv, envVars, mainVars, taskVars
<1>3. SenderType'
  <2> USE DEF SenderType, TypeInv, TypeOK
  <2>1. CASE Take
    <3>1. Head(queue) \in CommandType /\ Tail(queue) \in Seq(CommandType)
          /\ Len(Tail(queue)) <= Len(queue)
      BY <2>1 DEF Take
    <3> QED BY <2>1, <3>1, BoundsAssumption DEF Take
  <2>2. CASE Write
    BY <2>2 DEF Write
  <2>3. CASE WriteFails
    BY <2>3, BoundsAssumption DEF WriteFails, CloseQueue
  <2> QED BY <2>1, <2>2, <2>3 DEF Sender
<1> QED BY <1>1, <1>2, <1>3, Frame DEF TypeInv, TypeOK, mainVars

\* A function on 1..n with values in S is a sequence over S.
LEMMA ListFacts ==
  ASSUME NEW S, NEW n \in Nat, NEW f, f = [k \in 1..n |-> f[k]],
         \A k \in 1..n : f[k] \in S
  PROVE  f \in Seq(S)
<1>1. f \in [1..n -> S]
  OBVIOUS
<1> QED BY <1>1

\* Head and tail of a sequence that is not empty.
LEMMA TailFacts ==
  ASSUME NEW S, NEW s \in Seq(S), s # <<>>
  PROVE  /\ Head(s) \in S /\ Tail(s) \in Seq(S)
         /\ Len(s) # 1 => Tail(s) # <<>>
<1>1. Len(s) \in Nat /\ Len(s) # 0
  OBVIOUS
<1>2. Head(s) \in S /\ Tail(s) \in Seq(S) /\ Len(Tail(s)) = Len(s) - 1
  BY <1>1
<1> QED BY <1>1, <1>2

\* A concatenation is a sequence over the same set.
LEMMA ConcatFacts ==
  ASSUME NEW S, NEW s \in Seq(S), NEW u \in Seq(S)
  PROVE  s \o u \in Seq(S)
OBVIOUS

\* An appended element lengthens a sequence by one.
LEMMA AppendFacts ==
  ASSUME NEW S, NEW s \in Seq(S), NEW x \in S
  PROVE  Append(s, x) \in Seq(S) /\ Len(Append(s, x)) = Len(s) + 1 /\ Len(s) \in Nat
OBVIOUS

\* A task's step.
LEMMA TaskTypeStep ==
  ASSUME TypeInv, NEW t \in TaskIds, Task(t)
  PROVE  TypeInv'
<1> DEFINE task == tasks[t]
           task2 == tasks'[t]
<1>1. UNCHANGED <<envVars, mainVars, held, spawned>>
  BY DEF Task, Resume, Yield, Register, BeginRegister, BeginPush, Push, Send, Return
<1>2. LocksType'
  BY <1>1 DEF Task, Resume, Yield, Register, BeginRegister, BeginPush, Push, Send,
              Return, LocksType, TypeInv, TypeOK
<1>3. RegsType'
  <2>1. CASE Register(t)
    <3>1. PICK c \in First(task.cbs) :
            regs' = [regs EXCEPT ![task.into.list] =
                       @ \cup {NewCallback(task.into, nextId + 1, c.gen, TRUE)}]
      BY <2>1 DEF Register
    <3>2. task \in TaskType /\ task.into \in Reg
      BY <2>1 DEF Register, Running, TaskInv, TasksType, TypeInv, TypeOK
    <3>3. c \in Callback
      BY <3>2 DEF First, TaskType
    <3>4. nextId \in Nat
      BY DEF RegsType, TypeInv, TypeOK
    <3>5. NewCallback(task.into, nextId + 1, c.gen, TRUE) \in Callback
          /\ task.into.list \in Lists
      BY <3>2, <3>3, <3>4 DEF NewCallback, Callback, Reg
    <3>6. regs' \in [Lists -> SUBSET Callback]
      BY <3>1, <3>5 DEF RegsType, TypeInv, TypeOK
    <3>7. nextId' = nextId + 1 /\ UNCHANGED <<fired, plugins>>
      BY <2>1 DEF Register
    <3> QED BY <3>4, <3>6, <3>7 DEF RegsType, TypeInv, TypeOK
  <2>2. CASE UNCHANGED regVars
    BY <2>2, Frame
  <2> QED
    BY <2>1, <2>2 DEF Task, Resume, Yield, BeginRegister, BeginPush, Push, Send, Return
<1>4. UsedType' /\ used'.lines = used.lines /\ used'.ticks = used.ticks
  <2>1. CASE \E r \in LateRegs : BeginRegister(t, r)
    BY <2>1, BoundsAssumption DEF BeginRegister, UsedType, TypeInv, TypeOK
  <2>2. CASE BeginPush(t)
    BY <2>2, BoundsAssumption DEF BeginPush, UsedType, TypeInv, TypeOK
  <2>3. CASE UNCHANGED used
    BY <2>3, Frame
  <2> QED BY <2>1, <2>2, <2>3 DEF Task, Resume, Yield, Register, Push, Send, Return
<1>5. Budget'
  BY <1>1, <1>4 DEF Budget, Dispatching, TypeInv, envVars, mainVars
<1>6. task \in TaskType /\ \A u \in TaskIds \ {t} : tasks'[u] = tasks[u]
  BY DEF Task, Resume, Yield, Register, BeginRegister, BeginPush, Push, Send, Return,
         TasksType, TypeInv, TypeOK
<1>7. lua = t <=> task.st \in {"lua", "registering"}
  BY DEF TaskInv, TypeInv
<1>8. Free # t
  BY DEF Free, TaskIds
<1> DEFINE Held(st) == st \in {"lua", "registering"}
           Moved(st) == /\ Held(st) <=> lua' = t
                        /\ lua' = lua \/ (lua = Free /\ lua' = t) \/ (lua = t /\ lua' = Free)
<1>9. /\ task.st \in {"suspended", "lua", "registering", "pushing", "sending"}
      /\ TasksType' /\ task2 \in TaskType /\ Moved(task2.st)
      /\ (task2.st = "registering" => task2.into \in Reg)
      /\ (task2.st = "sending" => task2.cmds # <<>>)
  <2>1. ASSUME NEW st \in {"lua", "suspended", "pushing"},
               tasks' = [tasks EXCEPT ![t].st = st]
        PROVE  TasksType' /\ task2 \in TaskType /\ task2.st = st
    <3>1. task2 = [task EXCEPT !.st = st]
      BY <2>1 DEF TasksType, TypeInv, TypeOK
    <3>2. task2 \in TaskType /\ task2.st = st
      BY <1>6, <3>1 DEF TaskType
    <3> QED BY <1>1, <2>1, <3>1, <3>2 DEF TasksType, TypeInv, TypeOK
  <2>2. CASE Resume(t)
    BY <1>7, <1>8, <2>1, <2>2 DEF Resume, Running
  <2>3. CASE Yield(t)
    BY <1>7, <1>8, <2>1, <2>3 DEF Yield, Running
  <2>4. CASE BeginPush(t)
    BY <1>7, <1>8, <2>1, <2>4 DEF BeginPush, Running
  <2>5. CASE Push(t)
    BY <1>7, <1>8, <2>1, <2>5 DEF Push, Running
  <2>6. ASSUME NEW r \in LateRegs, BeginRegister(t, r)
        PROVE  /\ TasksType' /\ task2 \in TaskType
               /\ task2.st = "registering" /\ task2.into \in Reg
               /\ task.st = "lua" /\ lua' = lua
    <3>1. task2 = [task EXCEPT !.st = "registering", !.into = r] /\ r \in Reg
      BY <2>6, ScriptAssumption
      DEF BeginRegister, IsReg, TasksType, TypeInv, TypeOK
    <3>2. task2 \in TaskType /\ task2.st = "registering" /\ task2.into = r
      BY <1>6, <3>1 DEF TaskType
    <3>3. tasks' = [tasks EXCEPT ![t] = task2]
      BY <2>6, <3>1 DEF BeginRegister, TasksType, TypeInv, TypeOK
    <3>4. task.st = "lua" /\ lua' = lua
      BY <2>6 DEF BeginRegister, Running
    <3> QED BY <1>1, <3>1, <3>2, <3>3, <3>4 DEF TasksType, TypeInv, TypeOK
  <2>7. CASE \E r \in LateRegs : BeginRegister(t, r)
    BY <1>7, <2>6, <2>7
  <2>8. CASE Register(t)
    <3>1. task2 = [task EXCEPT !.st = "lua", !.into = NoReg]
      BY <2>8 DEF Register, TasksType, TypeInv, TypeOK
    <3>2. task2 \in TaskType /\ task2.st = "lua"
      BY <1>6, <3>1 DEF TaskType
    <3>3. tasks' = [tasks EXCEPT ![t] = task2]
      BY <2>8, <3>1 DEF Register, TasksType, TypeInv, TypeOK
    <3>4. task.st = "registering" /\ lua' = lua
      BY <2>8 DEF Register, Running
    <3> QED BY <1>1, <1>7, <3>2, <3>3, <3>4 DEF TasksType, TypeInv, TypeOK
  <2>9. CASE Send(t)
    <3> DEFINE st == IF Len(task.cmds) = 1 THEN "done" ELSE "sending"
    <3>1. task2 = [task EXCEPT !.cmds = Tail(task.cmds), !.st = st]
      BY <2>9 DEF Send, TasksType, TypeInv, TypeOK
    <3>2. task.st = "sending" /\ lua' = lua
      BY <2>9 DEF Send, Running
    <3>3. task.cmds \in Seq(CommandType) /\ task.cmds # <<>>
      BY <1>6, <3>2 DEF TaskType, TaskInv, TypeInv
    <3>4. Tail(task.cmds) \in Seq(CommandType)
          /\ (st = "sending" => Tail(task.cmds) # <<>>)
      BY <3>3, TailFacts
    <3>5. st \in {"done", "sending"}
      OBVIOUS
    <3> HIDE DEF st
    <3>6. task2 \in TaskType /\ task2.st = st /\ task2.cmds = Tail(task.cmds)
      BY <1>6, <3>1, <3>4, <3>5 DEF TaskType
    <3>7. tasks' = [tasks EXCEPT ![t] = task2]
      BY <2>9, <3>1 DEF Send, st, TasksType, TypeInv, TypeOK
    <3> QED BY <1>1, <1>7, <3>2, <3>4, <3>5, <3>6, <3>7 DEF TasksType, TypeInv, TypeOK
  <2>10. ASSUME NEW n \in Results, Return(t, n)
         PROVE  /\ TasksType' /\ task2 \in TaskType
                /\ task2.st \in {"suspended", "sending", "done"}
                /\ (task2.st = "sending" => task2.cmds # <<>>)
                /\ task.st = "lua" /\ lua' = Free
    <3> DEFINE new(c)  == IF t = 0 THEN <<>> ELSE [k \in 1..n |-> Command(t, c, k)]
               cmds(c) == task.cmds \o new(c)
               left(c) == task.cbs \ {c}
               st(c)   == IF left(c) # {} THEN "suspended"
                          ELSE IF cmds(c) # <<>> THEN "sending" ELSE "done"
    <3>1. PICK c \in First(task.cbs) :
            tasks' = [tasks EXCEPT ![t].cbs = left(c), ![t].cmds = cmds(c),
                                   ![t].made = @ \o new(c), ![t].st = st(c)]
      BY <2>10 DEF Return
    <3>2. c \in Callback
      BY <1>6, <3>1 DEF First, TaskType
    <3>3. new(c) \in Seq(CommandType)
      <4>1. n \in Nat /\ \A k \in 1..n : Command(t, c, k) \in CommandType
        BY <3>2, LinesAssumption DEF Command, CommandType
      <4>2. [k \in 1..n |-> Command(t, c, k)] \in Seq(CommandType)
        BY <4>1, ListFacts
      <4>3. <<>> \in Seq(CommandType)
        OBVIOUS
      <4> QED BY <4>2, <4>3
    <3>4. left(c) \subseteq Callback
      BY <1>6 DEF TaskType
    <3>5. task.cmds \in Seq(CommandType) /\ task.made \in Seq(CommandType)
      BY <1>6 DEF TaskType
    <3>6. cmds(c) \in Seq(CommandType) /\ task.made \o new(c) \in Seq(CommandType)
      BY <3>3, <3>5, ConcatFacts
    <3>7. st(c) \in {"suspended", "sending", "done"}
          /\ (st(c) = "sending" => cmds(c) # <<>>)
      OBVIOUS
    <3>8. task.st = "lua" /\ lua' = Free
      BY <2>10 DEF Return, Running
    <3> HIDE DEF new, cmds, left, st
    <3>9. task2 = [task EXCEPT !.cbs = left(c), !.cmds = cmds(c),
                               !.made = @ \o new(c), !.st = st(c)]
      BY <3>1 DEF TasksType, TypeInv, TypeOK
    <3>10. task2 \in TaskType /\ task2.st = st(c) /\ task2.cmds = cmds(c)
      BY <1>6, <3>4, <3>6, <3>7, <3>9 DEF TaskType
    <3>11. tasks' = [tasks EXCEPT ![t] = task2]
      BY <3>1, <3>9 DEF TasksType, TypeInv, TypeOK
    <3> QED BY <1>1, <3>7, <3>8, <3>10, <3>11 DEF TasksType, TypeInv, TypeOK
  <2>11. CASE \E n \in Results : Return(t, n)
    BY <1>7, <1>8, <2>10, <2>11
  <2> QED BY <2>2, <2>3, <2>4, <2>5, <2>7, <2>8, <2>9, <2>11 DEF Task
<1> HIDE DEF task, task2
<1>10. TaskInv'
  <2>1. ASSUME NEW u \in TaskIds, u # t
        PROVE  tasks'[u] = tasks[u] /\ (lua' = u <=> lua = u)
    BY <1>6, <1>9, <2>1 DEF Free, TaskIds
  <2>2. /\ Held(tasks'[t].st) <=> lua' = t
        /\ tasks'[t].st = "registering" => tasks'[t].into \in Reg
        /\ tasks'[t].st = "sending" => tasks'[t].cmds # <<>>
    BY <1>9 DEF task2
  <2> QED BY <2>1, <2>2 DEF TaskInv, TypeInv
<1>11. IdleInv'
  <2>1. 0 \in TaskIds
    BY BoundsAssumption DEF TaskIds
  <2> QED BY <1>1, <1>6, <1>9, <2>1 DEF IdleInv, TypeInv, mainVars, task
<1>12. SenderType'
  <2>1. ASSUME NEW cmd \in CommandType, Enqueue(cmd), UNCHANGED <<writing, stdin, rx>>
        PROVE  SenderType'
    <3>1. queue' \in Seq(CommandType) /\ Len(queue') <= Cap
      <4>1. queue \in Seq(CommandType) /\ Len(queue) <= Cap
        BY DEF SenderType, TypeInv, TypeOK
      <4>2. CASE Len(queue) < Cap /\ queue' = Append(queue, cmd)
        BY <4>1, <4>2, AppendFacts, BoundsAssumption
      <4>3. CASE queue' = queue
        BY <4>1, <4>3
      <4> QED BY <2>1, <4>2, <4>3 DEF Enqueue
    <3> QED BY <2>1, <3>1 DEF SenderType, TypeInv, TypeOK
  <2>2. CASE Push(t)
    <3>1. PICK c \in First(task.cbs) : Enqueue(Command(t, c, 0))
      BY <2>2 DEF Push, task
    <3>2. Command(t, c, 0) \in CommandType
      BY <1>6, <3>1 DEF First, TaskType, Command, CommandType
    <3> QED BY <2>1, <2>2, <3>1, <3>2 DEF Push
  <2>3. CASE Send(t)
    <3>1. task.cmds \in Seq(CommandType) /\ task.cmds # <<>>
      BY <1>6, <2>3 DEF Send, Running, TaskType, TaskInv, TypeInv, task
    <3>2. Head(task.cmds) \in CommandType
      BY <3>1, TailFacts
    <3> QED BY <2>1, <2>3, <3>2 DEF Send, task
  <2>4. CASE UNCHANGED senderVars
    BY <2>4, Frame
  <2> QED
    BY <2>2, <2>3, <2>4 DEF Task, Resume, Yield, Register, BeginRegister, BeginPush, Return
<1> QED BY <1>1, <1>2, <1>3, <1>4, <1>5, <1>9, <1>10, <1>11, <1>12, Frame
        DEF TypeInv, TypeOK

\* Every step keeps the type invariant.
LEMMA TypeStep == TypeInv /\ [Next]_vars => TypeInv'
<1> SUFFICES ASSUME TypeInv, [Next]_vars PROVE TypeInv'
  OBVIOUS
<1>1. CASE Environment
  BY <1>1, EnvironmentType
<1>2. CASE Main
  BY <1>2, SelectType, ScanType, HandOverType, ReloadType DEF Main
<1>3. CASE \E t \in TaskIds : Task(t)
  BY <1>3, TaskTypeStep
<1>4. CASE Sender
  BY <1>4, SenderTypeStep
<1>5. CASE Terminated \/ UNCHANGED vars
  <2>1. UNCHANGED vars
    BY <1>5 DEF Terminated
  <2>2. UNCHANGED <<envVars, mainVars, held, lua, regVars, taskVars, senderVars, used>>
    BY <2>1 DEF vars
  <2>3. Budget'
    BY <2>2 DEF Budget, Dispatching, TypeInv, envVars, mainVars, taskVars
  <2> QED BY <2>2, <2>3, Frame DEF TypeInv, TypeOK, mainVars
<1> QED BY <1>1, <1>2, <1>3, <1>4, <1>5 DEF Next

\* Every variable of the event loop keeps its type; the command queue never
\* holds more than its slots, whatever the number of tasks that send to it.
THEOREM TypeCorrect == Spec => []TypeOK
<1>1. TypeInv => TypeOK
  BY DEF TypeInv
<1> QED BY TypeInit, TypeStep, <1>1, PTL DEF Spec
-----------------------------------------------------------------------------
(* Once-patterns and reloads. *)

\* A pattern that fired since the last reload has its flag set, and no task
\* that exists shares a fired once-pattern with the line now being dispatched.
OnceInv ==
  /\ \A t \in TaskIds : tasks[t].gen <= gen
  /\ \A t \in TaskIds : tasks[t].gen = gen => tasks[t].why \cap Once \subseteq fired
  /\ \A t \in TaskIds : tasks[t].gen = gen => tasks[t].why \cap why \cap Once = {}
  /\ why \cap Once \subseteq fired
  /\ pc = "clear" => \A t \in TaskIds : tasks[t].gen = gen => tasks[t].why \cap Once = {}
  /\ pc \in {"select", "clear", "load"} => why = {}

\* Outside of the clearing, only late callbacks are older than the last reload.
Fresh(c) == c.late \/ c.gen = gen
FreshInv ==
  /\ \A l \in Lists : \A c \in regs[l] :
       Fresh(c) \/ (pc = "clear" /\ ClearStep[l] >= ClearStep[at])
  /\ \A c \in got : Fresh(c)
  /\ pc \in {"select", "clear", "load"} => got = {}

LoadInv == OnceInv /\ FreshInv /\ OncePerLoad /\ FreshDispatch

\* Before the first load no callback has run.
LEMMA LoadInit == Init => LoadInv
  BY DEF Init, LoadInv, OnceInv, FreshInv, OncePerLoad, FreshDispatch, IdleTask

\* A task's step only takes callbacks away from tasks.
LEMMA TaskKeeps ==
  ASSUME TypeInv, NEW t \in TaskIds, Task(t)
  PROVE  /\ UNCHANGED <<mainVars, fired>>
         /\ \A u \in TaskIds : /\ tasks'[u].gen = tasks[u].gen
                               /\ tasks'[u].why = tasks[u].why
                               /\ tasks'[u].cbs \subseteq tasks[u].cbs
<1>1. UNCHANGED <<mainVars, fired>>
  BY DEF Task, Resume, Yield, Register, BeginRegister, BeginPush, Push, Send, Return,
         regVars
<1>2. tasks \in [TaskIds -> TaskType]
  BY DEF TypeInv, TypeOK, TasksType
<1>3. \A u \in TaskIds \ {t} : tasks'[u] = tasks[u]
  BY <1>2 DEF Task, Resume, Yield, Register, BeginRegister, BeginPush, Push, Send, Return
<1> DEFINE Kept == /\ tasks'[t].gen = tasks[t].gen /\ tasks'[t].why = tasks[t].why
                   /\ tasks'[t].cbs \subseteq tasks[t].cbs
<1>4. Kept
  <2> USE <1>2 DEF TaskType
  <2>1. ASSUME NEW st, tasks' = [tasks EXCEPT ![t].st = st] PROVE Kept
    BY <2>1
  <2>2. CASE Resume(t) \/ Yield(t)
    BY <2>1, <2>2 DEF Resume, Yield
  <2>3. CASE BeginPush(t) \/ Push(t)
    BY <2>1, <2>3 DEF BeginPush, Push
  <2>4. ASSUME NEW st, NEW r, tasks' = [tasks EXCEPT ![t].st = st, ![t].into = r]
        PROVE  Kept
    BY <2>4
  <2>5. CASE Register(t)
    BY <2>4, <2>5 DEF Register
  <2>6. CASE \E r \in LateRegs : BeginRegister(t, r)
    BY <2>4, <2>6 DEF BeginRegister
  <2>7. CASE Send(t)
    BY <2>7 DEF Send
  <2>8. ASSUME NEW left, left \subseteq tasks[t].cbs, NEW cmds, NEW made, NEW st,
               tasks' = [tasks EXCEPT ![t].cbs = left, ![t].cmds = cmds,
                                      ![t].made = @ \o made, ![t].st = st]
        PROVE  Kept
    BY <2>8
  <2>9. CASE \E n \in Results : Return(t, n)
    <3>1. PICK n \in Results : Return(t, n)
      BY <2>9
    <3> DEFINE new(c)  == IF t = 0 THEN <<>> ELSE [k \in 1..n |-> Command(t, c, k)]
               cmds(c) == tasks[t].cmds \o new(c)
               left(c) == tasks[t].cbs \ {c}
               st(c)   == IF left(c) # {} THEN "suspended"
                          ELSE IF cmds(c) # <<>> THEN "sending" ELSE "done"
    <3>2. PICK c \in First(tasks[t].cbs) :
            tasks' = [tasks EXCEPT ![t].cbs = left(c), ![t].cmds = cmds(c),
                                   ![t].made = @ \o new(c), ![t].st = st(c)]
      BY <3>1 DEF Return
    <3>3. left(c) \subseteq tasks[t].cbs
      OBVIOUS
    <3> HIDE DEF new, cmds, left, st
    <3> QED BY <2>8, <3>2, <3>3
  <2> QED BY <2>2, <2>3, <2>5, <2>6, <2>7, <2>9 DEF Task
<1> QED BY <1>1, <1>3, <1>4

\* What a task does leaves the part of the invariant about loads alone: it may
\* add a callback to a list, which counts as a late one.
LEMMA LoadTask ==
  ASSUME TypeInv, LoadInv, NEW t \in TaskIds, Task(t)
  PROVE  LoadInv'
<1>1. OnceInv' /\ OncePerLoad' /\ FreshDispatch'
  BY TaskKeeps DEF LoadInv, OnceInv, OncePerLoad, FreshDispatch, mainVars
<1>2. \A l \in Lists : \A c \in regs'[l] : c \in regs[l] \/ c.late
  <2>1. CASE Register(t)
    BY <2>1 DEF Register, NewCallback, RegsType, TypeInv, TypeOK
  <2>2. CASE UNCHANGED regVars
    BY <2>2 DEF regVars
  <2> QED
    BY <2>1, <2>2 DEF Task, Resume, Yield, BeginRegister, BeginPush, Push, Send, Return
<1>3. FreshInv'
  BY <1>2, TaskKeeps DEF LoadInv, FreshInv, Fresh, mainVars
<1> QED BY <1>1, <1>3 DEF LoadInv

\* Every step of the main thread keeps the load invariant.
LEMMA LoadMain ==
  ASSUME TypeInv, LoadInv, Main
  PROVE  LoadInv'
<1>1. CASE ReadLine \/ CronWakes \/ SeeExit
  <2>1. UNCHANGED <<gen, tasks, regs, fired>> /\ got' = {} /\ why' = {}
        /\ pc \in {"select", "wait"} /\ pc' = "scan"
    BY <1>1 DEF ReadLine, CronWakes, SeeExit, regVars, taskVars
  <2> QED
    BY <2>1 DEF LoadInv, OnceInv, FreshInv, Fresh, OncePerLoad, FreshDispatch
<1>2. CASE LockList
  BY <1>2 DEF LockList, LoadInv, OnceInv, FreshInv, Fresh, OncePerLoad, FreshDispatch,
              mainVars, regVars, taskVars
<1>3. CASE Snapshot
  <2>1. UNCHANGED <<gen, tasks, regs>> /\ pc = "scan" /\ at \in Lists
        /\ pc' \in {"scan", "spawn", "shutdown"}
    BY <1>3 DEF Snapshot, taskVars, PlaceInv, TypeInv
  <2>2. \A c \in got' : Fresh(c)
    <3>1. \A sel \in Selections : sel \subseteq regs[at]
      BY <2>1 DEF Selections
    <3> QED BY <1>3, <2>1, <3>1 DEF Snapshot, LoadInv, FreshInv
  <2>3. why' = why \cup Hits /\ fired' = fired \cup (Hits \cap Once) /\ Hits \cap fired = {}
    BY <1>3 DEF Snapshot, Hits, FiredNow
  <2>4. OnceInv'
    BY <2>1, <2>3 DEF LoadInv, OnceInv
  <2>5. FreshInv'
    BY <2>1, <2>2 DEF LoadInv, FreshInv, Fresh
  <2> QED
    BY <2>1, <2>4, <2>5 DEF LoadInv, OncePerLoad, FreshDispatch
<1>4. CASE SpawnDispatch
  <2>1. UNCHANGED <<gen, regs, fired>> /\ got' = {} /\ why' = {} /\ pc' = "select"
        /\ pc = "spawn"
    BY <1>4 DEF SpawnDispatch, regVars
  <2>2. FreshInv'
    BY <2>1 DEF LoadInv, FreshInv, Fresh
  <2>3. CASE got = {}
    BY <1>4, <2>1, <2>2, <2>3
    DEF SpawnDispatch, LoadInv, OnceInv, OncePerLoad, FreshDispatch, taskVars
  <2>4. CASE got # {}
    <3>1. tasks' = [tasks EXCEPT ![spawned + 1] = NewTask(got, gen, why)]
      BY <1>4, <2>4 DEF SpawnDispatch
    <3>2. \A t \in TaskIds :
            \/ tasks'[t] = tasks[t]
            \/ t = spawned + 1 /\ tasks'[t].cbs = got /\ tasks'[t].gen = gen
                               /\ tasks'[t].why = why
      BY <3>1 DEF NewTask, TypeInv, TypeOK, TasksType
    <3>3. OnceInv'
      BY <2>1, <3>2 DEF LoadInv, OnceInv, MainType, TypeInv, TypeOK
    <3>4. OncePerLoad'
      BY <3>2 DEF LoadInv, OnceInv, OncePerLoad
    <3>5. FreshDispatch'
      BY <3>2 DEF LoadInv, FreshInv, Fresh, FreshDispatch
    <3> QED BY <2>2, <3>3, <3>4, <3>5 DEF LoadInv
  <2> QED BY <2>3, <2>4
<1>5. CASE RunShutdownCallbacks
  <2>1. UNCHANGED <<gen, regs, fired, why>> /\ got' = {} /\ pc' = "callbacks"
        /\ pc = "shutdown"
    BY <1>5 DEF RunShutdownCallbacks, regVars
  <2>2. FreshInv'
    BY <2>1 DEF LoadInv, FreshInv, Fresh
  <2>3. \A t \in TaskIds :
          \/ tasks'[t] = tasks[t]
          \/ t = 0 /\ tasks'[t].cbs = got /\ tasks'[t].gen = gen /\ tasks'[t].why = {}
    BY <1>5 DEF RunShutdownCallbacks, NewTask, TypeInv, TypeOK, TasksType
  <2>4. OnceInv' /\ OncePerLoad'
    BY <2>1, <2>3 DEF LoadInv, OnceInv, OncePerLoad, MainType, TypeInv, TypeOK
  <2>5. FreshDispatch'
    BY <2>3 DEF LoadInv, FreshInv, Fresh, FreshDispatch
  <2> QED BY <2>2, <2>4, <2>5 DEF LoadInv
<1>6. CASE LoopEnds \/ Exit \/ LoadDone \/ LoadFails
  <2>1. UNCHANGED <<gen, regs, fired, why, got, tasks>> /\ pc \notin {"scan", "spawn", "clear"}
        /\ (pc = "load" => pc' = "select") /\ (pc # "load" => pc' \in {"wait", "exited"})
    BY <1>6 DEF LoopEnds, Exit, LoadDone, LoadFails, regVars, taskVars
  <2> QED
    BY <2>1 DEF LoadInv, OnceInv, FreshInv, Fresh, OncePerLoad, FreshDispatch
<1>7. CASE StartReload
  <2>1. UNCHANGED <<regs, fired, why, got, tasks>> /\ pc = "select" /\ pc' = "clear"
        /\ gen' = gen + 1 /\ at' = "triggers"
    BY <1>7 DEF StartReload, regVars, taskVars
  <2>2. gen \in Nat /\ \A t \in TaskIds : tasks[t].gen \in Nat
    BY DEF TypeInv, TypeOK, MainType, TasksType, TaskType
  <2>3. \A l \in Lists : ClearStep[l] >= ClearStep["triggers"]
    BY DEF Lists, ClearStep
  <2> QED
    BY <2>1, <2>2, <2>3
    DEF LoadInv, OnceInv, FreshInv, Fresh, OncePerLoad, FreshDispatch
<1>8. CASE ClearList
  <2>1. UNCHANGED <<why, got, tasks, gen>> /\ pc = "clear" /\ at \in Lists
        /\ regs' = [regs EXCEPT ![at] = {}]
    BY <1>8 DEF ClearList, Cleared, taskVars, PlaceInv, TypeInv
  <2>2. /\ at # "start" => /\ pc' = "clear" /\ fired' = fired
                           /\ ClearStep[at'] = ClearStep[at] + 1
        /\ at = "start" => pc' = "load" /\ fired' = {}
    BY <1>8 DEF ClearList
  <2>3. \A l \in Lists : l # at => ClearStep[l] # ClearStep[at] /\ ClearStep[l] \in 1..7
    BY <2>1 DEF Lists, ClearStep
  <2>4. ClearStep[at] \in 1..7 /\ (at = "start" => ClearStep[at] = 7)
    BY <2>1 DEF Lists, ClearStep
  <2>5. OnceInv'
    BY <2>1, <2>2 DEF LoadInv, OnceInv
  <2>6. ASSUME NEW l \in Lists, NEW c \in regs'[l]
        PROVE  Fresh(c) \/ (pc' = "clear" /\ ClearStep[l] >= ClearStep[at'])
    <3>1. l # at /\ c \in regs[l]
      BY <2>1, <2>6 DEF TypeInv, TypeOK, RegsType
    <3>2. Fresh(c) \/ ClearStep[l] >= ClearStep[at]
      BY <3>1 DEF LoadInv, FreshInv
    <3> QED BY <2>2, <2>3, <2>4, <3>1, <3>2
  <2>7. FreshInv'
    BY <2>1, <2>2, <2>6 DEF LoadInv, FreshInv, Fresh
  <2> QED
    BY <2>1, <2>5, <2>7 DEF LoadInv, OncePerLoad, FreshDispatch
<1>9. ASSUME NEW p \in Plugins, NEW n \in 0..Len(Script[p]), LoadPlugin(p, n)
      PROVE  LoadInv'
  <2>1. UNCHANGED <<why, got, tasks, gen, fired, pc>> /\ pc = "load"
    BY <1>9 DEF LoadPlugin, taskVars
  <2>2. \A l \in Lists : \A c \in regs'[l] : c \in regs[l] \/ c.gen = gen
    BY <1>9 DEF LoadPlugin, NewCallback
  <2>3. FreshInv'
    BY <2>1, <2>2 DEF LoadInv, FreshInv, Fresh
  <2> QED
    BY <2>1, <2>3 DEF LoadInv, OnceInv, OncePerLoad, FreshDispatch
<1> QED
  BY <1>1, <1>2, <1>3, <1>4, <1>5, <1>6, <1>7, <1>8, <1>9 DEF Main

\* Every step keeps the load invariant.
LEMMA LoadStep == TypeInv /\ LoadInv /\ [Next]_vars => LoadInv'
<1> SUFFICES ASSUME TypeInv, LoadInv, [Next]_vars PROVE LoadInv'
  OBVIOUS
<1>1. CASE UNCHANGED <<mainVars, regVars, taskVars>>
  BY <1>1 DEF LoadInv, OnceInv, FreshInv, Fresh, OncePerLoad, FreshDispatch,
              mainVars, regVars, taskVars
<1>2. CASE Main
  BY <1>2, LoadMain
<1>3. CASE \E t \in TaskIds : Task(t)
  BY <1>3, LoadTask
<1>4. CASE Environment \/ Sender \/ Terminated \/ UNCHANGED vars
  <2>1. UNCHANGED <<mainVars, regVars, taskVars>>
    BY <1>4 DEF Environment, ServerPrints, ServerExits, TypeReload, Sender, Take, Write,
                WriteFails, Terminated, vars
  <2> QED BY <1>1, <2>1
<1> QED BY <1>2, <1>3, <1>4 DEF Next

\* A once-pattern fires for at most one dispatch between two reloads.
THEOREM OncePerLoadHolds == Spec => []OncePerLoad
<1>1. TypeInv /\ LoadInv => OncePerLoad
  BY DEF LoadInv
<1> QED BY TypeInit, TypeStep, LoadInit, LoadStep, <1>1, PTL DEF Spec

\* A dispatch runs no callback of an earlier load, unless it was registered
\* late by a callback that was running at the reload.
THEOREM FreshDispatchHolds == Spec => []FreshDispatch
<1>1. TypeInv /\ LoadInv => FreshDispatch
  BY DEF LoadInv
<1> QED BY TypeInit, TypeStep, LoadInit, LoadStep, <1>1, PTL DEF Spec
-----------------------------------------------------------------------------
(* The commands, from the callbacks to the server. *)

\* a is to reach the server before b, if both come from the same line.
Precedes(a, b) == Before(a.cb, b.cb) \/ (a.cb = b.cb /\ a.nth < b.nth)
Ours(a, b)     == a.task = b.task /\ a.nth # 0 /\ b.nth # 0

\* What is sent is in order; so is what a task has yet to send, which comes from
\* callbacks before the ones it has yet to run; a task that has sent something
\* has no callback left, and what it sent comes before the rest.
SentInOrder ==
  \A i, j \in 1..Len(Sent) : i < j /\ Ours(Sent[i], Sent[j]) => Precedes(Sent[i], Sent[j])
TaskInOrder(t) ==
  /\ \A k \in 1..Len(tasks[t].cmds) :
       /\ tasks[t].cmds[k].task = t /\ tasks[t].cmds[k].nth # 0
       /\ \A l \in 1..Len(tasks[t].cmds) : k < l => Precedes(tasks[t].cmds[k], tasks[t].cmds[l])
       /\ \A c \in tasks[t].cbs : Before(tasks[t].cmds[k].cb, c)
  /\ tasks[t].st = "sending" => tasks[t].cbs = {}
SentBefore(t) ==
  \A i \in 1..Len(Sent) : Sent[i].task = t /\ Sent[i].nth # 0 =>
    /\ tasks[t].st \in {"sending", "done"} /\ tasks[t].cbs = {}
    /\ \A k \in 1..Len(tasks[t].cmds) : Precedes(Sent[i], tasks[t].cmds[k])
ClosedInv == rx = "closed" => writing = <<>> /\ queue = <<>>

OrderInv == /\ SentInOrder /\ ClosedInv
            /\ \A t \in TaskIds : TaskInOrder(t) /\ SentBefore(t)

\* The same about what is kept, task by task (see CommandsKept).
KeptOf(t) ==
  /\ Cardinality(Mine(Sent, t)) <= Len(tasks[t].made)
  /\ \A i \in Mine(Sent, t) : Sent[i] = tasks[t].made[Nth(Sent, t, i)]
  /\ rx = "open" =>
       /\ Len(tasks[t].made) = Cardinality(Mine(Sent, t)) + Len(tasks[t].cmds)
       /\ \A k \in 1..Len(tasks[t].cmds) :
            tasks[t].cmds[k] = tasks[t].made[Cardinality(Mine(Sent, t)) + k]

CommandInv == OrderInv /\ CommandsKept
-----------------------------------------------------------------------------
\* Taking the first element of q, and adding a last one.
LEMMA TakeFirst ==
  ASSUME NEW S, NEW s \in Seq(S), NEW q \in Seq(S), q # <<>>
  PROVE  s \o <<>> \o q = s \o <<Head(q)>> \o Tail(q)
<1>1. Len(q) \in Nat /\ Len(q) > 0 /\ Len(Tail(q)) = Len(q) - 1
  OBVIOUS
<1>2. <<Head(q)>> \in Seq(S) /\ Tail(q) \in Seq(S) /\ <<Head(q)>> \o Tail(q) = q
  BY <1>1
<1>3. s \o <<>> = s /\ (s \o <<Head(q)>>) \o Tail(q) = s \o (<<Head(q)>> \o Tail(q))
  BY <1>2
<1> QED
  BY <1>2, <1>3

LEMMA AddLast ==
  ASSUME NEW S, NEW s \in Seq(S), NEW w \in Seq(S), NEW q \in Seq(S), NEW x \in S
  PROVE  s \o w \o Append(q, x) = Append(s \o w \o q, x)
OBVIOUS

\* The sequences the commands are in.
LEMMA SentType ==
  ASSUME TypeInv
  PROVE  /\ Sent \in Seq(CommandType) /\ stdin \in Seq(CommandType)
         /\ writing \in Seq(CommandType) /\ queue \in Seq(CommandType)
         /\ \A t \in TaskIds : /\ tasks[t].cmds \in Seq(CommandType)
                               /\ tasks[t].made \in Seq(CommandType)
                               /\ tasks[t] \in TaskType
<1>1. stdin \in Seq(CommandType) /\ writing \in Seq(CommandType) /\ queue \in Seq(CommandType)
  BY DEF TypeInv, TypeOK, SenderType
<1>2. stdin \o writing \in Seq(CommandType)
  BY <1>1, ConcatFacts
<1>3. Sent \in Seq(CommandType)
  BY <1>1, <1>2, ConcatFacts DEF Sent
<1>4. \A t \in TaskIds : tasks[t] \in TaskType
  BY DEF TypeInv, TypeOK, TasksType
<1> QED
  BY <1>1, <1>3, <1>4 DEF TaskType

\* What has been written comes first in what was sent.
LEMMA StdinFirst ==
  ASSUME TypeInv
  PROVE  /\ Len(stdin) \in Nat /\ Len(Sent) \in Nat /\ Len(stdin) <= Len(Sent)
         /\ \A i \in 1..Len(stdin) : Sent[i] = stdin[i]
<1>1. stdin \in Seq(CommandType) /\ writing \in Seq(CommandType) /\ queue \in Seq(CommandType)
  BY SentType
<1>2. /\ stdin \o writing \in Seq(CommandType)
      /\ Len(stdin \o writing) = Len(stdin) + Len(writing)
      /\ \A i \in 1..Len(stdin) : (stdin \o writing)[i] = stdin[i]
  BY <1>1
<1>3. /\ Len(Sent) = Len(stdin) + Len(writing) + Len(queue)
      /\ \A i \in 1..Len(stdin \o writing) : Sent[i] = (stdin \o writing)[i]
  BY <1>1, <1>2 DEF Sent
<1>4. Len(stdin) \in Nat /\ Len(writing) \in Nat /\ Len(queue) \in Nat
  BY <1>1
<1>5. \A i \in 1..Len(stdin) : i \in 1..Len(stdin \o writing)
  BY <1>2, <1>4
<1>6. \A i \in 1..Len(stdin) : Sent[i] = stdin[i]
  BY <1>2, <1>3, <1>5
<1> QED
  BY <1>3, <1>4, <1>6

\* A send adds to what is sent, or fails.
LEMMA EnqueueSends ==
  ASSUME TypeInv, ClosedInv, NEW cmd \in CommandType, Enqueue(cmd),
         UNCHANGED <<writing, stdin, rx>>
  PROVE  /\ \/ rx = "open" /\ Sent' = Append(Sent, cmd)
            \/ rx = "closed" /\ Sent' = Sent
         /\ ClosedInv'
<1>1. ClosedInv'
  BY DEF Enqueue, ClosedInv
<1>2. CASE rx = "open" /\ queue' = Append(queue, cmd)
  BY <1>1, <1>2, SentType, AddLast DEF Sent
<1>3. CASE rx = "closed" /\ UNCHANGED queue
  BY <1>1, <1>3 DEF Sent
<1> QED
  BY <1>2, <1>3 DEF Enqueue

\* The sender only moves commands on, until it stops.
LEMMA SenderMoves ==
  ASSUME TypeInv, ClosedInv, Sender
  PROVE  /\ UNCHANGED tasks /\ ClosedInv'
         /\ \/ rx' = rx /\ Sent' = Sent
            \/ rx' = "closed" /\ Sent' = stdin
<1>1. stdin \in Seq(CommandType) /\ writing \in Seq(CommandType) /\ queue \in Seq(CommandType)
  BY SentType
<1>2. CASE Take
  <2>1. stdin \o <<>> \o queue = stdin \o <<Head(queue)>> \o Tail(queue)
    BY <1>1, <1>2, TakeFirst DEF Take
  <2> QED
    BY <1>2, <2>1 DEF Take, Sent, ClosedInv, taskVars
<1>3. CASE Write
  <2>1. stdin \o writing \in Seq(CommandType)
    BY <1>1, ConcatFacts
  <2>2. (stdin \o writing) \o <<>> = stdin \o writing
    BY <2>1
  <2> QED
    BY <1>3, <2>2 DEF Write, Sent, ClosedInv, taskVars
<1>4. CASE WriteFails
  <2>1. (stdin \o <<>>) \o <<>> = stdin
    BY <1>1
  <2> QED
    BY <1>4, <2>1 DEF WriteFails, CloseQueue, Sent, ClosedInv, taskVars
<1> QED
  BY <1>2, <1>3, <1>4 DEF Sender
-----------------------------------------------------------------------------
(* Counting the commands of a task. *)

\* They are finitely many.
LEMMA MineFinite ==
  ASSUME NEW S, NEW s \in Seq(S), NEW t
  PROVE  /\ IsFiniteSet(Mine(s, t)) /\ Cardinality(Mine(s, t)) \in Nat
         /\ Mine(s, t) \subseteq 1..Len(s)
         /\ \A i : Nth(s, t, i) <= Cardinality(Mine(s, t)) /\ Nth(s, t, i) \in Nat
<1>1. Mine(s, t) \subseteq 1..Len(s)
  BY DEF Mine
<1>2. IsFiniteSet(1..Len(s))
  BY FS_Interval
<1>3. IsFiniteSet(Mine(s, t))
  BY <1>1, <1>2, FS_Subset
<1>4. ASSUME NEW i PROVE Nth(s, t, i) <= Cardinality(Mine(s, t)) /\ Nth(s, t, i) \in Nat
  <2> DEFINE T == {j \in Mine(s, t) : j <= i}
  <2>1. T \in SUBSET Mine(s, t)
    OBVIOUS
  <2>2. IsFiniteSet(T) /\ Cardinality(T) <= Cardinality(Mine(s, t))
    BY <1>3, <2>1, FS_Subset
  <2> QED
    BY <2>2, FS_CardinalityType DEF Nth
<1> QED
  BY <1>1, <1>3, <1>4, FS_CardinalityType

\* One more command is one more of its task, unless it was pushed, and the
\* others keep their numbers.
LEMMA MineAppend ==
  ASSUME NEW s \in Seq(CommandType), NEW c \in CommandType, NEW t
  PROVE  LET s2 == Append(s, c)
             n  == Cardinality(Mine(s, t))
         IN /\ \A i \in 1..Len(s) : s2[i] = s[i] /\ Nth(s2, t, i) = Nth(s, t, i)
            /\ c.task = t /\ c.nth # 0 =>
                 /\ Mine(s2, t) = Mine(s, t) \cup {Len(s) + 1}
                 /\ Cardinality(Mine(s2, t)) = n + 1
                 /\ s2[Len(s) + 1] = c /\ Nth(s2, t, Len(s) + 1) = n + 1
            /\ ~(c.task = t /\ c.nth # 0) => Mine(s2, t) = Mine(s, t)
<1> DEFINE s2 == Append(s, c)
           n  == Cardinality(Mine(s, t))
<1>1. /\ Len(s) \in Nat /\ Len(s2) = Len(s) + 1 /\ s2[Len(s) + 1] = c
      /\ \A i \in 1..Len(s) : s2[i] = s[i]
      /\ s2 \in Seq(CommandType)
  OBVIOUS
<1> HIDE DEF s2
<1>2. \A i \in 1..Len(s) : i \in Mine(s2, t) <=> i \in Mine(s, t)
  BY <1>1 DEF Mine
<1>3. Mine(s, t) \subseteq 1..Len(s) /\ Mine(s2, t) \subseteq 1..Len(s) + 1
  BY <1>1 DEF Mine
<1>4. ASSUME NEW i \in 1..Len(s) PROVE Nth(s2, t, i) = Nth(s, t, i)
  <2>1. {j \in Mine(s2, t) : j <= i} = {j \in Mine(s, t) : j <= i}
    BY <1>1, <1>2, <1>3
  <2> QED
    BY <2>1 DEF Nth
<1>5. ASSUME c.task = t, c.nth # 0
      PROVE  /\ Mine(s2, t) = Mine(s, t) \cup {Len(s) + 1}
             /\ Cardinality(Mine(s2, t)) = n + 1
             /\ Nth(s2, t, Len(s) + 1) = n + 1
  <2>1. Len(s) + 1 \in Mine(s2, t)
    BY <1>1, <1>5 DEF Mine
  <2>2. Mine(s2, t) = Mine(s, t) \cup {Len(s) + 1} /\ Len(s) + 1 \notin Mine(s, t)
    BY <1>1, <1>2, <1>3, <2>1
  <2>3. Cardinality(Mine(s2, t)) = n + 1
    BY <2>2, MineFinite, FS_AddElement
  <2>4. {j \in Mine(s2, t) : j <= Len(s) + 1} = Mine(s2, t)
    BY <1>1, <1>3
  <2> QED
    BY <2>2, <2>3, <2>4 DEF Nth
<1>6. ASSUME ~(c.task = t /\ c.nth # 0) PROVE Mine(s2, t) = Mine(s, t)
  <2>1. Len(s) + 1 \notin Mine(s2, t)
    BY <1>1, <1>6 DEF Mine
  <2>2. \A i \in 1..Len(s) + 1 : i = Len(s) + 1 \/ i \in 1..Len(s)
    BY <1>1
  <2>3. Mine(s2, t) \subseteq 1..Len(s)
    BY <1>3, <2>1, <2>2
  <2> QED
    BY <1>2, <1>3, <2>3
<1> QED
  BY <1>1, <1>4, <1>5, <1>6 DEF s2
-----------------------------------------------------------------------------
\* At the start there is no command.
LEMMA CommandInit == Init => CommandInv
<1> SUFFICES ASSUME Init PROVE CommandInv
  OBVIOUS
<1>1. Sent = <<>> /\ \A t \in TaskIds : tasks[t] = IdleTask
  BY DEF Init, Sent
<1>2. OrderInv
  BY <1>1 DEF Init, OrderInv, SentInOrder, ClosedInv, TaskInOrder, SentBefore, IdleTask
<1>3. \A t : Mine(Sent, t) = {}
  BY <1>1 DEF Mine
<1>4. CommandsKept
  <2> SUFFICES ASSUME NEW t \in TaskIds PROVE KeptOf(t)
    BY DEF CommandsKept, KeptOf
  <2>1. Cardinality(Mine(Sent, t)) = 0
    BY <1>3, FS_EmptySet
  <2>2. tasks[t].made = <<>> /\ tasks[t].cmds = <<>>
    BY <1>1 DEF IdleTask
  <2> QED
    BY <1>3, <2>1, <2>2 DEF KeptOf
<1> QED
  BY <1>2, <1>4 DEF CommandInv

\* A task whose commands and callbacks stay as they are.
Same(t) == /\ tasks'[t].cbs = tasks[t].cbs /\ tasks'[t].cmds = tasks[t].cmds
           /\ tasks'[t].made = tasks[t].made
           /\ tasks'[t].st = "sending" => tasks[t].st = "sending"
           /\ tasks[t].st \in {"sending", "done"} => tasks'[t].st = tasks[t].st

\* Where no command moves, nothing changes.
LEMMA SameKeeps ==
  ASSUME CommandInv, UNCHANGED <<Sent, rx>>, ClosedInv', \A t \in TaskIds : Same(t)
  PROVE  CommandInv'
<1>1. OrderInv'
  <2>1. SentInOrder'
    BY DEF CommandInv, OrderInv, SentInOrder
  <2>2. ASSUME NEW t \in TaskIds PROVE TaskInOrder(t)' /\ SentBefore(t)'
    <3>1. TaskInOrder(t) /\ SentBefore(t) /\ Same(t)
      BY DEF CommandInv, OrderInv
    <3>2. TaskInOrder(t)'
      BY <3>1 DEF TaskInOrder, Same
    <3>3. SentBefore(t)'
      BY <3>1 DEF SentBefore, Same
    <3> QED
      BY <3>2, <3>3
  <2> QED
    BY <2>1, <2>2 DEF OrderInv
<1>2. CommandsKept'
  <2>1. \A t : Mine(Sent, t)' = Mine(Sent, t) /\ \A i : Nth(Sent, t, i)' = Nth(Sent, t, i)
    BY DEF Mine, Nth
  <2> QED
    BY <2>1 DEF CommandInv, CommandsKept, Same
<1> QED
  BY <1>1, <1>2 DEF CommandInv

\* The sender stops: what has been written is what is left of what was sent.
LEMMA StopKeeps ==
  ASSUME TypeInv, CommandInv, UNCHANGED tasks, ClosedInv', rx' = "closed", Sent' = stdin
  PROVE  CommandInv'
<1>1. /\ Len(stdin) \in Nat /\ Len(Sent) \in Nat /\ Len(stdin) <= Len(Sent)
      /\ \A i \in 1..Len(stdin) : Sent[i] = stdin[i]
  BY StdinFirst
<1>2. /\ Len(Sent') = Len(stdin) /\ \A i \in 1..Len(Sent') : Sent'[i] = Sent[i]
      /\ 1..Len(Sent') \subseteq 1..Len(Sent)
  BY <1>1
<1>3. OrderInv'
  BY <1>2 DEF CommandInv, OrderInv, SentInOrder, TaskInOrder, SentBefore
<1>4. ASSUME NEW t
      PROVE  /\ Mine(Sent', t) \subseteq Mine(Sent, t)
             /\ \A i \in Mine(Sent', t) : Nth(Sent', t, i) = Nth(Sent, t, i)
  <2>1. Mine(Sent', t) \subseteq Mine(Sent, t)
    BY <1>2 DEF Mine
  <2>2. ASSUME NEW i \in Mine(Sent', t)
        PROVE  {j \in Mine(Sent', t) : j <= i} = {j \in Mine(Sent, t) : j <= i}
    BY <1>1, <1>2, <2>1 DEF Mine
  <2> QED
    BY <2>1, <2>2 DEF Nth
<1>5. ASSUME NEW t \in TaskIds
      PROVE  /\ Cardinality(Mine(Sent', t)) <= Len(tasks[t].made)
             /\ \A i \in Mine(Sent', t) : Sent'[i] = tasks[t].made[Nth(Sent', t, i)]
  <2>1. /\ Cardinality(Mine(Sent, t)) <= Len(tasks[t].made)
        /\ \A i \in Mine(Sent, t) : Sent[i] = tasks[t].made[Nth(Sent, t, i)]
    BY DEF CommandInv, CommandsKept
  <2>2. Cardinality(Mine(Sent', t)) <= Cardinality(Mine(Sent, t))
    BY <1>4, SentType, MineFinite, FS_Subset
  <2>3. /\ Cardinality(Mine(Sent', t)) \in Nat /\ Cardinality(Mine(Sent, t)) \in Nat
        /\ Len(tasks[t].made) \in Nat /\ Mine(Sent', t) \subseteq 1..Len(Sent')
    BY SentType, MineFinite
  <2> QED
    BY <1>2, <1>4, <2>1, <2>2, <2>3
<1>6. CommandsKept'
  BY <1>5 DEF CommandsKept
<1> QED
  BY <1>3, <1>6 DEF CommandInv

\* A callback pushes a command, which belongs to no line's commands.
LEMMA PushKeeps ==
  ASSUME TypeInv, CommandInv, NEW t \in TaskIds, Push(t)
  PROVE  CommandInv'
<1>1. tasks[t].st = "pushing" /\ tasks' = [tasks EXCEPT ![t].st = "suspended"]
      /\ UNCHANGED <<writing, stdin, rx>>
  BY DEF Push, Running
<1>2. \A u \in TaskIds : Same(u)
  BY <1>1, SentType DEF Same, TaskType, TypeInv, TypeOK, TasksType
<1>3. PICK c \in First(tasks[t].cbs) : Enqueue(Command(t, c, 0))
  BY DEF Push
<1>4. Command(t, c, 0) \in CommandType /\ Command(t, c, 0).nth = 0
  BY <1>3, SentType DEF First, TaskType, Command, CommandType
<1>5. ClosedInv' /\ (Sent' = Sent \/ Sent' = Append(Sent, Command(t, c, 0)))
  BY <1>1, <1>3, <1>4, EnqueueSends DEF CommandInv, OrderInv
<1>6. CASE Sent' = Sent
  BY <1>1, <1>2, <1>5, <1>6, SameKeeps
<1>7. CASE Sent' = Append(Sent, Command(t, c, 0))
  <2>1. /\ Len(Sent) \in Nat /\ Len(Sent') = Len(Sent) + 1
        /\ \A i \in 1..Len(Sent) : Sent'[i] = Sent[i]
        /\ Sent'[Len(Sent) + 1].nth = 0
    BY <1>4, <1>7, SentType
  <2>2. \A i \in 1..Len(Sent') : i \in 1..Len(Sent) \/ Sent'[i].nth = 0
    BY <2>1
  <2>3. SentInOrder'
    BY <2>1, <2>2 DEF CommandInv, OrderInv, SentInOrder, Ours
  <2>4. ASSUME NEW u \in TaskIds PROVE TaskInOrder(u)' /\ SentBefore(u)'
    <3>1. TaskInOrder(u) /\ SentBefore(u) /\ Same(u)
      BY <1>2 DEF CommandInv, OrderInv
    <3>2. TaskInOrder(u)'
      BY <3>1 DEF TaskInOrder, Same
    <3>3. SentBefore(u)'
      BY <2>1, <2>2, <3>1 DEF SentBefore, Same
    <3> QED
      BY <3>2, <3>3
  <2>5. ASSUME NEW u
        PROVE  /\ Mine(Sent', u) = Mine(Sent, u)
               /\ \A i \in 1..Len(Sent) : Nth(Sent', u, i) = Nth(Sent, u, i)
    <3> DEFINE cmd == Command(t, c, 0)
               s2  == Append(Sent, cmd)
    <3>1. Sent \in Seq(CommandType) /\ cmd \in CommandType /\ ~(cmd.task = u /\ cmd.nth # 0)
      <4>1. Sent \in Seq(CommandType) /\ cmd \in CommandType
        BY <1>4, SentType
      <4>2. cmd.nth = 0
        BY <1>4
      <4> QED
        BY <4>1, <4>2
    <3> HIDE DEF cmd
    <3>2. /\ \A i \in 1..Len(Sent) : Nth(s2, u, i) = Nth(Sent, u, i)
          /\ Mine(s2, u) = Mine(Sent, u)
      BY <3>1, MineAppend
    <3> QED
      BY <1>7, <3>2 DEF cmd
  <2>6. \A u : Mine(Sent, u) \subseteq 1..Len(Sent)
    BY DEF Mine
  <2>7. CommandsKept'
    BY <1>1, <1>2, <2>1, <2>5, <2>6 DEF CommandInv, CommandsKept, Same
  <2> QED
    BY <1>5, <2>3, <2>4, <2>7 DEF CommandInv, OrderInv
<1> QED
  BY <1>5, <1>6, <1>7

\* A callback returns: its commands come after those of the callbacks before it,
\* and before those of the callbacks that are left.
LEMMA ReturnKeeps ==
  ASSUME TypeInv, CommandInv, NEW t \in TaskIds, NEW n \in Results, Return(t, n)
  PROVE  CommandInv'
<1> DEFINE new(c)  == IF t = 0 THEN <<>> ELSE [k \in 1..n |-> Command(t, c, k)]
           left(c) == tasks[t].cbs \ {c}
           st(c)   == IF left(c) # {} THEN "suspended"
                      ELSE IF tasks[t].cmds \o new(c) # <<>> THEN "sending" ELSE "done"
<1>1. PICK c \in First(tasks[t].cbs) :
        tasks' = [tasks EXCEPT ![t].cbs = left(c), ![t].cmds = tasks[t].cmds \o new(c),
                               ![t].made = @ \o new(c), ![t].st = st(c)]
  BY DEF Return
<1>2. tasks[t].st = "lua" /\ UNCHANGED <<stdin, writing, queue, rx>>
  BY DEF Return, Running, senderVars
<1>3. UNCHANGED Sent
  BY <1>2 DEF Sent
<1>4. /\ tasks'[t].cbs = left(c) /\ tasks'[t].cmds = tasks[t].cmds \o new(c)
      /\ tasks'[t].made = tasks[t].made \o new(c) /\ tasks'[t].st = st(c)
      /\ \A u \in TaskIds : u # t => tasks'[u] = tasks[u]
  <2> HIDE DEF left, new, st
  <2>1. tasks[t] \in TaskType /\ tasks \in [TaskIds -> TaskType]
    BY SentType DEF TypeInv, TypeOK, TasksType
  <2> QED
    BY <1>1, <2>1 DEF TaskType
<1>5. st(c) = "sending" => left(c) = {}
  OBVIOUS
<1>6. c \in Callback /\ \A d \in left(c) : Before(c, d)
  BY SentType DEF First, TaskType
<1>7. n \in Nat /\ c \in tasks[t].cbs
  BY LinesAssumption DEF First
<1>8. /\ new(c) \in Seq(CommandType)
      /\ \A k \in 1..Len(new(c)) : new(c)[k] = Command(t, c, k)
  <2>1. CASE t = 0
    BY <2>1
  <2>2. CASE t # 0
    <3>1. \A k \in 1..n : Command(t, c, k) \in CommandType
      BY <1>6, <1>7 DEF Command, CommandType
    <3>2. new(c) = [k \in 1..n |-> Command(t, c, k)]
      BY <2>2
    <3> HIDE DEF new
    <3>3. new(c) \in [1..n -> CommandType]
      BY <3>1, <3>2
    <3>4. new(c) \in Seq(CommandType) /\ Len(new(c)) = n
      BY <1>7, <3>3
    <3> QED
      BY <3>2, <3>4
  <2> QED
    BY <2>1, <2>2
<1> HIDE DEF new, st
<1>9. PICK cs, ns : cs = tasks[t].cmds /\ ns = new(c)
  OBVIOUS
<1>10. /\ cs \in Seq(CommandType) /\ ns \in Seq(CommandType)
       /\ Len(cs) \in Nat /\ Len(ns) \in Nat /\ Len(cs \o ns) = Len(cs) + Len(ns)
       /\ \A k \in 1..Len(cs) + Len(ns) :
            (cs \o ns)[k] = IF k <= Len(cs) THEN cs[k] ELSE ns[k - Len(cs)]
  <2>1. cs \in Seq(CommandType) /\ ns \in Seq(CommandType)
    BY <1>8, <1>9, SentType
  <2> QED
    BY <2>1
<1>11. \A k \in 1..Len(ns) : /\ ns[k].task = t /\ ns[k].cb = c /\ ns[k].nth = k
  <2> SUFFICES ASSUME NEW k \in 1..Len(ns)
               PROVE  ns[k].task = t /\ ns[k].cb = c /\ ns[k].nth = k
    OBVIOUS
  <2>1. ns[k] = Command(t, c, k)
    BY <1>8, <1>9, Zenon
  <2> QED
    BY <2>1 DEF Command
<1>12. TaskInOrder(t)'
  <2>1. /\ \A k \in 1..Len(cs) : /\ cs[k].task = t /\ cs[k].nth # 0
                                 /\ \A l \in 1..Len(cs) : k < l => Precedes(cs[k], cs[l])
                                 /\ \A d \in tasks[t].cbs : Before(cs[k].cb, d)
    BY <1>9 DEF CommandInv, OrderInv, TaskInOrder
  <2> DEFINE all == cs \o ns
  <2>2. ASSUME NEW k \in 1..Len(all)
        PROVE  \/ k \in 1..Len(cs) /\ all[k] = cs[k]
               \/ k - Len(cs) \in 1..Len(ns) /\ all[k] = ns[k - Len(cs)] /\ k > Len(cs)
    BY <1>10
  <2> HIDE DEF all
  <2>3. \A k \in 1..Len(all) : /\ all[k].task = t /\ all[k].nth # 0
                               /\ \A d \in left(c) : Before(all[k].cb, d)
    BY <1>6, <1>11, <2>1, <2>2
  <2>4. ASSUME NEW k \in 1..Len(all), NEW l \in 1..Len(all), k < l
        PROVE  Precedes(all[k], all[l])
    <3>1. CASE l \in 1..Len(cs)
      <4>1. k \in 1..Len(cs)
        BY <1>10, <2>4, <3>1
      <4>2. all[k] = cs[k] /\ all[l] = cs[l]
        BY <1>10, <2>2, <3>1, <4>1
      <4> QED
        BY <2>1, <2>4, <3>1, <4>1, <4>2
    <3>2. CASE k \in 1..Len(cs) /\ l > Len(cs)
      <4>1. all[k] = cs[k]
        BY <1>10, <2>2, <3>2
      <4>2. l - Len(cs) \in 1..Len(ns) /\ all[l] = ns[l - Len(cs)]
        BY <1>10, <2>2, <3>2
      <4>3. all[l].cb = c
        BY <1>11, <4>2
      <4>4. Before(cs[k].cb, c)
        BY <1>7, <2>1, <3>2
      <4> QED
        BY <4>1, <4>3, <4>4, Zenon DEF Precedes
    <3>3. CASE k > Len(cs) /\ l > Len(cs)
      <4>1. k - Len(cs) \in 1..Len(ns) /\ all[k] = ns[k - Len(cs)]
        BY <1>10, <2>2, <3>3
      <4>2. l - Len(cs) \in 1..Len(ns) /\ all[l] = ns[l - Len(cs)]
        BY <1>10, <2>2, <3>3
      <4>3. all[k].cb = c /\ all[k].nth = k - Len(cs)
        BY <1>11, <4>1
      <4>4. all[l].cb = c /\ all[l].nth = l - Len(cs)
        BY <1>11, <4>2
      <4>5. k - Len(cs) < l - Len(cs)
        BY <1>10, <2>4
      <4> QED
        BY <4>3, <4>4, <4>5 DEF Precedes
    <3> QED
      BY <1>10, <2>2, <3>1, <3>2, <3>3
  <2>5. tasks'[t].cmds = all /\ tasks'[t].cbs = left(c)
    BY <1>4, <1>9 DEF all
  <2> QED
    BY <1>4, <1>5, <2>3, <2>4, <2>5 DEF TaskInOrder
<1>13. \A i \in 1..Len(Sent) : ~(Sent[i].task = t /\ Sent[i].nth # 0)
  BY <1>2 DEF CommandInv, OrderInv, SentBefore
<1>14. OrderInv'
  <2>1. SentInOrder' /\ ClosedInv'
    BY <1>2, <1>3 DEF CommandInv, OrderInv, SentInOrder, ClosedInv
  <2>2. SentBefore(t)'
    BY <1>3, <1>13 DEF SentBefore
  <2>3. ASSUME NEW u \in TaskIds, u # t PROVE TaskInOrder(u)' /\ SentBefore(u)'
    <3>1. TaskInOrder(u) /\ SentBefore(u) /\ tasks'[u] = tasks[u]
      BY <1>4, <2>3 DEF CommandInv, OrderInv
    <3>2. TaskInOrder(u)'
      BY <3>1 DEF TaskInOrder
    <3>3. SentBefore(u)'
      BY <1>3, <3>1 DEF SentBefore
    <3> QED
      BY <3>2, <3>3
  <2> QED
    BY <1>12, <2>1, <2>2, <2>3 DEF OrderInv
<1>15. CommandsKept'
  <2>1. \A u : Mine(Sent, u)' = Mine(Sent, u) /\ \A i : Nth(Sent, u, i)' = Nth(Sent, u, i)
    BY <1>3 DEF Mine, Nth
  <2>2. ASSUME NEW u \in TaskIds, u # t PROVE KeptOf(u)'
    <3>1. KeptOf(u) /\ tasks'[u] = tasks[u]
      BY <1>4, <2>2 DEF CommandInv, CommandsKept, KeptOf
    <3> QED
      BY <1>2, <1>3, <2>1, <3>1 DEF KeptOf
  <2>3. KeptOf(t)'
    <3>1. PICK ms, m : ms = tasks[t].made /\ m = Cardinality(Mine(Sent, t))
      OBVIOUS
    <3>2. ms \in Seq(CommandType) /\ m \in Nat /\ Len(ms) \in Nat
      BY <3>1, SentType, MineFinite
    <3>3. /\ Len(ms \o ns) = Len(ms) + Len(ns)
          /\ \A k \in 1..Len(ms) + Len(ns) :
               (ms \o ns)[k] = IF k <= Len(ms) THEN ms[k] ELSE ns[k - Len(ms)]
      BY <1>10, <3>2
    <3>4. /\ m <= Len(ms)
          /\ rx = "open" => /\ Len(ms) = m + Len(cs)
                            /\ \A k \in 1..Len(cs) : cs[k] = ms[m + k]
      BY <1>9, <3>1 DEF CommandInv, CommandsKept
    <3>5. m <= Len(ms \o ns)
      BY <1>10, <3>2, <3>3, <3>4
    <3>6. ASSUME rx = "open"
          PROVE  /\ Len(ms \o ns) = m + Len(cs \o ns)
                 /\ \A k \in 1..Len(cs \o ns) : (cs \o ns)[k] = (ms \o ns)[m + k]
      <4>1. Len(ms) = m + Len(cs) /\ \A k \in 1..Len(cs) : cs[k] = ms[m + k]
        BY <3>4, <3>6
      <4>2. Len(ms \o ns) = m + Len(cs \o ns)
        BY <1>10, <3>2, <3>3, <4>1
      <4>3. ASSUME NEW k \in 1..Len(cs \o ns) PROVE (cs \o ns)[k] = (ms \o ns)[m + k]
        <5>1. k \in 1..Len(cs) + Len(ns) /\ m + k \in 1..Len(ms) + Len(ns)
          BY <1>10, <3>2, <4>1
        <5>2. CASE k <= Len(cs)
          <6>1. (cs \o ns)[k] = cs[k] /\ k \in 1..Len(cs)
            BY <1>10, <5>1, <5>2
          <6>2. (ms \o ns)[m + k] = ms[m + k]
            BY <1>10, <3>2, <3>3, <4>1, <5>1, <5>2
          <6> QED
            BY <4>1, <6>1, <6>2
        <5>3. CASE k > Len(cs)
          <6>1. (cs \o ns)[k] = ns[k - Len(cs)]
            BY <1>10, <5>1, <5>3
          <6>2. (ms \o ns)[m + k] = ns[m + k - Len(ms)]
            BY <1>10, <3>2, <3>3, <4>1, <5>1, <5>3
          <6>3. m + k - Len(ms) = k - Len(cs)
            BY <1>10, <3>2, <4>1, <5>1
          <6> QED
            BY <6>1, <6>2, <6>3
        <5> QED
          BY <1>10, <5>1, <5>2, <5>3
      <4> QED
        BY <4>2, <4>3
    <3>7. Mine(Sent, t) = {}
      BY <1>13 DEF Mine
    <3>8. tasks'[t].made = ms \o ns /\ tasks'[t].cmds = cs \o ns
          /\ Cardinality(Mine(Sent, t)') = m /\ Mine(Sent, t)' = {} /\ rx' = rx
      BY <1>2, <1>4, <1>9, <2>1, <3>1, <3>7
    <3> QED
      BY <3>5, <3>6, <3>8 DEF KeptOf
  <2> QED
    BY <2>2, <2>3 DEF CommandsKept, KeptOf
<1> QED
  BY <1>14, <1>15 DEF CommandInv

\* A task sends the first of its commands, or fails to.
LEMMA SendKeeps ==
  ASSUME TypeInv, CommandInv, NEW t \in TaskIds, Send(t)
  PROVE  CommandInv'
<1>1. /\ tasks[t].st = "sending" /\ tasks[t].cbs = {}
      /\ UNCHANGED <<writing, stdin, rx>>
  BY DEF Send, Running, CommandInv, OrderInv, TaskInOrder
<1>2. PICK cs, x : cs = tasks[t].cmds /\ x = Head(cs)
  OBVIOUS
<1>3. /\ cs \in Seq(CommandType) /\ cs # <<>>
      /\ Len(cs) \in Nat /\ Len(cs) > 0 /\ x = cs[1]
      /\ x \in CommandType /\ Tail(cs) \in Seq(CommandType) /\ Len(Tail(cs)) = Len(cs) - 1
      /\ \A k \in 1..Len(Tail(cs)) : Tail(cs)[k] = cs[k + 1] /\ k + 1 \in 1..Len(cs)
  <2>1. cs \in Seq(CommandType) /\ cs # <<>>
    BY <1>1, <1>2, SentType DEF TypeInv, TaskInv
  <2> QED
    BY <1>2, <2>1
<1>4. /\ tasks'[t].cbs = {} /\ tasks'[t].cmds = Tail(cs)
      /\ tasks'[t].made = tasks[t].made /\ tasks'[t].st \in {"sending", "done"}
      /\ \A u \in TaskIds : u # t => tasks'[u] = tasks[u]
  <2>1. tasks \in [TaskIds -> TaskType]
    BY DEF TypeInv, TypeOK, TasksType
  <2> QED
    BY <1>1, <1>2, <2>1 DEF Send, TaskType
<1>5. ClosedInv' /\ \/ rx = "closed" /\ Sent' = Sent
                    \/ rx = "open" /\ Sent' = Append(Sent, x)
  BY <1>1, <1>2, <1>3, EnqueueSends DEF Send, CommandInv, OrderInv
<1>6. /\ x.task = t /\ x.nth # 0
      /\ \A k \in 1..Len(Tail(cs)) : Precedes(x, Tail(cs)[k])
  <2>1. 1 \in 1..Len(cs) /\ \A k \in 1..Len(cs) : 1 < k => Precedes(cs[1], cs[k])
    BY <1>2, <1>3 DEF CommandInv, OrderInv, TaskInOrder
  <2>2. x.task = t /\ x.nth # 0
    BY <1>2, <1>3, <2>1 DEF CommandInv, OrderInv, TaskInOrder
  <2>3. \A k \in 1..Len(Tail(cs)) : 1 < k + 1
    BY <1>3
  <2> QED
    BY <1>3, <2>1, <2>2, <2>3
<1>7. TaskInOrder(t)'
  <2>1. \A k, l \in 1..Len(Tail(cs)) : k < l => k + 1 < l + 1
    BY <1>3
  <2>2. \A k \in 1..Len(cs) :
          /\ cs[k].task = t /\ cs[k].nth # 0
          /\ \A l \in 1..Len(cs) : k < l => Precedes(cs[k], cs[l])
    BY <1>2 DEF CommandInv, OrderInv, TaskInOrder
  <2>3. \A k \in 1..Len(Tail(cs)) : Tail(cs)[k].task = t /\ Tail(cs)[k].nth # 0
    BY <1>3, <2>2
  <2>4. ASSUME NEW k \in 1..Len(Tail(cs)), NEW l \in 1..Len(Tail(cs)), k < l
        PROVE  Precedes(Tail(cs)[k], Tail(cs)[l])
    BY <1>3, <2>1, <2>2, <2>4
  <2> QED
    BY <1>4, <2>3, <2>4 DEF TaskInOrder
<1>8. ASSUME NEW u \in TaskIds, u # t PROVE TaskInOrder(u)'
  BY <1>4, <1>8 DEF CommandInv, OrderInv, TaskInOrder
<1>9. \A i \in 1..Len(Sent) : Sent[i].task = t /\ Sent[i].nth # 0 =>
        Precedes(Sent[i], x) /\ \A k \in 1..Len(Tail(cs)) : Precedes(Sent[i], Tail(cs)[k])
  BY <1>2, <1>3 DEF CommandInv, OrderInv, SentBefore
<1>10. CASE rx = "closed" /\ Sent' = Sent
  <2>1. SentInOrder' /\ \A u \in TaskIds : SentBefore(u)'
    <3>1. SentInOrder'
      BY <1>10 DEF CommandInv, OrderInv, SentInOrder
    <3>2. SentBefore(t)'
      BY <1>4, <1>9, <1>10 DEF SentBefore
    <3>3. ASSUME NEW u \in TaskIds, u # t PROVE SentBefore(u)'
      <4>1. SentBefore(u) /\ tasks'[u] = tasks[u]
        BY <1>4, <3>3 DEF CommandInv, OrderInv
      <4> QED
        BY <1>10, <4>1 DEF SentBefore
    <3> QED
      BY <3>1, <3>2, <3>3
  <2>2. CommandsKept'
    <3>1. \A u : Mine(Sent, u)' = Mine(Sent, u) /\ \A i : Nth(Sent, u, i)' = Nth(Sent, u, i)
      BY <1>10 DEF Mine, Nth
    <3> QED
      BY <1>1, <1>4, <1>10, <3>1 DEF CommandInv, CommandsKept
  <2> QED
    BY <1>5, <1>7, <1>8, <2>1, <2>2 DEF CommandInv, OrderInv
<1>11. CASE rx = "open" /\ Sent' = Append(Sent, x)
  <2> DEFINE s2 == Append(Sent, x)
  <2>1. /\ Len(Sent) \in Nat /\ Len(s2) = Len(Sent) + 1
        /\ \A i \in 1..Len(Sent) : s2[i] = Sent[i]
        /\ s2[Len(Sent) + 1] = x
        /\ \A i \in 1..Len(s2) : i = Len(Sent) + 1 \/ i \in 1..Len(Sent)
    BY <1>3, SentType
  <2> HIDE DEF s2
  <2>2. Sent' = s2
    BY <1>11 DEF s2
  <2>3. SentInOrder'
    <3>1. ASSUME NEW i \in 1..Len(s2), NEW j \in 1..Len(s2), i < j, Ours(s2[i], s2[j])
          PROVE  Precedes(s2[i], s2[j])
      <4>1. i \in 1..Len(Sent)
        BY <2>1, <3>1
      <4>2. CASE j \in 1..Len(Sent)
        BY <2>1, <3>1, <4>1, <4>2 DEF CommandInv, OrderInv, SentInOrder
      <4>3. CASE j = Len(Sent) + 1
        BY <1>6, <1>9, <2>1, <3>1, <4>1, <4>3 DEF Ours
      <4> QED
        BY <2>1, <4>2, <4>3
    <3> QED
      BY <2>2, <3>1 DEF SentInOrder
  <2>4. SentBefore(t)'
    <3>1. \A i \in 1..Len(s2) : s2[i].task = t /\ s2[i].nth # 0 =>
            \A k \in 1..Len(Tail(cs)) : Precedes(s2[i], Tail(cs)[k])
      BY <1>6, <1>9, <2>1
    <3> QED
      BY <1>4, <2>2, <3>1 DEF SentBefore
  <2>5. ASSUME NEW u \in TaskIds, u # t PROVE SentBefore(u)'
    BY <1>4, <1>6, <2>1, <2>2, <2>5 DEF CommandInv, OrderInv, SentBefore
  <2>6. ASSUME NEW u \in TaskIds
        PROVE  /\ \A i \in 1..Len(Sent) : Nth(s2, u, i) = Nth(Sent, u, i)
               /\ u = t => /\ Mine(s2, u) = Mine(Sent, u) \cup {Len(Sent) + 1}
                           /\ Cardinality(Mine(s2, u)) = Cardinality(Mine(Sent, u)) + 1
                           /\ Nth(s2, u, Len(Sent) + 1) = Cardinality(Mine(Sent, u)) + 1
               /\ u # t => Mine(s2, u) = Mine(Sent, u)
               /\ Mine(Sent, u) \subseteq 1..Len(Sent)
               /\ Cardinality(Mine(Sent, u)) \in Nat
    <3>1. Sent \in Seq(CommandType) /\ x \in CommandType
      BY <1>3, SentType
    <3>2. /\ \A i \in 1..Len(Sent) : Nth(s2, u, i) = Nth(Sent, u, i)
          /\ x.task = u /\ x.nth # 0 =>
               /\ Mine(s2, u) = Mine(Sent, u) \cup {Len(Sent) + 1}
               /\ Cardinality(Mine(s2, u)) = Cardinality(Mine(Sent, u)) + 1
               /\ Nth(s2, u, Len(Sent) + 1) = Cardinality(Mine(Sent, u)) + 1
          /\ ~(x.task = u /\ x.nth # 0) => Mine(s2, u) = Mine(Sent, u)
      <4> DEFINE S == Sent
      <4> HIDE DEF S
      <4>1. LET a == Append(S, x)
                n == Cardinality(Mine(S, u))
            IN  /\ \A i \in 1..Len(S) : a[i] = S[i] /\ Nth(a, u, i) = Nth(S, u, i)
                /\ x.task = u /\ x.nth # 0 =>
                     /\ Mine(a, u) = Mine(S, u) \cup {Len(S) + 1}
                     /\ Cardinality(Mine(a, u)) = n + 1
                     /\ a[Len(S) + 1] = x /\ Nth(a, u, Len(S) + 1) = n + 1
                /\ ~(x.task = u /\ x.nth # 0) => Mine(a, u) = Mine(S, u)
        BY <3>1, MineAppend, Zenon DEF S
      <4> QED
        BY <4>1, Zenon DEF S, s2
    <3>3. Mine(Sent, u) \subseteq 1..Len(Sent) /\ Cardinality(Mine(Sent, u)) \in Nat
      BY <3>1, MineFinite
    <3> QED
      BY <1>6, <3>2, <3>3
  <2>7. ASSUME NEW u \in TaskIds PROVE KeptOf(u)'
    <3>1. KeptOf(u) /\ rx = "open"
      BY <1>11 DEF CommandInv, CommandsKept, KeptOf
    <3>2. CASE u # t
      BY <1>1, <1>4, <2>1, <2>2, <2>6, <3>1, <3>2 DEF KeptOf
    <3>3. CASE u = t
      <4>1. PICK ms, m : ms = tasks[t].made /\ m = Cardinality(Mine(Sent, t))
        OBVIOUS
      <4>2. /\ m \in Nat /\ Len(ms) = m + Len(cs)
            /\ \A k \in 1..Len(cs) : cs[k] = ms[m + k]
            /\ \A i \in Mine(Sent, t) : Sent[i] = ms[Nth(Sent, t, i)]
        BY <1>2, <2>6, <3>1, <3>3, <4>1 DEF KeptOf
      <4>3. x = ms[m + 1] /\ m + 1 <= Len(ms) /\ Len(ms) = (m + 1) + Len(Tail(cs))
        BY <1>3, <4>2
      <4>4. ASSUME NEW k \in 1..Len(Tail(cs)) PROVE Tail(cs)[k] = ms[(m + 1) + k]
        <5>1. Tail(cs)[k] = cs[k + 1] /\ k + 1 \in 1..Len(cs)
          BY <1>3
        <5>2. m + (k + 1) = (m + 1) + k
          BY <1>3, <4>2
        <5> QED
          BY <4>2, <5>1, <5>2
      <4>5. \A i \in Mine(s2, t) : s2[i] = ms[Nth(s2, t, i)]
        BY <2>1, <2>6, <3>3, <4>1, <4>2, <4>3
      <4>6. Cardinality(Mine(s2, t)) = m + 1
        BY <2>6, <3>3, <4>1
      <4>7. /\ tasks'[t].made = ms /\ tasks'[t].cmds = Tail(cs) /\ rx' = rx
        BY <1>1, <1>4, <4>1
      <4> QED
        BY <2>2, <3>3, <4>3, <4>4, <4>5, <4>6, <4>7 DEF KeptOf
    <3> QED
      BY <3>2, <3>3
  <2> QED
    BY <1>5, <1>7, <1>8, <2>3, <2>4, <2>5, <2>7
    DEF CommandInv, OrderInv, CommandsKept, KeptOf
<1> QED
  BY <1>5, <1>10, <1>11

\* The other steps of a task move no command.
LEMMA QuietKeeps ==
  ASSUME TypeInv, CommandInv, NEW t \in TaskIds,
         Resume(t) \/ Yield(t) \/ Register(t) \/ BeginPush(t)
           \/ \E r \in LateRegs : BeginRegister(t, r)
  PROVE  CommandInv'
<1>1. UNCHANGED senderVars
  BY DEF Resume, Yield, Register, BeginPush, BeginRegister
<1>2. UNCHANGED <<Sent, rx>> /\ ClosedInv'
  BY <1>1 DEF senderVars, Sent, CommandInv, OrderInv, ClosedInv
<1>3. tasks \in [TaskIds -> TaskType]
  BY DEF TypeInv, TypeOK, TasksType
<1>4. \A u \in TaskIds : Same(u)
  <2>1. ASSUME NEW st, st # "sending", tasks[t].st \notin {"sending", "done"},
               \/ tasks' = [tasks EXCEPT ![t].st = st]
               \/ \E r : tasks' = [tasks EXCEPT ![t].st = st, ![t].into = r]
        PROVE  \A u \in TaskIds : Same(u)
    <3>1. \A u \in TaskIds : u # t => tasks'[u] = tasks[u]
      BY <1>3, <2>1
    <3>2. tasks'[t].cbs = tasks[t].cbs /\ tasks'[t].cmds = tasks[t].cmds
          /\ tasks'[t].made = tasks[t].made /\ tasks'[t].st = st
      BY <1>3, <2>1 DEF TaskType
    <3> QED
      BY <2>1, <3>1, <3>2 DEF Same
  <2>2. CASE Resume(t) \/ Yield(t) \/ BeginPush(t)
    BY <2>1, <2>2 DEF Resume, Yield, BeginPush, Running
  <2>3. CASE Register(t)
    BY <2>1, <2>3 DEF Register, Running
  <2>4. CASE \E r \in LateRegs : BeginRegister(t, r)
    BY <2>1, <2>4 DEF BeginRegister, Running
  <2> QED
    BY <2>2, <2>3, <2>4
<1> QED
  BY <1>2, <1>4, SameKeeps

\* A new task has sent nothing and has nothing to send.
LEMMA NewTaskKeeps ==
  ASSUME TypeInv, CommandInv, SpawnDispatch \/ RunShutdownCallbacks
  PROVE  CommandInv'
<1>1. UNCHANGED senderVars
  BY DEF SpawnDispatch, RunShutdownCallbacks
<1>2. UNCHANGED <<Sent, rx>> /\ ClosedInv'
  BY <1>1 DEF senderVars, Sent, CommandInv, OrderInv, ClosedInv
<1>3. CASE UNCHANGED tasks
  BY <1>2, <1>3, SameKeeps DEF Same
<1>4. ASSUME NEW t \in TaskIds, tasks[t].st = "none", NEW w,
             tasks' = [tasks EXCEPT ![t] = NewTask(got, gen, w)]
      PROVE  CommandInv'
  <2>1. /\ tasks'[t].cmds = <<>> /\ tasks'[t].made = <<>> /\ tasks'[t].st # "sending"
        /\ \A u \in TaskIds : u # t => tasks'[u] = tasks[u]
    BY <1>4 DEF NewTask, TypeInv, TypeOK, TasksType
  <2>2. \A i \in 1..Len(Sent) : ~(Sent[i].task = t /\ Sent[i].nth # 0)
    BY <1>4 DEF CommandInv, OrderInv, SentBefore
  <2>3. OrderInv'
    <3>1. TaskInOrder(t)' /\ SentBefore(t)'
      BY <1>2, <2>1, <2>2 DEF TaskInOrder, SentBefore
    <3>2. ASSUME NEW u \in TaskIds, u # t PROVE TaskInOrder(u)' /\ SentBefore(u)'
      <4>1. TaskInOrder(u) /\ SentBefore(u) /\ tasks'[u] = tasks[u]
        BY <2>1, <3>2 DEF CommandInv, OrderInv
      <4> QED
        BY <1>2, <4>1 DEF TaskInOrder, SentBefore
    <3>3. SentInOrder'
      BY <1>2 DEF CommandInv, OrderInv, SentInOrder
    <3> QED
      BY <1>2, <3>1, <3>2, <3>3 DEF OrderInv
  <2>4. CommandsKept'
    <3>1. \A u : Mine(Sent, u)' = Mine(Sent, u) /\ \A i : Nth(Sent, u, i)' = Nth(Sent, u, i)
      BY <1>2 DEF Mine, Nth
    <3>2. Mine(Sent, t) = {} /\ Cardinality(Mine(Sent, t)) = 0
      BY <2>2, FS_EmptySet DEF Mine
    <3>3. KeptOf(t)'
      <4>1. Mine(Sent, t)' = {} /\ Cardinality(Mine(Sent, t)') = 0
        BY <3>1, <3>2
      <4> QED
        BY <2>1, <4>1 DEF KeptOf
    <3>4. ASSUME NEW u \in TaskIds, u # t PROVE KeptOf(u)'
      BY <1>2, <2>1, <3>1, <3>4 DEF CommandInv, CommandsKept, KeptOf
    <3> QED
      BY <3>3, <3>4 DEF CommandsKept, KeptOf
  <2> QED
    BY <2>3, <2>4 DEF CommandInv
<1>5. CASE SpawnDispatch /\ got # {}
  <2>1. /\ tasks' = [tasks EXCEPT ![spawned + 1] = NewTask(got, gen, why)]
        /\ spawned' = spawned + 1 /\ pc = "spawn"
    BY <1>5 DEF SpawnDispatch
  <2>2. spawned + 1 \in TaskIds
    <3>1. Dispatching = 1
      BY <2>1 DEF Dispatching
    <3> QED
      BY <3>1, Numbers, BoundsAssumption DEF Budget, TypeInv, TypeOK, UsedType, TaskIds
  <2>3. tasks[spawned + 1].st = "none"
    BY <2>2, Numbers DEF TypeInv, IdleInv
  <2> QED
    BY <1>4, <2>1, <2>2, <2>3
<1>6. CASE RunShutdownCallbacks
  <2>1. /\ tasks' = [tasks EXCEPT ![0] = NewTask(got, gen, {})] /\ pc = "shutdown"
    BY <1>6 DEF RunShutdownCallbacks
  <2>2. 0 \in TaskIds /\ tasks[0].st = "none"
    BY <2>1, BoundsAssumption DEF TaskIds, TypeInv, IdleInv
  <2> QED
    BY <1>4, <2>1, <2>2
<1> QED
  BY <1>3, <1>5, <1>6 DEF SpawnDispatch, taskVars

\* Every step keeps the commands in order and together.
LEMMA CommandStep == TypeInv /\ CommandInv /\ [Next]_vars => CommandInv'
<1> SUFFICES ASSUME TypeInv, CommandInv, [Next]_vars PROVE CommandInv'
  OBVIOUS
<1>1. CASE UNCHANGED <<tasks, senderVars>>
  <2>1. UNCHANGED <<Sent, rx>> /\ ClosedInv'
    BY <1>1 DEF senderVars, Sent, CommandInv, OrderInv, ClosedInv
  <2> QED
    BY <1>1, <2>1, SameKeeps DEF Same
<1>2. CASE Main
  <2>1. CASE SpawnDispatch \/ RunShutdownCallbacks
    BY <2>1, NewTaskKeeps
  <2>2. CASE ~(SpawnDispatch \/ RunShutdownCallbacks)
    <3>1. UNCHANGED <<tasks, senderVars>>
      BY <1>2, <2>2 DEF Main, ReadLine, CronWakes, LoopEnds, SeeExit, LockList, Snapshot,
         Exit, StartReload, ClearList, LoadDone, LoadFails, LoadPlugin, taskVars
    <3> QED
      BY <1>1, <3>1
  <2> QED
    BY <2>1, <2>2
<1>3. CASE \E t \in TaskIds : Task(t)
  BY <1>3, QuietKeeps, PushKeeps, ReturnKeeps, SendKeeps DEF Task
<1>4. CASE Sender
  <2>1. ClosedInv
    BY DEF CommandInv, OrderInv
  <2>2. /\ UNCHANGED tasks /\ ClosedInv'
        /\ \/ rx' = rx /\ Sent' = Sent
           \/ rx' = "closed" /\ Sent' = stdin
    BY <1>4, <2>1, SenderMoves
  <2> QED
    BY <2>2, StopKeeps, SameKeeps DEF Same
<1>5. CASE Environment \/ Terminated \/ UNCHANGED vars
  <2>1. UNCHANGED <<tasks, senderVars>>
    BY <1>5 DEF Environment, ServerPrints, ServerExits, TypeReload, Terminated, vars, taskVars
  <2> QED
    BY <1>1, <2>1
<1> QED
  BY <1>2, <1>3, <1>4, <1>5 DEF Next

\* The commands that one line's callbacks return reach the server in the order
\* of the callbacks, whatever other tasks send in between.
THEOREM CommandOrderHolds == Spec => []CommandOrder
<1>1. TypeInv /\ CommandInv => CommandOrder
  <2> SUFFICES ASSUME TypeInv, SentInOrder PROVE CommandOrder
    BY DEF CommandInv, OrderInv
  <2>1. /\ Len(stdin) \in Nat /\ Len(Sent) \in Nat /\ Len(stdin) <= Len(Sent)
        /\ \A i \in 1..Len(stdin) : Sent[i] = stdin[i]
    BY StdinFirst
  <2>2. \A i \in 1..Len(stdin) : i \in 1..Len(Sent)
    BY <2>1
  <2> QED
    BY <2>1, <2>2 DEF CommandOrder, SentInOrder, Ours, Precedes
<1> QED
  BY TypeInit, TypeStep, CommandInit, CommandStep, <1>1, PTL DEF Spec

\* Each returned command is on its way exactly once and in order until the
\* sender stops; after that, what was written is a prefix of what was returned.
THEOREM CommandsKeptHolds == Spec => []CommandsKept
<1>1. CommandInv => CommandsKept
  BY DEF CommandInv
<1> QED
  BY TypeInit, TypeStep, CommandInit, CommandStep, <1>1, PTL DEF Spec
=============================================================================
