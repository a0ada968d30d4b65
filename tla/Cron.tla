-------------------------------- MODULE Cron --------------------------------
(***************************************************************************)
(* Cron jobs: register_cron, next_cron_fire and drain_due_cron_jobs of     *)
(* lua_ctx.rs and the cron arm of run_main_loop in handler.rs.             *)
(*                                                                         *)
(* Every time the main loop enters its select! it computes from the jobs   *)
(* how long the cron arm is to sleep, and sleeps at most SleepCap. The     *)
(* sleep runs on a clock of its own; the jobs fire by the wall clock,      *)
(* which somebody may set. Plugins register jobs while they are loaded,    *)
(* and callbacks may do so at any time, without the sleeper noticing.      *)
(*                                                                         *)
(* Time passes in ticks of the tolerance with which a job counts as due.   *)
(* How a due callback is dispatched is in module Dispatch.                 *)
(***************************************************************************)
EXTENDS Integers, FiniteSets

CONSTANTS
  Jobs,      \* register_cron calls
  Late,      \* those that a running callback makes
  Times,     \* wall clock times at which jobs fire
  Schedule,  \* Schedule[j]: the times of job j
  SleepCap,  \* longest sleep (300 s)
  Tolerance, \* a job this close to its time is due (100 ms)
  Steps,     \* how far the wall clock may be set forward or back
  \* bounds of the exploration
  MaxTicks, MaxSteps, MaxReloads

ASSUME CronAssumption ==
  /\ Late \subseteq Jobs /\ Times \subseteq Nat /\ IsFiniteSet(Times)
  /\ Schedule \in [Jobs -> SUBSET Times]
  /\ SleepCap \in Nat \ {0} /\ Tolerance \in Nat /\ Steps \subseteq Int
  /\ MaxTicks \in Nat /\ MaxSteps \in Nat /\ MaxReloads \in Nat

Never == -1

VARIABLES
  wall,     \* the wall clock
  arm,      \* "away" (the loop is dispatching), "asleep", or "parked" for good
  left,     \* how much of the sleep is left
  known,    \* the jobs in the list
  next,     \* next[j]: its cached next_fire
  since,    \* since[j]: the wall clock when j was registered
  fires,    \* fires[j][t]: how often j has fired for the time t since then
  overslept, \* overslept[j]: how long j has been overdue while the arm slept
  used      \* how much of each bound is used up

jobVars == <<known, next, since, fires>>
vars == <<wall, arm, left, jobVars, overslept, used>>

Zero == [j \in Jobs |-> 0]

Init ==
  /\ wall = 0 /\ arm = "away" /\ left = 0
  /\ known = {} /\ next = [j \in Jobs |-> Never] /\ since = Zero
  /\ fires = [j \in Jobs |-> [t \in Times |-> 0]]
  /\ overslept = Zero
  /\ used = [ticks |-> 0, steps |-> 0, reloads |-> 0]
-----------------------------------------------------------------------------
(* Jobs. *)

\* schedule.after(now).next(), and None when there is no such time.
After(j, now) ==
  LET later == {t \in Schedule[j] : t > now}
  IN IF later = {} THEN Never ELSE CHOOSE t \in later : \A u \in later : t <= u

Pending == {j \in known : next[j] # Never}
Due == {j \in Pending : next[j] <= wall + Tolerance}
Overdue(now) == {j \in Pending : next[j] <= now}

\* How long the jobs are overdue, when one more tick passes with the arm asleep,
\* and when the jobs of S no longer are.
Longer(f) ==
  [j \in Jobs |-> IF j \in Overdue(wall) /\ arm = "asleep" THEN f[j] + 1 ELSE f[j]]
Over(f, S) == [j \in Jobs |-> IF j \in S THEN 0 ELSE f[j]]

\* A job without a future time is refused. Plugins load on the main thread,
\* when it is not in its select!.
Register(j) ==
  /\ j \notin known /\ (arm = "away" \/ j \in Late)
  /\ After(j, wall) # Never
  /\ known' = known \cup {j}
  /\ next' = [next EXCEPT ![j] = After(j, wall)]
  /\ since' = [since EXCEPT ![j] = wall]
  /\ UNCHANGED <<wall, arm, left, fires, overslept, used>>

\* reload_plugins; a plugin that loads registers its jobs again.
Reload ==
  /\ arm = "away" /\ used.reloads < MaxReloads
  /\ known' = {} /\ next' = [j \in Jobs |-> Never]
  /\ fires' = [j \in Jobs |-> [t \in Times |-> 0]]
  /\ overslept' = Zero
  /\ used' = [used EXCEPT !.reloads = @ + 1]
  /\ UNCHANGED <<wall, arm, left, since>>
-----------------------------------------------------------------------------
(* The arm. *)

\* Mutants: the sleep is not capped; the time to it is not kept from below zero.
SleepThrough(d) == IF d < 0 THEN 0 ELSE d
SleepSigned(d) == IF d > SleepCap THEN SleepCap ELSE d

SleepFor(d) == IF d < 0 THEN 0 ELSE IF d > SleepCap THEN SleepCap ELSE d

\* The loop enters select!: sleep until the first job is due, or, without one,
\* for ever.
Arm ==
  /\ arm = "away"
  /\ IF Pending = {} THEN arm' = "parked" /\ left' = 0
     ELSE /\ arm' = "asleep"
          /\ \E j \in Pending :
               /\ \A k \in Pending : next[j] <= next[k]
               /\ left' = SleepFor(next[j] - wall)
  /\ UNCHANGED <<wall, jobVars, overslept, used>>

\* Another arm of the select! is taken, and the sleep is dropped.
OtherArm ==
  /\ arm # "away"
  /\ arm' = "away" /\ left' = 0
  /\ UNCHANGED <<wall, jobVars, overslept, used>>

\* Mutant: the job goes on from the current time, not from the one that fired.
AdvanceFromNow(j) == After(j, wall)

Advanced(j) == After(j, next[j])

\* The sleep ends: the due jobs fire and are advanced by one time each.
Wake ==
  /\ arm = "asleep" /\ left = 0
  /\ arm' = "away"
  /\ next' = [j \in Jobs |-> IF j \in Due THEN Advanced(j) ELSE next[j]]
  /\ fires' = [j \in Jobs |->
                 IF j \in Due THEN [fires[j] EXCEPT ![next[j]] = @ + 1] ELSE fires[j]]
  /\ overslept' = Over(overslept, Due)
  /\ UNCHANGED <<wall, left, known, since, used>>
-----------------------------------------------------------------------------
(* Time. *)

\* A timer that has expired is served before more time passes. What the loop
\* does outside of its select! may take any time.
Tick ==
  /\ ~(arm = "asleep" /\ left = 0) /\ used.ticks < MaxTicks
  /\ wall' = wall + 1
  /\ left' = IF arm = "asleep" THEN left - 1 ELSE left
  /\ overslept' = Longer(overslept)
  /\ used' = [used EXCEPT !.ticks = @ + 1]
  /\ UNCHANGED <<arm, jobVars>>

\* The wall clock is set; a job whose time is ahead again is not overdue.
SetClock(d) ==
  /\ used.steps < MaxSteps
  /\ wall' = wall + d
  /\ overslept' = Over(overslept, Jobs \ Overdue(wall + d))
  /\ used' = [used EXCEPT !.steps = @ + 1]
  /\ UNCHANGED <<arm, left, jobVars>>

Next ==
  \/ \E j \in Jobs : Register(j)
  \/ Reload \/ Arm \/ OtherArm \/ Wake \/ Tick
  \/ \E d \in Steps : SetClock(d)

Spec == Init /\ [][Next]_vars
-----------------------------------------------------------------------------
(* Properties. *)

\* Every variable has its type; no sleep is longer than the cap.
TypeOK ==
  /\ wall \in Int /\ arm \in {"away", "asleep", "parked"} /\ left \in 0..SleepCap
  /\ known \subseteq Jobs /\ next \in [Jobs -> Times \cup {Never}]
  /\ since \in [Jobs -> Int]
  /\ fires \in [Jobs -> [Times -> Nat]]
  /\ overslept \in [Jobs -> Nat]
  /\ used \in [ticks : 0..MaxTicks, steps : 0..MaxSteps, reloads : 0..MaxReloads]

\* A job fires exactly once for each of its times after its registration, in
\* their order: none is skipped when the loop is late or the clock is set
\* forward, none repeated when the clock is set back (the comment on
\* drain_due_cron_jobs).
Past(j) == {t \in Schedule[j] : since[j] < t /\ (next[j] = Never \/ t < next[j])}
EachTimeOnce ==
  \A j \in known : \A t \in Times : fires[j][t] = IF t \in Past(j) THEN 1 ELSE 0

\* The reason for the cap in the comment on the cron arm: however the clock is
\* set, and whoever registers a job, a job whose time has come is not slept
\* over for longer than the cap. What is overlooked while the arm is parked,
\* without a job it knew of, is not counted: nothing bounds that.
NotSleptOver == \A j \in Jobs : overslept[j] <= SleepCap
=============================================================================
