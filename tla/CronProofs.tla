----------------------------- MODULE CronProofs -----------------------------
(***************************************************************************)
(* Proofs about Cron, for all jobs, schedules and settings of the clock.   *)
(***************************************************************************)
EXTENDS Cron, WellFoundedInduction, TLAPS

(***************************************************************************)
(* The inductive invariant. A job in the list has a next time of its       *)
(* schedule after its registration, or none; one that is not in the list   *)
(* has left no trace. While the arm sleeps over an overdue job, what it    *)
(* has slept and what is left of the sleep are together within the cap.    *)
(***************************************************************************)
JobInv ==
  \A j \in Jobs :
    /\ j \in known => \/ next[j] = Never
                      \/ next[j] \in Schedule[j] /\ since[j] < next[j]
    /\ j \notin known => next[j] = Never /\ \A t \in Times : fires[j][t] = 0
SleepInv ==
  \A j \in Jobs :
    /\ j \notin Overdue(wall) => overslept[j] = 0
    /\ j \in Overdue(wall) /\ arm = "asleep" => overslept[j] + left <= SleepCap
IInv == TypeOK /\ JobInv /\ EachTimeOnce /\ SleepInv /\ NotSleptOver

-----------------------------------------------------------------------------
(* Lemmas about the operators. *)

\* A set of natural numbers has a least one.
LEMMA LeastTime ==
  ASSUME NEW T \in SUBSET Nat, T # {}
  PROVE  \E t \in T : \A u \in T : t <= u
<1> DEFINE R == OpToRel(<, Nat)
<1>1. IsWellFoundedOn(R, Nat)
  BY NatLessThanWellFounded
<1>2. PICK t \in T : \A u \in T : <<u, t>> \notin R
  <2> HIDE DEF R
  <2> QED BY <1>1, WFMin
<1>3. \A u \in T : <<u, t>> \in R <=> u < t
  BY DEF OpToRel
<1>4. \A u \in T : ~(u < t)
  <2> HIDE DEF R
  <2> QED BY <1>2, <1>3, Zenon
<1> HIDE DEF R
<1>5. \A u \in T : u \in Nat /\ t \in Nat /\ t <= u
  BY <1>4
<1> QED BY <1>5

\* What After returns: the first time of the schedule after now, if any.
LEMMA AfterIsFirst ==
  ASSUME NEW j \in Jobs, NEW now \in Int
  PROVE  \/ After(j, now) = Never /\ \A u \in Schedule[j] : u <= now
         \/ /\ After(j, now) \in Schedule[j] /\ now < After(j, now)
            /\ \A u \in Schedule[j] : u > now => After(j, now) <= u
<1> DEFINE later == {t \in Schedule[j] : t > now}
<1>1. Schedule[j] \in SUBSET Nat
  BY CronAssumption
<1>2. CASE later = {}
  BY <1>1, <1>2 DEF After
<1>3. CASE later # {}
  <2>1. \E t \in later : \A u \in later : t <= u
    BY <1>1, <1>3, LeastTime
  <2>2. After(j, now) \in later /\ \A u \in later : After(j, now) <= u
    BY <1>3, <2>1 DEF After
  <2> QED BY <2>2
<1> QED BY <1>2, <1>3

\* A sleep is neither negative nor longer than the cap.
LEMMA SleepIsBounded ==
  ASSUME NEW d \in Int
  PROVE  SleepFor(d) \in 0..SleepCap /\ (d <= 0 => SleepFor(d) = 0)
BY CronAssumption DEF SleepFor

\* A cached next_fire is a time of the clock.
LEMMA NextIsTime ==
  ASSUME TypeOK, NEW j \in Jobs
  PROVE  next[j] \in Times \cup {Never} /\ next[j] \in Int
<1>1. next[j] \in Times \cup {Never}
  BY DEF TypeOK
<1>2. CASE next[j] \in Times
  <2>1. Times \subseteq Int
    BY CronAssumption
  <2> QED BY <1>1, <1>2, <2>1, Zenon
<1>3. CASE next[j] = Never
  <2>1. Never \in Int
    BY DEF Never
  <2> QED BY <1>1, <1>3, <2>1
<1> QED BY <1>1, <1>2, <1>3
-----------------------------------------------------------------------------
\* The driver starts with no job and no sleep.
LEMMA InitIInv == Init => IInv
<1> SUFFICES ASSUME Init PROVE IInv
  OBVIOUS
<1>1. TypeOK
  BY CronAssumption DEF Init, TypeOK, Zero, Never
<1>2. JobInv /\ EachTimeOnce
  BY DEF Init, JobInv, EachTimeOnce, Zero
<1>3. SleepInv /\ NotSleptOver
  BY CronAssumption DEF Init, SleepInv, NotSleptOver, Overdue, Pending, Zero
<1> QED BY <1>1, <1>2, <1>3 DEF IInv

\* Every step keeps the types, the sleep between zero and the cap included.
LEMMA TypeStep ==
  ASSUME IInv, [Next]_vars
  PROVE  TypeOK'
<1> USE DEF IInv
<1>1. ASSUME NEW j \in Jobs, Register(j)
      PROVE  TypeOK'
  <2>1. wall \in Int /\ After(j, wall) \in Times \cup {Never}
    BY AfterIsFirst, CronAssumption DEF TypeOK
  <2> QED BY <1>1, <2>1 DEF Register, TypeOK
<1>2. CASE Reload
  BY <1>2, CronAssumption DEF Reload, TypeOK, Zero
<1>3. CASE Arm
  <2>1. CASE Pending = {}
    BY <1>3, <2>1, CronAssumption DEF Arm, TypeOK, jobVars
  <2>2. CASE Pending # {}
    <3>1. PICK j \in Pending : left' = SleepFor(next[j] - wall)
      BY <1>3, <2>2 DEF Arm
    <3>2. next[j] - wall \in Int
      <4>1. j \in Jobs /\ wall \in Int
        BY DEF TypeOK, Pending
      <4> QED BY <4>1, NextIsTime
    <3>3. left' \in 0..SleepCap
      BY <3>1, <3>2, SleepIsBounded
    <3> QED BY <1>3, <2>2, <3>3 DEF Arm, TypeOK, jobVars
  <2> QED BY <2>1, <2>2
<1>4. CASE OtherArm
  BY <1>4, CronAssumption DEF OtherArm, TypeOK, jobVars
<1>5. CASE Wake
  <2>1. \A j \in Due : next[j] \in Times /\ j \in Jobs
    BY DEF Due, Pending, TypeOK
  <2>2. \A j \in Due : Advanced(j) \in Times \cup {Never}
    <3> SUFFICES ASSUME NEW j \in Due
                 PROVE  After(j, next[j]) \in Times \cup {Never}
      BY DEF Advanced
    <3>1. Schedule[j] \in SUBSET Times /\ next[j] \in Int
      BY <2>1, NextIsTime, CronAssumption
    <3> QED BY <2>1, <3>1, AfterIsFirst
  <2>3. fires' \in [Jobs -> [Times -> Nat]]
    BY <1>5, <2>1 DEF Wake, TypeOK
  <2>4. next' \in [Jobs -> Times \cup {Never}]
    BY <1>5, <2>2 DEF Wake, TypeOK
  <2>5. overslept' \in [Jobs -> Nat]
    BY <1>5 DEF Wake, Over, TypeOK
  <2> QED BY <1>5, <2>3, <2>4, <2>5 DEF Wake, TypeOK
<1>6. CASE Tick
  <2>1. overslept' \in [Jobs -> Nat]
    BY <1>6 DEF Tick, Longer, TypeOK
  <2>2. left' \in 0..SleepCap /\ wall' \in Int
    <3>1. /\ left \in 0..SleepCap /\ wall \in Int /\ SleepCap \in Nat
          /\ wall' = wall + 1 /\ (arm = "asleep" => left # 0)
          /\ left' = IF arm = "asleep" THEN left - 1 ELSE left
      BY <1>6, CronAssumption DEF Tick, TypeOK
    <3> QED BY <3>1
  <2>3. used' \in [ticks : 0..MaxTicks, steps : 0..MaxSteps, reloads : 0..MaxReloads]
    BY <1>6, CronAssumption DEF Tick, TypeOK
  <2> QED BY <1>6, <2>1, <2>2, <2>3 DEF Tick, TypeOK, jobVars
<1>7. ASSUME NEW d \in Steps, SetClock(d)
      PROVE  TypeOK'
  <2>1. overslept' \in [Jobs -> Nat]
    BY <1>7 DEF SetClock, Over, TypeOK
  <2>2. wall' \in Int
    BY <1>7, CronAssumption DEF SetClock, TypeOK
  <2>3. used' \in [ticks : 0..MaxTicks, steps : 0..MaxSteps, reloads : 0..MaxReloads]
    BY <1>7, CronAssumption DEF SetClock, TypeOK
  <2> QED BY <1>7, <2>1, <2>2, <2>3 DEF SetClock, TypeOK, jobVars
<1>8. CASE UNCHANGED vars
  BY <1>8 DEF vars, jobVars, TypeOK
<1> QED BY <1>1, <1>2, <1>3, <1>4, <1>5, <1>6, <1>7, <1>8 DEF Next

\* Every step keeps each job's fires in agreement with its times.
LEMMA JobStep ==
  ASSUME IInv, [Next]_vars
  PROVE  JobInv' /\ EachTimeOnce'
<1> USE DEF IInv
<1>1. ASSUME NEW j \in Jobs, Register(j)
      PROVE  JobInv' /\ EachTimeOnce'
  <2>1. /\ wall \in Int /\ After(j, wall) \in Schedule[j] /\ wall < After(j, wall)
        /\ \A u \in Schedule[j] : u > wall => After(j, wall) <= u
    BY <1>1, AfterIsFirst DEF Register, TypeOK
  <2>2. /\ known' = known \cup {j} /\ j \notin known /\ fires' = fires
        /\ \A k \in Jobs : k # j => next'[k] = next[k] /\ since'[k] = since[k]
        /\ next'[j] = After(j, wall) /\ since'[j] = wall
    BY <1>1 DEF Register, TypeOK
  <2>3. JobInv'
    BY <2>1, <2>2 DEF JobInv
  <2>4. \A t \in Times : t \notin Past(j)'
    <3> Schedule[j] \in SUBSET Nat
      BY CronAssumption
    <3> QED BY <2>1, <2>2 DEF Past, Never
  <2>5. \A k \in known : Past(k)' = Past(k)
    BY <2>2 DEF Past, TypeOK
  <2>6. \A t \in Times : fires[j][t] = 0
    BY <2>2 DEF JobInv
  <2> QED BY <2>2, <2>3, <2>4, <2>5, <2>6 DEF EachTimeOnce
<1>2. CASE Reload
  BY <1>2 DEF Reload, JobInv, EachTimeOnce, TypeOK
<1>3. CASE UNCHANGED jobVars
  BY <1>3 DEF jobVars, JobInv, EachTimeOnce, Past
<1>4. CASE Wake
  <2>1. /\ known' = known /\ since' = since
        /\ \A j \in Jobs : j \notin Due => next'[j] = next[j] /\ fires'[j] = fires[j]
        /\ \A j \in Jobs : j \in Due =>
             next'[j] = After(j, next[j]) /\ fires'[j] = [fires[j] EXCEPT ![next[j]] = @ + 1]
    BY <1>4 DEF Wake, Advanced
  <2>2. ASSUME NEW j \in Due
        PROVE  /\ j \in known /\ j \in Jobs /\ next[j] # Never
               /\ next[j] \in Schedule[j] /\ since[j] < next[j]
               /\ Schedule[j] \in SUBSET Nat /\ Schedule[j] \in SUBSET Times
               /\ next[j] \in Nat /\ since[j] \in Int /\ fires[j] \in [Times -> Nat]
    BY CronAssumption DEF Due, Pending, JobInv, TypeOK
  <2>3. ASSUME NEW j \in Due
        PROVE  \/ next'[j] = Never /\ \A u \in Schedule[j] : u <= next[j]
               \/ /\ next'[j] \in Schedule[j] /\ next[j] < next'[j]
                  /\ \A u \in Schedule[j] : u > next[j] => next'[j] <= u
    <3>1. next[j] \in Int /\ j \in Jobs
      BY <2>2
    <3>2. next'[j] = After(j, next[j])
      BY <2>1, <3>1
    <3> QED BY <3>1, <3>2, AfterIsFirst
  <2>4. \A j \in Due : Past(j)' = Past(j) \cup {next[j]}
    <3> SUFFICES ASSUME NEW j \in Due
                 PROVE  \A t \in Schedule[j] :
                          t \in Past(j)' <=> t \in Past(j) \/ t = next[j]
      BY <2>2 DEF Past
    <3> QED BY <2>1, <2>2, <2>3 DEF Past, Never
  <2>5. \A j \in Due : next[j] \notin Past(j)
    BY <2>2 DEF Past
  <2>6. JobInv'
    <3> SUFFICES ASSUME NEW j \in Jobs
                 PROVE  JobInv!(j)'
      BY DEF JobInv
    <3>1. CASE j \in Due
      BY <2>1, <2>2, <2>3, <3>1
    <3>2. CASE j \notin Due
      BY <2>1, <3>2 DEF JobInv
    <3> QED BY <3>1, <3>2
  <2>7. EachTimeOnce'
    <3> SUFFICES ASSUME NEW j \in known, NEW t \in Times
                 PROVE  fires'[j][t] = IF t \in Past(j)' THEN 1 ELSE 0
      BY <2>1 DEF EachTimeOnce
    <3>1. j \in Jobs /\ fires[j][t] = IF t \in Past(j) THEN 1 ELSE 0
      BY DEF EachTimeOnce, TypeOK
    <3>2. CASE j \in Due /\ t = next[j]
      <4>1. fires[j][t] = 0 /\ t \in Past(j)'
        BY <2>4, <2>5, <3>1, <3>2
      <4>2. fires'[j][t] = fires[j][t] + 1
        BY <2>1, <2>2, <3>1, <3>2
      <4> QED BY <4>1, <4>2
    <3>3. CASE j \in Due /\ t # next[j]
      <4>1. t \in Past(j)' <=> t \in Past(j)
        BY <2>4, <3>3
      <4>2. fires'[j][t] = fires[j][t]
        BY <2>1, <2>2, <3>1, <3>3
      <4> QED BY <3>1, <4>1, <4>2
    <3>4. CASE j \notin Due
      <4>1. Past(j)' = Past(j)
        BY <2>1, <3>1, <3>4 DEF Past
      <4> QED BY <2>1, <3>1, <3>4, <4>1
    <3> QED BY <3>2, <3>3, <3>4
  <2> QED BY <2>6, <2>7
<1>5. Arm \/ OtherArm \/ Tick \/ (\E d \in Steps : SetClock(d)) \/ UNCHANGED vars
        => UNCHANGED jobVars
  BY DEF Arm, OtherArm, Tick, SetClock, vars
<1> QED BY <1>1, <1>2, <1>3, <1>4, <1>5 DEF Next

\* Every step keeps a pending job within the cap of being noticed.
LEMMA SleepStep ==
  ASSUME IInv, [Next]_vars
  PROVE  SleepInv' /\ NotSleptOver'
<1> USE DEF IInv
<1>0. /\ wall \in Int /\ left \in 0..SleepCap /\ SleepCap \in Nat
      /\ \A j \in Jobs : overslept[j] \in Nat /\ next[j] \in Int /\ overslept[j] <= SleepCap
  BY CronAssumption, NextIsTime DEF TypeOK, NotSleptOver
<1>1. ASSUME NEW j \in Jobs, Register(j)
      PROVE  SleepInv' /\ NotSleptOver'
  <2>1. /\ arm' = arm /\ left' = left /\ wall' = wall /\ overslept' = overslept
        /\ known' = known \cup {j} /\ j \notin known /\ After(j, wall) # Never
        /\ \A k \in Jobs : k # j => next'[k] = next[k]
        /\ next'[j] = After(j, wall)
    BY <1>1 DEF Register, TypeOK
  <2>2. wall < After(j, wall) /\ After(j, wall) \in Int
    <3> Schedule[j] \in SUBSET Nat
      BY CronAssumption
    <3> QED BY <1>0, <2>1, AfterIsFirst
  <2>3. Overdue(wall)' = Overdue(wall)
    BY <1>0, <2>1, <2>2 DEF Overdue, Pending, TypeOK
  <2> QED BY <2>1, <2>3 DEF SleepInv, NotSleptOver
<1>2. CASE Reload
  BY <1>2, CronAssumption DEF Reload, SleepInv, NotSleptOver, Overdue, Pending, Zero
<1>3. CASE Arm
  <2>1. UNCHANGED <<wall, jobVars, overslept>>
    BY <1>3 DEF Arm
  <2>2. Overdue(wall)' = Overdue(wall) /\ NotSleptOver'
    BY <2>1 DEF Overdue, Pending, jobVars, NotSleptOver
  <2>3. ASSUME NEW k \in Overdue(wall)
        PROVE  left' = 0
    <3>1. k \in Pending /\ k \in Jobs /\ next[k] <= wall
      BY DEF Overdue, Pending, TypeOK
    <3>2. PICK j \in Pending : next[j] <= next[k] /\ left' = SleepFor(next[j] - wall)
      BY <1>3, <3>1 DEF Arm
    <3>3. next[j] - wall \in Int /\ next[j] - wall <= 0
      BY <1>0, <3>1, <3>2 DEF Pending, TypeOK
    <3> QED BY <3>2, <3>3, SleepIsBounded
  <2> QED BY <1>0, <2>1, <2>2, <2>3 DEF SleepInv
<1>4. CASE OtherArm
  BY <1>4 DEF OtherArm, SleepInv, NotSleptOver, Overdue, Pending, jobVars
<1>5. CASE Wake
  <2>1. Overdue(wall) \subseteq Due
    BY <1>0, CronAssumption DEF Overdue, Due, Pending, TypeOK
  <2>2. arm' = "away" /\ \A j \in Jobs : overslept'[j] = 0
    BY <1>5, <2>1 DEF Wake, Over, SleepInv
  <2> QED BY <1>0, <2>2 DEF SleepInv, NotSleptOver
<1>6. CASE Tick
  <2>1. /\ wall' = wall + 1 /\ arm' = arm /\ next' = next /\ known' = known
        /\ arm = "asleep" => left' = left - 1 /\ left # 0
        /\ \A j \in Jobs : overslept'[j] = IF j \in Overdue(wall) /\ arm = "asleep"
                                           THEN overslept[j] + 1 ELSE overslept[j]
    BY <1>6 DEF Tick, jobVars, Longer
  <2>2. ASSUME NEW j \in Jobs, j \in Overdue(wall)
        PROVE  j \in Overdue(wall)'
    BY <1>0, <2>1, <2>2 DEF Overdue, Pending
  <2>3. ASSUME NEW j \in Jobs
        PROVE  /\ j \notin Overdue(wall)' => overslept'[j] = 0
               /\ j \in Overdue(wall)' /\ arm' = "asleep" => overslept'[j] + left' <= SleepCap
               /\ overslept'[j] <= SleepCap
    <3>1. CASE j \in Overdue(wall)
      BY <1>0, <2>1, <2>2, <3>1 DEF SleepInv
    <3>2. CASE j \notin Overdue(wall)
      BY <1>0, <2>1, <3>2 DEF SleepInv
    <3> QED BY <3>1, <3>2
  <2> QED BY <2>3 DEF SleepInv, NotSleptOver
<1>7. ASSUME NEW d \in Steps, SetClock(d)
      PROVE  SleepInv' /\ NotSleptOver'
  <2>1. /\ Overdue(wall)' = Overdue(wall + d) /\ arm' = arm /\ left' = left
        /\ \A j \in Jobs : overslept'[j] = IF j \in Overdue(wall + d) THEN overslept[j] ELSE 0
    BY <1>7 DEF SetClock, Over, Overdue, Pending, jobVars
  <2>2. \A j \in Jobs : arm = "asleep" => overslept[j] + left <= SleepCap
    BY <1>0 DEF SleepInv
  <2> QED BY <1>0, <2>1, <2>2 DEF SleepInv, NotSleptOver
<1>8. CASE UNCHANGED vars
  BY <1>8 DEF vars, jobVars, SleepInv, NotSleptOver, Overdue, Pending
<1> QED BY <1>1, <1>2, <1>3, <1>4, <1>5, <1>6, <1>7, <1>8 DEF Next

\* IInv is an invariant.
LEMMA Inductive == Spec => []IInv
<1>1. IInv /\ [Next]_vars => IInv'
  BY TypeStep, JobStep, SleepStep DEF IInv
<1> QED BY InitIInv, <1>1, PTL DEF Spec

\* Every variable of Cron keeps its type; no sleep is longer than the cap.
THEOREM TypeCorrect == Spec => []TypeOK
<1>1. IInv => TypeOK
  BY DEF IInv
<1> QED BY Inductive, <1>1, PTL

\* drain_due_cron_jobs fires a job exactly once for each of its times, in order,
\* whatever the schedule is and however the clock is set.
THEOREM EachTimeOnceHolds == Spec => []EachTimeOnce
<1>1. IInv => EachTimeOnce
  BY DEF IInv
<1> QED BY Inductive, <1>1, PTL

\* The capped sleep of the cron arm never sleeps over a job for longer than the
\* cap, whatever is registered meanwhile and however the clock is set.
THEOREM NotSleptOverHolds == Spec => []NotSleptOver
<1>1. IInv => NotSleptOver
  BY DEF IInv
<1> QED BY Inductive, <1>1, PTL
=============================================================================
