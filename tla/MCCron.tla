------------------------------- MODULE MCCron -------------------------------
(* A job that plugins register and one that a callback registers. *)
EXTENDS Cron

MCJobs == {"nightly", "late"}
MCTimes == {2, 4, 7}
MCSchedule == [nightly |-> {2, 7}, late |-> {2, 4}]
MCSteps == {-2, 4}
=============================================================================
