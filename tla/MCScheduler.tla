---------------------------- MODULE MCScheduler ----------------------------
(* Scheduler with the idle task and three more task structs.               *)
EXTENDS Scheduler

CONSTANTS idle, t1, t2, t3, null

MCTask == {idle, t1, t2, t3}

(* The pids user programs kill: every pid, the idle task's included.       *)
AnyPid == 1..5
=============================================================================
