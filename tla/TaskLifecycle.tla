--------------------------- MODULE TaskLifecycle ---------------------------
(***************************************************************************)
(* What the scheduler promises of the life of a task, whatever its queues  *)
(* look like: a task is created ready, the CPU is given to a ready task,   *)
(* a task that exits or is killed is a zombie until it is freed, and only  *)
(* a freed task struct is handed out again.  At most one task runs; none   *)
(* does while the shell has the CPU or after the kernel has crashed.       *)
(***************************************************************************)
CONSTANT Task

VARIABLE phase

Phase == {"free", "ready", "running", "zombie"}

Is(t, p) == phase[t] = p

Nobody(p) == \A t \in Task : ~Is(t, p)

Init ==
  \E boot \in Task :
    phase = [t \in Task |-> IF t = boot THEN "ready" ELSE "free"]

(* A task is created by the running one.                                   *)
Create(t) ==
  /\ Is(t, "free")
  /\ phase' = [phase EXCEPT ![t] = "ready"]

(* A task is created when none runs, and a ready task u gets the CPU.      *)
Start(t, u) ==
  /\ Nobody("running")
  /\ Is(t, "free")
  /\ Is(u, "ready")
  /\ phase' = [phase EXCEPT ![t] = "ready", ![u] = "running"]

(* The CPU passes from t, which is ready again or dead, to a ready task u. *)
Switch(t, u, left) ==
  /\ Is(t, "running")
  /\ Is(u, "ready")
  /\ left \in {"ready", "zombie"}
  /\ phase' = [phase EXCEPT ![t] = left, ![u] = "running"]

(* The running task gives up the CPU when there is nobody to give it to.   *)
Stop(t, left) ==
  /\ Is(t, "running")
  /\ Nobody("ready")
  /\ left \in {"ready", "zombie"}
  /\ phase' = [phase EXCEPT ![t] = left]

(* A task that waits for the CPU is killed.                                *)
Kill(t) ==
  /\ Is(t, "ready")
  /\ phase' = [phase EXCEPT ![t] = "zombie"]

(* A dead task is freed.                                                   *)
Reap(t) ==
  /\ Is(t, "zombie")
  /\ phase' = [phase EXCEPT ![t] = "free"]

Next ==
  \/ \E t \in Task : Create(t) \/ Kill(t) \/ Reap(t)
  \/ \E t, u \in Task : Start(t, u)
  \/ \E t, u \in Task, left \in {"ready", "zombie"} : Switch(t, u, left)
  \/ \E t \in Task, left \in {"ready", "zombie"} : Stop(t, left)

Spec == Init /\ [][Next]_phase
=============================================================================
