-------------------------- MODULE SchedulerProofs --------------------------
(***************************************************************************)
(* Proofs about the scheduler for every set of tasks and every bound.      *)
(*                                                                         *)
(* The inductive invariant is the conjunction IInv of the invariants the   *)
(* runs check: the queues partition the tasks only if a task that is       *)
(* switched to was not queued elsewhere, the next task after an exit       *)
(* exists only if the idle task waits, and so on.  It also carries the     *)
(* refinement of TaskLifecycle, which comes last.                          *)
(***************************************************************************)
EXTENDS Scheduler, SequenceTheorems, TLAPS

-----------------------------------------------------------------------------
(* Queues as sets: what enqueue, dequeue and the unlinking of kill_thread  *)
(* do to the tasks of a queue without duplicates.                          *)

(* enqueue adds one task and, if that is new, no duplicate.                *)
LEMMA EnqueueQueue ==
  ASSUME NEW S, NEW q \in Seq(S), NEW t \in S
  PROVE  /\ Enqueue(q, t) \in Seq(S)
         /\ Range(Enqueue(q, t)) = Range(q) \cup {t}
         /\ IsInjective(q) /\ t \notin Range(q) => IsInjective(Enqueue(q, t))
<1>1. Enqueue(q, t) \in Seq(S) /\ Len(Enqueue(q, t)) = Len(q) + 1
  BY AppendProperties DEF Enqueue
<1>2. \A i \in 1..Len(q) : Enqueue(q, t)[i] = q[i]
  BY AppendProperties DEF Enqueue
<1>3. Enqueue(q, t)[Len(q) + 1] = t
  BY AppendProperties DEF Enqueue
<1>4. Range(Enqueue(q, t)) = Range(q) \cup {t}
  BY <1>1, <1>2, <1>3 DEF Range
<1>5. ASSUME IsInjective(q), t \notin Range(q)
      PROVE  IsInjective(Enqueue(q, t))
  BY <1>1, <1>2, <1>3, <1>5 DEF IsInjective, Range
<1> QED
  BY <1>1, <1>4, <1>5

(* dequeue removes the head and nothing else.                              *)
LEMMA DequeueQueue ==
  ASSUME NEW S, NEW q \in Seq(S), q # <<>>
  PROVE  /\ Tail(q) \in Seq(S)
         /\ Head(q) \in S
         /\ Head(q) \in Range(q)
         /\ IsInjective(q) => /\ Range(Tail(q)) = Range(q) \ {Head(q)}
                              /\ IsInjective(Tail(q))
<1>1. /\ Tail(q) \in Seq(S)
      /\ Head(q) \in S
      /\ Len(q) >= 1
      /\ Len(Tail(q)) = Len(q) - 1
      /\ Head(q) = q[1]
      /\ \A i \in 1..Len(Tail(q)) : Tail(q)[i] = q[i + 1]
  BY HeadTailProperties
<1>2. Head(q) \in Range(q)
  BY <1>1 DEF Range
<1>3. ASSUME IsInjective(q)
      PROVE  Range(Tail(q)) = Range(q) \ {Head(q)} /\ IsInjective(Tail(q))
  <2>1. IsInjective(Tail(q))
    BY <1>1, <1>3 DEF IsInjective
  <2>2. Range(Tail(q)) \subseteq Range(q) \ {Head(q)}
    BY <1>1, <1>3 DEF IsInjective, Range
  <2>3. ASSUME NEW x \in Range(q) \ {Head(q)}
        PROVE  x \in Range(Tail(q))
    <3>1. PICK i \in 1..Len(q) : q[i] = x
      BY DEF Range
    <3>2. i - 1 \in 1..Len(Tail(q)) /\ Tail(q)[i - 1] = x
      BY <1>1, <2>3, <3>1
    <3>3. DOMAIN Tail(q) = 1..Len(Tail(q))
      BY <1>1
    <3> QED
      BY <3>2, <3>3 DEF Range
  <2> QED
    BY <2>1, <2>2, <2>3
<1> QED
  BY <1>1, <1>2, <1>3

(* A task of a queue.                                                      *)
LEMMA QueueElement ==
  ASSUME NEW S, NEW q \in Seq(S), NEW i \in 1..Len(q)
  PROVE  q[i] \in S /\ q[i] \in Range(q)
<1>1. i \in DOMAIN q
  OBVIOUS
<1>2. q[i] \in S
  BY <1>1
<1> QED
  BY <1>1, <1>2 DEF Range

(* Unlinking position i removes that task and nothing else.                *)
LEMMA UnlinkQueue ==
  ASSUME NEW S, NEW q \in Seq(S), NEW i \in 1..Len(q), IsInjective(q)
  PROVE  /\ Unlink(q, i) \in Seq(S)
         /\ Len(Unlink(q, i)) = Len(q) - 1
         /\ \A j \in 1..(Len(q) - 1) :
              Unlink(q, i)[j] = IF j < i THEN q[j] ELSE q[j + 1]
         /\ IsInjective(Unlink(q, i))
         /\ Range(Unlink(q, i)) = Range(q) \ {q[i]}
<1> DEFINE a == SubSeq(q, 1, i - 1)
           b == SubSeq(q, i + 1, Len(q))
<1>1. a \in Seq(S) /\ Len(a) = i - 1 /\ \A j \in 1..(i - 1) : a[j] = q[j]
  BY SubSeqProperties
<1>2. b \in Seq(S) /\ Len(b) = Len(q) - i /\ \A j \in 1..(Len(q) - i) : b[j] = q[j + i]
  BY SubSeqProperties
<1>3. Unlink(q, i) = a \o b
  BY DEF Unlink
<1> HIDE DEF a, b
<1>8. /\ a \o b \in Seq(S)
      /\ Len(a \o b) = Len(a) + Len(b)
      /\ \A j \in 1..(Len(a) + Len(b)) :
           (a \o b)[j] = IF j <= Len(a) THEN a[j] ELSE b[j - Len(a)]
  BY <1>1, <1>2, ConcatProperties
<1>4. /\ Unlink(q, i) \in Seq(S)
      /\ Len(Unlink(q, i)) = Len(q) - 1
      /\ \A j \in 1..(Len(q) - 1) :
           Unlink(q, i)[j] = IF j < i THEN q[j] ELSE q[j + 1]
  BY <1>1, <1>2, <1>3, <1>8
<1>5. IsInjective(Unlink(q, i))
  <2> SUFFICES ASSUME NEW j \in 1..(Len(q) - 1), NEW k \in 1..(Len(q) - 1),
                      Unlink(q, i)[j] = Unlink(q, i)[k]
               PROVE  j = k
    BY <1>4 DEF IsInjective
  <2>1. \A m, n \in 1..Len(q) : q[m] = q[n] => m = n
    BY DEF IsInjective
  <2> DEFINE from(m) == IF m < i THEN m ELSE m + 1
  <2>2. \A m \in 1..(Len(q) - 1) : from(m) \in 1..Len(q) /\ Unlink(q, i)[m] = q[from(m)]
    BY <1>4
  <2>3. from(j) = from(k)
    <3> HIDE DEF from
    <3> QED
      BY <2>1, <2>2
  <2> QED
    BY <2>3
<1>6. Range(Unlink(q, i)) \subseteq Range(q) \ {q[i]}
  <2> SUFFICES ASSUME NEW j \in 1..(Len(q) - 1)
               PROVE  Unlink(q, i)[j] \in Range(q) \ {q[i]}
    BY <1>4 DEF Range
  <2>1. PICK k \in 1..Len(q) : k # i /\ Unlink(q, i)[j] = q[k]
    BY <1>4
  <2>2. q[k] # q[i]
    BY <2>1 DEF IsInjective
  <2> QED
    BY <2>1, <2>2, QueueElement
<1>7. ASSUME NEW x \in Range(q) \ {q[i]}
      PROVE  x \in Range(Unlink(q, i))
  <2>1. PICK k \in 1..Len(q) : q[k] = x
    BY DEF Range
  <2>2. k # i
    BY <1>7, <2>1
  <2>3. CASE k < i
    BY <1>4, <2>1, <2>3 DEF Range
  <2>4. CASE k > i
    <3>1. k - 1 \in 1..(Len(q) - 1) /\ Unlink(q, i)[k - 1] = x
      BY <1>4, <2>1, <2>4
    <3> QED
      BY <1>4, <3>1 DEF Range
  <2> QED
    BY <2>1, <2>2, <2>3, <2>4
<1> QED
  BY <1>4, <1>5, <1>6, <1>7

-----------------------------------------------------------------------------
(* The inductive invariant.                                                *)
IInv ==
  /\ TypeOK
  /\ ResumePoints
  /\ QueuesPartitionTasks
  /\ LivePidsUnique
  /\ ExitedNeverRuns
  /\ ShellRunsAlone
  /\ PreemptedOnlyInFirstRun
  /\ CrashOnlyIfIdleKilled

(* The state after thread_init satisfies the invariant.                    *)
LEMMA InitIInv == Init => IInv
<1> SUFFICES ASSUME Init PROVE IInv
  OBVIOUS
<1>1. Range(run_queue) = {Idle} /\ Range(zombies_queue) = {}
  BY DEF Init, Range
<1>2. Running = {} /\ Live = {Idle}
  BY <1>1 DEF Init, Running, Live
<1>3. TypeOK
  <2>1. run_queue \in Seq(Task) /\ zombies_queue \in Seq(Task)
    BY SchedulerAssumption DEF Init
  <2>2. pid \in (IdlePid + 1)..(MaxPid + 1) /\ task_pid \in [Task -> 0..MaxPid]
    BY SchedulerAssumption DEF Init, IdlePid
  <2>3. task_state \in [Task -> State] /\ context \in [Task -> Context]
    BY DEF Init, State, Context
  <2>4. timers \in 0..MaxRuns /\ allocated \subseteq Task
    BY SchedulerAssumption DEF Init
  <2>5. irq_enabled \in BOOLEAN
    BY DEF Init
  <2> QED
    BY <2>1, <2>2, <2>3, <2>4, <2>5 DEF Init, TypeOK, Cpu
<1>4. ResumePoints
  BY <1>1, <1>2, SchedulerAssumption DEF Init, ResumePoints
<1>5. QueuesPartitionTasks
  BY <1>1, <1>2 DEF Init, QueuesPartitionTasks, IsInjective
<1>6. LivePidsUnique
  BY <1>2, SchedulerAssumption DEF Init, LivePidsUnique, IdlePid
<1>7. ExitedNeverRuns
  BY <1>2, SchedulerAssumption DEF Init, ExitedNeverRuns
<1>8. ShellRunsAlone /\ PreemptedOnlyInFirstRun /\ CrashOnlyIfIdleKilled
  BY DEF Init, ShellRunsAlone, PreemptedOnlyInFirstRun, CrashOnlyIfIdleKilled
<1> QED
  BY <1>3, <1>4, <1>5, <1>6, <1>7, <1>8 DEF IInv

(* Where schedule() puts the task it switches away from.                   *)
LEMMA RequeueQueues ==
  ASSUME NEW q \in Seq(Task), IsInjective(q),
         zombies_queue \in Seq(Task), IsInjective(zombies_queue),
         current \in Task,
         current \notin Range(q), current \notin Range(zombies_queue),
         NEW state, Requeue(q, state)
  PROVE  /\ run_queue' \in Seq(Task) /\ IsInjective(run_queue')
         /\ zombies_queue' \in Seq(Task) /\ IsInjective(zombies_queue')
         /\ Range(run_queue') =
              IF state # "EXIT" THEN Range(q) \cup {current} ELSE Range(q)
         /\ Range(zombies_queue') =
              IF state # "EXIT" THEN Range(zombies_queue)
              ELSE Range(zombies_queue) \cup {current}
<1>1. CASE state # "EXIT"
  BY <1>1, EnqueueQueue DEF Requeue
<1>2. CASE state = "EXIT"
  BY <1>2, EnqueueQueue DEF Requeue
<1> QED
  BY <1>1, <1>2

(* What the callers of schedule() guarantee: the running task is switched  *)
(* away from as the task state says, the idle task from its loop and every *)
(* other one from the timer unless it exits.                               *)
Caller(state, ctx, enabled) ==
  /\ cpu \in {"user", "idle_schedule"}
  /\ state \in State
  /\ ctx \in Context
  /\ enabled \in BOOLEAN
  /\ enabled <=> timers = 1
  /\ current = Idle => ctx = "in_loop" /\ state = "RUNNING"
  /\ current # Idle /\ state = "RUNNING" => ctx = "in_timer" /\ timers = 1
  /\ task_state' \in [Task -> State]
  /\ task_state'[current] = state
  /\ \A t \in Task \ {current} : task_state'[t] = task_state[t]
  /\ UNCHANGED <<task_pid, allocated, timers>>

(* Where every task is after a switch to the head of run_queue.            *)
LEMMA SwitchTaskQueues ==
  ASSUME IInv, NEW state, NEW ctx, NEW enabled, Caller(state, ctx, enabled),
         run_queue # <<>>, SwitchTask(state, ctx, enabled)
  PROVE  /\ current \in Task /\ Running = {current}
         /\ current \notin Range(run_queue)
         /\ current \notin Range(zombies_queue)
         /\ Head(run_queue) \in Task /\ Head(run_queue) \in Range(run_queue)
         /\ Head(run_queue) # current
         /\ run_queue' \in Seq(Task) /\ IsInjective(run_queue')
         /\ zombies_queue' \in Seq(Task) /\ IsInjective(zombies_queue')
         /\ Range(run_queue') =
              IF state # "EXIT" THEN (Range(run_queue) \ {Head(run_queue)}) \cup {current}
              ELSE Range(run_queue) \ {Head(run_queue)}
         /\ Range(zombies_queue') = IF state # "EXIT" THEN Range(zombies_queue)
                                    ELSE Range(zombies_queue) \cup {current}
         /\ cpu' = IF Head(run_queue) = Idle THEN "idle_reap" ELSE "user"
         /\ Running' = {Head(run_queue)}
<1> DEFINE next == Head(run_queue)
<1>1. /\ current \in Task
      /\ Running = {current}
      /\ current \notin Range(run_queue)
      /\ current \notin Range(zombies_queue)
  BY SchedulerAssumption
  DEF IInv, Caller, Running, QueuesPartitionTasks, ResumePoints
<1>2. /\ next \in Task
      /\ next \in Range(run_queue)
      /\ Tail(run_queue) \in Seq(Task)
      /\ IsInjective(Tail(run_queue))
      /\ Range(Tail(run_queue)) = Range(run_queue) \ {next}
  BY DequeueQueue DEF IInv, TypeOK, QueuesPartitionTasks
<1>3. /\ Requeue(Tail(run_queue), state)
      /\ current' = next
      /\ cpu' = ResumePoint(next)
  BY DEF SwitchTask
<1> HIDE DEF next
<1>4. /\ zombies_queue \in Seq(Task) /\ IsInjective(zombies_queue)
  BY DEF IInv, TypeOK, QueuesPartitionTasks
<1>5. current \notin Range(Tail(run_queue))
  BY <1>1, <1>2
<1>6. /\ run_queue' \in Seq(Task) /\ IsInjective(run_queue')
      /\ zombies_queue' \in Seq(Task) /\ IsInjective(zombies_queue')
      /\ Range(run_queue') = IF state # "EXIT"
                             THEN (Range(run_queue) \ {next}) \cup {current}
                             ELSE Range(run_queue) \ {next}
      /\ Range(zombies_queue') = IF state # "EXIT"
                                 THEN Range(zombies_queue)
                                 ELSE Range(zombies_queue) \cup {current}
  BY <1>1, <1>2, <1>3, <1>4, <1>5, RequeueQueues
<1>7. next # current /\ (next = Idle <=> context[next] = "in_loop")
  BY <1>1, <1>2 DEF IInv, ResumePoints, Caller
<1>8. cpu' = IF next = Idle THEN "idle_reap" ELSE "user"
  BY <1>3, <1>7 DEF ResumePoint
<1>9. Running' = {next}
  BY <1>3, <1>8 DEF Running
<1> QED
  BY <1>1, <1>2, <1>6, <1>7, <1>8, <1>9 DEF next

(* schedule() keeps the invariant when it switches to another task.        *)
LEMMA SwitchTaskInv ==
  ASSUME IInv, NEW state, NEW ctx, NEW enabled, Caller(state, ctx, enabled),
         run_queue # <<>>, SwitchTask(state, ctx, enabled)
  PROVE  IInv'
<1> DEFINE next == Head(run_queue)
<1>1. current \in Task /\ Running = {current}
  BY SwitchTaskQueues
<1>2. next \in Task /\ next \in Range(run_queue) /\ next # current
  BY SwitchTaskQueues
<1>3. /\ context' = [context EXCEPT ![current] = ctx]
      /\ current' = next
      /\ irq_enabled' = ResumeTimer(next, enabled)
      /\ pid' = pid
  BY DEF SwitchTask
<1>4. /\ run_queue' \in Seq(Task) /\ IsInjective(run_queue')
      /\ zombies_queue' \in Seq(Task) /\ IsInjective(zombies_queue')
      /\ Range(run_queue') = IF state # "EXIT"
                             THEN (Range(run_queue) \ {next}) \cup {current}
                             ELSE Range(run_queue) \ {next}
      /\ Range(zombies_queue') = IF state # "EXIT"
                                 THEN Range(zombies_queue)
                                 ELSE Range(zombies_queue) \cup {current}
  BY SwitchTaskQueues
<1>5. /\ Running' = {next}
      /\ cpu' = IF next = Idle THEN "idle_reap" ELSE "user"
  BY SwitchTaskQueues
<1> HIDE DEF next
<1>6. /\ next = Idle => context[next] = "in_loop"
      /\ next # Idle => context[next] \in {"fresh", "in_timer"}
      /\ timers > 1 /\ next # Idle => context[next] = "fresh"
  BY <1>1, <1>2 DEF IInv, ResumePoints, Caller
<1>7. /\ Live' = IF state # "EXIT" THEN Live ELSE Live \ {current}
      /\ Live \subseteq Task
      /\ current \notin Range(run_queue) /\ current \notin Range(zombies_queue)
  <2>1. current \notin Range(run_queue) /\ current \notin Range(zombies_queue)
    BY <1>1 DEF IInv, QueuesPartitionTasks
  <2>2. Range(run_queue) \subseteq Task
    BY DEF IInv, TypeOK, Range
  <2>3. Live = Range(run_queue) \cup {current}
    BY <1>1 DEF Live
  <2>4. Live' = Range(run_queue') \cup {next}
    BY <1>5 DEF Live
  <2> QED
    BY <1>1, <1>2, <1>4, <2>1, <2>2, <2>3, <2>4
<1>8. timers \in Nat /\ timers > 0
  BY <1>1, SchedulerAssumption DEF IInv, TypeOK, ResumePoints
<1>9. irq_enabled' \in BOOLEAN /\ (irq_enabled' <=> timers' = 1)
  <2>1. CASE context[next] = "in_timer"
    <3>1. timers = 1
      BY <2>1, <1>2, <1>6, <1>8
    <3>2. irq_enabled' = (timers # 0)
      BY <2>1, <1>3 DEF ResumeTimer
    <3>3. timers # 0 /\ timers' = 1
      BY <3>1, <1>8 DEF Caller
    <3> QED
      BY <3>2, <3>3, Zenon
  <2>2. CASE context[next] # "in_timer"
    BY <2>2, <1>3 DEF ResumeTimer, Caller
  <2> QED
    BY <2>1, <2>2
<1>10. TypeOK'
  <2>1. context' \in [Task -> Context]
    BY <1>3 DEF IInv, TypeOK, Caller
  <2> QED
    BY <1>2, <1>3, <1>4, <1>5, <1>9, <2>1 DEF IInv, TypeOK, Caller, Cpu
<1>11. ResumePoints'
  <2>1. \A t \in Task \ {current} : context'[t] = context[t]
    BY <1>3 DEF IInv, TypeOK
  <2>2. context'[current] = ctx
    BY <1>1, <1>3 DEF IInv, TypeOK
  <2>3. \A t \in Range(run_queue') \ {Idle} : context'[t] \in {"fresh", "in_timer"}
    <3> SUFFICES ASSUME NEW t \in Range(run_queue'), t # Idle
                 PROVE  context'[t] \in {"fresh", "in_timer"}
      OBVIOUS
    <3>1. CASE t = current
      BY <3>1, <1>4, <1>7, <2>2 DEF Caller, State
    <3>2. CASE t # current
      BY <3>2, <1>7, <1>4, <2>1 DEF IInv, ResumePoints, Live
    <3> QED
      BY <3>1, <3>2
  <2>4. Idle \in Range(run_queue') => context'[Idle] = "in_loop"
    BY <1>7, <1>4, <2>1, <2>2, SchedulerAssumption DEF IInv, ResumePoints, Caller
  <2>5. ASSUME timers' > 1, NEW t \in Range(run_queue') \ {Idle}
        PROVE  context'[t] = "fresh"
    <3>1. t # current
      BY <2>5, <1>4, <1>7 DEF Caller, State
    <3> QED
      BY <2>5, <3>1, <1>7, <1>4, <2>1 DEF IInv, ResumePoints, Caller, Live
  <2>6. \A t \in Live' \ {Idle} : task_pid'[t] > IdlePid
    BY <1>5, <1>7 DEF IInv, ResumePoints, Caller
  <2> QED
    BY <1>2, <1>3, <1>5, <1>7, <1>8, <1>9, <2>3, <2>4, <2>5, <2>6
    DEF IInv, ResumePoints, Caller
<1>12. QueuesPartitionTasks'
  BY <1>1, <1>2, <1>4, <1>6, <1>5, <1>7
  DEF IInv, QueuesPartitionTasks, Caller, Live
<1>13. LivePidsUnique'
  BY <1>3, <1>5, <1>7 DEF IInv, LivePidsUnique, Caller
<1>14. ExitedNeverRuns'
  BY <1>7, <1>1, <1>5 DEF IInv, ExitedNeverRuns, Caller, State
<1>15. ShellRunsAlone' /\ PreemptedOnlyInFirstRun' /\ CrashOnlyIfIdleKilled'
  BY <1>5, <1>9 DEF ShellRunsAlone, PreemptedOnlyInFirstRun, CrashOnlyIfIdleKilled
<1> QED
  BY <1>10, <1>11, <1>12, <1>13, <1>14, <1>15 DEF IInv

(* schedule() keeps the invariant when it calls the shell.                 *)
LEMMA EnterShellInv ==
  ASSUME IInv, NEW state, NEW ctx, NEW enabled, Caller(state, ctx, enabled),
         run_queue = <<>>, task_pid[current] = IdlePid, EnterShell
  PROVE  IInv'
<1>1. Running = {current} /\ Range(run_queue) = {} /\ Live = {current}
  BY DEF Caller, Running, Live, Range
<1>2. current = Idle
  BY <1>1 DEF IInv, ResumePoints, IdlePid
<1>3. run_queue' = <<Idle>>
  BY <1>2 DEF EnterShell, Enqueue
<1>4. Range(run_queue') = {Idle} /\ run_queue' \in Seq(Task) /\ IsInjective(run_queue')
  BY <1>3, SchedulerAssumption DEF Range, IsInjective
<1>5. /\ zombies_queue' = zombies_queue /\ current' = current /\ context' = context
      /\ pid' = 2 /\ irq_enabled' = FALSE /\ cpu' = "shell"
  BY DEF EnterShell, IdlePid
<1>6. Running' = {} /\ Live' = {Idle}
  BY <1>4, <1>5 DEF Running, Live
<1>7. TypeOK'
  <2>1. pid' \in (IdlePid + 1)..(MaxPid + 1)
    BY <1>5, SchedulerAssumption DEF IdlePid
  <2>2. irq_enabled' \in BOOLEAN
    BY <1>5
  <2> QED
    BY <1>4, <1>5, <2>1, <2>2 DEF IInv, TypeOK, Caller, Cpu
<1>8. ResumePoints'
  BY <1>2, <1>4, <1>5, <1>6 DEF IInv, ResumePoints, Caller
<1>9. QueuesPartitionTasks'
  BY <1>1, <1>2, <1>4, <1>5, <1>6 DEF IInv, QueuesPartitionTasks, Caller
<1>10. LivePidsUnique'
  BY <1>5, <1>6 DEF IInv, LivePidsUnique, ResumePoints, IdlePid, Caller
<1>11. ExitedNeverRuns'
  BY <1>2, <1>6 DEF ExitedNeverRuns, Caller
<1>12. ShellRunsAlone' /\ PreemptedOnlyInFirstRun' /\ CrashOnlyIfIdleKilled'
  BY <1>3, <1>5 DEF ShellRunsAlone, PreemptedOnlyInFirstRun, CrashOnlyIfIdleKilled
<1> QED
  BY <1>7, <1>8, <1>9, <1>10, <1>11, <1>12 DEF IInv

(* Where every task is after the switch to NULL.                           *)
LEMMA SwitchToNullQueues ==
  ASSUME IInv, NEW state, NEW ctx, NEW enabled, Caller(state, ctx, enabled),
         run_queue = <<>>, task_pid[current] # IdlePid,
         SwitchToNull(state, ctx, enabled)
  PROVE  /\ current \in Task \ {Idle} /\ Running = {current} /\ Live = {current}
         /\ Range(run_queue) = {}
         /\ current \notin Range(zombies_queue)
         /\ run_queue' \in Seq(Task) /\ IsInjective(run_queue')
         /\ zombies_queue' \in Seq(Task) /\ IsInjective(zombies_queue')
         /\ Range(run_queue') = IF state # "EXIT" THEN {current} ELSE {}
         /\ Range(zombies_queue') = IF state # "EXIT" THEN Range(zombies_queue)
                                    ELSE Range(zombies_queue) \cup {current}
         /\ Running' = {}
<1>1. Running = {current} /\ Range(run_queue) = {} /\ Live = {current}
  BY DEF Caller, Running, Live, Range
<1>2. current \in Task \ {Idle}
  BY DEF IInv, ResumePoints, Caller
<1>3. /\ zombies_queue \in Seq(Task) /\ IsInjective(zombies_queue)
      /\ current \notin Range(zombies_queue)
      /\ run_queue \in Seq(Task) /\ IsInjective(run_queue)
      /\ current \in Task /\ current \notin Range(run_queue)
  BY <1>1, <1>2 DEF IInv, TypeOK, QueuesPartitionTasks
<1>4. /\ Requeue(run_queue, state)
      /\ current' = NULL /\ cpu' = "crashed"
  BY DEF SwitchToNull
<1>5. /\ run_queue' \in Seq(Task) /\ IsInjective(run_queue')
      /\ zombies_queue' \in Seq(Task) /\ IsInjective(zombies_queue')
      /\ Range(run_queue') = IF state # "EXIT" THEN {current} ELSE {}
      /\ Range(zombies_queue') = IF state # "EXIT" THEN Range(zombies_queue)
                                 ELSE Range(zombies_queue) \cup {current}
  <2>1. <<>> \in Seq(Task) /\ IsInjective(<<>>) /\ Range(<<>>) = {}
    BY DEF IsInjective, Range
  <2>2. Requeue(<<>>, state)
    BY <1>4
  <2>3. /\ run_queue' \in Seq(Task) /\ IsInjective(run_queue')
        /\ zombies_queue' \in Seq(Task) /\ IsInjective(zombies_queue')
        /\ Range(run_queue') = IF state # "EXIT" THEN Range(<<>>) \cup {current}
                               ELSE Range(<<>>)
        /\ Range(zombies_queue') = IF state # "EXIT" THEN Range(zombies_queue)
                                   ELSE Range(zombies_queue) \cup {current}
    BY <1>3, <2>1, <2>2, RequeueQueues
  <2> QED
    BY <2>1, <2>3
<1>6. Running' = {}
  BY <1>4 DEF Running
<1> QED
  BY <1>1, <1>2, <1>3, <1>5, <1>6

(* schedule() keeps the invariant when it switches to NULL.                *)
LEMMA SwitchToNullInv ==
  ASSUME IInv, NEW state, NEW ctx, NEW enabled, Caller(state, ctx, enabled),
         run_queue = <<>>, task_pid[current] # IdlePid,
         SwitchToNull(state, ctx, enabled)
  PROVE  IInv'
<1>1. Running = {current} /\ Live = {current} /\ current \in Task \ {Idle}
  BY SwitchToNullQueues
<1>3. Idle \in Range(zombies_queue)
  BY <1>1 DEF IInv, ResumePoints, QueuesPartitionTasks, Live
<1>4. current \notin Range(zombies_queue)
  BY SwitchToNullQueues
<1>5. /\ context' = [context EXCEPT ![current] = ctx]
      /\ current' = NULL /\ cpu' = "crashed"
      /\ irq_enabled' = enabled /\ pid' = pid
  BY DEF SwitchToNull
<1>6. /\ run_queue' \in Seq(Task) /\ IsInjective(run_queue')
      /\ zombies_queue' \in Seq(Task) /\ IsInjective(zombies_queue')
      /\ Range(run_queue') = IF state # "EXIT" THEN {current} ELSE {}
      /\ Range(zombies_queue') = IF state # "EXIT" THEN Range(zombies_queue)
                                 ELSE Range(zombies_queue) \cup {current}
  BY SwitchToNullQueues
<1>7. Running' = {} /\ Live' = IF state # "EXIT" THEN {current} ELSE {}
  BY <1>5, <1>6 DEF Running, Live
<1>8. TypeOK'
  <2>1. context' \in [Task -> Context]
    BY <1>5 DEF IInv, TypeOK, Caller
  <2>2. irq_enabled' \in BOOLEAN
    BY <1>5 DEF Caller
  <2> QED
    BY <1>5, <1>6, <2>1, <2>2 DEF IInv, TypeOK, Caller, Cpu
<1>9. ResumePoints'
  <2>1. context'[current] = ctx
    BY <1>1, <1>5 DEF IInv, TypeOK
  <2> QED
    BY <1>1, <1>5, <1>6, <1>7, <2>1 DEF IInv, ResumePoints, Caller, State
<1>10. QueuesPartitionTasks'
  BY <1>1, <1>4, <1>6, <1>7 DEF IInv, QueuesPartitionTasks, Caller
<1>11. LivePidsUnique'
  BY <1>1, <1>5, <1>7 DEF IInv, LivePidsUnique, Caller
<1>12. ExitedNeverRuns'
  BY <1>7 DEF ExitedNeverRuns, Caller, State
<1>13. ShellRunsAlone' /\ PreemptedOnlyInFirstRun' /\ CrashOnlyIfIdleKilled'
  BY <1>3, <1>5, <1>6 DEF ShellRunsAlone, PreemptedOnlyInFirstRun, CrashOnlyIfIdleKilled
<1> QED
  BY <1>8, <1>9, <1>10, <1>11, <1>12, <1>13 DEF IInv

(* schedule() keeps the invariant, whoever calls it.                       *)
LEMMA ScheduleInv ==
  ASSUME IInv, NEW state, NEW ctx, NEW enabled, Caller(state, ctx, enabled),
         Schedule(state, ctx, enabled)
  PROVE  IInv'
BY SwitchTaskInv, EnterShellInv, SwitchToNullInv DEF Schedule

(* The callers of schedule() do what Caller says.                          *)
LEMMA IdleScheduleCaller ==
  ASSUME IInv, IdleSchedule
  PROVE  Caller(task_state[current], "in_loop", irq_enabled)
<1>1. current = Idle /\ Running = {Idle}
  BY DEF IInv, IdleSchedule, ResumePoints, Running
<1>2. task_state[current] = "RUNNING"
  BY <1>1 DEF IInv, ExitedNeverRuns, Live
<1>3. irq_enabled \in BOOLEAN /\ (irq_enabled <=> timers = 1)
  BY <1>1 DEF IInv, TypeOK, ResumePoints
<1> QED
  BY <1>1, <1>2, <1>3 DEF IInv, IdleSchedule, TypeOK, Caller, State, Context

(* normal_timer calls schedule() as ScheduleInv requires.                  *)
LEMMA TimerIrqCaller ==
  ASSUME IInv, TimerIrq
  PROVE  Caller(task_state[current], "in_timer", timers - 1 = 0)
<1>1. current \in Task \ {Idle} /\ Running = {current}
  BY DEF IInv, TimerIrq, ResumePoints, Running
<1>2. task_state[current] = "RUNNING"
  BY <1>1 DEF IInv, ExitedNeverRuns, Live
<1>3. timers = 1
  BY <1>1 DEF IInv, TimerIrq, ResumePoints
<1> QED
  BY <1>1, <1>2, <1>3 DEF IInv, TimerIrq, TypeOK, Caller, State, Context

(* The exit system call calls schedule() as ScheduleInv requires.          *)
LEMMA ExitCaller ==
  ASSUME IInv, Exit
  PROVE  Caller("EXIT", "in_exit", irq_enabled)
<1>1. current \in Task \ {Idle} /\ Running = {current}
  BY DEF IInv, Exit, ResumePoints, Running
<1>2. irq_enabled \in BOOLEAN /\ (irq_enabled <=> timers = 1)
  BY <1>1 DEF IInv, TypeOK, ResumePoints
<1> QED
  BY <1>1, <1>2 DEF IInv, Exit, TypeOK, Caller, State, Context

(* The three callers of schedule() keep the invariant.                     *)
LEMMA CallersInv == IInv /\ (IdleSchedule \/ TimerIrq \/ Exit) => IInv'
BY IdleScheduleCaller, TimerIrqCaller, ExitCaller, ScheduleInv
DEF IdleSchedule, TimerIrq, Exit

(* What task_create does to the facts about tasks: the new one is nowhere. *)
LEMMA TaskCreateTask ==
  ASSUME IInv, NEW t \in Task, TaskCreate(t)
  PROVE  /\ t # Idle /\ t \notin Live /\ t \notin Range(zombies_queue)
         /\ t \notin Range(run_queue)
         /\ allocated' = allocated \cup {t}
         /\ pid' \in (IdlePid + 1)..(MaxPid + 1) /\ pid' = pid + 1
         /\ task_pid' \in [Task -> 0..MaxPid]
         /\ task_state' \in [Task -> State]
         /\ context' \in [Task -> Context]
         /\ task_pid'[t] = pid /\ pid > IdlePid
         /\ task_state'[t] = "RUNNING" /\ context'[t] = "fresh"
         /\ \A u \in Task \ {t} : /\ task_pid'[u] = task_pid[u]
                                  /\ task_state'[u] = task_state[u]
                                  /\ context'[u] = context[u]
<1>1. t # Idle /\ t \notin Live /\ t \notin Range(zombies_queue)
  BY DEF IInv, TaskCreate, ResumePoints, QueuesPartitionTasks
<1>2. pid \in 0..MaxPid /\ pid > IdlePid /\ pid + 1 \in (IdlePid + 1)..(MaxPid + 1)
  BY SchedulerAssumption DEF IInv, TypeOK, TaskCreate, IdlePid
<1>3. "RUNNING" \in State /\ "fresh" \in Context
  BY DEF State, Context
<1> QED
  BY <1>1, <1>2, <1>3 DEF IInv, TypeOK, TaskCreate, Live

(* "run" leaves the new program alone in run_queue: idle_thread has taken  *)
(* the idle task.                                                          *)
LEMMA ShellRunQueue ==
  ASSUME IInv, NEW t \in Task, ShellRun(t)
  PROVE  /\ run_queue' \in Seq(Task) /\ Range(run_queue') = {t}
         /\ IsInjective(run_queue')
         /\ current' = Idle
<1>1. /\ run_queue = <<Idle>> /\ ~irq_enabled /\ Running = {}
      /\ Range(run_queue) = {Idle} /\ Live = {Idle}
  BY DEF IInv, ShellRun, ShellRunsAlone, Running, Range, Live
<1>2. t # Idle /\ t \notin Range(run_queue)
  BY <1>1, TaskCreateTask DEF ShellRun
<1>3. current' = Idle
  <2>1. /\ Enqueue(run_queue, t) \in Seq(Task) /\ Enqueue(run_queue, t) # <<>>
        /\ Enqueue(run_queue, t)[1] = Idle
    BY <1>1, AppendProperties DEF Enqueue, IInv, TypeOK
  <2> QED
    BY <2>1 DEF ShellRun
<1>4. /\ run_queue' \in Seq(Task) /\ Range(run_queue') = {t}
      /\ IsInjective(run_queue')
  <2>1. run_queue \in Seq(Task) /\ IsInjective(run_queue)
    BY DEF IInv, TypeOK, QueuesPartitionTasks
  <2>2. /\ Enqueue(run_queue, t) \in Seq(Task)
        /\ Range(Enqueue(run_queue, t)) = Range(run_queue) \cup {t}
        /\ IsInjective(Enqueue(run_queue, t))
    BY <1>2, <2>1, EnqueueQueue
  <2>4. Enqueue(run_queue, t) # <<>>
    BY <2>1, AppendProperties DEF Enqueue
  <2>3. /\ Tail(Enqueue(run_queue, t)) \in Seq(Task)
        /\ IsInjective(Tail(Enqueue(run_queue, t)))
        /\ Range(Tail(Enqueue(run_queue, t))) =
             (Range(run_queue) \cup {t}) \ {current'}
    BY <2>2, <2>4, DequeueQueue DEF ShellRun
  <2> QED
    BY <1>1, <1>2, <1>3, <2>3 DEF ShellRun
<1> QED
  BY <1>3, <1>4

(* The shell command run keeps the invariant.                              *)
LEMMA ShellRunInv == ASSUME IInv, NEW t \in Task, ShellRun(t) PROVE IInv'
<1>1. /\ run_queue = <<Idle>> /\ ~irq_enabled /\ Running = {}
      /\ Range(run_queue) = {Idle} /\ Live = {Idle}
  BY DEF IInv, ShellRun, ShellRunsAlone, Running, Range, Live
<1>3. current' = Idle
  BY ShellRunQueue
<1>4. /\ run_queue' \in Seq(Task) /\ Range(run_queue') = {t}
      /\ IsInjective(run_queue')
  BY ShellRunQueue
<1>5. /\ zombies_queue' = zombies_queue /\ cpu' = "idle_schedule"
      /\ timers' = timers + 1
  BY DEF ShellRun
<1>6. Running' = {Idle} /\ Live' = {Idle, t}
  BY <1>3, <1>4, <1>5 DEF Running, Live
<1>7. timers' \in 1..MaxRuns /\ timers \in Nat
  BY <1>5, SchedulerAssumption DEF IInv, TypeOK, ShellRun
<1>8. irq_enabled' \in BOOLEAN /\ (irq_enabled' <=> timers' = 1)
  <2>1. irq_enabled' = (timers = 0)
    BY <1>1 DEF ShellRun, IInv, TypeOK
  <2>2. timers = 0 <=> timers' = 1
    BY <1>5, <1>7
  <2> QED
    BY <2>1, <2>2, Zenon
<1>9. TypeOK'
  <2>1. zombies_queue' \in Seq(Task) /\ current' \in Task \cup {NULL} /\ cpu' \in Cpu
    BY <1>3, <1>5, SchedulerAssumption DEF IInv, TypeOK, Cpu
  <2>2. /\ pid' \in (IdlePid + 1)..(MaxPid + 1) /\ task_pid' \in [Task -> 0..MaxPid]
        /\ task_state' \in [Task -> State] /\ context' \in [Task -> Context]
        /\ allocated' \subseteq Task
    BY TaskCreateTask DEF IInv, TypeOK, ShellRun
  <2>3. timers' \in 0..MaxRuns
    BY <1>7, SchedulerAssumption
  <2> QED
    BY <1>4, <1>8, <2>1, <2>2, <2>3 DEF TypeOK
<1>10. ResumePoints'
  <2>1. Idle \in allocated' /\ task_pid'[Idle] = IdlePid
    BY TaskCreateTask, SchedulerAssumption DEF IInv, ResumePoints, ShellRun
  <2>2. \A u \in Live' \ {Idle} : task_pid'[u] > IdlePid
    BY <1>6, TaskCreateTask DEF ShellRun
  <2>3. \A u \in Range(run_queue') \ {Idle} : context'[u] = "fresh"
    BY <1>4, TaskCreateTask DEF ShellRun
  <2>4. Idle \notin Range(run_queue')
    BY <1>4, TaskCreateTask DEF ShellRun
  <2> QED
    BY <1>3, <1>5, <1>6, <1>7, <1>8, <2>1, <2>2, <2>3, <2>4 DEF ResumePoints
<1>11. QueuesPartitionTasks'
  BY <1>1, <1>4, <1>5, <1>6, TaskCreateTask
  DEF IInv, QueuesPartitionTasks, ResumePoints, ShellRun
<1>12. LivePidsUnique'
  BY <1>6, TaskCreateTask, SchedulerAssumption
  DEF IInv, TypeOK, LivePidsUnique, ResumePoints, ShellRun, IdlePid
<1>13. ExitedNeverRuns'
  BY <1>1, <1>6, TaskCreateTask, SchedulerAssumption DEF IInv, ExitedNeverRuns, ShellRun
<1>14. ShellRunsAlone' /\ PreemptedOnlyInFirstRun' /\ CrashOnlyIfIdleKilled'
  BY <1>5 DEF ShellRunsAlone, PreemptedOnlyInFirstRun, CrashOnlyIfIdleKilled
<1> QED
  BY <1>9, <1>10, <1>11, <1>12, <1>13, <1>14 DEF IInv

(* fork keeps the invariant.                                               *)
LEMMA ForkInv == ASSUME IInv, NEW t \in Task, Fork(t) PROVE IInv'
<1>1. /\ run_queue \in Seq(Task) /\ IsInjective(run_queue)
      /\ t \notin Range(run_queue)
  BY TaskCreateTask DEF IInv, TypeOK, QueuesPartitionTasks, Fork
<1>2. /\ run_queue' \in Seq(Task) /\ IsInjective(run_queue')
      /\ Range(run_queue') = Range(run_queue) \cup {t}
  BY <1>1, EnqueueQueue DEF Fork
<1>3. /\ zombies_queue' = zombies_queue /\ current' = current /\ cpu' = cpu
      /\ timers' = timers /\ irq_enabled' = irq_enabled /\ cpu = "user"
  BY DEF Fork
<1>4. Running' = Running /\ Live' = Live \cup {t}
  BY <1>2, <1>3 DEF Running, Live
<1>5. Live \subseteq Task /\ Range(run_queue) \subseteq Live
  BY <1>1, <1>3 DEF IInv, ResumePoints, Live, Running, Range
<1>6. TypeOK'
  BY <1>2, <1>3, TaskCreateTask DEF IInv, TypeOK, Fork
<1>7. ResumePoints'
  <2>1. \A u \in Live' \ {Idle} : task_pid'[u] > IdlePid
    BY <1>4, <1>5, TaskCreateTask DEF IInv, ResumePoints, Fork
  <2>2. \A u \in Range(run_queue') \ {Idle} : context'[u] \in {"fresh", "in_timer"}
    BY <1>2, <1>5, TaskCreateTask DEF IInv, ResumePoints, Fork
  <2>3. Idle \in Range(run_queue') => context'[Idle] = "in_loop"
    BY <1>2, <1>3, TaskCreateTask, SchedulerAssumption DEF IInv, ResumePoints, Fork
  <2>4. timers' > 1 => \A u \in Range(run_queue') \ {Idle} : context'[u] = "fresh"
    BY <1>2, <1>3, <1>5, TaskCreateTask DEF IInv, ResumePoints, Fork
  <2>5. Idle \in allocated' /\ task_pid'[Idle] = IdlePid
    BY TaskCreateTask, SchedulerAssumption DEF IInv, ResumePoints, Fork
  <2> QED
    BY <1>3, <1>4, <2>1, <2>2, <2>3, <2>4, <2>5 DEF IInv, ResumePoints
<1>8. QueuesPartitionTasks'
  BY <1>2, <1>3, <1>4, TaskCreateTask
  DEF IInv, QueuesPartitionTasks, Fork, Live
<1>9. LivePidsUnique'
  BY <1>4, <1>5, TaskCreateTask DEF IInv, TypeOK, LivePidsUnique, Fork
<1>10. ExitedNeverRuns'
  BY <1>4, <1>5, TaskCreateTask DEF IInv, ExitedNeverRuns, Fork
<1>11. ShellRunsAlone' /\ PreemptedOnlyInFirstRun' /\ CrashOnlyIfIdleKilled'
  BY <1>3 DEF IInv, ShellRunsAlone, PreemptedOnlyInFirstRun, CrashOnlyIfIdleKilled
<1> QED
  BY <1>6, <1>7, <1>8, <1>9, <1>10, <1>11 DEF IInv

(* kill_zombies keeps the invariant.                                       *)
LEMMA KillZombiesInv == IInv /\ KillZombies => IInv'
<1> SUFFICES ASSUME IInv, KillZombies PROVE IInv'
  OBVIOUS
<1>1. Running = {Idle} /\ current = Idle /\ cpu = "idle_reap"
  BY DEF IInv, KillZombies, ResumePoints, Running
<1>2. /\ run_queue' = run_queue /\ current' = current /\ pid' = pid
      /\ task_pid' = task_pid /\ task_state' = task_state /\ context' = context
      /\ timers' = timers /\ irq_enabled' = irq_enabled
      /\ cpu' = "idle_schedule"
  BY DEF KillZombies
<1>3. Running' = Running /\ Live' = Live
  BY <1>1, <1>2 DEF Running, Live
<1>4. /\ zombies_queue' \in Seq(Task) /\ IsInjective(zombies_queue')
      /\ Range(zombies_queue') \subseteq Range(zombies_queue)
      /\ allocated' = allocated \ (Range(zombies_queue) \ Range(zombies_queue'))
  <2>1. CASE zombies_queue = <<>>
    BY <2>1 DEF IInv, TypeOK, QueuesPartitionTasks, KillZombies
  <2>2. CASE zombies_queue # <<>>
    <3>1. zombies_queue \in Seq(Task) /\ IsInjective(zombies_queue)
      BY DEF IInv, TypeOK, QueuesPartitionTasks
    <3>2. /\ Tail(zombies_queue) \in Seq(Task) /\ IsInjective(Tail(zombies_queue))
          /\ Head(zombies_queue) \in Range(zombies_queue)
          /\ Range(Tail(zombies_queue)) = Range(zombies_queue) \ {Head(zombies_queue)}
      BY <2>2, <3>1, DequeueQueue
    <3>3. /\ zombies_queue' = Tail(zombies_queue)
          /\ allocated' = allocated \ {Head(zombies_queue)}
      BY <2>2 DEF KillZombies
    <3> QED
      BY <3>2, <3>3
  <2> QED
    BY <2>1, <2>2
<1>5. TypeOK'
  BY <1>2, <1>4 DEF IInv, TypeOK, Cpu
<1>6. QueuesPartitionTasks'
  BY <1>2, <1>3, <1>4 DEF IInv, QueuesPartitionTasks, Live
<1>7. ResumePoints'
  <2>1. Idle \in allocated'
    BY <1>1, <1>3, <1>6 DEF QueuesPartitionTasks, Live
  <2> QED
    BY <1>1, <1>2, <1>3, <2>1 DEF IInv, ResumePoints
<1>8. LivePidsUnique' /\ ExitedNeverRuns'
  BY <1>2, <1>3 DEF IInv, LivePidsUnique, ExitedNeverRuns
<1>9. ShellRunsAlone' /\ PreemptedOnlyInFirstRun' /\ CrashOnlyIfIdleKilled'
  BY <1>2 DEF ShellRunsAlone, PreemptedOnlyInFirstRun, CrashOnlyIfIdleKilled
<1> QED
  BY <1>5, <1>6, <1>7, <1>8, <1>9 DEF IInv

(* kill_thread keeps the invariant.                                        *)
LEMMA KillInv == ASSUME IInv, NEW p \in Killable, Kill(p) PROVE IInv'
<1>1. PICK i \in 1..Len(run_queue) :
        /\ run_queue' = Unlink(run_queue, i)
        /\ zombies_queue' = Enqueue(zombies_queue, run_queue[i])
  BY DEF Kill
<1>2. /\ run_queue \in Seq(Task) /\ IsInjective(run_queue)
      /\ zombies_queue \in Seq(Task) /\ IsInjective(zombies_queue)
      /\ run_queue[i] \in Task
      /\ run_queue[i] \in Range(run_queue) /\ run_queue[i] \notin Range(zombies_queue)
  <2>1. run_queue[i] \in Range(run_queue) /\ run_queue[i] \in Task
    BY DEF IInv, TypeOK, Range
  <2> QED
    BY <2>1 DEF IInv, TypeOK, QueuesPartitionTasks
<1>3. /\ run_queue' \in Seq(Task) /\ IsInjective(run_queue')
      /\ Range(run_queue') = Range(run_queue) \ {run_queue[i]}
  BY <1>1, <1>2, UnlinkQueue
<1>4. /\ zombies_queue' \in Seq(Task) /\ IsInjective(zombies_queue')
      /\ Range(zombies_queue') = Range(zombies_queue) \cup {run_queue[i]}
  BY <1>1, <1>2, EnqueueQueue
<1>5. /\ current' = current /\ pid' = pid /\ task_pid' = task_pid
      /\ task_state' = task_state /\ context' = context /\ timers' = timers
      /\ irq_enabled' = irq_enabled /\ cpu' = cpu /\ cpu = "user"
      /\ allocated' = allocated
  BY DEF Kill
<1>6. /\ Running' = Running /\ Live' = Live \ {run_queue[i]}
  BY <1>2, <1>3, <1>5 DEF IInv, QueuesPartitionTasks, Running, Live
<1>7. TypeOK'
  BY <1>3, <1>4, <1>5 DEF IInv, TypeOK
<1>8. ResumePoints'
  BY <1>3, <1>5, <1>6 DEF IInv, ResumePoints
<1>9. QueuesPartitionTasks'
  BY <1>2, <1>3, <1>4, <1>5, <1>6 DEF IInv, QueuesPartitionTasks, Live
<1>10. LivePidsUnique' /\ ExitedNeverRuns'
  BY <1>5, <1>6 DEF IInv, LivePidsUnique, ExitedNeverRuns
<1>11. ShellRunsAlone' /\ PreemptedOnlyInFirstRun' /\ CrashOnlyIfIdleKilled'
  BY <1>5 DEF IInv, ShellRunsAlone, PreemptedOnlyInFirstRun, CrashOnlyIfIdleKilled
<1> QED
  BY <1>7, <1>8, <1>9, <1>10, <1>11 DEF IInv

(* The steps into and out of a handler that waits or loops.                *)
Waiting == PollDevice \/ PollReturns \/ InvalidException

(* They leave the current task on the CPU and everything else alone.       *)
LEMMA WaitingFacts ==
  ASSUME Waiting
  PROVE  /\ cpu \in {"user", "polling"} /\ cpu' \in {"user", "polling", "stuck"}
         /\ Running = {current} /\ Running' = Running
         /\ UNCHANGED <<run_queue, zombies_queue, current, pid, task_pid,
                        task_state, context, allocated, timers, irq_enabled>>
BY DEF Waiting, PollDevice, PollReturns, InvalidException, Running

(* A wait with interrupts masked keeps the invariant: the task that comes  *)
(* back from it is the current one still.                                  *)
LEMMA WaitingInv == IInv /\ Waiting => IInv'
<1> SUFFICES ASSUME IInv, Waiting PROVE IInv'
  OBVIOUS
<1>1. /\ cpu \in {"user", "polling"} /\ cpu' \in {"user", "polling", "stuck"}
      /\ Running = {current} /\ Running' = Running
      /\ UNCHANGED <<run_queue, zombies_queue, current, pid, task_pid,
                     task_state, context, allocated, timers, irq_enabled>>
  BY WaitingFacts
<1>2. Live' = Live
  BY <1>1 DEF Live
<1>3. TypeOK'
  BY <1>1 DEF IInv, TypeOK, Cpu
<1>4. ResumePoints'
  BY <1>1, <1>2 DEF IInv, ResumePoints
<1>5. QueuesPartitionTasks'
  BY <1>1, <1>2 DEF IInv, QueuesPartitionTasks
<1>6. LivePidsUnique' /\ ExitedNeverRuns'
  BY <1>1, <1>2 DEF IInv, LivePidsUnique, ExitedNeverRuns
<1>7. ShellRunsAlone' /\ CrashOnlyIfIdleKilled'
  BY <1>1 DEF ShellRunsAlone, CrashOnlyIfIdleKilled
<1>8. PreemptedOnlyInFirstRun'
  BY <1>1 DEF IInv, ResumePoints, PreemptedOnlyInFirstRun
<1> QED
  BY <1>3, <1>4, <1>5, <1>6, <1>7, <1>8 DEF IInv

-----------------------------------------------------------------------------
(* Every reachable state satisfies IInv.                                   *)
THEOREM Invariance == Spec => []IInv
<1>1. IInv /\ UNCHANGED vars => IInv'
  BY DEF vars, IInv, TypeOK, ResumePoints, QueuesPartitionTasks, LivePidsUnique,
         ExitedNeverRuns, ShellRunsAlone, PreemptedOnlyInFirstRun,
         CrashOnlyIfIdleKilled, Live, Running
<1>2. IInv /\ [Next]_vars => IInv'
  BY <1>1, ShellRunInv, CallersInv, KillZombiesInv,
     ForkInv, KillInv, WaitingInv DEF Next, Waiting
<1> QED
  BY InitIInv, <1>2, PTL DEF Spec

(* The variables keep their types.                                         *)
THEOREM TypeCorrect == Spec => []TypeOK
BY Invariance, PTL DEF IInv

(* No task is lost, queued twice or freed while it is reachable.           *)
THEOREM Partition == Spec => []QueuesPartitionTasks
BY Invariance, PTL DEF IInv

(* Pids of live tasks differ although the shell resets the counter.        *)
THEOREM PidsUnique == Spec => []LivePidsUnique
BY Invariance, PTL DEF IInv

(* A task that called exit is never dispatched again.                      *)
THEOREM NoExitedTaskRuns == Spec => []ExitedNeverRuns
BY Invariance, PTL DEF IInv

(* The shell has the CPU for itself.                                       *)
THEOREM ShellAlone == Spec => []ShellRunsAlone
BY Invariance, PTL DEF IInv

(* Preemption works exactly in the first run.                              *)
THEOREM Preemption == Spec => []PreemptedOnlyInFirstRun
BY Invariance, PTL DEF IInv

(* The kernel only switches to NULL after the idle task was killed.        *)
THEOREM CrashCause == Spec => []CrashOnlyIfIdleKilled
BY Invariance, PTL DEF IInv

-----------------------------------------------------------------------------
(* Without kill(1) the idle task is never a zombie, hence always there to  *)
(* be switched to.                                                         *)
IdleAlive == Idle \notin Range(zombies_queue)

(* schedule() finds a next task as long as the idle task is not killed.    *)
LEMMA ScheduleIdleAlive ==
  ASSUME IInv, IdleAlive, NEW state, NEW ctx, NEW enabled,
         Schedule(state, ctx, enabled),
         current \in Task, current = Idle => state # "EXIT"
  PROVE  IdleAlive'
<1>1. ASSUME NEW q, Requeue(q, state)
      PROVE  IdleAlive'
  <2>1. CASE state # "EXIT"
    BY <1>1, <2>1 DEF Requeue, IdleAlive
  <2>2. CASE state = "EXIT"
    <3>1. Range(zombies_queue') = Range(zombies_queue) \cup {current}
      BY <1>1, <2>2, EnqueueQueue DEF Requeue, IInv, TypeOK
    <3> QED
      BY <2>2, <3>1 DEF IdleAlive
  <2> QED
    BY <2>1, <2>2
<1>2. CASE SwitchTask(state, ctx, enabled)
  BY <1>1, <1>2 DEF SwitchTask
<1>3. CASE EnterShell
  BY <1>3 DEF EnterShell, IdleAlive
<1>4. CASE SwitchToNull(state, ctx, enabled)
  BY <1>1, <1>4 DEF SwitchToNull
<1> QED
  BY <1>2, <1>3, <1>4 DEF Schedule

(* If no program kills pid 1, schedule() never switches to NULL.           *)
THEOREM NoCrash ==
  ASSUME IdlePid \notin Killable
  PROVE  Spec => []NeverCrashes
<1>1. Init => IdleAlive
  BY DEF Init, IdleAlive, Range
<1>2. IInv /\ IdleAlive /\ [Next]_vars => IdleAlive'
  <2> SUFFICES ASSUME IInv, IdleAlive, [Next]_vars PROVE IdleAlive'
    OBVIOUS
  <2>1. ASSUME NEW t \in Task, ShellRun(t) \/ Fork(t) PROVE IdleAlive'
    BY <2>1 DEF ShellRun, Fork, IdleAlive
  <2>2. CASE IdleSchedule
    <3>1. current = Idle /\ Running = {Idle}
      BY <2>2 DEF IInv, IdleSchedule, ResumePoints, Running
    <3>2. task_state[current] # "EXIT"
      BY <3>1 DEF IInv, ExitedNeverRuns, Live
    <3> QED
      BY <2>2, <3>1, <3>2, ScheduleIdleAlive, SchedulerAssumption DEF IdleSchedule
  <2>3. CASE KillZombies
    <3>1. CASE zombies_queue = <<>>
      BY <2>3, <3>1 DEF KillZombies, IdleAlive
    <3>2. CASE zombies_queue # <<>>
      <4>1. zombies_queue \in Seq(Task) /\ IsInjective(zombies_queue)
        BY DEF IInv, TypeOK, QueuesPartitionTasks
      <4>2. zombies_queue' = Tail(zombies_queue)
        BY <2>3, <3>2 DEF KillZombies
      <4>3. Range(Tail(zombies_queue)) \subseteq Range(zombies_queue)
        BY <3>2, <4>1, DequeueQueue
      <4> QED
        BY <4>2, <4>3 DEF IdleAlive
    <3> QED
      BY <3>1, <3>2
  <2>4. CASE TimerIrq
    <3>1. current \in Task \ {Idle}
      BY <2>4 DEF IInv, TimerIrq, ResumePoints
    <3> QED
      BY <2>4, <3>1, ScheduleIdleAlive DEF TimerIrq
  <2>5. CASE Exit
    <3>1. current \in Task \ {Idle}
      BY <2>5 DEF IInv, Exit, ResumePoints
    <3> QED
      BY <2>5, <3>1, ScheduleIdleAlive DEF Exit
  <2>6. ASSUME NEW p \in Killable, Kill(p) PROVE IdleAlive'
    <3>1. PICK i \in 1..Len(run_queue) :
            /\ task_pid[run_queue[i]] = p
            /\ zombies_queue' = Enqueue(zombies_queue, run_queue[i])
      BY <2>6 DEF Kill, FirstWithPid
    <3>2. run_queue[i] # Idle /\ run_queue[i] \in Task
      BY <3>1 DEF IInv, TypeOK, ResumePoints
    <3>3. Range(Enqueue(zombies_queue, run_queue[i])) =
            Range(zombies_queue) \cup {run_queue[i]}
      <4>1. zombies_queue \in Seq(Task)
        BY DEF IInv, TypeOK
      <4> QED
        BY <3>2, <4>1, EnqueueQueue
    <3> QED
      BY <3>1, <3>2, <3>3 DEF IdleAlive
  <2>7. CASE Waiting
    BY <2>7, WaitingFacts DEF IdleAlive
  <2>8. CASE UNCHANGED vars
    BY <2>8 DEF vars, IdleAlive
  <2> QED
    BY <2>1, <2>2, <2>3, <2>4, <2>5, <2>6, <2>7, <2>8 DEF Next, Waiting
<1>3. IInv /\ IdleAlive => NeverCrashes
  BY DEF IInv, CrashOnlyIfIdleKilled, IdleAlive, NeverCrashes
<1> QED
  BY <1>1, <1>2, <1>3, Invariance, PTL DEF Spec

-----------------------------------------------------------------------------
(* Every step keeps the order of run_queue.                                *)
LEMMA EnqueueKeepsOrder ==
  ASSUME NEW S, NEW q \in Seq(S), NEW r \in Seq(S), NEW t \in S,
         KeepsOrder(q, r), t \notin Range(q)
  PROVE  KeepsOrder(q, Enqueue(r, t))
<1>1. Len(Enqueue(r, t)) = Len(r) + 1 /\ Len(r) \in Nat
  BY AppendProperties DEF Enqueue
<1>2. \A i \in 1..Len(r) : Enqueue(r, t)[i] = r[i]
  BY AppendProperties DEF Enqueue
<1>3. Enqueue(r, t)[Len(r) + 1] = t
  BY AppendProperties DEF Enqueue
<1> DEFINE e == Enqueue(r, t)
<1>4. ASSUME NEW i \in 1..Len(e), NEW j \in 1..Len(e), i < j, e[j] \in Range(q)
      PROVE  \E k, l \in 1..Len(q) : k < l /\ q[k] = e[i] /\ q[l] = e[j]
  <2>1. j # Len(r) + 1
    BY <1>3, <1>4
  <2>2. i \in 1..Len(r) /\ j \in 1..Len(r)
    BY <1>1, <1>4, <2>1
  <2> QED
    BY <1>2, <1>4, <2>2 DEF KeepsOrder
<1> HIDE DEF e
<1>5. KeepsOrder(q, e)
  BY <1>4 DEF KeepsOrder
<1> QED
  BY <1>5 DEF e

(* A queue that does not change keeps its order.                           *)
LEMMA SameKeepsOrder == ASSUME NEW q PROVE KeepsOrder(q, q)
BY DEF KeepsOrder

(* dequeue keeps the order of the tasks that stay.                         *)
LEMMA DequeueKeepsOrder ==
  ASSUME NEW S, NEW q \in Seq(S), q # <<>>
  PROVE  KeepsOrder(q, Tail(q))
<1>1. Len(Tail(q)) = Len(q) - 1 /\ \A i \in 1..Len(Tail(q)) : Tail(q)[i] = q[i + 1]
  BY HeadTailProperties
<1> SUFFICES ASSUME NEW i \in 1..Len(Tail(q)), NEW j \in 1..Len(Tail(q)), i < j
             PROVE  \E k, l \in 1..Len(q) :
                      k < l /\ q[k] = Tail(q)[i] /\ q[l] = Tail(q)[j]
  BY DEF KeepsOrder
<1> QED
  BY <1>1

(* kill_thread keeps the order of the tasks that stay.                     *)
LEMMA UnlinkKeepsOrder ==
  ASSUME NEW S, NEW q \in Seq(S), NEW u \in 1..Len(q), IsInjective(q)
  PROVE  KeepsOrder(q, Unlink(q, u))
<1>1. /\ Len(Unlink(q, u)) = Len(q) - 1 /\ Len(q) \in Nat
      /\ \A i \in 1..(Len(q) - 1) :
           Unlink(q, u)[i] = IF i < u THEN q[i] ELSE q[i + 1]
  BY UnlinkQueue
<1> SUFFICES ASSUME NEW i \in 1..(Len(q) - 1), NEW j \in 1..(Len(q) - 1), i < j
             PROVE  \E k, l \in 1..Len(q) :
                      k < l /\ q[k] = Unlink(q, u)[i] /\ q[l] = Unlink(q, u)[j]
  BY <1>1, SMTT(30) DEF KeepsOrder
<1> DEFINE k == IF i < u THEN i ELSE i + 1
           l == IF j < u THEN j ELSE j + 1
<1>2. /\ k \in 1..Len(q) /\ l \in 1..Len(q) /\ k < l
      /\ q[k] = Unlink(q, u)[i] /\ q[l] = Unlink(q, u)[j]
  BY <1>1
<1> QED
  BY <1>2

(* A queue of one task has no order to keep.                               *)
LEMMA SingletonKeepsOrder ==
  ASSUME NEW S, NEW q, NEW r \in Seq(S), NEW t, Range(r) = {t}, IsInjective(r)
  PROVE  KeepsOrder(q, r)
<1>1. \A i \in 1..Len(r) : r[i] = t
  BY DEF Range
<1>2. \A i, j \in 1..Len(r) : i = j
  BY <1>1 DEF IsInjective
<1> SUFFICES ASSUME NEW i \in 1..Len(r), NEW j \in 1..Len(r), i < j PROVE FALSE
  BY DEF KeepsOrder
<1> QED
  BY <1>2

(* schedule() lets no task overtake one that waits.                        *)
LEMMA ScheduleKeepsOrder ==
  ASSUME IInv, NEW state, NEW ctx, NEW enabled, Schedule(state, ctx, enabled),
         current \in Task, Running = {current}
  PROVE  KeepsOrder(run_queue, run_queue')
<1>1. run_queue \in Seq(Task) /\ current \notin Range(run_queue)
  BY DEF IInv, TypeOK, QueuesPartitionTasks
<1>2. ASSUME NEW r \in Seq(Task), KeepsOrder(run_queue, r), Requeue(r, state)
      PROVE  KeepsOrder(run_queue, run_queue')
  BY <1>1, <1>2, EnqueueKeepsOrder DEF Requeue
<1>3. CASE run_queue # <<>> /\ SwitchTask(state, ctx, enabled)
  <2>1. Tail(run_queue) \in Seq(Task) /\ KeepsOrder(run_queue, Tail(run_queue))
    BY <1>1, <1>3, DequeueKeepsOrder
  <2> QED
    BY <1>2, <1>3, <2>1 DEF SwitchTask
<1>4. CASE EnterShell
  BY <1>1, <1>4, SameKeepsOrder, EnqueueKeepsOrder DEF EnterShell
<1>5. CASE SwitchToNull(state, ctx, enabled)
  BY <1>1, <1>2, <1>5, SameKeepsOrder DEF SwitchToNull
<1> QED
  BY <1>3, <1>4, <1>5 DEF Schedule

(* run_queue is first in, first out but for kills.                         *)
THEOREM Fifo == Spec => FifoOrder
<1>1. IInv /\ [Next]_vars => [KeepsOrder(run_queue, run_queue')]_vars
  <2> SUFFICES ASSUME IInv, Next PROVE KeepsOrder(run_queue, run_queue')
    OBVIOUS
  <2>1. ASSUME NEW t \in Task, ShellRun(t) PROVE KeepsOrder(run_queue, run_queue')
    <3>1. Range(run_queue') = {t} /\ IsInjective(run_queue') /\ run_queue' \in Seq(Task)
      BY <2>1, ShellRunQueue
    <3> QED
      BY <3>1, SingletonKeepsOrder
  <2>2. ASSUME IdleSchedule \/ TimerIrq \/ Exit PROVE KeepsOrder(run_queue, run_queue')
    <3>1. current \in Task /\ Running = {current}
      BY <2>2, SchedulerAssumption
      DEF IInv, ResumePoints, Running, IdleSchedule, TimerIrq, Exit
    <3> QED
      BY <2>2, <3>1, ScheduleKeepsOrder DEF IdleSchedule, TimerIrq, Exit
  <2>3. CASE KillZombies
    BY <2>3, SameKeepsOrder DEF KillZombies
  <2>4. ASSUME NEW t \in Task, Fork(t) PROVE KeepsOrder(run_queue, run_queue')
    <3>1. run_queue \in Seq(Task) /\ t \notin Range(run_queue)
      BY <2>4, TaskCreateTask DEF IInv, TypeOK, Fork
    <3> QED
      BY <2>4, <3>1, SameKeepsOrder, EnqueueKeepsOrder DEF Fork
  <2>5. ASSUME NEW p \in Killable, Kill(p) PROVE KeepsOrder(run_queue, run_queue')
    <3>1. run_queue \in Seq(Task) /\ IsInjective(run_queue)
      BY DEF IInv, TypeOK, QueuesPartitionTasks
    <3> QED
      BY <2>5, <3>1, UnlinkKeepsOrder DEF Kill
  <2>6. CASE Waiting
    BY <2>6, WaitingFacts, SameKeepsOrder
  <2> QED
    BY <2>1, <2>2, <2>3, <2>4, <2>5, <2>6 DEF Next, Waiting
<1> QED
  BY <1>1, Invariance, PTL DEF Spec, FifoOrder

-----------------------------------------------------------------------------
(* The refinement: the state function phase turns every behaviour of       *)
(* Scheduler into one of TaskLifecycle.                                    *)

(* The phase of a task says in which queue it is.                          *)
PhaseFacts ==
  /\ \A t \in Task : phase[t] = "ready" <=> t \in Range(run_queue)
  /\ \A t \in Task : phase[t] = "running" <=> t \in Running
  /\ \A t \in Task : phase[t] = "zombie" <=> t \in Range(zombies_queue)
  /\ \A t \in Task : phase[t] = "free" <=> t \notin allocated
  /\ \A t \in Task : phase[t] \in {"free", "ready", "running", "zombie"}

(* The phase of each task by the queue it is in.                           *)
LEMMA PhaseOf == IInv => PhaseFacts
<1> SUFFICES ASSUME IInv, NEW t \in Task
             PROVE  /\ phase[t] = "ready" <=> t \in Range(run_queue)
                    /\ phase[t] = "running" <=> t \in Running
                    /\ phase[t] = "zombie" <=> t \in Range(zombies_queue)
                    /\ phase[t] = "free" <=> t \notin allocated
                    /\ phase[t] \in {"free", "ready", "running", "zombie"}
  BY DEF PhaseFacts
<1>1. phase[t] = IF t \notin allocated THEN "free"
                 ELSE IF t \in Range(zombies_queue) THEN "zombie"
                 ELSE IF t \in Running THEN "running"
                 ELSE "ready"
  BY DEF phase
<1> QED
  BY <1>1 DEF IInv, QueuesPartitionTasks, Live

(* The same in the next state.                                             *)
LEMMA PhaseOfNext == IInv' => PhaseFacts'
BY PhaseOf, PTL

(* schedule() is a Switch, or a Stop when nobody is ready.                 *)
LEMMA ScheduleSimulation ==
  ASSUME IInv, IInv', NEW state, NEW ctx, NEW enabled,
         Caller(state, ctx, enabled), Schedule(state, ctx, enabled)
  PROVE  Lifecycle!Next
<1> DEFINE left == IF state # "EXIT" THEN "ready" ELSE "zombie"
<1>1. PhaseFacts /\ PhaseFacts'
  BY PhaseOf, PhaseOfNext
<1>2. left \in {"ready", "zombie"}
  OBVIOUS
<1>3. allocated' = allocated
  BY DEF Caller
<1>4. CASE run_queue # <<>> /\ SwitchTask(state, ctx, enabled)
  <2> DEFINE next == Head(run_queue)
  <2>1. /\ current \in Task /\ Running = {current}
        /\ next \in Task /\ next \in Range(run_queue) /\ next # current
        /\ Range(run_queue') =
             IF state # "EXIT" THEN (Range(run_queue) \ {next}) \cup {current}
             ELSE Range(run_queue) \ {next}
        /\ Range(zombies_queue') = IF state # "EXIT" THEN Range(zombies_queue)
                                   ELSE Range(zombies_queue) \cup {current}
        /\ Running' = {next}
    BY <1>4, SwitchTaskQueues
  <2> HIDE DEF next
  <2>2. phase[current] = "running" /\ phase[next] = "ready"
    BY <1>1, <2>1 DEF PhaseFacts
  <2>3. phase'[next] = "running" /\ phase'[current] = left
    BY <1>1, <2>1 DEF PhaseFacts
  <2>4. \A v \in Task \ {current, next} : phase'[v] = phase[v]
    BY <1>1, <1>3, <2>1 DEF PhaseFacts
  <2>5. phase' = [phase EXCEPT ![current] = left, ![next] = "running"]
    BY <2>1, <2>3, <2>4 DEF phase
  <2>6. Lifecycle!Switch(current, next, left)
    BY <1>2, <2>2, <2>5 DEF Lifecycle!Switch, Lifecycle!Is
  <2> QED
    BY <1>2, <2>1, <2>6 DEF Lifecycle!Next
<1>5. ASSUME current \in Task, Running = {current}, Running' = {},
             Range(run_queue) = {},
             Range(run_queue') = IF state # "EXIT" THEN {current} ELSE {},
             Range(zombies_queue') = IF state # "EXIT" THEN Range(zombies_queue)
                                     ELSE Range(zombies_queue) \cup {current}
      PROVE  Lifecycle!Next
  <2>1. phase[current] = "running" /\ \A v \in Task : phase[v] # "ready"
    BY <1>1, <1>5 DEF PhaseFacts
  <2>2. phase'[current] = left
    BY <1>1, <1>5 DEF PhaseFacts
  <2>3. \A v \in Task \ {current} : phase'[v] = phase[v]
    BY <1>1, <1>3, <1>5 DEF PhaseFacts
  <2>4. phase' = [phase EXCEPT ![current] = left]
    BY <1>5, <2>2, <2>3 DEF phase
  <2>5. Lifecycle!Stop(current, left)
    BY <1>2, <2>1, <2>4 DEF Lifecycle!Stop, Lifecycle!Is, Lifecycle!Nobody
  <2> QED
    BY <1>2, <1>5, <2>5 DEF Lifecycle!Next
<1>6. CASE run_queue = <<>> /\ task_pid[current] = IdlePid /\ EnterShell
  <2>1. /\ current = Idle /\ state = "RUNNING" /\ Running = {current}
        /\ Range(run_queue) = {}
    BY <1>6 DEF IInv, ResumePoints, Caller, Running, Live, Range, IdlePid
  <2>2. cpu' = "shell" /\ zombies_queue' = zombies_queue
    BY <1>6 DEF EnterShell
  <2>3. run_queue' = <<Idle>> /\ Range(run_queue') = {Idle}
    BY <2>2 DEF IInv, ShellRunsAlone, Range
  <2> QED
    BY <1>5, <2>1, <2>2, <2>3, SchedulerAssumption DEF Running
<1>7. CASE /\ run_queue = <<>> /\ task_pid[current] # IdlePid
           /\ SwitchToNull(state, ctx, enabled)
  BY <1>5, <1>7, SwitchToNullQueues
<1> QED
  BY <1>4, <1>6, <1>7 DEF Schedule

(* The shell command run is a Start of TaskLifecycle.                      *)
LEMMA ShellRunSimulation ==
  ASSUME IInv, IInv', NEW t \in Task, ShellRun(t)
  PROVE  Lifecycle!Next
<1>1. PhaseFacts /\ PhaseFacts'
  BY PhaseOf, PhaseOfNext
<1>2. /\ Running = {} /\ Range(run_queue) = {Idle}
      /\ zombies_queue' = zombies_queue
  BY DEF IInv, ShellRun, ShellRunsAlone, Running, Range
<1>3. Running' = {Idle} /\ Range(run_queue') = {t}
  BY ShellRunQueue DEF ShellRun, Running
<1>4. t \notin allocated /\ t # Idle /\ allocated' = allocated \cup {t}
  BY TaskCreateTask DEF ShellRun, TaskCreate
<1>5. phase[t] = "free" /\ phase[Idle] = "ready" /\ \A v \in Task : phase[v] # "running"
  BY <1>1, <1>2, <1>4, SchedulerAssumption DEF PhaseFacts
<1>6. phase'[t] = "ready" /\ phase'[Idle] = "running"
  BY <1>1, <1>3, SchedulerAssumption DEF PhaseFacts
<1>7. \A v \in Task \ {t, Idle} : phase'[v] = phase[v]
  BY <1>1, <1>2, <1>3, <1>4 DEF PhaseFacts
<1>8. phase' = [phase EXCEPT ![t] = "ready", ![Idle] = "running"]
  BY <1>4, <1>6, <1>7 DEF phase
<1>9. Lifecycle!Start(t, Idle)
  BY <1>5, <1>8 DEF Lifecycle!Start, Lifecycle!Is, Lifecycle!Nobody
<1> QED
  BY <1>9, SchedulerAssumption DEF Lifecycle!Next

(* fork is a Create of TaskLifecycle.                                      *)
LEMMA ForkSimulation ==
  ASSUME IInv, IInv', NEW t \in Task, Fork(t)
  PROVE  Lifecycle!Next
<1>1. PhaseFacts /\ PhaseFacts'
  BY PhaseOf, PhaseOfNext
<1>2. t \notin allocated /\ allocated' = allocated \cup {t}
  BY DEF Fork, TaskCreate
<1>3. Range(run_queue') = Range(run_queue) \cup {t}
  <2>1. run_queue \in Seq(Task) /\ run_queue' = Enqueue(run_queue, t)
    BY DEF IInv, TypeOK, Fork
  <2>2. Range(Enqueue(run_queue, t)) = Range(run_queue) \cup {t}
    BY <2>1, EnqueueQueue
  <2> QED
    BY <2>1, <2>2
<1>4. Running' = Running /\ zombies_queue' = zombies_queue
  BY DEF Fork, Running
<1>5. phase[t] = "free" /\ phase'[t] = "ready"
  BY <1>1, <1>2, <1>3 DEF PhaseFacts
<1>6. \A v \in Task \ {t} : phase'[v] = phase[v]
  BY <1>1, <1>2, <1>3, <1>4 DEF PhaseFacts
<1>7. phase' = [phase EXCEPT ![t] = "ready"]
  BY <1>5, <1>6 DEF phase
<1> QED
  BY <1>5, <1>7 DEF Lifecycle!Next, Lifecycle!Create, Lifecycle!Is

(* kill_thread is a Kill of TaskLifecycle.                                 *)
LEMMA KillSimulation ==
  ASSUME IInv, IInv', NEW p \in Killable, Kill(p)
  PROVE  Lifecycle!Next
<1>1. PhaseFacts /\ PhaseFacts'
  BY PhaseOf, PhaseOfNext
<1>2. PICK i \in 1..Len(run_queue) :
        /\ run_queue' = Unlink(run_queue, i)
        /\ zombies_queue' = Enqueue(zombies_queue, run_queue[i])
  BY DEF Kill
<1> DEFINE t == run_queue[i]
<1>3. t \in Task /\ t \in Range(run_queue)
  <2>1. run_queue \in Seq(Task)
    BY DEF IInv, TypeOK
  <2> QED
    BY <2>1, QueueElement
<1>4. Range(run_queue') = Range(run_queue) \ {t}
  <2>1. run_queue \in Seq(Task) /\ IsInjective(run_queue)
    BY DEF IInv, TypeOK, QueuesPartitionTasks
  <2>2. Range(Unlink(run_queue, i)) = Range(run_queue) \ {t}
    BY <2>1, UnlinkQueue
  <2> QED
    BY <1>2, <2>2
<1>5. zombies_queue \in Seq(Task)
  BY DEF IInv, TypeOK
<1>6. zombies_queue' = Enqueue(zombies_queue, t)
  BY <1>2
<1> HIDE DEF t
<1>7. Range(zombies_queue') = Range(zombies_queue) \cup {t}
  BY <1>3, <1>5, <1>6, EnqueueQueue
<1>8. Running' = Running /\ allocated' = allocated
  BY DEF Kill, Running
<1>9. phase[t] = "ready" /\ phase'[t] = "zombie"
  BY <1>1, <1>3, <1>7 DEF PhaseFacts
<1>10. \A v \in Task \ {t} : phase'[v] = phase[v]
  BY <1>1, <1>4, <1>7, <1>8 DEF PhaseFacts
<1>11. phase' = [phase EXCEPT ![t] = "zombie"]
  BY <1>3, <1>9, <1>10 DEF phase
<1> QED
  BY <1>3, <1>9, <1>11 DEF Lifecycle!Next, Lifecycle!Kill, Lifecycle!Is

(* kill_zombies is a Reap of TaskLifecycle or a stutter.                   *)
LEMMA KillZombiesSimulation ==
  ASSUME IInv, IInv', KillZombies
  PROVE  Lifecycle!Next \/ phase' = phase
<1>1. PhaseFacts /\ PhaseFacts'
  BY PhaseOf, PhaseOfNext
<1>2. /\ run_queue' = run_queue /\ current' = current
      /\ cpu = "idle_reap" /\ cpu' = "idle_schedule"
  BY DEF KillZombies
<1>3. Running' = Running
  BY <1>2 DEF Running
<1>4. CASE zombies_queue = <<>>
  <2>1. zombies_queue' = zombies_queue /\ allocated' = allocated
    BY <1>4 DEF KillZombies
  <2> QED
    BY <1>2, <1>3, <2>1 DEF phase
<1>5. CASE zombies_queue # <<>>
  <2> DEFINE t == Head(zombies_queue)
  <2>1. zombies_queue \in Seq(Task) /\ IsInjective(zombies_queue)
    BY DEF IInv, TypeOK, QueuesPartitionTasks
  <2>2. /\ t \in Task /\ t \in Range(zombies_queue)
        /\ Range(Tail(zombies_queue)) = Range(zombies_queue) \ {t}
    BY <1>5, <2>1, DequeueQueue
  <2>3. zombies_queue' = Tail(zombies_queue) /\ allocated' = allocated \ {t}
    BY <1>5 DEF KillZombies
  <2> HIDE DEF t
  <2>4. phase[t] = "zombie" /\ phase'[t] = "free"
    BY <1>1, <2>2, <2>3 DEF PhaseFacts
  <2>5. \A v \in Task \ {t} : phase'[v] = phase[v]
    BY <1>1, <1>2, <1>3, <2>2, <2>3 DEF PhaseFacts
  <2>6. phase' = [phase EXCEPT ![t] = "free"]
    BY <2>2, <2>4, <2>5 DEF phase
  <2> QED
    BY <2>2, <2>4, <2>6 DEF Lifecycle!Next, Lifecycle!Reap, Lifecycle!Is
<1> QED
  BY <1>4, <1>5

(* Every behaviour of the scheduler is a behaviour of the life cycle.      *)
THEOREM LifecycleRefined == Spec => LifecycleSpec
<1>1. Init => Lifecycle!Init
  <2> SUFFICES ASSUME Init PROVE Lifecycle!Init
    OBVIOUS
  <2>1. /\ Range(run_queue) = {Idle} /\ Range(zombies_queue) = {}
        /\ Running = {} /\ allocated = {Idle}
    BY DEF Init, Range, Running
  <2>2. phase = [t \in Task |-> IF t = Idle THEN "ready" ELSE "free"]
    BY <2>1 DEF phase
  <2> QED
    BY <2>2, SchedulerAssumption DEF Lifecycle!Init
<1>2. IInv /\ IInv' /\ [Next]_vars => [Lifecycle!Next]_phase
  <2> SUFFICES ASSUME IInv, IInv', [Next]_vars
               PROVE  Lifecycle!Next \/ phase' = phase
    OBVIOUS
  <2>1. ASSUME NEW t \in Task, ShellRun(t) PROVE Lifecycle!Next
    BY <2>1, ShellRunSimulation
  <2>2. CASE IdleSchedule
    BY <2>2, IdleScheduleCaller, ScheduleSimulation DEF IdleSchedule
  <2>3. CASE TimerIrq
    BY <2>3, TimerIrqCaller, ScheduleSimulation DEF TimerIrq
  <2>4. CASE Exit
    BY <2>4, ExitCaller, ScheduleSimulation DEF Exit
  <2>5. CASE KillZombies
    BY <2>5, KillZombiesSimulation
  <2>6. ASSUME NEW t \in Task, Fork(t) PROVE Lifecycle!Next
    BY <2>6, ForkSimulation
  <2>7. ASSUME NEW p \in Killable, Kill(p) PROVE Lifecycle!Next
    BY <2>7, KillSimulation
  <2>8. CASE Waiting
    BY <2>8, WaitingFacts DEF phase
  <2>9. CASE UNCHANGED vars
    BY <2>9 DEF vars, phase, Running
  <2> QED
    BY <2>1, <2>2, <2>3, <2>4, <2>5, <2>6, <2>7, <2>8, <2>9 DEF Next, Waiting
<1> QED
  BY <1>1, <1>2, Invariance, PTL DEF Spec, LifecycleSpec, Lifecycle!Spec

=============================================================================
