----------------------------- MODULE Scheduler -----------------------------
(***************************************************************************)
(* The task scheduler of lib/scheduler.c with the kernel paths that drive  *)
(* it: the process system calls of lib/exception.c (exit, fork, kill), the *)
(* periodic timer of lib/timer.c that preempts user tasks, the idle thread *)
(* that reaps zombies, and the shell command "run" of lib/shell.c.         *)
(*                                                                         *)
(* Every handler runs with interrupts masked from exception entry to the   *)
(* eret, so one handler, the task switch it makes and the code that the    *)
(* next task resumes in are one step.  What interleaves is which of the    *)
(* timer interrupt and the system calls of the running task comes next.    *)
(*                                                                         *)
(* The singly linked queues (task.next) are sequences.  All timers are     *)
(* normal_timer with one period, so timer_queue is only counted (add_timer *)
(* appends: see module TimerQueue).                                        *)
(***************************************************************************)
EXTENDS Integers, Sequences, SequencesExt

CONSTANTS
  Task,        \* the task structs malloc_ can hand out
  Idle,        \* the struct task_create returns for idle_thread
  NULL,        \* the null task pointer
  Killable,    \* the pids that user programs pass to the kill system call
  MaxPid,      \* bound: largest value of the static counter pid
  MaxRuns      \* bound: how often the shell command "run" is given

ASSUME SchedulerAssumption ==
  /\ Idle \in Task
  /\ NULL \notin Task
  /\ Killable \subseteq Nat
  /\ MaxPid \in Nat \ {0}
  /\ MaxRuns \in Nat

VARIABLES
  run_queue,       \* tasks ready to run, the next one first
  zombies_queue,   \* tasks that exited or were killed and are not freed yet
  current,         \* tpidr_el1: the task whose context the CPU executes
  pid,             \* the pid the next task_create gives out
  task_pid,        \* task.pid
  task_state,      \* task.state
  context,         \* where switch_to(_, t) resumes t (task.lr and the stack)
  allocated,       \* the task structs that are allocated
  timers,          \* the length of timer_queue
  irq_enabled,     \* the core timer interrupt is unmasked (CORE0_TIMER_IRQ_CTRL)
  cpu              \* what the CPU executes

vars == <<run_queue, zombies_queue, current, pid, task_pid, task_state,
          context, allocated, timers, irq_enabled, cpu>>

State == {"RUNNING", "EXIT"}

(* Where a task that is not running continues: "fresh" enters user mode    *)
(* (switch_to_user_space or child_return_from_fork), "in_timer" returns    *)
(* from schedule() inside normal_timer inside pop_timer, "in_loop" returns *)
(* from schedule() inside the loop of idle_thread, "in_exit" would return  *)
(* from schedule() in the exit system call.                                *)
Context == {"fresh", "in_timer", "in_loop", "in_exit"}

(* "shell": the boot stack polls the UART for a command; "idle_schedule"   *)
(* and "idle_reap": the two calls of the loop of idle_thread; "user": the  *)
(* current task runs with interrupts enabled (user mode, or the system     *)
(* calls uart_read and uart_write); "polling": a system call of the        *)
(* current task waits for a device with interrupts masked; "stuck": the    *)
(* endless loop of invalid_exception_router, masked as well; "crashed":    *)
(* switch_to(_, NULL) was executed.                                        *)
Cpu == {"shell", "idle_schedule", "idle_reap", "user", "polling", "stuck", "crashed"}

IdlePid == 1

-----------------------------------------------------------------------------
(* Queues.                                                                 *)

(* Fault: a new task becomes the head.                                     *)
EnqueueHead(queue, t) == <<t>> \o queue

Enqueue(queue, t) == Append(queue, t)

(* queue[i] is the first task of the queue with this pid.                  *)
FirstWithPid(queue, p, i) ==
  /\ task_pid[queue[i]] = p
  /\ \A j \in 1..(i - 1) : task_pid[queue[j]] # p

(* Fault: the head pointer is moved even when the task is not the head.    *)
UnlinkPrefix(queue, i) == SubSeq(queue, i + 1, Len(queue))

Unlink(queue, i) == SubSeq(queue, 1, i - 1) \o SubSeq(queue, i + 1, Len(queue))

-----------------------------------------------------------------------------
(* After main has called thread_init: the idle task is created and queued, *)
(* no task is current, the shell reads commands.                           *)
Init ==
  /\ run_queue = <<Idle>>
  /\ zombies_queue = <<>>
  /\ current = NULL
  /\ pid = IdlePid + 1
  /\ task_pid = [t \in Task |-> IF t = Idle THEN IdlePid ELSE 0]
  /\ task_state = [t \in Task |-> "RUNNING"]
  /\ context = [t \in Task |-> "fresh"]
  /\ allocated = {Idle}
  /\ timers = 0
  /\ irq_enabled = FALSE
  /\ cpu = "shell"

-----------------------------------------------------------------------------
(* task_create(func, USER), apart from the enqueue that ends it.           *)
TaskCreate(t) ==
  /\ t \notin allocated
  /\ pid <= MaxPid
  /\ allocated' = allocated \cup {t}
  /\ task_pid' = [task_pid EXCEPT ![t] = pid]
  /\ pid' = pid + 1
  /\ task_state' = [task_state EXCEPT ![t] = "RUNNING"]
  /\ context' = [context EXCEPT ![t] = "fresh"]

(* Fault: a preempted task does not re-enable the timer when it resumes.   *)
ResumeTimerMasked(next, enabled) ==
  IF context[next] = "in_timer" THEN FALSE ELSE enabled

(* What the CPU executes once switch_to has loaded the context of next.    *)
ResumePoint(next) == IF context[next] = "in_loop" THEN "idle_reap" ELSE "user"

(* Whether the timer interrupt is enabled then: a task preempted by the    *)
(* timer finishes its pop_timer, which re-enables the interrupt iff        *)
(* timer_queue is not empty; any other task leaves it as it is.            *)
ResumeTimer(next, enabled) ==
  IF context[next] = "in_timer" THEN timers # 0 ELSE enabled

(* Fault: the state of the task is ignored.                                *)
RequeueAlways(queue, state) ==
  /\ run_queue' = Enqueue(queue, current)
  /\ UNCHANGED zombies_queue

(* The part of schedule() that queues the task it switches away from.      *)
Requeue(queue, state) ==
  IF state # "EXIT"
  THEN /\ run_queue' = Enqueue(queue, current)
       /\ UNCHANGED zombies_queue
  ELSE /\ run_queue' = queue
       /\ zombies_queue' = Enqueue(zombies_queue, current)

(* Fault: the pids start again whenever the idle task schedules.           *)
SwitchTaskResetsPid(state, ctx, enabled) ==
  LET next == Head(run_queue) IN
  /\ Requeue(Tail(run_queue), state)
  /\ context' = [context EXCEPT ![current] = ctx]
  /\ current' = next
  /\ cpu' = ResumePoint(next)
  /\ irq_enabled' = ResumeTimer(next, enabled)
  /\ pid' = IF current = Idle THEN IdlePid + 1 ELSE pid

(* schedule() when another task is ready: switch_to(current, next).        *)
SwitchTask(state, ctx, enabled) ==
  LET next == Head(run_queue) IN
  /\ Requeue(Tail(run_queue), state)
  /\ context' = [context EXCEPT ![current] = ctx]
  /\ current' = next
  /\ cpu' = ResumePoint(next)
  /\ irq_enabled' = ResumeTimer(next, enabled)
  /\ UNCHANGED pid

(* schedule() when the idle task is alone: the pids start again, the timer *)
(* is masked and the shell is called; that call never returns.             *)
EnterShell ==
  /\ pid' = IdlePid + 1
  /\ run_queue' = Enqueue(run_queue, current)
  /\ irq_enabled' = FALSE
  /\ cpu' = "shell"
  /\ UNCHANGED <<zombies_queue, current, context>>

(* schedule() when no task is ready and the caller is not the idle task:   *)
(* switch_to(current, NULL) loads a context from address 0.                *)
SwitchToNull(state, ctx, enabled) ==
  /\ Requeue(run_queue, state)
  /\ context' = [context EXCEPT ![current] = ctx]
  /\ current' = NULL
  /\ cpu' = "crashed"
  /\ irq_enabled' = enabled
  /\ UNCHANGED pid

(* schedule(), called by the current task in state `state`; ctx is where   *)
(* it will resume and enabled the timer mask at the call.                  *)
Schedule(state, ctx, enabled) ==
  \/ /\ run_queue # <<>>
     /\ SwitchTask(state, ctx, enabled)
  \/ /\ run_queue = <<>>
     /\ task_pid[current] = IdlePid
     /\ EnterShell
  \/ /\ run_queue = <<>>
     /\ task_pid[current] # IdlePid
     /\ SwitchToNull(state, ctx, enabled)

-----------------------------------------------------------------------------
(* The shell command "run": task_create for the program, then idle_thread: *)
(* the head of run_queue becomes current without a switch, and add_timer   *)
(* enables the timer interrupt only if the new timer is the queue's head.  *)
ShellRun(t) ==
  /\ cpu = "shell"
  /\ timers < MaxRuns
  /\ TaskCreate(t)
  /\ current' = Head(Enqueue(run_queue, t))
  /\ run_queue' = Tail(Enqueue(run_queue, t))
  /\ timers' = timers + 1
  /\ irq_enabled' = (timers = 0 \/ irq_enabled)
  /\ cpu' = "idle_schedule"
  /\ UNCHANGED zombies_queue

(* The loop of idle_thread: schedule().                                    *)
IdleSchedule ==
  /\ cpu = "idle_schedule"
  /\ Schedule(task_state[current], "in_loop", irq_enabled)
  /\ UNCHANGED <<task_pid, task_state, allocated, timers>>

(* Fault: the zombie is freed but stays the head of zombies_queue.         *)
KillZombiesPeek ==
  /\ cpu = "idle_reap"
  /\ allocated' = IF zombies_queue = <<>> THEN allocated
                  ELSE allocated \ {Head(zombies_queue)}
  /\ cpu' = "idle_schedule"
  /\ UNCHANGED <<run_queue, zombies_queue, current, pid, task_pid, task_state,
                 context, timers, irq_enabled>>

(* The loop of idle_thread: kill_zombies() frees at most one zombie.       *)
KillZombies ==
  /\ cpu = "idle_reap"
  /\ IF zombies_queue = <<>>
     THEN UNCHANGED <<zombies_queue, allocated>>
     ELSE /\ zombies_queue' = Tail(zombies_queue)
          /\ allocated' = allocated \ {Head(zombies_queue)}
  /\ cpu' = "idle_schedule"
  /\ UNCHANGED <<run_queue, current, pid, task_pid, task_state, context,
                 timers, irq_enabled>>

(* The core timer interrupt: irq_router masks it, pop_timer takes the head *)
(* timer, normal_timer adds the next one (the head, hence enabled, iff the *)
(* queue is then empty) and calls schedule().  It is taken only while the  *)
(* current task runs with interrupts enabled.                              *)
TimerIrq ==
  /\ cpu = "user"
  /\ irq_enabled
  /\ Schedule(task_state[current], "in_timer", timers - 1 = 0)
  /\ UNCHANGED <<task_pid, task_state, allocated, timers>>

(* System call 5: the current task exits and the next one is switched to.  *)
Exit ==
  /\ cpu = "user"
  /\ task_state' = [task_state EXCEPT ![current] = "EXIT"]
  /\ Schedule("EXIT", "in_exit", irq_enabled)
  /\ UNCHANGED <<task_pid, allocated, timers>>

(* System call 4: a child is created and queued, the parent goes on.       *)
Fork(t) ==
  /\ cpu = "user"
  /\ TaskCreate(t)
  /\ run_queue' = Enqueue(run_queue, t)
  /\ UNCHANGED <<zombies_queue, current, timers, irq_enabled, cpu>>

(* System call 7: kill_thread(p) moves the first task with pid p from      *)
(* run_queue to zombies_queue.  A pid that is not in run_queue (the        *)
(* caller's own, for one) changes nothing, which is a stuttering step.     *)
Kill(p) ==
  /\ cpu = "user"
  /\ \E i \in 1..Len(run_queue) :
       /\ FirstWithPid(run_queue, p, i)
       /\ run_queue' = Unlink(run_queue, i)
       /\ zombies_queue' = Enqueue(zombies_queue, run_queue[i])
  /\ UNCHANGED <<current, pid, task_pid, task_state, context, allocated,
                 timers, irq_enabled, cpu>>

(* A system call that waits for a device in the handler, interrupts being  *)
(* masked: read of /dev/uart polls for each byte (exec of it too), and the *)
(* mailbox call for the answer.  The other calls end by themselves.        *)
PollDevice ==
  /\ cpu = "user"
  /\ cpu' = "polling"
  /\ UNCHANGED <<run_queue, zombies_queue, current, pid, task_pid, task_state,
                 context, allocated, timers, irq_enabled>>

(* The device has answered and the call returns.  Nothing makes it answer. *)
PollReturns ==
  /\ cpu = "polling"
  /\ cpu' = "user"
  /\ UNCHANGED <<run_queue, zombies_queue, current, pid, task_pid, task_state,
                 context, allocated, timers, irq_enabled>>

(* A system call with an unknown number, or a fault (sync_router takes     *)
(* what is in x8 for the number of a call), in user mode or in a call: the *)
(* loop at the end of invalid_exception_router, which nothing leaves.      *)
InvalidException ==
  /\ cpu = "user"
  /\ cpu' = "stuck"
  /\ UNCHANGED <<run_queue, zombies_queue, current, pid, task_pid, task_state,
                 context, allocated, timers, irq_enabled>>

Next ==
  \/ \E t \in Task : ShellRun(t)
  \/ IdleSchedule
  \/ KillZombies
  \/ TimerIrq
  \/ Exit
  \/ \E t \in Task : Fork(t)
  \/ \E p \in Killable : Kill(p)
  \/ PollDevice
  \/ PollReturns
  \/ InvalidException

Spec == Init /\ [][Next]_vars

(* The idle thread keeps executing its loop.  A timer interrupt that comes *)
(* while a system call waits stays pending and is taken when that returns: *)
(* calls that wait again and again do not keep it off, so its fairness is  *)
(* strong.  A call that never returns does.  Nothing is assumed of the     *)
(* user programs, of the devices and of whoever types at the shell.        *)
Fairness ==
  /\ WF_vars(IdleSchedule)
  /\ WF_vars(KillZombies)
  /\ SF_vars(TimerIrq)

FairSpec == Spec /\ Fairness

-----------------------------------------------------------------------------
(* The task whose context the CPU executes, if any.                        *)
Running == IF cpu \in {"shell", "crashed"} THEN {} ELSE {current}

(* The tasks that run or wait for the CPU.                                 *)
Live == Range(run_queue) \cup Running

(* The queues hold task structs, and the counters that task_create,        *)
(* schedule and add_timer change stay within their bounds.                 *)
TypeOK ==
  /\ run_queue \in Seq(Task)
  /\ zombies_queue \in Seq(Task)
  /\ current \in Task \cup {NULL}
  /\ pid \in (IdlePid + 1)..(MaxPid + 1)
  /\ task_pid \in [Task -> 0..MaxPid]
  /\ task_state \in [Task -> State]
  /\ context \in [Task -> Context]
  /\ allocated \subseteq Task
  /\ timers \in 0..MaxRuns
  /\ irq_enabled \in BOOLEAN
  /\ cpu \in Cpu

(* Who resumes where: user code is never the idle task and the loop of the *)
(* idle thread always is; a waiting user task continues in user mode or in *)
(* the timer interrupt that preempted it, never after an exit; a task that *)
(* was preempted waits only while the timer of the first run is the only   *)
(* one.  The idle task keeps pid 1 and is never freed, not even killed.    *)
ResumePoints ==
  /\ cpu \in {"user", "polling", "stuck"} => current \in Task \ {Idle}
  /\ cpu \in {"idle_schedule", "idle_reap"} => current = Idle
  /\ Idle \in allocated
  /\ task_pid[Idle] = IdlePid
  /\ \A t \in Live \ {Idle} : task_pid[t] > IdlePid
  /\ \A t \in Range(run_queue) \ {Idle} : context[t] \in {"fresh", "in_timer"}
  /\ Idle \in Range(run_queue) /\ cpu # "shell" => context[Idle] = "in_loop"
  /\ Running # {} => timers > 0 /\ (irq_enabled <=> timers = 1)
  /\ timers > 1 => \A t \in Range(run_queue) \ {Idle} : context[t] = "fresh"

(* Every allocated task struct is in exactly one place: once in run_queue, *)
(* once in zombies_queue or running.  No interleaving of exit, fork, kill, *)
(* preemption and reaping loses a task, queues it twice (enqueue would     *)
(* close the list into a cycle) or keeps a freed struct reachable.         *)
QueuesPartitionTasks ==
  /\ IsInjective(run_queue)
  /\ IsInjective(zombies_queue)
  /\ Range(run_queue) \cap Range(zombies_queue) = {}
  /\ Running \cap (Range(run_queue) \cup Range(zombies_queue)) = {}
  /\ allocated = Live \cup Range(zombies_queue)

(* Although schedule() starts the pids again each time it calls the shell, *)
(* no two live tasks ever share a pid, so kill(p) has one possible victim. *)
LivePidsUnique ==
  /\ \A t, u \in Live : task_pid[t] = task_pid[u] => t = u
  /\ \A t \in Live : task_pid[t] < pid

(* A task that has called exit is never dispatched and never queued to be. *)
ExitedNeverRuns == \A t \in Live : task_state[t] = "RUNNING"

(* When the shell has the CPU only the idle task waits, and the timer can  *)
(* not preempt the shell (schedule() disables it before calling shell()).  *)
ShellRunsAlone == cpu = "shell" => run_queue = <<Idle>> /\ ~irq_enabled

(* The timer that schedule() leaves in timer_queue when it disables the    *)
(* interrupt stays there: during the first "run" user tasks are preempted  *)
(* at every moment, from the second on never again.                        *)
PreemptedOnlyInFirstRun == cpu = "user" => (irq_enabled <=> timers = 1)

(* schedule() finds nobody to switch to only if kill(1) has removed the    *)
(* idle task: exit, fork and preemption alone never get it there.          *)
CrashOnlyIfIdleKilled == cpu = "crashed" => Idle \in Range(zombies_queue)

(* If nobody kills pid 1 every call of schedule() finds a next task or is  *)
(* the idle task's own: no exit, fork, kill or preemption gets to          *)
(* switch_to(cur, NULL).                                                   *)
NeverCrashes == cpu # "crashed"

(* What is in r and was already in q has before it only what was before it *)
(* in q.                                                                   *)
KeepsOrder(q, r) ==
  \A i, j \in 1..Len(r) :
    (i < j /\ r[j] \in Range(q)) =>
      \E k, l \in 1..Len(q) : k < l /\ q[k] = r[i] /\ q[l] = r[j]

(* run_queue is first in, first out but for kills: no step of any handler  *)
(* lets a task overtake one that already waits.                            *)
FifoOrder == [][KeepsOrder(run_queue, run_queue')]_vars

(* The phase of each task in the abstract life cycle.                      *)
phase == [t \in Task |->
  IF t \notin allocated THEN "free"
  ELSE IF t \in Range(zombies_queue) THEN "zombie"
  ELSE IF t \in Running THEN "running"
  ELSE "ready"]

Lifecycle == INSTANCE TaskLifecycle

(* The queues implement the life cycle: every handler moves every task     *)
(* along an edge of TaskLifecycle, one dispatch or death at a time.        *)
LifecycleSpec == Lifecycle!Spec

(* The current task keeps interrupts masked and does not return.           *)
Masked == cpu \in {"polling", "stuck"}

(* During the first run the timer gives the CPU to every waiting task, the *)
(* idle task included: it runs or is killed, whatever the others do in     *)
(* user mode, until the idle task is alone and gives the CPU to the shell, *)
(* or kill(1) has crashed the system.  The one exception is that the       *)
(* running task never comes back from a handler: it waits for a device     *)
(* that does not answer (devfs.c:64) or is in the loop for invalid         *)
(* exceptions (exception.c:44).  Calls that do come back, however often    *)
(* they wait, starve nobody.                                               *)
ReadyEventuallyRuns ==
  \A t \in Task :
    (t \in Range(run_queue) /\ timers = 1) ~>
      (t \notin Range(run_queue) \/ cpu \in {"shell", "crashed"} \/ []Masked)

(* During the first run a zombie is freed, unless the shell gets the CPU   *)
(* first, the idle task is killed, or the running task never comes back    *)
(* from a handler: kill_zombies frees one task per round of the idle task. *)
ZombieEventuallyFreed ==
  \A t \in Task :
    (t \in Range(zombies_queue) /\ timers = 1) ~>
      \/ t \notin Range(zombies_queue)
      \/ cpu = "shell"
      \/ Idle \in Range(zombies_queue)
      \/ []Masked
=============================================================================
