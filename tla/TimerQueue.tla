----------------------------- MODULE TimerQueue -----------------------------
(***************************************************************************)
(* The timer queue of lib/timer.c as the kernel uses it: the only callback *)
(* is normal_timer, which adds itself again with the same period and gives *)
(* the CPU away inside pop_timer.  So the end of pop_timer, which re-arms  *)
(* the hardware, runs when the preempted task is resumed: after other      *)
(* interrupts, or never if the task is killed meanwhile.                   *)
(*                                                                         *)
(* timer_queue is the sequence of the expired_time of its timers.          *)
(***************************************************************************)
EXTENDS Integers, Sequences, SequencesExt

CONSTANTS
  Period,      \* get_timer_freq() >> 5, in ticks
  MaxTime,     \* bound: the last tick
  MaxRuns,     \* bound: how often the shell command "run" is given
  MaxWaiting   \* bound: tasks that wait in the timer interrupt

ASSUME TimerQueueAssumption ==
  /\ Period \in Nat
  /\ MaxTime \in Nat
  /\ MaxRuns \in Nat
  /\ MaxWaiting \in Nat

VARIABLES
  now,           \* cntpct_el0
  timer_queue,   \* expired_time of the timers in the queue
  compare,       \* cntp_cval_el0: the tick at which the timer fires
  irq_enabled,   \* the core timer interrupt is unmasked (CORE0_TIMER_IRQ_CTRL)
  waiting,       \* pop_timer calls that wait inside their callback
  phase          \* "shell" or "tasks": who has the CPU

vars == <<now, timer_queue, compare, irq_enabled, waiting, phase>>

Init ==
  /\ now = 0
  /\ timer_queue = <<>>
  /\ compare = 0
  /\ irq_enabled = FALSE
  /\ waiting = 0
  /\ phase = "shell"

(* The timer of the queue after which add_timer inserts: the first one     *)
(* that does not expire before the new one, or the last.                   *)
Predecessor(queue, expires) ==
  CHOOSE i \in 1..Len(queue) :
    /\ i = Len(queue) \/ queue[i] >= expires
    /\ \A j \in 1..(i - 1) : queue[j] < expires

Insert(queue, expires) == InsertAt(queue, Predecessor(queue, expires) + 1, expires)

(* add_timer puts the new timer before all others.                         *)
BecomesHead(queue, expires) ==
  IF queue = <<>> THEN TRUE ELSE Head(queue) > expires

(* Fault: the hardware is not set for the new head.                        *)
AddTimerUnset(queue, time, enabled) ==
  LET expires == now + time IN
  \/ /\ BecomesHead(queue, expires)
     /\ timer_queue' = <<expires>> \o queue
     /\ irq_enabled' = TRUE
     /\ UNCHANGED compare
  \/ /\ ~BecomesHead(queue, expires)
     /\ timer_queue' = Insert(queue, expires)
     /\ irq_enabled' = enabled
     /\ UNCHANGED compare

(* Fault: every new timer becomes the head and is armed.                   *)
AddTimerFirst(queue, time, enabled) ==
  /\ timer_queue' = <<now + time>> \o queue
  /\ compare' = now + time
  /\ irq_enabled' = TRUE

(* add_timer(_, _, time): a new head is armed, any other timer is not.     *)
AddTimer(queue, time, enabled) ==
  LET expires == now + time IN
  \/ /\ BecomesHead(queue, expires)
     /\ timer_queue' = <<expires>> \o queue
     /\ compare' = expires
     /\ irq_enabled' = TRUE
  \/ /\ ~BecomesHead(queue, expires)
     /\ timer_queue' = Insert(queue, expires)
     /\ irq_enabled' = enabled
     /\ UNCHANGED compare

(* The shell command "run": idle_thread adds the periodic timer.           *)
Run ==
  /\ phase = "shell"
  /\ Len(timer_queue) < MaxRuns
  /\ AddTimer(timer_queue, Period, irq_enabled)
  /\ phase' = "tasks"
  /\ UNCHANGED <<now, waiting>>

(* The interrupt: irq_router masks it, pop_timer takes the first timer and *)
(* normal_timer adds the next one and calls schedule().                    *)
Irq ==
  /\ phase = "tasks"
  /\ irq_enabled
  /\ now >= compare
  /\ waiting < MaxWaiting
  /\ AddTimer(Tail(timer_queue), Period, FALSE)
  /\ waiting' = waiting + 1
  /\ UNCHANGED <<now, phase>>

(* schedule() has returned in normal_timer: the rest of pop_timer.         *)
PopTimerEnds ==
  /\ phase = "tasks"
  /\ waiting > 0
  /\ waiting' = waiting - 1
  /\ \/ /\ timer_queue = <<>>
        /\ irq_enabled' = FALSE
        /\ UNCHANGED compare
     \/ /\ timer_queue # <<>>
        /\ compare' = Head(timer_queue)
        /\ irq_enabled' = TRUE
  /\ UNCHANGED <<now, timer_queue, phase>>

(* A task that waits in its interrupt is killed: its pop_timer never ends  *)
(* (the timer it would have freed is lost).                                *)
KillWaiting ==
  /\ phase = "tasks"
  /\ waiting > 0
  /\ waiting' = waiting - 1
  /\ UNCHANGED <<now, timer_queue, compare, irq_enabled, phase>>

(* schedule() in the idle task, alone in run_queue, hence when no task     *)
(* waits: the interrupt is masked and the shell called.                    *)
EnterShell ==
  /\ phase = "tasks"
  /\ waiting = 0
  /\ irq_enabled' = FALSE
  /\ phase' = "shell"
  /\ UNCHANGED <<now, timer_queue, compare, waiting>>

Tick ==
  /\ now < MaxTime
  /\ now' = now + 1
  /\ UNCHANGED <<timer_queue, compare, irq_enabled, waiting, phase>>

Next == Run \/ Irq \/ PopTimerEnds \/ KillWaiting \/ EnterShell \/ Tick

Spec == Init /\ [][Next]_vars

-----------------------------------------------------------------------------
(* add_timer and pop_timer keep the queue as long as there were runs:      *)
(* every timer that expires is replaced by one.                            *)
TypeOK ==
  /\ now \in 0..MaxTime
  /\ timer_queue \in Seq(Nat)
  /\ Len(timer_queue) <= MaxRuns
  /\ compare \in Nat
  /\ irq_enabled \in BOOLEAN
  /\ waiting \in 0..MaxWaiting
  /\ phase \in {"shell", "tasks"}

(* The queue stays sorted, also when timers of earlier runs are in front   *)
(* and when several are added in one tick.  It is so only because every    *)
(* period is the same: add_timer inserts a timer that expires between two  *)
(* others after the later one.                                             *)
QueueSorted ==
  \A i, j \in 1..Len(timer_queue) : i < j => timer_queue[i] <= timer_queue[j]

(* Whenever the interrupt is enabled the hardware is set for the first     *)
(* timer of the queue, although add_timer and the ends of pop_timer set it *)
(* in the order in which the preempted tasks happen to resume.             *)
ArmedForHead ==
  irq_enabled => timer_queue # <<>> /\ compare = Head(timer_queue)

(* No timer expires early: a step that starts a callback (Irq is the only  *)
(* one that makes another pop_timer wait) takes a timer whose time has     *)
(* come.                                                                   *)
NeverEarly ==
  [][waiting' > waiting => Head(timer_queue) <= now]_vars

Count == INSTANCE TimerCount WITH timers <- Len(timer_queue)

(* Scheduler may count the timers: a new timer never becomes the head of a *)
(* queue that is not empty, so the expiration times do not matter to it.   *)
CountSpec == Count!Spec
=============================================================================
