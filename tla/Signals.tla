------------------------------ MODULE Signals ------------------------------
(***************************************************************************)
(* Signals: register and signal_kill of lib/exception.c, the task that     *)
(* runs signal_handler_wrapper, and remove_task and add_to_queue of        *)
(* lib/scheduler.c, with the scheduler around them.                        *)
(*                                                                         *)
(* The target of a signal is parked in temp_queue while a new task runs    *)
(* its handler.  That task is in user mode, so it can be preempted between *)
(* any two of the accesses of the wrapper and of add_to_queue, which is    *)
(* why the queues are the linked lists of the code here, not sequences as  *)
(* in module Scheduler.                                                    *)
(*                                                                         *)
(* One run of the shell, in which the timer preempts.  A task struct is    *)
(* not used twice, so a task is its own pid.  Bound: once signals are      *)
(* spoiled, the programs make no system call but exit.                     *)
(***************************************************************************)
EXTENDS Integers, FiniteSets

CONSTANTS
  Task,     \* bound: the idle task and how many tasks are created
  Idle,
  NULL

ASSUME SignalsAssumption ==
  /\ IsFiniteSet(Task)
  /\ Idle \in Task
  /\ NULL \notin Task

VARIABLES
  lists,        \* run_queue, zombies_queue, next, and whether a walk did not end
  current,      \* tpidr_el1
  temp_queue,   \* the parked task, or NULL
  signal,       \* _handler (whether it is set), signal_pid and signal_exit
  handlers,     \* the tasks with a handler
  pc,           \* what each task executes when it has the CPU
  walk,         \* cur in the add_to_queue of each task
  cpu,          \* "tasks", or why no task runs any more
  spoiled       \* something has happened that signals do not survive

vars == <<lists, current, temp_queue, signal, handlers, pc, walk, cpu, spoiled>>

(* "user" is a program, "handler" a handler, the next ones the statements  *)
(* of signal_handler_wrapper and add_to_queue.                             *)
Wrapper == {"test", "call", "handler", "add", "walk", "link", "clear", "kill", "unset", "exit"}
Pc == {"unused", "user", "exited", "freed"} \cup Wrapper

-----------------------------------------------------------------------------
(* Linked lists.  Chain(l, q)[n] is the n-th task of queue q.              *)
Chain(l, q) ==
  LET chain[n \in 0..Cardinality(Task)] ==
        IF n = 0 THEN l[q]
        ELSE IF chain[n - 1] = NULL THEN NULL ELSE l.next[chain[n - 1]]
  IN chain

Members(l, q) == {Chain(l, q)[n] : n \in 0..Cardinality(Task)} \ {NULL}

Endless(l, q) == NULL \notin {Chain(l, q)[n] : n \in 0..Cardinality(Task)}

(* The pointer to the first task t of queue q is redirected to where.      *)
Redirect(l, q, t, where) ==
  LET chain == Chain(l, q)
      n == CHOOSE i \in DOMAIN chain : chain[i] = t /\ \A j \in 0..i - 1 : chain[j] # t
  IN IF n = 0 THEN [l EXCEPT ![q] = where] ELSE [l EXCEPT !.next[chain[n - 1]] = where]

(* enqueue: on a list that has become a cycle its loop does not end.       *)
Enqueue(l, q, t) ==
  LET cut == [l EXCEPT !.next[t] = NULL]
      last == CHOOSE s \in Members(cut, q) : cut.next[s] = NULL
  IN CASE cut[q] = NULL -> [cut EXCEPT ![q] = t]
       [] Endless(cut, q) -> [cut EXCEPT !.endless = TRUE]
       [] OTHER -> [cut EXCEPT !.next[last] = t]

Dequeue(l, q) == IF l[q] = NULL THEN l ELSE [l EXCEPT ![q] = l.next[l[q]]]

(* kill_thread.                                                            *)
KillThread(l, t) ==
  IF t \in Members(l, "run_queue")
  THEN Enqueue(Redirect(l, "run_queue", t, l.next[t]), "zombies_queue", t)
  ELSE [l EXCEPT !.endless = @ \/ Endless(l, "run_queue")]

(* Fault: the parked task keeps its successor.                             *)
RemoveTaskUncut(l, t) ==
  IF l.run_queue = t THEN l ELSE Redirect(l, "run_queue", t, l.next[t])

(* remove_task of a task in run_queue.  Before the first task there is no  *)
(* predecessor: the write goes to low memory, and what was behind the task *)
(* is cut off.                                                             *)
RemoveTask(l, t) ==
  LET rest == IF l.run_queue = t THEN l ELSE Redirect(l, "run_queue", t, l.next[t])
  IN [rest EXCEPT !.next[t] = NULL]

-----------------------------------------------------------------------------
(* thread_init and the shell command run: a program waits, and idle_thread *)
(* has become current.                                                     *)
Init ==
  /\ \E first \in Task \ {Idle} :
       /\ lists = [run_queue |-> first, zombies_queue |-> NULL,
                   next |-> [t \in Task |-> NULL], endless |-> FALSE]
       /\ pc = [t \in Task |-> IF t \in {Idle, first} THEN "user" ELSE "unused"]
  /\ current = Idle
  /\ temp_queue = NULL
  /\ signal = [handler |-> FALSE, pid |-> NULL, exit |-> FALSE]
  /\ handlers = {}
  /\ walk = [t \in Task |-> NULL]
  /\ cpu = "tasks"
  /\ spoiled = FALSE

(* schedule(), from the lists l and with the tasks at p.  It ends what is  *)
(* modelled if the idle task is alone, which calls the shell, if a list is *)
(* a cycle, if there is no next task, or if the next task is over.         *)
Schedule(l, p) ==
  LET next == l.run_queue
      cut == [Dequeue(l, "run_queue") EXCEPT !.next[current] = NULL]
      queued == Enqueue(cut, IF p[current] = "exited" THEN "zombies_queue" ELSE "run_queue", current)
  IN /\ lists' = queued
     /\ pc' = p
     /\ cpu' = CASE queued.endless -> "hangs"
                 [] ~queued.endless /\ current = Idle /\ next = NULL -> "shell"
                 [] ~queued.endless /\ current # Idle /\ next = NULL -> "null"
                 [] ~queued.endless /\ next # NULL ->
                      IF p[next] \in {"exited", "freed"} THEN "dead task" ELSE "tasks"
     /\ current' = IF cpu' \in {"shell", "hangs"} THEN current ELSE next

(* The loop of idle_thread: kill_zombies, then schedule.                   *)
IdleLoop ==
  LET zombie == lists.zombies_queue IN
  /\ cpu = "tasks"
  /\ current = Idle
  /\ Schedule(Dequeue(lists, "zombies_queue"),
              IF zombie = NULL THEN pc ELSE [pc EXCEPT ![zombie] = "freed"])
  /\ UNCHANGED <<temp_queue, signal, handlers, walk, spoiled>>

(* The timer interrupt, between any two steps of a user task.              *)
Preempt ==
  /\ cpu = "tasks"
  /\ current # Idle
  /\ Schedule(lists, pc)
  /\ UNCHANGED <<temp_queue, signal, handlers, walk, spoiled>>

-----------------------------------------------------------------------------
(* System calls of programs and handlers.                                  *)
InUserCode == cpu = "tasks" /\ current # Idle /\ pc[current] \in {"user", "handler"}

MakesCalls == InUserCode /\ ~spoiled

(* A walk over a list that is a cycle does not end.                        *)
ChangeLists(l) ==
  /\ lists' = l
  /\ cpu' = IF l.endless THEN "hangs" ELSE cpu

(* sysc_fork: the child continues where its parent is, also in a handler.  *)
Fork(child) ==
  /\ MakesCalls
  /\ pc[child] = "unused"
  /\ pc' = [pc EXCEPT ![child] = pc[current]]
  /\ handlers' = IF current \in handlers THEN handlers \cup {child} ELSE handlers
  /\ ChangeLists(Enqueue(lists, "run_queue", child))
  /\ spoiled' = (pc[current] = "handler")
  /\ UNCHANGED <<current, temp_queue, signal, walk>>

(* sysc_register.                                                          *)
Register ==
  /\ MakesCalls
  /\ handlers' = handlers \cup {current}
  /\ UNCHANGED <<lists, current, temp_queue, signal, pc, walk, cpu, spoiled>>

(* What a signal does not survive: a target that is the first in           *)
(* run_queue, and a target of an earlier signal that is still parked.      *)
Spoils(target) == target = lists.run_queue \/ temp_queue # NULL

(* sysc_signal_kill.  A target that is not in run_queue is looked for at   *)
(* address 0.                                                              *)
SignalKill(target, wrapper) ==
  /\ MakesCalls
  /\ pc[wrapper] = "unused"
  /\ target \in Members(lists, "run_queue")
  /\ signal' = [handler |-> target \in handlers, pid |-> target, exit |-> TRUE]
  /\ temp_queue' = target
  /\ ChangeLists(Enqueue(RemoveTask(lists, target), "run_queue", wrapper))
  /\ pc' = [pc EXCEPT ![wrapper] = "test"]
  /\ spoiled' = Spoils(target)
  /\ UNCHANGED <<current, handlers, walk>>

SignalKillUnqueued(target) ==
  /\ MakesCalls
  /\ pc[target] # "unused"
  /\ target \notin Members(lists, "run_queue")
  /\ cpu' = "null"
  /\ UNCHANGED <<lists, current, temp_queue, signal, handlers, pc, walk, spoiled>>

(* sysc_kill.                                                              *)
Kill(target) ==
  /\ MakesCalls
  /\ ChangeLists(KillThread(lists, target))
  /\ spoiled' = (pc[target] \in Wrapper)
  /\ UNCHANGED <<current, temp_queue, signal, handlers, pc, walk>>

(* sysc_exit and schedule: the first exit after a signal also kills the    *)
(* target of the signal, if it is in run_queue.                            *)
ExitTask ==
  LET killed == IF signal.exit THEN KillThread(lists, signal.pid) ELSE lists IN
  /\ signal' = [signal EXCEPT !.exit = FALSE]
  /\ Schedule(killed, [pc EXCEPT ![current] = "exited"])
  /\ UNCHANGED <<temp_queue, handlers, walk>>

Exit ==
  /\ InUserCode
  /\ ExitTask
  /\ spoiled' = (spoiled \/ pc[current] = "handler")

-----------------------------------------------------------------------------
(* signal_handler_wrapper, in user mode.                                   *)
At(statement) == cpu = "tasks" /\ pc[current] = statement

Goto(statement) == pc' = [pc EXCEPT ![current] = statement]

(* Fault: the test is the wrong way round.                                 *)
TestHandlerInverted ==
  /\ At("test")
  /\ Goto(IF signal.handler THEN "kill" ELSE "call")
  /\ UNCHANGED <<lists, current, temp_queue, signal, handlers, walk, cpu, spoiled>>

TestHandler ==
  /\ At("test")
  /\ Goto(IF signal.handler THEN "call" ELSE "kill")
  /\ UNCHANGED <<lists, current, temp_queue, signal, handlers, walk, cpu, spoiled>>

(* _handler is read again: another signal may have set it to NULL.         *)
CallHandler ==
  /\ At("call")
  /\ Goto("handler")
  /\ cpu' = IF signal.handler THEN cpu ELSE "null"
  /\ UNCHANGED <<lists, current, temp_queue, signal, handlers, walk, spoiled>>

HandlerReturns ==
  /\ At("handler")
  /\ Goto("add")
  /\ UNCHANGED <<lists, current, temp_queue, signal, handlers, walk, cpu, spoiled>>

(* add_to_queue: the test of temp_queue and cur = run_queue.               *)
AddToQueue ==
  /\ At("add")
  /\ IF temp_queue = NULL
     THEN Goto("unset") /\ UNCHANGED walk
     ELSE Goto("walk") /\ walk' = [walk EXCEPT ![current] = lists.run_queue]
  /\ UNCHANGED <<lists, current, temp_queue, signal, handlers, cpu, spoiled>>

Walk ==
  LET cur == walk[current] IN
  /\ At("walk")
  /\ IF cur = NULL THEN cpu' = "null" /\ UNCHANGED <<pc, walk>>
     ELSE /\ UNCHANGED cpu
          /\ IF lists.next[cur] # NULL
             THEN walk' = [walk EXCEPT ![current] = lists.next[cur]] /\ UNCHANGED pc
             ELSE Goto("link") /\ UNCHANGED walk
  /\ UNCHANGED <<lists, current, temp_queue, signal, handlers, spoiled>>

(* The task that the walk has found is no longer the last one.             *)
Stale(cur) == cur \notin Members(lists, "run_queue") \/ lists.next[cur] # NULL

Link ==
  /\ At("link")
  /\ lists' = [lists EXCEPT !.next[walk[current]] = temp_queue]
  /\ Goto("clear")
  /\ spoiled' = (spoiled \/ Stale(walk[current]))
  /\ UNCHANGED <<current, temp_queue, signal, handlers, walk, cpu>>

Clear ==
  /\ At("clear")
  /\ temp_queue' = NULL
  /\ Goto("unset")
  /\ walk' = [walk EXCEPT ![current] = NULL]
  /\ UNCHANGED <<lists, current, signal, handlers, cpu, spoiled>>

(* No handler: "no register kill thread".                                  *)
KillTarget ==
  /\ At("kill")
  /\ ChangeLists(KillThread(lists, signal.pid))
  /\ Goto("unset")
  /\ UNCHANGED <<current, temp_queue, signal, handlers, walk, spoiled>>

(* Fault: signal_exit is left set.                                         *)
UnsetExitMissing ==
  /\ At("unset")
  /\ Goto("exit")
  /\ UNCHANGED <<lists, current, temp_queue, signal, handlers, walk, cpu, spoiled>>

UnsetExit ==
  /\ At("unset")
  /\ signal' = [signal EXCEPT !.exit = FALSE]
  /\ Goto("exit")
  /\ UNCHANGED <<lists, current, temp_queue, handlers, walk, cpu, spoiled>>

WrapperExit ==
  /\ At("exit")
  /\ ExitTask
  /\ UNCHANGED spoiled

Next ==
  \/ IdleLoop \/ Preempt
  \/ \E t \in Task : Fork(t) \/ Kill(t) \/ SignalKillUnqueued(t)
  \/ \E t, w \in Task : SignalKill(t, w)
  \/ Register \/ Exit
  \/ TestHandler \/ CallHandler \/ HandlerReturns
  \/ AddToQueue \/ Walk \/ Link \/ Clear
  \/ KillTarget \/ UnsetExit \/ WrapperExit

Spec == Init /\ [][Next]_vars

-----------------------------------------------------------------------------
(* Types: pointers to tasks or NULL, flags and control points.  Unless     *)
(* NULL was followed, some task is current (scheduler.c:68-85).            *)
TypeOK ==
  /\ lists.run_queue \in Task \cup {NULL}
  /\ lists.zombies_queue \in Task \cup {NULL}
  /\ lists.next \in [Task -> Task \cup {NULL}]
  /\ lists.endless \in BOOLEAN
  /\ current \in IF cpu = "null" THEN Task \cup {NULL} ELSE Task
  /\ temp_queue \in Task \cup {NULL}
  /\ signal \in [handler : BOOLEAN, pid : Task \cup {NULL}, exit : BOOLEAN]
  /\ handlers \subseteq Task
  /\ pc \in [Task -> Pc]
  /\ walk \in [Task -> Task \cup {NULL}]
  /\ cpu \in {"tasks", "shell", "null", "hangs", "dead task"}
  /\ spoiled \in BOOLEAN

(* Where a task is.  From the link that puts it back to the assignment     *)
(* that clears temp_queue, temp_queue does not count.                      *)
Places(t) ==
  (IF t = current THEN {"cpu"} ELSE {})
  \cup (IF t = temp_queue /\ \A u \in Task : pc[u] # "clear" THEN {"parked"} ELSE {})
  \cup {q \in {"run_queue", "zombies_queue"} : t \in Members(lists, q)}

(* Signals lose no task and queue none twice, however their wrappers are   *)
(* preempted, but for six things: the target is the first in run_queue;    *)
(* another target is parked; the wrapper links behind a task that is no    *)
(* longer the last one; the wrapper is killed, or its handler exits or     *)
(* forks (scheduler.c:149-177, exception.c:234-243, 320-329).  The type    *)
(* invariant is its first part.                                            *)
TasksAccounted ==
  /\ TypeOK
  /\ ~spoiled /\ cpu = "tasks" =>
       \A t \in Task : Cardinality(Places(t)) = IF pc[t] \in {"unused", "freed"} THEN 0 ELSE 1

(* A parked task that has a handler is waited for: but for the same six    *)
(* things its wrapper is still to put it back (exception.c:321-323).       *)
ParkedIsAwaited ==
  ~spoiled /\ cpu = "tasks" /\ temp_queue \in handlers =>
    \E t \in Task : pc[t] \in {"test", "call", "handler", "add", "walk", "link", "clear"}

(* Any exit after a signal kills the target (exception.c:211-214), but as  *)
(* the target is parked this can only happen from where the wrapper has    *)
(* put it back to where it unsets signal_exit.                             *)
ExitKillsOnlyInWindow ==
  [][~spoiled /\ pc[current] # "exited" /\ pc'[current] = "exited" =>
       \A t \in Members(lists', "zombies_queue") \ Members(lists, "zombies_queue") :
         t = current \/ \E w \in Task : pc[w] \in {"clear", "unset"}]_vars

(* "no register kill thread" (exception.c:325): a wrapper that finds no    *)
(* handler kills the target of the signal.                                 *)
NoHandlerKills ==
  [][\A t \in Task : pc[t] = "kill" /\ pc'[t] = "unset" =>
       signal.pid \in Members(lists', "zombies_queue") \/ pc'[signal.pid] = "freed"]_vars

=============================================================================
