----------------------------- MODULE TimerCount -----------------------------
(* What module Scheduler knows of the timers: how many there are and       *)
(* whether the core timer interrupt is enabled, but not when they expire.  *)
EXTENDS Naturals

VARIABLES
  timers,       \* the length of timer_queue
  irq_enabled   \* the core timer interrupt is unmasked

vars == <<timers, irq_enabled>>

Init == timers = 0 /\ irq_enabled = FALSE

(* A new timer enables the interrupt only if it is the first.              *)
Add ==
  /\ timers' = timers + 1
  /\ irq_enabled' = (timers = 0 \/ irq_enabled)

(* A timer expires and its callback adds the next one.                     *)
Expire ==
  /\ irq_enabled
  /\ irq_enabled' = (timers = 1)
  /\ UNCHANGED timers

(* The interrupt handler of a task that was preempted ends.                *)
Resume ==
  /\ irq_enabled' = (timers # 0)
  /\ UNCHANGED timers

Mask == irq_enabled' = FALSE /\ UNCHANGED timers

Next == Add \/ Expire \/ Resume \/ Mask

Spec == Init /\ [][Next]_vars
=============================================================================
