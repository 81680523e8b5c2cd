-------------------------- MODULE TimerQueueProofs --------------------------
(***************************************************************************)
(* Proofs about the timer queue for every period and every bound on time,  *)
(* runs and preempted tasks.                                               *)
(*                                                                         *)
(* The inductive invariant adds to the invariants of the runs that no      *)
(* timer of the queue expires more than one period from now: that is why   *)
(* add_timer never finds a reason to insert before another timer.          *)
(***************************************************************************)
EXTENDS TimerQueue, SequenceTheorems, FiniteSetTheorems, TLAPS

(* A nonempty set of positions of a queue has a first one.                 *)
LEMMA FirstPosition ==
  ASSUME NEW n \in Nat, NEW T \in SUBSET (1..n), T # {}
  PROVE  \E x \in T : \A y \in T : x <= y
<1> DEFINE U == {1..x : x \in T}
<1>1. IsWellFoundedOn(StrictSubsetOrdering(1..n), FiniteSubsetsOf(1..n))
  BY FS_StrictSubsetOrderingWellFounded
<1>2. IsFiniteSet(1..n)
  BY FS_Interval
<1>3. U \subseteq FiniteSubsetsOf(1..n) /\ U # {}
  <2>1. U \subseteq SUBSET (1..n)
    OBVIOUS
  <2>2. FiniteSubsetsOf(1..n) = SUBSET (1..n)
    BY <1>2, FS_FiniteSubsetsOfFinite
  <2>3. U # {}
    OBVIOUS
  <2> QED
    BY <2>1, <2>2, <2>3
<1>4. PICK u \in U : \A v \in U : ~(<<v, u>> \in StrictSubsetOrdering(1..n))
  BY <1>1, <1>3, WFMin
<1>5. PICK x \in T : u = 1..x
  BY <1>4
<1>6. ASSUME NEW y \in T, y < x PROVE FALSE
  <2>1. 1..y \in U /\ 1..y \subseteq 1..x /\ 1..y # 1..x
    BY <1>6
  <2>2. 1..y \in SUBSET (1..n) /\ 1..x \in SUBSET (1..n)
    OBVIOUS
  <2>3. <<1..y, 1..x>> \in StrictSubsetOrdering(1..n)
    BY <2>1, <2>2 DEF StrictSubsetOrdering
  <2> QED
    BY <1>4, <1>5, <2>1, <2>3
<1> QED
  BY <1>6

(* The position add_timer finds is one of the queue, and all timers before *)
(* it expire before the new one.                                           *)
LEMMA PredecessorPosition ==
  ASSUME NEW q \in Seq(Nat), q # <<>>, NEW e \in Nat
  PROVE  LET i == Predecessor(q, e) IN
         /\ i \in 1..Len(q)
         /\ i = Len(q) \/ q[i] >= e
         /\ \A j \in 1..(i - 1) : q[j] < e
<1> DEFINE T == {i \in 1..Len(q) : i = Len(q) \/ q[i] >= e}
<1>1. Len(q) \in Nat \ {0} /\ \A i \in 1..Len(q) : q[i] \in Nat
  BY EmptySeq, LenProperties
<1>2. T \in SUBSET (1..Len(q)) /\ Len(q) \in T
  BY <1>1
<1>3. PICK i \in T : \A j \in T : i <= j
  BY <1>1, <1>2, FirstPosition
<1>4. /\ i \in 1..Len(q)
      /\ i = Len(q) \/ q[i] >= e
      /\ \A j \in 1..(i - 1) : q[j] < e
  BY <1>1, <1>3
<1> QED
  BY <1>4 DEF Predecessor

(* The elements of a queue after an insertion behind position p.           *)
LEMMA InsertElements ==
  ASSUME NEW q \in Seq(Nat), NEW p \in 1..Len(q), NEW e \in Nat
  PROVE  LET r == InsertAt(q, p + 1, e) IN
         /\ r \in Seq(Nat)
         /\ Len(r) = Len(q) + 1
         /\ \A i \in 1..p : r[i] = q[i]
         /\ r[p + 1] = e
         /\ \A i \in (p + 2)..(Len(q) + 1) : r[i] = q[i - 1]
<1>1. Len(q) \in Nat /\ p \in Nat /\ \A i \in 1..Len(q) : q[i] \in Nat
  BY LenProperties
<1>2. PICK a : a = SubSeq(q, 1, p)
  OBVIOUS
<1>3. PICK b : b = SubSeq(q, p + 1, Len(q))
  OBVIOUS
<1>4. PICK c : c = a \o <<e>>
  OBVIOUS
<1>5. PICK r : r = c \o b
  OBVIOUS
<1>6. InsertAt(q, p + 1, e) = r
  <2>1. \A k : InsertAt(q, k, e) = (SubSeq(q, 1, k - 1) \o <<e>>) \o SubSeq(q, k, Len(q))
    BY Zenon DEF InsertAt
  <2>2. PICK k : k = p + 1 /\ k - 1 = p
    BY <1>1
  <2>3. InsertAt(q, k, e) = (a \o <<e>>) \o b
    <3>1. SubSeq(q, 1, k - 1) = a /\ SubSeq(q, k, Len(q)) = b
      BY <1>2, <1>3, <2>2, Zenon
    <3> QED
      BY <2>1, <3>1, Zenon
  <2> QED
    BY <1>4, <1>5, <2>2, <2>3, Zenon
<1>7. a \in Seq(Nat) /\ Len(a) = p /\ \A i \in 1..p : a[i] = q[i]
  <2>1. \A i \in 1..p : q[i] \in Nat
    BY <1>1
  <2>2. /\ a \in Seq(Nat) /\ Len(a) = (IF 1 <= p THEN p - 1 + 1 ELSE 0)
        /\ \A i \in 1..(p - 1 + 1) : a[i] = q[1 + i - 1]
    BY <1>1, <1>2, <2>1, SubSeqProperties
  <2> QED
    BY <1>1, <2>2
<1>8. /\ b \in Seq(Nat) /\ Len(b) = Len(q) - p
      /\ \A i \in 1..(Len(q) - p) : b[i] = q[p + i]
  <2>1. \A i \in (p + 1)..Len(q) : q[i] \in Nat
    BY <1>1
  <2>2. /\ b \in Seq(Nat)
        /\ Len(b) = (IF p + 1 <= Len(q) THEN Len(q) - (p + 1) + 1 ELSE 0)
        /\ \A i \in 1..(Len(q) - (p + 1) + 1) : b[i] = q[(p + 1) + i - 1]
    BY <1>1, <1>3, <2>1, SubSeqProperties
  <2> QED
    BY <1>1, <2>2
<1>9. <<e>> \in Seq(Nat) /\ Len(<<e>>) = 1 /\ <<e>>[1] = e
  OBVIOUS
<1>10. /\ c \in Seq(Nat) /\ Len(c) = p + 1
       /\ \A i \in 1..p : c[i] = q[i]
       /\ c[p + 1] = e
  BY <1>1, <1>4, <1>7, <1>9, ConcatProperties
<1>11. /\ r \in Seq(Nat)
       /\ Len(r) = Len(q) + 1
       /\ \A i \in 1..(Len(q) + 1) : r[i] = IF i <= p + 1 THEN c[i] ELSE b[i - (p + 1)]
  <2>1. /\ r \in Seq(Nat) /\ Len(r) = Len(c) + Len(b)
        /\ \A i \in 1..(Len(c) + Len(b)) : r[i] = IF i <= Len(c) THEN c[i] ELSE b[i - Len(c)]
    BY <1>5, <1>8, <1>10, ConcatProperties
  <2>2. Len(c) = p + 1 /\ Len(c) + Len(b) = Len(q) + 1
    BY <1>1, <1>8, <1>10
  <2>3. \A i \in 1..(Len(q) + 1) : r[i] = IF i <= p + 1 THEN c[i] ELSE b[i - (p + 1)]
    <3> TAKE i \in 1..(Len(q) + 1)
    <3>1. r[i] = IF i <= Len(c) THEN c[i] ELSE b[i - Len(c)]
      BY <2>1, <2>2
    <3> QED
      BY <3>1, <2>2, Zenon
  <2> QED
    BY <2>1, <2>2, <2>3, Zenon
<1>12. /\ \A i \in 1..p : r[i] = q[i]
       /\ r[p + 1] = e
       /\ \A i \in (p + 2)..(Len(q) + 1) : r[i] = q[i - 1]
  <2>1. \A i \in 1..p : r[i] = q[i]
    BY <1>1, <1>10, <1>11, SMTT(30)
  <2>2. r[p + 1] = e
    BY <1>1, <1>10, <1>11, SMTT(30)
  <2>3. ASSUME NEW i \in (p + 2)..(Len(q) + 1) PROVE r[i] = q[i - 1]
    <3>1. i \in 1..(Len(q) + 1) /\ ~(i <= p + 1) /\ i - (p + 1) \in 1..(Len(q) - p)
          /\ p + (i - (p + 1)) = i - 1
      BY <1>1, <2>3
    <3> QED
      BY <1>8, <1>11, <3>1
  <2> QED
    BY <2>1, <2>2, <2>3
<1> QED
  BY <1>6, <1>11, <1>12

(* What inserting does to a sorted queue whose timers expire no later than *)
(* the new one.                                                            *)
LEMMA InsertLast ==
  ASSUME NEW q \in Seq(Nat), q # <<>>, NEW e \in Nat,
         \A i \in 1..Len(q) : q[i] <= e,
         \A i, j \in 1..Len(q) : i < j => q[i] <= q[j]
  PROVE  LET r == Insert(q, e) IN
         /\ r \in Seq(Nat)
         /\ Len(r) = Len(q) + 1
         /\ r[1] = q[1]
         /\ \A i \in 1..Len(r) : r[i] <= e
         /\ \A i, j \in 1..Len(r) : i < j => r[i] <= r[j]
<1>1. PICK p \in 1..Len(q) :
        /\ p = Predecessor(q, e)
        /\ p = Len(q) \/ q[p] >= e
  BY PredecessorPosition
<1>2. Len(q) \in Nat /\ \A i \in 1..Len(q) : q[i] \in Nat
  BY LenProperties
<1>3. PICK r : r = InsertAt(q, p + 1, e)
  OBVIOUS
<1>4. r \in Seq(Nat) /\ Len(r) = Len(q) + 1
  BY <1>3, InsertElements
<1>12. \A i \in 1..p : r[i] = q[i]
  BY <1>3, InsertElements
<1>13. r[p + 1] = e
  BY <1>3, InsertElements
<1>14. \A i \in (p + 2)..(Len(q) + 1) : r[i] = q[i - 1]
  BY <1>3, InsertElements
<1>15. p \in Nat /\ p >= 1 /\ p <= Len(q) /\ Len(r) = Len(q) + 1
  BY <1>2, <1>4
<1>5. \A i \in (p + 1)..Len(q) : q[i] = e
  BY <1>1, <1>2
<1>6. \A i \in (p + 1)..Len(r) : r[i] = e
  <2> SUFFICES ASSUME NEW i \in (p + 1)..Len(r) PROVE r[i] = e
    OBVIOUS
  <2>1. CASE i = p + 1
    BY <1>13, <2>1
  <2>2. CASE i # p + 1
    <3>1. i \in (p + 2)..(Len(q) + 1) /\ i - 1 \in (p + 1)..Len(q)
      BY <1>2, <1>15, <2>2
    <3> QED
      BY <1>14, <1>5, <3>1
  <2> QED
    BY <2>1, <2>2
<1>7. \A i \in 1..Len(r) : i \in 1..p \/ i \in (p + 1)..Len(r)
  BY <1>2, <1>15
<1>8. \A i \in 1..Len(r) : r[i] <= e
  <2>1. ASSUME NEW i \in 1..p PROVE r[i] <= e
    <3>1. i \in 1..Len(q)
      BY <1>2, <1>15
    <3> QED
      BY <1>12, <3>1
  <2>2. \A i \in (p + 1)..Len(r) : r[i] <= e
    BY <1>6
  <2> QED
    BY <1>7, <2>1, <2>2
<1>9. ASSUME NEW i \in 1..Len(r), NEW j \in 1..Len(r), i < j PROVE r[i] <= r[j]
  <2>1. CASE j \in (p + 1)..Len(r)
    BY <1>6, <1>8, <2>1
  <2>2. CASE j \in 1..p
    <3>1. i \in 1..p /\ i \in 1..Len(q) /\ j \in 1..Len(q)
      BY <1>2, <1>9, <2>2
    <3>2. r[i] = q[i] /\ r[j] = q[j]
      BY <1>12, <2>2, <3>1
    <3> QED
      BY <1>9, <3>1, <3>2
  <2> QED
    BY <1>7, <2>1, <2>2
<1>10. r[1] = q[1]
  BY <1>12, <1>15
<1>11. r = Insert(q, e)
  BY <1>1, <1>3 DEF Insert
<1> QED
  BY <1>4, <1>8, <1>9, <1>10, <1>11

-----------------------------------------------------------------------------
Sorted(q) == \A i, j \in 1..Len(q) : i < j => q[i] <= q[j]

ExpiresBy(q, t) == \A i \in 1..Len(q) : q[i] <= t

(* add_timer with the one period there is: the queue stays sorted, and the *)
(* new timer is armed only if it is alone.                                 *)
LEMMA AddTimerStep ==
  ASSUME NEW q \in Seq(Nat), NEW enabled \in BOOLEAN,
         now \in Nat, compare \in Nat, Sorted(q), ExpiresBy(q, now + Period),
         enabled => q # <<>> /\ compare = Head(q),
         AddTimer(q, Period, enabled)
  PROVE  /\ timer_queue' \in Seq(Nat) /\ timer_queue' # <<>>
         /\ Len(timer_queue') = Len(q) + 1
         /\ Sorted(timer_queue') /\ ExpiresBy(timer_queue', now + Period)
         /\ compare' \in Nat
         /\ irq_enabled' = (q = <<>> \/ enabled)
         /\ irq_enabled' => compare' = Head(timer_queue')
<1> DEFINE e == now + Period
<1>1. e \in Nat
  BY TimerQueueAssumption
<1>2. CASE q = <<>>
  <2>1. BecomesHead(q, e)
    BY <1>2 DEF BecomesHead
  <2>2. timer_queue' = <<e>> \o q /\ compare' = e /\ irq_enabled' = TRUE
    BY <2>1 DEF AddTimer
  <2>3. <<e>> \o q = <<e>>
    BY <1>1, <1>2
  <2>4. PICK r : r = timer_queue' /\ r = <<e>>
    BY <2>2, <2>3
  <2>5. r \in Seq(Nat) /\ r # <<>> /\ Len(r) = 1 /\ r[1] = e /\ Head(r) = e
    BY <1>1, <2>4
  <2>6. Sorted(r) /\ ExpiresBy(r, e)
    BY <1>1, <2>5 DEF Sorted, ExpiresBy
  <2>7. Len(q) = 0
    BY <1>2
  <2>8. irq_enabled' = (q = <<>> \/ enabled)
    BY <1>2, <2>2, Zenon
  <2>9. /\ timer_queue' \in Seq(Nat) /\ timer_queue' # <<>>
        /\ Sorted(timer_queue') /\ ExpiresBy(timer_queue', e)
        /\ compare' = Head(timer_queue')
    BY <2>2, <2>4, <2>5, <2>6, Zenon
  <2>10. Len(timer_queue') = Len(q) + 1
    BY <2>4, <2>5, <2>7
  <2>11. compare' \in Nat
    BY <1>1, <2>2
  <2> QED
    BY <2>8, <2>9, <2>10, <2>11, Zenon
<1>3. CASE q # <<>>
  <2>1. Len(q) \in Nat \ {0} /\ Head(q) = q[1] /\ q[1] \in Nat /\ q[1] <= e
    BY <1>3, EmptySeq, HeadTailProperties DEF ExpiresBy
  <2>2. ~BecomesHead(q, e)
    BY <1>1, <1>3, <2>1 DEF BecomesHead
  <2>3. timer_queue' = Insert(q, e) /\ compare' = compare /\ irq_enabled' = enabled
    BY <2>2 DEF AddTimer
  <2>4. PICK r : r = timer_queue'
    OBVIOUS
  <2>5. /\ r \in Seq(Nat) /\ Len(r) = Len(q) + 1 /\ r[1] = q[1]
        /\ Sorted(r) /\ ExpiresBy(r, e)
    BY <1>1, <1>3, <2>3, <2>4, InsertLast DEF Sorted, ExpiresBy
  <2>6. r # <<>> /\ Head(r) = q[1]
    BY <2>1, <2>5
  <2> QED
    BY <1>3, <2>1, <2>3, <2>4, <2>5, <2>6
<1> QED
  BY <1>2, <1>3

(* The inductive invariant.                                                *)
IInv ==
  /\ TypeOK
  /\ QueueSorted
  /\ ArmedForHead
  /\ ExpiresBy(timer_queue, now + Period)
  /\ waiting > 0 => timer_queue # <<>>

(* The parts of the invariant that every step uses.                        *)
LEMMA QueueFacts ==
  ASSUME IInv
  PROVE  /\ timer_queue \in Seq(Nat) /\ Len(timer_queue) \in Nat
         /\ now \in Nat /\ compare \in Nat /\ irq_enabled \in BOOLEAN
         /\ Sorted(timer_queue) /\ ExpiresBy(timer_queue, now + Period)
         /\ irq_enabled => timer_queue # <<>> /\ compare = Head(timer_queue)
BY LenProperties, TimerQueueAssumption DEF IInv, TypeOK, QueueSorted, Sorted, ArmedForHead

(* Taking the first timer leaves a sorted queue.                           *)
LEMMA TailFacts ==
  ASSUME IInv, irq_enabled
  PROVE  /\ Tail(timer_queue) \in Seq(Nat)
         /\ Len(Tail(timer_queue)) = Len(timer_queue) - 1
         /\ Sorted(Tail(timer_queue)) /\ ExpiresBy(Tail(timer_queue), now + Period)
<1>1. /\ timer_queue \in Seq(Nat) /\ Len(timer_queue) \in Nat /\ timer_queue # <<>>
      /\ Sorted(timer_queue) /\ ExpiresBy(timer_queue, now + Period)
  BY QueueFacts
<1>2. PICK r : r = Tail(timer_queue)
  OBVIOUS
<1>3. /\ r \in Seq(Nat) /\ Len(r) = Len(timer_queue) - 1
      /\ \A i \in 1..Len(r) : r[i] = timer_queue[i + 1]
  BY <1>1, <1>2, HeadTailProperties
<1>4. \A i \in 1..Len(r) : i + 1 \in 1..Len(timer_queue)
  BY <1>1, <1>3
<1>5. Sorted(r)
  <2> SUFFICES ASSUME NEW i \in 1..Len(r), NEW j \in 1..Len(r), i < j
               PROVE  r[i] <= r[j]
    BY DEF Sorted
  <2>1. timer_queue[i + 1] <= timer_queue[j + 1]
    BY <1>1, <1>4 DEF Sorted
  <2> QED
    BY <1>3, <2>1
<1>6. ExpiresBy(r, now + Period)
  BY <1>1, <1>3, <1>4 DEF ExpiresBy
<1> QED
  BY <1>2, <1>3, <1>5, <1>6

(* idle_thread keeps the invariant when it adds its timer.                 *)
LEMMA RunStep ==
  ASSUME IInv, Run
  PROVE  /\ IInv'
         /\ Len(timer_queue') = Len(timer_queue) + 1
         /\ irq_enabled' = (timer_queue = <<>> \/ irq_enabled)
<1>1. AddTimer(timer_queue, Period, irq_enabled)
  BY DEF Run
<1>2. /\ timer_queue' \in Seq(Nat) /\ timer_queue' # <<>>
      /\ Len(timer_queue') = Len(timer_queue) + 1
      /\ Sorted(timer_queue') /\ ExpiresBy(timer_queue', now + Period)
      /\ compare' \in Nat
      /\ irq_enabled' = (timer_queue = <<>> \/ irq_enabled)
      /\ irq_enabled' => compare' = Head(timer_queue')
  BY <1>1, QueueFacts, AddTimerStep
<1>3. now' = now /\ waiting' = waiting /\ phase' = "tasks" /\ Len(timer_queue) < MaxRuns
  BY DEF Run
<1>4. TypeOK'
  BY <1>2, <1>3, QueueFacts, TimerQueueAssumption DEF IInv, TypeOK
<1> QED
  BY <1>2, <1>3, <1>4 DEF IInv, QueueSorted, Sorted, ArmedForHead

(* The timer interrupt keeps the invariant and adds no timer.              *)
LEMMA IrqStep ==
  ASSUME IInv, Irq
  PROVE  /\ IInv'
         /\ Head(timer_queue) <= now
         /\ Len(timer_queue') = Len(timer_queue)
         /\ irq_enabled' = (Len(timer_queue) = 1)
<1>1. irq_enabled /\ AddTimer(Tail(timer_queue), Period, FALSE)
  BY DEF Irq
<1>2. PICK q : q = Tail(timer_queue)
  OBVIOUS
<1>3. /\ q \in Seq(Nat) /\ Len(q) = Len(timer_queue) - 1
      /\ Sorted(q) /\ ExpiresBy(q, now + Period)
  BY <1>1, <1>2, TailFacts
<1>4. /\ timer_queue' \in Seq(Nat) /\ timer_queue' # <<>>
      /\ Len(timer_queue') = Len(q) + 1
      /\ Sorted(timer_queue') /\ ExpiresBy(timer_queue', now + Period)
      /\ compare' \in Nat
      /\ irq_enabled' = (q = <<>>)
      /\ irq_enabled' => compare' = Head(timer_queue')
  BY <1>1, <1>2, <1>3, QueueFacts, AddTimerStep
<1>5. /\ now' = now /\ waiting' = waiting + 1 /\ phase' = phase
      /\ waiting < MaxWaiting /\ now >= compare
  BY DEF Irq
<1>6. Len(timer_queue) \in Nat /\ Len(timer_queue') = Len(timer_queue)
  BY <1>3, <1>4, QueueFacts
<1>7. TypeOK'
  <2>1. waiting' \in 0..MaxWaiting
    BY <1>5, TimerQueueAssumption DEF IInv, TypeOK
  <2>2. irq_enabled' \in BOOLEAN
    BY <1>4
  <2> QED
    BY <1>4, <1>5, <1>6, <2>1, <2>2 DEF IInv, TypeOK
<1>8. (q = <<>>) <=> Len(timer_queue) = 1
  <2>1. (q = <<>>) <=> Len(q) = 0
    BY <1>3, EmptySeq
  <2> QED
    BY <1>3, <1>6, <2>1
<1>9. Head(timer_queue) <= now
  BY <1>1, <1>5, QueueFacts
<1>10. IInv'
  BY <1>4, <1>5, <1>7 DEF IInv, QueueSorted, Sorted, ArmedForHead
<1> QED
  BY <1>4, <1>6, <1>8, <1>9, <1>10

(* The end of pop_timer finds a timer: its own callback added one.         *)
LEMMA PopTimerEndsStep ==
  ASSUME IInv, PopTimerEnds
  PROVE  /\ IInv'
         /\ timer_queue' = timer_queue
         /\ irq_enabled' = TRUE /\ timer_queue # <<>>
<1>1. /\ timer_queue # <<>> /\ waiting > 0 /\ waiting' = waiting - 1
      /\ compare' = Head(timer_queue) /\ irq_enabled' = TRUE
      /\ timer_queue' = timer_queue /\ now' = now /\ phase' = phase
  BY DEF PopTimerEnds, IInv
<1>2. compare' \in Nat
  BY <1>1, QueueFacts, HeadTailProperties
<1>3. waiting' \in 0..MaxWaiting
  BY <1>1, TimerQueueAssumption DEF IInv, TypeOK
<1>4. TypeOK'
  BY <1>1, <1>2, <1>3 DEF IInv, TypeOK
<1> QED
  BY <1>1, <1>4 DEF IInv, QueueSorted, ArmedForHead, ExpiresBy

(* The kill of a task in its timer interrupt keeps the invariant.          *)
LEMMA KillWaitingStep ==
  ASSUME IInv, KillWaiting
  PROVE  IInv'
<1>1. waiting' \in 0..MaxWaiting
  BY TimerQueueAssumption DEF IInv, TypeOK, KillWaiting
<1> QED
  BY <1>1 DEF KillWaiting, IInv, TypeOK, QueueSorted, ArmedForHead, ExpiresBy

(* Time keeps the invariant.                                               *)
LEMMA TickStep ==
  ASSUME IInv, Tick
  PROVE  IInv'
<1>1. now' = now + 1 /\ now' \in 0..MaxTime /\ now \in Nat
  BY TimerQueueAssumption DEF IInv, TypeOK, Tick
<1>2. ExpiresBy(timer_queue, now' + Period)
  <2>1. \A i \in 1..Len(timer_queue) : timer_queue[i] \in Nat
    BY QueueFacts, ElementOfSeq
  <2> QED
    BY <1>1, <2>1, QueueFacts, TimerQueueAssumption DEF ExpiresBy
<1> QED
  BY <1>1, <1>2 DEF Tick, IInv, TypeOK, QueueSorted, ArmedForHead, ExpiresBy

(* Masking the timer keeps the invariant.                                  *)
LEMMA EnterShellStep ==
  ASSUME IInv, EnterShell
  PROVE  IInv'
BY DEF EnterShell, IInv, TypeOK, QueueSorted, ArmedForHead, ExpiresBy

(* The strengthening: a run armed its first timer no later than Period     *)
(* from now (timer.c:39-90).                                               *)
THEOREM Invariance == Spec => []IInv
<1>1. Init => IInv
  <2> SUFFICES ASSUME Init PROVE IInv
    OBVIOUS
  <2>1. timer_queue \in Seq(Nat) /\ Len(timer_queue) = 0
    BY EmptySeq DEF Init
  <2>2. QueueSorted /\ ExpiresBy(timer_queue, now + Period)
    BY <2>1 DEF QueueSorted, ExpiresBy
  <2>3. /\ now = 0 /\ compare = 0 /\ irq_enabled = FALSE /\ waiting = 0
        /\ phase = "shell"
    BY DEF Init
  <2>4. irq_enabled \in BOOLEAN /\ ArmedForHead
    BY <2>3, Zenon DEF ArmedForHead
  <2>5. TypeOK
    BY <2>1, <2>3, <2>4, TimerQueueAssumption DEF TypeOK
  <2>6. ~(waiting > 0)
    BY <2>3
  <2> QED
    BY <2>2, <2>4, <2>5, <2>6, Zenon DEF IInv
<1>2. IInv /\ [Next]_vars => IInv'
  <2> SUFFICES ASSUME IInv, [Next]_vars PROVE IInv'
    OBVIOUS
  <2>1. CASE UNCHANGED vars
    BY <2>1 DEF vars, IInv, TypeOK, QueueSorted, ArmedForHead, ExpiresBy
  <2> QED
    BY <2>1, RunStep, IrqStep, PopTimerEndsStep, KillWaitingStep, EnterShellStep, TickStep
    DEF Next
<1> QED
  BY <1>1, <1>2, PTL DEF Spec

(* The queue holds expiry times, and every variable keeps its type         *)
(* (timer.c:39-103).                                                       *)
THEOREM TypeCorrect == Spec => []TypeOK
<1>1. IInv => TypeOK
  BY DEF IInv
<1> QED
  BY <1>1, Invariance, PTL

(* The queue stays sorted as long as all timers have one period.           *)
THEOREM SortedQueue == Spec => []QueueSorted
<1>1. IInv => QueueSorted
  BY DEF IInv
<1> QED
  BY <1>1, Invariance, PTL

(* An enabled interrupt is set for the first timer of the queue.           *)
THEOREM Armed == Spec => []ArmedForHead
<1>1. IInv => ArmedForHead
  BY DEF IInv
<1> QED
  BY <1>1, Invariance, PTL

(* No callback runs before its time.                                       *)
THEOREM NoEarlyTimer == Spec => NeverEarly
<1>1. IInv /\ [Next]_vars => [waiting' > waiting => Head(timer_queue) <= now]_vars
  <2> SUFFICES ASSUME IInv, Next, waiting' > waiting PROVE Head(timer_queue) <= now
    OBVIOUS
  <2>1. waiting \in Int
    BY TimerQueueAssumption DEF IInv, TypeOK
  <2>2. CASE Irq
    BY <2>2, IrqStep
  <2>3. CASE ~Irq
    BY <2>1, <2>3 DEF Next, Run, PopTimerEnds, KillWaiting, EnterShell, Tick
  <2> QED
    BY <2>2, <2>3
<1> QED
  BY <1>1, Invariance, PTL DEF Spec, NeverEarly

(* The queue refines the count that Scheduler keeps of it.                 *)
THEOREM CountRefined == Spec => CountSpec
<1>1. Init => Count!Init
  BY DEF Init, Count!Init
<1>2. IInv /\ [Next]_vars => [Count!Next]_(Count!vars)
  <2> SUFFICES ASSUME IInv, [Next]_vars
               PROVE  Count!Next \/ UNCHANGED Count!vars
    OBVIOUS
  <2>1. Len(timer_queue) = 0 <=> timer_queue = <<>>
    BY QueueFacts, EmptySeq
  <2>2. CASE Run
    BY <2>1, <2>2, RunStep DEF Count!Next, Count!Add
  <2>3. CASE Irq
    BY <2>3, IrqStep DEF Count!Next, Count!Expire, Irq
  <2>4. CASE PopTimerEnds
    BY <2>1, <2>4, PopTimerEndsStep DEF Count!Next, Count!Resume
  <2>5. CASE EnterShell
    BY <2>5 DEF EnterShell, Count!Next, Count!Mask
  <2>6. CASE KillWaiting \/ Tick \/ UNCHANGED vars
    BY <2>6 DEF KillWaiting, Tick, vars, Count!vars
  <2> QED
    BY <2>2, <2>3, <2>4, <2>5, <2>6 DEF Next
<1> QED
  BY <1>1, <1>2, Invariance, PTL DEF Spec, CountSpec, Count!Spec
=============================================================================
