------------------------------ MODULE UartProofs ------------------------------
(***************************************************************************)
(* Proofs about Uart: nothing is lost and no junk is read but where a task *)
(* was overtaken, and the bytes of every task leave in order, for every    *)
(* number of tasks and bytes and every depth of the queues.                *)
(***************************************************************************)
EXTENDS Uart, DataLemmas, FiniteSetTheorems, TLAPS

(* A test of the line status stays true until the task uses the queue or   *)
(* another one does.                                                       *)
TestHolds ==
  \A t \in Task :
    call[t].ready =>
      /\ call[t].op # "none"
      /\ t \notin raced => LineStatus(call[t].op)

IInv == TypeOK /\ TestHolds /\ OnlyRacesHurt

(* The initial states satisfy the invariant: no call has begun.            *)
LEMMA InitInv == Init => IInv
<1> SUFFICES ASSUME Init PROVE IInv
  OBVIOUS
<1>1. Cardinality(Task) \in Nat
  BY UartAssumption, FS_CardinalityType DEF UartAssumption
<1>2. TypeOK
  <2>1. run_queue \in Seq(Task)
    BY <1>1 DEF Init
  <2> QED
    BY <2>1 DEF Init, TypeOK, NoCall, Calls
<1>3. TestHolds
  BY DEF Init, TestHolds, NoCall
<1>4. OnlyRacesHurt
  BY DEF Init, OnlyRacesHurt
<1> QED
  BY <1>2, <1>3, <1>4 DEF IInv

(* The byte after the one that was just done is not yet tested.            *)
LEMMA ByteDoneType ==
  ASSUME TypeOK, NEW t \in Task
  PROVE  ByteDone(t) \in Calls /\ ~ByteDone(t).ready
<1>1. call[t] \in Calls
  BY DEF TypeOK
<1>2. NoCall \in Calls /\ ~NoCall.ready
  BY DEF NoCall, Calls
<1>3. ASSUME NEW c \in Calls
      PROVE  /\ [c EXCEPT !.next = @ + 1, !.ready = FALSE] \in Calls
             /\ ~[c EXCEPT !.next = @ + 1, !.ready = FALSE].ready
  <2>1. c.next + 1 \in Int
    BY DEF Calls
  <2>2. \A n \in Int : [c EXCEPT !.next = n, !.ready = FALSE] \in Calls
    BY DEF Calls
  <2>3. [c EXCEPT !.next = @ + 1, !.ready = FALSE] \in Calls
    BY <2>1, <2>2
  <2>4. ~[c EXCEPT !.next = @ + 1, !.ready = FALSE].ready
    BY DEF Calls
  <2> QED
    BY <2>3, <2>4
<1> QED
  BY <1>1, <1>2, <1>3 DEF ByteDone

(* A new call has not tested anything yet.                                 *)
LEMMA CallInv ==
  ASSUME IInv, NEW t \in Task, NEW op \in {"send", "get"}, NEW masked \in BOOLEAN,
         Call(t, op, masked)
  PROVE  IInv'
<1>1. PICK n \in 1..MaxBuffer :
        /\ issued' = [issued EXCEPT ![t] = IF op = "send" THEN @ + n ELSE @]
        /\ call' = [call EXCEPT ![t] =
                      [op |-> op, masked |-> masked, next |-> issued[t] + 1,
                       last |-> issued[t] + n, ready |-> FALSE]]
  BY DEF Call
<1>2. issued' \in [Task -> Nat] /\ issued[t] + 1 \in Int /\ issued[t] + n \in Int
  BY <1>1 DEF IInv, TypeOK
<1>3. TypeOK'
  BY <1>1, <1>2 DEF IInv, TypeOK, Call, Calls
<1>4. TestHolds'
  BY <1>1 DEF IInv, TypeOK, TestHolds, Call, LineStatus
<1>5. OnlyRacesHurt'
  BY DEF IInv, OnlyRacesHurt, Call
<1> QED
  BY <1>3, <1>4, <1>5 DEF IInv

(* The test itself: the line status is true now.                           *)
LEMMA TestInv ==
  ASSUME IInv, NEW t \in Task, NEW op \in {"send", "get"}, TestOf(t, op)
  PROVE  IInv'
<1>1. call' = [call EXCEPT ![t].ready = TRUE] /\ call[t].op = op /\ LineStatus(op)
  BY DEF TestOf
<1>2. TypeOK'
  <2>1. \A c \in Calls : [c EXCEPT !.ready = TRUE] \in Calls
    BY DEF Calls
  <2>2. call' \in [Task -> Calls]
    BY <1>1, <2>1 DEF IInv, TypeOK
  <2> QED
    BY <2>2 DEF IInv, TypeOK, TestOf
<1>3. TestHolds'
  <2> SUFFICES ASSUME NEW s \in Task, call'[s].ready
              PROVE  /\ call'[s].op # "none"
                     /\ s \notin raced => LineStatus(call'[s].op)
    BY DEF TestHolds, LineStatus, TestOf
  <2>1. call'[s].op = call[s].op
    BY <1>1 DEF IInv, TypeOK, Calls
  <2>2. CASE s = t
    BY <1>1, <2>1, <2>2
  <2>3. CASE s # t
    BY <1>1, <2>1, <2>3 DEF IInv, TypeOK, TestHolds
  <2> QED
    BY <2>2, <2>3
<1>4. OnlyRacesHurt'
  BY DEF IInv, OnlyRacesHurt, TestOf
<1> QED
  BY <1>2, <1>3, <1>4 DEF IInv

(* What an access to the data register does to the tests of the others:    *)
(* those of the same queue are overtaken, and the other queue stays.       *)
LEMMA AccessInv ==
  ASSUME IInv, NEW t \in Task,
         call' = [call EXCEPT ![t] = ByteDone(t)],
         raced' = (raced \ {t}) \cup Overtaken(t),
         call[t].op = "send" => rx' = rx,
         call[t].op = "get" => tx' = tx,
         call[t].op # "none"
  PROVE  call' \in [Task -> Calls] /\ raced' \subseteq Task /\ TestHolds'
<1> USE DEF IInv
<1>1. ByteDone(t) \in Calls /\ ~ByteDone(t).ready
  BY ByteDoneType
<1>2. call' \in [Task -> Calls] /\ raced' \subseteq Task
  <2>1. call \in [Task -> Calls] /\ raced \subseteq Task /\ Overtaken(t) \subseteq Task
    BY DEF TypeOK, Overtaken
  <2> QED
    BY <1>1, <2>1
<1>3. ASSUME NEW s \in Task, call'[s].ready
      PROVE  /\ call'[s].op # "none"
             /\ s \notin raced' =>
                  IF call'[s].op = "send" THEN Len(tx') < Depth ELSE rx' # <<>>
  <2>1. s # t /\ call'[s] = call[s]
    BY <1>1, <1>3 DEF TypeOK
  <2>2. call[s].op # "none" /\ (s \notin raced => LineStatus(call[s].op))
    BY <1>3, <2>1 DEF TestHolds
  <2>3. s \notin raced' => call[s].op # call[t].op /\ s \notin raced
    BY <1>3, <2>1 DEF Overtaken
  <2>4. call[t].op \in {"send", "get"} /\ call[s].op \in {"send", "get"}
    BY <2>2 DEF TypeOK, Calls
  <2>5. s \notin raced' => IF call'[s].op = "send" THEN Len(tx') < Depth ELSE rx' # <<>>
    BY <2>1, <2>2, <2>3, <2>4 DEF LineStatus
  <2> QED
    BY <2>1, <2>2, <2>5
<1>4. TestHolds'
  BY <1>3 DEF TestHolds, LineStatus
<1> QED
  BY <1>2, <1>4

(* A write: the transmit queue was full only if this task was overtaken.   *)
LEMMA WriteInv ==
  ASSUME IInv, NEW t \in Task, WriteByte(t)
  PROVE  IInv'
<1> USE DEF IInv
<1>1. call' \in [Task -> Calls] /\ raced' \subseteq Task /\ TestHolds'
  BY AccessInv DEF WriteByte
<1>2. \/ lost' = lost
      \/ lost' = lost \cup {<<t, call[t].next, TRUE>>}
  <2>1. Len(tx) >= Depth => t \in raced
    <3>1. t \notin raced => Len(tx) < Depth
      BY DEF TestHolds, LineStatus, WriteByte
    <3>2. Len(tx) \in Nat /\ Depth \in Nat
      BY UartAssumption DEF UartAssumption, TypeOK
    <3> QED
      BY <3>1, <3>2
  <2> QED
    BY <2>1 DEF WriteByte
<1>3. TypeOK'
  <2>1. call[t].next \in Int
    BY DEF TypeOK, Calls
  <2>2. tx' \in Seq(Task \X Int)
    <3>1. tx \in Seq(Task \X Int)
      BY DEF TypeOK
    <3>2. Append(tx, <<t, call[t].next>>) \in Seq(Task \X Int)
      BY <2>1, <3>1
    <3> QED
      BY <3>1, <3>2 DEF WriteByte
  <2>3. lost' \subseteq Task \X Int \X BOOLEAN
    <3>1. TRUE \in BOOLEAN
      OBVIOUS
    <3>2. <<t, call[t].next, TRUE>> \in Task \X Int \X BOOLEAN
      BY <2>1, <3>1
    <3> QED
      BY <1>2, <3>2 DEF TypeOK
  <2> QED
    BY <1>1, <2>2, <2>3 DEF TypeOK, WriteByte
<1>4. OnlyRacesHurt'
  <2>1. <<t, call[t].next, TRUE>>[3] = TRUE
    OBVIOUS
  <2> QED
    BY <1>2, <2>1 DEF OnlyRacesHurt, WriteByte
<1> QED
  BY <1>1, <1>3, <1>4

(* A read: in the same way, with the receive queue.                        *)
LEMMA ReadInv ==
  ASSUME IInv, NEW t \in Task, ReadByte(t)
  PROVE  IInv'
<1> USE DEF IInv
<1>1. call' \in [Task -> Calls] /\ raced' \subseteq Task /\ TestHolds'
  BY AccessInv DEF ReadByte
<1>2. TypeOK'
  <2>1. rx' \in Seq(Nat)
    <3>1. rx \in Seq(Nat) /\ (rx # <<>> => Tail(rx) \in Seq(Nat))
      BY DEF TypeOK
    <3> QED
      BY <3>1 DEF ReadByte
  <2>2. junk' \subseteq BOOLEAN
    <3>1. (t \in raced) \in BOOLEAN
      OBVIOUS
    <3> QED
      BY <3>1 DEF TypeOK, ReadByte
  <2> QED
    BY <1>1, <2>1, <2>2 DEF TypeOK, ReadByte
<1>3. OnlyRacesHurt'
  <2>1. rx = <<>> => t \in raced
    BY DEF TestHolds, LineStatus, ReadByte
  <2>2. junk' = junk \/ junk' = junk \cup {TRUE}
    BY <2>1 DEF ReadByte
  <2> QED
    BY <2>2 DEF OnlyRacesHurt, ReadByte
<1> QED
  BY <1>1, <1>2, <1>3

(* A kill: the victim has no call any more.                                *)
LEMMA KillInv ==
  ASSUME IInv, NEW t \in Task, Kill(t)
  PROVE  IInv'
<1> USE DEF IInv
<1>1. call' = [call EXCEPT ![t] = NoCall] /\ raced' = raced \ {t} /\ tx' = tx /\ rx' = rx
  BY DEF Kill
<1>2. NoCall \in Calls /\ ~NoCall.ready
  BY DEF NoCall, Calls
<1>3. TypeOK'
  <2>1. run_queue' \in Seq(Task)
    <3>1. PICK i \in 2..Len(run_queue) : run_queue' = RemoveAt(run_queue, i)
      BY DEF Kill
    <3> QED
      BY <3>1, RemoveAtType DEF TypeOK
  <2> QED
    BY <1>1, <1>2, <2>1 DEF TypeOK, Kill
<1>4. TestHolds'
  BY <1>1, <1>2 DEF TypeOK, TestHolds, LineStatus
<1>5. OnlyRacesHurt'
  BY DEF OnlyRacesHurt, Kill
<1> QED
  BY <1>3, <1>4, <1>5

(* The device only makes room and brings input.                            *)
LEMMA DeviceInv ==
  ASSUME IInv, Transmit \/ Receive
  PROVE  IInv'
<1> USE DEF IInv
<1>1. CASE Transmit
  <2>1. Head(tx) \in Task \X Int /\ Tail(tx) \in Seq(Task \X Int) /\ Len(Tail(tx)) < Len(tx)
    BY <1>1 DEF TypeOK, Transmit
  <2>2. TypeOK'
    <3>1. \A t \in Task, n \in Int : Append(sent[t], n) \in Seq(Int)
      BY DEF TypeOK
    <3>2. sent' \in [Task -> Seq(Int)]
      BY <1>1, <2>1, <3>1 DEF TypeOK, Transmit
    <3> QED
      BY <1>1, <2>1, <3>2 DEF TypeOK, Transmit
  <2>3. TestHolds'
    <3>1. call' = call /\ raced' = raced /\ rx' = rx /\ Len(tx') < Len(tx)
      BY <1>1, <2>1 DEF Transmit
    <3>2. Len(tx) \in Nat /\ Len(tx') \in Nat /\ Depth \in Nat
      BY <1>1, <2>1, UartAssumption DEF TypeOK, Transmit, UartAssumption
    <3>3. Len(tx) < Depth => Len(tx') < Depth
      BY <3>1, <3>2
    <3> QED
      BY <3>1, <3>3 DEF TestHolds, LineStatus
  <2> QED
    BY <1>1, <2>2, <2>3 DEF OnlyRacesHurt, Transmit
<1>2. CASE Receive
  <2>1. rx' \in Seq(Nat) /\ (rx # <<>> => rx' # <<>>)
    <3>1. rx \in Seq(Nat) /\ input + 1 \in Nat
      BY DEF TypeOK
    <3>2. Append(rx, input + 1) \in Seq(Nat) /\ Append(rx, input + 1) # <<>>
      BY <3>1
    <3> QED
      BY <1>2, <3>1, <3>2 DEF Receive
  <2>2. TypeOK'
    BY <1>2, <2>1 DEF TypeOK, Receive
  <2>3. TestHolds'
    BY <1>2, <2>1 DEF TestHolds, LineStatus, Receive
  <2> QED
    BY <1>2, <2>2, <2>3 DEF OnlyRacesHurt, Receive
<1> QED
  BY <1>1, <1>2

(* A preemption moves the running task and nothing else.                   *)
LEMMA PreemptInv ==
  ASSUME IInv, Preempt
  PROVE  IInv'
<1>1. run_queue' \in Seq(Task)
  BY DEF IInv, TypeOK, Preempt
<1> QED
  BY <1>1 DEF IInv, TypeOK, TestHolds, LineStatus, OnlyRacesHurt, Preempt

(* Every step preserves the invariant.                                     *)
LEMMA NextInv == IInv /\ [Next]_vars => IInv'
<1> SUFFICES ASSUME IInv, [Next]_vars PROVE IInv'
  OBVIOUS
<1>1. ASSUME NEW t \in Task, NEW op \in {"send", "get"}, NEW masked \in BOOLEAN,
             Call(t, op, masked)
      PROVE  IInv'
  BY <1>1, CallInv
<1>2. ASSUME NEW t \in Task, Send(t) PROVE IInv'
  BY <1>2, TestInv, WriteInv DEF Send
<1>3. ASSUME NEW t \in Task, Get(t) PROVE IInv'
  BY <1>3, TestInv, ReadInv DEF Get
<1>4. ASSUME NEW t \in Task, Kill(t) PROVE IInv'
  BY <1>4, KillInv
<1>5. CASE Preempt
  BY <1>5, PreemptInv
<1>6. CASE Transmit \/ Receive
  BY <1>6, DeviceInv
<1>7. CASE UNCHANGED vars
  BY <1>7 DEF vars, IInv, TypeOK, TestHolds, LineStatus, OnlyRacesHurt
<1> QED
  BY <1>1, <1>2, <1>3, <1>4, <1>5, <1>6, <1>7 DEF Next

(* The invariant holds in every state.                                     *)
THEOREM Invariance == Spec => []IInv
  BY InitInv, NextInv, PTL DEF Spec

(* Every variable keeps its type.                                          *)
THEOREM TypeCorrect == Spec => []TypeOK
<1>1. IInv => TypeOK
  BY DEF IInv
<1> QED
  BY <1>1, Invariance, PTL

(* The test of the line status (uart.c:35, 43) protects every access that  *)
(* no other task has overtaken, for any tasks and any depth of the queues. *)
THEOREM RacesOnly == Spec => []OnlyRacesHurt
<1>1. IInv => OnlyRacesHurt
  BY DEF IInv
<1> QED
  BY <1>1, Invariance, PTL

-----------------------------------------------------------------------------
(* The bytes of a task.                                                    *)

(* The first done bytes of a task have been written.  A call that sends    *)
(* goes on with the next one, a task that is in no such call has written   *)
(* all of them, unless it was killed.                                      *)
Progress(t, done) ==
  /\ done \in 0..issued[t]
  /\ Sent(t) \cup Waiting(t) \cup Missing(t) = 1..done
  /\ call[t].op = "send" =>
       call[t].next = done + 1 /\ call[t].last = issued[t] /\ done < issued[t]
  /\ t \in ToSet(run_queue) /\ call[t].op # "send" => done = issued[t]

Bytes ==
  /\ IsInjective(run_queue)
  /\ \A t \in Task :
       /\ InOrder(t)
       /\ Missing(t) \cap (Sent(t) \cup Waiting(t)) = {}
       /\ \E done \in Nat : Progress(t, done)

(* What waits in the queue of the device, by its positions.                *)
LEMMA WaitingAt ==
  ASSUME TypeOK
  PROVE  /\ DOMAIN tx = 1..Len(tx) /\ Len(tx) \in Nat
         /\ \A i \in 1..Len(tx) : tx[i] \in Task \X Int
         /\ \A t, n : n \in Waiting(t) <=> \E i \in 1..Len(tx) : tx[i][1] = t /\ tx[i][2] = n
<1>1. /\ DOMAIN tx = 1..Len(tx) /\ Len(tx) \in Nat
      /\ \A i \in 1..Len(tx) : tx[i] \in Task \X Int
  BY DEF TypeOK
<1> QED
  BY <1>1 DEF Waiting, ToSet

(* The numbers of bytes are numbers.                                       *)
LEMMA PlacesType ==
  ASSUME TypeOK, NEW t \in Task
  PROVE  Sent(t) \subseteq Int /\ Waiting(t) \subseteq Int /\ Missing(t) \subseteq Int
<1>1. sent[t] \in Seq(Int) /\ lost \subseteq Task \X Int \X BOOLEAN
  BY DEF TypeOK
<1>2. Sent(t) \subseteq Int /\ Missing(t) \subseteq Int
  BY <1>1 DEF Sent, Missing, ToSet
<1> QED
  BY <1>2, WaitingAt

(* A step that moves no byte.                                              *)
LEMMA NoByteMoves ==
  ASSUME Bytes, UNCHANGED <<sent, tx, lost>>, IsInjective(run_queue)',
         \A t \in Task, done \in Nat :
           Progress(t, done) =>
             /\ done \in 0..issued'[t]
             /\ call'[t].op = "send" =>
                  call'[t].next = done + 1 /\ call'[t].last = issued'[t] /\ done < issued'[t]
             /\ t \in ToSet(run_queue') /\ call'[t].op # "send" => done = issued'[t]
  PROVE  Bytes'
<1>1. \A t \in Task : Sent(t)' = Sent(t) /\ Waiting(t)' = Waiting(t) /\ Missing(t)' = Missing(t)
  BY DEF Sent, Waiting, Missing
<1>2. \A t \in Task : InOrder(t)'
  BY <1>1 DEF Bytes, InOrder
<1>3. \A t \in Task : \E done \in Nat : Progress(t, done)'
  BY <1>1 DEF Bytes, Progress
<1> QED
  BY <1>1, <1>2, <1>3 DEF Bytes

(* No call has begun, and nothing is written.                              *)
LEMMA InitBytes == Init => Bytes
<1> SUFFICES ASSUME Init PROVE Bytes
  OBVIOUS
<1>1. IsInjective(run_queue)
  <2> DEFINE N == Cardinality(Task)
  <2>1. run_queue \in [1..N -> Task] /\ ToSet(run_queue) = Task /\ N \in Nat
    BY UartAssumption, FS_CardinalityType DEF Init, UartAssumption
  <2>2. IsFiniteSet(1..N) /\ Cardinality(1..N) = N
    BY <2>1, FS_Interval
  <2>3. run_queue \in Surjection(1..N, Task)
    BY <2>1 DEF Surjection, ToSet
  <2>4. run_queue \in Injection(1..N, Task)
    BY <2>2, <2>3, FS_SurjSameCardinalityImpliesInj
  <2> QED
    BY <2>4 DEF Injection
<1>2. \A t \in Task : Sent(t) = {} /\ Waiting(t) = {} /\ Missing(t) = {}
  BY DEF Init, Sent, Waiting, Missing, ToSet
<1>3. \A t \in Task : InOrder(t)
  BY <1>2 DEF Init, InOrder
<1>4. \A t \in Task : Progress(t, 0)
  BY <1>2 DEF Init, Progress, NoCall
<1> QED
  BY <1>1, <1>2, <1>3, <1>4 DEF Bytes

(* A new call begins after the last byte of the one before.                *)
LEMMA CallBytes ==
  ASSUME TypeOK, Bytes, NEW t \in Task, NEW op \in {"send", "get"}, NEW masked \in BOOLEAN,
         Call(t, op, masked)
  PROVE  Bytes'
<1>1. PICK n \in 1..MaxBuffer :
        /\ issued' = [issued EXCEPT ![t] = IF op = "send" THEN @ + n ELSE @]
        /\ call' = [call EXCEPT ![t] =
                      [op |-> op, masked |-> masked, next |-> issued[t] + 1,
                       last |-> issued[t] + n, ready |-> FALSE]]
  BY DEF Call
<1>2. call \in [Task -> Calls] /\ issued \in [Task -> Nat] /\ n \in Nat \ {0}
  BY DEF TypeOK
<1>3. t \in ToSet(run_queue) /\ call[t].op = "none"
  <2>1. run_queue \in Seq(Task) /\ run_queue # <<>> /\ run_queue[1] = t /\ call[t].op = "none"
    BY DEF TypeOK, Call, Running
  <2>2. 1 \in DOMAIN run_queue
    BY <2>1
  <2> QED
    BY <2>1, <2>2 DEF ToSet
<1>4. ASSUME NEW s \in Task, NEW done \in Nat, Progress(s, done)
      PROVE  /\ done \in 0..issued'[s]
             /\ call'[s].op = "send" =>
                  call'[s].next = done + 1 /\ call'[s].last = issued'[s] /\ done < issued'[s]
             /\ s \in ToSet(run_queue') /\ call'[s].op # "send" => done = issued'[s]
  <2>1. CASE s = t
    <3>1. done = issued[t]
      BY <1>3, <1>4, <2>1 DEF Progress
    <3>2. /\ issued'[t] = IF op = "send" THEN issued[t] + n ELSE issued[t]
          /\ call'[t].op = op /\ call'[t].next = issued[t] + 1 /\ call'[t].last = issued[t] + n
      BY <1>1, <1>2
    <3>3. issued[t] \in Nat
      BY <1>2
    <3> QED
      BY <1>2, <2>1, <3>1, <3>2, <3>3
  <2>2. CASE s # t
    <3>1. issued'[s] = issued[s] /\ call'[s] = call[s] /\ run_queue' = run_queue
      BY <1>1, <1>2, <2>2 DEF Call
    <3> QED
      BY <1>4, <3>1 DEF Progress
  <2> QED
    BY <2>1, <2>2
<1>5. UNCHANGED <<sent, tx, lost>> /\ IsInjective(run_queue)'
  BY DEF Call, Bytes
<1> QED
  BY <1>4, <1>5, NoByteMoves

(* The test of the line status.                                            *)
LEMMA TestBytes ==
  ASSUME TypeOK, Bytes, NEW t \in Task, NEW op \in {"send", "get"}, TestOf(t, op)
  PROVE  Bytes'
<1>1. ASSUME NEW s \in Task
      PROVE  /\ call'[s].op = call[s].op /\ call'[s].next = call[s].next
             /\ call'[s].last = call[s].last
  <2>1. call \in [Task -> Calls] /\ call' = [call EXCEPT ![t].ready = TRUE]
    BY DEF TypeOK, TestOf
  <2> QED
    BY <2>1 DEF Calls
<1>2. UNCHANGED <<sent, tx, lost, issued, run_queue>>
  BY DEF TestOf
<1> QED
  BY <1>1, <1>2, NoByteMoves DEF Progress, Bytes

(* A byte that is read is none that is written.                            *)
LEMMA ReadBytes ==
  ASSUME TypeOK, Bytes, NEW t \in Task, ReadByte(t)
  PROVE  Bytes'
<1>1. call \in [Task -> Calls] /\ call' = [call EXCEPT ![t] = ByteDone(t)] /\ call[t].op = "get"
  BY DEF TypeOK, ReadByte
<1>2. ByteDone(t).op # "send"
  BY <1>1 DEF ByteDone, NoCall, Calls
<1>3. ASSUME NEW s \in Task
      PROVE  call'[s] = call[s] \/ (call[s].op # "send" /\ call'[s].op # "send")
  BY <1>1, <1>2
<1>4. UNCHANGED <<sent, tx, lost, issued, run_queue>>
  BY DEF ReadByte
<1> QED
  BY <1>3, <1>4, NoByteMoves DEF Progress, Bytes

(* A preemption moves no task out of the queue, a kill only the victim.    *)
LEMMA QueueBytes ==
  ASSUME TypeOK, Bytes, Preempt \/ \E t \in Task : Kill(t)
  PROVE  Bytes'
<1>1. run_queue \in Seq(Task) /\ IsInjective(run_queue) /\ call \in [Task -> Calls]
  BY DEF TypeOK, Bytes
<1>2. \A f : ToSet(f) = Range(f)
  BY DEF ToSet, Range
<1>3. CASE Preempt
  <2>1. run_queue # <<>> /\ run_queue' = Append(Tail(run_queue), Head(run_queue))
    BY <1>1, <1>3 DEF Preempt
  <2>2. IsInjective(run_queue') /\ ToSet(run_queue') = ToSet(run_queue)
    BY <1>1, <1>2, <2>1, Rotate
  <2>3. UNCHANGED <<sent, tx, lost, issued, call>>
    BY <1>3 DEF Preempt
  <2> QED
    BY <2>2, <2>3, NoByteMoves DEF Progress
<1>4. ASSUME NEW t \in Task, Kill(t) PROVE Bytes'
  <2>1. PICK i \in 2..Len(run_queue) : run_queue[i] = t /\ run_queue' = RemoveAt(run_queue, i)
    BY <1>4 DEF Kill
  <2>2. IsInjective(run_queue') /\ ToSet(run_queue') = ToSet(run_queue) \ {t}
    BY <1>1, <1>2, <2>1, TakeOut
  <2>3. UNCHANGED <<sent, tx, lost, issued>> /\ call' = [call EXCEPT ![t] = NoCall]
    BY <1>4 DEF Kill
  <2>4. call'[t].op # "send" /\ \A s \in Task \ {t} : call'[s] = call[s]
    BY <1>1, <2>3 DEF NoCall
  <2> QED
    BY <2>2, <2>3, <2>4, NoByteMoves DEF Progress
<1> QED
  BY <1>3, <1>4

(* What one more written byte does to a call that sends: either it was the *)
(* last one, or the call goes on with the next.                            *)
LEMMA NextByte ==
  ASSUME TypeOK, NEW t \in Task, NEW done \in Nat, Progress(t, done), call[t].op = "send"
  PROVE  /\ done + 1 \in 0..issued[t]
         /\ call[t].next = done + 1
         /\ ByteDone(t).op = "send" =>
              /\ ByteDone(t).next = (done + 1) + 1 /\ ByteDone(t).last = issued[t]
              /\ done + 1 < issued[t]
         /\ ByteDone(t).op # "send" => done + 1 = issued[t]
<1>1. call[t] \in Calls /\ issued[t] \in Nat
  BY DEF TypeOK
<1>2. call[t].next = done + 1 /\ call[t].last = issued[t] /\ done < issued[t]
  BY DEF Progress
<1>3. CASE call[t].next = call[t].last
  BY <1>1, <1>2, <1>3 DEF ByteDone, NoCall
<1>4. CASE call[t].next # call[t].last
  <2>1. /\ ByteDone(t).op = "send" /\ ByteDone(t).next = call[t].next + 1
        /\ ByteDone(t).last = call[t].last
    BY <1>1, <1>4 DEF ByteDone, Calls
  <2> QED
    BY <1>1, <1>2, <1>4, <2>1
<1> QED
  BY <1>3, <1>4

(* A byte that is written comes behind all others of its task.             *)
LEMMA AppendByte ==
  ASSUME TypeOK, NEW t \in Task, NEW k \in Int, tx' = Append(tx, <<t, k>>),
         \A s \in Task : InOrder(s), sent' = sent,
         \A n \in Sent(t) \cup Waiting(t) : n < k
  PROVE  /\ Waiting(t)' = Waiting(t) \cup {k}
         /\ \A s \in Task \ {t} : Waiting(s)' = Waiting(s)
         /\ \A s \in Task : InOrder(s)'
<1>1. /\ DOMAIN tx = 1..Len(tx) /\ Len(tx) \in Nat
      /\ \A i \in 1..Len(tx) : tx[i] \in Task \X Int
      /\ \A s, n : n \in Waiting(s) <=> \E i \in 1..Len(tx) : tx[i][1] = s /\ tx[i][2] = n
  BY WaitingAt
<1>2. /\ DOMAIN tx' = 1..(Len(tx) + 1)
      /\ \A i \in 1..Len(tx) : tx'[i] = tx[i]
      /\ tx'[Len(tx) + 1] = <<t, k>>
  <2>1. tx \in Seq(Task \X Int)
    BY DEF TypeOK
  <2> QED
    BY <2>1
<1>3. \A i \in 1..(Len(tx) + 1) : i \in 1..Len(tx) \/ i = Len(tx) + 1
  BY <1>1
<1>4. ToSet(tx') = ToSet(tx) \cup {<<t, k>>}
  <2> DEFINE b == <<t, k>>
  <2>1. tx \in Seq(Task \X Int) /\ b \in Task \X Int /\ tx' = Append(tx, b)
    BY DEF TypeOK
  <2> HIDE DEF b
  <2>2. ToSet(tx') = ToSet(tx) \cup {b}
    BY <2>1, AppendSet
  <2> QED
    BY <2>2 DEF b
<1>5. \A s, n : n \in Waiting(s)' <=> n \in Waiting(s) \/ (s = t /\ n = k)
  <2> DEFINE b == <<t, k>>
  <2>1. b[1] = t /\ b[2] = k
    OBVIOUS
  <2>2. ToSet(tx') = ToSet(tx) \cup {b}
    BY <1>4
  <2> HIDE DEF b
  <2> QED
    BY <2>1, <2>2 DEF Waiting
<1>6. ASSUME NEW s \in Task PROVE InOrder(s)'
  <2>1. Sent(s)' = Sent(s)
    BY DEF Sent
  <2>2. ASSUME NEW i \in 1..(Len(tx) + 1), NEW j \in 1..(Len(tx) + 1), i < j,
               tx'[i][1] = s, tx'[j][1] = s
        PROVE  tx'[i][2] < tx'[j][2]
    <3>1. i \in 1..Len(tx) /\ tx'[i] = tx[i]
      BY <1>1, <1>2, <2>2
    <3>2. CASE j \in 1..Len(tx)
      <4>1. tx'[j] = tx[j] /\ i \in DOMAIN tx /\ j \in DOMAIN tx
        BY <1>1, <1>2, <3>1, <3>2
      <4> QED
        BY <2>2, <3>1, <4>1 DEF InOrder
    <3>3. CASE j = Len(tx) + 1
      <4>1. s = t /\ tx'[j][2] = k
        BY <1>2, <2>2, <3>3
      <4>2. tx[i][2] \in Waiting(t)
        BY <1>1, <2>2, <3>1, <4>1
      <4> QED
        BY <3>1, <4>1, <4>2
    <3> QED
      BY <1>3, <3>2, <3>3
  <2>3. \A m \in Sent(s), n \in Waiting(s)' : m < n
    BY <1>5 DEF InOrder
  <2> QED
    BY <1>2, <2>1, <2>2, <2>3 DEF InOrder
<1>7. Waiting(t)' = Waiting(t) \cup {k}
  <2>1. \A n : n \in Waiting(t)' <=> n \in Waiting(t) \cup {k}
    BY <1>5
  <2> QED
    BY <2>1
<1>8. ASSUME NEW s \in Task \ {t} PROVE Waiting(s)' = Waiting(s)
  <2>1. \A n : n \in Waiting(s)' <=> n \in Waiting(s)
    BY <1>5
  <2> QED
    BY <2>1
<1> QED
  BY <1>6, <1>7, <1>8

(* A write, whether the byte finds room or not.                            *)
LEMMA WriteBytes ==
  ASSUME TypeOK, Bytes, NEW t \in Task, WriteByte(t)
  PROVE  Bytes'
<1> DEFINE k == call[t].next
<1>1. /\ call \in [Task -> Calls] /\ call' = [call EXCEPT ![t] = ByteDone(t)]
      /\ call[t].op = "send" /\ UNCHANGED <<run_queue, sent, issued>>
  BY DEF TypeOK, WriteByte
<1>2. PICK done \in Nat : Progress(t, done)
  BY DEF Bytes
<1>3. k = done + 1 /\ k \in Int
  BY <1>1, <1>2, NextByte
<1>4. /\ Sent(t) \cup Waiting(t) \cup Missing(t) = 1..done
      /\ Missing(t) \cap (Sent(t) \cup Waiting(t)) = {}
      /\ \A s \in Task : InOrder(s)
  BY <1>2 DEF Progress, Bytes
<1>5. \A n \in Sent(t) \cup Waiting(t) \cup Missing(t) : n < k
  BY <1>3, <1>4
<1>6. \A s \in Task : Sent(s)' = Sent(s)
  BY <1>1 DEF Sent
<1> HIDE DEF k
<1>7. /\ \A s \in Task : InOrder(s)'
      /\ \A s \in Task \ {t} : Waiting(s)' = Waiting(s) /\ Missing(s)' = Missing(s)
      /\ \/ Waiting(t)' = Waiting(t) \cup {k} /\ Missing(t)' = Missing(t)
         \/ Waiting(t)' = Waiting(t) /\ Missing(t)' = Missing(t) \cup {k}
  <2>1. CASE tx' = Append(tx, <<t, k>>) /\ lost' = lost
    <3>1. \A s \in Task : Missing(s)' = Missing(s)
      BY <2>1 DEF Missing
    <3> QED
      BY <1>1, <1>3, <1>4, <1>5, <2>1, <3>1, AppendByte
  <2>2. CASE tx' = tx /\ lost' = lost \cup {<<t, k, t \in raced>>}
    <3>1. \A s \in Task : Waiting(s)' = Waiting(s)
      BY <2>2 DEF Waiting
    <3>2. \A s \in Task : InOrder(s)'
      BY <1>1, <1>4, <1>6, <2>2, <3>1 DEF InOrder
    <3> DEFINE l == <<t, k, t \in raced>>
    <3>3. l[1] = t /\ l[2] = k
      OBVIOUS
    <3> HIDE DEF l
    <3>4. lost' = lost \cup {l}
      BY <2>2 DEF l
    <3>5. /\ \A s \in Task \ {t} : Missing(s)' = Missing(s)
          /\ Missing(t)' = Missing(t) \cup {k}
      BY <3>3, <3>4 DEF Missing
    <3> QED
      BY <3>1, <3>2, <3>5
  <2> QED
    BY <2>1, <2>2 DEF WriteByte, k
<1>8. Sent(t)' \cup Waiting(t)' \cup Missing(t)' = 1..(done + 1)
  <2>1. 1..(done + 1) = 1..done \cup {k}
    BY <1>3
  <2> QED
    BY <1>4, <1>6, <1>7, <2>1
<1>9. Missing(t)' \cap (Sent(t)' \cup Waiting(t)') = {}
  <2>1. k \notin Sent(t) \cup Waiting(t) \cup Missing(t)
    BY <1>3, <1>5
  <2> QED
    BY <1>4, <1>6, <1>7, <2>1
<1>10. Progress(t, done + 1)'
  <2>1. call'[t] = ByteDone(t)
    BY <1>1
  <2> QED
    BY <1>1, <1>2, <1>8, <2>1, NextByte DEF Progress
<1>11. ASSUME NEW s \in Task \ {t}
       PROVE  /\ Missing(s)' \cap (Sent(s)' \cup Waiting(s)') = {}
              /\ \E d \in Nat : Progress(s, d)'
  <2>1. call'[s] = call[s]
    BY <1>1
  <2> QED
    BY <1>1, <1>6, <1>7, <2>1 DEF Bytes, Progress
<1>12. \E d \in Nat : Progress(t, d)'
  BY <1>10
<1> QED
  BY <1>1, <1>7, <1>9, <1>11, <1>12 DEF Bytes

(* The byte that the device sends is the first of its task in the queue.   *)
LEMMA TakeByte ==
  ASSUME TypeOK, tx # <<>>, NEW t \in Task, NEW k \in Int, Head(tx) = <<t, k>>,
         tx' = Tail(tx), \A s \in Task : InOrder(s)
  PROVE  /\ k \in Waiting(t)
         /\ Waiting(t)' = Waiting(t) \ {k}
         /\ \A n \in Waiting(t)' : k < n
         /\ \A s \in Task \ {t} : Waiting(s)' = Waiting(s)
         /\ \A s \in Task, i, j \in DOMAIN tx' :
              i < j /\ tx'[i][1] = s /\ tx'[j][1] = s => tx'[i][2] < tx'[j][2]
<1>1. /\ DOMAIN tx = 1..Len(tx) /\ Len(tx) \in Nat \ {0}
      /\ \A i \in 1..Len(tx) : tx[i] \in Task \X Int
      /\ \A s, n : n \in Waiting(s) <=> \E i \in 1..Len(tx) : tx[i][1] = s /\ tx[i][2] = n
  <2>1. tx \in Seq(Task \X Int)
    BY DEF TypeOK
  <2>2. Len(tx) \in Nat \ {0}
    BY <2>1
  <2> QED
    BY <2>2, WaitingAt
<1>2. /\ DOMAIN tx' = 1..(Len(tx) - 1)
      /\ \A i \in 1..(Len(tx) - 1) : tx'[i] = tx[i + 1] /\ i + 1 \in 1..Len(tx)
      /\ tx[1][1] = t /\ tx[1][2] = k /\ 1 \in 1..Len(tx)
  <2>1. tx \in Seq(Task \X Int)
    BY DEF TypeOK
  <2>2. Len(Tail(tx)) = Len(tx) - 1 /\ Tail(tx) \in Seq(Task \X Int) /\ Head(tx) = tx[1]
    BY <2>1
  <2>3. \A i \in 1..(Len(tx) - 1) : Tail(tx)[i] = tx[i + 1] /\ i + 1 \in 1..Len(tx)
    BY <2>1
  <2> QED
    BY <1>1, <2>2, <2>3
<1>3. k \in Waiting(t)
  BY <1>1, <1>2
<1>4. \A s, n : n \in Waiting(s)' <=> \E i \in 1..(Len(tx) - 1) : tx'[i][1] = s /\ tx'[i][2] = n
  <2>1. DOMAIN tx' = 1..(Len(tx) - 1)
    BY <1>2
  <2>2. \A b : b \in ToSet(tx') <=> \E i \in 1..(Len(tx) - 1) : tx'[i] = b
    BY <2>1, SetOf
  <2>3. \A s, n : n \in Waiting(s)' <=> \E b \in ToSet(tx') : b[1] = s /\ b[2] = n
    BY DEF Waiting
  <2> QED
    BY <2>2, <2>3
<1>5. \A s, n : n \in Waiting(s)' <=> \E i \in 2..Len(tx) : tx[i][1] = s /\ tx[i][2] = n
  <2> TAKE s, n
  <2>1. ASSUME NEW i \in 2..Len(tx), tx[i][1] = s, tx[i][2] = n PROVE n \in Waiting(s)'
    <3>1. i - 1 \in 1..(Len(tx) - 1) /\ tx'[i - 1] = tx[i]
      BY <1>1, <1>2
    <3> QED
      BY <1>4, <2>1, <3>1
  <2>2. ASSUME n \in Waiting(s)' PROVE \E i \in 2..Len(tx) : tx[i][1] = s /\ tx[i][2] = n
    <3>1. PICK i \in 1..(Len(tx) - 1) : tx'[i][1] = s /\ tx'[i][2] = n
      BY <1>4, <2>2
    <3>2. i + 1 \in 2..Len(tx) /\ tx[i + 1][1] = s /\ tx[i + 1][2] = n
      BY <1>1, <1>2, <3>1
    <3> QED
      BY <3>2
  <2> QED
    BY <2>1, <2>2
<1>6. \A s, n : n \in Waiting(s) <=> n \in Waiting(s)' \/ (s = t /\ n = k)
  <2>1. \A i \in 1..Len(tx) : i = 1 \/ i \in 2..Len(tx)
    BY <1>1
  <2>2. \A i \in 2..Len(tx) : i \in 1..Len(tx)
    BY <1>1
  <2> QED
    BY <1>1, <1>2, <1>5, <2>1, <2>2
<1>7. ASSUME NEW n \in Waiting(t)' PROVE k < n
  <2>1. PICK i \in 2..Len(tx) : tx[i][1] = t /\ tx[i][2] = n
    BY <1>5
  <2>2. i \in DOMAIN tx /\ 1 \in DOMAIN tx /\ 1 < i
    BY <1>1
  <2> QED
    BY <1>2, <1>3, <2>1, <2>2 DEF InOrder
<1>8. Waiting(t)' = Waiting(t) \ {k}
  <2>1. k \notin Waiting(t)'
    BY <1>3, <1>7
  <2>2. \A n : n \in Waiting(t)' <=> n \in Waiting(t) \ {k}
    BY <1>6, <2>1
  <2> QED
    BY <2>2
<1>9. ASSUME NEW s \in Task \ {t} PROVE Waiting(s)' = Waiting(s)
  <2>1. \A n : n \in Waiting(s)' <=> n \in Waiting(s)
    BY <1>6
  <2> QED
    BY <2>1
<1>10. ASSUME NEW s \in Task, NEW i \in DOMAIN tx', NEW j \in DOMAIN tx',
              i < j, tx'[i][1] = s, tx'[j][1] = s
       PROVE  tx'[i][2] < tx'[j][2]
  <2>1. i + 1 \in DOMAIN tx /\ j + 1 \in DOMAIN tx /\ i + 1 < j + 1
    BY <1>1, <1>2, <1>10
  <2>2. tx'[i] = tx[i + 1] /\ tx'[j] = tx[j + 1]
    BY <1>2
  <2> QED
    BY <1>10, <2>1, <2>2 DEF InOrder
<1> QED
  BY <1>3, <1>7, <1>8, <1>9, <1>10

(* The device sends a byte: the task has one more sent and one less        *)
(* waiting, in the same order.                                             *)
LEMMA TransmitBytes ==
  ASSUME TypeOK, Bytes, Transmit
  PROVE  Bytes'
<1>1. \E t \in Task, k \in Int : Head(tx) = <<t, k>>
  <2>1. tx \in Seq(Task \X Int) /\ tx # <<>>
    BY DEF TypeOK, Transmit
  <2>2. Head(tx) \in Task \X Int
    BY <2>1
  <2> QED
    BY <2>2
<1>2. PICK t \in Task, k \in Int : Head(tx) = <<t, k>>
  BY <1>1
<1>3. /\ sent' = [sent EXCEPT ![t] = Append(@, k)] /\ tx # <<>> /\ tx' = Tail(tx)
      /\ UNCHANGED <<run_queue, call, issued, lost>>
  <2>1. Head(tx)[1] = t /\ Head(tx)[2] = k
    BY <1>2
  <2>2. sent' = [sent EXCEPT ![Head(tx)[1]] = Append(@, Head(tx)[2])]
    BY DEF Transmit
  <2>3. sent' = [sent EXCEPT ![t] = Append(@, k)]
    BY <2>1, <2>2
  <2> QED
    BY <2>3 DEF Transmit
<1>4. \A s \in Task : InOrder(s)
  BY DEF Bytes
<1>5. /\ k \in Waiting(t)
      /\ Waiting(t)' = Waiting(t) \ {k}
      /\ \A n \in Waiting(t)' : k < n
      /\ \A s \in Task \ {t} : Waiting(s)' = Waiting(s)
      /\ \A s \in Task, i, j \in DOMAIN tx' :
           i < j /\ tx'[i][1] = s /\ tx'[j][1] = s => tx'[i][2] < tx'[j][2]
  BY <1>2, <1>3, <1>4, TakeByte
<1>6. \A s \in Task : Missing(s)' = Missing(s)
  BY <1>3 DEF Missing
<1>7. sent \in [Task -> Seq(Int)]
  BY DEF TypeOK
<1>8. \A s \in Task \ {t} : sent'[s] = sent[s] /\ Sent(s)' = Sent(s)
  BY <1>3, <1>7 DEF Sent
<1>9. sent'[t] = Append(sent[t], k) /\ sent[t] \in Seq(Int)
  BY <1>3, <1>5, <1>7
<1>10. /\ Len(sent[t]) \in Nat /\ DOMAIN sent[t] = 1..Len(sent[t])
      /\ DOMAIN sent'[t] = 1..(Len(sent[t]) + 1)
      /\ \A i \in 1..Len(sent[t]) : sent'[t][i] = sent[t][i] /\ sent[t][i] \in Sent(t)
      /\ sent'[t][Len(sent[t]) + 1] = k
  <2>1. /\ Len(sent[t]) \in Nat /\ DOMAIN sent[t] = 1..Len(sent[t])
        /\ \A i \in 1..Len(sent[t]) : sent[t][i] \in Sent(t)
    BY <1>9 DEF Sent, ToSet
  <2> QED
    BY <1>5, <1>9, <2>1
<1>11. Sent(t)' = Sent(t) \cup {k}
  BY <1>9, AppendSet DEF Sent
<1>12. \A m \in Sent(t) : m < k
  BY <1>4, <1>5 DEF InOrder
<1>13. InOrder(t)'
  <2>1. ASSUME NEW i \in 1..(Len(sent[t]) + 1), NEW j \in 1..(Len(sent[t]) + 1), i < j
        PROVE  sent'[t][i] < sent'[t][j]
    <3>1. i \in 1..Len(sent[t])
      BY <1>10, <2>1
    <3>2. CASE j \in 1..Len(sent[t])
      <4>1. sent[t][i] < sent[t][j]
        BY <1>4, <1>5, <1>10, <2>1, <3>1, <3>2 DEF InOrder
      <4> QED
        BY <1>10, <3>1, <3>2, <4>1
    <3>3. CASE j = Len(sent[t]) + 1
      BY <1>10, <1>12, <3>1, <3>3
    <3> QED
      BY <1>10, <3>2, <3>3
  <2>2. ASSUME NEW m \in Sent(t)', NEW n \in Waiting(t)' PROVE m < n
    BY <1>4, <1>5, <1>11 DEF InOrder
  <2>3. \A i, j \in DOMAIN sent'[t] : i < j => sent'[t][i] < sent'[t][j]
    BY <1>10, <2>1
  <2> QED
    BY <1>5, <2>2, <2>3 DEF InOrder
<1>14. ASSUME NEW s \in Task \ {t} PROVE InOrder(s)'
  <2>1. Sent(s)' = Sent(s) /\ Waiting(s)' = Waiting(s) /\ sent'[s] = sent[s]
    BY <1>5, <1>8
  <2> QED
    BY <1>4, <1>5, <2>1 DEF InOrder
<1>15. \A s \in Task :
         /\ Sent(s)' \cup Waiting(s)' = Sent(s) \cup Waiting(s)
         /\ Missing(s)' \cap (Sent(s)' \cup Waiting(s)') = {}
         /\ \E d \in Nat : Progress(s, d)
  BY <1>5, <1>6, <1>8, <1>11 DEF Bytes
<1>16. ASSUME NEW s \in Task PROVE \E d \in Nat : Progress(s, d)'
  <2>1. PICK d \in Nat : Progress(s, d)
    BY <1>15
  <2>2. Progress(s, d)'
    BY <1>3, <1>6, <1>15, <2>1 DEF Progress
  <2> QED
    BY <2>2
<1> QED
  BY <1>3, <1>13, <1>14, <1>15, <1>16 DEF Bytes

(* Every step keeps the bytes of every task in their places.               *)
LEMMA NextBytes == TypeOK /\ Bytes /\ [Next]_vars => Bytes'
<1> SUFFICES ASSUME TypeOK, Bytes, [Next]_vars PROVE Bytes'
  OBVIOUS
<1>1. ASSUME NEW t \in Task, NEW op \in {"send", "get"}, NEW masked \in BOOLEAN,
             Call(t, op, masked)
      PROVE  Bytes'
  BY <1>1, CallBytes
<1>2. ASSUME NEW t \in Task, Send(t) PROVE Bytes'
  BY <1>2, TestBytes, WriteBytes DEF Send
<1>3. ASSUME NEW t \in Task, Get(t) PROVE Bytes'
  BY <1>3, TestBytes, ReadBytes DEF Get
<1>4. CASE Preempt \/ \E t \in Task : Kill(t)
  BY <1>4, QueueBytes
<1>5. CASE Transmit
  BY <1>5, TransmitBytes
<1>6. CASE Receive \/ UNCHANGED vars
  <2>1. UNCHANGED <<sent, tx, lost, run_queue, call, issued>>
    BY <1>6 DEF Receive, vars
  <2> QED
    BY <2>1, NoByteMoves DEF Progress, Bytes
<1> QED
  BY <1>1, <1>2, <1>3, <1>4, <1>5, <1>6 DEF Next

(* The bytes of a task leave in the order of its buffers, each once, and   *)
(* all but those written to a full queue (uart_send, exception.c:143-147), *)
(* for any tasks, buffers and depth of the queues.                         *)
THEOREM InOrderOnce == Spec => []WrittenIsSent
<1>1. Bytes => WrittenIsSent
  BY DEF Bytes, Progress, WrittenIsSent
<1>2. Spec => []Bytes
  BY InitBytes, NextBytes, TypeCorrect, PTL DEF Spec
<1> QED
  BY <1>1, <1>2, PTL
=============================================================================
