-------------------------------- MODULE Uart --------------------------------
(***************************************************************************)
(* The polled serial line under preemption: uart_send and uart_getc of     *)
(* lib/uart.c, each a test of the line status and an access to the data    *)
(* register, in the system calls uart_read and uart_write, which run with  *)
(* interrupts enabled (lib/exception.c), and in the read and write of      *)
(* /dev/uart (lib/devfs.c), which run with interrupts masked like every    *)
(* other call.                                                             *)
(*                                                                         *)
(* The device is external: two queues of Depth bytes.  A byte that a task  *)
(* writes is its number among all bytes in the buffers of that task, a     *)
(* byte from outside its number among those.                               *)
(***************************************************************************)
EXTENDS Integers, Sequences, FiniteSets, SequencesExt

CONSTANTS
  Task,        \* the tasks of run_queue
  Depth,       \* of the queues of the device
  MaxBuffer,   \* bound: the longest buffer of a call
  MaxWritten,  \* bound: how many bytes a task writes
  MaxInput     \* bound: how many bytes come from outside

ASSUME UartAssumption ==
  /\ IsFiniteSet(Task)
  /\ Depth \in Nat \ {0}
  /\ MaxBuffer \in Nat /\ MaxWritten \in Nat /\ MaxInput \in Nat

VARIABLES
  run_queue,  \* the tasks in the order of the CPU, the running one first
  call,       \* what each task is in: direction, masked, the next and the
              \* last byte, and if the test of the line status has succeeded
  tx,         \* the transmit queue: <<task, number>>
  rx,         \* the receive queue
  sent,       \* the bytes of each task that have left
  issued,     \* how many bytes each task has passed to calls that send
  input,      \* how many bytes have come from outside
  raced,      \* the tasks that another one has overtaken since their test
  lost,       \* the writes to a full queue: <<task, number, overtaken>>
  junk        \* the reads of an empty queue: overtaken or not

vars == <<run_queue, call, tx, rx, sent, issued, input, raced, lost, junk>>

Calls == [op : {"none", "send", "get"}, masked : BOOLEAN, next : Int, last : Int,
          ready : BOOLEAN]

NoCall == [op |-> "none", masked |-> FALSE, next |-> 0, last |-> 0, ready |-> FALSE]

Running(t) == run_queue # <<>> /\ Head(run_queue) = t

Init ==
  /\ run_queue \in {q \in [1..Cardinality(Task) -> Task] : ToSet(q) = Task}
  /\ call = [t \in Task |-> NoCall]
  /\ tx = <<>> /\ rx = <<>>
  /\ sent = [t \in Task |-> <<>>]
  /\ issued = [t \in Task |-> 0]
  /\ input = 0
  /\ raced = {}
  /\ lost = {} /\ junk = {}

-----------------------------------------------------------------------------
(* A system call: uart_write and uart_read enable interrupts, devfs_write  *)
(* and devfs_read do not.                                                  *)
Call(t, op, masked) ==
  /\ Running(t)
  /\ call[t].op = "none"
  /\ \E n \in 1..MaxBuffer :
       /\ op = "send" => issued[t] + n <= MaxWritten
       /\ issued' = [issued EXCEPT ![t] = IF op = "send" THEN @ + n ELSE @]
       /\ call' = [call EXCEPT ![t] =
                     [op |-> op, masked |-> masked, next |-> issued[t] + 1,
                      last |-> issued[t] + n, ready |-> FALSE]]
  /\ UNCHANGED <<run_queue, tx, rx, sent, input, raced, lost, junk>>

(* Fault: the bit is tested the other way round.                           *)
LineStatusInverted(op) == IF op = "send" THEN Len(tx) = Depth ELSE rx # <<>>

(* The line status: there is room to send, or something to read.           *)
LineStatus(op) == IF op = "send" THEN Len(tx) < Depth ELSE rx # <<>>

(* The loop that reads the line status ends.                               *)
TestOf(t, op) ==
  /\ Running(t)
  /\ call[t].op = op
  /\ ~call[t].ready
  /\ LineStatus(op)
  /\ call' = [call EXCEPT ![t].ready = TRUE]
  /\ UNCHANGED <<run_queue, tx, rx, sent, issued, input, raced, lost, junk>>

(* The other tasks that have tested the same queue.                        *)
Overtaken(t) == {s \in Task \ {t} : call[s].op = call[t].op /\ call[s].ready}

(* Fault: the line status is tested once for a buffer.                     *)
ByteDoneTestedOnce(t) ==
  IF call[t].next = call[t].last THEN NoCall ELSE [call[t] EXCEPT !.next = @ + 1]

(* Fault: the last byte of a longer buffer is left out.                    *)
ByteDoneEarly(t) ==
  IF call[t].next + 1 >= call[t].last THEN NoCall
  ELSE [call[t] EXCEPT !.next = @ + 1, !.ready = FALSE]

(* The next byte of the buffer, if any.                                    *)
ByteDone(t) ==
  IF call[t].next = call[t].last THEN NoCall
  ELSE [call[t] EXCEPT !.next = @ + 1, !.ready = FALSE]

(* uart_send writes to the data register.                                  *)
WriteByte(t) ==
  /\ Running(t)
  /\ call[t].op = "send"
  /\ call[t].ready
  /\ \/ /\ Len(tx) < Depth
        /\ tx' = Append(tx, <<t, call[t].next>>)
        /\ UNCHANGED lost
     \/ /\ Len(tx) >= Depth
        /\ lost' = lost \cup {<<t, call[t].next, t \in raced>>}
        /\ UNCHANGED tx
  /\ raced' = (raced \ {t}) \cup Overtaken(t)
  /\ call' = [call EXCEPT ![t] = ByteDone(t)]
  /\ UNCHANGED <<run_queue, rx, sent, issued, input, junk>>

(* uart_getc reads from the data register.                                 *)
ReadByte(t) ==
  /\ Running(t)
  /\ call[t].op = "get"
  /\ call[t].ready
  /\ \/ /\ rx # <<>>
        /\ rx' = Tail(rx)
        /\ UNCHANGED junk
     \/ /\ rx = <<>>
        /\ junk' = junk \cup {t \in raced}
        /\ UNCHANGED rx
  /\ raced' = (raced \ {t}) \cup Overtaken(t)
  /\ call' = [call EXCEPT ![t] = ByteDone(t)]
  /\ UNCHANGED <<run_queue, tx, sent, issued, input, lost>>

Send(t) == TestOf(t, "send") \/ WriteByte(t)

Get(t) == TestOf(t, "get") \/ ReadByte(t)

(* The timer interrupt: schedule() puts the running task behind all others.*)
Preempt ==
  /\ Len(run_queue) > 1
  /\ ~call[Head(run_queue)].masked
  /\ run_queue' = Append(Tail(run_queue), Head(run_queue))
  /\ UNCHANGED <<call, tx, rx, sent, issued, input, raced, lost, junk>>

(* The running program kills another task, wherever that one is.           *)
Kill(t) ==
  /\ \E i \in 2..Len(run_queue) :
       /\ run_queue[i] = t
       /\ run_queue' = RemoveAt(run_queue, i)
  /\ call[Head(run_queue)].op = "none"
  /\ call' = [call EXCEPT ![t] = NoCall]
  /\ raced' = raced \ {t}
  /\ UNCHANGED <<tx, rx, sent, issued, input, lost, junk>>

(* The device sends a byte.                                                *)
Transmit ==
  /\ tx # <<>>
  /\ LET byte == Head(tx) IN sent' = [sent EXCEPT ![byte[1]] = Append(@, byte[2])]
  /\ tx' = Tail(tx)
  /\ UNCHANGED <<run_queue, call, rx, issued, input, raced, lost, junk>>

(* A byte comes from outside; if the queue is full the device drops it.    *)
Receive ==
  /\ input < MaxInput
  /\ input' = input + 1
  /\ rx' = IF Len(rx) < Depth THEN Append(rx, input + 1) ELSE rx
  /\ UNCHANGED <<run_queue, call, tx, sent, issued, raced, lost, junk>>

Next ==
  \/ \E t \in Task :
       \/ \E op \in {"send", "get"}, masked \in BOOLEAN : Call(t, op, masked)
       \/ Send(t)
       \/ Get(t)
       \/ Kill(t)
  \/ Preempt
  \/ Transmit
  \/ Receive

Spec == Init /\ [][Next]_vars

(* The device sends what it has, and the timer interrupt comes.  A task    *)
(* that gets the CPU again and again does not find the transmit queue full *)
(* each time, or lose the CPU each time before its next instruction: the   *)
(* timer leaves it 31 ms, in which the device sends hundreds of bytes.     *)
Fairness ==
  /\ WF_vars(Transmit)
  /\ WF_vars(Preempt)
  /\ \A t \in Task : SF_vars(Send(t)) /\ SF_vars(Get(t))

FairSpec == Spec /\ Fairness

-----------------------------------------------------------------------------
(* Types: the calls, the queues of the device and the numbers of bytes.    *)
TypeOK ==
  /\ run_queue \in Seq(Task)
  /\ call \in [Task -> Calls]
  /\ tx \in Seq(Task \X Int)
  /\ rx \in Seq(Nat)
  /\ sent \in [Task -> Seq(Int)]
  /\ issued \in [Task -> Nat]
  /\ input \in Nat
  /\ raced \subseteq Task
  /\ lost \subseteq Task \X Int \X BOOLEAN
  /\ junk \subseteq BOOLEAN

(* Where the bytes of a task are: sent, in the queue of the device, or     *)
(* written to a full queue.                                                *)
Sent(t) == ToSet(sent[t])
Waiting(t) == {byte[2] : byte \in {b \in ToSet(tx) : b[1] = t}}
Missing(t) == {byte[2] : byte \in {b \in lost : b[1] = t}}

(* The bytes of the task leave in the order of their numbers.              *)
InOrder(t) ==
  /\ \A i, j \in DOMAIN sent[t] : i < j => sent[t][i] < sent[t][j]
  /\ \A i, j \in DOMAIN tx : i < j /\ tx[i][1] = t /\ tx[j][1] = t => tx[i][2] < tx[j][2]
  /\ \A m \in Sent(t), n \in Waiting(t) : m < n

(* The bytes of a task leave in the order of its buffers, each once        *)
(* (exception.c:143-147), however the tasks interleave and whoever is      *)
(* killed.  Only those written to a full queue are missing, and when a     *)
(* call has ended there is nothing else of it to come.                     *)
WrittenIsSent ==
  \A t \in Task :
    /\ InOrder(t)
    /\ Missing(t) \cap (Sent(t) \cup Waiting(t)) = {}
    /\ \E done \in 0..issued[t] :
         /\ Sent(t) \cup Waiting(t) \cup Missing(t) = 1..done
         /\ t \in ToSet(run_queue) /\ call[t].op # "send" => done = issued[t]

(* A byte is lost and junk is read only if another task used the same      *)
(* queue between this task's test and its access (uart.c:35-36, 43-44): a  *)
(* preemption alone does no harm, nor does whatever goes on in the other   *)
(* direction.                                                              *)
OnlyRacesHurt == (\A byte \in lost : byte[3]) /\ FALSE \notin junk

(* Every write ends, unless its task is killed or the whole system waits   *)
(* for good: a read of /dev/uart polls with interrupts masked              *)
(* (devfs.c:60-66), and nothing ever comes in.                             *)
Stalled ==
  /\ run_queue # <<>>
  /\ call[Head(run_queue)].op = "get"
  /\ call[Head(run_queue)].masked
  /\ rx = <<>>

WriteEnds ==
  \A t \in Task : call[t].op = "send" ~> (call[t].op # "send" \/ []Stalled)
=============================================================================
