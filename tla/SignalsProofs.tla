--------------------------- MODULE SignalsProofs ---------------------------
(***************************************************************************)
(* Proofs about signals for every set of tasks.                            *)
(*                                                                         *)
(* Most of it is about the linked lists.  While signals are not spoiled,   *)
(* following the links of a queue gives a sequence without duplicates      *)
(* (Chained), and all that the properties need of it is the set of its     *)
(* tasks (Holds).  The first part says what each list operation does to    *)
(* the sets of both queues (Queues).  It has to do so for the sequences    *)
(* first, since a task is unlinked in the middle of a list and linked at   *)
(* the end of one.                                                         *)
(*                                                                         *)
(* The inductive invariant IInv has two parts.  Typed holds in all states, *)
(* also when the lists have become cycles.  Accounted holds until signals  *)
(* are spoiled, and has three parts, each of which the others need:        *)
(*   Located      each task runs, is parked, is in one queue, or is not in *)
(*                use; a pending exit finds its target parked              *)
(*   OneSignal    one wrapper at most is at work, and signal_pid is the    *)
(*                task it has parked, so nobody links a task twice         *)
(*   HandlerKnown a parked task with a handler has a wrapper that will     *)
(*                call the handler and not kill                            *)
(***************************************************************************)
EXTENDS Signals, DataLemmas, FiniteSetTheorems

(* The names of the queues.                                                *)
Queue == {"run_queue", "zombies_queue"}

(* The lists: two pointers, the links of the tasks, and the flag.          *)
Pointer == Task \cup {NULL}

ListsType ==
  [run_queue : Pointer, zombies_queue : Pointer, next : [Task -> Pointer], endless : BOOLEAN]

(* Queue q of l is the sequence s.                                         *)
Chained(l, q, s) ==
  /\ s \in Seq(Task) /\ IsInjective(s)
  /\ l[q] = IF s = <<>> THEN NULL ELSE s[1]
  /\ \A j \in 1..Len(s) : l.next[s[j]] = IF j = Len(s) THEN NULL ELSE s[j + 1]

(* Queue q of l holds the tasks S.                                         *)
Holds(l, q, S) == \E s : Chained(l, q, s) /\ Range(s) = S

(* How far the links are followed.                                         *)
Most == Cardinality(Task)

(* The fields of lists, for the provers.                                   *)
LEMMA Fields ==
  ASSUME NEW l \in ListsType, NEW q \in Queue
  PROVE  l[q] \in Pointer /\ l.next \in [Task -> Pointer] /\ l.endless \in BOOLEAN
BY DEF ListsType, Queue

(* One write to the lists: to the head of a queue, or to a link.           *)
HeadWritten(l, q, x, m) ==
  /\ m \in ListsType /\ m[q] = x /\ m.next = l.next /\ m.endless = l.endless
  /\ \A r \in Queue \ {q} : m[r] = l[r]

LinkWritten(l, t, x, m) ==
  /\ m \in ListsType /\ m.next[t] = x /\ m.endless = l.endless
  /\ \A u \in Task \ {t} : m.next[u] = l.next[u]
  /\ \A r \in Queue : m[r] = l[r]

(* An assignment to the head of a queue writes nothing else.               *)
LEMMA WriteHead ==
  ASSUME NEW l \in ListsType, NEW q \in Queue, NEW x \in Pointer
  PROVE  HeadWritten(l, q, x, [l EXCEPT ![q] = x])
BY DEF HeadWritten, ListsType, Queue

(* An assignment to the next of a task writes nothing else.                *)
LEMMA WriteLink ==
  ASSUME NEW l \in ListsType, NEW t \in Task, NEW x \in Pointer
  PROVE  LinkWritten(l, t, x, [l EXCEPT !.next[t] = x])
BY DEF LinkWritten, ListsType, Queue

(* The flag may be set on any lists.                                       *)
LEMMA WriteFlag ==
  ASSUME NEW l \in ListsType, NEW b \in BOOLEAN
  PROVE  [l EXCEPT !.endless = b] \in ListsType
BY DEF ListsType, Queue

(* Following the links of a queue gives a function.                        *)
LEMMA ChainDefined ==
  ASSUME NEW l \in ListsType, NEW q \in Queue
  PROVE  /\ Most \in Nat
         /\ Chain(l, q) \in [0..Most -> Pointer]
         /\ Chain(l, q)[0] = l[q]
         /\ \A n \in 1..Most : Chain(l, q)[n] =
              IF Chain(l, q)[n - 1] = NULL THEN NULL ELSE l.next[Chain(l, q)[n - 1]]
<1>1. Most \in Nat
  BY SignalsAssumption, FS_CardinalityType DEF Most
<1>2. l[q] \in Pointer /\ l.next \in [Task -> Pointer]
  BY Fields
<1> DEFINE chain == Chain(l, q)
           S == [n \in 0..Most |-> Pointer]
           F == [n \in 1..Most |-> [v \in Pointer |-> IF v = NULL THEN NULL ELSE l.next[v]]]
           U(f) == f = [n \in 0..Most |->
                          IF n = 0 THEN l[q] ELSE IF f[n - 1] = NULL THEN NULL ELSE l.next[f[n - 1]]]
<1>3. PICK g : /\ g = [n \in 0..Most |-> IF n = 0 THEN l[q] ELSE F[n][g[n - 1]]]
               /\ \A n \in 0..Most : g[n] \in S[n]
  <2>1. l[q] \in S[0]
    BY <1>1, <1>2
  <2>2. StepsWithin(Most, S, F)
    <3>1. ASSUME NEW n \in 1..Most, NEW v \in S[n - 1] PROVE F[n][v] \in S[n]
      <4>1. n - 1 \in 0..Most /\ n \in 0..Most
        BY <1>1
      <4>2. v \in Pointer /\ S[n] = Pointer
        BY <4>1
      <4> QED
        BY <1>2, <4>2 DEF Pointer
    <3> HIDE DEF S, F
    <3> QED
      BY <3>1 DEF StepsWithin
  <2> HIDE DEF S, F
  <2>3. ASSUME NEW x \in S[0]
        PROVE  \E g : /\ g = [n \in 0..Most |-> IF n = 0 THEN x ELSE F[n][g[n - 1]]]
                      /\ \A n \in 0..Most : g[n] \in S[n]
    BY <1>1, <2>2, Recursion
  <2> QED
    BY <2>1, <2>3, Zenon
<1>4. \A n \in 0..Most : g[n] \in Pointer
  BY <1>3
<1>5. ASSUME NEW n \in 0..Most, n # 0 PROVE n \in 1..Most /\ n - 1 \in 0..Most
  BY <1>1, <1>5
<1>6. U(g)
  <2> DEFINE e(n) == IF n = 0 THEN l[q]
                     ELSE IF g[n - 1] = NULL THEN NULL ELSE l.next[g[n - 1]]
  <2>1. ASSUME NEW n \in 0..Most PROVE g[n] = e(n)
    <3>1. CASE n = 0
      BY <1>3, <3>1
    <3>2. CASE n # 0
      <4>1. n \in 1..Most /\ g[n - 1] \in Pointer
        BY <1>4, <1>5, <3>2
      <4>2. F[n][g[n - 1]] = IF g[n - 1] = NULL THEN NULL ELSE l.next[g[n - 1]]
        BY <4>1
      <4>3. g[n] = F[n][g[n - 1]]
        <5> HIDE DEF F
        <5> QED
          BY <1>3, <3>2
      <4> QED
        BY <3>2, <4>2, <4>3
    <3> QED
      BY <3>1, <3>2
  <2>2. g = [n \in 0..Most |-> g[n]]
    <3> HIDE DEF F
    <3> QED
      BY <1>3
  <2> HIDE DEF e
  <2>3. g = [n \in 0..Most |-> e(n)]
    BY <2>1, <2>2
  <2> QED
    BY <2>3, Zenon DEF e
<1>7. U(chain)
  <2> DEFINE f == CHOOSE f : U(f)
  <2>1. chain = f
    BY Zenon DEF Chain, Most
  <2> HIDE DEF U, chain
  <2>2. U(f)
    BY <1>6
  <2> QED
    BY <2>1, <2>2
<1> HIDE DEF chain
<1>8. /\ chain[0] = l[q] /\ DOMAIN chain = 0..Most
      /\ chain = [n \in 0..Most |-> chain[n]]
      /\ \A n \in 1..Most : chain[n] = IF chain[n - 1] = NULL THEN NULL ELSE l.next[chain[n - 1]]
  <2> DEFINE e(n) == IF n = 0 THEN l[q] ELSE IF chain[n - 1] = NULL THEN NULL ELSE l.next[chain[n - 1]]
  <2>1. chain = [n \in 0..Most |-> e(n)]
    BY <1>7, Zenon
  <2>2. 0 \in 0..Most /\ \A n \in 1..Most : n \in 0..Most /\ n # 0
    BY <1>1
  <2>3. e(0) = l[q] /\ \A n \in 1..Most :
          e(n) = IF chain[n - 1] = NULL THEN NULL ELSE l.next[chain[n - 1]]
    OBVIOUS
  <2> HIDE DEF e
  <2>4. DOMAIN chain = 0..Most /\ chain = [n \in 0..Most |-> chain[n]] /\ \A n \in 0..Most : chain[n] = e(n)
    BY <2>1
  <2> QED
    BY <2>2, <2>3, <2>4
<1> DEFINE T == {n \in 0..Most : chain[n] \in Pointer}
<1>9. 0..Most \subseteq T
  <2>1. 0 \in T
    BY <1>1, <1>2, <1>8
  <2>2. ASSUME NEW n \in 1..Most, n - 1 \in T PROVE n \in T
    <3>1. chain[n - 1] \in Pointer /\ n \in 0..Most
      BY <1>1, <2>2
    <3>2. chain[n] \in Pointer
      BY <1>2, <1>8, <3>1 DEF Pointer
    <3> QED
      BY <3>1, <3>2
  <2> HIDE DEF T
  <2> QED
    BY <1>1, <2>1, <2>2, UpTo
<1>10. chain \in [0..Most -> Pointer]
  BY <1>8, <1>9
<1> QED
  BY <1>1, <1>8, <1>10 DEF chain

(* A queue is not longer than there are tasks.                             *)
LEMMA ShortQueue ==
  ASSUME NEW s \in Seq(Task), IsInjective(s)
  PROVE  Len(s) \in Nat /\ Len(s) <= Most
<1> DEFINE n == Len(s)
<1>1. n \in Nat /\ s \in [1..n -> Task]
  OBVIOUS
<1>2. IsFiniteSet(Task) /\ Cardinality(Task) = Most /\ Most \in Nat
  BY SignalsAssumption, FS_CardinalityType DEF Most
<1>3. IsFiniteSet(1..n) /\ Cardinality(1..n) = n
  BY <1>1, FS_Interval
<1>4. \A a, b \in 1..n : s[a] = s[b] => a = b
  BY DEF IsInjective
<1> HIDE DEF n
<1>5. ASSUME Most < n PROVE FALSE
  <2>1. \E x, y \in 1..n : x # y /\ s[x] = s[y]
    BY <1>1, <1>2, <1>3, <1>5, FS_PigeonHole
  <2> QED
    BY <1>4, <2>1
<1> QED
  BY <1>1, <1>2, <1>5 DEF n

(* The links lead through the queue.                                       *)
LEMMA ChainFollows ==
  ASSUME NEW l \in ListsType, NEW q \in Queue, NEW s, Chained(l, q, s)
  PROVE  /\ Len(s) \in Nat /\ Len(s) <= Most /\ Most \in Nat
         /\ DOMAIN Chain(l, q) = 0..Most
         /\ \A n \in 0..Most : Chain(l, q)[n] = IF n < Len(s) THEN s[n + 1] ELSE NULL
<1> DEFINE chain == Chain(l, q)
           at(n) == IF n < Len(s) THEN s[n + 1] ELSE NULL
           T == {n \in 0..Most : chain[n] = at(n)}
<1>1. s \in Seq(Task) /\ IsInjective(s)
  BY DEF Chained
<1>2. Len(s) \in Nat /\ Len(s) <= Most /\ Most \in Nat
  BY <1>1, ShortQueue, ChainDefined
<1>3. /\ DOMAIN chain = 0..Most /\ chain[0] = l[q]
      /\ \A n \in 1..Most : chain[n] = IF chain[n - 1] = NULL THEN NULL ELSE l.next[chain[n - 1]]
  BY ChainDefined
<1>4. \A j \in 1..Len(s) : s[j] # NULL /\ l.next[s[j]] = IF j = Len(s) THEN NULL ELSE s[j + 1]
  BY <1>1, SignalsAssumption DEF Chained
<1>5. l[q] = at(0)
  <2>1. s = <<>> <=> Len(s) = 0
    BY <1>1
  <2> QED
    BY <1>2, <2>1 DEF Chained
<1>6. ASSUME NEW n \in 1..Most
      PROVE  at(n) = IF at(n - 1) = NULL THEN NULL ELSE l.next[at(n - 1)]
  <2>1. CASE n <= Len(s)
    <3>1. n \in 1..Len(s) /\ at(n - 1) = s[n]
      BY <1>2, <2>1
    <3>2. at(n) = IF n = Len(s) THEN NULL ELSE s[n + 1]
      BY <1>2, <2>1
    <3> HIDE DEF at
    <3> QED
      BY <1>4, <3>1, <3>2
  <2>2. CASE ~(n <= Len(s))
    <3>1. at(n - 1) = NULL /\ at(n) = NULL
      BY <1>2, <2>2
    <3> HIDE DEF at
    <3> QED
      BY <3>1
  <2> QED
    BY <2>1, <2>2
<1>7. 0..Most \subseteq T
  <2> HIDE DEF chain, at
  <2>1. 0 \in T
    BY <1>2, <1>3, <1>5
  <2>2. ASSUME NEW n \in 1..Most, n - 1 \in T PROVE n \in T
    BY <1>2, <1>3, <1>6, <2>2
  <2> HIDE DEF T
  <2> QED
    BY <1>2, <2>1, <2>2, UpTo
<1>8. ASSUME NEW n \in 0..Most PROVE chain[n] = at(n)
  <2> HIDE DEF chain, at
  <2> QED
    BY <1>7
<1> HIDE DEF chain
<1> QED
  BY <1>2, <1>3, <1>8 DEF chain

(* The sequence of a queue, for the provers.                               *)
LEMMA ChainedFacts ==
  ASSUME NEW l, NEW q, NEW s, Chained(l, q, s)
  PROVE  /\ s \in Seq(Task) /\ Len(s) \in Nat /\ IsInjective(s)
         /\ \A i, j \in 1..Len(s) : s[i] = s[j] => i = j
         /\ \A j \in 1..Len(s) : s[j] \in Task /\ s[j] \in Range(s)
         /\ \A x \in Range(s) : x \in Task /\ \E j \in 1..Len(s) : s[j] = x
         /\ Len(s) = 0 => l[q] = NULL
         /\ Len(s) # 0 => l[q] = s[1]
         /\ \A j \in 1..Len(s) : l.next[s[j]] = IF j = Len(s) THEN NULL ELSE s[j + 1]
<1>1. s \in Seq(Task) /\ IsInjective(s)
  BY DEF Chained
<1>2. s = <<>> <=> Len(s) = 0
  BY <1>1
<1>3. \A i, j \in 1..Len(s) : s[i] = s[j] => i = j
  BY <1>1 DEF IsInjective
<1> QED
  BY <1>1, <1>2, <1>3, ListElement DEF Chained

(* What Members and Endless say of a queue.                                *)
LEMMA HoldsMembers ==
  ASSUME NEW l \in ListsType, NEW q \in Queue, NEW S, Holds(l, q, S)
  PROVE  /\ S \subseteq Task
         /\ Members(l, q) = S
         /\ ~Endless(l, q)
         /\ l[q] = NULL <=> S = {}
         /\ l[q] # NULL => l[q] \in S
         /\ \A t \in S : l.next[t] \in S \cup {NULL}
<1>1. PICK s : Chained(l, q, s) /\ Range(s) = S
  BY DEF Holds
<1>2. /\ s \in Seq(Task) /\ Len(s) \in Nat
      /\ \A j \in 1..Len(s) : s[j] \in Task /\ s[j] \in S
      /\ \A x \in S : x \in Task /\ \E j \in 1..Len(s) : s[j] = x
      /\ Len(s) = 0 => l[q] = NULL
      /\ Len(s) # 0 => l[q] = s[1]
      /\ \A j \in 1..Len(s) : l.next[s[j]] = IF j = Len(s) THEN NULL ELSE s[j + 1]
  BY <1>1, ChainedFacts
<1>3. /\ Len(s) <= Most /\ Most \in Nat
      /\ \A n \in 0..Most : Chain(l, q)[n] = IF n < Len(s) THEN s[n + 1] ELSE NULL
  BY <1>1, ChainFollows
<1>4. \A x : x \in Members(l, q) <=> x # NULL /\ \E n \in 0..Most : Chain(l, q)[n] = x
  BY DEF Members, Most
<1>5. \A j \in 1..Len(s) : j - 1 \in 0..Most /\ Chain(l, q)[j - 1] = s[j]
  BY <1>2, <1>3
<1>6. \A n \in 0..Most : Chain(l, q)[n] # NULL => n + 1 \in 1..Len(s) /\ Chain(l, q)[n] = s[n + 1]
  BY <1>2, <1>3
<1>7. Most \in 0..Most /\ Chain(l, q)[Most] = NULL
  BY <1>2, <1>3
<1>8. Members(l, q) = S
  <2>1. ASSUME NEW x \in Members(l, q) PROVE x \in S
    <3>1. PICK n \in 0..Most : Chain(l, q)[n] = x /\ x # NULL
      BY <1>4
    <3> QED
      BY <1>2, <1>6, <3>1
  <2>2. ASSUME NEW x \in S PROVE x \in Members(l, q)
    <3>1. PICK j \in 1..Len(s) : s[j] = x
      BY <1>2
    <3>2. j - 1 \in 0..Most /\ Chain(l, q)[j - 1] = x /\ x # NULL
      BY <1>2, <1>5, <3>1, SignalsAssumption
    <3> QED
      BY <1>4, <3>2
  <2> QED
    BY <2>1, <2>2
<1>9. ~Endless(l, q)
  BY <1>7 DEF Endless, Most
<1>10. l[q] = NULL <=> S = {}
  <2>1. CASE Len(s) = 0
    BY <1>2, <2>1
  <2>2. CASE Len(s) # 0
    <3>1. 1 \in 1..Len(s)
      BY <1>2, <2>2
    <3> QED
      BY <1>2, <2>2, <3>1, SignalsAssumption
  <2> QED
    BY <2>1, <2>2
<1>11. l[q] # NULL => l[q] \in S
  <2>1. Len(s) # 0 => 1 \in 1..Len(s)
    BY <1>2
  <2> QED
    BY <1>2, <2>1
<1>12. ASSUME NEW t \in S PROVE l.next[t] \in S \cup {NULL}
  <2>1. PICK j \in 1..Len(s) : s[j] = t
    BY <1>2
  <2>2. j # Len(s) => j + 1 \in 1..Len(s)
    BY <1>2
  <2> QED
    BY <1>2, <2>1, <2>2
<1> QED
  BY <1>2, <1>8, <1>9, <1>10, <1>11, <1>12

(* A queue whose pointers nobody writes stays.                             *)
LEMMA HoldsSame ==
  ASSUME NEW l \in ListsType, NEW m \in ListsType, NEW q \in Queue, NEW S, Holds(l, q, S),
         m[q] = l[q], \A t \in S : m.next[t] = l.next[t]
  PROVE  Holds(m, q, S)
<1>1. PICK s : Chained(l, q, s) /\ Range(s) = S
  BY DEF Holds
<1>2. \A j \in 1..Len(s) : s[j] \in S
  BY <1>1, ChainedFacts
<1>3. Chained(m, q, s)
  BY <1>1, <1>2 DEF Chained
<1> QED
  BY <1>1, <1>3 DEF Holds

(* A queue with head NULL is empty.                                        *)
LEMMA HoldsNobody ==
  ASSUME NEW m \in ListsType, NEW q \in Queue, m[q] = NULL
  PROVE  Holds(m, q, {})
<1> DEFINE s == <<>>
<1>1. s \in Seq(Task) /\ Len(s) = 0 /\ Range(s) = {} /\ IsInjective(s)
  BY DEF Range, IsInjective
<1>2. Chained(m, q, s)
  BY <1>1 DEF Chained
<1> QED
  BY <1>1, <1>2 DEF Holds

(* A task without a successor is a queue.                                  *)
LEMMA HoldsSingle ==
  ASSUME NEW m \in ListsType, NEW q \in Queue, NEW t \in Task, m[q] = t, m.next[t] = NULL
  PROVE  Holds(m, q, {t})
<1> DEFINE s == <<t>>
<1>1. /\ s \in Seq(Task) /\ Len(s) = 1 /\ DOMAIN s = {1} /\ s[1] = t /\ s # <<>>
      /\ \A j \in 1..Len(s) : j = 1
  OBVIOUS
<1> HIDE DEF s
<1>2. Range(s) = {t} /\ IsInjective(s)
  BY <1>1 DEF Range, IsInjective
<1>3. Chained(m, q, s)
  BY <1>1, <1>2 DEF Chained
<1> QED
  BY <1>2, <1>3 DEF Holds

(* A queue with tasks has one last task.                                   *)
LEMMA HoldsLast ==
  ASSUME NEW l \in ListsType, NEW q \in Queue, NEW S, Holds(l, q, S), S # {}
  PROVE  \E x \in S : l.next[x] = NULL /\ \A u \in S : l.next[u] = NULL => u = x
<1>1. PICK s : Chained(l, q, s) /\ Range(s) = S
  BY DEF Holds
<1>2. /\ Len(s) \in Nat
      /\ \A j \in 1..Len(s) : s[j] \in Task /\ s[j] \in S
      /\ \A x \in S : \E j \in 1..Len(s) : s[j] = x
      /\ \A j \in 1..Len(s) : l.next[s[j]] = IF j = Len(s) THEN NULL ELSE s[j + 1]
  BY <1>1, ChainedFacts
<1>3. Len(s) \in 1..Len(s)
  BY <1>2
<1>4. s[Len(s)] \in S /\ l.next[s[Len(s)]] = NULL
  BY <1>2, <1>3
<1>5. ASSUME NEW u \in S, l.next[u] = NULL PROVE u = s[Len(s)]
  <2>1. PICK j \in 1..Len(s) : s[j] = u
    BY <1>2
  <2>2. j # Len(s) => j + 1 \in 1..Len(s)
    BY <1>2
  <2> QED
    BY <1>2, <1>5, <2>1, <2>2, SignalsAssumption
<1> QED
  BY <1>4, <1>5

(* A task that is linked behind the last one is in the queue.              *)
LEMMA HoldsAppend ==
  ASSUME NEW l \in ListsType, NEW m \in ListsType, NEW q \in Queue, NEW S, Holds(l, q, S),
         NEW x \in S, l.next[x] = NULL, NEW t \in Task \ S,
         m[q] = l[q], m.next[x] = t, m.next[t] = NULL,
         \A u \in S \ {x} : m.next[u] = l.next[u]
  PROVE  Holds(m, q, S \cup {t})
<1>1. PICK s : Chained(l, q, s) /\ Range(s) = S
  BY DEF Holds
<1>2. /\ s \in Seq(Task) /\ Len(s) \in Nat
      /\ \A i, j \in 1..Len(s) : s[i] = s[j] => i = j
      /\ \A j \in 1..Len(s) : s[j] \in Task /\ s[j] \in S
      /\ \A y \in S : y \in Task /\ \E j \in 1..Len(s) : s[j] = y
      /\ Len(s) # 0 => l[q] = s[1]
      /\ \A j \in 1..Len(s) : l.next[s[j]] = IF j = Len(s) THEN NULL ELSE s[j + 1]
  BY <1>1, ChainedFacts
<1>3. PICK n \in 1..Len(s) : s[n] = x
  BY <1>2
<1>4. n = Len(s)
  <2>1. n # Len(s) => n + 1 \in 1..Len(s)
    BY <1>2
  <2> QED
    BY <1>2, <1>3, <2>1, SignalsAssumption
<1> DEFINE r == Append(s, t)
<1>5. /\ r \in Seq(Task) /\ Len(r) = n + 1 /\ DOMAIN r = 1..(n + 1) /\ r[n + 1] = t
      /\ \A j \in 1..n : r[j] = s[j]
      /\ r # <<>> /\ n \in Nat \ {0}
  BY <1>2, <1>4
<1> HIDE DEF r
<1>6. \A j \in 1..(n + 1) : j = n + 1 \/ j \in 1..n
  BY <1>5
<1>7. \A j \in 1..n : j # n + 1 /\ r[j] \in S /\ r[j] # t /\ (r[j] = x => j = n) /\ j + 1 \in 1..(n + 1)
  BY <1>2, <1>3, <1>4, <1>5
<1>8. IsInjective(r)
  <2>1. ASSUME NEW i \in 1..(n + 1), NEW j \in 1..(n + 1), r[i] = r[j] PROVE i = j
    <3>1. CASE i = n + 1 /\ j = n + 1
      BY <3>1
    <3>2. CASE i \in 1..n /\ j = n + 1
      BY <1>5, <1>7, <2>1, <3>2
    <3>3. CASE i = n + 1 /\ j \in 1..n
      BY <1>5, <1>7, <2>1, <3>3
    <3>4. CASE i \in 1..n /\ j \in 1..n
      BY <1>2, <1>4, <1>5, <2>1, <3>4
    <3> QED
      BY <1>6, <3>1, <3>2, <3>3, <3>4
  <2> QED
    BY <1>5, <2>1 DEF IsInjective
<1>9. Range(r) = S \cup {t}
  <2>1. \A y \in Range(r) : y \in S \cup {t}
    BY <1>5, <1>6, <1>7 DEF Range
  <2>2. t \in Range(r)
    BY <1>5 DEF Range
  <2>3. ASSUME NEW y \in S PROVE y \in Range(r)
    <3>1. PICK j \in 1..n : s[j] = y
      BY <1>2, <1>4
    <3>2. j \in 1..(n + 1) /\ r[j] = y
      BY <1>5, <3>1
    <3> QED
      BY <1>5, <3>2 DEF Range
  <2> QED
    BY <2>1, <2>2, <2>3
<1>10. m[q] = r[1]
  <2>1. 1 \in 1..n /\ Len(s) # 0
    BY <1>4, <1>5
  <2> QED
    BY <1>2, <1>5, <2>1
<1>11. ASSUME NEW j \in 1..Len(r) PROVE m.next[r[j]] = IF j = Len(r) THEN NULL ELSE r[j + 1]
  <2>1. CASE j = n + 1
    BY <1>5, <2>1
  <2>2. CASE j = n
    BY <1>3, <1>5, <1>7, <2>2
  <2>3. CASE j \in 1..n /\ j # n
    <3>1. j + 1 \in 1..n
      BY <1>5, <2>3
    <3>2. r[j] = s[j] /\ r[j + 1] = s[j + 1] /\ s[j] \in S \ {x}
      BY <1>5, <1>7, <2>3, <3>1
    <3>3. m.next[s[j]] = l.next[s[j]] /\ l.next[s[j]] = s[j + 1]
      BY <1>2, <1>4, <2>3, <3>2
    <3> QED
      BY <1>5, <1>7, <2>3, <3>2, <3>3
  <2> QED
    BY <1>5, <1>6, <2>1, <2>2, <2>3
<1>12. Chained(m, q, r)
  BY <1>5, <1>8, <1>10, <1>11 DEF Chained
<1> QED
  BY <1>9, <1>12 DEF Holds

(* A task is taken out of a queue when the pointer to it is redirected to  *)
(* its successor.                                                          *)
LEMMA HoldsWithout ==
  ASSUME NEW l \in ListsType, NEW m \in ListsType, NEW q \in Queue, NEW s, Chained(l, q, s),
         NEW n \in 1..Len(s),
         m[q] = IF n = 1 THEN l.next[s[n]] ELSE l[q],
         n # 1 => m.next[s[n - 1]] = l.next[s[n]],
         \A j \in 1..Len(s) : j # n /\ j # n - 1 => m.next[s[j]] = l.next[s[j]]
  PROVE  Holds(m, q, Range(s) \ {s[n]})
<1>1. /\ s \in Seq(Task) /\ Len(s) \in Nat \ {0} /\ IsInjective(s)
      /\ \A i, j \in 1..Len(s) : s[i] = s[j] => i = j
      /\ l[q] = s[1]
      /\ \A j \in 1..Len(s) : l.next[s[j]] = IF j = Len(s) THEN NULL ELSE s[j + 1]
  BY ChainedFacts
<1> DEFINE r == RemoveAt(s, n)
           from(j) == IF j < n THEN j ELSE j + 1
<1>2. /\ r \in Seq(Task) /\ IsInjective(r) /\ Range(r) = Range(s) \ {s[n]}
      /\ Len(r) = Len(s) - 1
      /\ \A j \in 1..Len(r) : r[j] = s[from(j)] /\ from(j) \in 1..Len(s)
  BY <1>1, TakeOut, RemoveAtElements
<1> HIDE DEF r
<1>3. r = <<>> <=> Len(r) = 0
  BY <1>2
<1>4. m[q] = IF r = <<>> THEN NULL ELSE r[1]
  <2>1. CASE Len(r) = 0
    <3>1. Len(s) = 1
      <4>1. Len(s) - 1 = 0
        BY <1>2, <2>1
      <4> QED
        BY <1>1, <4>1
    <3>2. n = 1 /\ n = Len(s)
      BY <3>1
    <3> QED
      BY <1>1, <1>3, <2>1, <3>2
  <2>2. CASE Len(r) # 0
    <3>1. 1 \in 1..Len(r) /\ r # <<>> /\ r[1] = IF n = 1 THEN s[2] ELSE s[1]
      BY <1>1, <1>2, <1>3, <2>2
    <3>2. n = 1 => n # Len(s)
      BY <1>1, <1>2, <2>2
    <3> QED
      BY <1>1, <3>1, <3>2
  <2> QED
    BY <2>1, <2>2
<1>5. ASSUME NEW j \in 1..Len(r) PROVE m.next[r[j]] = IF j = Len(r) THEN NULL ELSE r[j + 1]
  <2>1. j # Len(r) => j + 1 \in 1..Len(r)
    BY <1>1, <1>2
  <2>2. CASE j < n - 1
    <3>1. from(j) = j /\ from(j + 1) = j + 1 /\ j # Len(r) /\ j # Len(s) /\ j # n /\ j # n - 1
          /\ j \in 1..Len(s)
      BY <1>1, <1>2, <2>2
    <3>2. r[j] = s[j] /\ r[j + 1] = s[j + 1]
      BY <1>2, <2>1, <3>1
    <3> QED
      BY <1>1, <3>1, <3>2
  <2>3. CASE j = n - 1
    <3>1. from(j) = j /\ from(j + 1) = n + 1 /\ n # 1 /\ (j = Len(r) <=> n = Len(s)) /\ j + 2 = n + 1
      BY <1>1, <1>2, <2>3
    <3>3. m.next[s[n - 1]] = IF n = Len(s) THEN NULL ELSE s[n + 1]
      BY <1>1, <3>1
    <3> HIDE DEF from
    <3>2. r[j] = s[n - 1] /\ (j # Len(r) => r[j + 1] = s[n + 1])
      <4>1. r[j] = s[from(j)] /\ (j # Len(r) => r[j + 1] = s[from(j + 1)])
        BY <1>2, <2>1
      <4> QED
        BY <2>3, <3>1, <4>1
    <3> QED
      BY <3>1, <3>2, <3>3
  <2>4. CASE j >= n
    <3>1. /\ from(j) = j + 1 /\ from(j + 1) = (j + 1) + 1 /\ (j = Len(r) <=> j + 1 = Len(s))
          /\ j + 1 # n /\ j + 1 # n - 1 /\ j + 1 \in 1..Len(s)
      BY <1>1, <1>2, <2>4
    <3>3. m.next[s[j + 1]] = IF j + 1 = Len(s) THEN NULL ELSE s[(j + 1) + 1]
      BY <1>1, <3>1
    <3> HIDE DEF from
    <3>2. r[j] = s[j + 1] /\ (j # Len(r) => r[j + 1] = s[(j + 1) + 1])
      <4>1. r[j] = s[from(j)] /\ (j # Len(r) => r[j + 1] = s[from(j + 1)])
        BY <1>2, <2>1
      <4> QED
        BY <3>1, <4>1
    <3> QED
      BY <3>1, <3>2, <3>3
  <2>5. j < n - 1 \/ j = n - 1 \/ j >= n
    BY <1>1, <1>2
  <2> QED
    BY <2>2, <2>3, <2>4, <2>5
<1>6. Chained(m, q, r)
  BY <1>2, <1>4, <1>5 DEF Chained
<1> QED
  BY <1>2, <1>6 DEF Holds

(* A queue loses its first task.                                           *)
LEMMA HoldsPop ==
  ASSUME NEW l \in ListsType, NEW m \in ListsType, NEW q \in Queue, NEW S, Holds(l, q, S),
         S # {}, m[q] = l.next[l[q]], \A u \in S \ {l[q]} : m.next[u] = l.next[u]
  PROVE  Holds(m, q, S \ {l[q]})
<1>1. PICK s : Chained(l, q, s) /\ Range(s) = S
  BY DEF Holds
<1>2. /\ Len(s) \in Nat
      /\ \A i, j \in 1..Len(s) : s[i] = s[j] => i = j
      /\ \A j \in 1..Len(s) : s[j] \in S
      /\ \A y \in S : \E j \in 1..Len(s) : s[j] = y
      /\ Len(s) # 0 => l[q] = s[1]
  BY <1>1, ChainedFacts
<1>3. 1 \in 1..Len(s)
  BY <1>2
<1>4. \A j \in 1..Len(s) : j # 1 => s[j] \in S \ {l[q]}
  BY <1>2, <1>3
<1> DEFINE n == 1
<1>5. n \in 1..Len(s) /\ s[n] = l[q] /\ n = 1
  BY <1>2, <1>3
<1>6. \A j \in 1..Len(s) : j # n /\ j # n - 1 => m.next[s[j]] = l.next[s[j]]
  BY <1>4, <1>5
<1> HIDE DEF n
<1>7. Holds(m, q, Range(s) \ {s[n]})
  BY <1>1, <1>5, <1>6, HoldsWithout
<1> QED
  BY <1>1, <1>5, <1>7

-----------------------------------------------------------------------------
(* One list: the operations of the code.                                   *)

(* Where a task is first met in a queue.                                   *)
FirstPlace(l, q, t) ==
  CHOOSE i \in DOMAIN Chain(l, q) : Chain(l, q)[i] = t /\ \A j \in 0..i - 1 : Chain(l, q)[j] # t

(* A task of a queue is met by following the links; the task before it, if *)
(* there is one, is a task.                                                *)
LEMMA FirstPlaceExists ==
  ASSUME NEW l \in ListsType, NEW q \in Queue, NEW t \in Task, t \in Members(l, q)
  PROVE  LET n == FirstPlace(l, q, t) IN
         /\ n \in 0..Most /\ Chain(l, q)[n] = t
         /\ n # 0 => n - 1 \in 0..Most /\ Chain(l, q)[n - 1] \in Task
<1> DEFINE chain == Chain(l, q)
           P(i) == chain[i] = t /\ \A j \in 0..i - 1 : chain[j] # t
           T == {i \in 0..Most : chain[i] = t}
<1>1. /\ Most \in Nat /\ chain \in [0..Most -> Pointer] /\ DOMAIN chain = 0..Most
      /\ \A n \in 1..Most : chain[n] = IF chain[n - 1] = NULL THEN NULL ELSE l.next[chain[n - 1]]
  BY ChainDefined
<1>2. \E i \in 0..Most : chain[i] = t
  BY DEF Members, Most
<1> HIDE DEF chain
<1>3. T # {} /\ T \in SUBSET Nat
  BY <1>1, <1>2
<1>4. PICK i \in T : \A j \in T : i <= j
  <2> HIDE DEF T
  <2> QED
    BY <1>3, Least
<1>5. i \in 0..Most /\ P(i)
  <2>1. ASSUME NEW j \in 0..i - 1, chain[j] = t PROVE FALSE
    <3>1. j \in T /\ j < i
      BY <1>1, <1>4, <2>1
    <3> QED
      BY <1>1, <1>4, <3>1
  <2> QED
    BY <1>4, <2>1
<1> DEFINE n == CHOOSE k \in DOMAIN chain : P(k)
<1>6. n \in 0..Most /\ P(n)
  <2> HIDE DEF P
  <2> QED
    BY <1>1, <1>5
<1>7. n = FirstPlace(l, q, t)
  BY DEF FirstPlace, chain
<1> HIDE DEF n
<1>8. n # 0 => n - 1 \in 0..Most /\ chain[n - 1] \in Task
  <2> SUFFICES ASSUME n # 0 PROVE n - 1 \in 0..Most /\ chain[n - 1] \in Task
    OBVIOUS
  <2>1. n \in 1..Most /\ n - 1 \in 0..Most
    BY <1>1, <1>6
  <2>2. chain[n - 1] # NULL
    BY <1>1, <1>6, <2>1, SignalsAssumption
  <2> QED
    BY <1>1, <2>1, <2>2 DEF Pointer
<1> QED
  BY <1>6, <1>7, <1>8 DEF chain

(* Redirecting the pointer to a task is one write.                         *)
LEMMA RedirectWrite ==
  ASSUME NEW l \in ListsType, NEW q \in Queue, NEW t \in Task, NEW x
  PROVE  LET n == FirstPlace(l, q, t) IN
         Redirect(l, q, t, x) = IF n = 0 THEN [l EXCEPT ![q] = x]
                                ELSE [l EXCEPT !.next[Chain(l, q)[n - 1]] = x]
BY DEF Redirect, FirstPlace

(* Redirecting the pointer to a task of a queue gives lists, whatever they *)
(* are.                                                                    *)
LEMMA RedirectType ==
  ASSUME NEW l \in ListsType, NEW q \in Queue, NEW t \in Task, t \in Members(l, q), NEW x \in Pointer
  PROVE  Redirect(l, q, t, x) \in ListsType /\ Redirect(l, q, t, x).endless = l.endless
<1> DEFINE n == FirstPlace(l, q, t)
<1>1. n # 0 => Chain(l, q)[n - 1] \in Task
  BY FirstPlaceExists
<1>2. Redirect(l, q, t, x) = IF n = 0 THEN [l EXCEPT ![q] = x]
                             ELSE [l EXCEPT !.next[Chain(l, q)[n - 1]] = x]
  BY RedirectWrite
<1> HIDE DEF n
<1>3. CASE n = 0
  <2> DEFINE m == [l EXCEPT ![q] = x]
  <2>1. m \in ListsType /\ m.endless = l.endless
    BY WriteHead DEF HeadWritten
  <2>2. Redirect(l, q, t, x) = m
    BY <1>2, <1>3
  <2> HIDE DEF m
  <2> QED
    BY <2>1, <2>2
<1>4. CASE n # 0
  BY <1>1, <1>2, <1>4, WriteLink DEF LinkWritten
<1> QED
  BY <1>3, <1>4

(* A task is unlinked from its queue: only its queue is written.           *)
Unlinked(l, q, S, m) ==
  /\ m \in ListsType /\ m.endless = l.endless
  /\ Holds(m, q, S)
  /\ \A u \in Task \ S : m.next[u] = l.next[u]
  /\ \A r \in Queue \ {q} : m[r] = l[r]

(* Redirecting the pointer to a task to its successor takes the task out   *)
(* of its queue and writes no link outside it.                             *)
LEMMA HoldsUnlink ==
  ASSUME NEW l \in ListsType, NEW q \in Queue, NEW S, Holds(l, q, S), NEW t \in S
  PROVE  Unlinked(l, q, S \ {t}, Redirect(l, q, t, l.next[t]))
<1> DEFINE x == l.next[t]
           m == Redirect(l, q, t, x)
           n == FirstPlace(l, q, t)
<1>1. PICK s : Chained(l, q, s) /\ Range(s) = S
  BY DEF Holds
<1>2. /\ Len(s) \in Nat
      /\ \A i, j \in 1..Len(s) : s[i] = s[j] => i = j
      /\ \A j \in 1..Len(s) : s[j] \in Task /\ s[j] \in S
      /\ \A y \in S : y \in Task /\ \E j \in 1..Len(s) : s[j] = y
      /\ Len(s) # 0 => l[q] = s[1]
  BY <1>1, ChainedFacts
<1>3. /\ Len(s) <= Most /\ Most \in Nat
      /\ \A k \in 0..Most : Chain(l, q)[k] = IF k < Len(s) THEN s[k + 1] ELSE NULL
  BY <1>1, ChainFollows
<1>4. t \in Task /\ t \in Members(l, q) /\ x \in Pointer
  BY <1>2, HoldsMembers, Fields
<1>5. n \in 0..Most /\ Chain(l, q)[n] = t /\ (n # 0 => n - 1 \in 0..Most)
  BY <1>4, FirstPlaceExists
<1>6. m = IF n = 0 THEN [l EXCEPT ![q] = x] ELSE [l EXCEPT !.next[Chain(l, q)[n - 1]] = x]
  BY <1>4, RedirectWrite
<1>7. m \in ListsType /\ m.endless = l.endless
  BY <1>4, RedirectType
<1> HIDE DEF n, m
<1> DEFINE i == n + 1
<1>8. n < Len(s) /\ i \in 1..Len(s) /\ s[i] = t
  BY <1>2, <1>3, <1>4, <1>5, SignalsAssumption
<1>9. CASE n = 0
  <2>1. i = 1 /\ l[q] = t
    BY <1>2, <1>8, <1>9
  <2>2. m = [l EXCEPT ![q] = x]
    BY <1>6, <1>9
  <2>3. m[q] = x /\ m.next = l.next /\ \A r \in Queue \ {q} : m[r] = l[r]
    BY <1>4, <2>2, WriteHead DEF HeadWritten
  <2>4. Holds(m, q, S \ {l[q]})
    <3> HIDE DEF x
    <3>1. m[q] = l.next[l[q]]
      BY <2>1, <2>3 DEF x
    <3> QED
      BY <1>7, <2>3, <3>1, HoldsPop
  <2> QED
    BY <1>7, <2>1, <2>3, <2>4 DEF m, Unlinked
<1>10. CASE n # 0
  <2> DEFINE p == s[n]
  <2>1. n \in 1..Len(s) /\ i # 1 /\ i - 1 = n /\ n # i
    BY <1>5, <1>8, <1>10
  <2>2. Chain(l, q)[n - 1] = p /\ p \in Task /\ p \in S /\ p # t
    <3>1. n - 1 \in 0..Most /\ n - 1 < Len(s) /\ (n - 1) + 1 = n
      BY <1>2, <1>5, <1>10, <2>1
    <3>2. Chain(l, q)[n - 1] = s[n]
      BY <1>3, <3>1
    <3> QED
      BY <1>2, <1>8, <2>1, <3>2
  <2>3. m = [l EXCEPT !.next[p] = x]
    BY <1>6, <1>10, <2>2
  <2> HIDE DEF p
  <2>4. /\ m.next[p] = x /\ \A u \in Task \ {p} : m.next[u] = l.next[u]
        /\ \A r \in Queue : m[r] = l[r]
    BY <1>4, <2>2, <2>3, WriteLink DEF LinkWritten
  <2>5. Holds(m, q, Range(s) \ {s[i]})
    <3>1. m[q] = IF i = 1 THEN l.next[s[i]] ELSE l[q]
      BY <2>1, <2>4
    <3>2. i # 1 => m.next[s[i - 1]] = l.next[s[i]]
      BY <1>8, <2>1, <2>4 DEF p
    <3>3. \A j \in 1..Len(s) : j # i /\ j # i - 1 => m.next[s[j]] = l.next[s[j]]
      BY <1>2, <2>1, <2>4 DEF p
    <3> HIDE DEF i
    <3> QED
      BY <1>1, <1>7, <1>8, <3>1, <3>2, <3>3, HoldsWithout
  <2>6. \A u \in Task \ (S \ {t}) : u # p
    BY <2>2
  <2> QED
    BY <1>1, <1>7, <1>8, <2>4, <2>5, <2>6 DEF m, Unlinked
<1> QED
  BY <1>9, <1>10

(* The loop of enqueue ends at a task if the list ends.                    *)
LEMMA LastExists ==
  ASSUME NEW l \in ListsType, NEW q \in Queue, l[q] # NULL, ~Endless(l, q)
  PROVE  \E x \in Members(l, q) : x \in Task /\ l.next[x] = NULL
<1> DEFINE chain == Chain(l, q)
           T == {i \in 0..Most : chain[i] = NULL}
<1>1. /\ Most \in Nat /\ chain \in [0..Most -> Pointer] /\ chain[0] = l[q]
      /\ \A n \in 1..Most : chain[n] = IF chain[n - 1] = NULL THEN NULL ELSE l.next[chain[n - 1]]
  BY ChainDefined
<1>2. \E i \in 0..Most : chain[i] = NULL
  BY DEF Endless, Most
<1>3. \A i \in 0..Most : chain[i] # NULL => chain[i] \in Members(l, q)
  BY DEF Members, Most
<1> HIDE DEF chain
<1>4. T # {} /\ T \in SUBSET Nat
  BY <1>1, <1>2
<1>5. PICK i \in T : \A j \in T : i <= j
  <2> HIDE DEF T
  <2> QED
    BY <1>4, Least
<1>6. i \in 1..Most /\ i - 1 \in 0..Most /\ i - 1 \notin T
  BY <1>1, <1>5
<1>7. chain[i - 1] # NULL /\ chain[i] = NULL
  BY <1>5, <1>6
<1>8. l.next[chain[i - 1]] = NULL /\ chain[i - 1] \in Task
  BY <1>1, <1>6, <1>7 DEF Pointer
<1> QED
  BY <1>3, <1>6, <1>7, <1>8

(* The tasks of a queue are tasks, also if its list is a cycle.            *)
LEMMA MembersType ==
  ASSUME NEW l \in ListsType, NEW q \in Queue
  PROVE  Members(l, q) \subseteq Task
<1>1. Most \in Nat /\ Chain(l, q) \in [0..Most -> Pointer]
  BY ChainDefined
<1> QED
  BY <1>1 DEF Members, Most, Pointer

-----------------------------------------------------------------------------
(* Any lists.                                                              *)

(* The operations on any lists, also broken ones, give lists.              *)
LEMMA EnqueueType ==
  ASSUME NEW l \in ListsType, NEW q \in Queue, NEW t \in Task
  PROVE  Enqueue(l, q, t) \in ListsType
<1> DEFINE cut == [l EXCEPT !.next[t] = NULL]
           last == CHOOSE s \in Members(cut, q) : cut.next[s] = NULL
<1>1. cut \in ListsType
  BY WriteLink DEF Pointer, LinkWritten
<1>2. Enqueue(l, q, t) = CASE cut[q] = NULL -> [cut EXCEPT ![q] = t]
                           [] Endless(cut, q) -> [cut EXCEPT !.endless = TRUE]
                           [] OTHER -> [cut EXCEPT !.next[last] = t]
  BY DEF Enqueue
<1> HIDE DEF cut
<1>3. t \in Pointer
  BY DEF Pointer
<1>4. [cut EXCEPT ![q] = t] \in ListsType
  BY <1>1, <1>3, WriteHead DEF HeadWritten
<1>5. [cut EXCEPT !.endless = TRUE] \in ListsType
  BY <1>1, WriteFlag
<1>6. ASSUME cut[q] # NULL, ~Endless(cut, q) PROVE [cut EXCEPT !.next[last] = t] \in ListsType
  <2>1. last \in Task
    BY <1>1, <1>6, LastExists, MembersType
  <2> HIDE DEF last
  <2> QED
    BY <1>1, <1>3, <2>1, WriteLink DEF LinkWritten
<1> HIDE DEF last
<1>7. CASE cut[q] = NULL /\ ~Endless(cut, q)
  BY <1>2, <1>4, <1>7
<1>8. CASE cut[q] = NULL /\ Endless(cut, q)
  <2>1. NULL \notin {Chain(cut, q)[n] : n \in 0..Most}
    BY <1>8 DEF Endless, Most
  <2>2. Chain(cut, q)[0] = NULL /\ 0 \in 0..Most
    BY <1>1, <1>8, ChainDefined
  <2> QED
    BY <2>1, <2>2
<1>9. CASE cut[q] # NULL /\ Endless(cut, q)
  BY <1>2, <1>5, <1>9
<1>10. CASE cut[q] # NULL /\ ~Endless(cut, q)
  BY <1>2, <1>6, <1>10
<1> QED
  BY <1>7, <1>8, <1>9, <1>10

(* dequeue on any lists.                                                   *)
LEMMA DequeueType ==
  ASSUME NEW l \in ListsType, NEW q \in Queue
  PROVE  Dequeue(l, q) \in ListsType
<1>1. CASE l[q] = NULL
  BY <1>1 DEF Dequeue
<1>2. CASE l[q] # NULL
  <2>1. l.next[l[q]] \in Pointer
    BY <1>2, Fields DEF Pointer
  <2> QED
    BY <1>2, <2>1, WriteHead DEF Dequeue, HeadWritten
<1> QED
  BY <1>1, <1>2

(* kill_thread on any lists.                                               *)
LEMMA KillType ==
  ASSUME NEW l \in ListsType, NEW t
  PROVE  KillThread(l, t) \in ListsType
<1>1. "run_queue" \in Queue /\ "zombies_queue" \in Queue
  BY DEF Queue
<1>2. CASE t \in Members(l, "run_queue")
  <2> DEFINE m == Redirect(l, "run_queue", t, l.next[t])
  <2>1. t \in Task /\ l.next[t] \in Pointer
    BY <1>1, <1>2, MembersType, Fields
  <2>2. m \in ListsType
    BY <1>1, <1>2, <2>1, RedirectType
  <2>3. KillThread(l, t) = Enqueue(m, "zombies_queue", t)
    BY <1>2 DEF KillThread
  <2> HIDE DEF m
  <2> QED
    BY <1>1, <2>1, <2>2, <2>3, EnqueueType
<1>3. CASE t \notin Members(l, "run_queue")
  <2> DEFINE b == l.endless \/ Endless(l, "run_queue")
  <2>1. b \in BOOLEAN
    BY DEF Endless
  <2>2. KillThread(l, t) = [l EXCEPT !.endless = b]
    BY <1>3 DEF KillThread
  <2> HIDE DEF b
  <2> QED
    BY <2>1, <2>2, WriteFlag
<1> QED
  BY <1>2, <1>3

(* remove_task on any lists that have the task in run_queue.               *)
LEMMA RemoveType ==
  ASSUME NEW l \in ListsType, NEW t, t \in Members(l, "run_queue")
  PROVE  RemoveTask(l, t) \in ListsType
<1> DEFINE rest == IF l.run_queue = t THEN l ELSE Redirect(l, "run_queue", t, l.next[t])
<1>1. "run_queue" \in Queue
  BY DEF Queue
<1>2. t \in Task /\ l.next[t] \in Pointer
  BY <1>1, MembersType, Fields
<1>3. rest \in ListsType
  BY <1>1, <1>2, RedirectType
<1>4. RemoveTask(l, t) = [rest EXCEPT !.next[t] = NULL]
  BY DEF RemoveTask
<1> HIDE DEF rest
<1> QED
  BY <1>2, <1>3, <1>4, WriteLink DEF Pointer, LinkWritten

-----------------------------------------------------------------------------
(* Both queues: what the operations do to the sets of their tasks.         *)

(* Each queue q of l holds the tasks G[q], and no two hold the same task.  *)
Queues(l, G) ==
  /\ l \in ListsType
  /\ G \in [Queue -> SUBSET Task]
  /\ \A q \in Queue : Holds(l, q, G[q])
  /\ \A q, r \in Queue : q # r => G[q] \cap G[r] = {}

(* From l to m only links of tasks in S are written.                       *)
OnlyLinks(l, m, S) ==
  m.endless = l.endless /\ \A u \in Task \ S : m.next[u] = l.next[u]

(* A write to links of tasks that are in no queue.                         *)
LEMMA QueuesCut ==
  ASSUME NEW l, NEW G, Queues(l, G), NEW t \in Task, \A q \in Queue : t \notin G[q], NEW x \in Pointer
  PROVE  LET m == [l EXCEPT !.next[t] = x] IN
         Queues(m, G) /\ OnlyLinks(l, m, {t}) /\ m.next[t] = x
<1> DEFINE m == [l EXCEPT !.next[t] = x]
<1>1. l \in ListsType
  BY DEF Queues
<1>2. /\ m \in ListsType /\ m.next[t] = x /\ m.endless = l.endless
      /\ \A u \in Task \ {t} : m.next[u] = l.next[u]
      /\ \A r \in Queue : m[r] = l[r]
  BY <1>1, WriteLink DEF LinkWritten
<1> HIDE DEF m
<1>3. ASSUME NEW q \in Queue PROVE Holds(m, q, G[q])
  <2>1. Holds(l, q, G[q]) /\ G[q] \subseteq Task
    BY DEF Queues
  <2>2. \A u \in G[q] : m.next[u] = l.next[u]
    BY <1>2, <2>1
  <2> QED
    BY <1>1, <1>2, <2>1, <2>2, HoldsSame
<1>4. Queues(m, G)
  BY <1>2, <1>3 DEF Queues
<1>5. OnlyLinks(l, m, {t})
  BY <1>2 DEF OnlyLinks
<1> QED
  BY <1>2, <1>4, <1>5 DEF m

(* What changes one queue q from l to m and leaves the others.             *)
LEMMA QueuesChanged ==
  ASSUME NEW l, NEW G, Queues(l, G), NEW m \in ListsType, NEW q \in Queue,
         NEW S, S \subseteq Task, Holds(m, q, S),
         \A r \in Queue \ {q} : m[r] = l[r] /\ S \cap G[r] = {},
         \A r \in Queue \ {q} : \A u \in G[r] : m.next[u] = l.next[u]
  PROVE  Queues(m, [G EXCEPT ![q] = S])
<1> DEFINE H == [G EXCEPT ![q] = S]
<1>1. l \in ListsType /\ G \in [Queue -> SUBSET Task]
  BY DEF Queues
<1>2. H \in [Queue -> SUBSET Task] /\ H[q] = S /\ \A r \in Queue \ {q} : H[r] = G[r]
  BY <1>1
<1> HIDE DEF H
<1>3. ASSUME NEW r \in Queue PROVE Holds(m, r, H[r])
  <2>1. CASE r = q
    BY <1>2, <2>1
  <2>2. CASE r # q
    <3>1. Holds(l, r, G[r]) /\ m[r] = l[r] /\ \A u \in G[r] : m.next[u] = l.next[u]
      BY <2>2 DEF Queues
    <3> QED
      BY <1>1, <1>2, <2>2, <3>1, HoldsSame
  <2> QED
    BY <2>1, <2>2
<1>4. ASSUME NEW r \in Queue, NEW p \in Queue, r # p PROVE H[r] \cap H[p] = {}
  <2>1. G[r] \cap G[p] = {}
    BY <1>4 DEF Queues
  <2> QED
    BY <1>2, <1>4, <2>1
<1>5. Queues(m, H)
  BY <1>2, <1>3, <1>4 DEF Queues
<1> QED
  BY <1>5 DEF H

(* enqueue of a task that is in no queue.                                  *)
LEMMA EnqueueQueues ==
  ASSUME NEW l, NEW G, Queues(l, G), NEW q \in Queue, NEW t \in Task, \A r \in Queue : t \notin G[r]
  PROVE  LET m == Enqueue(l, q, t) IN
         Queues(m, [G EXCEPT ![q] = G[q] \cup {t}]) /\ OnlyLinks(l, m, G[q] \cup {t})
<1> DEFINE cut == [l EXCEPT !.next[t] = NULL]
           last == CHOOSE s \in Members(cut, q) : cut.next[s] = NULL
           m == Enqueue(l, q, t)
<1>1. Queues(cut, G) /\ OnlyLinks(l, cut, {t}) /\ cut.next[t] = NULL
  <2>1. NULL \in Pointer
    BY DEF Pointer
  <2> QED
    BY <2>1, QueuesCut
<1>2. m = CASE cut[q] = NULL -> [cut EXCEPT ![q] = t]
            [] Endless(cut, q) -> [cut EXCEPT !.endless = TRUE]
            [] OTHER -> [cut EXCEPT !.next[last] = t]
  BY DEF Enqueue
<1> HIDE DEF cut, m
<1>3. /\ cut \in ListsType /\ Holds(cut, q, G[q]) /\ G[q] \subseteq Task /\ t \in Pointer
      /\ \A r \in Queue \ {q} : G[q] \cap G[r] = {}
      /\ G \in [Queue -> SUBSET Task]
  BY <1>1 DEF Queues, Pointer
<1>4. ~Endless(cut, q) /\ Members(cut, q) = G[q] /\ (cut[q] = NULL <=> G[q] = {})
  BY <1>3, HoldsMembers
<1>5. ASSUME NEW S, S = G[q] \cup {t}, m \in ListsType, m.endless = cut.endless,
             Holds(m, q, S), \A r \in Queue \ {q} : m[r] = cut[r],
             \A u \in Task \ G[q] : m.next[u] = cut.next[u]
      PROVE  Queues(m, [G EXCEPT ![q] = S]) /\ OnlyLinks(l, m, S)
  <2>1. S \subseteq Task /\ \A r \in Queue \ {q} : S \cap G[r] = {}
    BY <1>3, <1>5
  <2>2. \A r \in Queue \ {q} : \A u \in G[r] : m.next[u] = cut.next[u]
    BY <1>3, <1>5
  <2>3. Queues(m, [G EXCEPT ![q] = S])
    <3>1. /\ Queues(cut, G) /\ m \in ListsType /\ Holds(m, q, S) /\ S \subseteq Task
          /\ \A r \in Queue \ {q} : m[r] = cut[r] /\ S \cap G[r] = {}
      BY <1>1, <1>5, <2>1
    <3> QED
      BY <2>2, <3>1, QueuesChanged
  <2>4. OnlyLinks(l, m, S)
    BY <1>1, <1>5 DEF OnlyLinks
  <2> QED
    BY <2>3, <2>4
<1>6. CASE cut[q] = NULL
  <2>1. m = [cut EXCEPT ![q] = t]
    BY <1>2, <1>4, <1>6
  <2>2. /\ m \in ListsType /\ m[q] = t /\ m.next = cut.next /\ m.endless = cut.endless
        /\ \A r \in Queue \ {q} : m[r] = cut[r]
    <3> DEFINE w == [cut EXCEPT ![q] = t]
    <3>1. /\ w \in ListsType /\ w[q] = t /\ w.next = cut.next /\ w.endless = cut.endless
          /\ \A r \in Queue \ {q} : w[r] = cut[r]
      BY <1>3, WriteHead DEF HeadWritten
    <3>2. m = w
      BY <2>1
    <3> HIDE DEF w
    <3> QED
      BY <2>1, <3>1, <3>2
  <2>3. Holds(m, q, {t}) /\ {t} = G[q] \cup {t}
    BY <1>1, <1>4, <1>6, <2>2, HoldsSingle
  <2> QED
    BY <1>5, <2>2, <2>3 DEF m
<1>7. CASE cut[q] # NULL
  <2>1. PICK x \in G[q] : cut.next[x] = NULL /\ \A u \in G[q] : cut.next[u] = NULL => u = x
    BY <1>3, <1>4, <1>7, HoldsLast
  <2>2. last = x
    BY <1>4, <2>1
  <2>3. m = [cut EXCEPT !.next[x] = t] /\ x \in Task
    BY <1>2, <1>3, <1>4, <1>7, <2>2
  <2>4. /\ m \in ListsType /\ m.next[x] = t /\ m.endless = cut.endless
        /\ \A u \in Task \ {x} : m.next[u] = cut.next[u]
        /\ \A r \in Queue : m[r] = cut[r]
    <3> DEFINE w == [cut EXCEPT !.next[x] = t]
    <3>1. /\ w \in ListsType /\ w.next[x] = t /\ w.endless = cut.endless
          /\ \A u \in Task \ {x} : w.next[u] = cut.next[u]
          /\ \A r \in Queue : w[r] = cut[r]
      <4>1. cut \in ListsType /\ x \in Task /\ t \in Pointer
        BY <1>3, <2>3
      <4> QED
        BY <4>1, WriteLink DEF LinkWritten
    <3>2. m = w
      BY <2>3
    <3> HIDE DEF w
    <3> QED
      BY <3>1, <3>2
  <2>5. m.next[t] = NULL /\ \A u \in G[q] \ {x} : m.next[u] = cut.next[u]
    BY <1>1, <1>3, <2>1, <2>4
  <2>6. Holds(m, q, G[q] \cup {t})
    BY <1>3, <2>1, <2>4, <2>5, HoldsAppend
  <2> QED
    BY <1>5, <2>1, <2>4, <2>6 DEF m
<1> QED
  BY <1>6, <1>7

(* dequeue.                                                                *)
LEMMA DequeueQueues ==
  ASSUME NEW l, NEW G, Queues(l, G), NEW q \in Queue
  PROVE  LET m == Dequeue(l, q) IN
         /\ Queues(m, [G EXCEPT ![q] = G[q] \ {l[q]}])
         /\ m.next = l.next /\ m.endless = l.endless
         /\ l[q] # NULL => l[q] \in G[q]
<1> DEFINE m == Dequeue(l, q)
<1>1. /\ l \in ListsType /\ Holds(l, q, G[q]) /\ G[q] \subseteq Task
      /\ G \in [Queue -> SUBSET Task]
      /\ \A r \in Queue \ {q} : G[q] \cap G[r] = {}
  BY DEF Queues
<1>2. (l[q] = NULL <=> G[q] = {}) /\ (l[q] # NULL => l[q] \in G[q])
  BY <1>1, HoldsMembers
<1>3. CASE l[q] = NULL
  <2>1. m = l /\ G[q] \ {l[q]} = G[q]
    BY <1>2, <1>3 DEF Dequeue
  <2>2. [G EXCEPT ![q] = G[q]] = G
    BY <1>1
  <2> QED
    BY <1>2, <2>1, <2>2
<1>4. CASE l[q] # NULL
  <2> DEFINE x == l.next[l[q]]
  <2>1. x \in Pointer
    BY <1>1, <1>4, Fields DEF Pointer
  <2>2. m = [l EXCEPT ![q] = x]
    BY <1>4 DEF Dequeue
  <2> HIDE DEF m
  <2>3. /\ m \in ListsType /\ m[q] = x /\ m.next = l.next /\ m.endless = l.endless
        /\ \A r \in Queue \ {q} : m[r] = l[r]
    <3> HIDE DEF x
    <3> DEFINE w == [l EXCEPT ![q] = x]
    <3>1. /\ w \in ListsType /\ w[q] = x /\ w.next = l.next /\ w.endless = l.endless
          /\ \A r \in Queue \ {q} : w[r] = l[r]
      BY <1>1, <2>1, WriteHead DEF HeadWritten
    <3>2. m = w
      BY <2>2
    <3> HIDE DEF w
    <3> QED
      BY <3>1, <3>2
  <2> DEFINE S == G[q] \ {l[q]}
  <2>4. Holds(m, q, S)
    BY <1>1, <1>2, <1>4, <2>3, HoldsPop
  <2>5. S \subseteq Task /\ \A r \in Queue \ {q} : S \cap G[r] = {}
    BY <1>1
  <2> HIDE DEF S, x
  <2>6. Queues(m, [G EXCEPT ![q] = S])
    BY <2>3, <2>4, <2>5, QueuesChanged
  <2> QED
    BY <1>2, <2>3, <2>6 DEF m, S
<1> QED
  BY <1>3, <1>4

(* A task is unlinked from the queue it is in.                             *)
LEMMA UnlinkQueues ==
  ASSUME NEW l, NEW G, Queues(l, G), NEW q \in Queue, NEW t \in G[q]
  PROVE  LET m == Redirect(l, q, t, l.next[t]) IN
         /\ Queues(m, [G EXCEPT ![q] = G[q] \ {t}]) /\ OnlyLinks(l, m, G[q] \ {t})
         /\ t \in Task /\ \A r \in Queue : t \notin [G EXCEPT ![q] = G[q] \ {t}][r]
<1> DEFINE m == Redirect(l, q, t, l.next[t])
           S == G[q] \ {t}
<1>1. /\ l \in ListsType /\ Holds(l, q, G[q]) /\ G[q] \subseteq Task
      /\ G \in [Queue -> SUBSET Task]
      /\ \A r \in Queue \ {q} : G[q] \cap G[r] = {}
  BY DEF Queues
<1>2. /\ m \in ListsType /\ m.endless = l.endless /\ Holds(m, q, S)
      /\ \A u \in Task \ S : m.next[u] = l.next[u]
      /\ \A r \in Queue \ {q} : m[r] = l[r]
  <2>1. l \in ListsType /\ Holds(l, q, G[q]) /\ t \in G[q] /\ q \in Queue
    BY <1>1
  <2>2. Unlinked(l, q, S, m)
    BY <2>1, HoldsUnlink
  <2> HIDE DEF m, S
  <2> QED
    BY <2>2 DEF Unlinked
<1>3. S \subseteq Task /\ \A r \in Queue \ {q} : S \cap G[r] = {}
  BY <1>1
<1>4. t \in Task /\ \A r \in Queue : t \notin [G EXCEPT ![q] = S][r]
  BY <1>1
<1> HIDE DEF m
<1>5. \A r \in Queue \ {q} : \A u \in G[r] : m.next[u] = l.next[u]
  <2> SUFFICES ASSUME NEW r \in Queue \ {q}, NEW u \in G[r] PROVE m.next[u] = l.next[u]
    OBVIOUS
  <2>1. u \in Task \ S
    BY <1>1
  <2> HIDE DEF S
  <2> QED
    BY <1>2, <2>1
<1> HIDE DEF S
<1>6. Queues(m, [G EXCEPT ![q] = S])
  BY <1>2, <1>3, <1>5, QueuesChanged
<1>7. OnlyLinks(l, m, S)
  BY <1>2 DEF OnlyLinks
<1> QED
  BY <1>4, <1>6, <1>7 DEF m, S

(* The sets of the queues after kill_thread of t.                          *)
Moved(G, t) ==
  IF t \in G["run_queue"]
  THEN [[G EXCEPT !["run_queue"] = G["run_queue"] \ {t}]
          EXCEPT !["zombies_queue"] = G["zombies_queue"] \cup {t}]
  ELSE G

(* The tasks of both queues.                                               *)
Queued(G) == G["run_queue"] \cup G["zombies_queue"]

(* The queues by their names, for the provers.                             *)
LEMMA QueueNames ==
  /\ "run_queue" \in Queue /\ "zombies_queue" \in Queue /\ "run_queue" # "zombies_queue"
  /\ \A q \in Queue : q = "run_queue" \/ q = "zombies_queue"
  /\ \A l : l.run_queue = l["run_queue"] /\ l.zombies_queue = l["zombies_queue"]
BY DEF Queue

(* The queues as two sets of tasks.                                        *)
LEMMA QueuesFacts ==
  ASSUME NEW l, NEW G, Queues(l, G)
  PROVE  /\ l \in ListsType
         /\ G \in [Queue -> SUBSET Task]
         /\ G["run_queue"] \subseteq Task /\ G["zombies_queue"] \subseteq Task
         /\ \A t : ~(t \in G["run_queue"] /\ t \in G["zombies_queue"])
         /\ Members(l, "run_queue") = G["run_queue"]
         /\ Members(l, "zombies_queue") = G["zombies_queue"]
         /\ ~Endless(l, "run_queue") /\ ~Endless(l, "zombies_queue")
         /\ l.run_queue = NULL <=> G["run_queue"] = {}
         /\ l.run_queue # NULL => l.run_queue \in G["run_queue"]
<1>1. l \in ListsType /\ G \in [Queue -> SUBSET Task]
  BY DEF Queues
<1>2. "run_queue" \in Queue /\ "zombies_queue" \in Queue
  BY QueueNames
<1>3. Holds(l, "run_queue", G["run_queue"]) /\ Holds(l, "zombies_queue", G["zombies_queue"])
  BY <1>2 DEF Queues
<1>4. G["run_queue"] \cap G["zombies_queue"] = {}
  BY <1>2, QueueNames DEF Queues
<1>5. l.run_queue = l["run_queue"]
  BY QueueNames
<1> QED
  BY <1>1, <1>2, <1>3, <1>4, <1>5, HoldsMembers

(* The sets of the queues after kill_thread.                               *)
LEMMA MovedFacts ==
  ASSUME NEW G \in [Queue -> SUBSET Task], NEW t
  PROVE  /\ t \in G["run_queue"] =>
              /\ Moved(G, t)["run_queue"] = G["run_queue"] \ {t}
              /\ Moved(G, t)["zombies_queue"] = G["zombies_queue"] \cup {t}
         /\ t \notin G["run_queue"] => Moved(G, t) = G
BY QueueNames DEF Moved

(* kill_thread of a task that is in run_queue moves it; of any other task  *)
(* it does nothing.                                                        *)
LEMMA KillQueues ==
  ASSUME NEW l, NEW G, Queues(l, G), NEW t
  PROVE  Queues(KillThread(l, t), Moved(G, t)) /\ OnlyLinks(l, KillThread(l, t), Queued(G))
<1>1. /\ l \in ListsType /\ G \in [Queue -> SUBSET Task]
      /\ "run_queue" \in Queue /\ "zombies_queue" \in Queue
      /\ Members(l, "run_queue") = G["run_queue"] /\ ~Endless(l, "run_queue")
  BY QueuesFacts, QueueNames
<1>2. CASE t \in G["run_queue"]
  <2> DEFINE m == Redirect(l, "run_queue", t, l.next[t])
             H == [G EXCEPT !["run_queue"] = G["run_queue"] \ {t}]
             S == G["run_queue"] \ {t}
             e == Enqueue(m, "zombies_queue", t)
  <2>1. KillThread(l, t) = e
    BY <1>1, <1>2 DEF KillThread
  <2>2. /\ Queues(m, H) /\ OnlyLinks(l, m, S)
        /\ t \in Task /\ \A r \in Queue : t \notin H[r]
    BY <1>1, <1>2, UnlinkQueues
  <2>3. H["zombies_queue"] = G["zombies_queue"]
    BY <1>1, QueueNames
  <2>4. Moved(G, t) = [H EXCEPT !["zombies_queue"] = H["zombies_queue"] \cup {t}]
    BY <1>2, <2>3 DEF Moved
  <2> HIDE DEF m, H
  <2>5. Queues(e, [H EXCEPT !["zombies_queue"] = H["zombies_queue"] \cup {t}])
        /\ OnlyLinks(m, e, H["zombies_queue"] \cup {t})
    BY <1>1, <2>2, EnqueueQueues
  <2> HIDE DEF e
  <2>6. S \subseteq Queued(G) /\ H["zombies_queue"] \cup {t} \subseteq Queued(G)
    BY <1>2, <2>3 DEF Queued
  <2> HIDE DEF S
  <2>7. OnlyLinks(l, e, Queued(G))
    BY <2>2, <2>5, <2>6 DEF OnlyLinks
  <2> QED
    BY <2>1, <2>4, <2>5, <2>7
<1>3. CASE t \notin G["run_queue"]
  <2> DEFINE m == [l EXCEPT !.endless = l.endless \/ Endless(l, "run_queue")]
  <2>1. KillThread(l, t) = m
    BY <1>1, <1>3 DEF KillThread
  <2>2. m \in ListsType /\ m.endless = l.endless /\ m.next = l.next /\ \A q \in Queue : m[q] = l[q]
    BY <1>1 DEF ListsType, Queue
  <2> HIDE DEF m
  <2>3. \A q \in Queue : Holds(m, q, G[q])
    <3> SUFFICES ASSUME NEW q \in Queue PROVE Holds(m, q, G[q])
      OBVIOUS
    <3>1. Holds(l, q, G[q])
      BY DEF Queues
    <3> QED
      BY <1>1, <2>2, <3>1, HoldsSame
  <2>4. Queues(m, G) /\ OnlyLinks(l, m, Queued(G))
    BY <2>2, <2>3 DEF Queues, OnlyLinks
  <2> QED
    BY <1>3, <2>1, <2>4 DEF Moved
<1> QED
  BY <1>2, <1>3

(* remove_task of a task that is not the first one.                        *)
LEMMA RemoveQueues ==
  ASSUME NEW l, NEW G, Queues(l, G), NEW t \in G["run_queue"], t # l.run_queue
  PROVE  /\ Queues(RemoveTask(l, t), [G EXCEPT !["run_queue"] = G["run_queue"] \ {t}])
         /\ OnlyLinks(l, RemoveTask(l, t), Queued(G))
         /\ RemoveTask(l, t).next[t] = NULL
<1>1. /\ l \in ListsType /\ G \in [Queue -> SUBSET Task]
      /\ "run_queue" \in Queue /\ NULL \in Pointer
  BY QueuesFacts, QueueNames DEF Pointer
<1> DEFINE m == Redirect(l, "run_queue", t, l.next[t])
           H == [G EXCEPT !["run_queue"] = G["run_queue"] \ {t}]
           S == G["run_queue"] \ {t}
           e == [m EXCEPT !.next[t] = NULL]
<1>2. RemoveTask(l, t) = e
  BY DEF RemoveTask
<1>3. /\ Queues(m, H) /\ OnlyLinks(l, m, S)
      /\ t \in Task /\ \A r \in Queue : t \notin H[r]
  BY <1>1, UnlinkQueues
<1>4. S \subseteq Queued(G) /\ t \in Queued(G)
  BY DEF Queued
<1> HIDE DEF m, H
<1>5. Queues(e, H) /\ OnlyLinks(m, e, {t}) /\ e.next[t] = NULL
  <2>1. Queues(m, H) /\ t \in Task /\ (\A r \in Queue : t \notin H[r]) /\ NULL \in Pointer
    BY <1>1, <1>3
  <2> QED
    BY <2>1, QueuesCut
<1> HIDE DEF e, S
<1>6. OnlyLinks(l, e, Queued(G))
  BY <1>3, <1>4, <1>5 DEF OnlyLinks
<1> QED
  BY <1>2, <1>5, <1>6 DEF H

(* The link of the wrapper, behind the last task.                          *)
LEMMA LinkQueues ==
  ASSUME NEW l, NEW G, Queues(l, G), NEW x \in G["run_queue"], l.next[x] = NULL,
         NEW t \in Task, t \notin G["run_queue"], t \notin G["zombies_queue"], l.next[t] = NULL
  PROVE  LET m == [l EXCEPT !.next[x] = t] IN
         /\ Queues(m, [G EXCEPT !["run_queue"] = G["run_queue"] \cup {t}])
         /\ OnlyLinks(l, m, Queued(G))
<1> DEFINE m == [l EXCEPT !.next[x] = t]
           S == G["run_queue"] \cup {t}
<1>1. /\ l \in ListsType /\ G \in [Queue -> SUBSET Task]
      /\ G["run_queue"] \subseteq Task
      /\ \A u : ~(u \in G["run_queue"] /\ u \in G["zombies_queue"])
      /\ "run_queue" \in Queue /\ t \in Pointer /\ x \in Task
  BY QueuesFacts, QueueNames DEF Pointer
<1>2. LinkWritten(l, x, t, m)
  BY <1>1, WriteLink
<1>3. Holds(l, "run_queue", G["run_queue"])
  BY <1>1 DEF Queues
<1> HIDE DEF m
<1>4. /\ m \in ListsType /\ m.next[x] = t /\ m.endless = l.endless
      /\ \A u \in Task \ {x} : m.next[u] = l.next[u]
      /\ \A r \in Queue : m[r] = l[r]
  BY <1>2 DEF LinkWritten
<1>5. m.next[t] = NULL
  BY <1>1, <1>4
<1>6. Holds(m, "run_queue", S)
  BY <1>1, <1>3, <1>4, <1>5, HoldsAppend
<1>7. /\ S \subseteq Task
      /\ \A r \in Queue \ {"run_queue"} : r = "zombies_queue"
      /\ \A r \in Queue \ {"run_queue"} : S \cap G[r] = {} /\ \A u \in G[r] : u \in Task \ {x}
  BY <1>1, QueueNames
<1> HIDE DEF S
<1>8. Queues(m, [G EXCEPT !["run_queue"] = S])
  <2>1. \A r \in Queue \ {"run_queue"} : m[r] = l[r] /\ S \cap G[r] = {}
    BY <1>4, <1>7
  <2>2. \A r \in Queue \ {"run_queue"} : \A u \in G[r] : m.next[u] = l.next[u]
    BY <1>4, <1>7
  <2>3. m \in ListsType /\ S \subseteq Task /\ "run_queue" \in Queue
    BY <1>1, <1>4, <1>7
  <2> QED
    BY <1>6, <2>1, <2>2, <2>3, QueuesChanged
<1>9. OnlyLinks(l, m, Queued(G))
  BY <1>4 DEF OnlyLinks, Queued
<1> QED
  BY <1>8, <1>9 DEF m, S

-----------------------------------------------------------------------------
(* The places of the tasks, and schedule().                                *)

(* The statements of a wrapper until its target is back, or given up.      *)
Awaiting == {"test", "call", "handler", "add", "walk", "link", "clear", "kill"}

(* Where the tasks are, at control points p: c runs, T are parked, and the *)
(* queues of l hold G.                                                     *)
Placed(l, G, c, T, p) ==
  /\ Queues(l, G)
  /\ c \in Task /\ c \notin T /\ c \notin Queued(G)
  /\ T \subseteq Task /\ T \cap Queued(G) = {}
  /\ \A t \in T : l.next[t] = NULL
  /\ \A t \in Task : p[t] \in {"unused", "freed"} <=> t # c /\ t \notin T /\ t \notin Queued(G)
  /\ \A t \in G["zombies_queue"] : p[t] \notin Awaiting

(* The lists after schedule(), which puts the task current into queue q.   *)
Switched(l, q) ==
  Enqueue([Dequeue(l, "run_queue") EXCEPT !.next[current] = NULL], q, current)

(* schedule() on any lists.                                                *)
LEMMA SwitchedType ==
  ASSUME NEW l \in ListsType, NEW q \in Queue, current \in Task
  PROVE  Switched(l, q) \in ListsType
<1> DEFINE d == Dequeue(l, "run_queue")
           cut == [d EXCEPT !.next[current] = NULL]
<1>1. "run_queue" \in Queue /\ NULL \in Pointer
  BY QueueNames DEF Pointer
<1>2. d \in ListsType
  BY <1>1, DequeueType
<1> HIDE DEF d
<1>3. cut \in ListsType
  BY <1>1, <1>2, WriteLink DEF LinkWritten
<1>4. Switched(l, q) = Enqueue(cut, q, current)
  BY DEF Switched, d
<1> HIDE DEF cut
<1> QED
  BY <1>3, <1>4, EnqueueType

(* What schedule() does to the queues: the first task leaves, the running  *)
(* one is queued.                                                          *)
SwitchedTo(l, m, G, H, q) ==
  /\ Queues(m, H)
  /\ OnlyLinks(l, m, Queued(G) \cup {current})
  /\ Queued(H) = (Queued(G) \cup {current}) \ {l.run_queue}
  /\ H["zombies_queue"] = IF q = "zombies_queue" THEN G["zombies_queue"] \cup {current}
                          ELSE G["zombies_queue"]

(* schedule() takes the first task and queues the running one.             *)
LEMMA SwitchedQueues ==
  ASSUME NEW l, NEW G, Queues(l, G), NEW q \in Queue, current \in Task, current \notin Queued(G)
  PROVE  \E H : SwitchedTo(l, Switched(l, q), G, H, q)
<1> DEFINE d == Dequeue(l, "run_queue")
           next == l.run_queue
           D == [G EXCEPT !["run_queue"] = G["run_queue"] \ {next}]
           cut == [d EXCEPT !.next[current] = NULL]
           e == Enqueue(cut, q, current)
           H == [D EXCEPT ![q] = D[q] \cup {current}]
<1>1. /\ "run_queue" \in Queue /\ NULL \in Pointer /\ l.run_queue = l["run_queue"]
      /\ l \in ListsType /\ G \in [Queue -> SUBSET Task]
      /\ G["run_queue"] \subseteq Task
      /\ \A t : ~(t \in G["run_queue"] /\ t \in G["zombies_queue"])
      /\ next = NULL \/ next \in G["run_queue"]
  BY QueuesFacts, QueueNames DEF Pointer
<1>2. Queues(d, D) /\ d.next = l.next /\ d.endless = l.endless
  BY <1>1, DequeueQueues
<1>3. /\ D \in [Queue -> SUBSET Task]
      /\ D["run_queue"] = G["run_queue"] \ {next} /\ D["zombies_queue"] = G["zombies_queue"]
  BY <1>1, QueueNames
<1>4. \A r \in Queue : current \notin D[r]
  BY <1>3, QueueNames DEF Queued
<1>5. Switched(l, q) = e
  BY DEF Switched
<1> HIDE DEF d, D
<1>6. Queues(cut, D) /\ OnlyLinks(d, cut, {current})
  BY <1>1, <1>2, <1>4, QueuesCut
<1> HIDE DEF cut
<1>7. Queues(e, H) /\ OnlyLinks(cut, e, D[q] \cup {current})
  BY <1>4, <1>6, EnqueueQueues
<1> HIDE DEF e
<1>8. D[q] \subseteq Queued(G)
  BY <1>3, QueueNames DEF Queued
<1>9. OnlyLinks(l, e, Queued(G) \cup {current})
  BY <1>2, <1>6, <1>7, <1>8 DEF OnlyLinks
<1>10. H["zombies_queue"] = IF q = "zombies_queue" THEN G["zombies_queue"] \cup {current}
                            ELSE G["zombies_queue"]
  BY <1>3, QueueNames
<1>11. H["run_queue"] = IF q = "run_queue" THEN (G["run_queue"] \ {next}) \cup {current}
                        ELSE G["run_queue"] \ {next}
  BY <1>3, QueueNames
<1> HIDE DEF H
<1>12. Queued(H) = (Queued(G) \cup {current}) \ {next}
  <2>1. next # current
    BY <1>1, SignalsAssumption DEF Queued
  <2>2. next \notin G["zombies_queue"]
    <3>1. next = NULL => next \notin G["zombies_queue"]
      BY QueuesFacts, SignalsAssumption
    <3> QED
      BY <1>1, <3>1
  <2> QED
    BY <1>10, <1>11, <2>1, <2>2, QueueNames DEF Queued
<1> QED
  BY <1>5, <1>7, <1>9, <1>10, <1>12 DEF SwitchedTo

(* Why a task runs, or why none does.                                      *)
Cpu == {"tasks", "shell", "null", "hangs", "dead task"}

(* What schedule() does to the variables, by where it puts the running     *)
(* task.                                                                   *)
LEMMA ScheduleFacts ==
  ASSUME NEW l \in ListsType, current \in Task, NEW p, Schedule(l, p)
  PROVE  \E q \in Queue :
           /\ q = IF p[current] = "exited" THEN "zombies_queue" ELSE "run_queue"
           /\ lists' = Switched(l, q) /\ lists' \in ListsType
           /\ pc' = p
           /\ cpu' \in Cpu
           /\ cpu' \in {"shell", "hangs"} => current' = current
           /\ cpu' \notin {"shell", "hangs"} => current' = l.run_queue
           /\ cpu' \in {"tasks", "dead task"} => current' \in Task
           /\ cpu' = "tasks" => p[current'] \notin {"exited", "freed"}
<1> DEFINE q == IF p[current] = "exited" THEN "zombies_queue" ELSE "run_queue"
           next == l.run_queue
           queued == Switched(l, q)
<1>1. q \in Queue /\ "run_queue" \in Queue
  BY QueueNames
<1>2. queued \in ListsType
  BY <1>1, SwitchedType
<1>3. next \in Pointer
  BY <1>1, Fields, QueueNames
<1>4. /\ lists' = queued
      /\ pc' = p
      /\ cpu' = CASE queued.endless -> "hangs"
                  [] ~queued.endless /\ current = Idle /\ next = NULL -> "shell"
                  [] ~queued.endless /\ current # Idle /\ next = NULL -> "null"
                  [] ~queued.endless /\ next # NULL ->
                       IF p[next] \in {"exited", "freed"} THEN "dead task" ELSE "tasks"
      /\ current' = IF cpu' \in {"shell", "hangs"} THEN current ELSE next
  BY Zenon DEF Schedule, Switched
<1> HIDE DEF queued, q
<1>5. queued.endless \in BOOLEAN
  BY <1>1, <1>2, Fields
<1>6. CASE queued.endless
  BY <1>1, <1>2, <1>4, <1>6 DEF Cpu, queued, q
<1>7. CASE ~queued.endless /\ current = Idle /\ next = NULL
  BY <1>1, <1>2, <1>4, <1>7 DEF Cpu, queued, q
<1>8. CASE ~queued.endless /\ current # Idle /\ next = NULL
  BY <1>1, <1>2, <1>4, <1>8 DEF Cpu, queued, q
<1>9. CASE ~queued.endless /\ next # NULL
  BY <1>1, <1>2, <1>3, <1>4, <1>9 DEF Cpu, queued, q, Pointer
<1> QED
  BY <1>5, <1>6, <1>7, <1>8, <1>9

(* The places after schedule() at control points p: the running task has   *)
(* been queued, as a zombie if it has exited.                              *)
Rescheduled(G, H, T, p) ==
  /\ Placed(lists', H, current', T, pc')
  /\ H["zombies_queue"] = IF p[current] = "exited" THEN G["zombies_queue"] \cup {current}
                          ELSE G["zombies_queue"]

(* If schedule() switches to a task, every task is still in one place.     *)
LEMMA SchedulePlaced ==
  ASSUME NEW l, NEW G, NEW T, NEW p, Placed(l, G, current, T, p), p \in [Task -> Pc],
         Schedule(l, p), cpu' = "tasks"
  PROVE  \E H : Rescheduled(G, H, T, p)
<1>1. /\ Queues(l, G) /\ l \in ListsType
      /\ current \in Task /\ current \notin T /\ current \notin Queued(G)
      /\ T \subseteq Task /\ T \cap Queued(G) = {}
      /\ \A t \in T : l.next[t] = NULL
      /\ \A t \in Task : p[t] \in {"unused", "freed"} <=> t # current /\ t \notin T /\ t \notin Queued(G)
      /\ \A t \in G["zombies_queue"] : p[t] \notin Awaiting
      /\ l.run_queue # NULL => l.run_queue \in Queued(G)
      /\ Queued(G) \subseteq Task
  BY QueuesFacts DEF Placed, Queued
<1>2. PICK q \in Queue :
           /\ q = IF p[current] = "exited" THEN "zombies_queue" ELSE "run_queue"
           /\ lists' = Switched(l, q)
           /\ pc' = p
           /\ current' = l.run_queue /\ current' \in Task
  BY <1>1, ScheduleFacts
<1>3. PICK H : /\ Queues(lists', H)
               /\ OnlyLinks(l, lists', Queued(G) \cup {current})
               /\ Queued(H) = (Queued(G) \cup {current}) \ {l.run_queue}
               /\ H["zombies_queue"] = IF q = "zombies_queue" THEN G["zombies_queue"] \cup {current}
                                       ELSE G["zombies_queue"]
  <2>1. Queues(l, G) /\ current \in Task /\ current \notin Queued(G)
    BY <1>1
  <2>2. \E H : SwitchedTo(l, Switched(l, q), G, H, q)
    BY <2>1, SwitchedQueues
  <2>3. \E H : SwitchedTo(l, lists', G, H, q)
    BY <1>2, <2>2
  <2> QED
    BY <2>3 DEF SwitchedTo
<1>4. H["zombies_queue"] = IF p[current] = "exited" THEN G["zombies_queue"] \cup {current}
                           ELSE G["zombies_queue"]
  BY <1>2, <1>3, QueueNames
<1>5. current' \in Queued(G) /\ current' # current
  BY <1>1, <1>2, SignalsAssumption
<1>6. \A t \in T : lists'.next[t] = NULL
  BY <1>1, <1>3 DEF OnlyLinks
<1>7. current' \notin T /\ current' \notin Queued(H) /\ T \cap Queued(H) = {}
  BY <1>1, <1>2, <1>3, <1>5
<1>8. \A t \in Task : (t # current /\ t \notin Queued(G)) <=> (t # current' /\ t \notin Queued(H))
  BY <1>2, <1>3, <1>5
<1>9. \A t \in H["zombies_queue"] : pc'[t] \notin Awaiting
  BY <1>1, <1>2, <1>4 DEF Awaiting
<1>10. Placed(lists', H, current', T, pc')
  BY <1>1, <1>2, <1>3, <1>6, <1>7, <1>8, <1>9 DEF Placed
<1> QED
  BY <1>4, <1>10 DEF Rescheduled

-----------------------------------------------------------------------------
(* The types, kept by every step.                                          *)

(* The target while it is in temp_queue and not yet linked.                *)
Parked == IF temp_queue # NULL /\ \A u \in Task : pc[u] # "clear" THEN {temp_queue} ELSE {}

(* The walk ends at a task.                                                *)
WalkEnds == \A t \in Task : pc[t] = "link" => walk[t] # NULL

(* The types of the variables.                                             *)
Typed ==
  /\ lists \in ListsType
  /\ current \in IF cpu = "null" THEN Pointer ELSE Task
  /\ temp_queue \in Pointer
  /\ signal \in [handler : BOOLEAN, pid : Pointer, exit : BOOLEAN]
  /\ handlers \subseteq Task
  /\ pc \in [Task -> Pc]
  /\ walk \in [Task -> Pointer]
  /\ cpu \in Cpu
  /\ spoiled \in BOOLEAN
  /\ WalkEnds

(* The types of this module are those of the specification.                *)
LEMMA TypedIsTypeOK == Typed => TypeOK
<1> SUFFICES ASSUME Typed PROVE TypeOK
  OBVIOUS
<1>1. /\ lists.run_queue \in Task \cup {NULL}
      /\ lists.zombies_queue \in Task \cup {NULL}
      /\ lists.next \in [Task -> Task \cup {NULL}]
      /\ lists.endless \in BOOLEAN
  BY DEF Typed, ListsType, Pointer
<1> QED
  BY <1>1 DEF Typed, TypeOK, Cpu, Pointer

(* schedule() keeps the types, on any lists.                               *)
LEMMA ScheduleTyped ==
  ASSUME Typed, cpu = "tasks", NEW l \in ListsType, NEW p \in [Task -> Pc],
         \A t \in Task : p[t] = "link" => pc[t] = "link",
         Schedule(l, p), UNCHANGED <<temp_queue, handlers, walk>>,
         signal' \in [handler : BOOLEAN, pid : Pointer, exit : BOOLEAN], spoiled' \in BOOLEAN
  PROVE  Typed'
<1>1. current \in Task
  BY DEF Typed
<1>2. /\ lists' \in ListsType
      /\ pc' = p
      /\ cpu' \in Cpu
      /\ cpu' \in {"shell", "hangs"} => current' = current
      /\ cpu' \notin {"shell", "hangs"} => current' = l.run_queue
      /\ cpu' \in {"tasks", "dead task"} => current' \in Task
  BY <1>1, ScheduleFacts
<1>3. l.run_queue \in Pointer
  BY DEF ListsType
<1>4. current' \in IF cpu' = "null" THEN Pointer ELSE Task
  BY <1>1, <1>2, <1>3 DEF Cpu
<1>5. WalkEnds'
  BY <1>2 DEF Typed, WalkEnds
<1> QED
  BY <1>2, <1>4, <1>5 DEF Typed

(* The loop of idle_thread keeps the types.                                *)
LEMMA IdleLoopTyped == ASSUME Typed, IdleLoop PROVE Typed'
<1> DEFINE zombie == lists.zombies_queue
           p == IF zombie = NULL THEN pc ELSE [pc EXCEPT ![zombie] = "freed"]
           l == Dequeue(lists, "zombies_queue")
<1>1. cpu = "tasks" /\ Schedule(l, p) /\ UNCHANGED <<temp_queue, signal, handlers, walk, spoiled>>
  BY DEF IdleLoop
<1>2. l \in ListsType
  BY DequeueType, QueueNames DEF Typed
<1>3. zombie \in Pointer
  BY DEF Typed, ListsType
<1>4. p \in [Task -> Pc] /\ \A t \in Task : p[t] = "link" => pc[t] = "link"
  BY <1>3 DEF Typed, Pc, Pointer
<1>5. signal' \in [handler : BOOLEAN, pid : Pointer, exit : BOOLEAN] /\ spoiled' \in BOOLEAN
  BY <1>1 DEF Typed
<1> HIDE DEF l, p
<1> QED
  BY <1>1, <1>2, <1>4, <1>5, ScheduleTyped

(* The timer interrupt keeps the types.                                    *)
LEMMA PreemptTyped == ASSUME Typed, Preempt PROVE Typed'
<1>1. /\ cpu = "tasks" /\ Schedule(lists, pc) /\ UNCHANGED <<temp_queue, signal, handlers, walk, spoiled>>
      /\ lists \in ListsType /\ pc \in [Task -> Pc]
      /\ signal' \in [handler : BOOLEAN, pid : Pointer, exit : BOOLEAN] /\ spoiled' \in BOOLEAN
  BY DEF Preempt, Typed
<1> QED
  BY <1>1, ScheduleTyped

(* exit keeps the types, of a program or of a wrapper.                     *)
LEMMA ExitTaskTyped ==
  ASSUME Typed, cpu = "tasks", ExitTask, spoiled' \in BOOLEAN
  PROVE  Typed'
<1> DEFINE killed == IF signal.exit THEN KillThread(lists, signal.pid) ELSE lists
           p == [pc EXCEPT ![current] = "exited"]
<1>1. /\ Schedule(killed, p) /\ UNCHANGED <<temp_queue, handlers, walk>>
      /\ signal' = [signal EXCEPT !.exit = FALSE]
  BY DEF ExitTask
<1>2. killed \in ListsType
  BY KillType DEF Typed
<1>3. p \in [Task -> Pc] /\ \A t \in Task : p[t] = "link" => pc[t] = "link"
  BY DEF Typed, Pc
<1>4. signal' \in [handler : BOOLEAN, pid : Pointer, exit : BOOLEAN]
  BY <1>1 DEF Typed
<1> HIDE DEF killed, p
<1> QED
  BY <1>1, <1>2, <1>3, <1>4, ScheduleTyped

(* A step of the running task that changes the lists, or nothing of them.  *)
LEMMA CallTyped ==
  ASSUME Typed, cpu = "tasks", lists' \in ListsType, UNCHANGED current,
         temp_queue' \in Pointer,
         signal' \in [handler : BOOLEAN, pid : Pointer, exit : BOOLEAN],
         handlers' \subseteq Task, pc' \in [Task -> Pc], walk' \in [Task -> Pointer],
         cpu' \in Cpu, spoiled' \in BOOLEAN,
         \A t \in Task : pc'[t] = "link" => walk'[t] # NULL
  PROVE  Typed'
<1>1. current' \in Task
  BY DEF Typed
<1> QED
  BY <1>1 DEF Typed, WalkEnds, Pointer

(* sysc_fork keeps the types.                                              *)
LEMMA ForkTyped == ASSUME Typed, NEW child \in Task, Fork(child) PROVE Typed'
<1> DEFINE l == Enqueue(lists, "run_queue", child)
<1>1. l \in ListsType /\ "run_queue" \in Queue
  BY EnqueueType, QueueNames DEF Typed
<1>2. lists' = l /\ cpu' = (IF l.endless THEN "hangs" ELSE cpu)
  BY DEF Fork, ChangeLists
<1> HIDE DEF l
<1>3. cpu = "tasks" /\ cpu' \in Cpu /\ current \in Task
  BY <1>2 DEF Fork, MakesCalls, InUserCode, Typed, Cpu
<1>4. pc' = [pc EXCEPT ![child] = pc[current]] /\ pc[current] \in {"user", "handler"}
  BY DEF Fork, MakesCalls, InUserCode
<1>5. pc' \in [Task -> Pc] /\ \A t \in Task : pc'[t] = "link" => pc[t] = "link"
  BY <1>3, <1>4 DEF Typed
<1> QED
  BY <1>1, <1>2, <1>3, <1>5, CallTyped DEF Fork, Typed, WalkEnds

(* sysc_signal_kill keeps the types, of whatever target.                   *)
LEMMA SignalKillTyped ==
  ASSUME Typed, NEW target \in Task, NEW wrapper \in Task, SignalKill(target, wrapper)
  PROVE  Typed'
<1> DEFINE r == RemoveTask(lists, target)
           l == Enqueue(r, "run_queue", wrapper)
<1>1. target \in Members(lists, "run_queue") /\ lists \in ListsType
  BY DEF SignalKill, Typed
<1>2. r \in ListsType
  BY <1>1, RemoveType
<1> HIDE DEF r
<1>3. l \in ListsType
  BY <1>2, EnqueueType, QueueNames
<1>4. lists' = l /\ cpu' = (IF l.endless THEN "hangs" ELSE cpu)
  BY DEF SignalKill, ChangeLists, r
<1> HIDE DEF l
<1>5. cpu = "tasks" /\ cpu' \in Cpu
  BY <1>4 DEF SignalKill, MakesCalls, InUserCode, Cpu
<1>6. pc' \in [Task -> Pc] /\ \A t \in Task : pc'[t] = "link" => pc[t] = "link"
  BY DEF SignalKill, Typed, Pc, Wrapper
<1>7. signal' \in [handler : BOOLEAN, pid : Pointer, exit : BOOLEAN] /\ temp_queue' \in Pointer
  BY DEF SignalKill, Pointer
<1>8. spoiled' \in BOOLEAN
  BY DEF SignalKill, Spoils
<1> QED
  BY <1>3, <1>4, <1>5, <1>6, <1>7, <1>8, CallTyped DEF SignalKill, Typed, WalkEnds

(* Steps that leave the queues alone.                                      *)
LEMMA StepTyped ==
  ASSUME Typed, \/ Register \/ TestHandler \/ CallHandler \/ HandlerReturns
                \/ AddToQueue \/ Walk \/ Clear \/ UnsetExit
                \/ \E t \in Task : SignalKillUnqueued(t)
  PROVE  Typed'
<1> USE DEF At, Goto, Typed, WalkEnds, Pc, Wrapper, Cpu, Pointer
<1>1. CASE Register
  BY <1>1 DEF Register, MakesCalls, InUserCode
<1>2. CASE TestHandler
  BY <1>2 DEF TestHandler
<1>3. CASE CallHandler
  BY <1>3 DEF CallHandler
<1>4. CASE HandlerReturns
  BY <1>4 DEF HandlerReturns
<1>5. CASE AddToQueue
  <2>1. lists.run_queue \in Pointer
    BY DEF ListsType
  <2> QED
    BY <1>5, <2>1 DEF AddToQueue
<1>6. CASE Walk
  <2>1. lists.next \in [Task -> Pointer]
    BY DEF ListsType
  <2> QED
    BY <1>6, <2>1 DEF Walk
<1>7. CASE Clear
  BY <1>7 DEF Clear
<1>8. CASE UnsetExit
  BY <1>8 DEF UnsetExit
<1>9. CASE \E t \in Task : SignalKillUnqueued(t)
  BY <1>9 DEF SignalKillUnqueued, MakesCalls, InUserCode
<1> QED
  BY <1>1, <1>2, <1>3, <1>4, <1>5, <1>6, <1>7, <1>8, <1>9

(* sysc_kill keeps the types.                                              *)
LEMMA KillTyped == ASSUME Typed, NEW target \in Task, Kill(target) PROVE Typed'
<1> DEFINE l == KillThread(lists, target)
<1>1. l \in ListsType
  BY KillType DEF Typed
<1>2. lists' = l /\ cpu' = (IF l.endless THEN "hangs" ELSE cpu)
  BY DEF Kill, ChangeLists
<1> HIDE DEF l
<1>3. cpu = "tasks" /\ cpu' \in Cpu
  BY <1>2 DEF Kill, MakesCalls, InUserCode, Cpu
<1> QED
  BY <1>1, <1>2, <1>3, CallTyped DEF Kill, Typed, WalkEnds

(* The kill of a wrapper keeps the types.                                  *)
LEMMA KillTargetTyped == ASSUME Typed, KillTarget PROVE Typed'
<1> DEFINE l == KillThread(lists, signal.pid)
<1>1. l \in ListsType
  BY KillType DEF Typed
<1>2. lists' = l /\ cpu' = (IF l.endless THEN "hangs" ELSE cpu)
  BY DEF KillTarget, ChangeLists
<1> HIDE DEF l
<1>3. cpu = "tasks" /\ cpu' \in Cpu
  BY <1>2 DEF KillTarget, At, Cpu
<1>4. pc' \in [Task -> Pc] /\ \A t \in Task : pc'[t] = "link" => pc[t] = "link"
  BY DEF KillTarget, Typed, Pc, Wrapper, Goto
<1> QED
  BY <1>1, <1>2, <1>3, <1>4, CallTyped DEF KillTarget, Typed, WalkEnds

(* The link of a wrapper writes to a task: its walk has found one.         *)
LEMMA LinkTyped == ASSUME Typed, Link PROVE Typed'
<1>1. current \in Task /\ pc[current] = "link" /\ cpu = "tasks"
  BY DEF Link, At, Typed
<1>2. walk[current] \in Task /\ lists \in ListsType /\ temp_queue \in Pointer
  BY <1>1 DEF Typed, WalkEnds, Pointer
<1>3. lists' \in ListsType
  BY <1>2, WriteLink DEF Link, LinkWritten
<1>4. pc' \in [Task -> Pc] /\ \A t \in Task : pc'[t] = "link" => pc[t] = "link"
  BY <1>1 DEF Link, Typed, Pc, Wrapper, Goto
<1>5. spoiled' \in BOOLEAN
  BY DEF Link
<1> QED
  BY <1>1, <1>3, <1>4, <1>5, CallTyped DEF Link, Typed, WalkEnds

(* Every step keeps the types, whatever signals have met.                  *)
LEMMA TypesKept == ASSUME Typed, [Next]_vars PROVE Typed'
<1>1. CASE IdleLoop
  BY <1>1, IdleLoopTyped
<1>2. CASE Preempt
  BY <1>2, PreemptTyped
<1>3. ASSUME NEW t \in Task, Fork(t) PROVE Typed'
  BY <1>3, ForkTyped
<1>4. ASSUME NEW t \in Task, Kill(t) PROVE Typed'
  BY <1>4, KillTyped
<1>5. ASSUME NEW t \in Task, NEW w \in Task, SignalKill(t, w) PROVE Typed'
  BY <1>5, SignalKillTyped
<1>6. CASE Exit
  <2>1. cpu = "tasks" /\ ExitTask /\ spoiled' \in BOOLEAN
    BY <1>6 DEF Exit, InUserCode, Typed
  <2> QED
    BY <2>1, ExitTaskTyped
<1>7. CASE WrapperExit
  <2>1. cpu = "tasks" /\ ExitTask /\ spoiled' \in BOOLEAN
    BY <1>7 DEF WrapperExit, At, Typed
  <2> QED
    BY <2>1, ExitTaskTyped
<1>8. CASE Link
  BY <1>8, LinkTyped
<1>9. CASE KillTarget
  BY <1>9, KillTargetTyped
<1>10. CASE \/ Register \/ TestHandler \/ CallHandler \/ HandlerReturns
            \/ AddToQueue \/ Walk \/ Clear \/ UnsetExit
            \/ \E t \in Task : SignalKillUnqueued(t)
  BY <1>10, StepTyped
<1>11. CASE UNCHANGED vars
  BY <1>11 DEF vars, Typed, WalkEnds
<1> QED
  BY <1>1, <1>2, <1>3, <1>4, <1>5, <1>6, <1>7, <1>8, <1>9, <1>10, <1>11 DEF Next

-----------------------------------------------------------------------------
(* The accounts, kept by every step until signals are spoiled.             *)

(* The signal at work.                                                     *)
OneSignal ==
  /\ \A t, u \in Task : pc[t] \in Awaiting /\ pc[u] \in Awaiting => t = u
  /\ \A t \in Task : pc[t] \in Awaiting => temp_queue # NULL /\ temp_queue = signal.pid
  /\ signal.pid # NULL => pc[signal.pid] \notin Awaiting \cup {"unused"}

(* A parked task that has a handler is waited for, and the wrapper will    *)
(* find the handler.                                                       *)
HandlerKnown ==
  temp_queue \in handlers =>
    /\ \E t \in Task : pc[t] \in Awaiting \ {"kill"}
    /\ \A t \in Task : pc[t] = "test" => signal.handler

(* A pending exit finds the target parked, but for the window in which the *)
(* wrapper has put it back and signal_exit is still set.                   *)
ExitPending(Z) ==
  signal.exit =>
    \/ signal.pid \in Parked
    \/ \E w \in Task \ Z : pc[w] \in {"clear", "unset"}

(* The queues hold G: where every task is.                                 *)
Located(G) ==
  /\ Placed(lists, G, current, Parked, pc)
  /\ ExitPending(G["zombies_queue"])

(* What holds of signals until they are spoiled.                           *)
Accounted == (\E G : Located(G)) /\ OneSignal /\ HandlerKnown

(* The inductive invariant.                                                *)
IInv ==
  /\ Typed
  /\ ~spoiled /\ cpu = "tasks" => Accounted

(* A task of the system executes something else.                           *)
LEMMA PlacedGoto ==
  ASSUME NEW l, NEW G, NEW c, NEW T, NEW p \in [Task -> Pc], Placed(l, G, c, T, p),
         NEW v, v \notin {"unused", "freed"}
  PROVE  Placed(l, G, c, T, [p EXCEPT ![c] = v])
<1> DEFINE r == [p EXCEPT ![c] = v]
<1>1. /\ c \in Task /\ c \notin T /\ c \notin Queued(G)
      /\ \A t \in Task : p[t] \in {"unused", "freed"} <=> t # c /\ t \notin T /\ t \notin Queued(G)
      /\ \A t \in G["zombies_queue"] : p[t] \notin Awaiting
      /\ G["zombies_queue"] \subseteq Task
  BY QueuesFacts DEF Placed
<1>2. r[c] = v /\ \A t \in Task \ {c} : r[t] = p[t]
  BY <1>1
<1> HIDE DEF r
<1>3. \A t \in Task : r[t] \in {"unused", "freed"} <=> t # c /\ t \notin T /\ t \notin Queued(G)
  BY <1>1, <1>2
<1>4. \A t \in G["zombies_queue"] : t # c
  BY <1>1 DEF Queued
<1>5. \A t \in G["zombies_queue"] : r[t] \notin Awaiting
  BY <1>1, <1>2, <1>4
<1> QED
  BY <1>3, <1>5 DEF Placed, r

(* The tasks have places, and the zombies are Z.                           *)
PlacedWithZombies(l, Z, c, T, p) ==
  \E G : Placed(l, G, c, T, p) /\ G["zombies_queue"] = Z

(* A new task is in run_queue only.                                        *)
LEMMA PlacedNew ==
  ASSUME NEW l, NEW G, NEW c, NEW T, NEW p \in [Task -> Pc], Placed(l, G, c, T, p),
         NEW child \in Task, p[child] = "unused", NEW v, v \notin {"unused", "freed"}
  PROVE  PlacedWithZombies(Enqueue(l, "run_queue", child), G["zombies_queue"], c, T,
                           [p EXCEPT ![child] = v])
<1> DEFINE r == [p EXCEPT ![child] = v]
           H == [G EXCEPT !["run_queue"] = G["run_queue"] \cup {child}]
           m == Enqueue(l, "run_queue", child)
<1>1. /\ Queues(l, G)
      /\ c \in Task /\ c \notin T /\ c \notin Queued(G)
      /\ T \subseteq Task /\ T \cap Queued(G) = {}
      /\ \A t \in T : l.next[t] = NULL
      /\ \A t \in Task : p[t] \in {"unused", "freed"} <=> t # c /\ t \notin T /\ t \notin Queued(G)
      /\ \A t \in G["zombies_queue"] : p[t] \notin Awaiting
  BY DEF Placed
<1>2. G \in [Queue -> SUBSET Task] /\ "run_queue" \in Queue
  BY QueuesFacts, QueueNames DEF Placed
<1>3. child # c /\ child \notin T /\ child \notin Queued(G)
  BY <1>1
<1>4. \A q \in Queue : child \notin G[q]
  BY <1>3, QueueNames DEF Queued
<1>5. Queues(m, H) /\ OnlyLinks(l, m, G["run_queue"] \cup {child})
  BY <1>1, <1>2, <1>4, EnqueueQueues
<1>6. Queued(H) = Queued(G) \cup {child} /\ H["zombies_queue"] = G["zombies_queue"]
  BY <1>2, QueueNames DEF Queued
<1>7. r[child] = v /\ \A t \in Task \ {child} : r[t] = p[t]
  OBVIOUS
<1> HIDE DEF m, H, r
<1>8. \A t \in T : m.next[t] = NULL
  BY <1>1, <1>3, <1>5 DEF OnlyLinks, Queued
<1>9. c \notin Queued(H) /\ T \cap Queued(H) = {}
  BY <1>1, <1>3, <1>6
<1>10. \A t \in Task : r[t] \in {"unused", "freed"} <=> t # c /\ t \notin T /\ t \notin Queued(H)
  BY <1>1, <1>3, <1>6, <1>7
<1>11. \A t \in H["zombies_queue"] : r[t] \notin Awaiting
  <2>1. \A t \in G["zombies_queue"] : t \in Task \ {child}
    BY <1>3, QueuesFacts DEF Placed, Queued
  <2> QED
    BY <1>1, <1>6, <1>7, <2>1
<1>12. Placed(m, H, c, T, r)
  BY <1>1, <1>5, <1>6, <1>8, <1>9, <1>10, <1>11 DEF Placed
<1> QED
  BY <1>6, <1>12 DEF PlacedWithZombies, m, r

(* A kill moves a task that is no wrapper at work.                         *)
LEMMA PlacedKill ==
  ASSUME NEW l, NEW G, NEW c, NEW T, NEW p, Placed(l, G, c, T, p),
         NEW t, t \in G["run_queue"] => p[t] \notin Awaiting
  PROVE  Placed(KillThread(l, t), Moved(G, t), c, T, p)
<1> DEFINE m == KillThread(l, t)
           H == Moved(G, t)
<1>1. /\ Queues(l, G)
      /\ c \in Task /\ c \notin T /\ c \notin Queued(G)
      /\ T \subseteq Task /\ T \cap Queued(G) = {}
      /\ \A u \in T : l.next[u] = NULL
      /\ \A u \in Task : p[u] \in {"unused", "freed"} <=> u # c /\ u \notin T /\ u \notin Queued(G)
      /\ \A u \in G["zombies_queue"] : p[u] \notin Awaiting
  BY DEF Placed
<1>2. G \in [Queue -> SUBSET Task]
  BY <1>1, QueuesFacts
<1>3. Queues(m, H) /\ OnlyLinks(l, m, Queued(G))
  BY <1>1, KillQueues
<1>4. Queued(H) = Queued(G) /\ \A u \in H["zombies_queue"] : p[u] \notin Awaiting
  <2>1. CASE t \in G["run_queue"]
    BY <1>1, <1>2, <2>1, MovedFacts DEF Queued
  <2>2. CASE t \notin G["run_queue"]
    BY <1>1, <1>2, <2>2, MovedFacts
  <2> QED
    BY <2>1, <2>2
<1> HIDE DEF m, H
<1>5. \A u \in T : m.next[u] = NULL
  BY <1>1, <1>3 DEF OnlyLinks
<1> QED
  BY <1>1, <1>3, <1>4, <1>5 DEF Placed, m, H

(* The types that the accounts need.                                       *)
LEMMA TypedFacts ==
  ASSUME Typed
  PROVE  /\ lists \in ListsType /\ pc \in [Task -> Pc] /\ handlers \subseteq Task
         /\ cpu = "tasks" => current \in Task
         /\ signal.handler \in BOOLEAN /\ signal.pid \in Pointer /\ signal.exit \in BOOLEAN
         /\ signal = [handler |-> signal.handler, pid |-> signal.pid, exit |-> signal.exit]
         /\ temp_queue \in Pointer /\ spoiled \in BOOLEAN
         /\ NULL \notin Task /\ NULL \notin handlers
BY SignalsAssumption DEF Typed

(* Where the tasks are, for the provers.                                   *)
LEMMA RunningFacts ==
  ASSUME NEW G, Located(G)
  PROVE  /\ Queues(lists, G)
         /\ current \in Task /\ current \notin Parked /\ current \notin Queued(G)
         /\ current \notin G["zombies_queue"]
         /\ Parked \subseteq Task /\ Parked \cap Queued(G) = {}
         /\ \A t \in Parked : lists.next[t] = NULL
         /\ \A t \in Task : pc[t] \in {"unused", "freed"} <=> t # current /\ t \notin Parked /\ t \notin Queued(G)
         /\ \A t \in G["zombies_queue"] : pc[t] \notin Awaiting
         /\ G["zombies_queue"] \subseteq Task
         /\ pc[current] \notin {"unused", "freed"}
BY QueuesFacts DEF Located, Placed, Queued

(* A wrapper takes a step on the way to putting its target back.           *)
LEMMA AwaitingStep ==
  ASSUME Typed, Accounted, pc[current] \in Awaiting \ {"clear"},
         NEW v \in Awaiting \ {"clear", "test"}, v = "kill" => pc[current] = "test" /\ ~signal.handler,
         pc' = [pc EXCEPT ![current] = v],
         UNCHANGED <<lists, current, temp_queue, signal, handlers>>
  PROVE  Accounted'
<1>1. PICK G : Located(G)
  BY DEF Accounted
<1>2. current \in Task /\ pc \in [Task -> Pc]
  BY <1>1, RunningFacts, TypedFacts
<1>3. pc'[current] = v /\ \A t \in Task \ {current} : pc'[t] = pc[t]
  BY <1>2
<1>4. \A t \in Task : pc[t] \in Awaiting => t = current
  BY <1>2 DEF Accounted, OneSignal
<1>5. Parked' = Parked
  BY <1>3 DEF Parked
<1>6. Placed(lists', G, current', Parked', pc')
  <2>1. v \notin {"unused", "freed"}
    BY DEF Awaiting
  <2>2. Placed(lists, G, current, Parked, pc)
    BY <1>1 DEF Located
  <2>3. Placed(lists, G, current, Parked, [pc EXCEPT ![current] = v])
    BY <1>2, <2>1, <2>2, PlacedGoto
  <2> QED
    BY <1>5, <2>3
<1>7. ExitPending(G["zombies_queue"])'
  <2> SUFFICES ASSUME signal.exit, signal.pid \notin Parked
               PROVE  \E w \in Task \ G["zombies_queue"] : pc'[w] \in {"clear", "unset"}
    BY <1>5 DEF ExitPending
  <2>1. PICK w \in Task \ G["zombies_queue"] : pc[w] \in {"clear", "unset"}
    BY <1>1 DEF Located, ExitPending
  <2>2. w # current
    BY <2>1 DEF Awaiting
  <2> QED
    BY <1>3, <2>1, <2>2
<1>8. \A t \in Task : pc'[t] \in Awaiting <=> pc[t] \in Awaiting
  BY <1>3
<1>9. OneSignal'
  <2>1. signal.pid # NULL => pc'[signal.pid] \notin Awaiting \cup {"unused"}
    <3> SUFFICES ASSUME signal.pid # NULL PROVE pc'[signal.pid] \notin Awaiting \cup {"unused"}
      OBVIOUS
    <3>1. signal.pid \in Task /\ pc[signal.pid] \notin Awaiting \cup {"unused"}
      BY TypedFacts DEF Accounted, OneSignal, Pointer
    <3>2. signal.pid # current
      BY <3>1
    <3> QED
      BY <1>3, <3>1, <3>2
  <2> QED
    BY <1>8, <2>1 DEF Accounted, OneSignal
<1>10. HandlerKnown'
  <2> SUFFICES ASSUME temp_queue \in handlers
               PROVE  /\ \E t \in Task : pc'[t] \in Awaiting \ {"kill"}
                      /\ \A t \in Task : pc'[t] = "test" => signal.handler
    BY DEF HandlerKnown
  <2>1. v # "kill"
    BY <1>2 DEF Accounted, HandlerKnown
  <2>2. \A t \in Task : pc'[t] # "test"
    BY <1>3, <1>4 DEF Awaiting
  <2> QED
    BY <1>2, <1>3, <2>1, <2>2
<1> QED
  BY <1>6, <1>7, <1>9, <1>10 DEF Accounted, Located

(* The steps of a wrapper before it links its target.                      *)
LEMMA WrapperStepAccounted ==
  ASSUME Typed, Accounted, TestHandler \/ CallHandler \/ HandlerReturns \/ AddToQueue \/ Walk,
         cpu' = "tasks"
  PROVE  Accounted'
<1> USE DEF At, Goto
<1>1. CASE TestHandler
  <2> DEFINE v == IF signal.handler THEN "call" ELSE "kill"
  <2>1. /\ pc[current] = "test" /\ pc' = [pc EXCEPT ![current] = v]
        /\ UNCHANGED <<lists, current, temp_queue, signal, handlers>>
    BY <1>1 DEF TestHandler
  <2>2. v \in Awaiting \ {"clear", "test"} /\ (v = "kill" => ~signal.handler)
    BY DEF Awaiting
  <2>3. pc[current] \in Awaiting \ {"clear"}
    BY <2>1 DEF Awaiting
  <2> HIDE DEF v
  <2> QED
    BY <2>1, <2>2, <2>3, AwaitingStep
<1>2. CASE CallHandler
  <2> DEFINE v == "handler"
  <2>1. /\ pc[current] = "call" /\ pc' = [pc EXCEPT ![current] = v]
        /\ UNCHANGED <<lists, current, temp_queue, signal, handlers>>
    BY <1>2 DEF CallHandler
  <2>2. v \in Awaiting \ {"clear", "test"} /\ v # "kill" /\ pc[current] \in Awaiting \ {"clear"}
    BY <2>1 DEF Awaiting
  <2> HIDE DEF v
  <2> QED
    BY <2>1, <2>2, AwaitingStep
<1>3. CASE HandlerReturns
  <2> DEFINE v == "add"
  <2>1. /\ pc[current] = "handler" /\ pc' = [pc EXCEPT ![current] = v]
        /\ UNCHANGED <<lists, current, temp_queue, signal, handlers>>
    BY <1>3 DEF HandlerReturns
  <2>2. v \in Awaiting \ {"clear", "test"} /\ v # "kill" /\ pc[current] \in Awaiting \ {"clear"}
    BY <2>1 DEF Awaiting
  <2> HIDE DEF v
  <2> QED
    BY <2>1, <2>2, AwaitingStep
<1>4. CASE AddToQueue
  <2> DEFINE v == "walk"
  <2>0. pc[current] = "add" /\ current \in Task /\ temp_queue # NULL
    <3>1. pc[current] = "add" /\ cpu = "tasks"
      BY <1>4 DEF AddToQueue
    <3> QED
      BY <3>1, TypedFacts DEF Accounted, OneSignal, Awaiting
  <2>1. pc' = [pc EXCEPT ![current] = v] /\ UNCHANGED <<lists, current, temp_queue, signal, handlers>>
    BY <1>4, <2>0 DEF AddToQueue
  <2>2. v \in Awaiting \ {"clear", "test"} /\ v # "kill" /\ pc[current] \in Awaiting \ {"clear"}
    BY <2>0 DEF Awaiting
  <2> HIDE DEF v
  <2> QED
    BY <2>1, <2>2, AwaitingStep
<1>5. CASE Walk
  <2>2. pc[current] = "walk"
    BY <1>5 DEF Walk
  <2> DEFINE v == IF pc' = pc THEN "walk" ELSE "link"
  <2>3. pc' = [pc EXCEPT ![current] = v]
    BY <1>5, <2>2, TypedFacts DEF Walk
  <2>4. v \in Awaiting \ {"clear", "test"} /\ v # "kill" /\ pc[current] \in Awaiting \ {"clear"}
    BY <2>2 DEF Awaiting
  <2>5. UNCHANGED <<lists, current, temp_queue, signal, handlers>>
    BY <1>5 DEF Walk
  <2> HIDE DEF v
  <2> QED
    BY <2>3, <2>4, <2>5, AwaitingStep
<1> QED
  BY <1>1, <1>2, <1>3, <1>4, <1>5

(* register, also by the target when it is back in run_queue.              *)
LEMMA RegisterAccounted == ASSUME Typed, Accounted, Register PROVE Accounted'
<1>1. PICK G : Located(G)
  BY DEF Accounted
<1>2. /\ UNCHANGED <<lists, current, temp_queue, signal, pc>>
      /\ handlers' = handlers \cup {current}
  BY DEF Register
<1>3. Located(G)' /\ OneSignal'
  BY <1>1, <1>2 DEF Accounted, Located, OneSignal, ExitPending, Parked
<1>4. HandlerKnown'
  <2>1. CASE temp_queue \in handlers
    BY <1>2, <2>1 DEF Accounted, HandlerKnown
  <2>2. CASE temp_queue \notin handlers /\ temp_queue = current
    <3>1. PICK u \in Task : pc[u] = "clear"
      BY <1>1, <2>2, RunningFacts, TypedFacts DEF Parked
    <3>2. \A t \in Task : pc[t] # "test"
      BY <3>1 DEF Accounted, OneSignal, Awaiting
    <3> QED
      BY <1>2, <3>1, <3>2 DEF HandlerKnown, Awaiting
  <2>3. CASE temp_queue \notin handlers /\ temp_queue # current
    BY <1>2, <2>3 DEF HandlerKnown
  <2> QED
    BY <2>1, <2>2, <2>3
<1> QED
  BY <1>3, <1>4 DEF Accounted

(* A wrapper that is done unsets signal_exit.                              *)
LEMMA UnsetExitAccounted == ASSUME Typed, Accounted, UnsetExit, cpu = "tasks" PROVE Accounted'
<1>1. PICK G : Located(G)
  BY DEF Accounted
<1>2. /\ pc[current] = "unset" /\ pc' = [pc EXCEPT ![current] = "exit"]
      /\ signal' = [signal EXCEPT !.exit = FALSE]
      /\ UNCHANGED <<lists, current, temp_queue, handlers>>
  BY DEF UnsetExit, At, Goto
<1>3. current \in Task /\ pc \in [Task -> Pc]
  BY TypedFacts
<1>4. pc'[current] = "exit" /\ \A t \in Task \ {current} : pc'[t] = pc[t]
  BY <1>2, <1>3
<1>5. \A t \in Task : (pc'[t] \in Awaiting <=> pc[t] \in Awaiting) /\ (pc[t] \in Awaiting => pc'[t] = pc[t])
  BY <1>2, <1>4 DEF Awaiting
<1>6. Parked' = Parked
  BY <1>2, <1>4 DEF Parked
<1>7. Placed(lists', G, current', Parked', pc')
  <2> DEFINE v == "exit"
  <2>1. v \notin {"unused", "freed"} /\ pc' = [pc EXCEPT ![current] = v]
    BY <1>2
  <2>2. Placed(lists, G, current, Parked, pc)
    BY <1>1 DEF Located
  <2> HIDE DEF v
  <2>3. Placed(lists, G, current, Parked, [pc EXCEPT ![current] = v])
    BY <1>3, <2>1, <2>2, PlacedGoto
  <2> QED
    BY <1>2, <1>6, <2>1, <2>3
<1>8. signal'.exit = FALSE /\ signal'.pid = signal.pid /\ signal'.handler = signal.handler
  BY <1>2, TypedFacts
<1>9. ExitPending(G["zombies_queue"])'
  BY <1>8 DEF ExitPending
<1>10. OneSignal'
  <2>1. signal.pid # NULL => pc'[signal.pid] \notin Awaiting \cup {"unused"}
    <3> SUFFICES ASSUME signal.pid # NULL PROVE pc'[signal.pid] \notin Awaiting \cup {"unused"}
      OBVIOUS
    <3>1. signal.pid \in Task /\ pc[signal.pid] \notin Awaiting \cup {"unused"}
      BY TypedFacts DEF Accounted, OneSignal, Pointer
    <3>2. CASE signal.pid = current
      BY <1>4, <3>2 DEF Awaiting
    <3>3. CASE signal.pid # current
      BY <1>4, <3>1, <3>3
    <3> QED
      BY <3>2, <3>3
  <2> QED
    BY <1>2, <1>5, <1>8, <2>1 DEF Accounted, OneSignal
<1>11. HandlerKnown'
  <2> SUFFICES ASSUME temp_queue \in handlers
               PROVE  /\ \E t \in Task : pc'[t] \in Awaiting \ {"kill"}
                      /\ \A t \in Task : pc'[t] = "test" => signal.handler
    BY <1>2, <1>8 DEF HandlerKnown
  <2> QED
    BY <1>4, <1>5 DEF Accounted, HandlerKnown, Awaiting
<1> QED
  BY <1>7, <1>9, <1>10, <1>11 DEF Accounted, Located

(* The wrapper is done with its target: nobody is awaited any more.        *)
LEMMA DoneStep ==
  ASSUME Typed, Accounted, pc[current] \in Awaiting, cpu = "tasks",
         pc' = [pc EXCEPT ![current] = "unset"], UNCHANGED <<current, signal, handlers>>,
         temp_queue' \in {temp_queue, NULL}, temp_queue' \notin handlers
  PROVE  /\ current \in Task /\ pc \in [Task -> Pc]
         /\ pc'[current] = "unset" /\ \A t \in Task \ {current} : pc'[t] = pc[t]
         /\ \A t \in Task : pc'[t] \notin Awaiting
         /\ OneSignal' /\ HandlerKnown'
<1>1. current \in Task /\ pc \in [Task -> Pc]
  BY TypedFacts
<1>2. pc'[current] = "unset" /\ \A t \in Task \ {current} : pc'[t] = pc[t]
  BY <1>1
<1>3. \A t \in Task : pc'[t] \notin Awaiting
  BY <1>1, <1>2 DEF Accounted, OneSignal, Awaiting
<1>4. signal.pid # NULL => pc'[signal.pid] \notin Awaiting \cup {"unused"}
  <2> SUFFICES ASSUME signal.pid # NULL PROVE pc'[signal.pid] \notin Awaiting \cup {"unused"}
    OBVIOUS
  <2>1. signal.pid \in Task /\ pc[signal.pid] \notin Awaiting \cup {"unused"}
    BY TypedFacts DEF Accounted, OneSignal, Pointer
  <2>2. CASE signal.pid = current
    BY <1>2, <2>2 DEF Awaiting
  <2>3. CASE signal.pid # current
    BY <1>2, <2>1, <2>3
  <2> QED
    BY <2>2, <2>3
<1>5. OneSignal'
  BY <1>3, <1>4 DEF OneSignal
<1>6. HandlerKnown'
  BY DEF HandlerKnown
<1> QED
  BY <1>1, <1>2, <1>3, <1>5, <1>6

(* The assignment that clears temp_queue: the target is in run_queue       *)
(* already.                                                                *)
LEMMA ClearAccounted == ASSUME Typed, Accounted, Clear, cpu = "tasks" PROVE Accounted'
<1>1. PICK G : Located(G)
  BY DEF Accounted
<1>2. /\ pc[current] = "clear" /\ pc' = [pc EXCEPT ![current] = "unset"] /\ temp_queue' = NULL
      /\ UNCHANGED <<lists, current, signal, handlers>>
  BY DEF Clear, At, Goto
<1>3. /\ current \in Task /\ pc \in [Task -> Pc]
      /\ pc'[current] = "unset" /\ \A t \in Task \ {current} : pc'[t] = pc[t]
      /\ OneSignal' /\ HandlerKnown'
  <2>1. pc[current] \in Awaiting
    BY <1>2 DEF Awaiting
  <2>2. temp_queue' \in {temp_queue, NULL} /\ temp_queue' \notin handlers
    BY <1>2, TypedFacts
  <2> QED
    BY <1>2, <2>1, <2>2, DoneStep
<1>4. Parked = {} /\ Parked' = {}
  BY <1>2, <1>3 DEF Parked
<1>5. Placed(lists', G, current', Parked', pc')
  <2> DEFINE v == "unset"
  <2>1. v \notin {"unused", "freed"} /\ pc' = [pc EXCEPT ![current] = v]
    BY <1>2
  <2>2. Placed(lists, G, current, Parked, pc)
    BY <1>1 DEF Located
  <2> HIDE DEF v
  <2>3. Placed(lists, G, current, Parked, [pc EXCEPT ![current] = v])
    BY <1>3, <2>1, <2>2, PlacedGoto
  <2> QED
    BY <1>2, <1>4, <2>1, <2>3
<1>6. ExitPending(G["zombies_queue"])'
  <2>1. current \in Task \ G["zombies_queue"]
    BY <1>1, RunningFacts
  <2> QED
    BY <1>3, <2>1 DEF ExitPending
<1> QED
  BY <1>3, <1>5, <1>6 DEF Accounted, Located

(* "no register kill thread" finds the target parked, and kills nobody.    *)
LEMMA KillTargetAccounted == ASSUME Typed, Accounted, KillTarget, cpu = "tasks" PROVE Accounted'
<1>1. PICK G : Located(G)
  BY DEF Accounted
<1>2. /\ pc[current] = "kill" /\ pc' = [pc EXCEPT ![current] = "unset"]
      /\ lists' = KillThread(lists, signal.pid)
      /\ UNCHANGED <<current, temp_queue, signal, handlers>>
  BY DEF KillTarget, ChangeLists, At, Goto
<1>3. current \in Task /\ \A t \in Task : pc[t] \in Awaiting => t = current
  BY <1>2, TypedFacts DEF Accounted, OneSignal, Awaiting
<1>4. /\ pc \in [Task -> Pc]
      /\ pc'[current] = "unset" /\ \A t \in Task \ {current} : pc'[t] = pc[t]
      /\ OneSignal' /\ HandlerKnown'
  <2>1. pc[current] \in Awaiting
    BY <1>2 DEF Awaiting
  <2>2. temp_queue' \in {temp_queue, NULL}
    BY <1>2
  <2>3. temp_queue' \notin handlers
    BY <1>2, <1>3 DEF Accounted, HandlerKnown
  <2> QED
    BY <1>2, <2>1, <2>2, <2>3, DoneStep
<1>5. temp_queue # NULL /\ temp_queue = signal.pid
  BY <1>2, <1>3 DEF Accounted, OneSignal, Awaiting
<1>6. \A t \in Task : pc[t] # "clear" /\ pc'[t] # "clear"
  BY <1>2, <1>3, <1>4 DEF Awaiting
<1>7. Parked = {signal.pid} /\ Parked' = Parked
  BY <1>2, <1>5, <1>6 DEF Parked
<1>8. signal.pid \notin G["run_queue"]
  BY <1>1, <1>7, RunningFacts DEF Queued
<1>9. Placed(lists', G, current, Parked, pc)
  <2>1. Moved(G, signal.pid) = G
    BY <1>8 DEF Moved
  <2>2. Placed(lists, G, current, Parked, pc)
    BY <1>1 DEF Located
  <2>3. Placed(KillThread(lists, signal.pid), Moved(G, signal.pid), current, Parked, pc)
    BY <1>8, <2>2, PlacedKill
  <2> QED
    BY <1>2, <2>1, <2>3
<1>10. Placed(lists', G, current', Parked', pc')
  <2> DEFINE v == "unset"
  <2>1. v \notin {"unused", "freed"} /\ pc' = [pc EXCEPT ![current] = v]
    BY <1>2
  <2> HIDE DEF v
  <2>2. Placed(lists', G, current, Parked, [pc EXCEPT ![current] = v])
    BY <1>4, <1>9, <2>1, PlacedGoto
  <2> QED
    BY <1>2, <1>7, <2>1, <2>2
<1>11. ExitPending(G["zombies_queue"])'
  BY <1>2, <1>7 DEF ExitPending
<1> QED
  BY <1>4, <1>10, <1>11 DEF Accounted, Located

(* The link puts the target behind the last task of run_queue.             *)
LEMMA LinkAccounted ==
  ASSUME Typed, Accounted, Link, cpu = "tasks", ~Stale(walk[current])
  PROVE  Accounted'
<1> DEFINE x == walk[current]
           t == temp_queue
           m == [lists EXCEPT !.next[x] = t]
<1>1. PICK G : Located(G)
  BY DEF Accounted
<1> DEFINE E == [G EXCEPT !["run_queue"] = G["run_queue"] \cup {t}]
<1>2. /\ pc[current] = "link" /\ pc' = [pc EXCEPT ![current] = "clear"]
      /\ lists' = m
      /\ UNCHANGED <<current, temp_queue, signal, handlers>>
  BY DEF Link, At, Goto
<1>3. /\ current \in Task /\ pc \in [Task -> Pc]
      /\ pc'[current] = "clear" /\ \A u \in Task \ {current} : pc'[u] = pc[u]
  BY <1>2, TypedFacts
<1>4. \A u \in Task : pc[u] \in Awaiting => u = current
  BY <1>2, <1>3 DEF Accounted, OneSignal, Awaiting
<1>5. t # NULL /\ \A u \in Task : pc[u] # "clear"
  BY <1>2, <1>3, <1>4 DEF Accounted, OneSignal, Awaiting
<1>6. Parked = {t} /\ Parked' = {}
  BY <1>2, <1>3, <1>5 DEF Parked
<1>7. /\ Queues(lists, G)
      /\ current \notin Queued(G) /\ current # t
      /\ t \in Task /\ t \notin Queued(G)
      /\ lists.next[t] = NULL
      /\ \A u \in Task : pc[u] \in {"unused", "freed"} <=> u # current /\ u # t /\ u \notin Queued(G)
      /\ \A u \in G["zombies_queue"] : pc[u] \notin Awaiting
      /\ G["zombies_queue"] \subseteq Task /\ current \notin G["zombies_queue"]
  BY <1>1, <1>6, RunningFacts
<1>8. x \in G["run_queue"] /\ lists.next[x] = NULL
  BY <1>7, QueuesFacts DEF Stale
<1>9. Queues(m, E)
  <2>1. t \notin G["run_queue"] /\ t \notin G["zombies_queue"]
    BY <1>7 DEF Queued
  <2> HIDE DEF x, t
  <2> QED
    BY <1>7, <1>8, <2>1, LinkQueues
<1>10. Queued(E) = Queued(G) \cup {t} /\ E["zombies_queue"] = G["zombies_queue"]
  BY <1>7, QueuesFacts, QueueNames DEF Queued
<1> HIDE DEF m, E, x, t
<1>11. PICK H : Queues(m, H) /\ Queued(H) = Queued(G) \cup {t} /\ H["zombies_queue"] = G["zombies_queue"]
  BY <1>9, <1>10
<1>12. Placed(lists', H, current, {}, pc)
  BY <1>2, <1>3, <1>7, <1>11 DEF Placed
<1>13. Placed(lists', H, current', Parked', pc')
  <2> DEFINE v == "clear"
             T == {}
  <2>1. v \notin {"unused", "freed"} /\ pc' = [pc EXCEPT ![current] = v] /\ Parked' = T
    BY <1>2, <1>6
  <2>2. Placed(lists', H, current, T, pc)
    BY <1>12
  <2> HIDE DEF v, T
  <2>3. Placed(lists', H, current, T, [pc EXCEPT ![current] = v])
    BY <1>3, <2>1, <2>2, PlacedGoto
  <2> QED
    BY <1>2, <2>1, <2>3
<1>14. ExitPending(H["zombies_queue"])'
  BY <1>3, <1>7, <1>11 DEF ExitPending
<1>15. \A u \in Task : pc'[u] \in Awaiting <=> pc[u] \in Awaiting
  BY <1>2, <1>3 DEF Awaiting
<1>16. OneSignal'
  <2>1. signal.pid # NULL => pc'[signal.pid] \notin Awaiting \cup {"unused"}
    <3> SUFFICES ASSUME signal.pid # NULL PROVE pc'[signal.pid] \notin Awaiting \cup {"unused"}
      OBVIOUS
    <3>1. signal.pid \in Task /\ pc[signal.pid] \notin Awaiting \cup {"unused"}
      BY TypedFacts DEF Accounted, OneSignal, Pointer
    <3>2. signal.pid # current
      BY <1>2, <3>1 DEF Awaiting
    <3> QED
      BY <1>3, <3>1, <3>2
  <2> QED
    BY <1>2, <1>15, <2>1 DEF Accounted, OneSignal
<1>17. HandlerKnown'
  <2>1. \A u \in Task : pc'[u] # "test"
    BY <1>3, <1>4 DEF Awaiting
  <2> QED
    BY <1>3, <2>1 DEF HandlerKnown, Awaiting
<1> QED
  BY <1>13, <1>14, <1>16, <1>17 DEF Accounted, Located

(* At control points p wrappers at work are where they were: only other    *)
(* tasks have exited or been freed.                                        *)
Quiet(p) ==
  \A t \in Task :
    /\ p[t] = pc[t] \/ (p[t] \in {"exited", "freed"} /\ pc[t] \notin Awaiting)
    /\ t = signal.pid => p[t] # "unused"

(* schedule() keeps the accounts, if a pending exit stays in its window.   *)
LEMMA SwitchAccounted ==
  ASSUME Typed, OneSignal, HandlerKnown, NEW l, NEW G, NEW p \in [Task -> Pc],
         Placed(l, G, current, Parked, p), Schedule(l, p), cpu' = "tasks",
         Quiet(p), UNCHANGED <<temp_queue, handlers>>,
         signal'.pid = signal.pid, signal'.handler = signal.handler,
         signal'.exit => \/ signal.pid \in Parked
                         \/ \E w \in Task \ G["zombies_queue"] : p[w] \in {"clear", "unset"}
  PROVE  Accounted'
<1>1. PICK H : /\ Placed(lists', H, current', Parked, pc')
               /\ H["zombies_queue"] = IF p[current] = "exited" THEN G["zombies_queue"] \cup {current}
                                       ELSE G["zombies_queue"]
  <2>1. \E H : Rescheduled(G, H, Parked, p)
    BY SchedulePlaced
  <2> QED
    BY <2>1 DEF Rescheduled
<1>2. pc' = p
  BY DEF Schedule
<1>3. \A t \in Task : /\ p[t] \in Awaiting <=> pc[t] \in Awaiting
                      /\ p[t] \in Awaiting => p[t] = pc[t]
                      /\ p[t] = "clear" <=> pc[t] = "clear"
                      /\ p[t] = "test" <=> pc[t] = "test"
  BY DEF Quiet, Awaiting
<1>4. Parked' = Parked
  BY <1>2, <1>3 DEF Parked
<1>5. ExitPending(H["zombies_queue"])'
  BY <1>1, <1>2, <1>4 DEF ExitPending
<1>6. OneSignal'
  <2>1. signal.pid # NULL => p[signal.pid] \notin Awaiting \cup {"unused"}
    BY <1>3, TypedFacts DEF OneSignal, Quiet, Pointer
  <2> QED
    BY <1>2, <1>3, <2>1 DEF OneSignal
<1>7. HandlerKnown'
  BY <1>2, <1>3 DEF HandlerKnown
<1> QED
  BY <1>1, <1>4, <1>5, <1>6, <1>7 DEF Accounted, Located

(* The timer interrupt keeps the accounts.                                 *)
LEMMA PreemptAccounted == ASSUME Typed, Accounted, Preempt, cpu' = "tasks" PROVE Accounted'
<1>1. PICK G : Located(G)
  BY DEF Accounted
<1>2. Schedule(lists, pc) /\ UNCHANGED <<temp_queue, signal, handlers>>
  BY DEF Preempt
<1>3. Quiet(pc)
  BY TypedFacts, SignalsAssumption DEF Quiet, Accounted, OneSignal
<1>4. Placed(lists, G, current, Parked, pc) /\ ExitPending(G["zombies_queue"])
  BY <1>1 DEF Located
<1>5. pc \in [Task -> Pc] /\ OneSignal /\ HandlerKnown
  BY TypedFacts DEF Accounted
<1>6. signal'.exit => \/ signal.pid \in Parked
                      \/ \E w \in Task \ G["zombies_queue"] : pc[w] \in {"clear", "unset"}
  BY <1>2, <1>4 DEF ExitPending
<1> QED
  BY <1>2, <1>3, <1>4, <1>5, <1>6, SwitchAccounted

(* kill_zombies frees the first zombie, which is no wrapper at work.       *)
LEMMA IdleLoopAccounted == ASSUME Typed, Accounted, IdleLoop, cpu' = "tasks" PROVE Accounted'
<1> DEFINE z == lists.zombies_queue
           p == IF z = NULL THEN pc ELSE [pc EXCEPT ![z] = "freed"]
           l == Dequeue(lists, "zombies_queue")
<1>1. PICK G : Located(G)
  BY DEF Accounted
<1> DEFINE H == [G EXCEPT !["zombies_queue"] = G["zombies_queue"] \ {z}]
<1>2. Schedule(l, p) /\ UNCHANGED <<temp_queue, signal, handlers>>
  BY DEF IdleLoop
<1>3. pc \in [Task -> Pc] /\ OneSignal /\ HandlerKnown /\ signal.pid \in Pointer
  BY TypedFacts DEF Accounted
<1>4. /\ Queues(lists, G) /\ G \in [Queue -> SUBSET Task]
      /\ current \in Task /\ current \notin Parked /\ current \notin Queued(G)
      /\ Parked \subseteq Task /\ Parked \cap Queued(G) = {}
      /\ \A t \in Parked : lists.next[t] = NULL
      /\ \A t \in Task : pc[t] \in {"unused", "freed"} <=> t # current /\ t \notin Parked /\ t \notin Queued(G)
      /\ \A t \in G["zombies_queue"] : pc[t] \notin Awaiting
      /\ G["zombies_queue"] \subseteq Task
      /\ \A t : ~(t \in G["run_queue"] /\ t \in G["zombies_queue"])
  BY <1>1, RunningFacts, QueuesFacts
<1>5. /\ Queues(l, H) /\ l.next = lists.next
      /\ z # NULL => z \in G["zombies_queue"]
  BY <1>4, DequeueQueues, QueueNames
<1>6. H["zombies_queue"] = G["zombies_queue"] \ {z} /\ H["run_queue"] = G["run_queue"]
  BY <1>4, QueueNames
<1>7. \A t \in Task : p[t] = IF t = z THEN "freed" ELSE pc[t]
  BY <1>3, <1>5, SignalsAssumption
<1>8. p \in [Task -> Pc]
  BY <1>3 DEF Pc
<1> HIDE DEF z, p, l, H
<1>9. z = NULL \/ (z \in G["zombies_queue"] /\ z \in Task)
  BY <1>4, <1>5
<1>10. \A t \in Task : t \in Queued(H) <=> t \in Queued(G) /\ t # z
  BY <1>4, <1>5, <1>6, <1>9, SignalsAssumption DEF Queued
<1>11. Placed(l, H, current, Parked, p)
  <2>1. \A t \in Task : p[t] \in {"unused", "freed"} <=> t # current /\ t \notin Parked /\ t \notin Queued(H)
    <3> SUFFICES ASSUME NEW t \in Task
                 PROVE  p[t] \in {"unused", "freed"} <=> t # current /\ t \notin Parked /\ t \notin Queued(H)
      OBVIOUS
    <3>1. CASE t = z
      BY <1>4, <1>7, <1>9, <1>10, <3>1, SignalsAssumption DEF Queued
    <3>2. CASE t # z
      BY <1>4, <1>7, <1>10, <3>2
    <3> QED
      BY <3>1, <3>2
  <2>2. \A t \in H["zombies_queue"] : p[t] \notin Awaiting
    BY <1>4, <1>6, <1>7
  <2>3. current \notin Queued(H) /\ Parked \cap Queued(H) = {}
    BY <1>4, <1>10
  <2> QED
    BY <1>4, <1>5, <2>1, <2>2, <2>3 DEF Placed
<1>12. Quiet(p)
  BY <1>3, <1>4, <1>7, <1>9, SignalsAssumption DEF Quiet, OneSignal
<1>13. signal'.exit => \/ signal.pid \in Parked
                       \/ \E w \in Task \ H["zombies_queue"] : p[w] \in {"clear", "unset"}
  <2>1. signal.exit => \/ signal.pid \in Parked
                       \/ \E w \in Task \ G["zombies_queue"] : pc[w] \in {"clear", "unset"}
    BY <1>1 DEF Located, ExitPending
  <2>2. \A w \in Task \ G["zombies_queue"] : w \in Task \ H["zombies_queue"] /\ p[w] = pc[w]
    BY <1>6, <1>7, <1>9, SignalsAssumption
  <2> QED
    BY <1>2, <2>1, <2>2
<1> QED
  BY <1>2, <1>3, <1>8, <1>11, <1>12, <1>13, SwitchAccounted

(* exit: the target of the last signal may be killed as well.              *)
LEMMA ExitTaskAccounted ==
  ASSUME Typed, Accounted, ExitTask, pc[current] \notin Awaiting, cpu' = "tasks"
  PROVE  Accounted'
<1> DEFINE killed == IF signal.exit THEN KillThread(lists, signal.pid) ELSE lists
           p == [pc EXCEPT ![current] = "exited"]
<1>1. PICK G : Located(G)
  BY DEF Accounted
<1>2. /\ Schedule(killed, p) /\ UNCHANGED <<temp_queue, handlers>>
      /\ signal' = [signal EXCEPT !.exit = FALSE]
  BY DEF ExitTask
<1>3. /\ pc \in [Task -> Pc] /\ OneSignal /\ HandlerKnown /\ current \in Task
  BY <1>1, RunningFacts, TypedFacts DEF Accounted
<1>4. \E H : Placed(killed, H, current, Parked, pc)
  <2>1. Placed(lists, G, current, Parked, pc)
    BY <1>1 DEF Located
  <2>2. signal.pid \in G["run_queue"] => pc[signal.pid] \notin Awaiting
    BY <1>1, <1>3, QueuesFacts, RunningFacts, SignalsAssumption DEF OneSignal
  <2>3. Placed(KillThread(lists, signal.pid), Moved(G, signal.pid), current, Parked, pc)
    BY <2>1, <2>2, PlacedKill
  <2> QED
    BY <2>1, <2>3
<1>5. PICK H : Placed(killed, H, current, Parked, pc)
  BY <1>4
<1> HIDE DEF killed
<1>6. Placed(killed, H, current, Parked, p)
  <2> DEFINE v == "exited"
  <2>1. v \notin {"unused", "freed"} /\ p = [pc EXCEPT ![current] = v]
    OBVIOUS
  <2> HIDE DEF v, p
  <2> QED
    BY <1>3, <1>5, <2>1, PlacedGoto
<1>7. p \in [Task -> Pc] /\ \A t \in Task : p[t] = IF t = current THEN "exited" ELSE pc[t]
  BY <1>3 DEF Pc
<1> HIDE DEF p
<1>8. Quiet(p)
  BY <1>3, <1>7, SignalsAssumption DEF Quiet, OneSignal
<1>9. signal'.exit = FALSE /\ signal'.pid = signal.pid /\ signal'.handler = signal.handler
  BY <1>2, TypedFacts
<1> QED
  BY <1>2, <1>3, <1>6, <1>7, <1>8, <1>9, SwitchAccounted

(* fork by a program: a handler that forks spoils signals.                 *)
LEMMA ForkAccounted ==
  ASSUME Typed, Accounted, NEW child \in Task, Fork(child), ~spoiled'
  PROVE  Accounted'
<1>1. PICK G : Located(G)
  BY DEF Accounted
<1> DEFINE v == "user"
<1>2. /\ pc[child] = "unused" /\ pc' = [pc EXCEPT ![child] = v]
      /\ lists' = Enqueue(lists, "run_queue", child)
      /\ handlers' = IF current \in handlers THEN handlers \cup {child} ELSE handlers
      /\ UNCHANGED <<current, temp_queue, signal>>
  BY DEF Fork, MakesCalls, InUserCode, ChangeLists
<1>3. pc \in [Task -> Pc] /\ OneSignal /\ HandlerKnown
  BY TypedFacts DEF Accounted
<1>4. v \notin {"unused", "freed"} /\ v \notin Awaiting
  BY DEF Awaiting
<1>5. pc'[child] = v /\ \A t \in Task \ {child} : pc'[t] = pc[t]
  BY <1>2, <1>3
<1>6. PICK H : Placed(lists', H, current, Parked, pc') /\ H["zombies_queue"] = G["zombies_queue"]
  <2>1. Placed(lists, G, current, Parked, pc)
    BY <1>1 DEF Located
  <2> HIDE DEF v
  <2>2. PlacedWithZombies(Enqueue(lists, "run_queue", child), G["zombies_queue"], current, Parked,
                          [pc EXCEPT ![child] = v])
    BY <1>2, <1>3, <1>4, <2>1, PlacedNew
  <2> QED
    BY <1>2, <2>2 DEF PlacedWithZombies
<1>7. \A t \in Task : /\ pc'[t] \in Awaiting <=> pc[t] \in Awaiting
                      /\ pc'[t] \in Awaiting => pc'[t] = pc[t]
  BY <1>2, <1>4, <1>5 DEF Awaiting
<1>8. \A t \in Task : /\ pc'[t] = "clear" <=> pc[t] = "clear"
                      /\ pc'[t] = "test" <=> pc[t] = "test"
  BY <1>2, <1>5
<1>9. Parked' = Parked
  BY <1>2, <1>8 DEF Parked
<1>10. ExitPending(H["zombies_queue"])'
  <2> SUFFICES ASSUME signal.exit, signal.pid \notin Parked
               PROVE  \E w \in Task \ H["zombies_queue"] : pc'[w] \in {"clear", "unset"}
    BY <1>2, <1>9 DEF ExitPending
  <2>1. PICK w \in Task \ G["zombies_queue"] : pc[w] \in {"clear", "unset"}
    BY <1>1 DEF Located, ExitPending
  <2>2. w # child
    BY <1>2, <2>1
  <2> QED
    BY <1>5, <1>6, <2>1, <2>2
<1>11. signal.pid # NULL => signal.pid \in Task /\ signal.pid # child /\ pc[signal.pid] \notin Awaiting
  BY <1>2, <1>3, TypedFacts DEF OneSignal, Pointer
<1>12. OneSignal'
  BY <1>2, <1>3, <1>5, <1>7, <1>11 DEF OneSignal
<1>13. temp_queue # child
  <2> SUFFICES ASSUME temp_queue = child PROVE FALSE
    OBVIOUS
  <2>1. CASE \A u \in Task : pc[u] # "clear"
    <3>1. child \in Parked
      BY <2>1, TypedFacts DEF Parked
    <3> QED
      BY <1>1, <1>2, <3>1, RunningFacts
  <2>2. CASE \E u \in Task : pc[u] = "clear"
    BY <1>3, <1>11, <2>2 DEF OneSignal, Awaiting
  <2> QED
    BY <2>1, <2>2
<1>14. HandlerKnown'
  BY <1>2, <1>3, <1>7, <1>8, <1>13 DEF HandlerKnown
<1> QED
  BY <1>2, <1>6, <1>9, <1>10, <1>12, <1>14 DEF Accounted, Located

(* kill of a task that is no wrapper: a kill of one spoils signals.        *)
LEMMA KillAccounted ==
  ASSUME Typed, Accounted, NEW target \in Task, Kill(target), ~spoiled'
  PROVE  Accounted'
<1>1. PICK G : Located(G)
  BY DEF Accounted
<1>2. /\ lists' = KillThread(lists, target)
      /\ UNCHANGED <<current, temp_queue, signal, handlers, pc>>
      /\ pc[target] \notin Wrapper
  BY DEF Kill, ChangeLists
<1>3. pc[target] \notin Awaiting /\ pc[target] \notin {"clear", "unset"}
  BY <1>2 DEF Wrapper, Awaiting
<1>4. G \in [Queue -> SUBSET Task]
  BY <1>1, RunningFacts, QueuesFacts
<1>5. PICK H : /\ Placed(lists', H, current, Parked, pc)
               /\ H["zombies_queue"] \subseteq G["zombies_queue"] \cup {target}
  <2>1. Placed(lists, G, current, Parked, pc)
    BY <1>1 DEF Located
  <2>2. Placed(KillThread(lists, target), Moved(G, target), current, Parked, pc)
    BY <1>3, <2>1, PlacedKill
  <2>3. Moved(G, target)["zombies_queue"] \subseteq G["zombies_queue"] \cup {target}
    BY <1>4, MovedFacts
  <2> QED
    BY <1>2, <2>2, <2>3
<1>6. Parked' = Parked
  BY <1>2 DEF Parked
<1>7. ExitPending(H["zombies_queue"])'
  BY <1>1, <1>2, <1>3, <1>5, <1>6 DEF Located, ExitPending
<1>8. OneSignal' /\ HandlerKnown'
  BY <1>2 DEF Accounted, OneSignal, HandlerKnown
<1> QED
  BY <1>2, <1>5, <1>6, <1>7, <1>8 DEF Accounted, Located

(* signal_kill of a target that is not the first, when nobody is parked.   *)
LEMMA SignalKillAccounted ==
  ASSUME Typed, Accounted, NEW target \in Task, NEW wrapper \in Task,
         SignalKill(target, wrapper), ~spoiled'
  PROVE  Accounted'
<1> DEFINE r == RemoveTask(lists, target)
           v == "test"
           T == {target}
<1>1. PICK G : Located(G)
  BY DEF Accounted
<1> DEFINE D == [G EXCEPT !["run_queue"] = G["run_queue"] \ {target}]
<1>2. /\ pc[wrapper] = "unused" /\ pc' = [pc EXCEPT ![wrapper] = v]
      /\ target \in Members(lists, "run_queue")
      /\ lists' = Enqueue(r, "run_queue", wrapper)
      /\ signal' = [handler |-> target \in handlers, pid |-> target, exit |-> TRUE]
      /\ temp_queue' = target
      /\ UNCHANGED <<current, handlers>>
      /\ target # lists.run_queue /\ temp_queue = NULL
  BY DEF SignalKill, ChangeLists, Spoils
<1>3. pc \in [Task -> Pc] /\ \A t \in Task : pc[t] \notin Awaiting
  BY <1>2, TypedFacts DEF Accounted, OneSignal
<1>4. Parked = {}
  BY <1>2 DEF Parked
<1>5. /\ Queues(lists, G)
      /\ current \in Task /\ current \notin Queued(G)
      /\ \A t \in Task : pc[t] \in {"unused", "freed"} <=> t # current /\ t \notin Queued(G)
      /\ G["zombies_queue"] \subseteq Task
  BY <1>1, <1>4, RunningFacts
<1>6. /\ target \in G["run_queue"] /\ target \notin G["zombies_queue"]
      /\ G \in [Queue -> SUBSET Task]
  BY <1>2, <1>5, QueuesFacts
<1>7. target # wrapper /\ target # current /\ wrapper # current
  BY <1>2, <1>5, <1>6 DEF Queued
<1>8. /\ Queues(r, D) /\ OnlyLinks(lists, r, Queued(G)) /\ r.next[target] = NULL
  BY <1>2, <1>5, <1>6, RemoveQueues
<1>9. D["run_queue"] = G["run_queue"] \ {target} /\ D["zombies_queue"] = G["zombies_queue"]
  BY <1>6, QueueNames
<1>10. Queued(D) = Queued(G) \ {target}
  BY <1>6, <1>9 DEF Queued
<1>11. Placed(r, D, current, T, pc)
  <2>1. \A t \in Task : pc[t] \in {"unused", "freed"} <=> t # current /\ t \notin T /\ t \notin Queued(D)
    BY <1>5, <1>6, <1>10 DEF Queued
  <2>2. \A t \in D["zombies_queue"] : pc[t] \notin Awaiting
    BY <1>3, <1>5, <1>9
  <2> HIDE DEF r, D
  <2> QED
    BY <1>5, <1>7, <1>8, <1>10, <2>1, <2>2 DEF Placed
<1>12. \E H : Placed(lists', H, current, T, pc')
  <2>1. v \notin {"unused", "freed"}
    OBVIOUS
  <2> HIDE DEF v, T, r, D
  <2>2. PlacedWithZombies(Enqueue(r, "run_queue", wrapper), D["zombies_queue"], current, T,
                          [pc EXCEPT ![wrapper] = v])
    BY <1>2, <1>3, <1>11, <2>1, PlacedNew
  <2> QED
    BY <1>2, <2>2 DEF PlacedWithZombies
<1>13. pc'[wrapper] = "test" /\ \A t \in Task \ {wrapper} : pc'[t] = pc[t]
  BY <1>2, <1>3
<1>14. \A t \in Task : pc'[t] \in Awaiting <=> t = wrapper
  BY <1>3, <1>13 DEF Awaiting
<1>15. Parked' = T
  <2>1. \A t \in Task : pc'[t] # "clear"
    BY <1>13, <1>14 DEF Awaiting
  <2> QED
    BY <1>2, <2>1, SignalsAssumption DEF Parked
<1>16. signal'.pid = target /\ signal'.handler = (target \in handlers)
  BY <1>2
<1>17. PICK H : Placed(lists', H, current, T, pc')
  BY <1>12
<1>18. ExitPending(H["zombies_queue"])'
  BY <1>15, <1>16 DEF ExitPending
<1>19. OneSignal'
  <2>1. pc'[target] \notin Awaiting \cup {"unused"}
    BY <1>5, <1>6, <1>7, <1>13, <1>14 DEF Queued
  <2> QED
    BY <1>2, <1>14, <1>16, <2>1, SignalsAssumption DEF OneSignal
<1>20. HandlerKnown'
  BY <1>2, <1>13, <1>16 DEF HandlerKnown, Awaiting
<1>21. Placed(lists', H, current', Parked', pc')
  BY <1>2, <1>15, <1>17
<1> QED
  BY <1>18, <1>19, <1>20, <1>21 DEF Accounted, Located

-----------------------------------------------------------------------------
(* The theorems.                                                           *)

(* At the start a program waits and the idle task runs.                    *)
LEMMA InitIInv == Init => IInv
<1> SUFFICES ASSUME Init PROVE IInv
  OBVIOUS
<1>1. PICK first \in Task \ {Idle} :
        /\ lists = [run_queue |-> first, zombies_queue |-> NULL,
                    next |-> [t \in Task |-> NULL], endless |-> FALSE]
        /\ pc = [t \in Task |-> IF t \in {Idle, first} THEN "user" ELSE "unused"]
  BY DEF Init
<1>2. /\ current = Idle /\ temp_queue = NULL
      /\ signal = [handler |-> FALSE, pid |-> NULL, exit |-> FALSE]
      /\ handlers = {} /\ walk = [t \in Task |-> NULL] /\ cpu = "tasks" /\ spoiled = FALSE
  BY DEF Init
<1>3. lists \in ListsType
  BY <1>1 DEF ListsType, Pointer
<1>4. /\ lists["run_queue"] = first /\ lists["zombies_queue"] = NULL
      /\ \A t \in Task : lists.next[t] = NULL
  BY <1>1
<1>5. pc \in [Task -> Pc] /\ \A t \in Task : pc[t] \notin Awaiting
  BY <1>1 DEF Pc, Awaiting
<1>6. Typed
  <2>1. WalkEnds
    BY <1>5 DEF WalkEnds, Awaiting
  <2> QED
    BY <1>2, <1>3, <1>5, <2>1, SignalsAssumption DEF Typed, Pointer, Cpu
<1> DEFINE G == [q \in Queue |-> IF q = "run_queue" THEN {first} ELSE {}]
<1>7. G \in [Queue -> SUBSET Task] /\ G["run_queue"] = {first} /\ G["zombies_queue"] = {}
  BY QueueNames
<1> HIDE DEF G
<1>8. Queues(lists, G)
  <2> DEFINE N == {}
  <2>1. Holds(lists, "run_queue", {first})
    BY <1>3, <1>4, QueueNames, HoldsSingle
  <2>2. Holds(lists, "zombies_queue", {})
    BY <1>3, <1>4, QueueNames, HoldsNobody
  <2>3. \A q \in Queue : Holds(lists, q, G[q])
    BY <1>7, <2>1, <2>2, QueueNames
  <2>4. \A q, r \in Queue : q # r => G[q] \cap G[r] = {}
    BY <1>7, QueueNames
  <2> QED
    BY <1>3, <1>7, <2>3, <2>4 DEF Queues
<1>9. Parked = {}
  BY <1>2 DEF Parked
<1>10. Queued(G) = {first}
  BY <1>7 DEF Queued
<1>11. Placed(lists, G, current, {}, pc)
  <2>1. \A t \in Task : pc[t] \in {"unused", "freed"} <=> t # current /\ t \notin {} /\ t \notin Queued(G)
    BY <1>1, <1>2, <1>10
  <2>2. current \in Task /\ current \notin Queued(G)
    BY <1>2, <1>10, SignalsAssumption
  <2> QED
    BY <1>7, <1>8, <2>1, <2>2 DEF Placed
<1>12. Located(G)
  BY <1>2, <1>9, <1>11 DEF Located, ExitPending
<1>13. OneSignal /\ HandlerKnown
  BY <1>2, <1>5 DEF OneSignal, HandlerKnown
<1> QED
  BY <1>6, <1>12, <1>13 DEF IInv, Accounted

(* The invariant is kept by every step.                                    *)
LEMMA StepIInv == IInv /\ [Next]_vars => IInv'
<1> SUFFICES ASSUME IInv, [Next]_vars, ~spoiled', cpu' = "tasks" PROVE Accounted'
  BY TypesKept DEF IInv
<1>1. Typed /\ spoiled \in BOOLEAN
  BY TypedFacts DEF IInv
<1>2. ASSUME ~spoiled, cpu = "tasks" PROVE Accounted
  BY <1>2 DEF IInv
<1>3. CASE IdleLoop
  <2>1. ~spoiled /\ cpu = "tasks"
    BY <1>3 DEF IdleLoop
  <2> QED
    BY <1>1, <1>2, <1>3, <2>1, IdleLoopAccounted
<1>4. CASE Preempt
  <2>1. ~spoiled /\ cpu = "tasks"
    BY <1>4 DEF Preempt
  <2> QED
    BY <1>1, <1>2, <1>4, <2>1, PreemptAccounted
<1>5. ASSUME NEW t \in Task, Fork(t) PROVE Accounted'
  <2>1. ~spoiled /\ cpu = "tasks"
    BY <1>5 DEF Fork, MakesCalls, InUserCode
  <2> QED
    BY <1>1, <1>2, <1>5, <2>1, ForkAccounted
<1>6. ASSUME NEW t \in Task, Kill(t) PROVE Accounted'
  <2>1. ~spoiled /\ cpu = "tasks"
    BY <1>6 DEF Kill, MakesCalls, InUserCode
  <2> QED
    BY <1>1, <1>2, <1>6, <2>1, KillAccounted
<1>7. ASSUME NEW t \in Task, SignalKillUnqueued(t) PROVE Accounted'
  BY <1>7 DEF SignalKillUnqueued
<1>8. ASSUME NEW t \in Task, NEW w \in Task, SignalKill(t, w) PROVE Accounted'
  <2>1. ~spoiled /\ cpu = "tasks"
    BY <1>8 DEF SignalKill, MakesCalls, InUserCode
  <2> QED
    BY <1>1, <1>2, <1>8, <2>1, SignalKillAccounted
<1>9. CASE Register
  <2>1. ~spoiled /\ cpu = "tasks"
    BY <1>9 DEF Register, MakesCalls, InUserCode
  <2> QED
    BY <1>1, <1>2, <1>9, <2>1, RegisterAccounted
<1>10. CASE Exit
  <2>1. ~spoiled /\ cpu = "tasks" /\ ExitTask /\ pc[current] \notin Awaiting
    BY <1>1, <1>10 DEF Exit, InUserCode, Awaiting
  <2> QED
    BY <1>1, <1>2, <2>1, ExitTaskAccounted
<1>11. CASE WrapperExit
  <2>1. ~spoiled /\ cpu = "tasks" /\ ExitTask /\ pc[current] \notin Awaiting
    BY <1>11 DEF WrapperExit, At, Awaiting
  <2> QED
    BY <1>1, <1>2, <2>1, ExitTaskAccounted
<1>12. CASE TestHandler \/ CallHandler \/ HandlerReturns \/ AddToQueue \/ Walk
  <2>1. ~spoiled /\ cpu = "tasks"
    BY <1>12 DEF TestHandler, CallHandler, HandlerReturns, AddToQueue, Walk, At
  <2> QED
    BY <1>1, <1>2, <1>12, <2>1, WrapperStepAccounted
<1>13. CASE Link
  <2>1. ~spoiled /\ cpu = "tasks" /\ ~Stale(walk[current])
    BY <1>1, <1>13 DEF Link, At
  <2> QED
    BY <1>1, <1>2, <1>13, <2>1, LinkAccounted
<1>14. CASE Clear
  <2>1. ~spoiled /\ cpu = "tasks"
    BY <1>14 DEF Clear, At
  <2> QED
    BY <1>1, <1>2, <1>14, <2>1, ClearAccounted
<1>15. CASE KillTarget
  <2>1. ~spoiled /\ cpu = "tasks"
    BY <1>15 DEF KillTarget, At
  <2> QED
    BY <1>1, <1>2, <1>15, <2>1, KillTargetAccounted
<1>16. CASE UnsetExit
  <2>1. ~spoiled /\ cpu = "tasks"
    BY <1>16 DEF UnsetExit, At
  <2> QED
    BY <1>1, <1>2, <1>16, <2>1, UnsetExitAccounted
<1>17. CASE UNCHANGED vars
  <2>1. Accounted
    BY <1>2, <1>17 DEF vars
  <2> QED
    BY <1>17, <2>1 DEF vars, Accounted, Located, OneSignal, HandlerKnown, ExitPending, Parked
<1> QED
  BY <1>3, <1>4, <1>5, <1>6, <1>7, <1>8, <1>9, <1>10, <1>11, <1>12, <1>13, <1>14, <1>15, <1>16, <1>17 DEF Next

(* The invariant holds in every reachable state, for every set of tasks.   *)
THEOREM Inductive == Spec => []IInv
<1>1. Init => IInv
  BY InitIInv
<1>2. IInv /\ [Next]_vars => IInv'
  BY StepIInv
<1> QED
  BY <1>1, <1>2, PTL DEF Spec

(* Signals lose no task and queue none twice, however their wrappers are   *)
(* preempted (scheduler.c:149-177, exception.c:234-243, 320-329).          *)
THEOREM AccountedHolds == Spec => []TasksAccounted
<1>1. IInv => TasksAccounted
  <2> SUFFICES ASSUME IInv PROVE TasksAccounted
    OBVIOUS
  <2>1. TypeOK
    BY TypedIsTypeOK DEF IInv
  <2>2. ASSUME ~spoiled, cpu = "tasks", NEW t \in Task
        PROVE  Cardinality(Places(t)) = IF pc[t] \in {"unused", "freed"} THEN 0 ELSE 1
    <3>1. PICK G : Located(G)
      BY <2>2 DEF IInv, Accounted
    <3>2. /\ Queues(lists, G)
          /\ current \notin Parked /\ current \notin Queued(G) /\ Parked \cap Queued(G) = {}
          /\ pc[t] \in {"unused", "freed"} <=> t # current /\ t \notin Parked /\ t \notin Queued(G)
      BY <3>1, RunningFacts
    <3>3. /\ Members(lists, "run_queue") = G["run_queue"]
          /\ Members(lists, "zombies_queue") = G["zombies_queue"]
          /\ ~(t \in G["run_queue"] /\ t \in G["zombies_queue"])
      BY <3>2, QueuesFacts
    <3>4. t \in Parked <=> t = temp_queue /\ \A u \in Task : pc[u] # "clear"
      BY SignalsAssumption DEF Parked
    <3>5. \A x : x \in Places(t) <=> \/ x = "cpu" /\ t = current
                                     \/ x = "parked" /\ t \in Parked
                                     \/ x = "run_queue" /\ t \in G["run_queue"]
                                     \/ x = "zombies_queue" /\ t \in G["zombies_queue"]
      BY <3>3, <3>4 DEF Places
    <3>6. CASE pc[t] \in {"unused", "freed"}
      <4>1. Places(t) = {}
        BY <3>2, <3>5, <3>6 DEF Queued
      <4> QED
        BY <3>6, <4>1, FS_EmptySet
    <3>7. CASE pc[t] \notin {"unused", "freed"}
      <4>1. \E x : Places(t) = {x}
        <5>1. CASE t = current
          <6>1. Places(t) = {"cpu"}
            BY <3>2, <3>5, <5>1 DEF Queued
          <6> QED
            BY <6>1
        <5>2. CASE t \in Parked
          <6>1. Places(t) = {"parked"}
            BY <3>2, <3>5, <5>2 DEF Queued
          <6> QED
            BY <6>1
        <5>3. CASE t \in G["run_queue"]
          <6>1. Places(t) = {"run_queue"}
            BY <3>2, <3>3, <3>5, <5>3 DEF Queued
          <6> QED
            BY <6>1
        <5>4. CASE t \in G["zombies_queue"]
          <6>1. Places(t) = {"zombies_queue"}
            BY <3>2, <3>3, <3>5, <5>4 DEF Queued
          <6> QED
            BY <6>1
        <5> QED
          BY <3>2, <3>7, <5>1, <5>2, <5>3, <5>4 DEF Queued
      <4> QED
        BY <3>7, <4>1, FS_Singleton
    <3> QED
      BY <3>6, <3>7
  <2> QED
    BY <2>1, <2>2 DEF TasksAccounted
<1> QED
  BY <1>1, Inductive, PTL

(* A parked task with a handler is put back by a wrapper that is still at  *)
(* work (exception.c:321-323).                                             *)
THEOREM AwaitedHolds == Spec => []ParkedIsAwaited
<1>1. IInv => ParkedIsAwaited
  BY DEF IInv, Accounted, HandlerKnown, Awaiting, ParkedIsAwaited
<1> QED
  BY <1>1, Inductive, PTL

(* Only an exit makes the running task an exited one.                      *)
LEMMA OnlyExitsExit ==
  ASSUME IInv, [Next]_vars, pc[current] # "exited", pc'[current] = "exited"
  PROVE  cpu = "tasks" /\ ExitTask
<1>1. Typed /\ pc \in [Task -> Pc]
  BY TypedFacts DEF IInv
<1>2. CASE IdleLoop
  <2>1. cpu = "tasks" /\ current \in Task
    BY <1>1, <1>2, TypedFacts DEF IdleLoop
  <2>2. pc' = IF lists.zombies_queue = NULL THEN pc ELSE [pc EXCEPT ![lists.zombies_queue] = "freed"]
    BY <1>2 DEF IdleLoop, Schedule
  <2> QED
    BY <1>1, <2>1, <2>2
<1>3. CASE Preempt
  BY <1>3 DEF Preempt, Schedule
<1>4. ASSUME NEW t \in Task, Fork(t) PROVE FALSE
  <2>1. cpu = "tasks" /\ current \in Task /\ pc' = [pc EXCEPT ![t] = pc[current]]
    BY <1>1, <1>4, TypedFacts DEF Fork, MakesCalls, InUserCode
  <2> QED
    BY <1>1, <2>1
<1>5. ASSUME NEW t \in Task, NEW w \in Task, SignalKill(t, w) PROVE FALSE
  <2>1. cpu = "tasks" /\ current \in Task /\ pc' = [pc EXCEPT ![w] = "test"]
    BY <1>1, <1>5, TypedFacts DEF SignalKill, MakesCalls, InUserCode
  <2> QED
    BY <1>1, <2>1
<1>6. CASE Exit \/ WrapperExit
  BY <1>6 DEF Exit, WrapperExit, InUserCode, At
<1>7. CASE \/ TestHandler \/ CallHandler \/ HandlerReturns \/ AddToQueue
           \/ Walk \/ Link \/ Clear \/ KillTarget \/ UnsetExit
  <2>1. cpu = "tasks" /\ current \in Task
    BY <1>1, <1>7, TypedFacts DEF TestHandler, CallHandler, HandlerReturns, AddToQueue, Walk,
          Link, Clear, KillTarget, UnsetExit, At
  <2>2. pc' = pc \/ \E v \in Wrapper : v # "exited" /\ pc' = [pc EXCEPT ![current] = v]
    BY <1>7 DEF TestHandler, CallHandler, HandlerReturns, AddToQueue, Walk,
          Link, Clear, KillTarget, UnsetExit, Goto, Wrapper
  <2> QED
    BY <1>1, <2>1, <2>2
<1>8. CASE Register \/ (\E t \in Task : Kill(t) \/ SignalKillUnqueued(t)) \/ UNCHANGED vars
  BY <1>8 DEF Register, Kill, SignalKillUnqueued, vars
<1> QED
  BY <1>2, <1>3, <1>4, <1>5, <1>6, <1>7, <1>8 DEF Next

(* The exit that kills the target as well comes when the wrapper has put   *)
(* it back and not yet unset signal_exit (exception.c:211-214).            *)
THEOREM ExitWindow == Spec => ExitKillsOnlyInWindow
<1>1. IInv /\ [Next]_vars =>
        (~spoiled /\ pc[current] # "exited" /\ pc'[current] = "exited" =>
           \A t \in Members(lists', "zombies_queue") \ Members(lists, "zombies_queue") :
             t = current \/ \E w \in Task : pc[w] \in {"clear", "unset"})
  <2> SUFFICES ASSUME IInv, [Next]_vars, ~spoiled, pc[current] # "exited", pc'[current] = "exited",
                      NEW t \in Members(lists', "zombies_queue") \ Members(lists, "zombies_queue"),
                      t # current
               PROVE  \E w \in Task : pc[w] \in {"clear", "unset"}
    OBVIOUS
  <2> DEFINE killed == IF signal.exit THEN KillThread(lists, signal.pid) ELSE lists
             p == [pc EXCEPT ![current] = "exited"]
  <2>1. cpu = "tasks" /\ Schedule(killed, p)
    BY OnlyExitsExit DEF ExitTask
  <2>2. PICK G : Located(G)
    BY <2>1 DEF IInv, Accounted
  <2>3. /\ Queues(lists, G) /\ G \in [Queue -> SUBSET Task]
        /\ current \in Task /\ current \notin Queued(G)
        /\ Parked \cap Queued(G) = {}
        /\ Members(lists, "zombies_queue") = G["zombies_queue"]
    BY <2>2, RunningFacts, QueuesFacts
  <2> DEFINE K == IF signal.exit THEN Moved(G, signal.pid) ELSE G
  <2>4. Queues(killed, K) /\ Queued(K) = Queued(G)
    <3>1. Queues(KillThread(lists, signal.pid), Moved(G, signal.pid))
      BY <2>3, KillQueues
    <3>2. Queued(Moved(G, signal.pid)) = Queued(G)
      <4>1. CASE signal.pid \in G["run_queue"]
        BY <2>3, <4>1, MovedFacts DEF Queued
      <4>2. CASE signal.pid \notin G["run_queue"]
        BY <2>3, <4>2, MovedFacts
      <4> QED
        BY <4>1, <4>2
    <3> QED
      BY <2>3, <3>1, <3>2
  <2>5. K["zombies_queue"] \subseteq G["zombies_queue"]
          \cup (IF signal.exit /\ signal.pid \in G["run_queue"] THEN {signal.pid} ELSE {})
    BY <2>3, MovedFacts
  <2> HIDE DEF killed, K, p
  <2>6. killed \in ListsType
    BY <2>4, QueuesFacts
  <2>7. PICK q \in Queue : lists' = Switched(killed, q)
    BY <2>1, <2>3, <2>6, ScheduleFacts
  <2>8. PICK H : SwitchedTo(killed, Switched(killed, q), K, H, q)
    BY <2>3, <2>4, SwitchedQueues
  <2>9. Members(lists', "zombies_queue") = H["zombies_queue"]
    BY <2>7, <2>8, QueuesFacts DEF SwitchedTo
  <2>10. t \in K["zombies_queue"]
    BY <2>8, <2>9 DEF SwitchedTo
  <2>11. signal.exit /\ signal.pid \in G["run_queue"]
    BY <2>3, <2>5, <2>10
  <2> QED
    BY <2>2, <2>3, <2>11 DEF Located, ExitPending, Queued
<1> QED
  BY <1>1, Inductive, PTL DEF Spec, ExitKillsOnlyInWindow
=============================================================================
