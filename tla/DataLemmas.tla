----------------------------- MODULE DataLemmas -----------------------------
(***************************************************************************)
(* Facts about data that several proofs need.                              *)
(*                                                                         *)
(* Induction and recursion: numbers are well founded, so a claim holds up  *)
(* to a bound once no least counterexample can exist, and a function that  *)
(* is defined by recursion up to a bound exists.  Both are stated about    *)
(* sets and functions; a claim P is used as the set {n \in Nat : P(n)}.    *)
(*                                                                         *)
(* Lists without repetitions, which is what the linked lists of the kernel *)
(* are: what the operations on them do to the set of their elements.       *)
(*                                                                         *)
(* Parentheses: a stack that drops its top for each that closes is left    *)
(* with those that have no other half, as to_abs_path with names and "..". *)
(***************************************************************************)
EXTENDS Integers, Sequences, SequencesExt, SequenceTheorems, WellFoundedInduction, TLAPS

(* The least element of a set of numbers.                                  *)
LEMMA Least ==
  ASSUME NEW T \in SUBSET Nat, T # {}
  PROVE  \E n \in T : \A m \in T : n <= m
<1> DEFINE R == OpToRel(<, Nat)
<1>1. IsWellFoundedOn(R, Nat)
  BY NatLessThanWellFounded
<1>2. \A m, n \in Nat : <<m, n>> \in R <=> m < n
  BY DEF OpToRel
<1> HIDE DEF R
<1>3. PICK n \in T : \A m \in T : ~(<<m, n>> \in R)
  BY <1>1, WFMin
<1>4. ASSUME NEW m \in T PROVE n <= m
  <2>1. m \in Nat /\ n \in Nat /\ ~(<<m, n>> \in R)
    BY <1>3
  <2> QED
    BY <1>2, <2>1
<1> QED
  BY <1>4

(* Induction up to a bound.                                                *)
LEMMA UpTo ==
  ASSUME NEW N \in Nat, NEW T, 0 \in T, \A n \in 1..N : n - 1 \in T => n \in T
  PROVE  0..N \subseteq T
<1> DEFINE U == {n \in 0..N : n \notin T}
<1>1. ASSUME U # {} PROVE FALSE
  <2>1. PICK n \in U : \A m \in U : n <= m
    <3>1. U \in SUBSET Nat
      OBVIOUS
    <3> HIDE DEF U
    <3> QED
      BY <1>1, <3>1, Least
  <2>2. n \in 1..N /\ n - 1 \in 0..N /\ n - 1 \notin U
    BY <2>1
  <2> QED
    BY <2>1, <2>2
<1> QED
  BY <1>1

(* A recursive definition has a solution: F[n] says how the n-th value     *)
(* follows from the one before, S[n] what the n-th value may be.           *)
StepsWithin(N, S, F) == \A n \in 1..N : \A v \in S[n - 1] : F[n][v] \in S[n]

(* What a loop of N rounds computes: F[n] is the n-th round, S[n] what it  *)
(* may result in.                                                          *)
Solution(g, N, S, F, x) ==
  /\ g = [n \in 0..N |-> IF n = 0 THEN x ELSE F[n][g[n - 1]]]
  /\ \A n \in 0..N : g[n] \in S[n]

(* A loop whose rounds stay within S has a recursive function (the loops   *)
(* over comps, vfs.c:104-119, and over the archive, cpio.c:125-153).       *)
LEMMA Solvable ==
  ASSUME NEW N \in Nat, NEW S, NEW F, NEW x \in S[0], StepsWithin(N, S, F)
  PROVE  \E g : Solution(g, N, S, F, x)
<1> DEFINE Solves(g, m) ==
      /\ g = [n \in 0..m |-> IF n = 0 THEN x ELSE F[n][g[n - 1]]]
      /\ \A n \in 0..m : g[n] \in S[n]
    T == {m \in 0..N : \E g : Solves(g, m)}
<1>1. 0 \in T
  <2> DEFINE g == [n \in 0..0 |-> x]
  <2>1. \A n \in 0..0 : n = 0
    OBVIOUS
  <2>2. g = [n \in 0..0 |-> IF n = 0 THEN x ELSE F[n][g[n - 1]]]
    BY <2>1, Zenon
  <2>3. \A n \in 0..0 : g[n] \in S[n]
    BY <2>1
  <2>4. 0 \in 0..N
    OBVIOUS
  <2> QED
    BY <2>2, <2>3, <2>4, Zenon
<1>2. ASSUME NEW m \in 1..N, m - 1 \in T PROVE m \in T
  <2>1. PICK g : Solves(g, m - 1)
    BY <1>2
  <2> DEFINE h == [n \in 0..m |-> IF n = m THEN F[m][g[m - 1]] ELSE g[n]]
  <2>2. g[m - 1] \in S[m - 1] /\ h[m] = F[m][g[m - 1]] /\ h[m] \in S[m]
    BY <2>1 DEF StepsWithin
  <2>3. \A n \in 0..m - 1 : h[n] = g[n]
    OBVIOUS
  <2>4. \A n \in 0..m - 1 : g[n] = IF n = 0 THEN x ELSE F[n][g[n - 1]]
    BY <2>1
  <2>5. \A n \in 0..m : h[n] = IF n = 0 THEN x ELSE F[n][h[n - 1]]
    <3> SUFFICES ASSUME NEW n \in 0..m PROVE h[n] = IF n = 0 THEN x ELSE F[n][h[n - 1]]
      OBVIOUS
    <3>1. CASE n = m
      <4>1. h[n - 1] = g[m - 1] /\ n # 0
        BY <3>1, <2>3
      <4> QED
        BY <2>2, <3>1, <4>1
    <3>2. CASE n # m
      <4>1. n \in 0..m - 1 /\ (n # 0 => h[n - 1] = g[n - 1])
        BY <3>2
      <4> QED
        BY <2>3, <2>4, <4>1
    <3> QED
      BY <3>1, <3>2
  <2>6. ASSUME NEW n \in 0..m PROVE h[n] \in S[n]
    <3>1. CASE n = m
      BY <2>2, <3>1
    <3>2. CASE n # m
      <4>1. n \in 0..m - 1
        BY <3>2
      <4> QED
        BY <2>1, <2>3, <4>1
    <3> QED
      BY <3>1, <3>2
  <2>7. DOMAIN h = 0..m /\ h = [n \in 0..m |-> h[n]]
    OBVIOUS
  <2> HIDE DEF h
  <2>8. h = [n \in 0..m |-> IF n = 0 THEN x ELSE F[n][h[n - 1]]]
    <3> DEFINE e(n) == IF n = 0 THEN x ELSE F[n][h[n - 1]]
    <3>1. \A n \in 0..m : h[n] = e(n)
      BY <2>5
    <3> HIDE DEF e
    <3>2. h = [n \in 0..m |-> e(n)]
      BY <2>7, <3>1
    <3> QED
      BY <3>2, Zenon DEF e
  <2>9. m \in 0..N
    OBVIOUS
  <2> QED
    BY <2>6, <2>8, <2>9, Zenon
<1>3. N \in T
  <2> HIDE DEF T
  <2> QED
    BY <1>1, <1>2, UpTo
<1>4. PICK g : Solves(g, N)
  BY <1>3, Zenon
<1> QED
  BY <1>4, Zenon DEF Solution

LEMMA Recursion ==
  ASSUME NEW N \in Nat, NEW S, NEW F, NEW x \in S[0], StepsWithin(N, S, F)
  PROVE  \E g : /\ g = [n \in 0..N |-> IF n = 0 THEN x ELSE F[n][g[n - 1]]]
                /\ \A n \in 0..N : g[n] \in S[n]
<1>1. PICK g : Solution(g, N, S, F, x)
  BY Solvable
<1> QED
  BY <1>1, Zenon DEF Solution

(* The same for a recursion from a bound downwards: F[i] says how the i-th *)
(* value follows from those behind it.                                     *)
BackWithin(N, S, F) == \A i \in 1..N : \A g \in [i + 1..N -> S] : F[i][g] \in S

(* It has one, too: the components of a text are found from its end        *)
(* (first_component, pop_first_component, vfs.c:198-219).                  *)
LEMMA Descent ==
  ASSUME NEW N \in Nat, NEW S, NEW F, BackWithin(N, S, F)
  PROVE  \E g \in [1..N -> S] : \A i \in 1..N : g[i] = F[i][[j \in i + 1..N |-> g[j]]]
<1> DEFINE rest(g, i) == [j \in i + 1..N |-> g[j]]
           Solves(g, m) == g \in [m..N -> S] /\ \A i \in m..N : g[i] = F[i][rest(g, i)]
           T == {k \in 0..N : \E g : Solves(g, N + 1 - k)}
<1>1. 0 \in T
  <2> DEFINE g == [i \in N + 1..N |-> 0]
  <2>1. N + 1 - 0 = N + 1 /\ N + 1..N = {}
    OBVIOUS
  <2>2. Solves(g, N + 1)
    BY <2>1
  <2>3. 0 \in 0..N
    OBVIOUS
  <2> HIDE DEF Solves, g
  <2> QED
    BY <2>1, <2>2, <2>3
<1>2. ASSUME NEW k \in 1..N, k - 1 \in T PROVE k \in T
  <2> DEFINE m == N + 1 - k
  <2>1. m \in 1..N /\ N + 1 - (k - 1) = m + 1 /\ k \in 0..N
    OBVIOUS
  <2>2. PICK h : Solves(h, m + 1)
    <3> HIDE DEF Solves
    <3> QED
      BY <1>2, <2>1
  <2> HIDE DEF m
  <2> DEFINE g == [i \in m..N |-> IF i = m THEN F[m][h] ELSE h[i]]
  <2>3. h \in [m + 1..N -> S] /\ \A i \in m + 1..N : h[i] = F[i][rest(h, i)]
    BY <2>2
  <2>4. \A i \in m..N : i # m => i \in m + 1..N
    BY <2>1
  <2>5. F[m][h] \in S
    BY <2>1, <2>3 DEF BackWithin
  <2>6. g \in [m..N -> S]
    BY <2>3, <2>4, <2>5
  <2>7. ASSUME NEW i \in m..N PROVE g[i] = F[i][rest(g, i)]
    <3>1. rest(g, i) = rest(h, i)
      <4>1. \A j \in i + 1..N : g[j] = h[j]
        BY <2>1
      <4> HIDE DEF g
      <4> QED
        BY <4>1
    <3>2. CASE i = m
      <4>1. rest(h, m) = h
        BY <2>3
      <4>2. g[i] = F[m][h]
        BY <3>2
      <4> HIDE DEF g, rest
      <4> QED
        BY <3>1, <3>2, <4>1, <4>2
    <3>3. CASE i # m
      <4>1. g[i] = h[i] /\ h[i] = F[i][rest(h, i)]
        BY <2>3, <2>4, <3>3
      <4> HIDE DEF g, rest
      <4> QED
        BY <3>1, <4>1
    <3> QED
      BY <3>2, <3>3
  <2> HIDE DEF g, rest
  <2>8. Solves(g, m)
    BY <2>6, <2>7
  <2> HIDE DEF Solves
  <2> QED
    BY <2>1, <2>8 DEF m
<1>3. N \in T
  <2> HIDE DEF T
  <2> QED
    BY <1>1, <1>2, UpTo
<1>4. N + 1 - N = 1
  OBVIOUS
<1>5. PICK g : Solves(g, 1)
  <2> HIDE DEF Solves
  <2> QED
    BY <1>3, <1>4
<1> QED
  BY <1>5, Zenon
-----------------------------------------------------------------------------
(* The elements of a list.                                                 *)
LEMMA ListElement ==
  ASSUME NEW S, NEW q \in Seq(S)
  PROVE  /\ \A i \in 1..Len(q) : q[i] \in S /\ q[i] \in Range(q)
         /\ \A x \in Range(q) : x \in S /\ \E i \in 1..Len(q) : q[i] = x
<1>1. DOMAIN q = 1..Len(q) /\ \A i \in 1..Len(q) : q[i] \in S
  OBVIOUS
<1> QED
  BY <1>1 DEF Range

(* The elements, as a set.                                                 *)
LEMMA SetOf ==
  ASSUME NEW f
  PROVE  \A x : x \in ToSet(f) <=> \E i \in DOMAIN f : f[i] = x
BY DEF ToSet

(* A new element at the end.                                               *)
LEMMA AppendSet ==
  ASSUME NEW S, NEW q \in Seq(S), NEW x \in S
  PROVE  ToSet(Append(q, x)) = ToSet(q) \cup {x}
<1> DEFINE r == Append(q, x)
<1>1. /\ Len(q) \in Nat /\ DOMAIN q = 1..Len(q) /\ DOMAIN r = 1..(Len(q) + 1)
      /\ \A i \in 1..Len(q) : r[i] = q[i]
      /\ r[Len(q) + 1] = x
  OBVIOUS
<1> HIDE DEF r
<1>2. ASSUME NEW y \in ToSet(r) PROVE y \in ToSet(q) \cup {x}
  <2>1. PICK i \in 1..(Len(q) + 1) : r[i] = y
    BY <1>1, SetOf
  <2>2. CASE i \in 1..Len(q)
    BY <1>1, <2>1, <2>2, SetOf
  <2>3. CASE i = Len(q) + 1
    BY <1>1, <2>1, <2>3
  <2> QED
    BY <1>1, <2>2, <2>3
<1>3. ASSUME NEW y \in ToSet(q) PROVE y \in ToSet(r)
  <2>1. PICK i \in 1..Len(q) : q[i] = y
    BY <1>1, SetOf
  <2>2. i \in DOMAIN r /\ r[i] = y
    BY <1>1, <2>1
  <2> QED
    BY <2>2, SetOf
<1>4. x \in ToSet(r)
  <2>1. Len(q) + 1 \in DOMAIN r
    BY <1>1
  <2> QED
    BY <1>1, <2>1, SetOf
<1> QED
  BY <1>2, <1>3, <1>4 DEF r

(* A sequence with a member replaced (strtok, string.c:87-140).            *)
LEMMA ReplaceType ==
  ASSUME NEW S, NEW s \in Seq(S), NEW x \in S, NEW k
  PROVE  [s EXCEPT ![k] = x] \in Seq(S)
<1>1. Len(s) \in Nat /\ DOMAIN s = 1..Len(s) /\ \A i \in 1..Len(s) : s[i] \in S
  OBVIOUS
<1> DEFINE r == [s EXCEPT ![k] = x]
<1>2. r = [i \in 1..Len(s) |-> IF i = k THEN x ELSE s[i]]
  BY <1>1
<1> HIDE DEF r
<1>3. r \in [1..Len(s) -> S]
  BY <1>1, <1>2
<1>4. r \in Seq(S)
  BY <1>1, <1>3, SeqDef
<1> QED
  BY <1>4 DEF r

(* A stack without its top (to_abs_path, vfs.c:266-285).                   *)
LEMMA FrontType ==
  ASSUME NEW S, NEW s \in Seq(S)
  PROVE  Front(s) \in Seq(S)
BY DEF Front

(* The second list begins with the first one.                              *)
Prefix(e, d) == Len(e) <= Len(d) /\ \A i \in DOMAIN e : d[i] = e[i]

(* Entries are kept, as a prefix of the array (tmpfs_create,               *)
(* tmpfs.c:167-169).                                                       *)
LEMMA PrefixRefl ==
  ASSUME NEW e \in Seq(Nat)
  PROVE  Prefix(e, e)
BY DEF Prefix

(* Entries are kept by two calls in a row (tmpfs_create, tmpfs.c:167-169). *)
LEMMA PrefixTrans ==
  ASSUME NEW e \in Seq(Nat), NEW d \in Seq(Nat), NEW c \in Seq(Nat), Prefix(e, d), Prefix(d, c)
  PROVE  Prefix(e, c)
<1>1. /\ Len(e) \in Nat /\ DOMAIN e = 1..Len(e) /\ Len(d) \in Nat /\ DOMAIN d = 1..Len(d)
      /\ Len(c) \in Nat
  OBVIOUS
<1>2. Len(e) <= Len(d) /\ Len(d) <= Len(c)
  BY DEF Prefix
<1>3. ASSUME NEW i \in DOMAIN e PROVE c[i] = e[i]
  <2>1. i \in DOMAIN d
    BY <1>1, <1>2
  <2> QED
    BY <1>3, <2>1 DEF Prefix
<1> QED
  BY <1>1, <1>2, <1>3 DEF Prefix

(* A new entry goes behind the others (tmpfs_create, tmpfs.c:167-169).     *)
LEMMA PrefixAppend ==
  ASSUME NEW e \in Seq(Nat), NEW x \in Nat
  PROVE  Prefix(e, Append(e, x))
BY DEF Prefix

(* An entry that is added is the last one (tmpfs_create, tmpfs.c:167-169). *)
LEMMA AppendLast ==
  ASSUME NEW s \in Seq(Nat), NEW x \in Nat
  PROVE  Len(s) + 1 \in DOMAIN Append(s, x) /\ Append(s, x)[Len(s) + 1] = x
<1>1. Len(Append(s, x)) = Len(s) + 1 /\ Append(s, x) \in Seq(Nat)
  OBVIOUS
<1> QED
  BY <1>1

(* A new element in front, as open_page puts it.                           *)
LEMMA PutInFront ==
  ASSUME NEW S, NEW q \in Seq(S), NEW x \in S \ Range(q), IsInjective(q)
  PROVE  /\ <<x>> \o q \in Seq(S)
         /\ IsInjective(<<x>> \o q)
         /\ Range(<<x>> \o q) = Range(q) \cup {x}
<1> DEFINE r == <<x>> \o q
<1>1. /\ r \in Seq(S) /\ Len(r) = Len(q) + 1 /\ DOMAIN r = 1..(Len(q) + 1)
      /\ r[1] = x
      /\ \A j \in 1..Len(q) : r[j + 1] = q[j]
  OBVIOUS
<1> HIDE DEF r
<1>2. \A j \in 1..(Len(q) + 1) : j = 1 \/ (j - 1 \in 1..Len(q) /\ r[j] = q[j - 1])
  BY <1>1
<1>3. IsInjective(r)
  <2>1. \A j, k \in 1..Len(q) : q[j] = q[k] => j = k
    BY DEF IsInjective
  <2>2. \A j \in 1..Len(q) : q[j] # x
    BY ListElement
  <2>3. ASSUME NEW j \in 1..(Len(q) + 1), NEW k \in 1..(Len(q) + 1), r[j] = r[k]
        PROVE  j = k
    <3>1. CASE j = 1 /\ k = 1
      BY <3>1
    <3>2. CASE j = 1 /\ k # 1
      BY <1>1, <1>2, <2>2, <2>3, <3>2
    <3>3. CASE j # 1 /\ k = 1
      BY <1>1, <1>2, <2>2, <2>3, <3>3
    <3>4. CASE j # 1 /\ k # 1
      <4>1. j - 1 = k - 1
        BY <1>2, <2>1, <2>3, <3>4
      <4> QED
        BY <4>1
    <3> QED
      BY <3>1, <3>2, <3>3, <3>4
  <2> QED
    BY <1>1, <2>3 DEF IsInjective
<1>4. Range(r) = Range(q) \cup {x}
  <2>1. \A y \in Range(r) : y \in Range(q) \cup {x}
    BY <1>1, <1>2, ListElement
  <2>2. x \in Range(r)
    BY <1>1, ListElement
  <2>3. ASSUME NEW y \in Range(q) PROVE y \in Range(r)
    <3>1. PICK j \in 1..Len(q) : q[j] = y
      BY ListElement
    <3>2. j + 1 \in 1..Len(r) /\ r[j + 1] = y
      BY <1>1, <3>1
    <3> QED
      BY <1>1, <3>2, ListElement
  <2> QED
    BY <2>1, <2>2, <2>3
<1> QED
  BY <1>1, <1>3, <1>4 DEF r

(* A list without one of its elements is a list.                           *)
LEMMA RemoveAtType ==
  ASSUME NEW S, NEW s \in Seq(S), NEW i \in 1..Len(s)
  PROVE  RemoveAt(s, i) \in Seq(S)
<1>1. SubSeq(s, 1, i - 1) \in Seq(S)
  OBVIOUS
<1>2. SubSeq(s, i + 1, Len(s)) \in Seq(S)
  OBVIOUS
<1> QED
  BY <1>1, <1>2 DEF RemoveAt

(* The elements that are left.                                             *)
LEMMA RemoveAtElements ==
  ASSUME NEW S, NEW q \in Seq(S), NEW i \in 1..Len(q)
  PROVE  /\ Len(RemoveAt(q, i)) = Len(q) - 1
         /\ \A j \in 1..Len(RemoveAt(q, i)) :
              LET n == IF j < i THEN j ELSE j + 1 IN
              RemoveAt(q, i)[j] = q[n] /\ n \in 1..Len(q)
<1> DEFINE a == SubSeq(q, 1, i - 1)
           b == SubSeq(q, i + 1, Len(q))
           r == RemoveAt(q, i)
<1>1. a \in Seq(S) /\ Len(a) = i - 1 /\ \A j \in 1..(i - 1) : a[j] = q[j]
  BY SubSeqProperties
<1>2. b \in Seq(S) /\ Len(b) = Len(q) - i /\ \A j \in 1..(Len(q) - i) : b[j] = q[j + i]
  BY SubSeqProperties
<1>3. r = a \o b
  BY DEF RemoveAt
<1> HIDE DEF a, b
<1>4. /\ a \o b \in Seq(S)
      /\ Len(a \o b) = Len(a) + Len(b)
      /\ \A j \in 1..(Len(a) + Len(b)) :
           (a \o b)[j] = IF j <= Len(a) THEN a[j] ELSE b[j - Len(a)]
  BY <1>1, <1>2, ConcatProperties
<1>5. Len(q) \in Nat /\ i \in 1..Len(q)
  OBVIOUS
<1> HIDE DEF r
<1>6. Len(r) = Len(q) - 1
  BY <1>1, <1>2, <1>3, <1>4, <1>5
<1>7. ASSUME NEW j \in 1..(Len(q) - 1), j < i PROVE r[j] = q[j]
  BY <1>1, <1>2, <1>3, <1>4, <1>5, <1>7
<1>8. ASSUME NEW j \in 1..(Len(q) - 1), ~(j < i) PROVE r[j] = q[j + 1]
  <2>1. j - Len(a) \in 1..(Len(q) - i) /\ (j - Len(a)) + i = j + 1
    BY <1>1, <1>5, <1>8
  <2>2. r[j] = b[j - Len(a)]
    BY <1>1, <1>2, <1>3, <1>4, <1>5, <1>8
  <2> QED
    BY <1>2, <2>1, <2>2
<1> QED
  BY <1>5, <1>6, <1>7, <1>8 DEF r

(* One element is unlinked and the others stay, as remove_page does and a  *)
(* kill of a waiting task.                                                 *)
LEMMA TakeOut ==
  ASSUME NEW S, NEW q \in Seq(S), NEW i \in 1..Len(q), IsInjective(q)
  PROVE  /\ RemoveAt(q, i) \in Seq(S)
         /\ IsInjective(RemoveAt(q, i))
         /\ Range(RemoveAt(q, i)) = Range(q) \ {q[i]}
<1> DEFINE r == RemoveAt(q, i)
           from(m) == IF m < i THEN m ELSE m + 1
<1>5. /\ r \in Seq(S) /\ Len(r) = Len(q) - 1
      /\ \A j \in 1..(Len(q) - 1) : r[j] = IF j < i THEN q[j] ELSE q[j + 1]
  BY RemoveAtType, RemoveAtElements
<1> HIDE DEF r
<1>6. \A m \in 1..(Len(q) - 1) : from(m) \in 1..Len(q) \ {i} /\ r[m] = q[from(m)]
  <2> SUFFICES ASSUME NEW m \in 1..(Len(q) - 1)
               PROVE  from(m) \in 1..Len(q) \ {i} /\ r[m] = q[from(m)]
    OBVIOUS
  <2>1. r[m] = IF m < i THEN q[m] ELSE q[m + 1]
    BY <1>5
  <2>2. m \in 1..Len(q) /\ m + 1 \in 1..Len(q)
    OBVIOUS
  <2> QED
    BY <2>1, <2>2
<1>7. \A m, n \in 1..(Len(q) - 1) : from(m) = from(n) => m = n
  OBVIOUS
<1>8. \A n \in 1..Len(q) \ {i} : \E m \in 1..(Len(q) - 1) : from(m) = n
  <2> TAKE n \in 1..Len(q) \ {i}
  <2>1. CASE n < i
    BY <2>1
  <2>2. CASE n > i
    <3>1. n - 1 \in 1..(Len(q) - 1) /\ from(n - 1) = n
      BY <2>2
    <3> QED
      BY <3>1
  <2> QED
    BY <2>1, <2>2
<1> HIDE DEF from
<1>9. \A m, n \in 1..Len(q) : q[m] = q[n] => m = n
  BY DEF IsInjective
<1>10. DOMAIN r = 1..(Len(q) - 1)
  BY <1>5
<1>11. IsInjective(r)
  BY <1>6, <1>7, <1>9, <1>10 DEF IsInjective
<1>12. ASSUME NEW y \in Range(r) PROVE y \in Range(q) \ {q[i]}
  <2>1. PICK m \in 1..(Len(q) - 1) : r[m] = y
    BY <1>10 DEF Range
  <2>2. from(m) \in 1..Len(q) /\ from(m) # i /\ q[from(m)] = y
    BY <1>6, <2>1
  <2> QED
    BY <1>9, <2>2, ListElement
<1>13. ASSUME NEW y \in Range(q) \ {q[i]} PROVE y \in Range(r)
  <2>1. PICK n \in 1..Len(q) : q[n] = y
    BY ListElement
  <2>2. PICK m \in 1..(Len(q) - 1) : from(m) = n
    BY <1>8, <2>1
  <2> QED
    BY <1>6, <1>10, <2>1, <2>2 DEF Range
<1> QED
  BY <1>5, <1>11, <1>12, <1>13 DEF r

(* The first element goes to the end, as schedule() does with the running  *)
(* task.                                                                   *)
LEMMA Rotate ==
  ASSUME NEW S, NEW q \in Seq(S), q # <<>>, IsInjective(q)
  PROVE  /\ Append(Tail(q), Head(q)) \in Seq(S)
         /\ IsInjective(Append(Tail(q), Head(q)))
         /\ Range(Append(Tail(q), Head(q))) = Range(q)
<1> DEFINE r == Append(Tail(q), Head(q))
           from(m) == IF m = Len(q) THEN 1 ELSE m + 1
<1>1. Len(q) \in Nat \ {0}
  OBVIOUS
<1>2. /\ Tail(q) \in Seq(S) /\ Len(Tail(q)) = Len(q) - 1 /\ Head(q) = q[1] /\ Head(q) \in S
      /\ \A m \in 1..(Len(q) - 1) : Tail(q)[m] = q[m + 1]
  BY HeadTailProperties
<1>3. /\ r \in Seq(S) /\ Len(r) = Len(q)
      /\ \A m \in 1..(Len(q) - 1) : r[m] = q[m + 1]
      /\ r[Len(q)] = q[1]
  BY <1>1, <1>2, AppendProperties
<1> HIDE DEF r
<1>4. \A m \in 1..Len(q) : from(m) \in 1..Len(q) /\ r[m] = q[from(m)]
  BY <1>1, <1>3
<1>5. \A m, n \in 1..Len(q) : from(m) = from(n) => m = n
  BY <1>1
<1>6. \A n \in 1..Len(q) : \E m \in 1..Len(q) : from(m) = n
  <2> TAKE n \in 1..Len(q)
  <2>1. CASE n = 1
    BY <1>1, <2>1
  <2>2. CASE n > 1
    <3>1. n - 1 \in 1..Len(q) /\ from(n - 1) = n
      BY <1>1, <2>2
    <3> QED
      BY <3>1
  <2> QED
    BY <1>1, <2>1, <2>2
<1> HIDE DEF from
<1>7. \A m, n \in 1..Len(q) : q[m] = q[n] => m = n
  BY DEF IsInjective
<1>8. DOMAIN r = 1..Len(q)
  BY <1>3
<1>9. IsInjective(r)
  <2> SUFFICES ASSUME NEW j \in 1..Len(q), NEW k \in 1..Len(q), r[j] = r[k]
               PROVE  j = k
    BY <1>8 DEF IsInjective
  <2>1. from(j) = from(k)
    BY <1>4, <1>7
  <2> QED
    BY <1>5, <2>1
<1>10. ASSUME NEW y \in Range(r) PROVE y \in Range(q)
  <2>1. PICK m \in 1..Len(q) : r[m] = y
    BY <1>8 DEF Range
  <2> QED
    BY <1>4, <2>1, ListElement
<1>11. ASSUME NEW y \in Range(q) PROVE y \in Range(r)
  <2>1. PICK n \in 1..Len(q) : q[n] = y
    BY ListElement
  <2>2. PICK m \in 1..Len(q) : from(m) = n
    BY <1>6, <2>1
  <2> QED
    BY <1>4, <1>8, <2>1, <2>2 DEF Range
<1> QED
  BY <1>3, <1>9, <1>10, <1>11 DEF r

-----------------------------------------------------------------------------
(* A text of parentheses: d tells the opening ones (1), the closing ones   *)
(* (-1) and the rest (0) apart, b[k] is how many are open behind the k-th. *)
Balances(b, d, n) ==
  /\ b[0] = 0
  /\ \A k \in 1..n : b[k] = b[k - 1] + d[k]
  /\ \A k \in 0..n : b[k] \in Int

(* The j-th closes the i-th.                                               *)
Cancels(b, i, j) == b[j] = b[i - 1] /\ \A k \in i..j - 1 : b[k] > b[i - 1]

(* Of the first n, the k-th is a parenthesis without its other half.       *)
Remains(b, d, n, k) ==
  /\ d[k] # 0
  /\ \A i, j \in 1..n : i < j /\ k \in {i, j} => ~Cancels(b, i, j)

(* What is closed was opened, and by what closes.                          *)
LEMMA CancelsEnds ==
  ASSUME NEW N \in Nat, NEW d \in [1..N -> {-1, 0, 1}], NEW b, Balances(b, d, N),
         NEW i \in 1..N, NEW j \in 1..N, i < j, Cancels(b, i, j)
  PROVE  d[i] = 1 /\ d[j] = -1 /\ b[j - 1] = b[j] + 1
<1>1. i \in i..j - 1 /\ j - 1 \in i..j - 1 /\ i - 1 \in 0..N /\ j - 1 \in 0..N
      /\ i \in 0..N /\ j \in 0..N
  OBVIOUS
<1>2. b[i] > b[i - 1] /\ b[j - 1] > b[j]
  BY <1>1 DEF Cancels
<1>3. b[i] = b[i - 1] + d[i] /\ b[j] = b[j - 1] + d[j]
      /\ b[i] \in Int /\ b[j] \in Int /\ b[i - 1] \in Int /\ b[j - 1] \in Int
  BY <1>1 DEF Balances
<1>4. d[i] \in {-1, 0, 1} /\ d[j] \in {-1, 0, 1}
  OBVIOUS
<1> QED
  BY <1>2, <1>3, <1>4

(* What is opened and never closed remains.                                *)
LEMMA OpenKept ==
  ASSUME NEW N \in Nat, NEW d \in [1..N -> {-1, 0, 1}], NEW b, Balances(b, d, N), NEW n \in 1..N, NEW i \in 1..n,
         d[i] = 1, \A k \in i..n : b[k] > b[i - 1]
  PROVE  Remains(b, d, n, i)
<1>1. ASSUME NEW h \in 1..n, NEW j \in 1..n, h < j, i \in {h, j}, Cancels(b, h, j) PROVE FALSE
  <2>0. h \in 1..N /\ j \in 1..N
    OBVIOUS
  <2>1. CASE i = j
    <3>1. d[j] = -1
      BY <1>1, <2>0, CancelsEnds
    <3> QED
      BY <2>1, <3>1
  <2>2. CASE i = h
    <3>1. j \in i..n /\ i - 1 \in 0..N
      BY <1>1, <2>2
    <3>2. b[j] > b[i - 1] /\ b[i - 1] \in Int
      BY <3>1 DEF Balances
    <3>3. b[j] = b[i - 1]
      BY <1>1, <2>2 DEF Cancels
    <3> QED
      BY <3>2, <3>3
  <2> QED
    BY <1>1, <2>1, <2>2
<1> QED
  BY <1>1 DEF Remains

(* Where nothing is closed, what remains is what remained, and the new     *)
(* one.                                                                    *)
LEMMA NothingCloses ==
  ASSUME NEW d, NEW b, NEW n \in Nat, \A i \in 1..n : ~Cancels(b, i, n + 1)
  PROVE  /\ \A k \in 1..n : Remains(b, d, n + 1, k) <=> Remains(b, d, n, k)
         /\ Remains(b, d, n + 1, n + 1) <=> d[n + 1] # 0
<1>1. \A i, j \in 1..n + 1 : i < j => i \in 1..n /\ (j \in 1..n \/ j = n + 1)
  OBVIOUS
<1>2. 1..n \subseteq 1..n + 1 /\ n + 1 \notin 1..n
  OBVIOUS
<1>3. ASSUME NEW k \in 1..n PROVE Remains(b, d, n + 1, k) <=> Remains(b, d, n, k)
  <2>1. ASSUME Remains(b, d, n, k), NEW i \in 1..n + 1, NEW j \in 1..n + 1, i < j, k \in {i, j} PROVE ~Cancels(b, i, j)
    <3>1. CASE j = n + 1
      BY <1>1, <2>1, <3>1
    <3>2. CASE j \in 1..n
      <4>1. i \in 1..n
        BY <1>1, <2>1
      <4> HIDE DEF Cancels
      <4> QED
        BY <2>1, <3>2, <4>1 DEF Remains
    <3> QED
      BY <1>1, <2>1, <3>1, <3>2
  <2>2. Remains(b, d, n, k) => Remains(b, d, n + 1, k)
    BY <2>1 DEF Remains
  <2>3. Remains(b, d, n + 1, k) => Remains(b, d, n, k)
    BY <1>2 DEF Remains
  <2> QED
    BY <2>2, <2>3
<1>4. ASSUME NEW i \in 1..n + 1, NEW j \in 1..n + 1, i < j, n + 1 \in {i, j} PROVE ~Cancels(b, i, j)
  <2>1. j = n + 1
    BY <1>4
  <2>2. i \in 1..n
    BY <1>1, <1>4
  <2> QED
    BY <2>1, <2>2
<1> QED
  BY <1>3, <1>4 DEF Remains

(* Where one is closed, the others remain.                                 *)
LEMMA TopCloses ==
  ASSUME NEW d, NEW b, NEW n \in Nat, NEW h \in 1..n, Cancels(b, h, n + 1),
         \A i \in 1..n : Cancels(b, i, n + 1) => i = h
  PROVE  /\ \A k \in 1..n : Remains(b, d, n + 1, k) <=> Remains(b, d, n, k) /\ k # h
         /\ ~Remains(b, d, n + 1, n + 1)
<1>1. \A i, j \in 1..n + 1 : i < j => i \in 1..n /\ (j \in 1..n \/ j = n + 1)
  OBVIOUS
<1>2. 1..n \subseteq 1..n + 1 /\ h \in 1..n + 1 /\ n + 1 \in 1..n + 1 /\ h < n + 1 /\ n + 1 \notin 1..n
  OBVIOUS
<1>3. ASSUME NEW k \in {h, n + 1} PROVE ~Remains(b, d, n + 1, k)
  BY <1>2 DEF Remains
<1>4. ASSUME NEW k \in 1..n, Remains(b, d, n, k), k # h PROVE Remains(b, d, n + 1, k)
  <2>1. ASSUME NEW i \in 1..n + 1, NEW j \in 1..n + 1, i < j, k \in {i, j}, Cancels(b, i, j) PROVE FALSE
    <3>1. CASE j = n + 1
      <4>1. i \in 1..n
        BY <1>1, <2>1
      <4>2. i = h
        BY <2>1, <3>1, <4>1
      <4>3. k = i
        BY <1>2, <2>1, <3>1
      <4> QED
        BY <1>4, <4>2, <4>3
    <3>2. CASE j \in 1..n
      <4>1. i \in 1..n
        BY <1>1, <2>1
      <4> QED
        BY <1>4, <2>1, <3>2, <4>1 DEF Remains
    <3> QED
      BY <1>1, <2>1, <3>1, <3>2
  <2> QED
    BY <1>4, <2>1 DEF Remains
<1>5. ASSUME NEW k \in 1..n, Remains(b, d, n + 1, k) PROVE Remains(b, d, n, k)
  BY <1>2, <1>5 DEF Remains
<1> QED
  BY <1>3, <1>4, <1>5

(* p: where the names of the stack come from; the first a of them are "..". *)
(* A stack v of what remains (the loop of to_abs_path, vfs.c:266-285): p   *)
(* says where its entries are from, the first a of them close nothing, and *)
(* behind each of the others, which are open, there are never less open    *)
(* than with it.                                                           *)
Stacked(b, d, comps, n, v, p, a) ==
  /\ p \in [1..Len(v) -> 1..n]
  /\ \A m \in 1..Len(v) : v[m] = comps[p[m]] /\ Remains(b, d, n, p[m])
  /\ \A l, m \in 1..Len(v) : l < m => p[l] < p[m]
  /\ \A k \in 1..n : Remains(b, d, n, k) => \E m \in 1..Len(v) : p[m] = k
  /\ a \in 0..Len(v)
  /\ \A m \in 1..Len(v) : d[p[m]] = -1 <=> m <= a
  /\ \A m \in a + 1..Len(v) : b[p[m]] = b[n] - (Len(v) - m) /\ \A k \in p[m]..n : b[k] >= b[p[m]]

(* What skipping a component does. *)
(* The rest leaves the stack as it is (vfs.c:270-271).                     *)
LEMMA StackSkips ==
  ASSUME NEW S, NEW N \in Nat, NEW comps \in [1..N -> S], NEW d \in [1..N -> {-1, 0, 1}],
         NEW b, Balances(b, d, N), NEW n \in Nat, n + 1 \in 1..N,
         NEW v \in Seq(S), NEW p, NEW a, Stacked(b, d, comps, n, v, p, a), d[n + 1] = 0
  PROVE  Stacked(b, d, comps, n + 1, v, p, a)
<1>1. b[n + 1] = b[n] /\ b[n] \in Int
  <2>1. n \in 0..N /\ n + 1 - 1 = n
    OBVIOUS
  <2> QED
    BY <2>1 DEF Balances
<1>2. \A i \in 1..n : ~Cancels(b, i, n + 1)
  <2> SUFFICES ASSUME NEW i \in 1..n, Cancels(b, i, n + 1) PROVE FALSE
    OBVIOUS
  <2>1. i \in 1..N /\ i < n + 1
    OBVIOUS
  <2>2. d[n + 1] = -1
    BY <2>1, CancelsEnds
  <2> QED
    BY <2>2
<1>3. /\ \A k \in 1..n : Remains(b, d, n + 1, k) <=> Remains(b, d, n, k)
      /\ ~Remains(b, d, n + 1, n + 1)
  BY <1>2, NothingCloses
<1>4. 1..n \subseteq 1..n + 1 /\ \A k \in 1..n + 1 : k \in 1..n \/ k = n + 1
  OBVIOUS
<1>5. p \in [1..Len(v) -> 1..n + 1]
  BY <1>4 DEF Stacked
<1>6. \A m \in 1..Len(v) : v[m] = comps[p[m]] /\ Remains(b, d, n + 1, p[m])
  <2>1. \A m \in 1..Len(v) : p[m] \in 1..n
    BY DEF Stacked
  <2> QED
    BY <1>3, <2>1 DEF Stacked
<1>7. \A k \in 1..n + 1 : Remains(b, d, n + 1, k) => \E m \in 1..Len(v) : p[m] = k
  BY <1>3, <1>4 DEF Stacked
<1>8. ASSUME NEW m \in a + 1..Len(v)
      PROVE  b[p[m]] = b[n + 1] - (Len(v) - m) /\ \A k \in p[m]..n + 1 : b[k] >= b[p[m]]
  <2>1. m \in 1..Len(v) /\ Len(v) \in Nat /\ m <= Len(v) /\ m \in Int
    BY DEF Stacked
  <2>2. b[p[m]] = b[n] - (Len(v) - m) /\ (\A k \in p[m]..n : b[k] >= b[p[m]]) /\ p[m] \in 1..n
    BY <2>1 DEF Stacked
  <2>3. b[n + 1] >= b[p[m]]
    BY <1>1, <2>1, <2>2
  <2>4. \A k \in p[m]..n + 1 : k \in p[m]..n \/ k = n + 1
    BY <2>2
  <2> QED
    BY <1>1, <2>2, <2>3, <2>4
<1> QED
  BY <1>5, <1>6, <1>7, <1>8 DEF Stacked

(* What pushing does: a name on the top, or a ".." on others.  *)
(* What opens is put on the stack, and so is what has nothing to close     *)
(* (vfs.c:275-276, 281-283).                                               *)
LEMMA StackPushes ==
  ASSUME NEW S, NEW N \in Nat, NEW comps \in [1..N -> S], NEW d \in [1..N -> {-1, 0, 1}],
         NEW b, Balances(b, d, N), NEW n \in Nat, n + 1 \in 1..N,
         NEW v \in Seq(S), NEW p, NEW a, Stacked(b, d, comps, n, v, p, a),
         d[n + 1] # 0, d[n + 1] = -1 => a = Len(v)
  PROVE  \E q, c : Stacked(b, d, comps, n + 1, Append(v, comps[n + 1]), q, c)
<1> DEFINE x == comps[n + 1]
           w == Append(v, x)
           L == Len(v)
           q == [m \in 1..L + 1 |-> IF m = L + 1 THEN n + 1 ELSE p[m]]
           c == IF d[n + 1] = -1 THEN L + 1 ELSE a
<1>1. n \in 0..N /\ n + 1 - 1 = n /\ n \in Int
  OBVIOUS
<1>2. b[n + 1] = b[n] + d[n + 1] /\ b[n] \in Int /\ \A k \in 1..n + 1 : b[k] \in Int /\ b[k - 1] \in Int
  <2>1. \A k \in 1..n + 1 : k \in 0..N /\ k - 1 \in 0..N
    OBVIOUS
  <2> QED
    BY <1>1, <2>1 DEF Balances
<1>3. d[n + 1] = -1 \/ d[n + 1] = 1
  OBVIOUS
<1>5. x \in S /\ L \in Nat /\ Len(w) = L + 1 /\ w[L + 1] = x /\ (\A m \in 1..L : w[m] = v[m])
  OBVIOUS
<1>6. /\ p \in [1..L -> 1..n] /\ \A m \in 1..L : p[m] \in 1..n
      /\ \A m \in 1..L : v[m] = comps[p[m]] /\ Remains(b, d, n, p[m])
      /\ \A l, m \in 1..L : l < m => p[l] < p[m]
      /\ \A k \in 1..n : Remains(b, d, n, k) => \E m \in 1..L : p[m] = k
      /\ a \in 0..L
      /\ \A m \in 1..L : d[p[m]] = -1 <=> m <= a
      /\ \A m \in a + 1..L : b[p[m]] = b[n] - (L - m) /\ \A k \in p[m]..n : b[k] >= b[p[m]]
  BY DEF Stacked
<1>7. \A i \in 1..n : ~Cancels(b, i, n + 1)
  <2> SUFFICES ASSUME NEW i \in 1..n, Cancels(b, i, n + 1) PROVE FALSE
    OBVIOUS
  <2>1. i \in 1..N /\ i < n + 1 /\ i \in i..n + 1 - 1
    OBVIOUS
  <2>2. d[i] = 1 /\ d[n + 1] = -1
    BY <2>1, CancelsEnds
  <2>3. \A k \in i..n : b[k] > b[i - 1]
    BY <1>1 DEF Cancels
  <2>4. Remains(b, d, n, i)
    <3>1. n \in 1..N
      BY <1>1
    <3> QED
      BY <2>2, <2>3, <3>1, OpenKept
  <2>5. PICK m \in 1..L : p[m] = i
    BY <1>6, <2>4
  <2>6. d[i] = -1
    BY <1>6, <2>2, <2>5
  <2> QED
    BY <2>2, <2>6
<1>8. /\ \A k \in 1..n : Remains(b, d, n + 1, k) <=> Remains(b, d, n, k)
      /\ Remains(b, d, n + 1, n + 1)
  BY <1>7, NothingCloses
<1> HIDE DEF w, L, x
<1>9. /\ q \in [1..L + 1 -> 1..n + 1] /\ q[L + 1] = n + 1
      /\ \A m \in 1..L : q[m] = p[m]
  <2>1. L + 1 \in 1..L + 1 /\ \A m \in 1..L : m \in 1..L + 1 /\ m # L + 1
    BY <1>5
  <2>2. \A m \in 1..L + 1 : m # L + 1 => p[m] \in 1..n + 1
    BY <1>5, <1>6
  <2>3. n + 1 \in 1..n + 1
    BY <1>1
  <2> QED
    BY <2>1, <2>2, <2>3
<1>10. \A m \in 1..L + 1 : m \in 1..L \/ m = L + 1
  BY <1>5
<1> HIDE DEF q, c
<1>11. ASSUME NEW m \in 1..L + 1 PROVE w[m] = comps[q[m]] /\ Remains(b, d, n + 1, q[m])
  <2>1. CASE m = L + 1
    BY <1>5, <1>8, <1>9, <2>1 DEF x
  <2>2. CASE m \in 1..L
    BY <1>5, <1>6, <1>8, <1>9, <2>2
  <2> QED
    BY <1>10, <2>1, <2>2
<1>12. ASSUME NEW l \in 1..L + 1, NEW m \in 1..L + 1, l < m PROVE q[l] < q[m]
  <2>1. l \in 1..L
    BY <1>5, <1>12
  <2>2. q[l] = p[l] /\ p[l] \in 1..n
    BY <1>6, <1>9, <2>1
  <2>3. CASE m = L + 1
    BY <1>1, <1>9, <2>2, <2>3
  <2>4. CASE m \in 1..L
    BY <1>6, <1>9, <1>12, <2>1, <2>2, <2>4
  <2> QED
    BY <1>10, <2>3, <2>4
<1>13. ASSUME NEW k \in 1..n + 1, Remains(b, d, n + 1, k) PROVE \E m \in 1..L + 1 : q[m] = k
  <2>1. CASE k = n + 1
    <3>1. L + 1 \in 1..L + 1
      BY <1>5
    <3> QED
      BY <1>9, <2>1, <3>1
  <2>2. CASE k # n + 1
    <3>1. k \in 1..n
      BY <1>1, <2>2
    <3>2. PICK m \in 1..L : p[m] = k
      BY <1>6, <1>8, <1>13, <3>1
    <3>3. m \in 1..L + 1
      BY <1>5
    <3> QED
      BY <1>9, <3>2, <3>3
  <2> QED
    BY <2>1, <2>2
<1>14. c \in 0..L + 1
  BY <1>5, <1>6 DEF c
<1>15. ASSUME NEW m \in 1..L + 1 PROVE d[q[m]] = -1 <=> m <= c
  <2>1. CASE d[n + 1] = -1
    <3>1. c = L + 1 /\ a = L
      BY <2>1 DEF c, L
    <3>2. m \in 1..L => d[q[m]] = -1
      BY <1>5, <1>6, <1>9, <3>1
    <3> QED
      BY <1>5, <1>9, <1>10, <2>1, <3>1, <3>2
  <2>2. CASE d[n + 1] # -1
    <3>1. c = a
      BY <2>2 DEF c
    <3>2. CASE m \in 1..L
      BY <1>5, <1>6, <1>9, <3>1, <3>2
    <3>3. CASE m = L + 1
      <4>1. ~(m <= c)
        BY <1>5, <1>6, <3>1, <3>3
      <4> QED
        BY <1>9, <2>2, <3>3, <4>1
    <3> QED
      BY <1>10, <3>2, <3>3
  <2> QED
    BY <2>1, <2>2
<1>16. ASSUME NEW m \in c + 1..L + 1
       PROVE  b[q[m]] = b[n + 1] - (L + 1 - m) /\ \A k \in q[m]..n + 1 : b[k] >= b[q[m]]
  <2>1. c = a /\ b[n + 1] = b[n] + 1
    <3>1. d[n + 1] # -1
      BY <1>5, <1>16 DEF c
    <3> QED
      BY <1>2, <1>3, <3>1 DEF c
  <2>2. CASE m = L + 1
    <3>1. q[m] = n + 1
      BY <1>9, <2>2
    <3>2. \A k \in n + 1..n + 1 : k = n + 1
      BY <1>1
    <3>3. L + 1 - m = 0 /\ b[n + 1] \in Int
      BY <1>2, <1>5, <2>1, <2>2
    <3> QED
      BY <3>1, <3>2, <3>3
  <2>3. CASE m # L + 1
    <3>1. m \in a + 1..L /\ m \in 1..L
      BY <1>5, <1>6, <2>1, <2>3
    <3>2. b[p[m]] = b[n] - (L - m) /\ (\A k \in p[m]..n : b[k] >= b[p[m]]) /\ p[m] \in 1..n /\ q[m] = p[m]
      BY <1>6, <1>9, <3>1
    <3>3. b[p[m]] = b[n + 1] - (L + 1 - m) /\ b[n + 1] >= b[p[m]]
      <4>1. m \in Int /\ m <= L
        BY <1>5, <3>1
      <4> QED
        BY <1>2, <1>5, <2>1, <3>2, <4>1
    <3>4. \A k \in p[m]..n + 1 : k \in p[m]..n \/ k = n + 1
      BY <1>1, <3>2
    <3> QED
      BY <3>2, <3>3, <3>4
  <2> QED
    BY <2>2, <2>3
<1>17. Stacked(b, d, comps, n + 1, w, q, c)
  BY <1>5, <1>9, <1>11, <1>12, <1>13, <1>14, <1>15, <1>16 DEF Stacked
<1> QED
  BY <1>17 DEF w, x

(* What ".." does to the name on the top. *)
(* What closes removes the top of the stack, the one that it closes        *)
(* (vfs.c:277-278).                                                        *)
LEMMA StackPops ==
  ASSUME NEW S, NEW N \in Nat, NEW comps \in [1..N -> S], NEW d \in [1..N -> {-1, 0, 1}],
         NEW b, Balances(b, d, N), NEW n \in Nat, n + 1 \in 1..N,
         NEW v \in Seq(S), NEW p, NEW a, Stacked(b, d, comps, n, v, p, a),
         d[n + 1] = -1, a < Len(v)
  PROVE  \E q, c : Stacked(b, d, comps, n + 1, Front(v), q, c)
<1> DEFINE w == Front(v)
           L == Len(v)
           h == p[L]
           q == [m \in 1..L - 1 |-> p[m]]
<1>1. n \in 0..N /\ n + 1 - 1 = n /\ n \in Int
  OBVIOUS
<1>2. b[n + 1] = b[n] - 1 /\ (\A k \in 0..N : b[k] \in Int) /\ (\A k \in 1..N : b[k] = b[k - 1] + d[k])
  BY <1>1 DEF Balances
<1>3. L \in Nat \ {0} /\ L \in 1..L /\ L - 1 \in Nat
  <2>1. a \in 0..L
    BY DEF Stacked
  <2> QED
    BY <2>1
<1>4. Len(w) = L - 1 /\ \A m \in 1..L - 1 : w[m] = v[m]
  <2>1. w = [m \in 1..L - 1 |-> v[m]]
    BY <1>3 DEF Front
  <2> HIDE DEF w, L
  <2> QED
    BY <1>3, <2>1
<1>5. \A m \in 1..L - 1 : m \in 1..L /\ m < L /\ m # L
  BY <1>3
<1>6. /\ p \in [1..L -> 1..n] /\ \A m \in 1..L : p[m] \in 1..n
      /\ \A m \in 1..L : v[m] = comps[p[m]] /\ Remains(b, d, n, p[m])
      /\ \A l, m \in 1..L : l < m => p[l] < p[m]
      /\ \A k \in 1..n : Remains(b, d, n, k) => \E m \in 1..L : p[m] = k
      /\ a \in 0..L
      /\ \A m \in 1..L : d[p[m]] = -1 <=> m <= a
      /\ \A m \in a + 1..L : b[p[m]] = b[n] - (L - m) /\ \A k \in p[m]..n : b[k] >= b[p[m]]
  BY DEF Stacked
<1>7. a \in 0..L - 1 /\ L \in a + 1..L
  BY <1>3, <1>6
<1> HIDE DEF w, L
<1>8. h \in 1..n /\ h \in 1..N /\ h - 1 \in 0..N /\ h \in 0..N /\ h <= n
  BY <1>1, <1>3, <1>6
(* The components that are open at n are the names of the stack. *)
<1>9. ASSUME NEW i \in 1..n, d[i] = 1, \A k \in i..n : b[k] > b[i - 1]
      PROVE  \E m \in a + 1..L : p[m] = i /\ b[i - 1] = b[n] - (L - m) - 1
  <2>1. Remains(b, d, n, i)
    <3>1. n \in 1..N
      BY <1>1
    <3> QED
      BY <1>9, <3>1, OpenKept
  <2>2. PICK m \in 1..L : p[m] = i
    BY <1>6, <2>1
  <2>3. d[p[m]] # -1
    BY <1>9, <2>2
  <2>4. m \in a + 1..L
    BY <1>3, <1>6, <2>3
  <2>5. i \in 1..N /\ i - 1 \in 0..N /\ i \in 0..N /\ m \in Int /\ L \in Int
    BY <1>1, <1>3
  <2>6. b[i] = b[n] - (L - m)
    BY <1>6, <2>2, <2>4
  <2>7. b[i] = b[i - 1] + 1 /\ b[i] \in Int /\ b[i - 1] \in Int /\ b[n] \in Int
    BY <1>1, <1>2, <1>9, <2>5
  <2>8. b[i - 1] = b[n] - (L - m) - 1
    BY <2>5, <2>6, <2>7
  <2> QED
    BY <2>2, <2>4, <2>8
<1>10. d[h] = 1
  <2>1. d[h] # -1 /\ Remains(b, d, n, h)
    BY <1>3, <1>6, <1>7
  <2>2. d[h] # 0 /\ d[h] \in {-1, 0, 1}
    BY <1>8, <2>1 DEF Remains
  <2> QED
    BY <2>1, <2>2
<1>11. b[n] = b[h] /\ b[h] = b[h - 1] + 1 /\ b[h - 1] \in Int /\ b[h] \in Int /\ \A k \in h..n : b[k] >= b[h]
  <2>1. b[h] = b[n] - (L - L) /\ \A k \in h..n : b[k] >= b[h]
    BY <1>6, <1>7
  <2>2. L - L = 0 /\ b[n] \in Int /\ b[h] \in Int /\ b[h - 1] \in Int
    <3>1. L - L = 0
      BY <1>3
    <3>2. b[n] \in Int /\ b[h] \in Int /\ b[h - 1] \in Int
      BY <1>1, <1>2, <1>8
    <3> QED
      BY <3>1, <3>2
  <2>3. b[h] = b[h - 1] + 1
    BY <1>2, <1>8, <1>10
  <2> QED
    BY <2>1, <2>2, <2>3
<1>12. Cancels(b, h, n + 1)
  <2>1. \A k \in h..n : b[k] > b[h - 1]
    <3> SUFFICES ASSUME NEW k \in h..n PROVE b[k] > b[h - 1]
      OBVIOUS
    <3>1. k \in 0..N
      BY <1>1, <1>8
    <3>2. b[k] \in Int /\ b[k] >= b[h]
      BY <1>2, <1>11, <3>1
    <3> QED
      BY <1>11, <3>2
  <2>2. b[n + 1] = b[h - 1]
    BY <1>2, <1>11
  <2> QED
    BY <1>1, <2>1, <2>2 DEF Cancels
<1>13. ASSUME NEW i \in 1..n, Cancels(b, i, n + 1) PROVE i = h
  <2>1. i \in 1..N /\ i < n + 1
    BY <1>1
  <2>2. d[i] = 1
    BY <1>13, <2>1, CancelsEnds
  <2>3. (\A k \in i..n : b[k] > b[i - 1]) /\ b[n + 1] = b[i - 1]
    BY <1>1, <1>13 DEF Cancels
  <2>4. PICK m \in a + 1..L : p[m] = i /\ b[i - 1] = b[n] - (L - m) - 1
    BY <1>9, <2>2, <2>3
  <2>5. b[n] \in Int /\ L \in Int /\ m \in Int
    BY <1>1, <1>2, <1>3, <1>7
  <2>6. m = L
    BY <1>2, <2>3, <2>4, <2>5
  <2> QED
    BY <2>4, <2>6
<1>14. /\ \A k \in 1..n : Remains(b, d, n + 1, k) <=> Remains(b, d, n, k) /\ k # h
       /\ ~Remains(b, d, n + 1, n + 1)
  BY <1>8, <1>12, <1>13, TopCloses
<1>15. \A m \in 1..L - 1 : p[m] < h /\ p[m] # h
  <2> SUFFICES ASSUME NEW m \in 1..L - 1 PROVE p[m] < h /\ p[m] # h
    OBVIOUS
  <2>1. m \in 1..L /\ m < L
    BY <1>5
  <2>2. p[m] < h /\ p[m] \in 1..n
    BY <1>3, <1>6, <2>1
  <2> QED
    BY <1>8, <2>2
<1>16. q \in [1..L - 1 -> 1..n + 1] /\ \A m \in 1..L - 1 : q[m] = p[m]
  <2>1. 1..n \subseteq 1..n + 1
    BY <1>1
  <2> QED
    BY <1>5, <1>6, <2>1
<1> HIDE DEF h, q
<1>17. ASSUME NEW m \in 1..L - 1 PROVE w[m] = comps[q[m]] /\ Remains(b, d, n + 1, q[m])
  BY <1>4, <1>5, <1>6, <1>14, <1>15, <1>16
<1>18. ASSUME NEW l \in 1..L - 1, NEW m \in 1..L - 1, l < m PROVE q[l] < q[m]
  BY <1>5, <1>6, <1>16, <1>18
<1>19. ASSUME NEW k \in 1..n + 1, Remains(b, d, n + 1, k) PROVE \E m \in 1..L - 1 : q[m] = k
  <2>1. k # n + 1
    BY <1>14, <1>19
  <2>2. k \in 1..n
    BY <1>1, <2>1
  <2>3. Remains(b, d, n, k) /\ k # h
    BY <1>14, <1>19, <2>2
  <2>4. PICK m \in 1..L : p[m] = k
    BY <1>6, <2>2, <2>3
  <2>5. m # L
    BY <2>3, <2>4 DEF h
  <2>6. m \in 1..L - 1
    BY <1>3, <2>5
  <2> QED
    BY <1>16, <2>4, <2>6
<1>20. ASSUME NEW m \in 1..L - 1 PROVE d[q[m]] = -1 <=> m <= a
  BY <1>5, <1>6, <1>16
<1>21. ASSUME NEW m \in a + 1..L - 1
       PROVE  b[q[m]] = b[n + 1] - (L - 1 - m) /\ \A k \in q[m]..n + 1 : b[k] >= b[q[m]]
  <2>1. m \in a + 1..L /\ m \in 1..L - 1 /\ m \in Int /\ m <= L - 1
    BY <1>3, <1>7
  <2>2. b[p[m]] = b[n] - (L - m) /\ (\A k \in p[m]..n : b[k] >= b[p[m]]) /\ q[m] = p[m]
    BY <1>6, <1>16, <2>1
  <2>3. b[n] \in Int /\ p[m] \in 1..n
    BY <1>1, <1>2, <1>5, <1>6, <2>1
  <2>4. b[p[m]] = b[n + 1] - (L - 1 - m) /\ b[n + 1] >= b[p[m]]
    <3>1. b[n + 1] = b[n] - 1 /\ b[n] \in Int /\ b[p[m]] = b[n] - (L - m)
      BY <1>2, <2>2, <2>3
    <3>2. L \in Int /\ m \in Int /\ m <= L - 1
      BY <1>3, <2>1
    <3>3. \A x, y, z \in Int : z <= y - 1 => x - (y - z) = x - 1 - (y - 1 - z) /\ x - 1 >= x - (y - z)
      OBVIOUS
    <3>4. b[n] - (L - m) = b[n] - 1 - (L - 1 - m) /\ b[n] - 1 >= b[n] - (L - m)
      BY <3>1, <3>2, <3>3
    <3> QED
      BY <3>1, <3>4
  <2>5. \A k \in p[m]..n + 1 : k \in p[m]..n \/ k = n + 1
    BY <1>1, <2>3
  <2> QED
    BY <2>2, <2>4, <2>5
<1>22. Stacked(b, d, comps, n + 1, w, q, a)
  BY <1>4, <1>7, <1>16, <1>17, <1>18, <1>19, <1>20, <1>21 DEF Stacked
<1> QED
  BY <1>22 DEF w
(* In the end the stack is the text without the pairs.                     *)
LEMMA StackedIsKept ==
  ASSUME NEW S, NEW comps \in Seq(S), NEW d, NEW b, NEW v \in Seq(S), NEW p, NEW a,
         Stacked(b, d, comps, Len(comps), v, p, a), NEW g, g[0] = <<>>,
         \A k \in 1..Len(comps) : g[k] = IF Remains(b, d, Len(comps), k) THEN Append(g[k - 1], comps[k]) ELSE g[k - 1],
         \A k \in 0..Len(comps) : g[k] \in Seq(S)
  PROVE  g[Len(comps)] = v
<1> DEFINE N == Len(comps)
           L == Len(v)
<1>1. N \in Nat /\ L \in Nat
  OBVIOUS
<1>2. /\ \A m \in 1..L : p[m] \in 1..N
      /\ \A m \in 1..L : v[m] = comps[p[m]] /\ Remains(b, d, N, p[m])
      /\ \A l, m \in 1..L : l < m => p[l] < p[m]
      /\ \A k \in 1..N : Remains(b, d, N, k) => \E m \in 1..L : p[m] = k
  BY DEF Stacked
<1> DEFINE Begins(s, k) ==
             /\ Len(s) <= L
             /\ \A m \in 1..Len(s) : s[m] = v[m] /\ p[m] <= k
             /\ \A m \in Len(s) + 1..L : p[m] > k
           T == {k \in 0..N : Begins(g[k], k)}
<1>3. 0 \in T
  <2>1. Len(g[0]) = 0
    OBVIOUS
  <2>2. 0 \in 0..N
    BY <1>1
  <2>3. \A m \in 1..L : p[m] > 0
    BY <1>1, <1>2
  <2> QED
    BY <1>1, <2>1, <2>2, <2>3
<1>4. ASSUME NEW k \in 1..N, k - 1 \in T PROVE k \in T
  <2> DEFINE s == g[k - 1]
             x == comps[k]
  <2>1. s \in Seq(S) /\ Begins(s, k - 1) /\ k \in 0..N /\ k \in Int
    <3>1. k - 1 \in 0..N
      BY <1>1
    <3> QED
      BY <1>4, <3>1
  <2>2. g[k] = IF Remains(b, d, N, k) THEN Append(s, x) ELSE s
    OBVIOUS
  <2> HIDE DEF s, N, L
  <2>3. CASE ~Remains(b, d, N, k)
    <3>1. \A m \in 1..L : p[m] # k /\ p[m] \in Int
      BY <1>1, <1>2, <2>3
    <3>2. Len(s) \in Nat
      BY <2>1
    <3>3. \A m \in Len(s) + 1..L : p[m] > k
      BY <1>1, <2>1, <3>1, <3>2
    <3>4. \A m \in 1..Len(s) : s[m] = v[m] /\ p[m] <= k
      BY <1>1, <2>1, <3>1, <3>2
    <3>5. Begins(s, k)
      BY <2>1, <3>3, <3>4
    <3> HIDE DEF Begins
    <3> QED
      BY <2>1, <2>2, <2>3, <3>5
  <2>4. CASE Remains(b, d, N, k)
    <3>1. PICK m \in 1..L : p[m] = k
      BY <1>2, <2>4
    <3>2. Len(s) \in Nat /\ Len(s) <= L
      BY <2>1
    <3>3. m = Len(s) + 1
      <4>1. ~(m <= Len(s))
        <5> SUFFICES ASSUME m <= Len(s) PROVE FALSE
          OBVIOUS
        <5>1. m \in 1..Len(s)
          BY <3>2
        <5> QED
          BY <2>1, <3>1, <5>1
      <4>2. ~(m > Len(s) + 1)
        <5> SUFFICES ASSUME m > Len(s) + 1 PROVE FALSE
          OBVIOUS
        <5>1. Len(s) + 1 \in 1..L /\ Len(s) + 1 \in Len(s) + 1..L
          BY <1>1, <3>2
        <5>2. p[Len(s) + 1] < k /\ p[Len(s) + 1] > k - 1 /\ p[Len(s) + 1] \in Int
          BY <1>1, <1>2, <2>1, <3>1, <5>1
        <5> QED
          BY <2>1, <5>2
      <4> QED
        BY <1>1, <3>2, <4>1, <4>2
    <3> DEFINE w == Append(s, x)
    <3>4. Len(w) = Len(s) + 1 /\ w[Len(s) + 1] = x /\ \A i \in 1..Len(s) : w[i] = s[i]
      BY <2>1
    <3>5. x = v[m]
      BY <1>2, <3>1
    <3> HIDE DEF w, x
    <3>6. ASSUME NEW i \in 1..Len(w) PROVE w[i] = v[i] /\ p[i] <= k
      <4>1. CASE i = m
        BY <2>1, <3>1, <3>3, <3>4, <3>5, <4>1
      <4>2. CASE i # m
        <5>1. i \in 1..Len(s) /\ i \in 1..L
          BY <1>1, <3>2, <3>3, <3>4, <4>2
        <5>2. w[i] = s[i] /\ s[i] = v[i] /\ p[i] <= k - 1 /\ p[i] \in Int
          BY <1>1, <1>2, <2>1, <3>4, <5>1
        <5> QED
          BY <2>1, <5>2
      <4> QED
        BY <4>1, <4>2
    <3>7. ASSUME NEW i \in Len(w) + 1..L PROVE p[i] > k
      <4>1. i \in 1..L /\ m < i
        BY <1>1, <3>2, <3>3, <3>4
      <4>2. p[m] < p[i]
        BY <1>2, <4>1
      <4>3. p[i] \in Int /\ k \in Int
        BY <1>1, <1>2, <2>1, <4>1
      <4> QED
        BY <3>1, <4>2, <4>3
    <3>8. Len(w) <= L
      BY <1>1, <3>3, <3>4
    <3>9. Begins(w, k)
      BY <3>6, <3>7, <3>8
    <3> HIDE DEF Begins
    <3> QED
      BY <2>1, <2>2, <2>4, <3>9 DEF w, x
  <2> QED
    BY <2>3, <2>4
<1>5. N \in T
  <2>1. 0..N \subseteq T
    <3> HIDE DEF T, N
    <3> QED
      BY <1>1, <1>3, <1>4, UpTo
  <2> QED
    BY <1>1, <2>1
<1> DEFINE s == g[N]
<1>6. s \in Seq(S) /\ Begins(s, N)
  BY <1>1, <1>5
<1> HIDE DEF s, N, L
<1>7. Len(s) = L
  <2>1. Len(s) \in Nat /\ Len(s) <= L
    BY <1>6
  <2>2. ~(Len(s) < L)
    <3> SUFFICES ASSUME Len(s) < L PROVE FALSE
      OBVIOUS
    <3>1. L \in Len(s) + 1..L /\ L \in 1..L
      BY <1>1, <2>1
    <3>2. p[L] > N /\ p[L] <= N /\ p[L] \in Int
      BY <1>1, <1>2, <1>6, <3>1
    <3> QED
      BY <1>1, <3>2
  <2> QED
    BY <1>1, <2>1, <2>2
<1>8. \A m \in 1..Len(s) : s[m] = v[m]
  BY <1>6
<1>9. s = v
  <2>1. s \in Seq(S) /\ v \in Seq(S) /\ Len(s) = Len(v)
    BY <1>6, <1>7 DEF L
  <2> HIDE DEF Begins
  <2> QED
    BY <1>8, <2>1
<1> QED
  BY <1>9 DEF s, N
=============================================================================
