------------------------- MODULE PageAllocatorProofs -------------------------
(***************************************************************************)
(* What holds of the buddy allocator for every number of pages and orders, *)
(* every set of ranges to reserve and every order of the calls.            *)
(*                                                                         *)
(* The proof goes bottom-up: powers of two and aligned intervals; tilings  *)
(* of the pages by blocks and the four changes the code makes to one;      *)
(* which blocks could be merged; the free lists, as sequences behind the   *)
(* pointers; merge and page_divide, which repeat a step; and what may be   *)
(* dissected in one way only.  The inductive invariant IInv and the steps  *)
(* of Next follow, and the theorems come last.                             *)
(***************************************************************************)
EXTENDS PageAllocator, DataLemmas, FiniteSetTheorems, TLAPS

-----------------------------------------------------------------------------
(* The table of powers exists.                                             *)
LEMMA Doubled ==
  /\ doubled[0] = 1
  /\ \A k \in 1..MaxOrder : doubled[k] = 2 * doubled[k - 1]
  /\ \A k \in Level : doubled[k] \in Nat \ {0}
<1> DEFINE S == [n \in Level |-> Nat \ {0}]
           F == [n \in 1..MaxOrder |-> [v \in Nat \ {0} |-> 2 * v]]
<1>1. MaxOrder \in Nat /\ Level = 0..MaxOrder
  BY PageAllocatorAssumption DEF PageAllocatorAssumption, Level
<1>2. 1 \in S[0] /\ StepsWithin(MaxOrder, S, F)
  <2>1. \A n \in Level : S[n] = Nat \ {0}
    OBVIOUS
  <2>2. \A n \in 1..MaxOrder : n \in Level /\ n - 1 \in Level
    BY <1>1
  <2>3. \A n \in 1..MaxOrder : \A v \in Nat \ {0} : F[n][v] = 2 * v
    OBVIOUS
  <2>4. 0 \in Level
    BY <1>1
  <2> HIDE DEF S, F
  <2>5. ASSUME NEW n \in 1..MaxOrder, NEW v \in S[n - 1] PROVE F[n][v] \in S[n]
    <3>1. v \in Nat \ {0}
      BY <2>1, <2>2, <2>5
    <3>2. F[n][v] = 2 * v
      BY <2>3, <3>1
    <3>3. S[n] = Nat \ {0}
      BY <2>1, <2>2
    <3> QED
      BY <3>1, <3>2, <3>3
  <2> QED
    BY <2>1, <2>4, <2>5 DEF StepsWithin
<1>3. PICK g : /\ g = [n \in 0..MaxOrder |-> IF n = 0 THEN 1 ELSE F[n][g[n - 1]]]
               /\ \A n \in 0..MaxOrder : g[n] \in S[n]
  <2> HIDE DEF S, F
  <2> QED
    BY <1>1, <1>2, Recursion
<1>4. \A n \in 1..MaxOrder : g[n] = 2 * g[n - 1]
  <2> SUFFICES ASSUME NEW n \in 1..MaxOrder PROVE g[n] = 2 * g[n - 1]
    OBVIOUS
  <2>1. n - 1 \in 0..MaxOrder /\ n \in 0..MaxOrder
    BY <1>1
  <2>2. g[n - 1] \in Nat \ {0}
    BY <1>3, <1>1, <2>1
  <2>3. g[n] = F[n][g[n - 1]]
    <3> HIDE DEF F
    <3> QED
      BY <1>3, <2>1
  <2> QED
    BY <2>2, <2>3
<1>5. g = [k \in Level |-> IF k = 0 THEN 1 ELSE 2 * g[k - 1]]
  <2> DEFINE e(k) == IF k = 0 THEN 1 ELSE 2 * g[k - 1]
  <2>1. g = [k \in Level |-> g[k]]
    <3>1. g = [n \in 0..MaxOrder |-> IF n = 0 THEN 1 ELSE F[n][g[n - 1]]]
      BY <1>3
    <3> QED
      BY <1>1, <3>1
  <2>2. \A k \in Level : g[k] = e(k)
    <3>1. g[0] = 1
      BY <1>1, <1>3
    <3> QED
      BY <1>1, <1>4, <3>1
  <2> HIDE DEF e
  <2>3. g = [k \in Level |-> e(k)]
    BY <2>1, <2>2
  <2> QED
    BY <2>3, Zenon DEF e
<1>6. doubled = [k \in Level |-> IF k = 0 THEN 1 ELSE 2 * doubled[k - 1]]
  BY <1>5, Zenon DEF doubled
<1>7. doubled[0] = 1 /\ \A k \in 1..MaxOrder : doubled[k] = 2 * doubled[k - 1]
  BY <1>1, <1>6
<1> DEFINE T == {k \in Level : doubled[k] \in Nat \ {0}}
<1>8. 0 \in T /\ \A k \in 1..MaxOrder : k - 1 \in T => k \in T
  BY <1>1, <1>7
<1>9. 0..MaxOrder \subseteq T
  <2> HIDE DEF T
  <2> QED
    BY <1>1, <1>8, UpTo
<1> QED
  BY <1>1, <1>7, <1>9

(* power2, without its table.                                              *)
LEMMA Powers ==
  /\ \A k \in Level : Pow2(k) \in Nat \ {0}
  /\ Pow2(0) = 1
  /\ \A k \in Level \ {MaxOrder} : k + 1 \in Level /\ Pow2(k + 1) = 2 * Pow2(k)
  /\ \A k \in Level \ {0} : k - 1 \in Level /\ Pow2(k) = 2 * Pow2(k - 1)
<1>1. MaxOrder \in Nat /\ Level = 0..MaxOrder
  BY PageAllocatorAssumption DEF PageAllocatorAssumption, Level
<1>2. \A k \in Level : Pow2(k) = doubled[k]
  BY <1>1, Doubled DEF Pow2
<1>3. \A k \in Level \ {MaxOrder} : k + 1 \in 1..MaxOrder /\ k + 1 - 1 = k
  BY <1>1
<1>4. \A k \in Level \ {0} : k \in 1..MaxOrder /\ k - 1 \in Level
  BY <1>1
<1>5. 0 \in Level /\ \A k \in 1..MaxOrder : k \in Level
  BY <1>1
<1>6. \A k \in Level \ {MaxOrder} : Pow2(k + 1) = 2 * Pow2(k)
  <2> SUFFICES ASSUME NEW k \in Level \ {MaxOrder} PROVE Pow2(k + 1) = 2 * Pow2(k)
    OBVIOUS
  <2>1. k + 1 \in 1..MaxOrder /\ k + 1 - 1 = k /\ k + 1 \in Level
    BY <1>3, <1>5
  <2> DEFINE j == k + 1
  <2>2. j \in 1..MaxOrder /\ j \in Level /\ j - 1 = k
    <3>1. k \in Int
      BY <1>1
    <3>2. j \in 1..MaxOrder /\ j \in Level
      BY <2>1
    <3> QED
      BY <3>1, <3>2
  <2> HIDE DEF j
  <2>3. doubled[j] = 2 * doubled[j - 1]
    BY <2>2, Doubled
  <2>4. Pow2(j) = 2 * Pow2(k)
    BY <1>2, <2>2, <2>3
  <2> QED
    BY <2>4 DEF j
<1>7. \A k \in Level \ {0} : Pow2(k) = 2 * Pow2(k - 1)
  BY <1>2, <1>4, <1>5, Doubled
<1> QED
  BY <1>1, <1>2, <1>3, <1>4, <1>5, <1>6, <1>7, Doubled

(* A smaller power divides a larger one.                                   *)
LEMMA PowersDivide ==
  ASSUME NEW j \in Level, NEW k \in Level, j <= k
  PROVE  \E q \in Nat \ {0} : Pow2(k) = q * Pow2(j)
<1>1. MaxOrder \in Nat /\ Level = 0..MaxOrder
  BY PageAllocatorAssumption DEF PageAllocatorAssumption, Level
<1> DEFINE T == {n \in Level : j <= n => \E q \in Nat \ {0} : Pow2(n) = q * Pow2(j)}
<1>2. 0 \in T
  <2>1. Pow2(0) = 1 * Pow2(0)
    BY Powers
  <2> QED
    BY <1>1, <2>1
<1>3. ASSUME NEW n \in 1..MaxOrder, n - 1 \in T PROVE n \in T
  <2>1. n \in Level /\ n - 1 \in Level /\ Pow2(n) = 2 * Pow2(n - 1)
    BY <1>1, Powers
  <2>2. CASE n <= j
    <3>1. j <= n => Pow2(n) = 1 * Pow2(j)
      BY <1>1, <2>1, <2>2, Powers
    <3> QED
      BY <2>1, <3>1
  <2>3. CASE j <= n - 1
    <3>1. PICK q \in Nat \ {0} : Pow2(n - 1) = q * Pow2(j)
      BY <1>3, <2>3
    <3>2. Pow2(j) \in Nat
      BY Powers
    <3>3. Pow2(n) = (2 * q) * Pow2(j)
      BY <2>1, <3>1, <3>2
    <3> QED
      BY <2>1, <3>3
  <2> QED
    BY <1>1, <2>1, <2>2, <2>3
<1>4. 0..MaxOrder \subseteq T
  <2> HIDE DEF T
  <2> QED
    BY <1>1, <1>2, <1>3, UpTo
<1> QED
  BY <1>1, <1>4

(* A larger power is at least twice a smaller one.                         *)
LEMMA PowersGrow ==
  ASSUME NEW j \in Level, NEW k \in Level, j < k
  PROVE  2 * Pow2(j) <= Pow2(k)
<1>1. MaxOrder \in Nat /\ Level = 0..MaxOrder
  BY PageAllocatorAssumption DEF PageAllocatorAssumption, Level
<1>2. j + 1 \in Level /\ Pow2(j + 1) = 2 * Pow2(j) /\ j + 1 <= k
  BY <1>1, Powers
<1>3. PICK q \in Nat \ {0} : Pow2(k) = q * Pow2(j + 1)
  BY <1>2, PowersDivide
<1>4. Pow2(j + 1) \in Nat
  BY <1>2, Powers
<1> QED
  BY <1>2, <1>3, <1>4

-----
(* Multiples.                                                              *)
LEMMA IsMultiple ==
  ASSUME NEW p \in Nat \ {0}, NEW i \in Nat, i % p = 0
  PROVE  \E q \in Nat : i = q * p
<1> DEFINE q == i \div p
<1>1. q \in Int /\ i = p * q
  <2>1. i = (p * (i \div p)) + (i % p)
    OBVIOUS
  <2> QED
    BY <2>1
<1> HIDE DEF q
<1>2. i = q * p
  BY <1>1
<1>3. ASSUME q < 0 PROVE FALSE
  BY <1>1, <1>3
<1> QED
  BY <1>1, <1>2, <1>3

(* What is q times p is a multiple of p.                                   *)
LEMMA MultipleIs ==
  ASSUME NEW p \in Nat \ {0}, NEW q \in Nat
  PROVE  q * p \in Nat /\ (q * p) % p = 0
OBVIOUS

(* Halves of a multiple of 2p.                                             *)
LEMMA Halves ==
  ASSUME NEW p \in Nat \ {0}, NEW i \in Nat, i % (2 * p) = 0
  PROVE  i % p = 0 /\ (i + p) % p = 0 /\ (i + p) % (2 * p) # 0
<1>1. 2 * p \in Nat \ {0}
  OBVIOUS
<1>2. PICK q \in Nat : i = q * (2 * p)
  BY <1>1, IsMultiple
<1>3. i = (2 * q) * p /\ i + p = (2 * q + 1) * p
  BY <1>2
<1>4. i % p = 0 /\ (i + p) % p = 0
  <2>1. 2 * q \in Nat /\ 2 * q + 1 \in Nat
    OBVIOUS
  <2> QED
    BY <1>3, <2>1, MultipleIs
<1>5. ASSUME (i + p) % (2 * p) = 0 PROVE FALSE
  <2>1. PICK r \in Nat : i + p = r * (2 * p)
    BY <1>1, <1>5, IsMultiple
  <2>2. (2 * q + 1) * p = (2 * r) * p
    BY <1>3, <2>1
  <2>3. CASE q >= r
    <3>1. (2 * q + 1) * p = (2 * r) * p + (2 * (q - r) + 1) * p
      OBVIOUS
    <3>2. (2 * (q - r) + 1) * p > 0
      BY <2>3
    <3> QED
      BY <2>2, <3>1, <3>2
  <2>4. CASE q < r
    <3>1. (2 * r) * p = (2 * q + 1) * p + (2 * (r - q) - 1) * p
      OBVIOUS
    <3>2. (2 * (r - q) - 1) * p > 0
      BY <2>4
    <3> QED
      BY <2>2, <3>1, <3>2
  <2> QED
    BY <2>3, <2>4
<1> QED
  BY <1>4, <1>5

(* A multiple of p that is none of 2p lies p above one of 2p.              *)
LEMMA OddMultiple ==
  ASSUME NEW p \in Nat \ {0}, NEW i \in Nat, i % p = 0, i % (2 * p) # 0
  PROVE  i - p \in Nat /\ (i - p) % (2 * p) = 0
<1>1. PICK q \in Nat : i = q * p
  BY IsMultiple
<1>2. 2 * p \in Nat \ {0}
  OBVIOUS
<1>6. \A z \in Nat : z * (2 * p) \in Nat /\ (z * (2 * p)) % (2 * p) = 0
  <2> DEFINE w == 2 * p
  <2>1. w \in Nat \ {0}
    BY <1>2
  <2> HIDE DEF w
  <2>2. \A z \in Nat : z * w \in Nat /\ (z * w) % w = 0
    BY <2>1, MultipleIs
  <2> QED
    BY <2>2 DEF w
<1>3. PICK r \in Nat : q = 2 * r \/ q = 2 * r + 1
  <2>1. q \div 2 \in Nat /\ q = (2 * (q \div 2)) + (q % 2) /\ q % 2 \in 0..1
    OBVIOUS
  <2> DEFINE r == q \div 2
  <2>2. q = 2 * r \/ q = 2 * r + 1
    BY <2>1
  <2> QED
    BY <2>1, <2>2
<1>4. ASSUME q = 2 * r PROVE FALSE
  <2>1. i = r * (2 * p)
    BY <1>1, <1>4
  <2> QED
    BY <1>6, <2>1
<1>5. i - p = r * (2 * p)
  BY <1>1, <1>3, <1>4
<1> QED
  BY <1>5, <1>6

(* Two aligned blocks that share a page lie in each other.                 *)
LEMMA Nested ==
  ASSUME NEW j \in Level, NEW k \in Level, j <= k,
         NEW i \in Nat, NEW c \in Nat, i % Pow2(j) = 0, c % Pow2(k) = 0,
         NEW x \in Nat, x \in i..i + Pow2(j) - 1, x \in c..c + Pow2(k) - 1
  PROVE  c <= i /\ i + Pow2(j) <= c + Pow2(k)
<1> DEFINE p == Pow2(j)
<1>1. p \in Nat \ {0} /\ Pow2(k) \in Nat \ {0}
  BY Powers
<1>2. PICK q \in Nat \ {0} : Pow2(k) = q * p
  BY PowersDivide
<1>3. PICK a \in Nat : i = a * p
  BY <1>1, IsMultiple
<1>4. PICK b \in Nat : c = b * (q * p)
  BY <1>1, <1>2, IsMultiple
<1> DEFINE d == b * q
<1>5. d \in Nat /\ c = d * p
  BY <1>1, <1>4
<1>6. a * p <= x /\ x < a * p + p /\ d * p <= x /\ x < d * p + q * p
  BY <1>1, <1>2, <1>3, <1>5
<1> HIDE DEF p, d
<1>7. d <= a
  <2>1. ASSUME d >= a + 1 PROVE FALSE
    <3>1. d * p >= (a + 1) * p
      BY <1>1, <1>5, <2>1
    <3> QED
      BY <1>1, <1>5, <1>6, <3>1
  <2> QED
    BY <1>5, <2>1
<1>8. a + 1 <= d + q
  <2>1. ASSUME a >= d + q PROVE FALSE
    <3>1. a * p >= (d + q) * p
      BY <1>1, <1>5, <2>1
    <3> QED
      BY <1>1, <1>5, <1>6, <3>1
  <2> QED
    BY <1>5, <2>1
<1>9. d * p <= a * p
  BY <1>1, <1>5, <1>7
<1>10. (a + 1) * p <= (d + q) * p
  BY <1>1, <1>5, <1>8
<1>11. a * p + p <= d * p + q * p
  BY <1>1, <1>5, <1>10
<1> QED
  BY <1>2, <1>3, <1>5, <1>9, <1>11 DEF p

-----------------------------------------------------------------------------
(* Blocks, from the two tables of frame[]: the orders o and the states s.   *)
HeadsOf(o) == {i \in Page : o[i] >= 0}

Span(o, i) == i..(i + Pow2(o[i]) - 1)

(* What an entry inside the block at i holds; A are the allocated blocks.  *)
MarkIn(s, A, i) == IF s[i] = 0 THEN FREE ELSE IF i \in A THEN ALLOCATED ELSE RESERVED

Table(o, s) == o \in [0..Entries -> Int] /\ s \in [0..Entries -> {0, 1}]

(* The blocks tile the pages below n.                                      *)
Aligned(o, n) ==
  \A i \in HeadsOf(o) : o[i] \in Level /\ i % Pow2(o[i]) = 0 /\ i + Pow2(o[i]) <= n

Marked(o, s, A) ==
  \A i \in HeadsOf(o) : \A p \in Inside(i, o[i]) : o[p] = MarkIn(s, A, i) /\ s[p] = 0

Covered(o, n) == \A p \in 0..n - 1 : \E i \in HeadsOf(o) : p \in Span(o, i)

Tiling(o, s, A, n) == Table(o, s) /\ Aligned(o, n) /\ Marked(o, s, A) /\ Covered(o, n)

(* A block is wholly in R, or it is free or allocated.                     *)
Whole(o, s, A, R) ==
  \A i \in HeadsOf(o) : \A p \in Span(o, i) : p \in R <=> s[i] = 1 /\ i \notin A

(* The constants, for the provers.                                         *)
LEMMA Sizes ==
  /\ Entries \in Nat \ {0} /\ MaxOrder \in Nat /\ Level = 0..MaxOrder /\ Page = 0..Entries - 1
  /\ DivideLimit \in Level /\ Levels \subseteq Level /\ GuardOrders \subseteq Int
  /\ Ranges \subseteq Page \X Page /\ MaxRanges \in Nat
BY PageAllocatorAssumption DEF PageAllocatorAssumption, Level, Page

(* A block of a tiling: its order, its place, its pages.                   *)
LEMMA HeadFacts ==
  ASSUME NEW o, NEW s, NEW A, NEW n \in 0..Entries, Tiling(o, s, A, n), NEW i \in HeadsOf(o)
  PROVE  /\ i \in Nat /\ i \in Page /\ i < n /\ o[i] \in Level /\ o[i] \in Nat
         /\ Pow2(o[i]) \in Nat \ {0}
         /\ i % Pow2(o[i]) = 0 /\ i + Pow2(o[i]) <= n
         /\ i \in Span(o, i)
         /\ \A p \in Span(o, i) : p \in Page /\ p < n
         /\ s[i] \in {0, 1}
<1>1. i \in Nat /\ i \in Page /\ o[i] \in Level /\ i % Pow2(o[i]) = 0 /\ i + Pow2(o[i]) <= n
  BY Sizes DEF Tiling, Aligned, HeadsOf
<1>2. Pow2(o[i]) \in Nat \ {0}
  BY <1>1, Powers
<1>3. s[i] \in {0, 1}
  BY <1>1, Sizes DEF Tiling, Table
<1> QED
  BY <1>1, <1>2, <1>3, Sizes DEF Span

(* An entry inside a block has the mark of the block and no order.         *)
LEMMA InsideFacts ==
  ASSUME NEW o, NEW s, NEW A, NEW n \in 0..Entries, Tiling(o, s, A, n), NEW i \in HeadsOf(o),
         NEW p \in Inside(i, o[i])
  PROVE  /\ p \in Nat /\ p \in Page /\ i < p /\ p < i + Pow2(o[i]) /\ p < n
         /\ o[p] = MarkIn(s, A, i) /\ o[p] \in {FREE, ALLOCATED, RESERVED} /\ s[p] = 0
         /\ p \notin HeadsOf(o)
         /\ p \in Span(o, i)
<1>1. i \in Nat /\ Pow2(o[i]) \in Nat \ {0} /\ i + Pow2(o[i]) <= n
  BY HeadFacts
<1>2. p \in Nat /\ i < p /\ p < i + Pow2(o[i]) /\ p < n /\ p \in Page /\ p \in Span(o, i)
  BY <1>1, Sizes DEF Inside, Span
<1>3. o[p] = MarkIn(s, A, i) /\ s[p] = 0
  BY DEF Tiling, Marked
<1>4. o[p] \in {FREE, ALLOCATED, RESERVED}
  BY <1>3 DEF MarkIn
<1>5. p \notin HeadsOf(o)
  BY <1>4 DEF HeadsOf, FREE, ALLOCATED, RESERVED
<1> QED
  BY <1>2, <1>3, <1>4, <1>5

(* No page is in two blocks.                                               *)
LEMMA OneBlock ==
  ASSUME NEW o, NEW s, NEW A, NEW n \in 0..Entries, Tiling(o, s, A, n),
         NEW i \in HeadsOf(o), NEW j \in HeadsOf(o), NEW p \in Span(o, i), p \in Span(o, j)
  PROVE  i = j
<1>1. ASSUME NEW a \in HeadsOf(o), NEW b \in HeadsOf(o), p \in Span(o, a), p \in Span(o, b), a < b
      PROVE  FALSE
  <2>1. /\ a \in Nat /\ b \in Nat
        /\ Pow2(o[a]) \in Nat /\ Pow2(o[b]) \in Nat
    BY HeadFacts
  <2>2. b \in Inside(a, o[a])
    BY <1>1, <2>1 DEF Span, Inside
  <2> QED
    BY <2>2, InsideFacts
<1>2. i \in Nat /\ j \in Nat
  BY HeadFacts
<1> QED
  BY <1>1, <1>2

(* Behind a block the next one starts.                                     *)
LEMMA NextBlock ==
  ASSUME NEW o, NEW s, NEW A, NEW n \in 0..Entries, Tiling(o, s, A, n), NEW i \in HeadsOf(o),
         i + Pow2(o[i]) < n
  PROVE  i + Pow2(o[i]) \in HeadsOf(o)
<1> DEFINE p == i + Pow2(o[i])
<1>1. i \in Nat /\ Pow2(o[i]) \in Nat \ {0} /\ p \in 0..n - 1
  BY HeadFacts
<1>2. PICK j \in HeadsOf(o) : p \in Span(o, j)
  BY <1>1 DEF Tiling, Covered
<1>3. j \in Nat /\ Pow2(o[j]) \in Nat \ {0}
  BY HeadFacts
<1>4. CASE j = p
  BY <1>2, <1>4
<1>5. CASE j # p /\ i < j
  <2>1. j \in Span(o, i)
    BY <1>1, <1>2, <1>3, <1>5 DEF Span
  <2>2. j \in Span(o, j)
    BY HeadFacts
  <2> QED
    BY <1>5, <2>1, <2>2, OneBlock, <1>1
<1>6. CASE j # p /\ j <= i
  <2>1. i \in Span(o, j)
    BY <1>1, <1>2, <1>3, <1>6 DEF Span
  <2>2. i \in Span(o, i)
    BY HeadFacts
  <2>3. i = j
    BY <2>1, <2>2, OneBlock
  <2> QED
    BY <1>1, <1>2, <2>3 DEF Span
<1> QED
  BY <1>1, <1>3, <1>4, <1>5, <1>6

-----------------------------------------------------------------------------
(* The four changes of a tiling: the free block at i is halved at u ...    *)
Halved(o, s, A, n, i, k, u, h) ==
  /\ n \in 0..Entries /\ Tiling(o, s, A, n)
  /\ i \in HeadsOf(o) /\ o[i] # 0 /\ s[i] = 0
  /\ k = o[i] - 1 /\ u = i + Pow2(k)
  /\ h = [o EXCEPT ![i] = k, ![u] = k]

(* ... the block at i changes hands, and its inside gets the mark of its   *)
(* new use ...                                                             *)
Remarked(o, s, A, n, i, v, B, t, h) ==
  /\ n \in 0..Entries /\ Tiling(o, s, A, n)
  /\ i \in HeadsOf(o) /\ v \in {0, 1}
  /\ \A j \in HeadsOf(o) \ {i} : j \in B <=> j \in A
  /\ t = [s EXCEPT ![i] = v]
  /\ h = Mark(o, Inside(i, o[i]), MarkIn(t, B, i))

(* ... two free halves, at i and u, become one block ...                   *)
Joined(o, s, A, n, i, u, h) ==
  /\ n \in 0..Entries /\ Tiling(o, s, A, n)
  /\ i \in HeadsOf(o) /\ u \in HeadsOf(o)
  /\ o[u] = o[i] /\ o[i] # MaxOrder /\ u = i + Pow2(o[i]) /\ i % (2 * Pow2(o[i])) = 0
  /\ s[i] = 0 /\ s[u] = 0
  /\ h = [o EXCEPT ![u] = FREE, ![i] = o[i] + 1]

(* ... and page_init appends a block to the pages below n.                 *)
Appended(o, s, n, k, h) ==
  /\ n \in 0..Entries /\ Tiling(o, s, {}, n) /\ n # Entries
  /\ \A p \in n..Entries - 1 : o[p] = FREE /\ s[p] = 0
  /\ k \in Level /\ n % Pow2(k) = 0 /\ n + Pow2(k) <= Entries
  /\ h = [Mark(o, Inside(n, k), FREE) EXCEPT ![n] = k]

(* Halving a free block leaves a tiling: the upper half has status 0 and   *)
(* the mark FREE already.                                                  *)
LEMMA Halving ==
  ASSUME NEW o, NEW s, NEW A, NEW n, NEW i, NEW k, NEW u, NEW h, Halved(o, s, A, n, i, k, u, h)
  PROVE  /\ Tiling(h, s, A, n)
         /\ HeadsOf(h) = HeadsOf(o) \cup {u}
         /\ u \in Page \ HeadsOf(o) /\ i < u /\ s[u] = 0 /\ o[u] = FREE
         /\ h[i] = k /\ h[u] = k /\ k \in Level /\ k \in Nat
         /\ \A p \in 0..Entries : p # i /\ p # u => h[p] = o[p]
         /\ Pow2(o[i]) = 2 * Pow2(k) /\ Pow2(k) \in Nat \ {0}
<1> USE DEF Halved
<1>0. \A p \in Page : p \in 0..Entries /\ p \in Nat
  BY Sizes
<1>1. i \in Nat /\ i \in Page /\ o[i] \in Level /\ i + Pow2(o[i]) <= n /\ i % Pow2(o[i]) = 0
  BY HeadFacts
<1>2. k \in Level /\ k \in Nat /\ Pow2(o[i]) = 2 * Pow2(k) /\ Pow2(k) \in Nat \ {0}
  <2>1. o[i] \in Level \ {0}
    BY <1>1
  <2>2. k \in Level /\ Pow2(o[i]) = 2 * Pow2(k)
    BY <2>1, Powers
  <2>3. k \in Nat /\ Pow2(k) \in Nat \ {0}
    BY <2>2, Powers, Sizes
  <2> QED
    BY <2>2, <2>3
<1>3. u \in Inside(i, o[i])
  BY <1>1, <1>2 DEF Inside
<1>4. u \in Nat /\ u \in Page /\ i < u /\ u < n /\ o[u] = FREE /\ s[u] = 0 /\ u \notin HeadsOf(o)
  BY <1>3, InsideFacts DEF MarkIn
<1>5. /\ h[i] = k /\ h[u] = k
      /\ \A p \in 0..Entries : p # i /\ p # u => h[p] = o[p]
      /\ Table(h, s)
  <2>1. o \in [0..Entries -> Int] /\ s \in [0..Entries -> {0, 1}]
    BY DEF Tiling, Table
  <2>2. i \in 0..Entries /\ u \in 0..Entries /\ i # u /\ k \in Int
    BY <1>0, <1>1, <1>2, <1>4
  <2> QED
    BY <2>1, <2>2 DEF Table
<1>6. HeadsOf(h) = HeadsOf(o) \cup {u}
  <2>2. h[i] >= 0 /\ h[u] >= 0
    BY <1>2, <1>5
  <2> QED
    BY <1>0, <1>1, <1>4, <1>5, <2>2 DEF HeadsOf
<1> n \in 0..Entries /\ Tiling(o, s, A, n) /\ i \in HeadsOf(o) /\ s[i] = 0 /\ u = i + Pow2(k)
  OBVIOUS
<1> HIDE DEF Halved
<1>7. \A j \in HeadsOf(o) : j \in 0..Entries /\ (j # i => j # u /\ h[j] = o[j])
  BY <1>0, <1>4, <1>5 DEF HeadsOf
<1>8. Aligned(h, n)
  <2>1. i % Pow2(k) = 0 /\ u % Pow2(k) = 0
    BY <1>1, <1>2, Halves
  <2>2. i + Pow2(k) <= n /\ u + Pow2(k) <= n
    BY <1>1, <1>2
  <2>3. ASSUME NEW j \in HeadsOf(o), j # i
        PROVE  h[j] \in Level /\ j % Pow2(h[j]) = 0 /\ j + Pow2(h[j]) <= n
    <3>1. o[j] \in Level /\ j % Pow2(o[j]) = 0 /\ j + Pow2(o[j]) <= n
      BY HeadFacts
    <3>2. h[j] = o[j]
      BY <1>7, <2>3
    <3> QED
      BY <3>1, <3>2
  <2> QED
    BY <1>2, <1>5, <1>6, <2>1, <2>2, <2>3 DEF Aligned
<1>9. Marked(h, s, A)
  <2>1. ASSUME NEW p, p \in Inside(i, k) \/ p \in Inside(u, k)
        PROVE  h[p] = FREE /\ s[p] = 0
    <3>1. p \in Inside(i, o[i]) /\ p # u /\ p # i
      BY <1>1, <1>2, <1>4, <2>1 DEF Inside
    <3>2. p \in 0..Entries /\ o[p] = FREE /\ s[p] = 0
      BY <1>0, <3>1, InsideFacts DEF MarkIn
    <3> QED
      BY <1>5, <3>1, <3>2
  <2>2. ASSUME NEW j \in HeadsOf(o), j # i, NEW p \in Inside(j, o[j])
        PROVE  h[p] = MarkIn(s, A, j) /\ s[p] = 0
    <3>1. /\ p \in Page /\ o[p] = MarkIn(s, A, j) /\ s[p] = 0
          /\ p \notin HeadsOf(o) /\ p \in Span(o, j)
      BY InsideFacts
    <3>2. u \in Span(o, i)
      BY <1>3, InsideFacts
    <3>3. p # u
      BY <2>2, <3>1, <3>2, OneBlock
    <3> QED
      BY <1>0, <1>5, <2>2, <3>1, <3>3, HeadFacts
  <2>3. MarkIn(s, A, i) = FREE /\ MarkIn(s, A, u) = FREE
    BY <1>4 DEF MarkIn
  <2>4. ASSUME NEW j \in HeadsOf(h), NEW p \in Inside(j, h[j])
        PROVE  h[p] = MarkIn(s, A, j) /\ s[p] = 0
    <3>1. CASE j = i \/ j = u
      BY <1>5, <2>1, <2>3, <2>4, <3>1
    <3>2. CASE j # i /\ j # u
      BY <1>6, <1>7, <2>2, <2>4, <3>2
    <3> QED
      BY <3>1, <3>2
  <2> QED
    BY <2>4 DEF Marked
<1>10. Covered(h, n)
  <2>1. ASSUME NEW p \in 0..n - 1 PROVE \E j \in HeadsOf(h) : p \in Span(h, j)
    <3>1. PICK j \in HeadsOf(o) : p \in Span(o, j)
      BY DEF Tiling, Covered
    <3>2. CASE j # i
      BY <1>6, <1>7, <3>1, <3>2 DEF Span
    <3>3. CASE j = i
      <4>1. p \in Span(h, i) \/ p \in Span(h, u)
        BY <1>1, <1>2, <1>5, <3>1, <3>3 DEF Span
      <4> QED
        BY <1>6, <4>1
    <3> QED
      BY <3>2, <3>3
  <2> QED
    BY <2>1 DEF Covered
<1> QED
  BY <1>2, <1>4, <1>5, <1>6, <1>8, <1>9, <1>10 DEF Tiling

(* The block at i changes hands: its inside gets the mark of its new use.  *)
LEMMA Remarking ==
  ASSUME NEW o, NEW s, NEW A, NEW n, NEW i, NEW v, NEW B, NEW t, NEW h,
         Remarked(o, s, A, n, i, v, B, t, h)
  PROVE  /\ Tiling(h, t, B, n)
         /\ HeadsOf(h) = HeadsOf(o)
         /\ \A j \in HeadsOf(o) : h[j] = o[j]
         /\ \A p \in 0..Entries : p \notin Inside(i, o[i]) => h[p] = o[p]
         /\ t[i] = v /\ \A p \in 0..Entries : p # i => t[p] = s[p]
<1> USE DEF Remarked
<1>0. \A p \in Page : p \in 0..Entries /\ p \in Nat
  BY Sizes
<1>1. i \in Nat /\ i \in Page /\ i \in 0..Entries
  BY <1>0, HeadFacts
<1>2. o \in [0..Entries -> Int] /\ s \in [0..Entries -> {0, 1}]
  BY DEF Tiling, Table
<1>3. /\ t \in [0..Entries -> {0, 1}] /\ t[i] = v
      /\ \A p \in 0..Entries : p # i => t[p] = s[p]
  BY <1>1, <1>2
<1> DEFINE mark == MarkIn(t, B, i)
           inside == Inside(i, o[i])
<1>4. mark \in {FREE, ALLOCATED, RESERVED} /\ mark \in Int /\ ~(mark >= 0)
  BY DEF MarkIn, FREE, ALLOCATED, RESERVED
<1>5. \A p \in inside : p \in Page /\ p \in 0..Entries /\ p \notin HeadsOf(o) /\ p # i
  BY <1>0, InsideFacts
<1>6. h = [p \in 0..Entries |-> IF p \in inside THEN mark ELSE o[p]]
  BY <1>2 DEF Mark
<1>7. /\ \A p \in inside : h[p] = mark
      /\ \A p \in 0..Entries : p \notin inside => h[p] = o[p]
      /\ h \in [0..Entries -> Int]
  <2> HIDE DEF mark, inside
  <2> QED
    BY <1>2, <1>4, <1>5, <1>6
<1> /\ n \in 0..Entries /\ Tiling(o, s, A, n) /\ i \in HeadsOf(o) /\ v \in {0, 1}
    /\ \A j \in HeadsOf(o) \ {i} : j \in B <=> j \in A
  OBVIOUS
<1> HIDE DEF Remarked
<1>8. HeadsOf(h) = HeadsOf(o)
  <2> HIDE DEF mark, inside
  <2> QED
    BY <1>0, <1>4, <1>5, <1>7 DEF HeadsOf
<1>9. \A j \in HeadsOf(o) : j \in 0..Entries /\ h[j] = o[j]
  <2> HIDE DEF inside
  <2> QED
    BY <1>0, <1>5, <1>7 DEF HeadsOf
<1>10. Aligned(h, n)
  <2>1. ASSUME NEW j \in HeadsOf(o)
        PROVE  h[j] \in Level /\ j % Pow2(h[j]) = 0 /\ j + Pow2(h[j]) <= n
    <3>1. o[j] \in Level /\ j % Pow2(o[j]) = 0 /\ j + Pow2(o[j]) <= n
      BY HeadFacts
    <3> QED
      BY <1>9, <3>1
  <2> QED
    BY <1>8, <2>1 DEF Aligned
<1>11. Marked(h, t, B)
  <2>1. ASSUME NEW j \in HeadsOf(o), NEW p \in Inside(j, o[j])
        PROVE  h[p] = MarkIn(t, B, j) /\ t[p] = 0
    <3>1. /\ p \in Page /\ o[p] = MarkIn(s, A, j) /\ s[p] = 0
          /\ p \notin HeadsOf(o) /\ p \in Span(o, j)
      BY InsideFacts
    <3>2. p # i /\ t[p] = 0
      BY <1>0, <1>3, <3>1
    <3>3. CASE j = i
      BY <1>7, <3>2, <3>3
    <3>4. CASE j # i
      <4>1. p \notin inside
        <5>1. ASSUME p \in inside PROVE FALSE
          <6>1. p \in Span(o, i)
            BY <5>1, InsideFacts
          <6> QED
            BY <3>1, <3>4, <6>1, OneBlock
        <5> QED
          BY <5>1
      <4>2. h[p] = o[p]
        BY <1>0, <1>7, <3>1, <4>1
      <4>3. MarkIn(t, B, j) = MarkIn(s, A, j)
        BY <1>3, <1>9, <3>4 DEF MarkIn
      <4> QED
        BY <3>1, <3>2, <4>2, <4>3
    <3> QED
      BY <3>3, <3>4
  <2> QED
    BY <1>8, <1>9, <2>1 DEF Marked
<1>12. Covered(h, n)
  <2>1. ASSUME NEW p \in 0..n - 1 PROVE \E j \in HeadsOf(h) : p \in Span(h, j)
    <3>1. PICK j \in HeadsOf(o) : p \in Span(o, j)
      BY DEF Tiling, Covered
    <3> QED
      BY <1>8, <1>9, <3>1 DEF Span
  <2> QED
    BY <2>1 DEF Covered
<1> QED
  BY <1>3, <1>7, <1>8, <1>9, <1>10, <1>11, <1>12 DEF Tiling, Table

(* Two free halves become one block.                                       *)
LEMMA Joining ==
  ASSUME NEW o, NEW s, NEW A, NEW n, NEW i, NEW u, NEW h, Joined(o, s, A, n, i, u, h)
  PROVE  /\ Tiling(h, s, A, n)
         /\ HeadsOf(h) = HeadsOf(o) \ {u}
         /\ i < u
         /\ h[i] = o[i] + 1 /\ h[u] = FREE /\ h[i] \in Level
         /\ \A p \in 0..Entries : p # i /\ p # u => h[p] = o[p]
         /\ Pow2(h[i]) = 2 * Pow2(o[i]) /\ Pow2(o[i]) \in Nat \ {0}
<1> USE DEF Joined
<1>0. \A p \in Page : p \in 0..Entries /\ p \in Nat
  BY Sizes
<1>1. /\ i \in Nat /\ i \in Page /\ o[i] \in Level /\ o[i] \in Nat /\ Pow2(o[i]) \in Nat \ {0}
      /\ u \in Nat /\ u \in Page /\ u + Pow2(o[i]) <= n
  <2>1. u + Pow2(o[u]) <= n /\ u \in Nat /\ u \in Page
    BY HeadFacts
  <2> QED
    BY <2>1, HeadFacts
<1>2. o[i] + 1 \in Level /\ Pow2(o[i] + 1) = 2 * Pow2(o[i])
  BY <1>1, Powers
<1>3. /\ h[i] = o[i] + 1 /\ h[u] = FREE
      /\ \A p \in 0..Entries : p # i /\ p # u => h[p] = o[p]
      /\ Table(h, s)
  <2>1. o \in [0..Entries -> Int] /\ s \in [0..Entries -> {0, 1}]
    BY DEF Tiling, Table
  <2>2. i \in 0..Entries /\ u \in 0..Entries /\ i # u /\ o[i] + 1 \in Int /\ FREE \in Int
    BY <1>0, <1>1 DEF FREE
  <2> QED
    BY <2>1, <2>2 DEF Table
<1> /\ n \in 0..Entries /\ Tiling(o, s, A, n) /\ i \in HeadsOf(o) /\ u \in HeadsOf(o)
    /\ o[u] = o[i] /\ o[i] # MaxOrder /\ u = i + Pow2(o[i]) /\ i % (2 * Pow2(o[i])) = 0
    /\ s[i] = 0 /\ s[u] = 0
  OBVIOUS
<1> HIDE DEF Joined
<1>4. HeadsOf(h) = HeadsOf(o) \ {u}
  <2>1. h[i] >= 0 /\ ~(h[u] >= 0)
    BY <1>1, <1>3 DEF FREE
  <2> QED
    BY <1>0, <1>1, <1>3, <2>1 DEF HeadsOf
<1>5. \A j \in HeadsOf(o) : j \in 0..Entries /\ (j # i /\ j # u => h[j] = o[j])
  BY <1>0, <1>3 DEF HeadsOf
<1>6. Aligned(h, n)
  <2>1. i % Pow2(h[i]) = 0 /\ i + Pow2(h[i]) <= n
    BY <1>1, <1>2, <1>3
  <2>2. ASSUME NEW j \in HeadsOf(o), j # i, j # u
        PROVE  h[j] \in Level /\ j % Pow2(h[j]) = 0 /\ j + Pow2(h[j]) <= n
    <3>1. o[j] \in Level /\ j % Pow2(o[j]) = 0 /\ j + Pow2(o[j]) <= n
      BY HeadFacts
    <3> QED
      BY <1>5, <2>2, <3>1
  <2> QED
    BY <1>2, <1>3, <1>4, <2>1, <2>2 DEF Aligned
<1>7. MarkIn(s, A, i) = FREE /\ MarkIn(s, A, u) = FREE
  BY DEF MarkIn
<1>10. ASSUME NEW j \in HeadsOf(o), s[j] = 0, NEW p \in Inside(j, o[j])
       PROVE  p \in Page /\ p \notin HeadsOf(o) /\ o[p] = FREE /\ s[p] = 0
  BY <1>10, InsideFacts DEF MarkIn
<1>8. Marked(h, s, A)
  <2>1. ASSUME NEW p \in Inside(i, h[i]) PROVE h[p] = FREE /\ s[p] = 0
    <3>1. p = u \/ p \in Inside(i, o[i]) \/ p \in Inside(u, o[u])
      BY <1>1, <1>2, <1>3 DEF Inside
    <3>2. CASE p = u
      BY <1>3, <3>2
    <3>3. CASE p \in Inside(i, o[i]) \/ p \in Inside(u, o[u])
      <4>1. p \in Page /\ p \notin HeadsOf(o) /\ o[p] = FREE /\ s[p] = 0
        BY <1>10, <3>3
      <4> QED
        BY <1>0, <1>3, <4>1
    <3> QED
      BY <3>1, <3>2, <3>3
  <2>2. ASSUME NEW j \in HeadsOf(o), j # i, j # u, NEW p \in Inside(j, o[j])
        PROVE  h[p] = MarkIn(s, A, j) /\ s[p] = 0
    <3>1. /\ p \in Page /\ o[p] = MarkIn(s, A, j) /\ s[p] = 0
          /\ p \notin HeadsOf(o)
      BY InsideFacts
    <3> QED
      BY <1>0, <1>3, <3>1
  <2>3. ASSUME NEW j \in HeadsOf(h), NEW p \in Inside(j, h[j])
        PROVE  h[p] = MarkIn(s, A, j) /\ s[p] = 0
    <3>1. CASE j = i
      BY <1>7, <2>1, <2>3, <3>1
    <3>2. CASE j # i
      BY <1>4, <1>5, <2>2, <2>3, <3>2
    <3> QED
      BY <3>1, <3>2
  <2> QED
    BY <2>3 DEF Marked
<1>9. Covered(h, n)
  <2>1. ASSUME NEW p \in 0..n - 1 PROVE \E j \in HeadsOf(h) : p \in Span(h, j)
    <3>1. PICK j \in HeadsOf(o) : p \in Span(o, j)
      BY DEF Tiling, Covered
    <3>2. CASE j # i /\ j # u
      BY <1>4, <1>5, <3>1, <3>2 DEF Span
    <3>3. CASE j = i \/ j = u
      <4>1. p \in Span(h, i)
        BY <1>1, <1>2, <1>3, <3>1, <3>3 DEF Span
      <4> QED
        BY <1>1, <1>4, <4>1
    <3> QED
      BY <3>2, <3>3
  <2> QED
    BY <2>1 DEF Covered
<1> QED
  BY <1>1, <1>2, <1>3, <1>4, <1>6, <1>8, <1>9 DEF Tiling

(* page_init appends a block.                                              *)
LEMMA Appending ==
  ASSUME NEW o, NEW s, NEW n, NEW k, NEW h, Appended(o, s, n, k, h)
  PROVE  /\ Tiling(h, s, {}, n + Pow2(k))
         /\ HeadsOf(h) = HeadsOf(o) \cup {n}
         /\ h[n] = k /\ \A p \in 0..Entries : p # n => h[p] = o[p]
<1> USE DEF Appended
<1>0. \A p \in Page : p \in 0..Entries /\ p \in Nat
  BY Sizes
<1>1. n \in Nat /\ n \in Page /\ n \in 0..Entries /\ k \in Nat /\ Pow2(k) \in Nat \ {0}
  BY Sizes, Powers
<1>2. o \in [0..Entries -> Int] /\ s \in [0..Entries -> {0, 1}]
  BY DEF Tiling, Table
<1>3. \A p \in Inside(n, k) : p \in n..Entries - 1 /\ p \in Page /\ p # n
  BY <1>1, Sizes DEF Inside
<1>4. /\ h[n] = k /\ \A p \in 0..Entries : p # n => h[p] = o[p]
      /\ h \in [0..Entries -> Int]
  <2> DEFINE g == Mark(o, Inside(n, k), FREE)
  <2>1. g = [p \in 0..Entries |-> IF p \in Inside(n, k) THEN FREE ELSE o[p]]
    BY <1>2 DEF Mark
  <2>2. \A p \in 0..Entries : g[p] = o[p]
    BY <1>3, <2>1
  <2>3. g \in [0..Entries -> Int]
    BY <1>2, <2>1 DEF FREE
  <2> HIDE DEF g
  <2>4. k \in Int
    BY <1>1
  <2>5. h = [g EXCEPT ![n] = k]
    BY DEF g
  <2> QED
    BY <1>1, <2>2, <2>3, <2>4, <2>5
<1> /\ n \in 0..Entries /\ Tiling(o, s, {}, n) /\ n # Entries
    /\ \A p \in n..Entries - 1 : o[p] = FREE /\ s[p] = 0
    /\ k \in Level /\ n % Pow2(k) = 0 /\ n + Pow2(k) <= Entries
  OBVIOUS
<1> HIDE DEF Appended
<1>5. HeadsOf(h) = HeadsOf(o) \cup {n}
  <2>1. h[n] >= 0
    BY <1>1, <1>4
  <2> QED
    BY <1>0, <1>1, <1>4, <2>1 DEF HeadsOf
<1>6. \A j \in HeadsOf(o) : j \in 0..Entries /\ j # n /\ h[j] = o[j]
  <2>1. \A j \in HeadsOf(o) : j # n
    BY <1>1, HeadFacts
  <2> QED
    BY <1>0, <1>4, <2>1 DEF HeadsOf
<1>7. Aligned(h, n + Pow2(k))
  <2>1. ASSUME NEW j \in HeadsOf(o)
        PROVE  h[j] \in Level /\ j % Pow2(h[j]) = 0 /\ j + Pow2(h[j]) <= n + Pow2(k)
    <3>1. /\ j \in Nat /\ o[j] \in Level /\ j % Pow2(o[j]) = 0 /\ j + Pow2(o[j]) <= n
          /\ Pow2(o[j]) \in Nat
      BY HeadFacts
    <3> QED
      BY <1>1, <1>6, <3>1
  <2> QED
    BY <1>1, <1>4, <1>5, <2>1 DEF Aligned
<1>8. Marked(h, s, {})
  <2>1. ASSUME NEW p \in Inside(n, k) PROVE h[p] = MarkIn(s, {}, n) /\ s[p] = 0
    <3>1. s[n] = 0
      BY <1>1, Sizes
    <3> QED
      BY <1>0, <1>3, <1>4, <3>1 DEF MarkIn
  <2>2. ASSUME NEW j \in HeadsOf(o), NEW p \in Inside(j, o[j])
        PROVE  h[p] = MarkIn(s, {}, j) /\ s[p] = 0
    <3>1. p \in Page /\ p < n /\ o[p] = MarkIn(s, {}, j) /\ s[p] = 0
      BY InsideFacts
    <3> QED
      BY <1>0, <1>1, <1>4, <3>1
  <2> QED
    BY <1>4, <1>5, <1>6, <2>1, <2>2 DEF Marked
<1>9. Covered(h, n + Pow2(k))
  <2> DEFINE m == n + Pow2(k)
  <2>1. ASSUME NEW p \in 0..m - 1 PROVE \E j \in HeadsOf(h) : p \in Span(h, j)
    <3>1. CASE p < n
      <4>1. PICK j \in HeadsOf(o) : p \in Span(o, j)
        BY <1>1, <3>1 DEF Tiling, Covered
      <4> QED
        BY <1>5, <1>6, <4>1 DEF Span
    <3>2. CASE p >= n
      <4>1. p \in Span(h, n)
        BY <1>1, <1>4, <3>2 DEF Span
      <4> QED
        BY <1>5, <4>1
    <3> QED
      BY <1>1, <3>1, <3>2
  <2> HIDE DEF m
  <2>3. Covered(h, m)
    BY <2>1 DEF Covered
  <2> QED
    BY <2>3 DEF m
<1> QED
  BY <1>2, <1>4, <1>5, <1>7, <1>8, <1>9 DEF Tiling, Table

-----------------------------------------------------------------------------
(* Reserved pages, under the three changes of a tiling.                    *)
LEMMA WholeHalving ==
  ASSUME NEW o, NEW s, NEW A, NEW n, NEW i, NEW k, NEW u, NEW h, Halved(o, s, A, n, i, k, u, h),
         NEW R, Whole(o, s, A, R)
  PROVE  Whole(h, s, A, R)
<1> n \in 0..Entries /\ Tiling(o, s, A, n) /\ i \in HeadsOf(o) /\ s[i] = 0 /\ u = i + Pow2(k)
  BY DEF Halved
<1>1. /\ HeadsOf(h) = HeadsOf(o) \cup {u} /\ u \in Page \ HeadsOf(o) /\ i < u /\ s[u] = 0
      /\ h[i] = k /\ h[u] = k
      /\ \A p \in 0..Entries : p # i /\ p # u => h[p] = o[p]
      /\ Pow2(o[i]) = 2 * Pow2(k) /\ Pow2(k) \in Nat \ {0}
  BY Halving
<1>2. i \in Nat /\ \A j \in HeadsOf(o) : j \in 0..Entries
  BY Sizes, HeadFacts DEF HeadsOf
<1>3. ASSUME NEW j \in HeadsOf(o), NEW p \in Span(o, j)
      PROVE  p \in R <=> s[j] = 1 /\ j \notin A
  BY DEF Whole
<1>4. ASSUME NEW p, p \in Span(h, i) \/ p \in Span(h, u) PROVE p \notin R
  <2>1. p \in Span(o, i)
    BY <1>1, <1>2, <1>4 DEF Span
  <2> QED
    BY <1>3, <2>1
<1>5. ASSUME NEW j \in HeadsOf(h), NEW p \in Span(h, j)
      PROVE  p \in R <=> s[j] = 1 /\ j \notin A
  <2>1. CASE j = i \/ j = u
    BY <1>1, <1>4, <1>5, <2>1
  <2>2. CASE j # i /\ j # u
    <3>1. j \in HeadsOf(o) /\ Span(h, j) = Span(o, j)
      BY <1>1, <1>2, <2>2 DEF Span
    <3> QED
      BY <1>3, <3>1
  <2> QED
    BY <2>1, <2>2
<1> QED
  BY <1>5 DEF Whole

(* A block that changes hands takes its pages with it.                     *)
LEMMA WholeRemarking ==
  ASSUME NEW o, NEW s, NEW A, NEW n, NEW i, NEW v, NEW B, NEW t, NEW h,
         Remarked(o, s, A, n, i, v, B, t, h),
         NEW R, Whole(o, s, A, R),
         NEW Q, \A p \in Span(o, i) : p \in Q <=> v = 1 /\ i \notin B,
         \A p : p \notin Span(o, i) => (p \in Q <=> p \in R)
  PROVE  Whole(h, t, B, Q)
<1> /\ n \in 0..Entries /\ Tiling(o, s, A, n) /\ i \in HeadsOf(o) /\ v \in {0, 1}
    /\ \A j \in HeadsOf(o) \ {i} : j \in B <=> j \in A
  BY DEF Remarked
<1>1. /\ HeadsOf(h) = HeadsOf(o)
      /\ \A j \in HeadsOf(o) : h[j] = o[j]
      /\ t[i] = v /\ \A p \in 0..Entries : p # i => t[p] = s[p]
  BY Remarking
<1>2. \A j \in HeadsOf(o) : j \in 0..Entries
  BY Sizes DEF HeadsOf
<1>3. ASSUME NEW j \in HeadsOf(o), NEW p \in Span(o, j)
      PROVE  p \in Q <=> t[j] = 1 /\ j \notin B
  <2>1. CASE j = i
    BY <1>1, <2>1
  <2>2. CASE j # i
    <3>1. p \notin Span(o, i)
      BY <2>2, OneBlock
    <3>2. p \in R <=> s[j] = 1 /\ j \notin A
      BY DEF Whole
    <3> QED
      BY <1>1, <1>2, <2>2, <3>1, <3>2
  <2> QED
    BY <2>1, <2>2
<1> QED
  BY <1>1, <1>3 DEF Whole, Span

(* Joining two free blocks reserves no page.                               *)
LEMMA WholeJoining ==
  ASSUME NEW o, NEW s, NEW A, NEW n, NEW i, NEW u, NEW h, Joined(o, s, A, n, i, u, h),
         NEW R, Whole(o, s, A, R)
  PROVE  Whole(h, s, A, R)
<1> /\ n \in 0..Entries /\ Tiling(o, s, A, n) /\ i \in HeadsOf(o) /\ u \in HeadsOf(o)
    /\ o[u] = o[i] /\ o[i] # MaxOrder /\ u = i + Pow2(o[i]) /\ i % (2 * Pow2(o[i])) = 0
    /\ s[i] = 0 /\ s[u] = 0
  BY DEF Joined
<1>1. /\ HeadsOf(h) = HeadsOf(o) \ {u}
      /\ \A p \in 0..Entries : p # i /\ p # u => h[p] = o[p]
      /\ Pow2(h[i]) = 2 * Pow2(o[i]) /\ Pow2(o[i]) \in Nat \ {0}
  BY Joining
<1>2. i \in Nat /\ \A j \in HeadsOf(o) : j \in 0..Entries
  BY Sizes, HeadFacts DEF HeadsOf
<1>3. ASSUME NEW j \in HeadsOf(o), NEW p \in Span(o, j)
      PROVE  p \in R <=> s[j] = 1 /\ j \notin A
  BY DEF Whole
<1>4. ASSUME NEW p \in Span(h, i) PROVE p \notin R
  <2>1. p \in Span(o, i) \/ p \in Span(o, u)
    BY <1>1, <1>2 DEF Span
  <2> QED
    BY <1>3, <2>1
<1>5. ASSUME NEW j \in HeadsOf(h), NEW p \in Span(h, j)
      PROVE  p \in R <=> s[j] = 1 /\ j \notin A
  <2>1. CASE j = i
    BY <1>4, <1>5, <2>1
  <2>2. CASE j # i
    <3>1. j \in HeadsOf(o) /\ Span(h, j) = Span(o, j)
      BY <1>1, <1>2, <2>2 DEF Span
    <3> QED
      BY <1>3, <3>1
  <2> QED
    BY <2>1, <2>2
<1> QED
  BY <1>5 DEF Whole

-----------------------------------------------------------------------------
(* Buddies.                                                                *)
LEMMA BuddyFacts ==
  ASSUME NEW k \in Level, NEW i \in Nat, i % Pow2(k) = 0
  PROVE  /\ Buddy(i, k) \in Nat /\ Buddy(i, k) # i
         /\ Buddy(i, k) % Pow2(k) = 0
         /\ Buddy(Buddy(i, k), k) = i
         /\ i % (2 * Pow2(k)) = 0 => Buddy(i, k) = i + Pow2(k)
         /\ i % (2 * Pow2(k)) # 0 =>
              /\ Buddy(i, k) = i - Pow2(k)
              /\ Buddy(i, k) % (2 * Pow2(k)) = 0
<1> DEFINE p == Pow2(k)
<1>1. p \in Nat \ {0}
  BY Powers
<1>2. CASE i % (2 * p) = 0
  <2>1. Buddy(i, k) = i + p
    BY <1>2 DEF Buddy
  <2> HIDE DEF p
  <2>2. (i + p) % p = 0 /\ (i + p) % (2 * p) # 0
    BY <1>1, <1>2, Halves
  <2>3. Buddy(i + p, k) = i
    BY <1>1, <2>2 DEF Buddy, p
  <2> QED
    BY <1>1, <1>2, <2>1, <2>2, <2>3 DEF p
<1>3. CASE i % (2 * p) # 0
  <2>1. Buddy(i, k) = i - p
    BY <1>3 DEF Buddy
  <2> HIDE DEF p
  <2>2. i % p = 0
    BY DEF p
  <2>3. i - p \in Nat /\ (i - p) % (2 * p) = 0
    BY <1>1, <1>3, <2>2, OddMultiple
  <2>4. (i - p) % p = 0
    BY <1>1, <2>3, Halves
  <2>5. Buddy(i - p, k) = i
    BY <1>1, <2>3 DEF Buddy, p
  <2> QED
    BY <1>1, <1>3, <2>1, <2>3, <2>4, <2>5 DEF p
<1> QED
  BY <1>2, <1>3

(* Two blocks that merge would make one.                                   *)
Pair(o, s, i, b) ==
  /\ i \in HeadsOf(o) /\ b \in HeadsOf(o)
  /\ s[i] = 0 /\ s[b] = 0
  /\ o[b] = o[i] /\ o[i] # MaxOrder
  /\ b = Buddy(i, o[i])

(* Only blocks in X can be merged.                                         *)
Settled(o, s, X) == \A i, b \in HeadsOf(o) : Pair(o, s, i, b) => i \in X \/ b \in X

(* Either of the two may be taken for the first.                           *)
LEMMA PairSymmetric ==
  ASSUME NEW o, NEW s, NEW A, NEW n \in 0..Entries, Tiling(o, s, A, n),
         NEW i \in HeadsOf(o), NEW b \in HeadsOf(o), Pair(o, s, i, b)
  PROVE  Pair(o, s, b, i)
<1>1. i \in Nat /\ o[i] \in Level /\ i % Pow2(o[i]) = 0
  BY HeadFacts
<1>2. Buddy(Buddy(i, o[i]), o[i]) = i
  BY <1>1, BuddyFacts
<1> QED
  BY <1>2 DEF Pair

(* The only pair that halving makes are the two halves.                    *)
LEMMA SettledHalving ==
  ASSUME NEW o, NEW s, NEW A, NEW n, NEW i, NEW k, NEW u, NEW h, Halved(o, s, A, n, i, k, u, h),
         NEW X, X \subseteq {i}, Settled(o, s, X)
  PROVE  Settled(h, s, {i}) /\ Settled(h, s, {u})
<1> n \in 0..Entries /\ Tiling(o, s, A, n) /\ i \in HeadsOf(o) /\ s[i] = 0 /\ u = i + Pow2(k)
  BY DEF Halved
<1>1. /\ Tiling(h, s, A, n)
      /\ HeadsOf(h) = HeadsOf(o) \cup {u} /\ i < u
      /\ h[i] = k /\ h[u] = k /\ k \in Level
      /\ \A p \in 0..Entries : p # i /\ p # u => h[p] = o[p]
      /\ Pow2(o[i]) = 2 * Pow2(k) /\ Pow2(k) \in Nat \ {0}
  BY Halving
<1>2. i \in Nat /\ i % Pow2(o[i]) = 0 /\ \A j \in HeadsOf(o) : j \in 0..Entries
  BY Sizes, HeadFacts DEF HeadsOf
<1>3. i % Pow2(k) = 0 /\ Buddy(i, k) = u /\ Buddy(u, k) = i
  <2>1. i % (2 * Pow2(k)) = 0
    BY <1>1, <1>2
  <2>2. i % Pow2(k) = 0
    BY <1>1, <1>2, <2>1, Halves
  <2>3. Buddy(i, k) = i + Pow2(k) /\ Buddy(Buddy(i, k), k) = i
    BY <1>1, <1>2, <2>1, <2>2, BuddyFacts
  <2> QED
    BY <2>2, <2>3
<1>4. ASSUME NEW a \in HeadsOf(h), NEW b \in HeadsOf(h), Pair(h, s, a, b), a = i \/ a = u
      PROVE  (a = i /\ b = u) \/ (a = u /\ b = i)
  BY <1>1, <1>3, <1>4 DEF Pair
<1>5. ASSUME NEW a \in HeadsOf(h), NEW b \in HeadsOf(h), Pair(h, s, a, b)
      PROVE  (a = i /\ b = u) \/ (a = u /\ b = i)
  <2>1. CASE a = i \/ a = u
    BY <1>4, <1>5, <2>1
  <2>2. CASE b = i \/ b = u
    <3>1. Pair(h, s, b, a)
      BY <1>1, <1>5, PairSymmetric
    <3> QED
      BY <1>4, <2>2, <3>1
  <2>3. CASE a # i /\ a # u /\ b # i /\ b # u
    <3>1. a \in HeadsOf(o) /\ b \in HeadsOf(o) /\ h[a] = o[a] /\ h[b] = o[b]
      BY <1>1, <1>2, <2>3
    <3>2. Pair(o, s, a, b)
      BY <1>5, <3>1 DEF Pair
    <3> QED
      BY <2>3, <3>1, <3>2 DEF Settled
  <2> QED
    BY <2>1, <2>2, <2>3
<1> QED
  BY <1>5 DEF Settled

(* A block that is taken merges with nothing, one that is freed may merge. *)
LEMMA SettledRemarking ==
  ASSUME NEW o, NEW s, NEW A, NEW n, NEW i, NEW v, NEW B, NEW t, NEW h,
         Remarked(o, s, A, n, i, v, B, t, h),
         NEW X, X \subseteq {i}, Settled(o, s, X)
  PROVE  Settled(h, t, IF v = 1 THEN {} ELSE {i})
<1> /\ n \in 0..Entries /\ Tiling(o, s, A, n) /\ i \in HeadsOf(o) /\ v \in {0, 1}
    /\ \A j \in HeadsOf(o) \ {i} : j \in B <=> j \in A
  BY DEF Remarked
<1>1. /\ HeadsOf(h) = HeadsOf(o)
      /\ \A j \in HeadsOf(o) : h[j] = o[j]
      /\ t[i] = v /\ \A p \in 0..Entries : p # i => t[p] = s[p]
  BY Remarking
<1>2. \A j \in HeadsOf(o) : j \in 0..Entries
  BY Sizes DEF HeadsOf
<1>3. ASSUME NEW a \in HeadsOf(h), NEW b \in HeadsOf(h), Pair(h, t, a, b)
      PROVE  v = 0 /\ (a = i \/ b = i)
  <2>1. CASE a = i \/ b = i
    BY <1>1, <1>3, <2>1 DEF Pair
  <2>2. CASE a # i /\ b # i
    <3>1. Pair(o, s, a, b)
      BY <1>1, <1>2, <1>3, <2>2 DEF Pair
    <3> QED
      BY <1>1, <2>2, <3>1 DEF Settled
  <2> QED
    BY <2>1, <2>2
<1> QED
  BY <1>3 DEF Settled

(* Only the joined block may merge further.                                *)
LEMMA SettledJoining ==
  ASSUME NEW o, NEW s, NEW A, NEW n, NEW i, NEW u, NEW h, Joined(o, s, A, n, i, u, h),
         NEW X, X \subseteq {i, u}, Settled(o, s, X)
  PROVE  Settled(h, s, {i})
<1> /\ n \in 0..Entries /\ Tiling(o, s, A, n) /\ i \in HeadsOf(o) /\ u \in HeadsOf(o)
    /\ o[u] = o[i] /\ o[i] # MaxOrder /\ u = i + Pow2(o[i]) /\ i % (2 * Pow2(o[i])) = 0
    /\ s[i] = 0 /\ s[u] = 0
  BY DEF Joined
<1>1. /\ HeadsOf(h) = HeadsOf(o) \ {u}
      /\ \A p \in 0..Entries : p # i /\ p # u => h[p] = o[p]
  BY Joining
<1>2. \A j \in HeadsOf(o) : j \in 0..Entries
  BY Sizes DEF HeadsOf
<1>3. ASSUME NEW a \in HeadsOf(h), NEW b \in HeadsOf(h), Pair(h, s, a, b), a # i, b # i
      PROVE  FALSE
  <2>1. a # u /\ b # u /\ Pair(o, s, a, b)
    BY <1>1, <1>2, <1>3 DEF Pair
  <2> QED
    BY <1>1, <1>3, <2>1 DEF Settled
<1> QED
  BY <1>3 DEF Settled

(* page_init makes no pair: the sizes of its blocks fall, or are the       *)
(* largest.                                                                *)
LEMMA SettledAppending ==
  ASSUME NEW o, NEW s, NEW n, NEW k, NEW h, Appended(o, s, n, k, h),
         Settled(o, s, {}), k = MaxOrder \/ \A j \in HeadsOf(o) : o[j] # k
  PROVE  Settled(h, s, {})
<1> /\ n \in 0..Entries /\ Tiling(o, s, {}, n) /\ n # Entries
    /\ \A p \in n..Entries - 1 : o[p] = FREE /\ s[p] = 0
    /\ k \in Level /\ n % Pow2(k) = 0 /\ n + Pow2(k) <= Entries
  BY DEF Appended
<1>1. /\ HeadsOf(h) = HeadsOf(o) \cup {n}
      /\ h[n] = k /\ \A p \in 0..Entries : p # n => h[p] = o[p]
  BY Appending
<1>2. \A j \in HeadsOf(o) : j \in 0..Entries /\ j # n
  BY Sizes, HeadFacts DEF HeadsOf
<1>3. ASSUME NEW a \in HeadsOf(h), NEW b \in HeadsOf(h), Pair(h, s, a, b) PROVE FALSE
  <2>1. a # b
    <3>1. a \in Nat /\ h[a] \in Level /\ a % Pow2(h[a]) = 0
      <4>1. Tiling(h, s, {}, n + Pow2(k)) /\ n + Pow2(k) \in 0..Entries
        <5>1. n + Pow2(k) \in Nat
          BY Sizes, Powers
        <5> QED
          BY <5>1, Appending
      <4> QED
        BY <4>1, HeadFacts
    <3> QED
      BY <1>3, <3>1, BuddyFacts DEF Pair
  <2>2. CASE a = n \/ b = n
    BY <1>1, <1>2, <1>3, <2>1, <2>2 DEF Pair
  <2>3. CASE a # n /\ b # n
    <3>1. Pair(o, s, a, b)
      BY <1>1, <1>2, <1>3, <2>3 DEF Pair
    <3> QED
      BY <1>1, <2>3, <3>1 DEF Settled
  <2> QED
    BY <2>2, <2>3
<1> QED
  BY <1>3 DEF Settled

-----------------------------------------------------------------------------
(* The memory: the tables, and the lists.                                  *)
Memory ==
  [order : [0..Entries -> Int], status : [0..Entries -> {0, 1}],
   list : [Level -> Page \cup {NoPage}],
   next : [Page -> Page \cup {NoPage, Junk}],
   prev : [Page -> Page \cup {NoPage, Junk}]]

(* The list of level k of m is q.  Nothing is said of prev of its head.    *)
Chained(m, k, q) ==
  /\ m.list[k] = IF q = <<>> THEN NoPage ELSE q[1]
  /\ \A j \in 1..Len(q) : m.next[q[j]] = IF j = Len(q) THEN NoPage ELSE q[j + 1]
  /\ \A j \in 2..Len(q) : m.prev[q[j]] = q[j - 1]

(* The list of level k of m has the pages S.                               *)
Linked(m, k, S) ==
  \E q \in Seq(Page) : IsInjective(q) /\ Range(q) = S /\ Chained(m, k, q)

(* A list whose pointers nobody writes stays.                              *)
LEMMA LinkedUnchanged ==
  ASSUME NEW m, NEW d, NEW k \in Level, NEW S, Linked(m, k, S),
         d.list[k] = m.list[k],
         \A i \in S : d.next[i] = m.next[i] /\ d.prev[i] = m.prev[i]
  PROVE  Linked(d, k, S)
<1>1. PICK q \in Seq(Page) : IsInjective(q) /\ Range(q) = S /\ Chained(m, k, q)
  BY DEF Linked
<1>2. \A j \in 1..Len(q) : q[j] \in S
  BY <1>1, ListElement
<1>3. Chained(d, k, q)
  <2>1. \A j \in 1..Len(q) : m.next[q[j]] = d.next[q[j]] /\ m.prev[q[j]] = d.prev[q[j]]
    BY <1>2
  <2>2. \A j \in 2..Len(q) : j \in 1..Len(q)
    BY <1>1
  <2> QED
    BY <1>1, <2>1, <2>2 DEF Chained
<1> QED
  BY <1>1, <1>3 DEF Linked

(* A list with head NULL is empty.                                         *)
LEMMA LinkedEmpty ==
  ASSUME NEW m, NEW k \in Level, m.list[k] = NoPage
  PROVE  Linked(m, k, {})
<1>1. <<>> \in Seq(Page) /\ IsInjective(<<>>) /\ Range(<<>>) = {} /\ Chained(m, k, <<>>)
  BY DEF IsInjective, Range, Chained
<1> QED
  BY <1>1, Zenon DEF Linked

(* The head of a list is in it.                                            *)
LEMMA LinkedHead ==
  ASSUME NEW m, NEW k \in Level, NEW S, Linked(m, k, S)
  PROVE  /\ S \subseteq Page
         /\ m.list[k] \in S \cup {NoPage}
         /\ m.list[k] = NoPage => S = {}
<1>1. PICK q \in Seq(Page) : IsInjective(q) /\ Range(q) = S /\ Chained(m, k, q)
  BY DEF Linked
<1>2. \A x \in S : x \in Page /\ \E i \in 1..Len(q) : q[i] = x
  BY <1>1, ListElement
<1>3. CASE q = <<>>
  BY <1>1, <1>2, <1>3 DEF Chained
<1>4. CASE q # <<>>
  <2>1. 1 \in 1..Len(q)
    BY <1>4
  <2>2. m.list[k] = q[1] /\ q[1] \in S
    BY <1>1, <1>4, <2>1, ListElement DEF Chained
  <2> QED
    BY <1>2, <2>2 DEF Page, NoPage
<1> QED
  BY <1>3, <1>4

(* add_page_item.                                                          *)
LEMMA LinkedAdd ==
  ASSUME NEW m, NEW d, NEW k \in Level, NEW S, Linked(m, k, S),
         NEW i \in Page, i \notin S,
         d.list[k] = i, d.next[i] = m.list[k],
         \A p \in S : d.next[p] = m.next[p] /\ d.prev[p] = IF p = m.list[k] THEN i ELSE m.prev[p]
  PROVE  Linked(d, k, S \cup {i})
<1>1. PICK q \in Seq(Page) : IsInjective(q) /\ Range(q) = S /\ Chained(m, k, q)
  BY DEF Linked
<1> DEFINE r == <<i>> \o q
<1>2. r \in Seq(Page) /\ IsInjective(r) /\ Range(r) = S \cup {i}
  BY <1>1, PutInFront
<1>3. /\ Len(q) \in Nat /\ Len(r) = Len(q) + 1 /\ r # <<>> /\ r[1] = i
      /\ \A j \in 1..Len(q) : r[j + 1] = q[j]
  OBVIOUS
<1>4. \A j \in 1..Len(q) : q[j] \in S /\ q[j] # i
  BY <1>1, ListElement
<1> HIDE DEF r
<1>5. \A j \in 1..Len(r) : j = 1 \/ (j - 1 \in 1..Len(q) /\ r[j] = q[j - 1])
  BY <1>3
<1>6. ASSUME NEW j \in 1..Len(r) PROVE d.next[r[j]] = IF j = Len(r) THEN NoPage ELSE r[j + 1]
  <2>1. CASE j = 1
    <3>1. d.next[r[1]] = m.list[k]
      BY <1>3
    <3>2. CASE q = <<>>
      BY <1>1, <1>3, <2>1, <3>1, <3>2 DEF Chained
    <3>3. CASE q # <<>>
      <4>1. 1 \in 1..Len(q)
        BY <3>3
      <4> QED
        BY <1>1, <1>3, <2>1, <3>1, <3>3, <4>1 DEF Chained
    <3> QED
      BY <3>2, <3>3
  <2>2. CASE j # 1
    <3>1. j - 1 \in 1..Len(q) /\ r[j] = q[j - 1]
      BY <1>5, <2>2
    <3>2. d.next[r[j]] = m.next[q[j - 1]]
      BY <1>4, <3>1
    <3>3. m.next[q[j - 1]] = IF j - 1 = Len(q) THEN NoPage ELSE q[j]
      BY <1>1, <3>1 DEF Chained
    <3>4. j - 1 # Len(q) => r[j + 1] = q[j]
      BY <1>3, <3>1
    <3> QED
      BY <1>3, <3>2, <3>3, <3>4
  <2> QED
    BY <2>1, <2>2
<1>7. ASSUME NEW j \in 2..Len(r) PROVE d.prev[r[j]] = r[j - 1]
  <2>1. j - 1 \in 1..Len(q) /\ r[j] = q[j - 1] /\ q[j - 1] \in S
    BY <1>3, <1>4, <1>5
  <2>2. q # <<>> /\ m.list[k] = q[1]
    BY <1>1, <2>1 DEF Chained
  <2>3. CASE j = 2
    BY <1>3, <2>1, <2>2, <2>3
  <2>4. CASE j # 2
    <3>1. j - 1 \in 2..Len(q) /\ j - 2 \in 1..Len(q) /\ (j - 2) + 1 = j - 1
      BY <2>1, <2>4
    <3>2. m.prev[q[j - 1]] = q[j - 2]
      <4>1. m.prev[q[j - 1]] = q[(j - 1) - 1]
        BY <1>1, <3>1 DEF Chained
      <4> QED
        BY <4>1
    <3>3. q[j - 1] # q[1]
      BY <1>1, <3>1 DEF IsInjective
    <3>4. r[j - 1] = q[j - 2]
      BY <1>3, <3>1
    <3> QED
      BY <2>1, <2>2, <3>2, <3>3, <3>4
  <2> QED
    BY <2>3, <2>4
<1>8. Chained(d, k, r)
  BY <1>3, <1>6, <1>7 DEF Chained
<1> QED
  BY <1>2, <1>8, Zenon DEF Linked

(* delete_page_item, of an item that is not the head or whose prev is NULL.*)
(* The head that stays has prev NULL then.                                 *)
HeadClear(m, k) == m.list[k] # NoPage => m.prev[m.list[k]] = NoPage

Unlinked(m, d, k, S, i) ==
  /\ k \in Level /\ Linked(m, k, S)
  /\ i \in S /\ (i = m.list[k] => m.prev[i] = NoPage)
  /\ d.list[k] = IF m.prev[i] = NoPage THEN m.next[i] ELSE m.list[k]
  /\ \A p \in S \ {i} :
       /\ d.next[p] = IF p = m.prev[i] THEN m.next[i] ELSE m.next[p]
       /\ d.prev[p] = IF p = m.next[i] THEN m.prev[i] ELSE m.prev[p]

(* Then delete_page_item takes it out, and nothing else.                   *)
LEMMA LinkedDelete ==
  ASSUME NEW m, NEW d, NEW k, NEW S, NEW i, Unlinked(m, d, k, S, i)
  PROVE  /\ Linked(d, k, S \ {i})
         /\ m.prev[i] \in S \cup {NoPage} /\ m.next[i] \in S \cup {NoPage}
         /\ i = m.list[k] => HeadClear(d, k)
         /\ i # m.list[k] => d.list[k] = m.list[k]
<1>0. /\ Linked(m, k, S) /\ i \in S
      /\ d.list[k] = IF m.prev[i] = NoPage THEN m.next[i] ELSE m.list[k]
      /\ i = m.list[k] => m.prev[i] = NoPage
      /\ \A p \in S \ {i} :
           /\ d.next[p] = IF p = m.prev[i] THEN m.next[i] ELSE m.next[p]
           /\ d.prev[p] = IF p = m.next[i] THEN m.prev[i] ELSE m.prev[p]
  BY DEF Unlinked
<1>1. PICK q \in Seq(Page) : IsInjective(q) /\ Range(q) = S /\ Chained(m, k, q)
  BY <1>0 DEF Linked
<1>2. PICK x \in 1..Len(q) : q[x] = i
  BY <1>0, <1>1, ListElement
<1> DEFINE r == RemoveAt(q, x)
           from(j) == IF j < x THEN j ELSE j + 1
<1>3. Len(q) \in Nat /\ x \in 1..Len(q) /\ q # <<>>
  BY <1>2
<1>4. r \in Seq(Page) /\ IsInjective(r) /\ Range(r) = S \ {i}
  BY <1>1, <1>2, TakeOut
<1>5. Len(r) = Len(q) - 1 /\ \A j \in 1..Len(r) : r[j] = q[from(j)] /\ from(j) \in 1..Len(q)
  BY <1>3, RemoveAtElements
<1>6. \A a, b \in 1..Len(q) : q[a] = q[b] => a = b
  BY <1>1 DEF IsInjective
<1>7. \A j \in 1..Len(q) : q[j] \in S /\ q[j] \in Page /\ q[j] # NoPage
  <2>1. \A j \in 1..Len(q) : q[j] \in S /\ q[j] \in Page
    BY <1>1, ListElement
  <2>2. NoPage \notin Page
    BY DEF Page, NoPage
  <2> QED
    BY <2>1, <2>2
<1>8. /\ m.list[k] = q[1]
      /\ m.next[i] = IF x = Len(q) THEN NoPage ELSE q[x + 1]
      /\ m.prev[i] = IF x = 1 THEN NoPage ELSE q[x - 1]
  <2>1. m.list[k] = q[1] /\ m.next[i] = IF x = Len(q) THEN NoPage ELSE q[x + 1]
    BY <1>1, <1>2, <1>3 DEF Chained
  <2>2. CASE x = 1
    BY <1>0, <1>2, <2>1, <2>2
  <2>3. CASE x # 1
    <3>1. x \in 2..Len(q)
      BY <1>3, <2>3
    <3> QED
      BY <1>1, <1>2, <2>1, <2>3, <3>1 DEF Chained
  <2> QED
    BY <2>1, <2>2, <2>3
<1>9. (i = m.list[k] <=> x = 1) /\ (m.prev[i] = NoPage <=> x = 1)
  <2>1. 1 \in 1..Len(q) /\ (x # 1 => x - 1 \in 1..Len(q))
    BY <1>3
  <2> QED
    BY <1>2, <1>3, <1>6, <1>7, <1>8, <2>1
<1> HIDE DEF r
<1>10. \A j \in 1..Len(r) : r[j] \in S \ {i}
  BY <1>4, ListElement
<1>11. d.list[k] = IF r = <<>> THEN NoPage ELSE r[1]
  <2>1. CASE x = 1 /\ Len(q) = 1
    <3>1. r = <<>>
      BY <1>4, <1>5, <2>1
    <3> QED
      BY <1>0, <1>8, <1>9, <2>1, <3>1
  <2>2. CASE x = 1 /\ Len(q) # 1
    <3>1. 1 \in 1..Len(r) /\ r # <<>> /\ r[1] = q[2]
      BY <1>3, <1>5, <2>2
    <3> QED
      BY <1>0, <1>8, <1>9, <2>2, <3>1
  <2>3. CASE x # 1
    <3>1. 1 \in 1..Len(r) /\ r # <<>> /\ r[1] = q[1]
      BY <1>3, <1>5, <2>3
    <3> QED
      BY <1>0, <1>8, <1>9, <2>3, <3>1
  <2> QED
    BY <2>1, <2>2, <2>3
<1>12. ASSUME NEW j \in 1..Len(r) PROVE d.next[r[j]] = IF j = Len(r) THEN NoPage ELSE r[j + 1]
  <2>1. d.next[r[j]] = IF r[j] = m.prev[i] THEN m.next[i] ELSE m.next[r[j]]
    BY <1>0, <1>10
  <2>2. m.next[r[j]] = IF from(j) = Len(q) THEN NoPage ELSE q[from(j) + 1]
    <3>1. \A n \in 1..Len(q) : m.next[q[n]] = IF n = Len(q) THEN NoPage ELSE q[n + 1]
      BY <1>1 DEF Chained
    <3>2. from(j) \in 1..Len(q) /\ r[j] = q[from(j)]
      BY <1>5
    <3> HIDE DEF from
    <3> QED
      BY <3>1, <3>2
  <2>3. j # Len(r) => r[j + 1] = q[from(j + 1)]
    BY <1>3, <1>5
  <2>4. CASE j = x - 1
    <3>1. r[j] = m.prev[i]
      BY <1>3, <1>5, <1>8, <2>4
    <3> QED
      BY <1>3, <1>5, <1>8, <2>1, <2>3, <2>4, <3>1
  <2>5. CASE j # x - 1
    <3>1. r[j] # m.prev[i]
      <4>1. x = 1 => r[j] # m.prev[i]
        BY <1>5, <1>7, <1>8
      <4>2. x # 1 => x - 1 \in 1..Len(q) /\ from(j) # x - 1
        BY <1>3, <2>5
      <4>3. x # 1 => r[j] # m.prev[i]
        BY <1>5, <1>6, <1>8, <4>2
      <4> QED
        BY <4>1, <4>3
    <3> QED
      BY <1>3, <1>5, <2>1, <2>2, <2>3, <2>5, <3>1
  <2> QED
    BY <2>4, <2>5
<1>13. ASSUME NEW j \in 2..Len(r) PROVE d.prev[r[j]] = r[j - 1]
  <2>1. j \in 1..Len(r) /\ j - 1 \in 1..Len(r) /\ from(j) \in 2..Len(q)
    BY <1>3, <1>5
  <2>2. d.prev[r[j]] = IF r[j] = m.next[i] THEN m.prev[i] ELSE m.prev[r[j]]
    BY <1>0, <1>10, <2>1
  <2>3. m.prev[r[j]] = q[from(j) - 1]
    BY <1>1, <1>5, <2>1 DEF Chained
  <2>4. r[j - 1] = q[from(j - 1)]
    BY <1>5, <2>1
  <2>5. CASE j = x
    <3>1. r[j] = m.next[i]
      BY <1>3, <1>5, <1>8, <2>1, <2>5
    <3> QED
      BY <1>3, <1>8, <2>1, <2>2, <2>4, <2>5, <3>1
  <2>6. CASE j # x
    <3>1. r[j] # m.next[i]
      <4>1. x = Len(q) => r[j] # m.next[i]
        BY <1>5, <1>7, <1>8, <2>1
      <4>2. x # Len(q) => x + 1 \in 1..Len(q) /\ from(j) # x + 1
        BY <1>3, <2>6
      <4>3. x # Len(q) => r[j] # m.next[i]
        BY <1>5, <1>6, <1>8, <2>1, <4>2
      <4> QED
        BY <4>1, <4>3
    <3>2. from(j) - 1 = from(j - 1)
      BY <1>3, <2>1, <2>6
    <3> QED
      BY <2>2, <2>3, <2>4, <3>1, <3>2
  <2> QED
    BY <2>5, <2>6
<1>14. Chained(d, k, r)
  BY <1>11, <1>12, <1>13 DEF Chained
<1>15. m.prev[i] \in S \cup {NoPage} /\ m.next[i] \in S \cup {NoPage}
  BY <1>3, <1>7, <1>8
<1>16. ASSUME i = m.list[k], d.list[k] # NoPage PROVE d.prev[d.list[k]] = NoPage
  <2>1. r # <<>> /\ d.list[k] = r[1]
    BY <1>11, <1>16
  <2>2. 1 \in 1..Len(r) /\ x = 1
    BY <1>4, <1>9, <1>16, <2>1
  <2>3. r[1] = m.next[i]
    BY <1>3, <1>5, <1>8, <2>2
  <2> QED
    BY <1>0, <1>8, <1>10, <2>1, <2>2, <2>3
<1>17. Linked(d, k, S \ {i})
  BY <1>4, <1>14, Zenon DEF Linked
<1>18. i # m.list[k] => d.list[k] = m.list[k]
  BY <1>0, <1>8, <1>9
<1> QED
  BY <1>15, <1>16, <1>17, <1>18 DEF HeadClear

(* The head leaves the list as page_allocate and page_divide do it.        *)
LEMMA LinkedPop ==
  ASSUME NEW m, NEW d, NEW k \in Level, NEW S, Linked(m, k, S), m.list[k] # NoPage,
         d.list[k] = m.next[m.list[k]],
         \A p \in S \ {m.list[k]} : d.next[p] = m.next[p] /\ d.prev[p] = m.prev[p]
  PROVE  Linked(d, k, S \ {m.list[k]}) /\ m.next[m.list[k]] \in S \cup {NoPage}
<1>1. PICK q \in Seq(Page) : IsInjective(q) /\ Range(q) = S /\ Chained(m, k, q)
  BY DEF Linked
<1> DEFINE r == RemoveAt(q, 1)
<1>2. q # <<>> /\ Len(q) \in Nat /\ 1 \in 1..Len(q) /\ q[1] = m.list[k]
  BY <1>1 DEF Chained
<1>3. r \in Seq(Page) /\ IsInjective(r) /\ Range(r) = S \ {m.list[k]}
  BY <1>1, <1>2, TakeOut
<1>4. Len(r) = Len(q) - 1 /\ \A j \in 1..Len(r) : r[j] = q[j + 1]
  BY <1>2, RemoveAtElements
<1> HIDE DEF r
<1>5. \A j \in 1..Len(r) : r[j] \in S \ {m.list[k]}
  BY <1>3, ListElement
<1>6. m.next[m.list[k]] = IF Len(q) = 1 THEN NoPage ELSE q[2]
  <2>1. m.next[q[1]] = IF 1 = Len(q) THEN NoPage ELSE q[1 + 1]
    BY <1>1, <1>2 DEF Chained
  <2> QED
    BY <1>2, <2>1
<1>7. d.list[k] = IF r = <<>> THEN NoPage ELSE r[1]
  <2>1. r = <<>> <=> Len(q) = 1
    BY <1>2, <1>3, <1>4
  <2>2. r # <<>> => 1 \in 1..Len(r)
    BY <1>3
  <2> QED
    BY <1>4, <1>6, <2>1, <2>2
<1>8. ASSUME NEW j \in 1..Len(r) PROVE d.next[r[j]] = IF j = Len(r) THEN NoPage ELSE r[j + 1]
  <2>1. d.next[r[j]] = m.next[q[j + 1]] /\ j + 1 \in 1..Len(q)
    BY <1>2, <1>4, <1>5
  <2>2. m.next[q[j + 1]] = IF j + 1 = Len(q) THEN NoPage ELSE q[j + 1 + 1]
    BY <1>1, <2>1 DEF Chained
  <2>3. j # Len(r) => r[j + 1] = q[j + 1 + 1]
    BY <1>2, <1>4
  <2> QED
    BY <1>2, <1>4, <2>1, <2>2, <2>3
<1>9. ASSUME NEW j \in 2..Len(r) PROVE d.prev[r[j]] = r[j - 1]
  <2>1. j \in 1..Len(r) /\ j - 1 \in 1..Len(r) /\ j + 1 \in 2..Len(q)
    BY <1>2, <1>4
  <2>2. d.prev[r[j]] = m.prev[q[j + 1]]
    BY <1>4, <1>5, <2>1
  <2>3. m.prev[q[j + 1]] = q[j + 1 - 1]
    BY <1>1, <2>1 DEF Chained
  <2>4. r[j - 1] = q[j - 1 + 1]
    BY <1>4, <2>1
  <2> QED
    BY <1>2, <2>1, <2>2, <2>3, <2>4
<1>10. Chained(d, k, r)
  BY <1>7, <1>8, <1>9 DEF Chained
<1>11. m.next[m.list[k]] \in S \cup {NoPage}
  <2>1. Len(q) \in Nat /\ Len(q) # 0
    BY <1>2
  <2>2. Len(q) # 1 => 2 \in 1..Len(q)
    <3>1. \A n \in Nat : n # 0 /\ n # 1 => 2 \in 1..n
      OBVIOUS
    <3> QED
      BY <2>1, <3>1
  <2> QED
    BY <1>1, <1>6, <2>2, ListElement
<1> QED
  BY <1>3, <1>10, <1>11, Zenon DEF Linked

-----------------------------------------------------------------------------
(* The lists of all levels: the list of level k has the pages G[k].        *)
Lists(m, G) ==
  /\ G \in [Level -> SUBSET Page]
  /\ \A j, k \in Level : j # k => G[j] \cap G[k] = {}
  /\ \A k \in Level : Linked(m, k, G[k])

(* The free blocks in L, by their order.                                   *)
FreeIn(m, L) == [k \in Level |-> {i \in L : m.order[i] = k /\ m.status[i] = 0}]

(* The fields of the memory, and of a memory that is built from it.        *)
LEMMA MemoryFields ==
  ASSUME NEW m \in Memory
  PROVE  /\ m.order \in [0..Entries -> Int]
         /\ m.status \in [0..Entries -> {0, 1}]
         /\ m.list \in [Level -> Page \cup {NoPage}]
         /\ m.next \in [Page -> Page \cup {NoPage, Junk}]
         /\ m.prev \in [Page -> Page \cup {NoPage, Junk}]
         /\ m = [order |-> m.order, status |-> m.status, list |-> m.list,
                 next |-> m.next, prev |-> m.prev]
         /\ \A p \in Page : p \in 0..Entries /\ p \in Nat
         /\ Entries \in 0..Entries /\ Entries \notin Page /\ Entries \in Nat \ {0}
         /\ NoPage \notin Page /\ Junk \notin Page
BY Sizes DEF Memory, NoPage, Junk

(* The lists of the memory may be replaced.                                *)
LEMMA ListFields ==
  ASSUME NEW m \in Memory,
         NEW l \in [Level -> Page \cup {NoPage}],
         NEW n \in [Page -> Page \cup {NoPage, Junk}],
         NEW p \in [Page -> Page \cup {NoPage, Junk}]
  PROVE  [m EXCEPT !.list = l, !.next = n, !.prev = p] \in Memory
BY DEF Memory

(* The orders and states are no part of the lists.                         *)
LEMMA ListsKept ==
  ASSUME NEW m, NEW d, NEW G, Lists(m, G), d.list = m.list, d.next = m.next, d.prev = m.prev
  PROVE  Lists(d, G)
BY DEF Lists, Linked, Chained

(* add_page_item(i): i becomes the head of its list.                       *)
LEMMA AddLists ==
  ASSUME NEW m \in Memory, NEW G, Lists(m, G), NEW i \in Page, NEW k \in Level, k = m.order[i],
         \A j \in Level : i \notin G[j]
  PROVE  LET d == AddItem(m, i) IN
         /\ d \in Memory
         /\ d.order = m.order /\ d.status = m.status
         /\ Lists(d, [G EXCEPT ![k] = G[k] \cup {i}])
         /\ d.list[k] = i /\ d.prev[i] = NoPage
<1> DEFINE d == AddItem(m, i)
           H == [G EXCEPT ![k] = G[k] \cup {i}]
<1>1. /\ m.list \in [Level -> Page \cup {NoPage}]
      /\ m.next \in [Page -> Page \cup {NoPage, Junk}]
      /\ m.prev \in [Page -> Page \cup {NoPage, Junk}]
      /\ NoPage \notin Page
  BY MemoryFields
<1>2. /\ d.order = m.order /\ d.status = m.status
      /\ d.list = [m.list EXCEPT ![k] = i]
      /\ d.next = [m.next EXCEPT ![i] = m.list[k]]
      /\ d.prev = [p \in Page |-> IF p = i THEN NoPage ELSE IF p = m.list[k] THEN i ELSE m.prev[p]]
      /\ d = [m EXCEPT !.list = d.list, !.next = d.next, !.prev = d.prev]
  BY DEF AddItem, Memory
<1> HIDE DEF d
<1>3. d \in Memory
  <2>2. d.list \in [Level -> Page \cup {NoPage}]
    BY <1>1, <1>2
  <2>3. d.next \in [Page -> Page \cup {NoPage, Junk}]
    BY <1>1, <1>2
  <2>4. d.prev \in [Page -> Page \cup {NoPage, Junk}]
    BY <1>1, <1>2
  <2>6. [m EXCEPT !.list = d.list, !.next = d.next, !.prev = d.prev] \in Memory
    BY <2>2, <2>3, <2>4, ListFields
  <2> QED
    BY <1>2, <2>6
<1>4. /\ d.list[k] = i /\ \A j \in Level \ {k} : d.list[j] = m.list[j]
      /\ d.next[i] = m.list[k] /\ d.prev[i] = NoPage
      /\ \A p \in Page \ {i} :
           d.next[p] = m.next[p] /\ d.prev[p] = IF p = m.list[k] THEN i ELSE m.prev[p]
  BY <1>1, <1>2
<1>5. /\ G \in [Level -> SUBSET Page]
      /\ \A a, b \in Level : a # b => G[a] \cap G[b] = {}
      /\ \A j \in Level : Linked(m, j, G[j])
  BY DEF Lists
<1>6. H \in [Level -> SUBSET Page] /\ H[k] = G[k] \cup {i} /\ \A j \in Level \ {k} : H[j] = G[j]
  BY <1>5
<1> HIDE DEF H
<1>7. \A a, b \in Level : a # b => H[a] \cap H[b] = {}
  <2> SUFFICES ASSUME NEW a \in Level, NEW b \in Level, a # b, NEW p, p \in H[a], p \in H[b]
               PROVE  FALSE
    OBVIOUS
  <2>1. CASE p = i
    BY <1>6, <2>1
  <2>2. CASE p # i
    BY <1>5, <1>6, <2>2
  <2> QED
    BY <2>1, <2>2
<1>8. Linked(d, k, H[k])
  <2>1. Linked(m, k, G[k]) /\ i \notin G[k] /\ G[k] \subseteq Page
    BY <1>5
  <2>2. \A p \in G[k] :
          d.next[p] = m.next[p] /\ d.prev[p] = IF p = m.list[k] THEN i ELSE m.prev[p]
    BY <1>4, <2>1
  <2> QED
    BY <1>4, <1>6, <2>1, <2>2, LinkedAdd
<1>9. ASSUME NEW j \in Level, j # k PROVE Linked(d, j, H[j])
  <2>1. Linked(m, j, G[j]) /\ i \notin G[j] /\ G[j] \subseteq Page /\ H[j] = G[j]
    BY <1>5, <1>6, <1>9
  <2>2. m.list[k] \notin G[j]
    <3>1. m.list[k] \in G[k] \cup {NoPage}
      BY <1>5, LinkedHead
    <3> QED
      BY <1>1, <1>5, <1>9, <2>1, <3>1
  <2>3. \A p \in G[j] : d.next[p] = m.next[p] /\ d.prev[p] = m.prev[p]
    BY <1>4, <2>1, <2>2
  <2> QED
    BY <1>4, <1>9, <2>1, <2>3, LinkedUnchanged
<1>10. Lists(d, H)
  BY <1>6, <1>7, <1>8, <1>9 DEF Lists
<1> QED
  BY <1>2, <1>3, <1>4, <1>10 DEF d, H

(* delete_page_item(i), if i is not a head with a stale prev.              *)
LEMMA DeleteLists ==
  ASSUME NEW m \in Memory, NEW G, Lists(m, G), NEW k \in Level, NEW i \in G[k], k = m.order[i],
         i = m.list[k] => m.prev[i] = NoPage
  PROVE  LET d == DeleteItem(m, i) IN
         /\ d \in Memory
         /\ d.order = m.order /\ d.status = m.status
         /\ Lists(d, [G EXCEPT ![k] = G[k] \ {i}])
         /\ i = m.list[k] => HeadClear(d, k)
<1> DEFINE d == DeleteItem(m, i)
           H == [G EXCEPT ![k] = G[k] \ {i}]
<1>1. /\ m.list \in [Level -> Page \cup {NoPage}]
      /\ m.next \in [Page -> Page \cup {NoPage, Junk}]
      /\ m.prev \in [Page -> Page \cup {NoPage, Junk}]
      /\ NoPage \notin Page
  BY MemoryFields
<1>2. /\ d.order = m.order /\ d.status = m.status
      /\ d.list = IF m.prev[i] = NoPage THEN [m.list EXCEPT ![k] = m.next[i]] ELSE m.list
      /\ d.next = [q \in Page |-> IF q = i THEN Junk
                                  ELSE IF q = m.prev[i] THEN m.next[i] ELSE m.next[q]]
      /\ d.prev = [q \in Page |-> IF q = i THEN Junk
                                  ELSE IF q = m.next[i] THEN m.prev[i] ELSE m.prev[q]]
      /\ d = [m EXCEPT !.list = d.list, !.next = d.next, !.prev = d.prev]
  BY DEF DeleteItem, Memory
<1> HIDE DEF d
<1>5. /\ G \in [Level -> SUBSET Page]
      /\ \A a, b \in Level : a # b => G[a] \cap G[b] = {}
      /\ \A j \in Level : Linked(m, j, G[j])
      /\ i \in Page
  BY DEF Lists
<1>6. H \in [Level -> SUBSET Page] /\ H[k] = G[k] \ {i} /\ \A j \in Level \ {k} : H[j] = G[j]
  BY <1>5
<1> HIDE DEF H
<1>7. \A a, b \in Level : a # b => H[a] \cap H[b] = {}
  BY <1>5, <1>6
<1>4. /\ d.list[k] = IF m.prev[i] = NoPage THEN m.next[i] ELSE m.list[k]
      /\ \A j \in Level \ {k} : d.list[j] = m.list[j]
      /\ \A p \in Page \ {i} :
           /\ d.next[p] = IF p = m.prev[i] THEN m.next[i] ELSE m.next[p]
           /\ d.prev[p] = IF p = m.next[i] THEN m.prev[i] ELSE m.prev[p]
  BY <1>1, <1>2
<1>8. /\ Linked(d, k, H[k])
      /\ m.prev[i] \in G[k] \cup {NoPage} /\ m.next[i] \in G[k] \cup {NoPage}
      /\ i = m.list[k] => HeadClear(d, k)
  <2>1. Linked(m, k, G[k]) /\ G[k] \subseteq Page
    BY <1>5
  <2>2. \A p \in G[k] \ {i} :
           /\ d.next[p] = IF p = m.prev[i] THEN m.next[i] ELSE m.next[p]
           /\ d.prev[p] = IF p = m.next[i] THEN m.prev[i] ELSE m.prev[p]
    BY <1>4, <2>1
  <2>3. Unlinked(m, d, k, G[k], i)
    BY <1>4, <2>1, <2>2 DEF Unlinked
  <2>4. /\ Linked(d, k, G[k] \ {i})
        /\ m.prev[i] \in G[k] \cup {NoPage} /\ m.next[i] \in G[k] \cup {NoPage}
        /\ i = m.list[k] => HeadClear(d, k)
    BY <2>3, LinkedDelete
  <2> QED
    BY <1>6, <2>4
<1>3. d \in Memory
  <2>2. m.next[i] \in Page \cup {NoPage} /\ m.prev[i] \in Page \cup {NoPage}
    BY <1>5, <1>8
  <2>3. d.list \in [Level -> Page \cup {NoPage}]
    BY <1>1, <1>2, <2>2
  <2>4. d.next \in [Page -> Page \cup {NoPage, Junk}]
    BY <1>1, <1>2, <2>2
  <2>5. d.prev \in [Page -> Page \cup {NoPage, Junk}]
    BY <1>1, <1>2, <2>2
  <2>6. [m EXCEPT !.list = d.list, !.next = d.next, !.prev = d.prev] \in Memory
    BY <2>3, <2>4, <2>5, ListFields
  <2> QED
    BY <1>2, <2>6
<1>9. ASSUME NEW j \in Level, j # k PROVE Linked(d, j, H[j])
  <2>1. Linked(m, j, G[j]) /\ i \notin G[j] /\ G[j] \subseteq Page /\ H[j] = G[j]
    BY <1>5, <1>6, <1>9
  <2>2. \A p \in G[j] : p \in Page \ {i} /\ p # m.prev[i] /\ p # m.next[i]
    BY <1>1, <1>5, <1>8, <1>9, <2>1
  <2>3. \A p \in G[j] : d.next[p] = m.next[p] /\ d.prev[p] = m.prev[p]
    BY <1>4, <2>2
  <2> QED
    BY <1>4, <1>9, <2>1, <2>3, LinkedUnchanged
<1>10. Lists(d, H)
  BY <1>6, <1>7, <1>8, <1>9 DEF Lists
<1> QED
  BY <1>2, <1>3, <1>8, <1>10 DEF d, H

(* The head of list k is taken out.                                        *)
LEMMA PopLists ==
  ASSUME NEW m \in Memory, NEW G, Lists(m, G), NEW k \in Level, m.list[k] # NoPage
  PROVE  LET d == PopItem(m, k) IN
         /\ d \in Memory
         /\ d.order = m.order /\ d.status = m.status
         /\ Lists(d, [G EXCEPT ![k] = G[k] \ {m.list[k]}])
         /\ m.list[k] \in G[k]
<1> DEFINE d == PopItem(m, k)
           i == m.list[k]
           H == [G EXCEPT ![k] = G[k] \ {m.list[k]}]
<1>1. /\ m.list \in [Level -> Page \cup {NoPage}]
      /\ m.next \in [Page -> Page \cup {NoPage, Junk}]
      /\ m.prev \in [Page -> Page \cup {NoPage, Junk}]
      /\ NoPage \notin Page
  BY MemoryFields
<1>2. /\ d.order = m.order /\ d.status = m.status
      /\ d.list = [m.list EXCEPT ![k] = m.next[i]]
      /\ d.next = [m.next EXCEPT ![i] = Junk]
      /\ d.prev = [m.prev EXCEPT ![i] = Junk]
      /\ d = [m EXCEPT !.list = d.list, !.next = d.next, !.prev = d.prev]
  BY DEF PopItem, Memory
<1> HIDE DEF d
<1>3. /\ G \in [Level -> SUBSET Page]
      /\ \A a, b \in Level : a # b => G[a] \cap G[b] = {}
      /\ \A j \in Level : Linked(m, j, G[j])
  BY DEF Lists
<1>4. H \in [Level -> SUBSET Page] /\ H[k] = G[k] \ {i} /\ \A j \in Level \ {k} : H[j] = G[j]
  BY <1>3
<1> HIDE DEF H
<1>5. \A a, b \in Level : a # b => H[a] \cap H[b] = {}
  BY <1>3, <1>4
<1>6. i \in G[k] /\ i \in Page
  BY <1>3, LinkedHead
<1>7. /\ d.list[k] = m.next[i]
      /\ \A j \in Level \ {k} : d.list[j] = m.list[j]
      /\ \A p \in Page \ {i} : d.next[p] = m.next[p] /\ d.prev[p] = m.prev[p]
  BY <1>1, <1>2, <1>6
<1>8. Linked(d, k, H[k]) /\ m.next[i] \in G[k] \cup {NoPage}
  <2>1. Linked(m, k, G[k]) /\ G[k] \subseteq Page
    BY <1>3
  <2>2. \A p \in G[k] \ {m.list[k]} : d.next[p] = m.next[p] /\ d.prev[p] = m.prev[p]
    BY <1>7, <2>1
  <2> QED
    BY <1>4, <1>7, <2>1, <2>2, LinkedPop
<1>9. d \in Memory
  <2>2. m.next[i] \in Page \cup {NoPage}
    BY <1>3, <1>8
  <2>3. d.list \in [Level -> Page \cup {NoPage}]
    BY <1>1, <1>2, <2>2
  <2>4. d.next \in [Page -> Page \cup {NoPage, Junk}]
    BY <1>1, <1>2
  <2>5. d.prev \in [Page -> Page \cup {NoPage, Junk}]
    BY <1>1, <1>2
  <2>6. [m EXCEPT !.list = d.list, !.next = d.next, !.prev = d.prev] \in Memory
    BY <2>3, <2>4, <2>5, ListFields
  <2> QED
    BY <1>2, <2>6
<1>10. ASSUME NEW j \in Level, j # k PROVE Linked(d, j, H[j])
  <2>1. Linked(m, j, G[j]) /\ i \notin G[j] /\ G[j] \subseteq Page /\ H[j] = G[j]
    BY <1>3, <1>4, <1>6, <1>10
  <2>2. \A p \in G[j] : d.next[p] = m.next[p] /\ d.prev[p] = m.prev[p]
    BY <1>7, <2>1
  <2> QED
    BY <1>7, <1>10, <2>1, <2>2, LinkedUnchanged
<1>11. Lists(d, H)
  BY <1>4, <1>5, <1>8, <1>10 DEF Lists
<1> QED
  BY <1>2, <1>6, <1>9, <1>11 DEF d, H

-----------------------------------------------------------------------------
(* The blocks that callers hold are as they got them.                      *)
Kept(o, s, hd) == \A j \in DOMAIN hd : j \in HeadsOf(o) /\ o[j] = hd[j] /\ s[j] = 1

(* The memory once page_init is done: only blocks in X can be merged.      *)
Good(m, hd, X, R) ==
  /\ m \in Memory /\ m.order[Entries] \in GuardOrders
  /\ Tiling(m.order, m.status, DOMAIN hd, Entries)
  /\ Whole(m.order, m.status, DOMAIN hd, R)
  /\ Settled(m.order, m.status, X)
  /\ Kept(m.order, m.status, hd)
  /\ Lists(m, FreeIn(m, Page))

(* The orders of the memory may be replaced.                               *)
LEMMA OrderField ==
  ASSUME NEW m \in Memory, NEW h \in [0..Entries -> Int]
  PROVE  LET d == [m EXCEPT !.order = h] IN
         /\ d \in Memory /\ d.order = h
         /\ d.status = m.status /\ d.list = m.list /\ d.next = m.next /\ d.prev = m.prev
BY DEF Memory

(* A free block is in the list of its order, and no other.                 *)
LEMMA FreeInFacts ==
  ASSUME NEW m, NEW L \in SUBSET Page
  PROVE  /\ FreeIn(m, L) \in [Level -> SUBSET Page]
         /\ \A k \in Level : \A i : i \in FreeIn(m, L)[k] <=> i \in L /\ m.order[i] = k /\ m.status[i] = 0
BY DEF FreeIn

(* The lists are known from their members.                                 *)
LEMMA SameFreeIn ==
  ASSUME NEW m, NEW L \in SUBSET Page, NEW H \in [Level -> SUBSET Page],
         \A k \in Level : \A i \in Page : i \in H[k] <=> i \in L /\ m.order[i] = k /\ m.status[i] = 0
  PROVE  FreeIn(m, L) = H
<1>1. ASSUME NEW k \in Level PROVE FreeIn(m, L)[k] = H[k]
  <2>1. FreeIn(m, L)[k] \subseteq Page /\ H[k] \subseteq Page
    BY FreeInFacts
  <2>2. \A i \in Page : i \in FreeIn(m, L)[k] <=> i \in H[k]
    BY FreeInFacts
  <2> QED
    BY <2>1, <2>2
<1> QED
  BY <1>1, FreeInFacts

(* The block at is free, first in its list, and may have to be merged.     *)
Merging(m, at, hd, R) ==
  /\ Good(m, hd, {at}, R)
  /\ at \in HeadsOf(m.order) /\ m.status[at] = 0
  /\ m.list[m.order[at]] = at /\ m.prev[at] = NoPage

(* A call of merge that merges: the joined block is free, first in its     *)
(* list, and may merge further.                                            *)
LEMMA MergeStep ==
  ASSUME NEW m, NEW at, NEW hd, NEW R, Merging(m, at, hd, R),
         CanMerge(m, at), Buddy(at, m.order[at]) \in Page
  PROVE  LET e == MergeOnce([m |-> m, at |-> at]) IN
         Merging(e.m, e.at, hd, R) /\ e.m.order[e.at] = m.order[at] + 1
<1> DEFINE k == m.order[at]
           b == Buddy(at, k)
           o == m.order
           s == m.status
           A == DOMAIN hd
           G == FreeIn(m, Page)
<1>1. /\ m \in Memory /\ o[Entries] \in GuardOrders /\ Tiling(o, s, A, Entries) /\ Whole(o, s, A, R)
      /\ Settled(o, s, {at}) /\ Kept(o, s, hd) /\ Lists(m, G)
      /\ at \in HeadsOf(o) /\ s[at] = 0 /\ m.list[k] = at /\ m.prev[at] = NoPage
  BY DEF Merging, Good
<1>0. Entries \in 0..Entries /\ Entries \notin Page /\ \A p \in Page : p \in 0..Entries /\ p \in Nat
  BY <1>1, MemoryFields
<1>2. at \in Nat /\ at \in Page /\ k \in Level /\ k \in Nat /\ at % Pow2(k) = 0 /\ Pow2(k) \in Nat \ {0}
  BY <1>0, <1>1, HeadFacts
<1>3. b \in Page /\ o[b] = k /\ s[b] = 0 /\ k # MaxOrder /\ b \in HeadsOf(o)
  <2>1. b \in Page /\ o[b] = k /\ s[b] = 0 /\ k # MaxOrder
    BY DEF CanMerge
  <2> QED
    BY <1>2, <2>1 DEF HeadsOf
<1> DEFINE low == IF b < at THEN b ELSE at
           high == IF b < at THEN at ELSE b
<1>4. /\ (low = at /\ high = b) \/ (low = b /\ high = at)
      /\ at # b /\ high = low + Pow2(k) /\ low % (2 * Pow2(k)) = 0
  <2>1. CASE at % (2 * Pow2(k)) = 0
    <3>1. b = at + Pow2(k)
      BY <1>2, <2>1, BuddyFacts
    <3> HIDE DEF k, b
    <3> QED
      BY <1>2, <2>1, <3>1
  <2>2. CASE at % (2 * Pow2(k)) # 0
    <3>1. b = at - Pow2(k) /\ b % (2 * Pow2(k)) = 0
      BY <1>2, <2>2, BuddyFacts
    <3> HIDE DEF k, b
    <3> QED
      BY <1>2, <2>2, <3>1
  <2> QED
    BY <2>1, <2>2
<1> HIDE DEF low, high, b
<1>5. low \in HeadsOf(o) /\ high \in HeadsOf(o) /\ low \in Page /\ high \in Page /\ low # high
      /\ o[low] = k /\ o[high] = k /\ s[low] = 0 /\ s[high] = 0 /\ {at, b} = {low, high}
  BY <1>1, <1>2, <1>3, <1>4
<1> DEFINE h == [o EXCEPT ![high] = FREE, ![low] = o[low] + 1]
<1>6. Joined(o, s, A, Entries, low, high, h)
  BY <1>0, <1>1, <1>3, <1>4, <1>5 DEF Joined
<1>7. /\ Tiling(h, s, A, Entries) /\ HeadsOf(h) = HeadsOf(o) \ {high}
      /\ h[low] = k + 1 /\ h[high] = FREE /\ k + 1 \in Level
      /\ \A p \in 0..Entries : p # low /\ p # high => h[p] = o[p]
  <2> HIDE DEF h
  <2>1. /\ Tiling(h, s, A, Entries) /\ HeadsOf(h) = HeadsOf(o) \ {high}
        /\ h[low] = o[low] + 1 /\ h[high] = FREE /\ h[low] \in Level
        /\ \A p \in 0..Entries : p # low /\ p # high => h[p] = o[p]
    BY <1>6, Joining
  <2> QED
    BY <1>5, <2>1
<1> HIDE DEF h
<1>8. Whole(h, s, A, R)
  BY <1>1, <1>6, WholeJoining
<1>9. Settled(h, s, {low})
  <2>1. {at} \subseteq {low, high}
    BY <1>5
  <2> QED
    BY <1>1, <1>6, <2>1, SettledJoining
<1>10. Kept(h, s, hd)
  <2>1. \A j \in A : j \in Page /\ j # low /\ j # high
    BY <1>1, <1>5 DEF Kept, HeadsOf
  <2> QED
    BY <1>0, <1>1, <1>7, <2>1 DEF Kept
<1> DEFINE d1 == DeleteItem(m, at)
           G1 == [G EXCEPT ![k] = G[k] \ {at}]
<1>11. /\ G \in [Level -> SUBSET Page]
       /\ \A j \in Level : \A i : i \in G[j] <=> i \in Page /\ o[i] = j /\ s[i] = 0
  BY FreeInFacts
<1> HIDE DEF G
<1>12. at \in G[k] /\ b \in G[k]
  BY <1>1, <1>2, <1>3, <1>11
<1>13. d1 \in Memory /\ d1.order = o /\ d1.status = s /\ Lists(d1, G1) /\ HeadClear(d1, k)
  BY <1>1, <1>2, <1>12, DeleteLists
<1>14. G1 \in [Level -> SUBSET Page] /\ G1[k] = G[k] \ {at} /\ \A j \in Level \ {k} : G1[j] = G[j]
  BY <1>2, <1>11
<1> HIDE DEF d1, G1
<1> DEFINE d2 == DeleteItem(d1, b)
           G2 == [G1 EXCEPT ![k] = G1[k] \ {b}]
<1>15. d2 \in Memory /\ d2.order = o /\ d2.status = s /\ Lists(d2, G2)
  <2>1. b \in G1[k] /\ k = d1.order[b] /\ (b = d1.list[k] => d1.prev[b] = NoPage)
    <3>1. NoPage \notin Page
      BY <1>1, MemoryFields
    <3> QED
      BY <1>3, <1>4, <1>12, <1>13, <1>14, <3>1 DEF HeadClear
  <2> QED
    BY <1>2, <1>13, <2>1, DeleteLists
<1>16. G2 \in [Level -> SUBSET Page] /\ G2[k] = G[k] \ {at, b} /\ \A j \in Level \ {k} : G2[j] = G[j]
  BY <1>2, <1>14
<1> HIDE DEF d2, G2
<1> DEFINE d3 == [d2 EXCEPT !.order = h]
<1>17. h \in [0..Entries -> Int]
  BY <1>7 DEF Tiling, Table
<1>18. d3 \in Memory /\ d3.order = h /\ d3.status = s /\ Lists(d3, G2)
  <2>1. /\ d3 \in Memory /\ d3.order = h /\ d3.status = d2.status
        /\ d3.list = d2.list /\ d3.next = d2.next /\ d3.prev = d2.prev
    BY <1>15, <1>17, OrderField
  <2> HIDE DEF d3
  <2> QED
    BY <1>15, <2>1, ListsKept
<1> DEFINE d4 == AddItem(d3, low)
           G4 == [G2 EXCEPT ![k + 1] = G2[k + 1] \cup {low}]
<1>19. \A j \in Level : low \notin G2[j]
  BY <1>2, <1>5, <1>11, <1>16
<1>20. /\ d4 \in Memory /\ d4.order = h /\ d4.status = s /\ Lists(d4, G4)
       /\ d4.list[k + 1] = low /\ d4.prev[low] = NoPage
  <2> HIDE DEF d3
  <2>1. k + 1 = d3.order[low]
    BY <1>7, <1>18
  <2> QED
    BY <1>5, <1>7, <1>18, <1>19, <2>1, AddLists
<1> HIDE DEF d4
<1>21. FreeIn(d4, Page) = G4
  <2>1. G4 \in [Level -> SUBSET Page] /\ G4[k + 1] = G[k + 1] \cup {low} /\ G4[k] = G[k] \ {at, b}
        /\ \A j \in Level : j # k /\ j # k + 1 => G4[j] = G[j]
    BY <1>2, <1>5, <1>7, <1>16
  <2> HIDE DEF G4
  <2>2. ASSUME NEW j \in Level, NEW i \in Page
        PROVE  i \in G4[j] <=> i \in Page /\ h[i] = j /\ s[i] = 0
    <3>1. CASE i = low
      BY <1>2, <1>5, <1>7, <1>11, <2>1, <3>1
    <3>2. CASE i = high
      <4>1. h[i] # j
        <5>1. j \in Nat
          BY Sizes
        <5> QED
          BY <1>7, <3>2, <5>1 DEF FREE
      <4>2. i \in {at, b} /\ i # low /\ (i \in G[j] => j = k) /\ k # k + 1
        BY <1>2, <1>5, <1>11, <3>2
      <4>3. i \notin G4[j]
        BY <1>7, <1>11, <1>5, <2>1, <3>2, <4>2
      <4> QED
        BY <4>1, <4>3
    <3>3. CASE i # low /\ i # high
      <4>1. h[i] = o[i] /\ i # at /\ i # b
        BY <1>0, <1>5, <1>7, <3>3
      <4> QED
        BY <1>11, <2>1, <3>3, <4>1
    <3> QED
      BY <3>1, <3>2, <3>3
  <2> QED
    BY <1>20, <2>1, <2>2, SameFreeIn
<1> HIDE DEF G4
<1>22. h[Entries] \in GuardOrders
  BY <1>0, <1>1, <1>5, <1>7
<1>23. Merging(d4, low, hd, R)
  <2>1. Good(d4, hd, {low}, R)
    BY <1>7, <1>8, <1>9, <1>10, <1>20, <1>21, <1>22 DEF Good
  <2> QED
    BY <1>5, <1>7, <1>20, <2>1 DEF Merging
<1>24. MergeOnce([m |-> m, at |-> at]) = [m |-> d4, at |-> low]
  <2>1. d3 = [d2 EXCEPT !.order = [@ EXCEPT ![high] = FREE, ![low] = d2.order[low] + 1]]
    BY <1>15 DEF h
  <2>2. CanMerge(m, at) /\ b \in Page
    BY <1>3
  <2> QED
    BY <2>1, <2>2 DEF MergeOnce, b, low, high, d1, d2, d4
<1> QED
  BY <1>7, <1>20, <1>23, <1>24

(* Nothing merges any more.                                                *)
Stuck(m, at) == ~CanMerge(m, at) \/ Buddy(at, m.order[at]) \notin Page

(* merge ends after at most MaxOrder calls.                                *)
LEMMA MergeEnds ==
  ASSUME NEW m, NEW at, NEW hd, NEW R, Merging(m, at, hd, R)
  PROVE  LET e == Merge(m, at) IN Merging(e.m, e.at, hd, R) /\ Stuck(e.m, e.at)
<1> DEFINE P(s, n) == /\ Merging(s.m, s.at, hd, R)
                      /\ Stuck(s.m, s.at) \/ s.m.order[s.at] >= n
           All == [m : Memory, at : Page]
           S == [n \in 0..MaxOrder |-> {s \in All : P(s, n)}]
           F == [n \in 1..MaxOrder |-> [s \in All |-> MergeOnce(s)]]
           x == [m |-> m, at |-> at]
<1>1. MaxOrder \in Nat
  BY Sizes
<1>2. ASSUME NEW d, NEW i, Merging(d, i, hd, R)
      PROVE  d \in Memory /\ i \in Page /\ d.order[i] \in Level /\ d.order[i] \in Nat
  <2>1. d \in Memory /\ i \in HeadsOf(d.order) /\ Tiling(d.order, d.status, DOMAIN hd, Entries)
    BY <1>2 DEF Merging, Good
  <2>2. Entries \in 0..Entries
    BY Sizes
  <2> QED
    BY <2>1, <2>2, HeadFacts
<1>3. x \in S[0]
  <2>1. m \in Memory /\ at \in Page /\ m.order[at] \in Nat
    BY <1>2
  <2> QED
    BY <1>1, <2>1
<1>4. StepsWithin(MaxOrder, S, F)
  <2> SUFFICES ASSUME NEW n \in 1..MaxOrder, NEW s \in S[n - 1] PROVE F[n][s] \in S[n]
    BY DEF StepsWithin
  <2>1. n - 1 \in 0..MaxOrder /\ n \in 0..MaxOrder /\ n \in Nat
    BY <1>1
  <2>2. s \in All /\ P(s, n - 1) /\ F[n][s] = MergeOnce(s)
    BY <2>1
  <2>3. s = [m |-> s.m, at |-> s.at]
    BY <2>2
  <2> HIDE DEF All, F
  <2>4. CASE Stuck(s.m, s.at)
    <3>1. MergeOnce(s) = s
      BY <2>4 DEF MergeOnce, Stuck
    <3> QED
      BY <2>1, <2>2, <2>4, <3>1
  <2>5. CASE ~Stuck(s.m, s.at)
    <3> DEFINE e == MergeOnce([m |-> s.m, at |-> s.at])
    <3>1. Merging(e.m, e.at, hd, R) /\ e.m.order[e.at] = s.m.order[s.at] + 1
      BY <2>2, <2>5, MergeStep DEF Stuck
    <3>2. e \in All
      <4>1. e.m \in Memory /\ e.at \in Page
        BY <1>2, <3>1
      <4>2. e = [m |-> e.m, at |-> e.at]
        BY <2>5 DEF MergeOnce, Stuck
      <4> HIDE DEF e
      <4> QED
        BY <4>1, <4>2 DEF All
    <3>3. s.m.order[s.at] >= n - 1 /\ s.m.order[s.at] \in Nat
      BY <1>2, <2>2, <2>5
    <3> HIDE DEF e
    <3>4. e.m.order[e.at] >= n
      BY <2>1, <3>1, <3>3
    <3>5. e \in S[n]
      BY <2>1, <3>1, <3>2, <3>4
    <3>6. F[n][s] = e
      BY <2>2, <2>3, Zenon DEF e
    <3> QED
      BY <3>5, <3>6
  <2> QED
    BY <2>4, <2>5
<1>5. PICK g : /\ g = [n \in 0..MaxOrder |-> IF n = 0 THEN x ELSE F[n][g[n - 1]]]
               /\ \A n \in 0..MaxOrder : g[n] \in S[n]
  <2> HIDE DEF S, F, x, P, All
  <2>1. ASSUME NEW y \in S[0]
        PROVE  \E g : /\ g = [n \in 0..MaxOrder |-> IF n = 0 THEN y ELSE F[n][g[n - 1]]]
                      /\ \A n \in 0..MaxOrder : g[n] \in S[n]
    BY <1>1, <1>4, Recursion
  <2> QED
    BY <1>3, <2>1
<1>6. \A n \in 0..MaxOrder : g[n] \in All /\ P(g[n], n)
  BY <1>5
<1>7. g = [n \in 0..MaxOrder |-> IF n = 0 THEN [m |-> m, at |-> at] ELSE MergeOnce(g[n - 1])]
  <2> DEFINE a(n) == IF n = 0 THEN x ELSE F[n][g[n - 1]]
             c(n) == IF n = 0 THEN [m |-> m, at |-> at] ELSE MergeOnce(g[n - 1])
  <2>1. ASSUME NEW n \in 0..MaxOrder PROVE a(n) = c(n)
    <3>1. n # 0 => n \in 1..MaxOrder /\ n - 1 \in 0..MaxOrder
      BY <1>1
    <3>2. n # 0 => g[n - 1] \in All
      BY <1>6, <3>1
    <3> HIDE DEF All
    <3>3. n # 0 => F[n][g[n - 1]] = MergeOnce(g[n - 1])
      BY <3>1, <3>2
    <3> HIDE DEF F
    <3> QED
      BY <3>3, Zenon
  <2>2. g = [n \in 0..MaxOrder |-> a(n)]
    BY <1>5, Zenon
  <2> HIDE DEF a, c
  <2>3. [n \in 0..MaxOrder |-> a(n)] = [n \in 0..MaxOrder |-> c(n)]
    BY <2>1
  <2>4. g = [n \in 0..MaxOrder |-> c(n)]
    BY <2>2, <2>3
  <2> QED
    BY <2>4, Zenon DEF c
<1> DEFINE e == Merge(m, at)
<1>8. e \in All /\ P(e, MaxOrder)
  <2> DEFINE U(f) == f = [n \in 0..MaxOrder |-> IF n = 0 THEN [m |-> m, at |-> at]
                                                ELSE MergeOnce(f[n - 1])]
  <2>1. U(g)
    BY <1>7
  <2>2. ASSUME NEW f, U(f) PROVE f = g
    <3> DEFINE T == {n \in 0..MaxOrder : f[n] = g[n]}
    <3>1. f[0] = [m |-> m, at |-> at] /\ g[0] = [m |-> m, at |-> at]
      BY <1>1, <1>7, <2>2
    <3>2. ASSUME NEW n \in 1..MaxOrder, n - 1 \in T PROVE n \in T
      <4>1. n \in 0..MaxOrder /\ n # 0
        BY <1>1
      <4>2. f[n] = MergeOnce(f[n - 1]) /\ g[n] = MergeOnce(g[n - 1])
        BY <1>7, <2>2, <4>1
      <4> QED
        BY <3>2, <4>1, <4>2
    <3>3. 0 \in T
      BY <1>1, <3>1
    <3>4. 0..MaxOrder \subseteq T
      <4> HIDE DEF T
      <4> QED
        BY <1>1, <3>2, <3>3, UpTo
    <3>5. DOMAIN f = 0..MaxOrder /\ DOMAIN g = 0..MaxOrder
      BY <1>7, <2>2
    <3>6. f = [n \in 0..MaxOrder |-> f[n]] /\ g = [n \in 0..MaxOrder |-> g[n]]
      BY <1>7, <2>2
    <3> QED
      BY <3>4, <3>6
  <2>3. e = (CHOOSE f : U(f))[MaxOrder]
    BY DEF Merge
  <2>4. U(CHOOSE f : U(f))
    BY <2>1
  <2> HIDE DEF U
  <2>5. (CHOOSE f : U(f)) = g
    BY <2>2, <2>4
  <2>6. e = g[MaxOrder]
    BY <2>3, <2>5
  <2>7. MaxOrder \in 0..MaxOrder
    BY <1>1
  <2> HIDE DEF e
  <2> QED
    BY <1>6, <2>6, <2>7
<1> HIDE DEF e
<1>9. Merging(e.m, e.at, hd, R)
  BY <1>8
<1>10. Stuck(e.m, e.at)
  <2>1. e.m.order[e.at] \in Level /\ (Stuck(e.m, e.at) \/ e.m.order[e.at] >= MaxOrder)
    BY <1>2, <1>8
  <2> QED
    BY <1>1, <2>1, Sizes DEF Stuck, CanMerge
<1> QED
  BY <1>9, <1>10 DEF e

(* When nothing merges with the block any more, there is no pair at all.   *)
LEMMA Merged ==
  ASSUME NEW m, NEW at, NEW hd, NEW R, Merging(m, at, hd, R), Stuck(m, at)
  PROVE  Good(m, hd, {}, R)
<1> DEFINE o == m.order
           s == m.status
<1>1. /\ Good(m, hd, {at}, R) /\ at \in HeadsOf(o) /\ s[at] = 0
      /\ Tiling(o, s, DOMAIN hd, Entries) /\ Settled(o, s, {at}) /\ Entries \in 0..Entries
  BY Sizes DEF Merging, Good
<1>2. ASSUME NEW b \in HeadsOf(o), Pair(o, s, at, b) PROVE FALSE
  <2>1. b \in Page /\ CanMerge(m, at) /\ Buddy(at, m.order[at]) = b
    BY <1>2 DEF Pair, HeadsOf, CanMerge
  <2> QED
    BY <2>1 DEF Stuck
<1>3. ASSUME NEW a \in HeadsOf(o), NEW b \in HeadsOf(o), Pair(o, s, a, b) PROVE FALSE
  <2>1. Pair(o, s, b, a)
    BY <1>1, <1>3, PairSymmetric
  <2>2. a = at \/ b = at
    BY <1>1, <1>3 DEF Settled
  <2> QED
    BY <1>2, <1>3, <2>1, <2>2
<1>4. Settled(o, s, {})
  BY <1>3 DEF Settled
<1> QED
  BY <1>1, <1>4 DEF Good

(* page_divide halves the head of a list; its two halves are the only pair.*)
LEMMA SplitStep ==
  ASSUME NEW m, NEW hd, NEW X, NEW R, Good(m, hd, X, R),
         NEW l \in Level \ {0}, m.list[l] # NoPage, X \subseteq {m.list[l]}
  PROVE  LET e == SplitHead(m, l) IN
         Good(e, hd, {e.list[l - 1]}, R) /\ e.list[l - 1] # NoPage
<1> DEFINE i == m.list[l]
           k == l - 1
           u == i + Pow2(k)
           o == m.order
           s == m.status
           A == DOMAIN hd
           G == FreeIn(m, Page)
           h == [o EXCEPT ![i] = k, ![u] = k]
<1>1. /\ m \in Memory /\ o[Entries] \in GuardOrders /\ Tiling(o, s, A, Entries) /\ Whole(o, s, A, R)
      /\ Settled(o, s, X) /\ Kept(o, s, hd) /\ Lists(m, G)
  BY DEF Good
<1>0. /\ Entries \in 0..Entries /\ Entries \notin Page /\ \A p \in Page : p \in 0..Entries /\ p \in Nat
      /\ NoPage \notin Page
  BY <1>1, MemoryFields
<1>2. /\ G \in [Level -> SUBSET Page]
      /\ \A j \in Level : \A p : p \in G[j] <=> p \in Page /\ o[p] = j /\ s[p] = 0
  BY FreeInFacts
<1> HIDE DEF G
<1>3. l \in Level /\ l \in Nat /\ k \in Level /\ k # l /\ l # 0 /\ k + 1 = l
  BY Sizes
<1> DEFINE d1 == PopItem(m, l)
           G1 == [G EXCEPT ![l] = G[l] \ {i}]
<1>4. d1 \in Memory /\ d1.order = o /\ d1.status = s /\ Lists(d1, G1) /\ i \in G[l]
  BY <1>1, <1>3, PopLists
<1>5. G1 \in [Level -> SUBSET Page] /\ G1[l] = G[l] \ {i} /\ \A j \in Level \ {l} : G1[j] = G[j]
  BY <1>2, <1>3
<1> HIDE DEF d1, G1, i
<1>6. i \in Page /\ o[i] = l /\ s[i] = 0 /\ i \in HeadsOf(o)
  BY <1>2, <1>3, <1>4 DEF HeadsOf
<1>7. Halved(o, s, A, Entries, i, k, u, h)
  BY <1>0, <1>1, <1>3, <1>6 DEF Halved
<1>8. /\ Tiling(h, s, A, Entries) /\ HeadsOf(h) = HeadsOf(o) \cup {u}
      /\ u \in Page /\ u \notin HeadsOf(o) /\ i < u /\ s[u] = 0 /\ o[u] = FREE
      /\ h[i] = k /\ h[u] = k
      /\ \A p \in 0..Entries : p # i /\ p # u => h[p] = o[p]
  <2> HIDE DEF h, u, k
  <2> QED
    BY <1>7, Halving
<1> HIDE DEF h, u
<1>9. Whole(h, s, A, R)
  BY <1>1, <1>7, WholeHalving
<1>10. Settled(h, s, {u})
  <2>1. X \subseteq {i}
    BY DEF i
  <2> QED
    BY <1>1, <1>7, <2>1, SettledHalving
<1>11. i # u
  BY <1>0, <1>6, <1>8
<1>12. Kept(h, s, hd)
  <2>1. \A j \in A : j \in Page /\ j # i /\ j # u
    BY <1>1, <1>6, <1>8 DEF Kept, HeadsOf
  <2> QED
    BY <1>0, <1>1, <1>8, <2>1 DEF Kept
<1>13. h \in [0..Entries -> Int]
  BY <1>8 DEF Tiling, Table
<1>14. \A j \in Level : u \notin G[j]
  BY <1>2, <1>8, Sizes DEF FREE
<1> DEFINE d2 == [d1 EXCEPT !.order = h]
<1>15. d2 \in Memory /\ d2.order = h /\ d2.status = s /\ Lists(d2, G1)
  <2>1. /\ d2 \in Memory /\ d2.order = h /\ d2.status = d1.status
        /\ d2.list = d1.list /\ d2.next = d1.next /\ d2.prev = d1.prev
    BY <1>4, <1>13, OrderField
  <2> HIDE DEF d2
  <2> QED
    BY <1>4, <2>1, ListsKept
<1> DEFINE d3 == AddItem(d2, i)
           G3 == [G1 EXCEPT ![k] = G1[k] \cup {i}]
<1>16. d3 \in Memory /\ d3.order = h /\ d3.status = s /\ Lists(d3, G3)
  <2>1. \A j \in Level : i \notin G1[j]
    BY <1>2, <1>5, <1>6
  <2> HIDE DEF d2
  <2>2. k = d2.order[i]
    BY <1>8, <1>15
  <2> QED
    BY <1>3, <1>6, <1>15, <2>1, <2>2, AddLists
<1>17. G3 \in [Level -> SUBSET Page] /\ G3[k] = G[k] \cup {i} /\ G3[l] = G[l] \ {i}
       /\ \A j \in Level : j # k /\ j # l => G3[j] = G[j]
  BY <1>3, <1>5, <1>6
<1> HIDE DEF d3, G3
<1> DEFINE d4 == AddItem(d3, u)
           G4 == [G3 EXCEPT ![k] = G3[k] \cup {u}]
<1>18. /\ d4 \in Memory /\ d4.order = h /\ d4.status = s /\ Lists(d4, G4)
       /\ d4.list[k] = u
  <2>1. \A j \in Level : u \notin G3[j]
    BY <1>11, <1>14, <1>17
  <2>2. k = d3.order[u]
    BY <1>8, <1>16
  <2> QED
    BY <1>3, <1>8, <1>16, <2>1, <2>2, AddLists
<1>19. G4 \in [Level -> SUBSET Page] /\ G4[k] = G[k] \cup {i, u} /\ G4[l] = G[l] \ {i}
       /\ \A j \in Level : j # k /\ j # l => G4[j] = G[j]
  BY <1>3, <1>8, <1>17
<1> HIDE DEF d4, G4
<1>20. FreeIn(d4, Page) = G4
  <2>1. ASSUME NEW j \in Level, NEW p \in Page
        PROVE  p \in G4[j] <=> p \in Page /\ h[p] = j /\ s[p] = 0
    <3>1. CASE p = i
      BY <1>2, <1>3, <1>6, <1>8, <1>19, <3>1
    <3>2. CASE p = u
      BY <1>8, <1>11, <1>14, <1>19, <3>2
    <3>3. CASE p # i /\ p # u
      <4>1. h[p] = o[p]
        BY <1>0, <1>8, <3>3
      <4> QED
        BY <1>2, <1>19, <3>3, <4>1
    <3> QED
      BY <3>1, <3>2, <3>3
  <2> QED
    BY <1>18, <1>19, <2>1, SameFreeIn
<1>21. h[Entries] \in GuardOrders
  BY <1>0, <1>1, <1>6, <1>8
<1>22. SplitHead(m, l) = d4
  <2>1. d2 = [d1 EXCEPT !.order = [@ EXCEPT ![i] = l - 1, ![i + Pow2(l - 1)] = l - 1]]
    BY <1>4 DEF h, u
  <2> QED
    BY <2>1 DEF SplitHead, i, u, d1, d3, d4
<1>23. Good(d4, hd, {u}, R)
  BY <1>8, <1>9, <1>10, <1>12, <1>18, <1>20, <1>21 DEF Good
<1> QED
  BY <1>0, <1>8, <1>18, <1>22, <1>23

(* More blocks may be exempted.                                            *)
LEMMA GoodMore ==
  ASSUME NEW m, NEW hd, NEW X, NEW R, Good(m, hd, {}, R)
  PROVE  Good(m, hd, X, R)
BY DEF Good, Settled

(* page_divide(level) leaves a block in the list below its level.          *)
LEMMA DivideEnds ==
  ASSUME NEW m, NEW hd, NEW R, Good(m, hd, {}, R),
         NEW level \in Level \ {0}, Sources(m, level) # {}
  PROVE  LET e == Divide(m, level) IN
         Good(e, hd, {e.list[level - 1]}, R) /\ e.list[level - 1] # NoPage
<1> DEFINE k == CHOOSE k \in Sources(m, level) : TRUE
<1>1. k \in level..MaxOrder /\ m.list[k] # NoPage
  <2>1. k \in Sources(m, level)
    OBVIOUS
  <2> HIDE DEF k
  <2> QED
    BY <2>1 DEF Sources
<1> HIDE DEF k
<1> DEFINE N == k - level + 1
<1>2. /\ k \in Level /\ level \in Nat \ {0} /\ N \in Nat
      /\ \A n \in 0..N : k - n \in Level
      /\ \A n \in 1..N : n - 1 \in 0..N /\ k - n + 1 \in Level \ {0} /\ k - (n - 1) = k - n + 1
      /\ k - N = level - 1
  BY <1>1, Sizes
<1> HIDE DEF N
<1> DEFINE P(d, n) == Good(d, hd, {d.list[k - n]}, R) /\ d.list[k - n] # NoPage
           S == [n \in 0..N |-> {d \in Memory : P(d, n)}]
           F == [n \in 1..N |-> [d \in Memory |-> SplitHead(d, k - n + 1)]]
<1>3. m \in S[0]
  <2>1. m \in Memory /\ k - 0 = k /\ 0 \in 0..N
    BY <1>2 DEF Good
  <2>2. Good(m, hd, {m.list[k]}, R)
    BY GoodMore
  <2>3. P(m, 0)
    BY <1>1, <2>1, <2>2
  <2> HIDE DEF P
  <2> QED
    BY <2>1, <2>3
<1>4. ASSUME NEW n \in 1..N, NEW d \in Memory, P(d, n - 1)
      PROVE  SplitHead(d, k - n + 1) \in Memory /\ P(SplitHead(d, k - n + 1), n)
  <2> DEFINE l == k - n + 1
             e == SplitHead(d, l)
  <2>1. l \in Level \ {0} /\ k - (n - 1) = l
    BY <1>2
  <2>2. n \in Int /\ l - 1 = k - n
    BY <1>2, Sizes
  <2>3. Good(d, hd, {d.list[l]}, R) /\ d.list[l] # NoPage
    BY <1>4, <2>1
  <2> HIDE DEF l
  <2>4. Good(e, hd, {e.list[l - 1]}, R) /\ e.list[l - 1] # NoPage
    BY <2>1, <2>3, SplitStep
  <2>5. e \in Memory
    BY <2>4 DEF Good
  <2> HIDE DEF e
  <2>6. P(e, n)
    BY <2>2, <2>4
  <2> QED
    BY <2>5, <2>6 DEF e, l
<1> HIDE DEF P
<1>5. StepsWithin(N, S, F)
  <2> SUFFICES ASSUME NEW n \in 1..N, NEW d \in S[n - 1] PROVE F[n][d] \in S[n]
    BY DEF StepsWithin
  <2>1. n - 1 \in 0..N /\ n \in 0..N
    BY <1>2
  <2>2. d \in Memory /\ P(d, n - 1)
    BY <2>1
  <2>3. F[n][d] = SplitHead(d, k - n + 1)
    BY <2>2
  <2> HIDE DEF F
  <2> QED
    BY <1>4, <2>1, <2>2, <2>3
<1> DEFINE U(f) == f = [n \in 0..N |-> IF n = 0 THEN m ELSE SplitHead(f[n - 1], k - n + 1)]
<1>6. \E g : U(g)
  <2>1. PICK g : /\ g = [n \in 0..N |-> IF n = 0 THEN m ELSE F[n][g[n - 1]]]
                 /\ \A n \in 0..N : g[n] \in S[n]
    <3> HIDE DEF S, F
    <3>0. N \in Nat
      BY <1>2
    <3>1. ASSUME NEW y \in S[0]
          PROVE  \E g : /\ g = [n \in 0..N |-> IF n = 0 THEN y ELSE F[n][g[n - 1]]]
                        /\ \A n \in 0..N : g[n] \in S[n]
      BY <3>0, <1>5, Recursion
    <3> QED
      BY <1>3, <3>1
  <2> DEFINE a(n) == IF n = 0 THEN m ELSE F[n][g[n - 1]]
             c(n) == IF n = 0 THEN m ELSE SplitHead(g[n - 1], k - n + 1)
  <2>2. ASSUME NEW n \in 0..N PROVE a(n) = c(n)
    <3>1. n # 0 => n \in 1..N /\ n - 1 \in 0..N
      BY <1>2
    <3>2. n # 0 => g[n - 1] \in Memory
      BY <2>1, <3>1
    <3>3. n # 0 => F[n][g[n - 1]] = SplitHead(g[n - 1], k - n + 1)
      BY <3>1, <3>2
    <3> HIDE DEF F
    <3> QED
      BY <3>3, Zenon
  <2>3. g = [n \in 0..N |-> a(n)]
    BY <2>1, Zenon
  <2> HIDE DEF a, c
  <2>4. [n \in 0..N |-> a(n)] = [n \in 0..N |-> c(n)]
    BY <2>2
  <2>5. g = [n \in 0..N |-> c(n)]
    BY <2>3, <2>4
  <2>6. U(g)
    BY <2>5, Zenon DEF c
  <2> HIDE DEF U
  <2> QED
    BY <2>6
<1> DEFINE f == CHOOSE f : U(f)
<1>7. U(f)
  <2> HIDE DEF U
  <2> QED
    BY <1>6
<1>8. Divide(m, level) = f[N]
  BY DEF Divide, k, N
<1> HIDE DEF f
<1> DEFINE T == {n \in 0..N : f[n] \in Memory /\ P(f[n], n)}
<1>9. 0 \in T
  <2>1. 0 \in 0..N /\ f[0] = m
    BY <1>2, <1>7
  <2>2. m \in Memory /\ P(m, 0)
    BY <1>3, <2>1
  <2> QED
    BY <2>1, <2>2
<1>10. ASSUME NEW n \in 1..N, n - 1 \in T PROVE n \in T
  <2>1. n \in 0..N /\ n # 0
    BY <1>2
  <2>2. f[n] = SplitHead(f[n - 1], k - n + 1)
    BY <1>7, <2>1
  <2> QED
    BY <1>4, <1>10, <2>1, <2>2
<1>11. 0..N \subseteq T
  <2> HIDE DEF T
  <2> QED
    BY <1>2, <1>9, <1>10, UpTo
<1>12. P(f[N], N)
  <2>1. N \in 0..N
    BY <1>2
  <2> QED
    BY <1>11, <2>1
<1> QED
  BY <1>2, <1>8, <1>12 DEF P

(* A block that changes hands: what the tables say of the other pages.     *)
LEMMA RemarkedFree ==
  ASSUME NEW o, NEW s, NEW A, NEW i, NEW v, NEW B, NEW t, NEW h,
         Remarked(o, s, A, Entries, i, v, B, t, h)
  PROVE  /\ h[Entries] = o[Entries]
         /\ \A j \in Level : \A p \in Page \ {i} : h[p] = j /\ t[p] = 0 <=> o[p] = j /\ s[p] = 0
<1> /\ Entries \in 0..Entries /\ Tiling(o, s, A, Entries) /\ i \in HeadsOf(o)
  BY DEF Remarked
<1>1. /\ Tiling(h, t, B, Entries) /\ HeadsOf(h) = HeadsOf(o)
      /\ \A j \in HeadsOf(o) : h[j] = o[j]
      /\ \A p \in 0..Entries : p \notin Inside(i, o[i]) => h[p] = o[p]
      /\ \A p \in 0..Entries : p # i => t[p] = s[p]
  BY Remarking
<1>2. Entries \notin Inside(i, o[i])
  <2>1. Entries \notin Page
    BY Sizes
  <2> QED
    BY <2>1, InsideFacts
<1>3. ASSUME NEW j \in Level, NEW p \in Page \ {i}
      PROVE  h[p] = j /\ t[p] = 0 <=> o[p] = j /\ s[p] = 0
  <2>1. p \in 0..Entries /\ t[p] = s[p] /\ j >= 0
    BY <1>1, Sizes
  <2>2. p \in HeadsOf(o) => h[p] = o[p]
    BY <1>1
  <2>3. p \notin HeadsOf(o) => h[p] # j /\ o[p] # j
    BY <1>1, <2>1 DEF HeadsOf
  <2> QED
    BY <2>1, <2>2, <2>3
<1> QED
  BY <1>1, <1>2, <1>3

(* Of the blocks that are held, only the one that changes hands changes.   *)
LEMMA KeptRemarked ==
  ASSUME NEW o, NEW s, NEW A, NEW i, NEW v, NEW B, NEW t, NEW h,
         Remarked(o, s, A, Entries, i, v, B, t, h),
         NEW hd, Kept(o, s, hd)
  PROVE  \A j \in DOMAIN hd : j # i => j \in HeadsOf(h) /\ h[j] = hd[j] /\ t[j] = 1
<1>1. /\ HeadsOf(h) = HeadsOf(o)
      /\ \A j \in HeadsOf(o) : h[j] = o[j]
      /\ \A p \in 0..Entries : p # i => t[p] = s[p]
  BY Remarking
<1>2. \A p \in HeadsOf(o) : p \in 0..Entries
  BY Sizes DEF HeadsOf
<1> QED
  BY <1>1, <1>2 DEF Kept

(* page_allocate hands out the head of a list.                             *)
LEMMA HandGood ==
  ASSUME NEW m, NEW hd, NEW X, NEW R, Good(m, hd, X, R),
         NEW l \in Level, m.list[l] # NoPage, X \subseteq {m.list[l]}
  PROVE  LET i == m.list[l] IN
         Good(PopItem(TakeBlock(m, i, ALLOCATED), l), [p \in DOMAIN hd \cup {i} |-> IF p = i THEN l ELSE hd[p]], {}, R) /\ i \in Page
<1> DEFINE i == m.list[l]
           o == m.order
           s == m.status
           A == DOMAIN hd
           B == A \cup {i}
           G == FreeIn(m, Page)
           t == [s EXCEPT ![i] = 1]
           h == Mark(o, Inside(i, o[i]), ALLOCATED)
           hd2 == [p \in DOMAIN hd \cup {i} |-> IF p = i THEN l ELSE hd[p]]
<1>1. /\ m \in Memory /\ o[Entries] \in GuardOrders /\ Tiling(o, s, A, Entries) /\ Whole(o, s, A, R)
      /\ Settled(o, s, X) /\ Kept(o, s, hd) /\ Lists(m, G)
  BY DEF Good
<1>0. /\ Entries \in 0..Entries /\ Entries \notin Page /\ \A p \in Page : p \in 0..Entries /\ p \in Nat
      /\ NoPage \notin Page
  BY <1>1, MemoryFields
<1>2. /\ G \in [Level -> SUBSET Page]
      /\ \A j \in Level : \A p : p \in G[j] <=> p \in Page /\ o[p] = j /\ s[p] = 0
  BY FreeInFacts
<1> HIDE DEF G
<1>3. i \in G[l]
  BY <1>1, PopLists
<1>4. i \in Page /\ o[i] = l /\ s[i] = 0 /\ i \in HeadsOf(o)
  BY <1>2, <1>3, Sizes DEF HeadsOf
<1>5. o \in [0..Entries -> Int] /\ s \in [0..Entries -> {0, 1}]
  BY <1>1, MemoryFields
<1> DEFINE d1 == TakeBlock(m, i, ALLOCATED)
<1>6. d1 = [m EXCEPT !.order = h, !.status = t]
  BY DEF TakeBlock
<1> HIDE DEF d1, i
<1>7. t[i] = 1 /\ t \in [0..Entries -> {0, 1}] /\ h \in [0..Entries -> Int]
  BY <1>0, <1>4, <1>5 DEF Mark, ALLOCATED
<1>8. Remarked(o, s, A, Entries, i, 1, B, t, h)
  <2>1. MarkIn(t, B, i) = ALLOCATED
    BY <1>7 DEF MarkIn
  <2> QED
    BY <1>0, <1>1, <1>4, <2>1 DEF Remarked
<1> HIDE DEF h, t
<1>9. Tiling(h, t, B, Entries) /\ HeadsOf(h) = HeadsOf(o) /\ h[i] = o[i]
  BY <1>4, <1>8, Remarking
<1>10. Whole(h, t, B, R)
  <2>1. \A p \in Span(o, i) : p \in R <=> 1 = 1 /\ i \notin B
    BY <1>1, <1>4 DEF Whole
  <2>2. \A p : p \notin Span(o, i) => (p \in R <=> p \in R)
    OBVIOUS
  <2> HIDE DEF B
  <2> QED
    BY <1>1, <1>8, <2>1, <2>2, WholeRemarking
<1>11. Settled(h, t, {})
  <2> DEFINE v == 1
  <2>1. X \subseteq {i} /\ Settled(o, s, X)
    BY <1>1 DEF i
  <2>2. v = 1 /\ Remarked(o, s, A, Entries, i, v, B, t, h)
    BY <1>8
  <2> HIDE DEF v, o, s, A, B
  <2>3. Settled(h, t, IF v = 1 THEN {} ELSE {i})
    BY <2>1, <2>2, SettledRemarking
  <2> QED
    BY <2>2, <2>3
<1>12. i \notin A
  BY <1>1, <1>4 DEF Kept
<1>13. DOMAIN hd2 = B /\ hd2[i] = l /\ \A j \in A : hd2[j] = hd[j]
  BY <1>12
<1> HIDE DEF hd2
<1>14. Kept(h, t, hd2)
  <2>1. \A j \in A : j # i => j \in HeadsOf(h) /\ h[j] = hd[j] /\ t[j] = 1
    BY <1>1, <1>8, KeptRemarked
  <2> QED
    BY <1>4, <1>7, <1>9, <1>12, <1>13, <2>1 DEF Kept
<1>15. d1 \in Memory /\ d1.order = h /\ d1.status = t /\ Lists(d1, G) /\ d1.list = m.list
  <2>1. /\ d1 \in Memory /\ d1.order = h /\ d1.status = t
        /\ d1.list = m.list /\ d1.next = m.next /\ d1.prev = m.prev
    <3> DEFINE e == [m EXCEPT !.order = h, !.status = t]
    <3>1. /\ e \in Memory /\ e.order = h /\ e.status = t
          /\ e.list = m.list /\ e.next = m.next /\ e.prev = m.prev
      BY <1>1, <1>6, <1>7 DEF Memory
    <3>2. d1 = e
      BY <1>6
    <3> HIDE DEF e
    <3> QED
      BY <3>1, <3>2
  <2> QED
    BY <1>1, <2>1, ListsKept
<1> DEFINE d2 == PopItem(d1, l)
           G2 == [G EXCEPT ![l] = G[l] \ {i}]
<1>16. d2 \in Memory /\ d2.order = h /\ d2.status = t /\ Lists(d2, G2)
  <2>1. d1.list[l] = i /\ d1.list[l] # NoPage
    BY <1>15 DEF i
  <2> QED
    BY <1>15, <2>1, PopLists
<1>17. G2 \in [Level -> SUBSET Page] /\ G2[l] = G[l] \ {i} /\ \A j \in Level \ {l} : G2[j] = G[j]
  BY <1>2
<1> HIDE DEF d2, G2
<1>18. h[Entries] = o[Entries] /\ \A j \in Level : \A p \in Page \ {i} : h[p] = j /\ t[p] = 0 <=> o[p] = j /\ s[p] = 0
  BY <1>8, RemarkedFree
<1>19. FreeIn(d2, Page) = G2
  <2>1. ASSUME NEW j \in Level, NEW p \in Page
        PROVE  p \in G2[j] <=> p \in Page /\ h[p] = j /\ t[p] = 0
    <3>1. CASE p = i
      BY <1>2, <1>4, <1>7, <1>17, <3>1
    <3>2. CASE p # i
      BY <1>2, <1>17, <1>18, <3>2
    <3> QED
      BY <3>1, <3>2
  <2> QED
    BY <1>16, <1>17, <2>1, SameFreeIn
<1>20. Good(d2, hd2, {}, R)
  BY <1>1, <1>9, <1>10, <1>11, <1>13, <1>14, <1>16, <1>18, <1>19 DEF Good
<1> QED
  BY <1>4, <1>20 DEF d1, d2, i, hd2

(* page_free: the block of a caller becomes free, before it is merged.     *)
LEMMA FreeMerging ==
  ASSUME NEW m, NEW hd, NEW R, Good(m, hd, {}, R), NEW i \in DOMAIN hd
  PROVE  LET freed == [AddItem(m, i) EXCEPT
                         !.order = Mark(@, Inside(i, m.order[i]), FREE),
                         !.status = [@ EXCEPT ![i] = 0]]
         IN Merging(freed, i, [p \in DOMAIN hd \ {i} |-> hd[p]], R)
<1> DEFINE o == m.order
           s == m.status
           k == o[i]
           A == DOMAIN hd
           B == A \ {i}
           G == FreeIn(m, Page)
           t == [s EXCEPT ![i] = 0]
           h == Mark(o, Inside(i, k), FREE)
           hd2 == [p \in DOMAIN hd \ {i} |-> hd[p]]
<1>1. /\ m \in Memory /\ o[Entries] \in GuardOrders /\ Tiling(o, s, A, Entries) /\ Whole(o, s, A, R)
      /\ Settled(o, s, {}) /\ Kept(o, s, hd) /\ Lists(m, G)
  BY DEF Good
<1>0. /\ Entries \in 0..Entries /\ Entries \notin Page /\ \A p \in Page : p \in 0..Entries /\ p \in Nat
      /\ NoPage \notin Page
  BY <1>1, MemoryFields
<1>2. /\ G \in [Level -> SUBSET Page]
      /\ \A j \in Level : \A p : p \in G[j] <=> p \in Page /\ o[p] = j /\ s[p] = 0
  BY FreeInFacts
<1> HIDE DEF G
<1>3. i \in HeadsOf(o) /\ s[i] = 1 /\ i \in Page
  BY <1>1 DEF Kept, HeadsOf
<1>4. k \in Level
  BY <1>0, <1>1, <1>3, HeadFacts
<1>5. o \in [0..Entries -> Int] /\ s \in [0..Entries -> {0, 1}]
  BY <1>1, MemoryFields
<1> DEFINE d1 == AddItem(m, i)
           G1 == [G EXCEPT ![k] = G[k] \cup {i}]
<1>6. d1 \in Memory /\ d1.order = o /\ d1.status = s /\ Lists(d1, G1) /\ d1.list[k] = i /\ d1.prev[i] = NoPage
  <2>1. \A j \in Level : i \notin G[j]
    BY <1>2, <1>3
  <2> QED
    BY <1>1, <1>3, <1>4, <2>1, AddLists
<1>7. G1 \in [Level -> SUBSET Page] /\ G1[k] = G[k] \cup {i} /\ \A j \in Level \ {k} : G1[j] = G[j]
  BY <1>2, <1>3, <1>4
<1> HIDE DEF d1, G1
<1> DEFINE d2 == [d1 EXCEPT !.order = Mark(@, Inside(i, m.order[i]), FREE),
                            !.status = [@ EXCEPT ![i] = 0]]
<1>8. d2 = [d1 EXCEPT !.order = h, !.status = t]
  BY <1>6
<1> HIDE DEF d2
<1>9. t[i] = 0 /\ t \in [0..Entries -> {0, 1}] /\ h \in [0..Entries -> Int]
  BY <1>0, <1>3, <1>5 DEF Mark, FREE
<1>10. Remarked(o, s, A, Entries, i, 0, B, t, h)
  <2>1. MarkIn(t, B, i) = FREE
    BY <1>9 DEF MarkIn
  <2> QED
    BY <1>0, <1>1, <1>3, <2>1 DEF Remarked
<1> HIDE DEF h, t
<1>11. Tiling(h, t, B, Entries) /\ HeadsOf(h) = HeadsOf(o) /\ h[i] = o[i]
  BY <1>3, <1>10, Remarking
<1>12. Whole(h, t, B, R)
  <2>1. \A p \in Span(o, i) : p \in R <=> 0 = 1 /\ i \notin B
    BY <1>1, <1>3 DEF Whole
  <2>2. \A p : p \notin Span(o, i) => (p \in R <=> p \in R)
    OBVIOUS
  <2> HIDE DEF B
  <2> QED
    BY <1>1, <1>10, <2>1, <2>2, WholeRemarking
<1>13. Settled(h, t, {i})
  <2> DEFINE X == {}
  <2>1. X \subseteq {i} /\ Settled(o, s, X)
    BY <1>1
  <2> HIDE DEF X
  <2>2. Settled(h, t, IF 0 = 1 THEN {} ELSE {i})
    BY <1>10, <2>1, SettledRemarking
  <2> QED
    BY <2>2
<1>14. DOMAIN hd2 = B /\ \A j \in B : hd2[j] = hd[j]
  OBVIOUS
<1> HIDE DEF hd2
<1>15. Kept(h, t, hd2)
  <2>1. \A j \in A : j # i => j \in HeadsOf(h) /\ h[j] = hd[j] /\ t[j] = 1
    BY <1>1, <1>10, KeptRemarked
  <2> QED
    BY <1>14, <2>1 DEF Kept
<1>16. d2 \in Memory /\ d2.order = h /\ d2.status = t /\ Lists(d2, G1) /\ d2.list = d1.list /\ d2.prev = d1.prev
  <2>1. /\ d2 \in Memory /\ d2.order = h /\ d2.status = t
        /\ d2.list = d1.list /\ d2.next = d1.next /\ d2.prev = d1.prev
    <3> DEFINE e == [d1 EXCEPT !.order = h, !.status = t]
    <3>1. /\ e \in Memory /\ e.order = h /\ e.status = t
          /\ e.list = d1.list /\ e.next = d1.next /\ e.prev = d1.prev
      BY <1>6, <1>8, <1>9 DEF Memory
    <3>2. d2 = e
      BY <1>8
    <3> HIDE DEF e
    <3> QED
      BY <3>1, <3>2
  <2> QED
    BY <1>6, <2>1, ListsKept
<1>17. h[Entries] = o[Entries] /\ \A j \in Level : \A p \in Page \ {i} : h[p] = j /\ t[p] = 0 <=> o[p] = j /\ s[p] = 0
  BY <1>10, RemarkedFree
<1>18. FreeIn(d2, Page) = G1
  <2>1. ASSUME NEW j \in Level, NEW p \in Page
        PROVE  p \in G1[j] <=> p \in Page /\ h[p] = j /\ t[p] = 0
    <3>1. CASE p = i
      <4>1. p \in G1[j] <=> j = k
        BY <1>2, <1>3, <1>4, <1>7, <3>1
      <4> QED
        BY <1>9, <1>11, <3>1, <4>1
    <3>2. CASE p # i
      BY <1>2, <1>4, <1>7, <1>17, <3>2
    <3> QED
      BY <3>1, <3>2
  <2> QED
    BY <1>7, <1>16, <2>1, SameFreeIn
<1>19. Good(d2, hd2, {i}, R)
  BY <1>1, <1>11, <1>12, <1>13, <1>14, <1>15, <1>16, <1>17, <1>18 DEF Good
<1>20. Merging(d2, i, hd2, R)
  BY <1>3, <1>6, <1>9, <1>11, <1>16, <1>19 DEF Merging
<1> QED
  BY <1>20 DEF d2, d1, hd2

-----------------------------------------------------------------------------
(* Lists without repetitions are not longer than there are pages.          *)
LEMMA ShortLists ==
  ASSUME NEW q \in Seq(Page), IsInjective(q)
  PROVE  Len(q) <= Entries
<1> DEFINE n == Len(q)
<1>1. n \in Nat /\ q \in [1..n -> Page]
  OBVIOUS
<1>2. Page = 0..Entries - 1 /\ Entries \in Nat /\ Entries # 0
  BY Sizes
<1>3. IsFiniteSet(Page) /\ Cardinality(Page) = Entries
  BY <1>2, FS_Interval
<1>4. IsFiniteSet(1..n) /\ Cardinality(1..n) = n
  BY <1>1, FS_Interval
<1>5. \A a, b \in 1..n : q[a] = q[b] => a = b
  BY DEF IsInjective
<1> HIDE DEF n
<1>6. ASSUME Entries < n PROVE FALSE
  <2>1. \E x, y \in 1..n : x # y /\ q[x] = q[y]
    BY <1>1, <1>3, <1>4, <1>6, FS_PigeonHole
  <2> QED
    BY <1>5, <2>1
<1> QED
  BY <1>1, <1>2, <1>6 DEF n

(* The pointers of the memory lead through the list.                       *)
LEMMA ItemsFollow ==
  ASSUME NEW k \in Level, NEW S, Linked(mem, k, S)
  PROVE  LET item == ListItems(k) IN
         /\ item[Entries] = NoPage
         /\ \A a, b \in 0..Entries : item[a] = item[b] /\ item[a] # NoPage => a = b
         /\ Range(item) \ {NoPage} = S
         /\ \A n \in 1..Entries : item[n] # NoPage => mem.prev[item[n]] = item[n - 1]
<1> DEFINE item == ListItems(k)
<1>1. PICK q \in Seq(Page) : IsInjective(q) /\ Range(q) = S /\ Chained(mem, k, q)
  BY DEF Linked
<1>2. Entries \in Nat \ {0} /\ NoPage \notin Page
  BY Sizes DEF NoPage
<1>3. Len(q) \in Nat /\ Len(q) <= Entries
  BY <1>1, ShortLists
<1>4. \A j \in 1..Len(q) : q[j] \in S /\ q[j] \in Page
  BY <1>1, ListElement
<1> DEFINE g == [n \in 0..Entries |-> IF n < Len(q) THEN q[n + 1] ELSE NoPage]
           U(f) == f = [n \in 0..Entries |-> IF n = 0 THEN mem.list[k]
                                             ELSE IF f[n - 1] \in Page THEN mem.next[f[n - 1]]
                                             ELSE f[n - 1]]
<1>5. g[0] = mem.list[k]
  <2>1. q = <<>> <=> Len(q) = 0
    OBVIOUS
  <2> QED
    BY <1>1, <1>2, <1>3, <2>1 DEF Chained
<1>6. ASSUME NEW n \in 1..Entries
      PROVE  g[n] = IF g[n - 1] \in Page THEN mem.next[g[n - 1]] ELSE g[n - 1]
  <2>1. n \in Nat /\ n - 1 \in 0..Entries /\ n \in 0..Entries
    BY <1>2
  <2>2. CASE n <= Len(q)
    <3>1. n \in 1..Len(q) /\ g[n - 1] = q[n]
      BY <1>3, <2>1, <2>2
    <3>2. mem.next[q[n]] = IF n = Len(q) THEN NoPage ELSE q[n + 1]
      BY <1>1, <3>1 DEF Chained
    <3>3. g[n] = IF n = Len(q) THEN NoPage ELSE q[n + 1]
      BY <1>3, <2>1, <2>2
    <3> HIDE DEF g
    <3> QED
      BY <1>4, <3>1, <3>2, <3>3
  <2>3. CASE ~(n <= Len(q))
    <3>1. g[n - 1] = NoPage /\ g[n] = NoPage
      BY <1>3, <2>1, <2>3
    <3> HIDE DEF g
    <3> QED
      BY <1>2, <3>1
  <2> QED
    BY <2>2, <2>3
<1>7. g = [n \in 0..Entries |-> g[n]]
  OBVIOUS
<1> HIDE DEF g
<1>8. U(g)
  <2> DEFINE e(n) == IF n = 0 THEN mem.list[k]
                     ELSE IF g[n - 1] \in Page THEN mem.next[g[n - 1]] ELSE g[n - 1]
  <2>1. \A n \in 0..Entries : g[n] = e(n)
    <3>1. \A n \in 0..Entries : n = 0 \/ n \in 1..Entries
      OBVIOUS
    <3> QED
      BY <1>5, <1>6, <3>1
  <2> HIDE DEF e
  <2>2. g = [n \in 0..Entries |-> e(n)]
    BY <1>7, <2>1
  <2> QED
    BY <2>2, Zenon DEF e
<1>9. U(item)
  <2> DEFINE f == CHOOSE f : U(f)
  <2>1. item = f
    BY DEF ListItems
  <2> HIDE DEF U, item
  <2>2. U(f)
    BY <1>8
  <2> QED
    BY <2>1, <2>2
<1> HIDE DEF item
<1> DEFINE T == {n \in 0..Entries : item[n] = g[n]}
<1>10. 0..Entries \subseteq T
  <2>1. 0 \in T
    BY <1>2, <1>5, <1>9
  <2>2. ASSUME NEW n \in 1..Entries, n - 1 \in T PROVE n \in T
    <3>1. item[n] = IF item[n - 1] \in Page THEN mem.next[item[n - 1]] ELSE item[n - 1]
      BY <1>2, <1>9
    <3> QED
      BY <1>6, <2>2, <3>1
  <2> HIDE DEF T
  <2> QED
    BY <1>2, <2>1, <2>2, UpTo
<1>11. \A n \in 0..Entries : item[n] = IF n < Len(q) THEN q[n + 1] ELSE NoPage
  BY <1>10 DEF g
<1>12. DOMAIN item = 0..Entries
  BY <1>9
<1> HIDE DEF T, U
<1>13. item[Entries] = NoPage
  BY <1>2, <1>3, <1>11
<1>14. ASSUME NEW a \in 0..Entries, NEW b \in 0..Entries, item[a] = item[b], item[a] # NoPage
       PROVE  a = b
  <2>1. a < Len(q) /\ b < Len(q)
    BY <1>11, <1>14
  <2>2. a + 1 \in 1..Len(q) /\ b + 1 \in 1..Len(q) /\ q[a + 1] = q[b + 1]
    BY <1>3, <1>11, <1>14, <2>1
  <2>3. a + 1 = b + 1
    BY <1>1, <2>2 DEF IsInjective
  <2> QED
    BY <2>3
<1>15. ASSUME NEW x \in S PROVE x \in Range(item) \ {NoPage}
  <2>1. PICK j \in 1..Len(q) : q[j] = x
    BY <1>1, ListElement
  <2>2. j - 1 \in 0..Entries /\ item[j - 1] = x
    <3>1. j - 1 \in 0..Entries /\ j - 1 < Len(q) /\ j - 1 + 1 = j
      BY <1>2, <1>3
    <3> QED
      BY <1>11, <2>1, <3>1
  <2>3. x # NoPage
    BY <1>2, <1>4, <2>1
  <2> QED
    BY <1>12, <2>2, <2>3 DEF Range
<1>16. ASSUME NEW x \in Range(item) \ {NoPage} PROVE x \in S
  <2>1. PICK n \in 0..Entries : item[n] = x
    BY <1>12 DEF Range
  <2>2. n + 1 \in 1..Len(q) /\ x = q[n + 1]
    BY <1>3, <1>11, <1>16, <2>1
  <2> QED
    BY <1>4, <2>2
<1>17. ASSUME NEW n \in 1..Entries, item[n] # NoPage PROVE mem.prev[item[n]] = item[n - 1]
  <2>1. n \in 0..Entries /\ n - 1 \in 0..Entries /\ n < Len(q)
    BY <1>2, <1>11, <1>17
  <2>2. item[n] = q[n + 1] /\ item[n - 1] = q[n] /\ n + 1 \in 2..Len(q)
    BY <1>3, <1>11, <2>1
  <2>3. mem.prev[q[n + 1]] = q[n + 1 - 1]
    BY <1>1, <2>2 DEF Chained
  <2>4. n + 1 - 1 = n
    BY <2>1
  <2> QED
    BY <2>2, <2>3, <2>4
<1>18. Range(item) \ {NoPage} = S
  BY <1>15, <1>16
<1> QED
  BY <1>13, <1>14, <1>17, <1>18 DEF item

-----------------------------------------------------------------------------
(* Blocks, with their orders, that cover U, share no page, and of which no *)
(* two could be merged.                                                    *)
Place(d) == d[1]..(d[1] + Pow2(d[2]) - 1)

Dissected(D, U) ==
  /\ D \subseteq Nat \X Level
  /\ \A d \in D : d[1] % Pow2(d[2]) = 0 /\ \A p \in Place(d) : p \in U
  /\ \A p \in U : \E d \in D : p \in Place(d)
  /\ \A d, e \in D : \A p \in Place(d) : p \in Place(e) => d = e
  /\ \A d \in D : d[2] # MaxOrder => <<Buddy(d[1], d[2]), d[2]>> \notin D

(* Where one of them has a block, another cannot have smaller ones.        *)
LEMMA NoFiner ==
  ASSUME NEW D, NEW E, NEW U, Dissected(D, U), Dissected(E, U),
         NEW a \in D, NEW c \in E, NEW x \in Place(a), x \in Place(c)
  PROVE  ~(a[2] < c[2])
<1> DEFINE Finer(d) == \E e \in E : d[2] < e[2] /\ \E p \in Place(d) : p \in Place(e)
           T == {d[2] : d \in {d \in D : Finer(d)}}
<1>1. Level = 0..MaxOrder /\ MaxOrder \in Nat
  BY Sizes
<1>2. ASSUME NEW d, d \in Nat \X Level
      PROVE  /\ d = <<d[1], d[2]>> /\ d[1] \in Nat /\ d[2] \in Level /\ d[2] \in Nat
             /\ Pow2(d[2]) \in Nat \ {0}
             /\ d[1] \in Place(d)
             /\ \A p \in Place(d) : p \in Nat
  <2>1. d = <<d[1], d[2]>> /\ d[1] \in Nat /\ d[2] \in Level /\ d[2] \in Nat
    BY <1>1, <1>2
  <2>2. Pow2(d[2]) \in Nat \ {0}
    BY <2>1, Powers
  <2> QED
    BY <2>1, <2>2 DEF Place
<1>3. /\ \A d \in D : d \in Nat \X Level /\ d[1] % Pow2(d[2]) = 0 /\ \A p \in Place(d) : p \in U
      /\ \A p \in U : \E d \in D : p \in Place(d)
      /\ \A d, e \in D : \A p \in Place(d) : p \in Place(e) => d = e
      /\ \A d \in D : d[2] # MaxOrder => <<Buddy(d[1], d[2]), d[2]>> \notin D
  BY DEF Dissected
<1>4. \A e \in E : e \in Nat \X Level /\ e[1] % Pow2(e[2]) = 0 /\ \A p \in Place(e) : p \in U
  BY DEF Dissected
<1> SUFFICES ASSUME a[2] < c[2] PROVE FALSE
  OBVIOUS
<1>5. PICK d \in D : Finer(d) /\ \A f \in D : Finer(f) => d[2] <= f[2]
  <2>1. a[2] \in T
    OBVIOUS
  <2>2. T \in SUBSET Nat
    BY <1>2, <1>3
  <2>3. PICK n \in T : \A m \in T : n <= m
    <3> HIDE DEF T
    <3> QED
      BY <2>1, <2>2, Least
  <2> QED
    BY <2>3
<1>6. PICK e \in E, p \in Place(d) : d[2] < e[2] /\ p \in Place(e)
  BY <1>5
<1> DEFINE i == d[1]
           j == d[2]
           b == Buddy(i, j)
           k == e[2]
<1>7. /\ d = <<i, j>> /\ i \in Nat /\ j \in Level /\ j \in Nat /\ i % Pow2(j) = 0 /\ p \in Nat
      /\ e[1] \in Nat /\ k \in Level /\ k \in Nat /\ e[1] % Pow2(k) = 0
      /\ Pow2(j) \in Nat \ {0} /\ Pow2(k) \in Nat \ {0}
      /\ i \in Place(d)
  BY <1>2, <1>3, <1>4, <1>6
<1>8. j + 1 \in Level /\ Pow2(j + 1) = 2 * Pow2(j) /\ j # MaxOrder /\ j + 1 <= k /\ j < k
  <2>1. j < k
    BY <1>6
  <2>2. j \in Level \ {MaxOrder} /\ j + 1 <= k
    BY <1>1, <1>7, <2>1
  <2> HIDE DEF j, k
  <2> QED
    BY <2>1, <2>2, Powers
<1> DEFINE low == IF i % (2 * Pow2(j)) = 0 THEN i ELSE b
<1>9. /\ b \in Nat /\ b # i /\ b % Pow2(j) = 0 /\ Buddy(b, j) = i
      /\ low \in Nat /\ low % Pow2(j + 1) = 0
      /\ (low = i /\ b = i + Pow2(j)) \/ (low = b /\ i = b + Pow2(j))
  <2> HIDE DEF i, j
  <2>1. /\ b \in Nat /\ b # i /\ b % Pow2(j) = 0 /\ Buddy(b, j) = i
        /\ i % (2 * Pow2(j)) = 0 => b = i + Pow2(j)
        /\ i % (2 * Pow2(j)) # 0 => b = i - Pow2(j) /\ b % (2 * Pow2(j)) = 0
    BY <1>7, BuddyFacts
  <2> HIDE DEF b
  <2>2. CASE i % (2 * Pow2(j)) = 0
    BY <1>7, <1>8, <2>1, <2>2
  <2>3. CASE i % (2 * Pow2(j)) # 0
    BY <1>7, <1>8, <2>1, <2>3
  <2> QED
    BY <2>2, <2>3
<1> HIDE DEF b, low, i, j, k
<1>10. p \in i..i + Pow2(j) - 1 /\ p \in low..low + Pow2(j + 1) - 1
  <2>1. p \in i..i + Pow2(j) - 1
    BY DEF Place, i, j
  <2> QED
    BY <1>7, <1>8, <1>9, <2>1
<1>11. e[1] <= low /\ low + Pow2(j + 1) <= e[1] + Pow2(k)
  <2>1. p \in e[1]..e[1] + Pow2(k) - 1
    BY <1>6 DEF Place, k
  <2> QED
    BY <1>7, <1>8, <1>9, <1>10, <2>1, Nested
<1>12. \A y \in b..b + Pow2(j) - 1 : y \in Place(e) /\ y \in Nat
  BY <1>7, <1>8, <1>9, <1>11 DEF Place, k
<1>13. b \in b..b + Pow2(j) - 1
  BY <1>7, <1>9
<1>14. b \in U
  BY <1>4, <1>12, <1>13
<1>15. PICK f \in D : b \in Place(f)
  BY <1>3, <1>14
<1>16. f = <<f[1], f[2]>> /\ f[1] \in Nat /\ f[2] \in Level /\ f[2] \in Nat /\ f[1] % Pow2(f[2]) = 0
       /\ Pow2(f[2]) \in Nat \ {0}
       /\ b \in f[1]..f[1] + Pow2(f[2]) - 1
  BY <1>2, <1>3, <1>15 DEF Place
<1>17. CASE f[2] < j
  <2>1. f[1] \in Place(f) /\ b <= f[1] /\ f[1] + Pow2(f[2]) <= b + Pow2(j)
    <3>1. f[2] <= j
      BY <1>17, <1>7, <1>16
    <3>2. b <= f[1] /\ f[1] + Pow2(f[2]) <= b + Pow2(j)
      BY <1>7, <1>9, <1>13, <1>16, <3>1, Nested
    <3> QED
      BY <1>2, <1>3, <3>2
  <2>2. f[1] \in Place(e)
    BY <1>7, <1>9, <1>12, <1>16, <2>1
  <2>3. f[2] < e[2]
    BY <1>7, <1>8, <1>16, <1>17 DEF k
  <2>4. Finer(f)
    BY <2>1, <2>2, <2>3
  <2> QED
    BY <1>5, <1>7, <1>16, <1>17, <2>4 DEF j
<1>18. CASE f[2] = j
  <2>1. f[1] <= b /\ b + Pow2(j) <= f[1] + Pow2(j)
    BY <1>7, <1>9, <1>13, <1>16, <1>18, Nested
  <2>2. f[1] = b
    BY <1>7, <1>9, <1>13, <1>16, <1>18, <2>1, Nested
  <2>3. f = <<b, j>>
    BY <1>16, <1>18, <2>2
  <2> QED
    BY <1>3, <1>8, <2>3 DEF b, i, j
<1>19. CASE j < f[2]
  <2>1. b \in low..low + Pow2(j + 1) - 1 /\ i \in low..low + Pow2(j + 1) - 1
    BY <1>7, <1>8, <1>9
  <2>2. f[1] <= low /\ low + Pow2(j + 1) <= f[1] + Pow2(f[2])
    <3>1. j + 1 <= f[2]
      BY <1>7, <1>16, <1>19
    <3> QED
      BY <1>8, <1>9, <1>16, <2>1, <3>1, Nested
  <2>3. i \in Place(f)
    BY <1>7, <1>8, <1>9, <1>16, <2>1, <2>2 DEF Place
  <2>4. d = f
    BY <1>3, <1>7, <2>3
  <2> QED
    BY <1>7, <1>19, <2>4 DEF j
<1> QED
  BY <1>7, <1>16, <1>17, <1>18, <1>19

(* So there is only one.                                                   *)
LEMMA OneDissection ==
  ASSUME NEW D, NEW E, NEW U, Dissected(D, U), Dissected(E, U)
  PROVE  D = E
<1>1. ASSUME NEW G, NEW H, Dissected(G, U), Dissected(H, U), NEW d \in G PROVE d \in H
  <2>1. d \in Nat \X Level /\ d[1] % Pow2(d[2]) = 0 /\ \A p \in Place(d) : p \in U
    BY <1>1 DEF Dissected
  <2>2. d = <<d[1], d[2]>> /\ d[1] \in Nat /\ d[2] \in Level /\ d[2] \in Nat
    BY <2>1, Sizes
  <2>3. Pow2(d[2]) \in Nat \ {0}
    BY <2>2, Powers
  <2>4. d[1] \in Place(d)
    BY <2>2, <2>3 DEF Place
  <2>5. PICK e \in H : d[1] \in Place(e)
    BY <1>1, <2>1, <2>4 DEF Dissected
  <2>6. e \in Nat \X Level /\ e[1] % Pow2(e[2]) = 0
    BY <1>1 DEF Dissected
  <2>7. e = <<e[1], e[2]>> /\ e[1] \in Nat /\ e[2] \in Level /\ e[2] \in Nat
    BY <2>6, Sizes
  <2>8. Pow2(e[2]) \in Nat \ {0}
    BY <2>7, Powers
  <2>9. ~(d[2] < e[2]) /\ ~(e[2] < d[2])
    BY <1>1, <2>4, <2>5, NoFiner
  <2>10. d[2] = e[2]
    BY <2>2, <2>7, <2>9
  <2>11. d[1] \in d[1]..d[1] + Pow2(d[2]) - 1 /\ d[1] \in e[1]..e[1] + Pow2(e[2]) - 1
    BY <2>4, <2>5 DEF Place
  <2>12. d[1] <= e[1] /\ e[1] <= d[1]
    <3>1. d[2] <= d[2] /\ e[2] <= e[2]
      BY <2>2, <2>7
    <3>2. d[1] <= e[1]
      BY <2>1, <2>2, <2>6, <2>7, <2>10, <2>11, <3>1, Nested
    <3>3. e[1] <= d[1]
      BY <2>2, <2>7, <2>8, <2>11
    <3> QED
      BY <3>2, <3>3
  <2>13. d[1] = e[1]
    BY <2>2, <2>7, <2>12
  <2> QED
    BY <2>2, <2>7, <2>10, <2>13
<1> QED
  BY <1>1

-----------------------------------------------------------------------------
(* The inductive invariant.  Every loop of page_init keeps the tiling; what*)
(* differs is how far it reaches, which pages are reserved, and where two  *)
(* blocks may be halves that nobody has merged.  It is claimed only as     *)
(* long as no range ended one page behind a block.                         *)
FieldsOK ==
  /\ mem \in Memory /\ mem.order[Entries] \in GuardOrders
  /\ pc \in {"init", "reserve_next", "split_start", "fill", "split_end", "lists",
             "ready", "failed", "corrupt"}
  /\ head \in 0..Entries
  /\ range \in Page \X Page
  /\ reserved \subseteq Ranges

(* Before the lists are made, with the pages R reserved.                   *)
Cut(m, R, X) ==
  /\ Tiling(m.order, m.status, {}, Entries)
  /\ Whole(m.order, m.status, {}, R)
  /\ Settled(m.order, m.status, X)

Unlisted == \A k \in Level : mem.list[k] = NoPage

(* The cursor of memory_reserve, and the part of its range that is done.   *)
Reserving ==
  /\ range[1] <= range[2] /\ range \in Ranges
  /\ PagesOf(range) \cap ReservedPages = {}
  /\ head \in HeadsOf(mem.order)

ReservedSoFar == ReservedPages \cup range[1]..head - 1

CutSoFar ==
  /\ Reserving /\ range[1] <= head /\ head <= range[2]
  /\ Cut(mem, ReservedSoFar, {head})

(* The block sizes fall: no larger block fits behind the cursor.           *)
Falling ==
  /\ head < Entries /\ reserved = {}
  /\ Tiling(mem.order, mem.status, {}, head) /\ Settled(mem.order, mem.status, {})
  /\ \A p \in 0..Entries : mem.status[p] = 0
  /\ \A p \in head..Entries - 1 : mem.order[p] = FREE
  /\ \A k \in Level : Pow2(k) <= Entries - head => head % Pow2(k) = 0
  /\ \A i \in HeadsOf(mem.order) : mem.order[i] = MaxOrder \/ Entries - head < Pow2(mem.order[i])

AtEdge ==
  \E i \in Blocks : mem.status[i] = 0 /\ i + Pow2(mem.order[i]) = Entries
                    /\ mem.order[i] = mem.order[Entries]

Initializing ==
  /\ pc \in {"init", "reserve_next", "split_start", "fill", "split_end", "lists"} =>
       DOMAIN held = {} /\ initial = {}
  /\ pc \in {"init", "reserve_next", "split_start", "fill", "split_end"} => Unlisted
  /\ pc = "init" => Falling
  /\ pc = "reserve_next" => Cut(mem, ReservedPages, {})
  /\ pc = "split_start" =>
       Reserving /\ range[1] \in Span(mem.order, head) /\ Cut(mem, ReservedPages, {head})
  /\ pc = "fill" => CutSoFar
  /\ pc = "split_end" => CutSoFar /\ range[2] < head + Pow2(mem.order[head])
  /\ pc = "lists" =>
       /\ head \in HeadsOf(mem.order) \cup {Entries}
       /\ Cut(mem, ReservedPages, {})
       /\ Lists(mem, FreeIn(mem, 0..head - 1))

Running ==
  /\ pc \in {"ready", "failed", "corrupt"} =>
       Good(mem, held, {}, ReservedPages) /\ Dissected(initial, Page \ ReservedPages)
  /\ pc = "corrupt" => AtEdge

IInv == boundary \in BOOLEAN /\ (~boundary => FieldsOK /\ Initializing /\ Running)

(* log2 picks the largest power that fits.                                 *)
LEMMA Log2Facts ==
  ASSUME NEW n \in Nat \ {0}
  PROVE  /\ Log2(n) \in Level /\ Pow2(Log2(n)) <= n
         /\ Log2(n) = MaxOrder \/ n < Pow2(Log2(n) + 1)
<1> DEFINE T == {MaxOrder - k : k \in {k \in Level : Pow2(k) <= n}}
           Fits(k) == Pow2(k) <= n /\ (k = MaxOrder \/ n < Pow2(k + 1))
<1>1. MaxOrder \in Nat /\ Level = 0..MaxOrder
  BY Sizes
<1>2. MaxOrder - 0 \in T
  <2>1. 0 \in Level /\ Pow2(0) <= n
    BY <1>1, Powers
  <2> QED
    BY <2>1
<1>3. T \in SUBSET Nat
  BY <1>1
<1>4. PICK t \in T : \A u \in T : t <= u
  <2> HIDE DEF T
  <2> QED
    BY <1>2, <1>3, Least
<1>5. PICK k \in Level : Pow2(k) <= n /\ t = MaxOrder - k
  BY <1>4
<1>6. Fits(k)
  <2>1. ASSUME k # MaxOrder, ~(n < Pow2(k + 1)) PROVE FALSE
    <3>1. k + 1 \in Level /\ Pow2(k + 1) \in Nat
      BY <1>1, <2>1, Powers
    <3>2. Pow2(k + 1) <= n
      BY <2>1, <3>1
    <3>3. MaxOrder - (k + 1) \in T
      BY <3>1, <3>2
    <3>4. MaxOrder - k <= MaxOrder - (k + 1)
      BY <1>4, <1>5, <3>3
    <3> QED
      BY <1>1, <3>1, <3>4
  <2> QED
    BY <1>5, <2>1
<1>7. n # 0 /\ Log2(n) = CHOOSE j \in Level : Fits(j)
  BY DEF Log2
<1> HIDE DEF Fits
<1>8. Log2(n) \in Level /\ Fits(Log2(n))
  BY <1>6, <1>7
<1> QED
  BY <1>8 DEF Fits

(* The invariant holds before page_init.                                   *)
LEMMA InitInv == Init => IInv
<1> SUFFICES ASSUME Init PROVE IInv
  OBVIOUS
<1>1. PICK guard \in GuardOrders :
        mem = [order |-> [p \in 0..Entries |-> IF p = Entries THEN guard ELSE FREE],
               status |-> [p \in 0..Entries |-> 0],
               list |-> [k \in Level |-> NoPage],
               next |-> [p \in Page |-> Junk],
               prev |-> [p \in Page |-> Junk]]
  BY DEF Init
<1> DEFINE o == mem.order
           s == mem.status
<1>2. Entries \in Nat \ {0} /\ Page = 0..Entries - 1 /\ GuardOrders \subseteq Int
  BY Sizes
<1>3. /\ o \in [0..Entries -> Int] /\ s \in [0..Entries -> {0, 1}]
      /\ o[Entries] = guard
      /\ \A p \in 0..Entries : s[p] = 0
      /\ \A p \in Page : o[p] = FREE
      /\ \A k \in Level : mem.list[k] = NoPage
  BY <1>1, <1>2 DEF FREE
<1>4. mem \in Memory
  BY <1>1, <1>2 DEF Memory, FREE
<1>5. HeadsOf(o) = {}
  BY <1>3 DEF HeadsOf, FREE
<1>6. /\ pc = "init" /\ head = 0 /\ range = <<0, 0>> /\ reserved = {} /\ boundary = FALSE
      /\ held = <<>> /\ initial = {}
  BY DEF Init
<1> HIDE DEF o, s
<1>7. FieldsOK
  BY <1>2, <1>3, <1>4, <1>6 DEF FieldsOK, o
<1>8. Falling
  <2>1. Tiling(o, s, {}, head) /\ Settled(o, s, {})
    BY <1>3, <1>5, <1>6 DEF Tiling, Table, Aligned, Marked, Covered, Settled
  <2>2. \A k \in Level : head % Pow2(k) = 0
    <3>1. \A k \in Level : Pow2(k) \in Nat \ {0}
      BY Powers
    <3> QED
      BY <1>6, <3>1
  <2> QED
    BY <1>2, <1>3, <1>5, <1>6, <2>1, <2>2 DEF Falling, o, s
<1>9. Unlisted /\ DOMAIN held = {}
  BY <1>3, <1>6 DEF Unlisted
<1> QED
  BY <1>6, <1>7, <1>8, <1>9 DEF IInv, Initializing, Running

-----------------------------------------------------------------------------
(* The steps.                                                              *)
StepKeeps == FieldsOK' /\ Initializing' /\ Running'

(* page_init appends a block as large as fits: it is aligned because the   *)
(* sizes fall.                                                             *)
LEMMA InitBlockKeeps ==
  ASSUME FieldsOK, Initializing, InitBlock
  PROVE  StepKeeps
<1> DEFINE o == mem.order
           s == mem.status
           left == Entries - head
           k == Log2(left)
           h == [Mark(o, Inside(head, k), FREE) EXCEPT ![head] = k]
           n == head + Pow2(k)
<1>1. /\ mem \in Memory /\ o[Entries] \in GuardOrders /\ head \in 0..Entries
      /\ range \in Page \X Page /\ reserved \subseteq Ranges
      /\ DOMAIN held = {} /\ initial = {} /\ Unlisted
      /\ head < Entries /\ reserved = {}
      /\ Tiling(o, s, {}, head) /\ Settled(o, s, {})
      /\ \A p \in 0..Entries : s[p] = 0
      /\ \A p \in head..Entries - 1 : o[p] = FREE
      /\ \A j \in Level : Pow2(j) <= Entries - head => head % Pow2(j) = 0
      /\ \A i \in HeadsOf(o) : o[i] = MaxOrder \/ Entries - head < Pow2(o[i])
  BY DEF FieldsOK, Initializing, Falling, InitBlock
<1>2. /\ mem' = [mem EXCEPT !.order = [Mark(@, Inside(head, k), FREE) EXCEPT ![head] = k]]
      /\ head' = n /\ pc' = IF head' < Entries THEN "init" ELSE "reserve_next"
      /\ UNCHANGED <<range, reserved, boundary, held, initial>>
  BY DEF InitBlock
<1>3. Entries \in Nat \ {0} /\ Page = 0..Entries - 1 /\ left \in Nat \ {0} /\ left = Entries - head /\ head \in Nat
  BY <1>1, Sizes
<1> HIDE DEF left
<1>4. k \in Level /\ Pow2(k) <= left /\ (k = MaxOrder \/ left < Pow2(k + 1)) /\ Pow2(k) \in Nat \ {0}
      /\ k \in Nat
  BY <1>3, Log2Facts, Powers, Sizes
<1> HIDE DEF k
<1>5. n \in Nat /\ head < n /\ n <= Entries /\ head % Pow2(k) = 0
  BY <1>1, <1>3, <1>4
<1>6. Appended(o, s, head, k, h)
  <2>1. head \in 0..Entries /\ head # Entries
    BY <1>1, <1>3
  <2>2. \A p \in head..Entries - 1 : o[p] = FREE /\ s[p] = 0
    BY <1>1, <1>3
  <2> QED
    BY <1>1, <1>4, <1>5, <2>1, <2>2 DEF Appended
<1>7. h \in [0..Entries -> Int]
  <2>1. o \in [0..Entries -> Int] /\ k \in Int /\ FREE \in Int
    BY <1>1, <1>4, MemoryFields DEF FREE
  <2> HIDE DEF o
  <2>2. Mark(o, Inside(head, k), FREE) \in [0..Entries -> Int]
    BY <2>1 DEF Mark
  <2> QED
    BY <2>1, <2>2
<1>8. mem' \in Memory /\ mem'.order = h /\ mem'.status = s /\ mem'.list = mem.list
  <2>1. mem' = [mem EXCEPT !.order = h]
    BY <1>2
  <2> HIDE DEF h
  <2> QED
    BY <1>1, <1>7, <2>1 DEF Memory
<1> HIDE DEF h
<1>9. Tiling(h, s, {}, n) /\ HeadsOf(h) = HeadsOf(o) \cup {head}
      /\ h[head] = k /\ \A p \in 0..Entries : p # head => h[p] = o[p]
  BY <1>6, Appending
<1>10. Settled(h, s, {})
  <2>1. k = MaxOrder \/ \A j \in HeadsOf(o) : o[j] # k
    BY <1>1, <1>3, <1>4
  <2> QED
    BY <1>1, <1>6, <2>1, SettledAppending
<1>11. \A i \in HeadsOf(o) : i \in 0..Entries /\ i # head
  BY <1>1, <1>3, HeadFacts DEF HeadsOf
<1>12. \A i \in HeadsOf(h) : h[i] = MaxOrder \/ Entries - n < Pow2(h[i])
  <2>1. ASSUME NEW i \in HeadsOf(o) PROVE h[i] = MaxOrder \/ Entries - n < Pow2(h[i])
    <3>1. h[i] = o[i] /\ (o[i] = MaxOrder \/ Entries - head < Pow2(o[i]))
      BY <1>1, <1>9, <1>11
    <3>2. Pow2(o[i]) \in Nat
      BY <1>1, HeadFacts
    <3> QED
      BY <1>3, <1>5, <3>1, <3>2
  <2>2. h[head] = MaxOrder \/ Entries - n < Pow2(h[head])
    <3>1. k # MaxOrder => k + 1 \in Level /\ Pow2(k + 1) = 2 * Pow2(k)
      BY <1>4, Powers
    <3> QED
      BY <1>3, <1>4, <1>9, <3>1
  <2> QED
    BY <1>9, <2>1, <2>2
<1>13. ASSUME NEW j \in Level, Pow2(j) <= Entries - n PROVE n % Pow2(j) = 0
  <2>1. j \in Nat /\ Pow2(j) \in Nat \ {0}
    BY Powers, Sizes
  <2>2. j <= k
    <3>1. ASSUME k < j PROVE FALSE
      <4>1. 2 * Pow2(k) <= Pow2(j)
        BY <1>4, <3>1, PowersGrow
      <4>2. k # MaxOrder
        BY <3>1, <2>1, <1>4, Sizes
      <4>3. Pow2(k + 1) = 2 * Pow2(k)
        BY <1>4, <4>2, Powers
      <4> QED
        BY <1>3, <1>4, <1>13, <2>1, <4>1, <4>2, <4>3
    <3> QED
      BY <1>4, <2>1, <3>1
  <2>3. head % Pow2(j) = 0
    BY <1>1, <1>3, <1>4, <1>13, <2>1
  <2>4. PICK q \in Nat \ {0} : Pow2(k) = q * Pow2(j)
    BY <1>4, <2>2, PowersDivide
  <2>5. PICK r \in Nat : head = r * Pow2(j)
    BY <1>3, <2>1, <2>3, IsMultiple
  <2>6. n = (r + q) * Pow2(j) /\ r + q \in Nat
    BY <2>1, <2>4, <2>5
  <2> QED
    BY <2>1, <2>6, MultipleIs
<1>14. h[Entries] \in GuardOrders
  BY <1>1, <1>3, <1>9
<1> HIDE DEF n
<1>15. FieldsOK'
  <2>1. head' \in 0..Entries /\ pc' \in {"init", "reserve_next"}
    BY <1>2, <1>3, <1>5
  <2>2. mem' \in Memory /\ mem'.order[Entries] \in GuardOrders
    BY <1>8, <1>14
  <2> QED
    BY <1>1, <1>2, <2>1, <2>2 DEF FieldsOK
<1>16. Unlisted'
  BY <1>1, <1>8 DEF Unlisted
<1>17. CASE n < Entries
  <2>1. Falling'
    <3>1. \A p \in n..Entries - 1 : h[p] = FREE
      BY <1>1, <1>3, <1>5, <1>9
    <3> QED
      BY <1>1, <1>2, <1>8, <1>9, <1>10, <1>12, <1>13, <1>17, <3>1 DEF Falling
  <2> QED
    BY <1>1, <1>2, <1>15, <1>16, <1>17, <2>1 DEF StepKeeps, Initializing, Running
<1>18. CASE ~(n < Entries)
  <2>1. n = Entries
    BY <1>3, <1>5, <1>18
  <2>2. Whole(h, s, {}, {})
    BY <1>1, <1>9, Sizes DEF Whole, HeadsOf
  <2>3. ReservedPages' = {}
    BY <1>1, <1>2 DEF ReservedPages
  <2>4. Cut(mem, ReservedPages, {})'
    BY <1>8, <1>9, <1>10, <2>1, <2>2, <2>3 DEF Cut
  <2> QED
    BY <1>1, <1>2, <1>15, <1>16, <1>18, <2>4 DEF StepKeeps, Initializing, Running
<1> QED
  BY <1>17, <1>18

-----------------------------------------------------------------------------
(* memory_reserve halves a free block ...                                  *)
HalvesCut(m, R, X, i, k, u, d) ==
  /\ m \in Memory /\ Cut(m, R, X)
  /\ i \in HeadsOf(m.order) /\ X \subseteq {i} /\ m.order[i] # 0 /\ m.status[i] = 0
  /\ k = m.order[i] - 1 /\ u = i + Pow2(k) /\ d = Halve(m, i)

CutHalved(m, R, i, k, u, d) ==
  /\ d \in Memory /\ d.list = m.list
  /\ d.order[Entries] = m.order[Entries]
  /\ d.status[i] = 0 /\ d.status[u] = 0
  /\ Cut(d, R, {i}) /\ Cut(d, R, {u})
  /\ i \in HeadsOf(d.order) /\ u \in HeadsOf(d.order)
  /\ d.order[i] = k /\ d.order[u] = k /\ k \in Level
  /\ Pow2(m.order[i]) = 2 * Pow2(k) /\ Pow2(k) \in Nat \ {0}

(* What is free and unlisted may be halved at any time.                    *)
LEMMA HalveCut ==
  ASSUME NEW m, NEW R, NEW X, NEW i, NEW k, NEW u, NEW d, HalvesCut(m, R, X, i, k, u, d)
  PROVE  CutHalved(m, R, i, k, u, d)
<1> DEFINE o == m.order
           s == m.status
           h == [o EXCEPT ![i] = k, ![u] = k]
           A == {}
           n == Entries
<1>0. /\ m \in Memory /\ Cut(m, R, X) /\ i \in HeadsOf(o) /\ X \subseteq {i}
      /\ o[i] # 0 /\ s[i] = 0
      /\ k = o[i] - 1 /\ u = i + Pow2(k) /\ d = Halve(m, i)
  BY DEF HalvesCut
<1>1. /\ o \in [0..Entries -> Int] /\ s \in [0..Entries -> {0, 1}]
      /\ Entries \in 0..Entries /\ Entries \notin Page
      /\ \A p \in Page : p \in 0..Entries
  BY <1>0, MemoryFields
<1>2. Tiling(o, s, A, n) /\ Whole(o, s, A, R) /\ Settled(o, s, X) /\ i \in HeadsOf(o) /\ n \in 0..Entries
  BY <1>0, <1>1 DEF Cut
<1>3. d = [m EXCEPT !.order = h, !.status = [s EXCEPT ![i] = 0, ![u] = 0]]
  BY <1>0 DEF Halve
<1>4. n = Entries /\ A = {} /\ k = o[i] - 1 /\ u = i + Pow2(k) /\ h = [o EXCEPT ![i] = k, ![u] = k]
      /\ o = m.order /\ s = m.status
  BY <1>0
<1>5. o[i] # 0 /\ s[i] = 0
  BY <1>0
<1> HIDE DEF o, s, A, n, h
<1>6. Halved(o, s, A, n, i, k, u, h)
  BY <1>2, <1>4, <1>5 DEF Halved
<1>7. /\ Tiling(h, s, A, n)
      /\ HeadsOf(h) = HeadsOf(o) \cup {u}
      /\ u \in Page \ HeadsOf(o) /\ s[u] = 0
      /\ h[i] = k /\ h[u] = k /\ k \in Level
      /\ \A p \in 0..Entries : p # i /\ p # u => h[p] = o[p]
      /\ Pow2(o[i]) = 2 * Pow2(k) /\ Pow2(k) \in Nat \ {0}
  BY <1>6, Halving
<1>8. Whole(h, s, A, R)
  BY <1>2, <1>6, WholeHalving
<1>9. Settled(h, s, {i}) /\ Settled(h, s, {u})
  <2>1. X \subseteq {i} /\ Settled(o, s, X)
    BY <1>0, <1>2
  <2> QED
    BY <1>6, <2>1, SettledHalving
<1>10. [s EXCEPT ![i] = 0, ![u] = 0] = s
  <2>1. s[i] = 0 /\ s[u] = 0
    BY <1>5, <1>7
  <2> QED
    BY <1>1, <2>1
<1>11. h \in [0..Entries -> Int]
  BY <1>7 DEF Tiling, Table
<1>12. d \in Memory /\ d.order = h /\ d.status = s /\ d.list = m.list
  <2>1. m \in Memory
    BY <1>0
  <2> QED
    BY <1>1, <1>3, <1>10, <1>11, <2>1 DEF Memory
<1>13. h[Entries] = o[Entries]
  <2>1. i \in Page
    BY <1>2 DEF HeadsOf
  <2> QED
    BY <1>1, <1>7, <2>1
<1>14. Cut(d, R, {i}) /\ Cut(d, R, {u})
  BY <1>4, <1>7, <1>8, <1>9, <1>12 DEF Cut
<1> QED
  BY <1>2, <1>4, <1>5, <1>7, <1>12, <1>13, <1>14 DEF CutHalved

(* ... and takes a block for the range.                                    *)
TakesCut(m, R, X, i, Q, d) ==
  /\ m \in Memory /\ Cut(m, R, X)
  /\ i \in HeadsOf(m.order) /\ X \subseteq {i}
  /\ \A p : p \in Q <=> p \in R \/ p \in Span(m.order, i)
  /\ d = TakeBlock(m, i, RESERVED)

CutTaken(m, Q, d) ==
  /\ d \in Memory /\ d.list = m.list
  /\ d.order[Entries] = m.order[Entries]
  /\ Cut(d, Q, {})
  /\ HeadsOf(d.order) = HeadsOf(m.order)
  /\ \A j \in HeadsOf(m.order) : d.order[j] = m.order[j]

(* Then the pages of the block are reserved, and no others.                *)
LEMMA TakeCut ==
  ASSUME NEW m, NEW R, NEW X, NEW i, NEW Q, NEW d, TakesCut(m, R, X, i, Q, d)
  PROVE  CutTaken(m, Q, d)
<1> DEFINE o == m.order
           s == m.status
           t == [s EXCEPT ![i] = 1]
           h == Mark(o, Inside(i, o[i]), RESERVED)
           A == {}
           n == Entries
           v == 1
<1>0. /\ m \in Memory /\ Cut(m, R, X) /\ i \in HeadsOf(o) /\ X \subseteq {i}
      /\ \A p : p \in Q <=> p \in R \/ p \in Span(o, i)
      /\ d = TakeBlock(m, i, RESERVED)
  BY DEF TakesCut
<1>1. /\ o \in [0..Entries -> Int] /\ s \in [0..Entries -> {0, 1}]
      /\ Entries \in 0..Entries /\ Entries \notin Page
      /\ \A p \in Page : p \in 0..Entries
  BY <1>0, MemoryFields
<1>2. Tiling(o, s, A, n) /\ Whole(o, s, A, R) /\ Settled(o, s, X) /\ i \in HeadsOf(o) /\ n \in 0..Entries
  BY <1>0, <1>1 DEF Cut
<1>3. d = [m EXCEPT !.order = h, !.status = t]
  BY <1>0 DEF TakeBlock
<1>4. i \in Page /\ i \in 0..Entries
  BY <1>1, <1>2 DEF HeadsOf
<1>5. t \in [0..Entries -> {0, 1}] /\ t[i] = 1
  <2> HIDE DEF s
  <2> QED
    BY <1>1, <1>4
<1>6. Remarked(o, s, A, n, i, v, A, t, h)
  <2>1. MarkIn(t, A, i) = RESERVED
    <3> HIDE DEF t
    <3> QED
      BY <1>5 DEF MarkIn
  <2> QED
    BY <1>2, <2>1 DEF Remarked
<1>7. v = 1 /\ A = {} /\ o = m.order /\ s = m.status /\ n = Entries
  OBVIOUS
<1>8. \A p : p \in Q <=> p \in R \/ p \in Span(o, i)
  BY <1>0
<1> HIDE DEF o, s, t, h, A, n, v
<1>9. /\ Tiling(h, t, A, n)
      /\ HeadsOf(h) = HeadsOf(o)
      /\ \A j \in HeadsOf(o) : h[j] = o[j]
  BY <1>6, Remarking
<1>10. Whole(h, t, A, Q)
  <2>1. \A p \in Span(o, i) : p \in Q <=> v = 1 /\ i \notin A
    BY <1>7, <1>8
  <2>2. \A p : p \notin Span(o, i) => (p \in Q <=> p \in R)
    BY <1>8
  <2> QED
    BY <1>2, <1>6, <2>1, <2>2, WholeRemarking
<1>11. Settled(h, t, {})
  <2>1. Settled(h, t, IF v = 1 THEN {} ELSE {i})
    <3>1. X \subseteq {i} /\ Settled(o, s, X)
      BY <1>0, <1>2
    <3> QED
      BY <1>6, <3>1, SettledRemarking
  <2> QED
    BY <1>7, <2>1
<1>12. h \in [0..Entries -> Int]
  BY <1>9 DEF Tiling, Table
<1>13. d \in Memory /\ d.order = h /\ d.status = t /\ d.list = m.list
  <2>1. m \in Memory
    BY <1>0
  <2> QED
    BY <1>3, <1>5, <1>12, <2>1 DEF Memory
<1>14. h[Entries] = o[Entries]
  BY <1>6, <1>7, RemarkedFree
<1>15. Cut(d, Q, {})
  BY <1>7, <1>9, <1>10, <1>11, <1>13 DEF Cut
<1> QED
  BY <1>7, <1>9, <1>13, <1>14, <1>15 DEF CutTaken

-----------------------------------------------------------------------------
(* memory_reserve goes back to the block with the first page.              *)
LEMMA StartReserveKeeps ==
  ASSUME FieldsOK, Initializing, NEW r \in Ranges, StartReserve(r)
  PROVE  StepKeeps
<1> DEFINE o == mem.order
           s == mem.status
           A == {}
           n == Entries
           Found(h) == o[h] # FREE /\ \A p \in (h + 1)..r[1] : o[p] = FREE
<1>1. /\ mem \in Memory /\ o[Entries] \in GuardOrders /\ reserved \subseteq Ranges
      /\ DOMAIN held = {} /\ initial = {} /\ Unlisted
      /\ Cut(mem, ReservedPages, {})
      /\ r[1] <= r[2] /\ PagesOf(r) \cap ReservedPages = {}
      /\ head' = CHOOSE h \in 0..r[1] : Found(h)
      /\ range' = r /\ pc' = "split_start"
      /\ UNCHANGED <<mem, reserved, boundary, held, initial>>
  BY DEF StartReserve, FieldsOK, Initializing
<1>2. r \in Page \X Page /\ r[1] \in Page /\ r[2] \in Page
  BY Sizes
<1>3. Tiling(o, s, A, n) /\ Whole(o, s, A, ReservedPages) /\ Settled(o, s, {}) /\ n \in 0..Entries
  BY <1>1, Sizes DEF Cut
<1>4. \A p \in 0..Entries : p \in Nat /\ \A q \in Page : p \in Nat /\ q \in Nat /\ q \in 0..n - 1 /\ q \in 0..Entries
  BY Sizes
<1>5. A = {} /\ n = Entries
  OBVIOUS
<1> HIDE DEF o, s, A, n
<1>6. PICK i \in HeadsOf(o) : r[1] \in Span(o, i)
  BY <1>2, <1>3, <1>4, <1>5, Sizes DEF Tiling, Covered
<1>7. /\ i \in Nat /\ i \in Page /\ o[i] \in Level /\ o[i] \in Nat /\ Pow2(o[i]) \in Nat \ {0}
      /\ i + Pow2(o[i]) <= n
  BY <1>3, HeadFacts
<1>8. r[1] \in Nat /\ i <= r[1] /\ r[1] < i + Pow2(o[i])
  BY <1>2, <1>4, <1>6, <1>7, Sizes DEF Span
<1>9. s[i] = 0
  <2>1. r[1] \in PagesOf(r)
    BY <1>1, <1>2, Sizes DEF PagesOf
  <2>2. r[1] \notin ReservedPages
    BY <1>1, <2>1
  <2>3. ~(s[i] = 1)
    BY <1>3, <1>5, <1>6, <2>2 DEF Whole
  <2>4. s[i] \in {0, 1}
    BY <1>3, HeadFacts
  <2> QED
    BY <2>3, <2>4
<1>10. \A p \in Inside(i, o[i]) : o[p] = FREE
  BY <1>3, <1>9 DEF Tiling, Marked, MarkIn
<1>11. Found(i) /\ i \in 0..r[1]
  <2>1. o[i] # FREE
    BY <1>7 DEF FREE
  <2>2. \A p \in (i + 1)..r[1] : p \in Inside(i, o[i])
    BY <1>7, <1>8 DEF Inside
  <2> QED
    BY <1>7, <1>8, <1>10, <2>1, <2>2
<1>12. ASSUME NEW h \in 0..r[1], Found(h) PROVE h = i
  <2>1. ~(h < i)
    <3>1. h < i => i \in (h + 1)..r[1]
      BY <1>7, <1>8
    <3> QED
      BY <1>7, <1>12, <3>1 DEF FREE
  <2>2. ~(h > i)
    <3>1. h > i => h \in Inside(i, o[i])
      BY <1>7, <1>8 DEF Inside
    <3> QED
      BY <1>10, <1>12, <3>1
  <2> QED
    BY <1>7, <1>8, <2>1, <2>2
<1> HIDE DEF Found
<1>13. head' = i
  BY <1>1, <1>11, <1>12
<1>14. FieldsOK'
  BY <1>1, <1>2, <1>4, <1>7, <1>13 DEF FieldsOK, o
<1>15. Reserving'
  BY <1>1, <1>2, <1>6, <1>13 DEF Reserving, ReservedPages, o
<1>16. Cut(mem, ReservedPages, {head})'
  <2>1. Settled(o, s, {i})
    BY <1>3 DEF Settled
  <2> QED
    BY <1>1, <1>3, <1>5, <1>13, <2>1 DEF Cut, ReservedPages, o, s
<1>17. (range[1] \in Span(mem.order, head))'
  BY <1>1, <1>6, <1>13 DEF o
<1>18. Unlisted'
  BY <1>1 DEF Unlisted
<1> QED
  BY <1>1, <1>14, <1>15, <1>16, <1>17, <1>18 DEF StepKeeps, Initializing, Running

(* Its first loop halves the block with the first page.                    *)
LEMMA SplitStartKeeps ==
  ASSUME FieldsOK, Initializing, SplitStart
  PROVE  StepKeeps
<1> DEFINE o == mem.order
           s == mem.status
           k == o[head] - 1
           u == head + Pow2(k)
           d == Halve(mem, head)
           e == d.order
           X == {head}
           R == ReservedPages
<1>1. /\ mem \in Memory /\ o[Entries] \in GuardOrders /\ reserved \subseteq Ranges
      /\ range \in Page \X Page
      /\ DOMAIN held = {} /\ initial = {} /\ Unlisted
      /\ Reserving /\ range[1] \in Span(o, head) /\ Cut(mem, R, X)
      /\ pc = "split_start" /\ pc' = pc /\ head # range[1]
      /\ mem' = d /\ head' = IF u > range[1] THEN head ELSE u
      /\ UNCHANGED <<range, reserved, boundary, held, initial>>
  BY DEF SplitStart, FieldsOK, Initializing
<1>2. /\ head \in HeadsOf(o)
      /\ range[1] <= range[2] /\ range \in Ranges /\ PagesOf(range) \cap ReservedPages = {}
  BY <1>1 DEF Reserving
<1>3. Tiling(o, s, {}, Entries) /\ Whole(o, s, {}, R) /\ Entries \in 0..Entries
  BY <1>1, Sizes DEF Cut
<1>4. head \in Nat /\ head \in Page /\ s[head] \in {0, 1}
  BY <1>2, <1>3, HeadFacts
<1>5. range[1] \in Nat /\ range[2] \in Nat
  BY <1>1, Sizes
<1>6. o[head] # 0
  BY <1>1, <1>4, <1>5, Powers DEF Span
<1>7. s[head] = 0
  <2>1. range[1] \in PagesOf(range)
    BY <1>2, <1>5 DEF PagesOf
  <2>2. range[1] \notin R
    BY <1>2, <2>1
  <2>3. ~(s[head] = 1)
    BY <1>1, <1>2, <1>3, <2>2 DEF Whole
  <2> QED
    BY <1>4, <2>3
<1>8. X = {head} /\ X \subseteq {head}
  OBVIOUS
<1>20. HalvesCut(mem, R, X, head, k, u, d)
  BY <1>1, <1>2, <1>6, <1>7, <1>8 DEF HalvesCut
<1> HIDE DEF R, X, k, u, d
<1>9. /\ d \in Memory /\ d.list = mem.list /\ e[Entries] = o[Entries]
      /\ Cut(d, R, {head}) /\ Cut(d, R, {u})
      /\ head \in HeadsOf(e) /\ u \in HeadsOf(e)
      /\ e[head] = k /\ e[u] = k
      /\ Pow2(o[head]) = 2 * Pow2(k) /\ Pow2(k) \in Nat \ {0}
  <2>1. CutHalved(mem, R, head, k, u, d)
    BY <1>20, HalveCut
  <2> QED
    BY <2>1 DEF CutHalved
<1>10. head <= range[1] /\ range[1] < head + Pow2(o[head])
  BY <1>1, <1>4, <1>5, <1>9 DEF Span
<1>21. u = head + Pow2(k)
  BY DEF u
<1> HIDE DEF o, s
<1>11. Cut(d, R, {head'}) /\ head' \in HeadsOf(e)
  BY <1>1, <1>9
<1>12. range[1] \in Span(e, head')
  BY <1>1, <1>4, <1>5, <1>9, <1>10, <1>21 DEF Span
<1>13. head' \in 0..Entries
  BY <1>3, <1>11, Sizes DEF HeadsOf
<1>14. FieldsOK'
  BY <1>1, <1>9, <1>13 DEF FieldsOK
<1>15. Unlisted'
  BY <1>1, <1>9 DEF Unlisted
<1>16. ReservedPages' = R
  BY <1>1 DEF ReservedPages, R
<1>17. Reserving'
  BY <1>1, <1>2, <1>11, <1>16 DEF Reserving, PagesOf, R
<1>18. Cut(mem', ReservedPages', {head'})
  BY <1>1, <1>11, <1>16
<1>19. Cut(mem, ReservedPages, {head})' /\ (range[1] \in Span(mem.order, head))'
  BY <1>1, <1>12, <1>18
<1> QED
  BY <1>1, <1>14, <1>15, <1>17, <1>19 DEF StepKeeps, Initializing, Running

(* The cursor stands before the first page.                                *)
LEMMA StartFillKeeps ==
  ASSUME FieldsOK, Initializing, StartFill
  PROVE  StepKeeps
<1>1. /\ DOMAIN held = {} /\ initial = {} /\ Unlisted
      /\ Reserving /\ Cut(mem, ReservedPages, {head})
      /\ range \in Page \X Page
      /\ head = range[1] /\ pc' = "fill"
      /\ UNCHANGED <<mem, head, range, reserved, boundary, held, initial>>
  BY DEF StartFill, FieldsOK, Initializing
<1>2. FieldsOK'
  BY <1>1 DEF FieldsOK
<1>3. Unlisted'
  BY <1>1 DEF Unlisted
<1>4. ReservedSoFar = ReservedPages
  <2>1. range[1]..head - 1 = {}
    BY <1>1, Sizes
  <2> QED
    BY <2>1 DEF ReservedSoFar
<1>5. CutSoFar
  BY <1>1, <1>4, Sizes DEF CutSoFar, Reserving
<1>6. CutSoFar'
  BY <1>1, <1>5 DEF CutSoFar, ReservedSoFar, Cut, Reserving, ReservedPages, PagesOf
<1> QED
  BY <1>1, <1>2, <1>3, <1>6 DEF StepKeeps, Initializing, Running

(* The last page is in the block of the cursor, or right behind it.        *)
LEMMA StartSplitEndKeeps ==
  ASSUME FieldsOK, Initializing, StartSplitEnd, ~boundary'
  PROVE  StepKeeps
<1>1. /\ mem \in Memory /\ DOMAIN held = {} /\ initial = {} /\ Unlisted /\ CutSoFar
      /\ range \in Page \X Page
      /\ head + Pow2(mem.order[head]) >= range[2]
      /\ head + Pow2(mem.order[head]) # range[2]
      /\ pc' = "split_end"
      /\ UNCHANGED <<mem, head, range, reserved, held, initial>>
  BY DEF StartSplitEnd, FieldsOK, Initializing
<1>2. FieldsOK'
  BY <1>1 DEF FieldsOK
<1>3. Unlisted'
  BY <1>1 DEF Unlisted
<1>4. CutSoFar'
  BY <1>1 DEF CutSoFar, ReservedSoFar, Cut, Reserving, ReservedPages, PagesOf
<1>5. Tiling(mem.order, mem.status, {}, Entries) /\ head \in HeadsOf(mem.order) /\ Entries \in 0..Entries
  BY <1>1, Sizes DEF CutSoFar, Cut, Reserving
<1>6. head \in Nat /\ Pow2(mem.order[head]) \in Nat
  BY <1>5, HeadFacts
<1>7. range[2] < head + Pow2(mem.order[head])
  BY <1>1, <1>6, Sizes
<1> QED
  BY <1>1, <1>2, <1>3, <1>4, <1>7 DEF StepKeeps, Initializing, Running

-----------------------------------------------------------------------------
(* The block of the cursor is not reserved yet.                            *)
LEMMA CursorFacts ==
  ASSUME FieldsOK, CutSoFar
  PROVE  /\ mem \in Memory /\ head \in HeadsOf(mem.order)
         /\ Tiling(mem.order, mem.status, {}, Entries) /\ Entries \in 0..Entries
         /\ head \in Nat /\ Pow2(mem.order[head]) \in Nat \ {0}
         /\ head + Pow2(mem.order[head]) <= Entries
         /\ range[1] \in Nat /\ range[2] \in Nat /\ range[2] < Entries
         /\ range[1] <= head /\ head <= range[2]
         /\ mem.status[head] = 0
<1>1. /\ mem \in Memory /\ head \in HeadsOf(mem.order) /\ range \in Page \X Page
      /\ Tiling(mem.order, mem.status, {}, Entries) /\ Entries \in 0..Entries
      /\ Whole(mem.order, mem.status, {}, ReservedSoFar)
      /\ range[1] <= head /\ head <= range[2]
      /\ PagesOf(range) \cap ReservedPages = {}
  BY Sizes DEF FieldsOK, CutSoFar, Cut, Reserving
<1>2. /\ head \in Nat /\ Pow2(mem.order[head]) \in Nat \ {0}
      /\ head + Pow2(mem.order[head]) <= Entries
      /\ mem.status[head] \in {0, 1} /\ head \in Span(mem.order, head)
  BY <1>1, HeadFacts
<1>3. range[1] \in Nat /\ range[2] \in Nat /\ range[2] < Entries
  BY <1>1, Sizes
<1>4. head \notin ReservedSoFar
  <2>1. head \in PagesOf(range)
    BY <1>1, <1>2, <1>3 DEF PagesOf
  <2>2. head \notin range[1]..head - 1
    BY <1>2, <1>3
  <2> QED
    BY <1>1, <2>1, <2>2 DEF ReservedSoFar
<1>5. ~(mem.status[head] = 1)
  BY <1>1, <1>2, <1>4 DEF Whole
<1> QED
  BY <1>1, <1>2, <1>3, <1>5

(* Its second loop takes a block that ends before the last page.           *)
LEMMA FillKeeps ==
  ASSUME FieldsOK, Initializing, Fill
  PROVE  StepKeeps
<1> DEFINE o == mem.order
           s == mem.status
           d == TakeBlock(mem, head, RESERVED)
           n == head + Pow2(o[head])
           X == {head}
           R == ReservedSoFar
           Q == ReservedPages \cup range[1]..n - 1
<1>1. /\ o[Entries] \in GuardOrders /\ reserved \subseteq Ranges
      /\ range \in Page \X Page
      /\ DOMAIN held = {} /\ initial = {} /\ Unlisted
      /\ CutSoFar /\ Reserving /\ Cut(mem, R, X)
      /\ n < range[2] /\ pc = "fill" /\ pc' = pc
      /\ mem' = d /\ head' = n
      /\ UNCHANGED <<range, reserved, boundary, held, initial>>
  BY DEF Fill, FieldsOK, Initializing, CutSoFar
<1>2. /\ mem \in Memory /\ head \in HeadsOf(o)
      /\ Tiling(o, s, {}, Entries) /\ Entries \in 0..Entries
      /\ head \in Nat /\ Pow2(o[head]) \in Nat \ {0}
      /\ range[1] \in Nat /\ range[2] \in Nat /\ range[2] < Entries
      /\ range[1] <= head
  BY <1>1, CursorFacts
<1>3. \A p : p \in Q <=> p \in R \/ p \in Span(o, head)
  <2>1. \A p : p \in range[1]..n - 1 <=> p \in range[1]..head - 1 \/ p \in head..n - 1
    BY <1>2
  <2>2. Span(o, head) = head..n - 1
    BY <1>2 DEF Span
  <2> QED
    BY <2>1, <2>2 DEF ReservedSoFar
<1>4. TakesCut(mem, R, X, head, Q, d)
  <2>1. X \subseteq {head}
    OBVIOUS
  <2> HIDE DEF X, R, Q
  <2> QED
    BY <1>1, <1>2, <1>3, <2>1 DEF TakesCut
<1> HIDE DEF d, Q
<1>5. CutTaken(mem, Q, d)
  BY <1>4, TakeCut
<1>6. /\ d \in Memory /\ d.list = mem.list /\ d.order[Entries] = o[Entries]
      /\ Cut(d, Q, {}) /\ HeadsOf(d.order) = HeadsOf(o)
  BY <1>5 DEF CutTaken
<1>7. n \in HeadsOf(o)
  <2>1. n < Entries
    BY <1>1, <1>2
  <2> HIDE DEF o
  <2> QED
    BY <1>2, <2>1, NextBlock
<1>8. n \in Nat /\ n \in 0..Entries /\ range[1] <= n /\ n <= range[2]
  BY <1>1, <1>2
<1> HIDE DEF n
<1>9. FieldsOK'
  BY <1>1, <1>6, <1>8 DEF FieldsOK
<1>10. Unlisted'
  BY <1>1, <1>6 DEF Unlisted
<1>11. Cut(d, Q, {n})
  BY <1>6 DEF Cut, Settled
<1>12. ReservedSoFar' = Q
  BY <1>1 DEF ReservedSoFar, ReservedPages, Q
<1>13. Reserving'
  BY <1>1, <1>6, <1>7 DEF Reserving, ReservedPages, PagesOf
<1>14. Cut(mem', ReservedSoFar', {head'})
  BY <1>1, <1>11, <1>12
<1>15. CutSoFar'
  BY <1>1, <1>8, <1>13, <1>14 DEF CutSoFar
<1> QED
  BY <1>1, <1>9, <1>10, <1>15 DEF StepKeeps, Initializing, Running

(* Its third loop halves the block with the last page.                     *)
LEMMA SplitEndKeeps ==
  ASSUME FieldsOK, Initializing, SplitEnd
  PROVE  StepKeeps
<1> DEFINE o == mem.order
           k == o[head] - 1
           u == head + Pow2(k)
           d == Halve(mem, head)
           e == TakeBlock(d, head, RESERVED)
           X == {head}
           R == ReservedSoFar
           Q == ReservedPages \cup range[1]..u - 1
<1>1. /\ o[Entries] \in GuardOrders /\ reserved \subseteq Ranges
      /\ range \in Page \X Page
      /\ DOMAIN held = {} /\ initial = {} /\ Unlisted
      /\ CutSoFar /\ Reserving /\ Cut(mem, R, X)
      /\ range[2] < head + Pow2(o[head]) /\ head + Pow2(o[head]) - 1 # range[2]
      /\ pc = "split_end" /\ pc' = pc
      /\ IF range[2] >= u THEN mem' = e /\ head' = u ELSE mem' = d /\ head' = head
      /\ UNCHANGED <<range, reserved, boundary, held, initial>>
  BY DEF SplitEnd, FieldsOK, Initializing, CutSoFar
<1>2. /\ mem \in Memory /\ head \in HeadsOf(o)
      /\ head \in Nat /\ Pow2(o[head]) \in Nat \ {0}
      /\ range[1] \in Nat /\ range[2] \in Nat /\ range[2] < Entries
      /\ range[1] <= head /\ head <= range[2]
      /\ mem.status[head] = 0
  BY <1>1, CursorFacts
<1>3. o[head] # 0
  BY <1>1, <1>2, Powers
<1>4. HalvesCut(mem, R, X, head, k, u, d)
  <2>1. X \subseteq {head}
    OBVIOUS
  <2> HIDE DEF X, R
  <2> QED
    BY <1>1, <1>2, <1>3, <2>1 DEF HalvesCut
<1>5. u = head + Pow2(k)
  OBVIOUS
<1> HIDE DEF d, k, u
<1>6. CutHalved(mem, R, head, k, u, d)
  BY <1>4, HalveCut
<1>7. /\ d \in Memory /\ d.list = mem.list /\ d.order[Entries] = o[Entries]
      /\ Cut(d, R, {head})
      /\ head \in HeadsOf(d.order) /\ u \in HeadsOf(d.order)
      /\ d.order[head] = k /\ d.order[u] = k
      /\ Pow2(o[head]) = 2 * Pow2(k) /\ Pow2(k) \in Nat \ {0}
  BY <1>6 DEF CutHalved
<1>8. CASE range[2] >= u
  <2>1. mem' = e /\ head' = u
    BY <1>1, <1>8
  <2>2. \A p : p \in Q <=> p \in R \/ p \in Span(d.order, head)
    <3>1. \A p : p \in range[1]..u - 1 <=> p \in range[1]..head - 1 \/ p \in head..u - 1
      BY <1>2, <1>5, <1>7
    <3>2. Span(d.order, head) = head..u - 1
      <4>1. Span(d.order, head) = head..(head + Pow2(d.order[head]) - 1)
        BY DEF Span
      <4>2. d.order[head] = k
        BY <1>7
      <4> QED
        BY <1>2, <1>5, <1>7, <4>1, <4>2
    <3> QED
      BY <3>1, <3>2 DEF ReservedSoFar
  <2>3. TakesCut(d, R, X, head, Q, e)
    <3>1. X = {head} /\ X \subseteq {head}
      OBVIOUS
    <3> HIDE DEF X, R, Q
    <3> QED
      BY <1>7, <2>2, <3>1 DEF TakesCut
  <2> HIDE DEF e, Q
  <2>4. CutTaken(d, Q, e)
    BY <2>3, TakeCut
  <2>5. /\ e \in Memory /\ e.list = mem.list /\ e.order[Entries] = o[Entries]
        /\ Cut(e, Q, {}) /\ u \in HeadsOf(e.order)
        /\ e.order[u] = k
    BY <1>7, <2>4 DEF CutTaken
  <2>6. u \in Nat /\ u \in 0..Entries /\ range[1] <= u /\ u <= range[2]
    BY <1>2, <1>5, <1>7, <1>8, Sizes
  <2>7. FieldsOK'
    BY <1>1, <2>1, <2>5, <2>6 DEF FieldsOK
  <2>8. Unlisted'
    BY <1>1, <2>1, <2>5 DEF Unlisted
  <2>9. Cut(e, Q, {u})
    BY <2>5 DEF Cut, Settled
  <2>10. ReservedSoFar' = Q
    BY <1>1, <2>1 DEF ReservedSoFar, ReservedPages, Q
  <2>11. Reserving'
    BY <1>1, <2>1, <2>5 DEF Reserving, ReservedPages, PagesOf
  <2>12. Cut(mem', ReservedSoFar', {head'})
    BY <2>1, <2>9, <2>10
  <2>13. CutSoFar'
    BY <1>1, <2>1, <2>6, <2>11, <2>12 DEF CutSoFar
  <2>14. range[2] < u + Pow2(e.order[u])
    BY <1>1, <1>2, <1>5, <1>7, <2>5, <2>6
  <2>15. (range[2] < head + Pow2(mem.order[head]))'
    BY <1>1, <2>1, <2>14
  <2> QED
    BY <1>1, <2>7, <2>8, <2>13, <2>15 DEF StepKeeps, Initializing, Running
<1>9. CASE ~(range[2] >= u)
  <2>1. mem' = d /\ head' = head
    BY <1>1, <1>9
  <2>2. FieldsOK'
    BY <1>1, <1>2, <1>7, <2>1, Sizes DEF FieldsOK
  <2>3. Unlisted'
    BY <1>1, <1>7, <2>1 DEF Unlisted
  <2>4. ReservedSoFar' = R
    BY <1>1, <2>1 DEF ReservedSoFar, ReservedPages
  <2>5. Reserving'
    BY <1>1, <1>7, <2>1 DEF Reserving, ReservedPages, PagesOf
  <2>6. Cut(mem', ReservedSoFar', {head'})
    BY <1>7, <2>1, <2>4
  <2>7. CutSoFar'
    BY <1>1, <1>2, <2>1, <2>5, <2>6 DEF CutSoFar
  <2>8. range[2] < head + Pow2(d.order[head])
    BY <1>2, <1>5, <1>7, <1>9
  <2>9. (range[2] < head + Pow2(mem.order[head]))'
    BY <1>1, <2>1, <2>8
  <2> QED
    BY <1>1, <2>2, <2>3, <2>7, <2>9 DEF StepKeeps, Initializing, Running
<1> QED
  BY <1>8, <1>9

(* It takes the block that ends with the last page.                        *)
LEMMA EndReserveKeeps ==
  ASSUME FieldsOK, Initializing, EndReserve
  PROVE  StepKeeps
<1> DEFINE o == mem.order
           d == TakeBlock(mem, head, RESERVED)
           X == {head}
           R == ReservedSoFar
           Q == ReservedPages \cup PagesOf(range)
<1>1. /\ o[Entries] \in GuardOrders /\ reserved \subseteq Ranges
      /\ range \in Page \X Page /\ head \in 0..Entries
      /\ DOMAIN held = {} /\ initial = {} /\ Unlisted
      /\ CutSoFar /\ range \in Ranges /\ Cut(mem, R, X)
      /\ head + Pow2(o[head]) - 1 = range[2]
      /\ mem' = d /\ reserved' = reserved \cup {range} /\ pc' = "reserve_next"
      /\ UNCHANGED <<head, range, boundary, held, initial>>
  BY DEF EndReserve, FieldsOK, Initializing, CutSoFar, Reserving
<1>2. /\ mem \in Memory /\ head \in HeadsOf(o)
      /\ head \in Nat /\ Pow2(o[head]) \in Nat \ {0}
      /\ range[1] \in Nat /\ range[2] \in Nat
      /\ range[1] <= head
  BY <1>1, CursorFacts
<1>3. \A p : p \in Q <=> p \in R \/ p \in Span(o, head)
  <2>1. \A p : p \in range[1]..range[2] <=> p \in range[1]..head - 1 \/ p \in head..range[2]
    BY <1>1, <1>2
  <2>2. Span(o, head) = head..range[2]
    BY <1>1 DEF Span
  <2> QED
    BY <2>1, <2>2 DEF ReservedSoFar, PagesOf
<1>4. TakesCut(mem, R, X, head, Q, d)
  <2>1. X \subseteq {head}
    OBVIOUS
  <2> HIDE DEF X, R, Q
  <2> QED
    BY <1>1, <1>2, <1>3, <2>1 DEF TakesCut
<1>5. ReservedPages' = Q
  BY <1>1 DEF ReservedPages
<1> HIDE DEF d, Q
<1>6. CutTaken(mem, Q, d)
  BY <1>4, TakeCut
<1>7. /\ d \in Memory /\ d.list = mem.list /\ d.order[Entries] = o[Entries]
      /\ Cut(d, Q, {})
  BY <1>6 DEF CutTaken
<1>8. FieldsOK'
  BY <1>1, <1>7 DEF FieldsOK
<1>9. Unlisted'
  BY <1>1, <1>7 DEF Unlisted
<1>10. Cut(mem, ReservedPages, {})'
  BY <1>1, <1>5, <1>7
<1> QED
  BY <1>1, <1>8, <1>9, <1>10 DEF StepKeeps, Initializing, Running

-----------------------------------------------------------------------------
(* page_init goes back to page 0 and starts with empty lists.              *)
LEMMA StartListsKeeps ==
  ASSUME FieldsOK, Initializing, StartLists
  PROVE  StepKeeps
<1> DEFINE o == mem.order
           s == mem.status
           G == FreeIn(mem, 0..-1)
<1>1. /\ mem \in Memory /\ range \in Page \X Page
      /\ DOMAIN held = {} /\ initial = {} /\ Unlisted
      /\ Cut(mem, ReservedPages, {})
      /\ head' = 0 /\ pc' = "lists"
      /\ UNCHANGED <<mem, range, reserved, boundary, held, initial>>
  BY DEF StartLists, FieldsOK, Initializing
<1>2. Tiling(o, s, {}, Entries) /\ Entries \in 0..Entries /\ 0 \in 0..Entries - 1
  BY <1>1, Sizes DEF Cut
<1>3. 0 \in HeadsOf(o)
  <2> HIDE DEF o, s
  <2>1. PICK i \in HeadsOf(o) : 0 \in Span(o, i)
    BY <1>2 DEF Tiling, Covered
  <2>2. i \in Nat
    BY <1>2, HeadFacts
  <2>3. i = 0
    BY <2>1, <2>2 DEF Span
  <2> QED
    BY <2>1, <2>3
<1>4. Lists(mem, G)
  <2>1. 0..-1 = {}
    OBVIOUS
  <2>2. G \in [Level -> SUBSET Page] /\ \A k \in Level : G[k] = {}
    BY <2>1 DEF FreeIn
  <2>3. \A k \in Level : Linked(mem, k, {})
    BY <1>1, LinkedEmpty DEF Unlisted
  <2> HIDE DEF G
  <2> QED
    BY <2>2, <2>3 DEF Lists
<1>5. FieldsOK'
  BY <1>1, Sizes DEF FieldsOK
<1>6. Cut(mem, ReservedPages, {})'
  BY <1>1 DEF Cut, ReservedPages
<1>7. (head \in HeadsOf(mem.order) \cup {Entries})'
  BY <1>1, <1>3
<1>8. Lists(mem, FreeIn(mem, 0..head - 1))'
  <2>1. 0 - 1 = -1
    OBVIOUS
  <2>2. head' - 1 = -1
    BY <1>1, <2>1
  <2>3. mem' = mem
    BY <1>1
  <2> QED
    BY <1>4, <2>2, <2>3
<1> QED
  BY <1>1, <1>5, <1>6, <1>7, <1>8 DEF StepKeeps, Initializing, Running

(* A free block enters the list of its order.                              *)
LEMMA ListBlockKeeps ==
  ASSUME FieldsOK, Initializing, ListBlock
  PROVE  StepKeeps
<1> DEFINE o == mem.order
           s == mem.status
           A == {}
           k == o[head]
           n == head + Pow2(o[head])
           L == 0..head - 1
           M == 0..n - 1
           G == FreeIn(mem, L)
           d == AddItem(mem, head)
<1>1. /\ mem \in Memory /\ o[Entries] \in GuardOrders /\ range \in Page \X Page
      /\ reserved \subseteq Ranges
      /\ DOMAIN held = {} /\ initial = {}
      /\ Cut(mem, ReservedPages, {}) /\ Lists(mem, G)
      /\ head \in HeadsOf(o) \cup {Entries} /\ head < Entries
      /\ pc = "lists" /\ head' = n
      /\ IF s[head] = 0 /\ o[head] < 0
         THEN pc' = "corrupt" /\ UNCHANGED mem
         ELSE pc' = pc /\ mem' = IF s[head] = 0 THEN d ELSE mem
      /\ UNCHANGED <<range, reserved, boundary, held, initial>>
  BY DEF ListBlock, FieldsOK, Initializing
<1>2. Tiling(o, s, A, Entries) /\ Entries \in 0..Entries /\ Entries \in Nat /\ Page = 0..Entries - 1
  BY <1>1, Sizes DEF Cut
<1>3. head \in HeadsOf(o)
  BY <1>1, <1>2
<1> HIDE DEF A
<1>4. /\ head \in Nat /\ head \in Page /\ k \in Level /\ k \in Nat /\ Pow2(k) \in Nat \ {0}
      /\ n <= Entries /\ s[head] \in {0, 1}
  BY <1>2, <1>3, HeadFacts
<1>5. /\ pc' = "lists" /\ mem' = IF s[head] = 0 THEN d ELSE mem
  BY <1>1, <1>4
<1>6. n \in HeadsOf(o) \cup {Entries} /\ n \in 0..Entries
  <2>1. n \in Nat
    BY <1>4
  <2>2. n < Entries => n \in HeadsOf(o)
    <3> HIDE DEF o, s
    <3> QED
      BY <1>2, <1>3, NextBlock
  <2> HIDE DEF n
  <2> QED
    BY <1>2, <1>4, <2>1, <2>2
<1>7. L \in SUBSET Page /\ M \in SUBSET Page
  BY <1>2, <1>4
<1>8. \A i \in Page : i \in M <=> i \in L \/ i = head \/ i \in Inside(head, k)
  BY <1>2, <1>4 DEF Inside
<1>9. \A i \in Inside(head, k) : \A j \in Level : o[i] # j
  <2> HIDE DEF o, s
  <2>1. \A i \in Inside(head, k) : i \notin HeadsOf(o) /\ i \in Page
    BY <1>2, <1>3, InsideFacts
  <2> QED
    BY <2>1, Sizes DEF HeadsOf
<1>10. \A j \in Level : \A i : i \in G[j] <=> i \in L /\ o[i] = j /\ s[i] = 0
  <2> HIDE DEF L, G, o, s
  <2>1. /\ FreeIn(mem, L) \in [Level -> SUBSET Page]
        /\ \A j \in Level : \A i : i \in FreeIn(mem, L)[j] <=> i \in L /\ mem.order[i] = j /\ mem.status[i] = 0
    BY <1>7, FreeInFacts
  <2> QED
    BY <2>1 DEF G, o, s
<1>11. G \in [Level -> SUBSET Page]
  BY <1>1 DEF Lists
<1>12. head \notin L /\ head \notin Inside(head, k)
  BY <1>4 DEF Inside
<1>13. mem' \in Memory /\ mem'.order = o /\ mem'.status = s /\ Lists(mem', FreeIn(mem', M))
  <2>1. CASE s[head] = 0
    <3> DEFINE H == [G EXCEPT ![k] = G[k] \cup {head}]
    <3>1. \A j \in Level : head \notin G[j]
      <4> HIDE DEF G, L
      <4> QED
        BY <1>10, <1>12
    <3> HIDE DEF G, M, L, n
    <3>2. /\ d \in Memory /\ d.order = o /\ d.status = s /\ Lists(d, H)
      BY <1>1, <1>4, <3>1, AddLists
    <3> HIDE DEF d, k, o, s
    <3>3. H \in [Level -> SUBSET Page]
      BY <1>4, <1>11
    <3>4. ASSUME NEW j \in Level, NEW i \in Page
          PROVE  i \in H[j] <=> i \in M /\ d.order[i] = j /\ d.status[i] = 0
      <4>1. i \in H[j] <=> i \in G[j] \/ (j = k /\ i = head)
        BY <1>11, <3>4
      <4>2. i \in M <=> i \in L \/ i = head \/ i \in Inside(head, k)
        BY <1>8, <3>4
      <4>3. i \in G[j] <=> i \in L /\ o[i] = j /\ s[i] = 0
        BY <1>10, <3>4
      <4>4. i \in Inside(head, k) => o[i] # j
        BY <1>9, <3>4
      <4>5. o[head] = k
        BY DEF k, o
      <4> HIDE DEF H
      <4> QED
        BY <2>1, <3>2, <4>1, <4>2, <4>3, <4>4, <4>5
    <3> HIDE DEF H
    <3>5. FreeIn(d, M) = H
      BY <1>7, <3>3, <3>4, SameFreeIn
    <3>6. mem' = d
      BY <1>5, <2>1
    <3> QED
      BY <3>2, <3>5, <3>6
  <2>2. CASE s[head] # 0
    <3>1. mem' = mem
      BY <1>5, <2>2
    <3> HIDE DEF G, M, L, n, k
    <3>2. ASSUME NEW j \in Level, NEW i \in Page
          PROVE  i \in G[j] <=> i \in M /\ mem.order[i] = j /\ mem.status[i] = 0
      <4>1. i \in M <=> i \in L \/ i = head \/ i \in Inside(head, k)
        BY <1>8, <3>2
      <4>2. i \in G[j] <=> i \in L /\ o[i] = j /\ s[i] = 0
        BY <1>10, <3>2
      <4>3. i \in Inside(head, k) => o[i] # j
        BY <1>9, <3>2
      <4> QED
        BY <2>2, <4>1, <4>2, <4>3
    <3>3. FreeIn(mem, M) = G
      BY <1>7, <1>11, <3>2, SameFreeIn
    <3> QED
      BY <1>1, <3>1, <3>3
  <2> QED
    BY <2>1, <2>2
<1>14. M = 0..head' - 1
  BY <1>1
<1> HIDE DEF d, G, L, M, n
<1>15. FieldsOK'
  BY <1>1, <1>5, <1>6, <1>13 DEF FieldsOK
<1>16. Cut(mem, ReservedPages, {})'
  <2>1. ReservedPages' = ReservedPages
    BY <1>1 DEF ReservedPages
  <2> QED
    BY <1>1, <1>13, <2>1 DEF Cut
<1>17. (head \in HeadsOf(mem.order) \cup {Entries})'
  BY <1>1, <1>6, <1>13
<1>18. Lists(mem, FreeIn(mem, 0..head - 1))'
  BY <1>13, <1>14
<1> QED
  BY <1>1, <1>5, <1>15, <1>16, <1>17, <1>18 DEF StepKeeps, Initializing, Running

(* The free blocks dissect what is not reserved, if nobody holds any.      *)
LEMMA FreeDissected ==
  ASSUME NEW R, Cut(mem, R, {})
  PROVE  Dissected(FreeBlocks, Page \ R)
<1> DEFINE o == mem.order
           s == mem.status
           A == {}
           n == Entries
           X == {}
<1>1. Tiling(o, s, A, n) /\ Whole(o, s, A, R) /\ Settled(o, s, X) /\ n \in 0..Entries
  BY Sizes DEF Cut
<1>2. X = {} /\ A = {} /\ Entries = n /\ n \in Nat /\ Page = 0..n - 1
  BY Sizes
<1>3. FreeBlocks = {<<i, o[i]>> : i \in {p \in HeadsOf(o) : s[p] = 0}}
  BY DEF FreeBlocks, HeadsOf
<1> HIDE DEF o, s, A, n, X
<1>4. ASSUME NEW e \in FreeBlocks
      PROVE  \E i \in HeadsOf(o) : s[i] = 0 /\ e = <<i, o[i]>> /\ e[1] = i /\ e[2] = o[i]
  BY <1>3, <1>4
<1>5. \A i \in HeadsOf(o) :
        /\ i \in Nat /\ o[i] \in Level /\ i % Pow2(o[i]) = 0 /\ s[i] \in {0, 1}
        /\ \A p \in Span(o, i) : p \in Page
  BY <1>1, HeadFacts
<1>6. FreeBlocks \subseteq Nat \X Level
  BY <1>3, <1>5
<1>7. \A i \in HeadsOf(o) : Place(<<i, o[i]>>) = Span(o, i)
  BY DEF Place, Span
<1>8. ASSUME NEW e \in FreeBlocks
      PROVE  e[1] % Pow2(e[2]) = 0 /\ \A p \in Place(e) : p \in Page \ R
  <2>1. PICK i \in HeadsOf(o) : s[i] = 0 /\ e = <<i, o[i]>> /\ e[1] = i /\ e[2] = o[i]
    BY <1>4, <1>8
  <2>2. \A p \in Span(o, i) : p \in Page /\ p \notin R
    BY <1>1, <1>5, <2>1 DEF Whole
  <2>3. Place(e) = Span(o, i)
    BY <1>7, <2>1
  <2> QED
    BY <1>5, <2>1, <2>2, <2>3
<1>9. ASSUME NEW p \in Page \ R
      PROVE  \E e \in FreeBlocks : p \in Place(e)
  <2>1. PICK i \in HeadsOf(o) : p \in Span(o, i)
    BY <1>1, <1>2, <1>9 DEF Tiling, Covered
  <2>2. s[i] = 0
    <3>1. ~(s[i] = 1)
      BY <1>1, <1>2, <1>9, <2>1 DEF Whole
    <3> QED
      BY <1>5, <3>1
  <2>3. <<i, o[i]>> \in FreeBlocks
    BY <1>3, <2>2
  <2> QED
    BY <1>7, <2>1, <2>3
<1>10. ASSUME NEW e \in FreeBlocks, NEW f \in FreeBlocks, NEW p \in Place(e), p \in Place(f)
       PROVE  e = f
  <2>1. PICK i \in HeadsOf(o) : s[i] = 0 /\ e = <<i, o[i]>>
    BY <1>4, <1>10
  <2>2. PICK j \in HeadsOf(o) : s[j] = 0 /\ f = <<j, o[j]>>
    BY <1>4, <1>10
  <2>3. p \in Span(o, i) /\ p \in Span(o, j)
    BY <1>7, <1>10, <2>1, <2>2
  <2>4. i = j
    BY <1>1, <2>3, OneBlock
  <2> QED
    BY <2>1, <2>2, <2>4
<1>11. ASSUME NEW e \in FreeBlocks, e[2] # MaxOrder, <<Buddy(e[1], e[2]), e[2]>> \in FreeBlocks
       PROVE  FALSE
  <2>1. PICK i \in HeadsOf(o) : s[i] = 0 /\ e[1] = i /\ e[2] = o[i]
    BY <1>4, <1>11
  <2> DEFINE b == Buddy(i, o[i])
  <2>2. <<b, o[i]>> \in FreeBlocks
    BY <1>11, <2>1
  <2> HIDE DEF b
  <2>3. PICK j \in HeadsOf(o) : s[j] = 0 /\ <<b, o[i]>> = <<j, o[j]>>
    BY <1>4, <2>2
  <2>4. b = j /\ o[b] = o[i]
    BY <2>3
  <2>5. Pair(o, s, i, b)
    BY <1>11, <2>1, <2>3, <2>4 DEF Pair, b
  <2>6. b \in HeadsOf(o)
    BY <2>3, <2>4
  <2> QED
    BY <1>1, <1>2, <2>1, <2>5, <2>6 DEF Settled
<1> QED
  BY <1>6, <1>8, <1>9, <1>10, <1>11 DEF Dissected

(* page_init ends.                                                         *)
LEMMA EndInitKeeps ==
  ASSUME FieldsOK, Initializing, EndInit
  PROVE  StepKeeps
<1>1. /\ mem \in Memory /\ mem.order[Entries] \in GuardOrders
      /\ DOMAIN held = {}
      /\ Cut(mem, ReservedPages, {})
      /\ Lists(mem, FreeIn(mem, 0..head - 1))
      /\ head \in 0..Entries /\ head >= Entries
      /\ pc' = "ready" /\ initial' = FreeBlocks
      /\ UNCHANGED <<mem, head, range, reserved, boundary, held>>
  BY DEF EndInit, FieldsOK, Initializing
<1>2. 0..head - 1 = Page
  BY <1>1, Sizes
<1>3. Kept(mem.order, mem.status, held)
  BY <1>1 DEF Kept
<1>4. Good(mem, held, {}, ReservedPages)
  BY <1>1, <1>2, <1>3 DEF Good, Cut
<1>5. Dissected(FreeBlocks, Page \ ReservedPages)
  BY <1>1, FreeDissected
<1>6. ReservedPages' = ReservedPages
  BY <1>1 DEF ReservedPages
<1>7. FieldsOK'
  BY <1>1 DEF FieldsOK
<1>8. Good(mem, held, {}, ReservedPages)' /\ Dissected(initial, Page \ ReservedPages)'
  <2>1. mem' = mem /\ held' = held /\ initial' = FreeBlocks
    BY <1>1
  <2> QED
    BY <1>4, <1>5, <1>6, <2>1
<1> QED
  BY <1>1, <1>7, <1>8 DEF StepKeeps, Initializing, Running

-----------------------------------------------------------------------------
(* page_allocate.                                                          *)
LEMMA AllocateKeeps ==
  ASSUME FieldsOK, Running, NEW level \in Levels, Allocate(level)
  PROVE  StepKeeps
<1> DEFINE R == ReservedPages
           i == mem.list[level]
           e == Divide(mem, level + 1)
           j == e.list[level]
           Given(p) == [q \in DOMAIN held \cup {p} |-> IF q = p THEN level ELSE held[q]]
           X == {}
<1>1. /\ head \in 0..Entries /\ range \in Page \X Page /\ reserved \subseteq Ranges
      /\ pc = "ready"
      /\ Good(mem, held, X, R) /\ Dissected(initial, Page \ R)
      /\ UNCHANGED <<head, range, reserved, boundary, initial>>
  BY DEF Allocate, FieldsOK, Running
<1>2. level \in Level /\ level \in Nat /\ MaxOrder \in Nat /\ Level = 0..MaxOrder
  BY Sizes
<1>3. ReservedPages' = R
  BY <1>1 DEF ReservedPages
<1>4. X = {} /\ X \subseteq {i}
  OBVIOUS
<1> HIDE DEF R, X
<1>5. pc' \in {"ready", "failed"} /\ Good(mem', held', {}, R)
  <2>1. CASE /\ mem.list[level] # NoPage
             /\ Hand(mem, level)
             /\ UNCHANGED pc
    <3>1. mem' = PopItem(TakeBlock(mem, i, ALLOCATED), level) /\ held' = Given(i)
      BY <2>1 DEF Hand
    <3>2. Good(PopItem(TakeBlock(mem, i, ALLOCATED), level), Given(i), {}, R)
      BY <1>1, <1>2, <1>4, <2>1, HandGood
    <3> QED
      BY <1>1, <2>1, <3>1, <3>2
  <2>2. CASE /\ mem.list[level] = NoPage
             /\ level < MaxOrder
             /\ Sources(mem, level + 1) # {}
             /\ Hand(Divide(mem, level + 1), level)
             /\ UNCHANGED pc
    <3>1. level + 1 \in Level \ {0} /\ (level + 1) - 1 = level
      BY <1>2, <2>2
    <3>2. mem' = PopItem(TakeBlock(e, j, ALLOCATED), level) /\ held' = Given(j)
      BY <2>2 DEF Hand
    <3>3. Good(mem, held, {}, R)
      BY <1>1, <1>4
    <3>4. Good(e, held, {e.list[(level + 1) - 1]}, R) /\ e.list[(level + 1) - 1] # NoPage
      BY <2>2, <3>1, <3>3, DivideEnds
    <3> DEFINE Y == {j}
    <3>5. Good(e, held, Y, R) /\ j # NoPage /\ Y \subseteq {j}
      BY <3>1, <3>4
    <3> HIDE DEF e, Y
    <3>6. Good(PopItem(TakeBlock(e, j, ALLOCATED), level), Given(j), {}, R)
      BY <1>2, <3>5, HandGood
    <3> QED
      BY <1>1, <2>2, <3>2, <3>6
  <2>3. CASE /\ mem.list[level] = NoPage
             /\ level < MaxOrder
             /\ Sources(mem, level + 1) = {}
             /\ pc' = "failed"
             /\ UNCHANGED <<mem, held>>
    <3>1. mem' = mem /\ held' = held
      BY <2>3
    <3> QED
      BY <1>1, <1>4, <2>3, <3>1
  <2> QED
    BY <2>1, <2>2, <2>3 DEF Allocate
<1>6. mem' \in Memory /\ mem'.order[Entries] \in GuardOrders
  BY <1>5 DEF Good
<1>7. FieldsOK'
  BY <1>1, <1>5, <1>6 DEF FieldsOK
<1>8. Good(mem, held, {}, ReservedPages)' /\ Dissected(initial, Page \ ReservedPages)'
  <2>1. initial' = initial
    BY <1>1
  <2> QED
    BY <1>1, <1>3, <1>5, <2>1
<1> QED
  BY <1>5, <1>7, <1>8 DEF StepKeeps, Initializing, Running

(* page_free.                                                              *)
LEMMA FreeKeeps ==
  ASSUME FieldsOK, Running, NEW i \in Page, Free(i)
  PROVE  StepKeeps
<1> DEFINE R == ReservedPages
           freed == [AddItem(mem, i) EXCEPT
                       !.order = Mark(@, Inside(i, mem.order[i]), FREE),
                       !.status = [@ EXCEPT ![i] = 0]]
           e == Merge(freed, i)
           kept == [p \in DOMAIN held \ {i} |-> held[p]]
           X == {}
           past == CanMerge(e.m, e.at) /\ Buddy(e.at, e.m.order[e.at]) = Entries
<1>1. /\ head \in 0..Entries /\ range \in Page \X Page /\ reserved \subseteq Ranges
      /\ pc = "ready" /\ i \in DOMAIN held
      /\ Good(mem, held, X, R) /\ Dissected(initial, Page \ R)
      /\ mem' = e.m /\ held' = kept
      /\ pc' = IF past THEN "corrupt" ELSE pc
      /\ UNCHANGED <<head, range, reserved, boundary, initial>>
  BY DEF Free, FieldsOK, Running
<1>2. ReservedPages' = R
  BY <1>1 DEF ReservedPages
<1>3. X = {}
  OBVIOUS
<1> HIDE DEF R, X
<1>4. Merging(freed, i, kept, R)
  BY <1>1, <1>3, FreeMerging
<1> HIDE DEF freed, kept
<1>5. Merging(e.m, e.at, kept, R) /\ Stuck(e.m, e.at)
  BY <1>4, MergeEnds
<1> HIDE DEF e
<1>6. Good(e.m, kept, {}, R)
  BY <1>5, Merged
<1>7. past => AtEdge'
  <2> SUFFICES ASSUME past PROVE AtEdge'
    OBVIOUS
  <2> DEFINE o == e.m.order
             s == e.m.status
             a == e.at
             A == DOMAIN kept
             P == Pow2(o[a])
  <2>1. /\ Tiling(o, s, A, Entries) /\ a \in HeadsOf(o) /\ s[a] = 0
    BY <1>5 DEF Merging, Good
  <2>2. o[a] = o[Buddy(a, o[a])] /\ Buddy(a, o[a]) = Entries
    BY DEF CanMerge
  <2> HIDE DEF o, s, A, a
  <2>3. /\ a \in Nat /\ a \in Page /\ o[a] \in Level /\ P \in Nat \ {0} /\ a % P = 0
    BY <2>1, HeadFacts, Sizes
  <2>4. \/ Buddy(a, o[a]) = a + P
        \/ Buddy(a, o[a]) = a - P
    BY <2>3, BuddyFacts
  <2>5. Entries \in Nat /\ a < Entries
    BY <2>3, Sizes
  <2>6. a + P = Entries
    BY <2>2, <2>3, <2>4, <2>5
  <2>7. mem'.order = o /\ mem'.status = s
    BY <1>1 DEF o, s
  <2>8. a \in Blocks'
    BY <2>1, <2>7 DEF Blocks, HeadsOf
  <2> QED
    BY <2>1, <2>2, <2>6, <2>7, <2>8 DEF AtEdge
<1>8. mem' \in Memory /\ mem'.order[Entries] \in GuardOrders
  BY <1>1, <1>6 DEF Good
<1>9. pc' \in {"ready", "corrupt"} /\ (pc' = "corrupt" => past)
  <2> HIDE DEF past
  <2> QED
    BY <1>1
<1> HIDE DEF past
<1>10. FieldsOK'
  BY <1>1, <1>8, <1>9 DEF FieldsOK
<1>11. Good(mem, held, {}, ReservedPages)' /\ Dissected(initial, Page \ ReservedPages)'
  <2>1. initial' = initial
    BY <1>1
  <2> QED
    BY <1>1, <1>2, <1>6, <2>1
<1> QED
  BY <1>7, <1>9, <1>10, <1>11 DEF StepKeeps, Initializing, Running

-----------------------------------------------------------------------------
(* The invariant is inductive.                                             *)
LEMMA NextInv ==
  ASSUME IInv, [Next]_vars
  PROVE  IInv'
<1>1. boundary' \in BOOLEAN /\ (~boundary' => ~boundary)
  <2>1. boundary \in BOOLEAN
    BY DEF IInv
  <2>2. CASE UNCHANGED boundary
    BY <2>1, <2>2
  <2>3. CASE StartSplitEnd
    BY <2>1, <2>3 DEF StartSplitEnd
  <2> QED
    BY <2>2, <2>3 DEF Next, vars, InitBlock, StartReserve, SplitStart, StartFill, Fill, SplitEnd,
       EndReserve, StartLists, ListBlock, EndInit, Allocate, Free
<1>2. ASSUME ~boundary' PROVE StepKeeps
  <2>1. FieldsOK /\ Initializing /\ Running
    BY <1>1, <1>2 DEF IInv
  <2>2. CASE InitBlock
    BY <2>1, <2>2, InitBlockKeeps
  <2>3. ASSUME NEW r \in Ranges, StartReserve(r) PROVE StepKeeps
    BY <2>1, <2>3, StartReserveKeeps
  <2>4. CASE SplitStart
    BY <2>1, <2>4, SplitStartKeeps
  <2>5. CASE StartFill
    BY <2>1, <2>5, StartFillKeeps
  <2>6. CASE Fill
    BY <2>1, <2>6, FillKeeps
  <2>7. CASE StartSplitEnd
    BY <1>2, <2>1, <2>7, StartSplitEndKeeps
  <2>8. CASE SplitEnd
    BY <2>1, <2>8, SplitEndKeeps
  <2>9. CASE EndReserve
    BY <2>1, <2>9, EndReserveKeeps
  <2>10. CASE StartLists
    BY <2>1, <2>10, StartListsKeeps
  <2>11. CASE ListBlock
    BY <2>1, <2>11, ListBlockKeeps
  <2>12. CASE EndInit
    BY <2>1, <2>12, EndInitKeeps
  <2>13. ASSUME NEW level \in Levels, Allocate(level) PROVE StepKeeps
    BY <2>1, <2>13, AllocateKeeps
  <2>14. ASSUME NEW i \in Page, Free(i) PROVE StepKeeps
    BY <2>1, <2>14, FreeKeeps
  <2>15. CASE UNCHANGED vars
    <3>1. FieldsOK'
      BY <2>1, <2>15 DEF FieldsOK, vars
    <3>2. mem' = mem /\ pc' = pc /\ head' = head /\ range' = range /\ reserved' = reserved
          /\ held' = held /\ initial' = initial
      BY <2>15 DEF vars
    <3>3. ReservedPages' = ReservedPages /\ ReservedSoFar' = ReservedSoFar
      BY <3>2 DEF ReservedSoFar, ReservedPages
    <3>4. Reserving' <=> Reserving
      BY <3>2, <3>3 DEF Reserving
    <3>5. (Unlisted' <=> Unlisted) /\ (Falling' <=> Falling)
      BY <3>2 DEF Unlisted, Falling
    <3>6. CutSoFar' <=> CutSoFar
      BY <3>2, <3>3, <3>4 DEF CutSoFar
    <3>7. Initializing'
      BY <2>1, <3>2, <3>3, <3>4, <3>5, <3>6 DEF Initializing
    <3>8. Running'
      BY <2>1, <3>2, <3>3 DEF Running, AtEdge, Blocks
    <3> QED
      BY <3>1, <3>7, <3>8 DEF StepKeeps
  <2> QED
    BY <2>2, <2>3, <2>4, <2>5, <2>6, <2>7, <2>8, <2>9, <2>10, <2>11, <2>12, <2>13, <2>14, <2>15
       DEF Next
<1> QED
  BY <1>1, <1>2 DEF IInv, StepKeeps

(* The invariant holds in every reachable state of the allocator, for every*)
(* number of pages and orders, every set of ranges and every order of      *)
(* calls.                                                                  *)
THEOREM Inductive == Spec => []IInv
<1>1. Init => IInv
  BY InitInv
<1>2. IInv /\ [Next]_vars => IInv'
  BY NextInv
<1> QED
  BY <1>1, <1>2, PTL DEF Spec

-----------------------------------------------------------------------------
(* What the invariant says of every loop but the first.                    *)
LEMMA Tiled ==
  ASSUME IInv, ~boundary, pc # "init"
  PROVE  Tiling(mem.order, mem.status, DOMAIN held, Entries)
BY DEF IInv, FieldsOK, Initializing, CutSoFar, Cut, Running, Good

(* Blocks as the properties write them.                                    *)
LEMMA BlockFacts ==
  ASSUME FieldsOK
  PROVE  /\ Blocks = HeadsOf(mem.order)
         /\ \A i : BlockPages(i) = Span(mem.order, i)
         /\ \A i : MarkOf(i) = MarkIn(mem.status, DOMAIN held, i)
BY DEF Blocks, HeadsOf, BlockPages, Span, MarkOf, MarkIn

(* The blocks always tile the memory, for every number of pages, whatever  *)
(* page_init, page_allocate and page_free do.                              *)
THEOREM TilingHolds == Spec => []BlocksTile
<1>1. IInv => BlocksTile
  <2> SUFFICES ASSUME IInv, pc # "init", ~boundary
               PROVE  /\ \A i \in Blocks :
                           /\ i % Pow2(mem.order[i]) = 0
                           /\ BlockPages(i) \subseteq Page
                           /\ \A p \in BlockPages(i) \ {i} : mem.order[p] = MarkOf(i) /\ mem.status[p] = 0
                      /\ UNION {BlockPages(i) : i \in Blocks} = Page
    BY DEF BlocksTile
  <2> DEFINE o == mem.order
             s == mem.status
             A == DOMAIN held
  <2>1. Tiling(o, s, A, Entries) /\ FieldsOK /\ Entries \in 0..Entries /\ Page = 0..Entries - 1
    BY Tiled, Sizes DEF IInv
  <2>2. /\ Blocks = HeadsOf(o) /\ \A i : BlockPages(i) = Span(o, i)
        /\ \A i : MarkOf(i) = MarkIn(s, A, i)
    BY <2>1, BlockFacts
  <2> HIDE DEF o, s, A
  <2>3. ASSUME NEW i \in Blocks
        PROVE  /\ i % Pow2(o[i]) = 0
               /\ BlockPages(i) \subseteq Page
               /\ \A p \in BlockPages(i) \ {i} : o[p] = MarkOf(i) /\ s[p] = 0
    <3>1. i \in HeadsOf(o)
      BY <2>2, <2>3
    <3>2. /\ i \in Nat /\ Pow2(o[i]) \in Nat /\ i % Pow2(o[i]) = 0
          /\ \A p \in Span(o, i) : p \in Page
      BY <2>1, <3>1, HeadFacts
    <3>3. ASSUME NEW p \in Span(o, i), p # i PROVE o[p] = MarkIn(s, A, i) /\ s[p] = 0
      <4>1. p \in Inside(i, o[i])
        BY <3>2, <3>3 DEF Span, Inside
      <4> QED
        BY <2>1, <3>1, <4>1, InsideFacts
    <3> QED
      BY <2>2, <3>2, <3>3
  <2>4. UNION {BlockPages(i) : i \in Blocks} = Page
    <3>1. \A p \in Page : \E i \in Blocks : p \in BlockPages(i)
      BY <2>1, <2>2 DEF Tiling, Covered
    <3> QED
      BY <2>3, <3>1
  <2> QED
    BY <2>3, <2>4 DEF o, s
<1> QED
  BY <1>1, Inductive, PTL

(* memory_reserve reserves the pages of its ranges and no other.           *)
THEOREM ReservedHolds == Spec => []ReservedExactly
<1>1. IInv => ReservedExactly
  <2> SUFFICES ASSUME IInv, pc \in {"reserve_next", "lists", "ready"}, ~boundary
               PROVE  UNION {BlockPages(i) : i \in {b \in Blocks \ DOMAIN held : mem.status[b] = 1}}
                        = ReservedPages
    BY DEF ReservedExactly
  <2> DEFINE o == mem.order
             s == mem.status
             A == DOMAIN held
             R == ReservedPages
  <2>1. Tiling(o, s, A, Entries) /\ FieldsOK /\ Entries \in 0..Entries /\ Page = 0..Entries - 1
    BY Tiled, Sizes DEF IInv
  <2>2. Whole(o, s, A, R)
    BY DEF IInv, FieldsOK, Initializing, Cut, Running, Good
  <2>3. /\ Blocks = HeadsOf(o) /\ \A i : BlockPages(i) = Span(o, i)
    BY <2>1, BlockFacts
  <2>4. \A p \in R : p \in Page
    <3>1. \A r \in reserved : r[1] \in Nat /\ r[2] \in Nat /\ r[2] < Entries
      <4>1. \A r \in Page \X Page : r[1] \in Nat /\ r[2] \in Nat /\ r[2] < Entries
        BY Sizes
      <4> QED
        BY <2>1, <4>1, Sizes DEF FieldsOK
    <3>2. ASSUME NEW r \in reserved, NEW p \in PagesOf(r) PROVE p \in Page
      BY <2>1, <3>1, <3>2, Sizes DEF PagesOf
    <3> QED
      BY <3>2 DEF ReservedPages
  <2> HIDE DEF o, s, A, R
  <2>5. \A p \in R : \E i \in Blocks \ A : s[i] = 1 /\ p \in BlockPages(i)
    BY <2>1, <2>2, <2>3, <2>4 DEF Tiling, Covered, Whole
  <2>6. \A i \in Blocks \ A : s[i] = 1 => \A p \in BlockPages(i) : p \in R
    BY <2>2, <2>3 DEF Whole
  <2> QED
    BY <2>5, <2>6 DEF s, A, R
<1> QED
  BY <1>1, Inductive, PTL

(* The lists that page_allocate and page_free leave are doubly linked, end *)
(* and hold exactly the free blocks of their level.                        *)
THEOREM ListsHold == Spec => []ListsAreFreeBlocks
<1>1. IInv => ListsAreFreeBlocks
  <2> SUFFICES ASSUME IInv, pc = "ready", ~boundary, NEW k \in Level
               PROVE  LET item == ListItems(k) IN
                      /\ item[Entries] = NoPage
                      /\ \A a, b \in 0..Entries : item[a] = item[b] /\ item[a] # NoPage => a = b
                      /\ Range(item) \ {NoPage} = {i \in Blocks : mem.order[i] = k /\ mem.status[i] = 0}
                      /\ \A n \in 1..Entries : item[n] # NoPage => mem.prev[item[n]] = item[n - 1]
    BY DEF ListsAreFreeBlocks
  <2> DEFINE S == {i \in Blocks : mem.order[i] = k /\ mem.status[i] = 0}
  <2>1. Lists(mem, FreeIn(mem, Page))
    BY DEF IInv, Running, Good
  <2>2. FreeIn(mem, Page)[k] = S
    BY Sizes DEF FreeIn, Blocks
  <2>3. Linked(mem, k, S)
    <3> HIDE DEF S
    <3> QED
      BY <2>1, <2>2 DEF Lists
  <2> HIDE DEF S
  <2>4. LET item == ListItems(k) IN
        /\ item[Entries] = NoPage
        /\ \A a, b \in 0..Entries : item[a] = item[b] /\ item[a] # NoPage => a = b
        /\ Range(item) \ {NoPage} = S
        /\ \A n \in 1..Entries : item[n] # NoPage => mem.prev[item[n]] = item[n - 1]
    BY <2>3, ItemsFollow
  <2> QED
    BY <2>4 DEF S
<1> QED
  BY <1>1, Inductive, PTL

(* What a caller got keeps its order and its status until it frees it, no  *)
(* reserved page is in it, and no two callers share a page.                *)
THEOREM HeldHold == Spec => []HeldBlocksKept
<1>1. IInv => HeldBlocksKept
  <2> SUFFICES ASSUME IInv, pc \in {"ready", "failed"}, ~boundary, NEW i \in DOMAIN held
               PROVE  /\ mem.order[i] = held[i] /\ mem.status[i] = 1
                      /\ BlockPages(i) \cap ReservedPages = {}
                      /\ \A j \in DOMAIN held \ {i} : BlockPages(i) \cap BlockPages(j) = {}
    BY DEF HeldBlocksKept
  <2> DEFINE o == mem.order
             s == mem.status
             A == DOMAIN held
             R == ReservedPages
  <2>1. Tiling(o, s, A, Entries) /\ Whole(o, s, A, R) /\ Kept(o, s, held) /\ Entries \in 0..Entries
    BY Sizes DEF IInv, Running, Good
  <2>2. \A j : BlockPages(j) = Span(o, j)
    BY BlockFacts DEF IInv
  <2>3. \A j \in A : j \in HeadsOf(o) /\ o[j] = held[j] /\ s[j] = 1
    BY <2>1 DEF Kept
  <2> HIDE DEF o, s, R
  <2>4. \A p \in Span(o, i) : p \notin R
    BY <2>1, <2>3 DEF Whole
  <2>5. ASSUME NEW j \in A, NEW p \in Span(o, i), p \in Span(o, j) PROVE i = j
    BY <2>1, <2>3, <2>5, OneBlock
  <2> QED
    BY <2>2, <2>3, <2>4, <2>5 DEF o, s, R
<1> QED
  BY <1>1, Inductive, PTL

(* When everything is freed, merge has restored what page_init made.       *)
THEOREM RestoreHolds == Spec => []AllFreedRestores
<1>1. IInv => AllFreedRestores
  <2> SUFFICES ASSUME IInv, pc = "ready", ~boundary, held = <<>>
               PROVE  FreeBlocks = initial
    BY DEF AllFreedRestores
  <2>1. DOMAIN held = {}
    OBVIOUS
  <2>2. Good(mem, held, {}, ReservedPages) /\ Dissected(initial, Page \ ReservedPages)
    BY DEF IInv, Running
  <2>3. Cut(mem, ReservedPages, {})
    BY <2>1, <2>2 DEF Good, Cut
  <2>4. Dissected(FreeBlocks, Page \ ReservedPages)
    BY <2>3, FreeDissected
  <2> QED
    BY <2>2, <2>4, OneDissection
<1> QED
  BY <1>1, Inductive, PTL

(* merge follows no pointer past frame[] unless what lies there looks like *)
(* a block as large as the last one, which is free.                        *)
THEOREM CorruptHolds == Spec => []CorruptOnlyAtEdges
<1>1. IInv => CorruptOnlyAtEdges
  BY DEF IInv, Running, AtEdge, CorruptOnlyAtEdges
<1> QED
  BY <1>1, Inductive, PTL

(* Every entry of frame[] is an order or a mark, and every pointer of the  *)
(* lists a page or NULL, as long as no range ended one page behind a block.*)
THEOREM TypesHold == Spec => [](~boundary => TypeOK)
<1>1. IInv => (~boundary => TypeOK)
  <2> SUFFICES ASSUME IInv, ~boundary PROVE TypeOK
    OBVIOUS
  <2> DEFINE o == mem.order
             s == mem.status
             W == (RESERVED - Entries)..MaxOrder
  <2>1. FieldsOK /\ Initializing /\ Running /\ boundary \in BOOLEAN
    BY DEF IInv
  <2>2. /\ mem \in Memory /\ o[Entries] \in GuardOrders /\ o \in [0..Entries -> Int]
        /\ s \in [0..Entries -> {0, 1}]
        /\ mem.list \in [Level -> Page \cup {NoPage}]
        /\ mem.next \in [Page -> Page \cup {NoPage, Junk}]
        /\ mem.prev \in [Page -> Page \cup {NoPage, Junk}]
    BY <2>1, MemoryFields DEF FieldsOK
  <2>3. Entries \in Nat \ {0} /\ MaxOrder \in Nat /\ Level = 0..MaxOrder /\ Page = 0..Entries - 1
    BY Sizes
  <2>4. PICK n \in 0..Entries :
          /\ Tiling(o, s, DOMAIN held, n)
          /\ \A p \in n..Entries - 1 : o[p] = FREE
    <3>1. CASE pc = "init"
      <4>1. /\ Tiling(o, s, {}, head) /\ DOMAIN held = {}
            /\ head \in 0..Entries /\ \A p \in head..Entries - 1 : o[p] = FREE
        BY <2>1, <3>1 DEF FieldsOK, Initializing, Falling
      <4> HIDE DEF o, s
      <4> QED
        BY <4>1
    <3>2. CASE pc # "init"
      <4>1. Tiling(o, s, DOMAIN held, Entries)
        BY <3>2, Tiled
      <4>2. Entries \in 0..Entries /\ Entries..Entries - 1 = {}
        BY <2>3
      <4> HIDE DEF o, s
      <4> QED
        BY <4>1, <4>2
    <3> QED
      BY <3>1, <3>2
  <2> HIDE DEF o, s
  <2>5. \A p \in Page : o[p] \in W
    <3>1. FREE \in W /\ ALLOCATED \in W /\ RESERVED \in W /\ \A k \in Level : k \in W
      BY <2>3 DEF FREE, ALLOCATED, RESERVED
    <3> HIDE DEF W
    <3>2. ASSUME NEW p \in 0..n - 1 PROVE o[p] \in W
      <4>1. PICK i \in HeadsOf(o) : p \in Span(o, i)
        BY <2>4, <3>2 DEF Tiling, Covered
      <4>2. i \in Nat /\ o[i] \in Level /\ Pow2(o[i]) \in Nat
        BY <2>4, HeadFacts
      <4>3. p = i \/ p \in Inside(i, o[i])
        BY <4>1, <4>2 DEF Span, Inside
      <4>4. p \in Inside(i, o[i]) => o[p] \in {FREE, ALLOCATED, RESERVED}
        BY <2>4, <4>1, InsideFacts
      <4> QED
        BY <3>1, <4>2, <4>3, <4>4
    <3>3. \A p \in Page : p \in 0..n - 1 \/ p \in n..Entries - 1
      BY <2>3
    <3> QED
      BY <2>4, <3>1, <3>2, <3>3
  <2> HIDE DEF W
  <2>6. o \in [0..Entries -> W \cup GuardOrders]
    <3>1. \A p \in 0..Entries : p \in Page \/ p = Entries
      BY <2>3
    <3>2. \A p \in 0..Entries : o[p] \in W \cup GuardOrders
      BY <2>2, <2>5, <3>1
    <3> QED
      BY <2>2, <3>2
  <2>7. DOMAIN held \subseteq Page /\ \A i \in DOMAIN held : held[i] \in Level
    <3>1. CASE pc \in {"ready", "failed", "corrupt"}
      <4>1. Kept(o, s, held)
        BY <2>1, <3>1 DEF Running, Good, o, s
      <4>2. \A i \in HeadsOf(o) : i \in Page /\ o[i] \in Level
        BY <2>4, HeadFacts
      <4> QED
        BY <4>1, <4>2 DEF Kept
    <3>2. CASE pc \notin {"ready", "failed", "corrupt"}
      BY <2>1, <3>2 DEF FieldsOK, Initializing
    <3> QED
      BY <3>1, <3>2
  <2>8. initial \subseteq Page \X Level
    <3>1. CASE pc \in {"ready", "failed", "corrupt"}
      <4>1. Dissected(initial, Page \ ReservedPages)
        BY <2>1, <3>1 DEF Running
      <4>2. initial \subseteq Nat \X Level
        BY <4>1 DEF Dissected
      <4>3. ASSUME NEW e \in initial PROVE e \in Page \X Level
        <5>1. e \in Nat \X Level /\ e[1] \in Nat /\ e[2] \in Level
          BY <4>2, <4>3
        <5>2. Pow2(e[2]) \in Nat \ {0}
          BY <5>1, Powers
        <5>3. e[1] \in Place(e)
          BY <5>1, <5>2 DEF Place
        <5>4. e[1] \in Page
          BY <4>1, <4>3, <5>3 DEF Dissected
        <5> QED
          BY <5>1, <5>4
      <4> QED
        BY <4>3
    <3>2. CASE pc \notin {"ready", "failed", "corrupt"}
      BY <2>1, <3>2 DEF FieldsOK, Initializing
    <3> QED
      BY <3>1, <3>2
  <2> QED
    BY <2>1, <2>2, <2>6, <2>7, <2>8 DEF TypeOK, FieldsOK, o, s, W
<1> QED
  BY <1>1, Inductive, PTL
=============================================================================
