------------------------ MODULE SlabAllocatorProofs ------------------------
(***************************************************************************)
(* Proofs about the slab allocator for every page size, every set of       *)
(* requests that log2 can serve and every set of blocks.                   *)
(*                                                                         *)
(* First the arithmetic of a page: the slots lie in it one behind the      *)
(* other, and free recovers page and slot from an address.  Then the       *)
(* bookkeeping: the marked slots and the memory that callers hold.         *)
(***************************************************************************)
EXTENDS SlabAllocator, DataLemmas, FiniteSetTheorems, TLAPS

-----------------------------------------------------------------------------
(* Division by any positive number.                                        *)
LEMMA DivisionType ==
  ASSUME NEW x \in Nat, NEW d \in Nat \ {0}
  PROVE  /\ x \div d \in Nat /\ x % d \in 0..d - 1
         /\ x = d * (x \div d) + (x % d)
OBVIOUS

(* A factor keeps the order.                                               *)
LEMMA TimesMonotonic ==
  ASSUME NEW a \in Nat, NEW b \in Nat, NEW c \in Nat, a <= b
  PROVE  c * a \in Nat /\ c * b \in Nat /\ c * a <= c * b
OBVIOUS

(* Multiples of s are s apart.                                             *)
LEMMA MultiplesApart ==
  ASSUME NEW s \in Nat, NEW i \in Nat, NEW j \in Nat, i < j
  PROVE  s * i + s <= s * j
<1>1. s * (i + 1) <= s * j
  BY TimesMonotonic
<1>2. s * (i + 1) = s * i + s
  OBVIOUS
<1> QED
  BY <1>1, <1>2

(* Quotient and remainder are the only ones.                               *)
LEMMA DivisionUnique ==
  ASSUME NEW d \in Nat \ {0}, NEW q \in Nat, NEW r \in Nat, r < d
  PROVE  (d * q + r) \div d = q /\ (d * q + r) % d = r
<1> DEFINE x == d * q + r
           k == x \div d
           m == x % d
<1>1. x \in Nat
  OBVIOUS
<1>2. k \in Nat /\ m \in 0..d - 1 /\ x = d * k + m
  BY <1>1, DivisionType
<1> HIDE DEF k, m
<1>3. ~(k < q)
  <2> SUFFICES ASSUME k < q PROVE FALSE
    OBVIOUS
  <2>1. d * k + d <= d * q
    BY <1>2, MultiplesApart
  <2> QED
    BY <1>2, <2>1
<1>4. ~(q < k)
  <2> SUFFICES ASSUME q < k PROVE FALSE
    OBVIOUS
  <2>1. d * q + d <= d * k
    BY <1>2, MultiplesApart
  <2> QED
    BY <1>2, <2>1
<1>5. k = q /\ m = r
  BY <1>2, <1>3, <1>4
<1> QED
  BY <1>5 DEF k, m

-----------------------------------------------------------------------------
(* The layout of a page.                                                   *)

(* aling8 adds at most seven.                                              *)
LEMMA AlingBounds ==
  ASSUME NEW n \in Nat
  PROVE  aling8(n) \in Nat /\ n <= aling8(n) /\ aling8(n) <= n + 7 /\ (n = 0 => aling8(n) = 0)
BY DEF aling8

(* The size class of a request: either at least one slot fits the page and *)
(* a slot is at most half of it, or the slot is a block of its own with    *)
(* room for the header.                                                    *)
LEMMA SizeClasses ==
  ASSUME NEW n \in Requests
  PROVE  LET s == SizeOf(n) IN
         /\ s \in Nat \ {0}
         /\ n \in Nat
         /\ n <= s
         /\ Total(s) \in Nat
         /\ s * Total(s) + Total(s) + HeaderSize + 16 <= PageSize
         /\ \/ Total(s) > 0 /\ s <= PageSize
            \/ Total(s) = 0 /\ s > PageSize /\ n + HeaderSize <= s
<1> DEFINE s == SizeOf(n)
           z == SlotSize(n)
           room == PageSize - 48
           t == room \div (s + 1)
<1>1. /\ PageSize \in Nat /\ PageSize >= 98
      /\ n \in Nat /\ z \in Nat \ {0} /\ n <= z
  BY SlabAllocatorAssumption DEF HeaderSize
<1>2. /\ s \in Nat \ {0} /\ n <= s /\ room \in Nat
      /\ \/ s > PageSize /\ n + 32 <= s
         \/ 2 * s <= PageSize
  BY <1>1 DEF SizeOf
<1>3. Total(s) = t /\ HeaderSize = 32
  <2>1. PageSize - HeaderSize - 16 = room
    BY <1>1 DEF HeaderSize
  <2> QED
    BY <2>1 DEF Total, HeaderSize
<1> HIDE DEF s, room
<1>4. s + 1 \in Nat \ {0} /\ (s + 1) - 1 = s
  BY <1>2
<1>5. t \in Nat /\ room = (s + 1) * t + (room % (s + 1)) /\ room % (s + 1) \in 0..s
  BY <1>2, <1>4, DivisionType
<1> HIDE DEF t
<1>6. (s + 1) * t = s * t + t /\ s * t \in Nat
  BY <1>2, <1>5
<1>7. s * t + t + 48 <= PageSize
  BY <1>1, <1>2, <1>5, <1>6 DEF room
<1>8. CASE s > PageSize /\ n + 32 <= s
  <2>1. ~(0 < t)
    <3> SUFFICES ASSUME 0 < t PROVE FALSE
      OBVIOUS
    <3>1. s * 0 + s <= s * t
      BY <1>2, <1>5, MultiplesApart
    <3> QED
      BY <1>1, <1>2, <1>5, <1>6, <1>7, <1>8, <3>1
  <2> QED
    BY <1>1, <1>2, <1>3, <1>5, <1>7, <1>8, <2>1 DEF s
<1>9. CASE 2 * s <= PageSize
  <2>1. t # 0
    <3> SUFFICES ASSUME t = 0 PROVE FALSE
      OBVIOUS
    <3>1. (s + 1) * t = 0
      BY <1>2
    <3> QED
      BY <1>1, <1>2, <1>5, <1>9, <3>1 DEF room
  <2>2. t > 0 /\ s <= PageSize
    BY <1>1, <1>2, <1>5, <1>9, <2>1
  <2>3. s * t + t + HeaderSize + 16 <= PageSize
    BY <1>2, <1>3, <1>5, <1>6, <1>7
  <2> QED
    BY <1>1, <1>2, <1>3, <1>5, <2>2, <2>3 DEF s
<1> QED
  BY <1>2, <1>8, <1>9

(* Slot i of a block: it lies behind header and page_info and in the       *)
(* block, and free finds page and slot in its address.                     *)
LEMMA Layout ==
  ASSUME NEW p \in Blocks, NEW n \in Requests, NEW i \in Nat,
         i < Total(SizeOf(n)) \/ i = 0
  PROVE  LET s == SizeOf(n)
             t == Total(s)
             a == Address(p, t, s, i)
         IN /\ a \in Nat
            /\ PageOf(a) = p
            /\ ((a % PageSize) - aling8(t) - HeaderSize) \div s = i
            /\ p * PageSize + HeaderSize + t <= a
            /\ a + (IF t = 0 THEN s - HeaderSize ELSE s) <=
                 p * PageSize + (IF s > PageSize THEN s ELSE PageSize)
<1> DEFINE s == SizeOf(n)
           t == Total(s)
           a == Address(p, t, s, i)
           off == HeaderSize + aling8(t) + s * i
           room == IF t = 0 THEN s - HeaderSize ELSE s
<1>1. /\ PageSize \in Nat \ {0} /\ PageSize >= 98 /\ p \in Nat /\ HeaderSize = 32
  BY SlabAllocatorAssumption DEF HeaderSize
<1>2. /\ s \in Nat \ {0} /\ n \in Nat /\ n <= s /\ t \in Nat
      /\ s * t + t + HeaderSize + 16 <= PageSize
      /\ \/ t > 0 /\ s <= PageSize
         \/ t = 0 /\ s > PageSize /\ n + HeaderSize <= s
  BY SizeClasses
<1>3. i < t \/ i = 0
  OBVIOUS
<1>4. a = PageSize * p + off /\ p * PageSize = PageSize * p
  BY <1>1, <1>2, AlingBounds DEF Address
<1> HIDE DEF s, t, a
<1>5. aling8(t) \in Nat /\ t <= aling8(t) /\ aling8(t) <= t + 7 /\ (t = 0 => aling8(t) = 0)
  BY <1>2, AlingBounds
<1>6. s * i \in Nat /\ s * t \in Nat /\ PageSize * p \in Nat
  BY <1>1, <1>2
<1>7. /\ off \in Nat /\ off < PageSize /\ HeaderSize + t <= off
      /\ off + room <= (IF s > PageSize THEN s ELSE PageSize)
  <2>1. CASE t > 0 /\ s <= PageSize
    <3>1. s * i + s <= s * t
      BY <1>2, <1>3, <2>1, MultiplesApart
    <3> QED
      BY <1>1, <1>2, <1>5, <1>6, <2>1, <3>1
  <2>2. CASE t = 0 /\ s > PageSize /\ n + HeaderSize <= s
    <3>1. s * i = 0
      BY <1>2, <1>3, <2>2
    <3> QED
      BY <1>1, <1>2, <1>5, <1>6, <2>2, <3>1
  <2> QED
    BY <1>2, <2>1, <2>2
<1>8. off - aling8(t) - HeaderSize = s * i + 0
  BY <1>1, <1>5, <1>6
<1>9. room \in Int
  BY <1>1, <1>2
<1> HIDE DEF off, room
<1>10. a \div PageSize = p /\ a % PageSize = off
  BY <1>1, <1>4, <1>7, DivisionUnique
<1>11. (off - aling8(t) - HeaderSize) \div s = i
  BY <1>2, <1>8, DivisionUnique
<1>12. /\ a \in Nat /\ p * PageSize + HeaderSize + t <= a
       /\ a + room <= p * PageSize + (IF s > PageSize THEN s ELSE PageSize)
  BY <1>1, <1>2, <1>4, <1>6, <1>7, <1>9
<1> QED
  BY <1>10, <1>11, <1>12 DEF PageOf, s, t, a, room

-----------------------------------------------------------------------------
(* The invariant.                                                          *)

SlotAddress(p, i) == Address(p, total[p], size[p], i)

(* What a slot of the block has room for.                                  *)
Room(p) == IF total[p] = 0 THEN size[p] - HeaderSize ELSE size[p]

(* The headers of the pools belong to a size class, their marks to its     *)
(* slots, and their counters to their marks.                               *)
Headers ==
  /\ IsInjective(pool)
  /\ \A p \in Range(pool) :
       /\ \E n \in Requests : size[p] = SizeOf(n)
       /\ total[p] = Total(size[p])
       /\ \A i \in info[p] : i \in Nat /\ (i < total[p] \/ i = 0)
       /\ IsFiniteSet(info[p]) /\ info[p] # {}
       /\ used[p] = Cardinality(info[p])

(* Every caller holds a marked slot that its request fits, every marked    *)
(* slot is held, and nobody shares an address.                             *)
Holders ==
  /\ \A a \in live : \E p \in Range(pool) : \E i \in info[p] :
       a[1] = SlotAddress(p, i) /\ a[2] <= Room(p)
  /\ \A p \in Range(pool) : \A i \in info[p] : \E a \in live : a[1] = SlotAddress(p, i)
  /\ \A a, b \in live : a[1] = b[1] => a = b

IInv == TypeOK /\ Headers /\ Holders

-----------------------------------------------------------------------------
(* The slots of a pool: free finds them from their address, and each has   *)
(* room for a request of its size class.                                   *)
Slot(p, i) == i \in Nat /\ (i < total[p] \/ i = 0)

(* SlotOf undoes SlotAddress, and Room is what is left in the block.       *)
LEMMA SlotFacts ==
  ASSUME TypeOK, Headers, NEW p \in Range(pool), NEW i, Slot(p, i)
  PROVE  /\ p \in Blocks
         /\ SlotAddress(p, i) \in Nat
         /\ PageOf(SlotAddress(p, i)) = p
         /\ SlotOf(SlotAddress(p, i)) = i
         /\ p * PageSize + HeaderSize + total[p] <= SlotAddress(p, i)
         /\ SlotAddress(p, i) + Room(p) <=
              p * PageSize + (IF size[p] > PageSize THEN size[p] ELSE PageSize)
<1>1. p \in Blocks
  BY ListElement DEF TypeOK
<1>2. PICK n \in Requests : size[p] = SizeOf(n) /\ total[p] = Total(SizeOf(n))
  BY DEF Headers
<1>3. i \in Nat /\ (i < Total(SizeOf(n)) \/ i = 0)
  BY <1>2 DEF Slot
<1>4. SlotAddress(p, i) = Address(p, Total(SizeOf(n)), SizeOf(n), i)
  BY <1>2 DEF SlotAddress
<1>5. /\ SlotAddress(p, i) \in Nat
      /\ PageOf(SlotAddress(p, i)) = p
      /\ ((SlotAddress(p, i) % PageSize) - aling8(total[p]) - HeaderSize) \div size[p] = i
      /\ p * PageSize + HeaderSize + total[p] <= SlotAddress(p, i)
      /\ SlotAddress(p, i) + (IF total[p] = 0 THEN size[p] - HeaderSize ELSE size[p]) <=
           p * PageSize + (IF size[p] > PageSize THEN size[p] ELSE PageSize)
  BY <1>1, <1>2, <1>3, <1>4, Layout
<1> QED
  BY <1>1, <1>5 DEF SlotOf, Room

(* So no two slots have one address.                                       *)
LEMMA AddressUnique ==
  ASSUME TypeOK, Headers,
         NEW p \in Range(pool), NEW i, Slot(p, i),
         NEW q \in Range(pool), NEW j, Slot(q, j),
         SlotAddress(p, i) = SlotAddress(q, j)
  PROVE  p = q /\ i = j
BY SlotFacts

(* A slot of a usable pool, or of a fresh block, has room for the request. *)
LEMMA RoomForRequest ==
  ASSUME NEW p, NEW n \in Requests,
         \/ \E m \in Requests : /\ size[p] = SizeOf(m) /\ total[p] = Total(size[p])
                               /\ total[p] > 0 /\ size[p] >= SizeOf(n)
         \/ size[p] = SizeOf(n) /\ total[p] = Total(size[p])
  PROVE  n <= Room(p)
<1>1. n \in Nat /\ SizeOf(n) \in Nat /\ n <= SizeOf(n)
  BY SizeClasses
<1>2. CASE \E m \in Requests : /\ size[p] = SizeOf(m) /\ total[p] = Total(size[p])
                               /\ total[p] > 0 /\ size[p] >= SizeOf(n)
  <2>1. PICK m \in Requests : /\ size[p] = SizeOf(m) /\ total[p] = Total(SizeOf(m))
                              /\ total[p] > 0 /\ size[p] >= SizeOf(n)
    BY <1>2
  <2>2. size[p] \in Nat /\ total[p] \in Nat
    BY <2>1, SizeClasses
  <2> QED
    BY <1>1, <2>1, <2>2 DEF Room
<1>3. CASE size[p] = SizeOf(n) /\ total[p] = Total(size[p])
  <2>1. total[p] \in Nat /\ (total[p] = 0 => n + HeaderSize <= size[p])
    BY <1>3, SizeClasses
  <2> QED
    BY <1>1, <1>3, <2>1 DEF Room, HeaderSize
<1> QED
  BY <1>2, <1>3

-----------------------------------------------------------------------------
(* The invariant holds when there are no pools, and every call keeps it.   *)
LEMMA InitIInv == Init => IInv
<1> SUFFICES ASSUME Init PROVE IInv
  OBVIOUS
<1>1. Range(pool) = {} /\ IsInjective(pool) /\ pool \in Seq(Blocks)
  BY DEF Init, Range, IsInjective
<1>2. TypeOK
  BY <1>1 DEF Init, TypeOK
<1> QED
  BY <1>1, <1>2 DEF Init, IInv, Headers, Holders

(* The pools in the list are blocks.                                       *)
LEMMA PoolsAreBlocks ==
  ASSUME TypeOK
  PROVE  Range(pool) \subseteq Blocks /\ \A k \in DOMAIN pool : pool[k] \in Range(pool)
<1>1. pool \in Seq(Blocks) /\ DOMAIN pool = 1..Len(pool)
  BY DEF TypeOK
<1> QED
  BY <1>1, ListElement

(* The marks of the pools are slots.                                       *)
LEMMA MarksAreSlots ==
  ASSUME Headers, NEW p \in Range(pool), NEW i \in info[p]
  PROVE  Slot(p, i)
BY DEF Headers, Slot

(* The slot that malloc_ takes was nobody's, and fits the request.         *)
LEMMA TakeSlotIInv ==
  ASSUME IInv, NEW n \in Requests, TakeSlot(n)
  PROVE  IInv'
<1> USE DEF IInv
<1>1. PICK k \in UsableIn(SizeOf(n)) :
        /\ \E i \in 0..(total[pool[k]] - 1) :
             /\ i \notin info[pool[k]]
             /\ info' = [info EXCEPT ![pool[k]] = @ \cup {i}]
             /\ live' = live \cup {<<Address(pool[k], total[pool[k]], size[pool[k]], i), n>>}
        /\ used' = [used EXCEPT ![pool[k]] = @ + 1]
        /\ UNCHANGED <<pool, size, total>>
  BY DEF TakeSlot
<1> DEFINE page == pool[k]
<1>2. page \in Range(pool) /\ page \in Blocks
  BY PoolsAreBlocks DEF UsableIn
<1>3. size[page] >= SizeOf(n) /\ used[page] < total[page]
  BY DEF UsableIn, Usable
<1> HIDE DEF page
<1>4. PICK i \in 0..(total[page] - 1) :
        /\ i \notin info[page]
        /\ info' = [info EXCEPT ![page] = @ \cup {i}]
        /\ live' = live \cup {<<SlotAddress(page, i), n>>}
  BY <1>1 DEF page, SlotAddress
<1>5. used' = [used EXCEPT ![page] = @ + 1] /\ pool' = pool /\ size' = size /\ total' = total
  BY <1>1 DEF page
<1>6. /\ total[page] \in Nat /\ used[page] \in Nat /\ n \in Nat
      /\ info \in [Blocks -> SUBSET (0..PageSize)] /\ used \in [Blocks -> Nat]
  BY <1>2, SizeClasses DEF TypeOK
<1>7. i \in Nat /\ i < total[page] /\ Slot(page, i)
  BY <1>6 DEF Slot
<1>8. /\ info'[page] = info[page] \cup {i} /\ used'[page] = used[page] + 1
      /\ \A q \in Blocks \ {page} : info'[q] = info[q] /\ used'[q] = used[q]
  BY <1>2, <1>4, <1>5, <1>6
<1>9. PICK m \in Requests : size[page] = SizeOf(m) /\ total[page] = Total(SizeOf(m))
  BY <1>2 DEF Headers
<1>10. i \in 0..PageSize
  <2>1. /\ SizeOf(m) \in Nat /\ total[page] \in Nat /\ PageSize \in Nat
        /\ SizeOf(m) * total[page] + total[page] + HeaderSize + 16 <= PageSize
    BY <1>9, SizeClasses, SlabAllocatorAssumption
  <2>2. SizeOf(m) * total[page] \in Nat
    BY <2>1
  <2> QED
    BY <1>7, <2>1, <2>2 DEF HeaderSize
<1>11. SlotAddress(page, i) \in Nat
  BY <1>2, <1>7, SlotFacts
<1>12. TypeOK'
  <2>1. info' \in [Blocks -> SUBSET (0..PageSize)] /\ used' \in [Blocks -> Nat]
    BY <1>2, <1>4, <1>5, <1>6, <1>10
  <2>2. \A p \in Blocks : used'[p] <= total[p] \/ used'[p] \in {0, 1}
    <3> TAKE p \in Blocks
    <3>1. CASE p = page
      BY <1>3, <1>6, <1>8, <3>1
    <3>2. CASE p # page
      BY <1>8, <3>2 DEF TypeOK
    <3> QED
      BY <3>1, <3>2
  <2>3. live' \subseteq Nat \X Requests
    BY <1>4, <1>11 DEF TypeOK
  <2> QED
    BY <1>5, <2>1, <2>2, <2>3 DEF TypeOK
<1>13. Headers'
  <2>1. ASSUME NEW p \in Range(pool)
        PROVE  /\ \A j \in info'[p] : j \in Nat /\ (j < total[p] \/ j = 0)
               /\ IsFiniteSet(info'[p]) /\ info'[p] # {}
               /\ used'[p] = Cardinality(info'[p])
    <3>1. p \in Blocks
      BY PoolsAreBlocks
    <3>2. /\ \A j \in info[p] : j \in Nat /\ (j < total[p] \/ j = 0)
          /\ IsFiniteSet(info[p]) /\ info[p] # {}
          /\ used[p] = Cardinality(info[p])
      BY DEF Headers
    <3>3. CASE p = page
      <4>1. IsFiniteSet(info[p] \cup {i}) /\ Cardinality(info[p] \cup {i}) = Cardinality(info[p]) + 1
        BY <1>4, <3>2, <3>3, FS_AddElement
      <4> QED
        BY <1>7, <1>8, <3>2, <3>3, <4>1
    <3>4. CASE p # page
      BY <1>8, <3>1, <3>2, <3>4
    <3> QED
      BY <3>3, <3>4
  <2> QED
    BY <1>5, <2>1 DEF Headers
<1>14. Holders'
  <2> DEFINE new == <<SlotAddress(page, i), n>>
  <2>1. \A p, j : SlotAddress(p, j)' = SlotAddress(p, j) /\ Room(p)' = Room(p)
    BY <1>5 DEF SlotAddress, Room
  <2>2. \A p \in Range(pool) : info[p] \subseteq info'[p]
    BY <1>2, <1>8, PoolsAreBlocks
  <2>3. n <= Room(page)
    BY <1>3, <1>6, <1>7, <1>9, RoomForRequest
  <2>4. \A a \in live' : \E p \in Range(pool) : \E j \in info'[p] :
          a[1] = SlotAddress(p, j) /\ a[2] <= Room(p)
    BY <1>2, <1>4, <1>8, <2>2, <2>3 DEF Holders
  <2>5. ASSUME NEW p \in Range(pool), NEW j \in info'[p]
        PROVE  \E a \in live' : a[1] = SlotAddress(p, j)
    <3>1. CASE j \in info[p]
      BY <1>4, <3>1 DEF Holders
    <3>2. CASE p = page /\ j = i
      <4>1. new \in live' /\ new[1] = SlotAddress(p, j)
        BY <1>4, <3>2
      <4> QED
        BY <4>1
    <3> QED
      BY <1>8, <3>1, <3>2, PoolsAreBlocks
  <2>6. \A b \in live : b[1] # SlotAddress(page, i)
    <3> SUFFICES ASSUME NEW b \in live, b[1] = SlotAddress(page, i) PROVE FALSE
      OBVIOUS
    <3>1. PICK q \in Range(pool) : \E j \in info[q] : b[1] = SlotAddress(q, j)
      BY DEF Holders
    <3>2. PICK j \in info[q] : b[1] = SlotAddress(q, j)
      BY <3>1
    <3>3. Slot(q, j)
      BY MarksAreSlots
    <3>4. page = q /\ i = j
      BY <1>2, <1>7, <3>2, <3>3, AddressUnique
    <3> QED
      BY <1>4, <3>4
  <2>7. \A a, b \in live' : a[1] = b[1] => a = b
    BY <1>4, <2>6 DEF Holders
  <2> QED
    BY <1>5, <2>1, <2>4, <2>5, <2>7 DEF Holders
<1> QED
  BY <1>12, <1>13, <1>14

(* A fresh block starts with its first slot taken.                         *)
LEMMA OpenPageIInv ==
  ASSUME IInv, NEW n \in Requests, OpenPage(n)
  PROVE  IInv'
<1> USE DEF IInv
<1> DEFINE s == SizeOf(n)
<1>1. PICK page \in Blocks \ Range(pool) :
        /\ pool' = <<page>> \o pool
        /\ size' = [size EXCEPT ![page] = s]
        /\ total' = [total EXCEPT ![page] = Total(s)]
        /\ used' = [used EXCEPT ![page] = 1]
        /\ info' = [info EXCEPT ![page] = {0}]
        /\ live' = live \cup {<<Address(page, Total(s), s, 0), n>>}
  BY DEF OpenPage
<1>2. s \in Nat /\ Total(s) \in Nat /\ n \in Nat /\ 0 \in 0..PageSize
  BY SizeClasses, SlabAllocatorAssumption
<1>3. pool' \in Seq(Blocks) /\ IsInjective(pool') /\ Range(pool') = Range(pool) \cup {page}
  BY <1>1, PutInFront DEF TypeOK, Headers
<1>4. /\ size'[page] = s /\ total'[page] = Total(s) /\ used'[page] = 1 /\ info'[page] = {0}
      /\ \A q \in Blocks \ {page} : /\ size'[q] = size[q] /\ total'[q] = total[q]
                                   /\ used'[q] = used[q] /\ info'[q] = info[q]
  BY <1>1 DEF TypeOK
<1>5. \A q \in Range(pool) : q \in Blocks \ {page}
  BY <1>1, PoolsAreBlocks
<1> DEFINE new == Address(page, Total(s), s, 0)
<1>6. new \in Nat /\ PageOf(new) = page
  BY Layout
<1>7. new = SlotAddress(page, 0)'
  BY <1>4 DEF SlotAddress
<1> HIDE DEF s
<1>8. TypeOK'
  <2>1. /\ size' \in [Blocks -> Nat] /\ total' \in [Blocks -> Nat] /\ used' \in [Blocks -> Nat]
        /\ info' \in [Blocks -> SUBSET (0..PageSize)]
    BY <1>1, <1>2 DEF TypeOK
  <2>2. \A p \in Blocks : used'[p] <= total'[p] \/ used'[p] \in {0, 1}
    BY <1>4 DEF TypeOK
  <2>3. live' \subseteq Nat \X Requests
    BY <1>1, <1>6 DEF TypeOK
  <2> QED
    BY <1>3, <2>1, <2>2, <2>3 DEF TypeOK
<1>9. Headers'
  <2>1. ASSUME NEW p \in Range(pool')
        PROVE  /\ \E m \in Requests : size'[p] = SizeOf(m)
               /\ total'[p] = Total(size'[p])
               /\ \A i \in info'[p] : i \in Nat /\ (i < total'[p] \/ i = 0)
               /\ IsFiniteSet(info'[p]) /\ info'[p] # {}
               /\ used'[p] = Cardinality(info'[p])
    <3>1. CASE p = page
      <4>1. IsFiniteSet({0}) /\ Cardinality({0}) = 1
        BY FS_Singleton
      <4> QED
        BY <1>4, <3>1, <4>1 DEF s
    <3>2. CASE p # page
      <4>1. p \in Range(pool)
        BY <1>3, <3>2
      <4> QED
        BY <1>4, <1>5, <4>1 DEF Headers
    <3> QED
      BY <3>1, <3>2
  <2> QED
    BY <1>3, <2>1 DEF Headers
<1>10. Holders'
  <2>1. \A p \in Range(pool) : Room(p)' = Room(p) /\ \A j : SlotAddress(p, j)' = SlotAddress(p, j)
    BY <1>4, <1>5 DEF SlotAddress, Room
  <2>2. n <= Room(page)'
    <3> DEFINE room == IF total'[page] = 0 THEN size'[page] - HeaderSize ELSE size'[page]
    <3>1. /\ n <= s
          /\ Total(s) = 0 => n + HeaderSize <= s
      BY SizeClasses DEF s
    <3>2. n <= room
      BY <1>2, <1>4, <3>1 DEF HeaderSize
    <3> QED
      BY <3>2 DEF Room
  <2>3. ASSUME NEW a \in live'
        PROVE  \E p \in Range(pool') : \E j \in info'[p] :
                 a[1] = SlotAddress(p, j)' /\ a[2] <= Room(p)'
    <3>1. CASE a \in live
      <4>1. PICK p \in Range(pool) : \E j \in info[p] : a[1] = SlotAddress(p, j) /\ a[2] <= Room(p)
        BY <3>1 DEF Holders
      <4>2. p \in Range(pool') /\ info'[p] = info[p]
        BY <1>3, <1>4, <1>5
      <4> QED
        BY <2>1, <4>1, <4>2
    <3>2. CASE a = <<new, n>>
      <4>1. page \in Range(pool') /\ 0 \in info'[page]
        BY <1>3, <1>4
      <4> QED
        BY <1>7, <2>2, <3>2, <4>1
    <3> QED
      BY <1>1, <3>1, <3>2
  <2>4. ASSUME NEW p \in Range(pool'), NEW j \in info'[p]
        PROVE  \E a \in live' : a[1] = SlotAddress(p, j)'
    <3>1. CASE p = page
      <4>1. <<new, n>> \in live' /\ j = 0
        BY <1>1, <1>4, <3>1
      <4> QED
        BY <1>7, <3>1, <4>1
    <3>2. CASE p # page
      <4>1. p \in Range(pool) /\ j \in info[p]
        BY <1>3, <1>4, <1>5, <3>2
      <4> QED
        BY <1>1, <2>1, <4>1 DEF Holders
    <3> QED
      BY <3>1, <3>2
  <2>5. \A b \in live : b[1] # new
    <3> SUFFICES ASSUME NEW b \in live, b[1] = new PROVE FALSE
      OBVIOUS
    <3>1. PICK q \in Range(pool) : \E j \in info[q] : b[1] = SlotAddress(q, j)
      BY DEF Holders
    <3>2. PICK j \in info[q] : b[1] = SlotAddress(q, j)
      BY <3>1
    <3>3. PageOf(b[1]) = q
      BY <3>2, MarksAreSlots, SlotFacts
    <3> QED
      BY <1>5, <1>6, <3>3
  <2>6. \A a, b \in live' : a[1] = b[1] => a = b
    BY <1>1, <2>5 DEF Holders
  <2> QED
    BY <2>3, <2>4, <2>6 DEF Holders
<1> QED
  BY <1>8, <1>9, <1>10

(* free unmarks exactly the slot of the caller, or gives back a page in    *)
(* which it was the only one.                                              *)
LEMMA FreeIInv ==
  ASSUME IInv, NEW a \in live, Free(a)
  PROVE  IInv'
<1> USE DEF IInv
<1>1. PICK p \in Range(pool) : \E i \in info[p] : a[1] = SlotAddress(p, i)
  BY DEF Holders
<1>2. PICK i \in info[p] : a[1] = SlotAddress(p, i)
  BY <1>1
<1>3. Slot(p, i) /\ p \in Blocks /\ PageOf(a[1]) = p /\ SlotOf(a[1]) = i
  BY <1>2, MarksAreSlots, SlotFacts
<1>4. /\ IsFiniteSet(info[p]) /\ used[p] = Cardinality(info[p]) /\ used[p] \in Nat
      /\ size' = size /\ total' = total /\ live' = live \ {a}
  BY <1>3 DEF Headers, TypeOK, Free
<1>5. \A q, j : SlotAddress(q, j)' = SlotAddress(q, j) /\ Room(q)' = Room(q)
  BY <1>4 DEF SlotAddress, Room
<1>6. ASSUME NEW b \in live'
      PROVE  \E q \in Range(pool) : \E j \in info[q] :
               b[1] = SlotAddress(q, j) /\ b[2] <= Room(q) /\ ~(q = p /\ j = i)
  <2>1. b \in live /\ b # a
    BY <1>4, <1>6
  <2>2. b[1] # a[1]
    BY <2>1 DEF Holders
  <2> QED
    BY <1>2, <2>1, <2>2 DEF Holders
<1>7. ASSUME NEW q \in Range(pool), NEW j \in info[q], ~(q = p /\ j = i)
      PROVE  \E b \in live' : b[1] = SlotAddress(q, j)
  <2>1. PICK b \in live : b[1] = SlotAddress(q, j)
    BY DEF Holders
  <2>2. b # a
    <3> SUFFICES ASSUME b = a PROVE FALSE
      OBVIOUS
    <3>1. SlotAddress(p, i) = SlotAddress(q, j) /\ Slot(q, j)
      BY <1>2, <2>1, MarksAreSlots
    <3> QED
      BY <1>3, <1>7, <3>1, AddressUnique
  <2> QED
    BY <1>4, <2>1, <2>2
<1>8. \A b, c \in live' : b[1] = c[1] => b = c
  BY <1>4 DEF Holders
<1>9. CASE used[p] # 1
  <2>1. /\ used' = [used EXCEPT ![p] = @ - 1]
        /\ info' = [info EXCEPT ![p] = @ \ {i}]
        /\ pool' = pool
    BY <1>3, <1>9 DEF Free
  <2>2. /\ used'[p] = used[p] - 1 /\ info'[p] = info[p] \ {i}
        /\ \A q \in Blocks \ {p} : used'[q] = used[q] /\ info'[q] = info[q]
    BY <1>3, <2>1 DEF TypeOK
  <2>3. /\ IsFiniteSet(info[p] \ {i}) /\ Cardinality(info[p] \ {i}) = Cardinality(info[p]) - 1
        /\ Cardinality(info[p] \ {i}) \in Nat
    BY <1>2, <1>4, FS_RemoveElement, FS_CardinalityType
  <2>4. info[p] \ {i} # {} /\ used[p] - 1 \in Nat
    <3>1. Cardinality(info[p] \ {i}) # 0
      BY <1>4, <1>9, <2>3
    <3> QED
      BY <1>4, <2>3, <3>1, FS_EmptySet
  <2>5. TypeOK'
    <3>1. used' \in [Blocks -> Nat] /\ info' \in [Blocks -> SUBSET (0..PageSize)]
      BY <1>3, <2>1, <2>4 DEF TypeOK
    <3>2. \A q \in Blocks : used'[q] <= total[q] \/ used'[q] \in {0, 1}
      <4> TAKE q \in Blocks
      <4>1. CASE q = p
        <5>1. total[p] \in Nat /\ (used[p] <= total[p] \/ used[p] \in {0, 1})
          BY <1>3 DEF TypeOK
        <5> QED
          BY <1>4, <1>9, <2>2, <2>4, <4>1, <5>1
      <4>2. CASE q # p
        BY <2>2, <4>2 DEF TypeOK
      <4> QED
        BY <4>1, <4>2
    <3> QED
      BY <1>4, <2>1, <3>1, <3>2 DEF TypeOK
  <2>6. Headers'
    <3>1. ASSUME NEW q \in Range(pool)
          PROVE  /\ \A j \in info'[q] : j \in Nat /\ (j < total[q] \/ j = 0)
                 /\ IsFiniteSet(info'[q]) /\ info'[q] # {}
                 /\ used'[q] = Cardinality(info'[q])
      <4>1. CASE q = p
        BY <1>4, <2>2, <2>3, <2>4, <4>1 DEF Headers
      <4>2. CASE q # p
        BY <2>2, <4>2, PoolsAreBlocks DEF Headers
      <4> QED
        BY <4>1, <4>2
    <3> QED
      BY <1>4, <2>1, <3>1 DEF Headers
  <2>7. \A q \in Range(pool) : \A j : j \in info'[q] <=> j \in info[q] /\ ~(q = p /\ j = i)
    BY <2>2, PoolsAreBlocks
  <2>8. Holders'
    BY <1>5, <1>6, <1>7, <1>8, <2>1, <2>7 DEF Holders
  <2> QED
    BY <2>5, <2>6, <2>8
<1>10. CASE used[p] = 1
  <2>1. RemovePage(p) /\ used' = used /\ info' = info
    BY <1>3, <1>10 DEF Free
  <2>2. PICK k \in 1..Len(pool) : pool[k] = p /\ pool' = RemoveAt(pool, k)
    BY <2>1 DEF RemovePage, TypeOK
  <2>3. pool' \in Seq(Blocks) /\ IsInjective(pool') /\ Range(pool') = Range(pool) \ {p}
    BY <2>2, TakeOut DEF TypeOK, Headers
  <2>4. info[p] = {i}
    <3>1. PICK x : info[p] = {x}
      BY <1>4, <1>10, FS_Singleton
    <3> QED
      BY <1>2, <3>1
  <2>5. TypeOK'
    BY <1>4, <2>1, <2>3 DEF TypeOK
  <2>6. Headers'
    BY <1>4, <2>1, <2>3 DEF Headers
  <2>7. Holders'
    <3>1. ASSUME NEW b \in live'
          PROVE  \E q \in Range(pool') : \E j \in info'[q] :
                   b[1] = SlotAddress(q, j)' /\ b[2] <= Room(q)'
      <4>1. PICK q \in Range(pool) : \E j \in info[q] :
                   b[1] = SlotAddress(q, j) /\ b[2] <= Room(q) /\ ~(q = p /\ j = i)
        BY <1>6
      <4>2. q # p
        BY <2>4, <4>1
      <4> QED
        BY <1>5, <2>1, <2>3, <4>1, <4>2
    <3>2. ASSUME NEW q \in Range(pool'), NEW j \in info'[q]
          PROVE  \E b \in live' : b[1] = SlotAddress(q, j)'
      <4>1. q \in Range(pool) /\ j \in info[q] /\ q # p
        BY <2>1, <2>3
      <4> QED
        BY <1>5, <1>7, <4>1
    <3> QED
      BY <1>8, <3>1, <3>2 DEF Holders
  <2> QED
    BY <2>5, <2>6, <2>7
<1> QED
  BY <1>9, <1>10

(* One case per action of Next.                                            *)
LEMMA NextIInv == IInv /\ [Next]_vars => IInv'
<1> SUFFICES ASSUME IInv, [Next]_vars PROVE IInv'
  OBVIOUS
<1>1. CASE \E n \in Requests : TakeSlot(n)
  BY <1>1, TakeSlotIInv
<1>2. CASE \E n \in Requests : OpenPage(n)
  BY <1>2, OpenPageIInv
<1>3. CASE \E a \in live : Free(a)
  BY <1>3, FreeIInv
<1>4. CASE UNCHANGED vars
  BY <1>4 DEF vars, IInv, TypeOK, Headers, Holders, SlotAddress, Room, Address
<1> QED
  BY <1>1, <1>2, <1>3, <1>4 DEF Next

(* In every behaviour of malloc_ and free the callers hold exactly the     *)
(* marked slots of the pools in the list.                                  *)
THEOREM Invariance == Spec => []IInv
BY InitIInv, NextIInv, PTL DEF Spec

-----------------------------------------------------------------------------
(* What the invariant gives.                                               *)

(* A caller holds one slot, which its request fits.                        *)
LEMMA CallerHasSlot ==
  ASSUME IInv, NEW a \in live
  PROVE  \E p \in Range(pool) : \E i \in info[p] :
           /\ Slot(p, i) /\ p \in Blocks /\ PageOf(a[1]) = p
           /\ a[1] = SlotAddress(p, i) /\ a[1] \in Nat
           /\ a[2] <= Room(p) /\ a[2] \in Nat
<1>1. PICK p \in Range(pool) : \E i \in info[p] : a[1] = SlotAddress(p, i) /\ a[2] <= Room(p)
  BY DEF IInv, Holders
<1>2. PICK i \in info[p] : a[1] = SlotAddress(p, i) /\ a[2] <= Room(p)
  BY <1>1
<1>3. a[2] \in Nat
  BY SlabAllocatorAssumption DEF IInv, TypeOK
<1> QED
  BY <1>2, <1>3, MarksAreSlots, SlotFacts DEF IInv

(* The marks and the holders of the invariant, as sets of addresses.       *)
LEMMA HeldSlots == IInv => SlotsAreHeld
<1> SUFFICES ASSUME IInv PROVE SlotsAreHeld
  OBVIOUS
<1> USE DEF IInv
<1>1. ASSUME NEW p \in Range(pool)
      PROVE  /\ used[p] = Cardinality(info[p]) /\ used[p] >= 1
             /\ {a[1] : a \in {b \in live : PageOf(b[1]) = p}} =
                  {Address(p, total[p], size[p], i) : i \in info[p]}
  <2>1. IsFiniteSet(info[p]) /\ info[p] # {} /\ used[p] = Cardinality(info[p])
    BY DEF Headers
  <2>2. Cardinality(info[p]) \in Nat /\ Cardinality(info[p]) # 0
    BY <2>1, FS_CardinalityType, FS_EmptySet
  <2>3. ASSUME NEW a \in live, PageOf(a[1]) = p
        PROVE  \E i \in info[p] : a[1] = SlotAddress(p, i)
    BY <2>3, CallerHasSlot
  <2>4. ASSUME NEW i \in info[p]
        PROVE  \E a \in live : PageOf(a[1]) = p /\ a[1] = SlotAddress(p, i)
    BY MarksAreSlots, SlotFacts DEF Holders
  <2> QED
    BY <2>1, <2>2, <2>3, <2>4 DEF SlotAddress
<1>2. {PageOf(a[1]) : a \in live} = Range(pool)
  <2>1. \A a \in live : PageOf(a[1]) \in Range(pool)
    BY CallerHasSlot
  <2>2. ASSUME NEW p \in Range(pool) PROVE \E a \in live : PageOf(a[1]) = p
    <3>1. PICK i : i \in info[p]
      BY DEF Headers
    <3>2. PICK a \in live : a[1] = SlotAddress(p, i)
      BY <3>1 DEF Holders
    <3> QED
      BY <3>1, <3>2, MarksAreSlots, SlotFacts
  <2> QED
    BY <2>1, <2>2
<1> QED
  BY <1>1, <1>2 DEF SlotsAreHeld, Headers

(* Two callers in one page: their slots are a slot size apart.             *)
LEMMA ApartInPage ==
  ASSUME IInv, NEW p \in Range(pool), NEW i, NEW j, Slot(p, i), Slot(p, j), i < j
  PROVE  SlotAddress(p, i) + Room(p) <= SlotAddress(p, j)
<1>1. PICK m \in Requests : size[p] = SizeOf(m) /\ total[p] = Total(SizeOf(m))
  BY DEF IInv, Headers
<1>2. size[p] \in Nat /\ total[p] \in Nat /\ PageSize \in Nat /\ p \in Nat
  BY <1>1, SizeClasses, SlotFacts, SlabAllocatorAssumption DEF IInv
<1>3. i \in Nat /\ j \in Nat /\ total[p] # 0
  BY <1>2 DEF Slot
<1>4. size[p] * i + size[p] <= size[p] * j
  BY <1>2, <1>3, MultiplesApart
<1>5. /\ size[p] * i \in Nat /\ size[p] * j \in Nat /\ p * PageSize \in Nat
      /\ aling8(total[p]) \in Nat
  BY <1>2, <1>3, AlingBounds
<1> QED
  BY <1>2, <1>3, <1>4, <1>5 DEF SlotAddress, Address, Room, HeaderSize

(* Two callers in different pages: the first block ends before the second. *)
LEMMA ApartInBlocks ==
  ASSUME IInv, NEW p \in Range(pool), NEW q \in Range(pool), NEW i, NEW j,
         Slot(p, i), Slot(q, j), p < q
  PROVE  SlotAddress(p, i) + Room(p) <= SlotAddress(q, j)
<1>1. PICK m \in Requests : size[p] = SizeOf(m) /\ total[p] = Total(SizeOf(m))
  BY DEF IInv, Headers
<1>2. PICK n \in Requests : size[q] = SizeOf(n) /\ total[q] = Total(SizeOf(n))
  BY DEF IInv, Headers
<1>3. /\ size[p] \in Nat /\ total[p] \in Nat /\ total[q] \in Nat
      /\ PageSize \in Nat /\ p \in Blocks /\ q \in Blocks /\ p \in Nat /\ q \in Nat
  BY <1>1, <1>2, SizeClasses, SlotFacts, SlabAllocatorAssumption DEF IInv
<1>4. p * PageSize + size[p] <= q * PageSize
  BY <1>1, <1>3, SlabAllocatorAssumption
<1>5. p * PageSize + PageSize <= q * PageSize
  <2>1. PageSize * p + PageSize <= PageSize * q
    BY <1>3, MultiplesApart
  <2> QED
    BY <1>3, <2>1
<1>6. /\ SlotAddress(p, i) + Room(p) <= p * PageSize + (IF size[p] > PageSize THEN size[p] ELSE PageSize)
      /\ q * PageSize + HeaderSize + total[q] <= SlotAddress(q, j)
      /\ SlotAddress(p, i) \in Nat /\ SlotAddress(q, j) \in Nat
  BY SlotFacts DEF IInv
<1>7. Room(p) \in Int /\ p * PageSize \in Nat /\ q * PageSize \in Nat
  BY <1>3 DEF Room, HeaderSize
<1> QED
  BY <1>3, <1>4, <1>5, <1>6, <1>7 DEF HeaderSize

(* Any two callers are in one page or in two, either way round.            *)
LEMMA DisjointMemory == IInv => MemoryIsDisjoint
<1> SUFFICES ASSUME IInv, NEW a \in live
             PROVE  LET p == PageOf(a[1])
                        block == IF size[p] > PageSize THEN size[p] ELSE PageSize
                    IN /\ p \in Blocks
                       /\ p * PageSize + HeaderSize + total[p] <= a[1]
                       /\ a[1] + a[2] <= p * PageSize + block
                       /\ \A b \in live \ {a} : (a[1] + a[2] <= b[1]) \/ (b[1] + b[2] <= a[1])
  BY DEF MemoryIsDisjoint
<1>1. PICK p \in Range(pool) : \E i \in info[p] :
        /\ Slot(p, i) /\ p \in Blocks /\ PageOf(a[1]) = p
        /\ a[1] = SlotAddress(p, i) /\ a[1] \in Nat
        /\ a[2] <= Room(p) /\ a[2] \in Nat
  BY CallerHasSlot
<1>2. PICK i \in info[p] :
        /\ Slot(p, i) /\ p \in Blocks /\ PageOf(a[1]) = p
        /\ a[1] = SlotAddress(p, i) /\ a[1] \in Nat
        /\ a[2] <= Room(p) /\ a[2] \in Nat
  BY <1>1
<1>3. \A q \in Blocks : q \in Nat /\ q * PageSize \in Nat /\ size[q] \in Nat /\ Room(q) \in Int
  BY SlabAllocatorAssumption DEF IInv, TypeOK, Room, HeaderSize
<1>4. /\ p * PageSize + HeaderSize + total[p] <= a[1]
      /\ a[1] + a[2] <= p * PageSize + (IF size[p] > PageSize THEN size[p] ELSE PageSize)
  <2> DEFINE end == p * PageSize + (IF size[p] > PageSize THEN size[p] ELSE PageSize)
  <2>1. p * PageSize + HeaderSize + total[p] <= a[1] /\ a[1] + Room(p) <= end
    BY <1>2, SlotFacts DEF IInv
  <2>2. end \in Int
    BY <1>2, <1>3, SlabAllocatorAssumption
  <2> HIDE DEF end
  <2>3. a[1] + a[2] <= end
    BY <1>2, <1>3, <2>1, <2>2
  <2> QED
    BY <2>1, <2>3 DEF end
<1>5. ASSUME NEW b \in live \ {a}
      PROVE  (a[1] + a[2] <= b[1]) \/ (b[1] + b[2] <= a[1])
  <2>1. PICK q \in Range(pool) : \E j \in info[q] :
          /\ Slot(q, j) /\ q \in Blocks
          /\ b[1] = SlotAddress(q, j) /\ b[1] \in Nat
          /\ b[2] <= Room(q) /\ b[2] \in Nat
    BY CallerHasSlot
  <2>2. PICK j \in info[q] :
          /\ Slot(q, j) /\ q \in Blocks
          /\ b[1] = SlotAddress(q, j) /\ b[1] \in Nat
          /\ b[2] <= Room(q) /\ b[2] \in Nat
    BY <2>1
  <2>3. p # q \/ i # j
    <3>1. a[1] # b[1]
      BY <1>5 DEF IInv, Holders
    <3> QED
      BY <1>2, <2>2, <3>1
  <2>4. i \in Nat /\ j \in Nat /\ p \in Nat /\ q \in Nat /\ Room(p) \in Int /\ Room(q) \in Int
    BY <1>2, <1>3, <2>2 DEF Slot
  <2>5. CASE p < q \/ (p = q /\ i < j)
    <3>1. a[1] + Room(p) <= b[1]
      BY <1>2, <2>2, <2>5, ApartInPage, ApartInBlocks
    <3> QED
      BY <1>2, <2>2, <2>4, <3>1
  <2>6. CASE q < p \/ (p = q /\ j < i)
    <3>1. b[1] + Room(q) <= a[1]
      BY <1>2, <2>2, <2>6, ApartInPage, ApartInBlocks
    <3> QED
      BY <1>2, <2>2, <2>4, <3>1
  <2> QED
    BY <2>3, <2>4, <2>5, <2>6
<1> QED
  BY <1>2, <1>4, <1>5

(* malloc_ and free agree on addresses: free always finds the slot that    *)
(* malloc_ marked, so a pool that counts a free slot has one, and a pool   *)
(* is listed while a slot of it is held and no longer.                     *)
THEOREM SlotsHeld == Spec => []SlotsAreHeld
BY Invariance, HeldSlots, PTL

(* No two callers of malloc_ share a byte, and none reaches the header,    *)
(* the page_info or the end of its block.                                  *)
THEOREM Disjoint == Spec => []MemoryIsDisjoint
BY Invariance, DisjointMemory, PTL
=============================================================================
