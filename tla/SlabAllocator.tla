--------------------------- MODULE SlabAllocator ---------------------------
(***************************************************************************)
(* malloc_ and free of lib/malloc.c: blocks of pages cut into slots of one *)
(* size, the power of two that fits the request.  Addresses are numbers,   *)
(* computed as the code does; free finds the page and the slot from the    *)
(* address alone.  malloc_ and free run with interrupts masked, or before  *)
(* there are tasks, so each is one step.                                   *)
(*                                                                         *)
(* page_allocate and page_free are used as PageAllocator promises: they    *)
(* hand out and take back disjoint blocks that start at a page.            *)
(***************************************************************************)
EXTENDS Integers, FiniteSets, Sequences, SequencesExt

CONSTANTS
  PageSize,   \* 0x1000
  Requests,   \* the sizes that malloc_ is asked for
  Blocks      \* the first pages of the blocks page_allocate can hand out

VARIABLES
  pool,    \* the list of pool headers, by their page, the newest first
  size,    \* pool_header.size
  total,   \* pool_header.total
  used,    \* pool_header.used
  info,    \* page_info: the slots marked as taken
  live     \* what callers hold: <<address, requested size>>

vars == <<pool, size, total, used, info, live>>

HeaderSize == 32   \* aling8(sizeof(pool_header))

aling8(n) == IF n % 8 = 0 THEN n ELSE 8 + n - (n % 8)

(* The exponent log2 finds is never above PAGE_MAX_ORDER.                  *)
MaxExponent == 16 + 1

(* The least power of two, of at least 8, that is not below n (or the      *)
(* largest that log2 lets malloc_ compute).                                *)
SlotSize(n) ==
  LET k == CHOOSE k \in 3..MaxExponent :
             /\ k = MaxExponent \/ 2^k >= n
             /\ k = 3 \/ 2^(k - 1) < n
  IN 2^k

(* Fault: the header does not get room next to a whole page.               *)
SizeNotDoubled(n) == SlotSize(n)

(* Requests beyond half a page get twice the size: a block of their own,   *)
(* with room for the header.                                               *)
SizeOf(n) == IF SlotSize(n) > PageSize \div 2 THEN 2 * SlotSize(n) ELSE SlotSize(n)

(* A page has room for a slot of half its size, no request is beyond what  *)
(* log2 lets malloc_ compute, and page_allocate hands out disjoint blocks, *)
(* each large enough for the request.                                      *)
ASSUME SlabAllocatorAssumption ==
  /\ PageSize \in Nat /\ PageSize >= 2 * (HeaderSize + 17)
  /\ Requests \subseteq Nat
  /\ \A n \in Requests : SlotSize(n) \in Nat \ {0} /\ n <= SlotSize(n)
  /\ Blocks \subseteq Nat
  /\ \A p, q \in Blocks, n \in Requests : p < q => p * PageSize + SizeOf(n) <= q * PageSize

(* The number of slots of size s, each with a byte of page_info; none if s *)
(* is larger than a page.                                                  *)
Total(s) == (PageSize - HeaderSize - 16) \div (s + 1)

(* The address of slot i: the slots follow the header and page_info.       *)
Address(page, tot, s, i) == page * PageSize + HeaderSize + aling8(tot) + s * i

PageOf(addr) == addr \div PageSize

(* The slot that free computes from the address.                           *)
SlotOf(addr) ==
  LET page == PageOf(addr) IN
  ((addr % PageSize) - aling8(total[page]) - HeaderSize) \div size[page]

-----------------------------------------------------------------------------
Init ==
  /\ pool = <<>>
  /\ size = [p \in Blocks |-> 0]
  /\ total = [p \in Blocks |-> 0]
  /\ used = [p \in Blocks |-> 0]
  /\ info = [p \in Blocks |-> {}]
  /\ live = {}

(* A pool from which malloc_ serves size s: one size class, not full.      *)
Usable(p, s) == size[p] >= s /\ size[p] < 2 * s /\ used[p] < total[p]

UsableIn(s) == {k \in DOMAIN pool : Usable(pool[k], s)}

(* malloc_(n) when a pool has room: the first pool, its first free slot.   *)
(* That it has one is not for granted (SlotsAreHeld): over a pool without, *)
(* malloc_ would add to used in pass after pass, until the pool looks full.*)
TakeSlot(n) ==
  \E k \in UsableIn(SizeOf(n)) :
    LET page == pool[k] IN
    /\ \A l \in UsableIn(SizeOf(n)) : k <= l
    /\ \E i \in 0..(total[page] - 1) :
         /\ i \notin info[page]
         /\ \A j \in 0..(i - 1) : j \in info[page]
         /\ info' = [info EXCEPT ![page] = @ \cup {i}]
         /\ live' = live \cup {<<Address(page, total[page], size[page], i), n>>}
    /\ used' = [used EXCEPT ![page] = @ + 1]
    /\ UNCHANGED <<pool, size, total>>

(* malloc_(n) when no pool has room: open_page.                            *)
OpenPage(n) ==
  LET s == SizeOf(n) IN
  /\ UsableIn(s) = {}
  /\ \E page \in Blocks \ Range(pool) :
       /\ pool' = <<page>> \o pool
       /\ size' = [size EXCEPT ![page] = s]
       /\ total' = [total EXCEPT ![page] = Total(s)]
       /\ used' = [used EXCEPT ![page] = 1]
       /\ info' = [info EXCEPT ![page] = {0}]
       /\ live' = live \cup {<<Address(page, Total(s), s, 0), n>>}

(* remove_page: the pool is unlinked and its page given back.              *)
RemovePage(page) == \E k \in DOMAIN pool : pool[k] = page /\ pool' = RemoveAt(pool, k)

(* Fault: the slot stays marked.                                           *)
FreeKeepsMark(a) ==
  LET page == PageOf(a[1]) IN
  /\ live' = live \ {a}
  /\ \/ /\ used[page] # 1
        /\ used' = [used EXCEPT ![page] = @ - 1]
        /\ UNCHANGED <<pool, size, total, info>>
     \/ /\ used[page] = 1
        /\ RemovePage(page)
        /\ UNCHANGED <<size, total, used, info>>

(* free(a): the last slot of a page gives the page back (remove_page), any *)
(* other slot is unmarked.                                                 *)
Free(a) ==
  LET page == PageOf(a[1]) IN
  /\ live' = live \ {a}
  /\ \/ /\ used[page] # 1
        /\ used' = [used EXCEPT ![page] = @ - 1]
        /\ info' = [info EXCEPT ![page] = @ \ {SlotOf(a[1])}]
        /\ UNCHANGED <<pool, size, total>>
     \/ /\ used[page] = 1
        /\ RemovePage(page)
        /\ UNCHANGED <<size, total, used, info>>

Next ==
  \/ \E n \in Requests : TakeSlot(n)
  \/ \E n \in Requests : OpenPage(n)
  \/ \E a \in live : Free(a)

Spec == Init /\ [][Next]_vars

-----------------------------------------------------------------------------
(* The pool headers hold numbers, and a page with room for several slots   *)
(* never counts more than it has.                                          *)
TypeOK ==
  /\ pool \in Seq(Blocks)
  /\ size \in [Blocks -> Nat] /\ total \in [Blocks -> Nat] /\ used \in [Blocks -> Nat]
  /\ \A p \in Blocks : used[p] <= total[p] \/ used[p] \in {0, 1}
  /\ info \in [Blocks -> SUBSET (0..PageSize)]
  /\ live \subseteq Nat \X Requests

(* malloc_ and free agree on addresses: in every pool the slots marked as  *)
(* taken are those whose addresses callers hold, used counts them, so a    *)
(* pool with room has a free slot, and a pool is in the list as long as    *)
(* something in it is held: when everything is freed, all pages were given *)
(* back.  The type invariant is its first part.                            *)
SlotsAreHeld ==
  /\ TypeOK
  /\ IsInjective(pool)
  /\ \A p \in Range(pool) :
       /\ used[p] = Cardinality(info[p]) /\ used[p] >= 1
       /\ {a[1] : a \in {b \in live : PageOf(b[1]) = p}} =
            {Address(p, total[p], size[p], i) : i \in info[p]}
  /\ {PageOf(a[1]) : a \in live} = Range(pool)

(* The memory of a caller is its own: it lies inside the block of its pool *)
(* (pages enough for one slot), behind the header and page_info, and       *)
(* shares no byte with that of any other caller.                           *)
MemoryIsDisjoint ==
  \A a \in live :
    LET p == PageOf(a[1])
        block == IF size[p] > PageSize THEN size[p] ELSE PageSize
    IN /\ p \in Blocks
       /\ p * PageSize + HeaderSize + total[p] <= a[1]
       /\ a[1] + a[2] <= p * PageSize + block
       /\ \A b \in live \ {a} : (a[1] + a[2] <= b[1]) \/ (b[1] + b[2] <= a[1])
=============================================================================
