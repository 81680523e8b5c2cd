--------------------------- MODULE PageAllocator ---------------------------
(***************************************************************************)
(* The buddy allocator of lib/malloc.c: page_init and memory_reserve, which *)
(* cut the memory into blocks around the regions in use, and page_allocate *)
(* and page_free, which split and merge free blocks.                       *)
(*                                                                         *)
(* All of it runs with interrupts masked or before there are tasks, so     *)
(* page_allocate and page_free are one step each.  page_init makes one     *)
(* step per loop iteration, to follow its cursor head.                     *)
(*                                                                         *)
(* The page_item of a free block lies in the block's own first page; NULL  *)
(* is written NoPage and a page stands for the item in it.  An item that   *)
(* is not in a list is memory somebody else may have written: Junk.        *)
(***************************************************************************)
EXTENDS Integers, FiniteSets, Functions

CONSTANTS
  Entries,      \* PAGE_MAX_ENTRY: the number of pages
  MaxOrder,     \* PAGE_MAX_ORDER: the order of the largest blocks
  DivideLimit,  \* the level from which page_divide does not look higher
  Levels,       \* the levels page_allocate is asked for
  Ranges,       \* <<first page, last page>> of what may be reserved
  MaxRanges,    \* bound: how many ranges are reserved
  GuardOrders   \* what frame[PAGE_MAX_ENTRY].index may read, past the array

Level == 0..MaxOrder

ASSUME PageAllocatorAssumption ==
  /\ Entries \in Nat \ {0}
  /\ MaxOrder \in Nat
  /\ DivideLimit \in Level
  /\ Levels \subseteq Level
  /\ Ranges \subseteq (0..Entries - 1) \X (0..Entries - 1)
  /\ MaxRanges \in Nat
  /\ GuardOrders \subseteq Int

VARIABLES
  mem,       \* frame[], page_list[] and the page items
  pc,        \* which loop of page_init runs, and how the last call ended
  head,      \* the cursor of the loops of page_init and memory_reserve
  range,     \* the arguments of memory_reserve, as pages
  reserved,  \* the ranges reserved so far
  boundary,  \* memory_reserve met a block that ends right before its last page
  held,      \* the blocks that callers got: first page -> level
  initial    \* the free blocks when page_init ended

vars == <<mem, pc, head, range, reserved, boundary, held, initial>>

Page == 0..Entries - 1
NoPage == -1
Junk == -2

FREE == -1        \* PAGE_FREE: inside a free block
ALLOCATED == -2   \* PAGE_ALLOCATED: inside an allocated block
RESERVED == -3    \* PAGE_RESERVED: inside a reserved block

-----------------------------------------------------------------------------
(* power2 doubles as often as the order says: 1 for every negative order.  *)
doubled[k \in Level] == IF k = 0 THEN 1 ELSE 2 * doubled[k - 1]

Pow2(k) == IF k <= 0 THEN 1 ELSE doubled[k]

(* log2: rounded down and capped, -1 for 0.                                *)
Log2(n) ==
  IF n = 0 THEN -1
  ELSE CHOOSE k \in Level :
         /\ Pow2(k) <= n
         /\ k = MaxOrder \/ n < Pow2(k + 1)

(* The pages inside the block of order k at i, its head excepted.          *)
Inside(i, k) == (i + 1)..(i + Pow2(k) - 1)

Mark(orders, pages, mark) ==
  [p \in DOMAIN orders |-> IF p \in pages THEN mark ELSE orders[p]]

(* Fault: only the lower half gets its order.                              *)
HalveLower(m, i) ==
  [m EXCEPT !.order = [@ EXCEPT ![i] = m.order[i] - 1],
            !.status = [@ EXCEPT ![i] = 0, ![i + Pow2(m.order[i] - 1)] = 0]]

(* The two halves of the block at i, both free.                            *)
Halve(m, i) ==
  LET k == m.order[i] - 1 IN
  [m EXCEPT !.order = [@ EXCEPT ![i] = k, ![i + Pow2(k)] = k],
            !.status = [@ EXCEPT ![i] = 0, ![i + Pow2(k)] = 0]]

(* The block at i is in use, its inside marked.                            *)
TakeBlock(m, i, mark) ==
  [m EXCEPT !.order = Mark(@, Inside(i, m.order[i]), mark),
            !.status = [@ EXCEPT ![i] = 1]]

(* Fault: the old head of the list does not learn its new predecessor.     *)
AddItemOneWay(m, i) ==
  LET old == m.list[m.order[i]] IN
  [m EXCEPT !.list = [@ EXCEPT ![m.order[i]] = i],
            !.next = [@ EXCEPT ![i] = old],
            !.prev = [@ EXCEPT ![i] = NoPage]]

(* add_page_item(i): i becomes the head of the list of its level.          *)
AddItem(m, i) ==
  LET old == m.list[m.order[i]] IN
  [m EXCEPT !.list = [@ EXCEPT ![m.order[i]] = i],
            !.next = [@ EXCEPT ![i] = old],
            !.prev = [p \in Page |-> IF p = i THEN NoPage
                                     ELSE IF p = old THEN i
                                     ELSE m.prev[p]]]

(* delete_page_item(i), which trusts the two pointers of the item.         *)
DeleteItem(m, i) ==
  LET p == m.prev[i]
      n == m.next[i]
  IN [m EXCEPT
        !.next = [q \in Page |-> IF q = i THEN Junk ELSE IF q = p THEN n ELSE m.next[q]],
        !.prev = [q \in Page |-> IF q = i THEN Junk ELSE IF q = n THEN p ELSE m.prev[q]],
        !.list = IF p = NoPage THEN [@ EXCEPT ![m.order[i]] = n] ELSE @]

(* The head of a list is taken out: only the list pointer changes, so the  *)
(* new head keeps a pointer to the page that is gone.                      *)
PopItem(m, level) ==
  LET i == m.list[level] IN
  [m EXCEPT !.list = [@ EXCEPT ![level] = m.next[i]],
            !.next = [@ EXCEPT ![i] = Junk],
            !.prev = [@ EXCEPT ![i] = Junk]]

-----------------------------------------------------------------------------
(* The block with which the block of order k at i was once halved.         *)
Buddy(i, k) == IF i % (2 * Pow2(k)) # 0 THEN i - Pow2(k) ELSE i + Pow2(k)

(* Fault: the status of the buddy is not looked at.                        *)
CanMergeAnyStatus(m, i) ==
  m.order[i] # MaxOrder /\ m.order[i] = m.order[Buddy(i, m.order[i])]

CanMerge(m, i) ==
  /\ m.order[i] # MaxOrder
  /\ m.order[i] = m.order[Buddy(i, m.order[i])]
  /\ m.status[i] = 0 /\ m.status[Buddy(i, m.order[i])] = 0

(* One call of merge: s.at and its buddy leave their list, the upper one   *)
(* becomes the inside of the lower one, which enters the next list.        *)
MergeOnce(s) ==
  IF ~CanMerge(s.m, s.at) \/ Buddy(s.at, s.m.order[s.at]) \notin Page THEN s
  ELSE LET b == Buddy(s.at, s.m.order[s.at])
           low == IF b < s.at THEN b ELSE s.at
           high == IF b < s.at THEN s.at ELSE b
           d == DeleteItem(DeleteItem(s.m, s.at), b)
       IN [m |-> AddItem([d EXCEPT !.order =
                            [@ EXCEPT ![high] = FREE, ![low] = d.order[low] + 1]], low),
           at |-> low]

(* Fault: a merged block is not merged further.                            *)
MergeSingle(m, i) == MergeOnce([m |-> m, at |-> i])

(* merge(i) calls itself as long as the order grows: the memory and the    *)
(* block in the end.                                                       *)
Merge(m, i) ==
  LET merged[n \in 0..MaxOrder] ==
        IF n = 0 THEN [m |-> m, at |-> i] ELSE MergeOnce(merged[n - 1])
  IN merged[MaxOrder]

(* page_divide(level) at a level whose list is not empty.                  *)
SplitHead(m, level) ==
  LET i == m.list[level]
      h == [PopItem(m, level) EXCEPT
              !.order = [@ EXCEPT ![i] = level - 1, ![i + Pow2(level - 1)] = level - 1]]
  IN AddItem(AddItem(h, i), i + Pow2(level - 1))

(* The level where page_divide(level) finds a block: it looks higher only  *)
(* from a level below the limit.  There is none if it gives up.            *)
Sources(m, level) ==
  {k \in level..MaxOrder :
     /\ m.list[k] # NoPage
     /\ \A j \in level..(k - 1) : m.list[j] = NoPage /\ j < DivideLimit}

(* page_divide(level): the block is halved down to level - 1.              *)
Divide(m, level) ==
  LET k == CHOOSE k \in Sources(m, level) : TRUE
      divided[n \in 0..(k - level + 1)] ==
        IF n = 0 THEN m ELSE SplitHead(divided[n - 1], k - n + 1)
  IN divided[k - level + 1]

-----------------------------------------------------------------------------
(* Before page_init: the lists are empty, frame[] is about to be written.  *)
Init ==
  /\ \E guard \in GuardOrders :
       mem = [order |-> [p \in 0..Entries |-> IF p = Entries THEN guard ELSE FREE],
              status |-> [p \in 0..Entries |-> 0],
              list |-> [k \in Level |-> NoPage],
              next |-> [p \in Page |-> Junk],
              prev |-> [p \in Page |-> Junk]]
  /\ pc = "init"
  /\ head = 0
  /\ range = <<0, 0>>
  /\ reserved = {}
  /\ boundary = FALSE
  /\ held = <<>>
  /\ initial = {}

(* The free blocks, with their orders.                                     *)
FreeBlocks == {<<i, mem.order[i]>> : i \in {p \in Page : mem.order[p] >= 0 /\ mem.status[p] = 0}}

(* page_init: the next block is as large as fits.                          *)
InitBlock ==
  LET k == Log2(Entries - head) IN
  /\ pc = "init"
  /\ mem' = [mem EXCEPT !.order = [Mark(@, Inside(head, k), FREE) EXCEPT ![head] = k]]
  /\ head' = head + Pow2(k)
  /\ pc' = IF head' < Entries THEN "init" ELSE "reserve_next"
  /\ UNCHANGED <<range, reserved, boundary, held, initial>>

PagesOf(r) == r[1]..r[2]

ReservedPages == UNION {PagesOf(r) : r \in reserved}

(* memory_reserve(r): head goes back to the block the first page is in.    *)
StartReserve(r) ==
  /\ pc = "reserve_next"
  /\ Cardinality(reserved) < MaxRanges
  /\ r[1] <= r[2]
  /\ PagesOf(r) \cap ReservedPages = {}
  /\ head' = CHOOSE h \in 0..r[1] :
               mem.order[h] # FREE /\ \A p \in (h + 1)..r[1] : mem.order[p] = FREE
  /\ range' = r
  /\ pc' = "split_start"
  /\ UNCHANGED <<mem, reserved, boundary, held, initial>>

(* Fault: the upper half is not entered when it starts the range.          *)
SplitStartBelow ==
  LET half == Pow2(mem.order[head] - 1) IN
  /\ pc = "split_start"
  /\ head # range[1]
  /\ mem' = Halve(mem, head)
  /\ head' = IF head + half >= range[1] THEN head ELSE head + half
  /\ UNCHANGED <<pc, range, reserved, boundary, held, initial>>

(* Its first loop halves the block until one starts with the first page.   *)
SplitStart ==
  LET half == Pow2(mem.order[head] - 1) IN
  /\ pc = "split_start"
  /\ head # range[1]
  /\ mem' = Halve(mem, head)
  /\ head' = IF head + half > range[1] THEN head ELSE head + half
  /\ UNCHANGED <<pc, range, reserved, boundary, held, initial>>

StartFill ==
  /\ pc = "split_start"
  /\ head = range[1]
  /\ pc' = "fill"
  /\ UNCHANGED <<mem, head, range, reserved, boundary, held, initial>>

(* Fault: a block that reaches beyond the last page is taken.              *)
FillTooFar ==
  /\ pc = "fill"
  /\ head < range[2]
  /\ mem' = TakeBlock(mem, head, RESERVED)
  /\ head' = head + Pow2(mem.order[head])
  /\ pc' = IF head' >= range[2] THEN "reserve_next" ELSE pc
  /\ reserved' = IF head' >= range[2] THEN reserved \cup {range} ELSE reserved
  /\ UNCHANGED <<range, boundary, held, initial>>

(* Its second loop takes the blocks that end before the page before last.  *)
Fill ==
  /\ pc = "fill"
  /\ head + Pow2(mem.order[head]) < range[2]
  /\ mem' = TakeBlock(mem, head, RESERVED)
  /\ head' = head + Pow2(mem.order[head])
  /\ UNCHANGED <<pc, range, reserved, boundary, held, initial>>

StartSplitEnd ==
  /\ pc = "fill"
  /\ head + Pow2(mem.order[head]) >= range[2]
  /\ pc' = "split_end"
  /\ boundary' = (boundary \/ head + Pow2(mem.order[head]) = range[2])
  /\ UNCHANGED <<mem, head, range, reserved, held, initial>>

(* Its third loop halves the block until one ends with the last page.  A   *)
(* block that ends right before the last page is halved to order -1, and   *)
(* "its other half" is then the entry of the last page.                    *)
SplitEnd ==
  LET halved == Halve(mem, head)
      middle == head + Pow2(mem.order[head] - 1)
  IN /\ pc = "split_end"
     /\ head + Pow2(mem.order[head]) - 1 # range[2]
     /\ IF range[2] >= middle
        THEN mem' = TakeBlock(halved, head, RESERVED) /\ head' = middle
        ELSE mem' = halved /\ head' = head
     /\ UNCHANGED <<pc, range, reserved, boundary, held, initial>>

EndReserve ==
  /\ pc = "split_end"
  /\ head + Pow2(mem.order[head]) - 1 = range[2]
  /\ mem' = TakeBlock(mem, head, RESERVED)
  /\ reserved' = reserved \cup {range}
  /\ pc' = "reserve_next"
  /\ UNCHANGED <<head, range, boundary, held, initial>>

StartLists ==
  /\ pc = "reserve_next"
  /\ head' = 0
  /\ pc' = "lists"
  /\ UNCHANGED <<mem, range, reserved, boundary, held, initial>>

(* The last loop of page_init adds the free blocks to the lists.  For a    *)
(* page that no block contains it writes page_list[-1].                    *)
ListBlock ==
  /\ pc = "lists"
  /\ head < Entries
  /\ IF mem.status[head] = 0 /\ mem.order[head] < 0
     THEN pc' = "corrupt" /\ UNCHANGED mem
     ELSE pc' = pc /\ mem' = IF mem.status[head] = 0 THEN AddItem(mem, head) ELSE mem
  /\ head' = head + Pow2(mem.order[head])
  /\ UNCHANGED <<range, reserved, boundary, held, initial>>

EndInit ==
  /\ pc = "lists"
  /\ head >= Entries
  /\ pc' = "ready"
  /\ initial' = FreeBlocks
  /\ UNCHANGED <<mem, head, range, reserved, boundary, held>>

-----------------------------------------------------------------------------
(* page_allocate takes the head of the list of its level.                  *)
Hand(m, level) ==
  LET i == m.list[level] IN
  /\ mem' = PopItem(TakeBlock(m, i, ALLOCATED), level)
  /\ held' = [p \in DOMAIN held \cup {i} |-> IF p = i THEN level ELSE held[p]]

(* page_allocate: from its list, or by dividing a larger block.  If        *)
(* page_divide gives up, page_allocate goes on with an item at NULL, or    *)
(* page_divide calls itself forever: "failed".  At the largest level it    *)
(* returns -1 and nothing changes.                                         *)
Allocate(level) ==
  /\ pc = "ready"
  /\ \/ /\ mem.list[level] # NoPage
        /\ Hand(mem, level)
        /\ UNCHANGED pc
     \/ /\ mem.list[level] = NoPage
        /\ level < MaxOrder
        /\ Sources(mem, level + 1) # {}
        /\ Hand(Divide(mem, level + 1), level)
        /\ UNCHANGED pc
     \/ /\ mem.list[level] = NoPage
        /\ level < MaxOrder
        /\ Sources(mem, level + 1) = {}
        /\ pc' = "failed"
        /\ UNCHANGED <<mem, held>>
  /\ UNCHANGED <<head, range, reserved, boundary, initial>>

(* Fault: page_free does not mark the inside of the block.                 *)
FreeUnmarked(i) ==
  LET freed == [AddItem(mem, i) EXCEPT !.status = [@ EXCEPT ![i] = 0]]
  IN /\ pc = "ready"
     /\ i \in DOMAIN held
     /\ mem' = Merge(freed, i).m
     /\ held' = [p \in DOMAIN held \ {i} |-> held[p]]
     /\ UNCHANGED <<pc, head, range, reserved, boundary, initial>>

(* page_free of a block that a caller holds.  If merge takes what lies     *)
(* past the end of frame[] for the buddy, it damages the lists.            *)
Free(i) ==
  LET added == AddItem(mem, i)
      freed == [added EXCEPT !.order = Mark(@, Inside(i, mem.order[i]), FREE),
                             !.status = [@ EXCEPT ![i] = 0]]
      end == Merge(freed, i)
  IN /\ pc = "ready"
     /\ i \in DOMAIN held
     /\ mem' = end.m
     /\ held' = [p \in DOMAIN held \ {i} |-> held[p]]
     /\ pc' = IF CanMerge(end.m, end.at) /\ Buddy(end.at, end.m.order[end.at]) = Entries
              THEN "corrupt" ELSE pc
     /\ UNCHANGED <<head, range, reserved, boundary, initial>>

Next ==
  \/ InitBlock
  \/ \E r \in Ranges : StartReserve(r)
  \/ SplitStart
  \/ StartFill
  \/ Fill
  \/ StartSplitEnd
  \/ SplitEnd
  \/ EndReserve
  \/ StartLists
  \/ ListBlock
  \/ EndInit
  \/ \E level \in Levels : Allocate(level)
  \/ \E i \in Page : Free(i)

Spec == Init /\ [][Next]_vars

-----------------------------------------------------------------------------
(* The entries of frame[] are orders or marks, page_list[] and the items   *)
(* hold pages, and the cursor of page_init stays inside the memory.        *)
TypeOK ==
  /\ mem.order \in [0..Entries -> (RESERVED - Entries)..MaxOrder \cup GuardOrders]
  /\ mem.status \in [0..Entries -> {0, 1}]
  /\ mem.list \in [Level -> Page \cup {NoPage}]
  /\ mem.next \in [Page -> Page \cup {NoPage, Junk}]
  /\ mem.prev \in [Page -> Page \cup {NoPage, Junk}]
  /\ pc \in {"init", "reserve_next", "split_start", "fill", "split_end", "lists",
             "ready", "failed", "corrupt"}
  /\ head \in 0..Entries
  /\ range \in Page \X Page
  /\ reserved \subseteq Ranges
  /\ boundary \in BOOLEAN
  /\ DOMAIN held \subseteq Page /\ \A i \in DOMAIN held : held[i] \in Level
  /\ initial \subseteq Page \X Level

(* The pages of the block at i.                                            *)
BlockPages(i) == i..(i + Pow2(mem.order[i]) - 1)

Blocks == {i \in Page : mem.order[i] >= 0}

(* Each mark says what its block is: inside a free block FREE, and so on.  *)
MarkOf(i) ==
  IF mem.status[i] = 0 THEN FREE
  ELSE IF i \in DOMAIN held THEN ALLOCATED ELSE RESERVED

(* Once page_init has cut the memory, the blocks always tile it: they are  *)
(* aligned to their size, cover every page once, and every entry inside    *)
(* one has the mark of its block and status 0.  page_divide relies on it:  *)
(* it sets neither the status of the upper half nor the marks.             *)
BlocksTile ==
  (pc # "init" /\ ~boundary) =>
    /\ \A i \in Blocks :
         /\ i % Pow2(mem.order[i]) = 0
         /\ BlockPages(i) \subseteq Page
         /\ \A p \in BlockPages(i) \ {i} : mem.order[p] = MarkOf(i) /\ mem.status[p] = 0
    /\ UNION {BlockPages(i) : i \in Blocks} = Page

(* The items of a list from its head on, and what follows the last one.    *)
ListItems(level) ==
  LET item[n \in 0..Entries] ==
        IF n = 0 THEN mem.list[level]
        ELSE IF item[n - 1] \in Page THEN mem.next[item[n - 1]] ELSE item[n - 1]
  IN item

(* The free lists are well formed: the list of a level ends, contains      *)
(* exactly the free blocks of that order, and its previous pointers are    *)
(* those of a doubly linked list, but for the head's: page_allocate and    *)
(* page_divide leave in the new head a pointer to the block they took.     *)
(* It is stale, and nothing may follow it: delete_page_item would write    *)
(* into the page of a caller and leave the head in place.                  *)
ListsAreFreeBlocks ==
  (pc = "ready" /\ ~boundary) =>
    \A k \in Level :
      LET item == ListItems(k) IN
      /\ item[Entries] = NoPage
      /\ \A a, b \in 0..Entries : item[a] = item[b] /\ item[a] # NoPage => a = b
      /\ Range(item) \ {NoPage} = {i \in Blocks : mem.order[i] = k /\ mem.status[i] = 0}
      /\ \A n \in 1..Entries : item[n] # NoPage => mem.prev[item[n]] = item[n - 1]

(* memory_reserve reserves the pages of its range, last one included, and  *)
(* no other, for every range and every order of the calls.                 *)
ReservedExactly ==
  (pc \in {"reserve_next", "lists", "ready"} /\ ~boundary) =>
    UNION {BlockPages(i) : i \in {b \in Blocks \ DOMAIN held : mem.status[b] = 1}} = ReservedPages

(* What a caller holds stays its block until it frees it: whatever others  *)
(* allocate and free, the block keeps its order and its marks, which is    *)
(* all that page_free knows of its size, and no reserved page is in it.    *)
HeldBlocksKept ==
  (pc \in {"ready", "failed"} /\ ~boundary) =>
    \A i \in DOMAIN held :
      /\ mem.order[i] = held[i] /\ mem.status[i] = 1
      /\ BlockPages(i) \cap ReservedPages = {}
      /\ \A j \in DOMAIN held \ {i} : BlockPages(i) \cap BlockPages(j) = {}

(* Nothing leaks: once everything is freed, in whatever order, the free    *)
(* blocks are again those that page_init made.                             *)
AllFreedRestores ==
  (pc = "ready" /\ ~boundary /\ held = <<>>) => FreeBlocks = initial

(* The allocator leaves its arrays in two cases only: page_list[-1] is     *)
(* written after a range ended one page behind a block, and a merge past   *)
(* frame[] needs what is there to look like a free block as large as the   *)
(* last one.                                                               *)
CorruptOnlyAtEdges ==
  pc = "corrupt" =>
    \/ boundary
    \/ \E i \in Blocks : mem.status[i] = 0 /\ i + Pow2(mem.order[i]) = Entries
                       /\ mem.order[i] = mem.order[Entries]

(* malloc.c:219 prints "No page can be divided!!!" when page_divide gives  *)
(* up: then no block larger than the one that was asked for is free.       *)
NoPageCanBeDivided ==
  pc = "failed" =>
    \E level \in Levels :
      level < MaxOrder /\ \A k \in level..MaxOrder : mem.list[k] = NoPage
=============================================================================
