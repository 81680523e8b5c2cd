-------------------------- MODULE MCPageAllocator --------------------------
(* PageAllocator with few pages.  Like the 0x3c000 pages of the board they *)
(* are not a multiple of the largest block, so the last block has its      *)
(* buddy past the end of frame[], and page_divide gives up below the       *)
(* largest order.                                                          *)
EXTENDS PageAllocator

(* Every range there is.                                                   *)
AllRanges == {r \in (0..Entries - 1) \X (0..Entries - 1) : r[1] <= r[2]}

(* The levels that are asked for: one page, as malloc_ does, and two.      *)
SmallLevels == {0, 1}

(* What lies past frame[]: an entry that looks like the last block, or not.*)
PastFrame == {0, 1}
=============================================================================
