-------------------------- MODULE MCSlabAllocator --------------------------
(* SlabAllocator with the page size of the board.  The sizes that malloc_  *)
(* is asked for: two that share slots of 0x400 bytes (three to a page), a  *)
(* task or stack of 0x800 (one to a page), a file of a page.               *)
EXTENDS SlabAllocator

SomeRequests == {600, 1024, 2048, 4096}

(* Three blocks of two pages each.                                         *)
SomeBlocks == {16, 18, 20}
=============================================================================
