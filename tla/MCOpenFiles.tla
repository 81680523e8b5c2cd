----------------------------- MODULE MCOpenFiles -----------------------------
(***************************************************************************)
(* Two tasks with one descriptor besides the standard one, two files of up *)
(* to two bytes.  Tasks and files are interchangeable: descriptors and     *)
(* positions are what the code orders.                                     *)
(***************************************************************************)
EXTENDS OpenFiles, TLC

MCSymmetry == Permutations(Tasks) \cup Permutations(Files)

=============================================================================
