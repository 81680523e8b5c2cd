----------------------------- MODULE MCSignals -----------------------------
(* Signals with the idle task and four more tasks.                         *)
EXTENDS Signals, TLC

CONSTANTS idle, t1, t2, t3, t4, null

MCTask == {idle, t1, t2, t3, t4}

(* Tasks other than the idle one are interchangeable.                      *)
Symmetry == Permutations({t1, t2, t3, t4})
=============================================================================
