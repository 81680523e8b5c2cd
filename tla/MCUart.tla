------------------------------- MODULE MCUart -------------------------------
(* Uart with model values for the tasks.                                   *)
EXTENDS Uart

CONSTANTS t1, t2
=============================================================================
