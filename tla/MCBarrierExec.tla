--------------------------- MODULE MCBarrierExec ---------------------------
(* BarrierExec for TLC: two ranks that start the next barrier from the done   *)
(* function of the last one.                                                  *)
EXTENDS BarrierExec

MCGeometries == {[n |-> 2, t |-> 2, max |-> 2]}

=============================================================================
