----------------------------- MODULE MCLinearFifo -----------------------------
(* LinearFifo for TLC. *)
EXTENDS LinearFifo

CONSTANTS p1, p2, p3
===============================================================================
