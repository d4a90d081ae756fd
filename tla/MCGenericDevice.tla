--------------------------- MODULE MCGenericDevice ---------------------------
(* Bounds for model checking GenericDevice: see the cfg files. *)
EXTENDS GenericDevice

CONSTANTS w1, w2, w3
===============================================================================
