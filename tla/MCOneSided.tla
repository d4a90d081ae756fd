----------------------------- MODULE MCOneSided -----------------------------
(* The one-sided protocols alone, for the operations that go wrong.        *)
EXTENDS OneSided, PointToPointPrograms
=============================================================================
