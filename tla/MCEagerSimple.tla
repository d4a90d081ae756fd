--------------------------- MODULE MCEagerSimple ---------------------------
(* The eager protocol alone, for the typed sends that go wrong.            *)
EXTENDS EagerPipeline, PointToPointPrograms
=============================================================================
