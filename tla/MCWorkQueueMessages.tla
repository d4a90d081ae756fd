------------------------- MODULE MCWorkQueueMessages -------------------------
(* The work queues alone, for the programs that go wrong.                  *)
EXTENDS WorkQueueMessages, WorkQueuePrograms
===============================================================================
