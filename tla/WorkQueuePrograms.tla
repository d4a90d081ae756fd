-------------------------- MODULE WorkQueuePrograms --------------------------
(***************************************************************************)
(* Programs of collectives for WorkQueueMessages, for three processes on a *)
(* node.  The shared queue holds four bytes, moved two at a time, and the  *)
(* queues of the ring two, so that both are full, empty and wrapped around *)
(* in the middle of an operation.  unsigned has 16 values and size_t 32:   *)
(* base starts the counters, as earlier operations leave them, where an    *)
(* operation crosses one of the two wrap points.                           *)
(***************************************************************************)
EXTENDS Integers, Sequences

Ops(roots, lens) == [i \in 1..Len(lens) |-> [root |-> roots[i], len |-> lens[i]]]
Program(kind, roots, lens, base) ==
  [kind |-> kind, ops |-> Ops(roots, lens), fresh |-> FALSE, base |-> base, meet |-> FALSE]
Fresh(pr) == [pr EXCEPT !.fresh = TRUE]
Meeting(pr) == [pr EXCEPT !.meet = TRUE]

\* The shared queue changes its root only where the peers meet between operations,
\* and combines whole work units except in its last operation; the ring does as it
\* likes, but always has bytes to move.
MCPrograms ==
  {Fresh(Program("bcast", <<1, 1, 1>>, <<3, 0, 4>>, 0)),
   Fresh(Program("allreduce", <<0, 0>>, <<4, 3>>, 5)),
   Program("reduce", <<2, 2>>, <<4, 3>>, 14),
   Program("reduce", <<0, 0>>, <<2, 4>>, 30),
   Meeting(Program("bcast", <<0, 2, 1>>, <<3, 2, 3>>, 0)),
   Meeting(Program("reduce", <<0, 2, 1>>, <<4, 2, 3>>, 30)),
   Program("ring_bcast", <<0, 2, 1>>, <<3, 1, 2>>, 29),
   Program("ring_reduce", <<1, 0>>, <<3, 2>>, 29)}

\* A broadcast to two consumers whose counters pass the last value of unsigned.
WrapPrograms == {Program("bcast", <<0>>, <<6>>, 12)}

\* A reduction of three bytes, and then one that starts there.
EndPrograms == {Program("reduce", <<2, 2>>, <<3, 4>>, 0)}
===============================================================================
