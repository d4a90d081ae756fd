-------------------------------- MODULE Barrier --------------------------------
(***************************************************************************)
(* What a node barrier promises (components/atomic/BarrierInterface.h):    *)
(* enter() "Does not return until all participants have entered the        *)
(* barrier", every time it is used.                                        *)
(***************************************************************************)
EXTENDS Naturals

CONSTANT Procs       \* the participants

VARIABLES begun,     \* how many barriers each participant has entered
          done       \* how many it has left

vars == <<begun, done>>

Init == begun = [p \in Procs |-> 0] /\ done = [p \in Procs |-> 0]

Enter(p) ==
  /\ begun[p] = done[p]
  /\ begun' = [begun EXCEPT ![p] = @ + 1]
  /\ UNCHANGED done

\* A participant leaves when everyone has entered.
Leave(p) ==
  /\ done[p] < begun[p]
  /\ \A q \in Procs : begun[p] <= begun[q]
  /\ done' = [done EXCEPT ![p] = @ + 1]
  /\ UNCHANGED begun

Next == \E p \in Procs : Enter(p) \/ Leave(p)

Spec == Init /\ [][Next]_vars
===============================================================================
