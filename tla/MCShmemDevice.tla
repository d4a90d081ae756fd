---------------------------- MODULE MCShmemDevice ----------------------------
(***************************************************************************)
(* ShmemDevice for TLC, with two kinds of traffic.  In one all messages    *)
(* are for one destination, whose fifo another process also writes to; in  *)
(* the other two destinations get packets, requests and fences, so that    *)
(* several messages are on the completion queue at once.                   *)
(***************************************************************************)
EXTENDS ShmemDevice

CONSTANTS d1, d2, self, p2

VARIABLE traffic    \* "one" or "two" destinations

all == <<vars, traffic>>

\* The messages posted, and the packets of others, belong to the traffic.
Allowed ==
  /\ traffic = "one" => \A m \in Messages : Dest(m) = d1
  /\ traffic = "two" => \A m \in Messages : Kind(m) \in {"packet", "roput", "fence"}
  /\ \A d \in Dests : \A i \in DOMAIN queue[d] :
       queue[d][i].src # Self => traffic = "one" /\ d = d1

MCInit == Init /\ traffic \in {"one", "two"}
MCNext == Next /\ UNCHANGED traffic /\ Allowed'

MCSpec == MCInit /\ [][MCNext]_all /\ Fairness
===============================================================================
