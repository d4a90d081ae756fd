---------------------------- MODULE ShmemDispatch ----------------------------
(***************************************************************************)
(* components/devices/shmem/ShmemDispatch.h: the receive functions of a    *)
(* context.  Dispatch identifiers come in sets, one set per dispatch of    *)
(* the user; a protocol registers one receive function after the other and *)
(* each gets the first free identifier of its set.  A packet that arrives  *)
(* for an identifier nobody has registered yet is kept on the set's queue  *)
(* of unexpected packets.                                                  *)
(***************************************************************************)
EXTENDS Naturals, Sequences, FiniteSets, FiniteSetsExt

CONSTANTS SetCount,     \* T_SetCount
          SetSize,      \* T_SetSize
          Needed,       \* receive functions the protocol of each set registers
          SystemCount,  \* system receive functions of the device, which leave the
                        \* last set the identifiers its protocol needs
          MaxPackets    \* bound on the packets that arrive

Sets == 0..(SetCount - 1)
Ids == 0..(SetCount * SetSize - 1)
SetOf(id) == id \div SetSize

\* The table a device is built with: a protocol has at most a set of functions,
\* and no identifier a protocol is going to get is one of the device's own.
Deployment ==
  /\ SetCount \in Nat \ {0} /\ SetSize \in Nat \ {0}
  /\ Needed \in [Sets -> 0..SetSize]
  /\ SystemCount \in 0..(SetCount * SetSize - 1)
  /\ \A id \in Ids : id % SetSize < Needed[SetOf(id)] => id < SetCount * SetSize - SystemCount

VARIABLES function,   \* who owns each identifier: "unexpected", "user" or "system"
          ueQ,        \* the unexpected packets of each set
          arrived,    \* history: the identifiers of the packets, in order of arrival
          received    \* history: the packets handed to receive functions, as
                      \* indices of arrived

vars == <<function, ueQ, arrived, received>>

Init ==
  /\ function = [i \in Ids |-> "unexpected"]
  /\ ueQ = [s \in Sets |-> <<>>]
  /\ arrived = <<>>
  /\ received = <<>>

Users(s) == {i \in Ids : SetOf(i) = s /\ function[i] = "user"}

\* A protocol registers its functions in one go, without advancing the context.
Registering == \E s \in Sets : Cardinality(Users(s)) \in 1..(Needed[s] - 1)

SystemReady == Cardinality({i \in Ids : function[i] = "system"}) = SystemCount

\* Mutant: only packets of the new identifier are taken from the queue.
DeliverableOwn(s, id) ==
  LET Other(n) == arrived[n] # id
      q == ueQ[s]
      I == {i \in DOMAIN q : Other(q[i])}
  IN  IF I = {} THEN Len(q) ELSE Min(I) - 1

\* How many packets at the front of the queue of s can be delivered once id is
\* registered: processing stops at the first whose identifier is not.
Deliverable(s, id) ==
  LET Waits(n) == arrived[n] # id /\ function[arrived[n]] = "unexpected"
      q == ueQ[s]
      I == {i \in DOMAIN q : Waits(q[i])}
  IN  IF I = {} THEN Len(q) ELSE Min(I) - 1

\* registerUserDispatch: the first free identifier of the set, then the
\* unexpected packets that can be delivered now.
registerUserDispatch(s) ==
  /\ SystemReady
  /\ Registering => Users(s) # {}
  /\ Cardinality(Users(s)) < Needed[s]
  /\ LET id == Min({i \in Ids : SetOf(i) = s /\ function[i] = "unexpected"})
         n == Deliverable(s, id)
     IN  /\ function' = [function EXCEPT ![id] = "user"]
         /\ received' = received \o SubSeq(ueQ[s], 1, n)
         /\ ueQ' = [ueQ EXCEPT ![s] = SubSeq(@, n + 1, Len(@))]
  /\ UNCHANGED arrived

\* registerSystemDispatch, in the constructor of the device, before the context
\* is advanced: the last free identifier.  The queue of unexpected system packets
\* it looks at is never filled.
registerSystemDispatch ==
  /\ ~SystemReady
  /\ LET id == Max({i \in Ids \ {0} : function[i] = "unexpected"})
     IN  function' = [function EXCEPT ![id] = "system"]
  /\ UNCHANGED <<ueQ, arrived, received>>

\* A peer runs the same program: it sends to identifiers that this context has
\* registered or is going to register.
Expected(id) == \/ id % SetSize < Needed[SetOf(id)]
                \/ id >= SetCount * SetSize - SystemCount

\* Mutant: unexpected packets are pushed on the queue like on a stack.
consumePush(id) ==
  /\ SystemReady
  /\ ~Registering
  /\ Len(arrived) < MaxPackets
  /\ Expected(id)
  /\ arrived' = Append(arrived, id)
  /\ IF function[id] = "unexpected"
     THEN /\ ueQ' = [ueQ EXCEPT ![SetOf(id)] = <<Len(arrived) + 1>> \o @]
          /\ UNCHANGED received
     ELSE /\ received' = Append(received, Len(arrived) + 1)
          /\ UNCHANGED ueQ
  /\ UNCHANGED function

\* consume_impl: the receive function of the packet is called; unexpected()
\* queues it.
consume(id) ==
  /\ SystemReady
  /\ ~Registering
  /\ Len(arrived) < MaxPackets
  /\ Expected(id)
  /\ arrived' = Append(arrived, id)
  /\ IF function[id] = "unexpected"
     THEN /\ ueQ' = [ueQ EXCEPT ![SetOf(id)] = Append(@, Len(arrived) + 1)]
          /\ UNCHANGED received
     ELSE /\ received' = Append(received, Len(arrived) + 1)
          /\ UNCHANGED ueQ
  /\ UNCHANGED function

Next == \/ \E s \in Sets : registerUserDispatch(s)
        \/ registerSystemDispatch
        \/ \E id \in Ids : consume(id)

Spec == Init /\ [][Next]_vars

-----------------------------------------------------------------------------
(* Properties. *)

\* ShmemDispatch.h:187: stopping at the first packet that cannot be delivered
\* "maintains packet order which is required for protocols such as eager".  The
\* packets of a protocol, sent to the several identifiers of its set, are
\* received in the order in which they arrived.
SetOrder ==
  \A i, j \in DOMAIN received :
    i < j /\ SetOf(arrived[received[i]]) = SetOf(arrived[received[j]])
          /\ function[arrived[received[i]]] = "user" /\ function[arrived[received[j]]] = "user"
      => received[i] < received[j]

\* Once a protocol has registered all its functions nothing is left on its queue.
NothingStuck ==
  \A s \in Sets : Cardinality(Users(s)) = Needed[s] => ueQ[s] = <<>>

===============================================================================
