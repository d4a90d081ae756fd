------------------------------- MODULE MCQueues -------------------------------
(***************************************************************************)
(* The queues of a node for TLC: the two packet fifos in shared memory     *)
(* (which of them a build uses is a template argument of the device), the  *)
(* posting queue of a BG/Q context, the work queues of the generic device  *)
(* the table and queues of the dispatch, and the work queues of the        *)
(* node-local collectives.  A behaviour is a behaviour of one of them      *)
(* while the others stay as they were initialised.  The two fifos have the *)
(* same variables, so one set of properties serves both.                   *)
(***************************************************************************)
EXTENDS WrapFifo, WorkQueuePrograms, TLC

CONSTANTS p1, p2, p3, w1, w2, w3,
          MaxRefused,                                   \* LinearFifo
          Posters, MaxEach,                             \* PostingQueue
          Work, MaxPosts,                               \* GenericDevice
          SetCount, SetSize, Needed, SystemCount,       \* ShmemDispatch
          NPeers, MaxProcs, Programs, QSize, WorkSize, UnsignedMod, SizeMod,
          MaxPolls, RingSize                            \* WorkQueueMessages

VARIABLES what,      \* the queue of this behaviour
          msg,                                          \* LinearFifo
          Producer, Consumer, UpperBound, array, overflow, mutex, ppc, claimed, pcount,
          icpc, ihead, itail, curr, returned, before, visited,      \* PostingQueue
          posted, threads, batch, loop, at, status, pending, posts, \* GenericDevice
          function, ueQ, arrived, received,             \* ShmemDispatch
          prog, wq, ring, peer                          \* WorkQueueMessages

Linear == INSTANCE LinearFifo
Posting == INSTANCE PostingQueue WITH pc <- ppc, count <- pcount,
                                      cpc <- icpc, head <- ihead, tail <- itail
Device == INSTANCE GenericDevice
Dispatch == INSTANCE ShmemDispatch WITH MaxPackets <- 4
Local == INSTANCE WorkQueueMessages WITH shared <- wq

\* The theorems on these two queues are proved for every deployment; this is one.
ASSUME PostingAssumption == Posting!Deployment
ASSUME DispatchAssumption == Dispatch!Deployment

postingVars == <<Producer, Consumer, UpperBound, array, overflow, mutex, ppc, claimed,
                 pcount, icpc, ihead, itail, curr, returned, before, visited>>
deviceVars == <<posted, threads, batch, loop, at, status, pending, posts>>
dispatchVars == <<function, ueQ, arrived, received>>
localVars == <<prog, wq, ring, peer>>
all == <<what, vars, msg, postingVars, deviceVars, dispatchVars, localVars>>

\* Two sets of three identifiers, one of them taken by the system function.
MCNeeded == (0 :> 3) @@ (1 :> 2)

\* A step of one of the queues.
OfWrap(A) == /\ what = "wrap" /\ A
             /\ UNCHANGED <<what, msg, postingVars, deviceVars, dispatchVars, localVars>>
OfLinear(A) == /\ what = "linear" /\ A
               /\ UNCHANGED <<what, ready, upper, postingVars, deviceVars, dispatchVars, localVars>>
OfPosting(A) == /\ what = "posting" /\ A
                /\ UNCHANGED <<what, vars, msg, deviceVars, dispatchVars, localVars>>
OfDevice(A) == /\ what = "device" /\ A
               /\ UNCHANGED <<what, vars, msg, postingVars, dispatchVars, localVars>>
OfDispatch(A) == /\ what = "dispatch" /\ A
                 /\ UNCHANGED <<what, vars, msg, postingVars, deviceVars, localVars>>
OfLocal(A) == /\ what = "local" /\ A
              /\ UNCHANGED <<what, vars, msg, postingVars, deviceVars, dispatchVars>>

MCInit ==
  /\ what \in {"wrap", "linear", "posting", "device", "dispatch", "local"}
  /\ Init /\ Linear!Init /\ Posting!Init /\ Device!Init /\ Dispatch!Init /\ Local!Init
  /\ what # "local" => prog = CHOOSE pr \in Programs : TRUE

MCNext == \/ OfWrap(Next) \/ OfLinear(Linear!Next) \/ OfPosting(Posting!Next)
          \/ OfDevice(Device!Next) \/ OfDispatch(Dispatch!Next)
          \/ OfLocal(Local!Next)

\* The number on the node of each process, and the process that waits for the mutex
\* of the posting queue: a poster, or the last process, which reads the queue.
Number == (p1 :> 0) @@ (p2 :> 1) @@ (p3 :> 2)
Acquires(p) == IF p \in Posters THEN Posting!Acquire(p) ELSE Posting!iter_end_acquire

\* A producePacket or an enqueue that was begun finishes, and the thread that reads a
\* queue keeps advancing; a mutex that is free infinitely often is taken by whoever
\* waits for it.  Nobody is obliged to send or to post.  A process of a node-local
\* collective posts its program and polls its queue, and its loops in barrier_reset see
\* at last what they wait for (FairSpec of WorkQueueMessages).  A behaviour is of one
\* queue, so fairness to a disjunction is fairness to the steps of that queue.
MCSpec ==
  /\ MCInit /\ [][MCNext]_all
  /\ \A p \in Procs : WF_all(\/ OfWrap(Produce(p) \/ Activate(p))
                             \/ OfLinear(Linear!Produce(p) \/ Linear!Activate(p))
                             \/ OfPosting(p \in Posters /\ Posting!Post(p))
                             \/ OfLocal(Local!Step(Number[p])))
  /\ WF_all(\/ OfWrap(consumePacket) \/ OfLinear(Linear!consumePacket)
            \/ OfPosting(Posting!Advance) \/ OfDevice(Device!Advance))
  /\ \A p \in Procs : SF_all(\/ OfPosting(Acquires(p))
                             \/ OfLocal(Local!barrier_reset(Number[p])))
-------------------------------------------------------------------------------
\* The properties of the two fifos are those of WrapFifo; FenceSafe does not hold of
\* LinearFifo.  The others are stated in the modules of the queues.

\* activePackets of a WrapFifo may be false only when every packet of the process
\* was consumed; the fence and the ordered dma operations of the device rest on it.
WrapFenceSafe == what = "wrap" => FenceSafe

\* The iterator gives elements out once each, and in the order of the enqueue calls.
VisitedInOrder == Posting!VisitedInOrder

\* Whatever has been posted is given out, also when no other post follows.
EveryPostVisited == Posting!EveryPostVisited

\* Work that was posted and not dropped is on exactly one queue of the device.
QueuedOnce == Device!QueuedOnce

\* Work that stays Ready is called in pass after pass of Device::advance.
ReadyIsCalled == Device!ReadyIsCalled

\* The packets of a protocol are received in the order in which they arrived.
SetOrder == Dispatch!SetOrder

\* Once a protocol has registered all its functions nothing is left on its queue.
NothingStuck == Dispatch!NothingStuck

\* Every byte of a result is the one that belongs there.
ResultsExact == Local!ResultsExact

\* Producer 0 of a shared queue is given no room that a consumer has not freed.
RoomIsReal == Local!RoomIsReal

\* What one process is copying to, no other is copying from or to.
CopiesApart == Local!CopiesApart

\* Every process completes every collective of its program.
EveryOperationDone == <>[](what = "local" => Local!AllDone)
===============================================================================
