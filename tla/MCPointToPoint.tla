---------------------------- MODULE MCPointToPoint ----------------------------
(***************************************************************************)
(* The protocols over the packet device for TLC: eager sends between two   *)
(* endpoints, and the one-sided protocols between four.  A behaviour is a  *)
(* behaviour of one of the two; the channels, the connections and the      *)
(* records of what was stored and called are used by both, the other       *)
(* variables of the other keep a value that means nothing.                 *)
(***************************************************************************)
EXTENDS PointToPointPrograms

CONSTANTS Payload,
          MaxImmediate, MaxShort, MaxEager, Configurations, Shapes, MaxSends,
          Programs, TaskCount, ContextCount, LocalTasks, MaxPacked, MetadataFits,
          AtOnce, Width

VARIABLES what,                                     \* "eager" or "sided"
          sendq, net, stack, conn, got, called,     \* of both
          option, msgs, origin, dispatched,         \* EagerSimple
          program, started, state, target, pipe,    \* Rma
          word, original, local, applied,           \* RmwOverSend
          fences, dma, all                          \* DeterministicFence

Eager == INSTANCE EagerSimple WITH Endpoints <- EagerEndpoints
Sided == INSTANCE OneSided WITH Endpoints <- SidedEndpoints

ASSUME EagerAssumption == Eager!Deployment

both == <<sendq, net, stack, conn, got, called>>
eagerVars == <<option, msgs, origin, dispatched>>
sidedVars == <<program, started, state, target, pipe, word, original, local, applied,
               fences, dma, all>>
vars == <<what, both, eagerVars, sidedVars>>

\* A step of one of the two.
OfEager(A) == what = "eager" /\ A /\ UNCHANGED <<what, sidedVars>>
OfSided(A) == what = "sided" /\ A /\ UNCHANGED <<what, eagerVars>>

NoEager == option = {} /\ msgs = {} /\ origin = {} /\ dispatched = {}
NoSided ==
  /\ program = {} /\ started = {} /\ state = {} /\ target = {} /\ pipe = {}
  /\ word = {} /\ original = {} /\ local = {} /\ applied = {}
  /\ fences = {} /\ dma = {} /\ all = {}

MCInit == \/ what = "eager" /\ Eager!Init /\ NoSided
          \/ what = "sided" /\ Sided!Init /\ NoEager

MCNext == OfEager(Eager!Next) \/ OfSided(Sided!Next)

\* Contexts are advanced as long as one of them has something to do; the
\* application is never obliged to start anything.  (Fairness of EagerSimple and
\* of OneSided in one condition, as a behaviour is of one of them.)
MCSpec ==
  /\ MCInit /\ [][MCNext]_vars
  /\ WF_vars(\/ OfEager(\E e \in EagerEndpoints : Eager!Advance(e))
             \/ OfSided(\E e \in SidedEndpoints : Sided!Advance(e)))
-------------------------------------------------------------------------------
\* The properties of EagerSimple and OneSided, which state them.

\* A header or data packet arrives while the connection is that of its own send.
ConnectionMatches == what = "eager" => Eager!ConnectionMatches

\* Dispatch functions run in the order of the sends of an origin.
DispatchOrder == what = "eager" => Eager!DispatchOrder

\* A completed receive has exactly the bytes of its send, in order.
DataIntact == what = "eager" => Eager!DataIntact

\* The remote callback runs after the receive and the local callback.
RemoteAfterReceive == what = "eager" => Eager!RemoteAfterReceive

\* The state of an eager send outlives every use of it.
SendStateInUse == what = "eager" => Eager!StateInUse

\* The packets of a one-sided operation find the connection of that operation.
ConnectionsKept == what = "sided" => Sided!ConnectionsKept

\* When a get is done, or a put remotely complete, its bytes are in place.
CompletionMeansDone == what = "sided" => Sided!CompletionMeansDone

\* A fence completes after the operations started before it took effect.
FenceFlushes == what = "sided" => Sided!FenceFlushes

\* A fence of all endpoints completes after the fence of each of them.
AllMeansAll == what = "sided" => Sided!AllMeansAll

\* Read-modify-writes take effect one at a time, and fetches see it.
RmwSequential == what = "sided" => Sided!RmwSequential

\* The states of one-sided operations, the pipelined ones apart, outlive their uses.
StateInUse == what = "sided" => Sided!StateInUse

\* Every accepted send is received, its callbacks run and its state is freed.
EverySendCompletes ==
  <>[](what = "eager" => \A m \in Eager!Sends : Eager!Finished(m))

\* Every one-sided operation that was started completes, and its states are returned.
EveryOperationCompletes ==
  <>[](what = "sided" => \A i \in Sided!Started : Sided!Finished(i))
===============================================================================
