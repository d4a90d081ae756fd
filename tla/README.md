# TLA+ models of PAMI

PAMI is the messaging layer under MPI and other runtimes. A *client* owns
*contexts*, a context owns *devices*, a device moves packets between endpoints
and calls the *dispatch* functions that *protocols* register, and collective
*algorithms* are built from the protocols. A context has no thread of its own:
everything happens inside calls of the application and inside `advance`.

The models follow the path of a message inside a node, from the send, put, get,
read-modify-write or fence call to the fifo in shared memory and back to the
callbacks, and what is built beside it: the barriers, the schedule of the
collectives and the work queues of the node-local ones. There the order of events is
decided by this code and not by hardware or by another library. Paths below are
relative to `src/`.

## Inventory

| part | state | operations | talks to | what is hard |
|------|-------|------------|----------|--------------|
| packet fifos, `components/fifo` | counter, head, flags, slots in shared memory | producePacket, consumePacket, lastPacketProduced/Consumed | shared memory device | many producers, lapping, bound raised too early, fence test without lock |
| node barrier, `components/atomic/counter/CounterBarrier.h` | phase, two counters | begin, poll, end | shared memory setup, collectives | reuse while others still leave |
| generic device, `components/devices/generic` | posting queue, persistent queue, status of work | postThread, advance | every device | work that ends or changes status under the iterator |
| posting queue, `util/queue/bgq/ArrayBasedPostingQueue.h` | bounded counter, array, overflow list, mutex | enqueue, iterator | generic device | array and list change hands without a common lock |
| shared memory device, `components/devices/shmem` | send queue per destination, completion queue | postPacket, postMultiPacket, postDmaPut/Get, postDmaFence, advance | fifos, generic device | order over full fifos, fences, remote completion by sequence number |
| dispatch, `ShmemDispatch.h` | function table, unexpected queues | registration, dispatch | protocols | packets before registration |
| eager protocol, `p2p/protocols/send/eager` | send states, one connection per origin | immediate, simple, typed, packet handlers, completions | a packet device | completions nested in posts, reuse of buffers, matching data to envelopes |
| put, get, rmw, fence, `p2p/protocols` | origin and target states, the connections of the device | simple, typed, endpoint, all, packet handlers | a packet device | completion inside the call, data without a number, fences that overtake |
| datagram and adaptive sends | windows, timers, lost lists | timers, acknowledgements | UDP | loss, duplicates, late packets |
| work queues, `common/default/PipeWorkQueue.h`, `components/devices/workqueue` | produced and consumed counters, a buffer | produce, consume, barrier_reset, the local collectives | generic device | counters that wrap, several producers and consumers |
| memory managers, `components/memory` | keyed segments with reference counts | memalign, free | all | creation races, leftovers of killed jobs |
| collective shared memory, `ShmemCollDesc.h`, `cshmem` | descriptor rings, windows | progress by any thread | generic device | hand-over between threads |
| schedules, executors, geometries, `algorithms` | phases, early messages | start, notify | multicast models | messages of the next collective |
| topology, mapping, types, math | none | pure functions | | arithmetic at the edges |
| MU, MPI, UDP, LAPI, BSR, CAU, FCA devices | hardware or foreign library | | | not decided by this code |

`PROJECT.json` lists each part under `components` with its status, and under
`hazards` the lines at which it can go wrong.

## Modules and their correspondence to the code

**PacketFifo** (abstract) is what `FifoInterface.h` promises: bounded room,
many producers, one consumer, every accepted packet read once and in order.

**WrapFifo** is `fifo/wrap/WrapFifo.h` with the bounded counter of
`L2CounterBounded.h`. `count` and `upper` are the counter, `head`, `active` and
`packet` the shared words, `tail` and `last` the ticket of a producer and its
`_last_packet_produced`. `Claim`, `Produce`, `Activate` are the three visible steps
of `producePacket`; `ConsumeBegin`, `Consume`, `ConsumeHead`, `ConsumeBound` those
of `consumePacket`. `sent`, `delivered` are history. `Synchronized` says whether the
processes meet between `initialize` and first use: every `initialize` clears
`*_head`, so the safety properties assume that they do. On BG/Q they meet in the node
barriers of the message unit's factory (`components/devices/bgq/mu2/Factory.h`), which
runs after that of shared memory. With the message unit switched off
(`common/bgq/Global.h`, "S") no such barrier is left, and `pami.h` says that creating
contexts does not synchronize; the fifo is then not covered.

**LinearFifo** is `fifo/linear/LinearFifo.h`: an unbounded counter cleared by the
consumer at the end of each round, and producers that are refused.

**Barrier** (abstract) and **CounterBarrier**, `CounterBarrier.h`: one action per
access to a counter, `pc` for where a participant is in `begin` and `poll`, `data`
for the phase it entered; `LockBoxBarrier.h` and `L2Barrier.h` take the same steps on
other counters. `round`, `begun`, `done` are history.

**AdvanceLoop** is the pair of loops in `Device::advance`. **GenericDevice** runs
it over arbitrary work whose status third parties change; **ShmemDevice** over the
messages of the shared memory device. `posted` and `threads` are the posting queue
and the persistent queue, `batch` what a pass took from the first, `loop` and `at`
the position of the iterator. `Finish` removes the current work, `Keep` leaves it
queued, `Skip` is work that is not Ready.

**PostingQueue** is the array of `ArrayBasedPostingQueue.h` with its overflow list,
one action per shared access of `enqueue` (`Enqueue`, `Store`, `Acquire`, `Again`,
`StoreLocked`, `Release`) and of the iterator (`iter_begin`, `iter_check_*`,
`iter_end_*`).

**ShmemDevice** is the sending side of the device: the models that post, the
messages with their work functions, the send queue per destination, the completion
queue (`compq`), the fence. `postPackets`, `postImmediate`, `postDmaFence`,
`postDmaGet`, `postDmaPut`, `postDmaImmediate` are the calls; `write`,
`advance_fence`, `advance_mr`, `advance_with_callback` the work functions, run by
the advance loop; `Complete` is the completion of remote work. `OtherProduces` and
`Consume` are the other processes of the node. Its fifos are sequences
of bounded length, which is what PacketFifo describes and WrapFifo implements.

**ShmemDispatch** is the registration of receive functions and the queues of
unexpected packets: `function` and `ueQ` are the tables, `registerUserDispatch`,
`registerSystemDispatch` and `consume` the calls, in any order the program allows.

**PacketChannels** is the packet device as the protocols use it
(`PacketInterface.h`): ordered channels. A post either completes inside the call, and
then its completion function runs inside it too (`PostNow`), or is queued
(`PostQueued`, `PostQueuedTo`, `Inject`), possibly with some of its packets already
written, as `ShmemPacketModel.h` does. The nesting of calls is the variable `stack`; the
application may start something whenever it has control, also in callbacks.

**EagerSimple** is the eager protocol on these channels. The three return values
of an immediate send are `SendImmediate`, `QueueImmediate` and, for `PAMI_EAGAIN`, no
step. **EagerPipeline** adds typed sends of more than two pipeline widths.

**Rma** holds what the one-sided protocols share: the operations of a program, their
state objects at origin and target, and `conn`, the device's one connection per
origin. **PutOverSend**, **GetOverSend** and **RmwOverSend** have one action per call,
packet handler and completion function of the files of that name; `pipe` is the
double-buffered pipeline of typed data. **DeterministicFence** is the fence of an
endpoint (an rts packet, its ack, and a dma fence, in either order) and the fence of
all endpoints, whose window (`AtOnce`, four in the code) and whose walk over tasks and
contexts are the record `all`. **OneSided** puts the four on one device.

**MultinomialTree** has the schedule of `MultinomialTree.h` on the map of
`MultinomialMap.h` as operators, one per function; **CollectiveSchedule** plays its
phases, all ranks in step, to see where contributions go. **BarrierExec** is the barrier of a geometry:
`start`, `sendNext`, `notifyRecv` and the completion functions of
`executor/Barrier.h` over that schedule, with the messages for a geometry that does
not exist yet (`registerunexpbarrier`, `create`). Messages arrive in any order.

**PipeWorkQueue** and **SharedWorkQueue** are the two byte queues as operators on a
record of counters and buffer, with the widths of `size_t` and `unsigned` as
constants. **WorkQueueMessages** runs the five message classes of
`components/devices/workqueue` on them: an advance routine is split where another
process can see a difference, after reading counters (`Look`), after the copy
(`CopyShared`, `CopyRing`) and after each store to a shared counter. `barrier_reset`
is the ad-hoc barrier of `util/common.h`, one action per access.

The `MC*` modules give constants their values. `MCQueues`, `MCPointToPoint`,
`MCBarriers` and `MCShmemDevice` also choose, by a variable set in the initial state,
which of several independent models or kinds of traffic a behaviour is about; the
properties are those of the components' modules (`SendStateInUse` is StateInUse of
EagerSimple). `MCEagerSimple`, `MCOneSided`, `MCBarrierExec` and `MCWorkQueueMessages`
are single models for their violation runs. **PointToPointPrograms** and
**WorkQueuePrograms** hold what the applications of these runs do. Definitions commented as mutants are plausible mistakes in the definition that follows them; no
specification uses them. A mutation replaces the definition by the mutant to show
that a property can fail.

## Runs

| run | shows |
|-----|-------|
| `queues` | both fifos: slots have one owner, PacketFifo is implemented, every packet that got a slot is read; the fence test of the wrap fifo is never early. Posting queue: elements come out once, in order, all of them. Generic device: pending work is on exactly one queue, work that stays Ready is called again. Dispatch: unexpected packets are neither reordered within a set nor left behind. Work queues: results hold each contribution once, room is counted from the slowest consumer, no copy touches bytes that another is reading or writing, every operation completes |
| `linear_fifo_fence` (violation) | the fence test of the linear fifo compares a slot index with a running count and is wrong from the second round on |
| `generic_device_complete` (violation) | work that becomes Complete on the persistent queue is never dequeued |
| `barriers` | the node's barrier implements Barrier; nobody leaves a barrier by messages early, one bit tells barriers apart, nobody is kept in either; the schedule matches sends with receives and brings every contribution where it belongs, once |
| `barrier_in_callback` (violation) | a barrier started by the done function of the last one loses the completion of its first send |
| `shmem_device` | packets leave in the order of posts; fences, ordered copies and remote completions mean what they say; callbacks are in order per destination, and every message completes |
| `point_to_point` | eager sends: data meets its own connection, dispatch order is send order, data is intact, the remote callback follows the receive, no send state is used after it is freed, every send completes. One-sided operations: packets meet their own connection, a completion means the data is there, fences flush, a fence of all means all, read-modify-writes are sequential, no state is used after its return, every operation completes |
| `eager_pipeline` (violation) | a typed send of more than two widths sends two widths too many, which the target's assertion on its connection rejects |
| `typed_get` (violation) | a typed get of one width is answered twice: a data packet is on its way when the origin has returned the state it names |
| `fence_all` (violation) | with half of the tasks on other nodes the fence of all endpoints counts past its total and reports completion before a peer's fence has completed |
| `work_queue_end` (violation) | after a reduce of three bytes, a producer other than the first combines past the end of the shared buffer |
| `work_queue_wrap` (violation) | once the counters pass the range of `unsigned`, the minimum over the consumers leaves out the slow one |

### Bounds

* Fifos: two slots and five packets, so that the ring wraps twice and a slow
  producer meets the next laps; two remote producers and the owner. LinearFifo adds two
  refused increments.
* Generic device: three work objects, five posts: objects are posted again.
* Posting queue: two posters of two elements on two slots: the array fills, the
  overflow list is used, and slots are used again.
* Dispatch: two sets of three identifiers and four packets.
* Node barrier: four participants, so that two may lag differently behind the master,
  and three rounds, so that both phases are used again.
* Barrier by messages: one (radix 4), two and three ranks with three barriers, so that
  the iteration bit comes round, four ranks with two. In the passing run the done
  function does not start the next barrier; the violation run is about that.
* Schedule: barrier and allreduce of 1 to 17 ranks at maximal radix 2, 4 and 8; reduce
  and broadcast of 1 to 11 ranks from every root at radix 2. The send phase of a
  reduce is `ffs` of the rank, which fits radix 2 only; the repository registers
  radices 4 and 8 for barrier and allreduce only.
* Shared memory device: three posts of up to two packets over fifos of two packets;
  either all to one destination, with one packet of another process, or to two
  destinations.
* Eager: two endpoints, two sends of any of eight shapes under four template
  configurations, packets of two bytes. Each shape takes another protocol path;
  two sends are the fewest that can meet on a channel, and the second may start
  inside a callback of the first.
* One-sided: nine programs of two or three operations between the four tasks of a node
  in a job of six, packets of two bytes, a word of two bits, and fences of all endpoints
  with a window of two, so that `fence_done` starts further ones and the walk passes
  tasks that are elsewhere. Three restrictions matter:
  - typed puts are of up to two widths and of four, typed gets of more than three and up
    to four, and StateInUse leaves pipelined transfers out. On the model a typed put of
    three widths breaks ConnectionsKept and CompletionMeansDone, one of five widths
    CompletionMeansDone, a fence after one of four widths FenceFlushes. Typed gets of up
    to two widths break NoMoreData, which is the run `typed_get`; those of up to three
    return the target's state while a buffer of it is queued, and so do those of more than
    four, which break CompletionMeansDone too;
  - tasks have one context: two contexts of two tasks break AllMeansAll;
  - the device reaches at least `AtOnce` tasks: with fewer AllMeansAll fails, which is
    the run `fence_all`.
* Work queues: three processes, a shared queue of four bytes moved two at a time,
  ring queues of two bytes, 16 values of `unsigned` and 32 of `size_t`. Programs of two
  or three operations, started from the constructors or with counters just before a
  wrap point. Four restrictions matter:
  - on the shared queue the root changes only where the peers meet between operations (a
    barrier of the application, `meet`); without it changing roots break RoomIsReal and
    EveryOperationDone on the model;
  - only the last reduction of a program has an odd number of bytes (`work_queue_end`);
  - the broadcast does not cross the wrap of `unsigned` (`work_queue_wrap`);
  - the ring gets no operation of zero bytes, which never completes.

Bounds on counts (`MaxPackets`, `MaxPosts`, `MaxRounds`, `MaxSends`, `MaxEach`,
`MaxRefused`, `MaxOthers`, the `max` of a geometry, the length of a program) are guards
of the actions that begin something new and cut no step of what was begun. `MaxPolls`
makes the count of the polling master go round two values, as the others only see
whether it moved. The models stop when their bound is used up, so the passing runs do
not check for deadlock; that nobody waits for ever is what their liveness properties
say.

### Fairness

Weak fairness is assumed of the steps of a call that was begun (a thread that runs
goes on) and of the advance loop of a context (PAMI requires the application to
advance, or a communication thread does). Nobody is obliged to send or post. In the
barriers every participant enters every barrier, which is what calling a barrier
means, and in the work queues every process posts its program, as a collective
requires. Strong fairness is assumed in two places: a thread that waits for the mutex
of the posting queue gets it when it is free again and again, and a process that spins
in `barrier_reset` sees at last a change that it could see again and again. Of the
eager and one-sided protocols only progress as a whole is assumed: some context that has
something to do is advanced.

### Findings

The eight violation runs are disagreements between the code and what it says of
itself; `PROJECT.json` quotes both sides. The passing runs stay clear of them, as said
under Bounds: WrapFifo, not LinearFifo, is the fifo for which the fence is shown
correct, and the eager shapes of `point_to_point` stay at two pipeline widths.

## Proofs

Seven modules, named after the module they are about, hold theorems. Six of them
prove, for every number of processes, destinations, work objects and messages, every size
and every bound, what the runs check on small instances; `PipeWorkQueueProofs` proves the
arithmetic that the ring of the work queues rests on. The layout is the same everywhere: lemmas on
the operators of the model, an inductive invariant `IInv` in named conjuncts, one lemma
per action that `IInv` is preserved, and the theorems.

| theorem | states, for all constants | run that checks it on an instance |
|---------|---------------------------|-----------------------------------|
| `WrapFifoProofs!SlotsOwned`, `Refinement` | SlotOwnership, ImplementsPacketFifo | `queues` |
| `WrapFifoProofs!FenceIsSafe` | FenceSafe | `queues`, as WrapFenceSafe |
| `CounterBarrierProofs!Refinement` | ImplementsBarrier | `barriers` |
| `PostingQueueProofs!InOrder` | VisitedInOrder | `queues` |
| `GenericDeviceProofs!OnOneQueue` | QueuedOnce | `queues` |
| `ShmemDispatchProofs!ReceivedInOrder`, `NoneStranded` | SetOrder, NothingStuck | `queues` |
| `ShmemDeviceProofs!PacketsInOrder`, `FencesHold`, `CopiesHold`, `RemoteMeansConsumed`, `CallbacksInOrder` | PostOrder, FenceOrders, CopyOrders, RemoteCompletion, CallbackOrder | `shmem_device` |

**WrapFifo.** From `Owner \in Procs`, `Size \in Nat \ {0}`, and `Synchronized` for
all but type correctness: `TypeCorrect`, `SlotsOwned`, `DeliveredInOrder`,
`FenceIsSafe`, `ConsumedIsMonotone`, `Refinement`. None of the properties is
inductive: that no two producers fill a slot follows only from where their tickets
lie. `IInv` says that the bound is always `Size` above the head (one less while the
consumer is about to raise it), that every producer holds a ticket of its own
between the head and the counter, that a raised flag belongs to such a ticket and
its packet is in place, and which ticket each process held last. Two tickets in a
window of `Size` have different slots; that lemma on the remainder carries the
argument. The refinement maps the abstract queue to the sent packets not yet
delivered: `Claim` accepts, `Consume` delivers, all else stutters.

**CounterBarrier.** From a finite set of participants that has a master:
`TypeCorrect`, `OneAhead`, `Separate`, `Refinement`. `IInv` says that the counter
of the current phase is the number of participants that entered plus the number
that confirmed (`Counted`, an argument on cardinalities), that whoever passed a
test has seen everybody (`Passed`), that in the other phase there are only
participants on their way out and its counter is clear unless the master is about
to clear it (`Leaving`), and how many barriers each has entered and left (`Rounds`).

**PipeWorkQueue.** For a circular queue of any size, with counters of any width that
is a multiple of the size and at least twice it: `ConsumeExact` and `ProduceExact` say
that the two availability functions answer exactly the bytes held and the room left, as
far as they lie in one piece, on both sides of the wrap point, and `QueueStaysSound`
that moving no more than that keeps the difference of the counters within the size. The
argument is on remainders by a symbolic divisor: a counter moved by at most one buffer
has the offset one expects, and the bump of both counters by the size changes no offset
but restores their order.

**PostingQueue.** From `Deployment`: the array has a slot, and the values for "nobody"
and for the advancing thread, which hold the mutex, are no posters. `TypeCorrect`,
`Invariance`, `InOrder`. VisitedInOrder speaks of elements that came out; the proof has to
know where the others are. `At(e, n)` gives an element its *ticket*, the number it will
have among the elements given out, read off the place where it is: given out, in the list
being walked, in the array (or claimed there and not yet stored), in the overflow list.
Array and list change their order once, between raising the bound and taking the list,
and `ArrayBase` and `ListBase` follow that. `IInv` says that no element has two tickets,
that of two elements one of which had returned before the other was begun the first has
the lower ticket, and, to keep this, how head, tail, producer and bound lie (`Walk`), who
has the mutex (`Lock`), when the array takes no elements (`Fallback`) and that a claimed
slot is free (`OneClaimer`).

**GenericDevice.** No assumptions. `Invariance`, `OnOneQueue`. QueuedOnce needs only that
the batch is empty outside the second loop, or the next batch would overwrite it. The
work is in the lemmas: the concatenation of the three queues is without repetition exactly
when each of them is and they are disjoint, and what `Append`, `Tail` and `RemoveAt` do to
that.

**ShmemDispatch.** From `Deployment`: a table of at least one set of at least one
function, a protocol that has at most a set of functions, and no identifier that a
protocol is going to get among those of the device (a registration that finds no free
slot in its set fails an assertion).
`Invariance`, `ReceivedInOrder`, `NoneStranded`, `NoneLost`. `IInv` says that the device
has the last identifiers and each protocol the first of its set, that a queue holds
packets of its set in order of arrival with one that cannot be delivered in front, and
that what was received of a protocol precedes what is queued. A registration delivers the
front of the queue up to the first packet without a function; that there is such a first
packet is the minimum principle of well-founded relations.

**ShmemDevice.** From the assumptions that the module states (the origin is not one of
the others, a fifo has room, lengths and bounds are numbers). `Invariance` and one
theorem for each safety property of the run. PostOrder, RemoteCompletion and CallbackOrder are conjuncts of `IInv`,
FenceOrders and CopyOrders follow from `Settled`, which also speaks of a fence that is
done but whose callback is still due. The conjuncts that carry the argument:
`SendQueues` (a send queue is in the order of the posts and only its first message may be
done), `Remaining` (a message with something left is on its send queue, or is the one
message that `postMultiPacket` is writing past an empty queue), `WorkIs` and `WorkOnce`
(the generic device has work for the first of a send queue only, one work object per
message, and a work that waits for a packet knows a sequence number not below that of the
packet), `CompQueue` (so has the completion queue, without repetition, and the loop over
it is at one of them), `Called` (what was called waits no more, and what waits was posted
after it) and `Wires` (the packets of the origin have increasing numbers, below the next
one of the fifo). `Later` collects what no step undoes, and the lemmas SettledStays,
OrderStays and SentStays show once that the promises survive it. The calls are proved
together: `Fresh` says that nobody but the running call knows the message, and a call
ends in one of three ways, all written or copied (`StepAtOnce` with nothing left), in the
middle of its packets (`StepAtOnce`), or queued (`StepQueued`).

The inductive invariants of these four were checked by TLC on the instances of the runs
before they were proved. Constants that a model is parameterised by are assumed only what
the code takes for granted, and `MCQueues` and `MCShmemDevice` have TLC evaluate the
assumptions.

Only model-checked are the eager and one-sided protocols, LinearFifo, the barrier by
messages, its schedule and the work queue messages; and of the proved modules what is
outside the provers' reach: liveness under fairness and ENABLED; induction over data,
hence what a recursive definition computes for every input; and RECURSIVE operators,
which no module here declares.

`MaxPackets`, `MaxRounds`, `MaxPosts`, `MaxEach`, `MaxOthers` and `MaxLen` are arbitrary in
the theorems, so a bound on the length of behaviours is no restriction of what is proved.

## Not modelled

* Memory order below the `Memory::sync` calls: accesses are taken in program
  order, which those calls enforce.
* Contents of headers, cookies, data types; allocation failure; `ERROR_CHECKS`
  returns, which leave the state unchanged.
* Shared memory device: the receive side beyond dispatch, unordered DMA models
  and the collective models of the device.
* EagerSimple has no failing posts: a device may delay a post, not refuse it.
* The one-sided protocols and the eager protocol run on separate devices in the models;
  in the code they may share one, and with it the connections. What `send_complete` reads
  from a send state after it freed it is kept with the message in the model.
* An immediate get that copies only part returns false and leaves the device as it was,
  so it has no step.
* Barrier executor: the choice and caching of composites by geometry key. Schedule: the
  unions over phases and the map by nodes.
* Work queues: datatypes, export and import, wakeups, `reset` of a shared queue in use.
  The model is sequentially consistent, as the routines rely on `volatile` alone. The
  ring models call `configure_no_reset`, which `PipeWorkQueue.h` does not define; they
  are modelled with the circular configuration it does have, whose counters
  `barrier_reset` then clears.
* The datagram protocol: its source uses a variable it does not declare, so there is no
  program to be faithful to. The adaptive protocol is included by no context.
* Memory managers: creation and removal of named segments is decided by the operating
  system.
* Hardware devices and foreign libraries (not decided here), numeric kernels and entry
  points (no state).
* Shared memory collective descriptors and device, the other schedules and executors:
  within reach of the same method, and without a module so far.

The map covers a small share of the repository. Most of its lines are collective
executors and their registration, devices of particular machines, mappings, generated
numeric kernels and entry points.
