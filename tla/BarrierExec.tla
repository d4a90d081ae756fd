---------------------------- MODULE BarrierExec ----------------------------
(***************************************************************************)
(* algorithms/executor/Barrier.h with the factory of BarrierT.h: barriers  *)
(* of a geometry, one after the other, by messages.  A rank passes to the  *)
(* next phase when its send is done and every source of the phase was      *)
(* heard; messages of the next barrier may come early and are counted in   *)
(* the other column of _phasevec.  A message for a geometry that does not  *)
(* exist yet waits in _ueb_queue.                                          *)
(*                                                                         *)
(* multicast completes inside the call or later, and its completion        *)
(* function runs then; `stack` holds the calls of a rank in progress,      *)
(* innermost first.  Messages may be delivered in any order.               *)
(***************************************************************************)
EXTENDS MultinomialTree, Sequences

CONSTANTS
    Geometries,         \* records: ranks n, T_MaxRadix t and a bound on the
                        \* barriers of a behaviour, max
    StartInCallback     \* may the done function start the next barrier?

VARIABLES
    geometry,   \* the geometry of this behaviour
    cache,      \* per rank, its ScheduleCache
    exists,     \* per rank, has it created the geometry?
    early,      \* per rank, _ueb_queue
    iteration, phase, senddone, phasevec,
    pending,    \* per rank, the completion function of the send in progress
    stack,      \* per rank, the calls in progress
    net,        \* messages on the way
    begun, done \* per rank, barriers started and completed

config == <<geometry, cache>>
exec == <<iteration, phase, senddone, phasevec>>
vars == <<config, exists, early, exec, pending, stack, net, begun, done>>

Ranks == 0 .. geometry.n - 1

\* ScheduleCache::init, for a barrier: phases, sources and destinations.
ScheduleCache(g) ==
    [p \in 0 .. g.n - 1 |->
        LET c == Context(g.n, g.t, "BARRIER", p)
        IN  [start |-> c.start, end |-> c.start + c.nphases,
             src |-> [ph \in Phases(c) |-> getSrcTopology(g.n, g.t, "BARRIER", p, ph)],
             dst |-> [ph \in Phases(c) |-> getDstTopology(g.n, g.t, "BARRIER", p, ph)]]]

Start(p) == cache[p].start

End(p) == cache[p].end

Sources(p, ph) == cache[p].src[ph]

Destinations(p, ph) == cache[p].dst[ph]

AllPhases(p) == Start(p) .. End(p) - 1

\* The executors after setCommSchedule: _phase is past the last one.
Init ==
    /\ geometry \in Geometries /\ cache = ScheduleCache(geometry)
    /\ exists = [p \in Ranks |-> FALSE]
    /\ early = [p \in Ranks |-> {}]
    /\ iteration = [p \in Ranks |-> 0]
    /\ phase = [p \in Ranks |-> End(p)]
    /\ senddone = [p \in Ranks |-> FALSE]
    /\ phasevec = [p \in Ranks |-> [i \in 0 .. 1 |-> [ph \in AllPhases(p) |-> 0]]]
    /\ pending = [p \in Ranks |-> "none"]
    /\ stack = [p \in Ranks |-> <<>>]
    /\ net = {}
    /\ begun = [p \in Ranks |-> 0]
    /\ done = [p \in Ranks |-> 0]

Top(p, op) == stack[p] # <<>> /\ Head(stack[p]) = op

Replace(p, calls) == stack' = [stack EXCEPT ![p] = calls \o Tail(@)]

\* processUnexpBarrier: the executor records what came before it existed.
create(p) ==
    /\ ~exists[p]
    /\ exists' = [exists EXCEPT ![p] = TRUE]
    /\ phasevec' = [phasevec EXCEPT ![p] = [i \in 0 .. 1 |-> [ph \in AllPhases(p) |->
          @[i][ph] - Cardinality({m \in early[p] : m.phase = ph /\ m.iteration = i})]]]
    /\ early' = [early EXCEPT ![p] = {}]
    /\ UNCHANGED <<config, iteration, phase, senddone, pending, stack, net, begun, done>>

\* Mutant: the counts of the last barrier are overwritten, not added to.
resetOverwrites(p, i) == [ph \in AllPhases(p) |-> Cardinality(Sources(p, ph))]

\* resetVector: early messages of this barrier were subtracted already.
resetVector(p, i) ==
    [ph \in AllPhases(p) |-> phasevec[p][i][ph] + Cardinality(Sources(p, ph))]

start(p) ==
    /\ exists[p]
    /\ begun[p] = done[p] /\ begun[p] < geometry.max
    /\ stack[p] # <<>> => StartInCallback /\ Top(p, "callback")
    /\ begun' = [begun EXCEPT ![p] = @ + 1]
    /\ iteration' = [iteration EXCEPT ![p] = 1 - @]
    /\ phasevec' = [phasevec EXCEPT ![p][1 - iteration[p]] = resetVector(p, 1 - iteration[p])]
    /\ phase' = [phase EXCEPT ![p] = Start(p)]
    /\ senddone' = [senddone EXCEPT ![p] = FALSE]
    /\ stack' = [stack EXCEPT ![p] = <<"sendNext">> \o @]
    /\ UNCHANGED <<config, exists, early, pending, net, done>>

\* Mutant: the bit is that of the barrier before.
MessageOldBit(p, q) ==
    [from |-> p, to |-> q, phase |-> phase[p], iteration |-> 1 - iteration[p],
     barrier |-> begun[p]]

Message(p, q) ==
    [from |-> p, to |-> q, phase |-> phase[p], iteration |-> iteration[p],
     barrier |-> begun[p]]

\* Mutant: the last phase runs the done function without looking at receives.
LastIsHeardAlways(p) == phase[p] = End(p) - 1

\* The last receive came before the last send.
LastIsHeard(p) ==
    phase[p] = End(p) - 1 /\ phasevec[p][iteration[p]][phase[p]] <= 0

\* sendNext when all phases are over: the done function, then _senddone = false.
sendNext_done(p) ==
    /\ Top(p, "sendNext") /\ phase[p] = End(p)
    /\ done' = [done EXCEPT ![p] = @ + 1]
    /\ Replace(p, <<"callback", "clear">>)
    /\ UNCHANGED <<config, exists, early, exec, pending, net, begun>>

clear(p) ==
    /\ Top(p, "clear")
    /\ senddone' = [senddone EXCEPT ![p] = FALSE]
    /\ Replace(p, <<>>)
    /\ UNCHANGED <<config, exists, early, iteration, phase, phasevec, pending, net, begun, done>>

\* sendNext of a phase with destinations.
sendNext(p) ==
    /\ Top(p, "sendNext") /\ phase[p] < End(p)
    /\ Destinations(p, phase[p]) # {}
    /\ net' = net \cup {Message(p, q) : q \in Destinations(p, phase[p])}
    /\ senddone' = [senddone EXCEPT ![p] = FALSE]
    /\ phase' = [phase EXCEPT ![p] = IF LastIsHeard(p) THEN @ + 1 ELSE @]
    /\ LET fn == IF LastIsHeard(p) THEN "cb_done" ELSE "internalNotifySendDone"
       IN  \/ Replace(p, <<fn>>) /\ UNCHANGED pending
           \/ Replace(p, <<>>) /\ pending' = [pending EXCEPT ![p] = fn]
    /\ UNCHANGED <<config, exists, early, iteration, phasevec, begun, done>>

\* sendNext of a phase without destinations.
sendNext_skip(p) ==
    /\ Top(p, "sendNext") /\ phase[p] < End(p)
    /\ Destinations(p, phase[p]) = {}
    /\ senddone' = [senddone EXCEPT ![p] = FALSE]
    /\ Replace(p, <<"internalNotifySendDone">>)
    /\ UNCHANGED <<config, exists, early, iteration, phase, phasevec, pending, net, begun, done>>

\* The send completes in a later advance.
advance(p) ==
    /\ stack[p] = <<>> /\ pending[p] # "none"
    /\ stack' = [stack EXCEPT ![p] = <<pending[p]>>]
    /\ pending' = [pending EXCEPT ![p] = "none"]
    /\ UNCHANGED <<config, exists, early, exec, net, begun, done>>

\* The done function as the completion function of the last send.
cb_done(p) ==
    /\ Top(p, "cb_done")
    /\ done' = [done EXCEPT ![p] = @ + 1]
    /\ Replace(p, <<"callback">>)
    /\ UNCHANGED <<config, exists, early, exec, pending, net, begun>>

\* The application returns from the done function.
return(p) ==
    /\ Top(p, "callback")
    /\ Replace(p, <<>>)
    /\ UNCHANGED <<config, exists, early, exec, pending, net, begun, done>>

internalNotifySendDone(p) ==
    /\ Top(p, "internalNotifySendDone")
    /\ senddone' = [senddone EXCEPT ![p] = TRUE]
    /\ IF phasevec[p][iteration[p]][phase[p]] <= 0
       THEN phase' = [phase EXCEPT ![p] = @ + 1] /\ Replace(p, <<"sendNext">>)
       ELSE Replace(p, <<>>) /\ UNCHANGED phase
    /\ UNCHANGED <<config, exists, early, iteration, phasevec, pending, net, begun, done>>

\* cb_head, for a geometry that is not there and for one that is: notifyRecv.
registerunexpbarrier(m) ==
    /\ ~exists[m.to]
    /\ early' = [early EXCEPT ![m.to] = @ \cup {m}]
    /\ net' = net \ {m}
    /\ UNCHANGED <<config, exists, exec, pending, stack, begun, done>>

notifyRecv(m) ==
    LET p   == m.to
        vec == [phasevec[p] EXCEPT ![m.iteration][m.phase] = @ - 1]
    IN  /\ exists[p] /\ stack[p] = <<>>
        /\ phasevec' = [phasevec EXCEPT ![p] = vec]
        /\ net' = net \ {m}
        /\ IF phase[p] # End(p) /\ senddone[p] /\ vec[iteration[p]][phase[p]] <= 0
           THEN /\ phase' = [phase EXCEPT ![p] = @ + 1]
                /\ stack' = [stack EXCEPT ![p] = <<"sendNext">>]
           ELSE UNCHANGED <<phase, stack>>
        /\ UNCHANGED <<config, exists, early, iteration, senddone, pending, begun, done>>

-----------------------------------------------------------------------------
Run(p) ==
    \/ sendNext_done(p) \/ clear(p) \/ sendNext(p) \/ sendNext_skip(p)
    \/ advance(p) \/ cb_done(p) \/ return(p) \/ internalNotifySendDone(p)

Deliver(m) == registerunexpbarrier(m) \/ notifyRecv(m)

Progress == (\E p \in Ranks : Run(p)) \/ \E m \in net : Deliver(m)

Next == (\E p \in Ranks : create(p) \/ start(p)) \/ Progress

Spec == Init /\ [][Next]_vars

\* Contexts are advanced while there is something to do; when a rank creates
\* the geometry and starts its barriers is up to the application.
FairSpec == Spec /\ WF_vars(Progress)

-----------------------------------------------------------------------------
\* A barrier: nobody leaves before everyone has entered.
NobodyLeavesEarly == \A p, q \in Ranks : done[p] <= begun[q]

\* The one bit of _iteration is enough: a message on its way, or waiting for
\* the geometry, is of the barrier that its receiver has not completed yet or
\* of the one after, and is counted in the column of that barrier.
OneBitIsEnough ==
    \A m \in net \cup UNION {early[p] : p \in Ranks} :
        /\ m.barrier \in {done[m.to] + 1, done[m.to] + 2}
        /\ m.iteration = m.barrier % 2

\* Nobody is in a barrier that everyone has entered.
Out == \A p \in Ranks : (\A q \in Ranks : begun[p] <= begun[q]) => done[p] = begun[p]

\* _senddone is true when the send of the current phase has finished, as its
\* declaration says, whenever the executor waits for messages.
SendDoneIsTrue ==
    \A p \in Ranks :
        begun[p] > done[p] /\ stack[p] = <<>> /\ pending[p] = "none" => senddone[p]

=============================================================================
