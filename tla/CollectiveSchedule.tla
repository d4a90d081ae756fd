------------------------- MODULE CollectiveSchedule -------------------------
(***************************************************************************)
(* What a collective gets out of the multinomial schedule: the phases are  *)
(* played one after the other, every rank combining what its sources have. *)
(* The executors of algorithms/executor run the same phases, each rank at  *)
(* its own pace, and wait for every source of a phase.                     *)
(***************************************************************************)
EXTENDS MultinomialTree

CONSTANT Plans      \* records: ranks n, T_MaxRadix t, operation op, root

VARIABLES
    plan,   \* the collective of this behaviour
    turn,   \* the phase played next
    have    \* per rank and rank, how often the first has the other's data

vars == <<plan, turn, have>>

Ranks == 0 .. plan.n - 1

\* setRoot and getMyRank: ranks are numbered from the root.
getMyRank(p) == (p + plan.n - plan.root) % plan.n

getGlobalRank(p) == (p + plan.root) % plan.n

Active(p, ph) == ph \in Phases(Context(plan.n, plan.t, plan.op, getMyRank(p)))

Sources(p, ph) ==
    IF ~Active(p, ph) THEN {}
    ELSE {getGlobalRank(q) : q \in getSrcTopology(plan.n, plan.t, plan.op, getMyRank(p), ph)}

Destinations(p, ph) ==
    IF ~Active(p, ph) THEN {}
    ELSE {getGlobalRank(q) : q \in getDstTopology(plan.n, plan.t, plan.op, getMyRank(p), ph)}

Init ==
    /\ plan \in Plans
    /\ turn = 0
    /\ have = [p \in Ranks |-> [q \in Ranks |->
                  IF p = q /\ (plan.op = "BROADCAST" => p = plan.root) THEN 1 ELSE 0]]

\* Mutant: the result is combined with what the auxiliary has.
ReplacesNever(p, ph) == FALSE

\* The result of an allreduce replaces what an auxiliary has: _lastrdcph.
Replaces(p, ph) ==
    /\ plan.op = "ALLREDUCE"
    /\ isAuxProc(plan.n, getMyRank(p))
    /\ ph > maxphases(plan.n, plan.t) - 2

\* One phase of the executors, all ranks in step: what the sources of a rank have is
\* combined into what it has, or replaces it.  The executors go through the phases
\* on their own; what a rank sends in a phase is what it had when that phase began.
Play ==
    /\ turn < maxphases(plan.n, plan.t)
    /\ have' = [p \in Ranks |-> [q \in Ranks |->
                  LET s == Sources(p, turn)
                  IN  (IF Replaces(p, turn) /\ s # {} THEN 0 ELSE have[p][q])
                      + MapThenSumSet(LAMBDA r : have[r][q], s)]]
    /\ turn' = turn + 1
    /\ UNCHANGED plan

Spec == Init /\ [][Play]_vars

-----------------------------------------------------------------------------
\* In every phase a rank waits for exactly the ranks that send to it then, or
\* an executor would wait for ever or count a message in the wrong phase.
SendsMatchReceives ==
    \A p, q \in Ranks : q \in Destinations(p, turn) <=> p \in Sources(q, turn)

\* When the phases are over, a barrier has heard of everyone, an allreduce
\* combined every contribution once on every rank, a reduce did so on its
\* root, and a broadcast brought the data to every rank once.
EveryContributionOnce ==
    turn = maxphases(plan.n, plan.t) =>
        \A p, q \in Ranks :
            CASE plan.op = "BARRIER"   -> have[p][q] >= 1
              [] plan.op = "ALLREDUCE" -> have[p][q] = 1
              [] plan.op = "REDUCE"    -> p = plan.root => have[p][q] = 1
              [] plan.op = "BROADCAST" -> have[p][plan.root] = 1

=============================================================================
