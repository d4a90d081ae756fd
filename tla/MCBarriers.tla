------------------------------ MODULE MCBarriers ------------------------------
(***************************************************************************)
(* The barriers for TLC: of the processes of a node on shared counters, of *)
(* the tasks of a geometry by messages, and the multinomial schedule that  *)
(* the latter and the other collectives follow.  A behaviour is one of the *)
(* three; the variables of the others keep a value that means nothing.     *)
(***************************************************************************)
EXTENDS CounterBarrier

CONSTANTS m, p2, p3, p4,
          Geometries, StartInCallback,     \* BarrierExec
          Plans                            \* CollectiveSchedule

VARIABLES level,     \* what this behaviour is about
          geometry, cache, exists, early, iteration, phase, senddone, phasevec, pending,
          stack, net, started, left,       \* BarrierExec
          plan, turn, have                 \* CollectiveSchedule

Exec == INSTANCE BarrierExec WITH begun <- started, done <- left
Schedule == INSTANCE CollectiveSchedule

execVars == <<geometry, cache, exists, early, iteration, phase, senddone, phasevec, pending,
              stack, net, started, left>>
scheduleVars == <<plan, turn, have>>
all == <<level, vars, execVars, scheduleVars>>

Geometry(n, t, max) == [n |-> n, t |-> t, max |-> max]

\* Three barriers, so that the bit of _iteration comes round, and a geometry with an
\* auxiliary rank; radix 4 on one rank.
MCGeometries ==
  {Geometry(1, 4, 3), Geometry(2, 2, 3), Geometry(3, 2, 3), Geometry(4, 2, 2)}

\* Every operation, up to the first size of geometry with auxiliaries at radix 8 or,
\* for the two that have a root, 11.
MCPlans ==
  {[n |-> n, t |-> t, op |-> o, root |-> 0] :
     n \in 1..17, t \in {2, 4, 8}, o \in {"BARRIER", "ALLREDUCE"}}
  \cup UNION {{[n |-> n, t |-> 2, op |-> o, root |-> r] :
                 o \in {"REDUCE", "BROADCAST"}, r \in 0..n - 1} : n \in 1..11}

\* A step of one of the three.
OfNode(A) == level = "node" /\ A /\ UNCHANGED <<level, execVars, scheduleVars>>
OfExec(A) == level = "executor" /\ A /\ UNCHANGED <<level, vars, scheduleVars>>
OfSchedule(A) == level = "schedule" /\ A /\ UNCHANGED <<level, vars, execVars>>

NoExec ==
  /\ geometry = {} /\ cache = {} /\ exists = {} /\ early = {} /\ iteration = {}
  /\ phase = {} /\ senddone = {} /\ phasevec = {} /\ pending = {} /\ stack = {}
  /\ net = {} /\ started = {} /\ left = {}
NoSchedule == plan = {} /\ turn = {} /\ have = {}

MCInit ==
  /\ Init
  /\ \/ /\ level = "node"
        /\ NoExec /\ NoSchedule
     \/ level = "executor" /\ Exec!Init /\ NoSchedule
     \/ level = "schedule" /\ Schedule!Init /\ NoExec

MCNext == OfNode(Next) \/ OfExec(Exec!Next) \/ OfSchedule(Schedule!Play)

\* Every participant of the node's barrier calls enter() and is scheduled; contexts
\* are advanced while there is something to do.
MCSpec ==
  /\ MCInit /\ [][MCNext]_all
  /\ \A p \in Procs : WF_all(OfNode(begin(p) \/ poll(p)))
  /\ WF_all(OfExec(Exec!Progress))
-------------------------------------------------------------------------------
\* The properties of BarrierExec and CollectiveSchedule, which state them.

\* Nobody leaves a barrier by messages before everyone has entered it.
NobodyLeavesEarly == level = "executor" => Exec!NobodyLeavesEarly

\* One bit is enough to tell whether a message is of this barrier or of the next.
OneBitIsEnough == level = "executor" => Exec!OneBitIsEnough

\* Neither barrier keeps a participant for ever: the node's is left by all as often as
\* they enter it, one by messages by all when all have entered.
NobodyIsKept == <>[]((level = "node" => Out) /\ (level = "executor" => Exec!Out))

\* In every phase a rank waits for exactly the ranks that send to it then.
SendsMatchReceives == level = "schedule" => Schedule!SendsMatchReceives

\* The phases bring every contribution where the collective wants it, once.
EveryContributionOnce == level = "schedule" => Schedule!EveryContributionOnce
===============================================================================
