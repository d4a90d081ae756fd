---------------------------- MODULE CounterBarrier ----------------------------
(***************************************************************************)
(* components/atomic/counter/CounterBarrier.h: a reusable barrier made of  *)
(* shared atomic counters.  _control selects one of two phases; entering   *)
(* increments _lock[phase]; a participant that has seen all the others     *)
(* increments it again; when all have, the master flips _control and       *)
(* clears _lock[phase], which releases the others.  LockBoxBarrier.h and   *)
(* L2Barrier.h are the same algorithm on other counters.                   *)
(*                                                                         *)
(* One action is one access to a counter.  _stat is cleared by the master  *)
(* and used by nobody; it is left out.                                     *)
(***************************************************************************)
EXTENDS Integers, FiniteSets

CONSTANTS Procs,      \* the participants
          Master,     \* the participant constructed with master = true
          MaxRounds   \* bound on the barriers each participant enters

ASSUME ProcsAssumption == IsFiniteSet(Procs) /\ Master \in Procs
ASSUME MaxRoundsAssumption == MaxRounds \in Nat

VARIABLES
  control,    \* _control
  lock,       \* _lock[2]
  pc,         \* where each participant is in begin() and poll()
  data,       \* its _data: the phase it entered
  round,      \* history: how often _control was flipped
  begun,      \* history: the barriers each participant has entered
  done        \* history: the barriers it has left

vars == <<control, lock, pc, data, round, begun, done>>
history == <<round, begun, done>>

participants == Cardinality(Procs)

Init ==
  /\ control = 0
  /\ lock = [phase \in {0, 1} |-> 0]
  /\ pc = [p \in Procs |-> "idle"]
  /\ data = [p \in Procs |-> 0]
  /\ round = 0
  /\ begun = [p \in Procs |-> 0]
  /\ done = [p \in Procs |-> 0]

Goto(p, l) == pc' = [pc EXCEPT ![p] = l]

\* begin: phase = _control.fetch()
Begin(p) ==
  /\ pc[p] = "idle"
  /\ begun[p] < MaxRounds
  /\ data' = [data EXCEPT ![p] = control]
  /\ Goto(p, "enter")
  /\ UNCHANGED <<control, lock, history>>

\* begin: _lock[phase].fetch_and_inc(), the barrier is entered
Enter(p) ==
  /\ pc[p] = "enter"
  /\ lock' = [lock EXCEPT ![data[p]] = @ + 1]
  /\ begun' = [begun EXCEPT ![p] = @ + 1]
  /\ Goto(p, "poll")
  /\ UNCHANGED <<control, data, round, done>>

\* poll: the barrier stays active until all have entered
Poll(p) ==
  /\ pc[p] = "poll"
  /\ lock[data[p]] >= participants
  /\ Goto(p, "confirm")
  /\ UNCHANGED <<control, lock, data, history>>

\* poll: the second _lock[phase].fetch_and_inc()
Confirm(p) ==
  /\ pc[p] = "confirm"
  /\ lock' = [lock EXCEPT ![data[p]] = @ + 1]
  /\ Goto(p, "spin")
  /\ UNCHANGED <<control, data, history>>

\* poll: do ... while (value > 0 && value < 2 * _participants)
Spin(p) ==
  /\ pc[p] = "spin"
  /\ lock[data[p]] = 0 \/ lock[data[p]] >= 2 * participants
  /\ Goto(p, IF p = Master THEN "control" ELSE "wait")
  /\ UNCHANGED <<control, lock, data, history>>

\* poll, master: flip _control
Flip(p) ==
  /\ pc[p] = "control"
  /\ control' = IF data[p] = 1 THEN control - 1 ELSE control + 1
  /\ round' = round + 1
  /\ Goto(p, "clear")
  /\ UNCHANGED <<lock, data, begun, done>>

\* poll, master: _lock[phase].fetch_and_clear(), the barrier is complete
Clear(p) ==
  /\ pc[p] = "clear"
  /\ lock' = [lock EXCEPT ![data[p]] = 0]
  /\ done' = [done EXCEPT ![p] = @ + 1]
  /\ Goto(p, "idle")
  /\ UNCHANGED <<control, data, round, begun>>

\* Mutant: the release of the master is not waited for.
WaitNot(p) ==
  /\ pc[p] = "wait"
  /\ done' = [done EXCEPT ![p] = @ + 1]
  /\ Goto(p, "idle")
  /\ UNCHANGED <<control, lock, data, round, begun>>

\* poll, others: while (_lock[phase].fetch() > 0)
Wait(p) ==
  /\ pc[p] = "wait"
  /\ lock[data[p]] = 0
  /\ done' = [done EXCEPT ![p] = @ + 1]
  /\ Goto(p, "idle")
  /\ UNCHANGED <<control, lock, data, round, begun>>

begin(p) == Begin(p) \/ Enter(p)
poll(p) == Poll(p) \/ Confirm(p) \/ Spin(p) \/ Flip(p) \/ Clear(p) \/ Wait(p)

Next == \E p \in Procs : begin(p) \/ poll(p)

\* Every participant calls enter() MaxRounds times and is scheduled.
Spec == Init /\ [][Next]_vars
-------------------------------------------------------------------------------
\* _control stays 0 or 1 through its increments and decrements, and the
\* participants are at known points of poll().
TypeOK ==
  /\ control \in {0, 1}
  /\ lock \in [{0, 1} -> Nat]
  /\ pc \in [Procs -> {"idle", "enter", "poll", "confirm", "spin", "control",
                       "clear", "wait"}]
  /\ data \in [Procs -> {0, 1}]
  /\ round \in Nat
  /\ begun \in [Procs -> Nat]
  /\ done \in [Procs -> Nat]

Abstract == INSTANCE Barrier

\* The barrier implements the abstract one: nobody returns from its n-th
\* barrier before everybody has entered it, however slowly a participant
\* leaves the previous one.
ImplementsBarrier == Abstract!Spec

\* Nobody is ever more than one barrier ahead of anybody else.
AtMostOneAhead == \A p, q \in Procs : done[p] <= begun[q]

\* The two phases do not run into each other: a participant about to increment
\* _lock[phase] is in the current phase, the clear of the master hits a counter
\* that everybody has incremented twice, and a counter that is not in use is 0.
PhasesSeparate ==
  /\ \A p \in Procs : pc[p] \in {"enter", "poll", "confirm"} => data[p] = control
  /\ pc[Master] = "clear" => lock[data[Master]] = 2 * participants
  /\ pc[Master] # "clear" => lock[1 - control] = 0

\* Every participant has been through all its barriers.
Out == \A p \in Procs : done[p] = MaxRounds

-------------------------------------------------------------------------------
(* The inductive invariant behind the safety properties. *)

In(phase, places) == {p \in Procs : data[p] = phase /\ pc[p] \in places}

Entered == In(control, {"poll", "confirm", "spin", "wait", "control"})
Tested == In(control, {"confirm", "spin", "wait", "control"})
Confirmed == In(control, {"spin", "wait", "control"})
Released == In(control, {"wait", "control"})

\* _lock of the current phase counts who entered and who confirmed.
Counted == lock[control] = Cardinality(Entered) + Cardinality(Confirmed)

\* Whoever has passed the first test has seen everybody enter, and whoever has
\* passed the second one has seen everybody confirm.
Passed ==
  /\ Tested # {} => Entered = Procs
  /\ Released # {} => Confirmed = Procs

\* In the other phase there are only participants on their way out.
Leaving ==
  /\ \A p \in Procs : /\ pc[p] \in {"control", "clear"} => p = Master
                      /\ pc[p] = "wait" => p # Master
                      /\ pc[p] \in {"enter", "poll", "confirm", "control"} =>
                           data[p] = control
                      /\ pc[p] = "clear" => data[p] = 1 - control
                      /\ pc[p] = "spin" /\ data[p] # control => p # Master
  /\ pc[Master] # "clear" => lock[1 - control] = 0
  /\ pc[Master] = "clear" =>
       /\ lock[1 - control] = 2 * participants
       /\ \A p \in Procs \ {Master} : pc[p] \in {"spin", "wait"} /\ data[p] = 1 - control

\* Where a participant is tells how many barriers it has entered and left.
Rounds ==
  \A p \in Procs :
    /\ pc[p] \in {"idle", "enter"} => begun[p] = round /\ done[p] = round
    /\ p \in Entered => begun[p] = round + 1 /\ done[p] = round
    /\ pc[p] \in {"spin", "wait", "clear"} /\ data[p] # control =>
         begun[p] = round /\ done[p] = round - 1

IInv == Counted /\ Passed /\ Leaving /\ Rounds
===============================================================================
