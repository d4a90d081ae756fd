------------------------- MODULE CounterBarrierProofs -------------------------
(***************************************************************************)
(* Proofs about CounterBarrier for any finite set of participants and any  *)
(* number of barriers.                                                     *)
(***************************************************************************)
EXTENDS CounterBarrier, TLAPS, FiniteSetTheorems

\* Any set of participants can be counted, and only all of them are as many as
\* _participants.
LEMMA Counting ==
  /\ participants \in Nat \ {0}
  /\ \A S \in SUBSET Procs :
       /\ IsFiniteSet(S)
       /\ Cardinality(S) \in Nat
       /\ Cardinality(S) <= participants
       /\ Cardinality(S) = participants => S = Procs
<1>1. IsFiniteSet(Procs) /\ Procs # {} /\ Cardinality(Procs) \in Nat
  BY ProcsAssumption, FS_CardinalityType
<1>2. Cardinality(Procs) # 0
  BY <1>1, FS_EmptySet
<1>3. ASSUME NEW S \in SUBSET Procs
      PROVE  /\ IsFiniteSet(S) /\ Cardinality(S) \in Nat
             /\ Cardinality(S) <= participants
             /\ Cardinality(S) = participants => S = Procs
  BY <1>1, FS_Subset, FS_CardinalityType DEF participants
<1>4. QED
  BY <1>1, <1>2, <1>3 DEF participants

\* A new participant makes a set of participants one larger.
LEMMA AddOne ==
  ASSUME NEW S \in SUBSET Procs, NEW p \in Procs \ S
  PROVE  Cardinality(S \cup {p}) = Cardinality(S) + 1
  BY Counting, FS_AddElement

\* Those who have passed a point of poll() are participants.
LEMMA Sets == /\ Entered \in SUBSET Procs /\ Confirmed \in SUBSET Procs
              /\ Tested \in SUBSET Procs /\ Released \in SUBSET Procs
  BY DEF Entered, Confirmed, Tested, Released, In

\* The constructor establishes the invariant.
LEMMA Initially == Init => TypeOK /\ IInv
<1>. SUFFICES ASSUME Init PROVE TypeOK /\ IInv
  OBVIOUS
<1>1. TypeOK
  BY DEF Init, TypeOK
<1>2. Entered = {} /\ Confirmed = {} /\ Tested = {} /\ Released = {}
  BY DEF Init, Entered, Confirmed, Tested, Released, In
<1>3. Counted /\ Passed
  BY <1>2, FS_EmptySet DEF Init, Counted, Passed
<1>4. Leaving /\ Rounds
  BY <1>2, ProcsAssumption DEF Init, Leaving, Rounds
<1>5. QED
  BY <1>1, <1>3, <1>4 DEF IInv

\* enterPoll keeps the invariant: nothing shared is touched.
LEMMA StepBegin ==
  ASSUME TypeOK, IInv, NEW p \in Procs, Begin(p)
  PROVE  TypeOK' /\ IInv'
<1>. USE DEF Begin, Goto, history
<1>1. TypeOK'
  BY DEF TypeOK
<1>2. /\ Entered' = Entered /\ Confirmed' = Confirmed
      /\ Tested' = Tested /\ Released' = Released
  BY DEF Entered, Confirmed, Tested, Released, In, TypeOK
<1>3. Counted' /\ Passed'
  BY <1>2 DEF IInv, Counted, Passed
<1>4. Leaving'
  BY ProcsAssumption DEF IInv, Leaving, TypeOK
<1>5. Rounds'
  BY <1>2 DEF IInv, Rounds, TypeOK
<1>6. QED
  BY <1>1, <1>3, <1>4, <1>5 DEF IInv

\* The first increment of _lock keeps the invariant.
LEMMA StepEnter ==
  ASSUME TypeOK, IInv, NEW p \in Procs, Enter(p)
  PROVE  TypeOK' /\ IInv'
<1>. USE DEF Enter, Goto
<1>1. TypeOK'
  BY DEF TypeOK
<1>2. data[p] = control /\ p \notin Entered /\ lock'[control] = lock[control] + 1
  BY DEF IInv, Leaving, TypeOK, Entered, In
<1>3. /\ Entered' = Entered \cup {p} /\ Confirmed' = Confirmed
      /\ Tested' = Tested /\ Released' = Released
  BY <1>2 DEF Entered, Confirmed, Tested, Released, In, TypeOK
<1>4. Counted'
  BY <1>2, <1>3, AddOne, Counting, Sets DEF IInv, Counted
<1>5. Passed'
  BY <1>2, <1>3 DEF IInv, Passed
<1>6. Leaving'
  BY <1>2, ProcsAssumption DEF IInv, Leaving, TypeOK
<1>7. Rounds'
  BY <1>2, <1>3 DEF IInv, Rounds, TypeOK
<1>8. QED
  BY <1>1, <1>4, <1>5, <1>6, <1>7 DEF IInv

\* Reading that everybody has arrived keeps the invariant.
LEMMA StepPoll ==
  ASSUME TypeOK, IInv, NEW p \in Procs, Poll(p)
  PROVE  TypeOK' /\ IInv'
<1>. USE DEF Poll, Goto, history
<1>1. TypeOK'
  BY DEF TypeOK
<1>2. data[p] = control /\ lock[control] >= participants
  BY DEF IInv, Leaving
<1>3. Entered = Procs
  <2>1. CASE Tested # {}
    BY <2>1 DEF IInv, Passed
  <2>2. CASE Tested = {}
    <3>1. Confirmed = {}
      BY <2>2 DEF Tested, Confirmed, In
    <3>2. Cardinality(Entered) >= participants
      BY <1>2, <3>1, FS_EmptySet, Counting, Sets DEF IInv, Counted
    <3>3. QED
      BY <3>2, Counting, Sets
  <2>3. QED
    BY <2>1, <2>2
<1>4. Entered' = Entered /\ Confirmed' = Confirmed /\ Released' = Released
  BY <1>2 DEF Entered, Confirmed, Released, In, TypeOK
<1>5. Counted' /\ Passed'
  BY <1>3, <1>4 DEF IInv, Counted, Passed
<1>6. Leaving'
  BY <1>2, ProcsAssumption DEF IInv, Leaving, TypeOK
<1>7. Rounds'
  BY <1>2, <1>4 DEF IInv, Rounds, TypeOK
<1>8. QED
  BY <1>1, <1>5, <1>6, <1>7 DEF IInv

\* The second increment of _lock keeps the invariant.
LEMMA StepConfirm ==
  ASSUME TypeOK, IInv, NEW p \in Procs, Confirm(p)
  PROVE  TypeOK' /\ IInv'
<1>. USE DEF Confirm, Goto, history
<1>1. TypeOK'
  BY DEF TypeOK
<1>2. data[p] = control /\ p \notin Confirmed /\ lock'[control] = lock[control] + 1
  BY DEF IInv, Leaving, TypeOK, Confirmed, In
<1>3. /\ Entered' = Entered /\ Confirmed' = Confirmed \cup {p}
      /\ Tested' = Tested /\ Released' = Released
  BY <1>2 DEF Entered, Confirmed, Tested, Released, In, TypeOK
<1>4. Counted'
  BY <1>2, <1>3, AddOne, Counting, Sets DEF IInv, Counted
<1>5. Passed'
  BY <1>2, <1>3 DEF IInv, Passed
<1>6. Leaving'
  BY <1>2, ProcsAssumption DEF IInv, Leaving, TypeOK
<1>7. Rounds'
  BY <1>2, <1>3 DEF IInv, Rounds, TypeOK
<1>8. QED
  BY <1>1, <1>4, <1>5, <1>6, <1>7 DEF IInv

\* Leaving the loop on 0 or on 2 * participants keeps the invariant.
LEMMA StepSpin ==
  ASSUME TypeOK, IInv, NEW p \in Procs, Spin(p)
  PROVE  TypeOK' /\ IInv'
<1>. USE DEF Spin, Goto, history
<1>1. TypeOK'
  BY DEF TypeOK
<1>2. Entered' = Entered /\ Confirmed' = Confirmed /\ Tested' = Tested
  BY DEF Entered, Confirmed, Tested, In, TypeOK, IInv, Leaving
<1>3. Counted'
  BY <1>2 DEF IInv, Counted
<1>4. Passed'
  <2>1. CASE data[p] = control
    <3>1. p \in Entered /\ p \in Tested /\ Entered = Procs
      BY <2>1 DEF Entered, Tested, In, IInv, Passed
    <3>2. Cardinality(Entered) = participants
      BY <3>1 DEF participants
    <3>3. lock[control] >= 2 * participants
      BY <2>1, <3>2, Counting, Sets DEF IInv, Counted, TypeOK
    <3>4. Confirmed = Procs
      BY <3>2, <3>3, Counting, Sets DEF IInv, Counted
    <3>5. QED
      BY <1>2, <3>1, <3>4 DEF IInv, Passed
  <2>2. CASE data[p] # control
    <3>1. Released' = Released
      BY <2>2 DEF Released, In, TypeOK
    <3>2. QED
      BY <1>2, <3>1 DEF IInv, Passed
  <2>3. QED
    BY <2>1, <2>2
<1>5. Leaving'
  BY ProcsAssumption DEF IInv, Leaving, TypeOK
<1>6. Rounds'
  BY <1>2 DEF IInv, Rounds, TypeOK
<1>7. QED
  BY <1>1, <1>3, <1>4, <1>5, <1>6 DEF IInv

\* The master's change of _control keeps the invariant.
LEMMA StepFlip ==
  ASSUME TypeOK, IInv, NEW p \in Procs, Flip(p)
  PROVE  TypeOK' /\ IInv'
<1>. USE DEF Flip, Goto
<1>1. p = Master /\ data[p] = control /\ control' = 1 - control
  BY DEF IInv, Leaving, TypeOK
<1>2. TypeOK'
  BY <1>1 DEF TypeOK
<1>3. Confirmed = Procs /\ Entered = Procs
  <2>1. p \in Released /\ p \in Tested
    BY <1>1 DEF Released, Tested, In
  <2>2. QED
    BY <2>1 DEF IInv, Passed
<1>4. \A q \in Procs : data[q] = control /\ pc[q] \in {"spin", "wait", "control"}
  BY <1>3 DEF Confirmed, In
<1>5. lock[control] = 2 * participants
  BY <1>3, Counting DEF IInv, Counted, participants
<1>6. Entered' = {} /\ Confirmed' = {} /\ Tested' = {} /\ Released' = {}
  BY <1>1, <1>4 DEF Entered, Confirmed, Tested, Released, In, TypeOK
<1>7. Counted'
  BY <1>1, <1>6, FS_EmptySet DEF IInv, Leaving, Counted
<1>8. Passed'
  BY <1>6 DEF Passed
<1>9. Leaving'
  <2>1. 1 - control' = control
    BY <1>1 DEF TypeOK
  <2>2. \A q \in Procs \ {Master} : pc'[q] = pc[q] /\ pc[q] \in {"spin", "wait"}
    BY <1>1, <1>4 DEF IInv, Leaving, TypeOK
  <2>3. pc'[Master] = "clear" /\ data' = data /\ lock' = lock /\ control' # control
    BY <1>1 DEF TypeOK
  <2>4. QED
    BY <1>1, <1>4, <1>5, <2>1, <2>2, <2>3 DEF IInv, Leaving
<1>10. Rounds'
  <2>1. \A q \in Procs : begun[q] = round + 1 /\ done[q] = round
    BY <1>3 DEF IInv, Rounds
  <2>2. \A q \in Procs : pc'[q] \in {"spin", "wait", "clear"}
    BY <1>1, <1>4 DEF TypeOK, IInv, Leaving
  <2>3. QED
    BY <1>6, <2>1, <2>2 DEF Rounds, TypeOK
<1>11. QED
  BY <1>2, <1>7, <1>8, <1>9, <1>10 DEF IInv

\* The master's clear of the old counter keeps the invariant.
LEMMA StepClear ==
  ASSUME TypeOK, IInv, NEW p \in Procs, Clear(p)
  PROVE  TypeOK' /\ IInv'
<1>. USE DEF Clear, Goto
<1>1. TypeOK'
  BY DEF TypeOK
<1>2. p = Master /\ data[p] = 1 - control /\ data[p] # control
  BY DEF IInv, Leaving, TypeOK
<1>3. lock'[control] = lock[control] /\ lock'[1 - control] = 0
  BY <1>2 DEF TypeOK
<1>4. /\ Entered' = Entered /\ Confirmed' = Confirmed
      /\ Tested' = Tested /\ Released' = Released
  BY <1>2 DEF Entered, Confirmed, Tested, Released, In, TypeOK
<1>5. Counted' /\ Passed'
  BY <1>3, <1>4 DEF IInv, Counted, Passed
<1>6. Leaving'
  BY <1>2, <1>3 DEF IInv, Leaving, TypeOK
<1>7. Rounds'
  BY <1>2, <1>4 DEF IInv, Rounds, TypeOK
<1>8. QED
  BY <1>1, <1>5, <1>6, <1>7 DEF IInv

\* Seeing _control change, and returning, keeps the invariant.
LEMMA StepWait ==
  ASSUME TypeOK, IInv, NEW p \in Procs, Wait(p)
  PROVE  TypeOK' /\ IInv'
<1>. USE DEF Wait, Goto
<1>1. TypeOK'
  BY DEF TypeOK
<1>2. p # Master
  BY DEF IInv, Leaving
<1>3. data[p] # control
  <2>1. SUFFICES ASSUME data[p] = control PROVE FALSE
    OBVIOUS
  <2>2. p \in Entered
    BY <2>1 DEF Entered, In
  <2>3. Cardinality(Entered) # 0
    BY <2>2, Counting, Sets, FS_EmptySet
  <2>4. QED
    BY <2>1, <2>3, Counting, Sets DEF IInv, Counted
<1>4. pc[Master] # "clear"
  BY <1>3, Counting, ProcsAssumption DEF IInv, Leaving, TypeOK
<1>5. /\ Entered' = Entered /\ Confirmed' = Confirmed
      /\ Tested' = Tested /\ Released' = Released
  BY <1>3 DEF Entered, Confirmed, Tested, Released, In, TypeOK
<1>6. Counted' /\ Passed'
  BY <1>5 DEF IInv, Counted, Passed
<1>7. Leaving'
  BY <1>2, <1>4, ProcsAssumption DEF IInv, Leaving, TypeOK
<1>8. Rounds'
  BY <1>3, <1>5 DEF IInv, Rounds, TypeOK
<1>9. QED
  BY <1>1, <1>6, <1>7, <1>8 DEF IInv

\* Every step keeps the invariant.
LEMMA Step == TypeOK /\ IInv /\ [Next]_vars => TypeOK' /\ IInv'
<1>. SUFFICES ASSUME TypeOK, IInv, [Next]_vars PROVE TypeOK' /\ IInv'
  OBVIOUS
<1>1. ASSUME NEW p \in Procs, begin(p) PROVE TypeOK' /\ IInv'
  BY <1>1, StepBegin, StepEnter DEF begin
<1>2. ASSUME NEW p \in Procs, poll(p) PROVE TypeOK' /\ IInv'
  BY <1>2, StepPoll, StepConfirm, StepSpin, StepFlip, StepClear, StepWait DEF poll
<1>3. CASE UNCHANGED vars
  BY <1>3 DEF vars, TypeOK, IInv, Counted, Passed, Leaving, Rounds,
              Entered, Confirmed, Tested, Released, In
<1>4. QED
  BY <1>1, <1>2, <1>3 DEF Next
-------------------------------------------------------------------------------
\* The counters and the members of the barrier objects keep their types; in
\* particular _control is a phase although it is incremented and decremented.
THEOREM TypeCorrect == Spec => []TypeOK
  BY Initially, Step, PTL DEF Spec

\* The inductive invariant of begin_impl and poll_impl.
THEOREM Invariance == Spec => []IInv
  BY Initially, Step, PTL DEF Spec

\* Everybody has entered the current barrier or the one before.
LEMMA Nearby ==
  ASSUME TypeOK, IInv, NEW q \in Procs
  PROVE  begun[q] \in {round, round + 1} /\ done[q] <= round
<1>1. CASE q \in Entered
  BY <1>1 DEF IInv, Rounds, TypeOK
<1>2. CASE q \notin Entered
  BY <1>2, ProcsAssumption DEF IInv, Leaving, Rounds, Entered, In, TypeOK
<1>3. QED
  BY <1>1, <1>2

\* enter() does not return before all participants have entered the barrier,
\* for any number of participants (BarrierInterface.h).
THEOREM OneAhead == Spec => []AtMostOneAhead
<1>1. TypeOK /\ IInv => AtMostOneAhead
  BY Nearby DEF AtMostOneAhead, TypeOK
<1>2. QED
  BY <1>1, TypeCorrect, Invariance, PTL

\* The counters of the two phases never mix (poll_impl).
THEOREM Separate == Spec => []PhasesSeparate
<1>1. TypeOK /\ IInv => PhasesSeparate
  BY ProcsAssumption DEF IInv, Leaving, PhasesSeparate, TypeOK
<1>2. QED
  BY <1>1, TypeCorrect, Invariance, PTL

\* The start of a round is the abstract barrier's Enter.
LEMMA EnterIsEnter ==
  ASSUME TypeOK, IInv, NEW p \in Procs, Enter(p)
  PROVE  Abstract!Enter(p)
  BY DEF IInv, Rounds, Enter, Abstract!Enter, TypeOK

\* A return is the abstract barrier's Leave.
LEMMA LeaveIsLeave ==
  ASSUME TypeOK, IInv, NEW p \in Procs, Clear(p) \/ Wait(p)
  PROVE  Abstract!Leave(p)
<1>1. data[p] # control
  <2>1. CASE Clear(p)
    BY <2>1 DEF Clear, IInv, Leaving, TypeOK
  <2>2. CASE Wait(p)
    <3>1. SUFFICES ASSUME data[p] = control PROVE FALSE
      OBVIOUS
    <3>2. p \in Entered
      BY <2>2, <3>1 DEF Wait, Entered, In
    <3>3. Cardinality(Entered) # 0
      BY <3>2, Counting, Sets, FS_EmptySet
    <3>4. QED
      BY <2>2, <3>1, <3>3, Counting, Sets DEF Wait, IInv, Counted
  <2>3. QED
    BY <2>1, <2>2
<1>2. begun[p] = round /\ done[p] = round - 1
  BY <1>1 DEF IInv, Rounds, Clear, Wait
<1>3. \A q \in Procs : begun[p] <= begun[q]
  BY <1>2, Nearby DEF TypeOK
<1>4. done[p] < begun[p]
  BY <1>2 DEF TypeOK
<1>5. done' = [done EXCEPT ![p] = @ + 1] /\ UNCHANGED begun
  BY DEF Clear, Wait
<1>6. QED
  BY <1>3, <1>4, <1>5 DEF Abstract!Leave

\* The counter barrier implements the abstract barrier: a participant enters
\* with its first fetch_and_inc and leaves when poll() returns false.
THEOREM Refinement == Spec => ImplementsBarrier
<1>1. Init => Abstract!Init
  BY DEF Init, Abstract!Init
<1>2. TypeOK /\ IInv /\ [Next]_vars => [Abstract!Next]_(Abstract!vars)
  <2>1. SUFFICES ASSUME TypeOK, IInv, [Next]_vars
                 PROVE  [Abstract!Next]_(Abstract!vars)
    OBVIOUS
  <2>2. ASSUME NEW p \in Procs, Enter(p) PROVE Abstract!Next
    BY <2>1, <2>2, EnterIsEnter DEF Abstract!Next
  <2>3. ASSUME NEW p \in Procs, Clear(p) \/ Wait(p) PROVE Abstract!Next
    BY <2>1, <2>3, LeaveIsLeave DEF Abstract!Next
  <2>4. ASSUME NEW p \in Procs,
               Begin(p) \/ Poll(p) \/ Confirm(p) \/ Spin(p) \/ Flip(p)
        PROVE  UNCHANGED Abstract!vars
    BY <2>4 DEF Begin, Poll, Confirm, Spin, Flip, history, Abstract!vars
  <2>5. CASE UNCHANGED vars
    BY <2>5 DEF vars, Abstract!vars
  <2>6. QED
    BY <2>1, <2>2, <2>3, <2>4, <2>5 DEF Next, begin, poll
<1>3. QED
  BY <1>1, <1>2, TypeCorrect, Invariance, PTL
     DEF Spec, ImplementsBarrier, Abstract!Spec
===============================================================================
