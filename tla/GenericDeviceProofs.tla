------------------------- MODULE GenericDeviceProofs -------------------------
(***************************************************************************)
(* Proofs about GenericDevice for any set of work objects and any number   *)
(* of calls of postThread: work is neither lost nor duplicated on its way  *)
(* from the posting queue to the persistent one and out of the device.     *)
(***************************************************************************)
EXTENDS GenericDevice, TLAPS, SequenceTheorems

-----------------------------------------------------------------------------
(* Sequences without repetition. *)

\* The elements of a sequence, by index.
LEMMA InToSet ==
  ASSUME NEW S, NEW s \in Seq(S)
  PROVE  /\ DOMAIN s = 1..Len(s) /\ Len(s) \in Nat
         /\ \A x : x \in Range(s) <=> \E i \in 1..Len(s) : s[i] = x
  BY DEF Range

\* What is on two queues is on one of them.
LEMMA SetOfConcat ==
  ASSUME NEW S, NEW s \in Seq(S), NEW t \in Seq(S)
  PROVE  Range(s \o t) = Range(s) \cup Range(t)
<1>1. /\ s \o t \in Seq(S) /\ Len(s \o t) = Len(s) + Len(t)
      /\ \A i \in 1..(Len(s) + Len(t)) :
           (s \o t)[i] = IF i <= Len(s) THEN s[i] ELSE t[i - Len(s)]
      /\ Len(s) \in Nat /\ Len(t) \in Nat
  BY ConcatProperties
<1>2. ASSUME NEW x \in Range(s \o t) PROVE x \in Range(s) \cup Range(t)
  <2>1. PICK i \in 1..(Len(s) + Len(t)) : (s \o t)[i] = x
    BY <1>1, InToSet
  <2>2. CASE i <= Len(s)
    BY <1>1, <2>1, <2>2, InToSet
  <2>3. CASE ~(i <= Len(s))
    <3>1. i - Len(s) \in 1..Len(t) /\ t[i - Len(s)] = x
      BY <1>1, <2>1, <2>3
    <3>2. QED
      BY <3>1, InToSet
  <2>4. QED
    BY <2>2, <2>3
<1>3. ASSUME NEW x \in Range(s) PROVE x \in Range(s \o t)
  <2>1. PICK i \in 1..Len(s) : s[i] = x
    BY InToSet
  <2>2. i \in 1..(Len(s) + Len(t)) /\ (s \o t)[i] = x
    BY <1>1, <2>1
  <2>3. QED
    BY <1>1, <2>2, InToSet
<1>4. ASSUME NEW x \in Range(t) PROVE x \in Range(s \o t)
  <2>1. PICK i \in 1..Len(t) : t[i] = x
    BY InToSet
  <2>2. PICK j \in 1..(Len(s) + Len(t)) : j = Len(s) + i
    BY <1>1
  <2>3. (s \o t)[j] = x
    BY <1>1, <2>1, <2>2
  <2>4. QED
    BY <1>1, <2>3, InToSet
<1>5. QED
  BY <1>2, <1>3, <1>4

\* Two queues together hold nothing twice when neither does and they share nothing.
LEMMA ConcatInjective ==
  ASSUME NEW S, NEW s \in Seq(S), NEW t \in Seq(S)
  PROVE  IsInjective(s \o t) <=>
           IsInjective(s) /\ IsInjective(t) /\ Range(s) \cap Range(t) = {}
<1>1. /\ s \o t \in Seq(S) /\ Len(s \o t) = Len(s) + Len(t)
      /\ \A i \in 1..(Len(s) + Len(t)) :
           (s \o t)[i] = IF i <= Len(s) THEN s[i] ELSE t[i - Len(s)]
      /\ Len(s) \in Nat /\ Len(t) \in Nat
      /\ DOMAIN (s \o t) = 1..(Len(s) + Len(t))
      /\ DOMAIN s = 1..Len(s) /\ DOMAIN t = 1..Len(t)
  BY ConcatProperties
<1>2. \A i \in 1..Len(s) : i \in DOMAIN (s \o t) /\ (s \o t)[i] = s[i]
  BY <1>1
<1>3. \A i \in 1..Len(t) : Len(s) + i \in DOMAIN (s \o t) /\ (s \o t)[Len(s) + i] = t[i]
  BY <1>1
<1>4. ASSUME IsInjective(s \o t)
      PROVE  IsInjective(s) /\ IsInjective(t) /\ Range(s) \cap Range(t) = {}
  <2>1. IsInjective(s)
    BY <1>1, <1>2, <1>4 DEF IsInjective
  <2>2. IsInjective(t)
    <3>. SUFFICES ASSUME NEW i \in 1..Len(t), NEW j \in 1..Len(t), t[i] = t[j] PROVE i = j
      BY <1>1 DEF IsInjective
    <3>1. Len(s) + i = Len(s) + j
      BY <1>3, <1>4 DEF IsInjective
    <3>2. QED
      BY <1>1, <3>1
  <2>3. ASSUME NEW x \in Range(s) \cap Range(t) PROVE FALSE
    <3>1. PICK i \in 1..Len(s), j \in 1..Len(t) : s[i] = x /\ t[j] = x
      BY <2>3, InToSet
    <3>. DEFINE k == Len(s) + j
    <3>2. i = k
      <4>1. i \in DOMAIN (s \o t) /\ (s \o t)[i] = x
        BY <1>2, <3>1
      <4>2. k \in DOMAIN (s \o t) /\ (s \o t)[k] = x
        BY <1>3, <3>1
      <4>. HIDE DEF k
      <4>3. QED
        BY <1>4, <4>1, <4>2 DEF IsInjective
    <3>3. i \in Nat /\ j \in Nat /\ Len(s) \in Nat /\ i <= Len(s) /\ 1 <= j
      BY <1>1
    <3>4. QED
      BY <3>2, <3>3
  <2>4. QED
    BY <2>1, <2>2, <2>3
<1>5. ASSUME IsInjective(s), IsInjective(t), Range(s) \cap Range(t) = {}
      PROVE  IsInjective(s \o t)
  <2>. SUFFICES ASSUME NEW i \in 1..(Len(s) + Len(t)), NEW j \in 1..(Len(s) + Len(t)),
                       (s \o t)[i] = (s \o t)[j]
                PROVE  i = j
    BY <1>1 DEF IsInjective
  <2>1. CASE i <= Len(s) /\ j <= Len(s)
    BY <1>1, <1>5, <2>1 DEF IsInjective
  <2>2. CASE ~(i <= Len(s)) /\ ~(j <= Len(s))
    <3>1. /\ i - Len(s) \in 1..Len(t) /\ j - Len(s) \in 1..Len(t)
          /\ t[i - Len(s)] = t[j - Len(s)]
      BY <1>1, <2>2
    <3>2. i - Len(s) = j - Len(s)
      BY <1>1, <1>5, <3>1 DEF IsInjective
    <3>3. QED
      BY <1>1, <3>2
  <2>3. ASSUME NEW a \in 1..Len(s), NEW b \in 1..Len(t), s[a] = t[b] PROVE FALSE
    BY <1>5, <2>3, InToSet
  <2>4. CASE i <= Len(s) /\ ~(j <= Len(s))
    <3>1. i \in 1..Len(s) /\ j - Len(s) \in 1..Len(t) /\ s[i] = t[j - Len(s)]
      BY <1>1, <2>4
    <3>2. QED
      BY <2>3, <3>1
  <2>5. CASE ~(i <= Len(s)) /\ j <= Len(s)
    <3>1. j \in 1..Len(s) /\ i - Len(s) \in 1..Len(t) /\ s[j] = t[i - Len(s)]
      BY <1>1, <2>5
    <3>2. QED
      BY <2>3, <3>1
  <2>6. QED
    BY <2>1, <2>2, <2>4, <2>5
<1>6. QED
  BY <1>4, <1>5

\* A queue with one work object at its end.
LEMMA Appended ==
  ASSUME NEW S, NEW s \in Seq(S), NEW x \in S
  PROVE  /\ Append(s, x) \in Seq(S)
         /\ Range(Append(s, x)) = Range(s) \cup {x}
         /\ IsInjective(s) /\ x \notin Range(s) => IsInjective(Append(s, x))
<1>. DEFINE t == <<x>>
<1>1. Append(s, x) = s \o t /\ t \in Seq(S)
  BY AppendIsConcat
<1>2. Range(t) = {x} /\ IsInjective(t)
  BY DEF Range, IsInjective
<1>. HIDE DEF t
<1>3. s \o t \in Seq(S)
  BY <1>1, ConcatProperties
<1>4. Range(s \o t) = Range(s) \cup Range(t)
  BY <1>1, SetOfConcat
<1>5. IsInjective(s) /\ Range(s) \cap Range(t) = {} => IsInjective(s \o t)
  BY <1>1, <1>2, ConcatInjective
<1>6. QED
  BY <1>1, <1>2, <1>3, <1>4, <1>5

\* A queue without the work object at index i.
LEMMA Without ==
  ASSUME NEW S, NEW s \in Seq(S), NEW i \in 1..Len(s), NEW r \in Seq(S),
         Len(r) = Len(s) - 1,
         \A j \in 1..Len(r) : r[j] = IF j < i THEN s[j] ELSE s[j + 1]
  PROVE  /\ s[i] \in Range(s)
         /\ IsInjective(s) => IsInjective(r) /\ Range(r) = Range(s) \ {s[i]}
<1>1. Len(s) \in Nat /\ Len(r) \in Nat /\ DOMAIN s = 1..Len(s) /\ DOMAIN r = 1..Len(r)
  OBVIOUS
<1>2. s[i] \in Range(s)
  BY InToSet
<1>. SUFFICES ASSUME IsInjective(s)
              PROVE  IsInjective(r) /\ Range(r) = Range(s) \ {s[i]}
  BY <1>2
<1>. DEFINE from(j) == IF j < i THEN j ELSE j + 1
<1>3. ASSUME NEW j \in 1..Len(r)
      PROVE  from(j) \in 1..Len(s) /\ r[j] = s[from(j)] /\ from(j) # i
  BY <1>1
<1>4. ASSUME NEW j \in 1..Len(r), NEW k \in 1..Len(r), from(j) = from(k) PROVE j = k
  BY <1>1, <1>4
<1>5. ASSUME NEW j \in 1..Len(s), j # i PROVE \E k \in 1..Len(r) : from(k) = j
  <2>1. CASE j < i
    <3>1. j \in 1..Len(r) /\ from(j) = j
      BY <1>1, <2>1
    <3>2. QED
      BY <3>1
  <2>2. CASE j > i
    <3>1. j - 1 \in 1..Len(r) /\ from(j - 1) = j
      BY <1>1, <2>2
    <3>2. QED
      BY <3>1
  <2>3. QED
    BY <1>1, <1>5, <2>1, <2>2
<1>. HIDE DEF from
<1>6. \A j, k \in 1..Len(s) : s[j] = s[k] => j = k
  BY <1>1 DEF IsInjective
<1>7. IsInjective(r)
  <2>. SUFFICES ASSUME NEW j \in 1..Len(r), NEW k \in 1..Len(r), r[j] = r[k] PROVE j = k
    BY <1>1 DEF IsInjective
  <2>1. from(j) = from(k)
    BY <1>3, <1>6
  <2>2. QED
    BY <1>4, <2>1
<1>8. ASSUME NEW x \in Range(r) PROVE x \in Range(s) \ {s[i]}
  <2>1. PICK j \in 1..Len(r) : r[j] = x
    BY InToSet
  <2>2. from(j) \in 1..Len(s) /\ x = s[from(j)] /\ from(j) # i
    BY <1>3, <2>1
  <2>3. QED
    BY <1>6, <2>2, InToSet
<1>9. ASSUME NEW x \in Range(s), x # s[i] PROVE x \in Range(r)
  <2>1. PICK j \in 1..Len(s) : s[j] = x
    BY InToSet
  <2>2. PICK k \in 1..Len(r) : from(k) = j
    BY <1>5, <1>9, <2>1
  <2>3. QED
    BY <1>3, <2>1, <2>2, InToSet
<1>10. QED
  BY <1>7, <1>8, <1>9

\* pop: a queue without its oldest work object.
LEMMA Popped ==
  ASSUME NEW S, NEW s \in Seq(S), s # <<>>
  PROVE  /\ Head(s) \in Range(s) /\ Tail(s) \in Seq(S)
         /\ IsInjective(s) => /\ IsInjective(Tail(s))
                              /\ Range(Tail(s)) = Range(s) \ {Head(s)}
<1>1. Len(s) \in Nat \ {0} /\ Head(s) = s[1]
  BY EmptySeq
<1>2. /\ Tail(s) \in Seq(S) /\ Len(Tail(s)) = Len(s) - 1
      /\ \A j \in 1..Len(Tail(s)) : Tail(s)[j] = s[j + 1]
  BY HeadTailProperties
<1>3. \A j \in 1..Len(Tail(s)) : Tail(s)[j] = IF j < 1 THEN s[j] ELSE s[j + 1]
  BY <1>2
<1>4. PICK i \in 1..Len(s) : i = 1
  BY <1>1
<1>. DEFINE r == Tail(s)
<1>5. r \in Seq(S) /\ Len(r) = Len(s) - 1
  BY <1>2
<1>6. \A j \in 1..Len(r) : r[j] = IF j < i THEN s[j] ELSE s[j + 1]
  BY <1>3, <1>4
<1>7. s[i] = Head(s)
  BY <1>1, <1>4
<1>. HIDE DEF r
<1>8. /\ s[i] \in Range(s)
      /\ IsInjective(s) => IsInjective(r) /\ Range(r) = Range(s) \ {s[i]}
  BY <1>5, <1>6, Without
<1>9. QED
  BY <1>5, <1>7, <1>8 DEF r

\* iter_remove: a queue without the work object at index i.
LEMMA Removed ==
  ASSUME NEW S, NEW s \in Seq(S), NEW i \in 1..Len(s)
  PROVE  /\ s[i] \in Range(s) /\ Unlink(s, i) \in Seq(S)
         /\ Len(Unlink(s, i)) = Len(s) - 1
         /\ IsInjective(s) => /\ IsInjective(Unlink(s, i))
                              /\ Range(Unlink(s, i)) = Range(s) \ {s[i]}
<1>. DEFINE a == SubSeq(s, 1, i - 1)
            b == SubSeq(s, i + 1, Len(s))
            r == Unlink(s, i)
<1>1. Len(s) \in Nat /\ i \in Nat /\ 1 <= i /\ i <= Len(s)
  OBVIOUS
<1>2. /\ a \in Seq(S) /\ Len(a) = i - 1 /\ \A j \in 1..(i - 1) : a[j] = s[j]
  BY <1>1, SubSeqProperties
<1>3. /\ b \in Seq(S) /\ Len(b) = Len(s) - i /\ \A j \in 1..(Len(s) - i) : b[j] = s[i + j]
  BY <1>1, SubSeqProperties
<1>4. r = a \o b
  BY DEF Unlink
<1>. HIDE DEF a, b, r
<1>5. /\ r \in Seq(S) /\ Len(r) = Len(a) + Len(b)
      /\ \A j \in 1..(Len(a) + Len(b)) : r[j] = IF j <= Len(a) THEN a[j] ELSE b[j - Len(a)]
  BY <1>2, <1>3, <1>4, ConcatProperties
<1>6. Len(a) + Len(b) = Len(s) - 1
  BY <1>1, <1>2, <1>3
<1>7. ASSUME NEW j \in 1..(Len(s) - 1) PROVE r[j] = IF j < i THEN s[j] ELSE s[j + 1]
  <2>1. CASE j < i
    <3>1. j <= Len(a) /\ j \in 1..(i - 1)
      BY <1>1, <1>2, <2>1
    <3>2. QED
      BY <1>2, <1>5, <1>6, <2>1, <3>1
  <2>2. CASE ~(j < i)
    <3>1. PICK k \in 1..(Len(s) - i) : j = (i - 1) + k
      BY <1>1, <2>2
    <3>2. ~(j <= Len(a)) /\ j - Len(a) = k /\ i + k = j + 1
      BY <1>1, <1>2, <2>2, <3>1
    <3>3. r[j] = b[k] /\ b[k] = s[j + 1]
      BY <1>3, <1>5, <1>6, <3>2
    <3>4. QED
      BY <2>2, <3>3
  <2>3. QED
    BY <2>1, <2>2
<1>8. Len(r) = Len(s) - 1
  BY <1>5, <1>6
<1>9. \A j \in 1..Len(r) : r[j] = IF j < i THEN s[j] ELSE s[j + 1]
  BY <1>7, <1>8
<1>10. r \in Seq(S)
  BY <1>5
<1>11. /\ s[i] \in Range(s)
       /\ IsInjective(s) => IsInjective(r) /\ Range(r) = Range(s) \ {s[i]}
  BY <1>8, <1>9, <1>10, Without
<1>12. QED
  BY <1>8, <1>10, <1>11 DEF r

\* Three queues one after the other hold exactly the work in P, once each ...
Once(p, b, t, P) == Range(p \o b \o t) = P /\ IsInjective(p \o b \o t)

\* ... when each holds nothing twice, no two share work, and together they hold P.
Parts(p, b, t, P) == /\ IsInjective(p) /\ IsInjective(b) /\ IsInjective(t)
                     /\ Range(p) \cap Range(b) = {} /\ Range(p) \cap Range(t) = {}
                     /\ Range(b) \cap Range(t) = {}
                     /\ Range(p) \cup Range(b) \cup Range(t) = P

LEMMA Apart ==
  ASSUME NEW S, NEW p \in Seq(S), NEW b \in Seq(S), NEW t \in Seq(S), NEW P
  PROVE  Once(p, b, t, P) <=> Parts(p, b, t, P)
<1>. DEFINE q == p \o b
<1>1. /\ q \in Seq(S) /\ Range(q) = Range(p) \cup Range(b)
      /\ IsInjective(q) <=> IsInjective(p) /\ IsInjective(b) /\ Range(p) \cap Range(b) = {}
  BY ConcatProperties, SetOfConcat, ConcatInjective
<1>. HIDE DEF q
<1>2. /\ Range(q \o t) = Range(q) \cup Range(t)
      /\ IsInjective(q \o t) <=> IsInjective(q) /\ IsInjective(t) /\ Range(q) \cap Range(t) = {}
  BY <1>1, SetOfConcat, ConcatInjective
<1>3. QED
  BY <1>1, <1>2 DEF q, Once, Parts

-----------------------------------------------------------------------------
(* The invariant.                                                          *)

TypeOK == /\ posted \in Seq(Work) /\ batch \in Seq(Work) /\ threads \in Seq(Work)
          /\ loop \in {"idle", "threads", "posted"}
          /\ at \in Nat \ {0}
          /\ pending \subseteq Work

\* The iterator over the posting queue holds work during the second loop only:
\* so PostedBegin, which takes a new batch, never overwrites one.
BatchTaken == loop # "posted" => batch = <<>>

IInv == TypeOK /\ BatchTaken /\ QueuedOnce

\* QueuedOnce queue by queue.
Split == Parts(posted, batch, threads, pending)

LEMMA SplitQueues == TypeOK => (QueuedOnce <=> Split)
<1>1. QueuedOnce <=> Once(posted, batch, threads, pending)
  BY DEF QueuedOnce, Once
<1>2. TypeOK => (Once(posted, batch, threads, pending) <=> Split)
  BY Apart DEF TypeOK, Split
<1>3. QED
  BY <1>1, <1>2

LEMMA SplitQueuesAfter == TypeOK' => (QueuedOnce' <=> Split')
<1>1. QueuedOnce' <=> Once(posted', batch', threads', pending')
  BY DEF QueuedOnce, Once
<1>2. TypeOK' => (Once(posted', batch', threads', pending') <=> Split')
  BY Apart DEF TypeOK, Split
<1>3. QED
  BY <1>1, <1>2

LEMMA Initially == Init => IInv
<1>. SUFFICES ASSUME Init PROVE IInv
  OBVIOUS
<1>1. TypeOK /\ BatchTaken
  BY EmptySeq DEF Init, TypeOK, BatchTaken
<1>2. Range(<<>>) = {} /\ IsInjective(<<>>)
  BY DEF Range, IsInjective
<1>3. Split
  BY <1>2 DEF Init, Split, Parts
<1>4. QED
  BY <1>1, <1>3, SplitQueues DEF IInv

\* Work that is called and asks to be called again stays on one queue.
LEMMA StepKeep ==
  ASSUME IInv, Visiting, Keep, UNCHANGED <<posted, pending>> PROVE IInv'
<1>1. TypeOK /\ BatchTaken /\ Split
  BY SplitQueues DEF IInv
<1>2. CASE loop = "threads"
  <2>1. TypeOK' /\ BatchTaken' /\ Split'
    BY <1>1, <1>2 DEF TypeOK, BatchTaken, Split, Parts, Keep
  <2>2. QED
    BY <2>1, SplitQueuesAfter DEF IInv
<1>3. CASE loop = "posted" /\ batch # <<>>
  <2>. DEFINE b == batch  w == Head(batch)  t == threads
  <2>1. /\ threads' = Append(t, w) /\ batch' = Tail(b)
        /\ posted' = posted /\ pending' = pending /\ loop' = loop /\ at' = at
    BY <1>3 DEF Keep
  <2>2. b \in Seq(Work) /\ b # <<>> /\ t \in Seq(Work) /\ w = Head(b)
    BY <1>1, <1>3 DEF TypeOK
  <2>3. /\ IsInjective(b) /\ IsInjective(t) /\ Range(b) \cap Range(t) = {}
        /\ Range(posted) \cap Range(b) = {} /\ Range(posted) \cap Range(t) = {}
        /\ Range(posted) \cup Range(b) \cup Range(t) = pending /\ IsInjective(posted)
    BY <1>1 DEF Split, Parts
  <2>4. w \in Work
    BY <2>2, HeadTailProperties
  <2>. HIDE DEF b, w, t
  <2>5. /\ w \in Range(b) /\ Tail(b) \in Seq(Work)
        /\ IsInjective(Tail(b)) /\ Range(Tail(b)) = Range(b) \ {w}
    BY <2>2, <2>3, Popped
  <2>6. w \notin Range(t)
    BY <2>3, <2>5
  <2>7. /\ Append(t, w) \in Seq(Work) /\ Range(Append(t, w)) = Range(t) \cup {w}
        /\ IsInjective(Append(t, w))
    BY <2>2, <2>3, <2>4, <2>6, Appended
  <2>8. TypeOK' /\ BatchTaken'
    BY <1>1, <1>3, <2>1, <2>5, <2>7 DEF TypeOK, BatchTaken
  <2>9. Split'
    BY <2>1, <2>3, <2>5, <2>7 DEF Split, Parts
  <2>10. QED
    BY <2>8, <2>9, SplitQueuesAfter DEF IInv
<1>4. QED
  BY <1>2, <1>3 DEF Visiting

\* Work that is done leaves the one queue it was on.
LEMMA StepFinish ==
  ASSUME IInv, Visiting, Finish, UNCHANGED posted, pending' = pending \ {Current} PROVE IInv'
<1>1. TypeOK /\ BatchTaken /\ Split
  BY SplitQueues DEF IInv
<1>2. CASE loop = "threads" /\ at <= Len(threads)
  <2>. DEFINE t == threads  i == at  r == Unlink(threads, at)
  <2>1. /\ threads' = r /\ batch' = batch /\ at' = at /\ posted' = posted /\ loop' = loop
        /\ pending' = pending \ {t[i]}
    BY <1>2 DEF Finish, Current
  <2>2. t \in Seq(Work) /\ i \in 1..Len(t) /\ r = Unlink(t, i)
    BY <1>1, <1>2 DEF TypeOK
  <2>3. /\ IsInjective(batch) /\ IsInjective(t) /\ Range(batch) \cap Range(t) = {}
        /\ Range(posted) \cap Range(batch) = {} /\ Range(posted) \cap Range(t) = {}
        /\ Range(posted) \cup Range(batch) \cup Range(t) = pending /\ IsInjective(posted)
    BY <1>1 DEF Split, Parts
  <2>. HIDE DEF t, i, r
  <2>4. t[i] \in Range(t) /\ r \in Seq(Work) /\ IsInjective(r) /\ Range(r) = Range(t) \ {t[i]}
    BY <2>2, <2>3, Removed
  <2>5. TypeOK' /\ BatchTaken'
    BY <1>1, <2>1, <2>4 DEF TypeOK, BatchTaken
  <2>6. Split'
    BY <2>1, <2>3, <2>4 DEF Split, Parts
  <2>7. QED
    BY <2>5, <2>6, SplitQueuesAfter DEF IInv
<1>3. CASE loop = "posted" /\ batch # <<>>
  <2>. DEFINE b == batch  w == Head(batch)
  <2>1. /\ batch' = Tail(b) /\ threads' = threads /\ at' = at /\ posted' = posted
        /\ loop' = loop /\ pending' = pending \ {w}
    BY <1>3 DEF Finish, Current
  <2>2. b \in Seq(Work) /\ b # <<>> /\ w = Head(b)
    BY <1>1, <1>3 DEF TypeOK
  <2>3. /\ IsInjective(b) /\ IsInjective(threads) /\ Range(b) \cap Range(threads) = {}
        /\ Range(posted) \cap Range(b) = {} /\ Range(posted) \cap Range(threads) = {}
        /\ Range(posted) \cup Range(b) \cup Range(threads) = pending /\ IsInjective(posted)
    BY <1>1 DEF Split, Parts
  <2>. HIDE DEF b, w
  <2>4. /\ w \in Range(b) /\ Tail(b) \in Seq(Work)
        /\ IsInjective(Tail(b)) /\ Range(Tail(b)) = Range(b) \ {w}
    BY <2>2, <2>3, Popped
  <2>5. TypeOK' /\ BatchTaken'
    BY <1>1, <1>3, <2>1, <2>4 DEF TypeOK, BatchTaken
  <2>6. Split'
    BY <2>1, <2>3, <2>4 DEF Split, Parts
  <2>7. QED
    BY <2>5, <2>6, SplitQueuesAfter DEF IInv
<1>4. QED
  BY <1>2, <1>3 DEF Visiting

\* postThread adds work that is on no queue.
LEMMA StepPost ==
  ASSUME IInv, NEW w \in Work, NEW s, postThread(w, s) PROVE IInv'
<1>1. TypeOK /\ BatchTaken /\ Split
  BY SplitQueues DEF IInv
<1>. DEFINE p == posted
<1>2. /\ posted' = Append(p, w) /\ pending' = pending \cup {w} /\ w \notin Queued
      /\ threads' = threads /\ batch' = batch /\ loop' = loop /\ at' = at
  BY DEF postThread
<1>3. p \in Seq(Work) /\ IsInjective(p) /\ w \notin Range(p)
  BY <1>1, <1>2 DEF TypeOK, Split, Parts, Queued
<1>4. /\ IsInjective(batch) /\ IsInjective(threads) /\ Range(batch) \cap Range(threads) = {}
      /\ Range(p) \cap Range(batch) = {} /\ Range(p) \cap Range(threads) = {}
      /\ Range(p) \cup Range(batch) \cup Range(threads) = pending
      /\ w \notin Range(batch) /\ w \notin Range(threads)
  BY <1>1, <1>2 DEF Split, Parts, Queued
<1>. HIDE DEF p
<1>5. /\ Append(p, w) \in Seq(Work) /\ Range(Append(p, w)) = Range(p) \cup {w}
      /\ IsInjective(Append(p, w))
  BY <1>3, Appended
<1>6. TypeOK' /\ BatchTaken'
  BY <1>1, <1>2, <1>5 DEF TypeOK, BatchTaken
<1>7. Split'
  BY <1>2, <1>4, <1>5 DEF Split, Parts
<1>8. QED
  BY <1>6, <1>7, SplitQueuesAfter DEF IInv

\* The second loop takes the whole posting queue as its batch.
LEMMA StepTake ==
  ASSUME IInv, PostedStart PROVE IInv'
<1>1. TypeOK /\ BatchTaken /\ Split
  BY SplitQueues DEF IInv
<1>2. /\ loop = "threads" /\ loop' = "posted" /\ batch' = posted /\ posted' = <<>>
      /\ threads' = threads /\ at' = at /\ pending' = pending
  BY DEF PostedStart, PostedBegin
<1>3. batch = <<>>
  BY <1>1, <1>2 DEF BatchTaken
<1>4. Range(<<>>) = {} /\ IsInjective(<<>>) /\ <<>> \in Seq(Work)
  BY EmptySeq DEF Range, IsInjective
<1>5. TypeOK' /\ BatchTaken'
  BY <1>1, <1>2, <1>4 DEF TypeOK, BatchTaken
<1>6. Split'
  BY <1>1, <1>2, <1>3, <1>4 DEF Split, Parts
<1>7. QED
  BY <1>5, <1>6, SplitQueuesAfter DEF IInv

LEMMA Step == IInv /\ [Next]_vars => IInv'
<1>. SUFFICES ASSUME IInv, [Next]_vars PROVE IInv'
  OBVIOUS
<1>1. ASSUME NEW w \in Work, NEW s \in {"New", "Ready"}, postThread(w, s) PROVE IInv'
  BY <1>1, StepPost
<1>2. ASSUME NEW w \in Work, NEW s \in ThreadStatus \ {"New"}, setStatus(w, s) PROVE IInv'
  BY <1>2 DEF setStatus, queues, IInv, TypeOK, BatchTaken, QueuedOnce
<1>3. CASE AdvanceStart
  BY <1>3 DEF AdvanceStart, AdvanceBegin, IInv, TypeOK, BatchTaken, QueuedOnce
<1>4. CASE PostedStart
  BY <1>4, StepTake
<1>5. CASE AdvanceEnd
  BY <1>5 DEF AdvanceEnd, IInv, TypeOK, BatchTaken, QueuedOnce
<1>6. ASSUME NEW w \in Work, executeThread(w) PROVE IInv'
  <2>1. CASE Keep /\ UNCHANGED pending
    BY <1>6, <2>1, StepKeep DEF executeThread
  <2>2. CASE Finish /\ pending' = pending \ {w}
    BY <1>6, <2>2, StepFinish DEF executeThread
  <2>3. QED
    BY <1>6, <2>1, <2>2 DEF executeThread
<1>7. ASSUME NEW w \in Work, Skip(w) PROVE IInv'
  <2>1. CASE Keep /\ UNCHANGED pending
    BY <1>7, <2>1, StepKeep DEF Skip
  <2>2. CASE Finish /\ pending' = pending \ {w}
    BY <1>7, <2>2, StepFinish DEF Skip
  <2>3. QED
    BY <1>7, <2>1, <2>2 DEF Skip
<1>8. CASE UNCHANGED vars
  BY <1>8 DEF vars, queues, IInv, TypeOK, BatchTaken, QueuedOnce
<1>9. QED
  BY <1>1, <1>2, <1>3, <1>4, <1>5, <1>6, <1>7, <1>8 DEF Next, Advance

\* The two loops and the queues between them: types, the batch is empty outside
\* the second loop, and every pending work object is on one queue, once.
THEOREM Invariance == Spec => []IInv
  BY Initially, Step, PTL DEF Spec

\* Work that was posted and not dropped is on exactly one of __Posted, the batch
\* taken from it and __Threads, and nothing else is, however many work objects
\* there are and whatever their work functions return (Device.h:370-407).
THEOREM OnOneQueue == Spec => []QueuedOnce
<1>1. IInv => QueuedOnce
  BY DEF IInv
<1>2. QED
  BY <1>1, Invariance, PTL
===============================================================================
