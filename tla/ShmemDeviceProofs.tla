-------------------------- MODULE ShmemDeviceProofs --------------------------
(***************************************************************************)
(* Proofs about ShmemDevice for any number of destinations, producers and  *)
(* messages, any size of fifo and any length of message: the order of the  *)
(* packets, of the copies and of the callbacks of an origin context.       *)
(***************************************************************************)
EXTENDS ShmemDevice, TLAPS

USE ZenonT(60)

-----------------------------------------------------------------------------
(* The invariant.                                                          *)

Job == [type : {"message", "completion"}, msg : Nat, sequence : Int]
Packet == [src : Others \cup {Self}, seq : Nat]
Letter == [msg : Nat, seq : Nat]
Message == [kind : AllKinds, dest : Dests, len : Nat]

TypeOK ==
  /\ posted \in Seq(Job) /\ threads \in Seq(Job) /\ batch \in Seq(Job)
  /\ loop \in {"idle", "threads", "posted", "completion"} /\ at \in Nat \ {0}
  /\ queue \in [Dests -> Seq(Packet)] /\ delivered \in [Dests -> Seq(Packet)]
  /\ msgs \in Seq(Message)
  /\ left \in Seq(Nat) /\ Len(left) = Len(msgs)
  /\ done \subseteq Messages
  /\ sendq \in [Dests -> Seq(Nat)]
  /\ compq \in Seq(Nat) /\ nxtmsg \in Nat
  /\ writing \in {"none", "post", "thread"}
  /\ wire \in [Dests -> Seq(Letter)]
  /\ called \in Seq(Nat)

\* The work the generic device has, on whichever of its queues.
Works == Range(posted) \cup Range(batch) \cup Range(threads)

\* The messages that the work on a queue is for, and that none is there twice.
For(q) == {q[i].msg : i \in DOMAIN q}
Apart(q) == \A i, j \in DOMAIN q : q[i].msg = q[j].msg => i = j

\* A message has at most one work object: its own, or the one that waits for its
\* packet to be consumed.
WorkOnce ==
  /\ Apart(posted) /\ Apart(batch) /\ Apart(threads)
  /\ For(posted) \cap For(batch) = {} /\ For(posted) \cap For(threads) = {}
  /\ For(batch) \cap For(threads) = {}

\* m is on the send queue of its destination; it is the first there.
Waits(m) == m \in Range(sendq[Dest(m)])
Leads(m) == sendq[Dest(m)] # <<>> /\ Head(sendq[Dest(m)]) = m

\* A packet of m was written, with a sequence number up to s.
Sent(m, s) == \E i \in DOMAIN wire[Dest(m)] :
                wire[Dest(m)][i].msg = m /\ wire[Dest(m)][i].seq <= s

\* The number the next packet in the fifo of d will have.
NextSeq(d) == Len(delivered[d]) + Len(queue[d])

\* The packets of the origin have the numbers of their places in the fifo.
Wires ==
  \A d \in Dests : \A i \in DOMAIN wire[d] :
    /\ wire[d][i].msg \in Messages /\ Dest(wire[d][i].msg) = d
    /\ wire[d][i].seq < NextSeq(d)
    /\ \A j \in DOMAIN wire[d] : i < j => wire[d][i].seq < wire[d][j].seq

\* A send queue holds messages in the order of the posts; only its first may have
\* been finished by its work function.
SendQueues ==
  \A d \in Dests : \A i \in DOMAIN sendq[d] :
    /\ sendq[d][i] \in Messages /\ Dest(sendq[d][i]) = d
    /\ i # 1 => sendq[d][i] \notin done
    /\ \A j \in DOMAIN sendq[d] : i < j => sendq[d][i] < sendq[d][j]

\* A message with something left waits on its send queue, or is the one that
\* postMultiPacket is writing; what waits and is not done has something left.
Remaining ==
  \A m \in Messages :
    /\ left[m] # 0 => m \notin done /\ (Waits(m) \/ (writing = "post" /\ m = Len(msgs)))
    /\ Waits(m) /\ m \notin done /\ Kind(m) # "fence" => left[m] # 0
    /\ Kind(m) = "fence" => left[m] = 0
    /\ Kind(m) = "roput" /\ left[m] = 0 =>
         \E i \in DOMAIN wire[Dest(m)] : wire[Dest(m)][i].msg = m

\* postMultiPacket writes the message posted last, past an empty send queue.
Posting ==
  writing = "post" =>
    /\ msgs # <<>>
    /\ Kind(Len(msgs)) = "packet" /\ left[Len(msgs)] # 0
    /\ sendq[Dest(Len(msgs))] = <<>>

\* The work of a message is there for the first of a send queue and until it is
\* done; the work that waits for a packet knows a number at or after its own.
WorkIs ==
  \A w \in Works :
    /\ w.msg \in Messages
    /\ w.type = "message" => w = MsgWork(w.msg) /\ Leads(w.msg) /\ w.msg \notin done
    /\ w.type = "completion" => /\ Kind(w.msg) = "roput" /\ left[w.msg] = 0
                                /\ ~Waits(w.msg) /\ w.msg \notin Range(called)
                                /\ Sent(w.msg, w.sequence)

\* What was called is over, and all that waits was posted after it.
Called ==
  \A m \in Range(called) :
    /\ m \in Messages /\ left[m] = 0 /\ ~Waits(m)
    /\ Kind(m) # "roput" => \A j \in DOMAIN sendq[Dest(m)] : m < sendq[Dest(m)][j]

\* The completion queue holds firsts of send queues.
CompQueue ==
  /\ IsInjective(compq)
  /\ \A m \in Range(compq) : m \in Messages /\ Leads(m)
  /\ nxtmsg # 0 => nxtmsg \in Range(compq)

\* A fence that is over, and a copy that has begun, came after all before it.
Touched(m) == \/ Kind(m) = "fence" /\ m \in done \cup Range(called)
              \/ Kind(m) \in {"get", "put", "copy"} /\ left[m] < msgs[m].len
Settled == \A m \in Messages : Touched(m) => SettledBefore(m)

IInv == /\ TypeOK /\ WorkOnce /\ Wires /\ SendQueues /\ Remaining /\ Posting /\ WorkIs
        /\ Called /\ CompQueue /\ Settled /\ PostOrder /\ RemoteCompletion /\ CallbackOrder

-----------------------------------------------------------------------------
(* Queues.                                                                 *)

\* The elements of a sequence, by index.
LEMMA InRange ==
  ASSUME NEW S, NEW s \in Seq(S)
  PROVE  /\ DOMAIN s = 1..Len(s) /\ Len(s) \in Nat
         /\ \A i \in 1..Len(s) : s[i] \in S
         /\ \A x : x \in Range(s) <=> \E i \in 1..Len(s) : s[i] = x
  BY SMTT(60) DEF Range

\* A queue with one more element.
LEMMA Appended ==
  ASSUME NEW S, NEW s \in Seq(S), NEW x \in S
  PROVE  /\ Append(s, x) \in Seq(S) /\ Append(s, x) # <<>>
         /\ Len(Append(s, x)) = Len(s) + 1
         /\ DOMAIN Append(s, x) = DOMAIN s \cup {Len(s) + 1} /\ Len(s) + 1 \notin DOMAIN s
         /\ \A i \in DOMAIN s : Append(s, x)[i] = s[i]
         /\ Append(s, x)[Len(s) + 1] = x
         /\ Range(Append(s, x)) = Range(s) \cup {x}
         /\ s # <<>> => Head(Append(s, x)) = Head(s)
         /\ s = <<>> => Head(Append(s, x)) = x
<1>. DEFINE t == Append(s, x)
<1>1. /\ t \in Seq(S) /\ Len(t) = Len(s) + 1 /\ Len(s) \in Nat
      /\ \A i \in 1..Len(s) : t[i] = s[i]
      /\ t[Len(s) + 1] = x
      /\ DOMAIN t = 1..(Len(s) + 1) /\ DOMAIN s = 1..Len(s)
  BY SMTT(60)
<1>2. t # <<>>
  BY SMTT(60), <1>1
<1>3. s # <<>> => Head(t) = Head(s)
  <2>. SUFFICES ASSUME s # <<>> PROVE Head(t) = Head(s)
    OBVIOUS
  <2>1. Head(s) = s[1] /\ 1 \in 1..Len(s)
    BY SMTT(60)
  <2>2. Head(t) = t[1]
    BY SMTT(60), <1>1
  <2>3. QED
    BY <1>1, <2>1, <2>2
<1>4. s = <<>> => Head(t) = x
  BY SMTT(60)
<1>. HIDE DEF t
<1>5. DOMAIN t = DOMAIN s \cup {Len(s) + 1} /\ Len(s) + 1 \notin DOMAIN s
  BY SMTT(60), <1>1
<1>6. Range(t) = Range(s) \cup {x}
  BY SMTT(60), <1>1, <1>5 DEF Range
<1>7. QED
  BY <1>1, <1>2, <1>3, <1>4, <1>5, <1>6 DEF t

\* One more element that was not there.
LEMMA AppendedOnce ==
  ASSUME NEW q \in Seq(Nat), IsInjective(q), NEW m \in Nat, m \notin Range(q)
  PROVE  /\ Append(q, m) \in Seq(Nat) /\ Range(Append(q, m)) = Range(q) \cup {m}
         /\ IsInjective(Append(q, m))
<1>. DEFINE a == Append(q, m)
            n == Len(q) + 1
<1>1. /\ a \in Seq(Nat) /\ Range(a) = Range(q) \cup {m} /\ DOMAIN a = DOMAIN q \cup {n}
      /\ \A i \in DOMAIN q : a[i] = q[i]
      /\ a[n] = m
  BY SMTT(60), Appended
<1>2. \A i \in DOMAIN q : q[i] \in Range(q)
  BY DEF Range
<1>. HIDE DEF a, n
<1>3. IsInjective(a)
  BY SMTT(60), <1>1, <1>2 DEF IsInjective
<1>4. QED
  BY <1>1, <1>3 DEF a

\* A queue without its first element.
LEMMA Popped ==
  ASSUME NEW S, NEW s \in Seq(S), s # <<>>
  PROVE  /\ Head(s) = s[1] /\ Len(s) \in Nat /\ 1 \in 1..Len(s)
         /\ Tail(s) \in Seq(S) /\ Len(Tail(s)) = Len(s) - 1
         /\ \A i \in 1..Len(Tail(s)) : i + 1 \in 1..Len(s) /\ Tail(s)[i] = s[i + 1]
<1>1. Len(s) \in Nat \ {0} /\ Head(s) = s[1]
  BY SMTT(60)
<1>2. Tail(s) \in Seq(S) /\ Len(Tail(s)) = Len(s) - 1
      /\ \A i \in 1..Len(Tail(s)) : Tail(s)[i] = s[i + 1]
  BY SMTT(60)
<1>3. QED
  BY SMTT(60), <1>1, <1>2

\* The empty queue has no places.
LEMMA Nothing == DOMAIN <<>> = {}
  BY SMTT(60)

\* Two queues in a row.
LEMMA Joined ==
  ASSUME NEW S, NEW a \in Seq(S), NEW b \in Seq(S)
  PROVE  /\ a \o b \in Seq(S) /\ Len(a \o b) = Len(a) + Len(b)
         /\ \A j \in 1..(Len(a) + Len(b)) :
              (a \o b)[j] = IF j <= Len(a) THEN a[j] ELSE b[j - Len(a)]
  BY SMTT(60)

\* remove: a queue without the element at index i.
LEMMA Removed ==
  ASSUME NEW S, NEW s \in Seq(S), NEW i \in 1..Len(s)
  PROVE  /\ Unlink(s, i) \in Seq(S) /\ Len(Unlink(s, i)) = Len(s) - 1
         /\ \A j \in 1..(Len(s) - 1) : Unlink(s, i)[j] = IF j < i THEN s[j] ELSE s[j + 1]
<1>. DEFINE a == SubSeq(s, 1, i - 1)
            b == SubSeq(s, i + 1, Len(s))
            r == Unlink(s, i)
<1>1. Len(s) \in Nat /\ i \in Nat /\ 1 <= i /\ i <= Len(s)
  BY SMTT(60)
<1>2. a \in Seq(S) /\ Len(a) = i - 1 /\ \A j \in 1..(i - 1) : a[j] = s[j]
  BY SMTT(60), <1>1
<1>3. b \in Seq(S) /\ Len(b) = Len(s) - i /\ \A j \in 1..(Len(s) - i) : b[j] = s[i + j]
  BY SMTT(60), <1>1
<1>4. r = a \o b
  BY DEF Unlink
<1>. HIDE DEF a, b, r
<1>5. /\ r \in Seq(S) /\ Len(r) = Len(a) + Len(b)
      /\ \A j \in 1..(Len(a) + Len(b)) : r[j] = IF j <= Len(a) THEN a[j] ELSE b[j - Len(a)]
  BY <1>2, <1>3, <1>4, Joined
<1>6. Len(a) + Len(b) = Len(s) - 1
  BY SMTT(60), <1>1, <1>2, <1>3
<1>7. ASSUME NEW j \in 1..(Len(s) - 1) PROVE r[j] = IF j < i THEN s[j] ELSE s[j + 1]
  <2>1. CASE j < i
    <3>1. j <= Len(a) /\ j \in 1..(i - 1)
      BY SMTT(60), <1>1, <1>2, <2>1
    <3>2. QED
      BY <1>2, <1>5, <1>6, <2>1, <3>1
  <2>2. CASE ~(j < i)
    <3>1. PICK k \in 1..(Len(s) - i) : j = (i - 1) + k
      BY SMTT(60), <1>1, <2>2
    <3>2. ~(j <= Len(a)) /\ j - Len(a) = k /\ i + k = j + 1
      BY SMTT(60), <1>1, <1>2, <2>2, <3>1
    <3>3. r[j] = b[k] /\ b[k] = s[j + 1]
      BY <1>3, <1>5, <1>6, <3>2
    <3>4. QED
      BY <2>2, <3>3
  <2>3. QED
    BY <2>1, <2>2
<1>8. QED
  BY <1>5, <1>6, <1>7 DEF r

-----------------------------------------------------------------------------
(* The queues of the generic device.                                       *)

WorkTypes == posted \in Seq(Job) /\ threads \in Seq(Job) /\ batch \in Seq(Job)

\* What a queue holds, and for whom.
LEMMA Holds ==
  ASSUME NEW q \in Seq(Job)
  PROVE  For(q) = {w.msg : w \in Range(q)} /\ \A w \in Range(q) : w \in Job
  BY SMTT(60) DEF For, Range

\* The works of a message.
LEMMA ItsWork ==
  ASSUME NEW m \in Nat
  PROVE  MsgWork(m) \in Job /\ MsgWork(m).msg = m
  BY SMTT(60) DEF Job, MsgWork

LEMMA ItsPacketWork ==
  ASSUME NEW m \in Nat, NEW s \in Int
  PROVE  /\ RecPacketWork(m, s) \in Job /\ RecPacketWork(m, s).msg = m
         /\ RecPacketWork(m, s).type = "completion" /\ RecPacketWork(m, s).sequence = s
  BY SMTT(60) DEF Job, RecPacketWork

\* A queue of works without the one at index i.
LEMMA Dropped ==
  ASSUME NEW q \in Seq(Job), NEW i \in 1..Len(q), NEW r \in Seq(Job), Apart(q),
         Len(r) = Len(q) - 1,
         \A j \in 1..(Len(q) - 1) : r[j] = IF j < i THEN q[j] ELSE q[j + 1]
  PROVE  /\ Apart(r) /\ Range(r) \subseteq Range(q) /\ q[i] \in Range(q)
         /\ q[i].msg \in For(q) /\ For(r) \subseteq For(q) \ {q[i].msg}
<1>1. Len(q) \in Nat /\ DOMAIN q = 1..Len(q) /\ DOMAIN r = 1..(Len(q) - 1)
  BY SMTT(60)
<1>. DEFINE from(j) == IF j < i THEN j ELSE j + 1
<1>2. ASSUME NEW j \in DOMAIN r PROVE from(j) \in DOMAIN q /\ r[j] = q[from(j)] /\ from(j) # i
  BY SMTT(60), <1>1
<1>3. ASSUME NEW j \in DOMAIN r, NEW k \in DOMAIN r, from(j) = from(k) PROVE j = k
  BY SMTT(60), <1>1, <1>3
<1>. HIDE DEF from
<1>4. Apart(r)
  BY SMTT(60), <1>2, <1>3 DEF Apart
<1>5. Range(r) \subseteq Range(q)
  BY SMTT(60), <1>2 DEF Range
<1>6. For(r) \subseteq For(q) \ {q[i].msg}
  BY SMTT(60), <1>1, <1>2 DEF For, Apart
<1>7. QED
  BY <1>1, <1>4, <1>5, <1>6 DEF For, Range

\* A queue of works with one more.
LEMMA Added ==
  ASSUME NEW q \in Seq(Job), NEW w \in Job, Apart(q), w.msg \notin For(q)
  PROVE  /\ Append(q, w) \in Seq(Job) /\ Apart(Append(q, w))
         /\ Range(Append(q, w)) = Range(q) \cup {w}
         /\ For(Append(q, w)) = For(q) \cup {w.msg}
<1>. DEFINE r == Append(q, w)
<1>1. /\ r \in Seq(Job) /\ DOMAIN r = DOMAIN q \cup {Len(q) + 1} /\ Len(q) + 1 \notin DOMAIN q
      /\ \A i \in DOMAIN q : r[i] = q[i]
      /\ r[Len(q) + 1] = w /\ Range(r) = Range(q) \cup {w}
  BY SMTT(60), Appended
<1>. HIDE DEF r
<1>2. Apart(r)
  BY SMTT(60), <1>1 DEF Apart, For
<1>3. For(r) = For(q) \cup {w.msg}
  BY SMTT(60), <1>1 DEF For
<1>4. QED
  BY <1>1, <1>2, <1>3 DEF r

\* The work at which a loop is.
LEMMA Visited ==
  ASSUME TypeOK, Visiting
  PROVE  /\ Current \in Works
         /\ loop = "threads" => at \in 1..Len(threads) /\ Current = threads[at]
         /\ loop # "threads" => batch # <<>> /\ Current = Head(batch) /\ Head(batch) = batch[1]
<1>1. CASE loop = "threads"
  BY SMTT(60), <1>1, InRange DEF TypeOK, Visiting, Current, Works
<1>2. CASE loop # "threads"
  <2>1. batch \in Seq(Job) /\ batch # <<>>
    BY <1>2 DEF TypeOK, Visiting
  <2>2. Head(batch) = batch[1] /\ 1 \in 1..Len(batch)
    BY <2>1, Popped
  <2>3. QED
    BY <1>2, <2>1, <2>2, InRange DEF Current, Works
<1>3. QED
  BY <1>1, <1>2

\* PAMI_EAGAIN: the device has the same work as before.
LEMMA Kept ==
  ASSUME TypeOK, WorkOnce, Visiting, Keep, UNCHANGED posted
  PROVE  /\ WorkTypes' /\ at' \in Nat \ {0} /\ loop' = loop
         /\ WorkOnce' /\ Works' \subseteq Works
<1>1. CASE loop = "threads"
  BY SMTT(60), <1>1 DEF TypeOK, WorkTypes, WorkOnce, Works, Keep
<1>2. CASE loop # "threads"
  <2>. DEFINE w == batch[1]
              b == Tail(batch)
              t == Append(threads, w)
  <2>1. threads' = t /\ batch' = b /\ at' = at /\ loop' = loop /\ posted' = posted
    BY <1>2, Visited DEF Keep
  <2>2. batch \in Seq(Job) /\ threads \in Seq(Job) /\ batch # <<>>
    BY <1>2, Visited DEF TypeOK
  <2>3. /\ b \in Seq(Job) /\ Len(b) = Len(batch) - 1 /\ 1 \in 1..Len(batch) /\ w \in Job
        /\ \A j \in 1..(Len(batch) - 1) : b[j] = IF j < 1 THEN batch[j] ELSE batch[j + 1]
    BY SMTT(60), <2>2, Popped, InRange
  <2>. HIDE DEF b
  <2>4. /\ Apart(b) /\ Range(b) \subseteq Range(batch) /\ w \in Range(batch)
        /\ w.msg \in For(batch) /\ For(b) \subseteq For(batch) \ {w.msg}
    BY <2>2, <2>3, Dropped DEF WorkOnce
  <2>. HIDE DEF w
  <2>5. w.msg \notin For(threads)
    BY <2>4 DEF WorkOnce
  <2>6. /\ t \in Seq(Job) /\ Apart(t)
        /\ Range(t) = Range(threads) \cup {w} /\ For(t) = For(threads) \cup {w.msg}
    BY <2>2, <2>3, <2>5, Added DEF WorkOnce
  <2>. HIDE DEF t
  <2>7. WorkOnce'
    BY <2>1, <2>4, <2>6 DEF WorkOnce
  <2>8. QED
    BY <2>1, <2>3, <2>4, <2>6, <2>7 DEF TypeOK, WorkTypes, Works
<1>3. QED
  BY <1>1, <1>2

\* Anything else: the work is gone, and none is left for its message.
LEMMA Ended ==
  ASSUME TypeOK, WorkOnce, Visiting, Finish, UNCHANGED posted
  PROVE  /\ WorkTypes' /\ at' \in Nat \ {0} /\ loop' = loop
         /\ WorkOnce' /\ Works' \subseteq Works
         /\ \A w \in Works' : w.msg # Current.msg
<1>1. CASE loop = "threads"
  <2>. DEFINE t == Unlink(threads, at)
  <2>1. threads' = t /\ batch' = batch /\ at' = at /\ loop' = loop /\ posted' = posted
    BY <1>1 DEF Finish
  <2>2. threads \in Seq(Job) /\ at \in 1..Len(threads) /\ Current = threads[at]
    BY <1>1, Visited DEF TypeOK
  <2>3. /\ t \in Seq(Job) /\ Len(t) = Len(threads) - 1
        /\ \A j \in 1..(Len(threads) - 1) :
             t[j] = IF j < at THEN threads[j] ELSE threads[j + 1]
    BY <2>2, Removed
  <2>. HIDE DEF t
  <2>4. /\ Apart(t) /\ Range(t) \subseteq Range(threads)
        /\ threads[at].msg \in For(threads) /\ For(t) \subseteq For(threads) \ {threads[at].msg}
    BY <2>2, <2>3, Dropped DEF WorkOnce
  <2>5. WorkOnce' /\ WorkTypes' /\ Works' \subseteq Works
    BY <2>1, <2>3, <2>4 DEF WorkOnce, WorkTypes, TypeOK, Works
  <2>6. Current.msg \notin (For(posted) \cup For(batch) \cup For(threads))'
    BY <2>1, <2>2, <2>4 DEF WorkOnce
  <2>7. \A w \in Works' : w.msg # Current.msg
    <3>1. posted' \in Seq(Job) /\ batch' \in Seq(Job) /\ threads' \in Seq(Job)
      BY <2>5 DEF WorkTypes
    <3>2. /\ For(posted') = {w.msg : w \in Range(posted')}
          /\ For(batch') = {w.msg : w \in Range(batch')}
          /\ For(threads') = {w.msg : w \in Range(threads')}
      BY <3>1, Holds
    <3>3. QED
      BY <2>6, <3>2 DEF Works
  <2>8. QED
    BY <2>1, <2>5, <2>7 DEF TypeOK
<1>2. CASE loop # "threads"
  <2>. DEFINE b == Tail(batch)
  <2>1. batch' = b /\ threads' = threads /\ at' = at /\ loop' = loop /\ posted' = posted
    BY <1>2 DEF Finish
  <2>2. batch \in Seq(Job) /\ batch # <<>> /\ Current = batch[1]
    BY <1>2, Visited DEF TypeOK
  <2>3. /\ b \in Seq(Job) /\ Len(b) = Len(batch) - 1 /\ 1 \in 1..Len(batch)
        /\ \A j \in 1..(Len(batch) - 1) : b[j] = IF j < 1 THEN batch[j] ELSE batch[j + 1]
    BY SMTT(60), <2>2, Popped
  <2>. HIDE DEF b
  <2>4. /\ Apart(b) /\ Range(b) \subseteq Range(batch)
        /\ batch[1].msg \in For(batch) /\ For(b) \subseteq For(batch) \ {batch[1].msg}
    BY <2>2, <2>3, Dropped DEF WorkOnce
  <2>5. WorkOnce' /\ WorkTypes' /\ Works' \subseteq Works
    BY <2>1, <2>3, <2>4 DEF WorkOnce, WorkTypes, TypeOK, Works
  <2>6. Current.msg \notin (For(posted) \cup For(batch) \cup For(threads))'
    BY <2>1, <2>2, <2>4 DEF WorkOnce
  <2>7. \A w \in Works' : w.msg # Current.msg
    <3>1. posted' \in Seq(Job) /\ batch' \in Seq(Job) /\ threads' \in Seq(Job)
      BY <2>5 DEF WorkTypes
    <3>2. /\ For(posted') = {w.msg : w \in Range(posted')}
          /\ For(batch') = {w.msg : w \in Range(batch')}
          /\ For(threads') = {w.msg : w \in Range(threads')}
      BY <3>1, Holds
    <3>3. QED
      BY <2>6, <3>2 DEF Works
  <2>8. QED
    BY <2>1, <2>5, <2>7 DEF TypeOK
<1>3. QED
  BY <1>1, <1>2

-----------------------------------------------------------------------------
(* What no step undoes.                                                    *)

\* A packet of message k may go to d: k has something to write, and nobody before
\* it has.
MayWrite(k, d) ==
  /\ k \in Messages => left[k] # 0
  /\ \A m \in Messages : Dest(m) = d /\ m < k => left[m] = 0

\* Messages stay what they are, what has nothing left stays so, packets stay on the
\* wire and new ones are of messages whose turn it is.
Later ==
  /\ Len(msgs') \in {Len(msgs), Len(msgs) + 1}
  /\ \A m \in Messages : msgs'[m] = msgs[m] /\ (left[m] = 0 => left'[m] = 0)
  /\ \A d \in Dests : lastPacketConsumed(d) <= lastPacketConsumed(d)'
  /\ \A d \in Dests : \A i \in DOMAIN wire[d] : i \in DOMAIN wire'[d] /\ wire'[d][i] = wire[d][i]
  /\ \A d \in Dests : \A i \in DOMAIN wire'[d] : i \notin DOMAIN wire[d] =>
       /\ wire'[d][i].msg \in 1..Len(msgs') /\ msgs'[wire'[d][i].msg].dest = d
       /\ MayWrite(wire'[d][i].msg, d)

\* The messages are numbered from 1.
LEMMA Numbers ==
  ASSUME TypeOK
  PROVE  /\ Messages = 1..Len(msgs) /\ Len(msgs) \in Nat
         /\ \A m \in Messages : /\ m \in Nat /\ msgs[m] \in Message /\ left[m] \in Nat
                                /\ Dest(m) \in Dests /\ Kind(m) \in AllKinds
<1>1. Messages = 1..Len(msgs) /\ Len(msgs) \in Nat
  BY SMTT(60) DEF TypeOK, Messages
<1>2. ASSUME NEW m \in Messages PROVE m \in Nat /\ msgs[m] \in Message /\ left[m] \in Nat
  BY SMTT(60), <1>1 DEF TypeOK
<1>3. QED
  BY <1>1, <1>2 DEF Message, Dest, Kind

\* One queue for each destination.
LEMMA Rows ==
  ASSUME NEW S, NEW F \in [Dests -> Seq(S)]
  PROVE  \A d \in Dests : F[d] \in Seq(S) /\ Len(F[d]) \in Nat
<1>1. \A d \in Dests : F[d] \in Seq(S)
  OBVIOUS
<1>2. QED
  BY SMTT(60), <1>1

\* Packets have numbers.
LEMMA Letters ==
  ASSUME NEW W \in [Dests -> Seq(Letter)], NEW d \in Dests
  PROVE  /\ DOMAIN W[d] = 1..Len(W[d]) /\ Len(W[d]) \in Nat
         /\ \A i \in DOMAIN W[d] : W[d][i] \in Letter /\ W[d][i].msg \in Nat /\ W[d][i].seq \in Nat
<1>1. W[d] \in Seq(Letter)
  OBVIOUS
<1>2. \A i \in DOMAIN W[d] : W[d][i] \in Letter
  BY SMTT(60), <1>1
<1>3. QED
  BY SMTT(60), <1>1, <1>2 DEF Letter

\* Numbers of packets are integers.
LEMMA Counts ==
  ASSUME NEW Q \in [Dests -> Seq(Packet)], NEW D \in [Dests -> Seq(Packet)], NEW d \in Dests
  PROVE  Len(D[d]) - 1 \in Int /\ Len(D[d]) + Len(Q[d]) \in Nat
<1>1. PICK a \in Nat, b \in Nat : a = Len(D[d]) /\ b = Len(Q[d])
  BY Rows
<1>2. a - 1 \in Int /\ a + b \in Nat
  BY SMTT(60)
<1>3. QED
  BY <1>1, <1>2

LEMMA CountsNow ==
  ASSUME TypeOK
  PROVE  \A d \in Dests : lastPacketConsumed(d) \in Int /\ NextSeq(d) \in Nat
  BY Counts DEF TypeOK, lastPacketConsumed, NextSeq

LEMMA CountsThen ==
  ASSUME TypeOK'
  PROVE  \A d \in Dests : lastPacketConsumed(d)' \in Int /\ NextSeq(d)' \in Nat
  BY Counts DEF TypeOK, lastPacketConsumed, NextSeq

\* What was settled before a message stays settled.
LEMMA SettledStays ==
  ASSUME TypeOK, TypeOK', Wires, Later, NEW m \in Messages, SettledBefore(m)
  PROVE  SettledBefore(m)'
<1>. PICK d \in Dests : d = Dest(m)
  BY Numbers
<1>1. Len(msgs) \in Nat /\ Messages = 1..Len(msgs) /\ m \in Nat
  BY Numbers
<1>2. Dest(m)' = d
  BY DEF Later, Dest
<1>3. ASSUME NEW i \in 1..(m - 1), Dest(i)' = d PROVE left'[i] = 0
  <2>1. i \in Messages
    BY SMTT(60), <1>1
  <2>2. Dest(i) = d
    BY <1>3, <2>1 DEF Later, Dest
  <2>3. left[i] = 0
    BY <2>2 DEF SettledBefore
  <2>4. QED
    BY <2>1, <2>3 DEF Later
<1>4. lastPacketConsumed(d) <= lastPacketConsumed(d)'
      /\ lastPacketConsumed(d) \in Int /\ lastPacketConsumed(d)' \in Int
  BY CountsNow, CountsThen DEF Later
<1>5. ASSUME NEW i \in DOMAIN wire'[d], wire'[d][i].msg < m
      PROVE  wire'[d][i].seq <= lastPacketConsumed(d)'
  <2>1. CASE i \in DOMAIN wire[d]
    <3>1. wire'[d][i] = wire[d][i] /\ wire'[d][i].seq \in Nat
      BY <2>1, Letters DEF Later, TypeOK
    <3>2. wire[d][i].seq <= lastPacketConsumed(d)
      BY <1>5, <2>1, <3>1 DEF SettledBefore
    <3>3. QED
      BY SMTT(60), <1>4, <3>1, <3>2
  <2>2. CASE i \notin DOMAIN wire[d]
    <3>. DEFINE k == wire'[d][i].msg
    <3>1. k \in 1..Len(msgs') /\ msgs'[k].dest = d /\ MayWrite(k, d)
      BY <1>1, <2>2 DEF Later
    <3>. HIDE DEF k
    <3>2. k \in Messages /\ k \in 1..(m - 1)
      BY SMTT(60), <1>1, <1>5, <3>1 DEF k, Later
    <3>3. Dest(k) = d /\ left[k] # 0
      BY <3>1, <3>2 DEF Later, MayWrite, Dest
    <3>4. QED
      BY <3>2, <3>3 DEF SettledBefore
  <2>3. QED
    BY <2>1, <2>2
<1>6. QED
  BY <1>2, <1>3, <1>5 DEF SettledBefore

\* The order of the packets is kept.
LEMMA OrderStays ==
  ASSUME TypeOK, TypeOK', Wires, Later, PostOrder
  PROVE  PostOrder'
<1>. SUFFICES ASSUME NEW d \in Dests, NEW i \in DOMAIN wire'[d], NEW m \in Messages',
                     Dest(m)' = d, m < wire'[d][i].msg
              PROVE  left'[m] = 0
  BY DEF PostOrder
<1>. DEFINE k == wire'[d][i].msg
<1>1. /\ Len(msgs) \in Nat /\ Messages = 1..Len(msgs) /\ Messages' = 1..Len(msgs')
  BY SMTT(60), Numbers DEF TypeOK, Messages
<1>2. k \in Nat /\ m \in Nat /\ m < k
  <2>1. wire' \in [Dests -> Seq(Letter)]
    BY DEF TypeOK
  <2>2. k \in Nat
    BY <2>1, Letters
  <2>3. m \in Nat
    BY SMTT(60), <1>1
  <2>4. QED
    BY <2>2, <2>3
<1>3. CASE i \in DOMAIN wire[d]
  <2>1. k = wire[d][i].msg /\ k \in Messages
    <3>1. wire'[d][i] = wire[d][i]
      BY <1>3 DEF Later
    <3>2. wire[d][i].msg \in Messages
      BY <1>3 DEF Wires
    <3>3. QED
      BY <3>1, <3>2
  <2>2. m \in Messages
    BY SMTT(60), <1>1, <1>2, <2>1
  <2>3. Dest(m) = d
    BY <2>2 DEF Later, Dest
  <2>4. left[m] = 0
    BY <1>3, <2>1, <2>2, <2>3 DEF PostOrder
  <2>5. QED
    BY <2>2, <2>4 DEF Later
<1>4. CASE i \notin DOMAIN wire[d]
  <2>1. k \in 1..Len(msgs') /\ MayWrite(k, d)
    BY <1>4 DEF Later
  <2>2. m \in Messages
    BY SMTT(60), <1>1, <1>2, <2>1 DEF Later
  <2>3. Dest(m) = d
    BY <2>2 DEF Later, Dest
  <2>4. left[m] = 0
    BY <2>1, <2>2, <2>3 DEF MayWrite
  <2>5. QED
    BY <2>2, <2>4 DEF Later
<1>5. QED
  BY <1>3, <1>4

\* A packet of a put by request stays on the wire.
LEMMA RequestStays ==
  ASSUME IInv, Later, NEW x \in Messages, Kind(x) = "roput", left[x] = 0
  PROVE  \E i \in DOMAIN wire'[Dest(x)] : wire'[Dest(x)][i].msg = x
<1>1. Dest(x) \in Dests
  BY Numbers DEF IInv
<1>2. PICK i \in DOMAIN wire[Dest(x)] : wire[Dest(x)][i].msg = x
  BY DEF IInv, Remaining
<1>3. QED
  BY <1>1, <1>2 DEF Later

\* A packet that was written stays written.
LEMMA SentStays ==
  ASSUME TypeOK, Later, NEW m \in Messages, NEW s, Sent(m, s)
  PROVE  Sent(m, s)'
<1>1. Dest(m) \in Dests /\ Dest(m)' = Dest(m)
  BY Numbers DEF Later, Dest
<1>2. QED
  BY SMTT(60), <1>1 DEF Sent, Later

\* So does a packet that was consumed.
LEMMA ConsumedStays ==
  ASSUME TypeOK, TypeOK', Later, NEW m \in Messages, Sent(m, lastPacketConsumed(Dest(m)))
  PROVE  Sent(m, lastPacketConsumed(Dest(m)))'
<1>. PICK d \in Dests : d = Dest(m)
  BY Numbers
<1>1. Dest(m)' = d
  BY DEF Later, Dest
<1>2. PICK i \in DOMAIN wire[d] : wire[d][i].msg = m /\ wire[d][i].seq <= lastPacketConsumed(d)
  BY DEF Sent
<1>3. i \in DOMAIN wire'[d] /\ wire'[d][i] = wire[d][i] /\ wire'[d][i].seq \in Nat
  BY Letters DEF Later, TypeOK
<1>4. /\ lastPacketConsumed(d) <= lastPacketConsumed(d)'
      /\ lastPacketConsumed(d) \in Int /\ lastPacketConsumed(d)' \in Int
  BY CountsNow, CountsThen DEF Later
<1>5. wire'[d][i].seq <= lastPacketConsumed(d)'
  BY SMTT(60), <1>2, <1>3, <1>4
<1>6. QED
  BY <1>1, <1>2, <1>3, <1>5 DEF Sent, lastPacketConsumed

\* What a fence or a copy relies on, and a remote completion, after a step that
\* calls nobody and finishes nothing.
LEMMA PromisesStay ==
  ASSUME IInv, TypeOK', Later,
         \A m \in Messages' : Touched(m)' => m \in Messages /\ Touched(m),
         Range(called)' = Range(called)
  PROVE  Settled' /\ PostOrder' /\ RemoteCompletion'
<1>1. Settled'
  <2>. SUFFICES ASSUME NEW m \in Messages', Touched(m)' PROVE SettledBefore(m)'
    BY DEF Settled
  <2>1. m \in Messages /\ SettledBefore(m)
    BY DEF IInv, Settled
  <2>2. QED
    BY <2>1, SettledStays DEF IInv
<1>2. PostOrder'
  BY OrderStays DEF IInv
<1>3. RemoteCompletion'
  <2>. SUFFICES ASSUME NEW m \in Messages', Kind(m)' = "roput", m \in Range(called)'
                PROVE  Sent(m, lastPacketConsumed(Dest(m)))'
    BY DEF RemoteCompletion, Sent
  <2>1. m \in Messages
    BY DEF IInv, Called
  <2>2. Kind(m) = "roput"
    BY <2>1 DEF Later, Kind
  <2>3. Sent(m, lastPacketConsumed(Dest(m)))
    BY <2>1, <2>2 DEF IInv, RemoteCompletion, Sent
  <2>4. QED
    BY <2>1, <2>3, ConsumedStays DEF IInv
<1>4. QED
  BY <1>1, <1>2, <1>3

\* Steps that only move packets or work: messages and send queues stay.
LEMMA StepElsewhere ==
  ASSUME IInv, TypeOK', Later, Wires', WorkOnce', Works' \subseteq Works, CompQueue',
         UNCHANGED <<msgs, left, done, sendq, wire, called>>,
         writing' = "post" <=> writing = "post"
  PROVE  IInv'
<1>1. SendQueues'
  BY DEF IInv, SendQueues, Messages, Dest
<1>2. Remaining'
  BY DEF IInv, Remaining, Waits, Messages, Dest, Kind
<1>3. Posting'
  BY DEF IInv, Posting, Dest, Kind
<1>4. WorkIs'
  <2>. SUFFICES ASSUME NEW w \in Works' PROVE
         /\ w.msg \in Messages
         /\ w.type = "message" => w = MsgWork(w.msg) /\ Leads(w.msg) /\ w.msg \notin done
         /\ w.type = "completion" => /\ Kind(w.msg) = "roput" /\ left[w.msg] = 0
                                     /\ ~Waits(w.msg) /\ w.msg \notin Range(called)
                                     /\ Sent(w.msg, w.sequence)
    BY DEF WorkIs, Messages, MsgWork, Leads, Kind, Dest, Waits, Sent
  <2>1. QED
    BY DEF IInv, WorkIs
<1>5. Called'
  BY DEF IInv, Called, Waits, Messages, Dest, Kind
<1>6. CallbackOrder'
  BY DEF IInv, CallbackOrder, Dest, Kind
<1>7. Settled' /\ PostOrder' /\ RemoteCompletion'
  BY PromisesStay DEF Touched, Messages, Kind
<1>8. QED
  BY <1>1, <1>2, <1>3, <1>4, <1>5, <1>6, <1>7 DEF IInv

-----------------------------------------------------------------------------
(* The steps of the fifos and of the loops.                                *)

\* producePacket: one more packet in the fifo.
LEMMA Accepted ==
  ASSUME TypeOK, NEW d \in Dests, NEW p \in Others \cup {Self}, Accept(p, d)
  PROVE  /\ queue' \in [Dests -> Seq(Packet)] /\ delivered' = delivered
         /\ \A e \in Dests : e # d => NextSeq(e)' = NextSeq(e)
         /\ NextSeq(d)' = NextSeq(d) + 1
<1>. DEFINE x == [src |-> p, seq |-> NextSeq(d)]
<1>1. queue[d] \in Seq(Packet) /\ delivered[d] \in Seq(Packet)
  BY Rows DEF TypeOK
<1>2. x \in Packet
  BY CountsNow DEF Packet
<1>3. queue' = [queue EXCEPT ![d] = Append(queue[d], x)] /\ delivered' = delivered
  BY DEF Accept, NextSeq
<1>. HIDE DEF x
<1>4. Append(queue[d], x) \in Seq(Packet) /\ Len(Append(queue[d], x)) = Len(queue[d]) + 1
  BY SMTT(60), <1>1, <1>2
<1>5. queue' \in [Dests -> Seq(Packet)]
  BY <1>3, <1>4 DEF TypeOK
<1>6. \A e \in Dests : e # d => queue'[e] = queue[e]
  BY <1>3 DEF TypeOK
<1>7. NextSeq(d)' = NextSeq(d) + 1
  <2>1. PICK a \in Nat, b \in Nat : a = Len(delivered[d]) /\ b = Len(queue[d])
    BY SMTT(60), <1>1
  <2>2. Len(queue'[d]) = b + 1
    BY <1>3, <1>4, <2>1 DEF TypeOK
  <2>3. a + (b + 1) = (a + b) + 1
    BY SMTT(60)
  <2>4. QED
    BY <1>3, <2>1, <2>2, <2>3 DEF NextSeq
<1>8. QED
  BY <1>3, <1>5, <1>6, <1>7 DEF NextSeq

\* The destination reads a packet.
LEMMA Read ==
  ASSUME TypeOK, NEW d \in Dests, Consume(d)
  PROVE  /\ queue' \in [Dests -> Seq(Packet)] /\ delivered' \in [Dests -> Seq(Packet)]
         /\ \A e \in Dests : /\ NextSeq(e)' = NextSeq(e)
                             /\ lastPacketConsumed(e) <= lastPacketConsumed(e)'
<1>1. queue[d] \in Seq(Packet) /\ queue[d] # <<>> /\ delivered[d] \in Seq(Packet)
  BY DEF Consume, TypeOK
<1>. DEFINE t == Tail(queue[d])
            h == Head(queue[d])
            a == Append(delivered[d], h)
<1>2. t \in Seq(Packet) /\ Len(t) = Len(queue[d]) - 1 /\ h \in Packet
  BY SMTT(60), <1>1, Popped, InRange
<1>3. a \in Seq(Packet) /\ Len(a) = Len(delivered[d]) + 1
  <2>. HIDE DEF h
  <2>1. QED
    BY SMTT(60), <1>1, <1>2
<1>4. queue' = [queue EXCEPT ![d] = t] /\ delivered' = [delivered EXCEPT ![d] = a]
  BY DEF Consume
<1>. HIDE DEF t, h, a
<1>5. queue' \in [Dests -> Seq(Packet)] /\ delivered' \in [Dests -> Seq(Packet)]
  BY <1>2, <1>3, <1>4 DEF TypeOK
<1>6. \A e \in Dests : e # d => queue'[e] = queue[e] /\ delivered'[e] = delivered[e]
  BY <1>4 DEF TypeOK
<1>7. queue'[d] = t /\ delivered'[d] = a
  BY <1>4 DEF TypeOK
<1>8. NextSeq(d)' = NextSeq(d) /\ lastPacketConsumed(d) <= lastPacketConsumed(d)'
  <2>1. PICK x \in Nat, y \in Nat : x = Len(delivered[d]) /\ y = Len(queue[d])
    BY SMTT(60), <1>1
  <2>2. Len(queue'[d]) = y - 1 /\ Len(delivered'[d]) = x + 1
    BY <1>2, <1>3, <1>7, <2>1
  <2>3. (x + 1) + (y - 1) = x + y /\ x - 1 <= (x + 1) - 1
    BY SMTT(60)
  <2>4. QED
    BY <2>1, <2>2, <2>3 DEF NextSeq, lastPacketConsumed
<1>9. QED
  <2>1. \A e \in Dests : lastPacketConsumed(e) <= lastPacketConsumed(e)
    BY SMTT(60), CountsNow
  <2>2. QED
    BY <1>5, <1>6, <1>8, <2>1 DEF NextSeq, lastPacketConsumed

\* Packets of others, and packets that are read, disturb nothing.
LEMMA StepFifo ==
  ASSUME IInv, NEW d \in Dests,
         Consume(d) \/ \E p \in Others : OtherProduces(p, d)
  PROVE  IInv'
<1>1. UNCHANGED <<queues, msgs, left, done, sendq, compq, nxtmsg, writing, wire, called>>
  BY DEF Consume, OtherProduces
<1>2. /\ queue' \in [Dests -> Seq(Packet)] /\ delivered' \in [Dests -> Seq(Packet)]
      /\ \A e \in Dests : /\ NextSeq(e) <= NextSeq(e)'
                          /\ lastPacketConsumed(e) <= lastPacketConsumed(e)'
  <2>1. \A e \in Dests : NextSeq(e) \in Nat /\ lastPacketConsumed(e) \in Int
    BY CountsNow DEF IInv
  <2>2. CASE Consume(d)
    BY SMTT(60), <2>1, <2>2, Read DEF IInv
  <2>3. ASSUME NEW p \in Others, OtherProduces(p, d)
        PROVE  /\ queue' \in [Dests -> Seq(Packet)] /\ delivered' = delivered
               /\ \A e \in Dests : NextSeq(e)' = NextSeq(e) \/ NextSeq(e)' = NextSeq(e) + 1
    BY <2>3, Accepted DEF OtherProduces, IInv
  <2>4. CASE \E p \in Others : OtherProduces(p, d)
    <3>1. /\ queue' \in [Dests -> Seq(Packet)] /\ delivered' = delivered
          /\ \A e \in Dests : NextSeq(e)' = NextSeq(e) \/ NextSeq(e)' = NextSeq(e) + 1
      BY <2>3, <2>4
    <3>2. \A e \in Dests : NextSeq(e) <= NextSeq(e)'
      BY SMTT(60), <2>1, <3>1
    <3>3. \A e \in Dests : lastPacketConsumed(e)' = lastPacketConsumed(e)
      BY <3>1 DEF lastPacketConsumed
    <3>4. \A e \in Dests : lastPacketConsumed(e) <= lastPacketConsumed(e)'
      BY SMTT(60), <2>1, <3>3
    <3>5. delivered' \in [Dests -> Seq(Packet)]
      BY <3>1 DEF IInv, TypeOK
    <3>6. QED
      BY <3>1, <3>2, <3>4, <3>5
  <2>5. QED
    BY <2>2, <2>4
<1>3. TypeOK'
  BY <1>1, <1>2 DEF IInv, TypeOK, queues, Messages
<1>4. Later
  BY <1>1, <1>2 DEF Later
<1>5. Wires'
  <2>. SUFFICES ASSUME NEW e \in Dests, NEW i \in DOMAIN wire[e]
                PROVE  /\ wire[e][i].msg \in Messages /\ Dest(wire[e][i].msg) = e
                       /\ wire[e][i].seq < NextSeq(e)'
                       /\ \A j \in DOMAIN wire[e] : i < j => wire[e][i].seq < wire[e][j].seq
    BY <1>1 DEF Wires, Messages, Dest
  <2>1. wire[e][i].seq \in Nat
    BY Letters DEF IInv, TypeOK
  <2>2. NextSeq(e) \in Nat /\ NextSeq(e)' \in Nat /\ NextSeq(e) <= NextSeq(e)'
    BY <1>2, <1>3, CountsNow, CountsThen DEF IInv
  <2>3. wire[e][i].seq < NextSeq(e)
    BY DEF IInv, Wires
  <2>4. wire[e][i].seq < NextSeq(e)'
    BY SMTT(60), <2>1, <2>2, <2>3
  <2>5. QED
    BY <2>4 DEF IInv, Wires
<1>6. WorkOnce' /\ Works' \subseteq Works /\ CompQueue'
  BY <1>1 DEF queues, IInv, WorkOnce, Works, CompQueue, Messages, Leads, Dest
<1>7. QED
  BY <1>1, <1>3, <1>4, <1>5, <1>6, StepElsewhere

\* The loops of advance() start and end.
LEMMA StepLoops ==
  ASSUME IInv, AdvanceStart \/ PostedStart \/ CompletionStart \/ AdvanceEnd
  PROVE  IInv'
<1>1. UNCHANGED <<fifos, msgs, left, done, sendq, compq, writing, wire, called>>
  BY DEF AdvanceStart, PostedStart, CompletionStart, AdvanceEnd
<1>2. /\ WorkTypes' /\ at' \in Nat \ {0} /\ loop' \in {"idle", "threads", "posted", "completion"}
      /\ WorkOnce' /\ Works' \subseteq Works
  <2>1. CASE PostedStart
    <3>1. posted' = <<>> /\ batch' = posted /\ threads' = threads /\ at' = at /\ loop' = "posted"
      BY <2>1 DEF PostedStart, PostedBegin
    <3>2. For(<<>>) = {} /\ Apart(<<>>) /\ Range(<<>>) = {}
      BY SMTT(60) DEF For, Apart, Range
    <3>3. WorkOnce'
      BY <3>1, <3>2 DEF IInv, WorkOnce
    <3>4. QED
      BY SMTT(60), <3>1, <3>2, <3>3 DEF IInv, TypeOK, WorkTypes, Works
  <2>2. CASE AdvanceStart \/ CompletionStart \/ AdvanceEnd
    <3>1. UNCHANGED <<posted, threads, batch>> /\ at' \in {1, at}
          /\ loop' \in {"idle", "threads", "posted", "completion"}
      BY <2>2 DEF AdvanceStart, AdvanceBegin, CompletionStart, AdvanceEnd
    <3>2. WorkOnce' /\ Works' \subseteq Works
      BY <3>1 DEF IInv, WorkOnce, Works
    <3>3. QED
      BY SMTT(60), <3>1, <3>2 DEF IInv, TypeOK, WorkTypes
  <2>3. QED
    BY <2>1, <2>2
<1>3. nxtmsg' = nxtmsg \/ nxtmsg' = 0 \/ (compq # <<>> /\ nxtmsg' = Head(compq))
  BY DEF AdvanceStart, PostedStart, CompletionStart, AdvanceEnd
<1>4. compq # <<>> => Head(compq) \in Nat /\ Head(compq) \in Range(compq)
  <2>1. compq \in Seq(Nat)
    BY DEF IInv, TypeOK
  <2>2. QED
    BY SMTT(60), <2>1, Popped, InRange
<1>5. nxtmsg' \in Nat
  BY SMTT(60), <1>3, <1>4 DEF IInv, TypeOK
<1>6. CompQueue'
  <2>1. nxtmsg' # 0 => nxtmsg' \in Range(compq)
    BY <1>3, <1>4 DEF IInv, CompQueue
  <2>2. QED
    BY <1>1, <2>1 DEF IInv, CompQueue, Messages, Leads, Dest
<1>7. TypeOK'
  BY <1>1, <1>2, <1>5 DEF IInv, TypeOK, WorkTypes, fifos, Messages
<1>8. Later
  <2>1. \A d \in Dests : lastPacketConsumed(d) <= lastPacketConsumed(d)
    BY SMTT(60), CountsNow DEF IInv
  <2>2. QED
    BY <1>1, <2>1 DEF Later, fifos, lastPacketConsumed
<1>9. Wires'
  BY <1>1 DEF IInv, Wires, fifos, NextSeq, Messages, Dest
<1>10. QED
  BY <1>1, <1>2, <1>6, <1>7, <1>8, <1>9, StepElsewhere

-----------------------------------------------------------------------------
(* The work functions.                                                     *)

\* Nobody before the first of a send queue has anything left.
LEMMA Turn ==
  ASSUME IInv, writing # "post", NEW m \in Messages, Leads(m)
  PROVE  /\ Waits(m) /\ Dest(m) \in Dests
         /\ \A x \in Messages : Dest(x) = Dest(m) /\ x < m => left[x] = 0
<1>. PICK d \in Dests : d = Dest(m)
  BY Numbers DEF IInv
<1>1. sendq[d] \in Seq(Nat) /\ sendq[d] # <<>> /\ Head(sendq[d]) = m
  BY DEF IInv, TypeOK, Leads
<1>2. sendq[d][1] = m /\ 1 \in 1..Len(sendq[d]) /\ DOMAIN sendq[d] = 1..Len(sendq[d])
  BY SMTT(60), <1>1, Popped
<1>3. Waits(m)
  BY <1>1, <1>2, InRange DEF Waits
<1>4. ASSUME NEW x \in Messages, Dest(x) = d, left[x] # 0 PROVE ~(x < m)
  <2>1. x \in Range(sendq[d])
    BY <1>4 DEF IInv, Remaining, Waits
  <2>2. PICK i \in 1..Len(sendq[d]) : sendq[d][i] = x
    BY SMTT(60), <1>1, <2>1, InRange
  <2>3. i = 1 \/ 1 < i
    BY SMTT(60)
  <2>4. i # 1 => m < x
    BY SMTT(60), <1>2, <2>2, <2>3 DEF IInv, SendQueues
  <2>5. m \in Nat /\ x \in Nat
    BY Numbers DEF IInv
  <2>6. QED
    BY SMTT(60), <1>2, <2>2, <2>4, <2>5
<1>5. QED
  BY <1>3, <1>4

\* The message whose work function runs.
LEMMA AtWork ==
  ASSUME IInv, NEW m \in Messages, Executing(m)
  PROVE  /\ Leads(m) /\ m \notin done /\ writing # "post" /\ Visiting /\ Current.msg = m
         /\ Waits(m) /\ Dest(m) \in Dests
         /\ \A x \in Messages : Dest(x) = Dest(m) /\ x < m => left[x] = 0
<1>1. Visiting /\ Current = MsgWork(m) /\ writing # "post" /\ Current \in Works
  BY Visited DEF Executing, IInv
<1>2. MsgWork(m).type = "message" /\ MsgWork(m).msg = m
  BY DEF MsgWork
<1>3. Leads(m) /\ m \notin done
  BY <1>1, <1>2 DEF IInv, WorkIs
<1>4. QED
  BY <1>1, <1>2, <1>3, Turn

\* A work function returns PAMI_EAGAIN and has done nothing.
LEMMA StepKeep ==
  ASSUME IInv, Visiting, Keep,
         UNCHANGED <<posted, fifos, msgs, left, done, sendq, compq, nxtmsg, wire, called>>,
         writing' \in {"none", "thread"}, writing # "post"
  PROVE  IInv'
<1>1. /\ WorkTypes' /\ at' \in Nat \ {0} /\ loop' = loop
      /\ WorkOnce' /\ Works' \subseteq Works
  BY Kept DEF IInv
<1>2. TypeOK'
  BY <1>1 DEF IInv, TypeOK, WorkTypes, fifos, Messages
<1>3. Later
  <2>1. \A d \in Dests : lastPacketConsumed(d) <= lastPacketConsumed(d)
    BY SMTT(60), CountsNow DEF IInv
  <2>2. QED
    BY <2>1 DEF Later, fifos, lastPacketConsumed
<1>4. Wires' /\ CompQueue'
  BY DEF IInv, Wires, CompQueue, Leads, fifos, NextSeq, Messages, Dest
<1>5. QED
  BY <1>1, <1>2, <1>3, <1>4, StepElsewhere

\* A work function writes or copies, or finishes, the first message of a queue.
LEMMA StepProgress ==
  ASSUME IInv, TypeOK', Later, Wires', WorkOnce', Works' \subseteq Works,
         NEW m \in Messages, Leads(m), Waits(m), m \notin done,
         writing # "post", writing' # "post",
         UNCHANGED <<msgs, sendq, compq, nxtmsg, called>>,
         \A x \in Messages : x # m => left'[x] = left[x],
         done' = done \/ done' = done \cup {m},
         m \in done' => left'[m] = 0 /\ \A w \in Works' : w.msg # m,
         m \notin done' /\ Kind(m) # "fence" => left'[m] # 0,
         Kind(m) = "fence" => left'[m] = 0,
         Kind(m) = "roput" /\ left'[m] = 0 =>
           \E i \in DOMAIN wire'[Dest(m)] : wire'[Dest(m)][i].msg = m,
         Touched(m)' => SettledBefore(m)'
  PROVE  IInv'
<1>1. /\ Messages' = Messages
      /\ \A x : Dest(x)' = Dest(x) /\ Kind(x)' = Kind(x)
      /\ \A x : (Waits(x)' <=> Waits(x)) /\ (Leads(x)' <=> Leads(x))
  BY DEF Messages, Dest, Kind, Waits, Leads
<1>2. SendQueues'
  <2>. SUFFICES ASSUME NEW d \in Dests, NEW i \in DOMAIN sendq[d], i # 1
                PROVE  sendq[d][i] \notin done'
    BY <1>1 DEF IInv, SendQueues
  <2>1. sendq[d][i] \notin done
    BY DEF IInv, SendQueues
  <2>2. sendq[d][i] # m
    <3>1. sendq[d] \in Seq(Nat) /\ DOMAIN sendq[d] = 1..Len(sendq[d]) /\ Len(sendq[d]) \in Nat
      BY Rows, InRange DEF IInv, TypeOK
    <3>2. 1 \in DOMAIN sendq[d] /\ 1 < i
      BY SMTT(60), <3>1
    <3>3. sendq[d][1] < sendq[d][i] /\ Dest(sendq[d][i]) = d
      BY <3>2 DEF IInv, SendQueues
    <3>4. Dest(m) = d => sendq[d][1] = m
      BY SMTT(60), <3>1, Popped DEF Leads
    <3>5. sendq[d][1] \in Nat /\ sendq[d][i] \in Nat
      BY <3>1, <3>2, InRange
    <3>6. QED
      BY SMTT(60), <3>3, <3>4, <3>5
  <2>3. QED
    BY <2>1, <2>2
<1>3. Remaining'
  <2>. SUFFICES ASSUME NEW x \in Messages
                PROVE /\ left'[x] # 0 => x \notin done' /\ Waits(x)
                      /\ Waits(x) /\ x \notin done' /\ Kind(x) # "fence" => left'[x] # 0
                      /\ Kind(x) = "fence" => left'[x] = 0
                      /\ Kind(x) = "roput" /\ left'[x] = 0 =>
                           \E i \in DOMAIN wire'[Dest(x)] : wire'[Dest(x)][i].msg = x
    BY <1>1 DEF Remaining
  <2>1. CASE x = m
    BY <2>1
  <2>2. CASE x # m
    <3>1. Kind(x) = "roput" /\ left[x] = 0 =>
            \E i \in DOMAIN wire'[Dest(x)] : wire'[Dest(x)][i].msg = x
      BY RequestStays
    <3>2. QED
      BY <2>2, <3>1 DEF IInv, Remaining
  <2>3. QED
    BY <2>1, <2>2
<1>4. Posting'
  BY DEF Posting
<1>5. WorkIs'
  <2>. SUFFICES ASSUME NEW w \in Works' PROVE
         /\ w.msg \in Messages
         /\ w.type = "message" => w = MsgWork(w.msg) /\ Leads(w.msg) /\ w.msg \notin done'
         /\ w.type = "completion" => /\ Kind(w.msg) = "roput" /\ left'[w.msg] = 0
                                     /\ ~Waits(w.msg) /\ w.msg \notin Range(called)
                                     /\ Sent(w.msg, w.sequence)'
    BY <1>1 DEF WorkIs, MsgWork
  <2>1. /\ w.msg \in Messages
        /\ w.type = "message" => w = MsgWork(w.msg) /\ Leads(w.msg) /\ w.msg \notin done
        /\ w.type = "completion" => /\ Kind(w.msg) = "roput" /\ left[w.msg] = 0
                                    /\ ~Waits(w.msg) /\ w.msg \notin Range(called)
                                    /\ Sent(w.msg, w.sequence)
    BY DEF IInv, WorkIs
  <2>2. w.type = "completion" => Sent(w.msg, w.sequence)'
    BY <2>1, SentStays DEF IInv
  <2>3. QED
    BY <2>1, <2>2
<1>6. Called'
  <2>1. \A x \in Range(called) : x # m
    BY DEF IInv, Called
  <2>2. QED
    BY <1>1, <2>1 DEF IInv, Called
<1>7. CompQueue'
  BY <1>1 DEF IInv, CompQueue
<1>8. CallbackOrder'
  BY <1>1 DEF IInv, CallbackOrder
<1>9. Settled'
  <2>. SUFFICES ASSUME NEW x \in Messages, Touched(x)', x # m PROVE SettledBefore(x)'
    BY <1>1 DEF Settled
  <2>1. Touched(x)
    BY <1>1 DEF Touched
  <2>2. SettledBefore(x)
    BY <2>1 DEF IInv, Settled
  <2>3. QED
    BY <2>2, SettledStays DEF IInv
<1>10. PostOrder'
  BY OrderStays DEF IInv
<1>11. RemoteCompletion'
  <2>. SUFFICES ASSUME NEW x \in Messages, Kind(x) = "roput", x \in Range(called)
                PROVE  Sent(x, lastPacketConsumed(Dest(x)))'
    BY <1>1 DEF RemoteCompletion, Sent
  <2>1. Sent(x, lastPacketConsumed(Dest(x)))
    BY DEF IInv, RemoteCompletion, Sent
  <2>2. QED
    BY <2>1, ConsumedStays DEF IInv
<1>12. QED
  BY <1>2, <1>3, <1>4, <1>5, <1>6, <1>7, <1>8, <1>9, <1>10, <1>11 DEF IInv

\* A packet of m is written to d.
LEMMA Produced ==
  ASSUME TypeOK, NEW m \in Nat, NEW d \in Dests, Produce(m, d)
  PROVE  /\ queue' \in [Dests -> Seq(Packet)] /\ delivered' = delivered
         /\ \A e \in Dests : e # d => NextSeq(e)' = NextSeq(e)
         /\ NextSeq(d)' = NextSeq(d) + 1
         /\ wire' \in [Dests -> Seq(Letter)]
         /\ \A e \in Dests : e # d => wire'[e] = wire[e]
         /\ \E n \in Nat :
              /\ DOMAIN wire'[d] = DOMAIN wire[d] \cup {n}
              /\ \A i \in DOMAIN wire[d] : i < n /\ wire'[d][i] = wire[d][i]
              /\ wire'[d][n] = [msg |-> m, seq |-> NextSeq(d)]
<1>. DEFINE x == [msg |-> m, seq |-> NextSeq(d)]
<1>1. Accept(Self, d) /\ wire' = [wire EXCEPT ![d] = Append(wire[d], x)]
  BY DEF Produce, NextSeq
<1>2. /\ queue' \in [Dests -> Seq(Packet)] /\ delivered' = delivered
      /\ \A e \in Dests : e # d => NextSeq(e)' = NextSeq(e)
      /\ NextSeq(d)' = NextSeq(d) + 1
  BY <1>1, Accepted
<1>3. x \in Letter
  BY CountsNow DEF Letter
<1>4. wire[d] \in Seq(Letter) /\ DOMAIN wire[d] = 1..Len(wire[d]) /\ Len(wire[d]) \in Nat
  BY Letters, Rows DEF TypeOK
<1>. HIDE DEF x
<1>5. /\ Append(wire[d], x) \in Seq(Letter)
      /\ DOMAIN Append(wire[d], x) = DOMAIN wire[d] \cup {Len(wire[d]) + 1}
      /\ \A i \in DOMAIN wire[d] : Append(wire[d], x)[i] = wire[d][i]
      /\ Append(wire[d], x)[Len(wire[d]) + 1] = x
  BY SMTT(60), <1>3, <1>4, Appended
<1>6. wire' \in [Dests -> Seq(Letter)] /\ wire'[d] = Append(wire[d], x)
      /\ \A e \in Dests : e # d => wire'[e] = wire[e]
  BY <1>1, <1>5 DEF TypeOK
<1>7. PICK n \in Nat : n = Len(wire[d]) + 1 /\ \A i \in DOMAIN wire[d] : i < n
  BY SMTT(60), <1>4
<1>8. QED
  BY <1>2, <1>5, <1>6, <1>7 DEF x

\* A step that may add a message, and lets none have more to do.
Grows == /\ Len(msgs') \in {Len(msgs), Len(msgs) + 1}
         /\ \A m \in Messages : msgs'[m] = msgs[m] /\ (left[m] = 0 => left'[m] = 0)

\* The wire after a packet of m, when it is its turn.
LEMMA Written ==
  ASSUME IInv, TypeOK', Grows, NEW d \in Dests, NEW m \in Nat, Produce(m, d),
         m \in 1..Len(msgs'), msgs'[m].dest = d, MayWrite(m, d)
  PROVE  Later /\ Wires' /\ \E i \in DOMAIN wire'[d] : wire'[d][i].msg = m
<1>1. /\ delivered' = delivered
      /\ \A e \in Dests : e # d => NextSeq(e)' = NextSeq(e) /\ wire'[e] = wire[e]
      /\ NextSeq(d)' = NextSeq(d) + 1
  BY Produced DEF IInv
<1>2. PICK n \in Nat : /\ DOMAIN wire'[d] = DOMAIN wire[d] \cup {n}
                       /\ \A i \in DOMAIN wire[d] : i < n /\ wire'[d][i] = wire[d][i]
                       /\ wire'[d][n] = [msg |-> m, seq |-> NextSeq(d)]
  BY Produced DEF IInv
<1>3. wire'[d][n].msg = m /\ wire'[d][n].seq = NextSeq(d)
  BY SMTT(60), <1>2
<1>4. /\ Messages' = 1..Len(msgs') /\ Messages = 1..Len(msgs)
      /\ Len(msgs) \in Nat /\ Len(msgs') \in Nat
  BY SMTT(60) DEF IInv, TypeOK, Messages
<1>5. \A x \in Messages : x \in Messages' /\ msgs'[x].dest = Dest(x)
  BY SMTT(60), <1>4 DEF Grows, Dest
<1>6. Later
  <2>1. \A e \in Dests : lastPacketConsumed(e)' = lastPacketConsumed(e)
    BY <1>1 DEF lastPacketConsumed
  <2>2. \A e \in Dests : lastPacketConsumed(e) <= lastPacketConsumed(e)'
    BY SMTT(60), <2>1, CountsNow DEF IInv
  <2>3. ASSUME NEW e \in Dests, NEW i \in DOMAIN wire[e]
        PROVE  i \in DOMAIN wire'[e] /\ wire'[e][i] = wire[e][i]
    BY <1>1, <1>2
  <2>4. ASSUME NEW e \in Dests, NEW i \in DOMAIN wire'[e], i \notin DOMAIN wire[e]
        PROVE  wire'[e][i].msg = m /\ e = d
    BY <1>1, <1>2, <1>3, <2>4
  <2>5. QED
    BY <2>2, <2>3, <2>4 DEF Later, Grows
<1>7. Wires'
  <2>. SUFFICES ASSUME NEW e \in Dests, NEW i \in DOMAIN wire'[e]
                PROVE  /\ wire'[e][i].msg \in Messages' /\ msgs'[wire'[e][i].msg].dest = e
                       /\ wire'[e][i].seq < NextSeq(e)'
                       /\ \A j \in DOMAIN wire'[e] : i < j => wire'[e][i].seq < wire'[e][j].seq
    BY DEF Wires, Dest
  <2>1. NextSeq(e) \in Nat /\ NextSeq(d) \in Nat
    BY CountsNow DEF IInv
  <2>2. ASSUME NEW k \in DOMAIN wire[e]
        PROVE  /\ wire[e][k].msg \in Messages' /\ msgs'[wire[e][k].msg].dest = e
               /\ wire[e][k].seq < NextSeq(e) /\ wire[e][k].seq \in Nat
               /\ \A j \in DOMAIN wire[e] : k < j => wire[e][k].seq < wire[e][j].seq
    <3>1. wire[e][k].msg \in Messages /\ Dest(wire[e][k].msg) = e
      BY DEF IInv, Wires
    <3>2. /\ wire[e][k].seq < NextSeq(e)
          /\ \A j \in DOMAIN wire[e] : k < j => wire[e][k].seq < wire[e][j].seq
      BY DEF IInv, Wires
    <3>3. wire[e][k].seq \in Nat
      BY Letters DEF IInv, TypeOK
    <3>4. QED
      BY <1>5, <3>1, <3>2, <3>3
  <2>3. CASE e # d
    <3>1. wire'[e] = wire[e] /\ NextSeq(e)' = NextSeq(e)
      BY <1>1, <2>3
    <3>2. QED
      BY <2>2, <3>1
  <2>4. CASE e = d /\ i = n
    <3>1. \A j \in DOMAIN wire'[e] : ~(n < j)
      <4>1. \A j \in DOMAIN wire[d] : j \in Nat
        <5>1. DOMAIN wire[d] = 1..Len(wire[d])
          BY Letters DEF IInv, TypeOK
        <5>2. QED
          BY SMTT(60), <5>1
      <4>2. \A j \in DOMAIN wire'[d] : j = n \/ (j \in Nat /\ j < n)
        BY <1>2, <4>1
      <4>3. QED
        BY SMTT(60), <2>4, <4>2
    <3>2. m \in Messages' /\ msgs'[m].dest = d
      BY <1>4 DEF Dest
    <3>3. NextSeq(d) < NextSeq(d)'
      BY SMTT(60), <1>1, <2>1
    <3>4. QED
      BY <1>3, <2>4, <3>1, <3>2, <3>3
  <2>5. CASE e = d /\ i # n
    <3>1. i \in DOMAIN wire[d] /\ wire'[d][i] = wire[d][i]
      BY <1>2, <2>5
    <3>2. wire[d][i].seq < NextSeq(d) /\ wire[d][i].seq \in Nat /\ wire[d][i].seq < NextSeq(d)'
      BY SMTT(60), <1>1, <2>1, <2>2, <2>5, <3>1
    <3>3. ASSUME NEW j \in DOMAIN wire'[d], i < j PROVE wire[d][i].seq < wire'[d][j].seq
      <4>1. CASE j = n
        BY <1>3, <3>2, <4>1
      <4>2. CASE j # n
        <5>1. j \in DOMAIN wire[d] /\ wire'[d][j] = wire[d][j]
          BY <1>2, <4>2
        <5>2. QED
          BY <2>2, <2>5, <3>1, <3>3, <5>1
      <4>3. QED
        BY <4>1, <4>2
    <3>4. wire[d][i].msg \in Messages' /\ msgs'[wire[d][i].msg].dest = d
      BY <2>2, <2>5, <3>1
    <3>5. QED
      BY <2>5, <3>1, <3>2, <3>3, <3>4
  <2>6. QED
    BY <2>3, <2>4, <2>5
<1>8. QED
  BY <1>2, <1>3, <1>6, <1>7

\* The wire when nothing is written.
LEMMA NotWritten ==
  ASSUME IInv, TypeOK', Grows, UNCHANGED <<fifos, wire>>
  PROVE  Later /\ Wires'
<1>1. /\ Messages' = 1..Len(msgs') /\ Messages = 1..Len(msgs)
      /\ Len(msgs) \in Nat /\ Len(msgs') \in Nat
  BY SMTT(60) DEF IInv, TypeOK, Messages
<1>2. \A x \in Messages : x \in Messages' /\ msgs'[x].dest = Dest(x)
  BY SMTT(60), <1>1 DEF Grows, Dest
<1>3. \A e \in Dests : /\ lastPacketConsumed(e) <= lastPacketConsumed(e)'
                       /\ NextSeq(e)' = NextSeq(e)
  <2>1. \A e \in Dests : lastPacketConsumed(e)' = lastPacketConsumed(e)
    BY DEF fifos, lastPacketConsumed
  <2>2. \A e \in Dests : lastPacketConsumed(e) <= lastPacketConsumed(e)'
    BY SMTT(60), <2>1, CountsNow DEF IInv
  <2>3. \A e \in Dests : NextSeq(e)' = NextSeq(e)
    BY DEF fifos, NextSeq
  <2>4. QED
    BY <2>2, <2>3
<1>4. Later
  BY <1>3 DEF Later, Grows
<1>5. Wires'
  <2>. SUFFICES ASSUME NEW e \in Dests, NEW i \in DOMAIN wire[e]
                PROVE  /\ wire[e][i].msg \in Messages' /\ msgs'[wire[e][i].msg].dest = e
                       /\ wire[e][i].seq < NextSeq(e)
                       /\ \A j \in DOMAIN wire[e] : i < j => wire[e][i].seq < wire[e][j].seq
    BY SMTT(60), <1>3 DEF Wires, Dest
  <2>1. wire[e][i].msg \in Messages /\ Dest(wire[e][i].msg) = e
    BY DEF IInv, Wires
  <2>2. QED
    BY <1>2, <2>1 DEF IInv, Wires
<1>6. QED
  BY <1>4, <1>5

\* The fifo object of the origin knows the newest of its packets.
LEMMA Newest ==
  ASSUME TypeOK, Wires, NEW d \in Dests
  PROVE  /\ lastPacketProduced(d) \in Int
         /\ \A i \in DOMAIN wire[d] : /\ wire[d][i].seq \in Nat
                                      /\ wire[d][i].seq <= lastPacketProduced(d)
<1>1. /\ DOMAIN wire[d] = 1..Len(wire[d]) /\ Len(wire[d]) \in Nat
      /\ \A j \in DOMAIN wire[d] : wire[d][j].seq \in Nat
  BY Letters DEF TypeOK
<1>2. CASE wire[d] = <<>>
  BY SMTT(60), <1>2 DEF lastPacketProduced
<1>3. CASE wire[d] # <<>>
  <2>. DEFINE n == Len(wire[d])
  <2>1. n \in DOMAIN wire[d] /\ \A i \in DOMAIN wire[d] : i < n \/ i = n
    BY SMTT(60), <1>1, <1>3 DEF TypeOK
  <2>2. lastPacketProduced(d) = wire[d][n].seq
    BY <1>3 DEF lastPacketProduced
  <2>. HIDE DEF n
  <2>3. \A i \in DOMAIN wire[d] : i < n => wire[d][i].seq < wire[d][n].seq
    BY <2>1 DEF Wires
  <2>4. QED
    BY SMTT(60), <1>1, <2>1, <2>2, <2>3
<1>4. QED
  BY <1>2, <1>3

\* When it knows of no active packet, every packet of the origin was consumed.
LEMMA AllRead ==
  ASSUME TypeOK, Wires, NEW d \in Dests, ~activePackets(d)
  PROVE  \A i \in DOMAIN wire[d] : wire[d][i].seq <= lastPacketConsumed(d)
<1>1. lastPacketConsumed(d) \in Int /\ lastPacketProduced(d) \in Int
  BY CountsNow, Newest
<1>2. lastPacketProduced(d) <= lastPacketConsumed(d)
  BY SMTT(60), <1>1 DEF activePackets
<1>3. QED
  BY SMTT(60), <1>1, <1>2, Newest

\* What is left of one message changes.
LEMMA LeftChanged ==
  ASSUME TypeOK, NEW m \in Messages, NEW v \in Nat, left' = [left EXCEPT ![m] = v]
  PROVE  /\ left' \in Seq(Nat) /\ Len(left') = Len(msgs) /\ left'[m] = v
         /\ \A x \in Messages : x # m => left'[x] = left[x]
<1>1. left \in Seq(Nat) /\ m \in 1..Len(left) /\ Len(left) = Len(msgs) /\ Messages = 1..Len(left)
  BY Numbers DEF TypeOK
<1>2. left' \in Seq(Nat) /\ Len(left') = Len(left) /\ \A i \in 1..Len(left) : left'[i] = IF i = m THEN v ELSE left[i]
  BY SMTT(60), <1>1
<1>3. QED
  BY <1>1, <1>2

\* PacketMessage::write
LEMMA StepWrite ==
  ASSUME IInv, NEW m \in Messages, write(m)
  PROVE  IInv'
<1>. PICK d \in Dests : d = Dest(m)
  BY Numbers DEF IInv
<1>1. /\ Leads(m) /\ m \notin done /\ writing # "post" /\ Visiting /\ Current.msg = m
      /\ Waits(m) /\ \A x \in Messages : Dest(x) = d /\ x < m => left[x] = 0
  BY AtWork DEF write
<1>2. /\ Kind(m) \in {"packet", "roput", "quiet"}
      /\ UNCHANGED <<posted, msgs, sendq, compq, nxtmsg, called>>
  BY DEF write
<1>3. CASE ~Room(d)
  <2>1. Keep /\ writing' = "none" /\ UNCHANGED <<fifos, wire, left, done>>
    BY <1>3 DEF write
  <2>2. QED
    BY <1>1, <1>2, <2>1, StepKeep
<1>4. CASE Room(d)
  <2>1. left[m] \in Nat /\ left[m] # 0 /\ m \in Nat
    BY <1>1, <1>2, Numbers DEF IInv, Remaining
  <2>2. /\ Produce(m, d) /\ left' = [left EXCEPT ![m] = left[m] - 1]
        /\ IF left[m] = 1
           THEN Finish /\ done' = done \cup {m} /\ writing' = "none"
           ELSE writing' = "thread" /\ UNCHANGED <<done, threads, batch, loop, at>>
    BY <1>4 DEF write
  <2>3. PICK v \in Nat : v = left[m] - 1 /\ (v = 0 <=> left[m] = 1)
    BY SMTT(60), <2>1
  <2>4. /\ left' \in Seq(Nat) /\ Len(left') = Len(msgs) /\ left'[m] = v
        /\ \A x \in Messages : x # m => left'[x] = left[x]
    BY <2>2, <2>3, LeftChanged DEF IInv
  <2>5. /\ WorkTypes' /\ at' \in Nat \ {0} /\ loop' = loop
        /\ WorkOnce' /\ Works' \subseteq Works
        /\ v = 0 => \A w \in Works' : w.msg # m
    <3>1. CASE v = 0
      BY <1>1, <1>2, <2>2, <2>3, <3>1, Ended DEF IInv
    <3>2. CASE v # 0
      <4>1. UNCHANGED <<posted, threads, batch, loop, at>>
        BY <1>2, <2>2, <2>3, <3>2
      <4>2. WorkOnce' /\ Works' \subseteq Works
        BY <4>1 DEF IInv, WorkOnce, Works
      <4>3. QED
        BY <3>2, <4>1, <4>2 DEF IInv, TypeOK, WorkTypes
    <3>3. QED
      BY <3>1, <3>2
  <2>6. /\ queue' \in [Dests -> Seq(Packet)] /\ delivered' = delivered
        /\ wire' \in [Dests -> Seq(Letter)]
    BY <2>1, <2>2, Produced DEF IInv
  <2>7. /\ done' = done \/ done' = done \cup {m}
        /\ writing' \in {"none", "thread"} /\ (m \in done' <=> v = 0)
    BY <1>1, <2>2, <2>3
  <2>8. TypeOK'
    BY <1>2, <2>4, <2>5, <2>6, <2>7 DEF IInv, TypeOK, WorkTypes, Messages
  <2>9. Grows /\ m \in 1..Len(msgs') /\ msgs'[m].dest = d /\ MayWrite(m, d)
    <3>1. Grows
      BY <1>2, <2>1, <2>4 DEF Grows
    <3>2. MayWrite(m, d)
      BY <1>1, <2>1 DEF MayWrite
    <3>3. QED
      BY <1>2, <3>1, <3>2, Numbers DEF IInv, Dest
  <2>10. Later /\ Wires' /\ \E i \in DOMAIN wire'[d] : wire'[d][i].msg = m
    BY <2>1, <2>2, <2>8, <2>9, Written
  <2>11. ~Touched(m)'
    BY <1>2 DEF Touched, Kind
  <2>12. QED
    BY <1>1, <1>2, <2>4, <2>5, <2>7, <2>8, <2>10, <2>11, StepProgress
<1>5. QED
  BY <1>3, <1>4

\* What is settled before the first of a send queue when its packets were read.
LEMMA SettledNow ==
  ASSUME IInv, TypeOK', NEW m \in Messages, ~activePackets(Dest(m)),
         \A x \in Messages : Dest(x) = Dest(m) /\ x < m => left'[x] = 0,
         UNCHANGED <<msgs, wire, fifos>>
  PROVE  SettledBefore(m)'
<1>. PICK d \in Dests : d = Dest(m)
  BY Numbers DEF IInv
<1>1. m \in Nat /\ Messages = 1..Len(msgs) /\ Len(msgs) \in Nat
  BY Numbers DEF IInv
<1>2. \A i \in DOMAIN wire[d] : wire[d][i].seq <= lastPacketConsumed(d)
  BY AllRead DEF IInv
<1>3. \A i \in 1..(m - 1) : i \in Messages /\ i < m
  BY SMTT(60), <1>1
<1>4. lastPacketConsumed(d)' = lastPacketConsumed(d) /\ Dest(m)' = d
  BY DEF fifos, lastPacketConsumed, Dest
<1>5. \A i \in 1..(m - 1) : Dest(i)' = d => left'[i] = 0
  BY <1>3 DEF Dest
<1>6. \A i \in DOMAIN wire'[d] : wire'[d][i].seq <= lastPacketConsumed(d)'
  BY <1>2, <1>4
<1>7. QED
  BY <1>4, <1>5, <1>6 DEF SettledBefore

\* A work function that copies, or waits, for the first of a send queue when the
\* packets written before were read.
LEMMA StepTouch ==
  ASSUME IInv, NEW m \in Messages, Executing(m), Kind(m) \in {"fence", "get", "put"},
         ~activePackets(Dest(m)),
         NEW v \in Nat, left' = [left EXCEPT ![m] = v], Kind(m) = "fence" => v = 0,
         IF v = 0 THEN Finish /\ done' = done \cup {m} ELSE Keep /\ UNCHANGED done,
         UNCHANGED <<posted, fifos, msgs, sendq, compq, nxtmsg, writing, wire, called>>
  PROVE  IInv'
<1>. PICK d \in Dests : d = Dest(m)
  BY Numbers DEF IInv
<1>1. /\ Leads(m) /\ m \notin done /\ writing # "post" /\ Visiting /\ Current.msg = m
      /\ Waits(m) /\ \A x \in Messages : Dest(x) = d /\ x < m => left[x] = 0
  BY AtWork
<1>2. /\ left' \in Seq(Nat) /\ Len(left') = Len(msgs) /\ left'[m] = v
      /\ \A x \in Messages : x # m => left'[x] = left[x]
  BY LeftChanged DEF IInv
<1>3. /\ WorkTypes' /\ at' \in Nat \ {0} /\ loop' = loop
      /\ WorkOnce' /\ Works' \subseteq Works
      /\ v = 0 => \A w \in Works' : w.msg # m
  <2>1. CASE v = 0
    BY <1>1, <2>1, Ended DEF IInv
  <2>2. CASE v # 0
    BY <1>1, <2>2, Kept DEF IInv
  <2>3. QED
    BY <2>1, <2>2
<1>4. (done' = done \/ done' = done \cup {m}) /\ (m \in done' <=> v = 0)
  BY <1>1
<1>5. TypeOK'
  BY <1>2, <1>3, <1>4 DEF IInv, TypeOK, WorkTypes, Messages, fifos
<1>6. m \in Nat /\ \A x \in Messages : x \in Nat
  BY Numbers DEF IInv
<1>7. \A x \in Messages : left[x] = 0 => left'[x] = 0
  <2>1. left[m] = 0 => v = 0
    BY <1>1 DEF IInv, Remaining
  <2>2. QED
    BY <1>2, <2>1
<1>8. Grows
  BY <1>7 DEF Grows
<1>9. Later /\ Wires'
  BY <1>5, <1>8, NotWritten
<1>10. SettledBefore(m)'
  <2>1. \A x \in Messages : Dest(x) = d /\ x < m => left'[x] = 0
    BY <1>1, <1>7
  <2>2. QED
    BY <1>5, <2>1, SettledNow
<1>11. /\ m \in done' => left'[m] = 0 /\ \A w \in Works' : w.msg # m
       /\ m \notin done' /\ Kind(m) # "fence" => left'[m] # 0
       /\ Kind(m) = "fence" => left'[m] = 0
       /\ Kind(m) # "roput" /\ writing' # "post"
  BY <1>1, <1>2, <1>3, <1>4
<1>12. QED
  BY <1>1, <1>2, <1>3, <1>4, <1>5, <1>9, <1>10, <1>11, StepProgress

\* FenceMessage::advance
LEMMA StepFence ==
  ASSUME IInv, NEW m \in Messages, advance_fence(m)
  PROVE  IInv'
<1>1. /\ Executing(m) /\ Kind(m) = "fence"
      /\ UNCHANGED <<posted, fifos, msgs, left, sendq, compq, nxtmsg, writing, wire, called>>
  BY DEF advance_fence
<1>2. CASE activePackets(Dest(m))
  <2>1. Keep /\ UNCHANGED done
    BY <1>2 DEF advance_fence
  <2>2. Visiting /\ writing # "post" /\ writing' \in {"none", "thread"}
    BY <1>1 DEF Executing, IInv, TypeOK
  <2>3. QED
    BY <1>1, <2>1, <2>2, StepKeep
<1>3. CASE ~activePackets(Dest(m))
  <2>1. Finish /\ done' = done \cup {m}
    BY <1>3 DEF advance_fence
  <2>2. left' = [left EXCEPT ![m] = 0]
    <3>1. left[m] = 0 /\ left \in Seq(Nat)
      BY <1>1 DEF IInv, Remaining, TypeOK
    <3>2. QED
      BY SMTT(60), <1>1, <3>1
  <2>3. QED
    BY <1>1, <1>3, <2>1, <2>2, StepTouch
<1>4. QED
  BY <1>2, <1>3

\* DmaMessage::advance_mr_read and advance_mr_write
LEMMA StepCopy ==
  ASSUME IInv, NEW m \in Messages, advance_mr(m)
  PROVE  IInv'
<1>1. /\ Executing(m) /\ Kind(m) \in {"get", "put"}
      /\ UNCHANGED <<posted, fifos, msgs, sendq, compq, nxtmsg, writing, wire, called>>
  BY DEF advance_mr
<1>2. CASE activePackets(Dest(m))
  <2>1. Keep /\ UNCHANGED <<left, done>>
    BY <1>2 DEF advance_mr
  <2>2. Visiting /\ writing # "post" /\ writing' \in {"none", "thread"}
    BY <1>1 DEF Executing, IInv, TypeOK
  <2>3. QED
    BY <1>1, <2>1, <2>2, StepKeep
<1>3. CASE ~activePackets(Dest(m))
  <2>1. PICK copied \in 1..left[m] :
          /\ left' = [left EXCEPT ![m] = left[m] - copied]
          /\ IF copied = left[m]
             THEN Finish /\ done' = done \cup {m}
             ELSE Keep /\ UNCHANGED done
    BY <1>3 DEF advance_mr
  <2>2. left[m] \in Nat
    BY Numbers DEF IInv
  <2>3. PICK v \in Nat : v = left[m] - copied /\ (v = 0 <=> copied = left[m])
    BY SMTT(60), <2>2
  <2>4. QED
    BY <1>1, <1>3, <2>1, <2>3, StepTouch
<1>4. QED
  BY <1>2, <1>3

-----------------------------------------------------------------------------
(* Callbacks.                                                              *)

\* The callback of message m, which comes after those of its destination.
LEMMA CallbackAdded ==
  ASSUME TypeOK, CallbackOrder, Range(called) \subseteq Messages,
         NEW m \in Nat, called' = Append(called, m), m \notin Range(called),
         \A x \in Messages : msgs'[x] = msgs[x],
         \A x \in Range(called) :
           Dest(x) = msgs'[m].dest /\ Kind(x) # "roput" /\ msgs'[m].kind # "roput" => x < m
  PROVE  CallbackOrder' /\ called' \in Seq(Nat) /\ Range(called)' = Range(called) \cup {m}
<1>1. called \in Seq(Nat)
  BY DEF TypeOK
<1>2. PICK n \in Nat :
        /\ called' \in Seq(Nat) /\ n = Len(called) + 1
        /\ DOMAIN called' = DOMAIN called \cup {n} /\ n \notin DOMAIN called
        /\ \A i \in DOMAIN called : called'[i] = called[i] /\ called[i] \in Range(called)
        /\ called'[n] = m
        /\ Range(called') = Range(called) \cup {m}
  BY SMTT(60), <1>1, Appended, InRange
<1>3. \A i \in DOMAIN called : ~(n < i)
  <2>1. DOMAIN called = 1..Len(called) /\ Len(called) \in Nat
    BY SMTT(60), <1>1
  <2>2. QED
    BY SMTT(60), <1>2, <2>1
<1>4. \A i \in DOMAIN called : /\ msgs'[called'[i]].dest = Dest(called[i])
                               /\ msgs'[called'[i]].kind = Kind(called[i])
  BY <1>2 DEF Dest, Kind
<1>5. IsInjective(called')
  BY SMTT(60), <1>2 DEF CallbackOrder, IsInjective
<1>6. ASSUME NEW i \in DOMAIN called', NEW j \in DOMAIN called', i < j,
             msgs'[called'[i]].dest = msgs'[called'[j]].dest,
             msgs'[called'[j]].kind # "roput", msgs'[called'[i]].kind # "roput"
      PROVE  called'[i] < called'[j]
  <2>1. i # n
    BY SMTT(60), <1>2, <1>3, <1>6
  <2>2. CASE j = n
    BY SMTT(60), <1>2, <1>4, <1>6, <2>1, <2>2
  <2>3. CASE j # n
    BY SMTT(60), <1>2, <1>4, <1>6, <2>1, <2>3 DEF CallbackOrder
  <2>4. QED
    BY <2>2, <2>3
<1>7. QED
  BY <1>2, <1>5, <1>6 DEF CallbackOrder, Dest, Kind

\* No callback.
LEMMA CallbackKept ==
  ASSUME CallbackOrder, Range(called) \subseteq Messages, called' = called,
         \A x \in Messages : msgs'[x] = msgs[x]
  PROVE  CallbackOrder'
<1>1. \A i \in DOMAIN called : called[i] \in Messages
  BY DEF Range
<1>2. \A i \in DOMAIN called : /\ msgs'[called[i]].dest = Dest(called[i])
                               /\ msgs'[called[i]].kind = Kind(called[i])
  BY <1>1 DEF Dest, Kind
<1>3. QED
  BY SMTT(60), <1>2 DEF CallbackOrder, Dest, Kind

\* RecPacketWork::advance_with_callback
LEMMA StepCallback ==
  ASSUME IInv, NEW m \in Messages, advance_with_callback(m)
  PROVE  IInv'
<1>. PICK d \in Dests : d = Dest(m)
  BY Numbers DEF IInv
<1>1. /\ Visiting /\ writing = "none" /\ Current.type = "completion" /\ Current.msg = m
      /\ UNCHANGED <<posted, fifos, msgs, left, done, sendq, compq, nxtmsg, writing, wire>>
  BY DEF advance_with_callback
<1>2. CASE ~(Current.sequence <= lastPacketConsumed(d))
  <2>1. Keep /\ UNCHANGED called
    BY <1>2 DEF advance_with_callback
  <2>2. QED
    BY <1>1, <2>1, StepKeep
<1>3. CASE Current.sequence <= lastPacketConsumed(d)
  <2>1. Finish /\ called' = Append(called, m)
    BY <1>3 DEF advance_with_callback
  <2>2. Current \in Works
    BY <1>1, Visited DEF IInv
  <2>3. /\ Kind(m) = "roput" /\ left[m] = 0 /\ ~Waits(m) /\ m \notin Range(called)
        /\ Sent(m, Current.sequence)
    BY <1>1, <2>2 DEF IInv, WorkIs
  <2>4. /\ WorkTypes' /\ at' \in Nat \ {0} /\ loop' = loop
        /\ WorkOnce' /\ Works' \subseteq Works
        /\ \A w \in Works' : w.msg # m
    BY <1>1, <2>1, Ended DEF IInv
  <2>5. /\ CallbackOrder' /\ called' \in Seq(Nat) /\ Range(called)' = Range(called) \cup {m}
    <3>1. m \in Nat /\ Range(called) \subseteq Messages /\ msgs'[m].kind = "roput"
      BY <1>1, <2>3, Numbers DEF IInv, Called, Kind
    <3>2. QED
      BY <1>1, <2>1, <2>3, <3>1, CallbackAdded DEF IInv
  <2>6. TypeOK'
    BY <1>1, <2>4, <2>5 DEF IInv, TypeOK, WorkTypes, fifos, Messages
  <2>7. WorkIs'
    <3>. SUFFICES ASSUME NEW w \in Works' PROVE
           /\ w.msg \in Messages
           /\ w.type = "message" => w = MsgWork(w.msg) /\ Leads(w.msg) /\ w.msg \notin done
           /\ w.type = "completion" => /\ Kind(w.msg) = "roput" /\ left[w.msg] = 0
                                       /\ ~Waits(w.msg) /\ w.msg \notin Range(called)'
                                       /\ Sent(w.msg, w.sequence)
      BY <1>1 DEF WorkIs, Messages, MsgWork, Leads, Kind, Dest, Waits, Sent
    <3>1. QED
      BY <2>4, <2>5 DEF IInv, WorkIs
  <2>8. Called'
    BY <1>1, <2>3, <2>5 DEF IInv, Called, Waits, Messages, Dest, Kind
  <2>9. Sent(m, lastPacketConsumed(d))
    <3>1. PICK i \in DOMAIN wire[d] : wire[d][i].msg = m /\ wire[d][i].seq <= Current.sequence
      BY <2>3 DEF Sent
    <3>2. wire[d][i].seq \in Nat /\ lastPacketConsumed(d) \in Int
      BY Letters, CountsNow DEF IInv, TypeOK
    <3>3. Current.sequence \in Int
      <4>1. Current \in Job
        BY <2>2, Holds DEF IInv, TypeOK, Works
      <4>2. QED
        BY <4>1 DEF Job
    <3>4. wire[d][i].seq <= lastPacketConsumed(d)
      BY SMTT(60), <1>3, <3>1, <3>2, <3>3
    <3>5. QED
      BY <3>1, <3>4 DEF Sent
  <2>10. RemoteCompletion'
    <3>. SUFFICES ASSUME NEW x \in Messages, Kind(x) = "roput", x \in Range(called) \cup {m}
                  PROVE  Sent(x, lastPacketConsumed(Dest(x)))
      BY <1>1, <2>5 DEF RemoteCompletion, Sent, Messages, Kind, Dest, lastPacketConsumed, fifos
    <3>1. QED
      BY <2>9 DEF IInv, RemoteCompletion, Sent
  <2>11. Settled'
    <3>. SUFFICES ASSUME NEW x \in Messages, Touched(x)' PROVE SettledBefore(x)
      BY <1>1 DEF Settled, Messages, SettledBefore, Dest, lastPacketConsumed, fifos
    <3>1. Touched(x)
      BY <1>1, <2>3, <2>5 DEF Touched, Kind
    <3>2. QED
      BY <3>1 DEF IInv, Settled
  <2>12. SendQueues' /\ CompQueue'
    BY <1>1 DEF IInv, SendQueues, CompQueue, Messages, Dest, Leads
  <2>13. Remaining' /\ Posting'
    BY <1>1 DEF IInv, Remaining, Waits, Messages, Dest, Kind, Posting
  <2>14. Wires' /\ PostOrder'
    <3>1. Grows
      BY <1>1 DEF Grows
    <3>2. Later /\ Wires'
      BY <1>1, <2>6, <3>1, NotWritten
    <3>3. QED
      BY <2>6, <3>2, OrderStays DEF IInv
  <2>15. QED
    BY <2>4, <2>5, <2>6, <2>7, <2>8, <2>10, <2>11, <2>12, <2>13, <2>14 DEF IInv
<1>4. QED
  BY <1>2, <1>3

-----------------------------------------------------------------------------
(* Completion.                                                             *)

\* A message on one of the linked queues, the one after it, and the queue without
\* it.
LEMMA Linked ==
  ASSUME NEW q \in Seq(Nat), IsInjective(q), NEW m \in Range(q)
  PROVE  /\ After(q, m) \in Nat /\ (After(q, m) # 0 => After(q, m) \in Range(q) \ {m})
         /\ Without(q, m) \in Seq(Nat) /\ Range(Without(q, m)) = Range(q) \ {m}
         /\ IsInjective(Without(q, m))
<1>1. DOMAIN q = 1..Len(q) /\ Len(q) \in Nat
  BY SMTT(60)
<1>2. PICK p \in 1..Len(q) : p = Place(q, m) /\ q[p] = m
  <2>1. \E i \in DOMAIN q : q[i] = m
    BY DEF Range
  <2>2. QED
    BY <1>1, <2>1 DEF Place
<1>3. /\ After(q, m) \in Nat /\ (After(q, m) # 0 => After(q, m) \in Range(q) \ {m})
  <2>1. CASE p = Len(q)
    BY <1>2, <2>1 DEF After
  <2>2. CASE p # Len(q)
    <3>1. After(q, m) = q[p + 1] /\ p + 1 \in 1..Len(q)
      BY SMTT(60), <1>1, <1>2, <2>2 DEF After
    <3>2. q[p + 1] \in Nat /\ q[p + 1] # m
      BY SMTT(60), <1>1, <1>2, <3>1 DEF IsInjective
    <3>3. QED
      BY <1>1, <3>1, <3>2 DEF Range
  <2>3. QED
    BY <2>1, <2>2
<1>. DEFINE r == Without(q, m)
            from(j) == IF j < p THEN j ELSE j + 1
<1>4. /\ r \in Seq(Nat) /\ Len(r) = Len(q) - 1
      /\ \A j \in 1..(Len(q) - 1) : r[j] = IF j < p THEN q[j] ELSE q[j + 1]
  BY <1>2, Removed DEF Without
<1>. HIDE DEF r
<1>5. DOMAIN r = 1..(Len(q) - 1)
  BY SMTT(60), <1>1, <1>4
<1>6. ASSUME NEW j \in DOMAIN r PROVE from(j) \in DOMAIN q /\ r[j] = q[from(j)] /\ from(j) # p
  <2>1. r[j] = IF j < p THEN q[j] ELSE q[j + 1]
    BY <1>4, <1>5
  <2>2. from(j) \in DOMAIN q /\ from(j) # p
    BY SMTT(60), <1>1, <1>5
  <2>3. QED
    BY <2>1, <2>2
<1>7. ASSUME NEW j \in DOMAIN r, NEW k \in DOMAIN r, from(j) = from(k) PROVE j = k
  BY SMTT(60), <1>1, <1>5, <1>7
<1>8. ASSUME NEW i \in DOMAIN q, i # p PROVE \E j \in DOMAIN r : from(j) = i
  <2>. DEFINE j == IF i < p THEN i ELSE i - 1
  <2>1. j \in DOMAIN r /\ from(j) = i
    BY SMTT(60), <1>1, <1>5, <1>8
  <2>2. QED
    BY <2>1
<1>. HIDE DEF from
<1>9. IsInjective(r)
  BY <1>6, <1>7 DEF IsInjective
<1>10. Range(r) = Range(q) \ {m}
  BY SMTT(60), <1>1, <1>2, <1>6, <1>8 DEF Range, IsInjective
<1>11. QED
  BY <1>3, <1>4, <1>9, <1>10 DEF r

\* The first message leaves a send queue.
Rest(q) == Without(q, Head(q))
LEMMA FirstLeaves ==
  ASSUME NEW q \in Seq(Nat), q # <<>>,
         \A i \in DOMAIN q : \A j \in DOMAIN q : i < j => q[i] < q[j]
  PROVE  /\ Rest(q) \in Seq(Nat) /\ Head(q) \in Range(q)
         /\ Range(Rest(q)) = Range(q) \ {Head(q)}
         /\ \A j \in DOMAIN Rest(q) : /\ j \in Nat \ {0} /\ j + 1 \in DOMAIN q
                                     /\ Rest(q)[j] = q[j + 1] /\ Head(q) < Rest(q)[j]
         /\ Rest(q) # <<>> => 1 \in DOMAIN Rest(q) /\ Head(Rest(q)) = Rest(q)[1]
<1>. PICK m, r : m = Head(q) /\ r = Rest(q)
  OBVIOUS
<1>1. DOMAIN q = 1..Len(q) /\ Len(q) \in Nat /\ q[1] = m /\ 1 \in 1..Len(q) /\ m \in Range(q)
  BY Popped, InRange
<1>2. IsInjective(q)
  <2>. SUFFICES ASSUME NEW i \in DOMAIN q, NEW j \in DOMAIN q, q[i] = q[j] PROVE i = j
    BY DEF IsInjective
  <2>1. q[i] \in Nat /\ q[j] \in Nat /\ i \in Nat /\ j \in Nat
    BY SMTT(60), <1>1
  <2>2. ~(i < j) /\ ~(j < i)
    BY SMTT(60), <2>1
  <2>3. QED
    BY SMTT(60), <2>1, <2>2
<1>3. Place(q, m) = 1
  BY <1>1, <1>2 DEF Place, IsInjective
<1>4. /\ r \in Seq(Nat) /\ Len(r) = Len(q) - 1
      /\ \A j \in 1..(Len(q) - 1) : r[j] = IF j < 1 THEN q[j] ELSE q[j + 1]
  <2>1. r = Unlink(q, 1)
    BY <1>3 DEF Rest, Without
  <2>2. PICK i \in 1..Len(q) : i = 1
    BY <1>1
  <2>3. /\ Unlink(q, i) \in Seq(Nat) /\ Len(Unlink(q, i)) = Len(q) - 1
        /\ \A j \in 1..(Len(q) - 1) : Unlink(q, i)[j] = IF j < i THEN q[j] ELSE q[j + 1]
    BY SMTT(60), Removed
  <2>4. QED
    BY <2>1, <2>2, <2>3
<1>5. Range(r) = Range(q) \ {m}
  BY <1>1, <1>2, Linked DEF Rest
<1>6. DOMAIN r = 1..Len(r) /\ Len(r) \in Nat
  BY <1>4, InRange
<1>7. ASSUME NEW j \in DOMAIN r
      PROVE  j \in Nat \ {0} /\ j + 1 \in DOMAIN q /\ r[j] = q[j + 1] /\ 1 < j + 1
  BY SMTT(60), <1>1, <1>4, <1>6
<1>8. \A j \in DOMAIN r : m < r[j]
  BY <1>1, <1>7
<1>9. r # <<>> => 1 \in DOMAIN r /\ Head(r) = r[1]
  BY <1>4, <1>6, Popped
<1>10. QED
  BY <1>1, <1>4, <1>5, <1>7, <1>8, <1>9

\* r is q with the work of N, at most one, appended.
Plus(q, N, r) == (N = {} /\ r = q) \/ \E w \in N : N = {w} /\ r = Append(q, w)

\* A queue of works with at most one more.
LEMMA PerhapsAdded ==
  ASSUME NEW q \in Seq(Job), Apart(q), NEW r, NEW N \in SUBSET Job,
         \A w \in N : w.msg \notin For(q), Plus(q, N, r)
  PROVE  /\ r \in Seq(Job) /\ Apart(r) /\ Range(r) = Range(q) \cup N
         /\ For(r) = For(q) \cup {w.msg : w \in N}
<1>1. CASE N = {} /\ r = q
  BY <1>1
<1>2. CASE \E w \in N : N = {w} /\ r = Append(q, w)
  <2>1. PICK w \in Job : N = {w} /\ r = Append(q, w) /\ w.msg \notin For(q)
    BY <1>2
  <2>2. {v.msg : v \in N} = {w.msg}
    BY <2>1
  <2>3. QED
    BY SMTT(60), <2>1, <2>2, Added
<1>3. QED
  BY <1>1, <1>2 DEF Plus

\* Work for messages that have none is handed to the generic device: first that of
\* M, then that of N.
LEMMA HandedOver ==
  ASSUME TypeOK, WorkOnce, NEW M \in SUBSET Job, NEW N \in SUBSET Job, NEW p,
         Plus(posted, M, p), Plus(p, N, posted'),
         \A w \in M \cup N : \A v \in Works : v.msg # w.msg,
         \A w \in M : \A v \in N : w.msg # v.msg,
         UNCHANGED <<threads, batch>>
  PROVE  WorkTypes' /\ WorkOnce' /\ Works' = Works \cup M \cup N
<1>1. posted \in Seq(Job) /\ batch \in Seq(Job) /\ threads \in Seq(Job)
  BY DEF TypeOK
<1>2. \A w \in M \cup N : w.msg \notin For(posted) \cup For(batch) \cup For(threads)
  <2>1. /\ For(posted) = {v.msg : v \in Range(posted)}
        /\ For(batch) = {v.msg : v \in Range(batch)}
        /\ For(threads) = {v.msg : v \in Range(threads)}
    BY <1>1, Holds
  <2>2. QED
    BY <2>1 DEF Works
<1>3. /\ p \in Seq(Job) /\ Apart(p) /\ Range(p) = Range(posted) \cup M
      /\ For(p) = For(posted) \cup {w.msg : w \in M}
  <2>1. Apart(posted) /\ \A w \in M : w.msg \notin For(posted)
    BY <1>2 DEF WorkOnce
  <2>2. QED
    BY <1>1, <2>1, PerhapsAdded
<1>4. /\ posted' \in Seq(Job) /\ Apart(posted') /\ Range(posted') = Range(p) \cup N
      /\ For(posted') = For(p) \cup {w.msg : w \in N}
  <2>1. \A w \in N : w.msg \notin For(p)
    BY <1>2, <1>3
  <2>2. QED
    BY SMTT(60), <1>3, <2>1, PerhapsAdded
<1>5. WorkOnce'
  <2>1. For(posted') = For(posted) \cup {w.msg : w \in M} \cup {w.msg : w \in N}
    BY <1>3, <1>4
  <2>2. \A w \in M \cup N : w.msg \notin For(batch) /\ w.msg \notin For(threads)
    BY <1>2
  <2>3. For(posted') \cap For(batch) = {} /\ For(posted') \cap For(threads) = {}
    BY SMTT(60), <2>1, <2>2 DEF WorkOnce
  <2>4. QED
    BY <1>4, <2>3 DEF WorkOnce
<1>6. Works' = Works \cup M \cup N
  BY <1>3, <1>4 DEF Works
<1>7. QED
  BY <1>1, <1>4, <1>5, <1>6 DEF WorkTypes

\* The loop over the completion queue passes over a message that is not done.
LEMMA StepPass ==
  ASSUME IInv, Complete, nxtmsg \notin done
  PROVE  IInv'
<1>1. /\ nxtmsg' = After(compq, nxtmsg)
      /\ UNCHANGED <<queues, fifos, msgs, left, done, sendq, compq, writing, wire, called>>
  BY DEF Complete, queues
<1>2. compq \in Seq(Nat) /\ IsInjective(compq) /\ nxtmsg \in Range(compq)
  BY DEF Complete, IInv, TypeOK, CompQueue
<1>3. nxtmsg' \in Nat /\ (nxtmsg' # 0 => nxtmsg' \in Range(compq))
  BY <1>1, <1>2, Linked
<1>4. TypeOK'
  BY <1>1, <1>3 DEF IInv, TypeOK, queues, fifos, Messages
<1>5. Grows
  BY <1>1 DEF Grows
<1>6. Later /\ Wires'
  BY <1>1, <1>4, <1>5, NotWritten
<1>7. WorkOnce' /\ Works' \subseteq Works
  BY <1>1 DEF IInv, WorkOnce, Works, queues
<1>8. CompQueue'
  BY <1>1, <1>3 DEF IInv, CompQueue, Leads, Messages, Dest
<1>9. QED
  BY <1>1, <1>4, <1>6, <1>7, <1>8, StepElsewhere

\* The first message m of the send queue of d is done and leaves it; R is the rest.
Leaves(m, d, R) ==
  /\ R \in Seq(Nat) /\ Range(R) = Range(sendq[d]) \ {m}
  /\ \A j \in DOMAIN R : /\ j \in Nat \ {0} /\ j + 1 \in DOMAIN sendq[d]
                         /\ R[j] = sendq[d][j + 1] /\ m < R[j]
  /\ R # <<>> => 1 \in DOMAIN R /\ Head(R) = R[1]
  /\ sendq' = [sendq EXCEPT ![d] = R]

\* The send queues then.
LEMMA QueuesAfter ==
  ASSUME IInv, UNCHANGED <<msgs, done>>, NEW m \in Messages, Leads(m), m \in done,
         NEW d \in Dests, d = Dest(m), NEW R, Leaves(m, d, R)
  PROVE  /\ sendq' \in [Dests -> Seq(Nat)] /\ SendQueues'
         /\ \A x \in Messages : Waits(x)' <=> Waits(x) /\ x # m
         /\ \A x \in Messages : Leads(x) /\ x # m => Leads(x)'
         /\ R # <<>> => /\ Head(R) \in Messages /\ Dest(Head(R)) = d /\ Head(R) \notin done
                        /\ Waits(Head(R)) /\ Head(R) # m /\ ~Leads(Head(R)) /\ Leads(Head(R))'
<1>1. /\ sendq' \in [Dests -> Seq(Nat)] /\ sendq'[d] = R
      /\ \A e \in Dests : e # d => sendq'[e] = sendq[e]
  BY DEF IInv, TypeOK, Leaves
<1>2. \A x \in Messages : x \in Messages' /\ Dest(x)' = Dest(x) /\ Dest(x) \in Dests
  BY Numbers DEF IInv, Messages, Dest
<1>3. SendQueues'
  <2>. SUFFICES ASSUME NEW e \in Dests, NEW i \in DOMAIN sendq'[e]
                PROVE  /\ sendq'[e][i] \in Messages /\ Dest(sendq'[e][i]) = e
                       /\ i # 1 => sendq'[e][i] \notin done
                       /\ \A j \in DOMAIN sendq'[e] : i < j => sendq'[e][i] < sendq'[e][j]
    BY DEF SendQueues, Messages, Dest
  <2>1. CASE e # d
    BY <1>1, <2>1 DEF IInv, SendQueues
  <2>2. CASE e = d
    <3>1. i \in DOMAIN R /\ sendq'[e] = R
      BY <1>1, <2>2
    <3>2. i + 1 \in DOMAIN sendq[d] /\ R[i] = sendq[d][i + 1] /\ i \in Nat \ {0} /\ i + 1 # 1
      BY SMTT(60), <3>1 DEF Leaves
    <3>3. R[i] \in Messages /\ Dest(R[i]) = d /\ R[i] \notin done
      BY <3>2 DEF IInv, SendQueues
    <3>4. ASSUME NEW j \in DOMAIN R, i < j PROVE R[i] < R[j]
      <4>1. j + 1 \in DOMAIN sendq[d] /\ R[j] = sendq[d][j + 1] /\ j \in Nat
        BY DEF Leaves
      <4>2. i + 1 < j + 1
        BY SMTT(60), <3>2, <3>4, <4>1
      <4>3. QED
        BY <3>2, <4>1, <4>2 DEF IInv, SendQueues
    <3>5. QED
      BY <2>2, <3>1, <3>3, <3>4
  <2>3. QED
    BY <2>1, <2>2
<1>4. \A x \in Messages : Waits(x)' <=> Waits(x) /\ x # m
  <2>. SUFFICES ASSUME NEW x \in Messages PROVE Waits(x)' <=> Waits(x) /\ x # m
    OBVIOUS
  <2>1. PICK e \in Dests : e = Dest(x) /\ (Waits(x)' <=> x \in Range(sendq'[e]))
    BY <1>2 DEF Waits
  <2>2. QED
    BY <1>1, <2>1 DEF Waits, Leaves
<1>5. ASSUME NEW x \in Messages, Leads(x), x # m PROVE Leads(x)'
  <2>1. PICK e \in Dests : e = Dest(x) /\ Dest(x)' = e
    BY <1>2
  <2>2. e # d
    BY <1>5, <2>1 DEF Leads
  <2>3. sendq'[e] = sendq[e] /\ sendq[e] # <<>> /\ Head(sendq[e]) = x
    BY <1>1, <1>5, <2>1, <2>2 DEF Leads
  <2>4. QED
    BY <2>1, <2>3 DEF Leads
<1>6. ASSUME R # <<>>
      PROVE  /\ Head(R) \in Messages /\ Dest(Head(R)) = d /\ Head(R) \notin done
             /\ Waits(Head(R)) /\ Head(R) # m /\ ~Leads(Head(R)) /\ Leads(Head(R))'
  <2>1. PICK h \in Nat : h = Head(R) /\ h = R[1] /\ 1 \in DOMAIN R /\ h \in Range(R)
    BY SMTT(60), <1>6 DEF Leaves, Range
  <2>2. h = sendq[d][2] /\ 2 \in DOMAIN sendq[d] /\ h \in Range(sendq[d]) /\ h # m
    BY SMTT(60), <2>1 DEF Leaves
  <2>3. h \in Messages /\ Dest(h) = d /\ h \notin done
    BY SMTT(60), <2>2 DEF IInv, SendQueues
  <2>4. Waits(h) /\ ~Leads(h)
    BY <2>2, <2>3 DEF Waits, Leads
  <2>5. Leads(h)'
    BY <1>1, <1>2, <1>6, <2>1, <2>3 DEF Leads
  <2>6. QED
    BY <2>1, <2>2, <2>3, <2>4, <2>5
<1>7. QED
  BY <1>1, <1>3, <1>4, <1>5, <1>6

\* The completion queue then: the next message of the send queue joins it.
LEMMA CompletionAfter ==
  ASSUME IInv, UNCHANGED msgs, NEW m \in Range(compq), NEW R, NEW h \in Nat,
         compq' = Without(compq, m) \o (IF R # <<>> THEN <<h>> ELSE <<>>),
         nxtmsg' = After(compq, m),
         R # <<>> => h \in Messages /\ ~Leads(h) /\ Leads(h)',
         \A x \in Messages : Leads(x) /\ x # m => Leads(x)'
  PROVE  compq' \in Seq(Nat) /\ nxtmsg' \in Nat /\ CompQueue'
<1>1. compq \in Seq(Nat) /\ IsInjective(compq) /\ \A x \in Range(compq) : x \in Messages /\ Leads(x)
  BY DEF IInv, TypeOK, CompQueue
<1>2. PICK W \in Seq(Nat) : /\ W = Without(compq, m) /\ Range(W) = Range(compq) \ {m}
                            /\ IsInjective(W)
  BY <1>1, Linked
<1>3. /\ nxtmsg' \in Nat /\ (nxtmsg' # 0 => nxtmsg' \in Range(W))
  BY <1>1, <1>2, Linked
<1>4. \A x \in Range(W) : x \in Messages /\ Leads(x)'
  BY <1>1, <1>2
<1>5. Messages' = Messages
  BY DEF Messages
<1>6. CASE R = <<>>
  <2>1. compq' = W
    BY SMTT(60), <1>2, <1>6
  <2>2. QED
    BY <1>2, <1>3, <1>4, <1>5, <2>1 DEF CompQueue
<1>7. CASE R # <<>>
  <2>1. compq' = Append(W, h)
    BY SMTT(60), <1>2, <1>7
  <2>2. h \notin Range(W)
    BY <1>1, <1>2, <1>7
  <2>3. compq' \in Seq(Nat) /\ Range(compq') = Range(W) \cup {h} /\ IsInjective(compq')
    <3>1. /\ Append(W, h) \in Seq(Nat) /\ Range(Append(W, h)) = Range(W) \cup {h}
          /\ IsInjective(Append(W, h))
      BY <1>2, <2>2, AppendedOnce
    <3>2. QED
      BY <2>1, <3>1
  <2>4. QED
    BY <1>3, <1>4, <1>5, <1>7, <2>3 DEF CompQueue
<1>8. QED
  BY <1>6, <1>7

\* A message that is done leaves both queues, the next is started and the callback
\* is called.
LEMMA StepDone ==
  ASSUME IInv, Complete, nxtmsg \in done
  PROVE  IInv'
<1>1. PICK m \in Messages : m = nxtmsg /\ m \in Range(compq) /\ Leads(m) /\ m \in done
  BY DEF Complete, IInv, CompQueue
<1>. PICK d \in Dests : d = Dest(m)
  BY Numbers DEF IInv
<1>2. /\ sendq[d] \in Seq(Nat) /\ sendq[d] # <<>> /\ m = Head(sendq[d])
      /\ \A i \in DOMAIN sendq[d] : \A j \in DOMAIN sendq[d] : i < j => sendq[d][i] < sendq[d][j]
  BY <1>1 DEF IInv, TypeOK, Leads, SendQueues
<1>3. PICK R : R = Without(sendq[d], m)
  OBVIOUS
<1>4. /\ writing = "none" /\ nxtmsg' = After(compq, m)
      /\ UNCHANGED <<threads, batch, loop, at, fifos, msgs, left, done, writing, wire>>
      /\ sendq' = [sendq EXCEPT ![d] = R]
      /\ compq' = Without(compq, m) \o (IF R # <<>> THEN <<Head(R)>> ELSE <<>>)
      /\ executeCallback(m, Kind(m), IF R # <<>> THEN Append(posted, MsgWork(Head(R))) ELSE posted,
                         lastPacketProduced(d))
  BY <1>1, <1>3 DEF Complete
<1>5. Leaves(m, d, R) /\ Waits(m)
  <2>. PICK q \in Seq(Nat) : q = sendq[d]
    BY <1>2
  <2>1. R = Rest(q) /\ m = Head(q)
    BY <1>2, <1>3 DEF Rest
  <2>2. /\ Rest(q) \in Seq(Nat) /\ Head(q) \in Range(q)
        /\ Range(Rest(q)) = Range(q) \ {Head(q)}
        /\ \A j \in DOMAIN Rest(q) : /\ j \in Nat \ {0} /\ j + 1 \in DOMAIN q
                                    /\ Rest(q)[j] = q[j + 1] /\ Head(q) < Rest(q)[j]
        /\ Rest(q) # <<>> => 1 \in DOMAIN Rest(q) /\ Head(Rest(q)) = Rest(q)[1]
    BY <1>2, FirstLeaves
  <2>3. QED
    BY <1>4, <2>1, <2>2 DEF Leaves, Waits
<1>6. /\ sendq' \in [Dests -> Seq(Nat)] /\ SendQueues'
      /\ \A x \in Messages : Waits(x)' <=> Waits(x) /\ x # m
      /\ \A x \in Messages : Leads(x) /\ x # m => Leads(x)'
      /\ R # <<>> => /\ Head(R) \in Messages /\ Dest(Head(R)) = d /\ Head(R) \notin done
                     /\ Waits(Head(R)) /\ Head(R) # m /\ ~Leads(Head(R)) /\ Leads(Head(R))'
  BY <1>1, <1>4, <1>5, QueuesAfter
<1>7. left[m] = 0 /\ m \in Nat /\ m \notin Range(called)
  BY <1>1, <1>5, Numbers DEF IInv, Remaining, Called
<1>8. \A w \in Works : w.msg # m /\ (R # <<>> => w.msg # Head(R))
  <2>1. \A w \in Works : w.type \in {"message", "completion"}
    BY Holds DEF IInv, TypeOK, Works, Job
  <2>2. \A w \in Works : \/ Leads(w.msg) /\ w.msg \notin done
                         \/ ~Waits(w.msg)
    BY <2>1 DEF IInv, WorkIs
  <2>3. QED
    BY <1>1, <1>5, <1>6, <2>2
<1>. DEFINE M == IF R # <<>> THEN {MsgWork(Head(R))} ELSE {}
            N == IF Kind(m) = "roput" THEN {RecPacketWork(m, lastPacketProduced(d))} ELSE {}
            p == IF R # <<>> THEN Append(posted, MsgWork(Head(R))) ELSE posted
<1>9. WorkTypes' /\ WorkOnce' /\ Works' = Works \cup M \cup N
  <2>1. /\ M \in SUBSET Job /\ N \in SUBSET Job
        /\ \A w \in M : R # <<>> /\ w.msg = Head(R)
        /\ \A w \in N : w.msg = m
    <3>1. R # <<>> => Head(R) \in Nat
      BY <1>6, Numbers DEF IInv
    <3>2. lastPacketProduced(d) \in Int
      BY Newest DEF IInv
    <3>3. /\ R # <<>> => MsgWork(Head(R)) \in Job /\ MsgWork(Head(R)).msg = Head(R)
          /\ RecPacketWork(m, lastPacketProduced(d)) \in Job
          /\ RecPacketWork(m, lastPacketProduced(d)).msg = m
      BY <1>7, <3>1, <3>2, ItsWork, ItsPacketWork
    <3>4. QED
      BY <3>3
  <2>2. Plus(posted, M, p)
    BY DEF Plus
  <2>3. Plus(p, N, posted')
    BY <1>4 DEF Plus, executeCallback
  <2>. HIDE DEF M, N, p
  <2>5. /\ \A w \in M \cup N : \A v \in Works : v.msg # w.msg
        /\ \A w \in M : \A v \in N : w.msg # v.msg
    BY <1>6, <1>8, <2>1
  <2>6. QED
    BY <1>4, <2>1, <2>2, <2>3, <2>5, HandedOver DEF IInv
<1>10. compq' \in Seq(Nat) /\ nxtmsg' \in Nat /\ CompQueue'
  <2>1. PICK h \in Nat : R # <<>> => h = Head(R)
    BY <1>6, Numbers DEF IInv
  <2>2. QED
    BY <1>1, <1>4, <1>6, <2>1, CompletionAfter
<1>11. /\ called' \in Seq(Nat) /\ CallbackOrder'
       /\ Range(called)' = Range(called) \/ Range(called)' = Range(called) \cup {m}
       /\ m \in Range(called)' => Kind(m) # "roput"
  <2>1. CASE Kind(m) \in {"immediate", "roput", "quiet"}
    <3>1. called' = called
      BY <1>4, <2>1 DEF executeCallback
    <3>2. QED
      BY <1>4, <1>7, <3>1 DEF IInv, TypeOK, CallbackOrder, Dest, Kind
  <2>2. CASE Kind(m) \notin {"immediate", "roput", "quiet"}
    <3>1. called' = Append(called, m)
      BY <1>4, <2>2 DEF executeCallback
    <3>2. PICK k \in DOMAIN sendq[d] : sendq[d][k] = m
      BY <1>5 DEF Waits, Range
    <3>3. \A x \in Range(called) : x \in Messages /\ (Dest(x) = d /\ Kind(x) # "roput" => x < m)
      BY <3>2 DEF IInv, Called
    <3>4. QED
      BY <1>4, <1>7, <2>2, <3>1, <3>3, CallbackAdded DEF IInv, Dest
  <2>3. QED
    BY <2>1, <2>2
<1>12. TypeOK'
  BY <1>4, <1>6, <1>9, <1>10, <1>11 DEF IInv, TypeOK, WorkTypes, fifos, Messages
<1>13. Later /\ Wires'
  <2>1. Grows
    BY <1>4 DEF Grows
  <2>2. QED
    BY <1>4, <1>12, <2>1, NotWritten
<1>14. Remaining'
  <2>. SUFFICES ASSUME NEW x \in Messages PROVE
         /\ left[x] # 0 => x \notin done /\ Waits(x)'
         /\ Waits(x)' /\ x \notin done /\ Kind(x) # "fence" => left[x] # 0
         /\ Kind(x) = "fence" => left[x] = 0
         /\ Kind(x) = "roput" /\ left[x] = 0 =>
              \E i \in DOMAIN wire[Dest(x)] : wire[Dest(x)][i].msg = x
    BY <1>4 DEF Remaining, Messages, Kind, Dest
  <2>1. QED
    BY <1>4, <1>6, <1>7 DEF IInv, Remaining
<1>15. Posting'
  BY <1>4 DEF Posting
<1>16. WorkIs'
  <2>. SUFFICES ASSUME NEW w \in Works' PROVE
         /\ w.msg \in Messages
         /\ w.type = "message" => w = MsgWork(w.msg) /\ Leads(w.msg)' /\ w.msg \notin done
         /\ w.type = "completion" => /\ Kind(w.msg) = "roput" /\ left[w.msg] = 0
                                     /\ ~Waits(w.msg)' /\ w.msg \notin Range(called)'
                                     /\ Sent(w.msg, w.sequence)
    BY <1>4 DEF WorkIs, Messages, MsgWork, Kind, Sent, Dest
  <2>1. CASE w \in Works
    BY <1>6, <1>8, <1>11, <2>1 DEF IInv, WorkIs
  <2>2. CASE R # <<>> /\ w = MsgWork(Head(R))
    BY <1>6, <2>2 DEF MsgWork
  <2>3. CASE Kind(m) = "roput" /\ w = RecPacketWork(m, lastPacketProduced(d))
    <3>1. w.msg = m /\ w.type = "completion" /\ w.sequence = lastPacketProduced(d)
      BY <2>3 DEF RecPacketWork
    <3>2. Sent(m, lastPacketProduced(d))
      BY <1>7, <2>3, Newest DEF IInv, Remaining, Sent
    <3>3. QED
      BY <1>6, <1>7, <1>11, <2>3, <3>1, <3>2
  <2>4. QED
    BY <1>9, <2>1, <2>2, <2>3
<1>17. Called'
  <2>. SUFFICES ASSUME NEW x \in Range(called)' PROVE
         /\ x \in Messages /\ left[x] = 0 /\ ~Waits(x)'
         /\ Kind(x) # "roput" => \A j \in DOMAIN sendq'[Dest(x)] : x < sendq'[Dest(x)][j]
    BY <1>4 DEF Called, Messages, Kind, Dest
  <2>1. /\ sendq'[d] = R /\ \A e \in Dests : e # d => sendq'[e] = sendq[e]
    BY <1>4 DEF IInv, TypeOK
  <2>2. CASE x = m
    BY <1>5, <1>6, <1>7, <2>1, <2>2 DEF Leaves
  <2>3. CASE x \in Range(called)
    <3>1. x \in Messages /\ left[x] = 0 /\ ~Waits(x)
      BY <2>3 DEF IInv, Called
    <3>2. PICK e \in Dests : e = Dest(x)
      BY <3>1, Numbers DEF IInv
    <3>3. Kind(x) # "roput" => \A j \in DOMAIN sendq[e] : x < sendq[e][j]
      BY <2>3, <3>2 DEF IInv, Called
    <3>4. Kind(x) # "roput" => \A j \in DOMAIN sendq'[e] : x < sendq'[e][j]
      <4>1. CASE e = d
        BY <1>5, <2>1, <3>3, <4>1 DEF Leaves
      <4>2. CASE e # d
        BY <2>1, <3>3, <4>2
      <4>3. QED
        BY <4>1, <4>2
    <3>5. QED
      BY <1>6, <3>1, <3>2, <3>4
  <2>4. QED
    BY <1>11, <2>2, <2>3
<1>18. Settled'
  <2>. SUFFICES ASSUME NEW x \in Messages, Touched(x)' PROVE SettledBefore(x)'
    BY <1>4 DEF Settled, Messages
  <2>1. Touched(x)
    BY <1>1, <1>4, <1>11 DEF Touched, Kind
  <2>2. QED
    BY <1>12, <1>13, <2>1, SettledStays DEF IInv, Settled
<1>19. PostOrder'
  BY <1>12, <1>13, OrderStays DEF IInv
<1>20. RemoteCompletion'
  <2>. SUFFICES ASSUME NEW x \in Messages, Kind(x) = "roput", x \in Range(called)'
                PROVE  Sent(x, lastPacketConsumed(Dest(x)))'
    BY <1>4 DEF RemoteCompletion, Sent, Messages, Kind
  <2>1. Sent(x, lastPacketConsumed(Dest(x)))
    BY <1>11 DEF IInv, RemoteCompletion, Sent
  <2>2. QED
    BY <1>12, <1>13, <2>1, ConsumedStays DEF IInv
<1>21. QED
  BY <1>6, <1>9, <1>10, <1>11, <1>12, <1>13, <1>14, <1>15, <1>16, <1>17, <1>18, <1>19, <1>20 DEF IInv

-----------------------------------------------------------------------------
(* Posting.                                                                *)

\* Message m to d is being posted, by this call alone or by the run of packets that
\* it began: nothing but the call knows of it yet.
Fresh(m, d) ==
  /\ msgs' \in Seq(Message) /\ Len(msgs') = m /\ Len(msgs') \in {Len(msgs), Len(msgs) + 1}
  /\ left' \in Seq(Nat) /\ Len(left') = m
  /\ msgs'[m].dest = d
  /\ Messages' = Messages \cup {m}
  /\ \A x \in Messages : msgs'[x] = msgs[x] /\ (x # m => x < m /\ left'[x] = left[x])
  /\ \A x \in Messages : x # m /\ left[x] # 0 => Waits(x)
  /\ m \in Messages => left[m] # 0
  /\ m \notin done /\ m \notin Range(called) /\ m \notin Range(compq)
  /\ \A e \in Dests : m \notin Range(sendq[e])
  /\ \A w \in Works : w.msg # m
  /\ UNCHANGED <<done, nxtmsg, threads, batch, loop, at>>

\* What the queues hold are messages.
LEMMA Known ==
  ASSUME IInv
  PROVE  /\ done \subseteq Messages /\ Range(called) \subseteq Messages
         /\ Range(compq) \subseteq Messages /\ \A w \in Works : w.msg \in Messages
         /\ \A e \in Dests : \A x \in Range(sendq[e]) : x \in Messages /\ Dest(x) = e
<1>1. \A e \in Dests : \A x \in Range(sendq[e]) : x \in Messages /\ Dest(x) = e
  BY DEF IInv, SendQueues, Range
<1>2. QED
  BY <1>1 DEF IInv, TypeOK, Called, CompQueue, WorkIs

\* There is a message once one was posted.
LEMMA Posted ==
  ASSUME NEW m, NEW d, Fresh(m, d)
  PROVE  msgs' # <<>>
  BY SMTT(60) DEF Fresh, Messages

\* A call that posts a message.
LEMMA FreshNew ==
  ASSUME IInv, NEW k \in AllKinds, NEW d \in Dests, NEW n \in Nat, NEW l \in Nat,
         NewMessage(k, d, n, l)
  PROVE  /\ Fresh(New, d) /\ New \in Nat /\ New \notin Messages /\ writing = "none"
         /\ msgs'[New].kind = k /\ msgs'[New].len = n /\ left'[New] = l
<1>1. /\ writing = "none" /\ UNCHANGED <<done, nxtmsg, threads, batch, loop, at>>
      /\ msgs' = Append(msgs, [kind |-> k, dest |-> d, len |-> n])
      /\ left' = Append(left, l)
  BY DEF NewMessage
<1>2. PICK c \in Nat : /\ c = Len(msgs) /\ Messages = 1..c /\ New = c + 1
                       /\ \A x \in Messages : x \in Nat
  BY Numbers DEF IInv, New
<1>3. [kind |-> k, dest |-> d, len |-> n] \in Message /\ msgs \in Seq(Message)
  BY DEF Message, IInv, TypeOK
<1>4. left \in Seq(Nat) /\ Len(left) = c
  BY <1>2 DEF IInv, TypeOK
<1>5. /\ msgs' \in Seq(Message) /\ Len(msgs') = c + 1
      /\ \A x \in 1..c : msgs'[x] = msgs[x]
      /\ msgs'[c + 1] = [kind |-> k, dest |-> d, len |-> n]
  BY SMTT(60), <1>1, <1>2, <1>3
<1>6. /\ left' \in Seq(Nat) /\ Len(left') = c + 1
      /\ \A x \in 1..c : left'[x] = left[x]
      /\ left'[c + 1] = l
  BY SMTT(60), <1>1, <1>4
<1>7. New \notin Messages /\ \A x \in Messages : x < New
  BY SMTT(60), <1>2
<1>8. Messages' = Messages \cup {New}
  BY SMTT(60), <1>2, <1>5 DEF Messages
<1>9. \A x \in Messages : left[x] # 0 => Waits(x)
  BY <1>1 DEF IInv, Remaining
<1>10. QED
  BY SMTT(60), <1>1, <1>2, <1>5, <1>6, <1>7, <1>8, <1>9, Known DEF Fresh

\* postMultiPacket goes on with the message it is writing.
LEMMA FreshRun ==
  ASSUME IInv, writing = "post", NEW v \in Nat, left' = [left EXCEPT ![Len(msgs)] = v],
         UNCHANGED <<msgs, done, nxtmsg, threads, batch, loop, at>>
  PROVE  /\ Len(msgs) \in Messages /\ Kind(Len(msgs)) = "packet" /\ left[Len(msgs)] # 0
         /\ sendq[Dest(Len(msgs))] = <<>> /\ Dest(Len(msgs)) \in Dests
         /\ Fresh(Len(msgs), Dest(Len(msgs))) /\ left'[Len(msgs)] = v
<1>1. PICK m \in Nat : m = Len(msgs) /\ m \in Messages /\ Messages = 1..m
  <2>1. Messages = 1..Len(msgs) /\ Len(msgs) \in Nat
    BY Numbers DEF IInv
  <2>2. msgs # <<>> /\ msgs \in Seq(Message)
    BY DEF IInv, Posting, TypeOK
  <2>3. Len(msgs) # 0
    BY SMTT(60), <2>2
  <2>4. QED
    BY SMTT(60), <2>1, <2>3
<1>2. PICK d \in Dests : d = Dest(m)
  BY <1>1, Numbers DEF IInv
<1>3. Kind(m) = "packet" /\ left[m] # 0 /\ sendq[d] = <<>>
  BY <1>1, <1>2 DEF IInv, Posting
<1>4. /\ left' \in Seq(Nat) /\ Len(left') = Len(msgs) /\ left'[m] = v
      /\ \A x \in Messages : x # m => left'[x] = left[x]
  BY <1>1, LeftChanged DEF IInv
<1>5. \A x \in Messages : x # m => x < m /\ (left[x] # 0 => Waits(x))
  <2>1. \A x \in Messages : x # m => x < m
    BY SMTT(60), <1>1
  <2>2. QED
    BY <1>1, <2>1 DEF IInv, Remaining
<1>6. \A e \in Dests : m \notin Range(sendq[e])
  <2>1. m \notin Range(sendq[d])
    BY SMTT(60), <1>3 DEF Range
  <2>2. QED
    BY <1>2, <2>1, Known
<1>7. ~Leads(m)
  BY <1>2, <1>3 DEF Leads
<1>8. m \notin done /\ m \notin Range(called) /\ m \notin Range(compq)
  BY <1>1, <1>3, <1>7 DEF IInv, Remaining, Called, CompQueue
<1>9. \A w \in Works : w.msg # m
  <2>1. \A w \in Works : w.type \in {"message", "completion"}
    BY Holds DEF IInv, TypeOK, Works, Job
  <2>2. QED
    BY <1>3, <1>7, <2>1 DEF IInv, WorkIs
<1>10. msgs' \in Seq(Message) /\ Messages' = Messages \cup {m} /\ msgs'[m].dest = d
  BY <1>1, <1>2 DEF IInv, TypeOK, Messages, Dest
<1>11. QED
  BY <1>1, <1>2, <1>3, <1>4, <1>5, <1>6, <1>8, <1>9, <1>10 DEF Fresh

\* The call writes a packet of m past an empty send queue, or none.
WritesOrNot(m, d) == \/ Produce(m, d) /\ sendq[d] = <<>>
                     \/ UNCHANGED <<fifos, wire>>

\* The fifos and the wire then.
LEMMA FreshLater ==
  ASSUME IInv, NEW m \in Nat, NEW d \in Dests, Fresh(m, d), WritesOrNot(m, d),
         WorkTypes', sendq' \in [Dests -> Seq(Nat)], compq' \in Seq(Nat), called' \in Seq(Nat),
         writing' \in {"none", "post"}
  PROVE  /\ TypeOK' /\ Later /\ Wires'
         /\ Produce(m, d) /\ sendq[d] = <<>> =>
              /\ \E i \in DOMAIN wire'[d] : wire'[d][i].msg = m
              /\ \A s \in Nat : s = NextSeq(d) => Sent(m, s)'
<1>1. /\ queue' \in [Dests -> Seq(Packet)] /\ delivered' \in [Dests -> Seq(Packet)]
      /\ wire' \in [Dests -> Seq(Letter)]
  <2>1. CASE Produce(m, d)
    BY <2>1, Produced DEF IInv, TypeOK
  <2>2. CASE UNCHANGED <<fifos, wire>>
    BY <2>2 DEF IInv, TypeOK, fifos
  <2>3. QED
    BY <2>1, <2>2 DEF WritesOrNot
<1>2. TypeOK'
  <2>1. done' \subseteq Messages'
    BY DEF IInv, TypeOK, Fresh
  <2>2. Len(left') = Len(msgs') /\ left' \in Seq(Nat) /\ msgs' \in Seq(Message)
    BY DEF Fresh
  <2>3. loop' = loop /\ at' = at /\ nxtmsg' = nxtmsg
    BY DEF Fresh
  <2>4. QED
    BY <1>1, <2>1, <2>2, <2>3 DEF IInv, TypeOK, WorkTypes
<1>3. Grows
  BY DEF Grows, Fresh
<1>4. CASE Produce(m, d) /\ sendq[d] = <<>>
  <2>1. MayWrite(m, d)
    <3>1. ASSUME NEW x \in Messages, Dest(x) = d, x # m PROVE left[x] = 0
      <4>1. ~Waits(x)
        BY SMTT(60), <1>4, <3>1 DEF Waits, Range
      <4>2. QED
        BY <3>1, <4>1 DEF Fresh
    <3>2. \A x \in Messages : x \in Nat
      BY Numbers DEF IInv
    <3>3. \A x \in Messages : x < m => x # m
      BY SMTT(60), <3>2
    <3>4. QED
      BY <3>1, <3>3 DEF MayWrite, Fresh
  <2>2. m \in 1..Len(msgs') /\ msgs'[m].dest = d
    <3>1. m \in Messages' /\ msgs'[m].dest = d /\ msgs' \in Seq(Message)
      BY DEF Fresh
    <3>2. QED
      BY SMTT(60), <3>1 DEF Messages
  <2>3. Later /\ Wires' /\ \E i \in DOMAIN wire'[d] : wire'[d][i].msg = m
    BY <1>2, <1>3, <1>4, <2>1, <2>2, Written
  <2>4. NextSeq(d)' = NextSeq(d) + 1 /\ NextSeq(d) \in Nat
    BY <1>4, Produced, CountsNow DEF IInv
  <2>5. PICK i \in DOMAIN wire'[d] : wire'[d][i].msg = m
    BY <2>3
  <2>6. wire'[d][i].seq < NextSeq(d)' /\ wire'[d][i].seq \in Nat
    BY <1>1, <2>3, Letters DEF Wires
  <2>7. wire'[d][i].seq <= NextSeq(d)
    BY SMTT(60), <2>4, <2>6
  <2>8. ASSUME NEW s \in Nat, s = NextSeq(d) PROVE Sent(m, s)'
    <3>1. wire'[d][i].seq <= s
      BY <2>7, <2>8
    <3>2. QED
      BY <2>2, <2>5, <3>1 DEF Sent, Dest
  <2>9. QED
    BY <1>2, <2>3, <2>4, <2>8
<1>5. CASE UNCHANGED <<fifos, wire>> /\ ~(Produce(m, d) /\ sendq[d] = <<>>)
  BY <1>2, <1>3, <1>5, NotWritten
<1>6. QED
  BY <1>4, <1>5 DEF WritesOrNot

\* Nothing is on its way to d: all that was posted before m has arrived.
LEMMA FreshSettled ==
  ASSUME IInv, NEW m \in Nat, NEW d \in Dests, Fresh(m, d), QuietChannel(d),
         UNCHANGED <<fifos, wire>>
  PROVE  SettledBefore(m)'
<1>1. \A i \in DOMAIN wire[d] : wire[d][i].seq <= lastPacketConsumed(d)
  BY AllRead DEF IInv, QuietChannel
<1>2. ASSUME NEW i \in 1..(m - 1), Dest(i)' = d PROVE left'[i] = 0
  <2>1. i # m /\ i \in Messages
    <3>1. i < m /\ i \in 1..m
      BY SMTT(60)
    <3>2. i \in Messages'
      BY SMTT(60), <3>1 DEF Messages, Fresh
    <3>3. QED
      BY SMTT(60), <3>1, <3>2 DEF Fresh
  <2>2. Dest(i) = d /\ left'[i] = left[i] /\ (left[i] # 0 => Waits(i))
    BY <1>2, <2>1 DEF Fresh, Dest
  <2>3. ~Waits(i)
    BY SMTT(60), <2>2 DEF Waits, Range, QuietChannel, isSendQueueEmpty
  <2>4. QED
    BY <2>2, <2>3
<1>3. Dest(m)' = d /\ lastPacketConsumed(d)' = lastPacketConsumed(d) /\ wire' = wire
  BY DEF Fresh, Dest, fifos, lastPacketConsumed
<1>4. QED
  BY <1>1, <1>2, <1>3 DEF SettledBefore

\* The message does not join the send queue: all of it is written or copied, or more
\* of its packets follow.  N is the work that waits for its packet, if any.
LEMMA StepAtOnce ==
  ASSUME IInv, NEW m \in Nat, NEW d \in Dests, Fresh(m, d), WritesOrNot(m, d),
         sendq[d] = <<>>, UNCHANGED <<sendq, compq>>,
         NEW N \in SUBSET Job, WorkTypes', WorkOnce', Works' = Works \cup N,
         \A w \in N : /\ w.msg = m /\ w.type = "completion" /\ msgs'[m].kind = "roput"
                      /\ left'[m] = 0 /\ w.sequence = NextSeq(d) /\ Produce(m, d),
         called' = called \/ ( /\ called' = Append(called, m)
                               /\ left'[m] = 0 /\ msgs'[m].kind # "roput" ),
         writing' = IF left'[m] = 0 THEN "none" ELSE "post",
         left'[m] # 0 => msgs'[m].kind = "packet",
         msgs'[m].kind = "roput" => Produce(m, d),
         Touched(m)' => SettledBefore(m)'
  PROVE  IInv'
<1>1. /\ CallbackOrder' /\ called' \in Seq(Nat)
      /\ Range(called)' = Range(called)
         \/ (Range(called)' = Range(called) \cup {m} /\ left'[m] = 0 /\ msgs'[m].kind # "roput")
  <2>1. /\ Range(called) \subseteq Messages
        /\ \A x \in Messages : msgs'[x] = msgs[x]
        /\ m \notin Range(called) /\ \A x \in Range(called) : x < m
    BY Known DEF Fresh
  <2>2. CASE called' = called
    BY <2>1, <2>2, CallbackKept DEF IInv, TypeOK
  <2>3. CASE called' # called
    BY <2>1, <2>3, CallbackAdded DEF IInv
  <2>4. QED
    BY <2>2, <2>3
<1>2. /\ TypeOK' /\ Later /\ Wires'
      /\ Produce(m, d) =>
           /\ \E i \in DOMAIN wire'[d] : wire'[d][i].msg = m
           /\ \A s \in Nat : s = NextSeq(d) => Sent(m, s)'
  <2>1. /\ sendq' \in [Dests -> Seq(Nat)] /\ compq' \in Seq(Nat)
        /\ writing' \in {"none", "post"}
    BY DEF IInv, TypeOK
  <2>2. QED
    BY <1>1, <2>1, FreshLater
<1>3. /\ \A x \in Messages : /\ x \in Messages' /\ Dest(x)' = Dest(x) /\ Kind(x)' = Kind(x)
                             /\ (Waits(x)' <=> Waits(x)) /\ (Leads(x)' <=> Leads(x))
      /\ Dest(m)' = d /\ Kind(m)' = msgs'[m].kind /\ ~Waits(m)'
      /\ Messages' = Messages \cup {m} /\ done' = done /\ m \notin done
  <2>1. \A x \in Messages : x \in Messages' /\ Dest(x)' = Dest(x) /\ Kind(x)' = Kind(x)
    BY DEF Fresh, Dest, Kind
  <2>2. Dest(m)' = d /\ Kind(m)' = msgs'[m].kind
    BY DEF Fresh, Dest, Kind
  <2>3. m \notin Range(sendq'[d])
    BY DEF Fresh
  <2>4. QED
    BY <2>1, <2>2, <2>3 DEF Waits, Leads, Fresh
<1>4. SendQueues'
  <2>. SUFFICES ASSUME NEW e \in Dests, NEW i \in DOMAIN sendq'[e]
                PROVE  /\ sendq'[e][i] \in Messages' /\ msgs'[sendq'[e][i]].dest = e
                       /\ i # 1 => sendq'[e][i] \notin done'
                       /\ \A j \in DOMAIN sendq'[e] : i < j => sendq'[e][i] < sendq'[e][j]
    BY DEF SendQueues, Dest
  <2>1. /\ sendq[e][i] \in Messages /\ Dest(sendq[e][i]) = e
        /\ i # 1 => sendq[e][i] \notin done
        /\ \A j \in DOMAIN sendq[e] : i < j => sendq[e][i] < sendq[e][j]
    BY DEF IInv, SendQueues
  <2>2. QED
    BY <1>3, <2>1 DEF Dest
<1>5. Remaining'
  <2>. SUFFICES ASSUME NEW x \in Messages' PROVE
         /\ left'[x] # 0 => x \notin done' /\ (Waits(x)' \/ (writing' = "post" /\ x = Len(msgs')))
         /\ Waits(x)' /\ x \notin done' /\ Kind(x)' # "fence" => left'[x] # 0
         /\ Kind(x)' = "fence" => left'[x] = 0
         /\ Kind(x)' = "roput" /\ left'[x] = 0 =>
              \E i \in DOMAIN wire'[Dest(x)'] : wire'[Dest(x)'][i].msg = x
    BY DEF Remaining
  <2>1. CASE x = m
    BY <1>2, <1>3, <2>1 DEF Fresh
  <2>2. CASE x # m
    <3>1. x \in Messages /\ left'[x] = left[x] /\ (left[x] # 0 => Waits(x)) /\ Dest(x) \in Dests
      BY <1>3, <2>2, Numbers DEF Fresh, IInv
    <3>2. Kind(x) = "roput" /\ left[x] = 0 =>
            \E i \in DOMAIN wire'[Dest(x)] : wire'[Dest(x)][i].msg = x
      BY <1>2, <3>1, RequestStays
    <3>3. QED
      BY <1>3, <3>1, <3>2 DEF IInv, Remaining
  <2>3. QED
    BY <2>1, <2>2
<1>6. Posting'
  <2>. SUFFICES ASSUME left'[m] # 0 PROVE
         /\ msgs' # <<>> /\ Len(msgs') = m
         /\ Kind(m)' = "packet" /\ left'[m] # 0 /\ sendq'[d] = <<>>
    BY <1>3 DEF Posting
  <2>1. msgs' # <<>>
    BY Posted
  <2>2. QED
    BY <1>3, <2>1 DEF Fresh
<1>7. WorkIs'
  <2>. SUFFICES ASSUME NEW w \in Works' PROVE
         /\ w.msg \in Messages'
         /\ w.type = "message" => w = MsgWork(w.msg) /\ Leads(w.msg)' /\ w.msg \notin done'
         /\ w.type = "completion" => /\ Kind(w.msg)' = "roput" /\ left'[w.msg] = 0
                                     /\ ~Waits(w.msg)' /\ w.msg \notin Range(called)'
                                     /\ Sent(w.msg, w.sequence)'
    BY DEF WorkIs, MsgWork
  <2>1. CASE w \in Works
    <3>1. PICK x \in Messages : x = w.msg /\ x # m /\ left'[x] = left[x]
      BY <2>1, Known DEF Fresh
    <3>2. w.type = "completion" => Sent(x, w.sequence)'
      BY <1>2, <2>1, <3>1, SentStays DEF IInv, WorkIs
    <3>3. QED
      BY <1>1, <1>3, <2>1, <3>1, <3>2 DEF IInv, WorkIs
  <2>2. CASE w \in N
    <3>1. NextSeq(d) \in Nat
      BY CountsNow DEF IInv
    <3>2. Sent(m, w.sequence)'
      BY <1>2, <2>2, <3>1
    <3>3. m \notin Range(called)'
      BY <1>1, <2>2 DEF Fresh
    <3>4. QED
      BY <1>3, <2>2, <3>2, <3>3
  <2>3. QED
    BY <2>1, <2>2
<1>8. Called'
  <2>. SUFFICES ASSUME NEW x \in Range(called)' PROVE
         /\ x \in Messages' /\ left'[x] = 0 /\ ~Waits(x)'
         /\ Kind(x)' # "roput" => \A j \in DOMAIN sendq'[Dest(x)'] : x < sendq'[Dest(x)'][j]
    BY DEF Called
  <2>1. CASE x = m
    BY <1>1, <1>3, <2>1, Nothing DEF Fresh
  <2>2. CASE x # m
    <3>1. x \in Range(called) /\ x \in Messages /\ left'[x] = left[x]
      BY <1>1, <2>2, Known DEF Fresh
    <3>2. QED
      BY <1>3, <3>1 DEF IInv, Called
  <2>3. QED
    BY <2>1, <2>2
<1>9. CompQueue'
  BY <1>3 DEF IInv, CompQueue, Fresh
<1>10. Settled'
  <2>. SUFFICES ASSUME NEW x \in Messages', Touched(x)' PROVE SettledBefore(x)'
    BY DEF Settled
  <2>1. CASE x # m
    <3>1. x \in Messages /\ left'[x] = left[x] /\ msgs'[x] = msgs[x]
      BY <2>1 DEF Fresh
    <3>2. Touched(x)
      BY <1>1, <1>3, <2>1, <3>1 DEF Touched
    <3>3. QED
      BY <1>2, <3>1, <3>2, SettledStays DEF IInv, Settled
  <2>2. QED
    BY <2>1
<1>11. PostOrder'
  BY <1>2, OrderStays DEF IInv
<1>12. RemoteCompletion'
  <2>. SUFFICES ASSUME NEW x \in Messages', Kind(x)' = "roput", x \in Range(called)'
                PROVE  Sent(x, lastPacketConsumed(Dest(x)))'
    BY DEF RemoteCompletion, Sent
  <2>1. x \in Range(called) /\ x \in Messages /\ Kind(x) = "roput"
    BY <1>1, <1>3, Known
  <2>2. Sent(x, lastPacketConsumed(Dest(x)))
    BY <2>1 DEF IInv, RemoteCompletion, Sent
  <2>3. QED
    BY <1>2, <2>1, <2>2, ConsumedStays DEF IInv
<1>13. QED
  BY <1>1, <1>2, <1>4, <1>5, <1>6, <1>7, <1>8, <1>9, <1>10, <1>11, <1>12 DEF IInv

\* SendQueue::post: the message joins the send queue, and is started if it is the
\* first there.
LEMMA QueuesJoined ==
  ASSUME IInv, NEW m \in Nat, NEW d \in Dests, Fresh(m, d),
         sendq' = [sendq EXCEPT ![d] = Append(@, m)]
  PROVE  /\ sendq' \in [Dests -> Seq(Nat)] /\ SendQueues'
         /\ Waits(m)' /\ (sendq[d] = <<>> => Leads(m)')
         /\ \A x \in Messages : x # m => (Waits(x)' <=> Waits(x))
         /\ \A x \in Messages : Leads(x) => Leads(x)'
         /\ \A e \in Dests : \A j \in DOMAIN sendq'[e] :
              \/ sendq'[e][j] = m
              \/ j \in DOMAIN sendq[e] /\ sendq'[e][j] = sendq[e][j]
<1>. PICK q \in Seq(Nat) : q = sendq[d]
  BY DEF IInv, TypeOK
<1>. PICK r : r = Append(q, m)
  OBVIOUS
<1>. PICK n \in Nat : n = Len(q) + 1
  BY SMTT(60)
<1>1. /\ q = sendq[d] /\ r = sendq'[d] /\ r \in Seq(Nat) /\ DOMAIN r = DOMAIN q \cup {n}
      /\ \A i \in DOMAIN q : r[i] = q[i] /\ i \in Nat /\ i < n
      /\ r[n] = m /\ Range(r) = Range(q) \cup {m} /\ r # <<>>
      /\ q # <<>> => Head(r) = Head(q) /\ n # 1
      /\ q = <<>> => Head(r) = m
  <2>1. DOMAIN q = 1..Len(q) /\ Len(q) \in Nat
    BY SMTT(60)
  <2>2. sendq'[d] = r
    BY DEF IInv, TypeOK
  <2>3. /\ r \in Seq(Nat) /\ DOMAIN r = DOMAIN q \cup {Len(q) + 1}
        /\ \A i \in DOMAIN q : r[i] = q[i]
        /\ r[Len(q) + 1] = m /\ Range(r) = Range(q) \cup {m} /\ r # <<>>
        /\ q # <<>> => Head(r) = Head(q)
        /\ q = <<>> => Head(r) = m
    BY SMTT(60), Appended
  <2>4. (\A i \in DOMAIN q : i \in Nat /\ i < n) /\ (q # <<>> => n # 1)
    BY SMTT(60), <2>1
  <2>5. QED
    BY <2>2, <2>3, <2>4
<1>2. /\ sendq' \in [Dests -> Seq(Nat)]
      /\ \A e \in Dests : e # d => sendq'[e] = sendq[e]
  <2>1. sendq'[d] \in Seq(Nat)
    BY <1>1
  <2>2. sendq' = [sendq EXCEPT ![d] = sendq'[d]]
    BY DEF IInv, TypeOK
  <2>3. QED
    BY <2>1, <2>2 DEF IInv, TypeOK
<1>3. \A x \in Messages : x \in Messages' /\ Dest(x)' = Dest(x) /\ Dest(x) \in Dests /\ (x # m => x < m)
  BY Numbers DEF Fresh, Dest, IInv
<1>4. m \in Messages' /\ Dest(m)' = d /\ m \notin done'
  BY DEF Fresh, Dest
<1>5. \A e \in Dests : \A j \in DOMAIN sendq[e] : sendq[e][j] \in Messages /\ sendq[e][j] # m
  BY Known DEF Fresh, Range
<1>6. SendQueues'
  <2>. SUFFICES ASSUME NEW e \in Dests, NEW i \in DOMAIN sendq'[e]
                PROVE  /\ sendq'[e][i] \in Messages' /\ msgs'[sendq'[e][i]].dest = e
                       /\ i # 1 => sendq'[e][i] \notin done'
                       /\ \A j \in DOMAIN sendq'[e] : i < j => sendq'[e][i] < sendq'[e][j]
    BY DEF SendQueues, Dest
  <2>1. \A k \in DOMAIN sendq[e] :
          /\ sendq[e][k] \in Messages' /\ msgs'[sendq[e][k]].dest = e
          /\ k # 1 => sendq[e][k] \notin done'
          /\ \A j \in DOMAIN sendq[e] : k < j => sendq[e][k] < sendq[e][j]
          /\ sendq[e][k] < m
    BY <1>3, <1>5 DEF IInv, SendQueues, Fresh, Dest
  <2>2. CASE e # d
    BY <1>2, <2>1, <2>2
  <2>3. CASE e = d /\ i # n
    BY SMTT(60), <1>1, <2>1, <2>3
  <2>4. CASE e = d /\ i = n
    <3>1. sendq'[e][i] = m /\ msgs'[m].dest = e
      BY <1>1, <1>4, <2>4 DEF Dest
    <3>2. \A j \in DOMAIN sendq'[e] : ~(i < j)
      BY SMTT(60), <1>1, <2>4
    <3>3. QED
      BY <1>4, <3>1, <3>2
  <2>5. QED
    BY <2>2, <2>3, <2>4
<1>7. Waits(m)' /\ (sendq[d] = <<>> => Leads(m)')
  BY <1>1, <1>4 DEF Waits, Leads
<1>8. ASSUME NEW x \in Messages, x # m PROVE Waits(x)' <=> Waits(x)
  <2>1. PICK e \in Dests : e = Dest(x) /\ (Waits(x)' <=> x \in Range(sendq'[e]))
    BY <1>3 DEF Waits
  <2>2. QED
    BY SMTT(60), <1>1, <1>2, <1>8, <2>1 DEF Waits
<1>9. ASSUME NEW x \in Messages, Leads(x) PROVE Leads(x)'
  <2>1. PICK e \in Dests : e = Dest(x) /\ Dest(x)' = e
    BY <1>3
  <2>2. sendq[e] # <<>> /\ Head(sendq[e]) = x
    BY <1>9, <2>1 DEF Leads
  <2>3. sendq'[e] # <<>> /\ Head(sendq'[e]) = x
    BY <1>1, <1>2, <2>2
  <2>4. QED
    BY <2>1, <2>3 DEF Leads
<1>10. ASSUME NEW e \in Dests, NEW j \in DOMAIN sendq'[e]
       PROVE  \/ sendq'[e][j] = m
              \/ j \in DOMAIN sendq[e] /\ sendq'[e][j] = sendq[e][j]
  BY SMTT(60), <1>1, <1>2
<1>11. QED
  BY <1>2, <1>6, <1>7, <1>8, <1>9, <1>10

\* The rest of the state, after SendQueue::post.
LEMMA StepQueued ==
  ASSUME IInv, NEW m \in Nat, NEW d \in Dests, Fresh(m, d), post(m, d),
         UNCHANGED <<fifos, wire, called>>, writing' = "none",
         msgs'[m].kind # "fence" <=> left'[m] # 0,
         Touched(m)' => SettledBefore(m)'
  PROVE  IInv'
<1>1. /\ sendq' \in [Dests -> Seq(Nat)] /\ SendQueues'
      /\ Waits(m)' /\ (sendq[d] = <<>> => Leads(m)')
      /\ \A x \in Messages : x # m => (Waits(x)' <=> Waits(x))
      /\ \A x \in Messages : Leads(x) => Leads(x)'
      /\ \A e \in Dests : \A j \in DOMAIN sendq'[e] :
           \/ sendq'[e][j] = m
           \/ j \in DOMAIN sendq[e] /\ sendq'[e][j] = sendq[e][j]
  <2>1. sendq' = [sendq EXCEPT ![d] = Append(@, m)]
    BY DEF post
  <2>2. QED
    BY <2>1, QueuesJoined
<1>. DEFINE M == IF sendq[d] = <<>> THEN {MsgWork(m)} ELSE {}
<1>2. WorkTypes' /\ WorkOnce' /\ Works' = Works \cup M
  <2>1. M \in SUBSET Job /\ \A w \in M : w.msg = m
    BY ItsWork
  <2>2. Plus(posted, M, posted') /\ Plus(posted', {}, posted')
    BY DEF Plus, post, isSendQueueEmpty
  <2>. HIDE DEF M
  <2>3. /\ \A w \in M \cup {} : \A v \in Works : v.msg # w.msg
        /\ \A w \in M : \A v \in {} : w.msg # v.msg
    BY <2>1 DEF Fresh
  <2>4. UNCHANGED <<threads, batch>>
    BY DEF Fresh
  <2>5. WorkTypes' /\ WorkOnce' /\ Works' = Works \cup M \cup {}
    BY <2>1, <2>2, <2>3, <2>4, HandedOver DEF IInv
  <2>6. QED
    BY <2>5
<1>3. \A x \in Messages : /\ x \in Messages' /\ Dest(x)' = Dest(x) /\ Kind(x)' = Kind(x)
                          /\ Dest(x) \in Dests /\ (x # m => left'[x] = left[x] /\ x < m)
  BY Numbers DEF Fresh, Dest, Kind, IInv
<1>4. /\ Dest(m)' = d /\ Kind(m)' = msgs'[m].kind /\ Messages' = Messages \cup {m}
      /\ done' = done /\ m \notin done /\ m \notin Range(called) /\ Range(called)' = Range(called)
  BY DEF Fresh, Dest, Kind
<1>5. compq' \in Seq(Nat) /\ CompQueue'
  <2>1. /\ compq \in Seq(Nat) /\ IsInjective(compq) /\ m \notin Range(compq)
        /\ \A x \in Range(compq) : x \in Messages' /\ Leads(x)'
        /\ nxtmsg' # 0 => nxtmsg' \in Range(compq)
    BY <1>1, <1>3 DEF IInv, TypeOK, CompQueue, Fresh
  <2>2. CASE sendq[d] # <<>>
    <3>1. compq' = compq
      BY <2>2 DEF post, isSendQueueEmpty
    <3>2. QED
      BY <2>1, <3>1 DEF CompQueue
  <2>3. CASE sendq[d] = <<>>
    <3>1. compq' = Append(compq, m)
      BY <2>3 DEF post, isSendQueueEmpty
    <3>2. compq' \in Seq(Nat) /\ Range(compq') = Range(compq) \cup {m} /\ IsInjective(compq')
      BY <2>1, <3>1, AppendedOnce
    <3>3. QED
      BY <1>1, <1>4, <2>1, <2>3, <3>2 DEF CompQueue
  <2>4. QED
    BY <2>2, <2>3
<1>6. TypeOK' /\ Later /\ Wires'
  <2>1. called' \in Seq(Nat) /\ WritesOrNot(m, d)
    BY DEF IInv, TypeOK, WritesOrNot
  <2>2. QED
    BY <1>1, <1>2, <1>5, <2>1, FreshLater
<1>7. Remaining'
  <2>. SUFFICES ASSUME NEW x \in Messages' PROVE
         /\ left'[x] # 0 => x \notin done' /\ Waits(x)'
         /\ Waits(x)' /\ x \notin done' /\ Kind(x)' # "fence" => left'[x] # 0
         /\ Kind(x)' = "fence" => left'[x] = 0
         /\ Kind(x)' = "roput" /\ left'[x] = 0 =>
              \E i \in DOMAIN wire'[Dest(x)'] : wire'[Dest(x)'][i].msg = x
    BY DEF Remaining
  <2>1. CASE x = m
    BY <1>1, <1>4, <2>1
  <2>2. CASE x # m
    <3>1. x \in Messages /\ (left[x] # 0 => Waits(x))
      BY <1>4, <2>2 DEF Fresh
    <3>2. Kind(x) = "roput" /\ left[x] = 0 =>
            \E i \in DOMAIN wire'[Dest(x)] : wire'[Dest(x)][i].msg = x
      BY <1>6, <3>1, RequestStays
    <3>3. QED
      BY <1>1, <1>3, <1>4, <2>2, <3>1, <3>2 DEF IInv, Remaining
  <2>3. QED
    BY <2>1, <2>2
<1>8. Posting'
  BY DEF Posting
<1>9. WorkIs'
  <2>. SUFFICES ASSUME NEW w \in Works' PROVE
         /\ w.msg \in Messages'
         /\ w.type = "message" => w = MsgWork(w.msg) /\ Leads(w.msg)' /\ w.msg \notin done'
         /\ w.type = "completion" => /\ Kind(w.msg)' = "roput" /\ left'[w.msg] = 0
                                     /\ ~Waits(w.msg)' /\ w.msg \notin Range(called)'
                                     /\ Sent(w.msg, w.sequence)'
    BY DEF WorkIs, MsgWork
  <2>1. CASE w \in Works
    <3>1. PICK x \in Messages : x = w.msg /\ x # m
      BY <2>1, Known DEF Fresh
    <3>2. w.type = "completion" => Sent(x, w.sequence)'
      BY <1>6, <2>1, <3>1, SentStays DEF IInv, WorkIs
    <3>3. QED
      BY <1>1, <1>3, <1>4, <2>1, <3>1, <3>2 DEF IInv, WorkIs
  <2>2. CASE w = MsgWork(m) /\ sendq[d] = <<>>
    BY <1>1, <1>4, <2>2 DEF MsgWork
  <2>3. QED
    BY <1>2, <2>1, <2>2
<1>10. Called'
  <2>. SUFFICES ASSUME NEW x \in Range(called) PROVE
         /\ x \in Messages' /\ left'[x] = 0 /\ ~Waits(x)'
         /\ Kind(x)' # "roput" => \A j \in DOMAIN sendq'[Dest(x)'] : x < sendq'[Dest(x)'][j]
    BY <1>4 DEF Called
  <2>1. x \in Messages /\ x # m
    BY <1>4, Known
  <2>2. PICK e \in Dests : e = Dest(x) /\ e = Dest(x)'
    BY <1>3, <2>1
  <2>3. Kind(x) # "roput" => \A j \in DOMAIN sendq[e] : x < sendq[e][j]
    BY <2>2 DEF IInv, Called
  <2>4. Kind(x) # "roput" => \A j \in DOMAIN sendq'[e] : x < sendq'[e][j]
    BY <1>1, <1>3, <2>1, <2>3
  <2>5. QED
    BY <1>1, <1>3, <2>1, <2>2, <2>4 DEF IInv, Called
<1>11. Settled'
  <2>. SUFFICES ASSUME NEW x \in Messages', Touched(x)', x # m PROVE SettledBefore(x)'
    BY DEF Settled
  <2>1. x \in Messages /\ left'[x] = left[x] /\ msgs'[x] = msgs[x]
    BY DEF Fresh
  <2>2. Touched(x)
    BY <1>3, <1>4, <2>1 DEF Touched
  <2>3. QED
    BY <1>6, <2>1, <2>2, SettledStays DEF IInv, Settled
<1>12. PostOrder'
  BY <1>6, OrderStays DEF IInv
<1>13. RemoteCompletion'
  <2>. SUFFICES ASSUME NEW x \in Messages', Kind(x)' = "roput", x \in Range(called)'
                PROVE  Sent(x, lastPacketConsumed(Dest(x)))'
    BY DEF RemoteCompletion, Sent
  <2>1. x \in Messages /\ Kind(x) = "roput" /\ x \in Range(called)
    BY <1>3, <1>4, Known
  <2>2. Sent(x, lastPacketConsumed(Dest(x)))
    BY <2>1 DEF IInv, RemoteCompletion, Sent
  <2>3. QED
    BY <1>6, <2>1, <2>2, ConsumedStays DEF IInv
<1>14. CallbackOrder'
  BY Known, CallbackKept DEF IInv, Fresh
<1>15. QED
  BY <1>1, <1>2, <1>5, <1>6, <1>7, <1>8, <1>9, <1>10, <1>11, <1>12, <1>13, <1>14 DEF IInv

\* A call that leaves the generic device alone.
LEMMA SameWork ==
  ASSUME IInv, UNCHANGED <<posted, threads, batch>>
  PROVE  WorkTypes' /\ WorkOnce' /\ Works' = Works \cup {}
  BY DEF IInv, TypeOK, WorkTypes, WorkOnce, Works

\* executeCallback in a call that has written the last packet of m.
LEMMA StepWritten ==
  ASSUME IInv, NEW m \in Nat, NEW d \in Dests, Fresh(m, d), Produce(m, d), sendq[d] = <<>>,
         UNCHANGED <<sendq, compq>>, left'[m] = 0, writing' = "none",
         NEW k \in {"packet", "roput", "quiet"}, k = msgs'[m].kind,
         executeCallback(m, k, posted, Len(delivered[d]) + Len(queue[d]))
  PROVE  IInv'
<1>. DEFINE N == IF k = "roput" THEN {RecPacketWork(m, NextSeq(d))} ELSE {}
<1>1. NextSeq(d) \in Nat /\ NextSeq(d) \in Int
  <2>1. NextSeq(d) \in Nat
    BY CountsNow DEF IInv
  <2>2. QED
    BY SMTT(60), <2>1
<1>2. N \in SUBSET Job /\ \A w \in N : /\ w.msg = m /\ w.type = "completion" /\ k = "roput"
                                       /\ w.sequence = NextSeq(d)
  <2>1. /\ RecPacketWork(m, NextSeq(d)) \in Job /\ RecPacketWork(m, NextSeq(d)).msg = m
        /\ RecPacketWork(m, NextSeq(d)).type = "completion"
        /\ RecPacketWork(m, NextSeq(d)).sequence = NextSeq(d)
    BY SMTT(60), <1>1, ItsPacketWork
  <2>2. CASE k = "roput"
    <3>1. N = {RecPacketWork(m, NextSeq(d))}
      BY <2>2
    <3>. HIDE DEF N
    <3>2. QED
      BY <2>1, <2>2, <3>1
  <2>3. CASE k # "roput"
    <3>1. N = {}
      BY <2>3
    <3>. HIDE DEF N
    <3>2. QED
      BY <3>1
  <2>4. QED
    BY <2>2, <2>3
<1>4. Plus(posted, {}, posted) /\ Plus(posted, N, posted')
  BY DEF Plus, executeCallback, NextSeq
<1>5. called' = called \/ (called' = Append(called, m) /\ k # "roput")
  BY DEF executeCallback
<1>. HIDE DEF N
<1>6. WorkTypes' /\ WorkOnce' /\ Works' = Works \cup N
  <2>1. /\ \A w \in {} \cup N : \A v \in Works : v.msg # w.msg
        /\ \A w \in {} : \A v \in N : w.msg # v.msg
        /\ UNCHANGED <<threads, batch>>
    BY <1>2 DEF Fresh
  <2>2. WorkTypes' /\ WorkOnce' /\ Works' = Works \cup {} \cup N
    BY <1>2, <1>4, <2>1, HandedOver DEF IInv
  <2>3. QED
    BY <2>2
<1>7. WritesOrNot(m, d) /\ ~Touched(m)'
  BY DEF WritesOrNot, Touched, Kind
<1>8. QED
  BY <1>2, <1>5, <1>6, <1>7, StepAtOnce

\* The same when more packets of m follow.
LEMMA StepMore ==
  ASSUME IInv, NEW m \in Nat, NEW d \in Dests, Fresh(m, d), Produce(m, d), sendq[d] = <<>>,
         UNCHANGED <<posted, sendq, compq, called>>, left'[m] # 0, writing' = "post",
         msgs'[m].kind = "packet"
  PROVE  IInv'
<1>1. WorkTypes' /\ WorkOnce' /\ Works' = Works \cup {}
  BY SameWork DEF Fresh
<1>2. WritesOrNot(m, d) /\ ~Touched(m)'
  BY DEF WritesOrNot, Touched, Kind
<1>3. PICK N \in SUBSET Job : N = {} /\ Works' = Works \cup N
  BY <1>1
<1>4. QED
  BY <1>1, <1>2, <1>3, StepAtOnce

\* postPacket, postMultiPacket and postDmaPut by request packet
LEMMA StepPackets ==
  ASSUME IInv, NEW k \in {"packet", "roput", "quiet"}, NEW d \in Dests, NEW n \in 1..MaxLen,
         postPackets(k, d, n)
  PROVE  IInv'
<1>1. n \in Nat \ {0} /\ n - 1 \in Nat /\ (n - 1 = 0 <=> n = 1) /\ k \in AllKinds
  BY SMTT(60) DEF AllKinds
<1>. PICK l \in Nat : l = IF FastPath(d) THEN n - 1 ELSE n
  BY <1>1
<1>2. NewMessage(k, d, n, l) /\ (k # "packet" => n = 1)
  BY DEF postPackets
<1>. PICK m : m = New
  OBVIOUS
<1>3. /\ Fresh(m, d) /\ m \in Nat /\ writing = "none"
      /\ msgs'[m].kind = k /\ msgs'[m].len = n /\ left'[m] = l
  BY <1>1, <1>2, FreshNew
<1>4. CASE FastPath(d)
  <2>1. sendq[d] = <<>> /\ l = n - 1
    BY <1>4 DEF FastPath, isSendQueueEmpty
  <2>2. Produce(m, d) /\ UNCHANGED <<sendq, compq>>
    BY <1>4 DEF postPackets
  <2>3. CASE n = 1
    <3>1. /\ executeCallback(m, k, posted, Len(delivered[d]) + Len(queue[d]))
          /\ writing' = "none"
      BY <1>4, <2>3 DEF postPackets
    <3>2. left'[m] = 0
      BY <1>1, <1>3, <2>1, <2>3
    <3>3. QED
      BY <1>3, <2>1, <2>2, <3>1, <3>2, StepWritten
  <2>4. CASE n # 1
    <3>1. UNCHANGED <<posted, called>> /\ writing' = "post" /\ k = "packet"
      BY <1>2, <1>4, <2>4 DEF postPackets
    <3>2. left'[m] # 0
      BY <1>1, <1>3, <2>1, <2>4
    <3>3. QED
      BY <1>3, <2>1, <2>2, <3>1, <3>2, StepMore
  <2>5. QED
    BY <2>3, <2>4
<1>5. CASE ~FastPath(d)
  <2>1. post(m, d) /\ UNCHANGED <<fifos, wire, called, writing>>
    BY <1>5 DEF postPackets
  <2>2. left'[m] # 0 /\ ~Touched(m)'
    BY <1>1, <1>3, <1>5 DEF Touched, Kind
  <2>3. QED
    BY <1>3, <2>1, <2>2, StepQueued
<1>6. QED
  BY <1>4, <1>5

\* The next packet of postMultiPacket
LEMMA StepContinue ==
  ASSUME IInv, postContinue
  PROVE  IInv'
<1>. PICK m : m = Len(msgs)
  OBVIOUS
<1>1. writing = "post" /\ UNCHANGED <<msgs, done, nxtmsg, threads, batch, loop, at>>
  BY DEF postContinue
<1>2. m \in Messages /\ m \in Nat /\ left[m] \in Nat /\ left[m] # 0 /\ left \in Seq(Nat)
  <2>1. Messages = 1..Len(msgs) /\ Len(msgs) \in Nat
    BY Numbers DEF IInv
  <2>2. msgs # <<>> /\ msgs \in Seq(Message) /\ left[m] # 0
    BY <1>1 DEF IInv, Posting, TypeOK
  <2>3. m \in Messages /\ m \in Nat
    BY SMTT(60), <2>1, <2>2
  <2>4. QED
    BY <2>2, <2>3, Numbers DEF IInv, TypeOK
<1>. PICK d \in Dests : d = Dest(m)
  BY <1>2, Numbers DEF IInv
<1>3. CASE Room(d)
  <2>1. PICK v \in Nat : v = left[m] - 1 /\ (v = 0 <=> left[m] = 1)
    BY SMTT(60), <1>2
  <2>2. /\ Produce(m, d) /\ left' = [left EXCEPT ![Len(msgs)] = v] /\ UNCHANGED <<sendq, compq>>
        /\ writing' = IF v = 0 THEN "none" ELSE "post"
    BY <1>3, <2>1 DEF postContinue
  <2>3. /\ Kind(m) = "packet" /\ sendq[d] = <<>> /\ Fresh(m, d) /\ left'[m] = v
    BY <1>1, <2>2, FreshRun
  <2>4. msgs'[m].kind = "packet"
    BY <1>1, <2>3 DEF Kind
  <2>5. CASE v = 0
    <3>1. executeCallback(m, "packet", posted, Len(delivered[d]) + Len(queue[d]))
      BY <1>3, <2>1, <2>3, <2>5 DEF postContinue
    <3>2. QED
      BY <1>2, <2>2, <2>3, <2>4, <2>5, <3>1, StepWritten
  <2>6. CASE v # 0
    <3>1. UNCHANGED <<called, posted>>
      BY <1>3, <2>1, <2>6 DEF postContinue
    <3>2. QED
      BY <1>2, <2>2, <2>3, <2>4, <2>6, <3>1, StepMore
  <2>7. QED
    BY <2>5, <2>6
<1>4. CASE ~Room(d)
  <2>1. post(m, d) /\ writing' = "none" /\ UNCHANGED <<fifos, left, wire, called>>
    BY <1>4 DEF postContinue
  <2>2. left' = [left EXCEPT ![Len(msgs)] = left[m]]
    BY SMTT(60), <1>2, <2>1
  <2>3. /\ Kind(m) = "packet" /\ Fresh(m, d) /\ left'[m] # 0
    BY <1>1, <1>2, <2>2, FreshRun
  <2>4. msgs'[m].kind = "packet" /\ ~Touched(m)'
    BY <1>1, <2>3 DEF Kind, Touched
  <2>5. QED
    BY <1>2, <2>1, <2>3, <2>4, StepQueued
<1>5. QED
  BY <1>3, <1>4

\* A call that copies, or finds nothing to wait for, at once.
LEMMA StepCopied ==
  ASSUME IInv, NEW m \in Nat, NEW d \in Dests, Fresh(m, d), QuietChannel(d),
         UNCHANGED <<fifos, wire, sendq, compq, posted>>, left'[m] = 0, writing' = "none",
         msgs'[m].kind \in {"fence", "get", "copy"},
         called' = called \/ called' = Append(called, m)
  PROVE  IInv'
<1>1. WorkTypes' /\ WorkOnce' /\ Works' = Works \cup {}
  BY SameWork DEF Fresh
<1>2. WritesOrNot(m, d) /\ SettledBefore(m)' /\ sendq[d] = <<>>
  BY FreshSettled DEF WritesOrNot, QuietChannel, isSendQueueEmpty
<1>3. /\ msgs'[m].kind # "roput"
      /\ called' = called \/ ( /\ called' = Append(called, m)
                               /\ left'[m] = 0 /\ msgs'[m].kind # "roput" )
      /\ writing' = IF left'[m] = 0 THEN "none" ELSE "post"
      /\ left'[m] # 0 => msgs'[m].kind = "packet"
      /\ UNCHANGED <<sendq, compq>>
  OBVIOUS
<1>4. PICK N \in SUBSET Job : N = {} /\ Works' = Works \cup N
  BY <1>1
<1>5. /\ \A w \in N : /\ w.msg = m /\ w.type = "completion" /\ msgs'[m].kind = "roput"
                      /\ left'[m] = 0 /\ w.sequence = NextSeq(d) /\ Produce(m, d)
      /\ msgs'[m].kind = "roput" => Produce(m, d)
      /\ Touched(m)' => SettledBefore(m)'
  BY <1>2, <1>3, <1>4
<1>6. QED
  BY <1>1, <1>2, <1>3, <1>4, <1>5, StepAtOnce

\* postPacket "immediate"
LEMMA StepImmediate ==
  ASSUME IInv, NEW d \in Dests, postImmediate(d)
  PROVE  IInv'
<1>. PICK m : m = New
  OBVIOUS
<1>1. /\ FastPath(d) /\ NewMessage("immediate", d, 1, 0) /\ Produce(m, d)
      /\ UNCHANGED <<posted, sendq, compq, writing, called>>
  BY DEF postImmediate
<1>2. /\ Fresh(m, d) /\ m \in Nat /\ writing = "none"
      /\ msgs'[m].kind = "immediate" /\ left'[m] = 0
  BY <1>1, FreshNew DEF AllKinds
<1>3. WorkTypes' /\ WorkOnce' /\ Works' = Works \cup {}
  BY <1>1, <1>2, SameWork DEF Fresh
<1>4. WritesOrNot(m, d) /\ ~Touched(m)' /\ sendq[d] = <<>>
  BY <1>1, <1>2 DEF WritesOrNot, Touched, Kind, FastPath, isSendQueueEmpty
<1>5. PICK N \in SUBSET Job : N = {} /\ Works' = Works \cup N
  BY <1>3
<1>6. UNCHANGED <<sendq, compq>> /\ writing' = "none" /\ called' = called
  BY <1>1, <1>2
<1>7. QED
  BY <1>1, <1>2, <1>3, <1>4, <1>5, <1>6, StepAtOnce

\* postDmaFence
LEMMA StepPostFence ==
  ASSUME IInv, NEW d \in Dests, postDmaFence(d)
  PROVE  IInv'
<1>. PICK m : m = New
  OBVIOUS
<1>1. NewMessage("fence", d, 0, 0) /\ UNCHANGED <<fifos, wire, writing>>
  BY DEF postDmaFence
<1>2. /\ Fresh(m, d) /\ m \in Nat /\ writing = "none"
      /\ msgs'[m].kind = "fence" /\ left'[m] = 0
  BY <1>1, FreshNew DEF AllKinds
<1>3. CASE QuietChannel(d)
  <2>1. called' = Append(called, m) /\ UNCHANGED <<sendq, compq, posted>>
    BY <1>3 DEF postDmaFence
  <2>2. QED
    BY <1>1, <1>2, <1>3, <2>1, StepCopied
<1>4. CASE ~QuietChannel(d)
  <2>1. post(m, d) /\ UNCHANGED called
    BY <1>4 DEF postDmaFence
  <2>2. ~Touched(m)'
    BY <1>2, <2>1 DEF Touched, Kind, Fresh
  <2>3. QED
    BY <1>1, <1>2, <2>1, <2>2, StepQueued
<1>5. QED
  BY <1>3, <1>4

\* postDmaGet, ordered
LEMMA StepPostGet ==
  ASSUME IInv, NEW d \in Dests, NEW n \in 1..MaxLen, postDmaGet(d, n)
  PROVE  IInv'
<1>. PICK m : m = New
  OBVIOUS
<1>1. PICK copied \in IF QuietChannel(d) THEN 1..n ELSE {0} :
        /\ NewMessage("get", d, n, n - copied)
        /\ IF copied = n
           THEN called' = Append(called, m) /\ UNCHANGED <<sendq, compq, posted>>
           ELSE post(m, d) /\ UNCHANGED called
  BY DEF postDmaGet
<1>2. UNCHANGED <<fifos, wire, writing>>
  BY DEF postDmaGet
<1>3. PICK l \in Nat : /\ l = n - copied /\ (l = 0 <=> copied = n) /\ (~QuietChannel(d) => l = n)
                       /\ n \in Nat \ {0}
  <2>1. n \in Nat \ {0} /\ copied \in 0..n /\ (~QuietChannel(d) => copied = 0)
    BY SMTT(60)
  <2>2. QED
    BY SMTT(60), <2>1
<1>4. /\ Fresh(m, d) /\ m \in Nat /\ writing = "none"
      /\ msgs'[m].kind = "get" /\ msgs'[m].len = n /\ left'[m] = l
  BY <1>1, <1>3, FreshNew DEF AllKinds
<1>5. CASE l = 0
  <2>1. QuietChannel(d) /\ called' = Append(called, m) /\ UNCHANGED <<sendq, compq, posted>>
    BY <1>1, <1>3, <1>5
  <2>2. QED
    BY <1>2, <1>4, <1>5, <2>1, StepCopied
<1>6. CASE l # 0
  <2>1. post(m, d) /\ UNCHANGED called
    BY <1>1, <1>3, <1>6
  <2>2. Touched(m)' => SettledBefore(m)'
    <3>1. CASE QuietChannel(d)
      BY <1>2, <1>4, <3>1, FreshSettled
    <3>2. CASE ~QuietChannel(d)
      <4>1. ~(n < n)
        BY SMTT(60), <1>3
      <4>2. QED
        BY <1>3, <1>4, <3>2, <4>1 DEF Touched, Kind
    <3>3. QED
      BY <3>1, <3>2
  <2>3. QED
    BY <1>2, <1>4, <1>6, <2>1, <2>2, StepQueued
<1>7. QED
  BY <1>5, <1>6

\* postDmaPut, ordered
LEMMA StepPostPut ==
  ASSUME IInv, NEW d \in Dests, NEW n \in 1..MaxLen, postDmaPut(d, n)
  PROVE  IInv'
<1>. PICK m : m = New
  OBVIOUS
<1>1. NewMessage("put", d, n, n) /\ post(m, d) /\ UNCHANGED <<fifos, wire, writing, called>>
  BY DEF postDmaPut
<1>2. n \in Nat /\ n # 0 /\ ~(n < n)
  BY SMTT(60)
<1>3. /\ Fresh(m, d) /\ m \in Nat /\ writing = "none"
      /\ msgs'[m].kind = "put" /\ msgs'[m].len = n /\ left'[m] = n
  BY <1>1, <1>2, FreshNew DEF AllKinds
<1>4. left'[m] # 0 /\ ~Touched(m)'
  BY <1>2, <1>3 DEF Touched, Kind
<1>5. QED
  BY <1>1, <1>3, <1>4, StepQueued

\* postDmaGet and postDmaPut "immediate", ordered
LEMMA StepPostCopy ==
  ASSUME IInv, NEW d \in Dests, postDmaImmediate(d)
  PROVE  IInv'
<1>. PICK m : m = New
  OBVIOUS
<1>1. /\ QuietChannel(d) /\ NewMessage("copy", d, 1, 0)
      /\ UNCHANGED <<fifos, wire, writing, called, posted, sendq, compq>>
  BY DEF postDmaImmediate
<1>2. /\ Fresh(m, d) /\ m \in Nat /\ writing = "none"
      /\ msgs'[m].kind = "copy" /\ left'[m] = 0
  BY <1>1, FreshNew DEF AllKinds
<1>3. QED
  BY <1>1, <1>2, StepCopied

-----------------------------------------------------------------------------
(* The theorems.                                                           *)

LEMMA Initially ==
  ASSUME Init
  PROVE  IInv
<1>1. TypeOK
  BY SMTT(60) DEF Init, TypeOK, Messages
<1>2. Messages = {} /\ Works = {} /\ Range(called) = {} /\ Range(compq) = {}
  BY SMTT(60) DEF Init, Messages, Works, Range
<1>3. WorkOnce
  BY SMTT(60) DEF Init, WorkOnce, Apart, For
<1>4. Wires /\ SendQueues /\ PostOrder
  BY SMTT(60) DEF Init, Wires, SendQueues, PostOrder
<1>5. Remaining /\ Posting /\ WorkIs /\ Called /\ Settled /\ RemoteCompletion
  BY <1>2 DEF Init, Remaining, Posting, WorkIs, Called, Settled, RemoteCompletion
<1>6. CompQueue /\ CallbackOrder
  BY SMTT(60), <1>2 DEF Init, CompQueue, CallbackOrder, IsInjective
<1>7. QED
  BY <1>1, <1>3, <1>4, <1>5, <1>6 DEF IInv

\* No step breaks the invariant.
LEMMA Step ==
  ASSUME IInv, [Next]_vars
  PROVE  IInv'
<1>1. CASE UNCHANGED vars
  <2>1. UNCHANGED <<posted, threads, batch, loop, at, queue, delivered, msgs, left, done, sendq,
                    compq, nxtmsg, writing, wire, called>>
    BY <1>1 DEF vars, queues, fifos
  <2>2. TypeOK'
    BY <2>1 DEF IInv, TypeOK, Messages
  <2>3. Grows
    BY <2>1 DEF Grows
  <2>4. Later /\ Wires'
    BY <2>1, <2>2, <2>3, NotWritten DEF fifos
  <2>5. WorkOnce' /\ Works' \subseteq Works
    BY <2>1 DEF IInv, WorkOnce, Works
  <2>6. CompQueue'
    BY <2>1 DEF IInv, CompQueue, Messages, Leads, Dest
  <2>7. QED
    BY <2>1, <2>2, <2>4, <2>5, <2>6, StepElsewhere
<1>2. ASSUME NEW d \in Dests, NEW n \in 1..MaxLen, NEW k \in {"packet", "roput", "quiet"},
             postPackets(k, d, n)
      PROVE  IInv'
  BY <1>2, StepPackets
<1>3. ASSUME NEW d \in Dests, NEW n \in 1..MaxLen, postDmaGet(d, n) \/ postDmaPut(d, n)
      PROVE  IInv'
  BY <1>3, StepPostGet, StepPostPut
<1>4. ASSUME NEW d \in Dests, postImmediate(d) \/ postDmaImmediate(d) \/ postDmaFence(d)
      PROVE  IInv'
  BY <1>4, StepImmediate, StepPostCopy, StepPostFence
<1>5. CASE AdvanceStart \/ PostedStart \/ CompletionStart \/ AdvanceEnd
  BY <1>5, StepLoops
<1>6. CASE Complete
  BY <1>6, StepPass, StepDone
<1>7. CASE postContinue
  BY <1>7, StepContinue
<1>8. ASSUME NEW m \in DOMAIN msgs,
             write(m) \/ advance_fence(m) \/ advance_mr(m) \/ advance_with_callback(m)
      PROVE  IInv'
  <2>1. m \in Messages
    BY DEF Messages
  <2>2. QED
    BY <1>8, <2>1, StepWrite, StepFence, StepCopy, StepCallback
<1>9. ASSUME NEW d \in Dests, Consume(d) \/ \E p \in Others : OtherProduces(p, d)
      PROVE  IInv'
  BY <1>9, StepFifo
<1>10. QED
  BY <1>1, <1>2, <1>3, <1>4, <1>5, <1>6, <1>7, <1>8, <1>9 DEF Next, Post, Progress

\* At every moment the messages, the queues, the packets and the callbacks fit
\* together: the inductive invariant of an origin context.
THEOREM Invariance == Spec => []IInv
<1>1. Init => IInv
  BY Initially
<1>2. IInv /\ [Next]_vars => IInv'
  BY Step
<1>3. QED
  BY <1>1, <1>2, PTL DEF Spec

\* Packets of one origin enter a fifo in the order of the posts: none is written
\* while a message posted earlier to that destination has something left, on any of
\* the three paths that call producePacket (ShmemPacketModel.h, PacketMessage::write).
THEOREM PacketsInOrder == Spec => []PostOrder
<1>1. IInv => PostOrder
  BY DEF IInv
<1>2. QED
  BY <1>1, Invariance, PTL

\* The callback of a fence is not called before every packet written before it was
\* consumed and every copy asked for before it was made.
THEOREM FencesHold == Spec => []FenceOrders
<1>1. IInv => FenceOrders
  BY DEF IInv, Settled, Touched, FenceOrders
<1>2. QED
  BY <1>1, Invariance, PTL

\* An ordered shared address operation moves no byte before every earlier packet of
\* the context to that destination was consumed.
THEOREM CopiesHold == Spec => []CopyOrders
<1>1. IInv => CopyOrders
  BY DEF IInv, Settled, Touched, CopyOrders
<1>2. QED
  BY <1>1, Invariance, PTL

\* The callback of a put by request packet is called only after the destination has
\* consumed that packet.
THEOREM RemoteMeansConsumed == Spec => []RemoteCompletion
<1>1. IInv => RemoteCompletion
  BY DEF IInv
<1>2. QED
  BY <1>1, Invariance, PTL

\* No callback is called twice, and local completions to one destination are called
\* in the order of the posts.
THEOREM CallbacksInOrder == Spec => []CallbackOrder
<1>1. IInv => CallbackOrder
  BY DEF IInv
<1>2. QED
  BY <1>1, Invariance, PTL
===============================================================================
