---------------------------- MODULE ImuRingProofs ----------------------------
(***************************************************************************)
(* Proofs about ImuRing, for any ring, any counter width that the ring     *)
(* divides, any number of threads and samples: the ring implements         *)
(* DropOldestQueue, and the only user of the file gets neither -EIO nor a  *)
(* false POLLIN.                                                           *)
(***************************************************************************)
EXTENDS ImuRing, SequenceTheorems, TLAPS

-----------------------------------------------------------------------------
(* Remainders by a number that is not given.                               *)

\* Quotient and remainder by a modulus that is a constant.
LEMMA Division ==
    ASSUME NEW N \in Nat \ {0}, NEW a \in Int
    PROVE  /\ a % N \in 0..(N - 1) /\ a \div N \in Int
           /\ a = N * (a \div N) + (a % N)
BY Z3

\* The remainder is the only one in its range.
LEMMA Remainder ==
    ASSUME NEW N \in Nat \ {0}, NEW q \in Int, NEW r \in 0..(N - 1)
    PROVE  (N * q + r) % N = r
<1> DEFINE a == N * q + r
           p == a \div N
<1>1. a = N * p + (a % N) /\ a % N \in 0..(N - 1) /\ p \in Int
  BY Division, a \in Int
<1>2. N * (q - p) = (a % N) - r
  BY <1>1
<1>3. q = p
  <2>1. CASE q - p >= 1
    <3>1. N * (q - p) >= N
      BY <2>1, <1>1
    <3> QED BY <3>1, <1>2, <1>1
  <2>2. CASE q - p <= -1
    <3>1. N * (q - p) <= -N
      BY <2>2, <1>1
    <3> QED BY <3>1, <1>2, <1>1
  <2> QED BY <2>1, <2>2, <1>1
<1> QED BY <1>3, <1>1

\* Multiples of the modulus do not change a remainder.
LEMMA Shifted ==
    ASSUME NEW N \in Nat \ {0}, NEW a \in Int, NEW k \in Int
    PROVE  (a + N * k) % N = a % N
<1> DEFINE q == a \div N
           r == a % N
<1>1. a = N * q + r /\ r \in 0..(N - 1) /\ q \in Int
  BY Division
<1>2. a + N * k = N * (q + k) + r
  BY <1>1
<1> HIDE DEF q, r
<1>3. (N * (q + k) + r) % N = r
  BY Remainder, <1>1
<1> QED BY <1>2, <1>3 DEF r

\* Numbers less than N apart have different remainders.
LEMMA Apart ==
    ASSUME NEW N \in Nat \ {0}, NEW a \in Int, NEW b \in Int,
           a < b, b < a + N
    PROVE  a % N # b % N
<1> SUFFICES ASSUME a % N = b % N PROVE FALSE
  OBVIOUS
<1> DEFINE p == a \div N
           q == b \div N
<1>1. p \in Int /\ q \in Int /\ a % N \in Int /\ a = N * p + (a % N) /\ b = N * q + (b % N)
  BY Division
<1>2. N * (q - p) = b - a
  BY <1>1
<1>3. CASE q - p >= 1
  BY <1>1, <1>2, <1>3, N * (q - p) >= N
<1>4. CASE q - p <= 0
  BY <1>1, <1>2, <1>4, N * (q - p) <= 0
<1> QED BY <1>3, <1>4, <1>1

-----------------------------------------------------------------------------
(* The counters of the ring.                                               *)

Counter == 0..(CtrMod - 1)

\* u32 increment and subtraction
LEMMA Increment ==
    ASSUME NEW c \in Counter
    PROVE  (c + 1) % CtrMod = IF c = CtrMod - 1 THEN 0 ELSE c + 1
<1>0. CtrMod \in Nat \ {0}
  BY ImuAssumption
<1>1. CASE c = CtrMod - 1
  <2>1. (CtrMod * 1 + 0) % CtrMod = 0
    BY Remainder, <1>0
  <2> QED BY <2>1, <1>1, <1>0
<1>2. CASE c # CtrMod - 1
  <2>1. (CtrMod * 0 + (c + 1)) % CtrMod = c + 1
    BY Remainder, <1>0, <1>2, c + 1 \in 0..(CtrMod - 1) DEF Counter
  <2> QED BY <2>1, <1>2, <1>0 DEF Counter
<1> QED BY <1>1, <1>2

\* The u32 difference of two counters.
LEMMA Difference ==
    ASSUME NEW h \in Counter, NEW t \in Counter
    PROVE  (h - t) % CtrMod = IF h >= t THEN h - t ELSE h - t + CtrMod
<1>0. CtrMod \in Nat \ {0}
  BY ImuAssumption
<1>1. CASE h >= t
  <2>1. (CtrMod * 0 + (h - t)) % CtrMod = h - t
    BY Remainder, <1>0, <1>1, h - t \in 0..(CtrMod - 1) DEF Counter
  <2> QED BY <2>1, <1>1, <1>0 DEF Counter
<1>2. CASE h < t
  <2>1. (CtrMod * (-1) + (h - t + CtrMod)) % CtrMod = h - t + CtrMod
    BY Remainder, <1>0, <1>2, h - t + CtrMod \in 0..(CtrMod - 1) DEF Counter
  <2> QED BY <2>1, <1>2, <1>0 DEF Counter
<1> QED BY <1>1, <1>2 DEF Counter

\* A slot does not change when its counter wraps, for RbSize divides CtrMod.
LEMMA SlotWraps ==
    ASSUME NEW c \in Int
    PROVE  Slot(c - CtrMod) = Slot(c)
<1> DEFINE k == -(CtrMod \div RbSize)
<1>1. CtrMod = -(RbSize * k) /\ k \in Int /\ RbSize \in Nat \ {0} /\ CtrMod \in Nat
  BY Division, ImuAssumption
<1> HIDE DEF k
<1>2. (c + RbSize * k) % RbSize = c % RbSize
  BY Shifted, <1>1
<1>3. c - CtrMod = c + RbSize * k
  BY <1>1
<1> QED BY <1>2, <1>3 DEF Slot

\* A counter masked is a slot of the ring.
LEMMA SlotType ==
    ASSUME NEW c \in Int
    PROVE  Slot(c) \in 0..(RbSize - 1)
BY Division, ImuAssumption DEF Slot

\* Between two counters
Count(h, t) == (h - t) % CtrMod
Incr(c) == (c + 1) % CtrMod

\* The number of samples is 0 exactly when head meets tail.
LEMMA CountType ==
    ASSUME NEW h \in Counter, NEW t \in Counter
    PROVE  Count(h, t) \in Counter /\ (Count(h, t) = 0 <=> h = t)
BY Difference, ImuAssumption DEF Count, Counter

\* A push moves head away from tail.
LEMMA CountPush ==
    ASSUME NEW h \in Counter, NEW t \in Counter, Count(h, t) < CtrMod - 1
    PROVE  Incr(h) \in Counter /\ Count(Incr(h), t) = Count(h, t) + 1
<1>1. Incr(h) = (IF h = CtrMod - 1 THEN 0 ELSE h + 1) /\ Incr(h) \in Counter
  BY Increment, ImuAssumption DEF Counter, Incr
<1>2. Count(h, t) = IF h >= t THEN h - t ELSE h - t + CtrMod
  BY Difference DEF Count
<1>3. Count(Incr(h), t) = IF Incr(h) >= t THEN Incr(h) - t ELSE Incr(h) - t + CtrMod
  BY Difference, <1>1 DEF Count
<1> QED BY <1>1, <1>2, <1>3, ImuAssumption DEF Counter

\* A pop moves tail towards head.
LEMMA CountPop ==
    ASSUME NEW h \in Counter, NEW t \in Counter, h # t
    PROVE  Incr(t) \in Counter /\ Count(h, Incr(t)) = Count(h, t) - 1
<1>1. Incr(t) = (IF t = CtrMod - 1 THEN 0 ELSE t + 1) /\ Incr(t) \in Counter
  BY Increment, ImuAssumption DEF Counter, Incr
<1>2. Count(h, t) = IF h >= t THEN h - t ELSE h - t + CtrMod
  BY Difference DEF Count
<1>3. Count(h, Incr(t)) = IF h >= Incr(t) THEN h - Incr(t) ELSE h - Incr(t) + CtrMod
  BY Difference, <1>1 DEF Count
<1> QED BY <1>1, <1>2, <1>3, ImuAssumption DEF Counter

\* The free slot is the one behind the last sample.
LEMMA SlotOfHead ==
    ASSUME NEW h \in Counter, NEW t \in Counter
    PROVE  Slot(h) = Slot(t + Count(h, t))
<1>1. CASE h >= t
  BY <1>1, Difference, t + (h - t) = h DEF Count, Counter
<1>2. CASE h < t
  <2>1. t + Count(h, t) = h + CtrMod /\ h + CtrMod \in Int
    BY <1>2, Difference, ImuAssumption DEF Count, Counter
  <2>2. Slot((h + CtrMod) - CtrMod) = Slot(h + CtrMod)
    BY SlotWraps, <2>1
  <2> QED BY <2>1, <2>2, ImuAssumption, (h + CtrMod) - CtrMod = h DEF Counter
<1> QED BY <1>1, <1>2 DEF Counter

\* Slots follow one another across the wrap-around of the counters.
LEMMA SlotOfNext ==
    ASSUME NEW t \in Counter, NEW i \in Int
    PROVE  Slot(Incr(t) + i) = Slot(t + 1 + i)
<1>1. CASE t = CtrMod - 1
  <2>1. Incr(t) + i = (t + 1 + i) - CtrMod
    BY <1>1, Increment, ImuAssumption DEF Incr, Counter
  <2> QED BY <2>1, SlotWraps, t + 1 + i \in Int DEF Counter
<1>2. CASE t # CtrMod - 1
  BY <1>2, Increment, ImuAssumption DEF Incr, Counter
<1> QED BY <1>1, <1>2

-----------------------------------------------------------------------------
(* The samples in the ring, as a sequence.                                 *)

Cell == Nat \cup {NoSample}
Buffers == [0..(RbSize - 1) -> Cell]

Content(b, t, n) == [i \in 1..n |-> b[Slot(t + i - 1)]]

\* The content of the ring as a sequence.
LEMMA ContentSeq ==
    ASSUME NEW b \in Buffers, NEW t \in Counter, NEW n \in Nat
    PROVE  /\ Content(b, t, n) \in Seq(Cell)
           /\ Len(Content(b, t, n)) = n
           /\ \A i \in 1..n : Content(b, t, n)[i] = b[Slot(t + i - 1)]
<1> DEFINE q == Content(b, t, n)
<1>1. ASSUME NEW i \in 1..n PROVE b[Slot(t + i - 1)] \in Cell
  <2>1. Slot(t + i - 1) \in 0..(RbSize - 1)
    BY SlotType, t + i - 1 \in Int DEF Counter
  <2> QED BY <2>1 DEF Buffers
<1>2. q \in [1..n -> Cell]
  BY <1>1 DEF Content
<1>3. q \in Seq(Cell)
  BY <1>2, SeqDef
<1>4. DOMAIN q = 1..n /\ DOMAIN q = 1..Len(q) /\ Len(q) \in Nat
  BY <1>2, <1>3, LenProperties
<1> HIDE DEF q
<1>5. Len(q) = n
  BY <1>4
<1> QED BY <1>3, <1>5 DEF q, Content

\* rb_pop takes the first.
LEMMA ContentPop ==
    ASSUME NEW b \in Buffers, NEW h \in Counter, NEW t \in Counter, h # t
    PROVE  LET q == Content(b, t, Count(h, t))
           IN  /\ q # <<>> /\ Head(q) = b[Slot(t)]
               /\ Content(b, Incr(t), Count(h, Incr(t))) = Tail(q)
<1> DEFINE n == Count(h, t)
           q == Content(b, t, n)
           p == Content(b, Incr(t), n - 1)
<1>1. n \in Nat \ {0} /\ Incr(t) \in Counter /\ Count(h, Incr(t)) = n - 1
  BY CountType, CountPop, ImuAssumption DEF Counter
<1> HIDE DEF n
<1>2. q \in Seq(Cell) /\ Len(q) = n /\ \A i \in 1..n : q[i] = b[Slot(t + i - 1)]
  BY ContentSeq, <1>1
<1>3. p \in Seq(Cell) /\ Len(p) = n - 1
      /\ \A i \in 1..(n - 1) : p[i] = b[Slot(Incr(t) + i - 1)]
  BY ContentSeq, <1>1, n - 1 \in Nat
<1> HIDE DEF q, p
<1>4. q # <<>>
  BY <1>1, <1>2, EmptySeq
<1>5. Head(q) = b[Slot(t)]
  <2>1. Head(q) = q[1]
    BY <1>2, <1>4
  <2>2. q[1] = b[Slot(t + 1 - 1)] /\ t + 1 - 1 = t
    BY <1>1, <1>2 DEF Counter
  <2> QED BY <2>1, <2>2
<1>6. Tail(q) \in Seq(Cell) /\ Len(Tail(q)) = n - 1
      /\ \A i \in 1..(n - 1) : Tail(q)[i] = q[i + 1]
  BY <1>2, <1>4, HeadTailProperties
<1>7. ASSUME NEW i \in 1..(n - 1) PROVE p[i] = Tail(q)[i]
  <2>1. p[i] = b[Slot(Incr(t) + (i - 1))] /\ Incr(t) + i - 1 = Incr(t) + (i - 1)
    BY <1>3, <1>1 DEF Counter
  <2>2. Slot(Incr(t) + (i - 1)) = Slot(t + 1 + (i - 1))
    BY SlotOfNext, <1>1, i - 1 \in Int
  <2>3. q[i + 1] = b[Slot(t + (i + 1) - 1)] /\ t + (i + 1) - 1 = t + 1 + (i - 1)
    BY <1>2, <1>1, i + 1 \in 1..n DEF Counter
  <2> QED BY <2>1, <2>2, <2>3, <1>6
<1>8. p = Tail(q)
  BY <1>3, <1>6, <1>7, SeqEqual
<1> QED BY <1>1, <1>4, <1>5, <1>8 DEF p, q, n

\* rb_push appends.
LEMMA ContentPush ==
    ASSUME NEW b \in Buffers, NEW h \in Counter, NEW t \in Counter,
           NEW v \in Nat, Count(h, t) < RbSize
    PROVE  LET c == [b EXCEPT ![Slot(h)] = v]
           IN  /\ c \in Buffers
               /\ Content(c, t, Count(Incr(h), t)) = Append(Content(b, t, Count(h, t)), v)
<1> DEFINE n == Count(h, t)
           c == [b EXCEPT ![Slot(h)] = v]
           q == Content(b, t, n)
           p == Content(c, t, n + 1)
<1>1. n \in Nat /\ Count(Incr(h), t) = n + 1
  BY CountType, CountPush, ImuAssumption DEF Counter
<1>2. Slot(h) = Slot(t + n) /\ Slot(h) \in 0..(RbSize - 1)
  BY SlotOfHead, SlotType DEF Counter
<1>3. c \in Buffers
  BY <1>2 DEF Buffers, Cell
<1>4. c[Slot(h)] = v /\ \A s \in 0..(RbSize - 1) : s # Slot(h) => c[s] = b[s]
  BY <1>2 DEF Buffers
<1> HIDE DEF c, n
<1>5. q \in Seq(Cell) /\ Len(q) = n /\ \A i \in 1..n : q[i] = b[Slot(t + i - 1)]
  BY ContentSeq, <1>1
<1>6. p \in Seq(Cell) /\ Len(p) = n + 1
      /\ \A i \in 1..(n + 1) : p[i] = c[Slot(t + i - 1)]
  BY ContentSeq, <1>1, <1>3, n + 1 \in Nat
<1> HIDE DEF q, p
<1>7. Append(q, v) \in Seq(Cell) /\ Len(Append(q, v)) = n + 1
      /\ Append(q, v)[n + 1] = v /\ \A i \in 1..n : Append(q, v)[i] = q[i]
  BY <1>5, AppendProperties, v \in Cell DEF Cell
<1>8. p[n + 1] = v
  BY <1>1, <1>2, <1>4, <1>6, t + (n + 1) - 1 = t + n, n + 1 \in 1..(n + 1) DEF Counter
<1>9. ASSUME NEW i \in 1..n PROVE p[i] = q[i]
  <2>1. t + i - 1 \in Int /\ t + n \in Int /\ t + i - 1 < t + n /\ t + n < t + i - 1 + RbSize
    BY <1>1, ImuAssumption DEF Counter, n
  <2>2. Slot(t + i - 1) # Slot(t + n)
    BY <2>1, Apart, ImuAssumption DEF Slot
  <2>3. Slot(t + i - 1) \in 0..(RbSize - 1)
    BY <2>1, SlotType
  <2>4. p[i] = c[Slot(t + i - 1)] /\ q[i] = b[Slot(t + i - 1)]
    BY <1>1, <1>5, <1>6, i \in 1..(n + 1)
  <2> QED BY <2>2, <2>3, <2>4, <1>2, <1>4
<1>10. \A i \in 1..(n + 1) : p[i] = Append(q, v)[i]
  BY <1>1, <1>7, <1>8, <1>9
<1>11. p = Append(q, v)
  BY <1>6, <1>7, <1>10, SeqEqual
<1> QED BY <1>1, <1>3, <1>11 DEF p, q, c, n

-----------------------------------------------------------------------------
(* The ring implements the queue.                                          *)

\* The ring is never more than full, and a sample about to be pushed is newer
\* than those pushed before.
RingInv ==
    /\ buf \in Buffers /\ head \in Counter /\ tail \in Counter
    /\ rb_count <= RbSize
    /\ converted \in 0..MaxSamples /\ newest \in Nat /\ newest <= converted
    /\ ipc = "push" => newest < converted

\* All steps but conversion, push and pop
RestOf(t) ==
    \/ Prepare(t) \/ LoadFirst(t) \/ FoundData(t) \/ FoundEmpty(t) \/ WakeUp(t) \/ CopyOut(t)
    \/ User(t) \/ SignalOrTimeout(t)

\* The other steps of a call leave the ring alone.
LEMMA RestKeeps ==
    ASSUME NEW t \in Threads, RestOf(t)
    PROVE  UNCHANGED <<ring, irq>>
BY DEF RestOf, Prepare, LoadFirst, FoundData, FoundEmpty, WakeUp, CopyOut, User, SignalOrTimeout,
   imu_open, CloseFile, ReadShort, Call, ShareFile, Finish, Unseen, Goto

\* The steps, sorted.
LEMMA NextCases ==
    ASSUME [Next]_vars
    PROVE  \/ IrqRead \/ rb_push \/ IrqWake \/ UNCHANGED vars
           \/ \E t \in Threads : rb_pop(t) \/ RestOf(t)
BY DEF Next, Irq, InCall, RestOf

\* Initially the ring is the empty queue.
LEMMA RingInit == Init => RingInv /\ Fifo!Init
<1> SUFFICES ASSUME Init PROVE RingInv /\ Fifo!Init
  OBVIOUS
<1>1. head = 0 /\ tail = 0 /\ 0 \in Counter
  BY ImuAssumption DEF Init, Counter
<1>2. rb_count = 0
  BY <1>1, Difference DEF rb_count
<1>3. RingInv
  BY <1>1, <1>2, ImuAssumption DEF Init, RingInv, Buffers, Cell
<1>4. [i \in 1..rb_count |-> buf[Slot(tail + i - 1)]] = <<>>
  BY <1>1, <1>3, <1>2, ContentSeq, EmptySeq DEF Content, RingInv
<1> QED BY <1>3, <1>4 DEF Init, Fifo!Init

\* Every step is a push, a pop or nothing to the queue.
LEMMA RingStep ==
    RingInv /\ [Next]_vars => RingInv' /\ [Fifo!Next]_(Fifo!queueVars)
<1> SUFFICES ASSUME RingInv, [Next]_vars PROVE RingInv' /\ [Fifo!Next]_(Fifo!queueVars)
  OBVIOUS
<1> DEFINE q == [i \in 1..rb_count |-> buf[Slot(tail + i - 1)]]
<1>q. q = Content(buf, tail, Count(head, tail)) /\ q' = Content(buf', tail', Count(head', tail'))
  BY DEF Content, Count, rb_count
<1> HIDE DEF q
<1>i. /\ buf \in Buffers /\ head \in Counter /\ tail \in Counter /\ Count(head, tail) <= RbSize
      /\ converted \in 0..MaxSamples /\ newest \in Nat /\ newest <= converted
  BY DEF RingInv, rb_count, Count
<1>n. Len(q) = Count(head, tail) /\ Count(head, tail) \in Nat
  <2>1. Count(head, tail) \in Nat
    BY <1>i, CountType, ImuAssumption DEF Counter
  <2> QED BY <2>1, <1>q, <1>i, ContentSeq
<1>1. CASE UNCHANGED ring /\ converted' \in {converted, converted + 1} /\ converted' \in 0..MaxSamples
           /\ (ipc' = "push" => ipc = "push" \/ converted' = converted + 1)
  <2>1. RingInv'
    BY <1>1, <1>i, ImuAssumption DEF RingInv, ring, rb_count
  <2>2. q' = q
    BY <1>q, <1>1 DEF ring
  <2> QED BY <2>1, <2>2, <1>1 DEF ring, q, Fifo!queueVars
<1>2. CASE rb_push
  <2> DEFINE v == converted
             c == [buf EXCEPT ![Slot(head)] = v]
             s == IF Len(q) = RbSize THEN Incr(tail) ELSE tail
             r == IF Len(q) = RbSize THEN Tail(q) ELSE q
  <2>0. ipc = "push" /\ ipc' = "wake" /\ UNCHANGED <<popped, converted>> /\ newest' = v
    BY <1>2 DEF rb_push
  <2>1. buf' = c /\ head' = Incr(head) /\ tail' = s
    <3>1. rb_full <=> Len(q) = RbSize
      BY <1>n, <1>i, ImuAssumption DEF rb_full, rb_count, Count
    <3> QED BY <1>2, <3>1 DEF rb_push, Incr
  <2>2. s \in Counter /\ Count(head, s) < RbSize /\ r = Content(buf, s, Count(head, s))
    <3>1. CASE Len(q) = RbSize
      <4>1. head # tail
        BY <3>1, <1>n, <1>i, CountType, ImuAssumption
      <4>2. Incr(tail) \in Counter /\ Count(head, Incr(tail)) = Count(head, tail) - 1
        BY <4>1, <1>i, CountPop
      <4>3. Content(buf, Incr(tail), Count(head, Incr(tail))) = Tail(q)
        BY <4>1, <1>i, <1>q, ContentPop
      <4> QED BY <3>1, <4>2, <4>3, <1>n, ImuAssumption
    <3>2. CASE Len(q) # RbSize
      BY <3>2, <1>n, <1>i, <1>q, ImuAssumption
    <3> QED BY <3>1, <3>2
  <2> HIDE DEF s, r
  <2>3. v \in Sample /\ v \in Nat /\ v > newest
    BY <2>0, <1>i, ImuAssumption DEF RingInv, Sample
  <2>4. c \in Buffers /\ Content(c, s, Count(Incr(head), s)) = Append(r, v)
    BY <2>2, <2>3, <1>i, ContentPush
  <2>5. Incr(head) \in Counter /\ Count(Incr(head), s) = Count(head, s) + 1
    <3>1. Count(head, s) \in Nat /\ Count(head, s) < CtrMod - 1
      BY <2>2, <1>i, CountType, ImuAssumption DEF Counter
    <3> QED BY <3>1, <2>2, <1>i, CountPush
  <2> HIDE DEF c
  <2>6. RingInv'
    <3>1. rb_count' = Count(Incr(head), s)
      BY <2>1 DEF rb_count, Count
    <3>2. Count(head, s) + 1 <= RbSize
      BY <2>2, <1>i, CountType, ImuAssumption DEF Counter
    <3> QED BY <3>1, <3>2, <2>0, <2>1, <2>2, <2>3, <2>4, <2>5, <1>i DEF RingInv
  <2>7. q' = Append(r, v)
    BY <1>q, <2>1, <2>4
  <2>8. Fifo!Push
    BY <2>0, <2>3, <2>7 DEF Fifo!Push, q, r
  <2> QED BY <2>6, <2>8 DEF Fifo!Next
<1>3. ASSUME NEW t \in Threads, rb_pop(t), head # tail
      PROVE  RingInv' /\ [Fifo!Next]_(Fifo!queueVars)
  <2>1. /\ popped' = buf[Slot(tail)] /\ tail' = Incr(tail)
        /\ UNCHANGED <<buf, head, newest, converted, ipc>>
    BY <1>3 DEF rb_pop, rb_empty, Incr, irq
  <2>2. Incr(tail) \in Counter /\ Count(head, Incr(tail)) = Count(head, tail) - 1
    BY <1>3, <1>i, CountPop
  <2>3. q # <<>> /\ Head(q) = buf[Slot(tail)] /\ Content(buf, Incr(tail), Count(head, Incr(tail))) = Tail(q)
    BY <1>3, <1>i, <1>q, ContentPop
  <2>4. RingInv'
    <3>1. rb_count' = Count(head, Incr(tail))
      BY <2>1 DEF rb_count, Count
    <3> QED BY <3>1, <2>1, <2>2, <1>i, <1>n, ImuAssumption DEF RingInv
  <2>5. q' = Tail(q)
    BY <1>q, <2>1, <2>3
  <2>6. Fifo!Pop
    BY <2>1, <2>3, <2>5 DEF Fifo!Pop, q
  <2> QED BY <2>4, <2>6 DEF Fifo!Next
<1>4. CASE IrqRead
  BY <1>1, <1>4, <1>i, ImuAssumption DEF IrqRead
<1>5. CASE IrqWake \/ UNCHANGED vars
  BY <1>1, <1>5, <1>i DEF IrqWake, vars, ring
<1>6. ASSUME NEW t \in Threads, RestOf(t) PROVE RingInv' /\ [Fifo!Next]_(Fifo!queueVars)
  BY <1>1, <1>6, <1>i, RestKeeps DEF irq
<1>7. ASSUME NEW t \in Threads, rb_pop(t), head = tail
      PROVE  RingInv' /\ [Fifo!Next]_(Fifo!queueVars)
  BY <1>1, <1>7, <1>i DEF rb_pop, rb_empty, irq
<1> QED BY <1>2, <1>3, <1>4, <1>5, <1>6, <1>7, NextCases

\* rb_push and rb_pop, with counters that wrap at 2^32 and slots taken by a mask,
\* are the drop-oldest queue, whatever threads and interrupts do in between.
THEOREM RingIsFifo == Spec => ImplementsFifo
BY RingInit, RingStep, PTL DEF Spec, ImplementsFifo, Fifo!Spec

-----------------------------------------------------------------------------
(* The only user of the file.                                              *)

\* Only a thread that holds the file is in a call; a call that has not returned
\* has no result; a file that was not shared has one holder.
FileInv ==
    /\ opened \in BOOLEAN /\ wasShared \in BOOLEAN /\ holders \subseteq Threads
    /\ DOMAIN pc = Threads /\ DOMAIN op = Threads /\ DOMAIN seen = Threads /\ DOMAIN res = Threads
    /\ ~opened => holders = {}
    /\ ~wasShared => \A t, u \in holders : t = u
    /\ \A t \in Threads :
        /\ t \notin holders => pc[t] = "idle" /\ res[t] \notin {"EIO", "POLLIN"}
        /\ pc[t] # "idle" => res[t] = "none"

\* What the only user knows stays true, for nobody else takes samples: that there
\* is a sample, or, if the ring is empty, that it was empty at its first load.
Knows(t) ==
    /\ res[t] # "EIO"
    /\ res[t] = "POLLIN" => ~rb_empty
    /\ pc[t] = "pop" /\ op[t] # "readnb" => ~rb_empty
    /\ pc[t] \in {"cmp0", "cmp"} /\ rb_empty => seen[t][2] = head

AloneInv == FileInv /\ (~wasShared => \A t \in Threads : Knows(t))

\* Every step keeps FileInv.
LEMMA FileStep == FileInv /\ [Next]_vars => FileInv'
<1> SUFFICES ASSUME FileInv, [Next]_vars PROVE FileInv'
  OBVIOUS
<1> USE DEF FileInv
<1>1. CASE IrqRead \/ rb_push \/ IrqWake \/ UNCHANGED vars
  BY <1>1 DEF IrqRead, rb_push, IrqWake, vars, file, task
<1>2. ASSUME NEW t \in Threads, InCall(t) \/ SignalOrTimeout(t) \/ ReadShort(t) \/ Call(t)
      PROVE  FileInv'
  <2>1. t \in holders /\ UNCHANGED file
    BY <1>2 DEF InCall, Prepare, LoadFirst, FoundData, FoundEmpty, WakeUp, rb_pop, CopyOut,
       SignalOrTimeout, ReadShort, Call, file
  <2>2. \A u \in Threads \ {t} : pc'[u] = pc[u] /\ res'[u] = res[u]
    BY <1>2 DEF InCall, Prepare, LoadFirst, FoundData, FoundEmpty, WakeUp, rb_pop, CopyOut,
       SignalOrTimeout, ReadShort, Call, Finish, Goto
  <2>3. DOMAIN pc' = Threads /\ DOMAIN op' = Threads /\ DOMAIN seen' = Threads /\ DOMAIN res' = Threads
    BY <1>2 DEF InCall, Prepare, LoadFirst, FoundData, FoundEmpty, WakeUp, rb_pop, CopyOut,
       SignalOrTimeout, ReadShort, Call, Finish, Goto, Unseen
  <2>4. pc'[t] # "idle" => res'[t] = "none"
    BY <1>2 DEF InCall, Prepare, LoadFirst, FoundData, FoundEmpty, WakeUp, rb_pop, CopyOut,
       SignalOrTimeout, ReadShort, Call, Finish, Goto
  <2> QED BY <2>1, <2>2, <2>3, <2>4 DEF file
<1>3. ASSUME NEW t \in Threads, imu_open(t) PROVE FileInv'
  <2>1. CASE UNCHANGED file /\ res' = [res EXCEPT ![t] = "EBUSY"]
    BY <1>3, <2>1 DEF imu_open, file
  <2>2. CASE /\ ~opened /\ opened' = TRUE /\ holders' = {t} /\ wasShared' = FALSE
             /\ res' = [res EXCEPT ![t] = "OK"]
    <3>1. \A v, w \in holders' : v = w
      BY <2>2
    <3>2. opened' \in BOOLEAN /\ wasShared' \in BOOLEAN /\ opened'
      BY <2>2
    <3> QED BY <1>3, <2>2, <3>1, <3>2 DEF imu_open
  <2> QED BY <1>3, <2>1, <2>2 DEF imu_open
<1>4. ASSUME NEW t \in Threads, CloseFile(t) PROVE FileInv'
  BY <1>4 DEF CloseFile
<1>5. ASSUME NEW t \in Threads, NEW u \in Threads, ShareFile(t, u) PROVE FileInv'
  BY <1>5 DEF ShareFile, task
<1> QED BY <1>1, <1>2, <1>3, <1>4, <1>5 DEF Next, Irq, User

\* After a push the ring is not empty, also if the oldest sample had to go.
LEMMA PushFills ==
    ASSUME RingInv, rb_push
    PROVE  head' # tail'
<1>1. head \in Counter /\ tail \in Counter /\ head' = Incr(head) /\ rb_count = Count(head, tail)
  BY DEF RingInv, rb_push, Incr, rb_count, Count
<1>2. CASE rb_full
  <2>1. head # tail
    BY <1>1, <1>2, CountType, ImuAssumption DEF rb_full
  <2>2. tail' = Incr(tail)
    BY <1>2 DEF rb_push, Incr
  <2> QED BY <1>1, <2>1, <2>2, Increment, ImuAssumption DEF Incr, Counter
<1>3. CASE ~rb_full
  <2>1. Count(head, tail) \in Nat /\ Count(head, tail) < CtrMod - 1 /\ tail' = tail
    BY <1>1, <1>3, CountType, ImuAssumption DEF rb_full, rb_push, Counter
  <2>2. Incr(head) \in Counter /\ Count(Incr(head), tail) # 0
    BY <1>1, <2>1, CountPush
  <2> QED BY <1>1, <2>1, <2>2, CountType
<1> QED BY <1>2, <1>3

\* Every step keeps AloneInv.
LEMMA KnowsStep == RingInv /\ AloneInv /\ [Next]_vars => AloneInv'
<1> SUFFICES ASSUME RingInv, AloneInv, [Next]_vars, ~wasShared', NEW u \in Threads
             PROVE  Knows(u)'
  BY FileStep DEF AloneInv
<1>f. FileInv /\ FileInv'
  BY FileStep DEF AloneInv
<1>1. CASE rb_push
  <2>2. head' # tail'
    BY <1>1, PushFills
  <2> QED BY <1>1, <2>2, <1>f DEF rb_push, AloneInv, Knows, rb_empty, file, task
<1>2. CASE IrqRead \/ IrqWake \/ UNCHANGED vars
  BY <1>2 DEF IrqRead, IrqWake, vars, ring, file, task, AloneInv, Knows, rb_empty
<1>3. ASSUME NEW t \in Threads, InCall(t) \/ SignalOrTimeout(t) \/ ReadShort(t) \/ Call(t), u # t
      PROVE  Knows(u)'
  <2>1. t \in holders /\ UNCHANGED file
    BY <1>3, <1>f DEF InCall, Prepare, LoadFirst, FoundData, FoundEmpty, WakeUp, rb_pop, CopyOut,
       SignalOrTimeout, ReadShort, Call, file, FileInv
  <2>2. u \notin holders'
    BY <2>1, <1>f, <1>3 DEF FileInv, file
  <2> QED BY <2>2, <1>f DEF FileInv, Knows
<1>4. ASSUME Prepare(u) \/ WakeUp(u) \/ CopyOut(u) \/ ReadShort(u) \/ Call(u) \/ SignalOrTimeout(u)
      PROVE  Knows(u)'
  BY <1>4, <1>f DEF Prepare, WakeUp, CopyOut, ReadShort, Call, SignalOrTimeout, Finish, Goto,
     Knows, AloneInv, FileInv, file, ring, rb_empty
<1>5. ASSUME LoadFirst(u) PROVE Knows(u)'
  BY <1>5, <1>f DEF LoadFirst, Goto, Knows, AloneInv, FileInv, file, ring, rb_empty
<1>6. ASSUME FoundData(u) PROVE Knows(u)'
  BY <1>6, <1>f DEF FoundData, SeenEmpty, Finish, Goto, Knows, AloneInv, FileInv, file, ring, rb_empty
<1>7. ASSUME FoundEmpty(u) PROVE Knows(u)'
  BY <1>7, <1>f DEF FoundEmpty, Finish, Goto, Knows, AloneInv, FileInv, file, ring, rb_empty
<1>8. ASSUME rb_pop(u) PROVE Knows(u)'
  BY <1>8, <1>f DEF rb_pop, Finish, Goto, Knows, AloneInv, FileInv, file, ring, rb_empty
<1>9. ASSUME NEW t \in Threads, imu_open(t) PROVE Knows(u)'
  BY <1>9, <1>f DEF imu_open, Knows, AloneInv, FileInv, file, ring, rb_empty
<1>10. ASSUME NEW t \in Threads, CloseFile(t) PROVE Knows(u)'
  BY <1>10, <1>f DEF CloseFile, Knows, AloneInv, FileInv, ring, rb_empty
<1>11. ASSUME NEW t \in Threads, NEW v \in Threads, ShareFile(t, v) PROVE Knows(u)'
  BY <1>11 DEF ShareFile
<1> QED
  BY <1>1, <1>2, <1>3, <1>4, <1>5, <1>6, <1>7, <1>8, <1>9, <1>10, <1>11 DEF Next, Irq, User, InCall

\* Both invariants hold in every state.
LEMMA Alone == Spec => [](RingInv /\ AloneInv)
<1>1. Init => RingInv /\ AloneInv
  BY RingInit DEF Init, AloneInv, FileInv, Knows
<1>2. RingInv /\ AloneInv /\ [Next]_vars => (RingInv /\ AloneInv)'
  BY RingStep, KnowsStep
<1> QED BY <1>1, <1>2, PTL DEF Spec

\* The comment at the -EIO of imu_read, "should not happen", is right for a file
\* that is not shared, although the test and rb_pop are not one critical section.
THEOREM NoEIO == Spec => []NoEIOAlone
<1>1. AloneInv => NoEIOAlone
  BY DEF AloneInv, Knows, NoEIOAlone
<1> QED BY <1>1, Alone, PTL

\* What imu_poll told the only user of the file stays true until it reads.
THEOREM PollHolds == Spec => []PollTruthful
<1>1. AloneInv => PollTruthful
  BY DEF AloneInv, Knows, PollTruthful
<1> QED BY <1>1, Alone, PTL

-----------------------------------------------------------------------------
(* The wake-up.                                                            *)

\* What a queued thread has found out still holds while no wake-up is due, for head
\* has not moved since it queued: the head it loaded is head, the tail it loaded is at
\* most as near to head as tail is by now, and if it sleeps the ring is empty.
Queued(t) ==
    /\ pc[t] = "asleep" => rb_empty
    /\ pc[t] = "cmp" => \/ seen[t] = <<"head", head>>
                         \/ \E c \in Counter : /\ seen[t] = <<"tail", c>>
                                               /\ Count(head, tail) <= Count(head, c)

QueueInv ==
    /\ DOMAIN pc = Threads /\ DOMAIN seen = Threads
    /\ \A t \in Threads : t \in waiting /\ ipc # "wake" => Queued(t)

\* A queued thread that finds the ring empty is right.
LEMMA TestRight ==
    ASSUME RingInv, NEW t \in Threads, pc[t] = "cmp", Queued(t), SeenEmpty(t)
    PROVE  rb_empty
<1>1. head \in Counter /\ tail \in Counter
  BY DEF RingInv
<1>2. CASE seen[t] = <<"head", head>>
  BY <1>2 DEF SeenEmpty, rb_empty
<1>3. ASSUME NEW c \in Counter, seen[t] = <<"tail", c>>, Count(head, tail) <= Count(head, c)
      PROVE  rb_empty
  <2>1. c = head
    BY <1>3 DEF SeenEmpty
  <2>2. Count(head, c) = 0 /\ Count(head, tail) \in Nat
    BY <1>1, <2>1, CountType DEF Counter
  <2>3. Count(head, tail) = 0
    BY <1>3, <2>2
  <2> QED
    BY <1>1, <2>3, CountType DEF rb_empty
<1> QED
  BY <1>2, <1>3 DEF Queued

\* Every step keeps QueueInv.
LEMMA QueueStep == RingInv /\ QueueInv /\ [Next]_vars => QueueInv'
<1> SUFFICES ASSUME RingInv, QueueInv, [Next]_vars PROVE QueueInv'
  OBVIOUS
<1>r. head \in Counter /\ tail \in Counter
  BY DEF RingInv
<1>1. CASE IrqRead \/ UNCHANGED vars
  BY <1>1 DEF IrqRead, vars, ring, task, QueueInv, Queued, rb_empty
<1>2. CASE rb_push
  BY <1>2 DEF rb_push, task, QueueInv
<1>3. CASE IrqWake
  BY <1>3 DEF IrqWake, task, QueueInv
<1>4. ASSUME NEW u \in Threads, rb_pop(u) PROVE QueueInv'
  <2>1. /\ head' = head /\ ipc' = ipc /\ waiting' = waiting /\ seen' = seen
        /\ DOMAIN pc' = Threads
        /\ \A t \in Threads : pc'[t] \in {"asleep", "cmp"} => pc'[t] = pc[t]
    BY <1>4 DEF rb_pop, ring, irq, Finish, Goto, QueueInv
  <2>2. \/ tail' = tail
        \/ head # tail /\ tail' = Incr(tail)
    BY <1>4 DEF rb_pop, ring, rb_empty, Incr
  <2>3. tail' \in Counter /\ Count(head, tail') <= Count(head, tail)
        /\ (rb_empty => rb_empty')
    <3>0. Count(head, tail) \in Nat
      BY <1>r, CountType DEF Counter
    <3>1. CASE tail' = tail
      BY <1>r, <2>1, <3>0, <3>1 DEF rb_empty
    <3>2. CASE head # tail /\ tail' = Incr(tail)
      <4>1. Incr(tail) \in Counter /\ Count(head, Incr(tail)) = Count(head, tail) - 1
        BY <1>r, <3>2, CountPop
      <4> QED
        BY <3>0, <3>2, <4>1 DEF rb_empty
    <3> QED
      BY <2>2, <3>1, <3>2
  <2>4. ASSUME NEW t \in Threads, t \in waiting, ipc # "wake" PROVE Queued(t)'
    <3>1. Queued(t)
      BY <2>4 DEF QueueInv
    <3>2. pc'[t] = "asleep" => rb_empty'
      BY <2>1, <2>3, <3>1 DEF Queued
    <3>3. ASSUME pc'[t] = "cmp", NEW c \in Counter, seen[t] = <<"tail", c>>,
                 Count(head, tail) <= Count(head, c)
          PROVE  Count(head, tail') <= Count(head, c)
      BY <1>r, <2>3, <3>3, CountType DEF Counter
    <3> QED
      BY <2>1, <3>1, <3>2, <3>3 DEF Queued, Count
  <2> QED
    BY <2>1, <2>4 DEF QueueInv
<1>5. ASSUME NEW u \in Threads, RestOf(u) PROVE QueueInv'
  <2>1. head' = head /\ tail' = tail /\ ipc' = ipc
    BY <1>5, RestKeeps DEF ring, irq
  <2>2. DOMAIN pc' = Threads /\ DOMAIN seen' = Threads
    BY <1>5 DEF RestOf, Prepare, LoadFirst, FoundData, FoundEmpty, WakeUp, CopyOut, User,
       SignalOrTimeout, imu_open, CloseFile, ReadShort, Call, ShareFile, Finish, Unseen, Goto,
       QueueInv, task
  <2>3. ASSUME NEW t \in Threads, t # u, t \in waiting'
        PROVE  t \in waiting /\ pc'[t] = pc[t] /\ seen'[t] = seen[t]
    BY <1>5, <2>3 DEF RestOf, Prepare, LoadFirst, FoundData, FoundEmpty, WakeUp, CopyOut, User,
       SignalOrTimeout, imu_open, CloseFile, ReadShort, Call, ShareFile, Finish, Unseen, Goto,
       QueueInv, task
  <2>4. ASSUME NEW t \in Threads, t # u, t \in waiting', ipc' # "wake" PROVE Queued(t)'
    BY <2>1, <2>3, <2>4 DEF QueueInv, Queued, rb_empty
  <2>5. ASSUME u \in waiting', ipc # "wake" PROVE Queued(u)'
    <3>1. CASE LoadFirst(u)
      <4>1. pc'[u] \in {"cmp0", "cmp"} /\ seen'[u] \in {<<"head", head>>, <<"tail", tail>>}
        BY <3>1 DEF LoadFirst, Goto, QueueInv
      <4>2. Count(head, tail) <= Count(head, tail)
        BY <1>r, CountType DEF Counter
      <4> QED
        BY <1>r, <2>1, <4>1, <4>2 DEF Queued
    <3>2. CASE FoundEmpty(u)
      <4>1. pc'[u] = "asleep" => pc[u] = "cmp" /\ SeenEmpty(u) /\ u \in waiting
        BY <2>5, <3>2 DEF FoundEmpty, Finish, Goto, QueueInv
      <4>2. pc'[u] # "cmp"
        BY <3>2 DEF FoundEmpty, Finish, Goto, QueueInv
      <4>3. pc'[u] = "asleep" => rb_empty
        BY <2>5, <4>1, TestRight DEF QueueInv
      <4> QED
        BY <2>1, <4>2, <4>3 DEF Queued, rb_empty
    <3>3. CASE Prepare(u) \/ FoundData(u) \/ WakeUp(u) \/ CopyOut(u) \/ SignalOrTimeout(u)
               \/ ReadShort(u) \/ Call(u)
      <4>1. pc'[u] \notin {"asleep", "cmp"}
        BY <3>3 DEF Prepare, FoundData, WakeUp, CopyOut, SignalOrTimeout, ReadShort, Call,
           Finish, Goto, QueueInv
      <4> QED
        BY <4>1 DEF Queued
    <3>4. CASE imu_open(u) \/ CloseFile(u) \/ \E v \in Threads : ShareFile(u, v)
      <4>1. pc' = pc /\ seen' = seen /\ waiting' = waiting
        BY <3>4 DEF imu_open, CloseFile, ShareFile, task
      <4> QED
        BY <2>1, <2>5, <4>1 DEF QueueInv, Queued, rb_empty
    <3> QED
      BY <1>5, <3>1, <3>2, <3>3, <3>4 DEF RestOf, User
  <2> QED
    BY <2>1, <2>2, <2>4, <2>5 DEF QueueInv
<1> QED
  BY <1>1, <1>2, <1>3, <1>4, <1>5, NextCases

\* Whoever sleeps in imu_read or imu_poll while the ring holds a sample is about to be
\* woken, for any number of threads sharing the file, any ring size and whichever
\* counter the unlocked test loads first.
THEOREM Woken == Spec => []WakeupPending
<1>1. Init => QueueInv
  BY DEF Init, QueueInv
<1>2. QueueInv => WakeupPending
  BY DEF QueueInv, Queued, WakeupPending
<1> QED
  BY <1>1, <1>2, QueueStep, Alone, PTL DEF Spec
=============================================================================
