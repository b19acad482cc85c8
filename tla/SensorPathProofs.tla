-------------------------- MODULE SensorPathProofs --------------------------
(***************************************************************************)
(* Proofs about SensorPath, for any ring, any stale limit, any decimation, *)
(* any jitter of the loop, any movement of the wheel and failing reads.    *)
(***************************************************************************)
EXTENDS SensorPath, TLAPS

EncType ==
    /\ e \in [unread : Int, prev : Nat, dcount : Int, dts : Int, k : 0..(Decim - 1)]
    /\ win \in [start : Nat, moved : Int, fails : Nat]
    /\ encRec \in [ts : Nat, rpm : Int \X Int, truth : Int \X Int, upTo : Nat]
    /\ now \in Nat /\ sleepAt \in Nat

\* The accumulators of enc_state_t and the counts not yet read make up what has
\* happened since the last window ended.
Books ==
    /\ e.dcount + e.unread = win.moved
    /\ Running => e.dts = e.prev - win.start

EncInv == EncType /\ Books /\ WindowExact

-----------------------------------------------------------------------------
\* The encoder's state changes in SensorOpen and EncStep only.
LEMMA OthersEnc ==
    ASSUME Next, ~SensorOpen, ~EncStep
    PROVE  UNCHANGED encVars
BY DEF Next, Tick, IrqPush, IrqReadFails, SensorOpenFails, ImuEmpty, ImuSample, SensorLoop,
       Finished, encVars, vars

\* The three outcomes of a read keep the books.
LEMMA StepWindow ==
    ASSUME EncInv, now > e.prev, Running, Running', now' = now, sleepAt' \in Nat,
           NEW d \in Moves, ReadEndsWindow(d)
    PROVE  EncInv'
BY PathAssumption DEF EncInv, EncType, Books, WindowExact, ReadEndsWindow, enc_update,
     WindowEnds, Accumulated, NewWindow

\* A successful read of the encoder keeps the books.
LEMMA StepCounts ==
    ASSUME EncInv, now > e.prev, Running, Running', now' = now, sleepAt' \in Nat,
           NEW d \in Moves, ReadCounts(d)
    PROVE  EncInv'
BY PathAssumption DEF EncInv, EncType, Books, WindowExact, ReadCounts, enc_update,
     WindowEnds, Accumulated

\* A failing read keeps them.
LEMMA StepFails ==
    ASSUME EncInv, now > e.prev, Running, Running', now' = now, sleepAt' \in Nat,
           NEW d \in Moves, ReadFails(d)
    PROVE  EncInv'
<1>1. /\ e'.unread = e.unread + d
      /\ e'.prev = e.prev /\ e'.dcount = e.dcount /\ e'.dts = e.dts /\ e'.k = e.k
  BY DEF EncInv, EncType, ReadFails
<1>2. /\ win'.start = win.start /\ win'.moved = win.moved + d /\ win'.fails = win.fails + 1
  BY DEF EncInv, EncType, ReadFails
<1>3. /\ encRec'.ts = now
      /\ encRec'.rpm = encRec.rpm /\ encRec'.truth = encRec.truth /\ encRec'.upTo = encRec.upTo
  BY DEF EncInv, EncType, ReadFails
<1>4. d \in Int
  BY PathAssumption
<1>5. e' \in [unread : Int, prev : Nat, dcount : Int, dts : Int, k : 0..(Decim - 1)]
  BY <1>4 DEF EncInv, EncType, ReadFails
<1>6. EncType'
  BY <1>4, <1>5 DEF EncInv, EncType, ReadFails
<1>7. Books'
  BY <1>1, <1>2, <1>4 DEF EncInv, EncType, Books
<1> QED
  BY <1>3, <1>6, <1>7 DEF EncInv, WindowExact

\* Opening the devices starts the books.
LEMMA StepOpen ==
    ASSUME EncInv, SensorOpen
    PROVE  EncInv'
BY PathAssumption DEF EncInv, EncType, Books, WindowExact, SensorOpen, Accumulated, NewWindow

\* What EncStep does besides the read.
LEMMA StepRest ==
    ASSUME EncInv, EncStep
    PROVE  /\ now > e.prev /\ now' = now /\ Running /\ Running' /\ sleepAt' \in Nat
           /\ spc = "enc"
           /\ \/ spc' = "imu" /\ sleepAt' = sleepAt
              \/ spc' = "sleep" /\ sleepAt' = now
BY DEF EncStep, Running, Sleep, EncInv, EncType

\* The other steps, as far as time and the sensor thread are concerned.
Rest ==
    \/ /\ now' = now + 1 /\ sleepAt' = sleepAt /\ spc' = spc
       /\ Running => now < sleepAt + LoopMax
    \/ now' = now /\ sleepAt' = sleepAt /\ spc' = spc
    \/ now' = now /\ sleepAt' = now /\ spc = "imu" /\ spc' = "sleep"
    \/ now' = now /\ sleepAt' = sleepAt /\ now > sleepAt
       /\ spc = "sleep" /\ spc' \in {"enc", "returned"}
    \/ now' = now /\ sleepAt' = sleepAt /\ spc = "closed" /\ spc' = "returned"

\* The other steps leave the encoder state alone.
LEMMA NextRest ==
    ASSUME Next, ~SensorOpen, ~EncStep
    PROVE  Rest
<1>1. CASE Tick
  BY <1>1 DEF Tick, Rest
<1>2. CASE IrqPush \/ IrqReadFails
  BY <1>2 DEF IrqPush, IrqReadFails, Rest
<1>3. CASE SensorOpenFails
  BY <1>3 DEF SensorOpenFails, Rest
<1>4. CASE ImuEmpty \/ ImuSample
  BY <1>4 DEF ImuEmpty, ImuSample, Sleep, Rest
<1>5. CASE SensorLoop
  BY <1>5 DEF SensorLoop, Rest
<1>6. CASE Finished
  BY <1>6 DEF Finished, vars, Rest
<1> QED
  BY <1>1, <1>2, <1>3, <1>4, <1>5, <1>6 DEF Next

\* Initially the books are empty.
LEMMA InitEnc == Init => EncInv
BY PathAssumption DEF Init, EncInv, EncType, Books, WindowExact, NewWindow, Running

\* Every step keeps EncInv.
LEMMA NextEnc == EncInv /\ [Next]_vars => EncInv'
<1> SUFFICES ASSUME EncInv, [Next]_vars PROVE EncInv'
  OBVIOUS
<1>1. CASE SensorOpen
  BY <1>1, StepOpen
<1>2. CASE EncStep
  <2>1. PICK d \in Moves : ReadEndsWindow(d) \/ ReadCounts(d) \/ ReadFails(d)
    BY <1>2 DEF EncStep
  <2> QED
    BY <1>2, <2>1, StepRest, StepWindow, StepCounts, StepFails
<1>3. CASE Next /\ ~SensorOpen /\ ~EncStep
  <2>1. UNCHANGED <<e, win, encRec>>
    BY <1>3, OthersEnc DEF encVars
  <2>2. Rest
    BY <1>3, NextRest
  <2>3. now' \in Nat /\ sleepAt' \in Nat /\ (Running' => Running)
    BY <2>2 DEF Rest, EncInv, EncType, Running
  <2> QED
    BY <2>1, <2>3 DEF EncInv, EncType, Books, WindowExact
<1>4. CASE UNCHANGED vars
  BY <1>4 DEF vars, EncInv, EncType, Books, WindowExact, Running
<1> QED
  BY <1>1, <1>2, <1>3, <1>4

\* EncInv holds in every state.
LEMMA AlwaysEnc == Spec => []EncInv
BY InitEnc, NextEnc, PTL DEF Spec

\* Consecutive speed windows leave no count and no time out, however many reads of
\* the encoder fail in between.
THEOREM Windows == Spec => []WindowExact
<1>1. EncInv => WindowExact
  BY DEF EncInv
<1> QED
  BY <1>1, AlwaysEnc, PTL

-----------------------------------------------------------------------------
(* How old the published speed can be.                                     *)

\* The longest time that n iterations of the loop take.
Span(n) == n * LoopMax

\* The reads since the last window ended.
Reads == e.k + win.fails

\* The loop has spent at most LoopMax on each iteration since the last window.
AgeInv ==
    /\ Running => /\ encRec.upTo = win.start
                  /\ now <= sleepAt + LoopMax
    /\ spc \in {"enc", "sleep"} => sleepAt <= win.start - 1 + Span(Reads + 1)
    /\ spc = "imu" => sleepAt <= win.start - 1 + Span(Reads)
    /\ spc = "enc" => sleepAt <= e.prev \/ sleepAt < now
    /\ RpmAge

\* The time n iterations take at most.
LEMMA SpanSum ==
    /\ LoopMax \in Nat /\ LoopMax > 0
    /\ \A n \in Nat : Span(n) \in Nat /\ Span(n + 1) = Span(n) + LoopMax
    /\ \A m, n \in Nat : m <= n => Span(m) <= Span(n)
<1>1. LoopMax \in Nat /\ LoopMax > 0
  BY PathAssumption
<1>2. \A n \in Nat : Span(n) \in Nat /\ Span(n + 1) = Span(n) + LoopMax
  BY <1>1 DEF Span
<1>3. ASSUME NEW m \in Nat, NEW n \in Nat, m <= n PROVE Span(m) <= Span(n)
  <2>1. n - m \in Nat
    BY <1>3
  <2>2. (n - m) * LoopMax >= 0
    BY <1>1, <2>1
  <2> QED
    BY <1>1, <1>3, <2>2 DEF Span
<1> QED
  BY <1>1, <1>2, <1>3

\* A window, and the reads that failed in it, are longer than nothing.
LEMMA SpanWindow ==
    ASSUME EncType
    PROVE  /\ Reads \in Nat /\ win.fails \in Nat /\ Decim \in Nat
           /\ Span(Reads + 1) <= Span(Decim + win.fails)
           /\ Span(1) = LoopMax /\ Span(0) = 0
<1>1. e.k \in Nat /\ e.k + 1 <= Decim /\ win.fails \in Nat /\ Decim \in Nat
  BY PathAssumption DEF EncType
<1>2. Reads \in Nat /\ Reads + 1 <= Decim + win.fails /\ Decim + win.fails \in Nat
  BY <1>1 DEF Reads
<1>3. Reads + 1 \in Nat
  BY <1>2
<1>4. Span(Reads + 1) <= Span(Decim + win.fails)
  BY <1>2, <1>3, SpanSum
<1>5. Span(1) = LoopMax /\ Span(0) = 0
  BY SpanSum DEF Span
<1> QED
  BY <1>1, <1>2, <1>4, <1>5

\* A read that does not end the window, whether it succeeds or not.
LEMMA AgeRead ==
    ASSUME EncInv, EncInv', AgeInv, EncStep, NEW d \in Moves, ReadCounts(d) \/ ReadFails(d)
    PROVE  AgeInv'
<1>1. /\ now > e.prev /\ now' = now /\ spc = "enc" /\ Running
      /\ \/ spc' = "imu" /\ sleepAt' = sleepAt
         \/ spc' = "sleep" /\ sleepAt' = now
  BY StepRest
<1>2. win'.start = win.start /\ encRec'.ts = now /\ encRec'.upTo = encRec.upTo
  BY DEF ReadCounts, ReadFails, EncInv, EncType
<1>3. Reads' = Reads + 1
  <2>1. CASE ReadCounts(d)
    <3>1. win'.fails = win.fails
      BY <2>1 DEF ReadCounts, EncInv, EncType
    <3>2. e'.k = e.k + 1
      BY <2>1, <1>1 DEF ReadCounts, EncInv, EncType, enc_update, WindowEnds, Accumulated
    <3> QED
      BY <3>1, <3>2 DEF Reads, EncInv, EncType
  <2>2. CASE ReadFails(d)
    <3>1. win'.fails = win.fails + 1
      BY <2>2 DEF ReadFails, EncInv, EncType
    <3>2. e'.k = e.k
      BY <2>2 DEF ReadFails, EncInv, EncType
    <3> QED
      BY <3>1, <3>2 DEF Reads, EncInv, EncType
  <2> QED
    BY <2>1, <2>2
<1>4. /\ encRec.upTo = win.start /\ now <= sleepAt + LoopMax
      /\ sleepAt <= win.start - 1 + Span(Reads + 1)
  BY <1>1 DEF AgeInv
<1>5. now \in Nat /\ sleepAt \in Nat /\ win.start \in Nat /\ Reads \in Nat
  BY SpanWindow DEF EncInv, EncType
<1>6. LoopMax \in Nat /\ Reads' \in Nat
  BY <1>3, <1>5, PathAssumption
<1>7. now <= win.start - 1 + Span(Reads' + 1)
  <2> DEFINE a == Reads * LoopMax
  <2>1. a \in Nat
    BY <1>5, <1>6
  <2>2. Span(Reads + 1) = a + LoopMax
    BY <1>5, <1>6 DEF Span
  <2>3. Span(Reads' + 1) = (a + LoopMax) + LoopMax
    BY <1>3, <1>5, <1>6 DEF Span
  <2> HIDE DEF a
  <2> QED
    BY <1>4, <1>5, <1>6, <2>1, <2>2, <2>3
<1>8. Span(Reads' + 1) <= Span(Decim + win'.fails) /\ Span(Decim + win'.fails) \in Nat
  <2>1. EncType'
    BY DEF EncInv
  <2>2. win'.fails \in Nat /\ Decim \in Nat /\ Reads' \in Nat /\ e'.k + 1 <= Decim
    BY <2>1, PathAssumption, <1>3, <1>5 DEF EncType
  <2>3. Reads' + 1 <= Decim + win'.fails
    BY <2>1, <2>2 DEF Reads, EncType
  <2>4. Reads' + 1 \in Nat /\ Decim + win'.fails \in Nat
    BY <2>1, <2>2 DEF Reads, EncType
  <2>5. \A m, n \in Nat : m <= n => Span(m) <= Span(n)
    BY SpanSum
  <2>6. Span(Decim + win'.fails) \in Nat
    BY <2>4, SpanSum
  <2> QED
    BY <2>3, <2>4, <2>5, <2>6
<1>9. encRec'.ts - encRec'.upTo <= Span(Decim + win'.fails) - 1
  <2>1. (Reads' + 1) * LoopMax \in Nat
    <3>1. e'.k \in Nat /\ win'.fails \in Nat
      BY DEF EncInv, EncType
    <3> QED
      BY <1>6, <3>1 DEF Reads
  <2> QED
    BY <1>2, <1>4, <1>5, <1>7, <1>8, <2>1 DEF Span
<1>10. RpmAge'
  BY <1>9 DEF RpmAge, Span
<1>11. CASE spc' = "imu" /\ sleepAt' = sleepAt
  BY <1>1, <1>2, <1>3, <1>4, <1>5, <1>10, <1>11 DEF AgeInv, Running
<1>12. CASE spc' = "sleep" /\ sleepAt' = now
  BY <1>1, <1>2, <1>4, <1>5, <1>6, <1>7, <1>10, <1>12 DEF AgeInv, Running
<1> QED
  BY <1>1, <1>11, <1>12

\* Decim iterations take time.
LEMMA SpanPositive == Decim * LoopMax >= 1
<1>1. Decim \in Nat /\ Decim >= 1 /\ LoopMax \in Nat /\ LoopMax >= 1
  BY PathAssumption
<1> QED
  BY <1>1

\* A window ends: the speed is fresh.
LEMMA AgeWindow ==
    ASSUME EncInv, AgeInv, EncStep, NEW d \in Moves, ReadEndsWindow(d)
    PROVE  AgeInv'
<1>1. /\ now > e.prev /\ now' = now /\ spc = "enc" /\ Running
      /\ \/ spc' = "imu" /\ sleepAt' = sleepAt
         \/ spc' = "sleep" /\ sleepAt' = now
  BY StepRest
<1>2. win'.start = now /\ win'.fails = 0 /\ encRec'.ts = now /\ encRec'.upTo = now
  BY DEF ReadEndsWindow, NewWindow
<1>3. e'.k = 0
  BY <1>1 DEF ReadEndsWindow, enc_update, WindowEnds, Accumulated, EncInv, EncType
<1>4. now \in Nat /\ sleepAt \in Nat /\ sleepAt < now /\ now <= sleepAt + LoopMax
  BY <1>1 DEF AgeInv, EncInv, EncType
<1>5. LoopMax \in Nat /\ LoopMax > 0 /\ Decim \in Nat
  BY PathAssumption
<1>6. RpmAge'
  <2>1. encRec'.ts - encRec'.upTo = 0
    BY <1>2, <1>4
  <2>2. (Decim + win'.fails) * LoopMax = Decim * LoopMax
    BY <1>2, <1>5
  <2>3. Decim * LoopMax \in Nat
    BY <1>5
  <2> QED
    BY <2>1, <2>2, <2>3, SpanPositive DEF RpmAge
<1>7. Span(Reads)' = 0 /\ Span(Reads + 1)' = LoopMax
  BY <1>2, <1>3, <1>5 DEF Span, Reads
<1> QED
  BY <1>1, <1>2, <1>4, <1>5, <1>6, <1>7 DEF AgeInv, Running

\* The devices are opened.
LEMMA AgeOpen ==
    ASSUME EncInv, AgeInv, SensorOpen
    PROVE  AgeInv'
<1>1. now' = now /\ sleepAt' = now /\ spc' = "enc"
  BY DEF SensorOpen, imuVars
<1>2. /\ win'.start = now /\ win'.fails = 0 /\ encRec'.ts = now /\ encRec'.upTo = now
      /\ e'.prev = now /\ e'.k = 0
  BY DEF SensorOpen, NewWindow, Accumulated
<1>3. LoopMax \in Nat /\ LoopMax > 0 /\ Decim \in Nat /\ now \in Nat
  BY PathAssumption DEF EncInv, EncType
<1>4. RpmAge'
  <2>1. encRec'.ts - encRec'.upTo = 0
    BY <1>2, <1>3
  <2>2. (Decim + win'.fails) * LoopMax = Decim * LoopMax
    BY <1>2, <1>3
  <2>3. Decim * LoopMax \in Nat
    BY <1>3
  <2> QED
    BY <2>1, <2>2, <2>3, SpanPositive DEF RpmAge
<1>5. Span(Reads + 1)' = LoopMax
  BY <1>2, <1>3 DEF Span, Reads
<1> QED
  BY <1>1, <1>2, <1>3, <1>4, <1>5 DEF AgeInv, Running

\* Time passes, the loop goes to sleep, wakes up or ends.
LEMMA AgeRest ==
    ASSUME EncInv, AgeInv, Rest, UNCHANGED <<e, win, encRec>>
    PROVE  AgeInv'
<1>1. RpmAge' /\ Reads' = Reads
  BY DEF AgeInv, RpmAge, Reads
<1>2. /\ now \in Nat /\ sleepAt \in Nat /\ win.start \in Nat /\ LoopMax \in Nat
      /\ e.prev \in Nat
  BY PathAssumption DEF EncInv, EncType
<1> DEFINE a == Span(Reads)
           b == Span(Reads + 1)
<1>3. a \in Nat /\ b = a + LoopMax /\ Span(Reads)' = a /\ Span(Reads + 1)' = b
  <2>1. Reads \in Nat
    BY SpanWindow DEF EncInv
  <2>2. a \in Nat /\ b = a + LoopMax
    BY <2>1, <1>2 DEF Span
  <2>3. Span(Reads)' = a /\ Span(Reads + 1)' = b
    BY DEF Span, Reads
  <2> QED
    BY <2>2, <2>3
<1>4. /\ spc \in {"enc", "sleep"} => sleepAt <= win.start - 1 + b
      /\ spc = "imu" => sleepAt <= win.start - 1 + a
  BY DEF AgeInv
<1>5. /\ Running => encRec.upTo = win.start /\ now <= sleepAt + LoopMax
      /\ spc = "enc" => sleepAt <= e.prev \/ sleepAt < now
  BY DEF AgeInv
<1> HIDE DEF a, b
<1>6. /\ Running' => encRec'.upTo = win'.start /\ now' <= sleepAt' + LoopMax
      /\ spc' = "enc" => sleepAt' <= e'.prev \/ sleepAt' < now'
  BY <1>2, <1>5 DEF Rest, Running
<1>7. spc' \in {"enc", "sleep"} => sleepAt' <= win'.start - 1 + b
  BY <1>2, <1>3, <1>4, <1>5 DEF Rest, Running
<1>8. spc' = "imu" => sleepAt' <= win'.start - 1 + a
  BY <1>4 DEF Rest
<1> QED
  BY <1>1, <1>3, <1>6, <1>7, <1>8 DEF AgeInv

\* The stale test says nothing of the speed in a record that is stamped afresh in
\* every iteration; that speed is at most one window old, plus one iteration for
\* each read that failed.
THEOREM SpeedAge == Spec => []RpmAge
<1>1. Init => AgeInv
  <2> SUFFICES ASSUME Init PROVE AgeInv
    OBVIOUS
  <2>1. spc = "closed" /\ encRec.ts = 0 /\ encRec.upTo = 0 /\ win.fails = 0
    BY DEF Init, NewWindow
  <2>2. (Decim + win.fails) * LoopMax = Decim * LoopMax /\ Decim * LoopMax \in Nat
    BY <2>1, PathAssumption
  <2>3. RpmAge
    BY <2>1, <2>2, SpanPositive DEF RpmAge
  <2> QED
    BY <2>1, <2>3 DEF AgeInv, Running
<1>2. EncInv /\ EncInv' /\ AgeInv /\ [Next]_vars => AgeInv'
  <2> SUFFICES ASSUME EncInv, EncInv', AgeInv, [Next]_vars PROVE AgeInv'
    OBVIOUS
  <2>1. CASE SensorOpen
    BY <2>1, AgeOpen
  <2>2. CASE EncStep
    <3>1. PICK d \in Moves : ReadEndsWindow(d) \/ ReadCounts(d) \/ ReadFails(d)
      BY <2>2 DEF EncStep
    <3> QED
      BY <2>2, <3>1, AgeWindow, AgeRead
  <2>3. CASE Next /\ ~SensorOpen /\ ~EncStep
    <3>1. UNCHANGED <<e, win, encRec>>
      BY <2>3, OthersEnc DEF encVars
    <3> QED
      BY <2>3, <3>1, NextRest, AgeRest
  <2>4. CASE UNCHANGED vars
    BY <2>4 DEF vars, AgeInv, Running, RpmAge, Span, Reads
  <2> QED
    BY <2>1, <2>2, <2>3, <2>4
<1>3. AgeInv => RpmAge
  BY DEF AgeInv
<1> QED
  BY <1>1, <1>2, <1>3, AlwaysEnc, PTL DEF Spec

-----------------------------------------------------------------------------
(* The IMU half: the ring, and the tilt that is read from it.              *)

\* The ring and the times of the sensor thread.
QueueInv ==
    /\ now \in Nat /\ now > 0 /\ sleepAt \in Nat /\ sleepAt <= now /\ openAt \in Nat /\ openAt <= now
    /\ queue \in Seq(Nat) /\ Len(queue) <= RbSize
    /\ newest \in Nat /\ newest <= now /\ popped \in Nat
    /\ filled \in BOOLEAN
    /\ imuRec \in [ts : Nat, late : BOOLEAN]
    /\ spc = "closed" => popped = 0
    /\ spc = "imu" => imuOpen
    /\ Running => now <= sleepAt + LoopMax

\* Since when the loop has had nothing but the ring to read.
SilentSince == IF newest > openAt THEN newest ELSE openAt

\* What is left in the ring is worked off in time.
DrainInv ==
    /\ Running => imuRec.ts > 0 /\ imuRec.ts <= SilentSince + Span(RbSize)
    /\ (Running /\ imuOpen /\ queue # << >>) => sleepAt + Span(Len(queue)) <= SilentSince + Span(RbSize)

Pending == IF ready THEN 1 ELSE 0
Taken == IF sleepAt = now THEN 1 ELSE 0

\* While no interrupt is lost the ring holds consecutive samples up to the current
\* one, and after an overflow only the sample taken in this period is missing.
LagInv ==
    /\ spc = "enc" => sleepAt <= e.prev \/ sleepAt < now
    /\ spc = "imu" => sleepAt < now
    /\ newest = 0 => queue = << >>
    /\ ~lost => /\ newest > 0 => newest = now - Pending
                /\ \A i \in 1..Len(queue) : queue[i] = newest - Len(queue) + i
                /\ filled => Len(queue) + Pending >= RbSize - Taken
    /\ LagIsTheRing

\* What a push does to the ring: the oldest sample makes room in a full one.
LEMMA Pushed ==
    ASSUME QueueInv, IrqPush
    PROVE  /\ newest' = now /\ popped' = popped
           /\ queue' \in Seq(Nat)
           /\ Len(queue') = (IF Len(queue) = RbSize THEN RbSize ELSE Len(queue) + 1)
           /\ \A i \in 1..Len(queue') :
                queue'[i] = IF i = Len(queue') THEN now ELSE queue[i + (Len(queue) + 1 - Len(queue'))]
<1>1. /\ newest' = now /\ popped' = popped
      /\ queue' = Append(IF Len(queue) = RbSize THEN Tail(queue) ELSE queue, now)
  BY DEF IrqPush, Ring!Push
<1>2. queue \in Seq(Nat) /\ now \in Nat /\ RbSize \in Nat \ {0}
  BY PathAssumption DEF QueueInv
<1>3. CASE Len(queue) = RbSize
  <2>1. /\ Tail(queue) \in Seq(Nat) /\ Len(Tail(queue)) = RbSize - 1
        /\ \A i \in 1..(RbSize - 1) : Tail(queue)[i] = queue[i + 1]
    BY <1>2, <1>3
  <2>2. /\ queue' \in Seq(Nat) /\ Len(queue') = RbSize
        /\ \A i \in 1..RbSize : queue'[i] = IF i = RbSize THEN now ELSE Tail(queue)[i]
    BY <1>1, <1>2, <1>3, <2>1
  <2>3. Len(queue) + 1 - Len(queue') = 1
    BY <1>2, <1>3, <2>2
  <2> QED
    BY <1>1, <1>2, <1>3, <2>1, <2>2, <2>3
<1>4. CASE Len(queue) # RbSize
  <2>1. /\ queue' \in Seq(Nat) /\ Len(queue') = Len(queue) + 1
        /\ \A i \in 1..(Len(queue) + 1) : queue'[i] = IF i = Len(queue) + 1 THEN now ELSE queue[i]
    BY <1>1, <1>2, <1>4
  <2>2. Len(queue) + 1 - Len(queue') = 0
    BY <1>2, <2>1
  <2> QED
    <3>1. \A i \in 1..Len(queue') :
            queue'[i] = IF i = Len(queue') THEN now ELSE queue[i + (Len(queue) + 1 - Len(queue'))]
      BY <1>2, <2>1, <2>2
    <3> QED
      BY <1>1, <1>4, <2>1, <3>1
<1> QED
  BY <1>3, <1>4

\* What the read of a sample does to it.
LEMMA Popped ==
    ASSUME QueueInv, ImuSample
    PROVE  /\ newest' = newest /\ popped' = queue[1] /\ popped' \in Nat
           /\ queue' \in Seq(Nat) /\ Len(queue) \in Nat /\ Len(queue) >= 1
           /\ Len(queue') = Len(queue) - 1
           /\ \A i \in 1..Len(queue') : queue'[i] = queue[i + 1]
<1>1. newest' = newest /\ popped' = Head(queue) /\ queue' = Tail(queue) /\ queue # << >>
  BY DEF ImuSample, Ring!Pop
<1>2. queue \in Seq(Nat)
  BY DEF QueueInv
<1> QED
  BY <1>1, <1>2

\* Steps that leave the ring alone.
LEMMA RingKept ==
    ASSUME Next, ~IrqPush, ~ImuSample
    PROVE  UNCHANGED <<queue, newest, popped, filled>>
BY DEF Next, Tick, IrqReadFails, SensorOpen, SensorOpenFails, EncStep, ImuEmpty, SensorLoop,
       Finished, imuVars, vars

\* Initially the ring is empty.
LEMMA QueueInit == Init => QueueInv
<1> SUFFICES ASSUME Init PROVE QueueInv
  OBVIOUS
<1>1. queue = << >> /\ newest = 0 /\ popped = 0
  BY DEF Init, Ring!Init
<1>2. queue \in Seq(Nat) /\ Len(queue) <= RbSize
  BY <1>1, PathAssumption
<1>3. filled \in BOOLEAN
  BY Zenon DEF Init
<1>4. imuRec \in [ts : Nat, late : BOOLEAN]
  BY DEF Init
<1> QED
  BY <1>1, <1>2, <1>3, <1>4 DEF Init, QueueInv, Running

\* Every step keeps QueueInv.
LEMMA QueueStep == QueueInv /\ [Next]_vars => QueueInv'
<1> SUFFICES ASSUME QueueInv, [Next]_vars PROVE QueueInv'
  OBVIOUS
<1>0. LoopMax \in Nat \ {0} /\ RbSize \in Nat \ {0}
  BY PathAssumption
<1>1. CASE Tick
  BY <1>0, <1>1 DEF Tick, QueueInv, Running, encVars
<1>2. CASE IrqPush
  <2>1. queue' \in Seq(Nat) /\ Len(queue') <= RbSize /\ newest' = now /\ popped' = popped
    BY <1>0, <1>2, Pushed DEF QueueInv
  <2>2. filled' \in BOOLEAN
    BY <1>2 DEF IrqPush, QueueInv
  <2> QED
    BY <1>2, <2>1, <2>2 DEF IrqPush, QueueInv, Running
<1>3. CASE IrqReadFails
  BY <1>3 DEF IrqReadFails, QueueInv, Running
<1>4. CASE SensorOpen
  BY <1>0, <1>4 DEF SensorOpen, QueueInv, Running, imuVars
<1>5. CASE SensorOpenFails
  BY <1>5 DEF SensorOpenFails, QueueInv, Running, imuVars
<1>6. CASE EncStep
  BY <1>0, <1>6 DEF EncStep, QueueInv, Running, imuVars, Sleep
<1>7. CASE ImuEmpty
  BY <1>0, <1>7 DEF ImuEmpty, QueueInv, Running, imuVars, Sleep
<1>8. CASE ImuSample
  <2>1. queue' \in Seq(Nat) /\ Len(queue') <= RbSize /\ newest' = newest /\ popped' \in Nat
    BY <1>0, <1>8, Popped DEF QueueInv
  <2> QED
    BY <1>0, <1>8, <2>1 DEF ImuSample, QueueInv, Running, Sleep
<1>9. CASE SensorLoop
  BY <1>9 DEF SensorLoop, QueueInv, Running, imuVars
<1>10. CASE Finished \/ UNCHANGED vars
  BY <1>10 DEF Finished, vars, QueueInv, Running
<1> QED
  BY <1>1, <1>2, <1>3, <1>4, <1>5, <1>6, <1>7, <1>8, <1>9, <1>10 DEF Next

\* QueueInv holds in every state.
LEMMA AlwaysQueue == Spec => []QueueInv
BY QueueInit, QueueStep, PTL DEF Spec

\* One sample more takes one iteration more.
LEMMA SpanLen ==
    ASSUME QueueInv
    PROVE  /\ RbSize \in Nat /\ Len(queue) \in Nat /\ LoopMax \in Nat
           /\ Span(Len(queue)) \in Nat /\ Span(RbSize) \in Nat /\ Span(Len(queue)) <= Span(RbSize)
<1>1. RbSize \in Nat /\ Len(queue) \in Nat /\ Len(queue) <= RbSize /\ LoopMax \in Nat
  BY PathAssumption DEF QueueInv
<1> QED
  BY <1>1, SpanSum

\* The stale limit is counted from the last sample that was left in the ring.
LEMMA DrainStep == QueueInv /\ QueueInv' /\ DrainInv /\ [Next]_vars => DrainInv'
<1> SUFFICES ASSUME QueueInv, QueueInv', DrainInv, [Next]_vars PROVE DrainInv'
  OBVIOUS
<1> DEFINE n == Span(RbSize)
<1>1. LoopMax \in Nat /\ n \in Nat /\ Len(queue) \in Nat /\ Span(Len(queue)) \in Nat /\ Span(Len(queue)) <= n
  BY SpanLen
<1>2. Span(Len(queue))' \in Nat /\ Span(Len(queue))' <= n
  <2>1. RbSize \in Nat /\ Len(queue') \in Nat /\ Len(queue') <= RbSize
    BY PathAssumption DEF QueueInv
  <2>2. Span(Len(queue')) \in Nat /\ Span(Len(queue')) <= n
    BY <2>1, SpanSum
  <2> QED
    BY <2>2 DEF Span
<1>3. /\ now \in Nat /\ now > 0 /\ sleepAt \in Nat /\ newest \in Nat /\ openAt \in Nat /\ newest <= now
      /\ openAt <= now /\ sleepAt <= now /\ imuRec.ts \in Nat
  BY DEF QueueInv
<1>4. /\ Running => imuRec.ts > 0 /\ imuRec.ts <= SilentSince + n
      /\ (Running /\ imuOpen /\ queue # << >>) => sleepAt + Span(Len(queue)) <= SilentSince + n
  BY DEF DrainInv
<1>5. Span(RbSize)' = n
  BY DEF Span
<1> HIDE DEF n
<1>6. SUFFICES /\ Running' => imuRec'.ts > 0 /\ imuRec'.ts <= SilentSince' + n
               /\ (Running' /\ imuOpen' /\ queue' # << >>) => sleepAt' + Span(Len(queue))' <= SilentSince' + n
  BY <1>5 DEF DrainInv
<1>7. CASE IrqPush
  <2>1. newest' = now /\ UNCHANGED <<now, spc, imuOpen, sleepAt, openAt, imuRec>>
    BY <1>7, Pushed DEF IrqPush
  <2>2. SilentSince' = now /\ SilentSince <= now
    BY <1>3, <2>1 DEF SilentSince
  <2>3. SilentSince \in Nat /\ Running' = Running
    BY <1>3, <2>1 DEF SilentSince, Running
  <2> QED
    BY <1>1, <1>2, <1>3, <1>4, <2>1, <2>2, <2>3
<1>8. CASE ImuSample
  <2>1. /\ newest' = newest /\ Len(queue) >= 1 /\ Len(queue') = Len(queue) - 1 /\ queue # << >>
    BY <1>8, Popped DEF ImuSample, Ring!Pop
  <2>2. /\ imuRec'.ts = now /\ sleepAt' = now /\ openAt' = openAt /\ imuOpen
        /\ spc = "imu" /\ now <= sleepAt + LoopMax
    BY <1>8 DEF ImuSample, Sleep, QueueInv, Running
  <2>3. Span(Len(queue))' + LoopMax = Span(Len(queue))
    <3> DEFINE m == Len(queue) - 1
    <3>1. m \in Nat /\ m + 1 = Len(queue) /\ Len(queue') = m
      BY <1>1, <2>1
    <3> HIDE DEF m
    <3>2. Span(m + 1) = Span(m) + LoopMax /\ Span(m) \in Nat
      BY <3>1, SpanSum
    <3> QED
      BY <3>1, <3>2 DEF Span
  <2>4. SilentSince' = SilentSince /\ SilentSince \in Nat
    BY <1>3, <2>1, <2>2 DEF SilentSince
  <2>5. sleepAt + Span(Len(queue)) <= SilentSince + n
    BY <1>4, <2>1, <2>2 DEF Running
  <2>6. now + Span(Len(queue))' <= SilentSince + n
    BY <1>1, <1>2, <1>3, <2>2, <2>3, <2>4, <2>5
  <2>7. now <= SilentSince + n
    BY <1>1, <1>2, <1>3, <2>4, <2>6
  <2> QED
    BY <1>3, <2>2, <2>4, <2>6, <2>7
<1>9. CASE SensorOpen
  <2>1. /\ newest' = newest /\ queue' = queue /\ openAt' = now /\ sleepAt' = now /\ imuRec'.ts = now
    BY <1>9 DEF SensorOpen, imuVars, QueueInv
  <2>2. SilentSince' = now
    BY <1>3, <2>1 DEF SilentSince
  <2> QED
    BY <1>1, <1>2, <1>3, <2>1, <2>2
<1>10. CASE ~IrqPush /\ ~ImuSample /\ ~SensorOpen
  <2>1. /\ UNCHANGED <<queue, newest, openAt, imuRec, imuOpen>>
        /\ (Running' => Running) /\ (sleepAt' = sleepAt \/ ~imuOpen \/ queue = << >>)
    <3>1. CASE Next
      <4>1. UNCHANGED <<queue, newest>>
        BY <3>1, <1>10, RingKept
      <4> QED
        BY <3>1, <4>1, <1>10 DEF Next, Tick, IrqReadFails, SensorOpenFails, EncStep, ImuEmpty,
             SensorLoop, Finished, vars, Sleep, Running
    <3>2. CASE UNCHANGED vars
      BY <3>2 DEF vars, Running
    <3> QED
      BY <3>1, <3>2
  <2>2. SilentSince' = SilentSince /\ Span(Len(queue))' = Span(Len(queue))
    BY <2>1 DEF SilentSince, Span
  <2> QED
    BY <1>4, <2>1, <2>2
<1> QED
  BY <1>7, <1>8, <1>9, <1>10

\* A dead IMU makes every tick stale once the loop has worked off the ring and the
\* stale limit has passed, for any ring, any jitter and any stale limit.
THEOREM DeadImu == Spec => []DeadImuNoticed
<1>1. Init => DrainInv
  BY DEF Init, DrainInv, Running
<1>2. QueueInv /\ DrainInv => DeadImuNoticed
  <2> SUFFICES ASSUME QueueInv, DrainInv, Running, now > SilentSince + RbSize * LoopMax + Stale
               PROVE  IsStale
    BY DEF DeadImuNoticed, SilentSince
  <2> DEFINE n == Span(RbSize)
  <2>1. n \in Nat /\ now > SilentSince + n + Stale
    BY SpanLen DEF Span
  <2>2. imuRec.ts > 0 /\ imuRec.ts <= SilentSince + n
    BY DEF DrainInv
  <2>3. now \in Nat /\ SilentSince \in Nat /\ imuRec.ts \in Nat /\ Stale \in Nat
    BY PathAssumption DEF QueueInv, SilentSince
  <2> HIDE DEF n
  <2>4. Age(imuRec.ts) > Stale
    BY <2>1, <2>2, <2>3 DEF Age
  <2> QED
    BY <2>4 DEF IsStale
<1> QED
  BY <1>1, <1>2, DrainStep, AlwaysQueue, PTL DEF Spec

-----------------------------------------------------------------------------
(* How late the tilt is.                                                   *)

\* A sample read at this moment, while no interrupt has been lost, is as old as the
\* ring is long.
LEMMA LagNow ==
    ASSUME QueueInv, LagInv, ~lost, spc = "imu", Len(queue) >= 1
    PROVE  /\ now - queue[1] <= RbSize
           /\ filled => now - queue[1] >= RbSize - 1
<1>1. /\ now \in Nat /\ newest \in Nat /\ Len(queue) \in Nat /\ Len(queue) <= RbSize /\ RbSize \in Nat
      /\ Pending \in {0, 1}
  BY PathAssumption DEF QueueInv, Pending
<1>2. /\ newest > 0 => newest = now - Pending
      /\ \A i \in 1..Len(queue) : queue[i] = newest - Len(queue) + i
      /\ filled => Len(queue) + Pending >= RbSize - Taken
      /\ newest = 0 => queue = << >>
      /\ sleepAt < now
  BY DEF LagInv
<1>3. newest > 0 /\ newest = now - Pending
  BY <1>1, <1>2
<1>4. queue[1] = newest - Len(queue) + 1
  BY <1>1, <1>2
<1>5. Taken = 0
  BY <1>1, <1>2 DEF Taken, QueueInv
<1>6. now - queue[1] = Pending + Len(queue) - 1
  BY <1>1, <1>3, <1>4
<1> QED
  BY <1>1, <1>2, <1>5, <1>6

\* Every step keeps LagInv.
LEMMA LagStep == EncInv /\ QueueInv /\ QueueInv' /\ LagInv /\ [Next]_vars => LagInv'
<1> SUFFICES ASSUME EncInv, QueueInv, QueueInv', LagInv, [Next]_vars PROVE LagInv'
  OBVIOUS
<1>1. /\ now \in Nat /\ sleepAt \in Nat /\ sleepAt <= now /\ newest \in Nat /\ newest <= now
      /\ Len(queue) \in Nat /\ Len(queue) <= RbSize /\ RbSize \in Nat \ {0} /\ e.prev \in Nat
      /\ imuRec.ts \in Nat /\ popped \in Nat /\ queue \in Seq(Nat) /\ now > 0
  BY PathAssumption DEF QueueInv, EncInv, EncType
<1>2. CASE Tick
  <2>1. /\ now' = now + 1 /\ ready' = TRUE /\ lost' = (lost \/ ready)
        /\ UNCHANGED <<queue, newest, popped, filled, spc, sleepAt, imuRec, e>>
    BY <1>2 DEF Tick, encVars
  <2>2. Taken' = 0 /\ Pending' = 1
    BY <1>1, <2>1 DEF Taken, Pending
  <2>3. LagIsTheRing'
    BY <2>1 DEF LagInv, LagIsTheRing
  <2>4. /\ spc' = "enc" => sleepAt' <= e'.prev \/ sleepAt' < now'
        /\ spc' = "imu" => sleepAt' < now'
        /\ newest' = 0 => queue' = << >>
    BY <1>1, <2>1 DEF LagInv
  <2>5. ASSUME ~lost'
        PROVE  /\ newest' > 0 => newest' = now' - Pending'
               /\ \A i \in 1..Len(queue') : queue'[i] = newest' - Len(queue') + i
               /\ filled' => Len(queue') + Pending' >= RbSize - Taken'
    <3>1. ~lost /\ ~ready
      BY <2>1, <2>5, Zenon
    <3>2. Pending = 0 /\ Taken \in {0, 1}
      BY <3>1 DEF Pending, Taken
    <3> QED
      BY <1>1, <2>1, <2>2, <3>1, <3>2 DEF LagInv
  <2> QED
    BY <2>3, <2>4, <2>5 DEF LagInv
<1>3. CASE IrqPush
  <2>1. /\ newest' = now /\ popped' = popped
        /\ Len(queue') = (IF Len(queue) = RbSize THEN RbSize ELSE Len(queue) + 1)
        /\ \A i \in 1..Len(queue') :
             queue'[i] = IF i = Len(queue') THEN now ELSE queue[i + (Len(queue) + 1 - Len(queue'))]
    BY <1>3, Pushed
  <2>2. /\ ready /\ ready' = FALSE /\ filled' = (filled \/ Len(queue') = RbSize)
        /\ UNCHANGED <<now, lost, spc, sleepAt, imuRec, e>>
    BY <1>3 DEF IrqPush, encVars
  <2>3. Pending = 1 /\ Pending' = 0 /\ Taken' = Taken /\ Taken \in {0, 1}
    BY <2>2 DEF Pending, Taken
  <2>4. LagIsTheRing'
    BY <2>1, <2>2 DEF LagInv, LagIsTheRing
  <2>5. /\ spc' = "enc" => sleepAt' <= e'.prev \/ sleepAt' < now'
        /\ spc' = "imu" => sleepAt' < now'
        /\ newest' = 0 => queue' = << >>
    BY <1>1, <2>1, <2>2 DEF LagInv
  <2>6. ASSUME ~lost
        PROVE  /\ newest' = now' - Pending'
               /\ \A i \in 1..Len(queue') : queue'[i] = newest' - Len(queue') + i
               /\ filled' => Len(queue') + Pending' >= RbSize - Taken'
    <3>0. Len(queue') \in Nat
      BY <1>1, <2>1
    <3>1. newest' = now' - Pending'
      BY <1>1, <2>1, <2>2, <2>3
    <3>2. filled' => Len(queue') + Pending' >= RbSize - Taken'
      <4>1. filled => Len(queue) + 1 >= RbSize - Taken
        BY <2>3, <2>6 DEF LagInv
      <4>2. filled' => filled \/ Len(queue') = RbSize
        BY <2>2, Zenon
      <4> QED
        BY <1>1, <2>1, <2>3, <4>1, <4>2
    <3>3. ASSUME NEW i \in 1..Len(queue'), i # Len(queue')
          PROVE  queue'[i] = newest' - Len(queue') + i
      <4> DEFINE j == i + (Len(queue) + 1 - Len(queue'))
      <4>1. j \in 1..Len(queue) /\ queue'[i] = queue[j]
        <5>1. j \in 1..Len(queue)
          BY <1>1, <2>1, <3>3, <3>0
        <5>2. queue'[i] = queue[j]
          BY <2>1, <3>3
        <5> QED
          BY <5>1, <5>2
      <4>2. queue[j] = newest - Len(queue) + j
        BY <4>1, <2>6 DEF LagInv
      <4>3. queue # << >>
        BY <1>1, <4>1
      <4>4. newest = now - 1
        BY <1>1, <2>3, <2>6, <4>3 DEF LagInv
      <4> QED
        BY <1>1, <2>1, <4>1, <4>2, <4>4
    <3>4. ASSUME NEW i \in 1..Len(queue'), i = Len(queue')
          PROVE  queue'[i] = newest' - Len(queue') + i
      <4>1. queue'[i] = now
        BY <2>1, <3>4
      <4> QED
        BY <1>1, <2>1, <3>0, <3>4, <4>1
    <3> QED
      BY <3>1, <3>2, <3>3, <3>4
  <2> QED
    BY <2>2, <2>4, <2>5, <2>6 DEF LagInv
<1>4. CASE IrqReadFails
  <2>1. lost' = TRUE /\ UNCHANGED <<now, queue, newest, spc, sleepAt, e>>
    BY <1>4 DEF IrqReadFails, encVars
  <2> QED
    BY <2>1 DEF LagInv, LagIsTheRing
<1>5. CASE ImuSample
  <2>1. /\ newest' = newest /\ popped' = queue[1] /\ Len(queue) >= 1 /\ Len(queue') = Len(queue) - 1
        /\ \A i \in 1..Len(queue') : queue'[i] = queue[i + 1]
    BY <1>5, Popped
  <2>2. /\ spc = "imu" /\ spc' = "sleep" /\ sleepAt' = now /\ imuRec'.ts = now /\ imuRec'.late = filled
        /\ UNCHANGED <<now, ready, lost, filled>>
    BY <1>5 DEF ImuSample, Sleep
  <2>3. Taken' = 1 /\ Taken = 0 /\ Pending' = Pending /\ Pending \in {0, 1}
    BY <1>1, <2>2 DEF Taken, Pending, LagInv
  <2>4. LagIsTheRing'
    BY <2>1, <2>2, LagNow DEF LagIsTheRing
  <2>5. newest' = 0 => queue' = << >>
    BY <1>1, <2>1 DEF LagInv
  <2>6. ASSUME ~lost
        PROVE  /\ newest' > 0 => newest' = now' - Pending'
               /\ \A i \in 1..Len(queue') : queue'[i] = newest' - Len(queue') + i
               /\ filled' => Len(queue') + Pending' >= RbSize - Taken'
    <3>1. newest' > 0 => newest' = now' - Pending'
      BY <2>1, <2>2, <2>3, <2>6 DEF LagInv
    <3>2. filled' => Len(queue') + Pending' >= RbSize - Taken'
      BY <1>1, <2>1, <2>2, <2>3, <2>6 DEF LagInv
    <3>3. ASSUME NEW i \in 1..Len(queue') PROVE queue'[i] = newest' - Len(queue') + i
      <4>1. i + 1 \in 1..Len(queue) /\ queue'[i] = queue[i + 1]
        BY <1>1, <2>1
      <4>2. queue[i + 1] = newest - Len(queue) + (i + 1)
        BY <4>1, <2>6 DEF LagInv
      <4> QED
        BY <1>1, <2>1, <4>1, <4>2
    <3> QED
      BY <3>1, <3>2, <3>3
  <2> QED
    BY <2>2, <2>4, <2>5, <2>6 DEF LagInv
<1>6. CASE SensorOpen \/ SensorOpenFails \/ EncStep \/ ImuEmpty \/ SensorLoop \/ Finished \/ UNCHANGED vars
  <2>1. /\ UNCHANGED <<now, ready, lost, queue, newest, popped, filled>>
        /\ sleepAt' \in {sleepAt, now}
    BY <1>6 DEF SensorOpen, SensorOpenFails, EncStep, ImuEmpty, SensorLoop, Finished, vars,
         imuVars, Sleep
  <2>2. /\ spc' = "enc" => sleepAt' <= e'.prev \/ sleepAt' < now'
        /\ spc' = "imu" => sleepAt' < now'
    BY <1>1, <1>6 DEF SensorOpen, SensorOpenFails, EncStep, ImuEmpty, SensorLoop, Finished, vars,
         encVars, imuVars, Sleep, LagInv, Accumulated
  <2>3. imuRec' = imuRec \/ popped' = 0
    BY <1>6 DEF SensorOpen, SensorOpenFails, EncStep, ImuEmpty, SensorLoop, Finished, vars,
         imuVars, QueueInv
  <2>4. LagIsTheRing'
    BY <1>1, <2>1, <2>3 DEF LagInv, LagIsTheRing
  <2>5. Pending' = Pending /\ Taken \in {0, 1} /\ Taken' \in {0, 1} /\ Taken' >= Taken
    BY <1>1, <2>1 DEF Pending, Taken
  <2>6. Pending \in {0, 1}
    BY DEF Pending
  <2>7. ASSUME ~lost
        PROVE  /\ newest' > 0 => newest' = now' - Pending'
               /\ \A i \in 1..Len(queue') : queue'[i] = newest' - Len(queue') + i
               /\ filled' => Len(queue') + Pending' >= RbSize - Taken'
    BY <1>1, <2>1, <2>5, <2>6, <2>7 DEF LagInv
  <2>8. newest' = 0 => queue' = << >>
    BY <2>1 DEF LagInv
  <2> QED
    BY <2>1, <2>2, <2>4, <2>7, <2>8 DEF LagInv
<1> QED
  BY <1>2, <1>3, <1>4, <1>5, <1>6 DEF Next

\* While no interrupt is lost the tilt is at most RB_SIZE samples late, and from the
\* first overflow on never less: for any ring, any jitter and whenever the device
\* is opened.
THEOREM Lag == Spec => []LagIsTheRing
<1>1. Init => LagInv
  <2> SUFFICES ASSUME Init PROVE LagInv
    OBVIOUS
  <2>1. /\ queue = << >> /\ newest = 0 /\ popped = 0 /\ spc = "closed" /\ filled = FALSE
    BY DEF Init, Ring!Init
  <2> QED
    BY <2>1 DEF LagInv, LagIsTheRing
<1>2. LagInv => LagIsTheRing
  BY DEF LagInv
<1> QED
  BY <1>1, <1>2, LagStep, AlwaysEnc, AlwaysQueue, PTL DEF Spec
=============================================================================
