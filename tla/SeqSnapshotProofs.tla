------------------------- MODULE SeqSnapshotProofs -------------------------
(***************************************************************************)
(* Proofs about SeqSnapshot for any number of fields, readers and writes.  *)
(***************************************************************************)
EXTENDS SeqSnapshot, TLAPS

\* A counter that does not reach its modulus is not changed by wrapping.
LEMMA NoWrap ==
    ASSUME NEW n \in Nat, NEW m \in Nat, n < m
    PROVE  n % m = n
OBVIOUS

\* Where the writer is determines seq and the version of every field.
WriterInv ==
    /\ wpc = "idle" => toStore = {} /\ seq = 2 * writes
    /\ wpc = "called" => writes >= 1 /\ seq = 2 * writes - 2 /\ (InOrder => toStore = Fields)
    /\ wpc = "open" => writes >= 1 /\ seq = 2 * writes - 1
    /\ \A f \in Fields : mem[f] = IF f \in toStore THEN writes - 1 ELSE writes

\* What a reader inside shared_*_read knows of the counter and of the fields it
\* already loaded.  The last conjunct of LoadedInv is the heart of the protocol:
\* as long as the counter has not moved since s1, the loaded fields are those of
\* version s1/2.
CounterInv(r) ==
    /\ since[r] <= published
    /\ pc[r] \in {"load", "check"} => ~IsOdd(s1[r]) /\ 2 * since[r] <= s1[r] /\ s1[r] <= seq
    /\ pc[r] = "check" => s1[r] <= s2[r] /\ s2[r] <= seq /\ (InOrder => toLoad[r] = {})

LoadedInv(r, f) ==
    /\ 2 * local[r][f] >= s1[r]
    /\ local[r][f] >= snap[r][f]
    /\ InOrder /\ pc[r] = "load" /\ seq = s1[r] => 2 * local[r][f] = s1[r]
    /\ InOrder /\ pc[r] = "check" /\ s2[r] = s1[r] => 2 * local[r][f] = s1[r]

ReaderInv(r) ==
    /\ CounterInv(r)
    /\ pc[r] \in {"load", "check"} => \A f \in Fields \ toLoad[r] : LoadedInv(r, f)
    /\ \A f \in Fields : snap[r][f] <= mem[f] /\ local[r][f] <= mem[f]
    /\ InOrder => \A f, g \in Fields : snap[r][f] = snap[r][g]

\* The inductive invariant.
IInv == TypeOK /\ WriterInv /\ \A r \in Readers : ReaderInv(r)

\* The initial record, version 0 everywhere, satisfies the invariant.
LEMMA InitIInv == Init => IInv
BY SeqAssumption DEF Init, IInv, TypeOK, WriterInv, ReaderInv, CounterInv, LoadedInv,
   Version, published, IsOdd

\* The arithmetic of the counter: it is determined by the writer's position,
\* so the two increments of a write stay below the modulus.
LEMMA CounterStep ==
    ASSUME TypeOK, WriterInv, wpc # "idle"
    PROVE  (seq + 1) % SeqMod = seq + 1 /\ seq + 1 \in 0..(SeqMod - 1)
<1>1. seq + 1 \in Nat /\ seq + 1 <= 2 * MaxWrites
  BY SeqAssumption DEF TypeOK, WriterInv
<1>2. seq + 1 < SeqMod
  BY <1>1, SeqAssumption
<1> QED
  BY <1>1, <1>2, NoWrap, SeqAssumption

\* Every step of the writer and of the readers keeps the invariant.
LEMMA NextIInv == IInv /\ [Next]_vars => IInv'
<1> SUFFICES ASSUME IInv, [Next]_vars PROVE IInv'
  OBVIOUS
<1> USE SeqAssumption
<1>1. CASE WriteCall
  <2>1. TypeOK' /\ WriterInv'
    BY <1>1 DEF WriteCall, IInv, TypeOK, WriterInv, readerVars
  <2>2. ASSUME NEW r \in Readers PROVE ReaderInv(r)'
    BY <1>1 DEF WriteCall, IInv, TypeOK, WriterInv, readerVars, ReaderInv, CounterInv,
       LoadedInv, published
  <2> QED BY <2>1, <2>2 DEF IInv
<1>2. CASE StoreOdd
  <2>0. seq' = seq + 1 /\ seq' \in 0..(SeqMod - 1)
    BY <1>2, CounterStep DEF StoreOdd, IInv
  <2>1. TypeOK' /\ WriterInv'
    BY <1>2, <2>0 DEF StoreOdd, IInv, TypeOK, WriterInv, readerVars
  <2>2. ASSUME NEW r \in Readers PROVE ReaderInv(r)'
    BY <1>2, <2>0 DEF StoreOdd, IInv, TypeOK, WriterInv, readerVars, ReaderInv, CounterInv,
       LoadedInv, published
  <2> QED BY <2>1, <2>2 DEF IInv
<1>3. CASE StoreEven
  <2>0. seq' = seq + 1 /\ seq' \in 0..(SeqMod - 1)
    BY <1>3, CounterStep DEF StoreEven, IInv
  <2>1. TypeOK' /\ WriterInv'
    <3>1. TypeOK'
      BY <1>3, <2>0 DEF StoreEven, IInv, TypeOK, readerVars
    <3>2. toStore' = {} /\ mem' = mem /\ wpc' = "idle" /\ writes' = writes
      BY <1>3 DEF StoreEven
    <3>4. seq = 2 * writes - 1 /\ writes \in Nat
      BY <1>3 DEF StoreEven, IInv, TypeOK, WriterInv
    <3>5. seq' = 2 * writes
      BY <2>0, <3>4
    <3>3. \A f \in Fields : mem[f] = writes
      BY <1>3 DEF StoreEven, IInv, WriterInv
    <3> QED BY <3>1, <3>2, <3>3, <3>5 DEF WriterInv
  <2>2. ASSUME NEW r \in Readers PROVE ReaderInv(r)'
    BY <1>3, <2>0 DEF StoreEven, IInv, TypeOK, WriterInv, readerVars, ReaderInv, CounterInv,
       LoadedInv, published
  <2> QED BY <2>1, <2>2 DEF IInv
<1>4. ASSUME NEW f \in Fields, StoreField(f) PROVE IInv'
  <2>1. TypeOK' /\ WriterInv'
    BY <1>4 DEF StoreField, IInv, TypeOK, WriterInv, readerVars
  <2>2. ASSUME NEW r \in Readers PROVE ReaderInv(r)'
    BY <1>4 DEF StoreField, IInv, TypeOK, WriterInv, readerVars, ReaderInv, CounterInv,
       LoadedInv, published
  <2> QED BY <2>1, <2>2 DEF IInv
<1>5. ASSUME NEW q \in Readers, ReadCall(q) PROVE IInv'
  <2>1. TypeOK' /\ WriterInv'
    BY <1>5 DEF ReadCall, IInv, TypeOK, WriterInv, writerVars, published
  <2>2. ASSUME NEW r \in Readers PROVE ReaderInv(r)'
    BY <1>5 DEF ReadCall, IInv, TypeOK, WriterInv, writerVars, ReaderInv, CounterInv,
       LoadedInv, published
  <2> QED BY <2>1, <2>2 DEF IInv
<1>6. ASSUME NEW q \in Readers, LoadS1(q) PROVE IInv'
  <2>1. TypeOK' /\ WriterInv'
    BY <1>6 DEF LoadS1, IInv, TypeOK, WriterInv, writerVars
  <2>2. ASSUME NEW r \in Readers PROVE ReaderInv(r)'
    BY <1>6 DEF LoadS1, IInv, TypeOK, WriterInv, writerVars, ReaderInv, CounterInv,
       LoadedInv, published, IsOdd
  <2> QED BY <2>1, <2>2 DEF IInv
<1>7. ASSUME NEW q \in Readers, LoadS2(q) PROVE IInv'
  <2>1. TypeOK' /\ WriterInv'
    BY <1>7 DEF LoadS2, IInv, TypeOK, WriterInv, writerVars
  <2>2. ASSUME NEW r \in Readers PROVE ReaderInv(r)'
    BY <1>7 DEF LoadS2, IInv, TypeOK, WriterInv, writerVars, ReaderInv, CounterInv,
       LoadedInv, published
  <2> QED BY <2>1, <2>2 DEF IInv
<1>8. ASSUME NEW q \in Readers, NEW f \in Fields, LoadField(q, f) PROVE IInv'
  <2>1. TypeOK' /\ WriterInv'
    BY <1>8 DEF LoadField, IInv, TypeOK, WriterInv, writerVars
  <2>2. ASSUME NEW r \in Readers PROVE ReaderInv(r)'
    <3>1. CASE r # q
      BY <1>8, <3>1 DEF LoadField, IInv, TypeOK, writerVars, ReaderInv, CounterInv,
         LoadedInv, published
    <3>2. CASE r = q
      <4>1. /\ pc[r] \in {"load", "check"} /\ f \in toLoad[r]
            /\ local' = [local EXCEPT ![r] = [@ EXCEPT ![f] = mem[f]]]
            /\ toLoad'[r] = toLoad[r] \ {f}
            /\ UNCHANGED <<seq, mem, wpc, toStore, writes, pc, s1, s2, since, snap>>
        BY <1>8, <3>2 DEF LoadField, IInv, TypeOK, writerVars
      <4>2. local'[r][f] = mem[f] /\ \A g \in Fields \ {f} : local'[r][g] = local[r][g]
        BY <4>1 DEF IInv, TypeOK
      <4>3. CounterInv(r)'
        BY <4>1 DEF IInv, TypeOK, ReaderInv, CounterInv, published
      <4>4. \A g \in Fields : snap'[r][g] <= mem'[g] /\ local'[r][g] <= mem'[g]
        BY <4>1, <4>2 DEF IInv, TypeOK, ReaderInv
      <4>5. InOrder => \A g, h \in Fields : snap'[r][g] = snap'[r][h]
        BY <4>1 DEF IInv, ReaderInv
      <4>6. 2 * mem[f] >= s1[r]
        <5>1. s1[r] \in Nat /\ writes \in Nat /\ s1[r] % 2 # 1 /\ s1[r] <= seq
          BY <4>1 DEF IInv, TypeOK, ReaderInv, CounterInv, IsOdd
        <5>2. s1[r] <= 2 * published
          <6>1. seq <= 2 * published + 1 /\ seq \in Nat /\ published \in Int
            BY <5>1 DEF IInv, TypeOK, WriterInv, published
          <6> QED BY <5>1, <6>1
        <5>3. mem[f] >= published /\ mem[f] \in Nat /\ published \in Int
          <6>1. mem[f] \in Nat /\ writes \in Nat
            BY DEF IInv, TypeOK
          <6>2. CASE wpc = "idle"
            BY <6>1, <6>2 DEF IInv, WriterInv, published
          <6>3. CASE wpc # "idle"
            BY <6>1, <6>3 DEF IInv, WriterInv, published
          <6> QED BY <6>2, <6>3
        <5> QED BY <5>1, <5>2, <5>3
      <4>7. InOrder /\ seq = s1[r] => 2 * mem[f] = s1[r]
        BY <4>1 DEF IInv, TypeOK, ReaderInv, CounterInv, WriterInv, IsOdd
      <4>8. LoadedInv(r, f)'
        BY <4>1, <4>2, <4>4, <4>6, <4>7 DEF IInv, TypeOK, ReaderInv, CounterInv, LoadedInv
      <4>9. ASSUME NEW g \in Fields \ toLoad'[r], g # f PROVE LoadedInv(r, g)'
        BY <4>1, <4>2, <4>9 DEF IInv, TypeOK, ReaderInv, LoadedInv
      <4> QED BY <4>3, <4>4, <4>5, <4>8, <4>9 DEF ReaderInv
    <3> QED BY <3>1, <3>2
  <2> QED BY <2>1, <2>2 DEF IInv
<1>9. ASSUME NEW q \in Readers, Return(q) PROVE IInv'
  <2>1. TypeOK' /\ WriterInv'
    BY <1>9 DEF Return, IInv, TypeOK, WriterInv, writerVars
  <2>2. ASSUME NEW r \in Readers PROVE ReaderInv(r)'
    <3>1. CASE r # q
      BY <1>9, <3>1 DEF Return, IInv, TypeOK, writerVars, ReaderInv, CounterInv,
         LoadedInv, published
    <3>2. CASE r = q
      <4>1. /\ pc[r] = "check" /\ toLoad[r] = {} /\ pc'[r] = "idle"
            /\ snap'[r] = snap[r] \/ (s1[r] = s2[r] /\ snap'[r] = local[r])
            /\ UNCHANGED <<seq, mem, wpc, toStore, writes, s1, s2, toLoad, local, since>>
        BY <1>9, <3>2 DEF Return, IInv, TypeOK, writerVars
      <4>2. CounterInv(r)'
        BY <4>1 DEF IInv, TypeOK, ReaderInv, CounterInv, published
      <4>3. \A f \in Fields : snap'[r][f] <= mem'[f] /\ local'[r][f] <= mem'[f]
        BY <4>1 DEF IInv, TypeOK, ReaderInv
      <4>4. ASSUME InOrder, NEW f \in Fields, NEW g \in Fields PROVE snap'[r][f] = snap'[r][g]
        <5>1. s1[r] = s2[r] => 2 * local[r][f] = s1[r] /\ 2 * local[r][g] = s1[r]
          BY <4>1, <4>4 DEF IInv, ReaderInv, LoadedInv
        <5>2. snap[r][f] = snap[r][g]
          BY <4>4 DEF IInv, ReaderInv
        <5>3. local[r][f] \in Nat /\ local[r][g] \in Nat
          BY DEF IInv, TypeOK
        <5>4. s1[r] = s2[r] => local[r][f] = local[r][g]
          BY <5>1, <5>3
        <5> QED BY <4>1, <5>2, <5>4
      <4> QED BY <4>1, <4>2, <4>3, <4>4 DEF ReaderInv
    <3> QED BY <3>1, <3>2
  <2> QED BY <2>1, <2>2 DEF IInv
<1>10. CASE UNCHANGED vars
  BY <1>10 DEF vars, IInv, TypeOK, WriterInv, ReaderInv, CounterInv, LoadedInv, published
<1> QED
  BY <1>1, <1>2, <1>3, <1>4, <1>5, <1>6, <1>7, <1>8, <1>9, <1>10
     DEF Next, Writer, Reader, Reading

\* The invariant holds in every reachable state.
LEMMA Invariance == Spec => []IInv
BY InitIInv, NextIInv, PTL DEF Spec

\* Type correctness of the snapshot protocol.
THEOREM TypeCorrect == Spec => []TypeOK
<1>1. IInv => TypeOK
  BY DEF IInv
<1> QED BY <1>1, Invariance, PTL

\* Under either memory order, a read that passes both checks of seq has no field
\* older than the version that was complete when the read was called.
THEOREM AcceptedFresh == Spec => []AcceptedIsFresh
<1>1. IInv => AcceptedIsFresh
  <2> SUFFICES ASSUME IInv, NEW r \in Readers, NEW f \in Fields,
                      pc[r] = "check", toLoad[r] = {}
               PROVE  2 * local[r][f] >= s1[r] /\ local[r][f] >= since[r]
    BY DEF AcceptedIsFresh
  <2>1. 2 * local[r][f] >= s1[r] /\ 2 * since[r] <= s1[r]
    BY DEF IInv, ReaderInv, CounterInv, LoadedInv
  <2>2. local[r][f] \in Nat /\ since[r] \in Nat /\ s1[r] \in Nat
    BY DEF IInv, TypeOK
  <2> QED BY <2>1, <2>2
<1> QED BY <1>1, Invariance, PTL

\* When accesses are performed in program order, a successful shared_*_read
\* returns the fields of one single write.
THEOREM NoTearing ==
    ASSUME InOrder
    PROVE  Spec => []NoTornSnapshot
<1>1. IInv => NoTornSnapshot
  BY InOrder DEF IInv, ReaderInv, NoTornSnapshot
<1> QED BY <1>1, Invariance, PTL

\* Under either memory order, what a reader holds is never replaced by something
\* older: the steps of Spec satisfy SnapNeverOlder.
THEOREM NeverOlder == Spec => SnapNeverOlder
<1> DEFINE Keep == \A r \in Readers : \A f \in Fields : snap'[r][f] >= snap[r][f]
<1>1. ASSUME IInv, [Next]_vars, snap' = snap PROVE Keep
  BY <1>1 DEF IInv, TypeOK
<1>2. ASSUME IInv, NEW q \in Readers, Return(q) PROVE Keep
  <2> SUFFICES ASSUME NEW r \in Readers, NEW f \in Fields PROVE snap'[r][f] >= snap[r][f]
    OBVIOUS
  <2>1. snap'[r] = snap[r] \/ (snap'[r] = local[r] /\ pc[r] = "check" /\ toLoad[r] = {})
    BY <1>2 DEF Return, IInv, TypeOK
  <2>2. snap[r][f] \in Nat /\ local[r][f] \in Nat
    BY <1>2 DEF IInv, TypeOK
  <2>3. pc[r] = "check" /\ toLoad[r] = {} => local[r][f] >= snap[r][f]
    BY <1>2 DEF IInv, ReaderInv, LoadedInv
  <2> QED BY <2>1, <2>2, <2>3
<1>3. IInv /\ [Next]_vars => [Keep]_vars
  BY <1>1, <1>2 DEF Next, Writer, Reader, Reading, WriteCall, StoreOdd, StoreField, StoreEven,
     ReadCall, LoadS1, LoadS2, LoadField, readerVars, vars
<1> QED BY <1>3, Invariance, PTL DEF Spec, SnapNeverOlder

-----------------------------------------------------------------------------
(* Refinement of SnapshotRegister.                                         *)

\* Initial states map to initial states of the register.
LEMMA RegisterInit == Init => Register!Init
BY DEF Init, Register!Init, Version, Register!Version, published

\* In program order, every step maps to a step of the register or changes nothing
\* it sees: StoreEven publishes, ReadCall calls, LoadS1 and Return may return.
LEMMA RegisterStep ==
    InOrder /\ IInv /\ [Next]_vars => [Register!Next]_(Register!regVars)
<1> SUFFICES ASSUME InOrder, IInv, [Next]_vars PROVE [Register!Next]_(Register!regVars)
  OBVIOUS
<1> DEFINE Busy == [r \in Readers |-> pc[r] # "idle"]
<1> USE DEF Register!regVars, Register!Next
<1>1. CASE WriteCall \/ StoreOdd \/ (\E f \in Fields : StoreField(f)) \/ UNCHANGED vars
  BY <1>1 DEF WriteCall, StoreOdd, StoreField, vars, readerVars, published, IInv, TypeOK
<1>2. CASE StoreEven
  BY <1>2 DEF StoreEven, readerVars, published, Register!Publish, IInv, TypeOK
<1>3. ASSUME NEW q \in Readers, ReadCall(q) PROVE [Register!Next]_(Register!regVars)
  BY <1>3 DEF ReadCall, writerVars, published, Register!Call, IInv, TypeOK
<1>4. ASSUME NEW q \in Readers, LoadS1(q) PROVE [Register!Next]_(Register!regVars)
  BY <1>4 DEF LoadS1, writerVars, published, Register!ReturnNothing, IInv, TypeOK
<1>5. ASSUME NEW q \in Readers, LoadS2(q) \/ (\E f \in Fields : LoadField(q, f))
      PROVE  [Register!Next]_(Register!regVars)
  BY <1>5 DEF LoadS2, LoadField, writerVars, published, IInv, TypeOK
<1>6. ASSUME NEW q \in Readers, Return(q) PROVE [Register!Next]_(Register!regVars)
  <2>1. /\ pc[q] = "check" /\ toLoad[q] = {} /\ pc' = [pc EXCEPT ![q] = "idle"]
        /\ UNCHANGED <<published, since>>
    BY <1>6 DEF Return, writerVars, published
  <2>2. Busy[q] /\ Busy' = [Busy EXCEPT ![q] = FALSE]
    BY <2>1 DEF IInv, TypeOK
  <2>3. CASE snap' = snap
    BY <2>1, <2>2, <2>3 DEF Register!ReturnNothing
  <2>4. CASE snap' # snap
    <3> DEFINE n == s1[q] \div 2
    <3>1. s1[q] = s2[q] /\ snap' = [snap EXCEPT ![q] = local[q]]
      BY <1>6, <2>4 DEF Return
    <3>2. s1[q] \in Nat /\ ~IsOdd(s1[q]) /\ 2 * since[q] <= s1[q] /\ s1[q] <= seq /\ since[q] \in Nat
      BY <2>1 DEF IInv, TypeOK, ReaderInv, CounterInv
    <3>3. n \in Nat /\ s1[q] = 2 * n
      BY <3>2 DEF IsOdd
    <3>4. n \in since[q]..published
      <4>1. published \in Int /\ seq <= 2 * published + 1
        BY DEF IInv, TypeOK, WriterInv, published
      <4> QED BY <3>2, <3>3, <4>1 DEF IInv, TypeOK
    <3>5. local[q] = Register!Version(n)
      <4>1. ASSUME NEW f \in Fields PROVE local[q][f] = n
        <5>1. 2 * local[q][f] = s1[q] /\ local[q][f] \in Nat
          BY <2>1, <3>1 DEF IInv, TypeOK, ReaderInv, LoadedInv
        <5> QED BY <5>1, <3>3
      <4> QED BY <4>1 DEF Register!Version, IInv, TypeOK
    <3> HIDE DEF n, Busy
    <3> QED BY <2>1, <2>2, <3>1, <3>4, <3>5 DEF Register!ReturnVersion, Busy
  <2> QED BY <2>3, <2>4
<1> QED
  BY <1>1, <1>2, <1>3, <1>4, <1>5, <1>6 DEF Next, Writer, Reader, Reading

\* When accesses are performed in program order, the counter protocol implements
\* the abstract register: each read is one version current during the call.
THEOREM Refinement ==
    ASSUME InOrder
    PROVE  Spec => ImplementsRegister
<1>1. IInv /\ [Next]_vars => [Register!Next]_(Register!regVars)
  BY InOrder, RegisterStep
<1> QED
  BY <1>1, RegisterInit, Invariance, PTL DEF Spec, ImplementsRegister, Register!Spec
=============================================================================
