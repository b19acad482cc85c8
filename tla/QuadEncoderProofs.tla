-------------------------- MODULE QuadEncoderProofs --------------------------
(***************************************************************************)
(* Proofs about QuadEncoder: type correctness, the parity of the count,    *)
(* resynchronisation after bursts and the exact count of slow edges.       *)
(***************************************************************************)
EXTENDS QuadEncoder, TLAPS

Active(l) == hpc[l] # "idle"
AllIdle == hpc["A"] = "idle" /\ hpc["B"] = "idle"
Read == {"reqA", "reqB", "done"}

\* Interrupts come only from requested lines, and enc_probe counts nothing.
ProbeInv ==
    /\ requested = IF ppc = "done" THEN Lines ELSE IF ppc = "reqB" THEN {"A"} ELSE {}
    /\ pending \subseteq requested
    /\ \A l \in Lines : Active(l) => l \in requested
    /\ ppc \notin Read => count = 0
    /\ ppc = "readB" => prev_state \in {0, 2}

\* A wheel that stands still during enc_probe is where it started.
CalmInv ==
    "early" \notin rush =>
        /\ ppc # "done" => pos = start /\ pending = {} /\ AllIdle
        /\ ppc = "readB" => prev_state = AB(A(pos), 0)
        /\ ppc \in Read => first = Pins(start)

\* The active handler, or else the last update, has each pin as it is now, unless
\* an edge of that pin is latched.
SyncInv ==
    rush \subseteq {"hasty"} /\ ppc \in Read =>
        /\ hpc["A"] = "idle" \/ hpc["B"] = "idle"
        /\ "A" \notin pending =>
              /\ \A l \in Lines : hpc[l] \in {"readB", "lock"} => pinA[l] = A(pos)
              /\ AllIdle => prev_state \in AB(A(pos), 0)..AB(A(pos), 1)
        /\ "B" \notin pending =>
              /\ \A l \in Lines : hpc[l] = "lock" => pinB[l] = B(pos)
              /\ AllIdle => prev_state \in {AB(0, B(pos)), AB(1, B(pos))}

\* Without haste at most one edge is on its way and the count is one step behind.
ExactInv ==
    "hasty" \notin rush =>
        /\ rush = {}
        /\ ppc \in Read => prev_state = Pins(start + count)
        /\ ppc # "done" \/ (pending = {} /\ AllIdle) => pos = start + count
        /\ pos - (start + count) \in {-1, 0, 1}
        /\ \A l \in Lines : Active(l) => pending = {}
        /\ ~ (Active("A") /\ Active("B"))
        /\ pending # Lines

IInv == TypeOK /\ ProbeInv /\ CalmInv /\ ParityKept /\ SyncInv /\ ExactInv

-----------------------------------------------------------------------------
(* The Gray code and the table.                                            *)

\* Positions modulo 4.
LEMMA Mod4 ==
    ASSUME NEW p \in Int
    PROVE  /\ p % 4 \in {0, 1, 2, 3}
           /\ (p + 1) % 4 = IF p % 4 = 3 THEN 0 ELSE (p % 4) + 1
           /\ (p - 1) % 4 = IF p % 4 = 0 THEN 3 ELSE (p % 4) - 1
           /\ (p % 4) % 2 = p % 2
OBVIOUS

\* The pins are bits.
LEMMA PinsType ==
    ASSUME NEW p \in Int
    PROVE  A(p) \in {0, 1} /\ B(p) \in {0, 1} /\ Pins(p) \in 0..3
BY Mod4 DEF A, B, Pins, AB

\* A step of the wheel toggles exactly the pin of its edge.
LEMMA OneEdge ==
    ASSUME NEW p \in Int, NEW d \in {-1, 1}
    PROVE  /\ Edge(p, p + d) \in Lines
           /\ A(p) # A(p + d) <=> Edge(p, p + d) = "A"
           /\ B(p) # B(p + d) <=> Edge(p, p + d) = "B"
<1>1. CASE d = 1
  BY <1>1, Mod4 DEF A, B, Edge, Lines
<1>2. CASE d = -1
  <2>1. p + d = p - 1
    BY <1>2
  <2> QED
    BY <2>1, Mod4 DEF A, B, Edge, Lines
<1> QED
  BY <1>1, <1>2

\* The table gives the direction of a single step and nothing for no step.
LEMMA TableStep ==
    ASSUME NEW p \in Int, NEW q \in Int, p - q \in {-1, 0, 1}
    PROVE  Qdec(Pins(q), Pins(p)) = p - q
<1> DEFINE m == q % 4
<1>0. m \in {0, 1, 2, 3}
  BY Mod4
<1>1. CASE p = q
  BY <1>0, <1>1 DEF Qdec, qdec_table, Pins, A, B, AB
<1>2. CASE p = q + 1
  <2>1. p % 4 = IF m = 3 THEN 0 ELSE m + 1
    BY <1>2, Mod4
  <2>2. p - q = 1
    BY <1>2
  <2> QED
    BY <1>0, <2>1, <2>2 DEF Qdec, qdec_table, Pins, A, B, AB
<1>3. CASE p = q - 1
  <2>1. p % 4 = IF m = 0 THEN 3 ELSE m - 1
    BY <1>3, Mod4
  <2>2. p - q = -1
    BY <1>3
  <2> QED
    BY <1>0, <2>1, <2>2 DEF Qdec, qdec_table, Pins, A, B, AB
<1> QED
  BY <1>1, <1>2, <1>3

\* Whatever the two readings, the table changes the parity as the phase changes.
LEMMA TableParity ==
    ASSUME NEW s \in 0..3, NEW t \in 0..3
    PROVE  /\ Qdec(s, t) \in {-1, 0, 1}
           /\ (Qdec(s, t) - (Phase(t) - Phase(s))) % 2 = 0
           /\ Phase(s) \in 0..3
<1>1. s \in {0, 1, 2, 3} /\ t \in {0, 1, 2, 3}
  OBVIOUS
<1> QED
  BY <1>1 DEF Qdec, qdec_table, Phase

\* The phase of the pins is the position modulo 4.
LEMMA PhaseOfPins ==
    ASSUME NEW p \in Int
    PROVE  Phase(Pins(p)) = p % 4
BY Mod4 DEF Phase, Pins, A, B, AB

\* Parities add up.
LEMMA EvenSum ==
    ASSUME NEW x \in Int, NEW y \in Int, x % 2 = 0, y % 2 = 0
    PROVE  (x + y) % 2 = 0
OBVIOUS

-----------------------------------------------------------------------------
(* The inductive invariant.                                                *)

\* The initial states satisfy the invariant.
LEMMA InitIInv == Init => IInv
<1> SUFFICES ASSUME Init PROVE IInv
  OBVIOUS
<1>1. TypeOK
  BY EncAssumption DEF Init, TypeOK
<1>2. ProbeInv /\ CalmInv /\ ParityKept /\ SyncInv
  BY DEF Init, ProbeInv, CalmInv, ParityKept, SyncInv, Read, Active, AllIdle, Lines
<1>3. ExactInv
  BY <1>1 DEF Init, ExactInv, Read, Active, AllIdle, Lines, TypeOK
<1> QED
  BY <1>1, <1>2, <1>3 DEF IInv

\* Steps of the wheel keep the invariant.
LEMMA MoveIInv ==
    ASSUME IInv, NEW d \in {-1, 1}, Move(d)
    PROVE  IInv'
<1> DEFINE e == Edge(pos, pos')
<1>0. /\ pos \in Int /\ start \in Int /\ count \in Int
      /\ pos' = pos + d /\ pos' \in Int /\ e \in Lines
      /\ A(pos) # A(pos') <=> e = "A"
      /\ B(pos) # B(pos') <=> e = "B"
  BY OneEdge DEF IInv, TypeOK, Move
<1>1. TypeOK'
  <2>1. moves' \in 0..MaxMoves
    BY EncAssumption DEF IInv, TypeOK, Move
  <2> QED
    BY <1>0, <2>1 DEF IInv, TypeOK, Move
<1>2. ProbeInv'
  BY <1>0 DEF IInv, ProbeInv, TypeOK, Move, Active
<1>3. CalmInv'
  BY DEF IInv, CalmInv, Move, AllIdle, Read
<1>4. ParityKept'
  BY DEF IInv, ParityKept, Move
<1>5. SyncInv'
  <2> SUFFICES ASSUME rush' \subseteq {"hasty"}, ppc' \in Read
               PROVE  SyncInv'
    BY DEF SyncInv
  <2>1. ppc = "done" /\ rush \subseteq {"hasty"} /\ requested = Lines
    BY DEF Move, IInv, ProbeInv
  <2>2. pending' = pending \cup {e}
    BY <1>0, <2>1 DEF Move
  <2>3. SyncInv /\ ppc \in Read
    BY <2>1 DEF IInv, Read
  <2> QED
    BY <1>0, <2>1, <2>2, <2>3 DEF SyncInv, Move, AllIdle
<1>6. ExactInv'
  <2> SUFFICES ASSUME "hasty" \notin rush'
               PROVE  ExactInv'
    BY DEF ExactInv
  <2>1. Settled /\ "hasty" \notin rush /\ rush' = rush
    BY DEF Move, Settled
  <2>2. pos = start + count /\ prev_state = Pins(start + count) /\ rush = {}
    BY <2>1 DEF IInv, ExactInv, Settled, AllIdle, Lines, Read
  <2>3. pending' \subseteq {e} /\ requested = Lines /\ pending' = {e}
    BY <1>0, <2>1 DEF Move, Settled, IInv, ProbeInv
  <2>4. AllIdle
    BY <2>1 DEF Settled, AllIdle, Lines
  <2>5. pos' - (start' + count') \in {-1, 0, 1}
    BY <1>0, <2>2 DEF Move
  <2> QED
    BY <2>1, <2>2, <2>3, <2>4, <2>5 DEF ExactInv, Move, AllIdle, Active, Settled, Lines
<1> QED
  BY <1>1, <1>2, <1>3, <1>4, <1>5, <1>6 DEF IInv

\* Steps of enc_probe keep the invariant.
LEMMA ProbeIInv ==
    ASSUME IInv, Probe
    PROVE  IInv'
<1> USE DEF IInv
<1>0. /\ pos \in Int /\ A(pos) \in {0, 1} /\ B(pos) \in {0, 1}
  BY PinsType DEF TypeOK
<1>1. CASE ProbeReadA
  <2>1. prev_state' \in {0, 2} /\ count = 0 /\ ppc = "readA" /\ ppc' = "readB"
    BY <1>0, <1>1 DEF ProbeReadA, AB, ProbeInv, Read
  <2>2. TypeOK'
    BY <1>1, <2>1 DEF ProbeReadA, TypeOK, wheel
  <2>3. ProbeInv'
    BY <1>1, <2>1 DEF ProbeReadA, ProbeInv, Active, wheel, Read
  <2>4. CalmInv'
    BY <1>1 DEF ProbeReadA, CalmInv, AllIdle, wheel, Read
  <2>5. ParityKept' /\ SyncInv'
    BY <2>1 DEF ParityKept, SyncInv, Read
  <2>6. ExactInv'
    BY <1>1, <2>1 DEF ProbeReadA, ExactInv, AllIdle, Active, wheel, Read
  <2> QED
    BY <2>2, <2>3, <2>4, <2>5, <2>6
<1>2. CASE ProbeReadB
  <2>1. /\ prev_state \in {0, 2} /\ count = 0 /\ ppc = "readB" /\ ppc' = "reqA"
        /\ requested = {} /\ pending = {} /\ AllIdle
    BY <1>2 DEF ProbeReadB, ProbeInv, Read, TypeOK, Lines, Active, AllIdle
  <2>2. prev_state' \in 0..3 /\ first' = prev_state'
    BY <1>0, <1>2, <2>1 DEF ProbeReadB
  <2>3. TypeOK'
    BY <1>2, <2>2 DEF ProbeReadB, TypeOK, wheel
  <2>4. ProbeInv'
    BY <1>2, <2>1 DEF ProbeReadB, ProbeInv, Active, wheel, Read
  <2>5. CalmInv'
    BY <1>0, <1>2, <2>1 DEF ProbeReadB, CalmInv, AllIdle, wheel, Read, Pins, AB
  <2>6. ParityKept'
    <3>1. Phase(prev_state') - Phase(first') = 0 /\ count' = 0
      BY <1>2, <2>1, <2>2, TableParity DEF ProbeReadB
    <3> QED
      BY <3>1 DEF ParityKept
  <2>7. "early" \notin rush => prev_state' = Pins(pos) /\ pos = start
    BY <1>0, <1>2, <2>1 DEF ProbeReadB, CalmInv, Pins, AB
  <2>8. SyncInv'
    BY <1>0, <1>2, <2>1, <2>7 DEF ProbeReadB, SyncInv, AllIdle, wheel, Read, Pins, AB, Lines
  <2>9. ExactInv'
    <3> SUFFICES ASSUME "hasty" \notin rush'
                 PROVE  ExactInv'
      BY DEF ExactInv
    <3>1. rush = {} /\ rush' = {} /\ pos' = pos /\ start' = start /\ count' = 0
      BY <1>2, <2>1 DEF ProbeReadB, ExactInv, wheel
    <3>2. prev_state' = Pins(start) /\ pos = start /\ start + 0 = start
      BY <3>1, <2>7 DEF TypeOK
    <3> QED
      BY <1>2, <2>1, <3>1, <3>2, <1>0 DEF ProbeReadB, ExactInv, AllIdle, Active, Lines
  <2> QED
    BY <2>3, <2>4, <2>5, <2>6, <2>8, <2>9
<1>3. ASSUME NEW l \in Lines, RequestIrq(l)
      PROVE  IInv'
  <2>1. TypeOK'
    BY <1>3 DEF RequestIrq, TypeOK, wheel, Lines
  <2>2. ProbeInv'
    BY <1>3 DEF RequestIrq, ProbeInv, wheel, Lines, Active, Read, TypeOK
  <2>3. CalmInv'
    BY <1>3 DEF RequestIrq, CalmInv, wheel, Lines, AllIdle, Read
  <2>4. ParityKept'
    BY <1>3 DEF RequestIrq, ParityKept, wheel, Lines
  <2>5. SyncInv'
    BY <1>3 DEF RequestIrq, SyncInv, wheel, Lines, AllIdle, Read
  <2>6. ExactInv'
    BY <1>3 DEF RequestIrq, ExactInv, wheel, Lines, AllIdle, Active, Read
  <2> QED
    BY <2>1, <2>2, <2>3, <2>4, <2>5, <2>6
<1> QED
  BY <1>1, <1>2, <1>3 DEF Probe

\* Entering enc_irq keeps the invariant.
LEMMA EnterIInv ==
    ASSUME IInv, NEW l \in Lines, IrqEnter(l)
    PROVE  IInv'
<1> USE DEF IInv
<1>0. /\ ppc \in Read /\ requested' = requested /\ ppc' = ppc /\ l \in requested
  BY DEF IrqEnter, ProbeInv, Read, Lines, TypeOK
<1>1. TypeOK'
  BY DEF IrqEnter, TypeOK, wheel
<1>2. ProbeInv'
  BY <1>0 DEF IrqEnter, ProbeInv, TypeOK, Active, Read, Lines, wheel
<1>3. CalmInv'
  BY DEF IrqEnter, CalmInv, AllIdle, Read, wheel
<1>4. ParityKept'
  BY DEF IrqEnter, ParityKept, wheel
<1>5. SyncInv'
  BY <1>0 DEF IrqEnter, SyncInv, AllIdle, Lines, wheel, TypeOK
<1>6. ExactInv'
  BY <1>0 DEF IrqEnter, ExactInv, AllIdle, Active, Lines, wheel, TypeOK, Read
<1> QED
  BY <1>1, <1>2, <1>3, <1>4, <1>5, <1>6

\* Reading a pin keeps the invariant.
LEMMA ReadIInv ==
    ASSUME IInv, NEW l \in Lines, IrqReadA(l) \/ IrqReadB(l)
    PROVE  IInv'
<1> USE DEF IInv
<1>0. pos \in Int /\ A(pos) \in {0, 1} /\ B(pos) \in {0, 1}
  BY PinsType DEF TypeOK
<1>1. CASE IrqReadA(l)
  <2>1. TypeOK' /\ ProbeInv'
    BY <1>0, <1>1 DEF IrqReadA, TypeOK, ProbeInv, Active, Read, Lines, wheel
  <2>2. CalmInv' /\ ParityKept'
    BY <1>1 DEF IrqReadA, CalmInv, ParityKept, AllIdle, Read, Lines, wheel
  <2>3. SyncInv'
    BY <1>1 DEF IrqReadA, SyncInv, AllIdle, Lines, wheel, TypeOK
  <2>4. ExactInv'
    BY <1>1 DEF IrqReadA, ExactInv, AllIdle, Active, Lines, wheel, TypeOK, Read
  <2> QED
    BY <2>1, <2>2, <2>3, <2>4
<1>2. CASE IrqReadB(l)
  <2>1. TypeOK' /\ ProbeInv'
    BY <1>0, <1>2 DEF IrqReadB, TypeOK, ProbeInv, Active, Read, Lines, wheel
  <2>2. CalmInv' /\ ParityKept'
    BY <1>2 DEF IrqReadB, CalmInv, ParityKept, AllIdle, Read, Lines, wheel
  <2>3. SyncInv'
    BY <1>2 DEF IrqReadB, SyncInv, AllIdle, Lines, wheel, TypeOK
  <2>4. ExactInv'
    BY <1>2 DEF IrqReadB, ExactInv, AllIdle, Active, Lines, wheel, TypeOK, Read
  <2> QED
    BY <2>1, <2>2, <2>3, <2>4
<1> QED
  BY <1>1, <1>2

\* The update under d->lock keeps the invariant.
LEMMA UpdateIInv ==
    ASSUME IInv, NEW l \in Lines, IrqUpdate(l)
    PROVE  IInv'
<1> USE DEF IInv
<1> DEFINE curr == AB(pinA[l], pinB[l])
           delta == Qdec(prev_state, curr)
<1>0. /\ pos \in Int /\ start \in Int /\ count \in Int
      /\ A(pos) \in {0, 1} /\ B(pos) \in {0, 1}
  BY PinsType DEF TypeOK
<1>1. /\ pinA[l] \in {0, 1} /\ pinB[l] \in {0, 1} /\ curr \in 0..3
      /\ prev_state \in 0..3 /\ prev_state' = curr /\ count' = count + delta
      /\ hpc[l] = "lock"
  BY DEF TypeOK, IrqUpdate, AB
<1>2. /\ delta \in {-1, 0, 1}
      /\ (delta - (Phase(curr) - Phase(prev_state))) % 2 = 0
      /\ Phase(curr) \in 0..3 /\ Phase(prev_state) \in 0..3 /\ Phase(first) \in 0..3
  BY <1>1, TableParity DEF TypeOK
<1> HIDE DEF curr, delta
<1>2a. /\ delta \in Int /\ Phase(curr) \in Int
      /\ Phase(prev_state) \in Int /\ Phase(first) \in Int
      /\ count' \in Int /\ prev_state' \in 0..3
  <2>1. delta \in Int
    BY <1>2
  <2>2. count' \in Int
    BY <1>0, <1>1, <2>1
  <2>3. prev_state' \in 0..3
    BY <1>1
  <2>4. \A n \in 0..3 : n \in Int
    OBVIOUS
  <2> QED
    BY <1>2, <2>1, <2>2, <2>3, <2>4, Zenon
<1>2b. first' = first /\ UNCHANGED <<wheel, rush, pending, requested, ppc, pinA, pinB>>
       /\ hpc' = [hpc EXCEPT ![l] = "idle"]
  BY DEF IrqUpdate
<1>3. ppc \in Read
  BY <1>1 DEF ProbeInv, Active, Read, Lines, TypeOK
<1>4. TypeOK'
  BY <1>2a, <1>2b DEF TypeOK, wheel
<1>5. ProbeInv' /\ CalmInv'
  BY <1>3 DEF IrqUpdate, ProbeInv, CalmInv, Active, AllIdle, Read, Lines, wheel
<1>6. ParityKept'
  <2>1. (count - (Phase(prev_state) - Phase(first))) % 2 = 0
    BY <1>3 DEF ParityKept, Read
  <2>2. ((count - (Phase(prev_state) - Phase(first)))
            + (delta - (Phase(curr) - Phase(prev_state)))) % 2 = 0
    <3>1. count - (Phase(prev_state) - Phase(first)) \in Int
          /\ delta - (Phase(curr) - Phase(prev_state)) \in Int
      BY <1>0, <1>2a
    <3> QED
      BY <3>1, <1>2, <2>1, EvenSum
  <2>3. (count - (Phase(prev_state) - Phase(first)))
            + (delta - (Phase(curr) - Phase(prev_state)))
          = count' - (Phase(prev_state') - Phase(first'))
    BY <1>0, <1>1, <1>2a, <1>2b
  <2> QED
    BY <2>2, <2>3 DEF ParityKept
<1>7. SyncInv'
  <2> SUFFICES ASSUME rush \subseteq {"hasty"}
               PROVE  SyncInv'
    BY DEF SyncInv, IrqUpdate
  <2>1. /\ \A k \in Lines : k # l => hpc[k] = "idle"
        /\ "A" \notin pending => pinA[l] = A(pos)
        /\ "B" \notin pending => pinB[l] = B(pos)
    BY <1>1, <1>3 DEF SyncInv, Lines
  <2>2. /\ "A" \notin pending => curr \in AB(A(pos), 0)..AB(A(pos), 1)
        /\ "B" \notin pending => curr \in {AB(0, B(pos)), AB(1, B(pos))}
    BY <2>1, <1>0, <1>1 DEF AB, curr
  <2>3. \A k \in Lines : hpc'[k] = "idle"
    BY <2>1 DEF IrqUpdate, TypeOK
  <2> QED
    BY <1>1, <2>2, <2>3 DEF SyncInv, IrqUpdate, wheel, Lines
<1>8. ExactInv'
  <2> SUFFICES ASSUME "hasty" \notin rush
               PROVE  ExactInv'
    BY DEF ExactInv, IrqUpdate
  <2>1. /\ pending = {} /\ rush = {} /\ prev_state = Pins(start + count)
        /\ pos - (start + count) \in {-1, 0, 1}
        /\ \A k \in Lines : k # l => hpc[k] = "idle"
    BY <1>1, <1>3 DEF ExactInv, Active, Lines
  <2>2. curr = Pins(pos)
    BY <1>1, <1>3, <2>1 DEF SyncInv, curr, Pins
  <2>3. delta = pos - (start + count)
    BY <1>0, <2>1, <2>2, TableStep DEF delta
  <2>4. start' + count' = pos /\ pos' = pos
    BY <1>0, <1>1, <2>3 DEF IrqUpdate, wheel
  <2>5. \A k \in Lines : hpc'[k] = "idle"
    BY <2>1 DEF IrqUpdate, TypeOK
  <2>6. pos' - (start' + count') = 0
    BY <2>4, <1>0
  <2> QED
    BY <1>1, <2>1, <2>2, <2>4, <2>5, <2>6 DEF ExactInv, IrqUpdate, Active, AllIdle, Lines
<1> QED
  BY <1>4, <1>5, <1>6, <1>7, <1>8

\* Every step keeps the invariant.
LEMMA NextIInv == IInv /\ [Next]_vars => IInv'
<1> SUFFICES ASSUME IInv, [Next]_vars PROVE IInv'
  OBVIOUS
<1>1. CASE UNCHANGED vars
  BY <1>1 DEF vars, IInv, TypeOK, ProbeInv, CalmInv, ParityKept, SyncInv, ExactInv,
              Active, AllIdle
<1>2. ASSUME NEW d \in {-1, 1}, Move(d) PROVE IInv'
  BY <1>2, MoveIInv
<1>3. CASE Probe
  BY <1>3, ProbeIInv
<1>4. ASSUME NEW l \in Lines, Handler(l) PROVE IInv'
  BY <1>4, EnterIInv, ReadIInv, UpdateIInv DEF Handler
<1> QED
  BY <1>1, <1>2, <1>3, <1>4 DEF Next

\* The invariant holds in every reachable state.
LEMMA Invariance == Spec => []IInv
<1> QED
  BY InitIInv, NextIInv, PTL DEF Spec

-----------------------------------------------------------------------------
(* The properties.                                                         *)

\* With nothing on its way, prev_state is what the pins show.
LEMMA InStep ==
    ASSUME IInv, Settled, rush \subseteq {"hasty"}
    PROVE  prev_state = Pins(pos)
<1>1. /\ prev_state \in AB(A(pos), 0)..AB(A(pos), 1)
      /\ prev_state \in {AB(0, B(pos)), AB(1, B(pos))}
  BY DEF IInv, SyncInv, Settled, AllIdle, Lines, Read
<1>2. A(pos) \in {0, 1} /\ B(pos) \in {0, 1}
  BY PinsType DEF IInv, TypeOK
<1> QED
  BY <1>1, <1>2 DEF Pins, AB

\* Every variable of the decoder keeps its type; prev_state stays a valid index
\* into qdec_table.
THEOREM TypeCorrect == Spec => []TypeOK
<1>1. IInv => TypeOK
  BY DEF IInv
<1> QED
  BY <1>1, Invariance, PTL

\* However the two handlers interleave and whenever the wheel moves, enc_irq keeps
\* the parity of count in step with prev_state.
THEOREM Parity == Spec => []ParityKept
<1>1. IInv => ParityKept
  BY DEF IInv
<1> QED
  BY <1>1, Invariance, PTL

\* Handlers that exclude each other leave prev_state equal to the pins whenever
\* every latched edge has been handled, for bursts of any length.
THEOREM InSync == Spec => []SettledInSync
<1>1. IInv => SettledInSync
  BY InStep DEF SettledInSync
<1> QED
  BY <1>1, Invariance, PTL

\* Under the same condition an even number of steps is lost, for bursts of any
\* length.
THEOREM EvenError == Spec => []ErrorIsEven
<1>1. IInv => ErrorIsEven
  <2> SUFFICES ASSUME IInv, Settled, rush \subseteq {"hasty"}
               PROVE  (count - (pos - start)) % 2 = 0
    BY DEF ErrorIsEven
  <2>1. prev_state = Pins(pos)
    BY InStep
  <2>2. first = Pins(start) /\ pos \in Int /\ start \in Int /\ count \in Int
    BY DEF IInv, CalmInv, Settled, Read, TypeOK
  <2>3. Phase(prev_state) = (pos % 4) /\ Phase(first) = (start % 4)
    BY <2>1, <2>2, PhaseOfPins
  <2>4. (count - ((pos % 4) - (start % 4))) % 2 = 0
    BY <2>3 DEF IInv, ParityKept, Settled
  <2>5. (pos % 4) \in Int /\ (start % 4) \in Int
        /\ ((pos % 4) - pos) % 2 = 0 /\ ((start % 4) - start) % 2 = 0
    BY <2>2
  <2>6. (((pos % 4) - pos) - ((start % 4) - start)) % 2 = 0
    BY <2>2, <2>5
  <2>7. ((count - ((pos % 4) - (start % 4))) + (((pos % 4) - pos) - ((start % 4) - start))) % 2 = 0
    BY <2>2, <2>4, <2>5, <2>6, EvenSum
  <2>8. (count - ((pos % 4) - (start % 4))) + (((pos % 4) - pos) - ((start % 4) - start))
          = count - (pos - start)
    BY <2>2, <2>5
  <2> QED
    BY <2>7, <2>8
<1> QED
  BY <1>1, Invariance, PTL

\* A wheel of any travel whose edges are handled one by one is counted exactly by
\* enc_irq, in both directions and from every phase.
THEOREM Exact == Spec => []CountExact
<1>1. IInv => CountExact
  <2> SUFFICES ASSUME IInv, "hasty" \notin rush
               PROVE  /\ count - (pos - start) \in {-1, 0, 1}
                      /\ Settled => count = pos - start
    BY DEF CountExact
  <2>1. pos \in Int /\ start \in Int /\ count \in Int
    BY DEF IInv, TypeOK
  <2>2. pos - (start + count) \in {-1, 0, 1}
    BY DEF IInv, ExactInv
  <2>3. Settled => pos = start + count
    BY DEF IInv, ExactInv, Settled, AllIdle, Lines
  <2> QED
    BY <2>1, <2>2, <2>3
<1> QED
  BY <1>1, Invariance, PTL
=============================================================================
