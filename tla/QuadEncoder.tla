----------------------------- MODULE QuadEncoder -----------------------------
(***************************************************************************)
(* driver/encoder/quad_encoder.c: the quadrature decoder of one wheel.     *)
(* The wheel moves one quadrature step at a time and each step toggles one *)
(* of the pins A and B; every edge latches the interrupt of its line, and  *)
(* enc_irq, the handler of both lines, reads the pins one after the other  *)
(* BEFORE it takes d->lock.                                                *)
(*                                                                         *)
(* The wheel may turn at any speed, also while enc_probe runs, and the two *)
(* handlers may run at once on two CPUs.  The history variable rush keeps  *)
(* which of that happened: "early" (a step before enc_probe had requested  *)
(* both interrupts), "hasty" (a step before the last edge was handled) and *)
(* "overlap" (the two handlers were active together).                      *)
(***************************************************************************)
EXTENDS Integers

CONSTANT MaxMoves       \* bound on the steps of the wheel, far below 2^31: the
                        \* s32 count does not wrap

ASSUME EncAssumption == MaxMoves \in Nat

Lines == {"A", "B"}

VARIABLES pos,          \* position of the wheel, in quadrature steps
          moves,        \* steps made so far
          pending,      \* the lines that have an edge latched
          requested,    \* the lines whose devm_request_irq is done
          ppc,          \* enc_probe: "readA", "readB", "reqA", "reqB", "done"
          hpc,          \* hpc[l]: enc_irq of line l: "idle", "readA", "readB", "lock"
          pinA, pinB,   \* pinA[l], pinB[l]: the pins as the handler read them
          prev_state, count,
          start, first, \* history: the wheel's initial position, and what
                        \* prev_state was when enc_probe had read it
          rush          \* history: see above

wheel == <<pos, moves, start>>
vars == <<pos, moves, start, rush, first, pending, requested, ppc, hpc, pinA, pinB,
          prev_state, count>>

-----------------------------------------------------------------------------
(* The pins of a wheel: a Gray code of the position modulo 4, in the order *)
(* 00, 01, 11, 10 of the driver's table.                                   *)

A(p) == IF p % 4 \in {2, 3} THEN 1 ELSE 0
B(p) == IF p % 4 \in {1, 2} THEN 1 ELSE 0

\* A: bit 1, B: bit 0
AB(a, b) == 2 * a + b

Pins(p) == AB(A(p), B(p))

\* The phase, 0 to 3, that a reading of the two pins stands for.
Phase(ab) == IF ab = 2 THEN 3 ELSE IF ab = 3 THEN 2 ELSE ab

\* Mutant: the double step 00 -> 11 is taken for a forward step.
qdec_table_double ==
    [i \in 0..15 |->
        IF i \in {1, 3, 7, 8, 14} THEN 1 ELSE IF i \in {2, 4, 11, 13} THEN -1 ELSE 0]

\* Mutant: the direction of 11 -> 10 is swapped.
qdec_table_swapped ==
    [i \in 0..15 |->
        IF i \in {1, 7, 8} THEN 1 ELSE IF i \in {2, 4, 11, 13, 14} THEN -1 ELSE 0]

\* Indexed by (prev << 2) | curr.
qdec_table ==
    [i \in 0..15 |->
        IF i \in {1, 7, 8, 14} THEN 1 ELSE IF i \in {2, 4, 11, 13} THEN -1 ELSE 0]

Qdec(prev, curr) == qdec_table[4 * prev + curr]

\* Every edge has been handled: nothing is latched and no handler runs.
Settled == ppc = "done" /\ pending = {} /\ \A l \in Lines : hpc[l] = "idle"

-----------------------------------------------------------------------------
Init ==
    /\ pos \in 0..3 /\ start = pos /\ moves = 0
    /\ pending = {} /\ requested = {}
    /\ ppc = "readA"
    /\ hpc = [l \in Lines |-> "idle"]
    /\ pinA = [l \in Lines |-> 0] /\ pinB = [l \in Lines |-> 0]
    /\ prev_state = 0 /\ first = 0 /\ count = 0
    /\ rush = {}

\* The line whose pin toggles when the wheel goes from p to q.
Edge(p, q) == IF A(p) # A(q) THEN "A" ELSE "B"

\* The wheel moves one step; the pin that toggles latches its interrupt, once
\* that has been requested.
Move(d) ==
    /\ moves < MaxMoves
    /\ pos' = pos + d
    /\ moves' = moves + 1
    /\ pending' = pending \cup ({Edge(pos, pos')} \cap requested)
    /\ rush' = rush \cup (IF ppc = "done" THEN {} ELSE {"early"})
                    \cup (IF Settled THEN {} ELSE {"hasty"})
    /\ UNCHANGED <<start, first, requested, ppc, hpc, pinA, pinB, prev_state, count>>

-----------------------------------------------------------------------------
(* enc_probe: prev_state is read before the interrupts are requested.      *)

ProbeReadA ==
    /\ ppc = "readA"
    /\ prev_state' = AB(A(pos), 0)
    /\ ppc' = "readB"
    /\ UNCHANGED <<wheel, rush, first, pending, requested, hpc, pinA, pinB, count>>

ProbeReadB ==
    /\ ppc = "readB"
    /\ prev_state' = prev_state + B(pos)
    /\ first' = prev_state'
    /\ ppc' = "reqA"
    /\ UNCHANGED <<wheel, rush, pending, requested, hpc, pinA, pinB, count>>

RequestIrq(l) ==
    /\ ppc = (IF l = "A" THEN "reqA" ELSE "reqB")
    /\ requested' = requested \cup {l}
    /\ ppc' = IF l = "A" THEN "reqB" ELSE "done"
    /\ UNCHANGED <<wheel, rush, first, pending, hpc, pinA, pinB, prev_state, count>>

-----------------------------------------------------------------------------
(* enc_irq of line l.                                                      *)

IrqEnter(l) ==
    /\ l \in pending /\ hpc[l] = "idle"
    /\ pending' = pending \ {l}
    /\ hpc' = [hpc EXCEPT ![l] = "readA"]
    /\ rush' = rush \cup (IF \A k \in Lines : hpc[k] = "idle" THEN {} ELSE {"overlap"})
    /\ UNCHANGED <<wheel, first, requested, ppc, pinA, pinB, prev_state, count>>

IrqReadA(l) ==
    /\ hpc[l] = "readA"
    /\ pinA' = [pinA EXCEPT ![l] = A(pos)]
    /\ hpc' = [hpc EXCEPT ![l] = "readB"]
    /\ UNCHANGED <<wheel, rush, first, pending, requested, ppc, pinB, prev_state, count>>

IrqReadB(l) ==
    /\ hpc[l] = "readB"
    /\ pinB' = [pinB EXCEPT ![l] = B(pos)]
    /\ hpc' = [hpc EXCEPT ![l] = "lock"]
    /\ UNCHANGED <<wheel, rush, first, pending, requested, ppc, pinA, prev_state, count>>

\* Mutant: prev_state is kept when the transition is invalid.
IrqUpdateKeepPrev(l) ==
    /\ hpc[l] = "lock"
    /\ LET curr == AB(pinA[l], pinB[l])
           delta == Qdec(prev_state, curr)
       IN count' = count + delta
          /\ prev_state' = IF delta = 0 THEN prev_state ELSE curr
    /\ hpc' = [hpc EXCEPT ![l] = "idle"]
    /\ UNCHANGED <<wheel, rush, first, pending, requested, ppc, pinA, pinB>>

\* The section under d->lock.
IrqUpdate(l) ==
    /\ hpc[l] = "lock"
    /\ LET curr == AB(pinA[l], pinB[l])
       IN count' = count + Qdec(prev_state, curr) /\ prev_state' = curr
    /\ hpc' = [hpc EXCEPT ![l] = "idle"]
    /\ UNCHANGED <<wheel, rush, first, pending, requested, ppc, pinA, pinB>>

-----------------------------------------------------------------------------
Probe == ProbeReadA \/ ProbeReadB \/ \E l \in Lines : RequestIrq(l)
Handler(l) == IrqEnter(l) \/ IrqReadA(l) \/ IrqReadB(l) \/ IrqUpdate(l)

Next ==
    \/ \E d \in {-1, 1} : Move(d)
    \/ Probe
    \/ \E l \in Lines : Handler(l)

\* The kernel runs a latched interrupt and lets a handler and a probe finish;
\* nobody makes the wheel move.
Fairness == WF_vars(Probe) /\ WF_vars(\E l \in Lines : Handler(l))

Spec == Init /\ [][Next]_vars
FairSpec == Spec /\ Fairness

-----------------------------------------------------------------------------
(* Properties.                                                             *)

TypeOK ==
    /\ pos \in Int /\ start \in Int /\ count \in Int
    /\ moves \in 0..MaxMoves
    /\ pending \in SUBSET Lines /\ requested \in SUBSET Lines
    /\ ppc \in {"readA", "readB", "reqA", "reqB", "done"}
    /\ hpc \in [Lines -> {"idle", "readA", "readB", "lock"}]
    /\ pinA \in [Lines -> {0, 1}] /\ pinB \in [Lines -> {0, 1}]
    /\ prev_state \in 0..3 /\ first \in 0..3
    /\ rush \in SUBSET {"early", "hasty", "overlap"}

\* A wheel that turns slowly enough for every edge to be handled before the next
\* one is counted exactly by enc_irq, in both directions and from every starting
\* phase; in between, the count lags by that one edge only.
CountExact ==
    "hasty" \notin rush => /\ count - (pos - start) \in {-1, 0, 1}
                           /\ Settled => count = pos - start

\* After a burst of edges too fast to be counted, with handlers that excluded each
\* other, the driver is back in step with the pins as soon as nothing is pending,
\* although read_ab reads the pins one by one and before d->lock is taken.
SettledInSync ==
    Settled /\ rush \subseteq {"hasty"} => prev_state = Pins(pos)

\* However fast the edges come, what is lost is an even number of steps: the table
\* gives 0 only for no move or a double move.
ErrorIsEven ==
    Settled /\ rush \subseteq {"hasty"} => (count - (pos - start)) % 2 = 0

\* Whatever the two handlers' interleaving, the parity of the count is that of the
\* phase the driver believes in, relative to the phase it started from.
ParityKept ==
    ppc \in {"reqA", "reqB", "done"} =>
        (count - (Phase(prev_state) - Phase(first))) % 2 = 0

\* The driver catches up with a wheel that stops: in the end every edge has been
\* handled and, if the handlers excluded each other, prev_state is the state of
\* the pins.
CatchesUp ==
    <>[](Settled /\ (rush \subseteq {"hasty"} => prev_state = Pins(pos)))
=============================================================================
