--------------------------- MODULE PwmDemoProofs ---------------------------
(***************************************************************************)
(* Proofs about PwmDemo, for any number of writers, any clock and any      *)
(* numbers written to the files.                                           *)
(*                                                                         *)
(* The inductive invariant says of a process in the middle of pwm_set what *)
(* it has achieved so far, provided it is the only one under way.          *)
(***************************************************************************)
EXTENDS PwmDemo, TLAPS

Places == {"idle", "stored", "ctl", "rng", "dat", "on"}
Lives == {"absent", "first", "nap", "second", "bound", "off", "unclocked", "noDuty", "gone"}

TypeInv ==
    /\ life \in Lives
    /\ duty \in 0..100
    /\ rng \in Nat
    /\ pc \in [Procs -> Places]
    /\ asked \in [Procs -> [via : {"none", "duty", "freq"}, freq : Nat, duty : 0..100]]

\* While the store begun last met nobody, nobody else is under way.
AloneInv == met = {} => \A p, q \in Procs : Busy(p) /\ Busy(q) => p = q

\* probe calls pwm_set itself only at its end.
DriverInv == life = "nap" => ~Busy("driver")

Midway(p) == pc[p] \in {"rng", "dat", "on"}

\* A channel that is off has a process on its way to switch it on.
OnInv ==
    life \in {"first", "nap", "second", "bound"} =>
        \/ ctl = 1
        \/ \E p \in Procs : Midway(p)
        \/ life = "first" /\ pc["driver"] = "ctl"

\* A process that is alone works with p->duty, and what it has written is there.
AloneDone(p) ==
    /\ Busy(p) => asked[p].duty = duty
    /\ pc[p] \in {"dat", "on"} => rng = Period(p)
    /\ pc[p] = "on" => dat = Data(p)

Programmed == dat = ((rng * duty) % U32) \div 100

ShownInv ==
    (met = {} /\ life \in {"second", "bound"}) =>
        /\ \A p \in Procs : AloneDone(p)
        /\ Idle => Programmed

Inv == TypeInv /\ AloneInv /\ DriverInv /\ OnInv /\ ShownInv

-----------------------------------------------------------------------------
\* The range that pwm_set writes is a number.
LEMMA PeriodType ==
    ASSUME TypeInv, NEW p \in Procs
    PROVE  Period(p) \in Nat
<1>1. asked[p].freq \in Nat
  BY DEF TypeInv
<1>2. asked[p].freq % U32 \in Nat
  BY <1>1, PwmAssumption
<1>3. AtLeast1(asked[p].freq % U32) \in Nat /\ AtLeast1(asked[p].freq % U32) > 0
  BY <1>2 DEF AtLeast1
<1>4. ClkFreq \in Nat
  BY PwmAssumption
<1>5. (ClkFreq \div AtLeast1(asked[p].freq % U32)) \in Nat
  BY <1>3, <1>4
<1> QED
  BY <1>5 DEF Period, AtLeast1

\* The steps of the processes, and those of probe and remove, keep the types.
LEMMA TypeStep ==
    ASSUME TypeInv, Next
    PROVE  TypeInv'
<1> USE DEF TypeInv, Places, Lives, Goto, registers, Procs
<1>1. ASSUME NEW p \in Procs, SetCtl(p) PROVE TypeInv'
  BY <1>1 DEF SetCtl
<1>2. ASSUME NEW p \in Procs, SetRng(p) PROVE TypeInv'
  BY <1>2, PeriodType DEF SetRng, Writel
<1>3. ASSUME NEW p \in Procs, SetDat(p) PROVE TypeInv'
  BY <1>3 DEF SetDat
<1>4. ASSUME NEW p \in Procs, SetOn(p) PROVE TypeInv'
  BY <1>4 DEF SetOn, NoCall
<1>5. ASSUME NEW w \in Writers, NEW v \in Duties, DutyStore(w, v) PROVE TypeInv'
  <2>1. AtMost100(v) \in 0..100
    BY PwmAssumption DEF AtMost100
  <2> QED
    BY <1>5, <2>1, PwmAssumption DEF DutyStore
<1>6. ASSUME NEW w \in Writers, DutyProgram(w) PROVE TypeInv'
  BY <1>6, PwmAssumption DEF DutyProgram, CallSet
<1>7. ASSUME NEW w \in Writers, NEW f \in Freqs, FreqStore(w, f) PROVE TypeInv'
  BY <1>7, PwmAssumption DEF FreqStore, CallSet
<1>8. ASSUME NEW v \in Duties, Probe(v) PROVE TypeInv'
  BY <1>8, PwmAssumption DEF Probe, CallSet
<1>9. CASE AfterNap
  BY <1>9, PwmAssumption DEF AfterNap, CallSet
<1>10. CASE ProbeFails \/ Nap \/ Bound \/ Remove \/ RemoveClk
  BY <1>10 DEF ProbeFails, Nap, Bound, Remove, RemoveClk
<1>11. CASE RemoveFile("duty", "unclocked", "noDuty") \/ RemoveFile("freq", "noDuty", "gone")
  BY <1>11 DEF RemoveFile
<1> QED
  BY <1>1, <1>2, <1>3, <1>4, <1>5, <1>6, <1>7, <1>8, <1>9, <1>10, <1>11 DEF Next

\* What the steps have in common: a step of pwm_set leaves life, files, duty and
\* met alone and moves one process.
Pwm(p) == SetCtl(p) \/ SetRng(p) \/ SetDat(p) \/ SetOn(p)
Driver == ProbeFails \/ Nap \/ Bound \/ Remove \/ RemoveClk
              \/ RemoveFile("duty", "unclocked", "noDuty")
              \/ RemoveFile("freq", "noDuty", "gone")

\* The steps by kind.
LEMMA NextCases ==
    ASSUME Next
    PROVE  \/ \E p \in Procs : Pwm(p)
           \/ \E w \in Writers, v \in Duties : DutyStore(w, v)
           \/ \E w \in Writers : DutyProgram(w)
           \/ \E w \in Writers, f \in Freqs : FreqStore(w, f)
           \/ \E v \in Duties : Probe(v)
           \/ AfterNap
           \/ Driver
BY DEF Next, Pwm, Driver

\* Nobody enters while a store that met nobody is under way without being noticed.
LEMMA AloneStep ==
    ASSUME TypeInv, AloneInv, Next
    PROVE  AloneInv'
<1> USE DEF TypeInv, AloneInv, Busy, Goto, Procs
<1>1. ASSUME NEW p \in Procs, Pwm(p) PROVE AloneInv'
  BY <1>1 DEF Pwm, SetCtl, SetRng, SetDat, SetOn
<1>2. ASSUME NEW w \in Writers, NEW v \in Duties, DutyStore(w, v) PROVE AloneInv'
  BY <1>2 DEF DutyStore, Enter
<1>3. ASSUME NEW w \in Writers, DutyProgram(w) PROVE AloneInv'
  BY <1>3 DEF DutyProgram, CallSet
<1>4. ASSUME NEW w \in Writers, NEW f \in Freqs, FreqStore(w, f) PROVE AloneInv'
  BY <1>4 DEF FreqStore, CallSet, Enter
<1>5. ASSUME NEW v \in Duties, Probe(v) PROVE AloneInv'
  BY <1>5 DEF Probe, CallSet, Enter
<1>6. CASE AfterNap
  BY <1>6 DEF AfterNap, CallSet, Enter
<1>7. CASE Driver
  BY <1>7 DEF Driver, ProbeFails, Nap, Bound, Remove, RemoveClk, RemoveFile
<1> QED
  BY <1>1, <1>2, <1>3, <1>4, <1>5, <1>6, <1>7, NextCases

\* probe sleeps outside of pwm_set.
LEMMA DriverStep ==
    ASSUME TypeInv, DriverInv, Next
    PROVE  DriverInv'
<1> USE DEF TypeInv, DriverInv, Busy, Goto, Procs
<1>1. ASSUME NEW p \in Procs, Pwm(p) PROVE DriverInv'
  BY <1>1 DEF Pwm, SetCtl, SetRng, SetDat, SetOn
<1>2. ASSUME NEW w \in Writers, NEW v \in Duties, DutyStore(w, v) PROVE DriverInv'
  BY <1>2, PwmAssumption DEF DutyStore
<1>3. ASSUME NEW w \in Writers, DutyProgram(w) PROVE DriverInv'
  BY <1>3, PwmAssumption DEF DutyProgram, CallSet
<1>4. ASSUME NEW w \in Writers, NEW f \in Freqs, FreqStore(w, f) PROVE DriverInv'
  BY <1>4, PwmAssumption DEF FreqStore, CallSet
<1>5. ASSUME NEW v \in Duties, Probe(v) PROVE DriverInv'
  BY <1>5 DEF Probe
<1>6. CASE AfterNap
  BY <1>6 DEF AfterNap
<1>7. CASE Driver
  BY <1>7 DEF Driver, ProbeFails, Nap, Bound, Remove, RemoveClk, RemoveFile
<1> QED
  BY <1>1, <1>2, <1>3, <1>4, <1>5, <1>6, <1>7, NextCases

\* Whoever switches the channel off is midway from then on until it is on again.
LEMMA OnStep ==
    ASSUME TypeInv, DriverInv, OnInv, Next
    PROVE  OnInv'
<1> USE DEF TypeInv, OnInv, Midway, Goto, Procs, registers, Lives
<1>1. ASSUME NEW p \in Procs, SetCtl(p) PROVE OnInv'
  BY <1>1 DEF SetCtl
<1>2. ASSUME NEW p \in Procs, SetRng(p) PROVE OnInv'
  BY <1>2 DEF SetRng
<1>3. ASSUME NEW p \in Procs, SetDat(p) PROVE OnInv'
  BY <1>3 DEF SetDat
<1>4. ASSUME NEW p \in Procs, SetOn(p) PROVE OnInv'
  BY <1>4 DEF SetOn, Writel, Clocked
<1>5. ASSUME NEW w \in Writers, NEW v \in Duties, DutyStore(w, v) PROVE OnInv'
  BY <1>5, PwmAssumption DEF DutyStore
<1>6. ASSUME NEW w \in Writers, DutyProgram(w) PROVE OnInv'
  BY <1>6, PwmAssumption DEF DutyProgram, CallSet
<1>7. ASSUME NEW w \in Writers, NEW f \in Freqs, FreqStore(w, f) PROVE OnInv'
  BY <1>7, PwmAssumption DEF FreqStore, CallSet
<1>8. ASSUME NEW v \in Duties, Probe(v) PROVE OnInv'
  BY <1>8 DEF Probe, CallSet
<1>9. CASE AfterNap
  <2>1. ctl' = ctl /\ life' = "second" /\ pc' = [pc EXCEPT !["driver"] = "ctl"]
    BY <1>9 DEF AfterNap, CallSet
  <2>2. ctl = 1 \/ \E p \in Procs : Midway(p)
    BY <1>9 DEF AfterNap
  <2>3. pc["driver"] = "idle"
    BY <1>9 DEF AfterNap, DriverInv, Busy
  <2> QED
    BY <2>1, <2>2, <2>3
<1>10. CASE Driver
  BY <1>10 DEF Driver, ProbeFails, Nap, Bound, Remove, RemoveClk, RemoveFile
<1> QED
  BY <1>1, <1>2, <1>3, <1>4, <1>5, <1>6, <1>7, <1>8, <1>9, <1>10, NextCases DEF Pwm

\* Among processes of which only p is under way, p decides.
LEMMA OnlyOne ==
    ASSUME TypeInv, AloneInv, met = {}, NEW p \in Procs, Busy(p)
    PROVE  \A q \in Procs \ {p} : pc[q] = "idle"
BY DEF AloneInv, Busy

\* A store that meets nobody, before its first register write.
LEMMA ShownEnter ==
    ASSUME NEW p \in Procs, TypeInv,
           met' = {q \in Procs \ {p} : Busy(q)},
           pc' \in {[pc EXCEPT ![p] = "stored"], [pc EXCEPT ![p] = "ctl"]},
           asked'[p].duty = duty'
    PROVE  ShownInv'
<1> SUFFICES ASSUME met' = {} PROVE (\A q \in Procs : AloneDone(q)') /\ ~Idle'
  BY DEF ShownInv
<1>1. pc'[p] \in {"stored", "ctl"}
  BY DEF TypeInv
<1>2. \A q \in Procs \ {p} : pc'[q] = "idle"
  BY DEF TypeInv, Busy
<1>3. AloneDone(p)'
  BY <1>1 DEF AloneDone
<1>4. \A q \in Procs \ {p} : AloneDone(q)'
  BY <1>2 DEF AloneDone, Busy
<1> QED
  BY <1>1, <1>3, <1>4 DEF Idle

\* What a process that is alone writes is there until it is done.
LEMMA ShownPwm ==
    ASSUME TypeInv, AloneInv, ShownInv, NEW p \in Procs, Pwm(p)
    PROVE  ShownInv'
<1> SUFFICES ASSUME met' = {}, life' \in {"second", "bound"}
             PROVE (\A q \in Procs : AloneDone(q)') /\ (Idle' => Programmed')
  BY DEF ShownInv
<1>1. met = {} /\ life \in {"second", "bound"} /\ duty' = duty /\ life' = life
  BY DEF Pwm, SetCtl, SetRng, SetDat, SetOn
<1>2. Busy(p) /\ Clocked
  BY <1>1 DEF Pwm, SetCtl, SetRng, SetDat, SetOn, Busy, Clocked
<1>3. AloneDone(p)
  BY <1>1 DEF ShownInv
<1>4. \A q \in Procs \ {p} : pc[q] = "idle"
  BY <1>1, <1>2, OnlyOne
<1>5. \A q \in Procs \ {p} : pc'[q] = "idle"
  BY <1>4 DEF Pwm, SetCtl, SetRng, SetDat, SetOn, Goto, TypeInv
<1>6. \A q \in Procs \ {p} : AloneDone(q)'
  BY <1>5 DEF AloneDone, Busy
<1>7. CASE SetCtl(p)
  <2>1. pc'[p] = "rng" /\ asked' = asked
    BY <1>7 DEF SetCtl, Goto, TypeInv
  <2>2. AloneDone(p)'
    BY <2>1, <1>1, <1>2, <1>3 DEF AloneDone, Busy
  <2> QED
    BY <2>1, <2>2, <1>6 DEF Idle
<1>8. CASE SetRng(p)
  <2>1. pc'[p] = "dat" /\ asked' = asked /\ rng' = Period(p)
    BY <1>8, <1>2 DEF SetRng, Goto, TypeInv, Writel
  <2>2. AloneDone(p)'
    BY <2>1, <1>1, <1>2, <1>3 DEF AloneDone, Busy, Period
  <2> QED
    BY <2>1, <2>2, <1>6 DEF Idle
<1>9. CASE SetDat(p)
  <2>1. pc[p] = "dat" /\ pc'[p] = "on" /\ asked' = asked /\ rng' = rng /\ dat' = Data(p)
    BY <1>9, <1>2 DEF SetDat, Goto, TypeInv, Writel
  <2>2. AloneDone(p)'
    BY <2>1, <1>1, <1>2, <1>3 DEF AloneDone, Busy, Period, Data
  <2> QED
    BY <2>1, <2>2, <1>6 DEF Idle
<1>10. CASE SetOn(p)
  <2>1. pc[p] = "on" /\ pc'[p] = "idle" /\ rng' = rng /\ dat' = dat
    BY <1>10 DEF SetOn, Goto, TypeInv
  <2>2. AloneDone(p)'
    BY <2>1 DEF AloneDone, Busy
  <2>3. asked[p].duty = duty /\ rng = Period(p) /\ dat = Data(p)
    BY <2>1, <1>2, <1>3 DEF AloneDone
  <2>4. AtMost100(asked[p].duty) = duty
    BY <2>3 DEF AtMost100, TypeInv
  <2>5. dat = ((rng * duty) % U32) \div 100
    BY <2>3, <2>4 DEF Data
  <2> QED
    BY <2>1, <2>2, <2>5, <1>1, <1>6 DEF Programmed
<1> QED
  BY <1>7, <1>8, <1>9, <1>10 DEF Pwm

\* Every step keeps ShownInv.
LEMMA ShownStep ==
    ASSUME TypeInv, AloneInv, ShownInv, Next
    PROVE  ShownInv'
<1>1. ASSUME NEW p \in Procs, Pwm(p) PROVE ShownInv'
  BY <1>1, ShownPwm
<1>2. ASSUME NEW w \in Writers, NEW v \in Duties, DutyStore(w, v) PROVE ShownInv'
  <2>1. asked'[w].duty = duty'
    BY <1>2 DEF DutyStore, TypeInv, Procs
  <2> QED
    BY <1>2, <2>1, ShownEnter DEF DutyStore, Enter, Goto, Procs
<1>3. ASSUME NEW w \in Writers, DutyProgram(w) PROVE ShownInv'
  <2> SUFFICES ASSUME met' = {}, life' \in {"second", "bound"}
               PROVE (\A q \in Procs : AloneDone(q)') /\ (Idle' => Programmed')
    BY DEF ShownInv
  <2>1. w \in Procs /\ Busy(w) /\ met = {} /\ life \in {"second", "bound"} /\ duty' = duty
    BY <1>3 DEF DutyProgram, Busy, Procs
  <2>2. asked[w].duty = duty
    BY <2>1 DEF ShownInv, AloneDone
  <2>3. pc' = [pc EXCEPT ![w] = "ctl"] /\ asked'[w].duty = duty
    BY <1>3, <2>1, <2>2 DEF DutyProgram, CallSet, Goto, TypeInv
  <2>4. \A q \in Procs \ {w} : pc[q] = "idle"
    BY <2>1, OnlyOne
  <2>5. pc'[w] = "ctl" /\ \A q \in Procs \ {w} : pc'[q] = "idle"
    BY <2>1, <2>3, <2>4 DEF TypeInv
  <2>6. AloneDone(w)'
    BY <2>1, <2>3, <2>5 DEF AloneDone
  <2>7. \A q \in Procs \ {w} : AloneDone(q)'
    BY <2>5 DEF AloneDone, Busy
  <2> QED
    BY <2>1, <2>5, <2>6, <2>7 DEF Idle
<1>4. ASSUME NEW w \in Writers, NEW f \in Freqs, FreqStore(w, f) PROVE ShownInv'
  <2>1. asked'[w].duty = duty'
    BY <1>4 DEF FreqStore, CallSet, TypeInv, Procs
  <2> QED
    BY <1>4, <2>1, ShownEnter DEF FreqStore, CallSet, Enter, Goto, Procs
<1>5. ASSUME NEW v \in Duties, Probe(v) PROVE ShownInv'
  BY <1>5 DEF Probe, ShownInv
<1>6. CASE AfterNap
  <2>1. "driver" \in Procs /\ asked'["driver"].duty = duty'
    BY <1>6 DEF AfterNap, CallSet, TypeInv, Procs
  <2> QED
    BY <1>6, <2>1, ShownEnter DEF AfterNap, CallSet, Enter, Goto
<1>7. CASE Driver
  <2> SUFFICES ASSUME met' = {}, life' \in {"second", "bound"}
               PROVE (\A q \in Procs : AloneDone(q)') /\ (Idle' => Programmed')
    BY DEF ShownInv
  <2>1. Bound
    BY <1>7 DEF Driver, ProbeFails, Nap, Remove, RemoveClk, RemoveFile
  <2>2. met = {} /\ life = "second"
    BY <2>1 DEF Bound
  <2>3. (\A q \in Procs : AloneDone(q)) /\ (Idle => Programmed)
    BY <2>2 DEF ShownInv
  <2>4. UNCHANGED <<duty, rng, dat, pc, asked>>
    BY <2>1 DEF Bound, registers
  <2> QED
    BY <2>3, <2>4 DEF AloneDone, Busy, Period, Data, Idle, Programmed
<1> QED
  BY <1>1, <1>2, <1>3, <1>4, <1>5, <1>6, <1>7, NextCases

-----------------------------------------------------------------------------
\* The initial states satisfy the invariant.
LEMMA InitInv == Init => Inv
<1> SUFFICES ASSUME Init PROVE Inv
  OBVIOUS
<1>1. TypeInv
  BY DEF Init, TypeInv, Lives, Places, NoCall
<1>2. AloneInv /\ DriverInv
  BY DEF Init, AloneInv, DriverInv, Busy
<1>3. OnInv /\ ShownInv
  BY DEF Init, OnInv, ShownInv
<1> QED
  BY <1>1, <1>2, <1>3 DEF Inv

\* Every step keeps it.
LEMMA StepInv == Inv /\ [Next]_vars => Inv'
<1> SUFFICES ASSUME Inv, [Next]_vars PROVE Inv'
  OBVIOUS
<1>1. CASE Next
  BY <1>1, TypeStep, AloneStep, DriverStep, OnStep, ShownStep DEF Inv
<1>2. CASE UNCHANGED vars
  <2>1. TypeInv' /\ AloneInv' /\ DriverInv'
    BY <1>2 DEF vars, Inv, TypeInv, AloneInv, DriverInv, Busy
  <2>2. OnInv'
    BY <1>2 DEF vars, Inv, OnInv, Midway
  <2>3. ShownInv'
    BY <1>2 DEF vars, Inv, ShownInv, AloneDone, Busy, Period, Data, Idle, Programmed
  <2> QED
    BY <2>1, <2>2, <2>3 DEF Inv
<1> QED
  BY <1>1, <1>2

\* It holds in every state.
LEMMA Always == Spec => []Inv
BY InitInv, StepInv, PTL DEF Spec

\* However many writers overlap, with each other or with pwm_demo_probe, the
\* channel is on when all calls of pwm_set have returned.
THEOREM On == Spec => []OnWhenIdle
<1>1. Inv => OnWhenIdle
  BY DEF Inv, OnInv, OnWhenIdle, Idle, Midway
<1> QED
  BY <1>1, Always, PTL

\* A store that overlaps no other leaves in the registers what duty_show shows,
\* whatever was there before, if the product fits into 32 bits.
THEOREM Shown == Spec => []ShownIsProgrammed
<1>1. Inv => ShownIsProgrammed
  <2> SUFFICES ASSUME Inv, life = "bound", Idle, met = {}, rng * 100 < U32
               PROVE dat = (rng * duty) \div 100
    BY DEF ShownIsProgrammed
  <2>1. dat = ((rng * duty) % U32) \div 100
    BY DEF Inv, ShownInv, Programmed
  <2>2. rng \in Nat /\ duty \in Nat /\ duty <= 100
    BY DEF Inv, TypeInv
  <2>3. rng * duty <= rng * 100
    BY <2>2
  <2>4. rng * duty \in Nat /\ rng * duty < U32
    BY <2>2, <2>3, PwmAssumption
  <2>5. (rng * duty) % U32 = rng * duty
    BY <2>4, PwmAssumption
  <2> QED
    BY <2>1, <2>5
<1> QED
  BY <1>1, Always, PTL
=============================================================================
