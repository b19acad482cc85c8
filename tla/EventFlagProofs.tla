-------------------------- MODULE EventFlagProofs --------------------------
(***************************************************************************)
(* Proofs about EventFlag for any number of readers, callers and events.   *)
(***************************************************************************)
EXTENDS EventFlag, TLAPS

\* What a reader has reported or is bound to report, be it for the flag it saw or
\* for the flag it would see, is covered by the events so far and its signals.
Paid(r) ==
    reports[r] + (IF rpc[r] = "copy" THEN 1 ELSE 0)
               + (IF rpc[r] = "clear" \/ condition = 1 THEN 1 ELSE 0) <= events + signals[r]

\* A press counted, or about to be counted, by the interrupt handler.
Counted == IF tpc["irq"] = "set" THEN events + 1 ELSE events

\* Only the button counts in irqbtn_debounce, and its presses are spaced.
DebounceInv ==
    drv = "irqbtn_debounce" =>
        /\ \A s \in Callers : tpc[s] = "idle"
        /\ scheduled = 0
        /\ (Counted - 1) * Debounce <= last_jiffies
        /\ last_jiffies <= now

\* The inductive invariant.
IInv == TypeOK /\ (\A r \in Readers : Paid(r)) /\ DebounceInv

-----------------------------------------------------------------------------
\* The initial states satisfy the invariant.
LEMMA InitIInv == Init => IInv
<1> SUFFICES ASSUME Init PROVE IInv
  OBVIOUS
<1>1. TypeOK
  BY EventAssumption DEF Init, TypeOK
<1>2. \A r \in Readers : Paid(r)
  BY DEF Init, Paid
<1>3. DebounceInv
  BY EventAssumption DEF Init, DebounceInv, Counted, Sources
<1> QED
  BY <1>1, <1>2, <1>3 DEF IInv

\* A further press, at least Debounce after the last one, keeps the bound.
LEMMA OneMore ==
    ASSUME NEW n \in Int, NEW d \in Int, NEW t \in Int, (n - 1) * d <= t
    PROVE  ((n + 1) - 1) * d <= t + d
<1>1. ((n + 1) - 1) * d = (n - 1) * d + d
  OBVIOUS
<1>2. (n - 1) * d \in Int
  OBVIOUS
<1> QED
  BY <1>1, <1>2

\* The steps that begin an event keep the invariant.
LEMMA BeginIInv ==
    ASSUME IInv,
           Press \/ ScheduleTasklet \/ RunTasklet \/ Tick \/ (\E s \in Sources : Trigger(s))
    PROVE  IInv'
<1> USE DEF IInv
<1>1. /\ UNCHANGED <<drv, condition, waiting, rpc, events, signals, reports>>
      /\ tpc' \in [Sources -> {"idle", "set", "wake"}] /\ scheduled' \in {0, 1}
      /\ now' \in Nat /\ last_jiffies' \in Int
  BY DEF Press, ScheduleTasklet, RunTasklet, Tick, Trigger, Start, TypeOK
<1>2. TypeOK'
  BY <1>1 DEF TypeOK
<1>3. (\A r \in Readers : Paid(r))'
  BY <1>1 DEF Paid
<1>4. DebounceInv'
  <2> SUFFICES ASSUME drv = "irqbtn_debounce"
               PROVE  DebounceInv'
    BY <1>1 DEF DebounceInv
  <2>1. Press \/ Tick
    BY DEF ScheduleTasklet, RunTasklet, Trigger, DebounceInv
  <2>2. CASE Press
    <3>1. /\ now >= last_jiffies + Debounce /\ last_jiffies' = now /\ now' = now
          /\ tpc["irq"] = "idle" /\ tpc' = [tpc EXCEPT !["irq"] = "set"]
          /\ scheduled' = scheduled
      BY <2>2 DEF Press, Start
    <3>2. Counted = events /\ Counted' = events + 1
      BY <1>1, <3>1 DEF Counted, TypeOK, Sources
    <3>3. (\A s \in Callers : tpc'[s] = "idle") /\ scheduled' = 0
      BY <3>1, EventAssumption DEF DebounceInv, TypeOK, Sources
    <3>4. ((events + 1) - 1) * Debounce <= last_jiffies + Debounce
      BY <3>2, OneMore, EventAssumption DEF DebounceInv, TypeOK
    <3>5. ((events + 1) - 1) * Debounce \in Int /\ last_jiffies + Debounce \in Int /\ now \in Int
      BY EventAssumption DEF TypeOK
    <3> HIDE DEF IInv
    <3>6. ((events + 1) - 1) * Debounce <= now
      BY <3>1, <3>4, <3>5
    <3> QED
      BY <3>1, <3>2, <3>3, <3>6, <3>5 DEF DebounceInv
  <2>3. CASE Tick
    BY <2>3 DEF Tick, DebounceInv, Counted, TypeOK
  <2> QED
    BY <2>1, <2>2, <2>3
<1> QED
  BY <1>2, <1>3, <1>4

\* Setting the flag and waking the queue keep the invariant.
LEMMA SourceIInv ==
    ASSUME IInv, NEW s \in Sources, Source(s)
    PROVE  IInv'
<1> USE DEF IInv
<1>1. CASE SetFlag(s)
  <2>1. TypeOK'
    BY <1>1 DEF SetFlag, TypeOK
  <2>2. ASSUME NEW r \in Readers PROVE Paid(r)'
    BY <1>1 DEF SetFlag, Paid, TypeOK
  <2>3. DebounceInv'
    <3> SUFFICES ASSUME drv = "irqbtn_debounce"
                 PROVE  DebounceInv'
      BY <1>1 DEF DebounceInv, SetFlag
    <3>1. s = "irq"
      BY <1>1 DEF SetFlag, DebounceInv, Sources
    <3>2. Counted' = Counted
      BY <1>1, <3>1 DEF SetFlag, Counted, TypeOK
    <3> QED
      BY <1>1, <3>1, <3>2, EventAssumption DEF SetFlag, DebounceInv, TypeOK, Sources
  <2> QED
    BY <2>1, <2>2, <2>3
<1>2. CASE WakeUp(s)
  <2>1. TypeOK'
    BY <1>2 DEF WakeUp, TypeOK
  <2>2. ASSUME NEW r \in Readers PROVE Paid(r)'
    BY <1>2 DEF WakeUp, Paid
  <2>3. DebounceInv'
    <3>1. Counted' = Counted
      BY <1>2 DEF WakeUp, Counted, TypeOK, Sources
    <3> QED
      BY <1>2, <3>1 DEF WakeUp, DebounceInv, TypeOK, Sources
  <2> QED
    BY <2>1, <2>2, <2>3
<1> QED
  BY <1>1, <1>2 DEF Source

\* The steps of a reader keep the invariant.
LEMMA ReaderIInv ==
    ASSUME IInv, NEW q \in Readers, Read(q) \/ InRead(q) \/ Signal(q)
    PROVE  IInv'
<1> USE DEF IInv
<1>0. UNCHANGED <<drv, source>>
  BY DEF Read, InRead, Signal, Test, Prepare, Retest, Resume, Clear, CopyOut
<1>1. DebounceInv'
  BY <1>0 DEF DebounceInv, Counted, source
<1>2. CASE Read(q) \/ Test(q) \/ Prepare(q) \/ Retest(q) \/ Resume(q)
  <2>1. TypeOK'
    BY <1>0, <1>2 DEF Read, Test, Prepare, Retest, Resume, Goto, TypeOK, source
  <2>2. ASSUME NEW r \in Readers PROVE Paid(r)'
    BY <1>0, <1>2 DEF Read, Test, Prepare, Retest, Resume, Goto, Paid, TypeOK, source
  <2> QED
    BY <1>1, <2>1, <2>2
<1>3. CASE Signal(q)
  <2>1. TypeOK'
    BY <1>0, <1>3 DEF Signal, Goto, TypeOK, source
  <2>2. ASSUME NEW r \in Readers PROVE Paid(r)'
    BY <1>0, <1>3 DEF Signal, Goto, Paid, TypeOK, source
  <2> QED
    BY <1>1, <2>1, <2>2
<1>4. CASE Clear(q)
  <2>1. TypeOK'
    BY <1>0, <1>4 DEF Clear, Report, Goto, TypeOK, source
  <2>2. ASSUME NEW r \in Readers PROVE Paid(r)'
    BY <1>0, <1>4 DEF Clear, Report, Goto, Paid, TypeOK, source
  <2> QED
    BY <1>1, <2>1, <2>2
<1>5. CASE CopyOut(q)
  <2>1. TypeOK'
    BY <1>0, <1>5 DEF CopyOut, Report, Goto, TypeOK, source
  <2>2. ASSUME NEW r \in Readers PROVE Paid(r)'
    BY <1>0, <1>5 DEF CopyOut, Report, Goto, Paid, TypeOK, source
  <2> QED
    BY <1>1, <2>1, <2>2
<1> QED
  BY <1>2, <1>3, <1>4, <1>5 DEF InRead

\* Every step keeps the invariant.
LEMMA NextIInv == IInv /\ [Next]_vars => IInv'
<1> SUFFICES ASSUME IInv, [Next]_vars PROVE IInv'
  OBVIOUS
<1>1. CASE UNCHANGED vars
  BY <1>1 DEF vars, IInv, TypeOK, Paid, DebounceInv, Counted
<1>2. CASE Next
  BY <1>2, BeginIInv, SourceIInv, ReaderIInv DEF Next
<1> QED
  BY <1>1, <1>2

\* The invariant holds in every reachable state.
LEMMA Invariance == Spec => []IInv
BY InitIInv, NextIInv, PTL DEF Spec

-----------------------------------------------------------------------------
\* The state of the four drivers stays well typed; the flag stays 0 or 1.
THEOREM TypeCorrect == Spec => []TypeOK
<1>1. IInv => TypeOK
  BY DEF IInv
<1> QED
  BY <1>1, Invariance, PTL

\* For any number of readers, no reader reports more often than events and its own
\* signals account for.
THEOREM Reports == Spec => []ReportsPaid
<1>1. IInv => ReportsPaid
  BY DEF IInv, Paid, TypeOK, ReportsPaid
<1> QED
  BY <1>1, Invariance, PTL

\* irqbtn_debounce counts at most one press per DEBOUNCE_MS.
THEOREM Debounced == Spec => []RateLimited
<1>1. IInv => RateLimited
  <2> SUFFICES ASSUME IInv, drv = "irqbtn_debounce"
               PROVE  (events - 1) * Debounce <= now
    BY DEF RateLimited
  <2>1. /\ (Counted - 1) * Debounce <= now /\ events \in Int /\ now \in Int
        /\ Counted \in {events, events + 1}
    <3>1. (Counted - 1) * Debounce \in Int
      BY EventAssumption DEF IInv, TypeOK, Counted
    <3> QED
      BY <3>1, EventAssumption DEF IInv, TypeOK, DebounceInv, Counted
  <2>2. ((events + 1) - 1) * Debounce = (events - 1) * Debounce + Debounce
    BY <2>1, EventAssumption
  <2>3. (events - 1) * Debounce \in Int
    BY <2>1, EventAssumption
  <2> QED
    BY <2>1, <2>2, <2>3, EventAssumption
<1> QED
  BY <1>1, Invariance, PTL

\* Whoever sleeps on the queue while the flag is set is about to be woken, for any
\* number of readers and event sources: the flag is tested once more after the task
\* was queued, and every event that sets the flag wakes the queue afterwards.
THEOREM Woken == Spec => []WakeupPending
<1>1. Init => WakeupPending
  BY DEF Init, WakeupPending
<1>2. TypeOK /\ WakeupPending /\ [Next]_vars => WakeupPending'
  <2> SUFFICES ASSUME TypeOK, WakeupPending, [Next]_vars, NEW r \in Readers,
                      rpc'[r] = "asleep", r \in waiting', condition' = 1
               PROVE  \E s \in Sources : tpc'[s] = "wake"
    BY DEF WakeupPending
  <2>1. CASE UNCHANGED vars
    BY <2>1 DEF vars, WakeupPending
  <2>2. CASE Press \/ ScheduleTasklet \/ RunTasklet \/ Tick \/ (\E s \in Sources : Trigger(s))
    <3>1. UNCHANGED <<rpc, waiting, condition>>
      BY <2>2 DEF Press, ScheduleTasklet, RunTasklet, Tick, Trigger
    <3>2. PICK s \in Sources : tpc[s] = "wake"
      BY <3>1 DEF WakeupPending
    <3>3. tpc'[s] = "wake"
      BY <2>2, <3>2 DEF Press, ScheduleTasklet, RunTasklet, Tick, Trigger, Start, TypeOK
    <3> QED
      BY <3>3
  <2>3. ASSUME NEW s \in Sources, SetFlag(s) PROVE tpc'[s] = "wake"
    BY <2>3 DEF SetFlag, TypeOK
  <2>4. ASSUME NEW s \in Sources, WakeUp(s) PROVE FALSE
    BY <2>4 DEF WakeUp
  <2>5. ASSUME NEW q \in Readers, Read(q) \/ InRead(q) \/ Signal(q)
        PROVE  \E s \in Sources : tpc'[s] = "wake"
    <3>1. tpc' = tpc
      BY <2>5 DEF Read, InRead, Test, Prepare, Retest, Resume, Clear, CopyOut, Signal, source
    <3>2. rpc[r] = "asleep" /\ r \in waiting /\ condition = 1
      BY <2>5 DEF Read, InRead, Test, Prepare, Retest, Resume, Clear, CopyOut, Signal, Goto,
                  Report, TypeOK
    <3> QED
      BY <3>1, <3>2 DEF WakeupPending
  <2> QED
    BY <2>1, <2>2, <2>3, <2>4, <2>5 DEF Next, Source
<1> QED
  BY <1>1, <1>2, TypeCorrect, PTL DEF Spec
=============================================================================
