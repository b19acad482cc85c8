----------------------------- MODULE SensorPath -----------------------------
(***************************************************************************)
(* From the sensors to the stale test: the IMU's samples wait in the ring  *)
(* of imu_mpu6050.c, sensor_thread of apps/balancertd/balancertd_arch.c    *)
(* takes at most one of them per iteration, filters and publishes it, and  *)
(* ctrl_thread compares the age of the PUBLICATION with the stale limit.   *)
(*                                                                         *)
(* The ring is used by its contract, DropOldestQueue, which ImuRing        *)
(* implements; the shared records by theirs, SnapshotRegister.  The unit   *)
(* of time is the sample period: 1 ms, for mpu6050_init_hw sets SMPLRT_DIV *)
(* to 0 with the low-pass filter on.  A sample is its time stamp; what the *)
(* filter makes of its values is left out.  The two encoders are alike, so *)
(* one is modelled.  Wheel movement is kept relative to the last read, as  *)
(* enc_update uses it.                                                     *)
(***************************************************************************)
EXTENDS Integers, Sequences

CONSTANTS RbSize,       \* RB_SIZE: the samples the ring holds
          Stale,        \* STALE_ENC_NS = STALE_IMU_NS
          Decim,        \* enc_decim: reads per speed window
          LoopMax,      \* longest time from one usleep of the sensor loop to the next
          MaxTime,      \* bound on the time modelled
          Moves,        \* what the wheel may turn between two reads
          OpenMayFail,  \* may the encoder or the IMU fail to open?
          EncMayFail,   \* may reads of the encoder fail?
          IrqMayFail    \* may interrupts of the IMU be lost?

ASSUME PathAssumption ==
    /\ RbSize \in Nat \ {0} /\ Stale \in Nat /\ Decim \in Nat \ {0}
    /\ LoopMax \in Nat \ {0} /\ MaxTime \in Nat
    /\ Moves \subseteq Int
    /\ OpenMayFail \in BOOLEAN /\ EncMayFail \in BOOLEAN /\ IrqMayFail \in BOOLEAN

VARIABLES now,          \* CLOCK_MONOTONIC, positive
          ready,        \* the IMU has raised its interrupt
          queue, newest, popped,    \* the ring: see DropOldestQueue
          lost,         \* history: has a sample been lost before the ring?
          filled,       \* history: has the ring been full?
          spc,          \* sensor_thread
          imuOpen,      \* imu_fd >= 0
          sleepAt,      \* when it entered usleep last, at first when it opened
          openAt,       \* history: when it opened the devices
          e,            \* enc_state_t: unread counts, time of prev, accumulators
          win,          \* history: since the last speed window ended: when that
                        \* was, how far the wheel turned, how many reads failed
          imuRec,       \* sh_imu: its stamp (the sample behind it is popped, or none
                        \* yet); history: was the ring full before that was read?
          encRec        \* sh_enc_l: stamp and rpm, as counts and time; history:
                        \* the true counts and time, the end of the window

imuVars == <<ready, queue, newest, popped, lost, filled>>
encVars == <<e, win, encRec>>
vars == <<now, ready, queue, newest, popped, lost, filled, spc, imuOpen, sleepAt, openAt,
          imuRec, e, win, encRec>>

Ring == INSTANCE DropOldestQueue WITH Capacity <- RbSize, Samples <- 1..MaxTime

Outcomes(mayFail) == IF mayFail THEN {TRUE, FALSE} ELSE {TRUE}

\* The encoder read at this moment, with the accumulators as given.
Accumulated(dcount, dts, k) ==
    [unread |-> 0, prev |-> now, dcount |-> dcount, dts |-> dts, k |-> k]

NewWindow == [start |-> now, moved |-> 0, fails |-> 0]

\* The zeroed ctx_t; the ring is as imu_probe leaves it.
Init ==
    /\ now = 1 /\ ready = FALSE /\ Ring!Init /\ lost = FALSE /\ filled = FALSE
    /\ spc = "closed" /\ imuOpen = FALSE /\ sleepAt = 0 /\ openAt = 0
    /\ e = [unread |-> 0, prev |-> 0, dcount |-> 0, dts |-> 0, k |-> 0]
    /\ win = NewWindow
    /\ imuRec = [ts |-> 0, late |-> FALSE]
    /\ encRec = [ts |-> 0, rpm |-> <<0, 0>>, truth |-> <<0, 0>>, upTo |-> 0]

Running == spc \in {"enc", "imu", "sleep"}

-----------------------------------------------------------------------------
(* Time, the IMU and its driver.                                           *)

\* A unit of time passes and the IMU raises its interrupt.  An interrupt that is
\* still pending swallows the new one.
Tick ==
    /\ now < MaxTime
    /\ Running => now < sleepAt + LoopMax
    /\ ready => IrqMayFail
    /\ now' = now + 1
    /\ ready' = TRUE
    /\ lost' = (lost \/ ready)
    /\ UNCHANGED <<queue, newest, popped, filled, spc, imuOpen, sleepAt, openAt, imuRec, encVars>>

\* Mutant: a full ring refuses the new sample.
IrqPushRefused ==
    /\ ready
    /\ IF Len(queue) < RbSize THEN Ring!Push /\ newest' = now
       ELSE UNCHANGED <<queue, newest, popped>>
    /\ ready' = FALSE
    /\ filled' = (filled \/ Len(queue') = RbSize)
    /\ UNCHANGED <<now, lost, spc, imuOpen, sleepAt, openAt, imuRec, encVars>>

\* imu_irq_thread: the sample is stamped and pushed, whether or not anybody has
\* the device open.
IrqPush ==
    /\ ready
    /\ Ring!Push /\ newest' = now
    /\ ready' = FALSE
    /\ filled' = (filled \/ Len(queue') = RbSize)
    /\ UNCHANGED <<now, lost, spc, imuOpen, sleepAt, openAt, imuRec, encVars>>

\* The block read over I2C fails: IRQ_HANDLED without a sample.
IrqReadFails ==
    /\ ready /\ IrqMayFail
    /\ ready' = FALSE /\ lost' = TRUE
    /\ UNCHANGED <<now, queue, newest, popped, filled, spc, imuOpen, sleepAt, openAt, imuRec, encVars>>

-----------------------------------------------------------------------------
(* sensor_thread.                                                          *)

\* enc_open with its first read, then /dev/imu0, whose failure is tolerated.  The
\* initial records say theta = 0 and rpm = 0 with a fresh stamp.  Opening the
\* device does not empty the ring.
SensorOpen ==
    /\ spc = "closed"
    /\ spc' = "enc"
    /\ imuOpen' \in Outcomes(OpenMayFail)
    /\ sleepAt' = now /\ openAt' = now
    /\ e' = Accumulated(0, 0, 0)
    /\ win' = NewWindow
    /\ imuRec' = [imuRec EXCEPT !.ts = now]
    /\ encRec' = [ts |-> now, rpm |-> <<0, 0>>, truth |-> <<0, 0>>, upTo |-> now]
    /\ UNCHANGED <<now, imuVars>>

\* enc_open fails, or its first read does until the time-out: the thread returns.
SensorOpenFails ==
    /\ spc = "closed" /\ OpenMayFail
    /\ spc' = "returned"
    /\ UNCHANGED <<now, imuVars, imuOpen, sleepAt, openAt, imuRec, encVars>>

\* Mutant: a window ends one read late.
WindowEndsLate == now > e.prev /\ e.k >= Decim

\* The read of this iteration, if it succeeds, completes a window.
WindowEnds == now > e.prev /\ e.k + 1 >= Decim

\* Mutant: the time of a window is not reset with its count.
enc_update_keep_dts(dcount) ==
    IF now <= e.prev THEN Accumulated(e.dcount, e.dts, e.k)
    ELSE IF WindowEnds THEN Accumulated(0, e.dts, 0)
    ELSE Accumulated(e.dcount + dcount, e.dts + (now - e.prev), e.k + 1)

\* The state of the encoder after a read that gave dcount counts more than the
\* read before it.
enc_update(dcount) ==
    IF now <= e.prev THEN Accumulated(e.dcount, e.dts, e.k)
    ELSE IF WindowEnds THEN Accumulated(0, 0, 0)
    ELSE Accumulated(e.dcount + dcount, e.dts + (now - e.prev), e.k + 1)

\* usleep(1000) is entered.
Sleep == spc' = "sleep" /\ sleepAt' = now

\* A read that succeeds and ends a window, whose rpm it gives; the wheel has turned
\* by d since the last iteration.
ReadEndsWindow(d) ==
    /\ WindowEnds
    /\ e' = enc_update(e.unread + d)
    /\ win' = NewWindow
    /\ encRec' = [ts |-> now, upTo |-> now,
                  rpm |-> <<e.dcount + (e.unread + d), e.dts + (now - e.prev)>>,
                  truth |-> <<win.moved + d, now - win.start>>]

\* A read that succeeds within a window: the rpm stays.
ReadCounts(d) ==
    /\ ~WindowEnds
    /\ e' = enc_update(e.unread + d)
    /\ win' = [win EXCEPT !.moved = win.moved + d]
    /\ encRec' = [encRec EXCEPT !.ts = now]

\* EAGAIN, an error or a short read changes nothing.
ReadFails(d) ==
    /\ EncMayFail
    /\ e' = [e EXCEPT !.unread = e.unread + d]
    /\ win' = [start |-> win.start, moved |-> win.moved + d, fails |-> win.fails + 1]
    /\ encRec' = [encRec EXCEPT !.ts = now]

\* enc_update and shared_enc_write.  The stamp is fresh in every case.  The clock
\* has advanced since the read before.
EncStep ==
    /\ spc = "enc" /\ now > e.prev
    /\ \E d \in Moves : ReadEndsWindow(d) \/ ReadCounts(d) \/ ReadFails(d)
    /\ IF imuOpen THEN spc' = "imu" /\ UNCHANGED sleepAt ELSE Sleep
    /\ UNCHANGED <<now, imuVars, imuOpen, openAt, imuRec>>

\* EAGAIN: the ring is empty, nothing is published.
ImuEmpty ==
    /\ spc = "imu" /\ queue = <<>>
    /\ Sleep
    /\ UNCHANGED <<now, imuVars, imuOpen, openAt, imuRec, encVars>>

\* One sample is read and filtered into theta, which is published with the time
\* of this moment, not that of the sample.
ImuSample ==
    /\ spc = "imu"
    /\ Ring!Pop
    /\ imuRec' = [ts |-> now, late |-> filled]
    /\ Sleep
    /\ UNCHANGED <<now, ready, lost, filled, imuOpen, openAt, encVars>>

\* usleep(1000) returns, 1 ms or more after it was entered: the next iteration, or
\* main has raised stop.
SensorLoop ==
    /\ spc = "sleep" /\ now > sleepAt
    /\ spc' \in {"enc", "returned"}
    /\ UNCHANGED <<now, imuVars, imuOpen, sleepAt, openAt, imuRec, encVars>>

-----------------------------------------------------------------------------
(* ctrl_thread, as far as it judges the records.                           *)

Age(ts) == IF ts > 0 /\ now > ts THEN now - ts ELSE 0

\* Mutant: the IMU is not looked at.
IsStaleEncOnly == Age(encRec.ts) > Stale

\* What a balance tick would find now.
IsStale == Age(encRec.ts) > Stale \/ Age(imuRec.ts) > Stale

-----------------------------------------------------------------------------
Finished == (now = MaxTime \/ spc = "returned") /\ UNCHANGED vars

Next ==
    \/ Tick \/ IrqPush \/ IrqReadFails
    \/ SensorOpen \/ SensorOpenFails \/ EncStep \/ ImuEmpty \/ ImuSample \/ SensorLoop
    \/ Finished

Spec == Init /\ [][Next]_vars

-----------------------------------------------------------------------------
(* Properties.                                                             *)

\* The speed of a record is the true one: the counts and the time behind rpm are
\* those between two reads, and consecutive windows leave no count and no time
\* out, however many reads fail in between (enc_update).
WindowExact == encRec.rpm = encRec.truth

\* The record is stamped afresh in every iteration, so the stale test says nothing
\* of the speed in it; but that speed is at most one window old, plus one
\* iteration for each read that failed.
RpmAge == encRec.ts - encRec.upTo <= (Decim + win.fails) * LoopMax - 1

\* The tilt is late by the whole ring.  Samples come as fast as the loop takes
\* them, so a ring that was full once stays full, and opening the device does not
\* empty it: while no interrupt is lost a published sample is at most RbSize
\* periods old, and from the first overflow on it is never fresher than that.
LagIsTheRing ==
    (~lost /\ popped > 0) =>
        LET lag == imuRec.ts - popped
        IN lag <= RbSize /\ (imuRec.late => lag >= RbSize - 1)

\* A dead IMU is noticed: once the loop has worked off what the ring held, one
\* sample per iteration, and the stale limit has passed, every tick is stale.
DeadImuNoticed ==
    LET silentSince == IF newest > openAt THEN newest ELSE openAt
    IN (Running /\ now > silentSince + RbSize * LoopMax + Stale) => IsStale

\* "safety: stale encoder/imu": a tick that is not stale acts on a sample that is
\* no older than the stale limit.
DriveOnRecentTilt == (Running /\ popped > 0 /\ ~IsStale) => now - popped <= Stale
=============================================================================
