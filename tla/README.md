# A TLA+ development for the rpi4_dev balance car

The repository builds a self-balancing two-wheel car on a Raspberry Pi 4: three
kernel drivers (`driver/encoder`, `driver/imu`, `driver/motor`), a real-time
control daemon in user space (`apps/balancertd/balancertd_arch.c`) and, around
them, tutorial kernel modules, small test programs and a boot environment made of
vendored code. This directory models the parts that make the car move, checks them
with TLC on small instances and proves the most important results with TLAPS for
every value of the parameters.

## 1. Inventory

| component | state it keeps | operations | correct when |
|---|---|---|---|
| shared records `shared_enc_t`, `shared_imu_t` (balancertd_arch.c 87-183) | `seq` and plain fields | `shared_*_write` by the sensor thread, `shared_*_read` by the control and logger threads | an accepted read is one version, current during the call; a read never waits |
| sensor thread (249-437) | encoder windows and filter state, time stamps | read the encoders and at most one IMU sample about once per millisecond, publish | speed windows lose no count and no time; how old the data behind a fresh stamp is has a bound |
| control thread (495-741) | deadlines `next_ns`, `end_ns`, kick and cool-down counters, last command | one tick per period: read three records, stale test, PD and kick, `MOTOR_IOC_SET` | silence or a fall stops the wheels; kicks are short; the loop ends in time and with the wheels off |
| main and logger (440-485, 744-862) | `stop`, statistics | create threads, wait, raise `stop`, join | the process ends |
| encoder driver (quad_encoder.c) | `count`, `prev_state` under a spinlock | one interrupt handler for two lines, `read`, `poll`, probe and remove of several devices | slow edges are counted exactly; fast ones do not put the decoder out of step |
| IMU driver (imu_mpu6050.c) | 64-slot ring with `u32` counters, wait queue, `opened` | threaded interrupt handler, `open`, `release`, `read`, `poll`, probe, remove | drop-oldest FIFO, no lost wake-up, one opener |
| motor driver (motor_pwm.c) | `enabled`, four direction pins, a standby pin, two PWM channels | `ENABLE`, `BRAKE`, `SET` under a mutex, probe, remove | brake, and loading the module again, stop both wheels; duty within the period; a successful `SET` did what was asked |
| earlier daemons (balancertd.c, balancertd1.c) | encoder window, integrator, kick clock, last duty | one control thread: encoder window, PI controller with kick-start, slew limiter, `MOTOR_IOC_SET` | kicks and slew are bounded; a reference of 0 stops the wheel; a silent encoder does not wind up the integrator |
| event drivers (irqwait, irqbtn, irqbtn_debounce, irqtasklet) | one flag, one wait queue, a press time, a tasklet | `ioctl` and sysfs triggers, interrupt handlers, tasklet, blocking `read` | a reader reports no event twice; no lost wake-up; presses that count are apart |
| PWM demonstration driver (KernelModule/pwm/pwm.c) | `duty`, three registers, a clock, two sysfs files | stores to `duty` and `freq` without a lock, probe with a sleep, remove | the channel ends switched on; the registers come to hold what `duty` shows |
| other tutorial drivers (KernelModule/) | a memory buffer, LEDs | character devices | not modelled, see section 7 |
| test programs, boot scripts, busybox, dropbear, U-Boot | none of their own, or third party | | not modelled |

How they interact: the sensor thread reads the encoder and IMU drivers with
non-blocking `read` and publishes three records; the control thread reads the
records and calls the motor driver's ioctls; the logger reads the same records and
exchanges the statistics counters; `main` starts the threads, waits and sets the
`volatile` flag `stop`. Interrupt handlers run against all of that.

What is hard here: lock-free publication between threads on a weakly ordered CPU;
time stamps that decide whether data is trusted; interrupt handlers against system
calls and against each other; merged and lost edges; hardware writes that fail half
way; and ending with the wheels off whatever state the threads are in. Each such
place is listed under "hazards" in PROJECT.json with the property that watches it.

## 2. Modules

| module | models | role |
|---|---|---|
| SnapshotRegister | what the shared records promise | abstract specification |
| SeqSnapshot, MCSeqSnapshot | `shared_*_write`, `shared_*_read`, one step per memory access | detailed specification; implements SnapshotRegister |
| SeqSnapshotProofs | | proofs about SeqSnapshot |
| DropOldestQueue | what the IMU ring promises | abstract specification |
| ImuRing | imu_mpu6050.c: interrupt thread, ring, wait queue, file operations | detailed specification; implements DropOldestQueue |
| ImuRingProofs | | proofs about ImuRing |
| QuadEncoder | quad_encoder.c: wheel, pins, edges, `enc_irq`, the racy part of `enc_probe` | specification |
| QuadEncoderProofs | | proofs about QuadEncoder |
| MotorPwm, MCMotorPwm | motor_pwm.c: every ioctl and probe as the list of hardware writes it makes, remove | specification |
| SpeedLoop, MCSpeedLoop | balancertd.c and balancertd1.c: main and the control thread | specification |
| MotorPwmProofs | | proofs about MotorPwm and about SpeedLoop, the daemons that command it |
| EventFlag | the four event drivers, chosen by the variable `drv` | specification |
| EventFlagProofs | | proofs about EventFlag |
| BalanceCtrl, MCBalanceCtrl | balancertd_arch.c: main, sensor, logger and control threads, composed around the records | specification; uses the records as SnapshotRegister promises them |
| BalanceCtrlProofs | | proofs about BalanceCtrl |
| SensorPath | IMU interrupts, ring, sensor thread with `enc_update`, stale test | specification; composes the driver, used as DropOldestQueue promises it (INSTANCE), with the daemon |
| SensorPathProofs | | proofs about SensorPath |
| PwmDemo | pwm.c: `pwm_set` write by write, sysfs stores, probe, remove | specification |
| PwmDemoProofs | | proofs about PwmDemo |

Definitions called "Mutant" in the comments are deliberately wrong variants of the
definition that follows them. No specification uses them; replacing the definition
by its variant must break the property PROJECT.json pairs it with.

### SeqSnapshot
A field holds the number of the write that stored it. Loads and stores of `seq` and
of each field are separate steps. `InOrder = TRUE` performs a thread's accesses in
program order. `InOrder = FALSE` keeps only what C11 demands of the code's
`memory_order_release` and `memory_order_acquire`: fields may be stored before the
odd counter becomes visible (`StoreField` enabled in "called"), and loaded after the
second load of `seq` (`LoadField` enabled in "check"). `snap[r]` is what r's last
successful call copied out; a failing call leaves it alone.

### BalanceCtrl
Time is a discrete clock. `Tick` lets it pass while main or the control thread
waits, but not so far that the SCHED_FIFO control thread is later than `MaxLate`
after `next_ns`, or starts later than `StartBy`; nothing of the kind is assumed of
the sensor thread, which runs under SCHED_OTHER and may stay away for ever. A record
is published in two steps; a read in between fails and leaves the zero-initialised
locals, as in the code. The control tick has one step per shared access. The decision
is one of the three actions `ActStale`, `ActSpeed`, `ActBalance`, each with its motor
command, its counters and its way of computing the next deadline. The PD output is
reduced to its sign and to zero or full magnitude, the tilt to "beyond theta_cut_deg
or not", a wheel's speed to "below kick_rpm_th or not". A wheel is
what its direction pins say and the duty of its channel. A failing `MOTOR_IOC_SET` has
written the pins of the wheel that failed, which keeps its old duty, and if that is the left
one the right wheel is not reached, as MotorPwm shows in detail; `setOk` says whether the
last one succeeded. `mode` is the configured mode: 0 never drives, 1 balances, and any other
value balances too, but without the IMU's part of the stale test, so `SilenceStops` says
nothing of the IMU's record there. The wheels are at rest when the daemon starts; a duty that
an earlier program left behind is in MotorPwm and SpeedLoop.

### SensorPath
The unit of time is the sample period of 1 ms. An IMU sample is its time stamp. The
interrupt thread pushes it into the ring, also while nobody has the device open; the
sensor loop reads the encoder, then at most one sample, publishes both with the time of
publication and sleeps at least one unit. Interrupts may be lost, reads and opens may
fail. An iteration takes at most `LoopMax`. `encRec` carries the counts and the time
`enc_update` computed its rpm from, and beside them the true ones; `win` is the history
of the current window. `IsStale` is the control loop's test of what is published now.

### PwmDemo
Each register write of `pwm_set` is a step of the process that makes it: a writer of
`duty` or `freq`, or the driver in probe. `duty_store` stores `p->duty` and then passes
it on, read again or not, as the compiler likes. `device_remove_file` waits for the
stores under way to that file. Writes to a register whose clock is stopped have their
effect or not. `met` remembers which others the store begun last found under way.

### ImuRing
`rb_push` and `rb_pop` are atomic (they hold `rb_lock`). The emptiness tests of
`imu_read` and `imu_poll` take no lock: each is two loads in either order. The wait
queue is the kernel's and modelled from its documented behaviour: queue, test again,
sleep. Samples are numbered; I2C errors skip a number; `copy_to_user` may fault.
`wasShared` remembers whether the open file was passed to another thread.

### QuadEncoder
The wheel moves by quadrature steps at any speed. An edge latches the interrupt of
its line; a second edge before the handler starts is merged. The handler reads pin A,
reads pin B, then updates `prev_state` and `count` under the lock. The handlers of the
two lines may run on two CPUs. `rush` remembers which difficult circumstances a
behaviour contained, so that each property says under which it holds.

### MotorPwm
An ioctl computes the list of pin and PWM writes it is going to make; they are then
performed one by one, with the mutex held. A failing `pwm_apply_state` ends
`MOTOR_IOC_SET` and goes unnoticed in the other ioctls. `Remove` writes nothing: wheels a
dead client left turning go on turning until the module is loaded again (`Probe` requests
the pins low) or the next client enables the driver, which coasts both wheels first.

### SpeedLoop
`variant` chooses the program: "step" is balancertd.c (two calls of `speed_pi_update`
per tick around a limiter of `DU_MAX` per tick, a limited run time, a last motor
command), "plain" is balancertd1.c (one call, no limiter, no last command). A tick is
one action: nothing the control thread touches is shared except `stop` and the encoder's
count, which `Move` changes between ticks. The left wheel is
`motor`: its direction pins and the duty of its channel. A command that fails (the program
only prints it) has turned the pins already and leaves the duty, so it may reverse the wheel
at full old duty; `missed` counts such commands. `Leftovers` are duties an earlier program
left on the channel; `ours` says that the duty is of this run, which it is not as long as
`MOTOR_IOC_ENABLE` and every command since have failed. The real numbers of the controller are small
integers; of a measured speed the sign and a few magnitudes are kept. `Ki` stands for
the gain times the window's time. Two facts follow from the constants of the code and
not from the model: with the default `DU_MAX` of 8000 the limiter does not get beyond
the dead zone while a kick lasts, and a rate above 2000 Hz makes the kick's tick 0 ms
(`SpeedAssumption` excludes it).

### EventFlag
The four drivers share one protocol, so they share one model; `drv` says which one is
loaded and guards the actions only some of them have (`Trigger`, `Press`,
`ScheduleTasklet`). An event is two steps, the flag and the wake-up; a read is one step
per test of `wait_event_interruptible`, whose result the drivers ignore (`Signal` leads to
the same place as a set flag). irqtasklet clears the flag before it copies to the user, so
the event of a read that ends with -EFAULT is gone (`CopyOut`). A handler that would sleep on
the mutex is not modelled.

## 3. Runs

| run | what it shows | size |
|---|---|---|
| snapshot_ordered | the counter protocol implements the register; reads return | 3 fields, 1 reader, 4 writes, 130 000 states |
| snapshot_torn | violation: with release/acquire only, an accepted read can mix two writes | 2 fields, 2 writes |
| imu | ring is the FIFO, poll, no -EIO for a lone user, a wake-up on its way to every sleeper and none lost | 2 slots, counters mod 4, 5 samples, 2 threads, 750 000 states |
| encoder | exact count, resynchronisation, parity | 5 wheel steps, 270 000 states |
| motor | brake and reload, duty, disabled, set | values beyond, inside and at zero of the range, 190 000 states |
| daemon | a silent record and the record of a fall stop the wheels, kicks are brief, wheels off at the end and in time | modes 0, 1 and 2, 3 ticks, one failing command, 8.1 million states |
| daemon_blind | violation: wheels driven with no data at all | 3 ticks |
| sensor | speed windows, their age, the lag of the ring, a dead IMU | 3 slots, stale limit 1, windows of 2 reads, 11 periods, 14 million states |
| sensor_lag | violation: a tick that is not stale acts on a sample older than the limit | the code's 64 slots and 50 ms, nothing fails |
| pwm | channel on, shown is programmed | 2 writers, 3 million states |
| speed | kick, slew, stop at a reference of 0, windup, end | 6 periods, windows of 2 reads, 320 000 states |
| events | reports, debouncing, a wake-up on its way to every sleeper and none lost | 4 drivers, 2 readers, 2 callers, 3 events, 370 000 states |

Bounds and why they are enough. *SeqSnapshot*: a torn read needs one write during a
call; 4 writes allow two complete ones in a call and two around it. Readers change
nothing anybody else looks at, so one stands for all. *ImuRing*: the counters wrap
after 4 pushes, so 5 samples make the ring overflow before and after the wrap-around;
two threads are needed for sharing and for a refused open. *QuadEncoder*: a full turn
of the Gray code is 4 steps; the fifth continues after it, in both directions and from
every phase. *MotorPwm*: two wheels, values -3, -1, 0, 2 with full scale 2.
*BalanceCtrl*: time is counted in control periods, the stale limit is 1 period (10 in the
default configuration), and a run of 3 periods leaves time for a record to be published,
to fall silent, to become stale and to come back; the kick of 2 ticks meets a cool-down
of 3. A wheel stands still in the initial records and in reads that fail, and turns once it
is measured, so both sides of the kick's test occur. `MaxLate = 0` in the run; the proofs
hold for any lateness. (The bound of `SilenceStops` counts the lateness twice when it can
exceed two periods, because then the control loop sets `next_ns` from the time the late tick
ended; TLC refutes the simpler bound.) *SensorPath*: three slots are filled, overflow and run empty
within the eleven periods, and two windows of two reads fit in, each with failing reads.
*PwmDemo*: `U32 = 600` makes a product overflow (period 9 at a duty of 100) and a frequency
of 600 become 0 when it is cut to 32 bits; two writers and probe make three overlapping
calls. *SpeedLoop*: a window
is 2 reads (one inside and one that ends it), a kick lasts 2 ticks, full scale is two
limiter steps away, and the reference changes after 3 of 5 periods between a positive,
a negative and a zero one, so a kick, a saturated integrator and a limited duty all meet
a change of direction. A change of sign crosses zero in two limiter steps, so two commands
lost there reverse the wheel at its full duty, and any number may be lost in a row; an
earlier program's duty is full scale. (With windows of 1 read, `Decim = 1`, the properties
hold as well.) *EventFlag*: two readers compete for one flag, two callers and a
handler set it; three events allow one to be lost between two others, and presses 2 apart
in 5 ticks are ignored as well as counted.

Fairness. SeqSnapshot: a thread inside `shared_*_read` keeps running (the control
thread has real-time priority; the logger shares CPUs fairly); nothing is assumed of
the writer. ImuRing: a started interrupt thread finishes and a runnable thread runs.
QuadEncoder: latched interrupts are served and a handler finishes; nothing makes the
wheel move. SpeedLoop: main and
the control thread run. EventFlag: a started handler or tasklet finishes and a runnable
reader runs; nothing makes events happen or a reader call. These are the
guarantees of the Linux scheduler and interrupt code for runnable tasks. BalanceCtrl and
SensorPath need no fairness: their clocks cannot pass a thread that is due, so "in time"
is an invariant (`EndsInTime`, `SilenceStops`, `DeadImuNoticed`), and the deadlock check
shows that a thread or the clock can always move until the process has ended.

Deadlock is checked everywhere except in `encoder`, where a wheel that has made its
last step and whose edges are all handled simply stands still, in `events`, where readers
of a button nobody presses any more wait for ever, and in `pwm`, where a driver that was
removed does nothing more.

## 4. Findings

* **Torn snapshots** (balancertd_arch.c:103, 127). The release store of the odd counter
  does not order the field stores after it and the acquire load of `s2` does not order
  the field loads before it. A release fence after the first store and an acquire
  fence before the second load would restore program order, which is the case the
  refinement is proved for.
* **Driving blind** (balancertd_arch.c:586-588). A failed or never published read has
  time stamp 0, which counts as age 0. Until the sensor thread has published its first
  record, and for ever if it could not open the encoders, the wheels get bias or kick.
* **Late tilt** (balancertd_arch.c:418). The IMU record is stamped when it is published.
  The ring fills before the daemon starts, opening the device does not empty it, and the
  loop takes at most one sample per millisecond while one is made per millisecond. So it
  stays full, and the control loop balances on a tilt 64 ms old, which the stale test,
  meant to stop at 50 ms, cannot see. `LagIsTheRing` says exactly how late, `DeadImuNoticed`
  what the test still achieves. Passing on the sample's own stamp, or draining the ring in
  each iteration, would do.

Some things were met that are not findings. A blocking read of the IMU may get the -EIO of
imu_mpu6050.c:179 when two threads share the open file; for a lone user, which the driver
has in this repository, the comment there is right (`NoEIOAlone`). A store to `duty`
or `freq` while pwm.c is being removed leaves the channel on; nothing promises otherwise.
irqtasklet.c:57-61 clears the flag and then fails to copy: the event is reported to nobody,
and nothing promises that the next read gets it. And balancertd.c's DU_MAX bounds what the
program asks for: as a failing command leaves the pins turned at the old duty and the program
goes on, the wheel itself may move by more, which `SlewBounded` counts.

## 5. Proofs

The modules whose names end in `Proofs` hold the proofs; TLAPS checks them for every value of
the constants. The named assumptions are the only ones.

**SeqSnapshot.** Assumed: `SeqAssumption` (the number of writes is a natural number and the
counter, which moves twice per write, stays below its modulus 2^32; lemma `NoWrap` turns
that into "no wrap"). None of the properties is inductive, because they speak of the
moment a read is accepted and the protocol works by what is known before that. `IInv` adds

* `WriterInv`: the writer's position determines `seq` and the version of every field;
* `CounterInv`: while a reader is loading, `s1` is even, not older than the record that was
  complete at the call, and `s1 <= s2 <= seq`;
* `LoadedInv`: each field already loaded is at least version `s1 / 2`, and, in program
  order, exactly that version as long as the counter has not moved since `s1`. This is the
  heart of the protocol.

`TypeCorrect`, `AcceptedFresh` and `NeverOlder` (an action property) hold in both memory
orders. `NoTearing` and `Refinement` assume `InOrder`, without which TLC refutes the first
(run `snapshot_torn`). The refinement maps `StoreEven` to the register's publication and
the end of a read to `ReturnVersion(s1 / 2)` or `ReturnNothing`; all other steps stutter.

**ImuRing.** Assumed: `ImuAssumption` (the ring's size divides the modulus of its counters).
So the results hold for the code's 64 slots and 2^32, any number of threads and samples.

* `RingInv`: head and tail are counters, at most the ring's size apart. The queue of the
  abstract specification is `Content`, the slots from tail to head. The work is in the
  arithmetic with a modulus that is a constant and not a number: `Division`, `Remainder` and
  `Shifted` are the facts the solver needs to be told, and from them follow that a push or a
  pop moves the count by one across the wrap-around (`CountPush`, `CountPop`) and that the
  slots inside the ring are all different (`Apart`). `RingIsFifo` maps `rb_push` to the
  queue's push, dropping the oldest or not, and `rb_pop` to its pop; all other steps stutter.
* `FileInv`, `AloneInv`: while the file was not shared it has one holder at most, and what
  that thread's unlocked test saw is still true of the ring: only it takes samples out.
  Gives `NoEIO` and `PollHolds`, whose two loads of head and tail may be in either order.
* `QueueInv`, for any number of threads that share the file: while no wake-up is due, head has
  not moved since a thread that is still on the queue was put there. So a head it has loaded
  is head; a tail it has loaded may have been passed by others that pop, but is no nearer to
  head than tail is now, so it equals head only if the ring is empty (`TestRight`); and if
  the thread sleeps, the ring is empty. `WakeupPending` says nothing of a thread between its
  two loads. Gives `Woken`, the safety half of `NoLostWakeup`: what is left to fairness is that
  the interrupt thread takes its last step and that a task off the queue runs.

**MotorPwm.** Assumed: `MotorAssumption`. The results hold for any period, any values and any
pattern of failing PWM writes. The properties speak of the moment an ioctl returns; `TodoInv`
says what holds at every write before: what is on the list was planned by the call under way,
no pin or channel is on it twice, and a write that is no longer on it has had its effect,
except for PWM writes that failed. The list operators become sets of writes first (`Has`).
Gives `Brakes`, `Unpowered` and `SetBoth`; `TypeCorrect` contains that no value a caller can
pass makes a duty cycle exceed the period (`DutyType`).

**SpeedLoop** (in MotorPwmProofs, which extends both modules: `SpeedInit`, `SpeedNext`,
`SpeedSpec` and `speedVars` have names of their own for that). Assumed: `SpeedAssumption`.
The results hold for both programs, any gains, windows, rates up to 2000 Hz and any movement
of the wheel.

* `Budget`: a wheel at rest has not been kicked, and kicks and the time left of the last one
  add up to `kick_ms` at most. `KickBounded` forgets the kick's clock, and the second call of
  `speed_pi_update` in a tick, which can start a kick the first one did not. Gives `Kicks`.
* `SlewInv`: the pins have the direction of the last command, lost or not, and the duty is as
  far from its magnitude as the commands lost since the last success allow. `SlewBounded`
  compares two drives, a sign and a magnitude each; `Swing` and `Signed` bring the reversal
  at the old duty under the bound: a command that turns the wheel is within `DU_MAX` of the
  one before it, so both are small and the old duty is little more than what was lost. Gives
  the action property `Slew`.
* `ZeroRefStops` is inductive once a wish is known to stay within `umax_ns` (`Called`) and the
  limiter to land between its last output and the wish (`Limit`). Gives `ZeroStops`.
* `WindupBounded` is inductive with the types: `Wound` says that a call with fresh data adds
  `Ki` times the reference at most and one without adds nothing, and a tick makes at most one
  call with fresh data, on a full window. Gives `Windup`.

**QuadEncoder.** Assumed: `MaxMoves` is a natural number. So the results hold for a wheel
of any travel and bursts of any length, while TLC looks at five moves. `IInv` is the
conjunction of

* `ProbeInv`: how far `enc_probe` has come determines which lines are requested, and that
  no handler runs before its line is;
* `CalmInv`: unless the wheel moved early, the first reading is that of the start position;
* `ParityKept`: each update changes `count` by as much, modulo 2, as it moves the phase of
  `prev_state`;
* `SyncInv`: if handlers exclude each other, a pin without a pending edge has the value
  `prev_state`, or the active handler's reading, says it has (why latched edges suffice);
* `ExactInv`: if, moreover, each edge is handled before the next, at most one edge is open
  and `prev_state` is the pins at `start + count`.

The facts about the decoding table are lemmas: one move changes one pin (`OneEdge`), the
table returns the direction of a one-step move (`TableStep`), and its entry always has the
parity of the phase difference, also for the ambiguous two-step entries that are 0
(`TableParity`). `TypeCorrect`, `Parity`, `InSync`, `EvenError` and `Exact` follow.

**EventFlag.** Assumed: `EventAssumption` (the drivers are among the four, callers are not
the interrupt, bounds are natural numbers). So the results hold for any number of readers,
callers, events and signals. `IInv` adds to `TypeOK`

* `Paid(r)`: what r has reported, plus one if it is copying, plus one if it is past its test
  or the flag is set, is covered by the events and r's signals. `ReportsPaid` alone is not
  inductive: it says nothing of a reader between the test and the report;
* `DebounceInv`: each counted press is `Debounce` after the one before, and a press whose
  flag is not yet set already counts. The handler moves `last_jiffies` first and the counter
  later, so the bound on `events` needs both.

`TypeCorrect`, `Reports` and `Debounced` follow. `WakeupPending` is inductive with
`TypeOK`: the flag is tested again after the task was queued, and whoever sets it wakes the
queue afterwards. Gives `Woken`, the safety half of this module's `NoLostWakeup`.

**BalanceCtrl.** Assumed: `CtrlAssumption` (times and ticks are natural numbers, a tick is
positive). So the results hold for runs of any length, any lateness and any configuration.
Each theorem has its own invariant, and the actions are sorted once (`NextCases`) into
those that leave the control thread's variables alone, those that pass over the command,
and the three decisions.

* `KickInv`: while a kick lasts, the ticks done and the ticks left add up to its length and
  the cool-down stays ahead of it by the same distance. That distance is why a kick cannot
  start again before it is over; `KickIsBrief` itself forgets the cool-down. It needs
  `KickTicks < CoolTicks`, as in the default configuration. Gives `BriefKick`.
* `StopInv`: the wheels rest until the loop is entered and after it was left, and main
  returns only when the control thread has returned or was never created. Gives `StopsAtEnd`.
* `TimeInv`: `next_ns` is at most a period ahead of the clock and at most `MaxLate` behind,
  and once stop is raised it is bounded by the time of stop. Gives `LoopEnds`.
* `RecInv`, `ReadInv`, `SilentInv`: a record is stamped no later than it is published; what
  a tick has read of a record that was last published before the tick began is that
  publication, or nothing while the writer is inside it; and while the wheels are driven,
  `next_ns` is at most the publication plus the record's `Lifetime` (the stale limit, or
  nothing for the record of a fall), one period and what a realignment adds. `SilenceStops` relates the clock to the publication; the bridge between
  them is the deadline of the tick that last decided to drive. Gives `Silence`.
* `Places`, `Clocks`, `Flags`, `CmdInv`: where the threads are, which fields are times, and
  that a command is within `umax_ppm` in whichever way it was computed. Gives `TypeCorrect`.

**SensorPath.** Assumed: `PathAssumption`. The results hold for windows, iterations and
movements of any size and any pattern of failing reads.

* `Books`: the accumulators plus the counts not yet read are what happened since the last
  window ended. `WindowExact` looks only at the moment a window ends. Gives `Windows`.
* `AgeInv`: the loop has spent at most `LoopMax` on each read since the last window ended,
  successful or not. Gives `SpeedAge`.
* `QueueInv`: the ring holds at most its capacity and the loop is at most `LoopMax` behind the
  clock. `DrainInv`: the time of the loop plus `LoopMax` for each sample left is bounded from
  the last interrupt on, because each iteration takes a sample or finds none. Gives `DeadImu`.
* `LagInv`: while no interrupt is lost, the ring holds consecutive samples up to the current
  one, and once it has overflowed only the sample taken in this period is missing from it.
  `LagIsTheRing` speaks of the sample published last, which was the oldest in the
  ring when it was taken. Gives `Lag`.

**PwmDemo.** Assumed: `PwmAssumption`. The results hold for any number of writers.

* `AloneInv`, `DriverInv`: a process that found no other under way is the only one.
* `OnInv`: the channel is on, or some process is between switching it off and on. With
  several overlapping calls that is all that is left of the protocol, and it is enough. Gives `On`.
* `ShownInv`: a lone process works with `p->duty`, and what it has written is still there.
  Gives `Shown`.

## 6. Only model-checked

Liveness (`ReadReturns`, `NoLostWakeup`, `CatchesUp`, `Terminates`) is out of the prover's
reach: it depends on fairness. Of `NoLostWakeup` the part that is safety, `WakeupPending`, is
proved for both modules. Every invariant, action property and refinement that a
passing run checks is also the statement of a theorem. The three runs that expect a
violation are TLC's by their nature.

## 7. Not modelled

Most of the repository by size is not its own: busybox, dropbear with its crypto
libraries, U-Boot archives and kernel build output make up nearly all of its lines. They
are third-party programs, built and not changed here, and modelling them would say nothing
of this system; so the share of all lines that the models cover is, and stays, far below
one per cent, while that of the car's own drivers and daemons is large.

Of the repository's own code:

* floating-point arithmetic (filter, PD gains, rpm), statistics counters, CSV log and
  argument parsing of the daemons: formatting, or numbers TLC cannot handle;
* `enc_read`, `enc_poll` and device minors of the encoder driver; probe error paths and
  removal of the encoder, IMU and event drivers; a mutex contended from interrupt context;
* mymem.c: each open file works on a private copy of a buffer nobody changes, one bounded
  copy per call, so every property of it would restate a line;
* LED, platform, input and I2C tutorial drivers: registration around single register or
  GPIO writes;
* test programs, which print what the drivers return; boot files.

PROJECT.json gives the reason for each component.

## 8. Plan

1. *Done*: shared records, encoder, event drivers, PWM demonstration, sensor path, IMU ring,
   motor with its reload, speed loop and balance daemon; and the proof of every safety
   property, action property and refinement that their runs check.
2. Device life cycle: minors of the encoder driver, removal while a file is open, module
   exit of the event drivers.
3. Statistics exchanged between the control thread and the logger.
