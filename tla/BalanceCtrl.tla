----------------------------- MODULE BalanceCtrl -----------------------------
(***************************************************************************)
(* apps/balancertd/balancertd_arch.c: main, the sensor thread, the logger  *)
(* and the control thread of the balance daemon, around the three shared   *)
(* records.                                                                *)
(*                                                                         *)
(* A record is written and read as SnapshotRegister promises (SeqSnapshot  *)
(* shows that the counter protocol implements it): a read made while the   *)
(* sensor thread is inside the write fails and hands out nothing.  The     *)
(* control tick is one step per shared access: wake up and take the time,  *)
(* read the three records, decide and command the motors.                  *)
(*                                                                         *)
(* Data: the tilt is upright or fallen (beyond theta_cut_deg), u_norm is   *)
(* one of -1, 0, 1 (the clamped PD output), a wheel's rpm is 0 or 1.  Time *)
(* is discrete; it passes freely except that the SCHED_FIFO control thread *)
(* completes a tick at most MaxLate after next_ns.                         *)
(***************************************************************************)
EXTENDS Integers

Wheels == {"L", "R"}
Blocks == {"encL", "encR", "imu"}

CONSTANTS Modes,            \* the values of cfg.mode: 0 speed (unused), 1 balance; any
                            \* other one balances, without the tests of the IMU
          Period,           \* period_ns
          Stale,            \* STALE_ENC_NS = STALE_IMU_NS
          RunTime,          \* pre_ms + hold_ms
          Grace,            \* the 800 ms that main waits beyond the run time
          MaxLate,          \* how late the control thread and main may be
          StartBy,          \* the control thread has started by this time
          MaxTime,          \* bound on the time modelled
          Tilts, Norms, Rpms,   \* the values of fallen, u_norm and a wheel's rpm
          Umax,             \* umax_ppm
          Bias, DeltaMax, KickPpm,      \* per wheel
          KickMs, CoolMs, TickMs,       \* kick_ms, kick_cool_ms, tick_ms
          OpenMayFail,      \* may opening a device or the log, or a thread, fail?
          AffinityMayFail,  \* may bind_cpu, set_fifo or lock_memory call exit(1)?
          MaxSetFails       \* bound on the failures of MOTOR_IOC_SET modelled

ASSUME CtrlAssumption ==
    /\ Modes \subseteq Int
    /\ Period \in Nat \ {0} /\ Stale \in Nat /\ RunTime \in Nat /\ Grace \in Nat
    /\ MaxLate \in Nat /\ StartBy \in Nat /\ MaxTime \in Nat /\ Umax \in Nat
    /\ Tilts \subseteq BOOLEAN /\ Norms \subseteq {-1, 0, 1} /\ Rpms \in [{"encL", "encR"} -> SUBSET {0, 1}]
    /\ Bias \in [Wheels -> Nat] /\ DeltaMax \in [Wheels -> Nat] /\ KickPpm \in [Wheels -> Nat]
    /\ KickMs \in Nat /\ CoolMs \in Nat /\ TickMs \in Nat \ {0}
    /\ OpenMayFail \in BOOLEAN /\ AffinityMayFail \in BOOLEAN /\ MaxSetFails \in Nat

VARIABLES mode,             \* cfg.mode
          now,              \* CLOCK_MONOTONIC, positive
          stop,             \* ctx.stop
          mpc, lpc,         \* main and the logger thread
          spc, first,       \* sensor thread; still at its initial writes?
          shared,           \* shared[k]: the record last published in block k
          writing,          \* the block whose write is in progress, or "none"
          pendingTs,        \* the time stamp that write will publish
          publishedAt,      \* history: when shared[k] was last published, or 0
          cpc,              \* control thread
          nowC, rd,         \* locals of a tick: now_ns and the records read
          next, endAt,      \* next_ns, end_ns
          kick, cool,       \* kick_left_ticks, cool_left_ticks
          cmd,              \* the wheels since the daemon started: dir, what the direction
                            \* pins say (-1, 0 or 1), and mag, the duty
          kicked,           \* history: kicked ticks in a row
          setOk, setFails   \* history: the last MOTOR_IOC_SET succeeded; how many
                            \* have failed

mainVars == <<mode, stop, mpc>>
sensorVars == <<spc, first, shared, writing, pendingTs, publishedAt>>
ctrlVars == <<cpc, nowC, rd, next, endAt, kick, cool, cmd, kicked, setOk, setFails>>
vars == <<mode, now, stop, mpc, lpc, spc, first, shared, writing, pendingTs, publishedAt,
          cpc, nowC, rd, next, endAt, kick, cool, cmd, kicked, setOk, setFails>>

\* The zeroed ctx_t and the initialised locals of a tick look alike: no time
\* stamp, upright, no rotation, wheels at rest.
Zero == [ts |-> 0, fallen |-> FALSE, norm |-> 0, rpm |-> 0]

Record(k, t) ==
    IF k = "imu"
    THEN [ts : {t}, fallen : Tilts, norm : Norms, rpm : {0}]
    ELSE [ts : {t}, fallen : {FALSE}, norm : {0}, rpm : Rpms[k]]

\* motor_apply_one writes the direction pins and then the duty.
Direction(u) == IF u > 0 THEN 1 ELSE IF u < 0 THEN -1 ELSE 0
Turn(u) == [dir |-> Direction(u), mag |-> IF u < 0 THEN -u ELSE u]

Still == [w \in Wheels |-> 0]
AtRest == [w \in Wheels |-> Turn(0)]

Unless(may, ok, bad) == {ok} \cup (IF may THEN {bad} ELSE {})

Init ==
    /\ mode \in Modes
    /\ now = 1 /\ stop = FALSE
    /\ mpc = "mkSensor" /\ lpc = "unborn"
    /\ spc = "unborn" /\ first = TRUE
    /\ shared = [k \in Blocks |-> Zero]
    /\ writing = "none" /\ pendingTs = 0
    /\ publishedAt = [k \in Blocks |-> 0]
    /\ cpc = "unborn" /\ nowC = 0 /\ rd = [k \in Blocks |-> Zero]
    /\ next = 0 /\ endAt = 0
    /\ kick = 0 /\ cool = 0
    /\ cmd = AtRest /\ kicked = 0 /\ setOk = TRUE /\ setFails = 0

\* The process is there until main returns or some thread calls exit(1).
Alive == mpc \notin {"exited", "aborted"}

-----------------------------------------------------------------------------
(* Time.                                                                   *)

InLoop == cpc \in {"head", "sleep", "encL", "encR", "imu", "act"}
StopAt == 1 + RunTime + Grace

\* Time passes while somebody waits for it: main or the control thread.
Tick ==
    /\ Alive /\ now < MaxTime
    /\ mpc = "sleep" \/ InLoop
    /\ cpc \in {"bind", "open"} => now < StartBy
    /\ InLoop => now < next + MaxLate
    /\ mpc = "sleep" => now < StopAt + MaxLate
    /\ now' = now + 1
    /\ UNCHANGED <<mainVars, lpc, sensorVars, ctrlVars>>

-----------------------------------------------------------------------------
(* main: create the three threads, sleep, raise stop, join.                *)

MainCreateSensor ==
    /\ mpc = "mkSensor"
    /\ mpc' \in Unless(OpenMayFail, "mkLogger", "exited")
    /\ spc' = IF mpc' = "mkLogger" THEN "bind" ELSE spc
    /\ UNCHANGED <<mode, now, stop, lpc, first, shared, writing, pendingTs, publishedAt, ctrlVars>>

MainCreateLogger ==
    /\ mpc = "mkLogger"
    /\ mpc' \in Unless(OpenMayFail, "mkCtrl", "exited")
    /\ lpc' = IF mpc' = "mkCtrl" THEN "run" ELSE lpc
    /\ UNCHANGED <<mode, now, stop, sensorVars, ctrlVars>>

MainCreateCtrl ==
    /\ mpc = "mkCtrl"
    /\ mpc' \in Unless(OpenMayFail, "sleep", "exited")
    /\ cpc' = IF mpc' = "sleep" THEN "bind" ELSE cpc
    /\ UNCHANGED <<mode, now, stop, lpc, sensorVars, nowC, rd, next, endAt, kick, cool, cmd, kicked, setOk, setFails>>

\* usleep(total_ms * 1000); ctx.stop = 1;
MainStop ==
    /\ mpc = "sleep" /\ now >= StopAt
    /\ stop' = TRUE
    /\ mpc' = "join"
    /\ UNCHANGED <<mode, now, lpc, sensorVars, ctrlVars>>

\* The three pthread_joins, then return 0.
MainJoin ==
    /\ mpc = "join"
    /\ cpc = "returned" /\ spc = "returned" /\ lpc = "returned"
    /\ mpc' = "exited"
    /\ UNCHANGED <<mode, now, stop, lpc, sensorVars, ctrlVars>>

\* logger_thread: prints once a second, until stop.
LoggerStop ==
    /\ Alive /\ lpc = "run" /\ stop
    /\ lpc' = "returned"
    /\ UNCHANGED <<now, mainVars, sensorVars, ctrlVars>>

-----------------------------------------------------------------------------
(* sensor_thread.                                                          *)

\* bind_cpu exits the whole process when it fails.
SensorBind ==
    /\ Alive /\ spc = "bind"
    /\ mpc' \in Unless(AffinityMayFail, mpc, "aborted")
    /\ spc' = "open"
    /\ UNCHANGED <<mode, now, stop, lpc, first, shared, writing, pendingTs, publishedAt, ctrlVars>>

\* enc_open of both encoders, with their first samples, or the thread returns.
\* A failing open of /dev/imu0 is tolerated: no IMU read succeeds then.
SensorOpen ==
    /\ Alive /\ spc = "open"
    /\ spc' \in Unless(OpenMayFail, "encL", "returned")
    /\ UNCHANGED <<now, mainVars, lpc, first, shared, writing, pendingTs, publishedAt, ctrlVars>>

\* while (!c->stop), the first time at once, later after the usleep(1000) that ends
\* the body: at least one unit of time has passed since the body's first write (not
\* waited for once stop is set).
SensorHead ==
    /\ Alive /\ spc \in {"head", "sleep"}
    /\ spc = "sleep" => stop \/ now > shared["encL"].ts
    /\ spc' = IF stop THEN "returned" ELSE "encL"
    /\ UNCHANGED <<now, mainVars, lpc, first, shared, writing, pendingTs, publishedAt, ctrlVars>>

\* shared_*_write is entered.  Its time stamp is nsec_now(), whether or not the
\* encoder reads behind an encoder record succeeded.
BeginWrite(k) ==
    /\ Alive /\ spc = k /\ writing = "none"
    /\ writing' = k
    /\ pendingTs' = now
    /\ UNCHANGED <<now, mainVars, lpc, spc, first, shared, publishedAt, ctrlVars>>

\* shared_*_write returns, and only then is the record seen.  The initial records
\* are all zero but for the time stamp.  The initial writes follow one another; in
\* the loop the IMU is read after the two encoder writes.
EndWrite(k) ==
    /\ Alive /\ writing = k
    /\ \E v \in IF first THEN {[Zero EXCEPT !.ts = pendingTs]} ELSE Record(k, pendingTs) :
         shared' = [shared EXCEPT ![k] = v]
    /\ publishedAt' = [publishedAt EXCEPT ![k] = now]
    /\ writing' = "none" /\ pendingTs' = 0
    /\ spc' = CASE k = "encL" -> "encR"
                [] k = "encR" -> (IF first THEN "imu" ELSE "readImu")
                [] k = "imu" -> (IF first THEN "head" ELSE "sleep")
    /\ first' = (first /\ k # "imu")
    /\ UNCHANGED <<now, mainVars, lpc, ctrlVars>>

\* The non-blocking read of /dev/imu0: a sample, or EAGAIN or an error and no
\* write.
SensorReadImu ==
    /\ Alive /\ spc = "readImu"
    /\ spc' \in {"imu", "sleep"}
    /\ UNCHANGED <<now, mainVars, lpc, first, shared, writing, pendingTs, publishedAt, ctrlVars>>

-----------------------------------------------------------------------------
(* ctrl_thread.                                                            *)

\* bind_cpu, set_fifo and lock_memory exit the whole process when they fail.
CtrlBind ==
    /\ Alive /\ cpc = "bind"
    /\ mpc' \in Unless(AffinityMayFail, mpc, "aborted")
    /\ cpc' = "open"
    /\ UNCHANGED <<mode, now, stop, lpc, sensorVars, nowC, rd, next, endAt, kick, cool, cmd, kicked, setOk, setFails>>

\* Open the motor, MOTOR_IOC_ENABLE (which also coasts both wheels), open the
\* log, set up the deadlines; or return early.
CtrlOpen ==
    /\ Alive /\ cpc = "open"
    /\ cpc' \in Unless(OpenMayFail, "head", "returned")
    /\ endAt' = now + RunTime
    /\ next' = now + Period
    /\ UNCHANGED <<now, mainVars, lpc, sensorVars, nowC, rd, kick, cool, cmd, kicked, setOk, setFails>>

\* while (!c->stop)
CtrlHead ==
    /\ Alive /\ cpc = "head"
    /\ cpc' = IF stop THEN "exit" ELSE "sleep"
    /\ UNCHANGED <<now, mainVars, lpc, sensorVars, nowC, rd, next, endAt, kick, cool, cmd, kicked, setOk, setFails>>

\* clock_nanosleep until next_ns, then now_ns.
CtrlWake ==
    /\ Alive /\ cpc = "sleep" /\ now >= next
    /\ nowC' = now
    /\ rd' = [k \in Blocks |-> Zero]
    /\ cpc' = "encL"
    /\ UNCHANGED <<now, mainVars, lpc, sensorVars, next, endAt, kick, cool, cmd, kicked, setOk, setFails>>

\* (void)shared_*_read: a failed read leaves the zeroed locals.
CtrlRead(k) ==
    /\ Alive /\ cpc = k
    /\ rd' = [rd EXCEPT ![k] = IF writing = k THEN Zero ELSE shared[k]]
    /\ cpc' = CASE k = "encL" -> "encR" [] k = "encR" -> "imu" [] k = "imu" -> "act"
    /\ UNCHANGED <<now, mainVars, lpc, sensorVars, nowC, next, endAt, kick, cool, cmd, kicked, setOk, setFails>>

Age(k) == IF rd[k].ts > 0 /\ nowC > rd[k].ts THEN nowC - rd[k].ts ELSE 0

\* Mutant: the right encoder is not looked at.
IsStaleLeftOnly ==
    \/ Age("encL") > Stale
    \/ mode = 1 /\ (Age("imu") > Stale \/ rd["imu"].fallen)

IsStale ==
    \/ Age("encL") > Stale \/ Age("encR") > Stale
    \/ mode = 1 /\ (Age("imu") > Stale \/ rd["imu"].fallen)

\* MOTOR_IOC_SET, left wheel first.  The wheel whose PWM write fails has its new
\* direction and its old duty, and the right wheel is not reached when it is the left.
SetMotors(u) ==
    \/ cmd' = [w \in Wheels |-> Turn(u[w])] /\ setOk' = TRUE /\ UNCHANGED setFails
    \/ /\ setFails < MaxSetFails /\ setFails' = setFails + 1 /\ setOk' = FALSE
       /\ \/ cmd' = [cmd EXCEPT !["L"].dir = Direction(u["L"])]
          \/ cmd' = [cmd EXCEPT !["L"] = Turn(u["L"]), !["R"].dir = Direction(u["R"])]

Clamp(x, lo, hi) == IF x < lo THEN lo ELSE IF x > hi THEN hi ELSE x
CeilDiv(a, b) == (a + b - 1) \div b

Sgn == IF rd["imu"].norm >= 0 THEN 1 ELSE -1
Mag == IF rd["imu"].norm = 0 THEN 0 ELSE 1

\* Mutant: no clamp to umax_ppm.
DriveUnclamped(w) == Sgn * Bias[w] + Sgn * Mag * DeltaMax[w]

\* The PD output around the bias, both following the direction sgn.
Drive(w) == Clamp(Sgn * Bias[w] + Sgn * Mag * DeltaMax[w], -Umax, Umax)

KickDrive(w) == Sgn * Clamp(KickPpm[w], 0, Umax)

\* |rpm_avg| below kick_rpm_th
LowRpm == rd["encL"].rpm + rd["encR"].rpm = 0

Dec(n) == IF n > 0 THEN n - 1 ELSE n

\* The body of the loop ends: its locals go out of scope.
EndOfBody ==
    /\ kicked' = IF kick' > 0 THEN kicked + 1 ELSE 0
    /\ rd' = [k \in Blocks |-> Zero] /\ nowC' = 0

\* Mutant: the stale branch goes back to sleep without testing stop.
ActStaleForever ==
    /\ Alive /\ cpc = "act" /\ IsStale
    /\ kick' = 0 /\ cool' = 0
    /\ SetMotors(Still)
    /\ EndOfBody
    /\ next' = next + Period
    /\ cpc' = "sleep"
    /\ UNCHANGED <<now, mainVars, lpc, sensorVars, endAt>>

\* The stale branch: wheels off, kick state reset, no test of end_ns and no
\* realignment of next_ns.
ActStale ==
    /\ Alive /\ cpc = "act" /\ IsStale
    /\ kick' = 0 /\ cool' = 0
    /\ SetMotors(Still)
    /\ EndOfBody
    /\ next' = next + Period
    /\ cpc' = "head"
    /\ UNCHANGED <<now, mainVars, lpc, sensorVars, endAt>>

\* The end of a tick that was not stale.
EndOfTick ==
    /\ cpc' = IF nowC >= endAt THEN "exit" ELSE "head"
    /\ next' = IF nowC >= endAt THEN next
               ELSE IF now > next + 2 * Period THEN now + Period ELSE next + Period

ActSpeed ==
    /\ Alive /\ cpc = "act" /\ ~IsStale /\ mode = 0
    /\ kick' = 0 /\ cool' = 0
    /\ SetMotors(Still)
    /\ EndOfTick /\ EndOfBody
    /\ UNCHANGED <<now, mainVars, lpc, sensorVars, endAt>>

\* Mutant: the kick counter is tested before it is decremented.
ActBalanceLateDec ==
    /\ Alive /\ cpc = "act" /\ ~IsStale /\ mode # 0
    /\ LET start == kick <= 0 /\ Dec(cool) <= 0 /\ LowRpm
       IN /\ kick' = IF start THEN CeilDiv(KickMs, TickMs) + 1 ELSE Dec(kick)
          /\ cool' = IF start THEN CeilDiv(CoolMs, TickMs) ELSE Dec(cool)
    /\ SetMotors([w \in Wheels |-> IF kick' > 0 THEN KickDrive(w) ELSE Drive(w)])
    /\ EndOfTick /\ EndOfBody
    /\ UNCHANGED <<now, mainVars, lpc, sensorVars, endAt>>

ActBalance ==
    /\ Alive /\ cpc = "act" /\ ~IsStale /\ mode # 0
    /\ LET start == Dec(kick) <= 0 /\ Dec(cool) <= 0 /\ LowRpm
       IN /\ kick' = IF start THEN CeilDiv(KickMs, TickMs) ELSE Dec(kick)
          /\ cool' = IF start THEN CeilDiv(CoolMs, TickMs) ELSE Dec(cool)
    /\ SetMotors([w \in Wheels |-> IF kick' > 0 THEN KickDrive(w) ELSE Drive(w)])
    /\ EndOfTick /\ EndOfBody
    /\ UNCHANGED <<now, mainVars, lpc, sensorVars, endAt>>

\* Mutant: the thread returns without a last command.
CtrlExitRunning ==
    /\ Alive /\ cpc = "exit"
    /\ cpc' = "returned"
    /\ UNCHANGED <<now, mainVars, lpc, sensorVars, nowC, rd, next, endAt, kick, cool, cmd, kicked, setOk, setFails>>

CtrlExit ==
    /\ Alive /\ cpc = "exit"
    /\ SetMotors(Still)
    /\ cpc' = "returned"
    /\ UNCHANGED <<now, mainVars, lpc, sensorVars, nowC, rd, next, endAt, kick, cool, kicked>>

-----------------------------------------------------------------------------
Main == MainCreateSensor \/ MainCreateLogger \/ MainCreateCtrl \/ MainStop \/ MainJoin

SensorInWrite == \E k \in Blocks : EndWrite(k)

Sensor ==
    \/ SensorBind \/ SensorOpen \/ SensorHead \/ SensorReadImu \/ SensorInWrite
    \/ \E k \in Blocks : BeginWrite(k)

Ctrl ==
    \/ CtrlBind \/ CtrlOpen \/ CtrlHead \/ CtrlWake
    \/ \E k \in Blocks : CtrlRead(k)
    \/ ActStale \/ ActSpeed \/ ActBalance \/ CtrlExit

Done == ~Alive /\ UNCHANGED vars

Next == Tick \/ Main \/ LoggerStop \/ Sensor \/ Ctrl \/ Done

Spec == Init /\ [][Next]_vars

-----------------------------------------------------------------------------
(* Properties.                                                             *)

Command == [dir : {-1, 0, 1}, mag : 0..Umax]

TypeOK ==
    /\ now \in 1..(MaxTime + 1) /\ stop \in BOOLEAN /\ first \in BOOLEAN
    /\ mpc \in {"mkSensor", "mkLogger", "mkCtrl", "sleep", "join", "exited", "aborted"}
    /\ lpc \in {"unborn", "run", "returned"}
    /\ spc \in {"unborn", "bind", "open", "head", "sleep", "readImu", "returned"} \cup Blocks
    /\ writing \in Blocks \cup {"none"}
    /\ cpc \in {"unborn", "bind", "open", "head", "sleep", "act", "exit", "returned"} \cup Blocks
    /\ nowC \in Nat /\ next \in Nat /\ endAt \in Nat
    /\ kick \in Nat /\ cool \in Nat
    /\ cmd \in [Wheels -> Command]

KickTicks == CeilDiv(KickMs, TickMs)
CoolTicks == CeilDiv(CoolMs, TickMs)

\* "gentle kick": when the cool-down is longer than the kick, a kick lasts at most
\* the number of ticks that kick_ms stands for, whatever resets come in between.
KickIsBrief == KickTicks < CoolTicks => kicked <= KickTicks

\* How long after its publication record k may still make a tick drive the wheels: up
\* to the stale limit, and not at all if it says that the robot has fallen.
Lifetime(k) == IF k = "imu" /\ shared[k].fallen THEN 0 ELSE Stale

\* The IMU's record counts in mode 1 only.
Watched(k) == mode = 1 \/ k # "imu"

\* A sensor record that has outlived its time by one late tick finds the wheels off,
\* be it silent for longer than the stale limit or be it the record of a fall, unless
\* the sensor thread is inside the very write of that record, where every read of it
\* fails, or the last command failed.  A tick that is more than two periods late sets
\* next_ns from the time it ends, so its own delay counts as well.
SilenceStops ==
    LET late == IF MaxLate > 2 * Period THEN 2 * MaxLate ELSE MaxLate
    IN  \A k \in Blocks :
            (/\ Watched(k) /\ setOk /\ InLoop
             /\ publishedAt[k] > 0 /\ now > publishedAt[k] + Lifetime(k) + Period + late)
                => cmd = AtRest \/ writing = k

\* "safety: stale encoder/imu": the wheels are driven only on the strength of
\* records that the sensor thread has published: a balance tick that is not stale
\* has read all three.
DrivenOnlyOnData ==
    (cpc = "act" /\ mode = 1 /\ ~IsStale) => \A k \in Blocks : rd[k].ts > 0

\* Once the control thread has returned, and so when main has returned, the
\* wheels have been told to stop, unless that last MOTOR_IOC_SET fails.
StoppedAtEnd ==
    setOk /\ (cpc = "returned" \/ mpc = "exited") => cmd = AtRest

\* The daemon ends: whatever state the control loop is in when main raises stop,
\* stale for ever or not, its last tick is over one period later, and (deadlock
\* is checked) every thread returns and is joined unless the process aborts.
EndsInTime ==
    (stop /\ now > StopAt + Period + 2 * MaxLate) => ~InLoop \/ cpc = "head"
=============================================================================
