------------------------------ MODULE SpeedLoop ------------------------------
(***************************************************************************)
(* apps/balancertd/balancertd.c, the speed-control daemon with a slew-rate *)
(* limiter ("step"), and balancertd1.c, the one before it ("plain"): main, *)
(* and the control thread with its encoder window, PI controller,          *)
(* kick-start and motor commands.                                          *)
(*                                                                         *)
(* The doubles of the controller are small integers: a speed is 0 below    *)
(* the kick-start's 5 rpm, an effort v in 0..1 is one of 0..Vmax.  An rpm  *)
(* computed from a window keeps the window's direction; how fast is left   *)
(* open.  Times are in periods.                                            *)
(***************************************************************************)
EXTENDS Integers

CONSTANTS Variants,         \* subset of {"step", "plain"}
          Refs,             \* rpm0, rpm1
          Speeds,           \* magnitudes of a measured rpm that is not 0
          Pre, Hold,        \* pre_ms, hold_ms
          MaxLate,          \* how late clock_nanosleep may return
          MaxTime, MaxCount,    \* bounds on the time and on the counts in a window
          Decim,            \* enc_decim
          Kp, Ki, Vmax,     \* Kp_v, Ki_v times the window's time, 1.0
          KickV,            \* effort above which standstill is kicked (0.05)
          U0, Gain,         \* u0_ns; umax_ns is U0 + Vmax * Gain
          KickU,            \* kick_u_ns
          KickMs, TickMs,   \* kick_ms; (int)(Ts * 1000.0 + 0.5)
          DuMax,            \* DU_MAX
          Leftovers,        \* duties an earlier program may have left on the wheel
          MotorMayFail      \* may pwm_apply_state fail?

Umax == U0 + Vmax * Gain

ASSUME SpeedAssumption ==
    /\ Variants \subseteq {"step", "plain"} /\ Refs \subseteq Int
    /\ Speeds \subseteq Nat \ {0} /\ MaxTime \in Nat /\ MaxCount \in Nat
    /\ Pre \in Nat /\ Hold \in Nat /\ MaxLate \in Nat /\ Decim \in Nat \ {0}
    /\ Kp \in Nat /\ Ki \in Nat /\ Vmax \in Nat /\ KickV \in Nat
    /\ U0 \in Nat /\ Gain \in Nat /\ KickU \in 0..Umax
    /\ KickMs \in Nat /\ TickMs \in Nat \ {0}   \* hz is at most 2000
    /\ DuMax \in Nat \ {0} /\ Leftovers \subseteq Nat /\ MotorMayFail \in BOOLEAN

VARIABLES variant, rpm0, rpm1,  \* the program and its arguments
          mpc, stop,        \* main
          pc,               \* control thread
          now, next,        \* time of this tick; next_ns
          count,            \* the encoder's count since the window began
          enc,              \* prev: the count last read; acc_dcount, k, rpm
          spd,              \* i_v, kick_left_ms, was_stopped
          u_last,           \* the last command, if there is a limiter
          motor,            \* the left wheel: dir, what its direction pins say (-1, 0
                            \* or 1), and mag, the duty of its PWM channel
          ours,             \* history: that duty is of this run
          missed,           \* history: commands in a row that failed
          kicks,            \* history: kicked ticks since the last standstill
          windows,          \* history: full windows since the last standstill
          zeros             \* history: ticks in a row with a reference of 0

cfg == <<variant, rpm0, rpm1>>
ctrl == <<count, enc, spd, u_last, missed, kicks, windows, zeros>>
wheel == <<motor, ours>>
speedVars == <<variant, rpm0, rpm1, mpc, stop, pc, now, next, count, enc, spd, u_last,
          motor, ours, missed, kicks, windows, zeros>>

fabs(x) == IF x < 0 THEN -x ELSE x
Most(x, y) == IF x > y THEN x ELSE y

\* clampd, and the limiter's two branches
Clamp(x, lo, hi) == IF x < lo THEN lo ELSE IF x > hi THEN hi ELSE x

CeilDiv(a, b) == (a + b - 1) \div b

SpeedInit ==
    /\ variant \in Variants
    /\ rpm0 \in Refs /\ rpm1 \in Refs
    /\ variant = "plain" => rpm0 > 0 /\ rpm1 = rpm0      \* rpm_ref is 120 throughout
    /\ mpc = "sleep" /\ stop = FALSE
    /\ pc = "start" /\ now = 0 /\ next = 1
    /\ count = 0 /\ enc = [prev |-> 0, acc |-> 0, k |-> 0, rpm |-> 0]
    /\ spd = [i |-> 0, kick |-> 0, stopped |-> TRUE]
    /\ u_last = 0
    /\ motor \in [dir : {-1, 0, 1}, mag : Leftovers] /\ ours = FALSE
    /\ missed = 0 /\ kicks = 0 /\ windows = 0 /\ zeros = 0

-----------------------------------------------------------------------------
(* main                                                                    *)

Alive == mpc \notin {"exited", "aborted"}

\* Mutant: stop is not raised.
MainStopSilent ==
    /\ mpc = "sleep"
    /\ mpc' = "join"
    /\ UNCHANGED <<cfg, stop, pc, now, next, ctrl, wheel>>

\* usleep or sleep; ctx.stop = 1.  The control thread may be anywhere, also
\* before its first tick: nothing ties its start to main's clock.
MainStop ==
    /\ mpc = "sleep"
    /\ stop' = TRUE /\ mpc' = "join"
    /\ UNCHANGED <<cfg, pc, now, next, ctrl, wheel>>

MainJoin ==
    /\ mpc = "join" /\ pc = "returned"
    /\ mpc' = "exited"
    /\ UNCHANGED <<cfg, stop, pc, now, next, ctrl, wheel>>

-----------------------------------------------------------------------------
(* The wheel and enc_update.                                               *)

\* The wheel turns, whatever it is told, and the encoder counts.
Move(d) ==
    /\ Alive /\ pc = "loop" /\ fabs(count + d) <= MaxCount
    /\ count' = count + d
    /\ UNCHANGED <<cfg, mpc, stop, pc, now, next, enc, spd, u_last, wheel, missed, kicks, windows, zeros>>

\* The rpm of a full window; the low-pass of balancertd1.c stays between the last
\* one and that.
WindowRpms(acc) ==
    LET raw == IF acc = 0 THEN {0} ELSE {IF acc > 0 THEN s ELSE -s : s \in Speeds}
        between(x) == \E w \in raw : x \in w..enc.rpm \/ x \in enc.rpm..w
    IN  IF variant = "step" THEN raw
        ELSE {x \in {0} \cup Speeds \cup {-s : s \in Speeds} : between(x)}

acc_dcount == enc.acc + (count - enc.prev)

\* A read that fails changes nothing.  Counts are relative to the start of the
\* window: a full window updates the rpm and begins the next one.  ts_ns grows from
\* read to read.
enc_update(updated) ==
    \/ ~updated /\ UNCHANGED <<enc, count>>
    \/ /\ ~updated /\ enc.k + 1 < Decim
       /\ enc' = [enc EXCEPT !.prev = count, !.acc = acc_dcount, !.k = @ + 1]
       /\ UNCHANGED count
    \/ /\ updated /\ enc.k + 1 >= Decim
       /\ \E r \in WindowRpms(acc_dcount) :
            enc' = [prev |-> 0, acc |-> 0, k |-> 0, rpm |-> r]
       /\ count' = 0

-----------------------------------------------------------------------------
(* speed_pi_update                                                         *)

\* The dead-zone mapping of an effort.
DutyOf(v) == IF v <= 0 THEN 0 ELSE U0 + v * Gain

Sgn(x) == IF x >= 0 THEN 1 ELSE -1

Standstill == [i |-> 0, kick |-> 0, stopped |-> TRUE]

\* The call's new controller state c, its duty u, and whether that is a kick.
\* integrate stands for allow_i && rpm_updated.
PiMoving(c, ref, meas, integrate) ==
    LET e == fabs(ref) - fabs(meas)
        i == IF integrate THEN Clamp(c.i + Ki * e, 0, Vmax) ELSE c.i
        v == Clamp(Kp * e + i, 0, Vmax)
        start == c.stopped /\ fabs(meas) = 0 /\ v > KickV
        left == IF start THEN KickMs ELSE c.kick
    IN  [c |-> [i |-> i, kick |-> Most(left - TickMs, 0),
                stopped |-> c.stopped /\ ~start /\ fabs(meas) = 0],
         u |-> Sgn(ref) * (IF left > 0 THEN KickU ELSE DutyOf(v)),
         kicked |-> left > 0]

\* Mutant: was_stopped is set while the wheel stands.
speed_pi_update_rekick(c, ref, meas, integrate) ==
    LET out == PiMoving(c, ref, meas, integrate)
    IN  IF ref = 0 THEN [c |-> Standstill, u |-> 0, kicked |-> FALSE]
        ELSE [out EXCEPT !.c.stopped = (fabs(meas) = 0)]

\* Mutant: a reference of 0 is not special.
speed_pi_update_nostop(c, ref, meas, integrate) == PiMoving(c, ref, meas, integrate)

speed_pi_update(c, ref, meas, integrate) ==
    IF ref = 0 THEN [c |-> Standstill, u |-> 0, kicked |-> FALSE]
    ELSE PiMoving(c, ref, meas, integrate)

-----------------------------------------------------------------------------
(* ctrl_thread                                                             *)

\* bind_cpu, set_fifo and lock_memory exit the process when they fail.
Abort ==
    /\ Alive /\ pc = "start"
    /\ mpc' = "aborted"
    /\ UNCHANGED <<cfg, stop, pc, now, next, ctrl, wheel>>

\* motor_apply_one for the left wheel: the direction pins, then the PWM channel,
\* which keeps its duty when the driver cannot set it.
Direction(u) == IF u > 0 THEN 1 ELSE IF u < 0 THEN -1 ELSE 0

Applied(u) == motor' = [dir |-> Direction(u), mag |-> fabs(u)] /\ ours' = TRUE

ApplyFails(u) ==
    MotorMayFail /\ motor' = [motor EXCEPT !.dir = Direction(u)] /\ UNCHANGED ours

\* The opens and the encoder's first sample; MOTOR_IOC_ENABLE, which coasts and says
\* nothing of a failure; the log (balancertd.c only).  Or an early return, before
\* the motor is enabled or for want of the log.
Open ==
    /\ Alive /\ pc = "start"
    /\ \/ pc' = "returned" /\ UNCHANGED wheel
       \/ /\ pc' = "loop" \/ (variant = "step" /\ pc' = "returned")
          /\ Applied(0) \/ ApplyFails(0)
    /\ UNCHANGED <<cfg, mpc, stop, now, next, ctrl>>

\* MOTOR_IOC_SET with the left wheel's duty; the right wheel, whose duty is always 0,
\* comes second, so when it fails the left wheel has been set.
SetMotor(u) ==
    \/ Applied(u) /\ missed' = 0
    \/ ApplyFails(u) /\ missed' = missed + 1

\* The history of a tick.
Account(ref, updated, kicked) ==
    /\ kicks' = IF ref = 0 THEN 0 ELSE IF kicked THEN kicks + 1 ELSE kicks
    /\ windows' = IF ref = 0 THEN 0 ELSE IF updated THEN windows + 1 ELSE windows
    /\ zeros' = IF ref = 0 THEN zeros + 1 ELSE 0

\* Mutant: the limiter starts from what the controller asked for.
LimitedWish(ref, updated) ==
    LET first == speed_pi_update(spd, ref, enc'.rpm, FALSE)
        u == Clamp(first.u, u_last - DuMax, u_last + DuMax)
    IN  /\ spd' = IF u # first.u THEN first.c
                  ELSE speed_pi_update(first.c, ref, enc'.rpm, updated).c
        /\ u_last' = first.u
        /\ SetMotor(u)
        /\ Account(ref, updated, first.kicked)

\* Mutant: the second call integrates whether or not the rpm is new.
LimitedEager(ref, updated) ==
    LET first == speed_pi_update(spd, ref, enc'.rpm, FALSE)
        u == Clamp(first.u, u_last - DuMax, u_last + DuMax)
    IN  /\ spd' = IF u # first.u THEN first.c
                  ELSE speed_pi_update(first.c, ref, enc'.rpm, TRUE).c
        /\ u_last' = u
        /\ SetMotor(u)
        /\ Account(ref, updated, first.kicked)

\* balancertd.c: the output without the integrator, limited to DuMax per tick;
\* an output that was not limited is followed by a second call, which may
\* integrate.  Both calls run the clock of the kick.
Limited(ref, updated) ==
    LET first == speed_pi_update(spd, ref, enc'.rpm, FALSE)
        u == Clamp(first.u, u_last - DuMax, u_last + DuMax)
    IN  /\ spd' = IF u # first.u THEN first.c
                  ELSE speed_pi_update(first.c, ref, enc'.rpm, updated).c
        /\ u_last' = u
        /\ SetMotor(u)
        /\ Account(ref, updated, first.kicked)

\* balancertd1.c
Direct(ref, updated) ==
    LET out == speed_pi_update(spd, ref, enc'.rpm, updated)
    IN  /\ spd' = out.c /\ UNCHANGED u_last
        /\ SetMotor(out.u)
        /\ Account(ref, updated, out.kicked)

\* One iteration: sleep until next_ns, read the encoder, command the motor, test
\* for the end of the run (balancertd.c only), realign next_ns.
Tick(late) ==
    LET ref == IF now' < Pre THEN rpm0 ELSE rpm1
        over == variant = "step" /\ now' >= Pre + Hold
    IN  /\ Alive /\ pc = "loop" /\ ~stop /\ now < MaxTime
        /\ now' = Most(now, next) + late
        /\ \E updated \in BOOLEAN :
             /\ enc_update(updated)
             /\ IF variant = "step" THEN Limited(ref, updated) ELSE Direct(ref, updated)
        /\ pc' = IF over THEN "exit" ELSE "loop"
        /\ next' = IF over THEN next ELSE IF now' > next + 2 THEN now' + 1 ELSE next + 1
        /\ UNCHANGED <<cfg, mpc, stop>>

\* while (!c->stop)
LoopEnd ==
    /\ Alive /\ pc = "loop" /\ stop
    /\ pc' = IF variant = "step" THEN "exit" ELSE "returned"
    /\ UNCHANGED <<cfg, mpc, stop, now, next, ctrl, wheel>>

\* balancertd.c stops the motor; balancertd1.c does not.
Exit ==
    /\ Alive /\ pc = "exit"
    /\ SetMotor(0)
    /\ pc' = "returned"
    /\ UNCHANGED <<cfg, mpc, stop, now, next, count, enc, spd, u_last, kicks, windows, zeros>>

-----------------------------------------------------------------------------
Main == MainStop \/ MainJoin
Ctrl == Abort \/ Open \/ LoopEnd \/ Exit \/ \E late \in 0..MaxLate : Tick(late)
SpeedDone == ~Alive /\ UNCHANGED speedVars

SpeedNext == Main \/ Ctrl \/ SpeedDone \/ \E d \in {-1, 1} : Move(d)

\* Both threads keep running.
SpeedSpec == SpeedInit /\ [][SpeedNext]_speedVars
FairSpeedSpec == SpeedSpec /\ WF_speedVars(Main) /\ WF_speedVars(Ctrl)

-----------------------------------------------------------------------------
(* Properties.                                                             *)

\* A start from standstill is kicked for kick_ms at most, and not again before the
\* reference was 0, however often the wheel stops by itself (speed_pi_update).
KickBounded == kicks <= CeilDiv(KickMs, TickMs)

\* What the left wheel is driven with.
drive == motor.dir * motor.mag

\* DU_MAX, "the change allowed per tick": a command that the motor takes moves its
\* drive by DU_MAX at most, and by DU_MAX more for each command lost before it.  A
\* command that is lost has turned the pins all the same: it may reverse the wheel at
\* the duty it had, and moves the drive by twice as much as if it had been taken, at
\* most.  (As long as the duty is of this run: the first commands may be lost on top of
\* an earlier program's.)  Only the stop at the end is sudden.
SlewBounded ==
    [][variant = "step" /\ pc = "loop" /\ ours
         => fabs(drive' - drive) <= DuMax * (missed + missed' + 1)]_speedVars

\* A reference of 0 brings the command to 0 as fast as the limiter allows, from
\* any kick, windup or speed (speed_pi_update, ctrl_thread).
ZeroRefStops == variant = "step" => fabs(u_last) <= Most(0, Umax - zeros * DuMax)

\* "I only on fresh rpm update": since the last standstill the integrator has taken
\* one step per full window, although a tick may call the controller twice and ticks
\* without a reading, or limited ones, lie in between: an encoder that falls silent
\* cannot wind it up.
WindupBounded == spd.i <= windows * (Ki * Most(fabs(rpm0), fabs(rpm1)))

\* Both programs end.
Terminates == <>(~Alive)
=============================================================================
