------------------------------ MODULE MotorPwm ------------------------------
(***************************************************************************)
(* driver/motor/motor_pwm.c: the ioctls of /dev/motor0 on two PWM channels *)
(* and four L298N direction pins.                                          *)
(*                                                                         *)
(* An ioctl runs under d->lock from its first to its last hardware write,  *)
(* but the motors see every write: an ioctl is the list of hardware writes *)
(* it makes (todo), performed one step at a time.  pwm_apply_state may     *)
(* fail and then leaves the channel as it was; only MOTOR_IOC_SET looks at *)
(* the result.  Values are in units of which Full is 1000000 ppm.          *)
(***************************************************************************)
EXTENDS Integers, Sequences

CONSTANTS Full,         \* 1000000 ppm
          PeriodNs,     \* period_ns
          Values,       \* values that callers pass in motor_cmd
          HasStby,      \* is there a standby pin?
          MayFail       \* may pwm_apply_state fail?

ASSUME MotorAssumption ==
    /\ Full \in Nat \ {0} /\ PeriodNs \in Nat
    /\ Values \subseteq Int
    /\ HasStby \in BOOLEAN /\ MayFail \in BOOLEAN

Wheels == {"L", "R"}

VARIABLES enabled,      \* d->enabled
          stby,         \* the standby pin
          pin1, pin2,   \* pin1[w], pin2[w]: dir_w1, dir_w2
          duty, on,     \* duty[w], on[w]: the PWM channel's duty cycle and state
          todo,         \* hardware writes the running ioctl still has to make
          call,         \* the running ioctl or "probe", "none", or "unbound"
          request,      \* the values of the running or last MOTOR_IOC_SET
          last,         \* history: the last ioctl and how it returned
          faulted       \* history: has some pwm_apply_state failed?

vars == <<enabled, stby, pin1, pin2, duty, on, todo, call, request, last, faulted>>

-----------------------------------------------------------------------------
(* Hardware writes.                                                        *)

Abs(v) == IF v >= 0 THEN v ELSE -v

\* Mutant: no clamp.
MagnitudeUnclamped(v) == Abs(v)

\* mag, clamped
Magnitude(v) == IF Abs(v) > Full THEN Full ELSE Abs(v)

\* duty = period_ns * mag / 1000000, in 64 bits
Duty(v) == (PeriodNs * Magnitude(v)) \div Full

Write(what, w, v) == [what |-> what, wheel |-> w, val |-> v]

\* motor_apply_one: the two direction pins, then the PWM channel.
motor_apply_one(w, v) ==
    << Write("pin1", w, IF v > 0 THEN 1 ELSE 0), Write("pin2", w, IF v < 0 THEN 1 ELSE 0),
       Write("pwm", w, v) >>

Standby(v) == IF HasStby THEN << Write("stby", "L", v) >> ELSE << >>

Coast == motor_apply_one("L", 0) \o motor_apply_one("R", 0)

-----------------------------------------------------------------------------
\* After motor_probe: pins requested low, channels off.
Init ==
    /\ enabled = FALSE /\ stby = 0
    /\ pin1 = [w \in Wheels |-> 0] /\ pin2 = [w \in Wheels |-> 0]
    /\ duty = [w \in Wheels |-> 0] /\ on = [w \in Wheels |-> FALSE]
    /\ todo = << >> /\ call = "none"
    /\ request = [w \in Wheels |-> 0]
    /\ last = [op |-> "none", ok |-> TRUE]
    /\ faulted = FALSE

hardware == <<stby, pin1, pin2, duty, on>>

\* MOTOR_IOC_ENABLE with en = 0 or 1
IocEnable(en) ==
    /\ call = "none"
    /\ call' = "enable"
    /\ enabled' = en
    /\ todo' = Standby(IF en THEN 1 ELSE 0) \o Coast
    /\ UNCHANGED <<hardware, request, last, faulted>>

\* MOTOR_IOC_BRAKE, and MOTOR_IOC_SET with MOTOR_FLAG_BRAKE
IocBrake ==
    /\ call = "none"
    /\ call' = "brake"
    /\ enabled' = FALSE
    /\ todo' = Standby(0) \o Coast
    /\ UNCHANGED <<hardware, request, last, faulted>>

\* MOTOR_IOC_SET without MOTOR_FLAG_BRAKE: left, then right
IocSet(u, flagEnable) ==
    /\ call = "none"
    /\ call' = "set"
    /\ request' = u
    /\ enabled' = (enabled \/ flagEnable)
    /\ todo' = (IF flagEnable THEN Standby(1) ELSE << >>)
                   \o motor_apply_one("L", u["L"]) \o motor_apply_one("R", u["R"])
    /\ UNCHANGED <<hardware, last, faulted>>

\* copy_from_user fails, or the command is unknown: nothing is done.
IocRefused ==
    /\ call = "none"
    /\ last' = [op |-> "refused", ok |-> FALSE]
    /\ UNCHANGED <<enabled, hardware, todo, call, request, faulted>>

\* A GPIO write.
WritePin ==
    /\ todo # << >> /\ Head(todo).what # "pwm"
    /\ LET x == Head(todo)
       IN /\ stby' = IF x.what = "stby" THEN x.val ELSE stby
          /\ pin1' = IF x.what = "pin1" THEN [pin1 EXCEPT ![x.wheel] = x.val] ELSE pin1
          /\ pin2' = IF x.what = "pin2" THEN [pin2 EXCEPT ![x.wheel] = x.val] ELSE pin2
    /\ todo' = Tail(todo)
    /\ UNCHANGED <<enabled, duty, on, call, request, last, faulted>>

\* Mutant: d->enabled is not looked at.
WritePwmAlwaysOn ==
    /\ todo # << >> /\ Head(todo).what = "pwm"
    /\ LET x == Head(todo)
       IN /\ duty' = [duty EXCEPT ![x.wheel] = Duty(x.val)]
          /\ on' = [on EXCEPT ![x.wheel] = Magnitude(x.val) > 0]
    /\ todo' = Tail(todo)
    /\ UNCHANGED <<enabled, stby, pin1, pin2, call, request, last, faulted>>

\* pwm_apply_state
WritePwm ==
    /\ todo # << >> /\ Head(todo).what = "pwm"
    /\ LET x == Head(todo)
       IN /\ duty' = [duty EXCEPT ![x.wheel] = Duty(x.val)]
          /\ on' = [on EXCEPT ![x.wheel] = enabled /\ Magnitude(x.val) > 0]
    /\ todo' = Tail(todo)
    /\ UNCHANGED <<enabled, stby, pin1, pin2, call, request, last, faulted>>

\* Mutant: the error of the left wheel is lost.
PwmFailsContinue ==
    /\ MayFail
    /\ todo # << >> /\ Head(todo).what = "pwm"
    /\ faulted' = TRUE
    /\ todo' = Tail(todo) /\ UNCHANGED <<call, last>>
    /\ UNCHANGED <<enabled, hardware, request>>

\* Mutant: every ioctl gives up at the first failing write.
PwmFailsReturns ==
    /\ MayFail
    /\ todo # << >> /\ Head(todo).what = "pwm"
    /\ faulted' = TRUE
    /\ todo' = << >> /\ call' = "none"
    /\ last' = [op |-> call, ok |-> FALSE]
    /\ UNCHANGED <<enabled, hardware, request>>

\* pwm_apply_state fails: MOTOR_IOC_SET returns the error and makes no further
\* write, the others do not notice.
PwmFails ==
    /\ MayFail
    /\ todo # << >> /\ Head(todo).what = "pwm"
    /\ faulted' = TRUE
    /\ IF call = "set"
       THEN /\ todo' = << >> /\ call' = "none"
            /\ last' = [op |-> "set", ok |-> FALSE]
       ELSE todo' = Tail(todo) /\ UNCHANGED <<call, last>>
    /\ UNCHANGED <<enabled, hardware, request>>

\* The ioctl releases d->lock and returns 0, or probe returns 0.
IocReturn ==
    /\ call \notin {"none", "unbound"} /\ todo = << >>
    /\ last' = [op |-> call, ok |-> TRUE]
    /\ call' = "none"
    /\ UNCHANGED <<enabled, hardware, todo, request, faulted>>

-----------------------------------------------------------------------------
(* The module is unloaded and loaded again.                                *)

\* motor_remove takes the device node away.  It writes to neither pins nor
\* channels, and motor_fops has no release: wheels that a client left turning
\* go on turning.
Remove ==
    /\ call = "none"
    /\ call' = "unbound"
    /\ last' = [op |-> "remove", ok |-> TRUE]
    /\ UNCHANGED <<enabled, hardware, todo, request, faulted>>

\* motor_probe: a zeroed d, every pin requested with GPIOD_OUT_LOW, the standby
\* pin last.  The channels are left as they are.
Probe ==
    /\ call = "unbound"
    /\ call' = "probe"
    /\ enabled' = FALSE
    /\ todo' = << Write("pin1", "L", 0), Write("pin2", "L", 0),
                  Write("pin1", "R", 0), Write("pin2", "R", 0) >> \o Standby(0)
    /\ UNCHANGED <<hardware, request, last, faulted>>

\* A channel, a pin, the number or the class of the device cannot be had.
ProbeFails ==
    /\ call = "probe"
    /\ call' = "unbound"
    /\ todo' = << >>
    /\ last' = [op |-> "probe", ok |-> FALSE]
    /\ UNCHANGED <<enabled, hardware, request, faulted>>

-----------------------------------------------------------------------------
Next ==
    \/ \E en \in BOOLEAN : IocEnable(en)
    \/ IocBrake
    \/ \E u \in [Wheels -> Values], flag \in BOOLEAN : IocSet(u, flag)
    \/ IocRefused
    \/ WritePin \/ WritePwm \/ PwmFails \/ IocReturn
    \/ Remove \/ Probe \/ ProbeFails

Spec == Init /\ [][Next]_vars

-----------------------------------------------------------------------------
(* Properties.                                                             *)

\* A wheel gets power when its channel is on and its pins differ.  The standby pin
\* is left out: boards without one must be as safe.
Driven(w) == on[w] /\ pin1[w] # pin2[w]

\* Also: the duty cycle never exceeds the period, whatever s32 a caller sends.
TypeOK ==
    /\ enabled \in BOOLEAN /\ faulted \in BOOLEAN
    /\ stby \in {0, 1}
    /\ pin1 \in [Wheels -> {0, 1}] /\ pin2 \in [Wheels -> {0, 1}]
    /\ duty \in [Wheels -> 0..PeriodNs] /\ on \in [Wheels -> BOOLEAN]
    /\ call \in {"none", "enable", "brake", "set", "probe", "unbound"}
    /\ Len(todo) <= 7

\* Once MOTOR_IOC_BRAKE, MOTOR_IOC_ENABLE or motor_probe has returned, no wheel
\* gets power, whatever a client that died or an unloaded module left turning,
\* and even if switching a PWM channel off failed unnoticed: the pins coast first.
BrakeStops ==
    call = "none" /\ last.op \in {"brake", "enable", "probe"}
        => \A w \in Wheels : ~Driven(w)

\* As long as no PWM write has failed, a disabled driver powers no wheel, also
\* after a MOTOR_IOC_SET without MOTOR_FLAG_ENABLE, and after a reload that found
\* the channels on.
DisabledIsUnpowered ==
    call = "none" /\ ~enabled /\ ~faulted => \A w \in Wheels : ~Driven(w)

\* MOTOR_IOC_SET returns 0 only when both wheels do what was asked: direction,
\* duty and power, and nothing but another ioctl changes that.
SetMeansBoth ==
    call = "none" /\ last = [op |-> "set", ok |-> TRUE] =>
        \A w \in Wheels :
            /\ duty[w] = Duty(request[w])
            /\ pin1[w] = (IF request[w] > 0 THEN 1 ELSE 0)
            /\ pin2[w] = (IF request[w] < 0 THEN 1 ELSE 0)
            /\ on[w] = (enabled /\ request[w] # 0)
=============================================================================
