------------------------------ MODULE PwmDemo ------------------------------
(***************************************************************************)
(* KernelModule/pwm/pwm.c: a PWM channel programmed through the sysfs      *)
(* files duty and freq.                                                    *)
(*                                                                         *)
(* pwm_set takes no lock: it switches the channel off, writes range and    *)
(* data, and switches it on again, one register write at a time.  Writers  *)
(* of duty and of freq run at the same time as each other, as the end of   *)
(* pwm_demo_probe, which sleeps between two calls of pwm_set after the     *)
(* files exist, and as pwm_demo_remove, which takes the files away last.   *)
(* u32 arithmetic wraps at U32.  Writing a register of a stopped clock has *)
(* its effect or not.                                                      *)
(***************************************************************************)
EXTENDS Integers

CONSTANTS Writers,      \* processes that write to the sysfs files
          ClkFreq,      \* clk_freq
          Default,      \* the frequency of pwm_set(p, 1000, ...)
          Freqs, Duties,    \* the numbers written to the files
          U32           \* 2^32, scaled down

ASSUME PwmAssumption ==
    /\ "driver" \notin Writers
    /\ U32 \in Nat /\ U32 > 100
    /\ ClkFreq \in 0..(U32 - 1) /\ Default \in 1..(U32 - 1)
    /\ Freqs \subseteq Nat \ {0} /\ Duties \subseteq Nat

VARIABLES life,         \* "absent", "first", "nap", "second", "bound", "off",
                        \* "unclocked", "noDuty", "gone": how far probe or remove is
          files,        \* the sysfs files there are
          duty,         \* p->duty
          ctl, rng, dat,    \* the registers
          pc, asked,    \* a process in a store or pwm_set, and its arguments
          met           \* history: what the store or part of probe begun last found
                        \* under way

vars == <<life, files, duty, ctl, rng, dat, pc, asked, met>>
registers == <<ctl, rng, dat>>

Procs == Writers \cup {"driver"}
Files == {"duty", "freq"}

\* The clock runs from the middle of probe to that of remove.
Clocked == life \in {"first", "nap", "second", "bound", "off"}

NoCall == [via |-> "none", freq |-> 1, duty |-> 0]
Busy(p) == pc[p] # "idle"
Idle == \A p \in Procs : pc[p] = "idle"

Init ==
    /\ life = "absent" /\ files = {}
    /\ duty = 0
    /\ ctl = 0 /\ rng = 0 /\ dat = 0
    /\ pc = [p \in Procs |-> "idle"]
    /\ asked = [p \in Procs |-> NoCall]
    /\ met = {}

-----------------------------------------------------------------------------
(* pwm_set                                                                 *)

Goto(p, where) == pc' = [pc EXCEPT ![p] = where]

AtMost100(n) == IF n > 100 THEN 100 ELSE n
AtLeast1(n) == IF n = 0 THEN 1 ELSE n

\* period, from a frequency that was cut to 32 bits
Period(p) == AtLeast1(ClkFreq \div AtLeast1(asked[p].freq % U32))

Data(p) == ((Period(p) * AtMost100(asked[p].duty)) % U32) \div 100

\* pwm_set is called, by a store to the file via or by the driver itself.
CallSet(p, via, f, d) ==
    /\ asked' = [asked EXCEPT ![p] = [via |-> via, freq |-> f, duty |-> d]]
    /\ Goto(p, "ctl")

\* writel, which may have no effect when the clock is stopped
Writel(reg, new, old) == reg = new \/ (~Clocked /\ reg = old)

SetCtl(p) ==
    /\ pc[p] = "ctl"
    /\ Writel(ctl', 0, ctl)
    /\ Goto(p, "rng")
    /\ UNCHANGED <<life, files, duty, rng, dat, asked, met>>

SetRng(p) ==
    /\ pc[p] = "rng"
    /\ Writel(rng', Period(p), rng)
    /\ Goto(p, "dat")
    /\ UNCHANGED <<life, files, duty, ctl, dat, asked, met>>

SetDat(p) ==
    /\ pc[p] = "dat"
    /\ Writel(dat', Data(p), dat)
    /\ Goto(p, "on")
    /\ UNCHANGED <<life, files, duty, ctl, rng, asked, met>>

\* Mutant: the enable bit is toggled instead of set.
SetOnToggle(p) ==
    /\ pc[p] = "on"
    /\ Writel(ctl', 1 - ctl, ctl)
    /\ Goto(p, "idle")
    /\ asked' = [asked EXCEPT ![p] = NoCall]
    /\ UNCHANGED <<life, files, duty, rng, dat, met>>

\* The channel is switched on and pwm_set returns, and its caller with it.
SetOn(p) ==
    /\ pc[p] = "on"
    /\ Writel(ctl', 1, ctl)
    /\ Goto(p, "idle")
    /\ asked' = [asked EXCEPT ![p] = NoCall]
    /\ UNCHANGED <<life, files, duty, rng, dat, met>>

-----------------------------------------------------------------------------
(* The sysfs files.                                                        *)

\* A store, or a part of probe, begins: which others are under way?
Enter(p) == met' = {q \in Procs \ {p} : Busy(q)}

\* Mutant: p->duty is left as it was.
DutyStoreForgets(w, v) ==
    /\ pc[w] = "idle" /\ "duty" \in files
    /\ Enter(w)
    /\ asked' = [asked EXCEPT ![w] = [via |-> "duty", freq |-> Default, duty |-> AtMost100(v)]]
    /\ Goto(w, "stored")
    /\ UNCHANGED <<life, files, duty, registers>>

DutyStore(w, v) ==
    /\ pc[w] = "idle" /\ "duty" \in files
    /\ Enter(w)
    /\ duty' = AtMost100(v)
    /\ asked' = [asked EXCEPT ![w] = [via |-> "duty", freq |-> Default, duty |-> AtMost100(v)]]
    /\ Goto(w, "stored")
    /\ UNCHANGED <<life, files, registers>>

\* duty_store passes p->duty to pwm_set: the compiler may read it again, and
\* find what another writer stored meanwhile, or use the value it has.
DutyProgram(w) ==
    /\ pc[w] = "stored"
    /\ \E d \in {duty, asked[w].duty} : CallSet(w, "duty", Default, d)
    /\ UNCHANGED <<life, files, duty, registers, met>>

\* freq_store; 0 and what is no number is refused.
FreqStore(w, f) ==
    /\ pc[w] = "idle" /\ "freq" \in files
    /\ Enter(w)
    /\ CallSet(w, "freq", f, duty)
    /\ UNCHANGED <<life, files, duty, registers>>

-----------------------------------------------------------------------------
(* pwm_demo_probe and pwm_demo_remove.                                     *)

\* Everything that may fail comes before the clock is enabled, the results of
\* device_create_file are ignored.  pwm_set(p, 1000, 100) is called.
Probe(default) ==
    /\ life = "absent"
    /\ duty' = IF default > 100 THEN 50 ELSE default
    /\ files' \in SUBSET Files
    /\ Enter("driver")
    /\ CallSet("driver", "none", Default, 100)
    /\ life' = "first"
    /\ UNCHANGED registers

\* Memory, register window or clock cannot be had: devm undoes the rest.
ProbeFails ==
    /\ life = "absent"
    /\ life' = "gone"
    /\ UNCHANGED <<files, duty, registers, pc, asked, met>>

\* msleep(500)
Nap ==
    /\ life = "first" /\ pc["driver"] = "idle"
    /\ life' = "nap"
    /\ UNCHANGED <<files, duty, registers, pc, asked, met>>

\* pwm_set(p, 1000, p->duty)
AfterNap ==
    /\ life = "nap"
    /\ Enter("driver")
    /\ CallSet("driver", "none", Default, duty)
    /\ life' = "second"
    /\ UNCHANGED <<files, duty, registers>>

Bound ==
    /\ life = "second" /\ pc["driver"] = "idle"
    /\ life' = "bound"
    /\ UNCHANGED <<files, duty, registers, pc, asked, met>>

\* The channel is switched off; the files are still there.
Remove ==
    /\ life = "bound"
    /\ ctl' = 0
    /\ life' = "off"
    /\ UNCHANGED <<files, duty, rng, dat, pc, asked, met>>

RemoveClk ==
    /\ life = "off"
    /\ life' = "unclocked"
    /\ UNCHANGED <<files, duty, registers, pc, asked, met>>

\* device_remove_file waits for the stores to f that are under way.
RemoveFile(f, from, to) ==
    /\ life = from
    /\ \A w \in Writers : asked[w].via # f
    /\ files' = files \ {f}
    /\ life' = to
    /\ UNCHANGED <<duty, registers, pc, asked, met>>

-----------------------------------------------------------------------------
Next ==
    \/ \E p \in Procs : SetCtl(p) \/ SetRng(p) \/ SetDat(p) \/ SetOn(p)
    \/ \E w \in Writers :
         \/ \E v \in Duties : DutyStore(w, v)
         \/ DutyProgram(w)
         \/ \E f \in Freqs : FreqStore(w, f)
    \/ \E v \in Duties : Probe(v)
    \/ ProbeFails \/ Nap \/ AfterNap \/ Bound
    \/ Remove \/ RemoveClk
    \/ RemoveFile("duty", "unclocked", "noDuty") \/ RemoveFile("freq", "noDuty", "gone")

Spec == Init /\ [][Next]_vars

-----------------------------------------------------------------------------
(* Properties.                                                             *)

\* Whatever overlapping stores left behind (one may program a duty that another
\* has replaced, or mix its range with another's data), one store, or the end of
\* probe, that overlaps no other repairs it: the registers hold what duty_show
\* shows.  Only a product that overflows 32 bits spoils it.
ShownIsProgrammed ==
    (life = "bound" /\ Idle /\ met = {} /\ rng * 100 < U32) => dat = (rng * duty) \div 100

\* However many stores overlap, with each other or with probe, the channel is on
\* when all of them have returned.
OnWhenIdle == (life = "bound" /\ Idle) => ctl = 1
=============================================================================
