------------------------------ MODULE EventFlag ------------------------------
(***************************************************************************)
(* The event drivers under KernelModule: irqwait.c (events from an ioctl   *)
(* or sysfs), irqbtn.c (a button interrupt), irqbtn_debounce.c (the same,  *)
(* with fast presses ignored) and irqtasklet.c (the interrupt schedules a  *)
(* tasklet).  Each has one flag, condition, and one wait queue: an event   *)
(* sets the flag and wakes the queue, a read waits for the flag and clears *)
(* it.  The readers' test is not under the mutex, and the result of        *)
(* wait_event_interruptible is ignored.                                    *)
(*                                                                         *)
(* The sections under the mutex are single assignments, so they are one    *)
(* step each.  What mutex_lock does in the interrupt handlers of irqbtn    *)
(* and irqbtn_debounce when a reader on the same CPU holds the mutex is    *)
(* not modelled.                                                           *)
(***************************************************************************)
EXTENDS Integers

CONSTANTS Drivers,      \* the drivers looked at
          Readers,      \* threads that read the device
          Callers,      \* threads that trigger events of irqwait
          Debounce,     \* DEBOUNCE_MS
          MaxEvents, MaxSignals, MaxTime    \* bounds

AllDrivers == {"irqwait", "irqbtn", "irqbtn_debounce", "irqtasklet"}

ASSUME EventAssumption ==
    /\ Drivers \subseteq AllDrivers /\ "irq" \notin Callers
    /\ Debounce \in Nat
    /\ MaxEvents \in Nat /\ MaxSignals \in Nat /\ MaxTime \in Nat

VARIABLES drv,          \* the driver that is loaded
          condition,    \* the flag: condition, or flag in irqtasklet
          waiting,      \* the tasks on the wait queue
          tpc,          \* event sources: "idle", "set", "wake"
          scheduled,    \* 1 if the tasklet is scheduled
          now,          \* jiffies since loading
          last_jiffies, \* the time of the last press that was not ignored
          rpc,          \* readers
          events,       \* how often the flag was set; irq_counter
          signals,      \* signals[r]: waits of r that a signal ended
          reports       \* reports[r]: reads of r that reported an event

source == <<tpc, scheduled, now, last_jiffies, events>>
vars == <<drv, condition, waiting, tpc, scheduled, now, last_jiffies, rpc, events,
          signals, reports>>

Sources == Callers \cup {"irq"}

\* last_jiffies is 0 at first, which is long ago: 64-bit jiffies start at 2^32
\* minus five minutes.
Init ==
    /\ drv \in Drivers
    /\ condition = 0 /\ waiting = {}
    /\ tpc = [s \in Sources |-> "idle"] /\ scheduled = 0
    /\ now = 0 /\ last_jiffies = -Debounce
    /\ rpc = [r \in Readers |-> "idle"]
    /\ events = 0
    /\ signals = [r \in Readers |-> 0] /\ reports = [r \in Readers |-> 0]

-----------------------------------------------------------------------------
(* Events.                                                                 *)

Start(s) == events < MaxEvents /\ tpc[s] = "idle" /\ tpc' = [tpc EXCEPT ![s] = "set"]

\* irq_ioctl with IOCTL_TRIGGER_EVENT, or "1" written to status.
Trigger(s) ==
    /\ drv = "irqwait" /\ s \in Callers
    /\ Start(s)
    /\ UNCHANGED <<drv, condition, waiting, scheduled, now, last_jiffies, rpc, events,
                   signals, reports>>

\* Mutant: last_jiffies is not updated.
PressForgotten ==
    /\ drv = "irqbtn_debounce" /\ now >= last_jiffies + Debounce
    /\ Start("irq")
    /\ UNCHANGED <<drv, condition, waiting, scheduled, now, last_jiffies, rpc, events,
                   signals, reports>>

\* btn_irq_handler: a press that is too fast returns at once.
Press ==
    /\ \/ drv = "irqbtn" /\ UNCHANGED last_jiffies
       \/ /\ drv = "irqbtn_debounce" /\ now >= last_jiffies + Debounce
          /\ last_jiffies' = now
    /\ Start("irq")
    /\ UNCHANGED <<drv, condition, waiting, scheduled, now, rpc, events, signals, reports>>

\* irq_handler of irqtasklet; scheduling a scheduled tasklet changes nothing.
ScheduleTasklet ==
    /\ drv = "irqtasklet" /\ scheduled = 0
    /\ scheduled' = 1
    /\ UNCHANGED <<drv, condition, waiting, tpc, now, last_jiffies, rpc, events, signals,
                   reports>>

\* A tasklet may be scheduled again while it runs, but never runs twice at once.
RunTasklet ==
    /\ scheduled = 1
    /\ scheduled' = 0
    /\ Start("irq")
    /\ UNCHANGED <<drv, condition, waiting, now, last_jiffies, rpc, events, signals, reports>>

\* Mutant: the event wakes nobody.
SetFlagSilent(s) ==
    /\ tpc[s] = "set"
    /\ condition' = 1
    /\ events' = events + 1
    /\ tpc' = [tpc EXCEPT ![s] = "idle"]
    /\ UNCHANGED <<drv, waiting, scheduled, now, last_jiffies, rpc, signals, reports>>

\* condition = 1, irq_counter++
SetFlag(s) ==
    /\ tpc[s] = "set"
    /\ condition' = 1
    /\ events' = events + 1
    /\ tpc' = [tpc EXCEPT ![s] = "wake"]
    /\ UNCHANGED <<drv, waiting, scheduled, now, last_jiffies, rpc, signals, reports>>

\* wake_up_interruptible(&wq): every task leaves the queue.
WakeUp(s) ==
    /\ tpc[s] = "wake"
    /\ waiting' = {}
    /\ tpc' = [tpc EXCEPT ![s] = "idle"]
    /\ UNCHANGED <<drv, condition, scheduled, now, last_jiffies, rpc, events, signals, reports>>

Tick ==
    /\ drv = "irqbtn_debounce" /\ now < MaxTime
    /\ now' = now + 1
    /\ UNCHANGED <<drv, condition, waiting, tpc, scheduled, last_jiffies, rpc, events, signals,
                   reports>>

-----------------------------------------------------------------------------
(* read                                                                    *)

Goto(r, where) == rpc' = [rpc EXCEPT ![r] = where]

Read(r) ==
    /\ rpc[r] = "idle"
    /\ Goto(r, "test")
    /\ UNCHANGED <<drv, source, condition, waiting, signals, reports>>

\* wait_event_interruptible tests before it queues the task.
Test(r) ==
    /\ rpc[r] = "test"
    /\ Goto(r, IF condition # 0 THEN "clear" ELSE "prepare")
    /\ UNCHANGED <<drv, source, condition, waiting, signals, reports>>

Prepare(r) ==
    /\ rpc[r] = "prepare"
    /\ waiting' = waiting \cup {r}
    /\ Goto(r, "retest")
    /\ UNCHANGED <<drv, source, condition, signals, reports>>

\* Mutant: the queued task sleeps without testing again.
RetestSkipped(r) ==
    /\ rpc[r] = "retest"
    /\ Goto(r, "asleep")
    /\ UNCHANGED <<drv, source, condition, waiting, signals, reports>>

Retest(r) ==
    /\ rpc[r] = "retest"
    /\ Goto(r, IF condition # 0 THEN "clear" ELSE "asleep")
    /\ waiting' = IF condition # 0 THEN waiting \ {r} ELSE waiting
    /\ UNCHANGED <<drv, source, condition, signals, reports>>

\* A task taken off the queue runs again, also if that happened before it slept.
Resume(r) ==
    /\ rpc[r] = "asleep" /\ r \notin waiting
    /\ Goto(r, "prepare")
    /\ UNCHANGED <<drv, source, condition, waiting, signals, reports>>

\* A signal ends the wait; the read goes on as if the flag had been set.
Signal(r) ==
    /\ rpc[r] \in {"prepare", "asleep"} /\ signals[r] < MaxSignals
    /\ signals' = [signals EXCEPT ![r] = @ + 1]
    /\ waiting' = waiting \ {r}
    /\ Goto(r, "clear")
    /\ UNCHANGED <<drv, source, condition, reports>>

Report(r) == reports' = [reports EXCEPT ![r] = @ + 1]

\* Mutant: the flag stays set.
ClearForgotten(r) ==
    /\ rpc[r] = "clear" /\ drv # "irqtasklet"
    /\ Report(r) /\ Goto(r, "idle")
    /\ UNCHANGED <<drv, source, condition, waiting, signals>>

\* condition = 0; irqtasklet has a message to copy, the others return 0.
Clear(r) ==
    /\ rpc[r] = "clear"
    /\ condition' = 0
    /\ IF drv = "irqtasklet"
       THEN Goto(r, "copy") /\ UNCHANGED reports
       ELSE Report(r) /\ Goto(r, "idle")
    /\ UNCHANGED <<drv, source, waiting, signals>>

\* copy_to_user; on a fault the read returns -EFAULT, and the event that the cleared
\* flag stood for is reported to nobody.
CopyOut(r) ==
    /\ rpc[r] = "copy"
    /\ Report(r) \/ UNCHANGED reports
    /\ Goto(r, "idle")
    /\ UNCHANGED <<drv, source, condition, waiting, signals>>

-----------------------------------------------------------------------------
Source(s) == SetFlag(s) \/ WakeUp(s)

InRead(r) == Test(r) \/ Prepare(r) \/ Retest(r) \/ Resume(r) \/ Clear(r) \/ CopyOut(r)

Next ==
    \/ Press \/ ScheduleTasklet \/ RunTasklet \/ Tick
    \/ \E s \in Sources : Trigger(s) \/ Source(s)
    \/ \E r \in Readers : Read(r) \/ InRead(r) \/ Signal(r)

\* Handlers and tasklets run to their end, and a runnable reader runs.
Fairness ==
    /\ \A s \in Sources : WF_vars(Source(s))
    /\ \A r \in Readers : WF_vars(InRead(r))

Spec == Init /\ [][Next]_vars
FairSpec == Spec /\ Fairness

-----------------------------------------------------------------------------
(* Properties.                                                             *)

TypeOK ==
    /\ drv \in Drivers
    /\ condition \in {0, 1} /\ waiting \subseteq Readers
    /\ tpc \in [Sources -> {"idle", "set", "wake"}] /\ scheduled \in {0, 1}
    /\ now \in Nat /\ last_jiffies \in Int
    /\ rpc \in [Readers -> {"idle", "test", "prepare", "retest", "asleep", "clear", "copy"}]
    /\ events \in Nat
    /\ signals \in [Readers -> Nat] /\ reports \in [Readers -> Nat]

\* "event received": one event makes a reader report at most once, although the
\* flag is tested and cleared in two steps and other readers clear it too; every
\* report beyond the events is owed to a signal, which the read takes for one.
ReportsPaid == \A r \in Readers : reports[r] <= events + signals[r]

\* "debounce": presses that count are at least DEBOUNCE_MS apart, so irq_counter
\* is bounded by the time since the module was loaded.
RateLimited == drv = "irqbtn_debounce" => (events - 1) * Debounce <= now

\* Nobody sleeps on the queue while the flag is set unless the source of an event is
\* about to wake the queue, although another source may have woken it between the
\* reader's unlocked test and its sleep.
WakeupPending ==
    \A r \in Readers :
        (rpc[r] = "asleep" /\ r \in waiting /\ condition = 1) => \E s \in Sources : tpc[s] = "wake"

\* No lost wake-up: a read does not stay asleep while the flag is set, however the
\* event and the unlocked test interleave.
NoLostWakeup ==
    \A r \in Readers : (rpc[r] = "asleep" /\ condition = 1) ~> (rpc[r] # "asleep" \/ condition = 0)
=============================================================================
