------------------------------- MODULE ImuRing -------------------------------
(***************************************************************************)
(* driver/imu/imu_mpu6050.c: the threaded interrupt handler that reads a   *)
(* sample over I2C into a ring, and the threads that read the ring through *)
(* /dev/imu0 (open, blocking and non-blocking read, poll, close).          *)
(*                                                                         *)
(* A sample is the number of the conversion it was read from.  rb_push and *)
(* rb_pop run under rb_lock and are one step each; the emptiness tests of  *)
(* imu_read and imu_poll take no lock, so their two loads are two steps in *)
(* an order the compiler chooses.  The wait queue is the kernel's: waiting *)
(* is the set of queued tasks, a wake-up empties it.                       *)
(***************************************************************************)
EXTENDS Integers, Sequences

CONSTANTS Threads,      \* threads that use /dev/imu0
          RbSize,       \* RB_SIZE: 64 in the code
          CtrMod,       \* head and tail are u32: 2^32 in the code
          MaxSamples,   \* bound on the conversions of the sensor
          NoSample      \* no sample in hand

ASSUME ImuAssumption ==
    /\ RbSize \in Nat \ {0}
    /\ CtrMod \in Nat /\ CtrMod % RbSize = 0 /\ CtrMod > RbSize
    /\ MaxSamples \in Nat
    /\ NoSample \notin Nat

VARIABLES buf, head, tail,      \* struct imu_rb
          waiting,              \* the tasks queued on d->wq
          opened,               \* d->opened
          holders,              \* threads that hold the open file
          wasShared,            \* history: has this open file been passed on?
          converted,            \* conversions of the sensor so far
          ipc,                  \* irq thread: "idle", "push", "wake"
          pc,                   \* pc[t]: where thread t is in its call
          op,                   \* op[t]: "read", "readnb" or "poll"
          seen,                 \* seen[t]: first load of an emptiness test
          inHand,               \* inHand[t]: sample popped, not yet copied out
          res,                  \* res[t]: result of t's last call
          newest, popped        \* history: last sample pushed, last popped

ring == <<buf, head, tail, newest, popped>>
file == <<opened, holders, wasShared>>
irq == <<converted, ipc>>
task == <<pc, op, seen, inHand, res>>
vars == <<buf, head, tail, newest, popped, waiting, opened, holders,
          wasShared, converted, ipc, pc, op, seen, inHand, res>>

rb_empty == head = tail
rb_count == (head - tail) % CtrMod        \* u32 subtraction
rb_full == rb_count >= RbSize
Slot(c) == c % RbSize                      \* c & RB_MASK

Init ==
    /\ buf = [i \in 0..(RbSize - 1) |-> NoSample]
    /\ head = 0 /\ tail = 0
    /\ newest = 0 /\ popped = 0
    /\ waiting = {}
    /\ opened = FALSE /\ holders = {} /\ wasShared = FALSE
    /\ converted = 0 /\ ipc = "idle"
    /\ pc = [t \in Threads |-> "idle"]
    /\ op = [t \in Threads |-> "none"]
    /\ seen = [t \in Threads |-> <<"head", 0>>]
    /\ inHand = [t \in Threads |-> NoSample]
    /\ res = [t \in Threads |-> "none"]

-----------------------------------------------------------------------------
(* imu_irq_thread: IRQF_ONESHOT, so one instance at a time.                *)

\* A conversion is ready; i2c_smbus_read_i2c_block_data may fail, and then the
\* handler returns without a sample.
IrqRead ==
    /\ ipc = "idle" /\ converted < MaxSamples
    /\ converted' = converted + 1
    /\ ipc' \in {"idle", "push"}
    /\ UNCHANGED <<ring, waiting, file, task>>

\* Mutant: the full ring is overwritten without moving tail.
rb_push_overrun ==
    /\ ipc = "push"
    /\ buf' = [buf EXCEPT ![Slot(head)] = converted]
    /\ head' = (head + 1) % CtrMod
    /\ newest' = converted
    /\ ipc' = "wake"
    /\ UNCHANGED <<tail, popped, waiting, file, converted, task>>

rb_push ==
    /\ ipc = "push"
    /\ tail' = IF rb_full THEN (tail + 1) % CtrMod ELSE tail
    /\ buf' = [buf EXCEPT ![Slot(head)] = converted]
    /\ head' = (head + 1) % CtrMod
    /\ newest' = converted
    /\ ipc' = "wake"
    /\ UNCHANGED <<popped, waiting, file, converted, task>>

\* Mutant: the handler does not wake anybody.
IrqNoWake ==
    /\ ipc = "wake"
    /\ ipc' = "idle"
    /\ UNCHANGED <<ring, waiting, file, converted, task>>

\* wake_up_interruptible(&d->wq)
IrqWake ==
    /\ ipc = "wake"
    /\ waiting' = {}
    /\ ipc' = "idle"
    /\ UNCHANGED <<ring, file, converted, task>>

-----------------------------------------------------------------------------
(* imu_open, imu_release and sharing of the open file.                     *)

\* Mutant: opened is not tested.
imu_open_always(t) ==
    /\ t \notin holders
    /\ opened' = TRUE /\ holders' = holders \cup {t}
    /\ UNCHANGED wasShared
    /\ res' = [res EXCEPT ![t] = "OK"]
    /\ UNCHANGED <<ring, waiting, irq, pc, op, seen, inHand>>

imu_open(t) ==
    /\ t \notin holders
    /\ \/ /\ opened
          /\ res' = [res EXCEPT ![t] = "EBUSY"]
          /\ UNCHANGED file
       \/ /\ ~opened
          /\ opened' = TRUE /\ holders' = {t} /\ wasShared' = FALSE
          /\ res' = [res EXCEPT ![t] = "OK"]
    /\ UNCHANGED <<ring, waiting, irq, pc, op, seen, inHand>>

\* fork, dup or a second thread of the process: the same struct file.
ShareFile(t, u) ==
    /\ t \in holders /\ u \notin holders
    /\ holders' = holders \cup {u} /\ wasShared' = TRUE
    /\ UNCHANGED <<ring, waiting, opened, irq, task>>

\* close; the last one runs imu_release.
CloseFile(t) ==
    /\ t \in holders /\ pc[t] = "idle"
    /\ holders' = holders \ {t}
    /\ opened' = (holders' # {})
    /\ wasShared' = (wasShared /\ holders' # {})
    /\ res' = [res EXCEPT ![t] = "none"]
    /\ UNCHANGED <<ring, waiting, irq, pc, op, seen, inHand>>

-----------------------------------------------------------------------------
(* imu_read and imu_poll.                                                  *)

Goto(t, where) == pc' = [pc EXCEPT ![t] = where]

\* The call returns: its locals are gone.
Finish(t, result) ==
    /\ Goto(t, "idle")
    /\ op' = [op EXCEPT ![t] = "none"]
    /\ res' = [res EXCEPT ![t] = result]

Unseen(t) == seen' = [seen EXCEPT ![t] = <<"head", 0>>]

\* len < sizeof(s)
ReadShort(t) ==
    /\ t \in holders /\ pc[t] = "idle"
    /\ Finish(t, "EINVAL")
    /\ UNCHANGED <<ring, waiting, file, irq, seen, inHand>>

\* A non-blocking read pops at once; wait_event tests before it queues the
\* task; poll_wait queues the task before imu_poll tests.
Call(t) ==
    /\ t \in holders /\ pc[t] = "idle"
    /\ \E call \in {<<"read", "test0">>, <<"readnb", "pop">>, <<"poll", "prepare">>} :
        op' = [op EXCEPT ![t] = call[1]] /\ Goto(t, call[2])
    /\ res' = [res EXCEPT ![t] = "none"]
    /\ UNCHANGED <<ring, waiting, file, irq, seen, inHand>>

Prepare(t) ==
    /\ pc[t] = "prepare"
    /\ waiting' = waiting \cup {t}
    /\ Goto(t, "test")
    /\ UNCHANGED <<ring, file, irq, op, seen, inHand, res>>

\* The unlocked rb_empty: one of the two counters is loaded first.
LoadFirst(t) ==
    /\ pc[t] \in {"test0", "test"}
    /\ \E first \in {<<"head", head>>, <<"tail", tail>>} :
        seen' = [seen EXCEPT ![t] = first]
    /\ Goto(t, IF pc[t] = "test0" THEN "cmp0" ELSE "cmp")
    /\ UNCHANGED <<ring, waiting, file, irq, op, inHand, res>>

\* Mutant: the masked counters are compared, so a full ring looks empty.
SeenEmptyMasked(t) == Slot(seen[t][2]) = Slot(IF seen[t][1] = "head" THEN tail ELSE head)

SeenEmpty(t) == seen[t][2] = IF seen[t][1] = "head" THEN tail ELSE head

\* The other counter is loaded: data is there.
FoundData(t) ==
    /\ pc[t] \in {"cmp0", "cmp"} /\ ~SeenEmpty(t)
    /\ waiting' = waiting \ {t}
    /\ IF op[t] = "poll"
       THEN Finish(t, "POLLIN")
       ELSE Goto(t, "pop") /\ UNCHANGED <<op, res>>
    /\ Unseen(t)
    /\ UNCHANGED <<ring, file, irq, inHand>>

\* The other counter is loaded: nothing there.  The first test leads to the
\* wait queue, a later one to sleep, or back to the caller on a signal.
FoundEmpty(t) ==
    /\ pc[t] \in {"cmp0", "cmp"} /\ SeenEmpty(t)
    /\ \/ pc[t] = "cmp0" /\ Goto(t, "prepare") /\ UNCHANGED <<waiting, op, res>>
       \/ pc[t] = "cmp" /\ Goto(t, "asleep") /\ UNCHANGED <<waiting, op, res>>
       \/ pc[t] = "cmp" /\ Finish(t, "EINTR") /\ waiting' = waiting \ {t}
    /\ Unseen(t)
    /\ UNCHANGED <<ring, file, irq, inHand>>

\* A task taken off the queue runs again, also if that happened before it slept.
WakeUp(t) ==
    /\ pc[t] = "asleep" /\ t \notin waiting
    /\ Goto(t, "prepare")
    /\ UNCHANGED <<ring, waiting, file, irq, op, seen, inHand, res>>

\* A signal ends the sleep, or the time-out of poll does.
SignalOrTimeout(t) ==
    /\ pc[t] = "asleep" /\ t \in waiting
    /\ waiting' = waiting \ {t}
    /\ \/ Goto(t, "prepare") /\ UNCHANGED <<op, res>>
       \/ op[t] = "poll" /\ Finish(t, "TIMEOUT")
    /\ UNCHANGED <<ring, file, irq, seen, inHand>>

\* Mutant: the newest sample is taken instead of the oldest.
rb_pop_newest(t) ==
    /\ pc[t] = "pop"
    /\ IF rb_empty
       THEN /\ Finish(t, IF op[t] = "readnb" THEN "EAGAIN" ELSE "EIO")
            /\ UNCHANGED <<ring, inHand>>
       ELSE /\ inHand' = [inHand EXCEPT ![t] = buf[Slot(head - 1)]]
            /\ popped' = inHand'[t]
            /\ head' = (head - 1) % CtrMod
            /\ Goto(t, "copy")
            /\ UNCHANGED <<buf, tail, newest, op, res>>
    /\ UNCHANGED <<waiting, file, irq, seen>>

rb_pop(t) ==
    /\ pc[t] = "pop"
    /\ IF rb_empty
       THEN /\ Finish(t, IF op[t] = "readnb" THEN "EAGAIN" ELSE "EIO")
            /\ UNCHANGED <<ring, inHand>>
       ELSE /\ inHand' = [inHand EXCEPT ![t] = buf[Slot(tail)]]
            /\ popped' = buf[Slot(tail)]
            /\ tail' = (tail + 1) % CtrMod
            /\ Goto(t, "copy")
            /\ UNCHANGED <<buf, head, newest, op, res>>
    /\ UNCHANGED <<waiting, file, irq, seen>>

\* copy_to_user; the popped sample is gone even when the copy faults.
CopyOut(t) ==
    /\ pc[t] = "copy"
    /\ \E r \in {"OK", "EFAULT"} : Finish(t, r)
    /\ inHand' = [inHand EXCEPT ![t] = NoSample]
    /\ UNCHANGED <<ring, waiting, file, irq, seen>>

-----------------------------------------------------------------------------
Irq == IrqRead \/ rb_push \/ IrqWake

\* The steps a thread takes by itself once it is inside a call.
InCall(t) ==
    \/ Prepare(t) \/ LoadFirst(t) \/ FoundData(t) \/ FoundEmpty(t)
    \/ WakeUp(t) \/ rb_pop(t) \/ CopyOut(t)

User(t) ==
    \/ imu_open(t) \/ CloseFile(t) \/ ReadShort(t) \/ Call(t)
    \/ \E u \in Threads : ShareFile(t, u)

Next == Irq \/ \E t \in Threads : InCall(t) \/ User(t) \/ SignalOrTimeout(t)

\* A started handler finishes and a runnable thread inside a call runs on.
Fairness ==
    /\ WF_vars(rb_push \/ IrqWake)
    /\ \A t \in Threads : WF_vars(InCall(t))

Spec == Init /\ [][Next]_vars
FairSpec == Spec /\ Fairness

-----------------------------------------------------------------------------
(* Properties.                                                             *)

Sample == 1..MaxSamples

\* The ring, with its wrapping counters, is the bounded FIFO: pushing onto a full
\* ring drops exactly the oldest sample, popping takes exactly the oldest one
\* (rb_push, rb_pop).
Fifo == INSTANCE DropOldestQueue
        WITH Capacity <- RbSize, Samples <- Sample,
             queue <- [i \in 1..rb_count |-> buf[Slot(tail + i - 1)]]
ImplementsFifo == Fifo!Spec

\* What imu_poll reports holds until the reader acts on it: to the only holder
\* of the file POLLIN means that its next read finds a sample, even if the ring
\* overflows in between.
PollTruthful ==
    \A t \in Threads :
        (~wasShared /\ t \in holders /\ res[t] = "POLLIN") => ~rb_empty

\* "should not happen": a blocking read that was told of data finds some.  That is
\* so for a file that is not shared: although imu_read tests without rb_lock and
\* pops later, its only reader never gets -EIO, for imu_open lets no second opener
\* in.  (Readers that share the file do get it.)
NoEIOAlone == ~wasShared => \A t \in Threads : res[t] # "EIO"

\* Nobody sleeps on the queue while the ring holds a sample unless imu_irq_thread is
\* about to wake the queue: the test after prepare_to_wait, made of two unlocked loads
\* while other threads pop, cannot miss a push whose wake-up came before the task was
\* queued.  This is what saves the wake-up, whatever the scheduler does.
WakeupPending ==
    \A t \in Threads : (pc[t] = "asleep" /\ t \in waiting /\ ~rb_empty) => ipc = "wake"

\* No lost wake-up: a blocking read or poll does not stay asleep while the ring
\* holds a sample, however the push, the unlocked test and the queueing of the
\* task interleave (imu_irq_thread, imu_read, imu_poll).
NoLostWakeup ==
    \A t \in Threads : (pc[t] = "asleep" /\ ~rb_empty) ~> (pc[t] # "asleep" \/ rb_empty)
=============================================================================
