--------------------------- MODULE DropOldestQueue ---------------------------
(***************************************************************************)
(* What the ring of imu_mpu6050.c promises: a bounded FIFO of samples that *)
(* never refuses a new sample and gives up its oldest one when it is full. *)
(* A sample is the number of the conversion it was read from; conversions  *)
(* that could not be read are skipped.                                     *)
(***************************************************************************)
EXTENDS Naturals, Sequences

CONSTANTS Capacity,     \* number of samples the queue can hold
          Samples       \* the sample numbers, positive

VARIABLES queue,        \* the samples waiting, oldest first
          newest,       \* number of the sample queued last, 0 before the first
          popped        \* number of the sample taken last, 0 before the first

queueVars == <<queue, newest, popped>>

Init == queue = <<>> /\ newest = 0 /\ popped = 0

Push ==
    \E n \in Samples :
        /\ n > newest
        /\ newest' = n
        /\ queue' = Append(IF Len(queue) = Capacity THEN Tail(queue) ELSE queue, n)
        /\ UNCHANGED popped

Pop ==
    /\ queue # <<>>
    /\ popped' = Head(queue)
    /\ queue' = Tail(queue)
    /\ UNCHANGED newest

Next == Push \/ Pop

Spec == Init /\ [][Next]_queueVars
=============================================================================
