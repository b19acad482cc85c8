-------------------------- MODULE SnapshotRegister --------------------------
(***************************************************************************)
(* What shared_enc_* and shared_imu_* of balancertd_arch.c promise: one    *)
(* writer publishes versions 1, 2, 3, ... of a record; a reader's call     *)
(* either returns every field of ONE version that was current at some      *)
(* moment between its call and its return, or fails and hands out nothing. *)
(***************************************************************************)
EXTENDS Naturals

CONSTANTS Readers,      \* the threads that read the record
          Fields        \* the members of the record

VARIABLES published,    \* number of the last complete version
          calling,      \* calling[r]: r is inside a read
          since,        \* since[r]: version current when r's call began
          snap          \* snap[r]: what r's last successful read returned

regVars == <<published, calling, since, snap>>

\* Version n of the record: every field comes from the n-th write.
Version(n) == [f \in Fields |-> n]

Init ==
    /\ published = 0
    /\ calling = [r \in Readers |-> FALSE]
    /\ since = [r \in Readers |-> 0]
    /\ snap = [r \in Readers |-> Version(0)]

Publish ==
    /\ published' = published + 1
    /\ UNCHANGED <<calling, since, snap>>

Call(r) ==
    /\ ~calling[r]
    /\ calling' = [calling EXCEPT ![r] = TRUE]
    /\ since' = [since EXCEPT ![r] = published]
    /\ UNCHANGED <<published, snap>>

ReturnVersion(r) ==
    /\ calling[r]
    /\ calling' = [calling EXCEPT ![r] = FALSE]
    /\ \E n \in since[r]..published : snap' = [snap EXCEPT ![r] = Version(n)]
    /\ UNCHANGED <<published, since>>

ReturnNothing(r) ==
    /\ calling[r]
    /\ calling' = [calling EXCEPT ![r] = FALSE]
    /\ UNCHANGED <<published, since, snap>>

Next ==
    \/ Publish
    \/ \E r \in Readers : Call(r) \/ ReturnVersion(r) \/ ReturnNothing(r)

Spec == Init /\ [][Next]_regVars
=============================================================================
