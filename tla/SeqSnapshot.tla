---------------------------- MODULE SeqSnapshot ----------------------------
(***************************************************************************)
(* The sequence-counter record that the sensor thread of                   *)
(* apps/balancertd/balancertd_arch.c publishes and the control and logger  *)
(* threads read: shared_enc_t / shared_enc_write / shared_enc_read, and    *)
(* the identical shared_imu_* triple.                                      *)
(*                                                                         *)
(* A field holds the number of the write its value comes from: that is all *)
(* a snapshot property can tell apart.  Every access to memory is a step   *)
(* of its own.  InOrder chooses the machine: TRUE when the accesses of a   *)
(* thread are performed in program order; FALSE when only what C11 release *)
(* and acquire demand is kept, as on the ARMv8 cores of the Raspberry Pi:  *)
(*  - the release store of s + 1 does not hold back the plain stores after *)
(*    it, so fields may change while seq is still even;                    *)
(*  - the acquire load of s2 does not hold back the plain loads before it, *)
(*    so fields may be loaded after s2.                                    *)
(* Two writes of one record are system calls and a sleep apart, so all the *)
(* stores of one are performed before the next one begins.                 *)
(***************************************************************************)
EXTENDS Integers

CONSTANTS Fields,       \* the plain members of shared_enc_t / shared_imu_t
          Readers,      \* the reading threads: control and logger
          InOrder,      \* are accesses performed in program order?
          SeqMod,       \* atomic_uint wraps here: 2^32 in the code
          MaxWrites     \* bound on the writes of one run of the daemon

\* The sensor loop sleeps 1 ms after each write and the whole run lasts less
\* than 2^31 us, so the counter does not wrap within a run.
ASSUME SeqAssumption ==
    /\ InOrder \in BOOLEAN
    /\ SeqMod \in Nat /\ MaxWrites \in Nat
    /\ 2 * MaxWrites < SeqMod

VARIABLES seq,          \* sh->seq
          mem,          \* mem[f]: the write that last stored field f
          wpc,          \* where the sensor thread is: outside shared_*_write
                        \* ("idle"), called ("called"), s + 1 stored ("open")
          toStore,      \* fields whose store is still to be performed
          writes,       \* number of calls of shared_*_write so far
          pc,           \* pc[r]: where r is: outside shared_*_read ("idle"),
                        \* called ("called"), s1 loaded ("load"), s2 loaded ("check")
          s1, s2,       \* s1[r], s2[r]: the two loads of seq
          toLoad,       \* toLoad[r]: fields still to be loaded
          local,        \* local[r]: the local copies of the fields
          since,        \* since[r]: complete writes when r's call began
          snap          \* snap[r]: the caller's variables, set on success only

writerVars == <<seq, mem, wpc, toStore, writes>>
readerVars == <<pc, s1, s2, toLoad, local, since, snap>>
vars == <<seq, mem, wpc, toStore, writes,
          pc, s1, s2, toLoad, local, since, snap>>

Version(n) == [f \in Fields |-> n]

\* Complete writes: the ones whose store of s + 2 has been performed.
published == IF wpc = "idle" THEN writes ELSE writes - 1

IsOdd(s) == s % 2 = 1

-----------------------------------------------------------------------------
\* ctx_t is zeroed by main before the threads start.
Init ==
    /\ seq = 0 /\ mem = Version(0)
    /\ wpc = "idle" /\ toStore = {} /\ writes = 0
    /\ pc = [r \in Readers |-> "idle"]
    /\ s1 = [r \in Readers |-> 0]
    /\ s2 = [r \in Readers |-> 0]
    /\ toLoad = [r \in Readers |-> {}]
    /\ local = [r \in Readers |-> Version(0)]
    /\ since = [r \in Readers |-> 0]
    /\ snap = [r \in Readers |-> Version(0)]

-----------------------------------------------------------------------------
(* shared_*_write: the only writer is the sensor thread.                   *)

WriteCall ==
    /\ wpc = "idle"
    /\ writes < MaxWrites
    /\ wpc' = "called"
    /\ toStore' = Fields
    /\ writes' = writes + 1
    /\ UNCHANGED <<seq, mem, readerVars>>

StoreOdd ==
    /\ wpc = "called"
    /\ seq' = (seq + 1) % SeqMod
    /\ wpc' = "open"
    /\ UNCHANGED <<mem, toStore, writes, readerVars>>

StoreField(f) ==
    /\ wpc = "open" \/ (~InOrder /\ wpc = "called")
    /\ f \in toStore
    /\ mem' = [mem EXCEPT ![f] = writes]
    /\ toStore' = toStore \ {f}
    /\ UNCHANGED <<seq, wpc, writes, readerVars>>

\* Mutant: the last store is relaxed and may overtake the fields.
StoreEvenRelaxed ==
    /\ wpc = "open"
    /\ seq' = (seq + 1) % SeqMod
    /\ wpc' = "idle"
    /\ toStore' = {}
    /\ UNCHANGED <<mem, writes, readerVars>>

StoreEven ==
    /\ wpc = "open" /\ toStore = {}
    /\ seq' = (seq + 1) % SeqMod
    /\ wpc' = "idle"
    /\ UNCHANGED <<mem, toStore, writes, readerVars>>

-----------------------------------------------------------------------------
(* shared_*_read, by the control thread on every tick and by the logger    *)
(* once a second.                                                          *)

ReadCall(r) ==
    /\ pc[r] = "idle"
    /\ pc' = [pc EXCEPT ![r] = "called"]
    /\ since' = [since EXCEPT ![r] = published]
    /\ UNCHANGED <<writerVars, s1, s2, toLoad, local, snap>>

\* Mutant: the reader waits for an even counter instead of failing.
LoadS1Spinning(r) ==
    /\ pc[r] = "called" /\ ~IsOdd(seq)
    /\ s1' = [s1 EXCEPT ![r] = seq]
    /\ toLoad' = [toLoad EXCEPT ![r] = Fields]
    /\ pc' = [pc EXCEPT ![r] = "load"]
    /\ UNCHANGED <<writerVars, s2, local, since, snap>>

\* if (s1 & 1) return 0;
LoadS1(r) ==
    /\ pc[r] = "called"
    /\ s1' = [s1 EXCEPT ![r] = seq]
    /\ toLoad' = [toLoad EXCEPT ![r] = Fields]
    /\ pc' = [pc EXCEPT ![r] = IF IsOdd(seq) THEN "idle" ELSE "load"]
    /\ UNCHANGED <<writerVars, s2, local, since, snap>>

LoadField(r, f) ==
    /\ pc[r] \in {"load", "check"} /\ f \in toLoad[r]
    /\ local' = [local EXCEPT ![r][f] = mem[f]]
    /\ toLoad' = [toLoad EXCEPT ![r] = @ \ {f}]
    /\ UNCHANGED <<writerVars, pc, s1, s2, since, snap>>

LoadS2(r) ==
    /\ pc[r] = "load"
    /\ InOrder => toLoad[r] = {}
    /\ s2' = [s2 EXCEPT ![r] = seq]
    /\ pc' = [pc EXCEPT ![r] = "check"]
    /\ UNCHANGED <<writerVars, s1, toLoad, local, since, snap>>

\* Mutant: s2 is only checked for being even, not compared with s1.
ReturnUnchecked(r) ==
    /\ pc[r] = "check" /\ toLoad[r] = {}
    /\ snap' = IF IsOdd(s2[r]) THEN snap ELSE [snap EXCEPT ![r] = local[r]]
    /\ pc' = [pc EXCEPT ![r] = "idle"]
    /\ UNCHANGED <<writerVars, s1, s2, toLoad, local, since>>

\* Mutant: a failing read clears the caller's variables.
ReturnClearing(r) ==
    /\ pc[r] = "check" /\ toLoad[r] = {}
    /\ snap' = [snap EXCEPT ![r] = IF s1[r] # s2[r] \/ IsOdd(s2[r])
                                   THEN Version(0) ELSE local[r]]
    /\ pc' = [pc EXCEPT ![r] = "idle"]
    /\ UNCHANGED <<writerVars, s1, s2, toLoad, local, since>>

\* if (s1 != s2 || (s2 & 1)) return 0;  otherwise copy out and return 1.
Return(r) ==
    /\ pc[r] = "check" /\ toLoad[r] = {}
    /\ snap' = IF s1[r] # s2[r] \/ IsOdd(s2[r])
               THEN snap ELSE [snap EXCEPT ![r] = local[r]]
    /\ pc' = [pc EXCEPT ![r] = "idle"]
    /\ UNCHANGED <<writerVars, s1, s2, toLoad, local, since>>

-----------------------------------------------------------------------------
Writer ==
    \/ WriteCall \/ StoreOdd \/ StoreEven
    \/ \E f \in Fields : StoreField(f)

Reading(r) ==
    \/ LoadS1(r) \/ LoadS2(r) \/ Return(r)
    \/ \E f \in Fields : LoadField(r, f)

Reader(r) == ReadCall(r) \/ Reading(r)

Next == Writer \/ \E r \in Readers : Reader(r)

\* A thread that entered shared_*_read keeps running; nothing is assumed of the
\* writer, which may be preempted or dead in the middle of a write.
Fairness == \A r \in Readers : WF_vars(Reading(r))

Spec == Init /\ [][Next]_vars
FairSpec == Spec /\ Fairness

-----------------------------------------------------------------------------
(* Properties.                                                             *)

TypeOK ==
    /\ seq \in 0..(SeqMod - 1)
    /\ mem \in [Fields -> 0..MaxWrites]
    /\ wpc \in {"idle", "called", "open"}
    /\ toStore \in SUBSET Fields
    /\ writes \in 0..MaxWrites
    /\ pc \in [Readers -> {"idle", "called", "load", "check"}]
    /\ s1 \in [Readers -> 0..(SeqMod - 1)]
    /\ s2 \in [Readers -> 0..(SeqMod - 1)]
    /\ toLoad \in [Readers -> SUBSET Fields]
    /\ local \in [Readers -> [Fields -> 0..MaxWrites]]
    /\ since \in [Readers -> 0..MaxWrites]
    /\ snap \in [Readers -> [Fields -> 0..MaxWrites]]

\* A read that returns 1 hands out the fields of one single write, never a
\* mixture of two (shared_enc_read / shared_imu_read, "seq counter snapshot").
NoTornSnapshot ==
    \A r \in Readers : \A f, g \in Fields : snap[r][f] = snap[r][g]

\* Whatever the memory order, a read that passes the two checks of seq has
\* every field at least as new as the version seq announced at s1: the release
\* store of s + 2 and the acquire load of s1 rule out older data.
AcceptedIsFresh ==
    \A r \in Readers :
        (pc[r] = "check" /\ toLoad[r] = {} /\ s1[r] = s2[r])
            => \A f \in Fields : 2 * local[r][f] >= s1[r] /\ local[r][f] >= since[r]

\* What the successful reads of a thread hand out never goes back to an older
\* write, field by field, also when the loads and stores are reordered: a time
\* stamp ts_ns once seen by shared_*_read is never followed by an earlier one.
SnapNeverOlder ==
    [][\A r \in Readers : \A f \in Fields : snap'[r][f] >= snap[r][f]]_vars

\* A call of shared_*_read always returns, even when the writer has stopped in
\* the middle of a write with an odd counter: it fails instead of spinning.
ReadReturns == \A r \in Readers : (pc[r] # "idle") ~> (pc[r] = "idle")

\* The abstract register, with the writes completed so far as its version.
Register == INSTANCE SnapshotRegister
            WITH calling <- [r \in Readers |-> pc[r] # "idle"]

\* Under program-order accesses the counter protocol implements the register:
\* a successful read returns one version current during the call.
ImplementsRegister == Register!Spec
=============================================================================
