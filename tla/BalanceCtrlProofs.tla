------------------------- MODULE BalanceCtrlProofs -------------------------
(***************************************************************************)
(* Proofs about BalanceCtrl, for every setting of kick and cool-down,      *)
(* every period, delay and run time, and any number of failing commands:   *)
(* kicks stay brief, a silent sensor thread stops the wheels, commands     *)
(* stay within umax_ppm, the loop ends, and the wheels are off at the end. *)
(***************************************************************************)
EXTENDS BalanceCtrl, TLAPS

\* The steps that leave the control thread alone, except for its creation.
Others == Tick \/ MainCreateSensor \/ MainCreateLogger \/ MainStop \/ MainJoin
              \/ LoggerStop \/ Sensor \/ Done

\* The steps of the control thread that decide nothing.
Passing == MainCreateCtrl \/ CtrlBind \/ CtrlOpen \/ CtrlHead \/ CtrlWake
              \/ \E k \in Blocks : CtrlRead(k)

Acts == ActStale \/ ActSpeed \/ ActBalance

\* The steps by kind.
LEMMA NextCases == Next => Others \/ Passing \/ Acts \/ CtrlExit
BY DEF Next, Main, Ctrl, Others, Passing, Acts

\* Everybody else keeps their hands off the control thread's state.
LEMMA OthersCtrl == Others => UNCHANGED ctrlVars
BY DEF Others, Tick, MainCreateSensor, MainCreateLogger, MainStop, MainJoin, LoggerStop,
       Sensor, SensorBind, SensorOpen, SensorHead, SensorReadImu, SensorInWrite, EndWrite,
       BeginWrite, Done, vars, ctrlVars, sensorVars, mainVars

\* Until it decides, a tick leaves kick, cool-down and motors as they were.
LEMMA PassingKeeps == Passing => UNCHANGED <<kick, cool, cmd, kicked, setOk>>
BY DEF Passing, MainCreateCtrl, CtrlBind, CtrlOpen, CtrlHead, CtrlWake, CtrlRead

-----------------------------------------------------------------------------
(* Kicks.                                                                  *)

\* While a kick lasts, the ticks done and the ticks left add up, and the
\* cool-down stays ahead of the kick by the same distance.
KickInv ==
    /\ kick \in Nat /\ cool \in Nat /\ kicked \in Nat
    /\ kick = 0 => kicked = 0
    /\ (KickTicks < CoolTicks /\ kick > 0) =>
          kicked + kick = KickTicks + 1 /\ cool - kick = CoolTicks - KickTicks

\* The configured ticks are natural numbers.
LEMMA TicksNat == KickTicks \in Nat /\ CoolTicks \in Nat
<1>1. TickMs \in Nat /\ TickMs > 0 /\ KickMs \in Nat /\ CoolMs \in Nat
  BY CtrlAssumption
<1>2. \A n \in Nat : CeilDiv(n, TickMs) \in Nat
  BY <1>1 DEF CeilDiv
<1> QED
  BY <1>1, <1>2 DEF KickTicks, CoolTicks

\* A balance tick counts kick and cool-down down together, and a new kick waits
\* for both to end.
LEMMA KickBalance == KickInv /\ ActBalance => KickInv'
<1> SUFFICES ASSUME KickInv, ActBalance PROVE KickInv'
  OBVIOUS
<1> DEFINE start == Dec(kick) <= 0 /\ Dec(cool) <= 0 /\ LowRpm
<1>1. /\ kick' = IF start THEN KickTicks ELSE Dec(kick)
      /\ cool' = IF start THEN CoolTicks ELSE Dec(cool)
      /\ kicked' = IF kick' > 0 THEN kicked + 1 ELSE 0
  BY DEF ActBalance, EndOfBody, KickTicks, CoolTicks
<1>2. CASE start
  <2>1. kick' = KickTicks /\ cool' = CoolTicks
    BY <1>1, <1>2
  <2>2. kick <= 1 /\ cool <= 1
    BY <1>2 DEF Dec, KickInv
  <2>3. KickTicks < CoolTicks => kick = 0
    BY <2>2, TicksNat DEF KickInv
  <2>4. KickTicks < CoolTicks => kicked = 0
    BY <2>3 DEF KickInv
  <2> HIDE DEF start
  <2> QED
    BY <1>1, <2>1, <2>4, TicksNat DEF KickInv
<1>3. CASE ~start
  <2>1. kick' = Dec(kick) /\ cool' = Dec(cool)
    BY <1>1, <1>3
  <2> HIDE DEF start
  <2> QED
    BY <1>1, <2>1, TicksNat DEF KickInv, Dec
<1> QED
  BY <1>2, <1>3

\* KickInv holds in every state.
LEMMA AlwaysKick == Spec => []KickInv
<1>1. Init => KickInv
  BY DEF Init, KickInv
<1>2. KickInv /\ [Next]_vars => KickInv'
  <2> SUFFICES ASSUME KickInv, [Next]_vars PROVE KickInv'
    OBVIOUS
  <2>1. CASE Others
    BY <2>1, OthersCtrl DEF ctrlVars, KickInv
  <2>2. CASE Passing
    BY <2>2, PassingKeeps DEF KickInv
  <2>3. CASE ActStale \/ ActSpeed
    <3>1. kick' = 0 /\ cool' = 0 /\ kicked' = IF kick' > 0 THEN kicked + 1 ELSE 0
      BY <2>3 DEF ActStale, ActSpeed, EndOfBody
    <3> QED
      BY <3>1 DEF KickInv
  <2>4. CASE ActBalance
    BY <2>4, KickBalance
  <2>5. CASE CtrlExit
    BY <2>5 DEF CtrlExit, KickInv
  <2>6. CASE UNCHANGED vars
    BY <2>6 DEF vars, KickInv
  <2> QED
    BY <2>1, <2>2, <2>3, <2>4, <2>5, <2>6, NextCases DEF Acts
<1> QED
  BY <1>1, <1>2, PTL DEF Spec

\* A kick lasts at most the ticks that kick_ms stands for, whatever stale ticks and
\* resets come in between, if the cool-down is longer than the kick.
THEOREM BriefKick == Spec => []KickIsBrief
<1>1. KickInv => KickIsBrief
  BY TicksNat DEF KickInv, KickIsBrief
<1> QED
  BY <1>1, AlwaysKick, PTL

-----------------------------------------------------------------------------
(* The end of a run.                                                       *)

Creating == {"mkSensor", "mkLogger", "mkCtrl"}

\* The wheels rest until the loop is entered and after it was left; main returns
\* only when the control thread has returned or was never created.
StopInv ==
    /\ cpc \in {"unborn", "bind", "open"} => cmd = AtRest
    /\ (cpc = "returned" /\ setOk) => cmd = AtRest
    /\ mpc \in Creating => cpc = "unborn"
    /\ mpc = "exited" => cpc \in {"unborn", "returned"}

\* What SetMotors(Still) leaves when it succeeds.
LEMMA SetStill == SetMotors(Still) => (setOk' => cmd' = AtRest)
BY DEF SetMotors, Still, AtRest

\* StopInv holds in every state.
LEMMA AlwaysStop == Spec => []StopInv
<1>1. Init => StopInv
  BY DEF Init, StopInv, Creating
<1>2. StopInv /\ [Next]_vars => StopInv'
  <2> SUFFICES ASSUME StopInv, [Next]_vars PROVE StopInv'
    OBVIOUS
  <2> USE DEF StopInv, Creating
  <2>1. CASE Others
    <3>1. UNCHANGED <<cpc, cmd, setOk>>
      BY <2>1, OthersCtrl DEF ctrlVars
    <3>2. mpc' = mpc \/ mpc' \in {"mkLogger", "mkCtrl", "exited", "join", "aborted"}
      BY <2>1 DEF Others, Tick, MainCreateSensor, MainCreateLogger, MainStop, MainJoin,
           LoggerStop, Sensor, SensorBind, SensorOpen, SensorHead, SensorReadImu,
           SensorInWrite, EndWrite, BeginWrite, Done, vars, mainVars, Unless
    <3>3. mpc' # mpc /\ mpc' \in {"mkLogger", "mkCtrl"} => cpc = "unborn"
      BY <2>1 DEF Others, Tick, MainCreateSensor, MainCreateLogger, MainStop, MainJoin,
           LoggerStop, Sensor, SensorBind, SensorOpen, SensorHead, SensorReadImu,
           SensorInWrite, EndWrite, BeginWrite, Done, vars, mainVars, Unless
    <3>4. mpc' # mpc /\ mpc' = "exited" => cpc \in {"unborn", "returned"}
      BY <2>1 DEF Others, Tick, MainCreateSensor, MainCreateLogger, MainStop, MainJoin,
           LoggerStop, Sensor, SensorBind, SensorOpen, SensorHead, SensorReadImu,
           SensorInWrite, EndWrite, BeginWrite, Done, vars, mainVars, Unless
    <3> QED
      BY <3>1, <3>2, <3>3, <3>4
  <2>2. CASE Passing
    <3>1. UNCHANGED <<cmd, setOk>>
      BY <2>2, PassingKeeps
    <3>2. CASE MainCreateCtrl
      BY <3>1, <3>2 DEF MainCreateCtrl, Unless
    <3>3. CASE CtrlBind
      BY <3>1, <3>3 DEF CtrlBind, Unless, Alive
    <3>4. CASE CtrlOpen
      BY <3>1, <3>4 DEF CtrlOpen, Unless, Alive, mainVars
    <3>5. CASE CtrlHead \/ CtrlWake \/ \E k \in Blocks : CtrlRead(k)
      <4>1. cpc' \in {"exit", "sleep", "encL", "encR", "imu", "act"}
        BY <3>5 DEF CtrlHead, CtrlWake, CtrlRead, Blocks
      <4>2. mpc' = mpc /\ cpc # "unborn" /\ mpc # "exited"
        BY <3>5 DEF CtrlHead, CtrlWake, CtrlRead, Blocks, Alive, mainVars
      <4> QED
        BY <3>1, <4>1, <4>2
    <3> QED
      BY <2>2, <3>2, <3>3, <3>4, <3>5 DEF Passing
  <2>3. CASE Acts
    <3>1. cpc' \in {"head", "exit"} /\ cpc = "act" /\ mpc' = mpc /\ mpc # "exited"
      BY <2>3 DEF Acts, ActStale, ActSpeed, ActBalance, EndOfTick, Alive, mainVars
    <3> QED
      BY <3>1
  <2>4. CASE CtrlExit
    <3>1. cpc' = "returned" /\ cpc = "exit" /\ mpc' = mpc /\ (setOk' => cmd' = AtRest)
      BY <2>4, SetStill DEF CtrlExit, mainVars
    <3> QED
      BY <3>1
  <2>5. CASE UNCHANGED vars
    BY <2>5 DEF vars
  <2> QED
    BY <2>1, <2>2, <2>3, <2>4, <2>5, NextCases
<1> QED
  BY <1>1, <1>2, PTL DEF Spec

\* Once the control thread or main has returned, the wheels have been told to
\* stop, unless that last command failed.
THEOREM StopsAtEnd == Spec => []StoppedAtEnd
<1>1. StopInv => StoppedAtEnd
  BY DEF StopInv, StoppedAtEnd
<1> QED
  BY <1>1, AlwaysStop, PTL

-----------------------------------------------------------------------------
(* The loop ends in time.                                                  *)

Woken == {"encL", "encR", "imu", "act"}

\* next_ns is never more than a period ahead and never left behind by more than
\* MaxLate; the last next_ns before stop is bounded by the time of stop.
TimeInv ==
    /\ now \in Nat /\ next \in Nat
    /\ mpc \in Creating => cpc = "unborn" /\ now = 1
    /\ mpc = "sleep" => now <= StopAt + MaxLate
    /\ InLoop => next <= now + Period /\ now <= next + MaxLate
    /\ cpc \in Woken => next <= now
    /\ (stop /\ cpc \in Woken \cup {"sleep"}) => next <= StopAt + MaxLate + Period

\* The times are natural numbers.
LEMMA Times == StopAt \in Nat /\ StopAt >= 1 /\ MaxLate \in Nat /\ Period \in Nat
BY CtrlAssumption DEF StopAt

\* Time is held back by the control thread and by main; nobody else moves it.
LEMMA TimeOthers == TimeInv /\ Others => TimeInv'
<1> SUFFICES ASSUME TimeInv, Others PROVE TimeInv'
  OBVIOUS
<1> USE Times DEF TimeInv, Creating, Woken, InLoop
<1>1. UNCHANGED <<cpc, next>>
  BY OthersCtrl DEF ctrlVars
<1>2. CASE Tick
  <2>1. now' = now + 1 /\ stop' = stop /\ mpc' = mpc /\ (mpc = "sleep" \/ InLoop)
    BY <1>2 DEF Tick, mainVars
  <2>2. (InLoop => now < next + MaxLate) /\ (mpc = "sleep" => now < StopAt + MaxLate)
    BY <1>2 DEF Tick
  <2> QED
    BY <1>1, <2>1, <2>2
<1>3. CASE MainCreateSensor \/ MainCreateLogger
  <2>1. now' = now /\ stop' = stop /\ cpc = "unborn" /\ now = 1
        /\ mpc' \in {"mkLogger", "mkCtrl", "exited"}
    BY <1>3 DEF MainCreateSensor, MainCreateLogger, Unless
  <2> QED
    BY <1>1, <2>1
<1>4. CASE MainStop
  <2>1. now' = now /\ mpc = "sleep" /\ mpc' = "join"
    BY <1>4 DEF MainStop
  <2>2. now <= StopAt + MaxLate
    BY <2>1
  <2>3. cpc \in Woken \cup {"sleep"} => next <= now + Period
    OBVIOUS
  <2>4. (cpc \in Woken \cup {"sleep"}) => next <= StopAt + MaxLate + Period
    BY <2>2, <2>3
  <2> QED
    BY <1>1, <2>1, <2>4
<1>5. CASE MainJoin \/ LoggerStop \/ Sensor \/ Done
  <2>1. now' = now /\ stop' = stop /\ (mpc' = mpc \/ mpc' \in {"exited", "aborted"})
    BY <1>5 DEF MainJoin, LoggerStop, Sensor, SensorBind, SensorOpen, SensorHead,
         SensorReadImu, SensorInWrite, EndWrite, BeginWrite, Done, vars, mainVars, Unless
  <2> QED
    BY <1>1, <2>1
<1> QED
  BY <1>2, <1>3, <1>4, <1>5 DEF Others

\* A tick begins at next_ns or later, and none begins after stop.
LEMMA TimePassing == TimeInv /\ Passing => TimeInv'
<1> SUFFICES ASSUME TimeInv, Passing PROVE TimeInv'
  OBVIOUS
<1> USE Times DEF TimeInv, Creating, Woken, InLoop
<1>1. CASE MainCreateCtrl
  <2>1. now' = now /\ next' = next /\ now = 1 /\ cpc = "unborn" /\ cpc' \in {"unborn", "bind"}
        /\ mpc' \in {"sleep", "exited"}
    BY <1>1 DEF MainCreateCtrl, Unless
  <2> QED
    BY <2>1
<1>2. CASE CtrlBind
  <2>1. now' = now /\ next' = next /\ cpc' = "open" /\ cpc = "bind"
        /\ (mpc' = mpc \/ mpc' = "aborted")
    BY <1>2 DEF CtrlBind, Unless
  <2> QED
    BY <2>1
<1>3. CASE CtrlOpen
  <2>1. now' = now /\ next' = now + Period /\ cpc' \in {"head", "returned"} /\ cpc = "open"
        /\ mpc' = mpc
    BY <1>3 DEF CtrlOpen, Unless, mainVars
  <2> QED
    BY <2>1
<1>4. CASE CtrlHead
  <2>1. now' = now /\ next' = next /\ cpc = "head" /\ mpc' = mpc /\ stop' = stop
    BY <1>4 DEF CtrlHead, mainVars
  <2>2. cpc' \in {"exit", "sleep"} /\ (stop => cpc' = "exit")
    BY <1>4 DEF CtrlHead
  <2> QED
    BY <2>1, <2>2
<1>5. CASE CtrlWake
  <2>1. now' = now /\ next' = next /\ cpc = "sleep" /\ cpc' = "encL" /\ mpc' = mpc
        /\ stop' = stop /\ now >= next
    BY <1>5 DEF CtrlWake, mainVars
  <2> QED
    BY <2>1
<1>6. CASE \E k \in Blocks : CtrlRead(k)
  <2>1. now' = now /\ next' = next /\ cpc \in Woken /\ cpc' \in Woken /\ mpc' = mpc
        /\ stop' = stop
    BY <1>6 DEF CtrlRead, Blocks, mainVars
  <2> QED
    BY <2>1
<1> QED
  BY <1>1, <1>2, <1>3, <1>4, <1>5, <1>6 DEF Passing

\* At the end of a tick next_ns moves on by a period, from itself or from now.
LEMMA TimeActs == TimeInv /\ Acts => TimeInv'
<1> SUFFICES ASSUME TimeInv, Acts PROVE TimeInv'
  OBVIOUS
<1> USE Times DEF TimeInv, Creating, Woken, InLoop
<1>1. now' = now /\ mpc' = mpc /\ cpc = "act" /\ cpc' \in {"head", "exit"}
  BY DEF Acts, ActStale, ActSpeed, ActBalance, EndOfTick, mainVars
<1>2. next' \in {next + Period, now + Period, next}
  BY DEF Acts, ActStale, ActSpeed, ActBalance, EndOfTick
<1>3. cpc' = "head" => next' \in {next + Period, now + Period}
  BY DEF Acts, ActStale, ActSpeed, ActBalance, EndOfTick
<1>4. now \in Nat /\ next \in Nat /\ next <= now /\ now <= next + MaxLate
  BY <1>1
<1>5. next' \in Nat
  BY <1>2, <1>4
<1>6. cpc' = "head" => next' <= now' + Period /\ now' <= next' + MaxLate
  BY <1>1, <1>3, <1>4
<1>7. mpc \notin Creating
  BY <1>1
<1>8. InLoop' => cpc' = "head"
  BY <1>1
<1> QED
  BY <1>1, <1>5, <1>6, <1>7, <1>8

\* TimeInv holds in every state.
LEMMA AlwaysTime == Spec => []TimeInv
<1>1. Init => TimeInv
  BY DEF Init, TimeInv, Creating, Woken, InLoop
<1>2. TimeInv /\ [Next]_vars => TimeInv'
  <2> SUFFICES ASSUME TimeInv, [Next]_vars PROVE TimeInv'
    OBVIOUS
  <2>1. CASE CtrlExit
    BY <2>1 DEF CtrlExit, TimeInv, Creating, Woken, InLoop, mainVars
  <2>2. CASE UNCHANGED vars
    BY <2>2 DEF vars, TimeInv, InLoop
  <2> QED
    BY <2>1, <2>2, TimeOthers, TimePassing, TimeActs, NextCases
<1> QED
  BY <1>1, <1>2, PTL DEF Spec

\* The control loop makes its last tick within a period of stop, late wake-ups
\* included, also if every tick is stale.
THEOREM LoopEnds == Spec => []EndsInTime
<1>1. TimeInv => EndsInTime
  <2> SUFFICES ASSUME TimeInv, stop, cpc \in Woken \cup {"sleep"}
               PROVE now <= StopAt + Period + 2 * MaxLate
    BY Times DEF EndsInTime, InLoop, Woken, TimeInv
  <2>1. now <= next + MaxLate /\ next <= StopAt + MaxLate + Period
    BY DEF TimeInv, InLoop, Woken
  <2> QED
    BY <2>1, Times DEF TimeInv
<1> QED
  BY <1>1, AlwaysTime, PTL

-----------------------------------------------------------------------------
(* A silent sensor stops the wheels.                                       *)

\* The records that the tick has already read.
Past(k) == cpc = "act" \/ (k # "imu" /\ cpc = "imu") \/ (k = "encL" /\ cpc = "encR")

\* A record is stamped when its write begins, before it is published.
RecInv ==
    /\ now \in Nat /\ now > 0 /\ pendingTs \in Nat
    /\ writing # "none" => pendingTs > 0 /\ pendingTs <= now
    /\ \A k \in Blocks :
         /\ publishedAt[k] \in Nat /\ publishedAt[k] <= now /\ shared[k].ts \in Nat
         /\ publishedAt[k] > 0 => shared[k].ts > 0 /\ shared[k].ts <= publishedAt[k]
    /\ publishedAt \in [Blocks -> Nat] /\ DOMAIN shared = Blocks

\* What a tick has read of a record that was last published before the tick began
\* is that publication, or nothing, if the sensor thread was inside the next write
\* and so still is.
ReadInv ==
    cpc \in Woken =>
        /\ nowC \in Nat /\ next <= nowC /\ nowC <= now /\ DOMAIN rd = Blocks
        /\ \A k \in Blocks :
             /\ rd[k].ts \in Nat
             /\ (Past(k) /\ publishedAt[k] > 0 /\ nowC > publishedAt[k]) =>
                  writing = k \/ rd[k] = shared[k]

\* How far next_ns may run ahead of a tick that was not stale.
Realigned == IF MaxLate > 2 * Period THEN MaxLate ELSE 0

\* Wheels that are driven were driven by a tick at which the record was not stale.
SilentInv ==
    \A k \in Blocks :
        (/\ Watched(k) /\ setOk /\ InLoop /\ publishedAt[k] > 0 /\ cmd # AtRest /\ writing # k)
            => next <= publishedAt[k] + Lifetime(k) + Period + Realigned

\* The sensor thread publishes and nobody else does.
NoWrite == UNCHANGED <<shared, writing, pendingTs, publishedAt>>

\* Only the sensor thread changes a record.
LEMMA WritesOnly ==
    ASSUME [Next]_vars
    PROVE  \/ NoWrite
           \/ \E k \in Blocks : BeginWrite(k)
           \/ \E k \in Blocks : EndWrite(k)
BY DEF Next, Main, Ctrl, Tick, MainCreateSensor, MainCreateLogger, MainCreateCtrl, MainStop,
       MainJoin, LoggerStop, Sensor, SensorBind, SensorOpen, SensorHead, SensorReadImu,
       SensorInWrite, CtrlBind, CtrlOpen, CtrlHead, CtrlWake, CtrlRead, ActStale, ActSpeed,
       ActBalance, CtrlExit, Done, vars, sensorVars, NoWrite

\* Only the clock changes the time, by one.
LEMMA TimeMoves ==
    ASSUME [Next]_vars
    PROVE  (now' = now \/ (Tick /\ now' = now + 1)) /\ mode' = mode
BY DEF Next, Main, Ctrl, Tick, MainCreateSensor, MainCreateLogger, MainCreateCtrl, MainStop,
       MainJoin, LoggerStop, Sensor, SensorBind, SensorOpen, SensorHead, SensorReadImu,
       SensorInWrite, EndWrite, BeginWrite, CtrlBind, CtrlOpen, CtrlHead, CtrlWake, CtrlRead,
       ActStale, ActSpeed, ActBalance, CtrlExit, Done, vars, mainVars

\* What the end of a write publishes: its own time stamp.
LEMMA Publishes ==
    ASSUME NEW k \in Blocks, EndWrite(k), DOMAIN shared = Blocks, publishedAt \in [Blocks -> Nat]
    PROVE  /\ writing = k /\ writing' = "none" /\ now' = now /\ pendingTs' = 0
           /\ publishedAt' = [publishedAt EXCEPT ![k] = now]
           /\ DOMAIN shared' = Blocks /\ shared'[k].ts = pendingTs
           /\ \A j \in Blocks \ {k} : shared'[j] = shared[j]
<1>1. PICK v \in (IF first THEN {[Zero EXCEPT !.ts = pendingTs]} ELSE Record(k, pendingTs)) :
        shared' = [shared EXCEPT ![k] = v]
  BY DEF EndWrite
<1>2. v.ts = pendingTs
  BY <1>1 DEF Record, Zero
<1> QED
  BY <1>1, <1>2 DEF EndWrite

\* RecInv holds in every state.
LEMMA AlwaysRec == Spec => []RecInv
<1>1. Init => RecInv
  BY DEF Init, RecInv, Zero
<1>2. RecInv /\ [Next]_vars => RecInv'
  <2> SUFFICES ASSUME RecInv, [Next]_vars PROVE RecInv'
    OBVIOUS
  <2>1. now' \in Nat /\ now' > 0 /\ now' >= now
    BY TimeMoves DEF RecInv
  <2>2. CASE NoWrite
    BY <2>1, <2>2 DEF RecInv, NoWrite
  <2>3. ASSUME NEW k \in Blocks, BeginWrite(k) PROVE RecInv'
    BY <2>1, <2>3 DEF BeginWrite, RecInv
  <2>4. ASSUME NEW k \in Blocks, EndWrite(k) PROVE RecInv'
    <3>1. /\ writing = k /\ writing' = "none" /\ now' = now /\ pendingTs' = 0
          /\ publishedAt' = [publishedAt EXCEPT ![k] = now]
          /\ DOMAIN shared' = Blocks /\ shared'[k].ts = pendingTs
          /\ \A j \in Blocks \ {k} : shared'[j] = shared[j]
      BY <2>4, Publishes DEF RecInv
    <3>2. pendingTs > 0 /\ pendingTs <= now
      BY <3>1 DEF RecInv, Blocks
    <3> QED
      BY <2>1, <3>1, <3>2 DEF RecInv
  <2> QED
    BY <2>2, <2>3, <2>4, WritesOnly
<1> QED
  BY <1>1, <1>2, PTL DEF Spec

\* A step of the control thread that reads record k, or one that reads none.
LEMMA ReadsOne ==
    ASSUME NEW k \in Blocks, CtrlRead(k)
    PROVE  /\ cpc = k /\ rd' = [rd EXCEPT ![k] = IF writing = k THEN Zero ELSE shared[k]]
           /\ cpc' \in Woken /\ cpc' # "encL"
           /\ \A j \in Blocks : Past(j)' <=> Past(j) \/ j = k
           /\ UNCHANGED <<nowC, next, now, mpc, cmd, setOk>> /\ NoWrite
<1>1. /\ cpc = k /\ rd' = [rd EXCEPT ![k] = IF writing = k THEN Zero ELSE shared[k]]
      /\ UNCHANGED <<nowC, next, now, mpc, cmd, setOk>> /\ NoWrite
  BY DEF CtrlRead, mainVars, sensorVars, NoWrite
<1>2. \/ k = "encL" /\ cpc' = "encR"
      \/ k = "encR" /\ cpc' = "imu"
      \/ k = "imu" /\ cpc' = "act"
  BY DEF CtrlRead, Blocks
<1> QED
  BY <1>1, <1>2 DEF Past, Woken, Blocks

\* In the middle of a tick the control thread only reads.
LEMMA TickSteps ==
    ASSUME [Next]_vars, cpc' \in Woken
    PROVE  \/ CtrlWake
           \/ \E k \in Blocks : CtrlRead(k)
           \/ UNCHANGED <<cpc, nowC, rd, next>>
<1>1. CASE Others
  BY <1>1, OthersCtrl DEF ctrlVars
<1>2. CASE Acts \/ CtrlExit
  BY <1>2 DEF Acts, ActStale, ActSpeed, ActBalance, CtrlExit, EndOfTick, Woken
<1>3. CASE Passing
  <2>1. CASE MainCreateCtrl
    BY <2>1 DEF MainCreateCtrl, Woken
  <2>2. CASE CtrlBind \/ CtrlOpen \/ CtrlHead
    BY <2>2 DEF CtrlBind, CtrlOpen, CtrlHead, Woken, Unless
  <2> QED
    BY <1>3, <2>1, <2>2 DEF Passing
<1>4. CASE UNCHANGED vars
  BY <1>4 DEF vars
<1> QED
  BY <1>1, <1>2, <1>3, <1>4, NextCases

\* Every step keeps ReadInv.
LEMMA ReadStep == TimeInv /\ RecInv /\ RecInv' /\ ReadInv /\ [Next]_vars => ReadInv'
<1> SUFFICES ASSUME TimeInv, RecInv, RecInv', ReadInv, [Next]_vars, cpc' \in Woken
             PROVE  /\ nowC' \in Nat /\ next' <= nowC' /\ nowC' <= now' /\ DOMAIN rd' = Blocks
                    /\ \A k \in Blocks :
                         /\ rd'[k].ts \in Nat
                         /\ (Past(k)' /\ publishedAt'[k] > 0 /\ nowC' > publishedAt'[k]) =>
                              writing' = k \/ rd'[k] = shared'[k]
  BY DEF ReadInv
<1>1. CASE CtrlWake
  <2>1. /\ cpc' = "encL" /\ nowC' = now /\ now' = now /\ next' = next /\ now >= next
        /\ rd' = [k \in Blocks |-> Zero]
    BY <1>1 DEF CtrlWake
  <2>2. \A k \in Blocks : ~Past(k)' /\ rd'[k].ts = 0
    BY <2>1 DEF Past, Zero
  <2> QED
    BY <2>1, <2>2 DEF RecInv, TimeInv
<1>2. ASSUME NEW k \in Blocks, CtrlRead(k)
      PROVE  /\ nowC' \in Nat /\ next' <= nowC' /\ nowC' <= now' /\ DOMAIN rd' = Blocks
             /\ \A j \in Blocks :
                  /\ rd'[j].ts \in Nat
                  /\ (Past(j)' /\ publishedAt'[j] > 0 /\ nowC' > publishedAt'[j]) =>
                       writing' = j \/ rd'[j] = shared'[j]
  <2>1. /\ cpc = k /\ rd' = [rd EXCEPT ![k] = IF writing = k THEN Zero ELSE shared[k]]
        /\ \A j \in Blocks : Past(j)' <=> Past(j) \/ j = k
        /\ UNCHANGED <<nowC, next, now, writing, publishedAt, shared>>
    BY <1>2, ReadsOne DEF NoWrite
  <2>2. cpc \in Woken
    BY <2>1 DEF Woken, Blocks
  <2>3. /\ nowC \in Nat /\ next <= nowC /\ nowC <= now /\ DOMAIN rd = Blocks
        /\ \A j \in Blocks :
             /\ rd[j].ts \in Nat
             /\ (Past(j) /\ publishedAt[j] > 0 /\ nowC > publishedAt[j]) =>
                  writing = j \/ rd[j] = shared[j]
    BY <2>2 DEF ReadInv
  <2>4. DOMAIN rd' = Blocks /\ \A j \in Blocks \ {k} : rd'[j] = rd[j]
    BY <2>1, <2>3
  <2>5. rd'[k] = IF writing = k THEN Zero ELSE shared[k]
    BY <2>1, <2>3
  <2>6. rd'[k].ts \in Nat
    BY <2>5 DEF RecInv, Zero
  <2>7. (publishedAt[k] > 0 /\ writing # k) => rd'[k] = shared[k]
    BY <2>5 DEF RecInv
  <2>8. ASSUME NEW j \in Blocks
        PROVE  /\ rd'[j].ts \in Nat
               /\ (Past(j)' /\ publishedAt'[j] > 0 /\ nowC' > publishedAt'[j]) =>
                       writing' = j \/ rd'[j] = shared'[j]
    <3>1. CASE j = k
      BY <3>1, <2>1, <2>6, <2>7
    <3>2. CASE j # k
      BY <3>2, <2>1, <2>3, <2>4
    <3> QED
      BY <3>1, <3>2
  <2> QED
    BY <2>1, <2>3, <2>4, <2>8
<1>3. CASE UNCHANGED <<cpc, nowC, rd, next>>
  <2>1. /\ nowC \in Nat /\ next <= nowC /\ nowC <= now /\ DOMAIN rd = Blocks
        /\ \A j \in Blocks :
             /\ rd[j].ts \in Nat
             /\ (Past(j) /\ publishedAt[j] > 0 /\ nowC > publishedAt[j]) =>
                  writing = j \/ rd[j] = shared[j]
    BY <1>3 DEF ReadInv
  <2>2. now' >= now /\ now' \in Nat /\ now \in Nat /\ \A j \in Blocks : Past(j)' = Past(j)
    BY <1>3, TimeMoves DEF RecInv, Past
  <2>3. nowC' \in Nat /\ next' <= nowC' /\ nowC' <= now' /\ DOMAIN rd' = Blocks
    BY <1>3, <2>1, <2>2 DEF TimeInv
  <2>4. CASE NoWrite
    BY <1>3, <2>1, <2>2, <2>3, <2>4 DEF NoWrite
  <2>5. ASSUME NEW k \in Blocks, BeginWrite(k)
        PROVE  writing = "none" /\ UNCHANGED <<publishedAt, shared>>
    BY <2>5 DEF BeginWrite
  <2>6. CASE \E k \in Blocks : BeginWrite(k)
    <3>1. writing = "none" /\ UNCHANGED <<publishedAt, shared>> /\ "none" \notin Blocks
      BY <2>5, <2>6 DEF Blocks
    <3> QED
      BY <1>3, <2>1, <2>2, <2>3, <3>1
  <2>7. ASSUME NEW k \in Blocks, EndWrite(k), NEW j \in Blocks,
               Past(j)', publishedAt'[j] > 0, nowC' > publishedAt'[j]
        PROVE  rd'[j] = shared'[j]
    <3>1. writing = k /\ now' = now /\ publishedAt' = [publishedAt EXCEPT ![k] = now]
      BY <2>7, Publishes DEF RecInv
    <3>2. j # k
      BY <1>3, <2>1, <2>2, <2>7, <3>1 DEF RecInv
    <3>3. publishedAt'[j] = publishedAt[j] /\ writing # j /\ shared'[j] = shared[j]
      BY <2>7, <3>1, <3>2, Publishes DEF RecInv
    <3> QED
      BY <1>3, <2>1, <2>2, <2>7, <3>3
  <2>8. CASE \E k \in Blocks : EndWrite(k)
    BY <1>3, <2>1, <2>3, <2>7, <2>8
  <2> QED
    BY <2>4, <2>6, <2>8, WritesOnly
<1> QED
  BY <1>1, <1>2, <1>3, TickSteps

\* ReadInv holds in every state.
LEMMA AlwaysRead == Spec => []ReadInv
<1>1. Init => ReadInv
  BY DEF Init, ReadInv, Woken
<1> QED
  BY <1>1, ReadStep, AlwaysTime, AlwaysRec, PTL DEF Spec

\* The age of a record that a balance tick has read and not found stale.
LEMMA NotStale ==
    ASSUME RecInv, ReadInv, cpc = "act", ~IsStale, NEW k \in Blocks, Watched(k),
           publishedAt[k] > 0, writing # k
    PROVE  nowC <= publishedAt[k] + Lifetime(k)
<1>1. /\ nowC \in Nat /\ rd[k].ts \in Nat /\ publishedAt[k] \in Nat /\ Stale \in Nat
      /\ nowC > publishedAt[k] => rd[k] = shared[k]
      /\ shared[k].ts > 0 /\ shared[k].ts <= publishedAt[k]
  BY CtrlAssumption DEF RecInv, ReadInv, Woken, Past
<1>2. ~(Age(k) > Stale) /\ (k = "imu" => ~rd[k].fallen)
  BY DEF IsStale, Blocks, Watched
<1>3. SUFFICES ASSUME nowC > publishedAt[k] PROVE nowC <= publishedAt[k] + Lifetime(k)
  BY <1>1 DEF Lifetime
<1>4. rd[k].ts = shared[k].ts /\ Lifetime(k) = Stale
  BY <1>1, <1>2, <1>3 DEF Lifetime
<1>5. Age(k) = nowC - rd[k].ts
  BY <1>1, <1>3, <1>4 DEF Age
<1> QED
  BY <1>1, <1>2, <1>3, <1>4, <1>5

\* Every tick but a balance tick leaves the wheels off, and a balance tick drives
\* them only on records that are fresh enough.
LEMMA SilentActs ==
    ASSUME TimeInv, RecInv, ReadInv, SilentInv, Acts
    PROVE  SilentInv'
<1> USE Times
<1>1. CASE ActStale
  BY <1>1, SetStill DEF ActStale, SilentInv, AtRest
<1>2. CASE ActSpeed
  BY <1>2, SetStill DEF ActSpeed, SilentInv, AtRest
<1>3. CASE ActBalance
  <2>1. /\ cpc = "act" /\ mode' = mode /\ ~IsStale /\ now' = now
        /\ UNCHANGED <<publishedAt, writing, shared>>
        /\ cpc' \in {"head", "exit"}
    BY <1>3 DEF ActBalance, EndOfTick, sensorVars, mainVars
  <2>2. cpc' = "head" => next' = IF now > next + 2 * Period THEN now + Period ELSE next + Period
    BY <1>3 DEF ActBalance, EndOfTick
  <2>3. /\ next \in Nat /\ now \in Nat /\ nowC \in Nat /\ next <= nowC /\ now <= next + MaxLate
    BY <2>1 DEF TimeInv, ReadInv, Woken, InLoop
  <2>4. ASSUME NEW k \in Blocks, Watched(k)', InLoop', publishedAt'[k] > 0, writing' # k
        PROVE  next' <= publishedAt'[k] + Lifetime(k)' + Period + Realigned
    <3>1. cpc' = "head"
      BY <2>1, <2>4 DEF InLoop
    <3>2. nowC <= publishedAt[k] + Lifetime(k) /\ publishedAt[k] \in Nat
      <4>1. Watched(k)
        BY <2>1, <2>4 DEF Watched
      <4> QED
        BY <2>1, <2>4, <4>1, NotStale DEF RecInv
    <3>5. Lifetime(k) \in Nat /\ Lifetime(k)' = Lifetime(k)
      BY <2>1, CtrlAssumption DEF Lifetime
    <3>3. next' <= next + Period + Realigned
      BY <2>2, <2>3, <3>1 DEF Realigned
    <3>4. Realigned \in Nat /\ next' \in Nat
      BY <2>2, <2>3, <3>1 DEF Realigned
    <3> QED
      BY <2>1, <2>3, <3>2, <3>3, <3>4, <3>5
  <2> QED
    BY <2>4 DEF SilentInv, Realigned
<1> QED
  BY <1>1, <1>2, <1>3 DEF Acts

\* The steps of everybody else: a publication can only allow more.
LEMMA SilentRest ==
    ASSUME TimeInv, TimeInv', RecInv, SilentInv, [Next]_vars,
           UNCHANGED <<cmd, setOk, next>>, InLoop' => InLoop
    PROVE  SilentInv'
<1> USE Times
<1>1. /\ mode' = mode /\ Realigned \in Nat /\ Realigned' = Realigned
      /\ \A k \in Blocks : Lifetime(k)' \in Nat
  BY TimeMoves, CtrlAssumption DEF Realigned, Lifetime
<1>2. ASSUME NEW k \in Blocks, Watched(k), setOk, InLoop', publishedAt'[k] > 0,
             cmd # AtRest, writing' # k
      PROVE  next <= publishedAt'[k] + Lifetime(k)' + Period + Realigned
  <2>1. CASE NoWrite
    BY <1>2, <2>1 DEF NoWrite, SilentInv, Lifetime
  <2>2. CASE \E j \in Blocks : BeginWrite(j)
    <3>1. writing = "none" /\ UNCHANGED <<publishedAt, shared>> /\ "none" \notin Blocks
      BY <2>2 DEF BeginWrite, Blocks
    <3> QED
      BY <1>2, <3>1 DEF SilentInv, Lifetime
  <2>3. ASSUME NEW j \in Blocks, EndWrite(j)
        PROVE  next <= publishedAt'[k] + Lifetime(k)' + Period + Realigned
    <3>1. writing = j /\ now' = now /\ publishedAt' = [publishedAt EXCEPT ![j] = now]
      BY <2>3, Publishes DEF RecInv
    <3>2. CASE j = k
      <4>1. publishedAt'[k] = now
        BY <3>1, <3>2 DEF RecInv
      <4>2. next <= now + Period /\ next \in Nat /\ now \in Nat
        BY <1>2 DEF TimeInv
      <4> QED
        BY <1>1, <4>1, <4>2
    <3>3. CASE j # k
      <4>1. publishedAt'[k] = publishedAt[k] /\ writing # k /\ shared'[k] = shared[k]
        BY <2>3, <3>1, <3>3, Publishes DEF RecInv
      <4> QED
        BY <1>2, <4>1 DEF SilentInv, Lifetime
    <3> QED
      BY <3>2, <3>3
  <2> QED
    BY <2>1, <2>2, <2>3, WritesOnly
<1>3. \A k \in Blocks : Watched(k)' => Watched(k)
  BY <1>1 DEF Watched
<1> QED
  BY <1>1, <1>2, <1>3 DEF SilentInv, AtRest, Turn, Direction

\* Every step keeps SilentInv.
LEMMA SilentStep ==
    TimeInv /\ TimeInv' /\ StopInv /\ RecInv /\ ReadInv /\ SilentInv /\ [Next]_vars => SilentInv'
<1> SUFFICES ASSUME TimeInv, TimeInv', StopInv, RecInv, ReadInv, SilentInv, [Next]_vars
             PROVE  SilentInv'
  OBVIOUS
<1>1. CASE Acts
  BY <1>1, SilentActs
<1>2. CASE CtrlExit
  BY <1>2 DEF CtrlExit, SilentInv, InLoop
<1>3. CASE CtrlOpen
  BY <1>3 DEF CtrlOpen, StopInv, SilentInv
<1>4. CASE Others \/ UNCHANGED vars
  <2>1. UNCHANGED <<cmd, setOk, next, cpc>>
    BY <1>4, OthersCtrl DEF ctrlVars, vars
  <2> QED
    BY <2>1, SilentRest DEF InLoop
<1>5. CASE Passing /\ ~CtrlOpen
  <2>1. UNCHANGED <<cmd, setOk>>
    BY <1>5, PassingKeeps
  <2>2. next' = next
    BY <1>5 DEF Passing, MainCreateCtrl, CtrlBind, CtrlHead, CtrlWake, CtrlRead
  <2>3. InLoop' => InLoop
    <3>1. CASE MainCreateCtrl \/ CtrlBind
      <4>1. cpc' \in {"bind", "open", cpc}
        BY <3>1 DEF MainCreateCtrl, CtrlBind
      <4> QED
        BY <4>1 DEF InLoop
    <3>2. CASE CtrlHead \/ CtrlWake \/ \E k \in Blocks : CtrlRead(k)
      <4>1. cpc \in {"head", "sleep", "encL", "encR", "imu"}
        BY <3>2 DEF CtrlHead, CtrlWake, CtrlRead, Blocks
      <4> QED
        BY <4>1 DEF InLoop
    <3> QED
      BY <1>5, <3>1, <3>2 DEF Passing
  <2> QED
    BY <2>1, <2>2, <2>3, SilentRest
<1> QED
  BY <1>1, <1>2, <1>3, <1>4, <1>5, NextCases

\* A sensor record that falls silent finds the wheels off one stale limit, one
\* period and the delays of the loop later, and the record of a fall one period and
\* those delays later, for every period, stale limit, delay and setting of the
\* controller.
THEOREM Silence == Spec => []SilenceStops
<1>1. Init => SilentInv
  BY DEF Init, SilentInv, InLoop
<1>2. TimeInv /\ RecInv /\ SilentInv => SilenceStops
  <2> SUFFICES ASSUME TimeInv, RecInv, SilentInv PROVE SilenceStops
    OBVIOUS
  <2>0. /\ now \in Nat /\ publishedAt \in [Blocks -> Nat]
        /\ Period \in Nat /\ MaxLate \in Nat /\ \A k \in Blocks : Lifetime(k) \in Nat
    BY CtrlAssumption DEF RecInv, Lifetime
  <2> SUFFICES ASSUME NEW k \in Blocks, Watched(k), setOk, InLoop,
                      publishedAt[k] > 0, cmd # AtRest, writing # k
               PROVE  now <= publishedAt[k] + Lifetime(k) + Period
                               + (IF MaxLate > 2 * Period THEN 2 * MaxLate ELSE MaxLate)
    BY <2>0 DEF SilenceStops
  <2>1. next <= publishedAt[k] + Lifetime(k) + Period + Realigned
    BY DEF SilentInv
  <2>2. now <= next + MaxLate /\ now \in Nat /\ next \in Nat /\ publishedAt[k] \in Nat
    BY DEF TimeInv, RecInv
  <2> QED
    BY <2>0, <2>1, <2>2, CtrlAssumption DEF Realigned
<1> QED
  BY <1>1, <1>2, SilentStep, AlwaysTime, AlwaysStop, AlwaysRec, AlwaysRead, PTL DEF Spec

-----------------------------------------------------------------------------
(* Types: every command is within umax_ppm.                                *)

\* Duties that umax_ppm allows.
Allowed == -Umax..Umax

\* Both ways of driving a wheel clamp.
LEMMA DriveType == \A w \in Wheels : Drive(w) \in Allowed /\ KickDrive(w) \in Allowed
<1> SUFFICES ASSUME NEW w \in Wheels PROVE Drive(w) \in Allowed /\ KickDrive(w) \in Allowed
  OBVIOUS
<1>1. Umax \in Nat /\ Bias[w] \in Nat /\ DeltaMax[w] \in Nat /\ KickPpm[w] \in Nat
  BY CtrlAssumption
<1>2. Sgn \in {1, -1} /\ Mag \in {0, 1}
  BY DEF Sgn, Mag
<1>3. \A x \in Int : Clamp(x, -Umax, Umax) \in Allowed
  BY <1>1 DEF Clamp, Allowed
<1>4. Sgn * Bias[w] + Sgn * Mag * DeltaMax[w] \in Int
  BY <1>1, <1>2
<1>5. Clamp(KickPpm[w], 0, Umax) \in 0..Umax
  BY <1>1 DEF Clamp
<1> QED
  BY <1>1, <1>2, <1>3, <1>4, <1>5 DEF Drive, KickDrive, Allowed

\* An allowed duty turns the wheel within umax_ppm.
LEMMA TurnType ==
    ASSUME NEW u \in Allowed
    PROVE  Turn(u) \in Command /\ Direction(u) \in {-1, 0, 1}
<1>1. Umax \in Nat /\ u \in Int /\ -Umax <= u /\ u <= Umax
  BY CtrlAssumption DEF Allowed
<1>2. Direction(u) \in {-1, 0, 1}
  BY DEF Direction
<1>3. (IF u < 0 THEN -u ELSE u) \in 0..Umax
  BY <1>1
<1> QED
  BY <1>2, <1>3 DEF Turn, Command

\* A command that fails leaves a mixture of the old one and the new one.
LEMMA SetType ==
    ASSUME cmd \in [Wheels -> Command], NEW u \in [Wheels -> Allowed], SetMotors(u)
    PROVE  cmd' \in [Wheels -> Command]
<1>1. \A w \in Wheels : Turn(u[w]) \in Command /\ Direction(u[w]) \in {-1, 0, 1}
  BY TurnType
<1>2. CASE cmd' = [w \in Wheels |-> Turn(u[w])]
  BY <1>1, <1>2
<1>3. \A c \in Command, d \in {-1, 0, 1} : [c EXCEPT !.dir = d] \in Command
  BY DEF Command
<1>4. CASE cmd' = [cmd EXCEPT !["L"].dir = Direction(u["L"])]
  BY <1>1, <1>3, <1>4 DEF Wheels
<1>5. CASE cmd' = [cmd EXCEPT !["L"] = Turn(u["L"]), !["R"].dir = Direction(u["R"])]
  BY <1>1, <1>3, <1>5 DEF Wheels
<1> QED
  BY <1>2, <1>4, <1>5 DEF SetMotors

\* Standing still is a command.
LEMMA StillType == Still \in [Wheels -> Allowed] /\ AtRest \in [Wheels -> Command]
<1>1. 0 \in Allowed
  BY CtrlAssumption DEF Allowed
<1> QED
  BY <1>1, TurnType DEF Still, AtRest

CmdInv == cmd \in [Wheels -> Command]

\* CmdInv holds in every state.
LEMMA AlwaysCmd == Spec => []CmdInv
<1>1. Init => CmdInv
  BY StillType DEF Init, CmdInv
<1>2. CmdInv /\ [Next]_vars => CmdInv'
  <2> SUFFICES ASSUME cmd \in [Wheels -> Command], [Next]_vars PROVE cmd' \in [Wheels -> Command]
    BY DEF CmdInv
  <2>1. CASE Others \/ Passing \/ UNCHANGED vars
    BY <2>1, OthersCtrl, PassingKeeps DEF ctrlVars, vars
  <2>2. CASE ActStale \/ ActSpeed \/ CtrlExit
    <3>1. SetMotors(Still)
      BY <2>2 DEF ActStale, ActSpeed, CtrlExit
    <3> QED
      BY <3>1, SetType, StillType
  <2>3. CASE ActBalance
    <3> DEFINE u == [w \in Wheels |-> IF kick' > 0 THEN KickDrive(w) ELSE Drive(w)]
    <3>1. SetMotors(u)
      BY <2>3 DEF ActBalance
    <3>2. u \in [Wheels -> Allowed]
      BY DriveType
    <3> HIDE DEF u
    <3> QED
      BY <3>1, <3>2, SetType
  <2> QED
    BY <2>1, <2>2, <2>3, NextCases DEF Acts
<1> QED
  BY <1>1, <1>2, PTL DEF Spec

\* Where the threads are.
Places ==
    /\ mpc \in {"mkSensor", "mkLogger", "mkCtrl", "sleep", "join", "exited", "aborted"}
    /\ lpc \in {"unborn", "run", "returned"}
    /\ spc \in {"unborn", "bind", "open", "head", "sleep", "readImu", "returned"} \cup Blocks
    /\ writing \in Blocks \cup {"none"}
    /\ cpc \in {"unborn", "bind", "open", "head", "sleep", "act", "exit", "returned"} \cup Blocks

Clocks == now \in 1..(MaxTime + 1) /\ nowC \in Nat /\ endAt \in Nat

Flags == stop \in BOOLEAN /\ first \in BOOLEAN

\* Flags holds in every state.
LEMMA AlwaysFlags == Spec => []Flags
<1>1. Init => Flags
  BY Zenon DEF Init, Flags
<1>2. Flags /\ [Next]_vars => Flags'
  <2> SUFFICES ASSUME Flags, [Next]_vars PROVE Flags'
    OBVIOUS
  <2>1. stop' = stop \/ stop' = TRUE
    BY DEF Next, Main, Ctrl, Tick, MainCreateSensor, MainCreateLogger, MainCreateCtrl, MainStop,
       MainJoin, LoggerStop, Sensor, SensorBind, SensorOpen, SensorHead, SensorReadImu,
       SensorInWrite, EndWrite, BeginWrite, CtrlBind, CtrlOpen, CtrlHead, CtrlWake, CtrlRead,
       ActStale, ActSpeed, ActBalance, CtrlExit, Done, vars, mainVars
  <2>2. first' = first \/ \E k \in Blocks : first' = (first /\ k # "imu")
    BY DEF Next, Main, Ctrl, Tick, MainCreateSensor, MainCreateLogger, MainCreateCtrl, MainStop,
       MainJoin, LoggerStop, Sensor, SensorBind, SensorOpen, SensorHead, SensorReadImu,
       SensorInWrite, EndWrite, BeginWrite, CtrlBind, CtrlOpen, CtrlHead, CtrlWake, CtrlRead,
       ActStale, ActSpeed, ActBalance, CtrlExit, Done, vars, sensorVars
  <2> QED
    BY <2>1, <2>2 DEF Flags
<1> QED
  BY <1>1, <1>2, PTL DEF Spec

\* Clocks holds in every state.
LEMMA AlwaysClocks == Spec => []Clocks
<1>1. Init => Clocks
  BY CtrlAssumption DEF Init, Clocks
<1>2. Clocks /\ [Next]_vars => Clocks'
  <2> SUFFICES ASSUME Clocks, [Next]_vars PROVE Clocks'
    OBVIOUS
  <2>1. now' = now \/ (now' = now + 1 /\ now < MaxTime)
    <3>1. CASE Tick
      BY <3>1 DEF Tick
    <3>2. CASE ~Tick
      BY <3>2, TimeMoves
    <3> QED
      BY <3>1, <3>2
  <2>2. nowC' \in {nowC, now, 0} /\ endAt' \in {endAt, now + RunTime}
    <3>1. CASE Others \/ UNCHANGED vars
      BY <3>1, OthersCtrl DEF ctrlVars, vars
    <3>2. CASE Passing
      BY <3>2 DEF Passing, MainCreateCtrl, CtrlBind, CtrlOpen, CtrlHead, CtrlWake, CtrlRead
    <3>3. CASE Acts \/ CtrlExit
      BY <3>3 DEF Acts, ActStale, ActSpeed, ActBalance, EndOfBody, CtrlExit
    <3> QED
      BY <3>1, <3>2, <3>3, NextCases
  <2> QED
    BY <2>1, <2>2, CtrlAssumption DEF Clocks
<1> QED
  BY <1>1, <1>2, PTL DEF Spec

\* The thread that a step of main belongs to, or that main creates.
LEMMA AlwaysPlaces == Spec => []Places
<1>1. Init => Places
  BY DEF Init, Places
<1>2. Places /\ [Next]_vars => Places'
  <2> SUFFICES ASSUME Places, [Next]_vars PROVE Places'
    OBVIOUS
  <2> USE DEF Places
  <2>1. CASE Tick \/ Done \/ UNCHANGED vars
    BY <2>1 DEF Tick, Done, vars, mainVars, sensorVars, ctrlVars
  <2>2. CASE MainCreateSensor \/ MainCreateLogger \/ MainCreateCtrl
    BY <2>2 DEF MainCreateSensor, MainCreateLogger, MainCreateCtrl, Unless, sensorVars, ctrlVars
  <2>3. CASE MainStop \/ MainJoin \/ LoggerStop
    BY <2>3 DEF MainStop, MainJoin, LoggerStop, mainVars, sensorVars, ctrlVars
  <2>4. CASE SensorBind \/ SensorOpen \/ SensorHead \/ SensorReadImu
    BY <2>4 DEF SensorBind, SensorOpen, SensorHead, SensorReadImu, Unless, mainVars, ctrlVars, Blocks
  <2>5. CASE \E k \in Blocks : BeginWrite(k)
    BY <2>5 DEF BeginWrite, mainVars, ctrlVars
  <2>6. ASSUME NEW k \in Blocks, EndWrite(k) PROVE Places'
    <3>1. writing' = "none" /\ UNCHANGED <<mpc, lpc, cpc>>
      BY <2>6 DEF EndWrite, mainVars, ctrlVars
    <3>2. spc' \in {"encR", "imu", "readImu", "head", "sleep"}
      BY <2>6 DEF EndWrite, Blocks
    <3> QED
      BY <3>1, <3>2 DEF Blocks
  <2>7. CASE CtrlBind \/ CtrlOpen \/ CtrlHead \/ CtrlWake
    BY <2>7 DEF CtrlBind, CtrlOpen, CtrlHead, CtrlWake, Unless, mainVars, sensorVars, Blocks
  <2>8. ASSUME NEW k \in Blocks, CtrlRead(k) PROVE Places'
    <3>1. UNCHANGED <<mpc, lpc, spc, writing>>
      BY <2>8 DEF CtrlRead, mainVars, sensorVars
    <3>2. cpc' \in {"encR", "imu", "act"}
      BY <2>8, ReadsOne DEF Woken
    <3> QED
      BY <3>1, <3>2 DEF Blocks
  <2>9. CASE ActStale \/ ActSpeed \/ ActBalance \/ CtrlExit
    BY <2>9 DEF ActStale, ActSpeed, ActBalance, CtrlExit, EndOfTick, mainVars, sensorVars
  <2> QED
    BY <2>1, <2>2, <2>3, <2>4, <2>5, <2>6, <2>7, <2>8, <2>9 DEF Next, Main, Sensor, SensorInWrite, Ctrl
<1> QED
  BY <1>1, <1>2, PTL DEF Spec

\* Whatever the tilt and the wheels' speeds, both wheels are told at most umax_ppm,
\* kicks and commands that fail half-way included, and the threads stay on their
\* ways.
THEOREM TypeCorrect == Spec => []TypeOK
<1>1. Places /\ Clocks /\ Flags /\ KickInv /\ TimeInv /\ CmdInv => TypeOK
  BY DEF CmdInv, Places, Clocks, Flags, KickInv, TimeInv, TypeOK
<1> QED
  BY <1>1, AlwaysPlaces, AlwaysClocks, AlwaysFlags, AlwaysKick, AlwaysTime, AlwaysCmd, PTL
=============================================================================
