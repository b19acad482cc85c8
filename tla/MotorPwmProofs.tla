--------------------------- MODULE MotorPwmProofs ---------------------------
(***************************************************************************)
(* Proofs about MotorPwm, for any period, any values callers pass, with or *)
(* without a standby pin and failing PWM writes; and about SpeedLoop, the  *)
(* daemons that command it, for every setting of controller, kick and      *)
(* limiter.                                                                *)
(***************************************************************************)
EXTENDS MotorPwm, SpeedLoop, SequenceTheorems, TLAPS

-----------------------------------------------------------------------------
(* The writes a list holds.                                                *)

Writes == [what : {"stby", "pin1", "pin2", "pwm"}, wheel : Wheels, val : Int]

Has(s, x) == \E i \in 1..Len(s) : s[i] = x

\* A concatenation holds what its parts hold.
LEMMA HasConcat ==
    ASSUME NEW s \in Seq(Writes), NEW t \in Seq(Writes)
    PROVE  /\ s \o t \in Seq(Writes) /\ Len(s \o t) = Len(s) + Len(t)
           /\ \A x : Has(s \o t, x) <=> Has(s, x) \/ Has(t, x)
<1>1. /\ s \o t \in Seq(Writes) /\ Len(s \o t) = Len(s) + Len(t)
      /\ Len(s) \in Nat /\ Len(t) \in Nat
      /\ \A i \in 1..(Len(s) + Len(t)) :
            (s \o t)[i] = IF i <= Len(s) THEN s[i] ELSE t[i - Len(s)]
  BY ConcatProperties, LenProperties
<1>2. ASSUME NEW x, Has(s \o t, x) PROVE Has(s, x) \/ Has(t, x)
  <2>1. PICK i \in 1..(Len(s) + Len(t)) : (s \o t)[i] = x
    BY <1>1, <1>2 DEF Has
  <2>2. CASE i <= Len(s)
    BY <1>1, <2>1, <2>2 DEF Has
  <2>3. CASE i > Len(s)
    BY <1>1, <2>1, <2>3, i - Len(s) \in 1..Len(t) DEF Has
  <2> QED BY <1>1, <2>2, <2>3
<1>3. ASSUME NEW x, Has(s, x) PROVE Has(s \o t, x)
  <2>1. PICK i \in 1..Len(s) : s[i] = x
    BY <1>3 DEF Has
  <2>2. i \in 1..(Len(s) + Len(t)) /\ (s \o t)[i] = x
    BY <1>1, <2>1
  <2> QED BY <1>1, <2>2 DEF Has
<1>4. ASSUME NEW x, Has(t, x) PROVE Has(s \o t, x)
  <2>1. PICK i \in 1..Len(t) : t[i] = x
    BY <1>4 DEF Has
  <2>2. i + Len(s) \in 1..(Len(s) + Len(t)) /\ (s \o t)[i + Len(s)] = x
    BY <1>1, <2>1, (i + Len(s)) - Len(s) = i
  <2> QED BY <1>1, <2>2 DEF Has
<1> QED BY <1>1, <1>2, <1>3, <1>4

\* Taking the first write off a list leaves the others.
LEMMA HasTail ==
    ASSUME NEW s \in Seq(Writes), s # << >>
    PROVE  /\ Head(s) \in Writes /\ Tail(s) \in Seq(Writes)
           /\ Len(Tail(s)) = Len(s) - 1 /\ Len(s) \in Nat
           /\ \A x : Has(s, x) <=> x = Head(s) \/ Has(Tail(s), x)
<1>1. /\ Head(s) \in Writes /\ Tail(s) \in Seq(Writes) /\ Len(Tail(s)) = Len(s) - 1
      /\ Len(s) \in Nat \ {0} /\ Head(s) = s[1]
      /\ \A i \in 1..(Len(s) - 1) : Tail(s)[i] = s[i + 1]
  BY HeadTailProperties, EmptySeq
<1>2. ASSUME NEW x, Has(s, x), x # Head(s) PROVE Has(Tail(s), x)
  <2>1. PICK i \in 1..Len(s) : s[i] = x
    BY <1>2 DEF Has
  <2>2. i - 1 \in 1..(Len(s) - 1) /\ Tail(s)[i - 1] = s[(i - 1) + 1] /\ (i - 1) + 1 = i
    BY <1>1, <1>2, <2>1
  <2> QED BY <1>1, <2>1, <2>2 DEF Has
<1>3. ASSUME NEW x, Has(Tail(s), x) PROVE Has(s, x)
  <2>1. PICK i \in 1..(Len(s) - 1) : Tail(s)[i] = x
    BY <1>1, <1>3 DEF Has
  <2>2. i + 1 \in 1..Len(s) /\ s[i + 1] = x
    BY <1>1, <2>1
  <2> QED BY <2>2 DEF Has
<1> QED BY <1>1, <1>2, <1>3 DEF Has

\* The empty list holds no write.
LEMMA HasNone == \A x : ~Has(<< >>, x)
BY EmptySeq DEF Has

\* Lists written out hold the writes they name.
LEMMA HasOne ==
    ASSUME NEW a \in Writes
    PROVE  <<a>> \in Seq(Writes) /\ Len(<<a>>) = 1 /\ \A x : Has(<<a>>, x) <=> x = a
BY DEF Has

\* The same for the writes to one wheel.
LEMMA HasThree ==
    ASSUME NEW a \in Writes, NEW b \in Writes, NEW c \in Writes
    PROVE  /\ <<a, b, c>> \in Seq(Writes) /\ Len(<<a, b, c>>) = 3
           /\ \A x : Has(<<a, b, c>>, x) <=> x \in {a, b, c}
BY DEF Has

\* The same for the pins that probe requests.
LEMMA HasFour ==
    ASSUME NEW a \in Writes, NEW b \in Writes, NEW c \in Writes, NEW d \in Writes
    PROVE  /\ <<a, b, c, d>> \in Seq(Writes) /\ Len(<<a, b, c, d>>) = 4
           /\ \A x : Has(<<a, b, c, d>>, x) <=> x \in {a, b, c, d}
BY DEF Has

-----------------------------------------------------------------------------
(* Duty cycles.                                                            *)

\* A magnitude is within full scale, and 0 only for 0.
LEMMA MagnitudeType ==
    ASSUME NEW v \in Int
    PROVE  Magnitude(v) \in 0..Full /\ (Magnitude(v) > 0 <=> v # 0)
BY MotorAssumption DEF Magnitude, Abs

\* A duty cycle never exceeds the period.
LEMMA DutyType ==
    ASSUME NEW v \in Int
    PROVE  Duty(v) \in 0..PeriodNs
<1> DEFINE a == PeriodNs * Magnitude(v)
           q == a \div Full
<1>1. Magnitude(v) \in 0..Full /\ Full \in Nat \ {0} /\ PeriodNs \in Nat
  BY MagnitudeType, MotorAssumption
<1>2. a \in Nat /\ a <= PeriodNs * Full
  BY <1>1
<1> HIDE DEF a
<1>3. q \in Int /\ a % Full \in 0..(Full - 1) /\ a = Full * q + (a % Full)
  BY <1>1, <1>2
<1> HIDE DEF q
<1>4. q >= 0
  <2> SUFFICES ASSUME q <= -1 PROVE FALSE
    BY <1>3
  <2>1. Full * q <= -Full
    BY <1>1, <1>3
  <2> QED BY <2>1, <1>1, <1>2, <1>3
<1>5. q <= PeriodNs
  <2> SUFFICES ASSUME q >= PeriodNs + 1 PROVE FALSE
    BY <1>1, <1>3
  <2>1. Full * q >= Full * (PeriodNs + 1)
    BY <1>1, <1>3
  <2> QED BY <2>1, <1>1, <1>2, <1>3
<1> QED BY <1>1, <1>3, <1>4, <1>5 DEF Duty, q, a

-----------------------------------------------------------------------------
(* What a call has still to do and what it has done.                       *)

Plus(v) == IF v > 0 THEN 1 ELSE 0
Minus(v) == IF v < 0 THEN 1 ELSE 0

\* What the running call wants of a wheel: everything but MOTOR_IOC_SET coasts.
Wanted(w) == IF call = "set" THEN request[w] ELSE 0

\* The writes that a call may have on its list: no two for one pin or channel.
Planned ==
    {Write("stby", "L", 0), Write("stby", "L", 1)}
        \cup {Write("pin1", w, Plus(Wanted(w))) : w \in Wheels}
        \cup {Write("pin2", w, Minus(Wanted(w))) : w \in Wheels}
        \cup {Write("pwm", w, Wanted(w)) : w \in Wheels}

\* The channel does what is wanted of it, or an error went unnoticed.
Powered(w) ==
    \/ duty[w] = Duty(Wanted(w)) /\ (on[w] <=> enabled /\ Wanted(w) # 0)
    \/ faulted /\ call # "set"

\* A write that is not on the list any more has had its effect.
Done(w) ==
    /\ Has(todo, Write("pin1", w, Plus(Wanted(w)))) \/ pin1[w] = Plus(Wanted(w))
    /\ Has(todo, Write("pin2", w, Minus(Wanted(w)))) \/ pin2[w] = Minus(Wanted(w))
    /\ call = "probe" \/ Has(todo, Write("pwm", w, Wanted(w))) \/ Powered(w)

Running == call \in {"enable", "brake", "set", "probe"}

TodoInv ==
    /\ todo \in Seq(Writes) /\ request \in [Wheels -> Int]
    /\ \A x : Has(todo, x) => x \in Planned
    /\ ~Running => todo = << >>
    /\ Running => \A w \in Wheels : Done(w)

IInv == TypeOK /\ TodoInv /\ BrakeStops /\ DisabledIsUnpowered /\ SetMeansBoth

-----------------------------------------------------------------------------
(* The lists of the calls.                                                 *)

Wheel(w, v) == {Write("pin1", w, Plus(v)), Write("pin2", w, Minus(v)), Write("pwm", w, v)}

\* motor_apply_one makes three writes to its wheel.
LEMMA WheelList ==
    ASSUME NEW w \in Wheels, NEW v \in Int
    PROVE  /\ motor_apply_one(w, v) \in Seq(Writes) /\ Len(motor_apply_one(w, v)) = 3
           /\ \A x : Has(motor_apply_one(w, v), x) <=> x \in Wheel(w, v)
<1>1. /\ Write("pin1", w, Plus(v)) \in Writes /\ Write("pin2", w, Minus(v)) \in Writes
      /\ Write("pwm", w, v) \in Writes
  BY DEF Write, Writes, Plus, Minus
<1> QED BY <1>1, HasThree DEF motor_apply_one, Wheel, Plus, Minus

\* There is at most one write to the standby pin.
LEMMA StandbyList ==
    ASSUME NEW v \in {0, 1}
    PROVE  /\ Standby(v) \in Seq(Writes) /\ Len(Standby(v)) <= 1
           /\ \A x : Has(Standby(v), x) => x = Write("stby", "L", v)
<1>1. Write("stby", "L", v) \in Writes
  BY DEF Write, Writes, Wheels
<1>2. CASE HasStby
  BY <1>1, <1>2, HasOne DEF Standby
<1>3. CASE ~HasStby
  BY <1>3, HasNone, EmptySeq DEF Standby
<1> QED BY <1>2, <1>3

\* A list that begins with s and serves both wheels.
BothWheels(l, s, a, b) ==
    /\ l \in Seq(Writes) /\ Len(l) <= 7
    /\ \A x : Has(l, x) <=> Has(s, x) \/ x \in Wheel("L", a) \/ x \in Wheel("R", b)

\* An optional write to standby and then both wheels.
LEMMA BothList ==
    ASSUME NEW s \in Seq(Writes), Len(s) <= 1, NEW a \in Int, NEW b \in Int,
           NEW l \in {s \o motor_apply_one("L", a) \o motor_apply_one("R", b),
                      s \o (motor_apply_one("L", a) \o motor_apply_one("R", b))}
    PROVE  /\ l \in Seq(Writes) /\ Len(l) <= 7
           /\ \A x : Has(l, x) <=> Has(s, x) \/ x \in Wheel("L", a) \/ x \in Wheel("R", b)
<1> DEFINE L == motor_apply_one("L", a)
           R == motor_apply_one("R", b)
<1>1. /\ L \in Seq(Writes) /\ Len(L) = 3 /\ \A x : Has(L, x) <=> x \in Wheel("L", a)
      /\ R \in Seq(Writes) /\ Len(R) = 3 /\ \A x : Has(R, x) <=> x \in Wheel("R", b)
  BY WheelList DEF Wheels
<1> HIDE DEF L, R
<1>2. CASE l = (s \o L) \o R
  <2>1. /\ s \o L \in Seq(Writes) /\ Len(s \o L) = Len(s) + 3
        /\ \A x : Has(s \o L, x) <=> Has(s, x) \/ x \in Wheel("L", a)
    BY <1>1, HasConcat
  <2>2. /\ l \in Seq(Writes) /\ Len(l) = Len(s \o L) + Len(R)
        /\ \A x : Has(l, x) <=> Has(s \o L, x) \/ Has(R, x)
    BY <1>1, <1>2, <2>1, HasConcat
  <2>3. Len(l) <= 7
    BY <1>1, <2>1, <2>2
  <2> QED BY <1>1, <2>1, <2>2, <2>3, Zenon
<1>3. CASE l = s \o (L \o R)
  <2>1. /\ L \o R \in Seq(Writes) /\ Len(L \o R) = 6
        /\ \A x : Has(L \o R, x) <=> x \in Wheel("L", a) \/ x \in Wheel("R", b)
    <3>1. /\ L \o R \in Seq(Writes) /\ Len(L \o R) = Len(L) + Len(R)
          /\ \A x : Has(L \o R, x) <=> Has(L, x) \/ Has(R, x)
      BY <1>1, HasConcat
    <3>2. Len(L \o R) = 6
      BY <1>1, <3>1
    <3> QED BY <1>1, <3>1, <3>2, Zenon
  <2>2. /\ l \in Seq(Writes) /\ Len(l) = Len(s) + Len(L \o R)
        /\ \A x : Has(l, x) <=> Has(s, x) \/ Has(L \o R, x)
    BY <1>3, <2>1, HasConcat
  <2>3. Len(l) <= 7
    BY <2>1, <2>2
  <2> QED BY <2>1, <2>2, <2>3, Zenon
<1> QED BY <1>2, <1>3 DEF L, R

\* The same, quantified.
LEMMA BothLists ==
    \A s \in Seq(Writes), a \in Int, b \in Int : Len(s) <= 1 =>
        \A l \in {s \o motor_apply_one("L", a) \o motor_apply_one("R", b),
                 s \o (motor_apply_one("L", a) \o motor_apply_one("R", b))} :
            BothWheels(l, s, a, b)
BY BothList, Zenon DEF BothWheels

\* The writes of probe: direction pins, then standby.
LEMMA ProbeList ==
    LET s == Standby(0)
        l == << Write("pin1", "L", 0), Write("pin2", "L", 0),
                Write("pin1", "R", 0), Write("pin2", "R", 0) >> \o s
    IN  /\ l \in Seq(Writes) /\ Len(l) <= 5
        /\ \A x : Has(l, x) <=> Has(s, x) \/ x \in {Write("pin1", "L", 0), Write("pin2", "L", 0),
                                                    Write("pin1", "R", 0), Write("pin2", "R", 0)}
<1> DEFINE a == Write("pin1", "L", 0)
           b == Write("pin2", "L", 0)
           c == Write("pin1", "R", 0)
           d == Write("pin2", "R", 0)
           s == Standby(0)
<1>1. a \in Writes /\ b \in Writes /\ c \in Writes /\ d \in Writes
  BY DEF Write, Writes, Wheels
<1>2. s \in Seq(Writes) /\ Len(s) <= 1
  BY StandbyList
<1> HIDE DEF a, b, c, d, s
<1>3. /\ <<a, b, c, d>> \in Seq(Writes) /\ Len(<<a, b, c, d>>) = 4
      /\ \A x : Has(<<a, b, c, d>>, x) <=> x \in {a, b, c, d}
  BY <1>1, HasFour
<1>4. /\ <<a, b, c, d>> \o s \in Seq(Writes) /\ Len(<<a, b, c, d>> \o s) <= 5
      /\ \A x : Has(<<a, b, c, d>> \o s, x) <=> Has(s, x) \/ x \in {a, b, c, d}
  <2>1. /\ <<a, b, c, d>> \o s \in Seq(Writes)
        /\ Len(<<a, b, c, d>> \o s) = Len(<<a, b, c, d>>) + Len(s)
        /\ \A x : Has(<<a, b, c, d>> \o s, x) <=> Has(<<a, b, c, d>>, x) \/ Has(s, x)
    BY <1>2, <1>3, HasConcat
  <2>2. Len(<<a, b, c, d>> \o s) <= 5
    BY <1>2, <1>3, <2>1
  <2> QED BY <1>3, <2>1, <2>2, Zenon
<1> QED BY <1>4 DEF a, b, c, d, s

-----------------------------------------------------------------------------
(* Every action keeps the invariant.                                       *)

\* A call begins.
LEMMA Begins ==
    ASSUME IInv, UNCHANGED <<hardware, last, faulted>>, enabled' \in BOOLEAN,
           call' \in {"enable", "brake", "set"}, request' \in [Wheels -> Int],
           NEW s \in Seq(Writes), Len(s) <= 1,
           \A x : Has(s, x) => x \in {Write("stby", "L", 0), Write("stby", "L", 1)},
           NEW a \in Int, NEW b \in Int, Wanted("L")' = a, Wanted("R")' = b,
           todo' \in {s \o motor_apply_one("L", a) \o motor_apply_one("R", b),
                      s \o (motor_apply_one("L", a) \o motor_apply_one("R", b))}
    PROVE  IInv'
<1>2. /\ todo' \in Seq(Writes) /\ Len(todo') <= 7
      /\ \A x : Has(todo', x) <=> Has(s, x) \/ x \in Wheel("L", Wanted("L")') \/ x \in Wheel("R", Wanted("R")')
  <2>1. BothWheels(todo', s, a, b)
    BY BothLists
  <2> QED BY <2>1 DEF BothWheels
<1>3. \A x : Has(todo', x) => x \in Planned'
  BY <1>2 DEF Planned, Wheel, Wheels
<1>4. \A w \in Wheels : Done(w)'
  BY <1>2 DEF Done, Wheel, Wheels
<1>5. TodoInv'
  BY <1>2, <1>3, <1>4 DEF TodoInv, Running
<1>6. TypeOK'
  <2>1. Len(todo') <= 7
    BY <1>2
  <2>2. call' \in {"none", "enable", "brake", "set", "probe", "unbound"}
    OBVIOUS
  <2> QED BY <2>1, <2>2, Zenon DEF IInv, TypeOK, hardware
<1>7. BrakeStops' /\ DisabledIsUnpowered' /\ SetMeansBoth'
  BY DEF BrakeStops, DisabledIsUnpowered, SetMeansBoth
<1> QED BY <1>5, <1>6, <1>7 DEF IInv

\* MOTOR_IOC_ENABLE keeps the invariant.
LEMMA EnableStep == ASSUME IInv, NEW en \in BOOLEAN, IocEnable(en) PROVE IInv'
<1> DEFINE s == Standby(IF en THEN 1 ELSE 0)
<1>1. s \in Seq(Writes) /\ Len(s) <= 1
      /\ \A x : Has(s, x) => x \in {Write("stby", "L", 0), Write("stby", "L", 1)}
  BY StandbyList
<1> HIDE DEF s
<1>2. Wanted("L")' = 0 /\ Wanted("R")' = 0
  BY DEF IocEnable, Wanted
<1>3. todo' = s \o (motor_apply_one("L", 0) \o motor_apply_one("R", 0))
  BY DEF IocEnable, Coast, s
<1>4. /\ UNCHANGED <<hardware, last, faulted>> /\ enabled' \in BOOLEAN
      /\ call' \in {"enable", "brake", "set"} /\ request' \in [Wheels -> Int]
  BY DEF IocEnable, IInv, TodoInv
<1> QED BY <1>1, <1>2, <1>3, <1>4, 0 \in Int, Begins, Zenon

\* MOTOR_IOC_BRAKE keeps the invariant.
LEMMA BrakeStep == ASSUME IInv, IocBrake PROVE IInv'
<1> DEFINE s == Standby(0)
<1>1. s \in Seq(Writes) /\ Len(s) <= 1
      /\ \A x : Has(s, x) => x \in {Write("stby", "L", 0), Write("stby", "L", 1)}
  BY StandbyList
<1> HIDE DEF s
<1>2. Wanted("L")' = 0 /\ Wanted("R")' = 0
  BY DEF IocBrake, Wanted
<1>3. todo' = s \o (motor_apply_one("L", 0) \o motor_apply_one("R", 0))
  BY DEF IocBrake, Coast, s
<1>4. /\ UNCHANGED <<hardware, last, faulted>> /\ enabled' \in BOOLEAN
      /\ call' = "brake" /\ request' \in [Wheels -> Int]
  BY DEF IocBrake, IInv, TodoInv
<1> QED BY <1>1, <1>2, <1>3, <1>4, Begins

\* MOTOR_IOC_SET keeps the invariant.
LEMMA SetStep ==
    ASSUME IInv, NEW u \in [Wheels -> Values], NEW flag \in BOOLEAN, IocSet(u, flag)
    PROVE  IInv'
<1> DEFINE s == IF flag THEN Standby(1) ELSE << >>
<1>1. s \in Seq(Writes) /\ Len(s) <= 1
      /\ \A x : Has(s, x) => x \in {Write("stby", "L", 0), Write("stby", "L", 1)}
  BY StandbyList, EmptySeq, HasNone
<1>3. todo' = s \o motor_apply_one("L", u["L"]) \o motor_apply_one("R", u["R"])
  BY DEF IocSet
<1> HIDE DEF s
<1>2. Wanted("L")' = u["L"] /\ Wanted("R")' = u["R"]
  BY DEF IocSet, Wanted
<1>4. /\ UNCHANGED <<hardware, last, faulted>> /\ enabled' \in BOOLEAN
      /\ call' = "set" /\ request' \in [Wheels -> Int] /\ u["L"] \in Int /\ u["R"] \in Int
  BY MotorAssumption DEF IocSet, IInv, TypeOK, Wheels
<1> QED BY <1>1, <1>2, <1>3, <1>4, Begins

\* Loading the driver keeps the invariant.
LEMMA ProbeStep == ASSUME IInv, Probe PROVE IInv'
<1> DEFINE s == Standby(0)
           p == {Write("pin1", "L", 0), Write("pin2", "L", 0), Write("pin1", "R", 0), Write("pin2", "R", 0)}
<1>1. \A x : Has(s, x) => x = Write("stby", "L", 0)
  BY StandbyList
<1>2. todo' \in Seq(Writes) /\ Len(todo') <= 5 /\ \A x : Has(todo', x) <=> Has(s, x) \/ x \in p
  BY ProbeList DEF Probe
<1> HIDE DEF s
<1>3. \A w \in Wheels : Wanted(w)' = 0 /\ Plus(0) = 0 /\ Minus(0) = 0
  BY DEF Probe, Wanted, Plus, Minus
<1>4. \A x : Has(todo', x) => x \in Planned'
  BY <1>1, <1>2, <1>3 DEF Planned, Wheels
<1>5. \A w \in Wheels : Done(w)'
  BY <1>2, <1>3 DEF Done, Wheels, Probe
<1>6. TodoInv'
  BY <1>2, <1>4, <1>5 DEF TodoInv, Running, Probe, IInv
<1>7. TypeOK'
  <2>1. Len(todo') <= 7
    BY <1>2
  <2> QED BY <2>1, Zenon DEF IInv, TypeOK, hardware, Probe
<1>8. BrakeStops' /\ DisabledIsUnpowered' /\ SetMeansBoth'
  BY DEF BrakeStops, DisabledIsUnpowered, SetMeansBoth, Probe
<1> QED BY <1>6, <1>7, <1>8 DEF IInv

\* A call with an empty list keeps it empty when only the history changes.
LEMMA RefusedStep == ASSUME IInv, IocRefused PROVE IInv'
<1>1. TypeOK'
  BY Zenon DEF IInv, TypeOK, IocRefused, hardware
<1>2. TodoInv'
  <2>1. ~Running' /\ todo' = todo /\ request' = request /\ todo = << >>
    BY DEF IInv, TodoInv, IocRefused, Running
  <2> QED BY <2>1, HasNone, EmptySeq DEF IInv, TodoInv
<1>3. BrakeStops' /\ SetMeansBoth'
  BY DEF IocRefused, BrakeStops, SetMeansBoth
<1>4. DisabledIsUnpowered'
  BY DEF IInv, IocRefused, DisabledIsUnpowered, Driven, hardware
<1> QED BY <1>1, <1>2, <1>3, <1>4 DEF IInv

\* Removing it does.
LEMMA RemoveStep == ASSUME IInv, Remove PROVE IInv'
<1>1. TypeOK'
  BY Zenon DEF IInv, TypeOK, Remove, hardware
<1>2. TodoInv'
  <2>1. ~Running' /\ todo' = todo /\ request' = request /\ todo = << >>
    BY DEF IInv, TodoInv, Remove, Running
  <2> QED BY <2>1, HasNone, EmptySeq DEF IInv, TodoInv
<1>3. BrakeStops' /\ SetMeansBoth' /\ DisabledIsUnpowered'
  BY DEF Remove, BrakeStops, SetMeansBoth, DisabledIsUnpowered
<1> QED BY <1>1, <1>2, <1>3 DEF IInv

\* A probe that fails does.
LEMMA ProbeFailsStep == ASSUME IInv, ProbeFails PROVE IInv'
<1>1. TypeOK'
  <2>1. Len(todo') <= 7
    BY EmptySeq DEF ProbeFails
  <2> QED BY <2>1, Zenon DEF IInv, TypeOK, ProbeFails, hardware
<1>2. TodoInv'
  <2>1. ~Running' /\ todo' = << >> /\ request' = request
    BY DEF ProbeFails, Running
  <2> QED BY <2>1, HasNone, EmptySeq DEF IInv, TodoInv
<1>3. BrakeStops' /\ SetMeansBoth' /\ DisabledIsUnpowered'
  BY DEF ProbeFails, BrakeStops, SetMeansBoth, DisabledIsUnpowered
<1> QED BY <1>1, <1>2, <1>3 DEF IInv

\* The call returns: the list is empty, so everything on it has had its effect.
LEMMA ReturnStep == ASSUME IInv, IocReturn PROVE IInv'
<1>1. TypeOK'
  BY Zenon DEF IInv, TypeOK, IocReturn, hardware
<1>2. TodoInv'
  <2>1. ~Running' /\ todo' = << >> /\ request' = request
    BY DEF IocReturn, Running
  <2> QED BY <2>1, HasNone, EmptySeq DEF IInv, TodoInv
<1>3. Running /\ todo = << >> /\ last' = [op |-> call, ok |-> TRUE] /\ call' = "none"
  BY DEF IocReturn, IInv, TypeOK, Running
<1>4. /\ enabled' = enabled /\ faulted' = faulted /\ request' = request
      /\ pin1' = pin1 /\ pin2' = pin2 /\ duty' = duty /\ on' = on
  BY DEF IocReturn, hardware
<1>5. \A w \in Wheels : /\ pin1[w] = Plus(Wanted(w)) /\ pin2[w] = Minus(Wanted(w))
                        /\ call = "probe" \/ Powered(w)
  BY <1>3, HasNone, Zenon DEF IInv, TodoInv, Done
<1>6. ASSUME NEW w \in Wheels, call # "set" PROVE ~Driven(w)'
  BY <1>4, <1>5, <1>6 DEF Driven, Wanted, Plus, Minus
<1>7. BrakeStops'
  BY <1>3, <1>6 DEF BrakeStops
<1>8. DisabledIsUnpowered'
  <2>1. ASSUME NEW w \in Wheels, call = "set", ~enabled PROVE ~Driven(w)'
    BY <1>4, <1>5, <2>1 DEF Driven, Powered
  <2> QED BY <1>4, <1>6, <2>1 DEF DisabledIsUnpowered
<1>9. SetMeansBoth'
  <2> SUFFICES ASSUME call = "set", NEW w \in Wheels
               PROVE  /\ duty[w] = Duty(request[w]) /\ pin1[w] = Plus(request[w])
                      /\ pin2[w] = Minus(request[w]) /\ on[w] = (enabled /\ request[w] # 0)
    BY <1>3, <1>4 DEF SetMeansBoth, Plus, Minus
  <2>1. Wanted(w) = request[w]
    BY DEF Wanted
  <2>2. duty[w] = Duty(request[w]) /\ (on[w] <=> enabled /\ request[w] # 0)
    BY <1>5, <2>1 DEF Powered
  <2>3. on[w] \in BOOLEAN
    BY DEF IInv, TypeOK
  <2> QED BY <1>5, <2>1, <2>2, <2>3
<1> QED BY <1>1, <1>2, <1>7, <1>8, <1>9 DEF IInv

\* What the first write of a list can be, and what the others are.
LEMMA FirstWrite ==
    ASSUME IInv, todo # << >>
    PROVE  /\ Running /\ Tail(todo) \in Seq(Writes) /\ Len(Tail(todo)) <= 7
           /\ Head(todo) \in Planned
           /\ \A y : Has(todo, y) <=> y = Head(todo) \/ Has(Tail(todo), y)
           /\ \A y : Has(Tail(todo), y) => y \in Planned
<1>1. /\ Running /\ todo \in Seq(Writes) /\ \A y : Has(todo, y) => y \in Planned
  BY DEF IInv, TodoInv
<1>2. /\ Tail(todo) \in Seq(Writes) /\ Len(Tail(todo)) = Len(todo) - 1 /\ Len(todo) \in Nat
      /\ \A y : Has(todo, y) <=> y = Head(todo) \/ Has(Tail(todo), y)
  BY <1>1, HasTail
<1>3. Len(Tail(todo)) <= 7
  BY <1>2 DEF IInv, TypeOK
<1> QED BY <1>1, <1>2, <1>3, Zenon

\* The three properties say nothing while an ioctl is under way.
LEMMA WhileRunning ==
    ASSUME Running' PROVE BrakeStops' /\ DisabledIsUnpowered' /\ SetMeansBoth'
BY DEF Running, BrakeStops, DisabledIsUnpowered, SetMeansBoth

\* The list is shortened and what is wanted stays the same.
LEMMA Shortened ==
    ASSUME IInv, todo # << >>, todo' = Tail(todo), UNCHANGED <<call, request>>, TypeOK',
           \A w \in Wheels : Done(w)'
    PROVE  IInv'
<1>1. Running' /\ todo' \in Seq(Writes) /\ request' \in [Wheels -> Int]
  BY FirstWrite DEF Running, IInv, TodoInv
<1>2. Planned' = Planned
  BY DEF Planned, Wanted
<1>3. \A x : Has(todo', x) => x \in Planned'
  BY <1>2, FirstWrite
<1>4. TodoInv'
  BY <1>1, <1>3 DEF TodoInv
<1> QED BY <1>1, <1>4, WhileRunning DEF IInv

\* A pin written keeps the invariant.
LEMMA WritePinStep == ASSUME IInv, WritePin PROVE IInv'
<1> DEFINE x == Head(todo)
<1>0. /\ todo # << >> /\ todo' = Tail(todo) /\ UNCHANGED <<enabled, duty, on, call, request, last, faulted>>
      /\ x.what # "pwm" /\ stby' = (IF x.what = "stby" THEN x.val ELSE stby)
      /\ pin1' = (IF x.what = "pin1" THEN [pin1 EXCEPT ![x.wheel] = x.val] ELSE pin1)
      /\ pin2' = (IF x.what = "pin2" THEN [pin2 EXCEPT ![x.wheel] = x.val] ELSE pin2)
  BY DEF WritePin
<1>1. /\ x \in Planned /\ Len(todo') <= 7
      /\ \A y : Has(todo, y) <=> y = x \/ Has(todo', y)
  BY <1>0, FirstWrite
<1>2. \A w \in Wheels : Plus(Wanted(w)) \in {0, 1} /\ Minus(Wanted(w)) \in {0, 1}
  BY DEF Plus, Minus
<1> HIDE DEF x
<1>3. \/ x.what = "stby" /\ x.val \in {0, 1}
      \/ \E v \in Wheels : x = Write("pin1", v, Plus(Wanted(v)))
      \/ \E v \in Wheels : x = Write("pin2", v, Minus(Wanted(v)))
  BY <1>0, <1>1 DEF Planned, Write
<1>4. \A w \in Wheels : Wanted(w)' = Wanted(w) /\ Powered(w)' = Powered(w)
  BY <1>0 DEF Wanted, Powered
<1>5. pin1 \in [Wheels -> {0, 1}] /\ pin2 \in [Wheels -> {0, 1}] /\ stby \in {0, 1}
  BY DEF IInv, TypeOK
<1>6. /\ stby' \in {0, 1} /\ pin1' \in [Wheels -> {0, 1}] /\ pin2' \in [Wheels -> {0, 1}]
  <2>1. CASE x.what = "stby" /\ x.val \in {0, 1}
    BY <1>0, <1>5, <2>1
  <2>2. ASSUME NEW v \in Wheels, x = Write("pin1", v, Plus(Wanted(v))) PROVE <1>6!1
    BY <1>0, <1>2, <1>5, <2>2 DEF Write
  <2>3. ASSUME NEW v \in Wheels, x = Write("pin2", v, Minus(Wanted(v))) PROVE <1>6!1
    BY <1>0, <1>2, <1>5, <2>3 DEF Write
  <2> QED BY <1>3, <2>1, <2>2, <2>3
<1>7. TypeOK'
  BY <1>0, <1>1, <1>6, Zenon DEF IInv, TypeOK
<1>8. ASSUME NEW w \in Wheels PROVE Done(w)'
  <2>1. Done(w)
    BY <1>0, FirstWrite DEF IInv, TodoInv
  <2>2. pin1'[w] = Plus(Wanted(w)) \/ (pin1'[w] = pin1[w] /\ x # Write("pin1", w, Plus(Wanted(w))))
    BY <1>0, <1>3, <1>5 DEF Write
  <2>3. pin2'[w] = Minus(Wanted(w)) \/ (pin2'[w] = pin2[w] /\ x # Write("pin2", w, Minus(Wanted(w))))
    BY <1>0, <1>3, <1>5 DEF Write
  <2>4. x # Write("pwm", w, Wanted(w))
    BY <1>0 DEF Write
  <2> QED BY <1>0, <1>1, <1>4, <2>1, <2>2, <2>3, <2>4 DEF Done
<1> QED BY <1>0, <1>7, <1>8, Shortened

\* A PWM write on the list is for what is wanted of its wheel.
LEMMA FirstPwm ==
    ASSUME IInv, todo # << >>, Head(todo).what = "pwm"
    PROVE  \E v \in Wheels : Head(todo) = Write("pwm", v, Wanted(v)) /\ Wanted(v) \in Int
<1>1. Head(todo) \in Planned
  BY FirstWrite
<1>2. PICK v \in Wheels : Head(todo) = Write("pwm", v, Wanted(v))
  BY <1>1 DEF Planned, Write
<1>3. Wanted(v) \in Int
  BY DEF Wanted, IInv, TodoInv
<1> QED BY <1>2, <1>3

\* A PWM channel written, or failing, keeps the invariant.
LEMMA WritePwmStep == ASSUME IInv, WritePwm PROVE IInv'
<1> DEFINE x == Head(todo)
<1>0. /\ todo # << >> /\ todo' = Tail(todo) /\ x.what = "pwm"
      /\ UNCHANGED <<enabled, stby, pin1, pin2, call, request, last, faulted>>
      /\ duty' = [duty EXCEPT ![x.wheel] = Duty(x.val)]
      /\ on' = [on EXCEPT ![x.wheel] = enabled /\ Magnitude(x.val) > 0]
  BY DEF WritePwm
<1>1. /\ Len(todo') <= 7 /\ \A y : Has(todo, y) <=> y = x \/ Has(todo', y)
  BY <1>0, FirstWrite
<1>2. PICK v \in Wheels : x = Write("pwm", v, Wanted(v)) /\ Wanted(v) \in Int
  BY <1>0, FirstPwm
<1> HIDE DEF x
<1>3. x.wheel = v /\ x.val = Wanted(v)
  BY <1>2 DEF Write
<1>4. \A w \in Wheels : Wanted(w)' = Wanted(w)
  BY <1>0 DEF Wanted
<1>5. duty \in [Wheels -> 0..PeriodNs] /\ on \in [Wheels -> BOOLEAN] /\ enabled \in BOOLEAN
  BY DEF IInv, TypeOK
<1>6. duty' \in [Wheels -> 0..PeriodNs] /\ on' \in [Wheels -> BOOLEAN]
  <2>1. Duty(x.val) \in 0..PeriodNs
    BY <1>2, <1>3, DutyType
  <2>2. (enabled /\ Magnitude(x.val) > 0) \in BOOLEAN
    BY <1>5
  <2> QED BY <1>0, <1>5, <2>1, <2>2
<1>7. TypeOK'
  BY <1>0, <1>1, <1>6, Zenon DEF IInv, TypeOK
<1>8. Powered(v)'
  <2>1. duty'[v] = Duty(Wanted(v))
    BY <1>0, <1>3, <1>5
  <2>2. on'[v] = (enabled /\ Magnitude(Wanted(v)) > 0)
    BY <1>0, <1>3, <1>5
  <2>3. Magnitude(Wanted(v)) > 0 <=> Wanted(v) # 0
    BY <1>2, MagnitudeType
  <2> QED BY <1>0, <1>4, <2>1, <2>2, <2>3 DEF Powered
<1>9. ASSUME NEW w \in Wheels PROVE Done(w)'
  <2>1. Done(w)
    BY <1>0, FirstWrite DEF IInv, TodoInv
  <2>2. /\ x # Write("pin1", w, Plus(Wanted(w))) /\ x # Write("pin2", w, Minus(Wanted(w)))
        /\ w # v => x # Write("pwm", w, Wanted(w))
    BY <1>2 DEF Write
  <2>3. w # v => duty'[w] = duty[w] /\ on'[w] = on[w]
    BY <1>0, <1>3, <1>5
  <2>4. w # v => Powered(w)' = Powered(w)
    BY <1>0, <1>4, <2>3 DEF Powered
  <2> QED BY <1>0, <1>1, <1>4, <1>8, <2>1, <2>2, <2>4 DEF Done
<1> QED BY <1>0, <1>7, <1>9, Shortened

\* Unnoticed by every call but MOTOR_IOC_SET, which returns the error.
LEMMA PwmFailsStep == ASSUME IInv, PwmFails PROVE IInv'
<1>0. /\ todo # << >> /\ Head(todo).what = "pwm" /\ faulted' = TRUE
      /\ UNCHANGED <<enabled, stby, pin1, pin2, duty, on, request>>
  BY DEF PwmFails, hardware
<1>1. /\ Len(Tail(todo)) <= 7 /\ \A y : Has(todo, y) <=> y = Head(todo) \/ Has(Tail(todo), y)
  BY <1>0, FirstWrite
<1>2. CASE call = "set"
  <2>1. todo' = << >> /\ call' = "none" /\ last' = [op |-> "set", ok |-> FALSE]
    BY <1>2 DEF PwmFails
  <2>2. TypeOK'
    <3>1. Len(todo') <= 7
      BY <2>1, EmptySeq
    <3> QED BY <1>0, <2>1, <3>1, Zenon DEF IInv, TypeOK
  <2>3. TodoInv'
    BY <1>0, <2>1, HasNone, EmptySeq DEF IInv, TodoInv, Running
  <2>4. BrakeStops' /\ SetMeansBoth' /\ DisabledIsUnpowered'
    BY <1>0, <2>1 DEF BrakeStops, SetMeansBoth, DisabledIsUnpowered
  <2> QED BY <2>2, <2>3, <2>4 DEF IInv
<1>3. CASE call # "set"
  <2>1. todo' = Tail(todo) /\ UNCHANGED <<call, last>>
    BY <1>3 DEF PwmFails
  <2>2. TypeOK'
    BY <1>0, <1>1, <2>1, Zenon DEF IInv, TypeOK
  <2>3. ASSUME NEW w \in Wheels PROVE Done(w)'
    <3>1. Done(w)
      BY <1>0, FirstWrite DEF IInv, TodoInv
    <3>2. Wanted(w)' = Wanted(w)
      BY <1>0, <2>1 DEF Wanted
    <3>3. Powered(w)'
      BY <1>0, <1>3, <2>1 DEF Powered
    <3>4. /\ Head(todo) # Write("pin1", w, Plus(Wanted(w)))
          /\ Head(todo) # Write("pin2", w, Minus(Wanted(w)))
      BY <1>0 DEF Write
    <3> QED BY <1>0, <1>1, <2>1, <3>1, <3>2, <3>3, <3>4 DEF Done
  <2> QED BY <1>0, <2>1, <2>2, <2>3, Shortened
<1> QED BY <1>2, <1>3

-----------------------------------------------------------------------------
(* The invariant and the theorems.                                         *)

\* The initial states satisfy the invariant.
LEMMA InitIInv == Init => IInv
<1> SUFFICES ASSUME Init PROVE IInv
  OBVIOUS
<1>1. TypeOK
  <2>1. Len(todo) <= 7 /\ 0 \in 0..PeriodNs
    BY EmptySeq, MotorAssumption DEF Init
  <2>2. /\ pin1 \in [Wheels -> {0, 1}] /\ pin2 \in [Wheels -> {0, 1}]
        /\ duty \in [Wheels -> 0..PeriodNs] /\ on \in [Wheels -> BOOLEAN]
    BY <2>1 DEF Init
  <2> QED BY <2>1, <2>2 DEF Init, TypeOK
<1>2. TodoInv
  BY HasNone, EmptySeq DEF Init, TodoInv, Running
<1>3. BrakeStops /\ DisabledIsUnpowered /\ SetMeansBoth
  BY DEF Init, BrakeStops, DisabledIsUnpowered, SetMeansBoth, Driven
<1> QED BY <1>1, <1>2, <1>3 DEF IInv

\* Stuttering keeps it.
LEMMA StutterStep == ASSUME IInv, UNCHANGED vars PROVE IInv'
<1>1. TypeOK'
  BY Zenon DEF IInv, TypeOK, vars
<1>2. TodoInv'
  BY DEF IInv, TodoInv, vars, Running, Planned, Wanted, Done, Powered
<1>3. BrakeStops' /\ DisabledIsUnpowered' /\ SetMeansBoth'
  BY DEF IInv, BrakeStops, DisabledIsUnpowered, SetMeansBoth, Driven, vars
<1> QED BY <1>1, <1>2, <1>3 DEF IInv

\* The invariant holds in every state.
LEMMA Invariance == Spec => []IInv
<1>1. IInv /\ [Next]_vars => IInv'
  BY EnableStep, BrakeStep, SetStep, RefusedStep, WritePinStep, WritePwmStep, PwmFailsStep,
     ReturnStep, RemoveStep, ProbeStep, ProbeFailsStep, StutterStep DEF Next
<1> QED BY <1>1, InitIInv, PTL DEF Spec

\* Whatever callers send, every duty cycle stays between 0 and the period, and
\* no ioctl makes more than seven hardware writes.
THEOREM TypeCorrect == Spec => []TypeOK
<1>1. IInv => TypeOK
  BY DEF IInv
<1> QED BY <1>1, Invariance, PTL

\* MOTOR_IOC_BRAKE, MOTOR_IOC_ENABLE and motor_probe leave no wheel powered, even
\* when pwm_apply_state fails unnoticed in the middle of them.
THEOREM Brakes == Spec => []BrakeStops
<1>1. IInv => BrakeStops
  BY DEF IInv
<1> QED BY <1>1, Invariance, PTL

\* A disabled driver powers no wheel unless a PWM write has failed.
THEOREM Unpowered == Spec => []DisabledIsUnpowered
<1>1. IInv => DisabledIsUnpowered
  BY DEF IInv
<1> QED BY <1>1, Invariance, PTL

\* MOTOR_IOC_SET returns 0 only when both wheels have the direction, the duty
\* cycle and the power that were asked for.
THEOREM SetBoth == Spec => []SetMeansBoth
<1>1. IInv => SetMeansBoth
  BY DEF IInv
<1> QED BY <1>1, Invariance, PTL

-----------------------------------------------------------------------------
(* The speed-control daemons that command the driver: SpeedLoop.           *)

\* The states of the controller.
Ctl == [i : 0..Vmax, kick : Nat, stopped : BOOLEAN]

\* The states of the wheel's pins and PWM channel.
Motor == [dir : {-1, 0, 1}, mag : Nat]

\* A wheel at rest has not been kicked; the n kicks so far and the time left of the
\* last one fit into kick_ms, the last tick of a kick possibly only in part.
Budget(c, n) ==
    /\ c.stopped => c.kick = 0 /\ n = 0
    /\ c.kick > 0 => n * TickMs + c.kick <= KickMs
    /\ n * TickMs < KickMs + TickMs

\* What the variables hold.
SpeedTypes ==
    /\ variant \in {"step", "plain"} /\ rpm0 \in Int /\ rpm1 \in Int
    /\ variant = "plain" => rpm0 # 0 /\ rpm1 # 0
    /\ enc.rpm \in Int /\ spd \in Ctl
    /\ u_last \in Int /\ motor \in Motor
    /\ missed \in Nat /\ kicks \in Nat /\ windows \in Nat /\ zeros \in Nat

\* Until the last command the pins follow the limiter, and the duty is as far behind it
\* as the commands that were lost since the last one that the motor took.
SlewInv ==
    /\ pc = "start" => u_last = 0 /\ missed = 0 /\ ~ours
    /\ variant = "step" /\ pc \in {"loop", "exit"} =>
         /\ motor.dir = Direction(u_last)
         /\ ours => fabs(motor.mag - fabs(u_last)) <= DuMax * missed

\* The inductive invariant.
SpeedInv ==
    SpeedTypes /\ Budget(spd, kicks) /\ SlewInv /\ ZeroRefStops /\ WindupBounded

-----------------------------------------------------------------------------
\* An effort within its range gives a duty within its range.
LEMMA DutyRange ==
    ASSUME NEW v \in 0..Vmax
    PROVE  DutyOf(v) \in Int /\ 0 <= DutyOf(v) /\ DutyOf(v) <= Umax
<1>1. Vmax \in Nat /\ U0 \in Nat /\ Gain \in Nat
  BY SpeedAssumption
<1>2. v * Gain \in Nat /\ (Vmax - v) * Gain \in Nat
  BY <1>1
<1>3. Vmax * Gain = v * Gain + (Vmax - v) * Gain
  BY <1>1
<1> QED
  BY <1>1, <1>2, <1>3 DEF DutyOf, Umax

\* What a call of speed_pi_update returns while the reference is not 0.
LEMMA Moving ==
    ASSUME NEW c \in Ctl, NEW ref \in Int, NEW meas \in Int,
           NEW g \in BOOLEAN
    PROVE  LET out == PiMoving(c, ref, meas, g)
           IN  /\ out.c \in Ctl /\ out.u \in Int /\ out.kicked \in BOOLEAN
               /\ fabs(out.u) <= Umax
               /\ ~g => out.c.i = c.i
               /\ out.c.i <= c.i + Ki * fabs(ref)
<1> DEFINE e == fabs(ref) - fabs(meas)
           i == IF g THEN Clamp(c.i + Ki * e, 0, Vmax) ELSE c.i
           v == Clamp(Kp * e + i, 0, Vmax)
           start == c.stopped /\ fabs(meas) = 0 /\ v > KickV
           left == IF start THEN KickMs ELSE c.kick
           uAbs == IF left > 0 THEN KickU ELSE DutyOf(v)
           out == PiMoving(c, ref, meas, g)
<1>1. out = [c |-> [i |-> i, kick |-> Most(left - TickMs, 0),
                    stopped |-> c.stopped /\ ~start /\ fabs(meas) = 0],
             u |-> Sgn(ref) * uAbs, kicked |-> left > 0]
  BY DEF PiMoving
<1>2. Vmax \in Nat /\ Ki \in Nat /\ Kp \in Nat /\ KickMs \in Nat /\ TickMs \in Nat
  BY SpeedAssumption
<1>3. e \in Int
  BY DEF fabs
<1>4. i \in 0..Vmax
  <2>1. c.i \in 0..Vmax
    BY DEF Ctl
  <2>2. Ki * e \in Int
    BY <1>2, <1>3
  <2> HIDE DEF e
  <2> QED
    BY <1>2, <2>1, <2>2 DEF Clamp
<1>5. v \in 0..Vmax
  <2>1. Kp * e \in Int
    BY <1>2, <1>3
  <2> HIDE DEF e, i
  <2> QED
    BY <1>2, <1>4, <2>1 DEF Clamp
<1>14. i <= c.i + Ki * fabs(ref)
  <2>1. c.i \in Nat /\ fabs(ref) \in Nat /\ fabs(meas) \in Nat
    BY DEF Ctl, fabs
  <2>2. Ki * fabs(ref) \in Nat /\ Ki * fabs(meas) \in Nat
    BY <1>2, <2>1
  <2>3. Ki * e = Ki * fabs(ref) - Ki * fabs(meas)
    BY <1>2, <2>1
  <2> HIDE DEF e
  <2> QED
    BY <1>2, <2>1, <2>2, <2>3 DEF Clamp
<1> HIDE DEF e, i, v
<1>6. left \in Nat
  BY <1>2 DEF Ctl
<1>7. uAbs \in Int /\ 0 <= uAbs /\ uAbs <= Umax
  <2>1. KickU \in Int /\ 0 <= KickU /\ KickU <= Umax
    <3>1. Umax \in Int
      <4>1. Vmax * Gain \in Int /\ U0 \in Int
        BY SpeedAssumption
      <4> QED
        BY <4>1 DEF Umax
    <3> QED
      BY <3>1, SpeedAssumption
  <2> QED
    BY <1>5, <2>1, DutyRange
<1> HIDE DEF uAbs
<1>8. Sgn(ref) * uAbs = uAbs \/ Sgn(ref) * uAbs = -uAbs
  BY <1>7 DEF Sgn
<1>9. Sgn(ref) * uAbs \in Int /\ fabs(Sgn(ref) * uAbs) <= Umax
  BY <1>7, <1>8 DEF fabs
<1>10. Most(left - TickMs, 0) \in Nat
  BY <1>2, <1>6 DEF Most
<1> HIDE DEF start, left
<1>11. c.stopped \in BOOLEAN
  BY DEF Ctl
<1>12. out.c \in Ctl
  BY <1>1, <1>4, <1>10, <1>11 DEF Ctl
<1>13. ~g => out.c.i = c.i
  BY <1>1 DEF i
<1>15. out.c.i = i
  BY <1>1
<1> QED
  BY <1>1, <1>9, <1>12, <1>13, <1>14, <1>15

\* What any call returns.
LEMMA Called ==
    ASSUME NEW c \in Ctl, NEW ref \in Int, NEW meas \in Int,
           NEW g \in BOOLEAN
    PROVE  LET out == speed_pi_update(c, ref, meas, g)
           IN  /\ out.c \in Ctl /\ out.u \in Int /\ out.kicked \in BOOLEAN
               /\ fabs(out.u) <= Umax
               /\ ref = 0 => out.u = 0 /\ out.c.i = 0
               /\ ~g => out.c.i <= c.i
               /\ out.c.i <= c.i + Ki * fabs(ref)
<1> DEFINE out == speed_pi_update(c, ref, meas, g)
<1>1. CASE ref = 0
  <2>1. out = [c |-> Standstill, u |-> 0, kicked |-> FALSE]
    BY <1>1 DEF speed_pi_update
  <2>2. out.c = Standstill /\ out.u = 0 /\ out.kicked = FALSE
    BY <2>1
  <2>3. Vmax \in Nat /\ Vmax * Gain \in Nat /\ U0 \in Nat
    BY SpeedAssumption
  <2>4. 0 <= Umax /\ Umax \in Int
    BY <2>3 DEF Umax
  <2>5. Standstill \in Ctl /\ Standstill.i = 0
    BY <2>3 DEF Standstill, Ctl
  <2>6. fabs(0) = 0
    BY DEF fabs
  <2>7. fabs(out.u) <= Umax /\ out.u \in Int
    BY <2>2, <2>4, <2>6
  <2>8. out.kicked \in BOOLEAN /\ out.c \in Ctl /\ out.c.i = 0
    BY <2>2, <2>5, Zenon
  <2>9. c.i \in Nat /\ Ki \in Nat /\ fabs(ref) \in Nat
    BY SpeedAssumption DEF Ctl, fabs
  <2>10. Ki * fabs(ref) \in Nat
    BY <2>9
  <2>11. out.c.i <= c.i /\ out.c.i <= c.i + Ki * fabs(ref)
    <3> HIDE DEF out
    <3> QED
      BY <2>8, <2>9, <2>10
  <2> QED
    BY <2>2, <2>7, <2>8, <2>11, Zenon
<1>2. CASE ref # 0
  <2>1. out = PiMoving(c, ref, meas, g)
    BY <1>2 DEF speed_pi_update
  <2>2. /\ out.c \in Ctl /\ out.u \in Int /\ out.kicked \in BOOLEAN
        /\ fabs(out.u) <= Umax
        /\ ~g => out.c.i = c.i
        /\ out.c.i <= c.i + Ki * fabs(ref)
    <3> DEFINE step == PiMoving(c, ref, meas, g)
    <3>1. /\ step.c \in Ctl /\ step.u \in Int /\ step.kicked \in BOOLEAN
          /\ fabs(step.u) <= Umax
          /\ ~g => step.c.i = c.i
          /\ step.c.i <= c.i + Ki * fabs(ref)
      BY Moving
    <3> QED
      BY <2>1, <3>1, Zenon
  <2>3. c.i \in Nat
    BY DEF Ctl
  <2>4. ~g => out.c.i <= c.i
    <3> HIDE DEF out
    <3> QED
      BY <2>2, <2>3
  <2> QED
    BY <1>2, <2>2, <2>4, Zenon
<1> QED
  BY <1>1, <1>2

\* A call keeps the budget of kicks: a kick begins only at rest, and its clock runs.
LEMMA Spent ==
    ASSUME NEW c \in Ctl, NEW ref \in Int, NEW meas \in Int,
           NEW g \in BOOLEAN, NEW n \in Nat, Budget(c, n), ref # 0
    PROVE  LET out == speed_pi_update(c, ref, meas, g)
           IN  /\ Budget(out.c, n)
               /\ out.kicked => Budget(out.c, n + 1)
<1> DEFINE out == speed_pi_update(c, ref, meas, g)
           e == fabs(ref) - fabs(meas)
           i == IF g THEN Clamp(c.i + Ki * e, 0, Vmax) ELSE c.i
           v == Clamp(Kp * e + i, 0, Vmax)
           start == c.stopped /\ fabs(meas) = 0 /\ v > KickV
           left == IF start THEN KickMs ELSE c.kick
           rest == c.stopped /\ ~start /\ fabs(meas) = 0
<1>1. out.c = [i |-> i, kick |-> Most(left - TickMs, 0), stopped |-> rest]
      /\ out.kicked = (left > 0)
  BY DEF speed_pi_update, PiMoving
<1>2. out.c.kick = Most(left - TickMs, 0) /\ out.c.stopped = rest
  BY <1>1
<1>3. KickMs \in Nat /\ TickMs \in Nat /\ TickMs > 0 /\ c.kick \in Nat
  BY SpeedAssumption DEF Ctl
<1>4. n * TickMs \in Nat /\ (n + 1) * TickMs = n * TickMs + TickMs
  BY <1>3
<1>5. start => c.kick = 0 /\ n * TickMs = 0 /\ n = 0
  BY <1>3 DEF Budget
<1>6. rest => left = 0 /\ n = 0
  BY DEF Budget
<1> HIDE DEF start, rest
<1>7. left \in Nat /\ (left > 0 => n * TickMs + left <= KickMs)
  BY <1>3, <1>5 DEF Budget
<1> HIDE DEF left, out
<1>8. out.c.kick \in Nat /\ (out.c.kick > 0 => left = out.c.kick + TickMs)
  BY <1>2, <1>3, <1>7 DEF Most
<1>9. rest => out.c.kick = 0
  BY <1>2, <1>3, <1>6 DEF Most
<1>10. Budget(out.c, n)
  BY <1>2, <1>3, <1>4, <1>6, <1>7, <1>8, <1>9 DEF Budget
<1>11. left > 0 => Budget(out.c, n + 1)
  BY <1>2, <1>3, <1>4, <1>6, <1>7, <1>8 DEF Budget
<1> QED
  BY <1>1, <1>10, <1>11 DEF out

\* A product below the dividend plus the divisor is rounded up to the quotient.
LEMMA Rounded ==
    ASSUME NEW n \in Nat, NEW a \in Nat, NEW b \in Nat, b > 0, n * b < a + b
    PROVE  n <= CeilDiv(a, b)
<1> DEFINE q == (a + b - 1) \div b
           r == (a + b - 1) % b
<1>1. q \in Int /\ r \in 0..(b - 1) /\ a + b - 1 = b * q + r
  OBVIOUS
<1> HIDE DEF q, r
<1>2. SUFFICES ASSUME n >= q + 1 PROVE FALSE
  BY <1>1 DEF CeilDiv, q
<1>3. n * b = (q + 1) * b + (n - (q + 1)) * b
  BY <1>1
<1>4. (n - (q + 1)) * b >= 0
  BY <1>1, <1>2
<1>5. (q + 1) * b = b * q + b
  BY <1>1
<1> QED
  BY <1>1, <1>3, <1>4, <1>5

-----------------------------------------------------------------------------
\* The limiter lands between its last output and the wish, DuMax away at most.
LEMMA Limit ==
    ASSUME NEW x \in Int, NEW y \in Int, NEW d \in Nat, NEW m \in Nat,
           fabs(x) <= m, fabs(y) <= m
    PROVE  LET u == Clamp(x, y - d, y + d)
           IN  /\ u \in Int /\ fabs(u) <= m /\ fabs(u - y) <= d
               /\ x = 0 => fabs(u) <= Most(0, fabs(y) - d)
  BY DEF Clamp, fabs, Most

\* The encoder's part of a tick: a measured speed is a number.
LEMMA Measured ==
    ASSUME SpeedTypes, NEW updated \in BOOLEAN, enc_update(updated)
    PROVE  enc'.rpm \in Int
<1>1. CASE UNCHANGED enc
  BY <1>1 DEF SpeedTypes
<1>2. CASE enc' = [enc EXCEPT !.prev = count, !.acc = acc_dcount, !.k = @ + 1]
  BY <1>2 DEF SpeedTypes
<1>3. ASSUME NEW r \in WindowRpms(acc_dcount),
             enc' = [prev |-> 0, acc |-> 0, k |-> 0, rpm |-> r]
      PROVE  enc'.rpm \in Int
  <2>1. Speeds \subseteq Nat
    BY SpeedAssumption
  <2>2. r \in Int
    BY <2>1 DEF WindowRpms
  <2> QED
    BY <1>3, <2>2
<1> QED
  BY <1>1, <1>2, <1>3 DEF enc_update

\* What a tick adds to the integrator: a step per full window at most.
Risen(ref, updated) ==
    /\ ref = 0 => spd'.i = 0
    /\ ~updated => spd'.i <= spd.i
    /\ spd'.i <= spd.i + Ki * fabs(ref)

\* The controller's part of a tick of balancertd.c.
LEMMA LimitedKick ==
    ASSUME SpeedInv, NEW ref \in Int, NEW updated \in BOOLEAN, enc'.rpm \in Int,
           Limited(ref, updated)
    PROVE  /\ spd' \in Ctl /\ kicks' \in Nat /\ Budget(spd', kicks')
           /\ Risen(ref, updated)
<1> DEFINE first == speed_pi_update(spd, ref, enc'.rpm, FALSE)
           second == speed_pi_update(first.c, ref, enc'.rpm, updated)
<1>1. spd \in Ctl /\ kicks \in Nat /\ Budget(spd, kicks)
  BY DEF SpeedInv, SpeedTypes
<1>3. spd' = first.c \/ spd' = second.c
  BY DEF Limited
<1>4. kicks' = IF ref = 0 THEN 0 ELSE IF first.kicked THEN kicks + 1 ELSE kicks
  BY DEF Limited, Account
<1>5. /\ first.c \in Ctl /\ first.c.i <= spd.i
      /\ ref = 0 => first.c.i = 0
  BY <1>1, Called
<1>6. /\ second.c \in Ctl /\ second.c.i <= first.c.i + Ki * fabs(ref)
      /\ ~updated => second.c.i <= first.c.i
      /\ ref = 0 => second.c.i = 0
  <2> HIDE DEF first
  <2> QED
    BY <1>5, Called
<1>7. kicks' \in Nat
  <2>1. kicks' = 0 \/ kicks' = kicks + 1 \/ kicks' = kicks
    BY <1>4, Zenon
  <2> QED
    BY <1>1, <2>1
<1>8. Budget(first.c, kicks') /\ Budget(second.c, kicks')
  <2>1. CASE ref = 0
    <3>1. first.c = Standstill /\ second.c = Standstill
      BY <2>1 DEF speed_pi_update
    <3>2. Standstill.kick = 0 /\ kicks' = 0
      BY <1>4, <2>1 DEF Standstill
    <3>3. TickMs \in Nat /\ TickMs > 0 /\ KickMs \in Nat /\ 0 * TickMs = 0
      BY SpeedAssumption
    <3> HIDE DEF first, second
    <3> QED
      BY <3>1, <3>2, <3>3 DEF Budget
  <2>2. CASE ref # 0
    <3>1. Budget(first.c, kicks) /\ (first.kicked => Budget(first.c, kicks + 1))
      BY <1>1, <2>2, Spent
    <3>2. kicks' = kicks \/ (first.kicked /\ kicks' = kicks + 1)
      BY <1>4, <2>2
    <3> HIDE DEF first
    <3>3. Budget(first.c, kicks')
      BY <3>1, <3>2
    <3>4. Budget(second.c, kicks')
      BY <1>5, <1>7, <2>2, <3>3, Spent
    <3> QED
      BY <3>3, <3>4
  <2> QED
    BY <2>1, <2>2
<1> HIDE DEF first, second
<1>9. Risen(ref, updated)
  <2>1. spd.i \in Int /\ first.c.i \in Int /\ second.c.i \in Int
    BY <1>1, <1>5, <1>6 DEF Ctl
  <2>2. Ki * fabs(ref) \in Nat
    <3>1. Ki \in Nat /\ fabs(ref) \in Nat
      BY SpeedAssumption DEF fabs
    <3> QED
      BY <3>1
  <2> QED
    BY <1>3, <1>5, <1>6, <2>1, <2>2 DEF Risen
<1> QED
  BY <1>3, <1>5, <1>6, <1>7, <1>8, <1>9

\* Multiples of DuMax.
LEMMA Multiples ==
    ASSUME NEW d \in Nat, NEW n \in Nat
    PROVE  d * n \in Nat /\ n * d \in Nat /\ d * (n + 1) = d * n + d
           /\ (n + 1) * d = n * d + d /\ d * 0 = 0 /\ 0 * d = 0
  OBVIOUS

\* The integrator stays within what the full windows account for.
LEMMA Wound ==
    ASSUME SpeedInv, NEW ref \in {rpm0, rpm1}, NEW updated \in BOOLEAN, spd' \in Ctl,
           Risen(ref, updated), UNCHANGED <<rpm0, rpm1>>,
           windows' = IF ref = 0 THEN 0 ELSE IF updated THEN windows + 1 ELSE windows
    PROVE  WindupBounded' /\ windows' \in Nat
<1> DEFINE most == Most(fabs(rpm0), fabs(rpm1))
           b == Ki * most
<1>1. rpm0 \in Int /\ rpm1 \in Int /\ ref \in Int /\ windows \in Nat /\ Ki \in Nat
      /\ spd.i \in Int /\ spd'.i \in Int
  BY SpeedAssumption DEF SpeedInv, SpeedTypes, Ctl
<1>2. most \in Nat /\ fabs(ref) \in Nat /\ most - fabs(ref) \in Nat
  BY <1>1 DEF Most, fabs
<1>3. spd.i <= windows * b
  BY DEF SpeedInv, WindupBounded
<1>4. WindupBounded' <=> spd'.i <= windows' * b
  BY DEF WindupBounded, Most, fabs
<1> HIDE DEF most
<1>5. b \in Nat /\ Ki * fabs(ref) \in Nat /\ Ki * (most - fabs(ref)) \in Nat
      /\ b = Ki * fabs(ref) + Ki * (most - fabs(ref))
  BY <1>1, <1>2
<1> HIDE DEF b
<1>6. windows * b \in Nat /\ (windows + 1) * b = windows * b + b /\ 0 * b = 0
  BY <1>1, <1>5, Multiples
<1>7. windows' \in Nat
  BY <1>1
<1>8. CASE ref = 0
  BY <1>4, <1>6, <1>7, <1>8 DEF Risen
<1>9. CASE ref # 0 /\ updated
  <2>1. windows' = windows + 1
    BY <1>9
  <2> QED
    BY <1>1, <1>3, <1>4, <1>5, <1>6, <1>7, <2>1 DEF Risen
<1>10. CASE ref # 0 /\ ~updated
  <2>1. windows' = windows
    BY <1>10
  <2> QED
    BY <1>1, <1>3, <1>4, <1>6, <1>7, <1>10, <2>1 DEF Risen
<1> QED
  BY <1>8, <1>9, <1>10

\* A duty m with the direction of y.
LEMMA Signed ==
    ASSUME NEW y \in Int, NEW m \in Nat
    PROVE  Direction(y) * m = IF y > 0 THEN m ELSE IF y < 0 THEN -m ELSE 0
<1>1. CASE y > 0
  BY <1>1 DEF Direction
<1>2. CASE y < 0
  BY <1>2 DEF Direction
<1>3. CASE y = 0
  BY <1>3 DEF Direction
<1> QED
  BY <1>1, <1>2, <1>3

\* A command u that differs from the one before, y, by d at most, when the duty m is e
\* away from y: where the drive goes if the command is taken, and if it is lost after
\* its pins were written.
LEMMA Swing ==
    ASSUME NEW u \in Int, NEW y \in Int, NEW m \in Nat, NEW d \in Nat, NEW e \in Nat,
           fabs(u - y) <= d, fabs(m - fabs(y)) <= e
    PROVE  /\ fabs(m - fabs(u)) <= e + d
           /\ fabs(Direction(u) * fabs(u) - Direction(y) * m) <= e + d
           /\ fabs(Direction(u) * m - Direction(y) * m) <= 2 * (e + d)
<1>1. fabs(u) \in Nat
  BY DEF fabs
<1>2. /\ Direction(u) * fabs(u) = IF u > 0 THEN fabs(u) ELSE IF u < 0 THEN -fabs(u) ELSE 0
      /\ Direction(u) * m = IF u > 0 THEN m ELSE IF u < 0 THEN -m ELSE 0
      /\ Direction(y) * m = IF y > 0 THEN m ELSE IF y < 0 THEN -m ELSE 0
  BY <1>1, Signed
<1>3. fabs(m - fabs(u)) <= e + d
  BY DEF fabs
<1>4. fabs(Direction(u) * fabs(u) - Direction(y) * m) <= e + d
  <2>1. Direction(u) * fabs(u) = u
    BY <1>2 DEF fabs
  <2>2. CASE y > 0
    BY <1>2, <2>1, <2>2 DEF fabs
  <2>3. CASE y < 0
    BY <1>2, <2>1, <2>3 DEF fabs
  <2>4. CASE y = 0
    BY <1>2, <2>1, <2>4 DEF fabs
  <2> QED
    BY <2>2, <2>3, <2>4
<1>5. fabs(Direction(u) * m - Direction(y) * m) <= 2 * (e + d)
  BY <1>2 DEF fabs
<1> QED
  BY <1>3, <1>4, <1>5

\* What SetMotor does to the wheel.
LEMMA SetType ==
    ASSUME NEW u \in Int, motor \in Motor, missed \in Nat, SetMotor(u)
    PROVE  /\ motor' \in Motor /\ missed' \in Nat /\ motor'.dir = Direction(u)
           /\ \/ motor'.mag = fabs(u) /\ missed' = 0
              \/ motor'.mag = motor.mag /\ ours' = ours /\ missed' = missed + 1
<1>1. Direction(u) \in {-1, 0, 1} /\ fabs(u) \in Nat
  BY DEF Direction, fabs
<1>2. CASE Applied(u) /\ missed' = 0
  BY <1>1, <1>2 DEF Applied, Motor
<1>3. CASE ApplyFails(u) /\ missed' = missed + 1
  BY <1>1, <1>3 DEF ApplyFails, Motor
<1> QED
  BY <1>2, <1>3 DEF SetMotor

\* The limiter's part of it.
LEMMA LimitedSlew ==
    ASSUME SpeedInv, NEW ref \in Int, NEW updated \in BOOLEAN, enc'.rpm \in Int,
           Limited(ref, updated), variant = "step", pc = "loop"
    PROVE  /\ u_last' \in Int /\ motor' \in Motor /\ missed' \in Nat /\ zeros' \in Nat
           /\ motor'.dir = Direction(u_last')
           /\ ours' => fabs(motor'.mag - fabs(u_last')) <= DuMax * missed'
           /\ ours => fabs(drive' - drive) <= DuMax * (missed + missed' + 1)
           /\ fabs(u_last') <= Most(0, Umax - zeros' * DuMax)
<1> DEFINE first == speed_pi_update(spd, ref, enc'.rpm, FALSE)
           u == Clamp(first.u, u_last - DuMax, u_last + DuMax)
<1>1. spd \in Ctl /\ u_last \in Int /\ motor \in Motor /\ missed \in Nat /\ zeros \in Nat
  BY DEF SpeedInv, SpeedTypes
<1>2. DuMax \in Nat /\ Umax \in Nat
  <2>1. DuMax \in Nat /\ U0 \in Nat /\ Vmax * Gain \in Nat
    BY SpeedAssumption
  <2> QED
    BY <2>1 DEF Umax
<1>3. first.u \in Int /\ fabs(first.u) <= Umax /\ (ref = 0 => first.u = 0)
  BY <1>1, Called
<1>4. u_last' = u /\ SetMotor(u) /\ zeros' = IF ref = 0 THEN zeros + 1 ELSE 0
  BY DEF Limited, Account
<1> HIDE DEF first
<1>5. DuMax * missed \in Nat /\ DuMax * (missed + 1) = DuMax * missed + DuMax
      /\ DuMax * 0 = 0
  BY <1>1, <1>2, Multiples
<1>6. zeros * DuMax \in Nat /\ (zeros + 1) * DuMax = zeros * DuMax + DuMax
      /\ 0 * DuMax = 0
  BY <1>1, <1>2, Multiples
<1>7. /\ motor.dir = Direction(u_last)
      /\ ours => fabs(motor.mag - fabs(u_last)) <= DuMax * missed
      /\ fabs(u_last) <= Most(0, Umax - zeros * DuMax)
  BY DEF SpeedInv, SlewInv, ZeroRefStops
<1>8. fabs(u_last) <= Umax
  BY <1>1, <1>2, <1>6, <1>7 DEF Most, fabs
<1>9. /\ u \in Int /\ fabs(u) <= Umax /\ fabs(u - u_last) <= DuMax
      /\ first.u = 0 => fabs(u) <= Most(0, fabs(u_last) - DuMax)
  BY <1>1, <1>2, <1>3, <1>8, Limit
<1> HIDE DEF u
<1>10. /\ motor' \in Motor /\ missed' \in Nat /\ motor'.dir = Direction(u)
       /\ \/ motor'.mag = fabs(u) /\ missed' = 0
          \/ motor'.mag = motor.mag /\ ours' = ours /\ missed' = missed + 1
  BY <1>1, <1>4, <1>9, SetType
<1>11. zeros' \in Nat
  BY <1>1, <1>4
<1>12. motor.mag \in Nat /\ fabs(u) \in Nat
  BY <1>1, <1>9 DEF Motor, fabs
<1>13. ours => /\ fabs(motor.mag - fabs(u)) <= DuMax * missed + DuMax
               /\ fabs(Direction(u) * fabs(u) - drive) <= DuMax * missed + DuMax
               /\ fabs(Direction(u) * motor.mag - drive) <= 2 * (DuMax * missed + DuMax)
  <2> SUFFICES ASSUME ours
               PROVE  /\ fabs(motor.mag - fabs(u)) <= DuMax * missed + DuMax
                      /\ fabs(Direction(u) * fabs(u) - drive) <= DuMax * missed + DuMax
                      /\ fabs(Direction(u) * motor.mag - drive) <= 2 * (DuMax * missed + DuMax)
    OBVIOUS
  <2>1. drive = Direction(u_last) * motor.mag
    BY <1>7 DEF drive
  <2>2. fabs(motor.mag - fabs(u_last)) <= DuMax * missed
    BY <1>7
  <2> QED
    BY <1>1, <1>2, <1>5, <1>9, <1>12, <2>1, <2>2, Swing
<1>14. fabs(u) <= Most(0, Umax - zeros' * DuMax)
  <2>1. CASE ref = 0
    BY <1>1, <1>2, <1>3, <1>4, <1>6, <1>7, <1>9, <2>1 DEF Most, fabs
  <2>2. CASE ref # 0
    BY <1>2, <1>4, <1>6, <1>9, <2>2 DEF Most, fabs
  <2> QED
    BY <2>1, <2>2
<1>15. CASE motor'.mag = fabs(u) /\ missed' = 0
  <2>1. fabs(motor'.mag - fabs(u)) <= DuMax * missed'
    BY <1>5, <1>12, <1>15 DEF fabs
  <2>2. drive' = Direction(u) * fabs(u)
    BY <1>10, <1>15 DEF drive
  <2>3. missed + missed' + 1 = missed + 1
    BY <1>1, <1>15
  <2>4. ours => fabs(drive' - drive) <= DuMax * (missed + missed' + 1)
    BY <1>5, <1>13, <2>2, <2>3
  <2> QED
    BY <1>4, <1>9, <1>10, <1>11, <1>14, <2>1, <2>4
<1>16. CASE motor'.mag = motor.mag /\ ours' = ours /\ missed' = missed + 1
  <2>1. ours' => fabs(motor'.mag - fabs(u)) <= DuMax * missed'
    BY <1>5, <1>13, <1>16
  <2>2. drive' = Direction(u) * motor.mag
    BY <1>10, <1>16 DEF drive
  <2>3. missed + missed' + 1 = 2 * (missed + 1)
    BY <1>1, <1>16
  <2>4. DuMax * (2 * (missed + 1)) = 2 * (DuMax * missed + DuMax)
    BY <1>1, <1>2
  <2>5. ours => fabs(drive' - drive) <= DuMax * (missed + missed' + 1)
    BY <1>13, <2>2, <2>3, <2>4
  <2> QED
    BY <1>4, <1>9, <1>10, <1>11, <1>14, <2>1, <2>5
<1> QED
  BY <1>10, <1>15, <1>16

\* The tick of balancertd1.c.
LEMMA DirectTick ==
    ASSUME SpeedInv, NEW ref \in Int, NEW updated \in BOOLEAN, enc'.rpm \in Int,
           Direct(ref, updated), ref # 0
    PROVE  /\ spd' \in Ctl /\ kicks' \in Nat /\ Budget(spd', kicks')
           /\ Risen(ref, updated)
           /\ u_last' \in Int /\ motor' \in Motor /\ missed' \in Nat
<1> DEFINE out == speed_pi_update(spd, ref, enc'.rpm, updated)
<1>1. spd \in Ctl /\ kicks \in Nat /\ Budget(spd, kicks) /\ u_last \in Int
      /\ motor \in Motor /\ missed \in Nat
  BY DEF SpeedInv, SpeedTypes
<1>2. /\ spd' = out.c /\ u_last' = u_last
      /\ SetMotor(out.u)
      /\ kicks' = IF ref = 0 THEN 0 ELSE IF out.kicked THEN kicks + 1 ELSE kicks
  BY DEF Direct, Account
<1>3. /\ out.c \in Ctl /\ out.u \in Int
      /\ ref = 0 => out.c.i = 0
      /\ ~updated => out.c.i <= spd.i
      /\ out.c.i <= spd.i + Ki * fabs(ref)
  BY <1>1, Called
<1>4. Budget(out.c, kicks) /\ (out.kicked => Budget(out.c, kicks + 1))
  BY <1>1, Spent
<1> HIDE DEF out
<1>5. Budget(out.c, kicks') /\ kicks' \in Nat
  BY <1>1, <1>2, <1>4
<1>6. motor' \in Motor /\ missed' \in Nat
  BY <1>1, <1>2, <1>3, SetType
<1>7. Risen(ref, updated)
  BY <1>2, <1>3, Zenon DEF Risen
<1> QED
  BY <1>1, <1>2, <1>3, <1>5, <1>6, <1>7

-----------------------------------------------------------------------------
\* A tick of either program.
LEMMA TickInv ==
    ASSUME SpeedInv, NEW late \in 0..MaxLate, Tick(late)
    PROVE  /\ SpeedInv'
           /\ variant = "step" /\ ours
                => fabs(drive' - drive) <= DuMax * (missed + missed' + 1)
<1> DEFINE ref == IF now' < Pre THEN rpm0 ELSE rpm1
<1>1. PICK updated \in BOOLEAN :
        /\ enc_update(updated)
        /\ IF variant = "step" THEN Limited(ref, updated) ELSE Direct(ref, updated)
  BY DEF Tick
<1>2. /\ pc = "loop" /\ pc' # "start"
      /\ variant' = variant /\ rpm0' = rpm0 /\ rpm1' = rpm1
  BY DEF Tick, cfg
<1>3. SpeedTypes
  BY DEF SpeedInv
<1>4. enc'.rpm \in Int
  BY <1>1, <1>3, Measured
<1>5. ref \in {rpm0, rpm1} /\ ref \in Int /\ (variant = "plain" => ref # 0)
      /\ zeros \in Nat /\ variant \in {"step", "plain"}
  BY <1>3 DEF SpeedTypes
<1> HIDE DEF ref
<1>6. /\ windows' = IF ref = 0 THEN 0 ELSE IF updated THEN windows + 1 ELSE windows
      /\ zeros' = IF ref = 0 THEN zeros + 1 ELSE 0
  <2>1. CASE variant = "step"
    BY <1>1, <2>1 DEF Limited, Account
  <2>2. CASE variant # "step"
    BY <1>1, <2>2 DEF Direct, Account
  <2> QED
    BY <2>1, <2>2
<1>7. zeros' \in Nat
  BY <1>5, <1>6
<1>8. CASE variant = "step"
  <2>1. Limited(ref, updated)
    BY <1>1, <1>8
  <2>2. /\ spd' \in Ctl /\ kicks' \in Nat /\ Budget(spd', kicks')
        /\ Risen(ref, updated)
    BY <1>4, <1>5, <2>1, LimitedKick
  <2>3. /\ u_last' \in Int /\ motor' \in Motor /\ missed' \in Nat
        /\ motor'.dir = Direction(u_last')
        /\ ours' => fabs(motor'.mag - fabs(u_last')) <= DuMax * missed'
        /\ ours => fabs(drive' - drive) <= DuMax * (missed + missed' + 1)
        /\ fabs(u_last') <= Most(0, Umax - zeros' * DuMax)
    BY <1>2, <1>4, <1>5, <1>8, <2>1, LimitedSlew
  <2>4. WindupBounded' /\ windows' \in Nat
    BY <1>2, <1>5, <1>6, <2>2, Wound
  <2>5. SpeedTypes'
    BY <1>2, <1>3, <1>4, <1>7, <2>2, <2>3, <2>4 DEF SpeedTypes
  <2>6. Budget(spd, kicks)'
    BY <2>2 DEF Budget
  <2>7. SlewInv' /\ ZeroRefStops'
    BY <1>2, <2>3 DEF SlewInv, ZeroRefStops, fabs, Most, Umax, Direction
  <2> QED
    BY <2>3, <2>4, <2>5, <2>6, <2>7 DEF SpeedInv
<1>9. CASE variant # "step"
  <2>1. Direct(ref, updated) /\ ref # 0
    BY <1>1, <1>5, <1>9
  <2>2. /\ spd' \in Ctl /\ kicks' \in Nat /\ Budget(spd', kicks')
        /\ Risen(ref, updated)
        /\ u_last' \in Int /\ motor' \in Motor /\ missed' \in Nat
    BY <1>4, <1>5, <2>1, DirectTick
  <2>3. WindupBounded' /\ windows' \in Nat
    BY <1>2, <1>5, <1>6, <2>2, Wound
  <2>4. SpeedTypes'
    BY <1>2, <1>3, <1>4, <1>7, <2>2, <2>3 DEF SpeedTypes
  <2>5. Budget(spd, kicks)'
    BY <2>2 DEF Budget
  <2>6. SlewInv' /\ ZeroRefStops'
    BY <1>2, <1>9 DEF SlewInv, ZeroRefStops
  <2> QED
    BY <1>9, <2>3, <2>4, <2>5, <2>6 DEF SpeedInv
<1> QED
  BY <1>8, <1>9

\* The steps that leave controller and motor alone.
Calm == /\ UNCHANGED <<variant, rpm0, rpm1, enc, spd, u_last, motor, ours, missed, kicks,
                       windows, zeros>>
        /\ pc' = pc \/ pc' = "returned" \/ (pc = "loop" /\ pc' = "exit")

\* The steps of SpeedLoop, sorted.
LEMMA SpeedCases ==
    ASSUME [SpeedNext]_speedVars
    PROVE  Calm \/ Open \/ Exit \/ (\E late \in 0..MaxLate : Tick(late))
<1>1. CASE UNCHANGED speedVars
  BY <1>1 DEF speedVars, Calm
<1>2. CASE MainStop \/ MainJoin \/ Abort
  BY <1>2 DEF MainStop, MainJoin, Abort, cfg, ctrl, wheel, Calm
<1>3. CASE LoopEnd
  BY <1>3 DEF LoopEnd, cfg, ctrl, wheel, Calm
<1>4. ASSUME NEW d \in {-1, 1}, Move(d) PROVE Calm
  BY <1>4 DEF Move, cfg, wheel, Calm
<1> QED
  BY <1>1, <1>2, <1>3, <1>4 DEF SpeedNext, Main, Ctrl, SpeedDone

\* The loop begins with the pins off, and with a duty of 0 unless that write was lost.
LEMMA OpenStep ==
    ASSUME SpeedInv, Open
    PROVE  SpeedInv'
<1>1. /\ UNCHANGED <<variant, rpm0, rpm1, enc, spd, u_last, missed, kicks, windows, zeros>>
      /\ pc = "start" /\ pc' \in {"loop", "returned"}
  BY DEF Open, cfg, ctrl
<1>2. u_last = 0 /\ missed = 0 /\ ~ours /\ motor \in Motor
  BY <1>1 DEF SpeedInv, SlewInv, SpeedTypes
<1>3. Direction(0) = 0 /\ fabs(0) = 0
  BY DEF Direction, fabs
<1>4. \/ pc' = "returned" /\ motor' = motor
      \/ motor'.dir = 0 /\ motor' \in Motor /\ (ours' => motor'.mag = 0)
  <2>1. CASE pc' = "returned" /\ UNCHANGED wheel
    BY <2>1 DEF wheel
  <2>2. CASE Applied(0)
    BY <1>3, <2>2 DEF Applied, Motor
  <2>3. CASE ApplyFails(0)
    BY <1>2, <1>3, <2>3 DEF ApplyFails, Motor
  <2> QED
    BY <2>1, <2>2, <2>3 DEF Open
<1>5. SpeedTypes'
  BY <1>1, <1>2, <1>4 DEF SpeedInv, SpeedTypes
<1>6. Budget(spd, kicks)' /\ ZeroRefStops' /\ WindupBounded'
  BY <1>1 DEF SpeedInv, Budget, ZeroRefStops, WindupBounded, fabs, Most, Umax
<1>7. SlewInv'
  <2>1. DuMax * 0 = 0
    BY SpeedAssumption
  <2>2. pc' = "loop" => motor'.dir = Direction(u_last') /\ u_last' = 0 /\ missed' = 0
    BY <1>1, <1>2, <1>3, <1>4
  <2>3. ours' /\ pc' = "loop" => fabs(motor'.mag - fabs(u_last')) <= DuMax * missed'
    <3>1. SUFFICES ASSUME ours', pc' = "loop"
                   PROVE  fabs(0 - fabs(0)) <= DuMax * 0
      BY <1>4, <2>2
    <3> QED
      BY <1>3, <2>1 DEF fabs
  <2> QED
    BY <1>1, <2>2, <2>3 DEF SlewInv, Direction, fabs
<1> QED
  BY <1>5, <1>6, <1>7 DEF SpeedInv

\* Every step keeps the invariant.
LEMMA SpeedStep ==
    ASSUME SpeedInv, [SpeedNext]_speedVars
    PROVE  SpeedInv'
<1>1. CASE Calm
  BY <1>1 DEF Calm, SpeedInv, SpeedTypes, Budget, SlewInv, ZeroRefStops, WindupBounded,
              fabs, Most, Umax, Direction
<1>2. CASE Exit
  <2>1. /\ UNCHANGED <<variant, rpm0, rpm1, enc, spd, u_last, kicks, windows, zeros>>
        /\ pc' = "returned" /\ SetMotor(0)
    BY <1>2 DEF Exit, cfg
  <2>2. motor' \in Motor /\ missed' \in Nat
    BY <2>1, SetType DEF SpeedInv, SpeedTypes
  <2>3. SpeedTypes'
    BY <2>1, <2>2 DEF SpeedInv, SpeedTypes
  <2>4. Budget(spd, kicks)' /\ SlewInv' /\ ZeroRefStops' /\ WindupBounded'
    BY <2>1 DEF SpeedInv, Budget, SlewInv, ZeroRefStops, WindupBounded, fabs, Most, Umax
  <2> QED
    BY <2>3, <2>4 DEF SpeedInv
<1>3. ASSUME NEW late \in 0..MaxLate, Tick(late) PROVE SpeedInv'
  BY <1>3, TickInv
<1> QED
  BY <1>1, <1>2, <1>3, OpenStep, SpeedCases

\* The initial states satisfy it.
LEMMA SpeedBegins ==
    ASSUME SpeedInit
    PROVE  SpeedInv
<1>1. /\ Vmax \in Nat /\ DuMax \in Nat /\ KickMs \in Nat /\ TickMs \in Nat /\ TickMs > 0
      /\ U0 \in Nat /\ Vmax * Gain \in Nat /\ Variants \subseteq {"step", "plain"}
      /\ Refs \subseteq Int /\ Leftovers \subseteq Nat /\ Ki \in Nat
  BY SpeedAssumption
<1>2. SpeedTypes
  <2>1. motor \in Motor
    BY <1>1 DEF SpeedInit, Motor
  <2>2. spd \in Ctl
    BY <1>1 DEF SpeedInit, Ctl
  <2>3. variant = "plain" => rpm0 # 0 /\ rpm1 # 0
    BY <1>1 DEF SpeedInit
  <2> QED
    BY <1>1, <2>1, <2>2, <2>3 DEF SpeedInit, SpeedTypes
<1>3. Budget(spd, kicks)
  BY <1>1 DEF SpeedInit, Budget
<1>4. SlewInv /\ ZeroRefStops
  BY <1>1 DEF SpeedInit, SlewInv, ZeroRefStops, fabs, Most, Umax
<1>5. WindupBounded
  <2>1. rpm0 \in Int /\ rpm1 \in Int /\ spd.i = 0 /\ windows = 0
    BY <1>1 DEF SpeedInit
  <2>2. Most(fabs(rpm0), fabs(rpm1)) \in Nat
    BY <2>1 DEF Most, fabs
  <2>3. Ki * Most(fabs(rpm0), fabs(rpm1)) \in Nat
    BY <1>1, <2>2
  <2> QED
    BY <2>1, <2>3 DEF WindupBounded
<1> QED
  BY <1>2, <1>3, <1>4, <1>5 DEF SpeedInv

\* The invariant of SpeedLoop.
THEOREM SpeedInvariant == SpeedSpec => []SpeedInv
<1>1. SpeedInit => SpeedInv
  BY SpeedBegins
<1>2. SpeedInv /\ [SpeedNext]_speedVars => SpeedInv'
  BY SpeedStep
<1> QED
  BY <1>1, <1>2, PTL DEF SpeedSpec

\* A start from standstill is kicked for kick_ms at most, and not again before the
\* reference was 0 (speed_pi_update), in both programs, for every setting of the gains
\* and of the kick, and however the wheel moves.
THEOREM Kicks == SpeedSpec => []KickBounded
<1>1. SpeedInv => KickBounded
  <2>1. KickMs \in Nat /\ TickMs \in Nat /\ TickMs > 0
    BY SpeedAssumption
  <2> QED
    BY <2>1, Rounded DEF SpeedInv, SpeedTypes, Budget, KickBounded
<1> QED
  BY <1>1, SpeedInvariant, PTL

\* A reference of 0 brings balancertd.c's command to 0 as fast as its limiter allows,
\* from any kick, windup or speed (speed_pi_update, ctrl_thread).
THEOREM ZeroStops == SpeedSpec => []ZeroRefStops
<1>1. SpeedInv => ZeroRefStops
  BY DEF SpeedInv
<1> QED
  BY <1>1, SpeedInvariant, PTL

\* A command that the motor takes moves its drive by DU_MAX at most, and by DU_MAX more
\* for each command lost before it; one that is lost has turned the pins, and moves the
\* drive by twice as much at most (the limiter of balancertd.c's ctrl_thread over
\* motor_apply_one).
THEOREM Slew == SpeedSpec => SlewBounded
<1>1. SpeedInv /\ [SpeedNext]_speedVars
        => [variant = "step" /\ pc = "loop" /\ ours =>
              fabs(drive' - drive) <= DuMax * (missed + missed' + 1)]_speedVars
  <2> SUFFICES ASSUME SpeedInv, [SpeedNext]_speedVars, variant = "step", pc = "loop", ours
               PROVE  fabs(drive' - drive) <= DuMax * (missed + missed' + 1)
    OBVIOUS
  <2>1. CASE Calm
    <3>1. drive' = drive /\ motor \in Motor /\ missed \in Nat /\ missed' = missed
      BY <2>1 DEF Calm, SpeedInv, SpeedTypes, drive
    <3>2. drive \in Int
      BY <3>1 DEF Motor, drive
    <3>3. DuMax * (missed + missed' + 1) \in Nat
      BY <3>1, SpeedAssumption
    <3> QED
      BY <3>1, <3>2, <3>3 DEF fabs
  <2>2. CASE Open \/ Exit
    BY <2>2 DEF Open, Exit
  <2>3. ASSUME NEW late \in 0..MaxLate, Tick(late)
        PROVE  fabs(drive' - drive) <= DuMax * (missed + missed' + 1)
    BY <2>3, TickInv
  <2> QED
    BY <2>1, <2>2, <2>3, SpeedCases
<1> QED
  BY <1>1, SpeedInvariant, PTL DEF SpeedSpec, SlewBounded

\* "I only on fresh rpm update": since the last standstill the integrator has taken one
\* step per full window at most (speed_pi_update's rpm_updated and ctrl_thread's two
\* calls per tick), so a silent encoder cannot wind it up.
THEOREM Windup == SpeedSpec => []WindupBounded
<1>1. SpeedInv => WindupBounded
  BY DEF SpeedInv
<1> QED
  BY <1>1, SpeedInvariant, PTL
=============================================================================
