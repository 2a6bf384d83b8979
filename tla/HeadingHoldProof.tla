-------------------------- MODULE HeadingHoldProof --------------------------
(***************************************************************************)
(* Legs driven on a heading, module HeadingHold: they steer by the slots   *)
(* of SlotSteering, driving teaches the estimator nothing, the yaw it      *)
(* reports errs by what was missed and no more, and a leg that does not    *)
(* move or runs away is ended, for every gain, rounding, gap, drift and    *)
(* length of a route.  The slots themselves come first: for every duty,    *)
(* grid, rounding and length of a run whose rounding errors stay within    *)
(* the tolerance of the comparisons, those that are driven are the whole   *)
(* part of what the duties add up to.                                      *)
(***************************************************************************)
EXTENDS HeadingHold, TLAPS

-----------------------------------------------------------------------------
(* Dropped slots, module SlotSteering. *)

\* What the additions so far were off by.
Off(t) == accumulator[t] - GRID * due[t]

\* An accumulator is what is due, and as many roundings as there were slots.
SlotInv ==
    /\ slots \in 0..MAX_SLOTS
    /\ accumulator \in [Treads -> Int] /\ due \in [Treads -> Int]
    /\ \A t \in Treads : /\ -(slots * ROUND) <= Off(t)
                         /\ Off(t) <= slots * ROUND
    /\ SlotsAreExact

\* Multiples of GRID are GRID apart.
LEMMA Multiples ==
    ASSUME NEW x \in Int
    PROVE  /\ GRID * x \in Int
           /\ GRID * x > -GRID => x >= 0
           /\ GRID * x < 0 => x < 0
<1>0. GRID \in Nat
  BY SlotAssumption
<1>1. GRID * x \in Int
  BY <1>0
<1>2. ASSUME x < 0 PROVE ~(GRID * x > -GRID)
  BY <1>0, <1>2
<1>3. ASSUME x >= 0 PROVE ~(GRID * x < 0)
  BY <1>0, <1>3
<1> QED
  BY <1>1, <1>2, <1>3

\* What the roundings of a run add up to is less than the tolerance.
LEMMA Roundings ==
    ASSUME NEW n \in Nat, n < MAX_SLOTS
    PROVE  /\ n * ROUND \in Nat
           /\ (n + 1) * ROUND = n * ROUND + ROUND
           /\ (n + 1) * ROUND <= EPSILON
<1>0. ROUND \in Nat /\ EPSILON \in Nat /\ MAX_SLOTS \in Nat
      /\ MAX_SLOTS * ROUND <= EPSILON
  BY SlotAssumption
<1>1. n * ROUND \in Nat /\ (n + 1) * ROUND = n * ROUND + ROUND
  BY <1>0
<1>2. (n + 1) * ROUND <= MAX_SLOTS * ROUND
  <2>1. PICK k \in Nat : MAX_SLOTS = n + 1 + k
    <3>1. MAX_SLOTS - (n + 1) \in Nat /\ MAX_SLOTS = n + 1 + (MAX_SLOTS - (n + 1))
      BY <1>0
    <3> QED
      BY <3>1
  <2>2. MAX_SLOTS * ROUND = (n + 1) * ROUND + k * ROUND /\ k * ROUND \in Nat
    BY <1>0, <2>1
  <2>3. (n + 1) * ROUND \in Nat
    BY <1>0, <1>1
  <2> QED
    BY <1>0, <2>2, <2>3
<1> QED
  BY <1>0, <1>1, <1>2

\* One tread in one slot: a slot that is due is driven, and no other.
LEMMA TreadSteps ==
    ASSUME NEW n \in Nat, n < MAX_SLOTS, NEW acc \in Int, NEW owed \in 0..(FULL - 1),
           -(n * ROUND) <= acc - GRID * owed, acc - GRID * owed <= n * ROUND,
           NEW duty \in 0..FULL, NEW off \in ROUNDING,
           NEW sum, sum = acc + GRID * duty + off,
           NEW acc1, acc1 = IF Driven(sum) THEN sum - GRID * FULL ELSE sum,
           NEW owed1, owed1 = IF Driven(sum) THEN owed + duty - FULL ELSE owed + duty
    PROVE  /\ acc1 \in Int /\ owed1 \in 0..(FULL - 1)
           /\ -((n + 1) * ROUND) <= acc1 - GRID * owed1
           /\ acc1 - GRID * owed1 <= (n + 1) * ROUND
<1>0. /\ GRID \in Nat /\ FULL \in Nat /\ ROUND \in Nat /\ EPSILON \in Nat
      /\ 2 * EPSILON < GRID
      /\ off \in Int /\ -ROUND <= off /\ off <= ROUND
      /\ owed \in Int /\ duty \in Int
  BY SlotAssumption
<1> DEFINE most == (n + 1) * ROUND
           err == acc - GRID * owed + off
<1>1. /\ most \in Nat /\ most = n * ROUND + ROUND /\ most <= EPSILON
      /\ n * ROUND \in Nat
  BY <1>0, Roundings
<1>2. err \in Int /\ -most <= err /\ err <= most
  <2>1. GRID * owed \in Int
    BY <1>0
  <2> HIDE DEF most
  <2> QED
    BY <1>0, <1>1, <2>1
<1> DEFINE left == owed + duty - FULL
<1>3. /\ left \in Int
      /\ sum = GRID * left + GRID * FULL + err
      /\ GRID * left \in Int /\ GRID * FULL \in Int
  BY <1>0
<1>4. CASE Driven(sum)
  <2>1. GRID * left + err >= -EPSILON
    <3> HIDE DEF err, left
    <3> QED
      BY <1>0, <1>2, <1>3, <1>4 DEF Driven
  <2>2. left >= 0
    <3> HIDE DEF err, left, most
    <3>1. GRID * left > -GRID
      BY <1>0, <1>1, <1>2, <1>3, <2>1
    <3> QED
      BY <1>3, <3>1, Multiples
  <2>3. acc1 = sum - GRID * FULL /\ owed1 = left
    BY <1>4
  <2>4. acc1 - GRID * owed1 = err /\ acc1 \in Int
    <3> HIDE DEF err, left
    <3> QED
      BY <1>2, <1>3, <2>3
  <2>5. owed1 \in 0..(FULL - 1)
    BY <1>0, <2>2, <2>3
  <2> HIDE DEF err, most
  <2> QED
    BY <1>2, <2>4, <2>5 DEF most
<1>5. CASE ~Driven(sum)
  <2>1. GRID * left + err < -EPSILON
    <3> HIDE DEF err, left
    <3> QED
      BY <1>0, <1>2, <1>3, <1>5 DEF Driven
  <2>2. left < 0
    <3> HIDE DEF err, left, most
    <3>1. GRID * left < 0
      BY <1>0, <1>1, <1>2, <1>3, <2>1
    <3> QED
      BY <1>3, <3>1, Multiples
  <2>3. acc1 = sum /\ owed1 = owed + duty
    BY <1>5
  <2>4. acc1 - GRID * owed1 = err /\ acc1 \in Int
    BY <1>0, <2>3
  <2>5. owed1 \in 0..(FULL - 1)
    BY <1>0, <2>2, <2>3
  <2> HIDE DEF err, most
  <2> QED
    BY <1>2, <2>4, <2>5 DEF most
<1> QED
  BY <1>4, <1>5

\* A run starts with nothing due.
LEMMA NothingDue ==
    ASSUME accumulator = NoDebt, due = NoDebt, slots = 0
    PROVE  SlotInv
<1>1. /\ FULL \in Nat \ {0} /\ MAX_SLOTS \in Nat /\ GRID \in Nat /\ ROUND \in Nat
  BY SlotAssumption
<1>2. \A t \in Treads : accumulator[t] = 0 /\ due[t] = 0
  BY DEF NoDebt
<1>3. GRID * 0 = 0 /\ 0 * ROUND = 0
  BY <1>1
<1> QED
  BY <1>1, <1>2, <1>3 DEF SlotInv, SlotsAreExact, Off, NoDebt

\* A slot keeps SlotInv, tread by tread.
LEMMA SlotKeeps ==
    ASSUME SlotInv, NEW duty \in Duties, Slot(duty)
    PROVE  SlotInv'
<1>0. /\ slots \in Nat /\ slots < MAX_SLOTS /\ slots' = slots + 1
      /\ slots' \in 0..MAX_SLOTS
  BY SlotAssumption DEF SlotInv, Slot
<1>1. PICK off \in [Treads -> ROUNDING] :
        LET sum == [t \in Treads |-> accumulator[t] + GRID * duty[t] + off[t]]
        IN  /\ accumulator' = [t \in Treads |->
                                 IF Driven(sum[t]) THEN sum[t] - GRID * FULL ELSE sum[t]]
            /\ due' = [t \in Treads |->
                         IF Driven(sum[t]) THEN due[t] + duty[t] - FULL
                                           ELSE due[t] + duty[t]]
  BY DEF Slot
<1>2. ASSUME NEW t \in Treads
      PROVE  /\ accumulator'[t] \in Int /\ due'[t] \in 0..(FULL - 1)
             /\ -((slots + 1) * ROUND) <= accumulator'[t] - GRID * due'[t]
             /\ accumulator'[t] - GRID * due'[t] <= (slots + 1) * ROUND
  <2> DEFINE sum == accumulator[t] + GRID * duty[t] + off[t]
  <2>1. /\ accumulator'[t] = IF Driven(sum) THEN sum - GRID * FULL ELSE sum
        /\ due'[t] = IF Driven(sum) THEN due[t] + duty[t] - FULL ELSE due[t] + duty[t]
    BY <1>1
  <2>2. /\ accumulator[t] \in Int /\ due[t] \in 0..(FULL - 1)
        /\ -(slots * ROUND) <= accumulator[t] - GRID * due[t]
        /\ accumulator[t] - GRID * due[t] <= slots * ROUND
    BY DEF SlotInv, SlotsAreExact, Off
  <2>3. duty[t] \in 0..FULL /\ off[t] \in ROUNDING
    BY <1>1 DEF Duties
  <2>4. sum = accumulator[t] + GRID * duty[t] + off[t]
    OBVIOUS
  <2> HIDE DEF sum
  <2> QED
    BY <1>0, <2>1, <2>2, <2>3, <2>4, TreadSteps
<1>3. accumulator' \in [Treads -> Int] /\ due' \in [Treads -> Int]
  <2>1. accumulator' = [t \in Treads |-> accumulator'[t]]
        /\ due' = [t \in Treads |-> due'[t]]
    BY <1>1
  <2>2. \A t \in Treads : due'[t] \in Int
    BY <1>2
  <2> QED
    BY <1>2, <2>1, <2>2
<1> QED
  BY <1>0, <1>2, <1>3 DEF SlotInv, SlotsAreExact, Off

LEMMA SlotStep ==
    ASSUME SlotInv, [SlotNext]_slotVars
    PROVE  SlotInv'
<1>1. CASE SlotReset
  <2>1. accumulator' = NoDebt /\ due' = NoDebt /\ slots' = 0
    BY <1>1 DEF SlotReset
  <2>2. /\ FULL \in Nat \ {0} /\ MAX_SLOTS \in Nat /\ GRID \in Nat /\ ROUND \in Nat
    BY SlotAssumption
  <2>3. GRID * 0 = 0 /\ 0 * ROUND = 0
    BY <2>2
  <2> QED
    BY <2>1, <2>2, <2>3 DEF SlotInv, SlotsAreExact, Off, NoDebt
<1>2. CASE \E duty \in Duties : Slot(duty)
  BY <1>2, SlotKeeps
<1>3. CASE UNCHANGED slotVars
  BY <1>3 DEF slotVars, SlotInv, SlotsAreExact, Off
<1> QED
  BY <1>1, <1>2, <1>3 DEF SlotNext

\* Rounding neither drops a slot that is due nor drives one that is not, for
\* any duties, tolerance and length of a run that fits the tolerance.
THEOREM SlotsExact == SlotSpec => []SlotsAreExact
<1>1. SlotInit => SlotInv
  BY NothingDue DEF SlotInit
<1>2. SlotInv => SlotsAreExact
  BY DEF SlotInv
<1> QED
  BY <1>1, <1>2, SlotStep, PTL DEF SlotSpec

-----------------------------------------------------------------------------
(* What holds of the estimator and of the base. *)

Bases == [heading : Int, rate : Int, wired : {1, -1}, drift : {-1, 0, 1},
          offset : {0, 1}, awake : BOOLEAN, moved : BOOLEAN]

Estimators == [yaw : Int, rate : Int, bias : Int, since : Nat, still : Int,
               stationary : BOOLEAN]

Places == {"between", "driving", "settling", "ended"}
Verdicts == {"none", "done", "unmoved", "ranaway", "raised", "turn"}

Runs == [pc : Places, legs : Nat, reverse : BOOLEAN, moving : BOOLEAN,
         still : BOOLEAN, end : Verdicts, calibrated : BOOLEAN]

HoldTypes ==
    /\ base \in Bases /\ estimator \in Estimators /\ run \in Runs
    /\ integral \in Int /\ missed \in Nat

\* The most the base turns in a tick.
Rate == TURN + 1

Lag == base.heading - estimator.yaw

\* What the service knows of the gyro and of the heading.  While samples are
\* missing the yaw lags by what has been turned since the last one; the sample
\* that ends the gap makes up for it at the rate of its own moment.
YawInv ==
    /\ BiasIsUntaught
    /\ estimator.since <= missed
    /\ Calibrated =>
         /\ estimator.bias = base.offset
         /\ -(2 * Rate * missed - Rate * estimator.since) <= Lag
         /\ Lag <= 2 * Rate * missed - Rate * estimator.since

-----------------------------------------------------------------------------
(* Arithmetic. *)

LEMMA Products ==
    ASSUME NEW r \in Int, NEW R \in Nat, -R <= r, r <= R, NEW n \in Nat
    PROVE  /\ r * n \in Int /\ R * n \in Nat
           /\ -(R * n) <= r * n /\ r * n <= R * n
           /\ r * (n + 1) = r * n + r /\ R * (n + 1) = R * n + R
<1>1. r * n \in Int /\ R * n \in Nat
  BY Z3
<1>2. PICK a \in Nat : R = r + a
  <2>1. R - r \in Nat /\ R = r + (R - r)
    OBVIOUS
  <2> QED
    BY <2>1
<1>3. PICK b \in Nat : r = b - R
  <2>1. r + R \in Nat /\ r = (r + R) - R
    OBVIOUS
  <2> QED
    BY <2>1
<1>4. a * n \in Nat /\ b * n \in Nat /\ R * n = r * n + a * n /\ r * n = b * n - R * n
  BY <1>2, <1>3
<1>5. -(R * n) <= r * n /\ r * n <= R * n
  BY <1>1, <1>4
<1>6. r * (n + 1) = r * n + r /\ R * (n + 1) = R * n + R
  OBVIOUS
<1> QED
  BY <1>1, <1>5, <1>6

\* The integer part of a product over what bounds one factor is within the other.
LEMMA Quotient ==
    ASSUME NEW x \in 0..FULL, NEW y \in 0..FULL
    PROVE  (x * y) \div FULL \in 0..y
<1>0. FULL \in Nat /\ FULL > 0
  BY SlotAssumption
<1>1. x * y \in Nat /\ x * y <= FULL * y
  BY <1>0, Products
<1> DEFINE z == x * y
           q == z \div FULL
<1>2. q \in Int /\ FULL * q <= z /\ z < FULL * q + FULL
  <2>1. z \in Nat
    BY <1>1
  <2> HIDE DEF z
  <2> QED
    BY <1>0, <2>1
<1>3. q >= 0
  <2> SUFFICES ASSUME q <= -1 PROVE FALSE
    BY <1>2
  <2>1. FULL * q <= -FULL
    BY <1>0, <1>2
  <2> QED
    BY <1>0, <1>1, <1>2, <2>1
<1>4. q <= y
  <2> SUFFICES ASSUME q >= y + 1 PROVE FALSE
    BY <1>2
  <2>1. FULL * q >= FULL * y + FULL
    BY <1>0, <1>2
  <2> QED
    BY <1>0, <1>1, <1>2, <2>1
<1> QED
  BY <1>2, <1>3, <1>4

-----------------------------------------------------------------------------
(* Steering. *)

LEMMA DemandTyped ==
    ASSUME integral \in Int, NEW error \in Int
    PROVE  Demand(error) \in Int /\ Integrated(error) \in Int
  BY HoldAssumption DEF Demand, Integrated, Clamp

\* The tread that is held back has a duty like any other.
LEMMA ReducedTyped ==
    ASSUME NEW demand \in Int
    PROVE  Reduced(demand) \in 0..FULL
<1>0. FULL \in Nat /\ MIN_DUTY \in 0..FULL
  BY SlotAssumption, HoldAssumption
<1>1. Magnitude(Clamp(demand, FULL)) \in 0..FULL
  BY <1>0 DEF Magnitude, Clamp
<1>2. FULL - MIN_DUTY \in 0..FULL
  BY <1>0
<1>3. (Magnitude(Clamp(demand, FULL)) * (FULL - MIN_DUTY)) \div FULL \in 0..(FULL - MIN_DUTY)
  BY <1>1, <1>2, Quotient
<1> QED
  BY <1>0, <1>3 DEF Reduced

LEMMA DutiesTyped ==
    ASSUME integral \in Int, NEW error \in Int, NEW reverse
    PROVE  SteeringDuties(error, reverse) \in Duties
<1>1. Reduced(Demand(error)) \in 0..FULL /\ FULL \in 0..FULL
  BY DemandTyped, ReducedTyped, SlotAssumption
<1> QED
  BY <1>1 DEF SteeringDuties, Duties

\* A step of the legs is a slot, a reset or nothing to the accumulators.
LEMMA SlotsOfNext ==
    ASSUME HoldTypes, [Next]_vars
    PROVE  [SlotNext]_slotVars
<1>1. CASE Rest \/ Raise \/ TurnAborts \/ \E reverse \in BOOLEAN : BeginLeg(reverse)
  BY <1>1 DEF Rest, Raise, TurnAborts, Leave, BeginLeg, SlotNext
<1>2. CASE Drive
  <2>1. Error \in Int /\ integral \in Int
    BY DEF HoldTypes, Estimators, Error
  <2>2. SteeringDuties(Error, run.reverse) \in Duties
    BY <2>1, DutiesTyped
  <2> QED
    BY <1>2, <2>2 DEF Drive, SlotNext
<1>3. CASE Calibrate \/ Pivot \/ Finish \/ Settled \/ UNCHANGED vars
  BY <1>3 DEF Calibrate, Pivot, Finish, Settled, vars, slotVars
<1> QED
  BY <1>1, <1>2, <1>3 DEF Next

-----------------------------------------------------------------------------
(* The estimator. *)

LEMMA AgedTyped ==
    ASSUME NEW e \in Estimators
    PROVE  /\ Aged(e) \in Estimators
           /\ Aged(e).yaw = e.yaw /\ Aged(e).bias = e.bias
           /\ Aged(e).since = e.since + 1
<1> DEFINE still == IF e.still = Never THEN Never
                    ELSE IF e.still < HOLD THEN e.still + 1 ELSE e.still
           since == e.since + 1
<1>1. still \in Int /\ since \in Nat /\ since = e.since + 1
  BY DEF Estimators, Never
<1>2. Aged(e) = [e EXCEPT !.since = since, !.still = still]
  BY DEF Aged
<1> HIDE DEF still, since
<1>3. Aged(e) \in Estimators
  BY <1>1, <1>2 DEF Estimators
<1>4. Aged(e).yaw = e.yaw /\ Aged(e).bias = e.bias /\ Aged(e).since = e.since + 1
  BY <1>1, <1>2 DEF Estimators
<1> QED
  BY <1>3, <1>4

\* A sample is used unless it ends a gap, and moves the bias of a base only that
\* does not shake.
LEMMA UpdatedTyped ==
    ASSUME NEW e \in Estimators, NEW gyro \in Int, NEW shaking \in BOOLEAN,
           e.since > 0, NEW u, u = Updated(e, gyro, shaking)
    PROVE  /\ u \in Estimators /\ u.since = 0
           /\ \/ u.bias = e.bias
              \/ ~shaking /\ gyro > e.bias /\ u.bias = e.bias + 1
              \/ ~shaking /\ gyro < e.bias /\ u.bias = e.bias - 1
           /\ e.since > GAP => u.yaw = e.yaw /\ u.bias = e.bias
           /\ e.since <= GAP => u.yaw = e.yaw + (gyro - u.bias) * e.since
<1>0. HOLD \in Nat /\ GAP \in Nat
  BY EstimatorAssumption
<1>1. CASE e.since > GAP
  <2>1. u = [e EXCEPT !.since = 0]
    BY <1>1, <1>0 DEF Updated, Stamped, Estimators
  <2> QED
    BY <1>0, <1>1, <2>1 DEF Estimators
<1>2. CASE e.since <= GAP
  <2> DEFINE f == Stilled(e, gyro, shaking)
             g == Tracked(f, gyro)
  <2>1. /\ f \in Estimators /\ f.yaw = e.yaw /\ f.bias = e.bias /\ f.since = e.since
        /\ f.stationary => ~shaking
    <3> DEFINE still == IF Disturbed(e, gyro, shaking) THEN Never
                        ELSE IF e.still = Never THEN 0 ELSE e.still
    <3>1. still \in Int /\ (still >= HOLD) \in BOOLEAN
      BY <1>0 DEF Estimators, Never
    <3>2. still >= HOLD => ~shaking
      BY <1>0 DEF Disturbed, Never
    <3>3. f = [e EXCEPT !.still = still, !.stationary = still >= HOLD]
      BY DEF Stilled
    <3> HIDE DEF still, f
    <3> QED
      BY <3>1, <3>2, <3>3 DEF Estimators
  <2>2. /\ g \in Estimators /\ g.yaw = e.yaw /\ g.since = e.since
        /\ \/ g.bias = e.bias
           \/ ~shaking /\ gyro > e.bias /\ g.bias = e.bias + 1
           \/ ~shaking /\ gyro < e.bias /\ g.bias = e.bias - 1
    <3> HIDE DEF f
    <3> QED
      BY <2>1 DEF Tracked, Estimators
  <2>3. u = [g EXCEPT !.since = 0, !.rate = gyro - g.bias,
                      !.yaw = g.yaw + (gyro - g.bias) * e.since]
    <3>1. ~(e.since = 0 \/ e.since > GAP)
      BY <1>0, <1>2 DEF Estimators
    <3>2. u = [Stamped(g) EXCEPT !.rate = gyro - g.bias,
                                 !.yaw = g.yaw + (gyro - g.bias) * e.since]
      BY <3>1 DEF Updated
    <3> HIDE DEF g
    <3> QED
      BY <2>2, <3>2 DEF Stamped, Estimators
  <2>4. (gyro - g.bias) * e.since \in Int /\ gyro - g.bias \in Int
    <3> HIDE DEF g
    <3> QED
      BY <2>2 DEF Estimators
  <2> HIDE DEF g
  <2>5. /\ u \in Estimators /\ u.since = 0 /\ u.bias = g.bias
        /\ u.yaw = g.yaw + (gyro - g.bias) * e.since
    <3> DEFINE rate == gyro - g.bias
               yaw == g.yaw + rate * e.since
    <3>1. rate \in Int /\ yaw \in Int
      BY <2>2, <2>4 DEF Estimators
    <3>2. u = [g EXCEPT !.since = 0, !.rate = rate, !.yaw = yaw]
      BY <2>3
    <3>3. yaw = g.yaw + (gyro - g.bias) * e.since
      OBVIOUS
    <3> HIDE DEF rate, yaw
    <3>4. u \in Estimators
      <4>1. g \in Estimators /\ 0 \in Nat
        BY <2>2
      <4> QED
        BY <3>1, <3>2, <4>1 DEF Estimators
    <3>5. u.since = 0 /\ u.bias = g.bias /\ u.yaw = yaw
      BY <2>2, <3>2 DEF Estimators
    <3> QED
      BY <3>3, <3>4, <3>5
  <2> QED
    BY <1>0, <1>2, <2>2, <2>5 DEF Estimators
<1> QED
  BY <1>0, <1>1, <1>2 DEF Estimators

-----------------------------------------------------------------------------
(* A tick. *)

\* The base turns by no more than Rate, and only when it shakes.
LEMMA Rolled ==
    ASSUME base \in Bases, NEW driven \in BOOLEAN, Roll(driven)
    PROVE  /\ base' \in Bases
           /\ base'.offset = base.offset
           /\ base'.heading = base.heading + base'.rate
           /\ -Rate <= base'.rate /\ base'.rate <= Rate /\ Rate \in Nat
           /\ ~(base'.awake /\ driven) => base'.rate = 0
<1>0. TURN \in Nat
  BY HoldAssumption
<1>1. PICK awake \in {base.awake, base.awake \/ (driven /\ slots <= WAKE)} :
        LET moves == awake /\ driven
            rate == IF moves
                    THEN base.wired * TURN * (Pull("right") - Pull("left")) + base.drift
                    ELSE 0
        IN  base' = [base EXCEPT !.heading = @ + rate, !.rate = rate, !.awake = awake,
                                 !.moved = @ \/ moves]
  BY DEF Roll
<1> DEFINE turned == base.wired * TURN * (Pull("right") - Pull("left")) + base.drift
           rate == IF awake /\ driven THEN turned ELSE 0
<1>2. Pull("right") - Pull("left") \in {-1, 0, 1}
  BY DEF Pull
<1>3. turned \in Int /\ -Rate <= turned /\ turned <= Rate /\ Rate \in Nat
  <2>1. base.wired \in {1, -1} /\ base.drift \in {-1, 0, 1}
    BY DEF Bases
  <2>2. base.wired * TURN \in {TURN, -TURN}
    BY <1>0, <2>1
  <2>3. base.wired * TURN * (Pull("right") - Pull("left")) \in {TURN, -TURN, 0}
    BY <1>0, <1>2, <2>2
  <2> QED
    BY <1>0, <2>1, <2>3 DEF Rate
<1>4. awake \in BOOLEAN
  BY <1>1 DEF Bases
<1>5. base' = [base EXCEPT !.heading = @ + rate, !.rate = rate, !.awake = awake,
                           !.moved = @ \/ (awake /\ driven)]
  BY <1>1
<1> HIDE DEF turned
<1>6. rate \in Int /\ -Rate <= rate /\ rate <= Rate
  BY <1>3
<1>7. ~(awake /\ driven) => rate = 0
  OBVIOUS
<1> DEFINE moved == base.moved \/ (awake /\ driven)
           heading == base.heading + rate
<1>8. moved \in BOOLEAN /\ heading \in Int
  BY <1>4, <1>6 DEF Bases
<1>9. base' = [base EXCEPT !.heading = heading, !.rate = rate, !.awake = awake,
                           !.moved = moved]
  BY <1>5
<1>10. heading = base.heading + rate
  OBVIOUS
<1> HIDE DEF rate, moved, heading
<1>11. base' \in Bases
  BY <1>4, <1>6, <1>8, <1>9 DEF Bases
<1>12. /\ base'.offset = base.offset /\ base'.heading = heading
       /\ base'.rate = rate /\ base'.awake = awake
  BY <1>9 DEF Bases
<1> QED
  BY <1>3, <1>6, <1>7, <1>10, <1>11, <1>12

\* A tick, with its sample or without it, keeps the types and YawInv.
LEMMA TickKeeps ==
    ASSUME HoldTypes, YawInv, NEW driven \in BOOLEAN, Roll(driven), Sample(driven),
           run' \in Runs, run'.calibrated = run.calibrated
    PROVE  /\ base' \in Bases /\ estimator' \in Estimators /\ missed' \in Nat
           /\ YawInv'
<1> DEFINE r == base'.rate
           n == estimator.since
           aged == Aged(estimator)
           shaking == base'.awake /\ driven
           gyro == r + base.offset
<1>0. /\ base \in Bases /\ estimator \in Estimators /\ missed \in Nat
      /\ n \in Nat /\ GAP \in Nat /\ GAP >= 1
      /\ base.offset \in {0, 1} /\ estimator.bias \in {0, base.offset}
      /\ Lag \in Int /\ n <= missed
  BY EstimatorAssumption DEF HoldTypes, YawInv, BiasIsUntaught, Bases, Estimators, Lag
<1>1. /\ base' \in Bases /\ base'.offset = base.offset
      /\ base'.heading = base.heading + r
      /\ r \in Int /\ -Rate <= r /\ r <= Rate /\ Rate \in Nat
      /\ ~shaking => r = 0
      /\ shaking \in BOOLEAN
  BY <1>0, Rolled DEF Bases
<1>2. /\ aged \in Estimators /\ aged.yaw = estimator.yaw
      /\ aged.bias = estimator.bias /\ aged.since = n + 1
  BY <1>0, AgedTyped
<1>3. Calibrated' <=> Calibrated
  BY <1>1 DEF Calibrated
<1>4. /\ Rate * missed \in Nat /\ Rate * n \in Nat /\ r * n \in Int
      /\ -(Rate * n) <= r * n /\ r * n <= Rate * n
      /\ Rate * (missed + 1) = Rate * missed + Rate
      /\ Rate * (n + 1) = Rate * n + Rate /\ r * (n + 1) = r * n + r
      /\ \A k \in Nat : 2 * Rate * k = 2 * (Rate * k)
  <2> HIDE DEF r, n
  <2> QED
    BY <1>0, <1>1, Products
<1>5. ASSUME Calibrated
      PROVE  /\ estimator.bias = base.offset
             /\ -(2 * (Rate * missed) - Rate * n) <= Lag
             /\ Lag <= 2 * (Rate * missed) - Rate * n
  BY <1>0, <1>4, <1>5 DEF YawInv
<1>6. Lag' = Lag + r + estimator.yaw - estimator'.yaw
      \/ estimator' \notin Estimators
  BY <1>0, <1>1 DEF Lag, Bases, Estimators
<1>7. CASE missed' = missed + 1 /\ estimator' = aged
  <2>1. missed' \in Nat /\ estimator' \in Estimators /\ estimator'.since = n + 1
        /\ n + 1 <= missed' /\ estimator'.bias = estimator.bias /\ Lag' = Lag + r
    <3> HIDE DEF r, n, aged
    <3> QED
      BY <1>0, <1>1, <1>2, <1>6, <1>7 DEF Estimators
  <2>2. ASSUME Calibrated
        PROVE  /\ -(2 * Rate * missed' - Rate * (n + 1)) <= Lag + r
               /\ Lag + r <= 2 * Rate * missed' - Rate * (n + 1)
    <3>1. 2 * Rate * missed' = 2 * (Rate * missed) + 2 * Rate
      BY <1>0, <1>1, <1>4, <1>7
    <3> HIDE DEF r, n
    <3> QED
      BY <1>0, <1>1, <1>4, <1>5, <2>2, <3>1
  <2>3. YawInv'
    <3> HIDE DEF r, n
    <3> QED
      BY <1>0, <1>1, <1>3, <1>5, <2>1, <2>2 DEF YawInv, BiasIsUntaught, Rate
  <2> QED
    BY <1>1, <2>1, <2>3
<1>8. CASE missed' = missed /\ estimator' = Updated(aged, gyro, shaking)
  <2>1. gyro \in Int /\ aged.since > 0
    BY <1>0, <1>1, <1>2
  <2>2. /\ estimator' \in Estimators /\ estimator'.since = 0
        /\ \/ estimator'.bias = estimator.bias
           \/ ~shaking /\ gyro > estimator.bias /\ estimator'.bias = estimator.bias + 1
           \/ ~shaking /\ gyro < estimator.bias /\ estimator'.bias = estimator.bias - 1
        /\ n + 1 > GAP => estimator'.yaw = estimator.yaw
        /\ n + 1 <= GAP =>
             estimator'.yaw = estimator.yaw + (gyro - estimator'.bias) * (n + 1)
    <3>1. shaking \in BOOLEAN
      BY <1>1
    <3> HIDE DEF gyro, shaking, n, aged
    <3> QED
      BY <1>2, <1>8, <2>1, <3>1, UpdatedTyped
  <2>3. /\ estimator'.bias \in {0, base.offset}
        /\ estimator.bias = base.offset => estimator'.bias = base.offset
    <3>1. ~shaking => gyro = base.offset
      BY <1>0, <1>1
    <3> HIDE DEF gyro, shaking
    <3> QED
      BY <1>0, <2>2, <3>1
  <2>4. ASSUME Calibrated
        PROVE  -(2 * (Rate * missed)) <= Lag' /\ Lag' <= 2 * (Rate * missed)
    <3>1. estimator'.bias = base.offset /\ gyro - estimator'.bias = r
      BY <1>0, <1>1, <1>5, <2>3, <2>4
    <3>2. CASE n + 1 > GAP
      <4>1. n >= 1 /\ Lag' = Lag + r
        <5> HIDE DEF r, n
        <5> QED
          BY <1>0, <1>1, <1>6, <2>2, <3>2 DEF Estimators
      <4>2. Rate * n >= Rate
        <5>1. PICK k \in Nat : n = k + 1
          <6>1. n - 1 \in Nat /\ n = (n - 1) + 1
            BY <1>0, <4>1
          <6> QED
            BY <6>1
        <5>2. Rate * n = Rate * k + Rate /\ Rate * k \in Nat
          BY <1>1, <5>1, Products
        <5> QED
          BY <1>1, <5>2
      <4> DEFINE m == Rate * missed
                 turned == Rate * n
      <4>3. /\ m \in Nat /\ turned \in Nat /\ turned >= Rate /\ Rate \in Nat
            /\ r \in Int /\ -Rate <= r /\ r <= Rate
            /\ -(2 * m - turned) <= Lag /\ Lag <= 2 * m - turned
            /\ Lag' = Lag + r
        BY <1>1, <1>4, <1>5, <2>4, <4>1, <4>2
      <4> HIDE DEF m, turned, r
      <4>4. -(2 * m) <= Lag' /\ Lag' <= 2 * m
        BY <1>0, <4>3
      <4> QED
        BY <4>4 DEF m
    <3>3. CASE n + 1 <= GAP
      <4>1. Lag' = Lag - r * n
        <5>1. estimator'.yaw = estimator.yaw + (r * n + r)
          <6> HIDE DEF r, n, gyro
          <6> QED
            BY <1>4, <2>2, <3>1, <3>3
        <5> HIDE DEF r, n
        <5> QED
          BY <1>0, <1>1, <1>4, <1>6, <2>2, <5>1 DEF Estimators
      <4> DEFINE m == Rate * missed
                 turned == Rate * n
                 ended == r * n
      <4>2. /\ m \in Nat /\ turned \in Nat /\ ended \in Int
            /\ -turned <= ended /\ ended <= turned
            /\ -(2 * m - turned) <= Lag /\ Lag <= 2 * m - turned
            /\ Lag' = Lag - ended
        BY <1>4, <1>5, <2>4, <4>1
      <4> HIDE DEF m, turned, ended
      <4>3. -(2 * m) <= Lag' /\ Lag' <= 2 * m
        BY <1>0, <4>2
      <4> QED
        BY <4>3 DEF m
    <3> QED
      BY <1>0, <3>2, <3>3
  <2>5. YawInv'
    <3>1. missed' = missed /\ Rate * 0 = 0 /\ 2 * Rate * missed = 2 * (Rate * missed)
      BY <1>0, <1>1, <1>4, <1>8
    <3> HIDE DEF r, n
    <3> QED
      BY <1>0, <1>1, <1>3, <1>4, <1>5, <2>2, <2>3, <2>4, <3>1
      DEF YawInv, BiasIsUntaught, Rate
  <2> QED
    BY <1>0, <1>1, <1>8, <2>2, <2>5
<1>9. /\ base'.rate + base.offset = gyro
      /\ \/ missed' = missed + 1 /\ estimator' = aged
         \/ missed' = missed /\ estimator' = Updated(aged, gyro, shaking)
  BY DEF Sample
<1> QED
  BY <1>7, <1>8, <1>9

-----------------------------------------------------------------------------
(* The steps. *)

LEMMA HoldInit ==
    ASSUME Init
    PROVE  HoldTypes /\ YawInv
<1>0. HOLD \in Nat /\ Rate \in Nat /\ DRIFTS \subseteq {-1, 0, 1}
  BY EstimatorAssumption, HoldAssumption DEF Rate
<1>1. /\ base \in Bases /\ base.heading = 0
  <2>1. base \in [heading : {0}, rate : {0}, wired : {1, -1}, drift : DRIFTS,
                  offset : {0, 1}, awake : {FALSE}, moved : {FALSE}]
    BY DEF Init
  <2>2. base.heading = 0
    BY <2>1
  <2>3. base \in Bases
    <3>1. /\ base.heading \in Int /\ base.rate \in Int /\ base.wired \in {1, -1}
          /\ base.drift \in {-1, 0, 1} /\ base.offset \in {0, 1}
          /\ base.awake \in BOOLEAN /\ base.moved \in BOOLEAN
      <4>1. base.heading = 0 /\ base.rate = 0
        BY <2>1
      <4>2. base.wired \in {1, -1} /\ base.offset \in {0, 1}
        BY <2>1
      <4>3. base.drift \in {-1, 0, 1}
        <5>1. base.drift \in DRIFTS
          BY <2>1
        <5> QED
          BY <1>0, <5>1
      <4>4. base.awake = FALSE /\ base.moved = FALSE
        BY <2>1
      <4>5. base.awake \in BOOLEAN /\ base.moved \in BOOLEAN
        BY <4>4, Zenon
      <4>6. base.heading \in Int /\ base.rate \in Int
        BY <4>1
      <4> QED
        BY <4>2, <4>3, <4>5, <4>6, Zenon
    <3>2. base = [heading |-> base.heading, rate |-> base.rate, wired |-> base.wired,
                  drift |-> base.drift, offset |-> base.offset, awake |-> base.awake,
                  moved |-> base.moved]
      BY <2>1
    <3> QED
      BY <3>1, <3>2 DEF Bases
  <2> QED
    BY <2>2, <2>3
<1>2. /\ estimator \in Estimators /\ estimator.yaw = 0
      /\ estimator.bias = 0 /\ estimator.since = 0
  <2>1. PICK still \in {Never, HOLD} :
          estimator = [yaw |-> 0, rate |-> 0, bias |-> 0, since |-> 0,
                       still |-> still, stationary |-> still >= HOLD]
    BY DEF Init, Estimator
  <2>2. still \in Int /\ (still >= HOLD) \in BOOLEAN
    BY <1>0 DEF Never
  <2>3. estimator \in Estimators
    BY <2>1, <2>2 DEF Estimators
  <2>4. estimator.yaw = 0 /\ estimator.bias = 0 /\ estimator.since = 0
    BY <2>1
  <2> QED
    BY <2>3, <2>4
<1>3. /\ run \in Runs /\ ~run.calibrated /\ integral = 0 /\ missed = 0
  <2>1. run = [pc |-> "between", legs |-> 0, reverse |-> FALSE, moving |-> FALSE,
               still |-> FALSE, end |-> "none", calibrated |-> FALSE]
    BY DEF Init
  <2>2. run \in Runs
    BY <2>1 DEF Runs, Places, Verdicts
  <2>3. ~run.calibrated
    BY <2>1
  <2> QED
    BY <2>2, <2>3 DEF Init
<1>4. HoldTypes
  BY <1>1, <1>2, <1>3 DEF HoldTypes
<1>5. Lag = 0 /\ Rate * 0 = 0 /\ 2 * Rate * 0 = 0
  BY <1>0, <1>1, <1>2 DEF Lag
<1> QED
  BY <1>2, <1>3, <1>4, <1>5 DEF YawInv, BiasIsUntaught, Calibrated

\* A program that leaves has changed nothing the estimator knows.
LEMMA LeaveKeeps ==
    ASSUME HoldTypes, YawInv, Raise \/ TurnAborts
    PROVE  HoldTypes' /\ YawInv'
<1>0. run \in Runs /\ "ended" \in Places /\ {"raised", "turn"} \subseteq Verdicts
  BY DEF HoldTypes, Places, Verdicts
<1>1. PICK end \in Verdicts : run' = [run EXCEPT !.pc = "ended", !.end = end]
  BY <1>0 DEF Raise, TurnAborts, Leave
<1>2. run' \in Runs /\ run'.calibrated = run.calibrated
  <2>1. run' \in Runs
    BY <1>0, <1>1 DEF Runs
  <2>2. run'.calibrated = run.calibrated
    BY <1>0, <1>1 DEF Runs
  <2> QED
    BY <2>1, <2>2
<1>3. UNCHANGED <<base, estimator, missed>> /\ integral' = 0
  BY DEF Raise, TurnAborts, Leave
<1> QED
  BY <1>2, <1>3 DEF HoldTypes, YawInv, BiasIsUntaught, Calibrated, Lag

\* The mean of a quiet capture is the offset, and angles start at nothing.
LEMMA CalibrateKeeps ==
    ASSUME HoldTypes, YawInv, Calibrate
    PROVE  HoldTypes' /\ YawInv'
<1>0. /\ base \in Bases /\ estimator \in Estimators /\ run \in Runs
      /\ base.offset \in {0, 1}
      /\ UNCHANGED <<integral, missed>>
  BY DEF HoldTypes, Calibrate, Bases
<1>2. /\ estimator' = [estimator EXCEPT !.bias = base.offset, !.yaw = 0]
      /\ base' = [base EXCEPT !.heading = 0]
      /\ run' = [run EXCEPT !.calibrated = TRUE]
  BY DEF Calibrate
<1>3. run' \in Runs
  BY <1>0, <1>2 DEF Runs
<1>4. base' \in Bases /\ base'.heading = 0 /\ base'.offset = base.offset
  BY <1>0, <1>2 DEF Bases
<1>5. /\ estimator' \in Estimators /\ estimator'.yaw = 0
      /\ estimator'.bias = base.offset /\ estimator'.since = estimator.since
  <2> DEFINE offset == base.offset
  <2>1. /\ offset \in Int /\ 0 \in Int /\ estimator \in Estimators
        /\ estimator' = [estimator EXCEPT !.bias = offset, !.yaw = 0]
    BY <1>0, <1>2
  <2>2. estimator' \in Estimators
    <3> HIDE DEF offset
    <3> QED
      BY <2>1 DEF Estimators
  <2>3. /\ estimator'.yaw = 0 /\ estimator'.bias = base.offset
        /\ estimator'.since = estimator.since
    BY <1>0, <1>2 DEF Estimators
  <2> QED
    BY <2>2, <2>3
<1>6. 0 <= 2 * Rate * missed - Rate * estimator.since
  <2>1. /\ Rate \in Nat /\ missed \in Nat /\ estimator.since \in Nat
        /\ estimator.since <= missed
    BY <1>0, HoldAssumption DEF Rate, HoldTypes, Estimators, YawInv
  <2>2. PICK k \in Nat : missed = estimator.since + k
    <3>1. missed - estimator.since \in Nat
          /\ missed = estimator.since + (missed - estimator.since)
      BY <2>1
    <3> QED
      BY <3>1
  <2>3. /\ Rate * missed = Rate * estimator.since + Rate * k /\ Rate * k \in Nat
        /\ Rate * estimator.since \in Nat
        /\ 2 * Rate * missed = 2 * (Rate * missed)
    BY <2>1, <2>2
  <2> QED
    BY <2>3
<1>7. HoldTypes'
  BY <1>0, <1>3, <1>4, <1>5 DEF HoldTypes
<1>8. Lag' = 0
  BY <1>4, <1>5 DEF Lag
<1>9. missed' = missed /\ estimator.since <= missed /\ Rate' = Rate
      /\ 2 * Rate * missed - Rate * estimator.since \in Int
  <2>1. Rate \in Nat /\ missed \in Nat /\ estimator.since \in Nat
    BY <1>0, HoldAssumption DEF Rate, HoldTypes, Estimators
  <2> QED
    BY <1>0, <2>1 DEF YawInv, Rate
<1> HIDE DEF Rate
<1> QED
  BY <1>4, <1>5, <1>6, <1>7, <1>8, <1>9 DEF YawInv, BiasIsUntaught

\* A turn between two legs moves the base and the yaw alike.
LEMMA PivotKeeps ==
    ASSUME HoldTypes, YawInv, Pivot
    PROVE  HoldTypes' /\ YawInv'
<1>1. PICK residual \in RESIDUALS :
        /\ base' = [base EXCEPT !.heading = @ + (residual - estimator.yaw)]
        /\ estimator' = [estimator EXCEPT !.yaw = residual, !.still = Never,
                                          !.stationary = FALSE]
  BY DEF Pivot
<1>2. /\ base \in Bases /\ estimator \in Estimators /\ run \in Runs
      /\ residual \in Int /\ estimator.yaw \in Int /\ base.heading \in Int
      /\ UNCHANGED <<integral, missed>> /\ run' = [run EXCEPT !.legs = @ + 1]
  BY HoldAssumption DEF HoldTypes, Pivot, Bases, Estimators
<1> DEFINE heading == base.heading + (residual - estimator.yaw)
<1>3. heading \in Int /\ base' = [base EXCEPT !.heading = heading]
  BY <1>1, <1>2
<1>4. heading - residual = Lag
  BY <1>2 DEF Lag
<1> HIDE DEF heading
<1>5. base' \in Bases /\ base'.heading = heading /\ base'.offset = base.offset
  BY <1>2, <1>3 DEF Bases
<1>6. /\ estimator' \in Estimators /\ estimator'.yaw = residual
      /\ estimator'.bias = estimator.bias /\ estimator'.since = estimator.since
  <2>1. Never \in Int
    BY DEF Never
  <2>2. estimator' \in Estimators
    BY <1>1, <1>2, <2>1 DEF Estimators
  <2>3. /\ estimator'.yaw = residual /\ estimator'.bias = estimator.bias
        /\ estimator'.since = estimator.since
    BY <1>1, <1>2 DEF Estimators
  <2> QED
    BY <2>2, <2>3
<1>7. run' \in Runs /\ run'.calibrated = run.calibrated
  BY <1>2 DEF Runs
<1>8. Lag' = Lag
  BY <1>4, <1>5, <1>6 DEF Lag
<1> QED
  BY <1>2, <1>5, <1>6, <1>7, <1>8
  DEF HoldTypes, YawInv, BiasIsUntaught, Calibrated, Rate

\* A leg begins or ends: nothing the estimator knows is touched.
LEMMA LegKeeps ==
    ASSUME HoldTypes, YawInv,
           Settled \/ \E reverse \in BOOLEAN : BeginLeg(reverse)
    PROVE  HoldTypes' /\ YawInv'
<1>0. base \in Bases /\ estimator \in Estimators /\ run \in Runs /\ integral \in Int
  BY DEF HoldTypes
<1>1. UNCHANGED <<estimator, missed>> /\ integral' \in Int
  <2>1. 0 \in Int
    OBVIOUS
  <2> QED
    BY <1>0, <2>1 DEF Settled, BeginLeg
<1>2. base' \in Bases /\ base'.heading = base.heading /\ base'.offset = base.offset
  BY <1>0 DEF Settled, BeginLeg, Bases
<1>3. run' \in Runs /\ run'.calibrated = run.calibrated
  <2>1. CASE Settled
    <3>1. \E pc \in Places : run' = [run EXCEPT !.pc = pc]
      BY <2>1 DEF Settled, Places
    <3>2. run' \in Runs
      BY <1>0, <3>1 DEF Runs
    <3>3. run'.calibrated = run.calibrated
      BY <1>0, <3>1 DEF Runs
    <3> QED
      BY <3>2, <3>3
  <2>2. ASSUME NEW reverse \in BOOLEAN, BeginLeg(reverse)
        PROVE  run' \in Runs /\ run'.calibrated = run.calibrated
    <3>1. estimator.stationary \in BOOLEAN
      BY <1>0 DEF Estimators
    <3> DEFINE legs == run.legs + 1
               still == estimator.stationary
    <3>2. legs \in Nat /\ still \in BOOLEAN /\ "driving" \in Places
      BY <1>0, <3>1 DEF Runs, Places
    <3>3. run' = [run EXCEPT !.pc = "driving", !.legs = legs, !.reverse = reverse,
                             !.moving = FALSE, !.still = still]
      BY <2>2 DEF BeginLeg
    <3> HIDE DEF legs, still
    <3>4. run' \in Runs
      BY <1>0, <3>2, <3>3 DEF Runs
    <3>5. run'.calibrated = run.calibrated
      BY <1>0, <3>3 DEF Runs
    <3> QED
      BY <3>4, <3>5
  <2> QED
    BY <2>1, <2>2
<1> QED
  BY <1>0, <1>1, <1>2, <1>3
  DEF HoldTypes, YawInv, BiasIsUntaught, Calibrated, Rate, Lag

LEMMA HoldStep ==
    ASSUME HoldTypes, YawInv, [Next]_vars
    PROVE  HoldTypes' /\ YawInv'
<1>0. run \in Runs /\ integral \in Int /\ estimator \in Estimators
  BY DEF HoldTypes
<1>1. CASE Rest
  <2>1. Roll(FALSE) /\ Sample(FALSE) /\ UNCHANGED <<integral, run>>
    BY <1>1 DEF Rest
  <2> QED
    BY <1>0, <2>1, TickKeeps DEF HoldTypes
<1>2. CASE Drive
  <2>1. /\ Roll(TRUE) /\ Sample(TRUE) /\ integral' = Integrated(Error)
        /\ run' = [run EXCEPT !.moving = Moving]
    BY <1>2 DEF Drive
  <2>2. integral' \in Int
    <3>1. Error \in Int
      BY <1>0 DEF Error, Estimators
    <3> QED
      BY <1>0, <2>1, <3>1, DemandTyped
  <2>3. run' \in Runs /\ run'.calibrated = run.calibrated
    <3>1. Moving \in BOOLEAN
      BY <1>0 DEF Moving, Runs, Estimators
    <3> HIDE DEF Moving
    <3> QED
      BY <1>0, <2>1, <3>1 DEF Runs
  <2> QED
    BY <2>1, <2>2, <2>3, TickKeeps DEF HoldTypes
<1>3. CASE Finish
  <2>1. /\ Roll(FALSE) /\ Sample(FALSE) /\ UNCHANGED integral
        /\ run' = [run EXCEPT !.pc = "settling",
                              !.end = IF Over THEN "done"
                                      ELSE IF NeverStarted THEN "unmoved" ELSE "ranaway"]
    BY <1>3 DEF Finish
  <2>2. run' \in Runs /\ run'.calibrated = run.calibrated
    <3> DEFINE end == IF Over THEN "done"
                      ELSE IF NeverStarted THEN "unmoved" ELSE "ranaway"
    <3>1. end \in Verdicts /\ "settling" \in Places
      BY DEF Verdicts, Places
    <3>2. run' = [run EXCEPT !.pc = "settling", !.end = end]
      BY <2>1
    <3> HIDE DEF end
    <3>3. run' \in Runs
      BY <1>0, <3>1, <3>2 DEF Runs
    <3>4. run'.calibrated = run.calibrated
      BY <1>0, <3>2 DEF Runs
    <3> QED
      BY <3>3, <3>4
  <2> QED
    BY <1>0, <2>1, <2>2, TickKeeps DEF HoldTypes
<1>4. CASE UNCHANGED vars
  BY <1>4 DEF vars, HoldTypes, YawInv, BiasIsUntaught, Calibrated, Rate, Lag
<1> QED
  BY <1>1, <1>2, <1>3, <1>4, LeaveKeeps, CalibrateKeeps, PivotKeeps, LegKeeps DEF Next

LEMMA HoldAlways == Spec => [](HoldTypes /\ YawInv)
  BY HoldInit, HoldStep, PTL DEF Spec

-----------------------------------------------------------------------------
(* Legs that should not go on. *)

\* What is still is known to be, what shakes is known not to be, and nobody waits
\* for a base to move for longer than the motion timeout.
LegInv ==
    /\ slots \in Nat
    /\ estimator.stationary => estimator.still >= HOLD
    /\ run.pc = "driving" /\ missed = 0 =>
         /\ base.moved => base.awake /\ ~estimator.stationary
         /\ run.still /\ ~base.moved /\ base.offset <= QUIET =>
              estimator.stationary /\ ~run.moving /\ slots <= MOTION_TICKS
    /\ LegsAreJudged

\* What an estimator knows of stillness.
LEMMA StillAged ==
    ASSUME NEW e \in Estimators
    PROVE  /\ Aged(e).stationary = e.stationary
           /\ e.still >= HOLD => Aged(e).still >= HOLD
<1> DEFINE still == IF e.still = Never THEN Never
                    ELSE IF e.still < HOLD THEN e.still + 1 ELSE e.still
           since == e.since + 1
<1>1. HOLD \in Nat /\ (e.still >= HOLD => still >= HOLD)
  BY EstimatorAssumption DEF Estimators, Never
<1>2. Aged(e) = [e EXCEPT !.since = since, !.still = still]
  BY DEF Aged
<1> HIDE DEF still, since
<1> QED
  BY <1>1, <1>2 DEF Estimators

LEMMA StillUpdated ==
    ASSUME NEW e \in Estimators, NEW gyro \in Int, NEW shaking \in BOOLEAN,
           NEW u, u = Updated(e, gyro, shaking)
    PROVE  /\ (e.stationary => e.still >= HOLD) => (u.stationary => u.still >= HOLD)
           /\ e.since = 1 =>
                /\ Disturbed(e, gyro, shaking) => ~u.stationary
                /\ ~Disturbed(e, gyro, shaking) /\ e.stationary /\ e.still >= HOLD
                     => u.stationary
<1>0. HOLD \in Nat /\ GAP \in Nat /\ GAP >= 1
  BY EstimatorAssumption
<1>1. CASE e.since = 0 \/ e.since > GAP
  <2>1. u = [e EXCEPT !.since = 0]
    BY <1>1 DEF Updated, Stamped
  <2> QED
    BY <1>0, <1>1, <2>1 DEF Estimators
<1>2. CASE ~(e.since = 0 \/ e.since > GAP)
  <2> DEFINE still == IF Disturbed(e, gyro, shaking) THEN Never
                      ELSE IF e.still = Never THEN 0 ELSE e.still
             f == Stilled(e, gyro, shaking)
             g == Tracked(f, gyro)
  <2>1. /\ still \in Int /\ (still >= HOLD) \in BOOLEAN
        /\ Disturbed(e, gyro, shaking) => ~(still >= HOLD)
        /\ ~Disturbed(e, gyro, shaking) /\ e.still >= HOLD => still >= HOLD
    BY <1>0 DEF Estimators, Never
  <2>2. f = [e EXCEPT !.still = still, !.stationary = still >= HOLD]
    BY DEF Stilled
  <2> HIDE DEF still, f
  <2>3. f \in Estimators /\ f.still = still /\ f.stationary = (still >= HOLD)
    BY <2>1, <2>2 DEF Estimators
  <2>4. g \in Estimators /\ g.still = f.still /\ g.stationary = f.stationary
    BY <2>3 DEF Tracked, Estimators
  <2> DEFINE rate == gyro - g.bias
             yaw == g.yaw + (gyro - g.bias) * e.since
  <2>5. u = [Stamped(g) EXCEPT !.rate = rate, !.yaw = yaw]
    BY <1>2 DEF Updated, f
  <2> HIDE DEF g, rate, yaw
  <2>6. u.still = g.still /\ u.stationary = g.stationary
    BY <2>4, <2>5 DEF Stamped, Estimators
  <2> QED
    BY <2>1, <2>3, <2>4, <2>6
<1> QED
  BY <1>1, <1>2

\* Whether the base has moved.
LEMMA MovedByRoll ==
    ASSUME base \in Bases, NEW driven \in BOOLEAN, Roll(driven)
    PROVE  /\ base'.moved = (base.moved \/ (base'.awake /\ driven))
           /\ base.awake => base'.awake
<1>1. PICK awake \in {base.awake, base.awake \/ (driven /\ slots <= WAKE)}, rate \in Int :
        base' = [base EXCEPT !.heading = @ + rate, !.rate = rate, !.awake = awake,
                             !.moved = @ \/ (awake /\ driven)]
  <2>1. PICK awake \in {base.awake, base.awake \/ (driven /\ slots <= WAKE)} :
          LET moves == awake /\ driven
              rate == IF moves
                      THEN base.wired * TURN * (Pull("right") - Pull("left")) + base.drift
                      ELSE 0
          IN  base' = [base EXCEPT !.heading = @ + rate, !.rate = rate, !.awake = awake,
                                   !.moved = @ \/ moves]
    BY DEF Roll
  <2> DEFINE rate == IF awake /\ driven
                     THEN base.wired * TURN * (Pull("right") - Pull("left")) + base.drift
                     ELSE 0
  <2>2. rate \in Int
    <3>1. /\ base.wired \in Int /\ base.drift \in Int /\ TURN \in Int
          /\ Pull("right") - Pull("left") \in Int
      BY HoldAssumption DEF Bases, Pull
    <3>2. base.wired * TURN * (Pull("right") - Pull("left")) \in Int
      BY <3>1
    <3> QED
      BY <3>1, <3>2
  <2> QED
    BY <2>1, <2>2
<1>2. awake \in BOOLEAN /\ (base.awake => awake)
  BY <1>1 DEF Bases
<1> QED
  BY <1>1, <1>2 DEF Bases

\* A tick, seen by who waits for the base to move.
LEMMA TickMoves ==
    ASSUME HoldTypes, YawInv, LegInv, NEW driven \in BOOLEAN, Roll(driven), Sample(driven),
           base' \in Bases, estimator' \in Estimators
    PROVE  /\ estimator'.stationary => estimator'.still >= HOLD
           /\ missed' = 0 => missed = 0
           /\ missed' = 0 /\ base'.awake /\ driven => ~estimator'.stationary
           /\ missed' = 0 /\ ~(base'.awake /\ driven) /\ base.offset <= QUIET
                /\ estimator.stationary => estimator'.stationary
<1> DEFINE shaking == base'.awake /\ driven
           gyro == base'.rate + base.offset
           e == Aged(estimator)
<1>1. /\ base \in Bases /\ estimator \in Estimators /\ missed \in Nat
      /\ gyro \in Int /\ shaking \in BOOLEAN
  BY DEF HoldTypes, Bases
<1>2. /\ e \in Estimators /\ e.bias = estimator.bias /\ e.since = estimator.since + 1
      /\ e.stationary = estimator.stationary
      /\ e.stationary => e.still >= HOLD
  BY <1>1, AgedTyped, StillAged DEF LegInv
<1>3. CASE missed' = missed + 1 /\ estimator' = e
  BY <1>1, <1>2, <1>3
<1>4. CASE missed' = missed /\ estimator' = Updated(e, gyro, shaking)
  <2>1. estimator'.stationary => estimator'.still >= HOLD
    <3> HIDE DEF e, gyro, shaking
    <3> QED
      BY <1>1, <1>2, <1>4, StillUpdated
  <2>2. ASSUME missed = 0
        PROVE  /\ Disturbed(e, gyro, shaking) => ~estimator'.stationary
               /\ ~Disturbed(e, gyro, shaking) /\ e.stationary => estimator'.stationary
    <3>1. e.since = 1
      BY <1>1, <1>2, <2>2 DEF YawInv, Estimators
    <3> HIDE DEF e, gyro, shaking
    <3> QED
      BY <1>1, <1>2, <1>4, <3>1, StillUpdated
  <2>3. shaking => Disturbed(e, gyro, shaking)
    BY DEF Disturbed
  <2>4. ~shaking /\ base.offset <= QUIET => ~Disturbed(e, gyro, shaking)
    <3>1. ~shaking => base'.rate = 0
      BY <1>1, Rolled
    <3>2. base.offset \in {0, 1} /\ estimator.bias \in {0, base.offset} /\ QUIET \in Nat
      BY <1>1, EstimatorAssumption DEF YawInv, BiasIsUntaught, Bases
    <3>3. ~shaking => gyro - e.bias \in {0, base.offset}
      BY <1>2, <3>1, <3>2
    <3> HIDE DEF gyro, e, shaking
    <3>4. ~shaking /\ base.offset <= QUIET => ~(Magnitude(gyro - e.bias) > QUIET)
      BY <3>2, <3>3 DEF Magnitude
    <3> QED
      BY <3>4 DEF Disturbed
  <2> HIDE DEF gyro, e
  <2> QED
    BY <1>2, <1>4, <2>1, <2>2, <2>3, <2>4
<1>5. \/ missed' = missed + 1 /\ estimator' = e
      \/ missed' = missed /\ estimator' = Updated(e, gyro, shaking)
  <2>1. base'.offset = base.offset
    BY <1>1, Rolled
  <2> QED
    BY <2>1 DEF Sample
<1> QED
  BY <1>3, <1>4, <1>5

\* How far the base may be from the heading it is to hold.
LEMMA RunawayKept ==
    ASSUME HoldTypes, YawInv, RunawayIsStopped, base' \in Bases, missed' \in Nat,
           missed <= missed', base'.heading = base.heading, Calibrated' => Calibrated
    PROVE  RunawayIsStopped'
<1>1. /\ Rate \in Nat /\ missed \in Nat /\ MAX_ERROR \in Nat /\ RESIDUALS \subseteq Int
      /\ base.heading \in Int
  BY HoldAssumption DEF Rate, HoldTypes, Bases
<1>2. PICK m \in Nat, n \in Nat : missed = m /\ missed' = n /\ m <= n
  BY <1>1
<1>3. PICK a \in Nat, b \in Nat :
        /\ a <= b
        /\ Rate * (1 + 2 * m) = Rate + 2 * a /\ Rate * (1 + 2 * n) = Rate + 2 * b
        /\ 2 * Rate * m = 2 * a /\ 2 * Rate * n = 2 * b
  <2>1. PICK k \in Nat : n = m + k
    <3>1. n - m \in Nat /\ n = m + (n - m)
      BY <1>2
    <3> QED
      BY <3>1
  <2> DEFINE a == Rate * m
             b == Rate * n
  <2>2. a \in Nat /\ b \in Nat /\ a <= b
    <3>1. Rate * n = Rate * m + Rate * k /\ Rate * k \in Nat /\ Rate * m \in Nat
      BY <1>1, <2>1
    <3> QED
      BY <3>1
  <2>3. /\ Rate * (1 + 2 * m) = Rate + 2 * a /\ Rate * (1 + 2 * n) = Rate + 2 * b
        /\ 2 * Rate * m = 2 * a /\ 2 * Rate * n = 2 * b
    BY <1>1
  <2> HIDE DEF a, b
  <2> QED
    BY <2>2, <2>3
<1>4. Magnitude(base.heading) \in Nat /\ \A r \in RESIDUALS : Magnitude(r) \in Nat
  BY <1>1 DEF Magnitude
<1>5. ASSUME Calibrated'
      PROVE  \/ Magnitude(base.heading) <= MAX_ERROR + Rate * (1 + 2 * missed')
             \/ \E r \in RESIDUALS : Magnitude(base.heading) <= Magnitude(r) + 2 * Rate * missed'
  <2>1. CASE Magnitude(base.heading) <= MAX_ERROR + Rate * (1 + 2 * missed)
    BY <1>1, <1>2, <1>3, <1>4, <2>1
  <2>2. CASE \E r \in RESIDUALS : Magnitude(base.heading) <= Magnitude(r) + 2 * Rate * missed
    <3>1. PICK r \in RESIDUALS : Magnitude(base.heading) <= Magnitude(r) + 2 * Rate * missed
      BY <2>2
    <3>2. Magnitude(base.heading) <= Magnitude(r) + 2 * Rate * missed'
      BY <1>2, <1>3, <1>4, <3>1
    <3> QED
      BY <3>2
  <2> QED
    BY <1>5, <2>1, <2>2 DEF RunawayIsStopped, Rate
<1> QED
  BY <1>5 DEF RunawayIsStopped, Rate

LEMMA RunawayTick ==
    ASSUME HoldTypes, YawInv, RunawayIsStopped, NEW driven \in BOOLEAN, Roll(driven),
           Sample(driven), driven => ~RanAway, run'.calibrated = run.calibrated
    PROVE  RunawayIsStopped'
<1>1. /\ Rate \in Nat /\ missed \in Nat /\ MAX_ERROR \in Nat /\ base \in Bases
      /\ base.heading \in Int /\ estimator.yaw \in Int /\ estimator.since \in Nat
  BY HoldAssumption DEF Rate, HoldTypes, Bases, Estimators
<1>2. /\ base' \in Bases /\ base'.heading = base.heading + base'.rate
      /\ -Rate <= base'.rate /\ base'.rate <= Rate
      /\ ~(base'.awake /\ driven) => base'.rate = 0
      /\ Calibrated' <=> Calibrated
  BY <1>1, Rolled DEF Calibrated
<1>3. base'.rate \in Int /\ base'.heading \in Int
  BY <1>2 DEF Bases
<1>4. missed' \in Nat /\ missed <= missed'
  BY <1>1 DEF Sample
<1>5. CASE ~driven
  <2>1. base'.heading = base.heading
    BY <1>1, <1>2, <1>5
  <2> QED
    BY <1>2, <1>4, <2>1, RunawayKept
<1>6. CASE driven
  <2> SUFFICES ASSUME Calibrated
               PROVE  Magnitude(base'.heading) <= MAX_ERROR + Rate * (1 + 2 * missed')
    BY <1>2 DEF RunawayIsStopped, Rate
  <2>1. PICK m \in Nat, n \in Nat : missed = m /\ missed' = n /\ m <= n
    BY <1>1, <1>4
  <2>2. PICK a \in Nat : /\ 2 * Rate * m = 2 * a
                         /\ \E b \in Nat : Rate * (1 + 2 * n) = Rate + 2 * b /\ a <= b
    <3>1. PICK k \in Nat : n = m + k
      <4>1. n - m \in Nat /\ n = m + (n - m)
        BY <2>1
      <4> QED
        BY <4>1
    <3> DEFINE a == Rate * m
               b == Rate * n
    <3>2. a \in Nat /\ b \in Nat /\ a <= b
      <4>1. Rate * n = Rate * m + Rate * k /\ Rate * k \in Nat /\ Rate * m \in Nat
        BY <1>1, <3>1
      <4> QED
        BY <4>1
    <3>3. Rate * (1 + 2 * n) = Rate + 2 * b /\ 2 * Rate * m = 2 * a
      BY <1>1
    <3> HIDE DEF a, b
    <3> QED
      BY <3>2, <3>3
  <2>3. PICK b \in Nat : Rate * (1 + 2 * n) = Rate + 2 * b /\ a <= b
    BY <2>2
  <2>4. -(2 * a) <= Lag /\ Lag <= 2 * a /\ Lag = base.heading - estimator.yaw
    <3>1. Rate * estimator.since \in Nat
      BY <1>1
    <3> QED
      BY <1>1, <2>1, <2>2, <3>1 DEF YawInv, Lag
  <2>5. -MAX_ERROR <= estimator.yaw /\ estimator.yaw <= MAX_ERROR
    BY <1>1, <1>6 DEF RanAway, Error, Magnitude
  <2>6. PICK h \in Int, r \in Int : base'.heading = h /\ base'.rate = r
    BY <1>3
  <2>7. h = base.heading + r /\ -Rate <= r /\ r <= Rate
    BY <1>2, <2>6
  <2>8. h <= MAX_ERROR + Rate + 2 * b /\ -h <= MAX_ERROR + Rate + 2 * b
    BY <1>1, <2>3, <2>4, <2>5, <2>7
  <2>9. Magnitude(h) <= MAX_ERROR + (Rate + 2 * b)
    BY <1>1, <2>8 DEF Magnitude
  <2> QED
    BY <2>1, <2>3, <2>6, <2>9
<1> QED
  BY <1>5, <1>6

\* What calibrates or turns the base puts it where it is to be.
LEMMA RunawayPlaced ==
    ASSUME HoldTypes, YawInv, Calibrate \/ Pivot
    PROVE  RunawayIsStopped'
<1>1. /\ Rate \in Nat /\ missed \in Nat /\ MAX_ERROR \in Nat /\ base \in Bases
      /\ base.heading \in Int /\ estimator.yaw \in Int /\ estimator.since \in Nat
      /\ RESIDUALS \subseteq Int /\ missed' = missed /\ run \in Runs
  <2>1. missed' = missed
    BY DEF Calibrate, Pivot
  <2> QED
    BY <2>1, HoldAssumption DEF Rate, HoldTypes, Bases, Estimators
<1>2. PICK a \in Nat : /\ 2 * Rate * missed = 2 * a
                       /\ Rate * (1 + 2 * missed) = Rate + 2 * a
  <2> DEFINE a == Rate * missed
  <2>1. a \in Nat /\ 2 * Rate * missed = 2 * a /\ Rate * (1 + 2 * missed) = Rate + 2 * a
    BY <1>1
  <2> HIDE DEF a
  <2> QED
    BY <2>1
<1>3. CASE Calibrate
  <2>1. base'.heading = 0
    BY <1>1, <1>3 DEF Calibrate, Bases
  <2>2. Magnitude(base'.heading) = 0
    BY <2>1 DEF Magnitude
  <2>3. 0 <= MAX_ERROR + Rate * (1 + 2 * missed)
    BY <1>1, <1>2
  <2> QED
    BY <1>1, <2>2, <2>3 DEF RunawayIsStopped, Rate
<1>4. CASE Pivot
  <2>1. PICK residual \in RESIDUALS :
          base' = [base EXCEPT !.heading = @ + (residual - estimator.yaw)]
    BY <1>4 DEF Pivot
  <2>2. residual \in Int /\ base'.heading = residual + Lag
    <3>1. base'.heading = base.heading + (residual - estimator.yaw)
      BY <1>1, <2>1 DEF Bases
    <3> QED
      BY <1>1, <3>1 DEF Lag
  <2>3. Calibrated' => Calibrated
    BY <1>1, <1>4, <2>1 DEF Calibrated, Pivot, Bases, Runs
  <2>4. Calibrated => -(2 * a) <= Lag /\ Lag <= 2 * a /\ Lag \in Int
    <3>1. Rate * estimator.since \in Nat
      BY <1>1
    <3> QED
      BY <1>1, <1>2, <3>1 DEF YawInv, Lag
  <2>5. ASSUME Calibrated'
        PROVE  Magnitude(base'.heading) <= Magnitude(residual) + 2 * Rate * missed
    <3>1. PICK h \in Int : base'.heading = h
      BY <2>2, <2>3, <2>4, <2>5
    <3>2. Magnitude(h) <= Magnitude(residual) + 2 * a
      BY <2>2, <2>3, <2>4, <2>5, <3>1 DEF Magnitude
    <3> QED
      BY <1>2, <3>1, <3>2
  <2> QED
    BY <1>1, <2>5 DEF RunawayIsStopped, Rate
<1> QED
  BY <1>3, <1>4

LEMMA LegInit ==
    ASSUME Init
    PROVE  LegInv
<1>0. HOLD \in Nat /\ Rate \in Nat /\ MAX_ERROR \in Nat
  BY EstimatorAssumption, HoldAssumption DEF Rate
<1>1. slots = 0 /\ run.pc = "between" /\ missed = 0
  BY DEF Init, SlotInit
<1>2. estimator.stationary => estimator.still >= HOLD
  <2>1. PICK still \in {Never, HOLD} :
          estimator = [yaw |-> 0, rate |-> 0, bias |-> 0, since |-> 0,
                       still |-> still, stationary |-> still >= HOLD]
    BY DEF Init, Estimator
  <2> QED
    BY <2>1
<1>3. RunawayIsStopped
  <2>1. base.heading = 0
    BY DEF Init
  <2>2. Magnitude(base.heading) = 0
    BY <2>1 DEF Magnitude
  <2>3. 0 <= MAX_ERROR + Rate * (1 + 2 * missed)
    BY <1>0, <1>1
  <2> QED
    BY <2>2, <2>3 DEF RunawayIsStopped, Rate
<1> QED
  BY <1>1, <1>2, <1>3 DEF LegInv, LegsAreJudged, MotionIsJudged

LEMMA LegStep ==
    ASSUME HoldTypes, YawInv, LegInv, HoldTypes', YawInv', [Next]_vars
    PROVE  LegInv'
<1>0. /\ base \in Bases /\ estimator \in Estimators /\ run \in Runs /\ missed \in Nat
      /\ base' \in Bases /\ estimator' \in Estimators /\ run' \in Runs /\ missed' \in Nat
      /\ slots \in Nat /\ MOTION_TICKS \in Nat /\ MAX_SLOTS \in Nat /\ HOLD \in Nat
  BY HoldAssumption, SlotAssumption, EstimatorAssumption DEF HoldTypes, LegInv
<1>1. CASE UNCHANGED vars
  BY <1>1 DEF vars, slotVars, LegInv, LegsAreJudged, MotionIsJudged, RunawayIsStopped, Calibrated
\* Outside a leg nothing waits for the base to move.
<1>2. ASSUME run'.pc \notin {"driving", "settling"}, RunawayIsStopped',
             slots' \in Nat, estimator'.stationary => estimator'.still >= HOLD
      PROVE  LegInv'
  BY <1>2 DEF LegInv, LegsAreJudged, MotionIsJudged
<1>3. CASE Calibrate \/ Pivot
  <2>1. run.pc = "between" /\ run'.pc = "between" /\ slots' = slots
    BY <1>0, <1>3 DEF Calibrate, AtStart, Pivot, TurnIsNext, slotVars, Runs
  <2>2. estimator'.stationary => estimator'.still >= HOLD
    BY <1>0, <1>3 DEF Calibrate, Pivot, Estimators, LegInv, Never
  <2> QED
    BY <1>0, <1>2, <1>3, <2>1, <2>2, RunawayPlaced
<1>4. CASE TurnAborts \/ Raise
  <2>1. /\ run'.pc = "ended" /\ slots' = 0 /\ base' = base /\ estimator' = estimator
        /\ missed' = missed /\ run'.calibrated = run.calibrated
    BY <1>0, <1>4 DEF TurnAborts, Raise, Leave, SlotReset, Runs
  <2>2. RunawayIsStopped'
    BY <2>1 DEF LegInv, LegsAreJudged, RunawayIsStopped, Calibrated
  <2> QED
    BY <1>2, <2>1, <2>2 DEF LegInv
<1>5. CASE Rest
  <2>1. /\ run.pc = "between" /\ run' = run /\ slots' = 0 /\ Roll(FALSE) /\ Sample(FALSE)
    BY <1>5 DEF Rest, SlotReset
  <2>2. RunawayIsStopped'
    BY <2>1, RunawayTick DEF LegInv, LegsAreJudged
  <2>3. estimator'.stationary => estimator'.still >= HOLD
    BY <1>0, <2>1, TickMoves
  <2> QED
    BY <1>2, <2>1, <2>2, <2>3
<1>6. ASSUME NEW reverse \in BOOLEAN, BeginLeg(reverse) PROVE LegInv'
  <2>1. /\ base' = [base EXCEPT !.moved = FALSE, !.awake = FALSE] /\ slots' = 0
        /\ estimator' = estimator /\ missed' = missed
        /\ run' = [run EXCEPT !.pc = "driving", !.legs = @ + 1, !.reverse = reverse,
                              !.moving = FALSE, !.still = estimator.stationary]
    BY <1>6 DEF BeginLeg, SlotReset
  <2>2. base'.heading = base.heading /\ ~base'.moved /\ base'.offset = base.offset
    BY <1>0, <2>1 DEF Bases
  <2>3. /\ run'.pc = "driving" /\ ~run'.moving /\ run'.still = estimator.stationary
        /\ run'.calibrated = run.calibrated
    BY <1>0, <2>1 DEF Runs
  <2>4. RunawayIsStopped'
    BY <2>1, <2>2, <2>3 DEF LegInv, LegsAreJudged, RunawayIsStopped, Calibrated
  <2> QED
    BY <1>0, <2>1, <2>2, <2>3, <2>4 DEF LegInv, LegsAreJudged, MotionIsJudged
<1>7. CASE Drive
  <2>1. /\ run.pc = "driving" /\ ~NeverStarted /\ ~RanAway /\ slots' = slots + 1
        /\ Roll(TRUE) /\ Sample(TRUE) /\ run' = [run EXCEPT !.moving = Moving]
    BY <1>7 DEF Drive, Slot
  <2>2. /\ run'.pc = "driving" /\ run'.still = run.still
        /\ run'.moving = (run.moving \/ ~estimator.stationary)
        /\ run'.calibrated = run.calibrated
    BY <1>0, <2>1 DEF Runs, Moving
  <2>3. RunawayIsStopped'
    BY <2>1, <2>2, RunawayTick DEF LegInv, LegsAreJudged
  <2>4. /\ estimator'.stationary => estimator'.still >= HOLD
        /\ missed' = 0 => missed = 0
        /\ missed' = 0 /\ base'.awake => ~estimator'.stationary
        /\ missed' = 0 /\ ~base'.awake /\ base.offset <= QUIET
             /\ estimator.stationary => estimator'.stationary
    BY <1>0, <2>1, TickMoves
  <2>5. /\ base'.moved = (base.moved \/ base'.awake) /\ (base.awake => base'.awake)
        /\ base'.offset = base.offset
    BY <1>0, <2>1, MovedByRoll, Rolled
  <2>6. ASSUME missed' = 0, base'.moved
        PROVE  base'.awake /\ ~estimator'.stationary
    BY <2>1, <2>4, <2>5, <2>6 DEF LegInv
  <2>7. ASSUME missed' = 0, run.still, ~base'.moved, base.offset <= QUIET
        PROVE  estimator'.stationary /\ ~run'.moving /\ slots' <= MOTION_TICKS
    <3>1. ~base.moved /\ ~base'.awake
      BY <1>0, <2>5, <2>7 DEF Bases
    <3>2. estimator.stationary /\ ~run.moving /\ slots <= MOTION_TICKS
      BY <2>1, <2>4, <2>7, <3>1 DEF LegInv
    <3>3. slots < MOTION_TICKS
      BY <1>0, <2>1, <3>2 DEF NeverStarted, Moving
    <3>4. estimator'.stationary
      BY <2>4, <2>7, <3>1, <3>2
    <3>5. ~run'.moving
      BY <2>2, <3>2
    <3>6. slots' <= MOTION_TICKS
      BY <1>0, <2>1, <3>3
    <3> QED
      BY <3>4, <3>5, <3>6
  <2>8. slots' \in Nat
    BY <1>0, <2>1
  <2> QED
    BY <2>2, <2>3, <2>4, <2>5, <2>6, <2>7, <2>8 DEF LegInv, LegsAreJudged, MotionIsJudged
<1>8. CASE Finish
  <2>1. /\ run.pc = "driving" /\ slots' = slots /\ Roll(FALSE) /\ Sample(FALSE)
        /\ run' = [run EXCEPT !.pc = "settling",
                              !.end = IF Over THEN "done"
                                      ELSE IF NeverStarted THEN "unmoved" ELSE "ranaway"]
    BY <1>8 DEF Finish, slotVars
  <2>2. /\ run'.pc = "settling" /\ run'.still = run.still
        /\ run'.end = (IF Over THEN "done" ELSE IF NeverStarted THEN "unmoved" ELSE "ranaway")
        /\ run'.calibrated = run.calibrated
    BY <1>0, <2>1 DEF Runs
  <2>3. RunawayIsStopped'
    BY <2>1, <2>2, RunawayTick DEF LegInv, LegsAreJudged
  <2>4. /\ estimator'.stationary => estimator'.still >= HOLD
        /\ missed' = 0 => missed = 0
    BY <1>0, <2>1, TickMoves
  <2>5. base'.moved = base.moved /\ base'.offset = base.offset
    BY <1>0, <2>1, MovedByRoll, Rolled DEF Bases
  <2>6. ASSUME missed = 0, run'.end = "unmoved" PROVE ~base.moved
    <3>1. estimator.stationary
      BY <1>0, <2>2, <2>6 DEF NeverStarted, Moving
    <3> QED
      BY <2>1, <2>6, <3>1 DEF LegInv
  <2>7. ASSUME missed = 0, run'.end = "done", MOTION_TICKS < MAX_SLOTS, base.offset <= QUIET
        PROVE  base.moved \/ ~run.still
    <3>1. slots = MAX_SLOTS
      BY <2>2, <2>7 DEF Over
    <3> QED
      BY <1>0, <2>1, <2>7, <3>1 DEF LegInv
  <2> QED
    BY <1>0, <2>1, <2>2, <2>3, <2>4, <2>5, <2>6, <2>7
       DEF LegInv, LegsAreJudged, MotionIsJudged
<1>9. CASE Settled
  <2>1. /\ run'.pc \in {"between", "ended"} /\ slots' = slots /\ base' = base
        /\ estimator' = estimator /\ missed' = missed /\ run'.calibrated = run.calibrated
    BY <1>0, <1>9 DEF Settled, slotVars, Runs
  <2>2. RunawayIsStopped'
    BY <2>1 DEF LegInv, LegsAreJudged, RunawayIsStopped, Calibrated
  <2> QED
    BY <1>0, <1>2, <2>1, <2>2 DEF LegInv
<1> QED
  BY <1>1, <1>3, <1>4, <1>5, <1>6, <1>7, <1>8, <1>9 DEF Next

LEMMA LegAlways == Spec => []LegInv
  BY LegInit, LegStep, HoldAlways, PTL DEF Spec

-----------------------------------------------------------------------------
(* The theorems. *)

\* Every leg, whatever was driven before it and however it is steered, drops
\* slots as SlotSteering says, with accumulators of its own.
THEOREM LegsSteerBySlots == Spec => SteersBySlots
<1>1. Init => SlotInit
  BY DEF Init
<1> QED
  BY <1>1, HoldAlways, SlotsOfNext, PTL DEF Spec, SteersBySlots, SlotSpec

\* In every leg as many slots are driven as the duties add up to.
THEOREM LegsAreExact == Spec => []SlotsAreExact
  BY LegsSteerBySlots, SlotsExact, PTL DEF SteersBySlots

\* Driving teaches the estimator nothing, straight ahead with a quiet gyro
\* neither: it learns the offset of the gyro at rest, or nothing.
THEOREM BiasUntaught == Spec => []BiasIsUntaught
<1>1. YawInv => BiasIsUntaught
  BY DEF YawInv
<1> QED
  BY <1>1, HoldAlways, PTL

\* The yaw of a service that knows the offset of its gyro errs by what was turned
\* around the samples it missed, for any number and any length of gaps.
THEOREM YawBounded == Spec => []YawErrorIsBounded
<1>1. ASSUME HoldTypes, YawInv PROVE YawErrorIsBounded
  <2>1. /\ Rate \in Nat /\ missed \in Nat /\ estimator.since \in Nat
        /\ base.heading \in Int /\ estimator.yaw \in Int
    BY <1>1, HoldAssumption DEF Rate, HoldTypes, Bases, Estimators
  <2>2. Rate * estimator.since \in Nat /\ 2 * Rate * missed \in Nat
    BY <2>1
  <2>3. Calibrated => -(2 * Rate * missed) <= Lag /\ Lag <= 2 * Rate * missed
    BY <1>1, <2>1, <2>2 DEF YawInv, Lag
  <2>4. Magnitude(estimator.yaw - base.heading) \in {Lag, -Lag}
    BY <2>1 DEF Magnitude, Lag
  <2> HIDE DEF Rate
  <2>5. Calibrated => Magnitude(estimator.yaw - base.heading) <= 2 * Rate * missed
    BY <2>1, <2>2, <2>3, <2>4 DEF Lag
  <2> QED
    BY <2>5 DEF YawErrorIsBounded, Rate
<1> QED
  BY <1>1, HoldAlways, PTL

\* A leg of a base that does not move, or that turns the wrong way, is ended, and
\* for that reason; a leg of a base that does as it should is not ended for it.
THEOREM LegsJudged == Spec => []LegsAreJudged
<1>1. LegInv => LegsAreJudged
  BY DEF LegInv
<1> QED
  BY <1>1, LegAlways, PTL
=============================================================================
