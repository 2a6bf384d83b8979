---------------------------- MODULE YawEstimator ----------------------------
(***************************************************************************)
(* YawEstimator of scripts/mpu6050.py: one sample of the gyro, and of the  *)
(* accelerometer that says whether the base shakes, folded into the yaw,   *)
(* the stillness flag and the bias.  Times are ticks.                      *)
(***************************************************************************)
EXTENDS Integers

CONSTANTS
    QUIET,      \* STATIONARY_GYRO_DPS
    HOLD,       \* STATIONARY_HOLD_S
    GAP         \* samples further apart than this are not integrated

ASSUME EstimatorAssumption == QUIET \in Nat /\ HOLD \in Nat /\ GAP \in Nat \ {0}

Never == -1

Magnitude(x) == IF x < 0 THEN -x ELSE x

\* An estimator that has a bias: seeded by the start of the service, or by a
\* calibration.  since is the time from _last_stamp, still from _still_since.
Estimator(bias, still) ==
    [yaw |-> 0, rate |-> 0, bias |-> bias, since |-> 0, still |-> still,
     stationary |-> still >= HOLD]

\* A tick goes by.
Aged(e) == [e EXCEPT !.since = @ + 1,
                     !.still = IF @ = Never THEN Never
                               ELSE IF @ < HOLD THEN @ + 1 ELSE @]

\* Mutant of Disturbed: a quiet gyro is enough.
DisturbedGyro(e, gyro, shaking) == Magnitude(gyro - e.bias) > QUIET

Disturbed(e, gyro, shaking) == Magnitude(gyro - e.bias) > QUIET \/ shaking

\* _update_stationary.
Stilled(e, gyro, shaking) ==
    LET still == IF Disturbed(e, gyro, shaking) THEN Never
                 ELSE IF e.still = Never THEN 0 ELSE e.still
    IN  [e EXCEPT !.still = still, !.stationary = still >= HOLD]

\* _track_bias, with its slow gain: a step towards what the gyro reads.
Tracked(e, gyro) ==
    IF ~e.stationary THEN e
    ELSE [e EXCEPT !.bias = IF gyro > @ THEN @ + 1 ELSE IF gyro < @ THEN @ - 1 ELSE @]

\* Mutant of Stamped: a sample that is not integrated leaves no stamp.
StampedIfUsed(e) == IF e.since <= GAP THEN [e EXCEPT !.since = 0] ELSE e

Stamped(e) == [e EXCEPT !.since = 0]

\* update: "a hung I2C read or a descheduled loop must not integrate a huge
\* step".  What was turned in such a gap is lost.
Updated(e, gyro, shaking) ==
    IF e.since = 0 \/ e.since > GAP THEN Stamped(e)
    ELSE LET f == Tracked(Stilled(e, gyro, shaking), gyro)
         IN  [Stamped(f) EXCEPT !.rate = gyro - f.bias,
                                !.yaw = f.yaw + (gyro - f.bias) * e.since]
=============================================================================
