---------------------------- MODULE HeadingHold ----------------------------
(***************************************************************************)
(* drive_heading of scripts/drive_heading.py on a base whose yaw comes     *)
(* from the estimator of the IMU service, leg after leg as                 *)
(* scripts/run_base_calibration_route.py drives them: slots are dropped to *)
(* hold a heading, a base that has not started or runs away is stopped.    *)
(*                                                                         *)
(* Angles are counted from the heading to be held, so that a turn between  *)
(* two legs leaves a residual, and one tick is one slot.  The base is      *)
(* external: a dropped slot turns it, and it drifts as it drives.          *)
(***************************************************************************)
EXTENDS SlotSteering, YawEstimator

CONSTANTS
    GAIN, MIN_DUTY, DEADBAND,   \* of SteeringController
    WINDUP,                     \* integral_limit
    RESIDUALS,                  \* what a turn leaves, in the estimate
    DRIFTS, TURN,               \* what a tick turns, of itself (the unit) or by a
                                \* dropped slot
    WAKE,                       \* by when the receiver wakes, if it does
    MAX_ERROR, MOTION_TICKS,    \* max_error_deg, motion_timeout_s
    MAX_LEGS, MAX_MISSED        \* bounds: legs, and samples that cannot be read

ASSUME HoldAssumption ==
    /\ {GAIN, DEADBAND, WINDUP, TURN, WAKE, MAX_ERROR, MOTION_TICKS, MAX_LEGS,
        MAX_MISSED} \subseteq Nat
    /\ MIN_DUTY \in 0..FULL /\ RESIDUALS \subseteq Int /\ DRIFTS \subseteq {-1, 0, 1}

VARIABLES
    base,           \* the base: its heading and what it is like
    estimator,      \* of the IMU service, as the client hears of it at once
    integral,       \* of the controller
    run,            \* the locals of drive_heading and of the route
    missed

vars == <<slotVars, base, estimator, integral, run, missed>>

\* A base that has just come to rest, or that has been still for long; the
\* temperature may have moved the offset of its gyro since it was calibrated.
Init ==
    /\ SlotInit
    /\ base \in [heading : {0}, rate : {0}, wired : {1, -1}, drift : DRIFTS,
                 offset : {0, 1}, awake : {FALSE}, moved : {FALSE}]
    /\ estimator \in {Estimator(0, Never), Estimator(0, HOLD)}
    /\ integral = 0
    /\ run = [pc |-> "between", legs |-> 0, reverse |-> FALSE, moving |-> FALSE,
              still |-> FALSE, end |-> "none", calibrated |-> FALSE]
    /\ missed = 0

-----------------------------------------------------------------------------
(* SteeringController and steering_duties. *)

Clamp(x, limit) == IF x > limit THEN limit ELSE IF x < -limit THEN -limit ELSE x

\* command: what the error so far adds up to, never more than full authority.
Integrated(error) == IF WINDUP = 0 THEN 0 ELSE Clamp(integral + error, WINDUP)

Demand(error) == GAIN * error + Integrated(error)

\* Mutant of Reduced: more than full authority.
ReducedUnclamped(demand) == FULL - (Magnitude(demand) * (FULL - MIN_DUTY)) \div FULL

\* The duty of the tread that is held back.
Reduced(demand) ==
    FULL - (Magnitude(Clamp(demand, FULL)) * (FULL - MIN_DUTY)) \div FULL

\* Mutant of Slowed: backward, the same tread is held back as forward.
SlowedForward(demand, reverse) == IF demand > 0 THEN "left" ELSE "right"

\* steering_duties: the left tread is held back to turn left, or the right one
\* when the base drives backward.
Slowed(demand, reverse) == IF (demand > 0) # reverse THEN "left" ELSE "right"

SteeringDuties(error, reverse) ==
    LET demand == Demand(error)
    IN  [t \in Treads |-> IF Magnitude(demand) > DEADBAND * GAIN /\ t = Slowed(demand, reverse)
                          THEN Reduced(demand) ELSE FULL]

-----------------------------------------------------------------------------
(* The base and the service. *)

Pull(t) == IF ~on'[t] THEN 0 ELSE IF run.reverse THEN -1 ELSE 1

\* A tick with the treads as on' says, if the receiver is awake: the base turns by
\* the difference of the treads, and by its drift when it moves.
Roll(driven) ==
    \E awake \in {base.awake, base.awake \/ (driven /\ slots <= WAKE)} :
      LET moves == awake /\ driven
          rate == IF moves THEN base.wired * TURN * (Pull("right") - Pull("left")) + base.drift
                  ELSE 0
      IN  base' = [base EXCEPT !.heading = @ + rate, !.rate = rate, !.awake = awake,
                               !.moved = @ \/ moves]

\* sample_once: the sample of this tick, or an I2C error, after which the state
\* that is published is the old one.  A base on its treads shakes.
Sample(driven) ==
    \/ estimator' = Updated(Aged(estimator), base'.rate + base.offset, base'.awake /\ driven)
       /\ UNCHANGED missed
    \/ missed < MAX_MISSED /\ missed' = missed + 1 /\ estimator' = Aged(estimator)

-----------------------------------------------------------------------------
(* drive_heading, and the legs of the route. *)

\* What a program that cannot go on does: its treads are stopped, its sockets
\* closed, and nothing is left of its locals.
Leave(end) ==
    /\ run' = [run EXCEPT !.pc = "ended", !.end = end]
    /\ SlotReset /\ integral' = 0
    /\ UNCHANGED <<base, estimator, missed>>

\* ImuError, when no reading is to be had, or KeyboardInterrupt.
Raise == run.pc # "ended" /\ Leave("raised")

\* Only the first thing a program does is to calibrate.
AtStart == run.pc = "between" /\ run.legs = 0 /\ ~run.calibrated

\* finish_calibration: the mean of a quiet capture is the offset of the gyro, and
\* angles are counted anew.  A capture with noise in it is refused, and that is
\* an ImuError to the program.
Calibrate ==
    /\ AtStart
    /\ estimator' = [estimator EXCEPT !.bias = base.offset, !.yaw = 0]
    /\ base' = [base EXCEPT !.heading = 0]
    /\ run' = [run EXCEPT !.calibrated = TRUE]
    /\ UNCHANGED <<slotVars, integral, missed>>

TurnIsNext == run.pc = "between" /\ run.legs < MAX_LEGS

\* execute_turn, when the leg is a turn: it leaves a residual to be steered out,
\* and nothing has been still since.
Pivot ==
    /\ TurnIsNext
    /\ run' = [run EXCEPT !.legs = @ + 1]
    /\ \E residual \in RESIDUALS :
         /\ base' = [base EXCEPT !.heading = @ + (residual - estimator.yaw)]
         /\ estimator' = [estimator EXCEPT !.yaw = residual, !.still = Never,
                                           !.stationary = FALSE]
    /\ UNCHANGED <<slotVars, integral, missed>>

\* The turn is aborted, and there is no heading to hold any more.
TurnAborts == TurnIsNext /\ Leave("turn")

\* rest, or the time it takes to start the next program.
Rest ==
    /\ run.pc = "between" /\ ~estimator.stationary
    /\ SlotReset /\ Roll(FALSE) /\ Sample(FALSE)
    /\ UNCHANGED <<integral, run>>

\* drive_heading is called, with a controller that has been reset.
BeginLeg(reverse) ==
    /\ run.pc = "between" /\ run.legs < MAX_LEGS
    /\ SlotReset /\ integral' = 0
    /\ base' = [base EXCEPT !.moved = FALSE, !.awake = FALSE]
    /\ run' = [run EXCEPT !.pc = "driving", !.legs = @ + 1, !.reverse = reverse,
                          !.moving = FALSE, !.still = estimator.stationary]
    /\ UNCHANGED <<estimator, missed>>

Error == -estimator.yaw

RanAway == Magnitude(Error) > MAX_ERROR

\* Mutant of Moving: motion is seen as rotation.
MovingByRate == run.moving \/ estimator.rate # 0

Moving == run.moving \/ ~estimator.stationary

NeverStarted == ~Moving /\ slots >= MOTION_TICKS

Over == slots = MAX_SLOTS

Drive ==
    /\ run.pc = "driving" /\ ~Over /\ ~NeverStarted /\ ~RanAway
    /\ Slot(SteeringDuties(Error, run.reverse))
    /\ integral' = Integrated(Error)
    /\ Roll(TRUE) /\ Sample(TRUE)
    /\ run' = [run EXCEPT !.moving = Moving]

\* The loop is left, the base is stopped and settles.
Finish ==
    /\ run.pc = "driving" /\ (Over \/ NeverStarted \/ RanAway)
    /\ run' = [run EXCEPT !.pc = "settling",
                          !.end = IF Over THEN "done"
                                  ELSE IF NeverStarted THEN "unmoved" ELSE "ranaway"]
    /\ Roll(FALSE) /\ Sample(FALSE)
    /\ UNCHANGED <<slotVars, integral>>

\* The route goes on, or an aborted leg ends it.
Settled ==
    /\ run.pc = "settling"
    /\ run' = [run EXCEPT !.pc = IF run.end = "done" THEN "between" ELSE "ended"]
    /\ UNCHANGED <<slotVars, base, estimator, integral, missed>>

Next == \/ Calibrate \/ Pivot \/ TurnAborts \/ Rest \/ \E reverse \in BOOLEAN : BeginLeg(reverse)
        \/ Drive \/ Finish \/ Settled \/ Raise

Spec == Init /\ [][Next]_vars

-----------------------------------------------------------------------------
(* Properties. *)

\* The slots of every run are those of SlotSteering: the locals of drive_heading
\* start anew with each of its calls, and no other call disturbs them.
SteersBySlots == SlotSpec

\* Driving teaches the estimator nothing: its bias is that of the calibration, or
\* the offset of the gyro, learned while the base was at rest
\* (_update_stationary: "gyro alone is not enough").
BiasIsUntaught == estimator.bias \in {0, base.offset}

\* The service knows the offset of the gyro: it has not moved since the service
\* was started, or the route has calibrated.
Calibrated == base.offset = 0 \/ run.calibrated

\* The yaw is that of the base but for what the bias does not know yet, and for
\* the samples that were missed: a gap loses the rotation in it, and no more.
YawErrorIsBounded ==
    Calibrated => Magnitude(estimator.yaw - base.heading)
                         <= 2 * (TURN + 1) * missed

\* "Never started" is said of a base that has not moved; and a base that has not
\* moved is said to have run only if it had not been still when the leg began, or
\* the leg is over before the motion timeout is.
MotionIsJudged ==
    run.pc = "settling" /\ missed = 0 =>
      /\ run.end = "unmoved" => ~base.moved
      /\ run.end = "done" /\ MOTION_TICKS < MAX_SLOTS /\ base.offset <= QUIET =>
           base.moved \/ ~run.still

\* A base that is steered the wrong way, its treads swapped, is stopped as soon
\* as the IMU can tell (MAX_ERROR_DEG), unless it is no further than a turn has
\* left it.
RunawayIsStopped ==
    Calibrated =>
      \/ Magnitude(base.heading) <= MAX_ERROR + (TURN + 1) * (1 + 2 * missed)
      \/ \E residual \in RESIDUALS :
           Magnitude(base.heading) <= Magnitude(residual) + 2 * (TURN + 1) * missed

\* Both: a leg that should not go on is ended, and for the right reason.
LegsAreJudged == MotionIsJudged /\ RunawayIsStopped

\* Whatever its drift, and whichever way it drives, a base that is wired right is
\* within a dropped slot of the heading to be held at the end of a leg, and so of
\* each leg of a route: what a turn has left does not add up.
HeadingIsHeld ==
    run.pc = "settling" /\ run.end = "done" /\ base.wired = 1 /\ Calibrated /\ missed = 0
      /\ base.moved => Magnitude(base.heading) <= TURN + Magnitude(base.drift)
=============================================================================
