---------------------------- MODULE TurnControl ----------------------------
(***************************************************************************)
(* The closed-loop pivot turns of scripts/turn_by_imu.py: main zeroes the  *)
(* yaw, execute_turn drives until the angle is near, releases, measures    *)
(* what the base coasted, corrects what is left, and main learns the coast *)
(* for the next turn.  scripts/pulse_response.py uses the same client to    *)
(* measure what short pulses do.                                           *)
(*                                                                         *)
(* The base is external: an awake base turns one unit of angle a tick, and *)
(* one that is released slides on by its own coast.  Readings come late,   *)
(* out of order or not at all, and stops are lost, MAX_FAULTS times over.  *)
(***************************************************************************)
EXTENDS Integers

CONSTANTS
    TURNS,              \* the signed angles that are asked for
    COASTS,             \* what a base may coast
    DEFAULT_COAST,      \* DEFAULT_COAST_DEG
    MAX_COAST,          \* what blend_coast clamps a measured coast to
    TOLERANCE, MIN_CORRECTION, MAX_CORRECTIONS,
    NUDGES,             \* max_pulses of nudge_to_heading; 0 is --nudge-pulse 0
    MAX_TICKS, CORRECTION_TICKS, MOTION_TICKS, SETTLE, \* times in the loops
    CONFIRM, LEASE,     \* how long stop() asks, when the watchdog releases
    FRESH, STALL,       \* max_age_s of extrapolated, the stall of yaw_now
    WAKE_MIN,           \* WAKE_MIN_DEG: how far a base that is awake turns
    PULSES,             \* pulses of a sweep
    MAX_FAULTS          \* bound: readings and stops that go wrong, interrupts

ASSUME TurnAssumption ==
    /\ TURNS \subseteq Int /\ COASTS \subseteq Nat /\ DEFAULT_COAST \in Nat \ {0}
    /\ {MAX_COAST, TOLERANCE, MIN_CORRECTION, MAX_CORRECTIONS, NUDGES, MAX_TICKS,
        CORRECTION_TICKS, MOTION_TICKS, SETTLE, CONFIRM, LEASE, FRESH, STALL,
        WAKE_MIN, PULSES, MAX_FAULTS} \subseteq Nat
    /\ LEASE < CONFIRM /\ FRESH <= STALL

\* A wait outlasts what a base slides, and what yaw_now takes for fresh.
ASSUME SettleAssumption == STALL < SETTLE /\ \A c \in COASTS : c <= SETTLE

VARIABLES
    base,               \* the base: heading, speed, what the treads are driven by
    latest,             \* ImuClient.latest
    turn,               \* the locals of main, execute_turn and drive_until_angle,
                        \* and as history what had gone wrong when it began
                        \* (since) and when its last correction or pulse did
                        \* (corrected), and what the base did when it was found
                        \* awake (woke)
    learned,            \* the calibration file
    faults

vars == <<base, latest, turn, learned, faults>>

None == -1
Abs(x) == IF x < 0 THEN -x ELSE x
Sign(x) == IF x < 0 THEN -1 ELSE 1
Least(x, y) == IF x < y THEN x ELSE y
Most(x, y) == IF x < y THEN y ELSE x

Key(degrees) == IF degrees >= 0 THEN "left" ELSE "right"

Idle == [pc |-> "idle", part |-> "main", next |-> "idle", target |-> 0, direction |-> 1,
         coast |-> 0, elapsed |-> 0, moving |-> FALSE, atStop |-> 0, before |-> 0,
         achieved |-> 0, woke |-> 0, slid |-> 0, floor |-> 0, tries |-> 0, abort |-> FALSE,
         exit |-> None, since |-> 0, corrected |-> 0, primed |-> FALSE]

Init ==
    /\ base \in [heading : {0}, speed : {0}, driven : {0}, slide : {0},
                 wired : {1, -1}, coast : COASTS]
    /\ latest = [yaw |-> 0, rate |-> 0, age |-> 0]
    /\ turn = Idle
    /\ learned = [k \in {"left", "right"} |-> None]
    /\ faults = 0

Fault == faults < MAX_FAULTS /\ faults' = faults + 1

-----------------------------------------------------------------------------
(* The base and what the client hears of it. *)

\* extrapolated, as yaw_now returns it.
Yaw == IF latest.age \in 1..FRESH THEN latest.yaw + latest.rate * latest.age
       ELSE latest.yaw

\* yaw_now raises ImuError.
Stalled == latest.age > STALL

Older == [latest EXCEPT !.age = Least(@ + 1, STALL + 1)]

\* A tick with the treads driven by d: a base that sleeps may go on sleeping,
\* one that is released slides, after a correction or a pulse less than its coast.
Roll(d) ==
    \E s \in IF d = 0 THEN {IF base.slide > 0 THEN base.speed ELSE 0}
             ELSE {base.wired * d} \cup (IF base.speed = 0 THEN {0} ELSE {}) :
      \E slide \in IF d = 0 THEN {Most(base.slide - 1, 0)}
                   ELSE IF s = 0 THEN {0}
                   ELSE IF turn.part # "main" THEN 0..base.coast ELSE {base.coast} :
        base' = [base EXCEPT !.heading = @ + s, !.speed = s, !.slide = slide, !.driven = d]

\* pump: the state of now, one that another has overtaken, or none.  _absorb
\* takes what comes last and does not look at its "seq".
Pump ==
    \/ latest' = [yaw |-> base'.heading, rate |-> base'.speed, age |-> 0]
       /\ UNCHANGED faults
    \/ Fault /\ latest' \in {[yaw |-> base.heading, rate |-> base.speed, age |-> 0], Older}

-----------------------------------------------------------------------------
(* main and drive_until_angle. *)

StoredCoast(key) == IF learned[key] \in {None, 0} THEN DEFAULT_COAST ELSE learned[key]

\* calibrate: it is rejected unless the base is still.
Still == [base EXCEPT !.speed = 0, !.slide = 0]

\* zero: its reply carries the new yaw.  A packet from before may still be on
\* its way.
Zero(b) ==
    /\ base' = [b EXCEPT !.heading = 0]
    /\ \/ latest' = [yaw |-> 0, rate |-> b.speed, age |-> 0] /\ UNCHANGED faults
       \/ Fault /\ latest' = [yaw |-> b.heading, rate |-> b.speed, age |-> 0]

\* main, with or without --prime.
Begin(degrees) ==
    /\ turn.pc = "idle" /\ Abs(degrees) > StoredCoast(Key(degrees))
    /\ Zero(Still)
    /\ \E prime \in BOOLEAN :
         turn' = [Idle EXCEPT !.pc = IF prime THEN "prime" ELSE "start", !.primed = prime,
                              !.target = degrees, !.direction = Sign(degrees),
                              !.since = faults, !.coast = StoredCoast(Key(degrees))]
    /\ UNCHANGED learned

\* execute_turn, its prime: a pulse the direction of the turn, with no pump.
Prime ==
    /\ turn.pc = "prime"
    /\ Roll(turn.direction) /\ latest' = Older
    /\ turn' = [turn EXCEPT !.pc = "stopping", !.next = "gap", !.elapsed = 0]
    /\ UNCHANGED <<learned, faults>>

Towards(target, yaw) == IF target >= yaw THEN 1 ELSE -1

Start ==
    /\ turn.pc = "start" /\ ~Stalled
    /\ turn' = [turn EXCEPT !.pc = "driving", !.elapsed = 0, !.moving = FALSE,
                            !.direction = Towards(turn.target, Yaw)]
    /\ UNCHANGED <<base, latest, learned, faults>>

Limit == IF turn.part = "main" THEN MAX_TICKS ELSE Least(MAX_TICKS, CORRECTION_TICKS)

TimedOut == turn.elapsed >= Limit

\* Mutant of WrongWay: the direction is judged in corrections only.
WrongWayLater == /\ ~turn.moving /\ turn.part # "main" /\ latest.rate # 0
                 /\ Sign(latest.rate) # turn.direction

WrongWay == /\ ~turn.moving /\ turn.part = "main" /\ latest.rate # 0
            /\ Sign(latest.rate) # turn.direction

NeverStarted == ~turn.moving /\ latest.rate = 0 /\ turn.elapsed >= MOTION_TICKS

Aborted == TimedOut \/ WrongWay \/ NeverStarted

Arrived == turn.direction * Yaw >= turn.direction * turn.target - turn.coast

\* One more round of the loop: refresh keeps the treads driven.
Turning ==
    /\ turn.pc = "driving" /\ ~Stalled /\ ~Aborted /\ ~Arrived
    /\ Roll(turn.direction) /\ Pump
    /\ turn' = [turn EXCEPT !.elapsed = Least(@ + 1, MAX_TICKS), !.moving = @ \/ latest.rate # 0]
    /\ UNCHANGED learned

\* The loop is left, and motors.stop() is called.
Release ==
    /\ turn.pc = "driving" /\ ~Stalled /\ (Aborted \/ Arrived)
    /\ turn' = [turn EXCEPT !.pc = "stopping", !.next = "settling", !.elapsed = 0,
                            !.atStop = Yaw, !.abort = Aborted]
    /\ UNCHANGED <<base, latest, learned, faults>>

\* stop: the stop is obeyed and acknowledged.
StopObeyed ==
    /\ turn.pc = "stopping"
    /\ base' = [base EXCEPT !.driven = 0]
    /\ turn' = [turn EXCEPT !.pc = turn.next, !.elapsed = 0]
    /\ UNCHANGED <<latest, learned, faults>>

\* stop: it is lost, or its acknowledgement is.  The watchdog releases the
\* treads, and the client that asks meanwhile does not pump.
StopUnheard ==
    /\ turn.pc = "stopping" /\ turn.elapsed < CONFIRM /\ Fault
    /\ \E d \in {0, IF turn.elapsed < LEASE THEN base.driven ELSE 0} : Roll(d)
    /\ latest' = Older
    /\ turn' = IF turn.elapsed + 1 < CONFIRM THEN [turn EXCEPT !.elapsed = @ + 1]
               ELSE [turn EXCEPT !.pc = turn.next, !.elapsed = 0]
    /\ UNCHANGED learned

\* Mutant of AtRest: the angle is read as soon as the stop has been sent.
AtRestAtOnce == TRUE

\* settle_and_read: the wait is over.
AtRest == turn.elapsed = SETTLE

\* settle_and_read, up to its reading, and the other waits that only pump.
Settle ==
    /\ turn.pc \in {"settling", "gap", "resting"} /\ ~AtRest
    /\ Roll(0) /\ Pump
    /\ turn' = [turn EXCEPT !.elapsed = @ + 1]
    /\ UNCHANGED learned

\* The gap after the prime, or the rest after a pulse, is over.
Waited ==
    /\ turn.pc \in {"gap", "resting"} /\ AtRest
    /\ turn' = IF turn.pc = "gap" THEN [turn EXCEPT !.pc = "start"]
               ELSE [turn EXCEPT !.pc = "zeroing"]
    /\ UNCHANGED <<base, latest, learned, faults>>

-----------------------------------------------------------------------------
(* execute_turn, nudge_to_heading. *)

Ended(t) == [t EXCEPT !.pc = "stopping", !.next = "ended", !.elapsed = 0]

\* Mutant of Floor: the coast of this turn does not count.
ConstantFloor(coast) == MIN_CORRECTION

\* min_effective: what a correction can do at least.
Floor(coast) == Most(MIN_CORRECTION, Abs(coast))

\* After the main turn: what it coasted, unless it was aborted, bounds the corrections.
AfterMain(t) ==
    LET coast == t.achieved - t.atStop
        main == [t EXCEPT !.slid = coast]
    IN  IF t.abort THEN Ended(main)
        ELSE [main EXCEPT !.pc = "deciding", !.floor = Floor(coast)]

\* What was left before the last movement.
Error == turn.target - turn.achieved

AfterCorrection(t) ==
    IF t.abort \/ t.achieved = t.before THEN Ended(t)
    ELSE [t EXCEPT !.pc = "deciding", !.tries = @ + 1]

\* Mutant of AfterNudge: pulses are not counted.
AfterAnyNudge(t) ==
    IF \/ t.achieved = t.before
       \/ Abs(t.target - t.achieved) > Abs(Error)
    THEN Ended(t)
    ELSE [t EXCEPT !.pc = "deciding"]

AfterNudge(t) ==
    IF \/ t.achieved = t.before
       \/ Abs(t.target - t.achieved) > Abs(Error)
    THEN Ended(t)
    ELSE [t EXCEPT !.pc = "deciding", !.tries = @ + 1]

\* Mutant of Awake: the pulse moved the base, however little.
AwakeAtAll(t) == Abs(t.achieved - t.before) > 0

\* A base that is awake turns by more than a base at rest may seem to.
Awake(t) == Abs(t.achieved - t.before) >= WAKE_MIN

\* confirm_responsive: two attempts, the second the other way.
AfterWake(t) ==
    IF Awake(t)
    THEN [t EXCEPT !.pc = "zeroing", !.part = "sweep", !.tries = 0,
                   !.direction = 1, !.woke = base.heading]
    ELSE IF t.tries = 0
         THEN [t EXCEPT !.pc = "resting", !.elapsed = 0, !.tries = 1, !.direction = -@]
         ELSE [Ended(t) EXCEPT !.exit = 2]

\* run_sweep: pulses of alternating directions.
AfterPulse(t) ==
    IF t.tries + 1 < PULSES
    THEN [t EXCEPT !.pc = "resting", !.elapsed = 0, !.tries = @ + 1, !.direction = -@]
    ELSE Ended(t)

Settled ==
    /\ turn.pc = "settling" /\ AtRest /\ ~Stalled
    /\ LET t == [turn EXCEPT !.achieved = Yaw]
       IN  turn' = CASE turn.part = "main" -> AfterMain(t)
                     [] turn.part = "correction" -> AfterCorrection(t)
                     [] turn.part = "nudge" -> AfterNudge(t)
                     [] turn.part = "wake" -> AfterWake(t)
                     [] turn.part = "sweep" -> AfterPulse(t)
    /\ UNCHANGED <<base, latest, learned, faults>>

Nudging == turn.part = "nudge" \/ (Abs(Error) < turn.floor /\ NUDGES > 0)

\* The error is small enough, or nothing more can be done about it.
Decide ==
    /\ turn.pc = "deciding"
    /\ \/ Abs(Error) <= TOLERANCE
       \/ turn.part # "nudge" /\ turn.tries = MAX_CORRECTIONS
       \/ turn.part = "nudge" /\ turn.tries = NUDGES
       \/ ~Nudging /\ Abs(Error) < turn.floor
    /\ turn' = Ended(turn)
    /\ UNCHANGED <<base, latest, learned, faults>>

\* Another turn, towards the same target.
Correct ==
    /\ turn.pc = "deciding" /\ Abs(Error) > TOLERANCE /\ ~Nudging
    /\ turn.tries < MAX_CORRECTIONS /\ Abs(Error) >= turn.floor
    /\ turn' = [turn EXCEPT !.pc = "start", !.part = "correction", !.before = turn.achieved,
                            !.corrected = faults]
    /\ UNCHANGED <<base, latest, learned, faults>>

\* nudge_to_heading starts from a reading of its own.
BeginNudges ==
    /\ turn.pc = "deciding" /\ turn.part # "nudge" /\ ~Stalled
    /\ Abs(Error) > TOLERANCE /\ Nudging /\ turn.tries < MAX_CORRECTIONS
    /\ turn' = [turn EXCEPT !.part = "nudge", !.tries = 0, !.achieved = Yaw]
    /\ UNCHANGED <<base, latest, learned, faults>>

\* pulse_rotate: one short pulse, then its stop.
PulseRotate(direction) ==
    /\ ~Stalled
    /\ Roll(direction) /\ Pump
    /\ turn' = [turn EXCEPT !.pc = "stopping", !.next = "settling", !.elapsed = 0,
                            !.before = Yaw]
    /\ UNCHANGED learned

Nudge ==
    /\ turn.pc = "deciding" /\ turn.part = "nudge"
    /\ Abs(Error) > TOLERANCE /\ turn.tries < NUDGES
    /\ PulseRotate(Sign(Error))

\* pulse_response.main: the base is still, and is asked whether it is awake.
BeginSweep ==
    /\ turn.pc = "idle"
    /\ base' = Still
    /\ turn' = [Idle EXCEPT !.pc = "zeroing", !.part = "wake", !.since = faults]
    /\ UNCHANGED <<latest, learned, faults>>

\* The yaw is zeroed before each pulse.
ZeroYaw ==
    /\ turn.pc = "zeroing"
    /\ Zero(base)
    /\ turn' = [turn EXCEPT !.pc = "pulse", !.corrected = faults]
    /\ UNCHANGED learned

Pulse == turn.pc = "pulse" /\ PulseRotate(turn.direction)

\* ImuError or KeyboardInterrupt, anywhere: motors.stop() and out.  The watchdog
\* does not start anew when that interrupts another stop.
Raise ==
    /\ turn.pc \notin {"idle", "ended"} /\ turn.next # "ended"
    /\ \/ Stalled /\ (turn.pc \in {"start", "driving", "deciding", "pulse"}
                        \/ (turn.pc = "settling" /\ AtRest))
          /\ UNCHANGED faults
       \/ Fault
    /\ turn' = [Ended(turn) EXCEPT !.exit = 2,
                                   !.elapsed = IF turn.pc = "stopping" THEN turn.elapsed ELSE 0]
    /\ UNCHANGED <<base, latest, learned>>

-----------------------------------------------------------------------------
(* main, after the motors are closed. *)

\* Mutant of Blend: what the file cannot hold is cut off instead of rounded, so
\* a coast that was stored two units short stays so.
BlendTruncated(previous, measured) ==
    LET clamped == Most(0, Least(MAX_COAST, measured))
    IN  IF previous = None THEN clamped
        ELSE previous + (35 * (clamped - previous)) \div 100

\* blend_coast with its weight of 0.35, rounded to the units of the file.
Blend(previous, measured) ==
    LET clamped == Most(0, Least(MAX_COAST, measured))
    IN  IF previous = None THEN clamped
        ELSE previous + (35 * (clamped - previous) + 50) \div 100

Sweeping == turn.part \in {"wake", "sweep"}

\* The turn was measured, and is something to learn from.
Learns == ~Sweeping /\ turn.exit = None /\ ~turn.abort /\ Abs(turn.slid) > 0

\* What main returns.
Result ==
    IF turn.exit # None THEN turn.exit
    ELSE IF Sweeping THEN 0
    ELSE IF turn.abort THEN 2
    ELSE IF Abs(Error) <= Most(TOLERANCE, turn.floor) THEN 0 ELSE 3

Report ==
    /\ turn.pc = "ended"
    /\ learned' = IF Learns
                  THEN [learned EXCEPT ![Key(turn.target)] = Blend(@, Abs(turn.slid))]
                  ELSE learned
    /\ turn' = [turn EXCEPT !.pc = "idle", !.exit = Result]
    /\ UNCHANGED <<base, latest, faults>>

\* save_calibration is killed while it writes; load_calibration takes what it
\* cannot read for an empty file.
TornSave ==
    /\ turn.pc = "ended" /\ Learns /\ Fault
    /\ learned' = [k \in DOMAIN learned |-> None]
    /\ turn' = Idle
    /\ UNCHANGED <<base, latest>>

Step == \/ ZeroYaw \/ Prime \/ Waited \/ Pulse
        \/ Start \/ Turning \/ Release \/ StopObeyed \/ StopUnheard \/ Settle \/ Settled
        \/ Decide \/ Correct \/ BeginNudges \/ Nudge \/ Report

Next == Step \/ Raise \/ TornSave \/ BeginSweep \/ \E degrees \in TURNS : Begin(degrees)

Spec == Init /\ [][Next]_vars

\* The program goes on, the clock with it, and a stalled stream raises.
FairSpec == Spec /\ WF_vars(Step) /\ WF_vars(Raise /\ UNCHANGED faults)

-----------------------------------------------------------------------------
(* Properties. *)

AtEnd == turn.pc = "idle" /\ turn.exit # None

\* A turn that main reports as made was made: the base is as near to its target
\* as the tolerance, or the coast it measured, allows, but for what a reading
\* may be late: the stall of yaw_now, and the one that it overtook (main, its
\* exit status).
TurnIsTrue ==
    AtEnd /\ turn.exit = 0 /\ ~Sweeping =>
      Abs(turn.target - base.heading)
        <= Most(TOLERANCE, turn.floor) + Least(STALL + 1, faults - turn.since)

\* What a sweep says of a pulse that nothing disturbed is what the base did, and
\* a sweep that says anything has found the base awake: nothing having gone wrong,
\* the pulse of confirm_responsive did turn it by WAKE_MIN_DEG.
SweepIsTrue ==
    AtEnd /\ turn.exit = 0 /\ Sweeping =>
      /\ turn.part = "sweep"
      /\ turn.corrected = faults => turn.achieved - turn.before = base.heading
      /\ turn.since = faults => Abs(turn.woke) >= WAKE_MIN

\* Both: what the programs report is what the base did.
SuccessIsTrue == TurnIsTrue /\ SweepIsTrue

\* A correction of a turn that nothing disturbs leaves the base no further from
\* its target than it found it: none is made that the base is too coarse for
\* (execute_turn, min_effective; drive_until_angle).  When something went wrong
\* before the correction, what the base coasts was measured wrong: then it ends
\* no further than the base coasts, and than what went wrong hides.  On a base
\* that is wired the wrong way, which only the main turn looks for, it may.
CorrectionsHelp ==
    AtEnd /\ turn.part = "correction" /\ turn.corrected = faults /\ base.wired = 1 =>
      LET left == Abs(turn.target - turn.before)
          wrong == turn.corrected - turn.since
      IN  Abs(turn.target - base.heading)
            <= IF wrong = 0 THEN left ELSE Most(left, base.coast) + wrong

\* A base that is wired to turn the wrong way is stopped before it has turned
\* further than it takes to notice, with readings that may all be of before it
\* moved, and to release it (check_direction), and before that by its prime,
\* during which nobody looks.
WrongWayIsBounded ==
    base.wired = -1 /\ turn.part = "main" /\ turn.pc # "idle" =>
      LET released == LEASE + base.coast + 1
      IN  Sign(turn.target) * base.heading
            >= -(STALL + 1 + released + IF turn.primed THEN released ELSE 0)

\* Every turn ends, and with the treads released, whatever becomes of the
\* readings, the stops and the base: a timeout of its own ends each wait of
\* execute_turn, and main stops the motors on every path.
EveryTurnEnds == turn.pc # "idle" ~> turn.pc = "idle" /\ base.driven = 0

\* "so it converges on its own" (the module's docstring): a base that always
\* coasts the same angle has it learned, to the rounding of the blend, if turns
\* that way go on being made and measured.
LearnedConverges ==
    \A k \in {"left", "right"} :
      []<><<Report /\ Key(turn.target) = k /\ Learns>>_vars
        => <>[](Abs(learned[k] - base.coast) <= 1)
=============================================================================
