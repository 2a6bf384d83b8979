# TLA+ models of house-bot

house-bot drives a toy tracked base by pressing the buttons of its own radio
remote: a Raspberry Pi is wired across the remote's scanned button matrix, a
service on the Pi takes wheel commands over UDP, and everything else (bench
scripts, turns measured by a gyroscope, a ROS 2 / Nav2 stack) is a client of
that service or of the IMU service beside it.  This directory holds models of
the parts in which order, loss, timing and restarts decide whether the base
stops when it should; runs of TLC over small instances of them; and theorems,
checked by TLAPS, that hold for every instance.

Paths below are relative to the repository root; modules and configurations are
in this directory.  `PROJECT.json` maps every definition to its source lines.

## 1. The system

| part | source | state it keeps | operations | talks to |
|---|---|---|---|---|
| scan-gated button matrix | `scripts/pi_motor_service.py` (`MatrixMotorRuntime`), pin and wheel tables of `scripts/remote_gpio_controller.py` | commanded actions, direction of every column pin, `sink_active`, `row_was_low`, `window_counts` | `set_wheels`, `release_action`, `poll`, `close` | the remote, by GPIO |
| motor UDP service | `scripts/pi_motor_service.py` (`run_server`) | `client_sequences`, `last_command_ns` | packet, watchdog, shutdown | clients, by UDP; the matrix, by calls |
| one-shot motor client | `scripts/send_motor_command.py` | `sequence`, `acknowledged_sequences`, `rejection_errors` | drive loop, stop loop, two last stops | motor service |
| motor stream | `scripts/turn_by_imu.py` (`MotorStream`) | `sequence`, what the last `drain` saw | `drive`, `drain`, `stop`, `close` | motor service |
| base driver node | `ros_ws/.../base_driver.py`, `base_kinematics.py` | enabled, estopped, three times, requested and applied command, pose | `on_cmd_vel`, `on_enable`, `on_estop`, `control_tick`, `destroy_node` | Nav2 and operators, by topics and services; motor service |
| named goal manager | `ros_ws/.../named_goal_manager.py` | `active_goal_handle`, `active_label`, latched status | goal callbacks, response, feedback, result, cancel | Nav2 actions |
| IMU service | `scripts/imu_service.py`, `scripts/mpu6050.py` | subscribers with expiry, one pending calibration, the yaw estimator | `subscribe`, `unsubscribe`, `zero`, `calibrate`, publish | IMU clients, by UDP |
| IMU client | `scripts/turn_by_imu.py` (`ImuClient`), `scripts/imu_monitor.py` | latest state, next refresh, the request it waits in | `pump`, `request`, `close` | IMU service |
| turn control | `scripts/turn_by_imu.py` (`execute_turn`, `drive_until_angle`, `nudge_to_heading`, `main`), `pulse_response.py` | angle turned, the coast learned per direction in a file | prime, turn, settle, correct, nudge, learn; sweep pulses | motor stream, IMU client |
| slot steering and heading hold | `scripts/drive_heading.py`, `closed_loop_drive.py`, `drive_straight_compensated.py`, `run_base_calibration_route.py` | slot accumulators, integral term, what was seen of the base | choose the treads of each slot, abort a leg | motor stream, IMU client |
| routes | `scripts/drive_route.py`, `drive_straight_compensated.py`, `closed_loop_drive.py`, `drive_primed.py`, `drive_distance.py` | timeline, sequence, what is pending, credits per leg | stream a timeline, stop, report | motor service |
| GPIO controller and prober | `scripts/remote_gpio_controller.py`, `probe_matrix.py` | sink flags per pin pair | gate pairs, continuity probing, grouping into nets | the remote, by GPIO |
| live DPVO frame stream | `scripts/run_live_dpvo.py` | the newest frame, under a condition | publish, `newest_after` | camera thread and tracker |
| Wi-Fi watchdog | `scripts/pi_wifi_watchdog.sh` | a failure count in a file | one run per timer tick | NetworkManager, systemd |
| analysis and calibration | `scripts/calibrate_*.py`, `align_dpvo_scale.py`, `benchmark_dpvo.py` | none that lives on | batch arithmetic | files |
| launch, images, SLAM tooling | `ros_ws/.../launch`, `config`, `navigation`, `patches`, `scripts/*.sh` | none | declarative wiring, installation | |

What is hard here, and what correctness means part by part:

* **Matrix.** The remote scans on its own clock while the Pi polls.  A column
  held low a moment too long presses the button of the *next* row, including
  buttons (F, mode) nobody wired.  Pivots share columns between treads, so
  dropping one action must neither truncate the press of another nor leave a
  column low that no action owns.  Correct: no ghost press, never two direction
  lines at once, releases complete, the record of the pins true, every commanded
  action pressed again and again.
* **Motor link.** UDP loses, reorders and duplicates; a drive packet can arrive
  after the stop that follows it; clients and service die.  Correct: a stop is
  final, an acknowledgement is true, the base rests when nobody renews a lease.
* **Base driver.** Callbacks arrive in any order between ticks, the emergency
  stop sends nothing by itself, a restarted node may have the old one's port.
  Correct: what was asked before arming never moves the base, an emergency stop
  holds at the wheels, acknowledgements are the node's own.
* **IMU link.** Requests are sent again until answered, calibrations outlast the
  subscription, a capture of one client is replaced by another's.  Correct: an
  answer is of the request it is taken for, repeats do not prolong a capture, the
  stream comes back, closed clients are forgotten.
* **Goals.** Response and result futures of different goals complete in any
  order.  Correct: to a caller that waits, the latched topics and the answer to a
  cancellation are about the goal it means; every end is told.
* **Turns.** Readings come late, out of order or not at all while the treads are
  driven; a base slides after it is released, sleeps, or is wired the wrong way.
  Correct: a turn that is reported as made was made, a correction does not make it
  worse, every turn ends with the treads released, the coast is learned.
* **Heading hold.** A duty is a sum of fractions in floats; the gyro drifts and
  samples are missed; the stillness flag is late.  Correct: no slot is lost or
  invented, driving teaches the estimator nothing, a runaway is stopped, the
  heading is held.
* **Routes.** Packets of one leg arrive in the next; the acknowledgements of the
  last ones are read by the loop that waits for the stop.  Correct: a confirmed
  stop is one, the base rests, what was heard is credited.
* **Bench tools.** A profile is disturbed, two pairs share a column, the tool is
  killed.  Correct: the map is true, presses are whole, nothing is left pressed.

The hazards this list stands for are in `PROJECT.json`, each at its line, with
the properties that would catch it going wrong.

## 2. Modules

    MotorService  <- MotorLink, BaseDriver,
                     MotorSession <- StreamLink, RouteDriver
    LeasedOrders  is implemented by MotorLink, BaseDriver, StreamLink
    SlotSteering, YawEstimator  <- HeadingHold
    ScannedRemote <- MatrixGate, MatrixBench
    ImuLink, GoalManager, TurnControl stand alone

`MatrixGate` is the runtime the service calls; `MotorService` abstracts it to the
command in force, which is what `MatrixGate`'s `SetWheels` takes.  The `MC*`
modules give constants their values; the `*Proof` modules hold theorems
(`MatrixProof` those of `MatrixGate` and `MatrixBench`, `StreamProof` those of
`RouteDriver` and `StreamLink`).

### ScannedRemote, MatrixGate
`ScannedRemote` is the remote: the scan line it is at (`slot`), whether that is low
(`lineLow`), and how far the program on the Pi has got within this phase (`fresh`).
Variables carry the names of the code (`actions`, `sink_active`, `row_was_low`,
`wanted`); `driven` is the direction of each pin.  One `poll` is several actions, because the scan can move between two
GPIO accesses: `PollStart`, one `PollRead` per commanded action in the order of
the tuple, `PollRelease` (the pass over unwanted columns) and `PollAssert`.
`SetWheels` is `set_wheels` with the releases `release_action` makes, `Close` the
`finally` clause, `Kill` a SIGKILL, `Restart` systemd.  The comment of
`request_realtime_scheduling` is the one timing assumption: with `REALTIME`, a
scan phase does not end before a whole poll has run inside it (`fresh`).

### MatrixBench
`remote_gpio_controller.py` from the harness to the button.  `Resolve` profiles
the two wires of a candidate pair and orders them, `PullLow` is one wire of
`detect_shared_nets`, `Groups` the grouping into nets, `Deploy` the rewritten map.
Then `probe_matrix.py`'s shell line: `StopService`, a gating tool (`Begin*`, one
`ReadRow` and `Apply` per pair, `CheckDeadline`, `Finally`, `Interrupt`,
`KillGating`), `StartService`; `stage` is where all of this is.  Each *pair* has a sink flag here, and two pairs may share a
column.  `Take` to `CloseButtons` are the tools that ground buttons without looking at
the scan.  `fooled` remembers that one reading of a follower fell wholly into a
scan window; `strayed` what a killed tool left low that no map owns.
The scheduling assumption of `MatrixGate` is not made here: only the motor service
asks for `SCHED_FIFO`, a bench tool runs on the fair scheduler, and between any two of
its GPIO accesses the scan may go on.  `overslept` remembers that the gap before this
window held no whole round of the tool's loop.

### MotorService, MotorLink, LeasedOrders
`Serve(p)` is one turn of the receive loop: the verdict of parsing and
`require_binary_wheels` (`Fractional` is what they refuse), the stale check,
`set_wheels` and `last_command_ns`.  `Reply(p)` is the acknowledgement,
`WatchdogExpires` the 350 ms check, which the loop makes before it looks at the
socket.  In `MotorLink` a client goes through the phases of `send_motion`: drive
loop, stop loop with the same number until acknowledged or the window is over,
two last sends, end; it may be killed anywhere.  Packets and replies are sets:
any order, any delay, loss, and a bounded number of duplicates.

`LeasedOrders` says what the link promises without packets: numbered orders, each
in force for a lease, never one older than the last obeyed, rest without a new
one.  A client issues them in rows, and gives no number twice (`next`).  All three
kinds of clients implement it: the one-shot client here, the node (`BaseDriver`) and
the stream (`StreamLink`).  The refinement maps the next number of a client to `next`,
`client_sequences` to the floor (`Floor`) and `age` to what is left of the lease
(`LeaseLeft`).  The `book` is the packets under way; in `MotorLink`, where packets are
duplicated and a stop is sent again under its number, it is the orders ever sent.
`RouteDriver`'s programs resend their stop under one number, and no book is made of
their packets.

### MotorSession, StreamLink
`MotorSession` is what the clients with one socket and one session share: the next
number, the packets under way and the replies.  `StreamLink` is
`MotorStream`, whose stop waits for the number of its *first* packet while every
retry has a number of its own.

### BaseDriver
One action per callback, `ControlTick` with its send, drain and disarm in one
step, as `rclpy.spin` runs them.  A Twist is the duty `calibrated_wheel_command`
makes of it.  `heeded`, `mark`, `asked` are history variables.  A restarted node
has a new session, and the port of the old one.

### RouteDriver
Three programs that stream a whole run, its lead-in included, from one socket, told
apart by `program`:
`drive_route` reads for its stop with a loop of its own and does not stop when it
is interrupted; the other two stop in their `finally` clause and credit what they
read there.  `Timeline` is `build_timeline`.  One tick is one packet; what is
delivered in a tick is read in the next.  A packet that outlives its tick, or is
lost, counts against `MAX_LATE`.

### ImuLink
Queues per client that lose packets and keep their order.  An angle is abstracted
to the zero it is measured from (`frame`), the one thing that makes an answer
right or wrong after a `zero` or a `calibrate`.

### YawEstimator, SlotSteering, HeadingHold
`YawEstimator` is a record and the functions of `update`: bias tracking, the
stillness flag with its hold, and samples that are too far apart to be integrated.
`SlotSteering` is the accumulator pair of three programs.  The floats are kept as
a grid of `GRID` units to a duty unit with an error of `ROUNDING` per addition
(-1, 0 or 1) and the tolerance `EPSILON` of the comparison with `1.0 - 1e-9`; `due`
is the exact sum beside it.  `HeadingHold` is `drive_heading` inside the legs of a
calibration route: `Calibrate`, `Pivot` (a turn that leaves a residual), `Rest`,
`BeginLeg`, `Drive` (one slot, one sample), `Finish`, `Settled`.  The base turns by
a dropped slot and by its drift, may be asleep, and may have its treads swapped.
`Raise` is an `ImuError` or an interrupt at any point and `TurnAborts` a turn that
reports an abort: both end the program through its `finally` clause (`Leave`).
Whether a missed sample is an I2C error or a lost packet makes no difference to
what is published, so one action stands for both.

### TurnControl
`execute_turn` as a phase (`pc`) and the part it is in: main turn, correction,
nudge.  `Turning` is one round of `drive_until_angle` with the refresh that keeps
the treads driven; `Aborted` has its three reasons; `StopObeyed` and `StopUnheard`
abstract `MotorStream.stop` (in detail in `StreamLink`) to whether the base hears
of it; `Settle` and `Settled` are `settle_and_read`; `Decide`, `Correct` and
`BeginNudges` the loop over corrections; `Report` and `TornSave` the end of `main`.
`BeginSweep` to `AfterPulse` are `pulse_response.py` on the same client.

### GoalManager
One action per callback, with the goal it is of as parameter; Nav2's servers are
external actions (a goal preempts one of the same action, which ends aborted).
`patient` says whether the callers of this behaviour wait for a goal to end before
they send the next, as `smoke_test.py` does, or are in a hurry.

## 3. Runs

| run | instance | what it shows |
|---|---|---|
| `gate` | the GT004 pin table, a frame of the two wired rows and two rows nobody watches, every wheel command at every moment | what is recorded of the pins is true; no ghost press, no truncated one; commanded buttons are pressed and columns released under fairness |
| `link` | one client, two drive packets and unbounded stop retries, a duplicate, a restart | stops are final; refinement of `LeasedOrders`; the base comes to rest |
| `stream` | three numbers before the tail, so a drive, a stop and its retry or the next drive, and a restart | a confirmed stop holds; `stop()` returns |
| `driver` | two starts of the node on one port, or one and a failure of the service (`MAX_STARTS`), two numbers each, one drive Twist, timeouts of zero ticks (older than one tick is stale) | emergency stop, arming, odometry and acknowledgements in all orders; a base that stays armed goes on hearing |
| `goals` | two destinations, so preemption, and a waypoint list | cancel, label and end are of the right goal for callers that wait; every goal is reported |
| `goals_cancel` | two destinations | violated: see findings |
| `imu` | one pumping client, two requests, a restart | answers, captures, stream and subscriptions |
| `turn` | turns of both signs, two coasts, right and wrong wiring, two corrections, two nudges, two pulses of a sweep, a lease of one tick, a stop asked for two ticks, two faults | success is true and a sweep's base awake, corrections help, a wrong way is bounded, every turn ends, the coast is learned |
| `hold` | three legs of six slots, every drift, offset and wiring, two residuals, two missed samples | exact slots, untaught bias, bounded yaw, legs judged rightly, heading held; refinement of `SlotSteering` |
| `route` | a lead-in tick, forward and back with a gap as long as the watchdog and a tick, or one leg by slots; five late or lost datagrams | stops hold, credits, rest |
| `route_acks` | the same with nothing late | violated: see findings |
| `bench` | the harness of the GT004 remote, three requests, two operator lists, two pin maps | the map is true, a press is whole unless the gap before it was overslept, a probe restores |

**Bounds.** They bound the environment, never the code: `MAX_PACKETS` and
`MAX_SEQUENCE` (packets numbered from there on are lost, which the network may do
anyway), `MAX_DUPLICATES`, `MAX_RESTARTS`, `MAX_NODES`, `MAX_REQUESTS`, `MAX_QUEUE`,
`MAX_FAULTS`, `MAX_LATE`, `MAX_MISSED`, `MAX_LEGS`, `MAX_SLOTS` (the length of a
leg), and in `MatrixBench` one follower that is fooled per identification and one
kill at a time (`OneKillAtATime`).  The hazards need few of them: a drive packet
overtaken by a stop needs two numbers, a retry three, a reused port two nodes, a
late answer two requests, a correction that goes wrong one fault in the main turn
and one in the stop, a residual that adds up two legs.  In `turn` every tick of a stop
that is not heard is a fault: the lease (one tick, then the watchdog lets go) and the
window of `stop` (two ticks, then it gives up) are such that two faults reach the end
of both.  `NAV_TWISTS` chooses which
Twists an instance enumerates.  Times are ticks; only their order relative to the
timeouts matters, and ages stop growing one past the limit they are compared with.
The proofs remove the bounds for the properties they cover.

**Deadlock** is checked in every run but `hold`, which ends when its legs do, and
`route_acks`, where a packet that is late has no next step: elsewhere the clock, or
the environment, always moves.

**Fairness.** `MatrixGate`: the loop never sleeps (`Poll`), the remote scans
while it is awake, systemd restarts (`Restart=on-failure`); commands are not fair.
`MotorLink`: a client's loop ends at its deadline because sockets do not block
and sleeps end; packets do not stay in the network for ever; the service's loop
comes round while it runs (it polls without blocking) and the clock runs.  No
packet is assumed to arrive and no service to be restarted.  `StreamLink`,
`RouteDriver` and `BaseDriver`: the same, with the loops of the programs and the
timer of `control_tick`.  `ImuLink`: both loops go round, and what is sent again and
again is received now and then (strong fairness of `HandleCommand`), without which
no stream could come back.  `GoalManager`: Nav2 answers and ends every goal,
callbacks of finished futures run.  `TurnControl`: the program goes on and a
stalled stream raises; faults are never fair.  `MatrixBench`: the shell and the tool
run on; that an operator asks at all is part of the shell line (`Dispatch`).

## 4. Proofs

| theorem | of | argument |
|---|---|---|
| `MatrixProof!TypeCorrect` | types | inductive; `todo` is a subset of `actions` because commands are only taken between polls |
| `MatrixProof!PinsAlwaysAgree` (and its parts `RecordIsTrue`, `StopReleases`, `NeverTwoColumns`) | `PinsAgree` | each pass changes pin and record together; what a poll wants is owned by a commanded action; where the poll stands in the scan phase (`fresh`), which needs `REALTIME` |
| `MatrixProof!GhostFree` | `NoGhostPress` | from the same invariant |
| `MatrixProof!PressesAreWhole` | `NoTruncatedPress` | `ReadInv`: a row that falls while a poll is under way finds every column released, so what is low belongs to actions that poll has read as wanted; releases for another tread spare it. Assumes `REALTIME` |
| `MatrixProof!MapIsTrue` | `ResolvedIsTrue` | `Sorted`: after every wire that is looked at, each group holds wires of one net and different groups different nets, because of two wires of one net one has followed the other (`NetsTrue`) and a group that a wire touches is the group of its net; so all wires of a net are spoken of through one (`CanonicalOfNet`), and only a scan line looks like a row |
| `MatrixProof!PairsPressWhole` | `PressIsWhole` | while a line is scanned only pairs of that line believe they sink (`Scanned`), for in a gap that is not overslept a whole round lets every pair go (`Between`), and a row that reads low is the scanned one, because the Pi pulls at no scan line (`Apart`); so what a pair lets go while the line is low it did not hold |
| `MotorLinkProof!TypeCorrect`, `AcksAreTrue` | types, `AckedWasObeyed` | every ok reply in flight is of an obeyed packet |
| `MotorLinkProof!StopIsFinal` | `HaltedStaysHalted` | a halted client's floor is at its stop number, and what it sent below is a drive |
| `MotorLinkProof!AcknowledgedStopIsFinal` | `StopAcknowledgedIsFinal` | an acknowledged stop number was obeyed, so the client is halted |
| `MotorLinkProof!LeaseImplemented` | `LeaseKept` | every step maps to a step of `LeasedOrders` or a stutter; assumes a socket per client |
| `StreamProof!StreamLeases` | `StreamLink!OrdersAreLeased` (no run) | every step maps to a step of `LeasedOrders` or a stutter: a packet sent is an order issued, the two of the tail are one row, one that is refused or lost is dropped |
| `StreamProof!ConfirmedHolds` | `ConfirmedStopHolds` | what is acknowledged the service has caught up with; from the first stop on every packet in the network is a stop, so nothing it would still accept drives |
| `StreamProof!StopsAreHeld` | `StopsHold` | `RouteInv`: a packet says what the leg of its number says, and the service obeys numbers in order (`Served`); a credited packet is one it has caught up with (`Heard`), so what it obeys is of the leg the credit is for, because legs are driven in order (`LegsInOrder`, from `TimelineIsWellLaid`) |
| `StreamProof!SlotsCredited` | `SlotsAreCredited` | `InTime`: while nothing is late, each packet is served and answered in its tick and the answer is awaited until it is read (`Awaiting`); so the stop is answered at once and whatever was still pending is read with it |
| `BaseDriverProof!TypeCorrect`, `OldIsVoid` (from `ArmingWaits`, `AcksAreOwn`) | types, `OldCountsForNothing` | `requested` is what was `asked` while fresh; ok replies of a node imply an obeyed packet of it |
| `BaseDriverProof!OdometryTrue` | `OdometryFollowsSent` | the property is inductive itself: `applied` is set with a send or reset to a stop, in every callback |
| `BaseDriverProof!DriverLeases` | `BaseDriver!OrdersAreLeased` (no run) | the packets of a callback are a row that is issued at once (`SendIssuesRow`); a node that is started again retires the numbers of the one before (`StartRetires`); assumes a port of its own for every start of the node |
| `BaseDriverProof!EstopHolds` | `EstopIsFinal` | packets numbered from `mark` on are stops; once heeded the service's record of the node is at `mark` or above, so whatever is accepted is a stop |
| `ImuLinkProof!CaptureKept` (from `RepeatsDoNotProlong`, `AnswersTheLast`) | `CaptureIsKept` | inductive with the shape of the pending capture, for any number of clients replacing one another's |
| `ImuLinkProof!AnswersAreOwn` | `AnswerIsOwn` | `AnswerInv`: the packets under way to a client are in the order of the zeroes they are measured from, none before what the client has, and an answer carries a zero its own request made; induction steps over queues that lose any packet |
| `GoalManagerProof!PatientUnderstood` | `PatientIsUnderstood` | while callers wait, only one goal is unfinished, and it is the last that was requested |
| `GoalManagerProof!EndsOfLast` | `EndIsOfLastGoal` | the same invariant, at the step that publishes an end |
| `HeadingHoldProof!SlotsExact` | `SlotsAreExact` | the float sum is the exact one and an error that the length of a run keeps below the tolerance, so the comparison decides as the exact one would |
| `HeadingHoldProof!LegsSteerBySlots`, `LegsAreExact` | `SteersBySlots`, `SlotsAreExact` | every step of a leg is a step of `SlotSteering` or leaves its variables alone |
| `HeadingHoldProof!BiasUntaught` | `BiasIsUntaught` | a base on its treads shakes, so the flag falls before the bias can follow; at rest the step of the bias is towards the offset, one unit away |
| `HeadingHoldProof!YawBounded` | `YawErrorIsBounded` | with a bias that is right each integrated sample adds what the base turned; a gap, however long, is paid for by the samples missed in it |
| `HeadingHoldProof!LegsJudged` | `LegsAreJudged` | `LegInv`: stillness that is told has lasted for `HOLD`, a base that moves has been awake and is not told still, and while no sample is missed nobody waits longer than `MOTION_TICKS` for a base that sleeps; with `YawInv` for what a turning base may hide |
| `TurnControlProof!SuccessTrue` | `SuccessIsTrue` | `TurnInv`: since its last reading the base has moved on, at the rate that reading tells, for no more ticks than the reading is old and than readings went wrong (`Reads`); waits outlast the slide (`Slowing`); so what is measured is near (`Rested`), and what main makes of it is what it says (`Judged`); what `confirm_responsive` saw is what the base did (`FoundAwake`) |
| `TurnControlProof!WrongWayBounded` | `WrongWayIsBounded` | `WrongInv`: how far the base has gone astray *and* how far it will still go (`ToCome`: what is left of the lease, then the coast) together are bounded in every phase; while no reading shows it moving, it has gone no further than the age of the reading (`Unnoticed`) |
| `TurnControlProof!CorrectionHelps` | `CorrectionsHelp` | `HelpInv`: an undisturbed main turn measures exactly what the base coasts (`Measures`), so the floor of the corrections is no less, or the base is too near to be driven (`Coarse`); where the base is and what it will slide stays within the reach of the correction (`Within`), because the release angle is never passed by more than one step |

Assumptions are the named `ASSUME`s of the modules (shape of the pin table and of
the frame, positive timeouts, the command timeout within the watchdog's, a rounding
error of the whole run below the tolerance and the tolerance below a duty unit; for
turns, that the lease of the service is shorter than the wait for a stop, 350 ms and
600 ms, and `SettleAssumption`, that the wait of `settle_and_read`, 0.7 s, and 0.5 s
after a correction, outlasts the slide of the base, and that `yaw_now`, which raises at
0.5 s, takes nothing of before the wait), which TLC evaluates in the runs.
`HarnessAssumption` and `OperatorAssumption` of `MatrixBench` are about the soldering
and about what is typed: one wire of each candidate pair is on a scan line, an
intersection names its scan line first, and a button map of the command line names no
scan line.  The program checks none of these, and the last is needed: with a wire of a scan line in that map (BCM23, which
`MATRIX_PINS` leaves out) a `pulse` that is killed leaves the scan line low, no
service releases it, and `PressIsWhole` fails in the probe that follows.

No theorem of the library that takes a predicate can be used here, so induction over
the harness (`GroupsUpTo`) and over a timeline is on the least element of a set:
`MatrixProof!NatSetInduction` says that a set with 0 and every successor is `Nat`,
from the well-foundedness of the order.

`DriverLeases` and `StreamLeases` state properties that no configuration lists.  The
run `driver` gives both starts of the node one port, the harder case for the emergency
stop, and there the refinement does not hold: the service keeps one entry for an
address, so a late packet of the first node makes it forget the number of the second.
`MotorLinkProof!LeaseImplemented` assumes the same of its clients, and the run `link`
checks it.

The invariants of `TurnControlProof` need the most strengthening: the property speaks
of the end of a turn, the reason is in the order of a reading, a release and a stop
several phases before.  Each of their parts says
what one phase hands to the next, and every action has a lemma of its own
(`Wrong*`, `Measures*`, `Corrects*`, `Coarse*`).

Only model-checked:

* all liveness (fairness and ENABLED are out of reach of the prover);
* `HeadingIsHeld`: it depends on the gains of the controller, which no assumption on
  the constants describes short of their values.

Two clients at once are not in the instance of `link`; the theorems of
`MotorLinkProof` are about any number of them.

## 5. Findings

* `goals_cancel`: the result of a preempted goal drops the handle of the goal that
  preempted it; cancelling then answers "No active navigation goal" while Nav2
  drives.
* `route_acks`: `drive_route` reads for its final stop with a loop of its own, which
  drops the acknowledgement of the last packet of the route; with every packet heard,
  its last leg, the tail-stop, is credited with 9 of 10, below 95 %, and main exits
  with 2.  The acknowledgements of the other legs are read in the leg behind them, and
  the other two programs credit all.

Observations the models make visible, and which no document of the repository
contradicts clearly enough to be a finding, or which are exceptions a property names:

* `MotorStream.stop` goes on resending although a retry has been acknowledged: it
  looks for the number of its first packet (`scripts/turn_by_imu.py:292`).
* A late copy of `zero` or `calibrate` that is handled after its answer moves the zero
  again (`scripts/imu_service.py:162`): requests are safe to repeat while the
  client waits, not afterwards.
* All 40 samples of a follower may fall into one scan window
  (`remote_gpio_controller.py:382`); the map is then wrong (`fooled`).
* The gating tools of the bench never ask for real-time scheduling.
  `docs/SESSION_LOG.md` measures 629 us of blind time on the fair scheduler against a
  budget of 419 us, so such a tool can sleep through a scan gap; the pair of the line
  before then lets go only inside the next window, and cuts the press of a pair that
  shares its column (`PressIsWhole` excepts exactly these windows, by `overslept`).
* A late ok reply of the same session renews the acknowledgement clock of the base
  driver when it arrives (`base_driver.py:238`), whatever it acknowledges.
* A killed gating or grounding tool leaves wires low that the service, which releases
  only the wires of its map, does not own (`strayed`).
* "Never started" of `drive_heading` (`:177`) waits for the stillness flag: a leg that
  begins before the flag is up runs its whole length on a base that sleeps.
* `drive_route` exits with 0 when its final stop was not acknowledged.
* A prime can carry a turn past its release angle; nothing is learned from it then.

## 6. Not modelled

* **Live DPVO frame stream** (`run_live_dpvo.py`): one newest frame behind one
  condition variable, read by one thread that otherwise calls DPVO.  A stream that
  ends without an exception makes `newest_after` wait for its timeout; nothing else
  of the robot depends on it.
* **Wi-Fi watchdog** (`pi_wifi_watchdog.sh`): a count in a file and one process per
  timer tick, which systemd does not run twice at once; what its repairs do is the
  behaviour of NetworkManager and of the kernel driver, which are not here.
* **Calibration and analysis** (`calibrate_*.py`, `align_dpvo_scale.py`,
  `benchmark_dpvo.py`): batch arithmetic over recordings.
* **Of the modelled parts**: register access, unit conversion and the gravity
  projection of `mpu6050.py`; the geometry of `base_kinematics.py` beyond the duty it
  chooses; argument parsing, printing and log files everywhere; of
  `drive_primed.py` and `drive_distance.py` what they add to a motor stream is a
  duration.
* **Launch files, configuration, images, installation, SLAM patches**: declarative, or
  third-party.

Left to do: a version of `TurnControl` over `StreamLink`, to replace the abstract stop
by the detailed one.
