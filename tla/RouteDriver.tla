---------------------------- MODULE RouteDriver ----------------------------
(***************************************************************************)
(* The motor service and one of the programs that stream a whole run from  *)
(* one socket and one session: run_route of scripts/drive_route.py          *)
(* ("legs"), with its legs, gaps and credits; run_route of                  *)
(* scripts/drive_straight_compensated.py ("slots"); and run_closed_loop of  *)
(* scripts/closed_loop_drive.py ("loop").  The first reads for its stop     *)
(* with a loop of its own and does not stop when it is interrupted; the     *)
(* other two stop in their finally clause and credit what they read there.  *)
(* Which treads a slot drives is said in SlotSteering and HeadingHold.      *)
(***************************************************************************)
EXTENDS MotorSession, Sequences, SequencesExt, FiniteSets

CONSTANTS
    SEGMENTS,           \* the motions that are asked for, each a tick or more
    LEAD_IN_TICKS, GAP_TICKS, TAIL_TICKS, SEGMENT_TICKS,
    CONFIRM_TICKS,      \* STOP_CONFIRM_SECONDS, stop_deadline
    MAX_LATE            \* bound: what the network loses or holds back

ASSUME RouteAssumption ==
    /\ Addresses = {Port} /\ SEGMENTS \in Seq(Drives) /\ SEGMENTS # <<>>
    /\ {LEAD_IN_TICKS, GAP_TICKS, TAIL_TICKS, MAX_LATE} \subseteq Nat
    /\ {SEGMENT_TICKS, CONFIRM_TICKS} \subseteq Nat \ {0}

Programs == {"legs", "slots", "loop"}

Leg(cmd, ticks, start) == [cmd |-> cmd, start |-> start, end |-> start + ticks]

\* The next leg follows on the last one; one of no time is left out.
Laid(plan, cmd, ticks) ==
    IF ticks = 0 THEN plan
    ELSE Append(plan, Leg(cmd, ticks, IF plan = <<>> THEN 0 ELSE Last(plan).end))

\* build_timeline: a lead-in is a stop leg before the segments, a gap one between
\* two of them, and a tail one behind them.
Timeline[i \in 0..Len(SEGMENTS)] ==
    IF i = 0 THEN Laid(<<>>, Stop, LEAD_IN_TICKS)
    ELSE LET plan == Laid(Timeline[i - 1], SEGMENTS[i], SEGMENT_TICKS)
         IN  Laid(plan, Stop, IF i < Len(SEGMENTS) THEN GAP_TICKS ELSE TAIL_TICKS)

MostLegs == 2 * Len(SEGMENTS) + 1

\* The programs that drop slots drive a single leg.
Plans == [p \in Programs |-> IF p = "legs" THEN Timeline[Len(SEGMENTS)]
                             ELSE <<Leg(SEGMENTS[1], SEGMENT_TICKS, 0)>>]

VARIABLES
    program,
    clock,          \* ticks since the route was started
    pc,             \* "driving"; "stopping", with the number of the stop in `sequence';
                    \* "closed"
    leg_of,         \* history: the leg each packet was of
    pending,        \* the packets that have not been credited
    credited,       \* leg -> its acknowledged packets
    stop_acked, interrupted,
    late

route == <<program, clock, pc, sequence, leg_of, pending, credited, stop_acked, interrupted>>
vars == <<service, route, packets, replies, late>>

legs == Plans[program]
total == Last(legs).end

Init ==
    /\ ServiceInit
    /\ program \in Programs /\ clock = 0 /\ pc = "driving" /\ sequence = 0
    /\ leg_of = <<>> /\ pending = {} /\ stop_acked = FALSE /\ interrupted = FALSE
    /\ credited = [l \in 1..MostLegs |-> 0]
    /\ packets = {} /\ replies = <<>> /\ late = 0

-----------------------------------------------------------------------------
(* The program. *)

\* leg_at.
LegAt(tick) == CHOOSE l \in DOMAIN legs : legs[l].start <= tick /\ tick < legs[l].end

\* Mutant of Credit: an acknowledgement counts for the leg that is driven now.
CreditNow(n) == LegAt(IF clock < total THEN clock ELSE total - 1)

Credit(n) == leg_of[n + 1]

\* drain: what has come in, one reply after the other, takes its packet out of
\* pending and is credited to its leg.
Acknowledged == {n \in pending : \E i \in DOMAIN replies : replies[i].ok /\ replies[i].sequence = n}

Drain ==
    /\ replies' = <<>>
    /\ pending' = pending \ Acknowledged
    /\ credited' = [l \in DOMAIN credited |->
                      credited[l] + Cardinality({n \in Acknowledged : Credit(n) = l})]

\* A packet is sent, and then drain: what the service says of this packet is
\* read a tick later.
Send(cmd) ==
    /\ pc = "driving" /\ clock < total /\ sequence = clock
    /\ packets' = packets \union {Packet(sequence, cmd)}
    /\ sequence' = sequence + 1
    /\ leg_of' = Append(leg_of, LegAt(clock))
    /\ replies' = <<>>
    /\ pending' = (pending \ Acknowledged) \union {sequence}
    /\ credited' = [l \in DOMAIN credited |->
                      credited[l] + Cardinality({n \in Acknowledged : Credit(n) = l})]
    /\ UNCHANGED <<service, program, clock, pc, stop_acked, interrupted, late>>

\* One tick of the route: the command of the leg.
StreamLeg == program = "legs" /\ Send(legs[LegAt(clock)].cmd)

\* One slot: the command, or nothing if both treads are skipped, as they may be
\* when both duties are given on the command line.
StreamSlot ==
    \/ program # "legs" /\ Send(legs[1].cmd)
    \/ program = "slots" /\ Send(Stop)

\* The timeline is over, and the first stop is sent.
BeginStop ==
    /\ pc = "driving" /\ clock = total
    /\ pc' = "stopping" /\ clock' = 0
    /\ packets' = packets \union {Packet(sequence, Stop)}
    /\ UNCHANGED <<service, program, sequence, leg_of, pending, credited, stop_acked,
                   interrupted, replies, late>>

\* KeyboardInterrupt in drive_route, or a second one in the finally clause of
\* the others: the socket is closed.
Abandon ==
    /\ pc = "stopping" \/ (pc = "driving" /\ program = "legs")
    /\ pc' = "closed" /\ interrupted' = TRUE
    /\ UNCHANGED <<service, program, clock, sequence, leg_of, pending, credited,
                   stop_acked, packets, replies, late>>

\* KeyboardInterrupt in the other two: the finally clause sends their stop.
StopAnyway ==
    /\ pc = "driving" /\ program # "legs"
    /\ pc' = "stopping" /\ clock' = 0 /\ interrupted' = TRUE
    /\ packets' = packets \union {Packet(sequence, Stop)}
    /\ UNCHANGED <<service, program, sequence, leg_of, pending, credited, stop_acked,
                   replies, late>>

StopHeard == \E i \in DOMAIN replies : replies[i].ok /\ replies[i].sequence = sequence

\* Mutant of KeepsCredits: all of them read for their stop as drive_route does.
DropsCredits == FALSE

\* drive_route drops what it reads that is not the answer to its stop.
KeepsCredits == program # "legs"

\* The stop is read for, until it is heard of.
ReadForStop ==
    /\ pc = "stopping" /\ ~stop_acked /\ replies # <<>>
    /\ stop_acked' = StopHeard
    /\ IF KeepsCredits THEN Drain ELSE replies' = <<>> /\ UNCHANGED <<pending, credited>>
    /\ UNCHANGED <<service, program, clock, pc, sequence, leg_of, interrupted, packets, late>>

\* It is acknowledged, or time is up: the stop is sent twice more.
Close ==
    /\ pc = "stopping" /\ (stop_acked \/ clock = CONFIRM_TICKS)
    /\ pc' = "closed"
    /\ packets' = packets \union {Packet(sequence, Stop)}
    /\ UNCHANGED <<service, program, clock, sequence, leg_of, pending, credited, stop_acked,
                   interrupted, replies, late>>

PacketsOf(l) == Cardinality({i \in DOMAIN leg_of : leg_of[i] = l})

\* drive_route.main: a leg of which less than 95 % was acknowledged is a failure.
LowRate(l) == 100 * credited[l] < 95 * PacketsOf(l)

\* What main returns: drive_straight_compensated wants the stop acknowledged and
\* something heard on the way, closed_loop_drive is always content.
ExitStatus ==
    CASE program = "legs" -> IF \E l \in DOMAIN legs : LowRate(l) THEN 2 ELSE 0
      [] program = "slots" -> IF stop_acked /\ credited[1] > 0 THEN 0 ELSE 2
      [] program = "loop" -> 0

-----------------------------------------------------------------------------
(* The network and the service. *)

\* A packet is served, and its reply is read in the next tick or lost.
Deliver(p) ==
    /\ Serve(p)
    /\ packets' = packets \ {p}
    /\ \/ replies' = Append(replies, Reply(p)) /\ UNCHANGED late
       \/ late < MAX_LATE /\ late' = late + 1 /\ UNCHANGED replies
    /\ UNCHANGED route

Lose(p) ==
    /\ late < MAX_LATE /\ late' = late + 1
    /\ packets' = packets \ {p}
    /\ UNCHANGED <<service, route, replies>>

Watchdog == WatchdogExpires /\ UNCHANGED <<route, packets, replies, late>>

\* A tick: packets that have not been delivered are late, and an unanswered stop
\* is sent again, with the number it had.
Tick ==
    /\ ServiceTick
    /\ pc = "driving" => sequence = clock + 1
    /\ pc = "stopping" => clock < CONFIRM_TICKS /\ ~stop_acked /\ replies = <<>>
    /\ late' = late + Cardinality(packets) /\ late' <= MAX_LATE
    /\ clock' = IF pc = "closed" THEN clock ELSE clock + 1
    /\ packets' = IF pc = "stopping" THEN packets \union {Packet(sequence, Stop)} ELSE packets
    /\ UNCHANGED <<program, pc, sequence, leg_of, pending, credited, stop_acked,
                   interrupted, replies>>

Next ==
    \/ StreamLeg \/ StreamSlot \/ BeginStop \/ Abandon \/ StopAnyway
    \/ ReadForStop \/ Close
    \/ \E p \in packets : Deliver(p) \/ Lose(p)
    \/ Watchdog \/ Tick

Spec == Init /\ [][Next]_vars

\* The clock and the program go on, and what is not lost arrives.
FairSpec ==
    /\ Spec /\ WF_vars(Tick) /\ WF_vars(Watchdog)
    /\ WF_vars(StreamLeg \/ StreamSlot \/ BeginStop \/ ReadForStop \/ Close)
    /\ WF_vars(\E p \in packets : Deliver(p))

-----------------------------------------------------------------------------
(* Properties. *)

\* "Commanding a stop is deterministic" (build_timeline): once a packet of a gap,
\* or of the tail, has been credited to it, the base rests until the next segment,
\* whatever arrives late of the segment before.
GapHolds ==
    pc = "driving" /\ sequence > 0 =>
      LET l == leg_of[sequence]
      IN  legs[l].cmd = Stop /\ credited[l] > 0 => actions = Stop

\* A stop that is reported as acknowledged is not undone by a packet of the route.
StoppedHolds == stop_acked => actions = Stop

\* Both: what the service has confirmed as a stop is one.
StopsHold == GapHolds /\ StoppedHolds

\* A route that is over, or was interrupted, leaves the base at rest for good:
\* stopped, or released by the watchdog.
RouteRests == pc = "closed" ~> [](actions = Stop)

\* When the network loses and delays nothing, and nobody interrupts, every packet
\* is known to have arrived and the program says that all went well.
CreditedIfHeard ==
    pc = "closed" /\ ~interrupted /\ late = 0 => pending = {} /\ ExitStatus = 0

\* So it is for the programs that credit what their stop reads.
SlotsAreCredited == program # "legs" => CreditedIfHeard
=============================================================================
