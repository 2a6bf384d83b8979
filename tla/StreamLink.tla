----------------------------- MODULE StreamLink -----------------------------
(***************************************************************************)
(* The motor service and one MotorStream of scripts/turn_by_imu.py: the    *)
(* client of the turn, heading and calibration programs.  Unlike           *)
(* send_motion it goes on living after a stop, drives again, and numbers   *)
(* every packet afresh, the retries of a stop included.                    *)
(***************************************************************************)
EXTENDS MotorSession

CONSTANTS
    MAX_SEQUENCE,     \* bound: packets a stream may send
    CONFIRM_WINDOW,   \* confirm_seconds in ticks
    MAX_RESTARTS      \* bound: restarts of the service

ASSUME StreamAssumption ==
    /\ Addresses = {Port}
    /\ MAX_SEQUENCE \in Nat /\ CONFIRM_WINDOW \in Nat /\ MAX_RESTARTS \in Nat

VARIABLES               \* `sequence' is self.sequence
    phase,          \* between calls, in stop()'s loop, in its tail, closed
    acknowledged,   \* self.acknowledged
    stop_sequence,  \* the local of the last call of stop()
    confirm_left,   \* ticks to its deadline
    result,         \* what the last stop() returned; "none" once driving again
    restarts

stream == <<phase, sequence, acknowledged, stop_sequence, confirm_left, result>>
streamVars == <<service, stream, packets, replies, restarts>>

StreamInit ==
    /\ ServiceInit
    /\ phase = "ready" /\ sequence = 0 /\ acknowledged = {}
    /\ stop_sequence = 0 /\ confirm_left = 0 /\ result = "none"
    /\ packets = {} /\ replies = {} /\ restarts = 0

-----------------------------------------------------------------------------
(* MotorStream. *)

\* send_now, and refresh when its interval is due: a drive, or the zero
\* wheels that separate two pulses.
SendNow(cmd) ==
    /\ phase = "ready" /\ sequence < MAX_SEQUENCE
    /\ packets' = packets \union {Packet(sequence, cmd)}
    /\ sequence' = sequence + 1
    /\ result' = "none"
    /\ UNCHANGED <<service, phase, acknowledged, stop_sequence, confirm_left,
                   replies, restarts>>

\* stop() sends its first packet and remembers that one's number only.
StopBegins ==
    /\ phase = "ready" /\ sequence < MAX_SEQUENCE
    /\ packets' = packets \union {Packet(sequence, Stop)}
    /\ stop_sequence' = sequence
    /\ sequence' = sequence + 1
    /\ confirm_left' = CONFIRM_WINDOW
    /\ phase' = "stopping"
    /\ UNCHANGED <<service, acknowledged, result, replies, restarts>>

\* A retry is a new packet with a new number.
StopRetries ==
    /\ phase = "stopping" /\ sequence < MAX_SEQUENCE
    /\ confirm_left > 0 /\ stop_sequence \notin acknowledged
    /\ packets' = packets \union {Packet(sequence, Stop)}
    /\ sequence' = sequence + 1
    /\ UNCHANGED <<service, phase, acknowledged, stop_sequence, confirm_left,
                   result, replies, restarts>>

\* Mutant of StopConfirmed: any acknowledgement of the session will do.
AnyConfirms == acknowledged # {}

StopConfirmed == stop_sequence \in acknowledged

\* Mutant of StopOver: the loop has no deadline.
StopOverOnAck == StopConfirmed

StopOver == confirm_left = 0 \/ StopConfirmed

\* The loop is over; two more packets follow, each with a number of its own.
StopTail ==
    /\ phase = "stopping"
    /\ StopOver
    /\ packets' = packets \union
                    {Packet(sequence, Stop), Packet(sequence + 1, Stop)}
    /\ sequence' = sequence + 2
    /\ phase' = "tail"
    /\ UNCHANGED <<service, acknowledged, stop_sequence, confirm_left, result,
                   replies, restarts>>

\* The last _drain() is behind it: stop() returns.
StopReturns ==
    /\ phase = "tail"
    /\ phase' = "ready"
    /\ result' = IF StopConfirmed THEN "true" ELSE "false"
    /\ UNCHANGED <<service, sequence, acknowledged, stop_sequence, confirm_left,
                   packets, replies, restarts>>

\* _drain takes one reply off the socket.
DrainOne(r) ==
    /\ phase # "closed"
    /\ r \in replies
    /\ replies' = replies \ {r}
    /\ acknowledged' = IF r.ok THEN acknowledged \union {r.sequence}
                               ELSE acknowledged
    /\ UNCHANGED <<service, phase, sequence, stop_sequence, confirm_left, result,
                   packets, restarts>>

\* close(), or the program is killed.
Closes ==
    /\ phase # "closed"
    /\ phase' = "closed"
    /\ UNCHANGED <<service, sequence, acknowledged, stop_sequence, confirm_left,
                   result, packets, replies, restarts>>

-----------------------------------------------------------------------------
(* The network and the service. *)

StreamDeliver(p) ==
    /\ p \in packets
    /\ packets' = packets \ {p}
    /\ Serve(p)
    /\ replies' = replies \union {Reply(p)}
    /\ UNCHANGED <<stream, restarts>>

StreamLose ==
    /\ \/ /\ \E p \in packets : packets' = packets \ {p}
          /\ UNCHANGED replies
       \/ /\ \E r \in replies : replies' = replies \ {r}
          /\ UNCHANGED packets
    /\ UNCHANGED <<service, stream, restarts>>

StreamWatchdog == WatchdogExpires /\ UNCHANGED <<stream, packets, replies, restarts>>

Fail ==
    /\ restarts < MAX_RESTARTS
    /\ ServiceEnds
    /\ restarts' = restarts + 1
    /\ UNCHANGED <<stream, packets, replies>>

Recover == ServiceRestarts /\ UNCHANGED <<stream, packets, replies, restarts>>

StreamTick ==
    /\ ServiceTick
    /\ confirm_left' = IF phase = "stopping" /\ confirm_left > 0
                       THEN confirm_left - 1 ELSE confirm_left
    /\ UNCHANGED <<phase, sequence, acknowledged, stop_sequence, result, packets,
                   replies, restarts>>

StreamNext ==
    \/ \E cmd \in Drives \union {Stop} : SendNow(cmd)
    \/ StopBegins
    \/ StopRetries
    \/ StopTail
    \/ StopReturns
    \/ \E r \in replies : DrainOne(r)
    \/ Closes
    \/ \E p \in packets : StreamDeliver(p)
    \/ StreamLose
    \/ StreamWatchdog
    \/ Fail
    \/ Recover
    \/ StreamTick

StreamSpec == StreamInit /\ [][StreamNext]_streamVars

\* The loop of stop() sleeps 5 ms a turn and the clock runs.
StreamFairSpec == StreamSpec /\ WF_streamVars(StreamTick) /\ WF_streamVars(StreamWatchdog)
                 /\ WF_streamVars(StopTail) /\ WF_streamVars(StopReturns)

-----------------------------------------------------------------------------
(* Properties. *)

\* stop() returned True, so until the stream drives again and while the
\* service lives the treads are released: no earlier drive packet, nor one
\* from a pulse before, can start them.
ConfirmedStopHolds ==
    result = "true" /\ restarts = 0 => actions = Stop

Orders == INSTANCE LeasedOrders WITH
            Clients <- {Session},
            Numbers <- 0..(MAX_SEQUENCE + 2),
            LEASE <- WATCHDOG + 1,
            book <- {<<p.session, p.sequence, p.cmd>> : p \in packets},
            next <- [c \in {Session} |-> sequence],
            floor <- [c \in {Session} |-> Floor(Port, c)],
            moving <- actions,
            left <- LeaseLeft

\* A stream keeps to numbered orders under a lease (module LeasedOrders), over any
\* number of stops and of failures of the service.
OrdersAreLeased == Orders!Spec

\* A call of stop() returns, acknowledged or not.
StopTerminates == phase = "stopping" ~> phase \in {"ready", "closed"}
=============================================================================
