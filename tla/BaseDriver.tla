----------------------------- MODULE BaseDriver -----------------------------
(***************************************************************************)
(* HouseBotBase of base_driver.py, the ROS node between Nav2 and the motor *)
(* service, and the service behind a lossy, reordering network.            *)
(*                                                                         *)
(* rclpy.spin runs the callbacks one at a time: on_cmd_vel, on_estop,      *)
(* on_enable and the timer's control_tick are one action each, in any      *)
(* order.  A Twist stands for the duty calibrated_wheel_command makes of   *)
(* it: Stop, a binary drive or a Fractional one, which the service refuses.*)
(* Times are ages in ticks, NoTime for None, kept from growing one past    *)
(* the timeout they are compared with.  A node that is started again has a *)
(* session and a sequence of its own, numbered by `node', and a socket that*)
(* may have got the port of the one before it.                             *)
(***************************************************************************)
EXTENDS MotorService, Sequences

CONSTANTS
    NoTwist,    \* no Twist has been asked for
    NAV_TWISTS, \* the Twists that arrive on cmd_vel
    PROPORTIONAL_VERIFIED,  \* the parameter proportional_control_verified
    COMMAND_TIMEOUT, ACK_TIMEOUT,   \* in ticks
    MAX_SEQUENCE,   \* bound: packets numbered from here on are lost
    MAX_NODES,      \* bound: starts of the node
    ADDRESS,        \* node -> the address its socket got
    MAX_RESTARTS,   \* bound: failures of the service
    MAX_STARTS      \* bound: starts of the node and failures of the service

ASSUME DriverAssumption ==
    /\ ADDRESS \in [1..MAX_NODES -> Addresses]
    /\ NoTwist \notin Drives \union {Stop, Fractional}
    /\ NAV_TWISTS \subseteq Drives \union {Stop, Fractional}
    /\ PROPORTIONAL_VERIFIED \in BOOLEAN
    /\ COMMAND_TIMEOUT \in Nat /\ ACK_TIMEOUT \in Nat
    /\ COMMAND_TIMEOUT <= WATCHDOG
    /\ MAX_SEQUENCE \in Nat /\ MAX_NODES \in Nat \ {0} /\ MAX_RESTARTS \in Nat
    /\ MAX_STARTS \in Nat

VARIABLES
    node, spinning,     \* which start of the node this is, and is it running?
    enabled, estopped,
    enabled_age, command_age, ack_age,  \* enabled_at, last_command_at, last_ack_at
    requested, applied,     \* the last Twist; what odometry integrates
    sequence,
    packets, replies, restarts,
    asked,      \* history: the last Twist since the node was armed or disarmed
    mark,       \* history: the sequence at the emergency stop
    last_sent,  \* history: the command of the packet sent last
    mover,      \* history: the node whose command was last accepted
    obeyed,     \* history: the nodes of which a command has been accepted
    heeded      \* history: has the service taken a packet sent after the stop?

switch == <<enabled, estopped, enabled_age>>
command == <<requested, command_age, applied>>
driver == <<node, spinning, switch, command, ack_age, sequence>>
served == <<mover, obeyed, heeded>>
vars == <<service, driver, packets, replies, restarts, asked, mark, last_sent, served>>

NoTime == -1
Twists == Drives \union {Stop, Fractional}

Older(t, limit) == IF t = NoTime \/ t > limit THEN t ELSE t + 1

Packet(n, cmd) ==
    [src |-> ADDRESS[node], session |-> node, sequence |-> n, cmd |-> cmd]

\* send_wheels, for a row of packets sent in one callback.
Send(cmds) ==
    /\ packets' = packets \union
         {Packet(sequence + i - 1, cmds[i]) : i \in
             {j \in DOMAIN cmds : sequence + j - 1 < MAX_SEQUENCE}}
    /\ sequence' = IF sequence + Len(cmds) > MAX_SEQUENCE
                   THEN MAX_SEQUENCE ELSE sequence + Len(cmds)
    /\ last_sent' = cmds[Len(cmds)]

\* __init__ : disarmed, no command, no acknowledgement.
Init ==
    /\ ServiceInit
    /\ node = 1 /\ spinning = TRUE
    /\ enabled = FALSE /\ estopped = FALSE /\ enabled_age = NoTime
    /\ requested = Stop /\ command_age = NoTime /\ applied = Stop
    /\ ack_age = NoTime /\ sequence = 0
    /\ packets = {} /\ replies = {} /\ restarts = 0
    /\ asked = NoTwist /\ mark = 0 /\ last_sent = Stop
    /\ mover = 1 /\ obeyed = {} /\ heeded = FALSE

-----------------------------------------------------------------------------
(* The callbacks. *)

\* Mutant of ClearCommand: odometry goes on with what was applied last.
ClearRequestOnly ==
    requested' = Stop /\ command_age' = NoTime /\ UNCHANGED applied

ClearCommand == requested' = Stop /\ command_age' = NoTime /\ applied' = Stop

\* on_cmd_vel, also while the base is disarmed.
OnCmdVel(twist) ==
    /\ spinning
    /\ requested' = twist /\ command_age' = 0
    /\ asked' = twist
    /\ UNCHANGED <<service, node, spinning, switch, applied, ack_age, sequence,
                   packets, replies, restarts, mark, last_sent, served>>

\* on_cmd_vel with a non-finite component.
OnNonFinite ==
    /\ spinning
    /\ enabled' = FALSE /\ enabled_age' = NoTime
    /\ ClearCommand
    /\ asked' = NoTwist
    /\ UNCHANGED <<service, node, spinning, estopped, ack_age, sequence,
                   packets, replies, restarts, mark, last_sent, served>>

\* on_estop with data = True; nothing is sent before the next control_tick.
OnEstop ==
    /\ spinning
    /\ estopped' = TRUE
    /\ enabled' = FALSE /\ enabled_age' = NoTime
    /\ ClearCommand
    /\ asked' = NoTwist
    /\ mark' = IF estopped THEN mark ELSE sequence
    /\ UNCHANGED <<service, node, spinning, ack_age, sequence, packets, replies,
                   restarts, last_sent, served>>

\* on_enable: arming is refused before the treads are proportional and after
\* an emergency stop.
OnEnable(on) ==
    /\ spinning
    /\ on => PROPORTIONAL_VERIFIED /\ ~estopped
    /\ enabled' = on
    /\ enabled_age' = IF on THEN 0 ELSE NoTime
    /\ ClearCommand
    /\ asked' = NoTwist
    /\ UNCHANGED <<service, node, spinning, estopped, ack_age, sequence,
                   packets, replies, restarts, mark, last_sent, served>>

Fresh == command_age # NoTime /\ command_age <= COMMAND_TIMEOUT

\* The wheel command of this tick.
Duty == IF enabled /\ Fresh /\ ~estopped THEN requested ELSE Stop

\* Mutant of Heard: an answer to the node before this one counts too.
HeardAnySession(arrived) == \E r \in arrived : r.ok

\* drain_acknowledgements sets last_ack_at.
Heard(arrived) == \E r \in arrived : r.ok /\ r.session = node

\* Mutant of ReferenceAge: arming does not start the clock.
AckAgeOnly(ack) == ack

\* now - ack_reference
ReferenceAge(ack) ==
    IF enabled_age = NoTime THEN ack
    ELSE IF ack = NoTime \/ enabled_age < ack THEN enabled_age ELSE ack

Unheard(ack) ==
    enabled /\ ReferenceAge(ack) # NoTime /\ ReferenceAge(ack) > ACK_TIMEOUT

\* control_tick: send, drain, and disarm if nothing was acknowledged for long.
ControlTick ==
    /\ spinning
    /\ \E arrived \in SUBSET {r \in replies : r.to = ADDRESS[node]} :
         LET ack == IF Heard(arrived) THEN 0 ELSE ack_age
         IN  /\ replies' = replies \ arrived
             /\ ack_age' = ack
             /\ \/ /\ Unheard(ack)
                   /\ Send(<<Duty, Stop>>)
                   /\ enabled' = FALSE /\ enabled_age' = NoTime
                   /\ ClearCommand
                   /\ asked' = NoTwist
                \/ /\ ~Unheard(ack)
                   /\ Send(<<Duty>>)
                   /\ applied' = Duty
                   /\ UNCHANGED <<enabled, enabled_age, requested, command_age,
                                  asked>>
    /\ UNCHANGED <<service, node, spinning, estopped, restarts, mark, served>>

\* The process is over, and what it knew with it.
Forgotten ==
    /\ spinning /\ spinning' = FALSE
    /\ enabled' = FALSE /\ enabled_age' = NoTime /\ ack_age' = NoTime
    /\ ClearCommand
    /\ asked' = NoTwist
    /\ UNCHANGED <<service, node, estopped, replies, restarts, mark, served>>

\* The node ends: destroy_node calls stop_motors and closes the socket.
NodeEnds == Forgotten /\ Send(<<Stop, Stop, Stop>>)

\* The node is killed.
NodeDies == Forgotten /\ UNCHANGED <<sequence, packets, last_sent>>

\* Somebody starts it again.
NodeStarts ==
    /\ ~spinning /\ node < MAX_NODES /\ node + restarts < MAX_STARTS
    /\ node' = node + 1 /\ spinning' = TRUE
    /\ enabled' = FALSE /\ estopped' = FALSE /\ enabled_age' = NoTime
    /\ ClearCommand
    /\ ack_age' = NoTime /\ sequence' = 0
    /\ asked' = NoTwist /\ mark' = 0 /\ last_sent' = Stop /\ heeded' = FALSE
    /\ UNCHANGED <<service, packets, replies, restarts, mover, obeyed>>

-----------------------------------------------------------------------------
(* The network and the service. *)

\* What is known of the emergency stop once p is accepted: another start of the
\* node that has the same port takes its place in client_sequences.
HeededAfter(p) ==
    IF p.session = node THEN heeded \/ (estopped /\ p.sequence >= mark)
    ELSE heeded /\ p.src # ADDRESS[node]

Deliver(p) ==
    /\ p \in packets
    /\ packets' = packets \ {p}
    /\ Serve(p)
    /\ replies' = replies \union {Reply(p)}
    /\ IF Acceptable(p)
       THEN /\ mover' = p.session /\ obeyed' = obeyed \union {p.session}
            /\ heeded' = HeededAfter(p)
       ELSE UNCHANGED served
    /\ UNCHANGED <<driver, restarts, asked, mark, last_sent>>

Lose ==
    /\ \/ /\ \E p \in packets : packets' = packets \ {p}
          /\ UNCHANGED replies
       \/ /\ \E r \in replies : replies' = replies \ {r}
          /\ UNCHANGED packets
    /\ UNCHANGED <<service, driver, restarts, asked, mark, last_sent, served>>

Watchdog ==
    /\ WatchdogExpires
    /\ UNCHANGED <<driver, packets, replies, restarts, asked, mark, last_sent, served>>

Fail ==
    /\ restarts < MAX_RESTARTS /\ node + restarts < MAX_STARTS
    /\ ServiceEnds
    /\ restarts' = restarts + 1 /\ heeded' = FALSE
    /\ UNCHANGED <<driver, packets, replies, asked, mark, last_sent, mover, obeyed>>

Recover ==
    /\ ServiceRestarts
    /\ UNCHANGED <<driver, packets, replies, restarts, asked, mark, last_sent, served>>

Tick ==
    /\ ServiceTick
    /\ enabled_age' = Older(enabled_age, ACK_TIMEOUT)
    /\ ack_age' = Older(ack_age, ACK_TIMEOUT)
    /\ command_age' = Older(command_age, COMMAND_TIMEOUT)
    /\ UNCHANGED <<node, spinning, enabled, estopped, requested, applied, sequence,
                   packets, replies, restarts, asked, mark, last_sent, served>>

Callback ==
    \/ \E twist \in NAV_TWISTS : OnCmdVel(twist)
    \/ OnNonFinite
    \/ OnEstop
    \/ \E on \in BOOLEAN : OnEnable(on)
    \/ ControlTick

Next ==
    \/ Callback
    \/ NodeEnds
    \/ NodeDies
    \/ NodeStarts
    \/ \E p \in packets : Deliver(p)
    \/ Lose
    \/ Watchdog
    \/ Fail
    \/ Recover
    \/ Tick

Spec == Init /\ [][Next]_vars

\* The timer fires while the node spins, the clock runs, packets do not stay in
\* the network for ever, and the service's loop comes round.
FairSpec == Spec /\ WF_vars(ControlTick) /\ WF_vars(Tick) /\ WF_vars(Watchdog)
                 /\ WF_vars(Lose \/ \E p \in packets : Deliver(p))

-----------------------------------------------------------------------------
(* Properties. *)

Nodes == 1..MAX_NODES
Times(limit) == {NoTime} \union 0..(limit + 1)
Numbers == 0..MAX_SEQUENCE

Packets == {p \in [src : Addresses, session : Nodes, sequence : Numbers,
                   cmd : Twists] : p.src = ADDRESS[p.session]}

Replies == [to : Addresses, session : Nodes, sequence : Numbers, ok : BOOLEAN]

TypeOK ==
    /\ up \in BOOLEAN
    /\ actions \in Drives \union {Stop}
    /\ age \in 0..(WATCHDOG + 1)
    /\ client_sequences \in [Addresses -> {NoEntry} \union (Nodes \X Numbers)]
    /\ node \in Nodes /\ spinning \in BOOLEAN
    /\ enabled \in BOOLEAN /\ estopped \in BOOLEAN
    /\ enabled_age \in Times(ACK_TIMEOUT)
    /\ (enabled_age = NoTime) <=> ~enabled
    /\ requested \in Twists /\ applied \in Twists
    /\ command_age \in Times(COMMAND_TIMEOUT)
    /\ ack_age \in Times(ACK_TIMEOUT)
    /\ sequence \in Numbers
    /\ packets \in SUBSET Packets
    /\ replies \in SUBSET Replies
    /\ restarts \in 0..MAX_RESTARTS
    /\ asked \in Twists \union {NoTwist}
    /\ mark \in Numbers
    /\ last_sent \in Twists
    /\ mover \in Nodes /\ obeyed \in SUBSET Nodes /\ heeded \in BOOLEAN

\* The emergency stop holds at the wheels: once the service has taken any
\* packet this node sent after it, no packet the node sent before, however late,
\* moves the base, and nor does the node after a new Twist or an attempt to arm
\* it.  (The service forgets when it fails, and when another start of the node
\* is heard on the same port.)
EstopIsFinal == heeded => ~(actions # Stop /\ mover = node)

\* "base enabled; waiting for a fresh Twist": a packet that drives carries the
\* last Twist that arrived after the base was armed, never one from before it
\* was armed, disarmed or stopped.
DrivesFreshTwist ==
    \A p \in packets' \ packets :
        p.cmd # Stop => enabled /\ ~estopped /\ asked = p.cmd

\* Odometry integrates no motion but the one sent last.
OdometryFollowsSent == spinning /\ applied # Stop => applied = last_sent

\* An acknowledgement is of a packet of this very node that the service has
\* carried out: refusals and answers to the node before it do not count.
HeardWasObeyed == spinning /\ ack_age # NoTime => node \in obeyed

\* What is of before counts for nothing: no packet drives with a Twist of before
\* the base was armed, and no answer to another node keeps this one armed.
OldCountsForNothing == [][DrivesFreshTwist /\ HeardWasObeyed']_vars

\* The numbers a start of the node may still give: a node that is over gives none.
NextOrder(n) == IF n = node THEN sequence ELSE IF n < node THEN MAX_SEQUENCE ELSE 0

Orders == INSTANCE LeasedOrders WITH
            Clients <- Nodes,
            Drives <- Drives \union {Fractional},
            LEASE <- WATCHDOG + 1,
            book <- {<<p.session, p.sequence, p.cmd>> : p \in packets},
            next <- [n \in Nodes |-> NextOrder(n)],
            floor <- [n \in Nodes |-> Floor(ADDRESS[n], n)],
            moving <- actions,
            left <- LeaseLeft

\* With a port of its own for every start of the node, what Nav2 has of the base
\* are numbered orders under a lease (module LeasedOrders): rows of packets that
\* one callback sends, a killed node, a failing service included.
OrdersAreLeased == Orders!Spec

\* The base "disables itself if motor acknowledgements stop" (BASE_CALIBRATION):
\* who stays armed, without being armed again, goes on hearing of the service.
ArmedIsHeard ==
    <>[](spinning /\ enabled /\ enabled_age > ACK_TIMEOUT) => []<>(ack_age = 0)
=============================================================================
