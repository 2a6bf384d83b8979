-------------------------- MODULE BaseDriverProof --------------------------
(***************************************************************************)
(* What the base driver and the service keep for any timeouts, any number  *)
(* of packets and any number of starts: the types, that arming needs a     *)
(* fresh Twist, that an acknowledgement is of this node's own packet, and  *)
(* that the emergency stop holds at the wheels.                            *)
(***************************************************************************)
EXTENDS BaseDriver, TLAPS

\* The constants, as numbers.
LEMMA Bounds ==
    /\ WATCHDOG \in Nat \ {0} /\ COMMAND_TIMEOUT \in Nat /\ ACK_TIMEOUT \in Nat
    /\ MAX_SEQUENCE \in Nat /\ MAX_NODES \in Nat \ {0} /\ MAX_RESTARTS \in Nat
    /\ ADDRESS \in [Nodes -> Addresses] /\ Nodes \subseteq Nat
  BY ServiceAssumption, DriverAssumption DEF Nodes

\* What a well-formed packet carries, and where it came from.
LEMMA PacketFields ==
    ASSUME NEW p \in Packets
    PROVE  /\ p.src \in Addresses /\ p.session \in Nodes /\ p.sequence \in Numbers
           /\ p.cmd \in Twists /\ p.src = ADDRESS[p.session]
  BY DEF Packets

\* An age that grows stays an age.
LEMMA OlderTyped ==
    ASSUME NEW limit \in Nat, NEW t \in Times(limit)
    PROVE  /\ Older(t, limit) \in Times(limit)
           /\ Older(t, limit) = NoTime <=> t = NoTime
  BY DEF Older, Times, NoTime

\* What a callback puts into the network is numbered below the new sequence
\* and not below the old one, and carries one of the commands it sent.
LEMMA SendTyped ==
    ASSUME sequence \in Numbers, node \in Nodes, packets \in SUBSET Packets,
           NEW cmds \in Seq(Twists), Len(cmds) > 0, Send(cmds)
    PROVE  /\ packets \subseteq packets' /\ packets' \in SUBSET Packets
           /\ sequence' \in Numbers /\ sequence <= sequence'
           /\ last_sent' \in Twists
           /\ \A p \in packets' \ packets :
                /\ p.session = node /\ sequence <= p.sequence
                /\ p.sequence < sequence'
                /\ \E j \in 1..Len(cmds) : p.cmd = cmds[j]
<1>1. MAX_SEQUENCE \in Nat /\ sequence \in Nat /\ sequence <= MAX_SEQUENCE
  BY Bounds DEF Numbers
<1>2. Len(cmds) \in Nat /\ DOMAIN cmds = 1..Len(cmds)
  OBVIOUS
<1>3. sequence' \in Numbers /\ sequence <= sequence'
  BY <1>1, <1>2 DEF Send, Numbers
<1>4. last_sent' \in Twists
  BY <1>2 DEF Send
<1>5. packets \subseteq packets'
  BY DEF Send
<1>6. ASSUME NEW p \in packets', p \notin packets
      PROVE  /\ p \in Packets
             /\ p.session = node /\ sequence <= p.sequence
             /\ p.sequence < sequence'
             /\ \E j \in 1..Len(cmds) : p.cmd = cmds[j]
  <2>1. PICK j \in 1..Len(cmds) :
          /\ sequence + j - 1 < MAX_SEQUENCE
          /\ p = Packet(sequence + j - 1, cmds[j])
    BY <1>2, <1>6 DEF Send
  <2>2. /\ p.src = ADDRESS[node] /\ p.session = node
        /\ p.sequence = sequence + j - 1 /\ p.cmd = cmds[j]
    BY <2>1 DEF Packet
  <2>3. sequence + j - 1 \in Numbers /\ sequence <= sequence + j - 1
    BY <1>1, <1>2, <2>1 DEF Numbers
  <2>4. sequence + j - 1 < sequence'
    BY <1>1, <1>2, <2>1 DEF Send
  <2>5. cmds[j] \in Twists
    BY <1>2
  <2>6. p \in Packets
    BY <2>1, <2>3, <2>5, Bounds DEF Packet, Packets
  <2> QED
    BY <2>2, <2>3, <2>4, <2>6
<1> QED
  BY <1>3, <1>4, <1>5, <1>6

\* The command of a tick is a Twist.
LEMMA DutyTyped == TypeOK => Duty \in Twists
  BY DEF TypeOK, Duty, Twists

\* What serving a packet does to the types of the service's variables.
LEMMA ServeTypes ==
    ASSUME TypeOK, NEW p \in Packets, Serve(p)
    PROVE  /\ up' \in BOOLEAN
           /\ actions' \in Drives \union {Stop}
           /\ age' \in 0..(WATCHDOG + 1)
           /\ client_sequences' \in
                [Addresses -> {NoEntry} \union (Nodes \X Numbers)]
<1>1. p.src \in Addresses /\ <<p.session, p.sequence>> \in Nodes \X Numbers
  BY PacketFields
<1>2. Acceptable(p) => p.cmd \in Drives \union {Stop}
  BY PacketFields DEF Acceptable, Twists
<1>3. 0 \in 0..(WATCHDOG + 1)
  BY Bounds
<1> QED
  BY <1>1, <1>2, <1>3 DEF Serve, AgeAfter, TypeOK

\* The initial states are well typed.
LEMMA InitTypes == Init => TypeOK
<1> SUFFICES ASSUME Init PROVE TypeOK
  OBVIOUS
<1>1. 1 \in Nodes /\ 0 \in Numbers /\ 0 \in 0..(WATCHDOG + 1) /\ 0 \in 0..MAX_RESTARTS
  BY Bounds DEF Nodes, Numbers
<1>2. client_sequences \in [Addresses -> {NoEntry} \union (Nodes \X Numbers)]
  BY DEF Init, ServiceInit, NoSequences
<1> QED
  BY <1>1, <1>2 DEF Init, ServiceInit, TypeOK, Times, Twists

\* Every variable of the node, the network and the service keeps its type, and
\* enabled_at is None exactly while the base is disarmed.
THEOREM TypeCorrect == Spec => []TypeOK
<1>1. TypeOK /\ [Next]_vars => TypeOK'
  <2> SUFFICES ASSUME TypeOK, [Next]_vars PROVE TypeOK'
    OBVIOUS
  <2> USE DEF TypeOK
  <2>0. /\ NoTime \in Times(ACK_TIMEOUT) /\ 0 \in Times(ACK_TIMEOUT)
        /\ NoTime \in Times(COMMAND_TIMEOUT) /\ 0 \in Times(COMMAND_TIMEOUT)
        /\ Stop \in Twists /\ 0 # NoTime
    BY Bounds DEF Times, NoTime, Twists
  <2>1. ASSUME NEW twist \in NAV_TWISTS, OnCmdVel(twist) PROVE TypeOK'
    <3>1. twist \in Twists
      BY <2>1, DriverAssumption DEF Twists
    <3> QED
      BY <2>0, <2>1, <3>1 DEF OnCmdVel, service, switch, served
  <2>2. CASE OnNonFinite
    BY <2>0, <2>2 DEF OnNonFinite, ClearCommand, service, served
  <2>3. CASE OnEstop
    BY <2>0, <2>3 DEF OnEstop, ClearCommand, service, served
  <2>4. ASSUME NEW on \in BOOLEAN, OnEnable(on) PROVE TypeOK'
    BY <2>0, <2>4 DEF OnEnable, ClearCommand, service, served
  <2>5. CASE ControlTick
    <3>1. PICK arrived \in SUBSET {r \in replies : r.to = ADDRESS[node]} :
            LET ack == IF Heard(arrived) THEN 0 ELSE ack_age
            IN  /\ replies' = replies \ arrived
                /\ ack_age' = ack
                /\ \/ /\ Unheard(ack)
                      /\ Send(<<Duty, Stop>>)
                      /\ enabled' = FALSE /\ enabled_age' = NoTime
                      /\ ClearCommand
                      /\ asked' = NoTwist
                   \/ /\ ~Unheard(ack)
                      /\ Send(<<Duty>>)
                      /\ applied' = Duty
                      /\ UNCHANGED <<enabled, enabled_age, requested,
                                     command_age, asked>>
      BY <2>5 DEF ControlTick
    <3>2. ack_age' \in Times(ACK_TIMEOUT) /\ replies' \in SUBSET Replies
      BY <3>1, <2>0
    <3>3. UNCHANGED <<service, node, spinning, estopped, restarts, mark, served>>
      BY <2>5 DEF ControlTick
    <3>4. /\ <<Duty, Stop>> \in Seq(Twists) /\ Len(<<Duty, Stop>>) > 0
          /\ <<Duty>> \in Seq(Twists) /\ Len(<<Duty>>) > 0
      BY DutyTyped, <2>0
    <3>5. packets' \in SUBSET Packets /\ sequence' \in Numbers /\ last_sent' \in Twists
      BY <3>1, <3>4, SendTyped
    <3>6. CASE ClearCommand /\ enabled' = FALSE /\ enabled_age' = NoTime
               /\ asked' = NoTwist
      BY <2>0, <3>2, <3>3, <3>5, <3>6 DEF ClearCommand, service, served
    <3>7. CASE /\ applied' = Duty
               /\ UNCHANGED <<enabled, enabled_age, requested, command_age, asked>>
      BY DutyTyped, <3>2, <3>3, <3>5, <3>7 DEF service, served
    <3> QED
      BY <3>1, <3>6, <3>7
  <2>6. CASE Forgotten /\ (Send(<<Stop, Stop, Stop>>)
                           \/ UNCHANGED <<sequence, packets, last_sent>>)
    <3>1. <<Stop, Stop, Stop>> \in Seq(Twists) /\ Len(<<Stop, Stop, Stop>>) > 0
      BY <2>0
    <3>2. packets' \in SUBSET Packets /\ sequence' \in Numbers /\ last_sent' \in Twists
      BY <2>6, <3>1, SendTyped
    <3> QED
      BY <2>0, <2>6, <3>2 DEF Forgotten, ClearCommand, service, served
  <2>7. CASE NodeStarts
    <3>1. node + 1 \in Nodes /\ 0 \in Numbers
      BY <2>7, Bounds DEF NodeStarts, Nodes, Numbers
    <3> QED
      BY <2>0, <2>7, <3>1 DEF NodeStarts, ClearCommand, service, served
  <2>8. ASSUME NEW p \in packets, Deliver(p) PROVE TypeOK'
    <3>1. p \in Packets
      OBVIOUS
    <3>2. Reply(p) \in Replies
      BY <3>1, PacketFields DEF Reply, Replies, Acceptable
    <3>3. mover' \in Nodes /\ obeyed' \in SUBSET Nodes /\ heeded' \in BOOLEAN
      <4>1. HeededAfter(p) \in BOOLEAN
        BY DEF HeededAfter
      <4>2. p.session \in Nodes
        BY <3>1, PacketFields
      <4>3. CASE Acceptable(p)
        BY <2>8, <4>1, <4>2, <4>3 DEF Deliver
      <4>4. CASE ~Acceptable(p)
        BY <2>8, <4>4 DEF Deliver, served
      <4> QED
        BY <4>3, <4>4
    <3>4. Serve(p) /\ packets' \in SUBSET Packets /\ replies' \in SUBSET Replies
      BY <2>8, <3>2 DEF Deliver
    <3> QED
      BY <2>8, <3>1, <3>3, <3>4, ServeTypes DEF Deliver, driver, switch, command
  <2>9. CASE Lose
    BY <2>9 DEF Lose, service, driver, switch, command, served
  <2>10. CASE Watchdog
    BY <2>10 DEF Watchdog, WatchdogExpires, driver, switch, command, served
  <2>11. CASE Fail
    <3>1. restarts' \in 0..MAX_RESTARTS
      BY <2>11, Bounds DEF Fail
    <3>2. client_sequences' \in [Addresses -> {NoEntry} \union (Nodes \X Numbers)]
      BY <2>11 DEF Fail, ServiceEnds, NoSequences
    <3>3. age' \in 0..(WATCHDOG + 1)
      BY <2>11, Bounds DEF Fail, ServiceEnds
    <3> QED
      BY <2>11, <3>1, <3>2, <3>3 DEF Fail, ServiceEnds, driver, switch, command,
                                     served
  <2>12. CASE Recover
    BY <2>12 DEF Recover, ServiceRestarts, driver, switch, command, served
  <2>13. CASE Tick
    <3>1. age' \in 0..(WATCHDOG + 1)
      BY <2>13, Bounds DEF Tick, ServiceTick
    <3>2. /\ enabled_age' \in Times(ACK_TIMEOUT) /\ ack_age' \in Times(ACK_TIMEOUT)
          /\ command_age' \in Times(COMMAND_TIMEOUT)
          /\ enabled_age' = NoTime <=> enabled_age = NoTime
      BY <2>13, OlderTyped, Bounds DEF Tick
    <3> QED
      BY <2>13, <3>1, <3>2 DEF Tick, ServiceTick, served
  <2>14. CASE UNCHANGED vars
    BY <2>14 DEF vars, service, driver, switch, command, served
  <2> QED
    BY <2>1, <2>2, <2>3, <2>4, <2>5, <2>6, <2>7, <2>8, <2>9, <2>10, <2>11,
       <2>12, <2>13, <2>14 DEF Next, Callback, NodeEnds, NodeDies
<1> QED
  BY <1>1, InitTypes, PTL DEF Spec

\* What a tick does to the network: it adds packets of this node, and they
\* carry Duty or Stop.
LEMMA TickSends ==
    ASSUME TypeOK, ControlTick
    PROVE  /\ packets \subseteq packets' /\ sequence <= sequence'
           /\ packets' \in SUBSET Packets /\ sequence' \in Numbers
           /\ \A p \in packets' \ packets :
                /\ p.session = node /\ sequence <= p.sequence
                /\ p.sequence < sequence'
                /\ p.cmd \in {Duty, Stop}
<1>1. Send(<<Duty, Stop>>) \/ Send(<<Duty>>)
  BY DEF ControlTick
<1>2. /\ <<Duty, Stop>> \in Seq(Twists) /\ Len(<<Duty, Stop>>) = 2
      /\ <<Duty>> \in Seq(Twists) /\ Len(<<Duty>>) = 1
  BY DutyTyped DEF Twists
<1>3. sequence \in Numbers /\ node \in Nodes /\ packets \in SUBSET Packets
  BY DEF TypeOK
<1>4. ASSUME NEW cmds \in Seq(Twists), Len(cmds) > 0, Send(cmds),
             \A j \in 1..Len(cmds) : cmds[j] \in {Duty, Stop}
      PROVE  /\ packets \subseteq packets' /\ sequence <= sequence'
             /\ packets' \in SUBSET Packets /\ sequence' \in Numbers
             /\ \A p \in packets' \ packets :
                  /\ p.session = node /\ sequence <= p.sequence
                  /\ p.sequence < sequence'
                  /\ p.cmd \in {Duty, Stop}
  BY <1>3, <1>4, SendTyped
<1>5. /\ \A j \in 1..Len(<<Duty, Stop>>) : <<Duty, Stop>>[j] \in {Duty, Stop}
      /\ \A j \in 1..Len(<<Duty>>) : <<Duty>>[j] \in {Duty, Stop}
  OBVIOUS
<1>6. Len(<<Duty, Stop>>) > 0 /\ Len(<<Duty>>) > 0
  OBVIOUS
<1>7. CASE Send(<<Duty, Stop>>)
  <2> DEFINE cmds == <<Duty, Stop>>
  <2>1. cmds \in Seq(Twists) /\ Len(cmds) > 0 /\ Send(cmds)
        /\ \A j \in 1..Len(cmds) : cmds[j] \in {Duty, Stop}
    BY <1>2, <1>5, <1>6, <1>7
  <2> HIDE DEF cmds
  <2> QED
    BY <1>4, <2>1
<1>8. CASE Send(<<Duty>>)
  <2> DEFINE cmds == <<Duty>>
  <2>1. cmds \in Seq(Twists) /\ Len(cmds) > 0 /\ Send(cmds)
        /\ \A j \in 1..Len(cmds) : cmds[j] \in {Duty, Stop}
    BY <1>2, <1>5, <1>6, <1>8
  <2> HIDE DEF cmds
  <2> QED
    BY <1>4, <2>1
<1> QED
  BY <1>1, <1>7, <1>8

\* What the end of the node does to the network: it adds stops.
LEMMA EndSends ==
    ASSUME TypeOK, Send(<<Stop, Stop, Stop>>)
    PROVE  /\ packets \subseteq packets' /\ sequence <= sequence'
           /\ packets' \in SUBSET Packets /\ sequence' \in Numbers
           /\ \A p \in packets' \ packets :
                /\ p.session = node /\ sequence <= p.sequence
                /\ p.sequence < sequence'
                /\ p.cmd = Stop
<1> DEFINE cmds == <<Stop, Stop, Stop>>
<1>1. /\ cmds \in Seq(Twists) /\ Len(cmds) > 0 /\ Send(cmds)
      /\ \A j \in 1..Len(cmds) : cmds[j] = Stop
  BY DEF Twists
<1> HIDE DEF cmds
<1>2. sequence \in Numbers /\ node \in Nodes /\ packets \in SUBSET Packets
  BY DEF TypeOK
<1> QED
  BY <1>1, <1>2, SendTyped

-----------------------------------------------------------------------------
(* Arming. *)

\* A Twist on record is the one asked for since the base was last switched.
AskedInv == command_age # NoTime => asked = requested

\* A new packet that drives carries a Twist asked for since arming.
LEMMA AskedStep ==
    ASSUME TypeOK, AskedInv, [Next]_vars
    PROVE  /\ AskedInv'
           /\ \A p \in packets' \ packets :
                p.cmd # Stop => enabled /\ ~estopped /\ asked = p.cmd
<1> USE DEF AskedInv
<1>1. ASSUME NEW twist \in NAV_TWISTS, OnCmdVel(twist)
      PROVE  AskedInv' /\ packets' = packets
  BY <1>1 DEF OnCmdVel
<1>2. CASE OnNonFinite
  BY <1>2 DEF OnNonFinite, ClearCommand
<1>3. CASE OnEstop
  BY <1>3 DEF OnEstop, ClearCommand
<1>4. ASSUME NEW on \in BOOLEAN, OnEnable(on)
      PROVE  AskedInv' /\ packets' = packets
  BY <1>4 DEF OnEnable, ClearCommand
<1>5. CASE ControlTick
  <2>1. \/ ClearCommand
        \/ UNCHANGED <<requested, command_age, asked>>
    BY <1>5 DEF ControlTick
  <2>2. AskedInv'
    BY <2>1 DEF ClearCommand
  <2>3. ASSUME NEW p \in packets' \ packets, p.cmd # Stop
        PROVE  enabled /\ ~estopped /\ asked = p.cmd
    <3>1. p.cmd = Duty
      BY <1>5, <2>3, TickSends
    <3> QED
      BY <2>3, <3>1 DEF Duty, Fresh
  <2> QED
    BY <2>2, <2>3
<1>6. CASE NodeEnds
  BY <1>6, EndSends DEF NodeEnds, Forgotten, ClearCommand
<1>7. CASE NodeDies
  BY <1>7 DEF NodeDies, Forgotten, ClearCommand
<1>8. CASE NodeStarts
  BY <1>8 DEF NodeStarts, ClearCommand
<1>9. ASSUME NEW p \in packets, Deliver(p)
      PROVE  AskedInv' /\ packets' \subseteq packets
  BY <1>9 DEF Deliver, driver, command
<1>10. CASE Lose
  BY <1>10 DEF Lose, driver, command
<1>11. CASE Watchdog \/ Fail \/ Recover
  BY <1>11 DEF Watchdog, Fail, Recover, driver, command
<1>12. CASE Tick
  BY <1>12 DEF Tick, Older
<1>13. CASE UNCHANGED vars
  BY <1>13 DEF vars, driver, command
<1> QED
  BY <1>1, <1>2, <1>3, <1>4, <1>5, <1>6, <1>7, <1>8, <1>9, <1>10, <1>11, <1>12,
     <1>13 DEF Next, Callback

\* The base waits for a fresh Twist: whatever was asked for before it was armed
\* or stopped, no packet of a later tick carries it.
THEOREM ArmingWaits == Spec => [][DrivesFreshTwist]_vars
<1>1. Init => AskedInv
  BY DEF Init, AskedInv
<1>2. TypeOK /\ AskedInv /\ [Next]_vars => AskedInv'
  BY AskedStep
<1>3. TypeOK /\ AskedInv /\ [Next]_vars => [DrivesFreshTwist]_vars
  BY AskedStep DEF DrivesFreshTwist
<1> QED
  BY <1>1, <1>2, <1>3, TypeCorrect, PTL DEF Spec

-----------------------------------------------------------------------------
(* Acknowledgements. *)

\* Every acknowledgement, heard or in flight, is of an obeyed node.
HeardInv ==
    /\ HeardWasObeyed
    /\ \A r \in replies : r.ok => r.session \in obeyed

\* No step breaks HeardInv.
LEMMA HeardStep ==
    ASSUME TypeOK, HeardInv, [Next]_vars
    PROVE  HeardInv'
<1> USE DEF HeardInv, HeardWasObeyed
<1>1. CASE \/ \E twist \in NAV_TWISTS : OnCmdVel(twist)
           \/ OnNonFinite \/ OnEstop
           \/ \E on \in BOOLEAN : OnEnable(on)
  BY <1>1 DEF OnCmdVel, OnNonFinite, OnEstop, OnEnable, served
<1>2. CASE ControlTick
  <2>1. PICK arrived \in SUBSET replies :
          /\ replies' = replies \ arrived
          /\ ack_age' = IF Heard(arrived) THEN 0 ELSE ack_age
    BY <1>2 DEF ControlTick
  <2>2. UNCHANGED <<node, spinning, obeyed>> /\ spinning
    BY <1>2 DEF ControlTick, served
  <2>3. Heard(arrived) => node \in obeyed
    BY <2>1 DEF Heard
  <2> QED
    BY <2>1, <2>2, <2>3
<1>3. CASE NodeEnds \/ NodeDies
  BY <1>3 DEF NodeEnds, NodeDies, Forgotten, served
<1>4. CASE NodeStarts
  BY <1>4 DEF NodeStarts, served
<1>5. ASSUME NEW p \in packets, Deliver(p) PROVE HeardInv'
  <2>1. /\ replies' = replies \union {Reply(p)}
        /\ UNCHANGED <<node, spinning, ack_age>>
    BY <1>5 DEF Deliver, driver
  <2>2. obeyed \subseteq obeyed' /\ (Acceptable(p) => p.session \in obeyed')
    BY <1>5 DEF Deliver, served
  <2>3. Reply(p).ok => Reply(p).session \in obeyed'
    BY <2>2 DEF Reply
  <2> QED
    BY <2>1, <2>2, <2>3
<1>6. CASE Lose
  BY <1>6 DEF Lose, driver, served
<1>7. CASE Watchdog \/ Fail \/ Recover
  BY <1>7 DEF Watchdog, Fail, Recover, driver, served
<1>8. CASE Tick
  BY <1>8 DEF Tick, Older, served
<1>9. CASE UNCHANGED vars
  BY <1>9 DEF vars, driver, served
<1> QED
  BY <1>1, <1>2, <1>3, <1>4, <1>5, <1>6, <1>7, <1>8, <1>9 DEF Next, Callback

\* The node counts no refusal, and no answer to the node before it, as a sign
\* of life of the service.
THEOREM AcksAreOwn == Spec => []HeardWasObeyed
<1>1. Init => HeardInv
  BY DEF Init, HeardInv, HeardWasObeyed
<1>2. TypeOK /\ HeardInv /\ [Next]_vars => HeardInv'
  BY HeardStep
<1>3. HeardInv => HeardWasObeyed
  BY DEF HeardInv
<1> QED
  BY <1>1, <1>2, <1>3, TypeCorrect, PTL DEF Spec

\* Neither a Twist nor an acknowledgement of before counts for anything.
THEOREM OldIsVoid == Spec => OldCountsForNothing
  BY ArmingWaits, AcksAreOwn, PTL DEF OldCountsForNothing

-----------------------------------------------------------------------------
(* Odometry. *)

\* What is integrated changes with what is sent, and only a tick of the timer
\* makes it anything but a stop.
LEMMA OdometryStep ==
    ASSUME OdometryFollowsSent, [Next]_vars
    PROVE  OdometryFollowsSent'
<1> USE DEF OdometryFollowsSent
<1>1. CASE \/ \E twist \in NAV_TWISTS : OnCmdVel(twist)
           \/ \E p \in packets : Deliver(p)
           \/ Lose \/ Watchdog \/ Fail \/ Recover \/ Tick
           \/ UNCHANGED vars
  <2>1. UNCHANGED <<spinning, applied, last_sent>>
    BY <1>1 DEF OnCmdVel, Deliver, Lose, Watchdog, Fail, Recover, Tick, driver, command, vars
  <2> QED
    BY <2>1
<1>2. CASE OnNonFinite \/ OnEstop \/ (\E on \in BOOLEAN : OnEnable(on)) \/ NodeStarts
  BY <1>2 DEF OnNonFinite, OnEstop, OnEnable, NodeStarts, ClearCommand
<1>3. CASE ControlTick
  <2>1. applied' = Stop \/ (Send(<<Duty>>) /\ applied' = Duty)
    BY <1>3 DEF ControlTick, ClearCommand
  <2>2. Send(<<Duty>>) => last_sent' = Duty
    BY DEF Send
  <2> QED
    BY <2>1, <2>2
<1>4. CASE NodeEnds \/ NodeDies
  BY <1>4 DEF NodeEnds, NodeDies, Forgotten
<1> QED
  BY <1>1, <1>2, <1>3, <1>4 DEF Next, Callback

\* Odometry integrates no motion but the one sent last (control_tick), whatever
\* callbacks run between two ticks and however the node is ended and started.
THEOREM OdometryTrue == Spec => []OdometryFollowsSent
<1>1. Init => OdometryFollowsSent
  BY DEF Init, OdometryFollowsSent
<1> QED
  BY <1>1, OdometryStep, PTL DEF Spec

-----------------------------------------------------------------------------
(* The emergency stop. *)

\* The service has a packet of this node on record that was sent after the stop.
StopOnRecord ==
    LET entry == client_sequences[ADDRESS[node]]
    IN  estopped /\ entry # NoEntry /\ entry[1] = node /\ entry[2] >= mark

\* No packet and no record of the service is ahead of the node, after the
\* emergency stop the node is disarmed and sends stops only, and while the
\* service has one of them on record the base does not move for the node.
EstopInv ==
    /\ \A p \in packets :
         /\ p.session <= node
         /\ p.session = node => p.sequence < sequence
         /\ estopped /\ p.session = node /\ p.sequence >= mark => p.cmd = Stop
    /\ \A a \in Addresses :
         client_sequences[a] # NoEntry =>
            /\ client_sequences[a][1] <= node
            /\ client_sequences[a][1] = node => client_sequences[a][2] < sequence
    /\ estopped => ~enabled /\ mark <= sequence
    /\ StopOnRecord => ~(actions # Stop /\ mover = node)
    /\ heeded => StopOnRecord

\* Sending stops, after an emergency stop, keeps EstopInv.
LEMMA SendingKeeps ==
    ASSUME TypeOK, EstopInv,
           UNCHANGED <<node, client_sequences, estopped, mark, actions, mover, heeded>>,
           enabled' => ~estopped,
           packets \subseteq packets', sequence <= sequence', sequence' \in Numbers,
           \A p \in packets' \ packets :
             /\ p.session = node /\ sequence <= p.sequence
             /\ p.sequence < sequence' /\ p.sequence \in Numbers
             /\ estopped => p.cmd = Stop
    PROVE  EstopInv'
<1> USE DEF EstopInv, TypeOK
<1>1. /\ sequence \in Nat /\ sequence' \in Nat /\ mark \in Nat /\ node \in Nat
      /\ \A p \in packets : p.session \in Nat /\ p.sequence \in Nat
      /\ \A a \in Addresses : client_sequences[a] # NoEntry =>
           client_sequences[a][1] \in Nat /\ client_sequences[a][2] \in Nat
  <2>1. Numbers \subseteq Nat /\ Nodes \subseteq Nat
    BY Bounds DEF Numbers
  <2>2. \A p \in packets : p.session \in Nat /\ p.sequence \in Nat
    BY <2>1, PacketFields
  <2>3. ASSUME NEW a \in Addresses, client_sequences[a] # NoEntry
        PROVE  client_sequences[a][1] \in Nat /\ client_sequences[a][2] \in Nat
    <3>1. client_sequences[a] \in Nodes \X Numbers
      BY <2>3
    <3> QED
      BY <2>1, <3>1
  <2> QED
    BY <2>1, <2>2, <2>3
<1>2. ASSUME NEW p \in packets'
      PROVE  /\ p.session <= node
             /\ p.session = node => p.sequence < sequence'
             /\ estopped /\ p.session = node /\ p.sequence >= mark => p.cmd = Stop
  <2>1. CASE p \in packets
    BY <1>1, <2>1
  <2>2. CASE p \notin packets
    BY <1>1, <1>2, <2>2
  <2> QED
    BY <2>1, <2>2
<1>3. ASSUME NEW a \in Addresses, client_sequences[a] # NoEntry
      PROVE  /\ client_sequences[a][1] <= node
             /\ client_sequences[a][1] = node => client_sequences[a][2] < sequence'
  BY <1>1, <1>3
<1>4. /\ StopOnRecord' => ~(actions' # Stop /\ mover' = node')
      /\ heeded' => StopOnRecord'
  BY DEF StopOnRecord
<1>5. estopped' => ~enabled' /\ mark' <= sequence'
  BY <1>1
<1> QED
  BY <1>2, <1>3, <1>4, <1>5

\* An accepted packet of this node is either from before the emergency stop,
\* and then is what the service has on record, or it is a stop.
LEMMA DeliverKeeps ==
    ASSUME TypeOK, EstopInv, NEW p \in packets, Deliver(p)
    PROVE  EstopInv'
<1> USE DEF EstopInv
<1>1. /\ p.src = ADDRESS[p.session] /\ p.src \in Addresses
      /\ client_sequences \in [Addresses -> {NoEntry} \union (Nodes \X Numbers)]
      /\ ADDRESS[node] \in Addresses
  BY PacketFields, Bounds DEF TypeOK
<1>2. /\ UNCHANGED <<node, sequence, enabled, estopped, mark>>
      /\ packets' \subseteq packets /\ Serve(p)
  BY DEF Deliver, driver, switch
<1>3. CASE ~Acceptable(p)
  <2>1. UNCHANGED <<client_sequences, actions, mover, heeded>>
    BY <1>2, <1>3 DEF Deliver, Serve, served
  <2> QED
    BY <1>2, <2>1 DEF StopOnRecord
<1>4. CASE Acceptable(p)
  <2>1. /\ client_sequences' =
             [client_sequences EXCEPT ![p.src] = <<p.session, p.sequence>>]
        /\ actions' = p.cmd /\ mover' = p.session /\ heeded' = HeededAfter(p)
    BY <1>2, <1>4 DEF Deliver, Serve
  <2>2. ASSUME NEW a \in Addresses
        PROVE  client_sequences'[a] =
                 IF a = p.src THEN <<p.session, p.sequence>> ELSE client_sequences[a]
    BY <1>1, <2>1
  <2>3. \A a \in Addresses : client_sequences'[a] # NoEntry =>
           /\ client_sequences'[a][1] <= node
           /\ client_sequences'[a][1] = node => client_sequences'[a][2] < sequence
    BY <2>2
  <2>4. /\ StopOnRecord' => ~(actions' # Stop /\ mover' = node')
        /\ heeded' => StopOnRecord'
    <3>1. CASE p.session # node
      <4>1. StopOnRecord' => ~(actions' # Stop /\ mover' = node')
        BY <1>2, <2>1, <3>1 DEF StopOnRecord
      <4>2. ASSUME heeded' PROVE StopOnRecord'
        <5>1. heeded /\ p.src # ADDRESS[node]
          BY <2>1, <3>1, <4>2 DEF HeededAfter
        <5>2. client_sequences'[ADDRESS[node]] = client_sequences[ADDRESS[node]]
          BY <1>1, <2>2, <5>1
        <5> QED
          BY <1>2, <5>1, <5>2 DEF StopOnRecord
      <4> QED
        BY <4>1, <4>2
    <3>2. CASE p.session = node
      <4>1. client_sequences'[ADDRESS[node]] = <<node, p.sequence>>
        BY <1>1, <2>2, <3>2
      <4>2. StopOnRecord' => ~(actions' # Stop /\ mover' = node')
        BY <1>2, <2>1, <3>2, <4>1 DEF StopOnRecord
      <4>3. ASSUME heeded' PROVE StopOnRecord'
        <5>1. p.sequence \in Nat /\ mark \in Nat
          BY Bounds, PacketFields DEF TypeOK, Numbers
        <5>2. estopped /\ p.sequence >= mark
          <6>1. CASE heeded
            <7>1. estopped /\ client_sequences[ADDRESS[node]] # NoEntry
                  /\ client_sequences[ADDRESS[node]][1] = node
                  /\ client_sequences[ADDRESS[node]][2] >= mark
              BY <6>1 DEF StopOnRecord
            <7>2. client_sequences[ADDRESS[node]][2] \in Nat
              BY <1>1, <7>1, Bounds DEF Numbers
            <7>3. ~(p.sequence < client_sequences[ADDRESS[node]][2])
              BY <1>1, <1>4, <3>2, <7>1 DEF Acceptable, Stale
            <7> QED
              BY <5>1, <7>1, <7>2, <7>3
          <6>2. CASE ~heeded
            BY <2>1, <3>2, <4>3, <6>2 DEF HeededAfter
          <6> QED
            BY <6>1, <6>2
        <5>3. <<node, p.sequence>> # NoEntry
          BY DEF NoEntry
        <5> QED
          BY <1>2, <4>1, <5>2, <5>3 DEF StopOnRecord
      <4> QED
        BY <4>2, <4>3
    <3> QED
      BY <3>1, <3>2
  <2> QED
    BY <1>2, <2>3, <2>4
<1> QED
  BY <1>3, <1>4

\* No step breaks EstopInv.
LEMMA EstopStep ==
    ASSUME TypeOK, EstopInv, [Next]_vars
    PROVE  EstopInv'
<1> USE DEF EstopInv
<1>0. /\ sequence \in Nat /\ node \in Nat /\ mark \in Nat /\ Numbers \subseteq Nat
      /\ \A p \in packets : p.session \in Nat /\ p.sequence \in Nat
      /\ ADDRESS[node] \in Addresses
  <2>1. Numbers \subseteq Nat /\ Nodes \subseteq Nat
    BY Bounds DEF Numbers
  <2> QED
    BY <2>1, PacketFields, Bounds DEF TypeOK
<1>1. CASE OnNonFinite \/ \E twist \in NAV_TWISTS : OnCmdVel(twist)
  BY <1>1 DEF OnCmdVel, OnNonFinite, service, switch, served, StopOnRecord
<1>2. CASE OnEstop
  <2>1. /\ UNCHANGED <<node, sequence, packets, client_sequences, actions, mover, heeded>>
        /\ estopped' /\ ~enabled'
        /\ mark' = IF estopped THEN mark ELSE sequence
    BY <1>2 DEF OnEstop, service, served
  <2>2. CASE estopped
    BY <2>1, <2>2 DEF StopOnRecord
  <2>3. CASE ~estopped
    <3>1. mark' = sequence
      BY <2>1, <2>3
    <3>2. \A p \in packets : p.session = node => ~(p.sequence >= mark')
      BY <1>0, <3>1
    <3>3. ~(/\ client_sequences[ADDRESS[node]] # NoEntry
            /\ client_sequences[ADDRESS[node]][1] = node
            /\ client_sequences[ADDRESS[node]][2] >= mark')
      <4> DEFINE entry == client_sequences[ADDRESS[node]]
      <4>1. ASSUME entry # NoEntry, entry[1] = node
            PROVE  ~(entry[2] >= sequence)
        <5>1. entry \in Nodes \X Numbers
          BY <1>0, <4>1 DEF TypeOK
        <5>2. entry[2] \in Nat /\ entry[2] < sequence
          BY <1>0, <4>1, <5>1
        <5> QED
          BY <1>0, <5>2
      <4> QED
        BY <3>1, <4>1
    <3>4. ~StopOnRecord' /\ ~heeded'
      BY <2>1, <2>3, <3>3 DEF StopOnRecord
    <3> QED
      BY <1>0, <2>1, <3>1, <3>2, <3>4
  <2> QED
    BY <2>2, <2>3
<1>3. ASSUME NEW on \in BOOLEAN, OnEnable(on) PROVE EstopInv'
  BY <1>3 DEF OnEnable, service, served, StopOnRecord
<1>4. CASE ControlTick
  <2>1. /\ UNCHANGED <<node, client_sequences, estopped, mark, actions, mover, heeded>>
        /\ enabled' => enabled
    BY <1>4 DEF ControlTick, service, served
  <2>2. estopped => Duty = Stop
    BY DEF Duty
  <2>3. packets' \in SUBSET Packets /\ sequence' \in Numbers
    BY <1>4, TickSends
  <2>4. \A p \in packets' \ packets : p.sequence \in Numbers
    BY <2>3, PacketFields
  <2> QED
    BY <1>4, <2>1, <2>2, <2>3, <2>4, TickSends, SendingKeeps
<1>5. CASE NodeEnds
  <2>1. /\ UNCHANGED <<node, client_sequences, estopped, mark, actions, mover, heeded>>
        /\ ~enabled' /\ Send(<<Stop, Stop, Stop>>)
    BY <1>5 DEF NodeEnds, Forgotten, service, served
  <2>2. packets' \in SUBSET Packets /\ sequence' \in Numbers
    BY <2>1, EndSends
  <2>3. \A p \in packets' \ packets : p.sequence \in Numbers
    BY <2>2, PacketFields
  <2> QED
    BY <2>1, <2>2, <2>3, EndSends, SendingKeeps
<1>6. CASE NodeDies
  BY <1>6 DEF NodeDies, Forgotten, service, served, StopOnRecord
<1>7. CASE NodeStarts
  <2>1. /\ node' = node + 1 /\ ~estopped' /\ sequence' = 0 /\ ~heeded'
        /\ UNCHANGED <<packets, client_sequences, actions, mover>>
    BY <1>7 DEF NodeStarts, service, served
  <2>2. \A p \in packets : p.session <= node + 1 /\ p.session # node + 1
    BY <1>0
  <2>3. ASSUME NEW a \in Addresses, client_sequences[a] # NoEntry
        PROVE  client_sequences[a][1] <= node + 1 /\ client_sequences[a][1] # node + 1
    <3>1. client_sequences[a] \in Nodes \X Numbers
      BY <2>3 DEF TypeOK
    <3>2. client_sequences[a][1] \in Nat /\ client_sequences[a][1] <= node
      BY <2>3, <3>1, Bounds
    <3> QED
      BY <1>0, <3>2
  <2> QED
    BY <2>1, <2>2, <2>3 DEF StopOnRecord
<1>8. ASSUME NEW p \in packets, Deliver(p) PROVE EstopInv'
  BY <1>8, DeliverKeeps
<1>9. CASE Lose
  <2>1. /\ packets' \subseteq packets
        /\ UNCHANGED <<node, sequence, client_sequences, estopped, enabled, mark,
                       actions, mover, heeded>>
    BY <1>9 DEF Lose, service, driver, switch, served
  <2> QED
    BY <2>1 DEF StopOnRecord
<1>10. CASE Watchdog
  BY <1>10 DEF Watchdog, WatchdogExpires, driver, switch, served, StopOnRecord
<1>11. CASE Fail
  <2>1. \A a \in Addresses : client_sequences'[a] = NoEntry
    BY <1>11 DEF Fail, ServiceEnds, NoSequences
  <2>2. /\ UNCHANGED <<node, sequence, packets, estopped, enabled, mark, mover>>
        /\ actions' = Stop /\ ~heeded'
    BY <1>11 DEF Fail, ServiceEnds, driver, switch, served
  <2> QED
    BY <2>1, <2>2 DEF StopOnRecord
<1>12. CASE Recover
  BY <1>12 DEF Recover, ServiceRestarts, driver, switch, served, StopOnRecord
<1>13. CASE Tick
  <2>1. UNCHANGED <<node, sequence, packets, client_sequences, estopped, enabled,
                    mark, actions, mover, heeded>>
    BY <1>13 DEF Tick, ServiceTick, served
  <2> QED
    BY <2>1 DEF StopOnRecord
<1>14. CASE UNCHANGED vars
  BY <1>14 DEF vars, service, driver, switch, served, StopOnRecord
<1> QED
  BY <1>1, <1>2, <1>3, <1>4, <1>5, <1>6, <1>7, <1>8, <1>9, <1>10, <1>11, <1>12,
     <1>13, <1>14 DEF Next, Callback

\* The emergency stop is final at the wheels, for every network and timing:
\* once the service has any packet sent after it, this node drives no more.
THEOREM EstopHolds == Spec => []EstopIsFinal
<1>1. Init => EstopInv
  BY DEF Init, ServiceInit, NoSequences, EstopInv, StopOnRecord
<1>2. TypeOK /\ EstopInv /\ [Next]_vars => EstopInv'
  BY EstopStep
<1>3. EstopInv => EstopIsFinal
  BY DEF EstopInv, EstopIsFinal
<1> QED
  BY <1>1, <1>2, <1>3, TypeCorrect, PTL DEF Spec
-----------------------------------------------------------------------------
(* The node and the service implement LeasedOrders. *)

OrderOf(p) == <<p.session, p.sequence, p.cmd>>

\* A dead service moves nothing.
DeadRests == actions # Stop => up

\* No step lets a dead service move anything.
LEMMA DeadStep ==
    ASSUME DeadRests, [Next]_vars
    PROVE  DeadRests'
<1>1. CASE Callback \/ NodeEnds \/ NodeDies \/ NodeStarts
  BY <1>1 DEF DeadRests, Callback, OnCmdVel, OnNonFinite, OnEstop, OnEnable, ControlTick, NodeEnds,
              NodeDies, Forgotten, NodeStarts, service
<1>2. ASSUME NEW p \in packets, Deliver(p) PROVE DeadRests'
  BY <1>2 DEF DeadRests, Deliver, Serve
<1>3. CASE Lose \/ UNCHANGED vars
  BY <1>3 DEF DeadRests, Lose, vars, service
<1>4. CASE Watchdog \/ Fail \/ Recover \/ Tick
  BY <1>4 DEF DeadRests, Watchdog, WatchdogExpires, Fail, ServiceEnds, Recover, ServiceRestarts,
              Tick, ServiceTick
<1> QED
  BY <1>1, <1>2, <1>3, <1>4 DEF Next

\* An order tells its packet.
LEMMA OrderTellsPacket ==
    ASSUME NEW p \in Packets, NEW q \in Packets, OrderOf(p) = OrderOf(q)
    PROVE  p = q
<1>1. p.session = q.session /\ p.sequence = q.sequence /\ p.cmd = q.cmd
  BY DEF OrderOf
<1>2. p.src = q.src
  BY <1>1, PacketFields
<1> QED
  BY <1>1, <1>2 DEF Packets

\* The orders see only these.
LEMMA OrdersUnchanged ==
    ASSUME UNCHANGED <<packets, node, sequence, client_sequences, actions, age>>
    PROVE  UNCHANGED Orders!vars
  BY DEF Orders!vars, Floor, LeaseLeft, NextOrder

\* The node starts where the leased orders start.
LEMMA OrdersInit == Init => Orders!Init
<1> SUFFICES ASSUME Init PROVE Orders!Init
  OBVIOUS
<1>1. \A n \in Nodes : Floor(ADDRESS[n], n) = 0
  BY Bounds DEF Init, ServiceInit, NoSequences, Floor
<1>2. \A n \in Nodes : NextOrder(n) = 0
  BY DEF Init, NextOrder, Nodes
<1>3. {OrderOf(p) : p \in packets} = {}
  BY DEF Init
<1> QED
  BY <1>1, <1>2, <1>3 DEF Init, ServiceInit, Orders!Init, LeaseLeft, OrderOf

\* Two packets of a row have not the same number.
LEMMA RowNumbered ==
    ASSUME TypeOK, NEW cmds \in Seq(Twists), Send(cmds),
           NEW p \in packets' \ packets, NEW q \in packets' \ packets, p.sequence = q.sequence
    PROVE  p = q
<1>1. sequence \in Int /\ Len(cmds) \in Nat /\ DOMAIN cmds = 1..Len(cmds)
  BY Bounds DEF TypeOK, Numbers
<1>2. PICK i \in 1..Len(cmds) : p = Packet(sequence + i - 1, cmds[i])
  BY <1>1 DEF Send
<1>3. PICK j \in 1..Len(cmds) : q = Packet(sequence + j - 1, cmds[j])
  BY <1>1 DEF Send
<1>4. sequence + i - 1 = sequence + j - 1
  BY <1>2, <1>3 DEF Packet
<1>5. i = j
  BY <1>1, <1>4
<1> QED
  BY <1>2, <1>3, <1>5

\* A callback that sends issues its row.
LEMMA SendIssuesRow ==
    ASSUME TypeOK, NEW cmds \in Seq(Twists), Len(cmds) > 0, Send(cmds),
           UNCHANGED <<node, client_sequences, actions, age>>
    PROVE  Orders!Next
<1> DEFINE new == {OrderOf(p) : p \in packets' \ packets}
<1>1. /\ sequence \in Numbers /\ node \in Nodes /\ packets \in SUBSET Packets
      /\ Numbers \subseteq Nat
  BY Bounds DEF TypeOK, Numbers
<1>2. /\ packets \subseteq packets' /\ packets' \in SUBSET Packets
      /\ sequence' \in Numbers /\ sequence <= sequence'
      /\ \A p \in packets' \ packets :
           p.session = node /\ sequence <= p.sequence /\ p.sequence < sequence'
  BY <1>1, SendTyped
<1>3. new \in Orders!Orders(node, sequence, sequence')
  <2>1. ASSUME NEW p \in packets' \ packets
        PROVE  OrderOf(p) \in {node} \X (sequence..(sequence' - 1))
                                     \X ((Drives \union {Fractional}) \union {Stop})
    <3>1. /\ p \in Packets /\ p.session = node
          /\ sequence <= p.sequence /\ p.sequence < sequence'
      BY <1>2
    <3>2. p.sequence \in Numbers /\ p.cmd \in Twists
      BY <3>1, PacketFields
    <3>3. PICK first \in Nat, end \in Nat, at \in Nat :
             first = sequence /\ end = sequence' /\ at = p.sequence
      BY <1>1, <1>2, <3>2
    <3>4. at \in first..(end - 1)
      BY <3>1, <3>3
    <3>5. p.sequence \in sequence..(sequence' - 1)
      BY <3>3, <3>4
    <3> QED
      BY <3>1, <3>2, <3>5 DEF OrderOf, Twists
  <2>2. ASSUME NEW p \in packets' \ packets, NEW q \in packets' \ packets,
               OrderOf(p)[2] = OrderOf(q)[2]
        PROVE  OrderOf(p) = OrderOf(q)
    <3>1. p.sequence = q.sequence
      BY <2>2 DEF OrderOf
    <3> QED
      BY <3>1, RowNumbered
  <2>3. \A o \in new, k \in new : o[2] = k[2] => o = k
    BY <2>2
  <2> QED
    BY <2>1, <2>3 DEF Orders!Orders
<1>4. {OrderOf(p) : p \in packets}' = {OrderOf(p) : p \in packets} \union new
  BY <1>2
<1>5. [n \in Nodes |-> NextOrder(n)]' =
        [[n \in Nodes |-> NextOrder(n)] EXCEPT ![node] = sequence']
  BY <1>1 DEF NextOrder
<1>6. [n \in Nodes |-> NextOrder(n)][node] = sequence
  BY <1>1 DEF NextOrder
<1>7. UNCHANGED <<[n \in Nodes |-> Floor(ADDRESS[n], n)], actions, LeaseLeft>>
  BY DEF Floor, LeaseLeft
<1> HIDE DEF new
<1>8. PICK end \in Numbers : end = sequence'
  BY <1>2
<1>9. Orders!Issue(node, end)
  BY <1>2, <1>3, <1>4, <1>5, <1>6, <1>7, <1>8 DEF Orders!Issue, OrderOf
<1>10. \E c \in Nodes, n \in Numbers : Orders!Issue(c, n)
  BY <1>1, <1>9
<1> QED
  BY <1>10 DEF Orders!Next

\* A new start of the node: the one before it issues nothing more.
LEMMA StartRetires ==
    ASSUME TypeOK, NodeStarts
    PROVE  Orders!Next
<1>1. /\ node \in Nodes /\ node + 1 \in Nodes /\ node' = node + 1 /\ sequence' = 0
      /\ UNCHANGED <<packets, client_sequences, actions, age>>
      /\ sequence \in Nat /\ sequence <= MAX_SEQUENCE /\ MAX_SEQUENCE \in Numbers
  BY Bounds DEF NodeStarts, service, TypeOK, Nodes, Numbers
<1>2. ASSUME NEW n \in Nodes
      PROVE  NextOrder(n)' = IF n = node THEN MAX_SEQUENCE ELSE NextOrder(n)
  <2>1. n \in Int /\ node \in Int
    BY <1>1, Bounds
  <2> QED
    BY <1>1, <2>1 DEF NextOrder
<1>3. [n \in Nodes |-> NextOrder(n)]' =
        [[n \in Nodes |-> NextOrder(n)] EXCEPT ![node] = MAX_SEQUENCE]
  BY <1>1, <1>2
<1>4. [n \in Nodes |-> NextOrder(n)][node] = sequence
  BY <1>1 DEF NextOrder
<1>5. {} \in Orders!Orders(node, sequence, MAX_SEQUENCE)
  BY DEF Orders!Orders
<1>6. UNCHANGED <<[n \in Nodes |-> Floor(ADDRESS[n], n)], actions, LeaseLeft,
                  {OrderOf(p) : p \in packets}>>
  BY <1>1 DEF Floor, LeaseLeft
<1>7. {OrderOf(p) : p \in packets}' = {OrderOf(p) : p \in packets} \union {}
  BY <1>6
<1>8. Orders!Issue(node, MAX_SEQUENCE)
  BY <1>1, <1>3, <1>4, <1>5, <1>6, <1>7 DEF Orders!Issue, OrderOf
<1> QED
  BY <1>1, <1>8 DEF Orders!Next

\* A packet that leaves the network takes its order off the book.
LEMMA PacketLeaves ==
    ASSUME TypeOK, NEW p \in packets, packets' = packets \ {p}
    PROVE  {OrderOf(q) : q \in packets}' = {OrderOf(q) : q \in packets} \ {OrderOf(p)}
<1>1. packets \in SUBSET Packets
  BY DEF TypeOK
<1>2. \A q \in packets : OrderOf(q) = OrderOf(p) => q = p
  BY <1>1, OrderTellsPacket
<1> QED
  BY <1>2

\* An accepted packet is an order obeyed, a refused one is dropped.
LEMMA DeliverIsObeyed ==
    ASSUME TypeOK, \A m, n \in Nodes : ADDRESS[m] = ADDRESS[n] => m = n,
           NEW p \in packets, Deliver(p)
    PROVE  Orders!Next
<1> DEFINE o == OrderOf(p)
<1>1. /\ p \in Packets /\ p.src = ADDRESS[p.session] /\ p.session \in Nodes
      /\ p.src \in Addresses /\ p.sequence \in Numbers /\ p.sequence \in Nat
  BY PacketFields, Bounds DEF TypeOK, Numbers
<1>2. /\ Serve(p) /\ packets' = packets \ {p}
      /\ UNCHANGED [n \in Nodes |-> NextOrder(n)]
  BY DEF Deliver, driver, NextOrder
<1>3. {OrderOf(q) : q \in packets}' = {OrderOf(q) : q \in packets} \ {o}
  BY <1>2, PacketLeaves
<1>4. o \in {OrderOf(q) : q \in packets}
  OBVIOUS
<1>5. CASE ~Acceptable(p)
  <2>1. UNCHANGED <<[n \in Nodes |-> Floor(ADDRESS[n], n)], actions, LeaseLeft>>
    BY <1>2, <1>5 DEF Serve, AgeAfter, Floor, LeaseLeft
  <2>2. Orders!Drop(o)
    BY <1>2, <1>3, <2>1 DEF Orders!Drop, OrderOf
  <2> QED
    BY <1>4, <2>2 DEF Orders!Next, OrderOf
<1>6. CASE Acceptable(p)
  <2>1. /\ client_sequences' =
             [client_sequences EXCEPT ![p.src] = <<p.session, p.sequence>>]
        /\ actions' = p.cmd /\ age' = 0
    BY <1>2, <1>6 DEF Serve, AgeAfter
  <2>2. Floor(ADDRESS[p.session], p.session) <= p.sequence
    <3>1. ASSUME client_sequences[p.src] # NoEntry,
                 client_sequences[p.src][1] = p.session
          PROVE  client_sequences[p.src][2] <= p.sequence
      <4>1. client_sequences[p.src] \in Nodes \X Numbers
        BY <1>1, <3>1 DEF TypeOK
      <4>2. client_sequences[p.src][2] \in Nat
        BY <4>1, Bounds DEF Numbers
      <4>3. ~(p.sequence < client_sequences[p.src][2])
        BY <1>6, <3>1 DEF Acceptable, Stale
      <4> QED
        BY <1>1, <4>2, <4>3
    <3> QED
      BY <1>1, <3>1 DEF Floor
  <2>3. ASSUME NEW n \in Nodes
        PROVE  Floor(ADDRESS[n], n)' =
                 IF n = p.session THEN p.sequence ELSE Floor(ADDRESS[n], n)
    <3>1. ADDRESS[n] \in Addresses
      BY Bounds
    <3>2. CASE n = p.session
      <4>1. client_sequences'[ADDRESS[n]] = <<p.session, p.sequence>>
        BY <1>1, <2>1, <3>2 DEF TypeOK
      <4> QED
        BY <3>2, <4>1 DEF Floor, NoEntry
    <3>3. CASE n # p.session
      <4>1. ADDRESS[n] # p.src
        BY <1>1, <3>3
      <4>2. client_sequences'[ADDRESS[n]] = client_sequences[ADDRESS[n]]
        BY <2>1, <3>1, <4>1 DEF TypeOK
      <4> QED
        BY <3>3, <4>2 DEF Floor
    <3> QED
      BY <3>2, <3>3
  <2>4. [n \in Nodes |-> Floor(ADDRESS[n], n)]' =
          [[n \in Nodes |-> Floor(ADDRESS[n], n)] EXCEPT ![p.session] = p.sequence]
    BY <1>1, <2>3
  <2>5. LeaseLeft' = IF p.cmd = Stop THEN 0 ELSE WATCHDOG + 1
    BY <2>1, Bounds DEF LeaseLeft
  <2>6. [n \in Nodes |-> Floor(ADDRESS[n], n)][p.session] = Floor(ADDRESS[p.session], p.session)
    BY <1>1
  <2>7. o[1] = p.session /\ o[2] = p.sequence /\ o[3] = p.cmd
    BY DEF OrderOf
  <2> HIDE DEF o
  <2>8. o[2] >= [n \in Nodes |-> Floor(ADDRESS[n], n)][o[1]]
    <3>1. Floor(ADDRESS[p.session], p.session) \in Int
      <4>1. client_sequences[p.src] # NoEntry => client_sequences[p.src] \in Nodes \X Numbers
        BY <1>1 DEF TypeOK
      <4> QED
        BY <1>1, <4>1, Bounds DEF Floor, Numbers
    <3> QED
      BY <1>1, <2>2, <2>6, <2>7, <3>1
  <2>9. Orders!Obey(o)
    BY <1>2, <1>3, <2>1, <2>4, <2>5, <2>7, <2>8 DEF Orders!Obey, OrderOf
  <2> QED
    BY <1>4, <2>9 DEF Orders!Next, OrderOf
<1> QED
  BY <1>5, <1>6

\* What the network and the service do by themselves.
LEMMA ServiceLeases ==
    ASSUME TypeOK, DeadRests, Lose \/ Watchdog \/ Fail \/ Recover \/ Tick
    PROVE  [Orders!Next]_(Orders!vars)
<1>1. CASE Lose
  <2>1. UNCHANGED <<node, sequence, client_sequences, actions, age>>
    BY <1>1 DEF Lose, service, driver
  <2>2. CASE packets' = packets
    BY <2>1, <2>2, OrdersUnchanged
  <2>3. ASSUME NEW p \in packets, packets' = packets \ {p} PROVE Orders!Next
    <3>1. {OrderOf(q) : q \in packets}' = {OrderOf(q) : q \in packets} \ {OrderOf(p)}
      BY <2>3, PacketLeaves
    <3>2. UNCHANGED <<[n \in Nodes |-> Floor(ADDRESS[n], n)], [n \in Nodes |-> NextOrder(n)],
                      actions, LeaseLeft>>
      BY <2>1 DEF Floor, NextOrder, LeaseLeft
    <3>3. Orders!Drop(OrderOf(p))
      BY <3>1, <3>2 DEF Orders!Drop, OrderOf
    <3> QED
      BY <3>3 DEF Orders!Next, OrderOf
  <2> QED
    BY <1>1, <2>2, <2>3 DEF Lose
<1>2. CASE Watchdog
  <2>1. /\ actions # Stop /\ age > WATCHDOG /\ actions' = Stop
        /\ UNCHANGED <<packets, node, sequence, client_sequences, age>>
    BY <1>2 DEF Watchdog, WatchdogExpires, WatchdogDue, driver
  <2>2. age = WATCHDOG + 1
    BY <2>1, Bounds DEF TypeOK
  <2>3. UNCHANGED <<{OrderOf(q) : q \in packets}, [n \in Nodes |-> Floor(ADDRESS[n], n)],
                    [n \in Nodes |-> NextOrder(n)]>>
    BY <2>1 DEF Floor, NextOrder
  <2>4. LeaseLeft = 0 /\ LeaseLeft' = 0
    BY <2>1, <2>2, Bounds DEF LeaseLeft
  <2>5. Orders!Expire
    BY <2>1, <2>3, <2>4 DEF Orders!Expire, OrderOf
  <2> QED
    BY <2>5 DEF Orders!Next
<1>3. CASE Fail
  <2>1. /\ actions' = Stop /\ client_sequences' = NoSequences
        /\ UNCHANGED <<packets, node, sequence>>
    BY <1>3 DEF Fail, ServiceEnds, driver
  <2>2. \A n \in Nodes : Floor(ADDRESS[n], n)' = 0
    BY <2>1, Bounds DEF Floor, NoSequences
  <2>3. /\ UNCHANGED <<{OrderOf(q) : q \in packets}, [n \in Nodes |-> NextOrder(n)]>>
        /\ LeaseLeft' = 0
    BY <2>1 DEF NextOrder, LeaseLeft
  <2>4. Orders!Forget
    BY <2>1, <2>2, <2>3 DEF Orders!Forget, OrderOf
  <2> QED
    BY <2>4 DEF Orders!Next
<1>4. CASE Recover
  BY <1>4, OrdersUnchanged DEF Recover, ServiceRestarts, driver
<1>5. CASE Tick
  <2>1. /\ ~WatchdogDue
        /\ age' = IF age > WATCHDOG THEN age ELSE age + 1
        /\ UNCHANGED <<packets, node, sequence, actions, client_sequences>>
    BY <1>5 DEF Tick, ServiceTick
  <2>2. UNCHANGED <<{OrderOf(q) : q \in packets}, [n \in Nodes |-> Floor(ADDRESS[n], n)],
                    [n \in Nodes |-> NextOrder(n)]>>
    BY <2>1 DEF Floor, NextOrder
  <2>3. CASE actions = Stop
    <3>1. Orders!Tick
      BY <2>1, <2>2, <2>3 DEF Orders!Tick, LeaseLeft, OrderOf
    <3> QED
      BY <3>1 DEF Orders!Next
  <2>4. CASE actions # Stop
    <3>1. ~(age > WATCHDOG) /\ age \in Nat /\ WATCHDOG \in Nat
      BY <2>1, <2>4, Bounds DEF WatchdogDue, DeadRests, TypeOK
    <3>2. age' = age + 1
      BY <2>1, <3>1
    <3>3. LeaseLeft > 0 /\ LeaseLeft' = LeaseLeft - 1
      BY <2>1, <2>4, <3>1, <3>2 DEF LeaseLeft
    <3>4. Orders!Tick
      BY <2>1, <2>2, <2>4, <3>3 DEF Orders!Tick, OrderOf
    <3> QED
      BY <3>4 DEF Orders!Next
  <2> QED
    BY <2>3, <2>4
<1> QED
  BY <1>1, <1>2, <1>3, <1>4, <1>5

\* Every step of the node and of the service is a step of the leased orders or
\* none of them.
LEMMA NextIsLeased ==
    ASSUME TypeOK, DeadRests, \A m, n \in Nodes : ADDRESS[m] = ADDRESS[n] => m = n, [Next]_vars
    PROVE  [Orders!Next]_(Orders!vars)
<1>0. Stop \in Twists /\ Duty \in Twists
  BY DutyTyped DEF Twists
<1>1. CASE ControlTick
  <2>1. /\ Send(<<Duty, Stop>>) \/ Send(<<Duty>>)
        /\ UNCHANGED <<node, client_sequences, actions, age>>
    BY <1>1 DEF ControlTick, service
  <2>2. /\ <<Duty, Stop>> \in Seq(Twists) /\ Len(<<Duty, Stop>>) > 0
        /\ <<Duty>> \in Seq(Twists) /\ Len(<<Duty>>) > 0
    BY <1>0
  <2> QED
    BY <2>1, <2>2, SendIssuesRow
<1>2. CASE NodeEnds
  <2>1. Send(<<Stop, Stop, Stop>>) /\ UNCHANGED <<node, client_sequences, actions, age>>
    BY <1>2 DEF NodeEnds, Forgotten, service
  <2>2. <<Stop, Stop, Stop>> \in Seq(Twists) /\ Len(<<Stop, Stop, Stop>>) > 0
    BY <1>0
  <2> QED
    BY <2>1, <2>2, SendIssuesRow
<1>3. CASE \/ \E twist \in NAV_TWISTS : OnCmdVel(twist)
           \/ OnNonFinite \/ OnEstop \/ NodeDies
           \/ \E on \in BOOLEAN : OnEnable(on)
  BY <1>3, OrdersUnchanged
  DEF OnCmdVel, OnNonFinite, OnEstop, OnEnable, NodeDies, Forgotten, service
<1>4. CASE NodeStarts
  BY <1>4, StartRetires
<1>5. ASSUME NEW p \in packets, Deliver(p) PROVE Orders!Next
  BY <1>5, DeliverIsObeyed
<1>6. CASE Lose \/ Watchdog \/ Fail \/ Recover \/ Tick
  BY <1>6, ServiceLeases
<1>7. CASE UNCHANGED vars
  BY <1>7, OrdersUnchanged DEF vars, service, driver
<1> QED
  BY <1>1, <1>2, <1>3, <1>4, <1>5, <1>6, <1>7 DEF Next, Callback

\* The base that Nav2 drives obeys numbered orders, each for the length of the
\* watchdog, whatever is lost, however the node and the service end and start
\* again, if every start of the node has a port of its own (with the port of the
\* one before it, a packet of that one may be obeyed after this one's, and again).
THEOREM DriverLeases ==
    ASSUME \A m, n \in Nodes : ADDRESS[m] = ADDRESS[n] => m = n
    PROVE  Spec => OrdersAreLeased
<1>1. Init => Orders!Init
  BY OrdersInit
<1>2. Init => DeadRests
  BY DEF Init, ServiceInit, DeadRests
<1>3. DeadRests /\ [Next]_vars => DeadRests'
  BY DeadStep
<1>4. TypeOK /\ DeadRests /\ [Next]_vars => [Orders!Next]_(Orders!vars)
  BY NextIsLeased
<1> QED
  BY <1>1, <1>2, <1>3, <1>4, TypeCorrect, PTL DEF Spec, OrdersAreLeased, Orders!Spec
=============================================================================
