--------------------------- MODULE MotorLinkProof ---------------------------
(***************************************************************************)
(* What the motor link keeps, for any number of clients, packets,          *)
(* duplicates and restarts: the types, that an acknowledgement is never    *)
(* counted for a packet the service did not carry out, that an accepted    *)
(* stop is final, and that the link implements LeasedOrders.               *)
(***************************************************************************)
EXTENDS MotorLink, TLAPS

Numbers == 0..MAX_PACKETS

\* A packet a client sends is well formed.
LEMMA PacketTyped ==
    ASSUME NEW c \in Clients, NEW n \in Numbers,
           NEW cmd \in Drives \union {Stop, Fractional}
    PROVE  Packet(c, n, cmd) \in Packets
  BY LinkAssumption DEF Packet, Packets, Numbers

\* What a well-formed packet carries, and where it came from.
LEMMA PacketFields ==
    ASSUME NEW p \in Packets
    PROVE  /\ p.src \in Addresses /\ p.session \in Clients
           /\ p.sequence \in 0..MAX_PACKETS
           /\ p.cmd \in Drives \union {Stop, Fractional}
           /\ p.src = ADDRESS[p.session]
  BY DEF Packets

\* The initial states are well typed.
LEMMA InitTypes == Init => TypeOK
<1> SUFFICES ASSUME Init PROVE TypeOK
  OBVIOUS
<1>1. /\ up \in BOOLEAN /\ actions = Stop /\ age = 0
      /\ client_sequences = [a \in Addresses |-> NoEntry]
  BY DEF Init, ServiceInit, NoSequences
<1>2. /\ WATCHDOG \in Nat /\ MAX_PACKETS \in Nat /\ STOP_WINDOW \in Nat
      /\ MAX_DUPLICATES \in Nat /\ MAX_RESTARTS \in Nat
  BY ServiceAssumption, LinkAssumption
<1>3. /\ phase \in [Clients -> {"drive", "stop", "tail", "done", "dead"}]
      /\ sequence \in [Clients -> 0..MAX_PACKETS]
      /\ stop_left \in [Clients -> 0..STOP_WINDOW]
      /\ tail \in [Clients -> 0..2]
      /\ \A c \in Clients : tail[c] = 2 /\ phase[c] = "drive"
      /\ acked \in [Clients -> SUBSET (0..MAX_PACKETS)]
  BY <1>2 DEF Init
<1>4. refused \in [Clients -> BOOLEAN]
  BY DEF Init
<1> QED
  BY <1>1, <1>2, <1>3, <1>4 DEF Init, TypeOK

\* What serving a packet does to the types of the service's variables.
LEMMA ServeTypes ==
    ASSUME TypeOK, NEW p \in Packets, Serve(p)
    PROVE  /\ up' \in BOOLEAN
           /\ actions' \in Drives \union {Stop}
           /\ age' \in 0..(WATCHDOG + 1)
           /\ client_sequences' \in
                [Addresses -> {NoEntry} \union (Clients \X (0..MAX_PACKETS))]
<1>1. p.src \in Addresses /\ <<p.session, p.sequence>> \in Clients \X (0..MAX_PACKETS)
  BY PacketFields
<1>2. Acceptable(p) => p.cmd \in Drives \union {Stop}
  BY PacketFields DEF Acceptable
<1>3. 0 \in 0..(WATCHDOG + 1)
  BY ServiceAssumption
<1> QED
  BY <1>1, <1>2, <1>3 DEF Serve, AgeAfter, TypeOK

\* Every variable of the service, the clients and the network keeps its type,
\* for any number of clients and any bounds.
THEOREM TypeCorrect == Spec => []TypeOK
<1>1. TypeOK /\ [Next]_vars => TypeOK'
  <2> SUFFICES ASSUME TypeOK, [Next]_vars PROVE TypeOK'
    OBVIOUS
  <2> USE DEF TypeOK
  <2>1. ASSUME NEW c \in Clients, SendDrive(c) PROVE TypeOK'
    <3>1. Packet(c, sequence[c], COMMAND[c]) \in Packets
      BY PacketTyped, LinkAssumption DEF Numbers
    <3>2. sequence[c] + 1 \in 0..MAX_PACKETS
      BY <2>1, LinkAssumption DEF SendDrive
    <3> QED
      BY <2>1, <3>1, <3>2 DEF SendDrive, Send, service, bounds, served
  <2>2. ASSUME NEW c \in Clients, BeginStop(c) \/ EndStop(c) \/ ClientDies(c)
        PROVE  TypeOK'
    BY <2>2 DEF BeginStop, EndStop, ClientDies, service, bounds, history, served
  <2>3. ASSUME NEW c \in Clients, SendStop(c) PROVE TypeOK'
    <3>1. Packet(c, sequence[c], Stop) \in Packets
      BY PacketTyped DEF Numbers
    <3> QED
      BY <2>3, <3>1 DEF SendStop, Send, service, client, bounds, served
  <2>4. ASSUME NEW c \in Clients, SendTail(c) PROVE TypeOK'
    <3>1. Packet(c, sequence[c], Stop) \in Packets
      BY PacketTyped DEF Numbers
    <3> QED
      BY <2>4, <3>1 DEF SendTail, Send, service, bounds, served
  <2>5. ASSUME NEW c \in Clients, NEW r \in replies, Drain(c, r) PROVE TypeOK'
    <3>1. r \in Replies
      OBVIOUS
    <3>2. Credited(c, r) \in SUBSET (0..MAX_PACKETS)
      BY <3>1 DEF Credited, Replies
    <3>3. (refused[c] \/ ~r.ok) \in BOOLEAN
      OBVIOUS
    <3>4. acked' \in [Clients -> SUBSET (0..MAX_PACKETS)]
      BY <2>5, <3>2 DEF Drain
    <3>5. refused' \in [Clients -> BOOLEAN]
      BY <2>5, <3>3 DEF Drain
    <3>6. replies' \in SUBSET Replies
      BY <2>5 DEF Drain
    <3> QED
      BY <2>5, <3>4, <3>5, <3>6 DEF Drain, service, bounds, history, served
  <2>6. ASSUME NEW p \in packets, Deliver(p) PROVE TypeOK'
    <3>1. p \in Packets
      OBVIOUS
    <3>2. Reply(p) \in Replies
      BY <3>1, PacketFields DEF Reply, Replies, Acceptable
    <3>3. packets' \in SUBSET Packets /\ duplicates' \in 0..MAX_DUPLICATES
      BY <2>6, LinkAssumption DEF Deliver, Leaves
    <3>4. /\ mover' \in Clients /\ halted' \in SUBSET Clients
          /\ obeyed' \in SUBSET (Clients \X (0..MAX_PACKETS))
      BY <2>6, <3>1, PacketFields DEF Deliver, served
    <3>5. replies' \in SUBSET Replies
      BY <2>6, <3>2 DEF Deliver
    <3>6. Serve(p)
      BY <2>6 DEF Deliver
    <3> QED
      BY <2>6, <3>1, <3>3, <3>4, <3>5, <3>6, ServeTypes DEF Deliver, client
  <2>7. CASE Lose
    BY <2>7 DEF Lose, service, client, bounds, history, served
  <2>8. CASE Watchdog
    BY <2>8 DEF Watchdog, WatchdogExpires, client, bounds, history, served
  <2>9. CASE Fail
    <3>1. restarts' \in 0..MAX_RESTARTS
      BY <2>9, LinkAssumption DEF Fail
    <3>2. client_sequences' \in
            [Addresses -> {NoEntry} \union (Clients \X (0..MAX_PACKETS))]
      BY <2>9 DEF Fail, ServiceEnds, NoSequences
    <3>3. age' \in 0..(WATCHDOG + 1)
      BY <2>9, ServiceAssumption DEF Fail, ServiceEnds
    <3> QED
      BY <2>9, <3>1, <3>2, <3>3 DEF Fail, ServiceEnds, client
  <2>10. CASE Recover
    BY <2>10 DEF Recover, ServiceRestarts, client, bounds, history, served
  <2>11. CASE Tick
    <3>1. age' \in 0..(WATCHDOG + 1)
      BY <2>11, ServiceAssumption DEF Tick, ServiceTick
    <3>2. stop_left' \in [Clients -> 0..STOP_WINDOW]
      BY <2>11, LinkAssumption DEF Tick
    <3> QED
      BY <2>11, <3>1, <3>2 DEF Tick, ServiceTick, bounds, history, served
  <2>12. CASE UNCHANGED vars
    BY <2>12 DEF vars, service, client, bounds, history, served
  <2> QED
    BY <2>1, <2>2, <2>3, <2>4, <2>5, <2>6, <2>7, <2>8, <2>9, <2>10, <2>11,
       <2>12 DEF Next, ClientStep
<1> QED
  BY <1>1, InitTypes, PTL DEF Spec

-----------------------------------------------------------------------------
(* Acknowledgements. *)

\* Every acknowledgement, counted or still in flight, is of an obeyed packet.
AckInv ==
    /\ AckedWasObeyed
    /\ \A r \in replies : r.ok => <<r.session, r.sequence>> \in obeyed

\* No step of the link breaks AckInv.
LEMMA AckStep ==
    ASSUME TypeOK, AckInv, [Next]_vars
    PROVE  AckInv'
<1> USE DEF AckInv, AckedWasObeyed
<1>1. ASSUME NEW c \in Clients, ClientStep(c) \/ ClientDies(c) PROVE AckInv'
  BY <1>1 DEF ClientStep, ClientDies, SendDrive, BeginStop, SendStop, EndStop,
              SendTail, client, history, served
<1>2. ASSUME NEW c \in Clients, NEW r \in replies, Drain(c, r) PROVE AckInv'
  <2>1. obeyed' = obeyed /\ replies' \subseteq replies
    BY <1>2 DEF Drain, history, served
  <2>2. ASSUME NEW d \in Clients, NEW n \in acked'[d]
        PROVE  <<d, n>> \in obeyed
    <3>1. n \in acked[d] \/ (r.session = d /\ r.ok /\ n = r.sequence)
      BY <1>2, <2>2 DEF Drain, Credited, TypeOK
    <3> QED
      BY <3>1
  <2> QED
    BY <2>1, <2>2
<1>3. ASSUME NEW p \in packets, Deliver(p) PROVE AckInv'
  <2>1. acked' = acked /\ replies' = replies \union {Reply(p)}
    BY <1>3 DEF Deliver, client
  <2>2. obeyed \subseteq obeyed'
    BY <1>3 DEF Deliver, served
  <2>3. Reply(p).ok => <<Reply(p).session, Reply(p).sequence>> \in obeyed'
    BY <1>3 DEF Deliver, Reply
  <2> QED
    BY <2>1, <2>2, <2>3
<1>4. CASE Lose
  BY <1>4 DEF Lose, client, history, served
<1>5. CASE Watchdog \/ Fail \/ Recover \/ Tick
  BY <1>5 DEF Watchdog, Fail, Recover, Tick, client, history, served
<1>6. CASE UNCHANGED vars
  BY <1>6 DEF vars, client, history, served
<1> QED
  BY <1>1, <1>2, <1>3, <1>4, <1>5, <1>6 DEF Next

\* What a client counts as acknowledged, the service carried out.
THEOREM AcksAreTrue == Spec => []AckedWasObeyed
<1>1. Init => AckInv
  BY DEF Init, AckInv, AckedWasObeyed
<1>2. TypeOK /\ AckInv /\ [Next]_vars => AckInv'
  BY AckStep
<1>3. AckInv => AckedWasObeyed
  BY DEF AckInv
<1> QED
  BY <1>1, <1>2, <1>3, TypeCorrect, PTL DEF Spec

-----------------------------------------------------------------------------
(* Finality of the stop. *)

\* The stop of a client carries its last number, every drive a lower one, and
\* whoever is halted has its stop on record with the service.
HaltInv ==
    /\ \A p \in packets :
         IF p.cmd = Stop
         THEN phase[p.session] # "drive" /\ p.sequence = sequence[p.session]
         ELSE p.sequence < sequence[p.session]
    /\ \A c \in halted :
         /\ phase[c] # "drive"
         /\ Private(c) => client_sequences[ADDRESS[c]] = <<c, sequence[c]>>
    /\ HaltedStaysHalted

\* A halted client's drive packets are stale, so only its stop is accepted.
LEMMA OnlyStopFromHalted ==
    ASSUME TypeOK, HaltInv, NEW p \in packets, Acceptable(p),
           p.session \in halted, Private(p.session)
    PROVE  p.cmd = Stop
<1>1. /\ p.src = ADDRESS[p.session] /\ p.session \in Clients
      /\ p.sequence \in 0..MAX_PACKETS
  BY PacketFields DEF TypeOK
<1>2. client_sequences[p.src] = <<p.session, sequence[p.session]>>
  BY <1>1 DEF HaltInv
<1>3. ~(p.sequence < sequence[p.session])
  BY <1>2 DEF Acceptable, Stale, NoEntry
<1> QED
  BY <1>3 DEF HaltInv

\* No step of the link breaks HaltInv: a drive packet is numbered below its
\* client's stop, which the service has on record once it has accepted it.
LEMMA HaltStep ==
    ASSUME TypeOK, HaltInv, [Next]_vars
    PROVE  HaltInv'
<1> USE DEF HaltInv, HaltedStaysHalted
<1>0. \A p \in packets : p.session \in Clients /\ p.sequence \in Nat
  BY PacketFields, LinkAssumption DEF TypeOK
<1>1. ASSUME NEW c \in Clients, SendDrive(c) PROVE HaltInv'
  <2>1. /\ phase[c] = "drive" /\ phase' = phase
        /\ sequence' = [sequence EXCEPT ![c] = @ + 1]
        /\ packets' = packets \union {Packet(c, sequence[c], COMMAND[c])}
        /\ client_sequences' = client_sequences /\ halted' = halted
        /\ actions' = actions /\ mover' = mover
    BY <1>1 DEF SendDrive, Send, service, served
  <2>2. sequence[c] \in Nat /\ sequence \in [Clients -> 0..MAX_PACKETS]
    BY LinkAssumption DEF TypeOK
  <2>3. ASSUME NEW p \in packets'
        PROVE  IF p.cmd = Stop
               THEN phase[p.session] # "drive"
                      /\ p.sequence = sequence'[p.session]
               ELSE p.sequence < sequence'[p.session]
    <3>1. CASE p \in packets
      <4>1. CASE p.session = c
        BY <2>1, <2>2, <3>1, <4>1, <1>0
      <4>2. CASE p.session # c
        BY <2>1, <2>2, <3>1, <4>2, <1>0
      <4> QED
        BY <4>1, <4>2
    <3>2. CASE p = Packet(c, sequence[c], COMMAND[c])
      <4>1. p.cmd # Stop /\ p.session = c /\ p.sequence = sequence[c]
        BY <3>2, LinkAssumption, ServiceAssumption DEF Packet
      <4> QED
        BY <2>1, <2>2, <4>1
    <3> QED
      BY <2>1, <3>1, <3>2
  <2>4. c \notin halted
    BY <2>1
  <2>5. \A d \in halted : sequence'[d] = sequence[d]
    BY <2>1, <2>2, <2>4 DEF TypeOK
  <2> QED
    BY <2>1, <2>3, <2>4, <2>5 DEF Private
<1>2. ASSUME NEW c \in Clients, BeginStop(c) \/ EndStop(c) \/ ClientDies(c)
      PROVE  HaltInv'
  <2>1. /\ UNCHANGED <<sequence, packets, client_sequences, halted, actions,
                       mover>>
        /\ \A d \in Clients : phase[d] # "drive" => phase'[d] # "drive"
    BY <1>2 DEF BeginStop, EndStop, ClientDies, service, history, served, TypeOK
  <2> QED
    BY <2>1, <1>0 DEF Private, TypeOK
<1>3. ASSUME NEW c \in Clients, SendStop(c) \/ SendTail(c) PROVE HaltInv'
  <2>1. /\ UNCHANGED <<sequence, client_sequences, halted, actions, mover>>
        /\ packets' = packets \union {Packet(c, sequence[c], Stop)}
        /\ phase[c] # "drive"
        /\ \A d \in Clients : phase[d] # "drive" => phase'[d] # "drive"
    BY <1>3 DEF SendStop, SendTail, Send, service, client, served, TypeOK
  <2>2. ASSUME NEW p \in packets'
        PROVE  IF p.cmd = Stop
               THEN phase'[p.session] # "drive"
                      /\ p.sequence = sequence[p.session]
               ELSE p.sequence < sequence[p.session]
    <3>1. CASE p \in packets
      BY <2>1, <3>1, <1>0
    <3>2. CASE p = Packet(c, sequence[c], Stop)
      <4>1. p.cmd = Stop /\ p.session = c /\ p.sequence = sequence[c]
        BY <3>2 DEF Packet
      <4> QED
        BY <2>1, <4>1
    <3> QED
      BY <2>1, <3>1, <3>2
  <2> QED
    BY <2>1, <2>2 DEF Private, TypeOK
<1>4. ASSUME NEW c \in Clients, NEW r \in replies, Drain(c, r) PROVE HaltInv'
  BY <1>4 DEF Drain, service, history, served, Private
<1>5. ASSUME NEW p \in packets, Deliver(p) PROVE HaltInv'
  <2>1. /\ UNCHANGED <<sequence, phase>>
        /\ packets' \subseteq packets
    BY <1>5 DEF Deliver, Leaves, client
  <2>2. /\ p.src = ADDRESS[p.session] /\ p.session \in Clients
        /\ p.src \in Addresses
    BY PacketFields DEF TypeOK
  <2>3. CASE ~Acceptable(p)
    BY <1>5, <2>1, <2>3 DEF Deliver, Serve, served, Private
  <2>4. CASE Acceptable(p)
    <3>1. /\ actions' = p.cmd /\ mover' = p.session
          /\ client_sequences' =
               [client_sequences EXCEPT ![p.src] = <<p.session, p.sequence>>]
          /\ halted' = IF p.cmd = Stop THEN halted \union {p.session} ELSE halted
      BY <1>5, <2>4 DEF Deliver, Serve
    <3>2. ASSUME NEW c \in halted'
          PROVE  /\ phase[c] # "drive"
                 /\ Private(c) =>
                      /\ client_sequences'[ADDRESS[c]] = <<c, sequence[c]>>
                      /\ ~(actions' # Stop /\ mover' = c)
      <4>1. c \in Clients
        BY <3>1, <3>2, <2>2 DEF TypeOK
      <4>2. CASE c = p.session
        <5>1. Private(c) => p.cmd = Stop
          BY <3>1, <3>2, <4>2, <2>4, OnlyStopFromHalted
        <5>2. p.cmd = Stop => phase[c] # "drive" /\ p.sequence = sequence[c]
          BY <4>2
        <5>3. c \in halted => phase[c] # "drive"
          OBVIOUS
        <5>4. phase[c] # "drive"
          BY <3>1, <3>2, <5>2, <5>3
        <5>5. client_sequences'[ADDRESS[c]] = <<c, p.sequence>>
          BY <3>1, <4>2, <2>2 DEF TypeOK
        <5> QED
          BY <3>1, <5>1, <5>2, <5>4, <5>5
      <4>3. CASE c # p.session
        <5>1. c \in halted
          BY <3>1, <3>2, <4>3
        <5>2. Private(c) => ADDRESS[c] # p.src
          BY <2>2, <4>3 DEF Private
        <5>3. ADDRESS[c] \in Addresses
          BY <4>1, LinkAssumption
        <5>4. Private(c) => client_sequences'[ADDRESS[c]] = client_sequences[ADDRESS[c]]
          BY <3>1, <5>2, <5>3 DEF TypeOK
        <5> QED
          BY <3>1, <4>3, <5>1, <5>4
      <4> QED
        BY <4>2, <4>3
    <3> QED
      BY <2>1, <3>2 DEF Private
  <2> QED
    BY <2>3, <2>4
<1>6. CASE Lose
  BY <1>6 DEF Lose, service, client, history, served, Private
<1>7. CASE Watchdog
  BY <1>7 DEF Watchdog, WatchdogExpires, client, history, served, Private
<1>8. CASE Fail
  BY <1>8 DEF Fail, client
<1>9. CASE Recover
  BY <1>9 DEF Recover, ServiceRestarts, client, history, served, Private
<1>10. CASE Tick
  BY <1>10 DEF Tick, ServiceTick, history, served, Private
<1>11. CASE UNCHANGED vars
  BY <1>11 DEF vars, service, client, history, served, Private
<1> QED
  BY <1>1, <1>2, <1>3, <1>4, <1>5, <1>6, <1>7, <1>8, <1>9, <1>10, <1>11
     DEF Next, ClientStep

\* Once a process of the service has accepted a client's stop, nothing that
\* client ever sent moves the base again while the process lives.
THEOREM StopIsFinal == Spec => []HaltedStaysHalted
<1>1. Init => HaltInv
  BY DEF Init, HaltInv, HaltedStaysHalted
<1>2. TypeOK /\ HaltInv /\ [Next]_vars => HaltInv'
  BY HaltStep
<1>3. HaltInv => HaltedStaysHalted
  BY DEF HaltInv
<1> QED
  BY <1>1, <1>2, <1>3, TypeCorrect, PTL DEF Spec

\* A client's last number can only have been carried out as its stop.
ObeyedInv ==
    \A c \in Clients, n \in Numbers :
        <<c, n>> \in obeyed =>
            \/ n < sequence[c]
            \/ /\ n = sequence[c] /\ phase[c] # "drive"
               /\ restarts = 0 => c \in halted

\* No step of the link breaks ObeyedInv.
LEMMA ObeyedStep ==
    ASSUME TypeOK, HaltInv, ObeyedInv, [Next]_vars
    PROVE  ObeyedInv'
<1> USE DEF ObeyedInv
<1>1. ASSUME NEW c \in Clients, SendDrive(c) PROVE ObeyedInv'
  <2>1. /\ phase[c] = "drive" /\ phase' = phase
        /\ sequence' = [sequence EXCEPT ![c] = @ + 1]
        /\ obeyed' = obeyed /\ restarts' = restarts /\ halted' = halted
    BY <1>1 DEF SendDrive, bounds, served
  <2>2. sequence \in [Clients -> Numbers] /\ Numbers \subseteq Nat
    BY LinkAssumption DEF TypeOK, Numbers
  <2>3. ASSUME NEW d \in Clients, NEW n \in Numbers, <<d, n>> \in obeyed
        PROVE  \/ n < sequence'[d]
               \/ /\ n = sequence'[d] /\ phase[d] # "drive"
                  /\ restarts = 0 => d \in halted
    <3>1. CASE d = c
      <4>1. sequence'[c] = sequence[c] + 1 /\ sequence[c] \in Nat /\ n \in Nat
        BY <2>1, <2>2
      <4>2. n < sequence[c]
        BY <2>1, <2>3, <3>1
      <4> QED
        BY <3>1, <4>1, <4>2
    <3>2. CASE d # c
      <4>1. sequence'[d] = sequence[d]
        BY <2>1, <2>2, <3>2
      <4> QED
        BY <2>3, <4>1
    <3> QED
      BY <3>1, <3>2
  <2> QED
    BY <2>1, <2>3
<1>2. ASSUME NEW c \in Clients,
             \/ BeginStop(c) \/ EndStop(c) \/ ClientDies(c)
             \/ SendStop(c) \/ SendTail(c)
      PROVE  ObeyedInv'
  <2>1. /\ UNCHANGED <<sequence, obeyed, restarts, halted>>
        /\ \A d \in Clients : phase[d] # "drive" => phase'[d] # "drive"
    BY <1>2 DEF BeginStop, EndStop, ClientDies, SendStop, SendTail, client,
                bounds, history, served, TypeOK
  <2> QED
    BY <2>1
<1>3. ASSUME NEW c \in Clients, NEW r \in replies, Drain(c, r) PROVE ObeyedInv'
  BY <1>3 DEF Drain, bounds, history, served
<1>4. ASSUME NEW p \in packets, Deliver(p) PROVE ObeyedInv'
  <2>1. UNCHANGED <<sequence, phase, restarts>>
    BY <1>4 DEF Deliver, client
  <2>2. CASE ~Acceptable(p)
    BY <1>4, <2>1, <2>2 DEF Deliver, served
  <2>3. CASE Acceptable(p)
    <3>1. /\ obeyed' = obeyed \union {<<p.session, p.sequence>>}
          /\ halted' = IF p.cmd = Stop THEN halted \union {p.session} ELSE halted
      BY <1>4, <2>3 DEF Deliver
    <3>2. IF p.cmd = Stop
          THEN phase[p.session] # "drive" /\ p.sequence = sequence[p.session]
          ELSE p.sequence < sequence[p.session]
      BY DEF HaltInv
    <3> QED
      BY <2>1, <3>1, <3>2
  <2> QED
    BY <2>2, <2>3
<1>5. CASE Fail
  <2>1. restarts' # 0 /\ UNCHANGED <<sequence, phase, obeyed>>
    BY <1>5 DEF Fail, client, TypeOK
  <2> QED
    BY <2>1
<1>6. CASE Lose \/ Watchdog \/ Recover \/ Tick
  BY <1>6 DEF Lose, Watchdog, Recover, Tick, client, bounds, history, served
<1>7. CASE UNCHANGED vars
  BY <1>7 DEF vars, client, bounds, history, served
<1> QED
  BY <1>1, <1>2, <1>3, <1>4, <1>5, <1>6, <1>7 DEF Next, ClientStep

\* send_motion returned stop_acknowledged: while the service has not been
\* restarted, the command of that client is not in force.
THEOREM AcknowledgedStopIsFinal == Spec => []StopAcknowledgedIsFinal
<1>1. Init => ObeyedInv
  BY DEF Init, ObeyedInv
<1>2. TypeOK /\ HaltInv /\ ObeyedInv /\ [Next]_vars => ObeyedInv'
  BY ObeyedStep
<1>3. Init => HaltInv
  BY DEF Init, HaltInv, HaltedStaysHalted
<1>4. TypeOK /\ HaltInv /\ [Next]_vars => HaltInv'
  BY HaltStep
<1>5. TypeOK /\ HaltInv /\ ObeyedInv /\ AckedWasObeyed => StopAcknowledgedIsFinal
  <2> SUFFICES ASSUME TypeOK, HaltInv, ObeyedInv, AckedWasObeyed,
                      NEW c \in Clients, Private(c), StopAcknowledged(c),
                      restarts = 0
               PROVE  ~(actions # Stop /\ mover = c)
    BY DEF StopAcknowledgedIsFinal
  <2>1. sequence[c] \in Numbers /\ ~(sequence[c] < sequence[c])
    BY LinkAssumption DEF TypeOK, Numbers
  <2>2. <<c, sequence[c]>> \in obeyed
    BY DEF StopAcknowledged, AckedWasObeyed
  <2>3. c \in halted
    BY <2>1, <2>2 DEF ObeyedInv
  <2> QED
    BY <2>3 DEF HaltInv, HaltedStaysHalted
<1> QED
  BY <1>1, <1>2, <1>3, <1>4, <1>5, TypeCorrect, AcksAreTrue, PTL DEF Spec

-----------------------------------------------------------------------------
(* The link implements LeasedOrders. *)

\* Packets in flight were sent, a client's numbers run up to its present one
\* and only its stop may carry that one, and a dead service moves nothing.
LeaseInv ==
    /\ \A p \in packets : <<p.session, p.sequence, p.cmd>> \in sent
    /\ sent \subseteq Clients \X Numbers \X (Drives \union {Stop, Fractional})
    /\ \A c \in Clients, n \in Numbers, cmd \in Drives \union {Stop, Fractional} :
         <<c, n, cmd>> \in sent =>
            \/ n < sequence[c]
            \/ n = sequence[c] /\ cmd = Stop /\ phase[c] # "drive"
    /\ actions # Stop => up

\* No step of the link breaks LeaseInv.
LEMMA LeaseStep ==
    ASSUME TypeOK, LeaseInv, [Next]_vars
    PROVE  LeaseInv'
<1> USE DEF LeaseInv
<1>1. ASSUME NEW c \in Clients, SendDrive(c) PROVE LeaseInv'
  <2> DEFINE cmd == COMMAND[c]
  <2>1. /\ phase[c] = "drive" /\ phase' = phase
        /\ sequence' = [sequence EXCEPT ![c] = @ + 1]
        /\ packets' = packets \union {Packet(c, sequence[c], cmd)}
        /\ sent' = sent \union {<<c, sequence[c], cmd>>}
        /\ actions' = actions /\ up' = up
    BY <1>1 DEF SendDrive, Send, service
  <2>2. /\ sequence \in [Clients -> Numbers] /\ Numbers \subseteq Nat
        /\ cmd \in Drives \union {Stop, Fractional}
    BY LinkAssumption DEF TypeOK, Numbers
  <2>3. ASSUME NEW d \in Clients
        PROVE  /\ sequence[d] \in Nat /\ sequence'[d] \in Nat
               /\ sequence'[d] >= sequence[d]
               /\ phase[d] # "drive" => sequence'[d] = sequence[d]
    <3>1. sequence[d] \in Nat /\ sequence[c] \in Nat
      BY <2>2
    <3>2. CASE d = c
      <4>1. sequence'[d] = sequence[d] + 1
        BY <2>1, <2>2, <3>2
      <4> QED
        BY <2>1, <3>1, <3>2, <4>1
    <3>3. CASE d # c
      <4>1. sequence'[d] = sequence[d]
        BY <2>1, <2>2, <3>3
      <4> QED
        BY <3>1, <4>1
    <3> QED
      BY <3>2, <3>3
  <2>4. sequence'[c] = sequence[c] + 1 /\ sequence[c] \in Nat
    BY <2>1, <2>2
  <2> HIDE DEF cmd
  <2>5. ASSUME NEW p \in packets'
        PROVE  <<p.session, p.sequence, p.cmd>> \in sent'
    <3>1. CASE p \in packets
      BY <2>1, <3>1
    <3>2. CASE p = Packet(c, sequence[c], cmd)
      <4>1. p.session = c /\ p.sequence = sequence[c] /\ p.cmd = cmd
        BY <3>2 DEF Packet
      <4> QED
        BY <2>1, <4>1
    <3> QED
      BY <2>1, <3>1, <3>2
  <2>6. sent' \subseteq Clients \X Numbers \X (Drives \union {Stop, Fractional})
    BY <2>1, <2>2
  <2>7. ASSUME NEW d \in Clients, NEW n \in Numbers,
               NEW k \in Drives \union {Stop, Fractional}, <<d, n, k>> \in sent'
        PROVE  \/ n < sequence'[d]
               \/ n = sequence'[d] /\ k = Stop /\ phase'[d] # "drive"
    <3>1. CASE <<d, n, k>> \in sent
      <4>1. n \in Nat
        BY <2>2
      <4>2. \/ n < sequence[d]
            \/ n = sequence[d] /\ k = Stop /\ phase[d] # "drive"
        BY <3>1
      <4> QED
        BY <2>1, <2>3, <4>1, <4>2
    <3>2. CASE <<d, n, k>> = <<c, sequence[c], cmd>>
      BY <2>4, <3>2
    <3> QED
      BY <2>1, <2>7, <3>1, <3>2
  <2> QED
    BY <2>1, <2>5, <2>6, <2>7
<1>2. ASSUME NEW c \in Clients, SendStop(c) \/ SendTail(c) PROVE LeaseInv'
  <2>1. /\ sequence' = sequence /\ phase[c] # "drive"
        /\ packets' = packets \union {Packet(c, sequence[c], Stop)}
        /\ sent' = sent \union {<<c, sequence[c], Stop>>}
        /\ actions' = actions /\ up' = up
        /\ \A d \in Clients : phase[d] # "drive" => phase'[d] # "drive"
    BY <1>2 DEF SendStop, SendTail, Send, service, client, TypeOK
  <2>2. sequence[c] \in Numbers
    BY DEF TypeOK, Numbers
  <2>3. phase'[c] # "drive"
    BY <2>1
  <2>4. ASSUME NEW p \in packets'
        PROVE  <<p.session, p.sequence, p.cmd>> \in sent'
    <3>1. CASE p \in packets
      BY <2>1, <3>1
    <3>2. CASE p = Packet(c, sequence[c], Stop)
      <4>1. p.session = c /\ p.sequence = sequence[c] /\ p.cmd = Stop
        BY <3>2 DEF Packet
      <4> QED
        BY <2>1, <4>1
    <3> QED
      BY <2>1, <3>1, <3>2
  <2> QED
    BY <2>1, <2>2, <2>3, <2>4
<1>3. ASSUME NEW c \in Clients, BeginStop(c) \/ EndStop(c) \/ ClientDies(c)
      PROVE  LeaseInv'
  <2>1. /\ UNCHANGED <<sequence, packets, sent, actions, up>>
        /\ \A d \in Clients : phase[d] # "drive" => phase'[d] # "drive"
    BY <1>3 DEF BeginStop, EndStop, ClientDies, service, history, TypeOK
  <2> QED
    BY <2>1
<1>4. ASSUME NEW c \in Clients, NEW r \in replies, Drain(c, r) PROVE LeaseInv'
  BY <1>4 DEF Drain, service, history
<1>5. ASSUME NEW p \in packets, Deliver(p) PROVE LeaseInv'
  <2>1. /\ UNCHANGED <<sequence, phase, sent, up>> /\ up
        /\ packets' \subseteq packets
    BY <1>5 DEF Deliver, Leaves, Serve, client
  <2> QED
    BY <2>1
<1>6. CASE Lose
  BY <1>6 DEF Lose, service, client, history
<1>7. CASE Watchdog \/ Fail \/ Recover \/ Tick
  BY <1>7 DEF Watchdog, WatchdogExpires, Fail, ServiceEnds, Recover,
              ServiceRestarts, Tick, ServiceTick, client, history
<1>8. CASE UNCHANGED vars
  BY <1>8 DEF vars, service, client, history
<1> QED
  BY <1>1, <1>2, <1>3, <1>4, <1>5, <1>6, <1>7, <1>8 DEF Next, ClientStep

\* The types and LeaseInv hold throughout.
LEMMA LeaseInvariant == Spec => [](TypeOK /\ LeaseInv)
<1>1. Init => LeaseInv
  BY DEF Init, ServiceInit, LeaseInv
<1>2. TypeOK /\ LeaseInv /\ [Next]_vars => LeaseInv'
  BY LeaseStep
<1> QED
  BY <1>1, <1>2, TypeCorrect, PTL DEF Spec

\* The lease variables see only these five.
LEMMA LeaseUnchanged ==
    ASSUME UNCHANGED <<sent, sequence, client_sequences, actions, age>>
    PROVE  UNCHANGED Leased!vars
  BY DEF Leased!vars, Floor, LeaseLeft, NextOrder

\* The link starts where the leased orders start.
LEMMA LeaseInit == Init => Leased!Init
<1> SUFFICES ASSUME Init PROVE Leased!Init
  OBVIOUS
<1>1. \A c \in Clients : Floor(ADDRESS[c], c) = 0
  BY LinkAssumption DEF Init, ServiceInit, NoSequences, Floor
<1>2. \A c \in Clients : NextOrder(c) = 0
  BY DEF Init, NextOrder
<1> QED
  BY <1>1, <1>2 DEF Init, ServiceInit, Leased!Init, LeaseLeft

\* Sending is issuing, and sending again is nothing new.
LEMMA SendIssues ==
    ASSUME LeaseInv, TypeOK, NEW c \in Clients,
           NEW cmd \in Drives \union {Stop, Fractional},
           \/ /\ phase[c] = "drive" /\ cmd # Stop
              /\ sequence' = [sequence EXCEPT ![c] = @ + 1]
           \/ cmd = Stop /\ sequence' = sequence,
           sent' = sent \union {<<c, sequence[c], cmd>>},
           UNCHANGED <<client_sequences, actions, age>>
    PROVE  [Leased!Next]_(Leased!vars)
<1> DEFINE n == sequence[c]
<1>1. n \in Numbers /\ n \in Nat /\ n + 1 \in 0..(MAX_PACKETS + 1)
  BY LinkAssumption DEF TypeOK, Numbers
<1>2. \A d \in Clients : sequence[d] \in Nat
  BY LinkAssumption DEF TypeOK, Numbers
<1>3. CASE <<c, n, Stop>> \in sent /\ cmd = Stop /\ sequence' = sequence
  <2>1. sent' = sent
    BY <1>3
  <2> QED
    BY <1>3, <2>1, LeaseUnchanged
<1>4. CASE /\ <<c, n, Stop>> \notin sent
           /\ \A d \in Clients :
                NextOrder(d)' = IF d = c THEN n + 1 ELSE NextOrder(d)
  <2>1. NextOrder(c) = n
    BY <1>4 DEF NextOrder
  <2>2. [d \in Clients |-> NextOrder(d)]' =
          [[d \in Clients |-> NextOrder(d)] EXCEPT ![c] = n + 1]
    BY <1>4
  <2>3. {<<c, n, cmd>>} \in Leased!Orders(c, n, n + 1)
    <3>1. n \in n..((n + 1) - 1)
      BY <1>1
    <3> QED
      BY <3>1 DEF Leased!Orders
  <2>4. UNCHANGED <<[d \in Clients |-> Floor(ADDRESS[d], d)], actions, LeaseLeft>>
    BY DEF Floor, LeaseLeft
  <2>5. Leased!Issue(c, n + 1)
    BY <1>1, <2>1, <2>2, <2>3, <2>4 DEF Leased!Issue
  <2> QED
    BY <1>1, <2>5 DEF Leased!Next
<1>5. CASE <<c, n, Stop>> \notin sent /\ cmd = Stop /\ sequence' = sequence
  <2>1. ASSUME NEW d \in Clients
        PROVE  NextOrder(d)' = IF d = c THEN n + 1 ELSE NextOrder(d)
    BY <1>5 DEF NextOrder
  <2> QED
    BY <1>4, <1>5, <2>1
<1>6. CASE phase[c] = "drive" /\ cmd # Stop /\ sequence' = [sequence EXCEPT ![c] = @ + 1]
  <2>1. <<c, n, Stop>> \notin sent
    BY <1>1, <1>6 DEF LeaseInv
  <2>2. sequence'[c] = n + 1 /\ \A d \in Clients : d # c => sequence'[d] = sequence[d]
    BY <1>6 DEF TypeOK
  <2>3. <<c, n + 1, Stop>> \notin sent'
    <3>1. <<c, n + 1, Stop>> \notin sent
      <4>1. SUFFICES ASSUME <<c, n + 1, Stop>> \in sent PROVE FALSE
        OBVIOUS
      <4>2. n + 1 \in Numbers
        BY <4>1 DEF LeaseInv
      <4> QED
        BY <1>1, <4>1, <4>2 DEF LeaseInv
    <3> QED
      BY <1>1, <3>1
  <2>4. ASSUME NEW d \in Clients
        PROVE  NextOrder(d)' = IF d = c THEN n + 1 ELSE NextOrder(d)
    <3>1. CASE d = c
      BY <2>2, <2>3, <3>1 DEF NextOrder
    <3>2. CASE d # c
      BY <2>2, <3>2 DEF NextOrder
    <3> QED
      BY <3>1, <3>2
  <2> QED
    BY <1>4, <2>1, <2>4
<1> QED
  BY <1>3, <1>5, <1>6

\* An accepted packet is an order obeyed, a refused one changes nothing.
LEMMA DeliverObeys ==
    ASSUME LeaseInv, TypeOK, \A c \in Clients : Private(c),
           NEW p \in packets, Deliver(p)
    PROVE  [Leased!Next]_(Leased!vars)
<1> DEFINE o == <<p.session, p.sequence, p.cmd>>
<1>1. /\ p.src = ADDRESS[p.session] /\ p.session \in Clients
      /\ p.src \in Addresses /\ p.sequence \in Nat
  BY PacketFields, LinkAssumption DEF TypeOK
<1>2. Serve(p) /\ sent' = sent /\ sequence' = sequence /\ o \in sent
  BY DEF Deliver, LeaseInv, client
<1>3. CASE ~Acceptable(p)
  BY <1>2, <1>3, LeaseUnchanged DEF Serve, AgeAfter
<1>4. CASE Acceptable(p)
  <2>1. /\ client_sequences' =
             [client_sequences EXCEPT ![p.src] = <<p.session, p.sequence>>]
        /\ actions' = p.cmd /\ age' = 0
    BY <1>2, <1>4 DEF Serve, AgeAfter
  <2>2. Floor(ADDRESS[p.session], p.session) <= p.sequence
    <3>1. ASSUME client_sequences[p.src] # NoEntry,
                 client_sequences[p.src][1] = p.session
          PROVE  client_sequences[p.src][2] <= p.sequence
      <4>1. client_sequences[p.src] \in Clients \X (0..MAX_PACKETS)
        BY <1>1, <3>1 DEF TypeOK
      <4>2. client_sequences[p.src][2] \in Nat
        BY <4>1, LinkAssumption
      <4>3. ~(p.sequence < client_sequences[p.src][2])
        BY <1>4, <3>1 DEF Acceptable, Stale
      <4> QED
        BY <1>1, <4>2, <4>3
    <3> QED
      BY <1>1, <3>1 DEF Floor
  <2>3. ASSUME NEW c \in Clients
        PROVE  Floor(ADDRESS[c], c)' = IF c = p.session THEN p.sequence ELSE Floor(ADDRESS[c], c)
    <3>1. ADDRESS[c] \in Addresses
      BY LinkAssumption
    <3>2. CASE c = p.session
      <4>1. client_sequences'[ADDRESS[c]] = <<p.session, p.sequence>>
        BY <1>1, <2>1, <3>2 DEF TypeOK
      <4> QED
        BY <3>2, <4>1 DEF Floor, NoEntry
    <3>3. CASE c # p.session
      <4>1. ADDRESS[c] # p.src
        BY <1>1, <3>3 DEF Private
      <4>2. client_sequences'[ADDRESS[c]] = client_sequences[ADDRESS[c]]
        BY <2>1, <3>1, <4>1 DEF TypeOK
      <4> QED
        BY <3>3, <4>2 DEF Floor
    <3> QED
      BY <3>2, <3>3
  <2>4. [c \in Clients |-> Floor(ADDRESS[c], c)]' =
          [[c \in Clients |-> Floor(ADDRESS[c], c)] EXCEPT ![p.session] = p.sequence]
    BY <1>1, <2>3
  <2>5. LeaseLeft' = IF p.cmd = Stop THEN 0 ELSE WATCHDOG + 1
    BY <2>1, ServiceAssumption DEF LeaseLeft
  <2>6. [c \in Clients |-> Floor(ADDRESS[c], c)][p.session] = Floor(ADDRESS[p.session], p.session)
    BY <1>1
  <2>7. UNCHANGED [c \in Clients |-> NextOrder(c)]
    BY <1>2 DEF NextOrder
  <2>8. Leased!Obey(o)
    BY <1>1, <1>2, <2>1, <2>2, <2>4, <2>5, <2>6, <2>7 DEF Leased!Obey
  <2> QED
    BY <1>2, <2>8 DEF Leased!Next
<1> QED
  BY <1>3, <1>4

\* What the service does by itself.
LEMMA ServiceLeases ==
    ASSUME LeaseInv, TypeOK, Watchdog \/ Fail \/ Recover \/ Tick
    PROVE  [Leased!Next]_(Leased!vars)
<1> USE DEF TypeOK
<1>1. CASE Watchdog
  <2>1. /\ actions # Stop /\ age > WATCHDOG /\ actions' = Stop
        /\ UNCHANGED <<sent, sequence, client_sequences, age>>
    BY <1>1 DEF Watchdog, WatchdogExpires, WatchdogDue, history, client
  <2>2. age = WATCHDOG + 1
    BY <2>1, ServiceAssumption
  <2>3. UNCHANGED <<[c \in Clients |-> Floor(ADDRESS[c], c)], [c \in Clients |-> NextOrder(c)]>>
    BY <2>1 DEF Floor, NextOrder
  <2>4. LeaseLeft = 0 /\ LeaseLeft' = 0
    BY <2>1, <2>2, ServiceAssumption DEF LeaseLeft
  <2>5. Leased!Expire
    BY <2>1, <2>3, <2>4 DEF Leased!Expire
  <2> QED
    BY <2>5 DEF Leased!Next
<1>2. CASE Fail
  <2>1. /\ actions' = Stop /\ client_sequences' = NoSequences
        /\ UNCHANGED <<sent, sequence>>
    BY <1>2 DEF Fail, ServiceEnds, client
  <2>2. \A c \in Clients : Floor(ADDRESS[c], c)' = 0
    BY <2>1, LinkAssumption DEF Floor, NoSequences
  <2>3. UNCHANGED [c \in Clients |-> NextOrder(c)] /\ LeaseLeft' = 0
    BY <2>1 DEF NextOrder, LeaseLeft
  <2>4. Leased!Forget
    BY <2>1, <2>2, <2>3 DEF Leased!Forget
  <2> QED
    BY <2>4 DEF Leased!Next
<1>3. CASE Recover
  BY <1>3, LeaseUnchanged DEF Recover, ServiceRestarts, history, client
<1>4. CASE Tick
  <2>1. /\ ~WatchdogDue
        /\ age' = IF age > WATCHDOG THEN age ELSE age + 1
        /\ UNCHANGED <<actions, client_sequences, sent, sequence>>
    BY <1>4 DEF Tick, ServiceTick, history
  <2>2. UNCHANGED <<[c \in Clients |-> Floor(ADDRESS[c], c)], [c \in Clients |-> NextOrder(c)]>>
    BY <2>1 DEF Floor, NextOrder
  <2>3. CASE actions = Stop
    <3>1. Leased!Tick
      BY <2>1, <2>2, <2>3 DEF Leased!Tick, LeaseLeft
    <3> QED
      BY <3>1 DEF Leased!Next
  <2>4. CASE actions # Stop
    <3>1. ~(age > WATCHDOG) /\ age \in Nat /\ WATCHDOG \in Nat
      BY <2>1, <2>4, ServiceAssumption DEF WatchdogDue, LeaseInv
    <3>2. age' = age + 1
      BY <2>1, <3>1
    <3>3. LeaseLeft > 0 /\ LeaseLeft' = LeaseLeft - 1
      BY <2>1, <2>4, <3>1, <3>2 DEF LeaseLeft
    <3>4. Leased!Tick
      BY <2>1, <2>2, <2>4, <3>3 DEF Leased!Tick
    <3> QED
      BY <3>4 DEF Leased!Next
  <2> QED
    BY <2>3, <2>4
<1> QED
  BY <1>1, <1>2, <1>3, <1>4

\* Every step of the link is a step of the leased orders or none of them.
LEMMA NextLeases ==
    ASSUME LeaseInv, TypeOK, \A c \in Clients : Private(c), [Next]_vars
    PROVE  [Leased!Next]_(Leased!vars)
<1>1. ASSUME NEW c \in Clients, SendDrive(c) PROVE [Leased!Next]_(Leased!vars)
  <2>1. /\ phase[c] = "drive"
        /\ sequence' = [sequence EXCEPT ![c] = @ + 1]
        /\ sent' = sent \union {<<c, sequence[c], COMMAND[c]>>}
        /\ UNCHANGED <<client_sequences, actions, age>>
    BY <1>1 DEF SendDrive, Send, service
  <2>2. COMMAND[c] \in Drives \union {Stop, Fractional} /\ COMMAND[c] # Stop
    BY LinkAssumption, ServiceAssumption
  <2> QED
    BY <2>1, <2>2, SendIssues
<1>2. ASSUME NEW c \in Clients, SendStop(c) \/ SendTail(c)
      PROVE  [Leased!Next]_(Leased!vars)
  <2>1. /\ sent' = sent \union {<<c, sequence[c], Stop>>} /\ sequence' = sequence
        /\ UNCHANGED <<client_sequences, actions, age>>
    BY <1>2 DEF SendStop, SendTail, Send, service, client
  <2> QED
    BY <2>1, SendIssues
<1>3. ASSUME NEW c \in Clients,
             \/ BeginStop(c) \/ EndStop(c) \/ ClientDies(c)
             \/ \E r \in replies : Drain(c, r)
      PROVE  [Leased!Next]_(Leased!vars)
  BY <1>3, LeaseUnchanged DEF BeginStop, EndStop, ClientDies, Drain, service,
                              history
<1>4. ASSUME NEW p \in packets, Deliver(p) PROVE [Leased!Next]_(Leased!vars)
  BY <1>4, DeliverObeys
<1>5. CASE Lose
  BY <1>5, LeaseUnchanged DEF Lose, service, client, history
<1>6. CASE Watchdog \/ Fail \/ Recover \/ Tick
  BY <1>6, ServiceLeases
<1>7. CASE UNCHANGED vars
  BY <1>7, LeaseUnchanged DEF vars, service, client, history
<1> QED
  BY <1>1, <1>2, <1>3, <1>4, <1>5, <1>6, <1>7 DEF Next, ClientStep

\* With a socket of its own for every client, the service and the link between
\* them implement numbered orders under a lease: no loss, duplicate, delay or
\* restart makes the base obey an old order or move past the watchdog.
THEOREM LeaseImplemented ==
    ASSUME \A c \in Clients : Private(c)
    PROVE  Spec => LeaseKept
<1>1. Init => Leased!Init
  BY LeaseInit
<1>2. TypeOK /\ LeaseInv /\ [Next]_vars => [Leased!Next]_(Leased!vars)
  BY NextLeases
<1> QED
  BY <1>1, <1>2, LeaseInvariant, PTL DEF Spec, LeaseKept, Leased!Spec
=============================================================================
