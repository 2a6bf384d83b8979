------------------------------ MODULE MotorLink ------------------------------
(***************************************************************************)
(* The motor service of module MotorService and clients that run           *)
(* send_motion (scripts/send_motor_command.py) against it, joined by UDP:  *)
(* packets and replies are lost, overtaken, delayed without bound and, a   *)
(* bounded number of times, duplicated; the service and the clients may    *)
(* die at any moment.                                                      *)
(***************************************************************************)
EXTENDS MotorService, FiniteSets

CONSTANTS
    Clients,
    ADDRESS,        \* client -> the address its socket is bound to
    COMMAND,        \* client -> the command it was started with
    MAX_PACKETS,    \* drive packets that fit into --duration
    STOP_WINDOW,    \* the 0.6 s of the stop loop, in ticks
    MAX_DUPLICATES, MAX_RESTARTS    \* bounds of the environment

ASSUME LinkAssumption ==
    /\ ADDRESS \in [Clients -> Addresses]
    /\ COMMAND \in [Clients -> Drives \union {Fractional}]
    /\ MAX_PACKETS \in Nat /\ STOP_WINDOW \in Nat
    /\ MAX_DUPLICATES \in Nat /\ MAX_RESTARTS \in Nat

VARIABLES
    phase,      \* client -> drive loop, stop loop, the two last sends, over
    sequence,   \* client -> its next sequence number
    stop_left,  \* client -> ticks to stop_deadline
    tail,       \* client -> stop packets still to send after the stop loop
    acked,      \* client -> acknowledged_sequences
    refused,    \* client -> is rejection_errors non-empty?
    packets, replies,       \* in flight
    duplicates, restarts,   \* spent of the two bounds
    mover,      \* history: the client whose command was last accepted
    sent,       \* history: every <<client, sequence, command>> ever sent
    obeyed,     \* history: every <<client, sequence>> ever accepted
    halted      \* history: the clients whose stop this process has accepted

client == <<phase, sequence, stop_left, tail, acked, refused>>
bounds == <<duplicates, restarts>>
served == <<mover, obeyed, halted>>
history == <<sent, served>>
vars == <<service, client, packets, replies, bounds, history>>

Over(c) == phase[c] \in {"done", "dead"}

Packet(c, n, cmd) ==
    [src |-> ADDRESS[c], session |-> c, sequence |-> n, cmd |-> cmd]

\* sendto(encode_command(...)): the packet is in the network's hands.
Send(c, cmd) ==
    /\ packets' = packets \union {Packet(c, sequence[c], cmd)}
    /\ sent' = sent \union {<<c, sequence[c], cmd>>}

\* In the finally clause `sequence' no longer moves: it is stop_sequence.
StopAcknowledged(c) == phase[c] # "drive" /\ sequence[c] \in acked[c]

Init ==
    /\ ServiceInit
    /\ phase = [c \in Clients |-> "drive"]
    /\ sequence = [c \in Clients |-> 0]
    /\ stop_left = [c \in Clients |-> STOP_WINDOW]
    /\ tail = [c \in Clients |-> 2]
    /\ acked = [c \in Clients |-> {}]
    /\ refused = [c \in Clients |-> FALSE]
    /\ packets = {} /\ replies = {}
    /\ duplicates = 0 /\ restarts = 0
    /\ mover \in Clients /\ sent = {} /\ obeyed = {} /\ halted = {}

-----------------------------------------------------------------------------
(* send_motion. *)

\* One turn of `while True': encode and send, then sequence += 1.
SendDrive(c) ==
    /\ phase[c] = "drive"
    /\ sequence[c] < MAX_PACKETS
    /\ Send(c, COMMAND[c])
    /\ sequence' = [sequence EXCEPT ![c] = @ + 1]
    /\ UNCHANGED <<service, phase, stop_left, tail, acked, refused, replies,
                   bounds, served>>

\* The deadline has passed, or the loop was interrupted: finally.
BeginStop(c) ==
    /\ phase[c] = "drive"
    /\ phase' = [phase EXCEPT ![c] = "stop"]
    /\ UNCHANGED <<service, sequence, stop_left, tail, acked, refused, packets,
                   replies, bounds, history>>

\* The stop loop sends the same stop_payload again and again.
SendStop(c) ==
    /\ phase[c] = "stop"
    /\ stop_left[c] > 0 /\ ~StopAcknowledged(c)
    /\ Send(c, Stop)
    /\ UNCHANGED <<service, client, replies, bounds, served>>

\* Acknowledged, or the window is over.
EndStop(c) ==
    /\ phase[c] = "stop"
    /\ stop_left[c] = 0 \/ StopAcknowledged(c)
    /\ phase' = [phase EXCEPT ![c] = "tail"]
    /\ UNCHANGED <<service, sequence, stop_left, tail, acked, refused, packets,
                   replies, bounds, history>>

\* `for _attempt in range(2)', then sock.close() and the return.
SendTail(c) ==
    /\ phase[c] = "tail"
    /\ Send(c, Stop)
    /\ tail' = [tail EXCEPT ![c] = @ - 1]
    /\ phase' = [phase EXCEPT ![c] = IF tail[c] = 1 THEN "done" ELSE "tail"]
    /\ UNCHANGED <<service, sequence, stop_left, acked, refused, replies,
                   bounds, served>>

\* Mutant of Credited: any ok reply of the session credits the last packet.
CreditedLatest(c, r) == IF r.ok THEN acked[c] \union {sequence[c]} ELSE acked[c]

Credited(c, r) == IF r.ok THEN acked[c] \union {r.sequence} ELSE acked[c]

\* drain_acknowledgements takes one reply off the socket.  Replies to another
\* session are read and ignored; after the stop loop nobody reads any more.
Drain(c, r) ==
    /\ phase[c] \in {"drive", "stop"}
    /\ r \in replies /\ r.to = ADDRESS[c]
    /\ replies' = replies \ {r}
    /\ IF r.session = c
       THEN /\ acked' = [acked EXCEPT ![c] = Credited(c, r)]
            /\ refused' = [refused EXCEPT ![c] = @ \/ ~r.ok]
       ELSE UNCHANGED <<acked, refused>>
    /\ UNCHANGED <<service, phase, sequence, stop_left, tail, packets, bounds,
                   history>>

\* The client process is killed, or its sendto raises inside the finally.
ClientDies(c) ==
    /\ ~Over(c)
    /\ phase' = [phase EXCEPT ![c] = "dead"]
    /\ UNCHANGED <<service, sequence, stop_left, tail, acked, refused, packets,
                   replies, bounds, history>>

-----------------------------------------------------------------------------
(* The network and the service. *)

\* The network hands p to the service and may keep a copy for later.
Leaves(p) ==
    \/ packets' = packets \ {p} /\ UNCHANGED duplicates
    \/ /\ duplicates < MAX_DUPLICATES
       /\ duplicates' = duplicates + 1
       /\ UNCHANGED packets

Deliver(p) ==
    /\ p \in packets
    /\ Leaves(p)
    /\ Serve(p)
    /\ replies' = replies \union {Reply(p)}
    /\ IF Acceptable(p)
       THEN /\ mover' = p.session
            /\ obeyed' = obeyed \union {<<p.session, p.sequence>>}
            /\ halted' = IF p.cmd = Stop THEN halted \union {p.session} ELSE halted
       ELSE UNCHANGED served
    /\ UNCHANGED <<client, restarts, sent>>

Lose ==
    /\ \/ /\ \E p \in packets : packets' = packets \ {p}
          /\ UNCHANGED replies
       \/ /\ \E r \in replies : replies' = replies \ {r}
          /\ UNCHANGED packets
    /\ UNCHANGED <<service, client, bounds, history>>

Watchdog == WatchdogExpires /\ UNCHANGED <<client, packets, replies, bounds, history>>

Fail ==
    /\ restarts < MAX_RESTARTS
    /\ ServiceEnds
    /\ restarts' = restarts + 1
    /\ halted' = {}
    /\ UNCHANGED <<client, packets, replies, duplicates, mover, sent, obeyed>>

Recover == ServiceRestarts /\ UNCHANGED <<client, packets, replies, bounds, history>>

Tick ==
    /\ ServiceTick
    /\ stop_left' = [c \in Clients |->
         IF phase[c] = "stop" /\ stop_left[c] > 0
         THEN stop_left[c] - 1 ELSE stop_left[c]]
    /\ UNCHANGED <<phase, sequence, tail, acked, refused, packets, replies,
                   bounds, history>>

ClientStep(c) ==
    \/ SendDrive(c)
    \/ BeginStop(c)
    \/ SendStop(c)
    \/ EndStop(c)
    \/ SendTail(c)

Next ==
    \/ \E c \in Clients :
         \/ ClientStep(c)
         \/ ClientDies(c)
         \/ \E r \in replies : Drain(c, r)
    \/ \E p \in packets : Deliver(p)
    \/ Lose
    \/ Watchdog
    \/ Fail
    \/ Recover
    \/ Tick

Spec == Init /\ [][Next]_vars

\* Sockets do not block and sleeps end, packets do not stay in the network for
\* ever, and the service's loop comes round while its process runs.
Fairness ==
    /\ \A c \in Clients : /\ WF_vars(BeginStop(c))
                          /\ WF_vars(EndStop(c))
                          /\ WF_vars(SendTail(c))
    /\ WF_vars(Lose \/ \E p \in packets : Deliver(p))
    /\ WF_vars(Watchdog)
    /\ WF_vars(Tick)

FairSpec == Spec /\ Fairness

-----------------------------------------------------------------------------
(* Properties. *)

Replies == [to : Addresses, session : Clients, sequence : 0..MAX_PACKETS,
            ok : BOOLEAN]

Packets == {p \in [src : Addresses, session : Clients, sequence : 0..MAX_PACKETS,
                   cmd : Drives \union {Stop, Fractional}] :
              p.src = ADDRESS[p.session]}

TypeOK ==
    /\ up \in BOOLEAN
    /\ actions \in Drives \union {Stop}
    /\ age \in 0..(WATCHDOG + 1)
    /\ client_sequences \in
         [Addresses -> {NoEntry} \union (Clients \X (0..MAX_PACKETS))]
    /\ phase \in [Clients -> {"drive", "stop", "tail", "done", "dead"}]
    /\ sequence \in [Clients -> 0..MAX_PACKETS]
    /\ stop_left \in [Clients -> 0..STOP_WINDOW]
    /\ tail \in [Clients -> 0..2]
    /\ \A c \in Clients : tail[c] = 2 \/ phase[c] \in {"tail", "done", "dead"}
    /\ \A c \in Clients : phase[c] = "tail" => tail[c] > 0
    /\ acked \in [Clients -> SUBSET (0..MAX_PACKETS)]
    /\ refused \in [Clients -> BOOLEAN]
    /\ packets \in SUBSET Packets
    /\ replies \in SUBSET Replies
    /\ duplicates \in 0..MAX_DUPLICATES /\ restarts \in 0..MAX_RESTARTS
    /\ mover \in Clients
    /\ obeyed \in SUBSET (Clients \X (0..MAX_PACKETS))
    /\ halted \in SUBSET Clients

\* A socket of its own: no other client was given the same address.
Private(c) == \A d \in Clients : ADDRESS[d] = ADDRESS[c] => d = c

\* Once this process of the service has accepted a client's stop, no drive
\* packet of that client moves the base any more, however late it arrives and
\* however often: the point of the sequence check and of the stop's number.
HaltedStaysHalted ==
    \A c \in halted : Private(c) => ~(actions # Stop /\ mover = c)

\* An acknowledgement a client counts is of a packet the service has carried
\* out; a reply to a refused packet or to another session never counts.
AckedWasObeyed ==
    \A c \in Clients : \A n \in acked[c] : <<c, n>> \in obeyed

\* What a caller of send_motion relies on: it returned stop_acknowledged, so
\* while the service has not been restarted its command is not in force.
StopAcknowledgedIsFinal ==
    \A c \in Clients :
        Private(c) /\ StopAcknowledged(c) /\ restarts = 0
            => ~(actions # Stop /\ mover = c)

\* The number above those it has used: its stop has the one of its next drive.
NextOrder(c) == IF <<c, sequence[c], Stop>> \in sent THEN sequence[c] + 1 ELSE sequence[c]

Leased == INSTANCE LeasedOrders WITH
            Numbers <- 0..(MAX_PACKETS + 1),
            Drives <- Drives \union {Fractional},
            LEASE <- WATCHDOG + 1,
            book <- sent,
            next <- [c \in Clients |-> NextOrder(c)],
            floor <- [c \in Clients |-> Floor(ADDRESS[c], c)],
            moving <- actions,
            left <- LeaseLeft

\* The service's promise: numbered orders under a lease (module LeasedOrders).
LeaseKept == Leased!Spec

\* Whatever is lost, however the clients end, the base comes to rest.
BaseComesToRest == <>[](actions = Stop)
=============================================================================
