------------------------------ MODULE ImuLink ------------------------------
(***************************************************************************)
(* ImuService of scripts/imu_service.py and the ImuClients of              *)
(* scripts/turn_by_imu.py: subscriptions that run out, requests that are   *)
(* sent again until they are answered, and calibrations that take a while. *)
(*                                                                         *)
(* A yaw angle means something only together with the zero it is measured  *)
(* from: the angle is abstracted to its `frame', which counts the times    *)
(* reset_yaw (or a new estimator) has moved that zero.  Packets between    *)
(* the service and a client are lost but stay in order; times are ticks.   *)
(***************************************************************************)
EXTENDS Integers, Sequences

CONSTANTS
    Clients,
    Pumping,            \* clients that take the stream; imu_monitor can also just ask
    TTL, REFRESH,       \* SUBSCRIPTION_TTL_S, SUBSCRIBE_REFRESH_S
    SECONDS,            \* how long a calibration takes
    TIMEOUT,            \* what request waits, in calibrate on top of SECONDS
    RETRANSMIT,         \* retransmit_interval
    MAX_REQUESTS,       \* bound: requests that are made
    MAX_QUEUE,          \* bound: packets beyond it are lost
    MAX_RESTARTS        \* bound: restarts of the service

ASSUME ImuAssumption ==
    /\ "none" \notin Clients /\ Pumping \subseteq Clients
    /\ TTL \in Nat /\ REFRESH \in Nat \ {0} /\ SECONDS \in Nat \ {0}
    /\ TIMEOUT \in Nat /\ RETRANSMIT \in Nat \ {0}
    /\ MAX_REQUESTS \in Nat /\ MAX_QUEUE \in Nat \ {0} /\ MAX_RESTARTS \in Nat

VARIABLES
    subscribed,     \* client -> ticks since it subscribed, or NoTime
    pending,        \* NoCapture or the capture under way
    frame,          \* which zero the estimator's yaw_deg is measured from
    doing,          \* client -> NoRequest or the request it waits in
    latest,         \* client -> the frame of its last reading, 0 for None
    refresh,        \* client -> ticks until _next_refresh
    open,           \* clients whose socket is open
    up, down,       \* client -> packets to and from the service
    made,           \* how many requests have been made: the last id
    restarts,
    wanted,         \* history: client -> id of the calibrate received last
    capturing,      \* history: ticks the capture of one client has taken
    moved,          \* history: id -> the frames it made
    returned        \* history: client -> id of the request answered last, or 0

estimator == <<pending, frame, capturing, moved>>
client == <<doing, latest, refresh, open, made, returned>>
vars == <<subscribed, estimator, client, up, down, restarts, wanted>>

NoTime == -1
NoCapture == [client |-> "none"]
Capture(c, left, id) == [client |-> c, left |-> left, id |-> id]
NoRequest == [cmd |-> "none"]
Ids == 1..MAX_REQUESTS

\* The id of what is not an answer to a request.
NoId == 0

Init ==
    /\ subscribed = [c \in Clients |-> NoTime]
    /\ pending = NoCapture /\ frame = 1
    /\ doing = [c \in Clients |-> NoRequest]
    /\ latest = [c \in Clients |-> 0]
    /\ refresh = [c \in Clients |-> 0]
    /\ open = Clients
    /\ up = [c \in Clients |-> <<>>] /\ down = [c \in Clients |-> <<>>]
    /\ made = 0 /\ restarts = 0
    /\ wanted = [c \in Clients |-> 0] /\ capturing = 0
    /\ moved = [i \in Ids |-> {}]
    /\ returned = [c \in Clients |-> 0]

\* A packet put at the end of a queue, or lost there.
Put(queue, packet) == IF Len(queue) < MAX_QUEUE THEN Append(queue, packet) ELSE queue

-----------------------------------------------------------------------------
(* The client. *)

SendUp(c, cmd, id) == up' = [up EXCEPT ![c] = Put(@, [cmd |-> cmd, id |-> id])]

Idle(c) == c \in open /\ doing[c] = NoRequest

\* Mutant of Resubscribe: the subscription is made once only.
SubscribeOnce(c) == IF latest[c] = 0 THEN SendUp(c, "subscribe", NoId) ELSE UNCHANGED up

Resubscribe(c) == SendUp(c, "subscribe", NoId)

\* _absorb, for the first n packets that have arrived: the last one that carries
\* a yaw is kept.
Absorb(c, n) ==
    \E last \in 0..n :
        /\ \A i \in last + 1..n : down[c][i].frame = 0
        /\ last # 0 => down[c][last].frame # 0
        /\ latest' = [latest EXCEPT ![c] = IF last = 0 THEN @ ELSE down[c][last].frame]

\* pump: refresh the subscription if that is due, and take what has arrived.
Pump(c) ==
    /\ c \in Pumping /\ Idle(c)
    /\ IF refresh[c] = 0
       THEN Resubscribe(c) /\ refresh' = [refresh EXCEPT ![c] = REFRESH]
       ELSE UNCHANGED <<up, refresh>>
    /\ \E n \in 0..Len(down[c]) :
         /\ Absorb(c, n)
         /\ down' = [down EXCEPT ![c] = SubSeq(@, n + 1, Len(@))]
    /\ UNCHANGED <<subscribed, estimator, doing, open, made, returned, restarts, wanted>>

\* request: the first packet.
Ask(c, cmd) ==
    /\ Idle(c) /\ made < MAX_REQUESTS
    /\ made' = made + 1
    /\ SendUp(c, cmd, made + 1)
    /\ doing' = [doing EXCEPT ![c] =
         [cmd |-> cmd, id |-> made + 1, resend |-> RETRANSMIT,
          left |-> TIMEOUT + IF cmd = "calibrate" THEN SECONDS ELSE 0]]
    /\ UNCHANGED <<subscribed, estimator, latest, refresh, open, returned, down,
                   restarts, wanted>>

\* request: the same packet again.
AskAgain(c) ==
    /\ doing[c] # NoRequest /\ doing[c].left > 0 /\ doing[c].resend = 0
    /\ SendUp(c, doing[c].cmd, doing[c].id)
    /\ doing' = [doing EXCEPT ![c].resend = RETRANSMIT]
    /\ UNCHANGED <<subscribed, estimator, latest, refresh, open, made, returned, down,
                   restarts, wanted>>

\* Mutant of IsReply: any answer is taken for the one it waits for.
AnyReply(c, m) == m.id # NoId

IsReply(c, m) == m.id = doing[c].id

\* request: one packet is taken and absorbed, and returned if it is the reply.
Take(c) ==
    /\ doing[c] # NoRequest /\ doing[c].left > 0 /\ down[c] # <<>>
    /\ LET m == Head(down[c])
       IN  /\ down' = [down EXCEPT ![c] = Tail(@)]
           /\ latest' = [latest EXCEPT ![c] = IF m.frame = 0 THEN @ ELSE m.frame]
           /\ IF IsReply(c, m)
              THEN /\ returned' = IF m.ok THEN [returned EXCEPT ![c] = doing[c].id]
                                  ELSE returned
                   /\ doing' = [doing EXCEPT ![c] = NoRequest]
              ELSE UNCHANGED <<doing, returned>>
    /\ UNCHANGED <<subscribed, estimator, refresh, open, made, up, restarts, wanted>>

\* request: ImuError; the service is not told.
GiveUp(c) ==
    /\ doing[c] # NoRequest /\ doing[c].left = 0
    /\ doing' = [doing EXCEPT ![c] = NoRequest]
    /\ UNCHANGED <<subscribed, estimator, latest, refresh, open, made, returned, up,
                   down, restarts, wanted>>

\* close: one unsubscribe, and the socket is gone with what it had received.
Close(c) ==
    /\ Idle(c)
    /\ open' = open \ {c}
    /\ SendUp(c, "unsubscribe", NoId)
    /\ down' = [down EXCEPT ![c] = <<>>]
    /\ UNCHANGED <<subscribed, estimator, doing, latest, refresh, made, returned,
                   restarts, wanted>>

-----------------------------------------------------------------------------
(* The service. *)

\* state_document, in an answer or a publication.
State(f, id, ok) == [frame |-> f, id |-> id, ok |-> ok]

SendDown(c, m) ==
    down' = IF c \in open THEN [down EXCEPT ![c] = Put(@, m)] ELSE down

ZeroReply(id) == State(frame', id, TRUE)

NewFrame(id) ==
    frame' = frame + 1 /\ moved' = [moved EXCEPT ![id] = @ \union {frame + 1}]

\* Mutant of SameCapture: a duplicate starts the capture again.
RestartCapture(c, id) == pending' = Capture(c, SECONDS, id)

SameCapture(c, id) == pending' = [pending EXCEPT !.id = id]

Calibrate(c, id) ==
    /\ IF pending.client = c
       THEN SameCapture(c, id) /\ UNCHANGED capturing
       ELSE /\ pending' = Capture(c, SECONDS, id)
            /\ capturing' = 0
    /\ wanted' = [wanted EXCEPT ![c] = id]

\* run_service: the packet received next from c is decoded.
Receive(c) == up[c] # <<>> /\ up' = [up EXCEPT ![c] = Tail(@)]

\* handle_command, for that packet.
HandleCommand(c) ==
    /\ Receive(c)
    /\ LET p == Head(up[c])
       IN  \/ /\ p.cmd = "subscribe"
              /\ subscribed' = [subscribed EXCEPT ![c] = 0]
              /\ SendDown(c, State(frame, NoId, TRUE))
              /\ UNCHANGED <<estimator, wanted>>
           \/ /\ p.cmd = "unsubscribe"
              /\ subscribed' = [subscribed EXCEPT ![c] = NoTime]
              /\ SendDown(c, State(0, NoId, TRUE))
              /\ UNCHANGED <<estimator, wanted>>
           \/ /\ p.cmd = "zero"
              /\ NewFrame(p.id)
              /\ SendDown(c, ZeroReply(p.id))
              /\ UNCHANGED <<subscribed, pending, capturing, wanted>>
           \/ /\ p.cmd = "calibrate"
              /\ Calibrate(c, p.id)
              /\ UNCHANGED <<subscribed, frame, moved, down>>
    /\ UNCHANGED <<client, restarts>>

\* finish_calibration: too few samples, a base that was not still, or a bias
\* that is adopted together with a new zero.
FinishCalibration ==
    /\ pending # NoCapture /\ pending.left = 0
    /\ pending' = NoCapture /\ capturing' = 0
    /\ \/ /\ \E f \in {0, frame} : SendDown(pending.client, State(f, pending.id, FALSE))
          /\ UNCHANGED <<frame, moved>>
       \/ /\ NewFrame(pending.id)
          /\ SendDown(pending.client, State(frame', pending.id, TRUE))
    /\ UNCHANGED <<subscribed, client, up, restarts, wanted>>

Expired(c) == subscribed[c] > TTL

\* Mutant of Kept: who has expired is passed over but not deleted.
KeptForever(c) == subscribed[c]

Kept(c) == IF Expired(c) THEN NoTime ELSE subscribed[c]

\* run_service: the state is published to those whose subscription runs.
Publish ==
    /\ \E c \in Clients : subscribed[c] # NoTime
    /\ subscribed' = [c \in Clients |-> Kept(c)]
    /\ down' = [c \in Clients |->
         IF subscribed'[c] # NoTime /\ c \in open
         THEN Put(down[c], State(frame, NoId, TRUE)) ELSE down[c]]
    /\ UNCHANGED <<estimator, client, up, restarts, wanted>>

\* systemd starts the service again: no subscribers, no capture, a yaw of zero.
Restart ==
    /\ restarts < MAX_RESTARTS
    /\ restarts' = restarts + 1
    /\ subscribed' = [c \in Clients |-> NoTime]
    /\ pending' = NoCapture /\ capturing' = 0
    /\ frame' = frame + 1
    /\ UNCHANGED <<client, moved, up, down, wanted>>

-----------------------------------------------------------------------------
(* The network and the clock. *)

Lose ==
    /\ \E c \in Clients :
         \/ /\ up[c] # <<>> /\ up' = [up EXCEPT ![c] = Tail(@)]
            /\ UNCHANGED down
         \/ /\ down[c] # <<>> /\ down' = [down EXCEPT ![c] = Tail(@)]
            /\ UNCHANGED up
    /\ UNCHANGED <<subscribed, estimator, client, restarts, wanted>>

Down(t) == IF t > 0 THEN t - 1 ELSE 0

\* The loops of the service and of a client come round many times in a tick: it
\* does not pass over what is due.
Tick ==
    /\ pending # NoCapture => pending.left > 0
    /\ \A c \in Clients : doing[c] # NoRequest => doing[c].left > 0 /\ doing[c].resend > 0
    /\ subscribed' = [c \in Clients |->
         IF subscribed[c] = NoTime \/ Expired(c) THEN subscribed[c] ELSE subscribed[c] + 1]
    /\ pending' = IF pending = NoCapture THEN pending
                  ELSE [pending EXCEPT !.left = @ - 1]
    /\ capturing' = IF pending = NoCapture THEN 0 ELSE capturing + 1
    /\ refresh' = [c \in Clients |-> Down(refresh[c])]
    /\ doing' = [c \in Clients |->
         IF doing[c] = NoRequest THEN NoRequest
         ELSE [doing[c] EXCEPT !.left = @ - 1, !.resend = @ - 1]]
    /\ UNCHANGED <<frame, moved, latest, open, made, returned, up, down, restarts, wanted>>

ClientStep(c) ==
    \/ Pump(c)
    \/ \E cmd \in {"calibrate", "zero"} : Ask(c, cmd)
    \/ AskAgain(c)
    \/ Take(c)
    \/ GiveUp(c)
    \/ Close(c)

Next ==
    \/ \E c \in Clients : ClientStep(c) \/ HandleCommand(c)
    \/ FinishCalibration
    \/ Publish
    \/ Restart
    \/ Lose
    \/ Tick

Spec == Init /\ [][Next]_vars

\* Both loops go round, the clock runs, a client goes on pumping when it has
\* nothing to ask, and what is sent again and again arrives now and then.
FairSpec ==
    /\ Spec
    /\ WF_vars(Tick) /\ WF_vars(Publish) /\ WF_vars(FinishCalibration)
    /\ \A c \in Clients :
         /\ WF_vars(Pump(c)) /\ WF_vars(AskAgain(c)) /\ WF_vars(GiveUp(c))
         /\ SF_vars(HandleCommand(c))

-----------------------------------------------------------------------------
(* Properties. *)

\* What a request returns is the answer to that request: it has been carried
\* out, and the angle the client has is measured from the zero it made, or from
\* a later one.
AnswerIsOwn ==
    \A c \in Clients : returned[c] # 0 =>
        \E f \in moved[returned[c]] : f <= latest[c]

\* A client that sends its calibrate again and again does not keep the capture
\* from ending ("a client that retransmits never finishes").
CaptureEnds == pending # NoCapture => capturing + pending.left = SECONDS

\* The capture is answered with the id its client sent last, so that a client
\* that gave up and asks again gets the answer.
CaptureAnswersLast == pending # NoCapture => pending.id = wanted[pending.client]

\* Both: a capture neither starts anew nor is answered under an id of before.
CaptureIsKept == CaptureEnds /\ CaptureAnswersLast

\* A client that goes on pumping is subscribed again and again, after lost
\* packets, restarts of the service and requests that took longer than the TTL.
StreamComesBack ==
    \A c \in Pumping : <>[]Idle(c) => []<>(subscribed[c] # NoTime)

\* A client that closed is dropped, also when its unsubscribe is lost.
ClosedIsDropped == \A c \in Clients : c \notin open ~> [](subscribed[c] = NoTime)
=============================================================================
