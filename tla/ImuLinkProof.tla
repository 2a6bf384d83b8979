---------------------------- MODULE ImuLinkProof ----------------------------
(***************************************************************************)
(* Calibrations and answers of module ImuLink, for any number of clients:  *)
(* repeating a calibrate never prolongs the capture, and the capture is    *)
(* answered under the id its client sent last, however the captures of     *)
(* different clients replace one another; what a client takes for the      *)
(* answer to a request is measured from a zero that request made, or from  *)
(* a later one.                                                            *)
(***************************************************************************)
EXTENDS ImuLink, SequenceTheorems, TLAPS

\* The capture under way is of a client and has not gone on for too long.
PendingShape ==
    pending # NoCapture =>
        /\ pending = Capture(pending.client, pending.left, pending.id)
        /\ pending.client \in Clients
        /\ pending.left \in 0..SECONDS

\* CaptureEnds and CaptureAnswersLast with the little typing they rest on.
CaptureInv ==
    /\ PendingShape
    /\ capturing \in Nat
    /\ wanted = [c \in Clients |-> wanted[c]]
    /\ CaptureEnds
    /\ CaptureAnswersLast

captures == <<pending, capturing, wanted>>

\* A capture is not the absence of one, and has the fields it is made of.
LEMMA CaptureFields ==
    ASSUME NEW c \in Clients, NEW left, NEW id
    PROVE  /\ Capture(c, left, id) # NoCapture
           /\ Capture(c, left, id).client = c
           /\ Capture(c, left, id).left = left
           /\ Capture(c, left, id).id = id
<1>1. c # "none"
  BY ImuAssumption
<1>2. Capture(c, left, id).client = c /\ NoCapture.client = "none"
  BY DEF Capture, NoCapture
<1> QED
  BY <1>1, <1>2 DEF Capture

\* Without a calibration the invariant rests on variables that do not change.
LEMMA CaptureStutter == CaptureInv /\ UNCHANGED captures => CaptureInv'
  BY DEF CaptureInv, captures, PendingShape, CaptureEnds, CaptureAnswersLast

\* A calibrate of c under the number id: Calibrate keeps the invariant whether
\* the capture is new, replaces one of another client, or is the same again.
LEMMA CalibrateKeeps ==
    ASSUME CaptureInv, NEW c \in Clients, NEW id, Calibrate(c, id)
    PROVE  CaptureInv'
<1>1. wanted' = [wanted EXCEPT ![c] = id]
  BY DEF Calibrate
<1>2. wanted'[c] = id /\ wanted' = [d \in Clients |-> wanted'[d]]
  BY <1>1 DEF CaptureInv
<1>3. pending'.client = c /\ pending'.id = id /\ pending' # NoCapture
      /\ pending'.left \in 0..SECONDS
      /\ pending' = Capture(pending'.client, pending'.left, pending'.id)
      /\ capturing' \in Nat /\ capturing' + pending'.left = SECONDS
  <2>1. CASE pending.client = c
    <3>1. pending # NoCapture
      BY <2>1, ImuAssumption DEF NoCapture
    <3>2. pending = Capture(c, pending.left, pending.id) /\ pending.left \in 0..SECONDS
          /\ capturing + pending.left = SECONDS /\ capturing \in Nat
      BY <2>1, <3>1 DEF CaptureInv, PendingShape, CaptureEnds
    <3>3. pending' = Capture(c, pending.left, id) /\ capturing' = capturing
      BY <2>1, <3>2 DEF Calibrate, SameCapture, Capture
    <3> QED
      BY <3>2, <3>3, CaptureFields
  <2>2. CASE pending.client # c
    <3>1. pending' = Capture(c, SECONDS, id) /\ capturing' = 0
      BY <2>2 DEF Calibrate
    <3>2. SECONDS \in Nat
      BY ImuAssumption
    <3> QED
      BY <3>1, <3>2, CaptureFields
  <2> QED
    BY <2>1, <2>2
<1> QED
  BY <1>2, <1>3 DEF CaptureInv, PendingShape, CaptureEnds, CaptureAnswersLast

\* A capture that ends, or is lost with the service, leaves nothing to answer.
LEMMA NoCaptureKeeps ==
    ASSUME CaptureInv, pending' = NoCapture, capturing' = 0, UNCHANGED wanted
    PROVE  CaptureInv'
  BY DEF CaptureInv, PendingShape, CaptureEnds, CaptureAnswersLast

\* A tick of the clock takes from what is left what it adds to the capture.
LEMMA TickKeeps ==
    ASSUME CaptureInv, Tick
    PROVE  CaptureInv'
<1>1. CASE pending = NoCapture
  BY <1>1, NoCaptureKeeps DEF Tick
<1>2. CASE pending # NoCapture
  <2>1. pending = Capture(pending.client, pending.left, pending.id)
        /\ pending.client \in Clients /\ pending.left \in 0..SECONDS
        /\ capturing + pending.left = SECONDS /\ capturing \in Nat
        /\ pending.id = wanted[pending.client]
    BY <1>2 DEF CaptureInv, PendingShape, CaptureEnds, CaptureAnswersLast
  <2>2. pending' = [pending EXCEPT !.left = @ - 1] /\ capturing' = capturing + 1
        /\ pending.left > 0 /\ wanted' = wanted
    BY <1>2 DEF Tick
  <2>3. pending' = Capture(pending.client, pending.left - 1, pending.id)
    BY <2>1, <2>2 DEF Capture
  <2>4. pending'.client = pending.client /\ pending'.left = pending.left - 1
        /\ pending'.id = pending.id /\ pending' # NoCapture
    BY <2>1, <2>3, CaptureFields
  <2>5. SECONDS \in Nat
    BY ImuAssumption
  <2>6. pending'.left \in 0..SECONDS /\ capturing' \in Nat
        /\ capturing' + pending'.left = SECONDS
    BY <2>1, <2>2, <2>4, <2>5
  <2> QED
    BY <2>1, <2>2, <2>3, <2>4, <2>6
    DEF CaptureInv, PendingShape, CaptureEnds, CaptureAnswersLast
<1> QED
  BY <1>1, <1>2

LEMMA CaptureInit == Init => CaptureInv
  BY DEF Init, CaptureInv, PendingShape, CaptureEnds, CaptureAnswersLast

LEMMA CaptureStep == CaptureInv /\ [Next]_vars => CaptureInv'
<1> SUFFICES ASSUME CaptureInv, [Next]_vars
             PROVE  CaptureInv'
  OBVIOUS
<1>1. ASSUME NEW c \in Clients, ClientStep(c)
      PROVE  CaptureInv'
  <2>1. UNCHANGED captures
    BY <1>1 DEF ClientStep, Pump, Ask, AskAgain, Take, GiveUp, Close, estimator, captures
  <2> QED
    BY <2>1, CaptureStutter
<1>2. ASSUME NEW c \in Clients, HandleCommand(c)
      PROVE  CaptureInv'
  <2>1. CASE Calibrate(c, Head(up[c]).id)
    BY <2>1, CalibrateKeeps
  <2>2. CASE UNCHANGED captures
    BY <2>2, CaptureStutter
  <2> QED
    BY <1>2, <2>1, <2>2 DEF HandleCommand, estimator, captures
<1>3. CASE FinishCalibration
  BY <1>3, NoCaptureKeeps DEF FinishCalibration
<1>4. CASE Publish
  BY <1>4, CaptureStutter DEF Publish, estimator, captures
<1>5. CASE Restart
  BY <1>5, NoCaptureKeeps DEF Restart
<1>6. CASE Lose
  BY <1>6, CaptureStutter DEF Lose, estimator, captures
<1>7. CASE Tick
  BY <1>7, TickKeeps
<1>8. CASE UNCHANGED vars
  BY <1>8, CaptureStutter DEF vars, estimator, captures
<1> QED
  BY <1>1, <1>2, <1>3, <1>4, <1>5, <1>6, <1>7, <1>8 DEF Next

LEMMA CaptureAlways == Spec => []CaptureInv
  BY CaptureInit, CaptureStep, PTL DEF Spec

\* However often and by whomever a calibrate is sent again (ImuClient.request
\* and handle_command), a capture that nobody replaces lasts its SECONDS.
THEOREM RepeatsDoNotProlong == Spec => []CaptureEnds
<1>1. CaptureInv => CaptureEnds
  BY DEF CaptureInv
<1> QED
  BY <1>1, CaptureAlways, PTL

\* The answer finish_calibration sends goes to the client the capture is of, and
\* under the id that client sent last.
THEOREM AnswersTheLast == Spec => []CaptureAnswersLast
<1>1. CaptureInv => CaptureAnswersLast
  BY DEF CaptureInv
<1> QED
  BY <1>1, CaptureAlways, PTL

\* Both: repeats neither prolong a capture nor lose its answer.
THEOREM CaptureKept == Spec => []CaptureIsKept
  BY RepeatsDoNotProlong, AnswersTheLast, PTL DEF CaptureIsKept

-----------------------------------------------------------------------------
(* Answers: queues of them, in the order in which the zeroes were made. *)

Asks == [cmd : {"subscribe", "unsubscribe"}, id : {NoId}]
          \cup [cmd : {"zero", "calibrate"}, id : Ids]

Answers == [frame : Nat, id : 0..MAX_REQUESTS, ok : BOOLEAN]

Requests == [cmd : {"zero", "calibrate"}, id : Ids, resend : Nat, left : Nat]

\* A packet of before frame f: one that answers a request carries a zero it made.
Carries(m, f, zeros) ==
    /\ m.frame <= f
    /\ m.id # NoId /\ m.ok => m.frame # 0 /\ m.frame \in zeros[m.id]

\* The packets of a queue follow the reading of zero low, and one another.
InOrder(q, low, f, zeros) ==
    /\ \A i \in 1..Len(q) : Carries(q[i], f, zeros) /\ (q[i].frame # 0 => low <= q[i].frame)
    /\ \A i, j \in 1..Len(q) :
         i < j /\ q[i].frame # 0 /\ q[j].frame # 0 => q[i].frame <= q[j].frame

Zeros == [Ids -> SUBSET Nat]

\* A queue stays in order when zeroes are made,
LEMMA LaterInOrder ==
    ASSUME NEW q \in Seq(Answers), NEW low \in Nat, NEW f \in Nat, NEW g \in Nat,
           NEW zeros \in Zeros, NEW more \in Zeros,
           f <= g, \A i \in Ids : zeros[i] \subseteq more[i],
           InOrder(q, low, f, zeros)
    PROVE  InOrder(q, low, g, more)
<1>1. ASSUME NEW i \in 1..Len(q) PROVE Carries(q[i], g, more)
  <2>1. q[i] \in Answers
    BY ElementOfSeq
  <2>2. Carries(q[i], f, zeros)
    BY DEF InOrder
  <2>3. q[i].frame <= g
    BY <2>1, <2>2 DEF Carries, Answers
  <2>4. q[i].id # NoId => q[i].id \in Ids
    BY <2>1, ImuAssumption DEF Answers, NoId, Ids
  <2> QED
    BY <2>2, <2>3, <2>4 DEF Carries
<1> QED
  BY <1>1 DEF InOrder

\* when a packet is put to its end that carries no zero of before,
LEMMA PutInOrder ==
    ASSUME NEW q \in Seq(Answers), NEW m \in Answers, NEW low \in Nat, NEW f \in Nat,
           NEW zeros \in Zeros, InOrder(q, low, f, zeros), low <= f,
           m.frame \in {0, f}, Carries(m, f, zeros)
    PROVE  /\ Put(q, m) \in Seq(Answers)
           /\ InOrder(Put(q, m), low, f, zeros)
<1>1. CASE Len(q) >= MAX_QUEUE
  <2>1. Put(q, m) = q
    BY <1>1, ImuAssumption, LenProperties DEF Put
  <2> QED
    BY <2>1
<1>2. CASE Len(q) < MAX_QUEUE
  <2> DEFINE r == Append(q, m)
  <2>1. Put(q, m) = r
    BY <1>2 DEF Put
  <2>2. /\ r \in Seq(Answers) /\ Len(r) = Len(q) + 1 /\ r[Len(q) + 1] = m
        /\ \A i \in 1..Len(q) : r[i] = q[i]
    BY AppendProperties
  <2>3. Len(q) \in Nat
    BY LenProperties
  <2> HIDE DEF r
  <2>4. \A i \in 1..Len(r) : i \in 1..Len(q) \/ i = Len(q) + 1
    BY <2>2, <2>3
  <2>5. \A i \in 1..Len(r) : Carries(r[i], f, zeros) /\ (r[i].frame # 0 => low <= r[i].frame)
    BY <2>2, <2>4 DEF InOrder
  <2>6. ASSUME NEW i \in 1..Len(r), NEW j \in 1..Len(r), i < j,
               r[i].frame # 0, r[j].frame # 0
        PROVE  r[i].frame <= r[j].frame
    <3>1. i \in 1..Len(q)
      BY <2>2, <2>3, <2>6
    <3>2. CASE j \in 1..Len(q)
      BY <2>2, <2>6, <3>1, <3>2 DEF InOrder
    <3>3. CASE j = Len(q) + 1
      <4>1. r[j].frame = f
        BY <2>2, <2>6, <3>3
      <4>2. r[i].frame <= f
        BY <2>5 DEF Carries
      <4> QED
        BY <4>1, <4>2
    <3> QED
      BY <2>4, <3>2, <3>3
  <2> QED
    BY <2>1, <2>2, <2>5, <2>6 DEF InOrder
<1> QED
  BY <1>1, <1>2, ImuAssumption, LenProperties

\* and when its first packets are taken, to the last one that carries a yaw.
LEMMA DropInOrder ==
    ASSUME NEW q \in Seq(Answers), NEW low \in Nat, NEW f \in Nat, NEW zeros \in Zeros,
           InOrder(q, low, f, zeros), low <= f,
           NEW n \in 0..Len(q), NEW last \in 0..n,
           last # 0 => q[last].frame # 0
    PROVE  LET now == IF last = 0 THEN low ELSE q[last].frame
               rest == SubSeq(q, n + 1, Len(q))
           IN  /\ now \in Nat /\ low <= now /\ now <= f
               /\ rest \in Seq(Answers)
               /\ InOrder(rest, now, f, zeros)
<1> DEFINE now == IF last = 0 THEN low ELSE q[last].frame
           rest == SubSeq(q, n + 1, Len(q))
<1>1. Len(q) \in Nat /\ n \in Nat /\ last \in Nat /\ n <= Len(q) /\ last <= n
  BY LenProperties
<1>2. /\ rest \in Seq(Answers) /\ Len(rest) = Len(q) - n
      /\ \A i \in 1..Len(rest) : rest[i] = q[n + i]
  <2>1. \A i \in n + 1..Len(q) : q[i] \in Answers
    BY <1>1, ElementOfSeq
  <2>2. /\ SubSeq(q, n + 1, Len(q)) \in Seq(Answers)
        /\ Len(SubSeq(q, n + 1, Len(q)))
             = IF n + 1 <= Len(q) THEN Len(q) - (n + 1) + 1 ELSE 0
        /\ \A i \in 1..Len(q) - (n + 1) + 1 :
             SubSeq(q, n + 1, Len(q))[i] = q[n + 1 + i - 1]
    BY <1>1, <2>1, SubSeqProperties
  <2> HIDE DEF rest
  <2>3. \A i \in 1..Len(q) - n : n + 1 + i - 1 = n + i
    BY <1>1
  <2>4. Len(q) - (n + 1) + 1 = Len(q) - n
    BY <1>1
  <2> QED
    BY <1>1, <2>2, <2>3, <2>4 DEF rest
<1> HIDE DEF rest
<1>3. \A i \in 1..Len(rest) : n + i \in 1..Len(q) /\ (last # 0 => last < n + i)
  BY <1>1, <1>2
<1>4. /\ now \in Nat /\ low <= now /\ now <= f
  <2>1. CASE last # 0
    <3>1. last \in 1..Len(q) /\ q[last] \in Answers
      BY <1>1, <2>1, ElementOfSeq
    <3> QED
      BY <2>1, <3>1 DEF InOrder, Carries, Answers
  <2> QED
    BY <2>1
<1>5. \A i \in 1..Len(rest) : rest[i].frame # 0 => now <= rest[i].frame
  <2> SUFFICES ASSUME NEW i \in 1..Len(rest), rest[i].frame # 0 PROVE now <= rest[i].frame
    OBVIOUS
  <2>1. n + i \in 1..Len(q) /\ rest[i] = q[n + i] /\ (last # 0 => last < n + i)
    BY <1>2, <1>3
  <2>2. CASE last = 0
    BY <2>1, <2>2 DEF InOrder
  <2>3. CASE last # 0
    <3>1. last \in 1..Len(q)
      BY <1>1, <2>3
    <3> QED
      BY <2>1, <2>3, <3>1 DEF InOrder
  <2> QED
    BY <2>2, <2>3
<1>6. \A i \in 1..Len(rest) : Carries(rest[i], f, zeros)
  BY <1>2, <1>3 DEF InOrder
<1>7. ASSUME NEW i \in 1..Len(rest), NEW j \in 1..Len(rest), i < j,
             rest[i].frame # 0, rest[j].frame # 0
      PROVE  rest[i].frame <= rest[j].frame
  <2>1. n + i \in 1..Len(q) /\ n + j \in 1..Len(q) /\ n + i < n + j
    BY <1>1, <1>3, <1>7
  <2> QED
    BY <1>2, <1>7, <2>1 DEF InOrder
<1> QED
  BY <1>2, <1>4, <1>5, <1>6, <1>7 DEF InOrder, rest

-----------------------------------------------------------------------------
(* Answers: what a client has, and what is under way to it. *)

AnswerTypes ==
    /\ frame \in Nat /\ moved \in Zeros /\ made \in 0..MAX_REQUESTS
    /\ up \in [Clients -> Seq(Asks)] /\ down \in [Clients -> Seq(Answers)]
    /\ doing \in [Clients -> {NoRequest} \cup Requests]
    /\ latest \in [Clients -> Nat] /\ returned \in [Clients -> 0..MAX_REQUESTS]

\* AnswerIsOwn, and what keeps it so: the zeroes that are told to a client come
\* in the order in which they were made.
AnswerInv ==
    /\ AnswerTypes
    /\ pending # NoCapture => pending.id \in Ids
    /\ \A c \in Clients : latest[c] <= frame /\ InOrder(down[c], latest[c], frame, moved)
    /\ AnswerIsOwn

answers == <<frame, moved, made, up, down, doing, latest, returned, pending>>

LEMMA AnswerStutter == AnswerInv /\ UNCHANGED answers => AnswerInv'
  BY DEF AnswerInv, AnswerTypes, AnswerIsOwn, answers

LEMMA AnswerInit == Init => AnswerInv
<1> SUFFICES ASSUME Init PROVE AnswerInv
  OBVIOUS
<1>1. AnswerTypes
  BY ImuAssumption, EmptySeq DEF Init, AnswerTypes, Zeros
<1>2. \A c \in Clients : latest[c] <= frame /\ InOrder(down[c], latest[c], frame, moved)
  <2> SUFFICES ASSUME NEW c \in Clients
               PROVE  latest[c] <= frame /\ InOrder(down[c], latest[c], frame, moved)
    OBVIOUS
  <2>1. down[c] = <<>> /\ latest[c] = 0 /\ frame = 1
    BY DEF Init
  <2>2. 1..Len(down[c]) = {}
    BY <2>1
  <2> QED
    BY <2>1, <2>2 DEF InOrder
<1> QED
  BY <1>1, <1>2 DEF Init, AnswerInv, AnswerIsOwn

LEMMA IdsAreNumbers == \A i \in Ids : i \in 0..MAX_REQUESTS /\ i # NoId
BY ImuAssumption DEF Ids, NoId

\* What is sent to the service.
LEMMA SendUpTyped ==
    ASSUME AnswerTypes, NEW c \in Clients, NEW cmd, NEW id,
           [cmd |-> cmd, id |-> id] \in Asks, SendUp(c, cmd, id)
    PROVE  up' \in [Clients -> Seq(Asks)]
<1>1. Put(up[c], [cmd |-> cmd, id |-> id]) \in Seq(Asks)
  BY AppendProperties DEF Put, AnswerTypes
<1> QED
  BY <1>1 DEF SendUp, AnswerTypes

\* A client that asks, asks again, gives up or closes learns nothing, and loses
\* at most what was under way to it.
LEMMA AsksKeep ==
    ASSUME AnswerInv, UNCHANGED <<pending, frame, moved, latest, returned>>,
           made' \in 0..MAX_REQUESTS, up' \in [Clients -> Seq(Asks)],
           doing' \in [Clients -> {NoRequest} \cup Requests],
           down' = down \/ \E c \in Clients : down' = [down EXCEPT ![c] = <<>>]
    PROVE  AnswerInv'
<1>1. down' \in [Clients -> Seq(Answers)]
  BY EmptySeq DEF AnswerInv, AnswerTypes
<1>2. AnswerTypes'
  BY <1>1 DEF AnswerInv, AnswerTypes
<1>3. ASSUME NEW c \in Clients
      PROVE  latest'[c] <= frame' /\ InOrder(down'[c], latest'[c], frame', moved')
  <2>1. down'[c] = down[c] \/ down'[c] = <<>>
    BY DEF AnswerInv, AnswerTypes
  <2>2. CASE down'[c] = down[c]
    BY <2>2 DEF AnswerInv
  <2>3. CASE down'[c] = <<>>
    <3>1. Len(down'[c]) = 0
      BY <2>3
    <3> QED
      BY <3>1 DEF AnswerInv, InOrder
  <2> QED
    BY <2>1, <2>2, <2>3
<1> QED
  BY <1>2, <1>3 DEF AnswerInv, AnswerIsOwn

\* A client that takes the first packets of its queue, up to one it returns for
\* the request it waits in, or none.
LEMMA TakesKeep ==
    ASSUME AnswerInv, UNCHANGED <<pending, frame, moved, made>>,
           up' \in [Clients -> Seq(Asks)],
           doing' \in [Clients -> {NoRequest} \cup Requests],
           NEW c \in Clients, NEW n \in 0..Len(down[c]), NEW last \in 0..n,
           last # 0 => down[c][last].frame # 0,
           down' = [down EXCEPT ![c] = SubSeq(@, n + 1, Len(@))],
           latest' = [latest EXCEPT ![c] = IF last = 0 THEN @ ELSE down[c][last].frame],
           \/ returned' = returned
           \/ /\ last # 0 /\ down[c][last].ok /\ down[c][last].id \in Ids
              /\ returned' = [returned EXCEPT ![c] = down[c][last].id]
    PROVE  AnswerInv'
<1> DEFINE now == IF last = 0 THEN latest[c] ELSE down[c][last].frame
           rest == SubSeq(down[c], n + 1, Len(down[c]))
<1>0. /\ frame \in Nat /\ moved \in Zeros /\ down[c] \in Seq(Answers) /\ latest[c] \in Nat
      /\ latest[c] <= frame /\ InOrder(down[c], latest[c], frame, moved)
  BY DEF AnswerInv, AnswerTypes
<1>1. /\ now \in Nat /\ latest[c] <= now /\ now <= frame
      /\ rest \in Seq(Answers) /\ InOrder(rest, now, frame, moved)
  BY <1>0, DropInOrder
<1>2. /\ down' = [down EXCEPT ![c] = rest] /\ latest' = [latest EXCEPT ![c] = now]
  BY DEF AnswerInv, AnswerTypes
<1> HIDE DEF now, rest
<1>3. AnswerTypes'
  <2>1. returned \in [Clients -> 0..MAX_REQUESTS]
    BY DEF AnswerInv, AnswerTypes
  <2>2. returned' \in [Clients -> 0..MAX_REQUESTS]
    BY <2>1, IdsAreNumbers
  <2>3. down' \in [Clients -> Seq(Answers)] /\ latest' \in [Clients -> Nat]
    BY <1>1, <1>2 DEF AnswerInv, AnswerTypes
  <2> QED
    BY <2>2, <2>3 DEF AnswerInv, AnswerTypes
<1>4. \A d \in Clients : latest'[d] <= frame' /\ InOrder(down'[d], latest'[d], frame', moved')
  BY <1>1, <1>2 DEF AnswerInv, AnswerTypes
<1>5. ASSUME NEW d \in Clients, returned'[d] # 0
      PROVE  \E f \in moved'[returned'[d]] : f <= latest'[d]
  <2>1. CASE returned'[d] = returned[d]
    <3>1. PICK f \in moved[returned[d]] : f <= latest[d]
      BY <1>5, <2>1 DEF AnswerInv, AnswerIsOwn
    <3>2. returned[d] \in Ids
      BY <1>5, <2>1, ImuAssumption DEF AnswerInv, AnswerTypes, Ids
    <3>3. f \in Nat
      BY <1>0, <3>1, <3>2 DEF Zeros
    <3>4. latest \in [Clients -> Nat]
      BY DEF AnswerInv, AnswerTypes
    <3>5. latest'[d] = IF d = c THEN now ELSE latest[d]
      BY <1>2, <3>4
    <3>6. latest[d] \in Nat /\ latest'[d] \in Nat /\ latest[d] <= latest'[d]
      BY <1>1, <3>4, <3>5
    <3> QED
      BY <2>1, <3>1, <3>3, <3>6
  <2>2. CASE returned'[d] # returned[d]
    <3>1. /\ d = c /\ last # 0 /\ down[c][last].ok /\ returned'[c] = down[c][last].id
          /\ down[c][last].id \in Ids
      BY <2>2 DEF AnswerInv, AnswerTypes
    <3>2. last \in 1..Len(down[c])
      BY <1>0, <3>1, LenProperties
    <3>3. Carries(down[c][last], frame, moved)
      BY <1>0, <3>2 DEF InOrder
    <3>4. down[c][last].frame \in moved[down[c][last].id]
      BY <3>1, <3>3 DEF Carries, NoId, Ids
    <3>5. latest'[c] = down[c][last].frame /\ latest'[c] \in Nat
      BY <1>1, <1>2, <3>1 DEF now, AnswerInv, AnswerTypes
    <3> QED
      BY <3>1, <3>4, <3>5
  <2> QED
    BY <2>1, <2>2
<1> QED
  BY <1>3, <1>4, <1>5 DEF AnswerInv, AnswerIsOwn

\* The service: each client is sent at most one packet, which tells of the zero
\* of now, when that is the last of those it has made.
LEMMA TellsKeep ==
    ASSUME AnswerInv, UNCHANGED <<made, doing, latest, returned>>,
           up' \in [Clients -> Seq(Asks)], frame' \in Nat, frame <= frame',
           moved' \in Zeros, \A i \in Ids : moved[i] \subseteq moved'[i],
           pending' # NoCapture => pending'.id \in Ids,
           NEW to \in [Clients -> Answers],
           \A c \in Clients : to[c].frame \in {0, frame'} /\ Carries(to[c], frame', moved'),
           down' \in [Clients -> Seq(Answers)],
           \A c \in Clients : down'[c] \in {down[c], Put(down[c], to[c])}
    PROVE  AnswerInv'
<1>1. AnswerTypes'
  BY DEF AnswerInv, AnswerTypes
<1>2. ASSUME NEW c \in Clients
      PROVE  latest'[c] <= frame' /\ InOrder(down'[c], latest'[c], frame', moved')
  <2>1. /\ frame \in Nat /\ moved \in Zeros /\ down[c] \in Seq(Answers) /\ latest[c] \in Nat
        /\ latest[c] <= frame /\ InOrder(down[c], latest[c], frame, moved)
    BY DEF AnswerInv, AnswerTypes
  <2>2. latest'[c] = latest[c] /\ latest[c] <= frame'
    BY <2>1
  <2>3. InOrder(down[c], latest[c], frame', moved')
    BY <2>1, LaterInOrder
  <2>4. InOrder(Put(down[c], to[c]), latest[c], frame', moved')
    BY <2>1, <2>2, <2>3, PutInOrder
  <2> QED
    BY <2>2, <2>3, <2>4
<1>3. AnswerIsOwn'
  <2> SUFFICES ASSUME NEW c \in Clients, returned[c] # 0
               PROVE  \E f \in moved'[returned[c]] : f <= latest[c]
    BY DEF AnswerIsOwn
  <2>1. returned[c] \in Ids
    BY ImuAssumption DEF AnswerInv, AnswerTypes, Ids
  <2> QED
    BY <2>1 DEF AnswerInv, AnswerIsOwn
<1> QED
  BY <1>1, <1>2, <1>3 DEF AnswerInv

\* One client is answered, or none.
LEMMA AnswersKeep ==
    ASSUME AnswerInv, UNCHANGED <<made, doing, latest, returned>>,
           up' \in [Clients -> Seq(Asks)], frame' \in Nat, frame <= frame',
           moved' \in Zeros, \A i \in Ids : moved[i] \subseteq moved'[i],
           pending' # NoCapture => pending'.id \in Ids,
           NEW c \in Clients, NEW m \in Answers, m.frame \in {0, frame'},
           Carries(m, frame', moved'),
           down' = down \/ SendDown(c, m)
    PROVE  AnswerInv'
<1> DEFINE to == [d \in Clients |-> m]
<1>1. to \in [Clients -> Answers]
  OBVIOUS
<1>2. down' = down \/ down' = [down EXCEPT ![c] = Put(down[c], m)]
  BY DEF SendDown, AnswerInv, AnswerTypes
<1>3. /\ down' \in [Clients -> Seq(Answers)]
      /\ \A d \in Clients : down'[d] \in {down[d], Put(down[d], m)}
  <2>1. down[c] \in Seq(Answers) /\ down \in [Clients -> Seq(Answers)]
    BY DEF AnswerInv, AnswerTypes
  <2>2. Put(down[c], m) \in Seq(Answers)
    BY <2>1, AppendProperties DEF Put
  <2> QED
    BY <1>2, <2>1, <2>2
<1>4. \A d \in Clients : /\ to[d].frame \in {0, frame'} /\ Carries(to[d], frame', moved')
                         /\ down'[d] \in {down[d], Put(down[d], to[d])}
  BY <1>3
<1> HIDE DEF to
<1> QED
  BY <1>1, <1>3, <1>4, TellsKeep

\* What reset_yaw makes of the zeroes.
LEMMA FrameMoves ==
    ASSUME AnswerTypes, NEW id \in Ids, NewFrame(id)
    PROVE  /\ frame' \in Nat /\ frame <= frame' /\ frame' # 0
           /\ moved' \in Zeros /\ \A i \in Ids : moved[i] \subseteq moved'[i]
           /\ frame' \in moved'[id]
<1>1. frame + 1 \in Nat /\ frame <= frame + 1 /\ frame + 1 # 0
  BY DEF AnswerTypes
<1>2. moved \in Zeros /\ frame' = frame + 1
      /\ moved' = [moved EXCEPT ![id] = @ \cup {frame + 1}]
  BY DEF AnswerTypes, NewFrame
<1>3. moved' \in Zeros /\ \A i \in Ids : moved[i] \subseteq moved'[i]
  BY <1>1, <1>2 DEF Zeros
<1>4. frame' \in moved'[id]
  BY <1>2 DEF Zeros
<1> QED
  BY <1>1, <1>2, <1>3, <1>4

LEMMA ReceiveTyped ==
    ASSUME AnswerTypes, NEW c \in Clients, Receive(c)
    PROVE  Head(up[c]) \in Asks /\ up' \in [Clients -> Seq(Asks)]
<1>1. up[c] \in Seq(Asks) /\ up[c] # <<>>
  BY DEF AnswerTypes, Receive
<1>2. Head(up[c]) \in Asks /\ Tail(up[c]) \in Seq(Asks)
  BY <1>1, HeadTailProperties
<1> QED
  BY <1>2 DEF Receive, AnswerTypes

\* handle_command.
LEMMA HandleKeeps ==
    ASSUME AnswerInv, PendingShape, NEW c \in Clients, HandleCommand(c)
    PROVE  AnswerInv'
<1>1. /\ Head(up[c]) \in Asks /\ up' \in [Clients -> Seq(Asks)]
      /\ UNCHANGED <<made, doing, latest, returned>>
  BY ReceiveTyped DEF HandleCommand, AnswerInv, client
<1>2. frame \in Nat /\ moved \in Zeros /\ (pending # NoCapture => pending.id \in Ids)
  BY DEF AnswerInv, AnswerTypes
<1>3. NoId \in 0..MAX_REQUESTS /\ 0 \in Nat
  BY ImuAssumption DEF NoId
<1>4. ASSUME UNCHANGED estimator, NEW f \in {0, frame}, SendDown(c, State(f, NoId, TRUE))
      PROVE  AnswerInv'
  <2> DEFINE m == State(f, NoId, TRUE)
  <2>1. frame' = frame /\ moved' = moved /\ pending' = pending
    BY <1>4 DEF estimator
  <2>2. m \in Answers /\ m.frame \in {0, frame'} /\ Carries(m, frame', moved')
    BY <1>2, <1>3, <2>1 DEF State, Answers, Carries, NoId
  <2>3. SendDown(c, m)
    BY <1>4
  <2> HIDE DEF m
  <2>4. /\ frame' \in Nat /\ frame <= frame' /\ moved' \in Zeros
        /\ \A i \in Ids : moved[i] \subseteq moved'[i]
        /\ pending' # NoCapture => pending'.id \in Ids
    BY <1>2, <2>1
  <2> QED
    BY <1>1, <2>2, <2>3, <2>4, AnswersKeep
<1>5. CASE Head(up[c]).cmd = "subscribe"
  BY <1>2, <1>4, <1>5 DEF HandleCommand
<1>6. CASE Head(up[c]).cmd = "unsubscribe"
  BY <1>2, <1>4, <1>6 DEF HandleCommand
<1>7. CASE Head(up[c]).cmd = "zero"
  <2> DEFINE id == Head(up[c]).id
             m == State(frame', id, TRUE)
  <2>1. id \in Ids /\ id \in 0..MAX_REQUESTS
    BY <1>1, <1>7, IdsAreNumbers DEF Asks
  <2>2. NewFrame(id) /\ SendDown(c, m) /\ pending' = pending
    BY <1>7 DEF HandleCommand, ZeroReply
  <2>3. /\ frame' \in Nat /\ frame <= frame' /\ frame' # 0
        /\ moved' \in Zeros /\ \A i \in Ids : moved[i] \subseteq moved'[i]
        /\ frame' \in moved'[id]
    BY <2>1, <2>2, FrameMoves DEF AnswerInv
  <2>4. m \in Answers /\ m.frame \in {0, frame'} /\ Carries(m, frame', moved')
    BY <2>1, <2>3 DEF State, Answers, Carries
  <2> HIDE DEF m
  <2> QED
    BY <1>1, <1>2, <2>2, <2>3, <2>4, AnswersKeep
<1>8. CASE Head(up[c]).cmd = "calibrate"
  <2> DEFINE id == Head(up[c]).id
             m == State(0, NoId, TRUE)
  <2>1. id \in Ids
    BY <1>1, <1>8 DEF Asks
  <2>2. frame' = frame /\ moved' = moved /\ down' = down /\ Calibrate(c, id)
    BY <1>8 DEF HandleCommand
  <2>3. pending'.id = id
    <3>1. CASE pending.client = c
      <4>1. pending # NoCapture
        BY <3>1, ImuAssumption DEF NoCapture
      <4>2. pending = Capture(pending.client, pending.left, pending.id)
        BY <4>1 DEF PendingShape
      <4>3. pending' = Capture(pending.client, pending.left, id)
        BY <2>2, <3>1, <4>2 DEF Calibrate, SameCapture, Capture
      <4> QED
        BY <4>3 DEF Capture
    <3>2. CASE pending.client # c
      BY <2>2, <3>2 DEF Calibrate, Capture
    <3> QED
      BY <3>1, <3>2
  <2>4. m \in Answers /\ m.frame \in {0, frame'} /\ Carries(m, frame', moved')
    BY <1>2, <1>3, <2>2 DEF State, Answers, Carries, NoId
  <2> HIDE DEF m
  <2> QED
    BY <1>1, <1>2, <2>1, <2>2, <2>3, <2>4, AnswersKeep
<1>9. Head(up[c]).cmd \in {"subscribe", "unsubscribe", "zero", "calibrate"}
  BY <1>1 DEF Asks
<1> QED
  BY <1>5, <1>6, <1>7, <1>8, <1>9

\* finish_calibration.
LEMMA FinishKeeps ==
    ASSUME AnswerInv, PendingShape, FinishCalibration
    PROVE  AnswerInv'
<1> DEFINE c == pending.client
           id == pending.id
<1>1. c \in Clients /\ id \in Ids /\ id \in 0..MAX_REQUESTS
  BY IdsAreNumbers DEF FinishCalibration, AnswerInv, PendingShape
<1>2. /\ pending' = NoCapture /\ up' = up
      /\ UNCHANGED <<made, doing, latest, returned>>
  BY DEF FinishCalibration, client
<1>3. frame \in Nat /\ moved \in Zeros /\ up \in [Clients -> Seq(Asks)]
  BY DEF AnswerInv, AnswerTypes
<1>4. ASSUME UNCHANGED <<frame, moved>>, NEW f \in {0, frame}, SendDown(c, State(f, id, FALSE))
      PROVE  AnswerInv'
  <2> DEFINE m == State(f, id, FALSE)
  <2>1. m \in Answers /\ m.frame \in {0, frame'} /\ Carries(m, frame', moved')
    BY <1>1, <1>3, <1>4 DEF State, Answers, Carries
  <2> HIDE DEF c, id
  <2>2. SendDown(c, m)
    BY <1>4
  <2> HIDE DEF m
  <2> QED
    BY <1>1, <1>2, <1>3, <1>4, <2>1, <2>2, AnswersKeep
<1>5. ASSUME NewFrame(id), SendDown(c, State(frame', id, TRUE))
      PROVE  AnswerInv'
  <2> DEFINE m == State(frame', id, TRUE)
  <2>1. /\ frame' \in Nat /\ frame <= frame' /\ frame' # 0
        /\ moved' \in Zeros /\ \A i \in Ids : moved[i] \subseteq moved'[i]
        /\ frame' \in moved'[id]
    BY <1>1, <1>5, FrameMoves DEF AnswerInv
  <2>2. m \in Answers /\ m.frame \in {0, frame'} /\ Carries(m, frame', moved')
    BY <1>1, <2>1 DEF State, Answers, Carries
  <2> HIDE DEF c, id
  <2>3. SendDown(c, m)
    BY <1>5
  <2> HIDE DEF m
  <2> QED
    BY <1>1, <1>2, <1>3, <2>1, <2>2, <2>3, AnswersKeep
<1>6. \/ /\ \E f \in {0, frame} : SendDown(c, State(f, id, FALSE))
         /\ UNCHANGED <<frame, moved>>
      \/ NewFrame(id) /\ SendDown(c, State(frame', id, TRUE))
  BY DEF FinishCalibration
<1> HIDE DEF c, id
<1> QED
  BY <1>4, <1>5, <1>6

\* run_service publishes the state to many.
LEMMA PublishKeeps ==
    ASSUME AnswerInv, Publish
    PROVE  AnswerInv'
<1> DEFINE m == State(frame, NoId, TRUE)
           to == [c \in Clients |-> m]
<1>1. /\ frame \in Nat /\ moved \in Zeros /\ up \in [Clients -> Seq(Asks)]
      /\ down \in [Clients -> Seq(Answers)] /\ (pending # NoCapture => pending.id \in Ids)
  BY DEF AnswerInv, AnswerTypes
<1>2. UNCHANGED <<pending, frame, moved, up, made, doing, latest, returned>>
  BY DEF Publish, estimator, client
<1>3. NoId \in 0..MAX_REQUESTS
  BY ImuAssumption DEF NoId
<1>4. m \in Answers /\ m.frame \in {0, frame'} /\ Carries(m, frame', moved')
  BY <1>1, <1>2, <1>3 DEF State, Answers, Carries, NoId
<1>5. /\ down' = [c \in Clients |-> down'[c]]
      /\ \A c \in Clients : down'[c] \in {down[c], Put(down[c], m)}
  BY DEF Publish
<1> HIDE DEF m
<1>6. down' \in [Clients -> Seq(Answers)]
  <2>1. \A c \in Clients : Put(down[c], m) \in Seq(Answers)
    BY <1>1, <1>4, AppendProperties DEF Put
  <2>2. \A c \in Clients : down'[c] \in Seq(Answers)
    BY <1>1, <1>5, <2>1
  <2> QED
    BY <1>5, <2>2
<1>7. /\ to \in [Clients -> Answers]
      /\ \A c \in Clients : /\ to[c].frame \in {0, frame'} /\ Carries(to[c], frame', moved')
                            /\ down'[c] \in {down[c], Put(down[c], to[c])}
  BY <1>4, <1>5
<1> HIDE DEF to
<1>8. frame' \in Nat /\ frame <= frame' /\ moved' \in Zeros
      /\ (\A i \in Ids : moved[i] \subseteq moved'[i])
      /\ (pending' # NoCapture => pending'.id \in Ids) /\ up' \in [Clients -> Seq(Asks)]
  BY <1>1, <1>2
<1> QED
  BY <1>2, <1>6, <1>7, <1>8, TellsKeep

\* The service is started again, with another zero.
LEMMA RestartKeeps ==
    ASSUME AnswerInv, Restart
    PROVE  AnswerInv'
<1>1. /\ UNCHANGED <<moved, up, down, made, doing, latest, returned>>
      /\ pending' = NoCapture /\ frame' = frame + 1
  BY DEF Restart, client
<1>2. frame \in Nat /\ frame' \in Nat /\ frame <= frame'
  BY <1>1 DEF AnswerInv, AnswerTypes
<1>3. AnswerTypes'
  BY <1>1, <1>2 DEF AnswerInv, AnswerTypes
<1>4. ASSUME NEW c \in Clients
      PROVE  latest'[c] <= frame' /\ InOrder(down'[c], latest'[c], frame', moved')
  <2>1. /\ moved \in Zeros /\ down[c] \in Seq(Answers) /\ latest[c] \in Nat
        /\ latest[c] <= frame /\ InOrder(down[c], latest[c], frame, moved)
    BY DEF AnswerInv, AnswerTypes
  <2>2. InOrder(down[c], latest[c], frame', moved)
    BY <1>2, <2>1, LaterInOrder
  <2> QED
    BY <1>1, <1>2, <2>1, <2>2
<1> QED
  BY <1>1, <1>3, <1>4 DEF AnswerInv, AnswerIsOwn

\* A packet is lost at the head of its queue.
LEMMA LoseKeeps ==
    ASSUME AnswerInv, Lose
    PROVE  AnswerInv'
<1>1. UNCHANGED <<pending, frame, moved, made, doing, latest, returned>>
  BY DEF Lose, estimator, client
<1>2. /\ up \in [Clients -> Seq(Asks)] /\ down \in [Clients -> Seq(Answers)]
      /\ doing \in [Clients -> {NoRequest} \cup Requests] /\ made \in 0..MAX_REQUESTS
      /\ latest \in [Clients -> Nat]
  BY DEF AnswerInv, AnswerTypes
<1>3. PICK c \in Clients :
        \/ up[c] # <<>> /\ up' = [up EXCEPT ![c] = Tail(@)] /\ UNCHANGED down
        \/ down[c] # <<>> /\ down' = [down EXCEPT ![c] = Tail(@)] /\ UNCHANGED up
  BY DEF Lose
<1>4. CASE up[c] # <<>> /\ up' = [up EXCEPT ![c] = Tail(@)] /\ UNCHANGED down
  <2>1. Tail(up[c]) \in Seq(Asks)
    BY <1>2, <1>4, HeadTailProperties
  <2>2. up' \in [Clients -> Seq(Asks)]
    BY <1>2, <1>4, <2>1
  <2> QED
    BY <1>1, <1>2, <1>4, <2>2, AsksKeep
<1>5. CASE down[c] # <<>> /\ down' = [down EXCEPT ![c] = Tail(@)] /\ UNCHANGED up
  <2>1. down[c] \in Seq(Answers) /\ Len(down[c]) \in Nat /\ Len(down[c]) # 0
    BY <1>2, <1>5, LenProperties, EmptySeq
  <2>2. Tail(down[c]) = SubSeq(down[c], 1 + 1, Len(down[c]))
    BY <1>5, <2>1, TailIsSubSeq
  <2>3. 1 \in 0..Len(down[c]) /\ 0 \in 0..1
    BY <2>1
  <2>4. down' = [down EXCEPT ![c] = SubSeq(@, 1 + 1, Len(@))]
    BY <1>2, <1>5, <2>2
  <2>5. latest' = [latest EXCEPT ![c] = IF 0 = 0 THEN @ ELSE down[c][0].frame]
    BY <1>1, <1>2
  <2>6. /\ UNCHANGED <<pending, frame, moved, made>> /\ up' \in [Clients -> Seq(Asks)]
        /\ doing' \in [Clients -> {NoRequest} \cup Requests] /\ returned' = returned
    BY <1>1, <1>2, <1>5
  <2> QED
    BY <2>3, <2>4, <2>5, <2>6, TakesKeep
<1> QED
  BY <1>3, <1>4, <1>5

\* The client.
LEMMA ClientKeeps ==
    ASSUME AnswerInv, NEW c \in Clients, ClientStep(c)
    PROVE  AnswerInv'
<1>1. /\ made \in 0..MAX_REQUESTS /\ up \in [Clients -> Seq(Asks)]
      /\ down \in [Clients -> Seq(Answers)]
      /\ doing \in [Clients -> {NoRequest} \cup Requests]
      /\ latest \in [Clients -> Nat] /\ returned \in [Clients -> 0..MAX_REQUESTS]
      /\ down[c] \in Seq(Answers) /\ doing[c] \in {NoRequest} \cup Requests
  BY DEF AnswerInv, AnswerTypes
<1>2. UNCHANGED <<pending, frame, moved>>
  BY DEF ClientStep, Pump, Ask, AskAgain, Take, GiveUp, Close, estimator
<1>3. /\ [cmd |-> "subscribe", id |-> NoId] \in Asks
      /\ [cmd |-> "unsubscribe", id |-> NoId] \in Asks
      /\ \A cmd \in {"zero", "calibrate"}, id \in Ids : [cmd |-> cmd, id |-> id] \in Asks
  BY DEF Asks
<1>4. RETRANSMIT \in Nat /\ TIMEOUT \in Nat /\ SECONDS \in Nat /\ MAX_REQUESTS \in Nat
  BY ImuAssumption
<1>5. CASE Pump(c)
  <2>1. up' \in [Clients -> Seq(Asks)]
    <3>1. CASE refresh[c] = 0
      BY <1>3, <1>5, <3>1, SendUpTyped DEF Pump, Resubscribe, AnswerInv
    <3>2. CASE refresh[c] # 0
      BY <1>1, <1>5, <3>2 DEF Pump
    <3> QED
      BY <3>1, <3>2
  <2>2. PICK n \in 0..Len(down[c]) :
          /\ Absorb(c, n)
          /\ down' = [down EXCEPT ![c] = SubSeq(@, n + 1, Len(@))]
    BY <1>5 DEF Pump
  <2>3. PICK last \in 0..n :
          /\ last # 0 => down[c][last].frame # 0
          /\ latest' = [latest EXCEPT ![c] = IF last = 0 THEN @ ELSE down[c][last].frame]
    BY <2>2 DEF Absorb
  <2>4. made' = made /\ doing' = doing /\ returned' = returned
    BY <1>5 DEF Pump
  <2> QED
    BY <1>1, <1>2, <2>1, <2>2, <2>3, <2>4, TakesKeep
<1>6. ASSUME NEW cmd \in {"calibrate", "zero"}, Ask(c, cmd) PROVE AnswerInv'
  <2>1. made + 1 \in Ids /\ made' \in 0..MAX_REQUESTS
    BY <1>1, <1>4, <1>6 DEF Ask, Ids
  <2>2. up' \in [Clients -> Seq(Asks)]
    BY <1>3, <1>6, <2>1, SendUpTyped DEF Ask, AnswerInv
  <2> DEFINE left == TIMEOUT + IF cmd = "calibrate" THEN SECONDS ELSE 0
             asked == [cmd |-> cmd, id |-> made + 1, resend |-> RETRANSMIT, left |-> left]
  <2>3. left \in Nat
    BY <1>4
  <2>4. asked \in Requests
    BY <1>4, <2>1, <2>3 DEF Requests
  <2>5. doing' = [doing EXCEPT ![c] = asked]
    BY <1>6 DEF Ask
  <2> HIDE DEF asked
  <2>6. doing' \in [Clients -> {NoRequest} \cup Requests]
    BY <1>1, <2>4, <2>5
  <2>7. UNCHANGED <<latest, returned, down>>
    BY <1>6 DEF Ask
  <2> QED
    BY <1>2, <2>1, <2>2, <2>6, <2>7, AsksKeep
<1>7. CASE AskAgain(c)
  <2>1. doing[c] \in Requests
    BY <1>1, <1>7 DEF AskAgain
  <2>2. up' \in [Clients -> Seq(Asks)]
    BY <1>3, <1>7, <2>1, SendUpTyped DEF AskAgain, Requests, AnswerInv
  <2>3. [doing[c] EXCEPT !.resend = RETRANSMIT] \in Requests
    BY <1>4, <2>1 DEF Requests
  <2>4. doing' \in [Clients -> {NoRequest} \cup Requests]
    BY <1>1, <1>7, <2>3 DEF AskAgain
  <2>5. UNCHANGED <<latest, returned, down, made>>
    BY <1>7 DEF AskAgain
  <2> QED
    BY <1>1, <1>2, <2>2, <2>4, <2>5, AsksKeep
<1>8. CASE Take(c)
  <2> DEFINE m == Head(down[c])
  <2>1. /\ doing[c] \in Requests /\ down[c] # <<>>
        /\ down' = [down EXCEPT ![c] = Tail(@)]
        /\ latest' = [latest EXCEPT ![c] = IF m.frame = 0 THEN @ ELSE m.frame]
        /\ UNCHANGED <<made, up>>
        /\ \/ doing' = [doing EXCEPT ![c] = NoRequest] \/ doing' = doing
        /\ \/ returned' = returned
           \/ IsReply(c, m) /\ m.ok /\ returned' = [returned EXCEPT ![c] = doing[c].id]
    BY <1>1, <1>8 DEF Take
  <2>2. /\ Tail(down[c]) = SubSeq(down[c], 1 + 1, Len(down[c])) /\ m = down[c][1]
        /\ Len(down[c]) \in Nat /\ Len(down[c]) # 0
    BY <1>1, <2>1, TailIsSubSeq, LenProperties, EmptySeq
  <2>3. m \in Answers /\ 1 \in 1..Len(down[c])
    BY <1>1, <2>1, <2>2, HeadTailProperties
  <2> HIDE DEF m
  <2>4. doing[c].id \in Ids
    BY <2>1 DEF Requests
  <2>5. /\ down' = [down EXCEPT ![c] = SubSeq(@, 1 + 1, Len(@))]
        /\ doing' \in [Clients -> {NoRequest} \cup Requests]
        /\ up' \in [Clients -> Seq(Asks)]
    BY <1>1, <2>1, <2>2
  <2>6. /\ 1 \in 0..Len(down[c]) /\ 0 \in 0..1 /\ 1 \in 0..1
    BY <2>2
  <2>7. CASE returned' = returned
    <3>1. CASE m.frame = 0
      <4>1. latest' = [latest EXCEPT ![c] = IF 0 = 0 THEN @ ELSE down[c][0].frame]
        BY <1>1, <2>1, <3>1
      <4> QED
        BY <1>1, <1>2, <2>1, <2>5, <2>6, <2>7, <4>1, TakesKeep
    <3>2. CASE m.frame # 0
      <4>1. latest' = [latest EXCEPT ![c] = IF 1 = 0 THEN @ ELSE down[c][1].frame]
        BY <1>1, <2>1, <2>2, <3>2
      <4> QED
        BY <1>1, <1>2, <2>1, <2>2, <2>5, <2>6, <2>7, <3>2, <4>1, TakesKeep
    <3> QED
      BY <3>1, <3>2
  <2>8. CASE /\ m.id = doing[c].id /\ m.ok
             /\ returned' = [returned EXCEPT ![c] = doing[c].id]
    <3>1. m.frame # 0
      <4>1. Carries(m, frame, moved)
        BY <2>2, <2>3 DEF AnswerInv, InOrder
      <4> QED
        BY <2>4, <2>8, <4>1, IdsAreNumbers DEF Carries
    <3>2. latest' = [latest EXCEPT ![c] = IF 1 = 0 THEN @ ELSE down[c][1].frame]
      BY <1>1, <2>1, <2>2, <3>1
    <3>3. /\ 1 # 0 => down[c][1].frame # 0
          /\ \/ returned' = returned
             \/ /\ 1 # 0 /\ down[c][1].ok /\ down[c][1].id \in Ids
                /\ returned' = [returned EXCEPT ![c] = down[c][1].id]
      BY <2>2, <2>4, <2>8, <3>1
    <3>4. UNCHANGED <<pending, frame, moved, made>>
      BY <1>2, <2>1
    <3> QED
      BY <2>5, <2>6, <3>2, <3>3, <3>4, TakesKeep
  <2> QED
    BY <2>1, <2>7, <2>8 DEF IsReply
<1>9. CASE GiveUp(c)
  <2>1. doing' \in [Clients -> {NoRequest} \cup Requests]
    BY <1>1, <1>9 DEF GiveUp
  <2>2. UNCHANGED <<latest, returned, down, made, up>>
    BY <1>9 DEF GiveUp
  <2> QED
    BY <1>1, <1>2, <2>1, <2>2, AsksKeep
<1>10. CASE Close(c)
  <2>1. up' \in [Clients -> Seq(Asks)]
    BY <1>3, <1>10, SendUpTyped DEF Close, AnswerInv
  <2>2. /\ UNCHANGED <<latest, returned, doing, made>>
        /\ down' = [down EXCEPT ![c] = <<>>]
    BY <1>10 DEF Close
  <2> QED
    BY <1>1, <1>2, <2>1, <2>2, AsksKeep
<1> QED
  BY <1>5, <1>6, <1>7, <1>8, <1>9, <1>10 DEF ClientStep

\* The clock.
LEMMA ClockKeeps ==
    ASSUME AnswerInv, PendingShape, Tick
    PROVE  AnswerInv'
<1>1. UNCHANGED <<frame, moved, latest, made, returned, up, down>>
  BY DEF Tick
<1>2. doing' \in [Clients -> {NoRequest} \cup Requests]
  <2>1. ASSUME NEW c \in Clients, doing[c] # NoRequest
        PROVE  [doing[c] EXCEPT !.left = @ - 1, !.resend = @ - 1] \in Requests
    <3>1. doing[c] \in Requests /\ doing[c].left > 0 /\ doing[c].resend > 0
      BY <2>1 DEF AnswerInv, AnswerTypes, Tick
    <3>2. doing[c].left - 1 \in Nat /\ doing[c].resend - 1 \in Nat
      BY <3>1 DEF Requests
    <3> QED
      BY <3>1, <3>2 DEF Requests
  <2> QED
    BY <2>1 DEF Tick
<1>3. pending' # NoCapture => pending'.id \in Ids
  <2>1. CASE pending = NoCapture
    BY <2>1 DEF Tick
  <2>2. CASE pending # NoCapture
    <3>1. pending = Capture(pending.client, pending.left, pending.id) /\ pending.id \in Ids
      BY <2>2 DEF PendingShape, AnswerInv
    <3>2. pending' = [pending EXCEPT !.left = @ - 1]
      BY <2>2 DEF Tick
    <3>3. pending'.id = pending.id
      BY <3>1, <3>2 DEF Capture
    <3> QED
      BY <3>1, <3>3
  <2> QED
    BY <2>1, <2>2
<1>4. AnswerTypes'
  BY <1>1, <1>2 DEF AnswerInv, AnswerTypes
<1> QED
  BY <1>1, <1>3, <1>4 DEF AnswerInv, AnswerIsOwn

LEMMA AnswerStep == CaptureInv /\ AnswerInv /\ [Next]_vars => AnswerInv'
<1> SUFFICES ASSUME CaptureInv, AnswerInv, [Next]_vars
             PROVE  AnswerInv'
  OBVIOUS
<1>1. PendingShape
  BY DEF CaptureInv
<1>2. CASE UNCHANGED vars
  BY <1>2, AnswerStutter DEF vars, estimator, client, answers
<1> QED
  BY <1>1, <1>2, ClientKeeps, HandleKeeps, FinishKeeps, PublishKeeps, RestartKeeps,
     LoseKeeps, ClockKeeps
     DEF Next

\* A request returns the answer to it and to no other, and with it a zero it made
\* or a later one, whatever packets are lost, repeated or late, and however often
\* the service is started again (ImuClient.request, handle_command).
THEOREM AnswersAreOwn == Spec => []AnswerIsOwn
<1>1. AnswerInv => AnswerIsOwn
  BY DEF AnswerInv
<1> QED
  BY <1>1, AnswerInit, AnswerStep, CaptureAlways, PTL DEF Spec
=============================================================================
