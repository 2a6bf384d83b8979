---------------------------- MODULE StreamProof ----------------------------
(***************************************************************************)
(* The stops of the programs that keep one session open, for any network,  *)
(* any route and any number of packets.  First those that stream a whole   *)
(* run (module RouteDriver): what the service has acknowledged as a stop   *)
(* is one, and no acknowledged slot is forgotten.  Then MotorStream        *)
(* (StreamLink): what its stop() reports as confirmed holds until the      *)
(* stream drives again or the service fails.                               *)
(***************************************************************************)
EXTENDS RouteDriver, StreamLink, WellFoundedInduction, FiniteSetTheorems, TLAPS

-----------------------------------------------------------------------------
(* The legs of a route, by induction over the segments.                    *)

Less == {ss \in Nat \X Nat : ss[1] < ss[2]}

LEMMA LessIsWellFounded == IsWellFoundedOn(Less, Nat)
<1>1. OpToRel(<, Nat) = Less
  BY DEF OpToRel, Less
<1> QED
  BY <1>1, NatLessThanWellFounded

\* Induction, over a set instead of a predicate.
LEMMA NatSetInduction ==
    ASSUME NEW S \in SUBSET Nat, 0 \in S, \A n \in S : n + 1 \in S
    PROVE  S = Nat
<1> DEFINE T == Nat \ S
<1>1. SUFFICES ASSUME T # {} PROVE FALSE
  OBVIOUS
<1>2. PICK x \in T : \A y \in T : <<y, x>> \notin Less
  <2> HIDE DEF T
  <2>1. T \subseteq Nat
    BY DEF T
  <2> QED
    BY <1>1, <2>1, LessIsWellFounded, WFMin, Zenon
<1>3. x \in Nat /\ x # 0 /\ x \notin S
  OBVIOUS
<1>4. x - 1 \in Nat /\ x - 1 < x /\ (x - 1) + 1 = x
  BY <1>3
<1>5. x - 1 \notin T
  <2>1. <<x - 1, x>> \in Less
    BY <1>3, <1>4 DEF Less
  <2> QED
    BY <1>2, <2>1
<1>6. x - 1 \in S
  BY <1>4, <1>5
<1> QED
  BY <1>3, <1>4, <1>6

Legs == [cmd : Drives \union {Stop}, start : Nat, end : Nat]

\* Each leg takes time, and they follow on one another without a hole.
WellLaid(plan) ==
    /\ plan \in Seq(Legs)
    /\ \A l \in 1..Len(plan) : plan[l].start < plan[l].end
    /\ \A k, l \in 1..Len(plan) : k < l => plan[k].end <= plan[l].start
    /\ \A l \in 1..Len(plan) : plan[l].end <= plan[Len(plan)].end
    /\ \A tick \in Nat : Len(plan) > 0 /\ tick < plan[Len(plan)].end =>
         \E l \in 1..Len(plan) : plan[l].start <= tick /\ tick < plan[l].end

LEMMA LaidKeeps ==
    ASSUME NEW plan, WellLaid(plan), NEW cmd \in Drives \union {Stop}, NEW ticks \in Nat
    PROVE  /\ WellLaid(Laid(plan, cmd, ticks))
           /\ Len(Laid(plan, cmd, ticks)) <= Len(plan) + 1
           /\ Len(Laid(plan, cmd, ticks)) >= Len(plan)
           /\ ticks > 0 => Len(Laid(plan, cmd, ticks)) > 0
<1>1. CASE ticks = 0
  BY <1>1 DEF Laid, WellLaid
<1>2. CASE ticks # 0
  <2> DEFINE from == IF plan = <<>> THEN 0 ELSE Last(plan).end
             leg == Leg(cmd, ticks, from)
             more == Append(plan, leg)
             n == Len(plan)
  <2>1. n \in Nat /\ plan \in Seq(Legs) /\ (plan = <<>> <=> n = 0)
    BY DEF WellLaid
  <2>2. from \in Nat /\ (n > 0 => from = plan[n].end) /\ (n = 0 => from = 0)
    <3>1. CASE n = 0
      BY <2>1, <3>1
    <3>2. CASE n > 0
      <4>1. plan[n] \in Legs
        BY <2>1, <3>2
      <4>2. from = plan[n].end
        BY <2>1, <3>2 DEF Last
      <4> QED
        BY <3>2, <4>1, <4>2 DEF Legs
    <3> QED
      BY <2>1, <3>1, <3>2
  <2>3. leg \in Legs /\ leg.start = from /\ leg.end = from + ticks /\ leg.start < leg.end
    <3> HIDE DEF from
    <3> QED BY <1>2, <2>2 DEF Leg, Legs
  <2>4. /\ more \in Seq(Legs) /\ Len(more) = n + 1 /\ more[n + 1] = leg
        /\ \A l \in 1..n : more[l] = plan[l]
    <3> HIDE DEF leg
    <3> QED BY <2>1, <2>3
  <2> HIDE DEF from, leg, more, n
  <2>5. \A l \in 1..n :
          /\ plan[l] \in Legs /\ plan[l].start < plan[l].end /\ plan[l].end <= from
          /\ plan[l].start \in Nat /\ plan[l].end \in Nat
    <3> TAKE l \in 1..n
    <3>1. plan[l] \in Legs
      BY <2>1 DEF n
    <3>2. plan[l].start < plan[l].end /\ plan[l].end <= plan[n].end /\ from = plan[n].end
      BY <2>1, <2>2 DEF WellLaid, n
    <3> QED
      BY <3>1, <3>2 DEF Legs
  <2>6. \A k, l \in 1..n : k < l => plan[k].end <= plan[l].start
    BY DEF WellLaid, n
  <2>7. \A tick \in Nat : n > 0 /\ tick < from =>
          \E l \in 1..n : plan[l].start <= tick /\ tick < plan[l].end
    BY <2>2 DEF WellLaid, n
  <2>8. \A l \in 1..Len(more) : \/ l \in 1..n /\ more[l] = plan[l]
                                \/ l = n + 1 /\ more[l] = leg
    BY <2>1, <2>4
  <2>9. \A l \in 1..Len(more) : /\ more[l].start < more[l].end
                                /\ more[l].end <= more[Len(more)].end
    <3> TAKE l \in 1..Len(more)
    <3>1. CASE l \in 1..n /\ more[l] = plan[l]
      BY <1>2, <2>2, <2>3, <2>4, <2>5, <3>1
    <3>2. CASE l = n + 1 /\ more[l] = leg
      BY <2>2, <2>3, <2>4, <3>2
    <3> QED
      BY <2>8, <3>1, <3>2
  <2>10. ASSUME NEW k \in 1..Len(more), NEW l \in 1..Len(more), k < l
         PROVE  more[k].end <= more[l].start
    <3>1. k \in 1..n /\ more[k] = plan[k]
      BY <2>1, <2>4, <2>10
    <3>2. CASE l \in 1..n /\ more[l] = plan[l]
      BY <2>6, <2>10, <3>1, <3>2
    <3>3. CASE l = n + 1 /\ more[l] = leg
      BY <2>2, <2>3, <2>5, <3>1, <3>3
    <3> QED
      BY <2>8, <3>2, <3>3
  <2>11. ASSUME NEW tick \in Nat, tick < more[Len(more)].end
         PROVE  \E l \in 1..Len(more) : more[l].start <= tick /\ tick < more[l].end
    <3>1. CASE tick < from
      <4>1. n > 0
        BY <2>1, <2>2, <3>1
      <4>2. PICK l \in 1..n : plan[l].start <= tick /\ tick < plan[l].end
        BY <2>7, <3>1, <4>1
      <4>3. l \in 1..Len(more) /\ more[l] = plan[l]
        BY <2>1, <2>4
      <4> QED
        BY <4>2, <4>3
    <3>2. CASE tick >= from
      <4>1. n + 1 \in 1..Len(more) /\ more[n + 1].start <= tick /\ tick < more[n + 1].end
        BY <2>1, <2>3, <2>4, <2>11, <3>2
      <4> QED
        BY <4>1
    <3> QED
      BY <2>2, <3>1, <3>2
  <2>12. WellLaid(more)
    BY <2>4, <2>9, <2>10, <2>11 DEF WellLaid
  <2>13. Laid(plan, cmd, ticks) = more
    BY <1>2 DEF Laid, more, leg, from
  <2> QED
    BY <2>1, <2>4, <2>12, <2>13 DEF n
<1> QED
  BY <1>1, <1>2

LEMMA Segments ==
    /\ Len(SEGMENTS) \in Nat /\ Len(SEGMENTS) > 0
    /\ \A i \in 1..Len(SEGMENTS) : SEGMENTS[i] \in Drives
    /\ MostLegs \in Nat /\ MostLegs = 2 * Len(SEGMENTS) + 1 /\ 1 \in 1..MostLegs
  BY RouteAssumption DEF MostLegs

LeadIn == Laid(<<>>, Stop, LEAD_IN_TICKS)

\* What build_timeline appends for one segment.
WithSegment(plan, i) ==
    Laid(Laid(plan, SEGMENTS[i], SEGMENT_TICKS),
         Stop, IF i < Len(SEGMENTS) THEN GAP_TICKS ELSE TAIL_TICKS)

\* Timeline is what its definition says.
LEMMA TimelineUnfolds ==
    Timeline = [i \in 0..Len(SEGMENTS) |->
                  IF i = 0 THEN LeadIn ELSE WithSegment(Timeline[i - 1], i)]
<1> DEFINE Part(g, n) ==
             g = [i \in 0..n |-> IF i = 0 THEN LeadIn ELSE WithSegment(g[i - 1], i)]
           S == {n \in Nat : \E g : Part(g, n)}
<1>1. 0 \in S
  <2>1. Part([i \in 0..0 |-> LeadIn], 0)
    OBVIOUS
  <2> QED
    BY <2>1
<1>2. ASSUME NEW n \in S PROVE n + 1 \in S
  <2>1. PICK g : Part(g, n)
    OBVIOUS
  <2> DEFINE h == [i \in 0..(n + 1) |->
                     IF i = n + 1 THEN WithSegment(g[n], n + 1) ELSE g[i]]
  <2>2. Part(h, n + 1)
    <3>1. ASSUME NEW i \in 0..(n + 1)
          PROVE  h[i] = IF i = 0 THEN LeadIn ELSE WithSegment(h[i - 1], i)
      <4>1. CASE i = n + 1
        BY <4>1
      <4>2. CASE i # n + 1
        <5>1. i \in 0..n /\ h[i] = g[i]
          BY <4>2
        <5>2. i # 0 => i - 1 \in 0..n /\ i - 1 \in 0..(n + 1) /\ h[i - 1] = g[i - 1]
          BY <5>1
        <5>3. g[i] = IF i = 0 THEN LeadIn ELSE WithSegment(g[i - 1], i)
          BY <2>1, <5>1
        <5> QED
          BY <5>1, <5>2, <5>3
      <4> QED
        BY <4>1, <4>2
    <3> QED
      BY <3>1
  <2> HIDE DEF Part, h
  <2> QED
    BY <2>2
<1>3. S = Nat
  <2> HIDE DEF S
  <2>1. S \in SUBSET Nat
    BY DEF S
  <2> QED
    BY <1>1, <1>2, <2>1, NatSetInduction
<1>4. \E g : Part(g, Len(SEGMENTS))
  BY <1>3, Segments
<1> QED
  BY <1>4 DEF Timeline, WithSegment, LeadIn

LEMMA TimelineIsWellLaid ==
    LET plan == Timeline[Len(SEGMENTS)]
    IN  WellLaid(plan) /\ Len(plan) \in 1..MostLegs
<1> DEFINE Fine(i) == LET plan == Timeline[i]
                      IN  /\ WellLaid(plan) /\ Len(plan) <= 2 * i + 1
                          /\ i > 0 => Len(plan) > 0
           S == {i \in Nat : i <= Len(SEGMENTS) => Fine(i)}
<1>1. 0 \in S
  <2>1. Timeline[0] = LeadIn
    BY TimelineUnfolds, Segments
  <2>2. WellLaid(<<>>) /\ Len(<<>>) = 0
    BY DEF WellLaid
  <2>3. WellLaid(LeadIn) /\ Len(LeadIn) <= 1
    BY <2>2, LaidKeeps, RouteAssumption, ServiceAssumption DEF LeadIn
  <2> QED
    BY <2>1, <2>3
<1>2. ASSUME NEW i \in S PROVE i + 1 \in S
  <2>1. SUFFICES ASSUME i + 1 <= Len(SEGMENTS) PROVE Fine(i + 1)
    OBVIOUS
  <2> DEFINE plan == Timeline[i]
             ticks == IF i + 1 < Len(SEGMENTS) THEN GAP_TICKS ELSE TAIL_TICKS
             driven == Laid(plan, SEGMENTS[i + 1], SEGMENT_TICKS)
             stopped == Laid(driven, Stop, ticks)
  <2>2. WellLaid(plan) /\ Len(plan) <= 2 * i + 1
    BY <2>1, Segments
  <2>3. Timeline[i + 1] = stopped
    BY <2>1, TimelineUnfolds, Segments DEF WithSegment
  <2>4. /\ SEGMENTS[i + 1] \in Drives /\ ticks \in Nat
        /\ SEGMENT_TICKS \in Nat /\ SEGMENT_TICKS > 0
    BY <2>1, Segments, RouteAssumption
  <2> HIDE DEF plan, ticks
  <2>5. WellLaid(driven) /\ Len(driven) <= Len(plan) + 1 /\ Len(driven) > 0
    BY <2>2, <2>4, LaidKeeps
  <2> HIDE DEF driven
  <2>6. WellLaid(stopped) /\ Len(stopped) <= Len(driven) + 1 /\ Len(stopped) >= Len(driven)
    BY <2>4, <2>5, LaidKeeps
  <2>7. Len(plan) \in Nat /\ Len(driven) \in Nat /\ Len(stopped) \in Nat
    BY <2>2, <2>5, <2>6 DEF WellLaid
  <2> HIDE DEF stopped
  <2> QED
    BY <2>2, <2>3, <2>5, <2>6, <2>7
<1>3. S = Nat
  <2> HIDE DEF S
  <2>1. S \in SUBSET Nat
    BY DEF S
  <2> QED
    BY <1>1, <1>2, <2>1, NatSetInduction
<1>4. Fine(Len(SEGMENTS))
  BY <1>3, Segments
<1>5. Len(Timeline[Len(SEGMENTS)]) \in Nat
  BY <1>4 DEF WellLaid
<1> QED
  BY <1>4, <1>5, Segments

\* The legs of each of the three programs; those that drop slots have one.
LEMMA PlansAreWellLaid ==
    ASSUME NEW p \in Programs
    PROVE  /\ WellLaid(Plans[p]) /\ Len(Plans[p]) \in 1..MostLegs
           /\ p # "legs" => Len(Plans[p]) = 1 /\ Plans[p][1].cmd \in Drives
<1>1. CASE p = "legs"
  BY <1>1, TimelineIsWellLaid DEF Plans, Programs
<1>2. CASE p # "legs"
  <2> DEFINE leg == Leg(SEGMENTS[1], SEGMENT_TICKS, 0)
  <2>1. /\ Plans[p] = <<leg>> /\ leg \in Legs /\ leg.cmd \in Drives
        /\ leg.start = 0 /\ leg.end > 0
    BY <1>2, Segments, RouteAssumption DEF Plans, Leg, Legs
  <2> HIDE DEF leg
  <2>2. WellLaid(<<leg>>)
    BY <2>1 DEF WellLaid, Legs
  <2> QED
    BY <1>2, <2>1, <2>2, Segments
<1> QED
  BY <1>1, <1>2

-----------------------------------------------------------------------------
(* The invariant of a route. *)

Entry == client_sequences[Port]

Replies == [to : {Port}, session : {Session}, sequence : Nat, ok : BOOLEAN]

Typed ==
    /\ program \in Programs /\ clock \in Nat
    /\ pc \in {"driving", "stopping", "closed"}
    /\ sequence \in Nat /\ sequence <= total
    /\ leg_of \in Seq(Nat) /\ Len(leg_of) = sequence
    /\ pending \subseteq 0..(sequence - 1)
    /\ credited \in [1..MostLegs -> Nat]
    /\ replies \in Seq(Replies)
    /\ IsFiniteSet(packets) /\ late \in Nat

\* The legs are driven in the order of their ticks, a packet a tick.
InOrder == \A n \in 1..sequence : leg_of[n] = LegAt(n - 1)

Sent(n) == n < sequence \/ (n = sequence /\ pc # "driving")

\* What the packet with number n may say.  The stop has the number of no leg's.
MayBe(n, cmd) ==
    /\ Sent(n)
    /\ n = sequence => cmd = Stop
    /\ n < sequence /\ program = "legs" => cmd = legs[LegAt(n)].cmd

InFlight ==
    \A p \in packets : /\ p.src = Port /\ p.session = Session
                       /\ p.sequence \in Nat /\ p.cmd \in Drives \union {Stop}
                       /\ MayBe(p.sequence, p.cmd)

\* The service does what the last packet it accepted said, or nothing.
Served ==
    /\ DOMAIN client_sequences = Addresses
    /\ Entry = NoEntry => actions = Stop
    /\ Entry # NoEntry => /\ Entry[1] = Session /\ Entry[2] \in Nat /\ Sent(Entry[2])
                          /\ actions = Stop \/ MayBe(Entry[2], actions)

CaughtUp(n) == Entry # NoEntry /\ n <= Entry[2]

\* Whatever is acknowledged, or about to be, the service has caught up with.
Heard ==
    /\ \A i \in 1..Len(replies) : replies[i].ok => CaughtUp(replies[i].sequence)
    /\ stop_acked => pc # "driving" /\ CaughtUp(sequence)
    /\ \A l \in 1..MostLegs : credited[l] > 0 =>
         \E n \in 0..(sequence - 1) : LegAt(n) = l /\ CaughtUp(n)

\* The answer to packet n is still to come.
Awaited(n) ==
    \/ \E p \in packets : p.sequence = n
    \/ \E i \in 1..Len(replies) : replies[i].ok /\ replies[i].sequence = n

\* While nothing is late, a tick's packet is served within the tick.
OnTime ==
    /\ pc = "driving" => sequence \in {clock, clock + 1}
    /\ pc = "driving" /\ sequence = clock => packets = {}
    /\ \A p \in packets : p.sequence = IF pc = "driving" THEN sequence - 1 ELSE sequence

\* ... and nothing that was sent is forgotten.
Awaiting ==
    /\ \A n \in pending : Awaited(n)
    /\ sequence > 0 => pending # {} \/ credited[1] > 0
    /\ pc # "driving" => sequence > 0
    /\ pc = "stopping" => clock = 0 /\ (stop_acked \/ Awaited(sequence))
    /\ pc = "closed" => stop_acked
    /\ stop_acked => pending = {}

InTime == program # "legs" /\ late = 0 /\ ~interrupted => OnTime /\ Awaiting

RouteInv == Typed /\ InOrder /\ InFlight /\ Served /\ Heard /\ InTime

-----------------------------------------------------------------------------
(* Facts about the legs of the route that is driven. *)

LEMMA RouteIsLaid ==
    ASSUME program \in Programs
    PROVE  /\ WellLaid(legs) /\ DOMAIN legs = 1..Len(legs)
           /\ Len(legs) \in 1..MostLegs
           /\ program # "legs" => Len(legs) = 1 /\ legs[1].cmd \in Drives
           /\ total = legs[Len(legs)].end /\ total \in Nat /\ total > 0
<1>1. /\ WellLaid(legs) /\ Len(legs) \in 1..MostLegs
      /\ program # "legs" => Len(legs) = 1 /\ legs[1].cmd \in Drives
  BY PlansAreWellLaid DEF legs
<1>2. Len(legs) \in 1..Len(legs) /\ legs \in Seq(Legs)
  BY <1>1, Segments DEF WellLaid
<1>3. /\ legs[Len(legs)] \in Legs
      /\ legs[Len(legs)].start < legs[Len(legs)].end
  BY <1>1, <1>2 DEF WellLaid
<1>4. total = legs[Len(legs)].end
  BY <1>2 DEF total, Last
<1> QED
  BY <1>1, <1>2, <1>3, <1>4 DEF Legs

LEMMA LegOfTick ==
    ASSUME program \in Programs, NEW tick \in Nat, tick < total
    PROVE  /\ LegAt(tick) \in 1..Len(legs)
           /\ legs[LegAt(tick)].start <= tick /\ tick < legs[LegAt(tick)].end
           /\ legs[LegAt(tick)] \in Legs
<1>1. \E l \in DOMAIN legs : legs[l].start <= tick /\ tick < legs[l].end
  BY RouteIsLaid DEF WellLaid
<1>2. /\ LegAt(tick) \in DOMAIN legs
      /\ legs[LegAt(tick)].start <= tick /\ tick < legs[LegAt(tick)].end
  BY <1>1 DEF LegAt
<1> QED
  BY <1>2, RouteIsLaid DEF WellLaid

LEMMA LegsInOrder ==
    ASSUME program \in Programs, NEW s \in Nat, NEW t \in Nat, s <= t, t < total
    PROVE  LegAt(s) <= LegAt(t)
<1>1. s < total
  BY RouteIsLaid
<1>2. PICK k, l \in 1..Len(legs) : k = LegAt(s) /\ l = LegAt(t)
  BY <1>1, LegOfTick
<1>3. /\ legs[k].start <= s /\ legs[l].start <= t /\ t < legs[l].end
      /\ legs[k] \in Legs /\ legs[l] \in Legs
  BY <1>1, <1>2, LegOfTick
<1>4. l < k => legs[l].end <= legs[k].start
  BY RouteIsLaid DEF WellLaid
<1>5. ~(l < k)
  BY <1>3, <1>4 DEF Legs
<1> QED
  BY <1>2, <1>5, RouteIsLaid

LEMMA SameRoute ==
    ASSUME program' = program
    PROVE  legs' = legs /\ total' = total /\ \A t : LegAt(t)' = LegAt(t)
  BY DEF legs, total, LegAt

-----------------------------------------------------------------------------
(* Replies and credits. *)

LEMMA NewCredits ==
    ASSUME Typed, InOrder, NEW l \in 1..MostLegs
    PROVE  LET new == {n \in Acknowledged : Credit(n) = l}
           IN  /\ Cardinality(new) \in Nat
               /\ Cardinality(new) > 0 => new # {}
               /\ new # {} => Cardinality(new) > 0
<1> DEFINE new == {n \in Acknowledged : Credit(n) = l}
<1>1. new \subseteq 0..(sequence - 1) /\ sequence \in Nat
  BY DEF Typed, Acknowledged
<1>2. IsFiniteSet(0..(sequence - 1))
  BY <1>1, FS_Interval
<1>3. IsFiniteSet(new)
  BY <1>1, <1>2, FS_Subset
<1> HIDE DEF new
<1>4. Cardinality(new) \in Nat /\ (Cardinality(new) = 0 <=> new = {})
  BY <1>3, FS_CardinalityType, FS_EmptySet
<1>5. Cardinality(new) \in Nat /\ (Cardinality(new) > 0 <=> new # {})
  BY <1>4
<1> QED
  BY <1>5 DEF new

\* Whoever drains credits what the service has caught up with.
LEMMA DrainKeeps ==
    ASSUME RouteInv,
           credited' = [l \in DOMAIN credited |->
                          credited[l] + Cardinality({n \in Acknowledged : Credit(n) = l})]
    PROVE  /\ credited' \in [1..MostLegs -> Nat]
           /\ \A l \in 1..MostLegs : credited'[l] > 0 =>
                \E n \in 0..(sequence - 1) : LegAt(n) = l /\ CaughtUp(n)
           /\ program # "legs" /\ credited[1] > 0 => credited'[1] > 0
           /\ program # "legs" /\ Acknowledged # {} => credited'[1] > 0
<1>1. /\ DOMAIN credited = 1..MostLegs
      /\ sequence \in Nat /\ program \in Programs /\ Len(leg_of) = sequence
      /\ \A l \in 1..MostLegs : credited[l] \in Nat
  BY DEF RouteInv, Typed
<1>2. \A l \in 1..MostLegs :
        /\ Cardinality({n \in Acknowledged : Credit(n) = l}) \in Nat
        /\ Cardinality({n \in Acknowledged : Credit(n) = l}) > 0 <=>
             {n \in Acknowledged : Credit(n) = l} # {}
  BY NewCredits DEF RouteInv
<1>3. \A l \in 1..MostLegs :
        credited'[l] = credited[l] + Cardinality({n \in Acknowledged : Credit(n) = l})
  BY <1>1
<1>4. \A n \in Acknowledged : n \in 0..(sequence - 1) /\ Credit(n) = LegAt(n) /\ CaughtUp(n)
  <2> TAKE n \in Acknowledged
  <2>1. n \in 0..(sequence - 1)
    BY DEF RouteInv, Typed, Acknowledged
  <2>2. Credit(n) = LegAt(n)
    <3>1. n + 1 \in 1..sequence /\ (n + 1) - 1 = n
      BY <1>1, <2>1
    <3> QED
      BY <3>1 DEF RouteInv, InOrder, Credit
  <2>3. CaughtUp(n)
    <3>1. PICK i \in DOMAIN replies : replies[i].ok /\ replies[i].sequence = n
      BY DEF Acknowledged
    <3>2. i \in 1..Len(replies)
      BY <3>1 DEF RouteInv, Typed
    <3> QED
      BY <3>1, <3>2 DEF RouteInv, Heard
  <2> QED
    BY <2>1, <2>2, <2>3
<1>5. \A l \in 1..MostLegs : credited'[l] \in Nat
  BY <1>1, <1>2, <1>3
<1>6. ASSUME NEW l \in 1..MostLegs, credited'[l] > 0
      PROVE  \E n \in 0..(sequence - 1) : LegAt(n) = l /\ CaughtUp(n)
  <2>1. CASE credited[l] > 0
    BY <2>1 DEF RouteInv, Heard
  <2>2. CASE ~(credited[l] > 0)
    <3>1. {n \in Acknowledged : Credit(n) = l} # {}
      BY <1>1, <1>2, <1>3, <1>6, <2>2
    <3> QED
      BY <1>4, <3>1
  <2> QED
    BY <2>1, <2>2
<1>7. 1 \in 1..MostLegs
  BY Segments
<1>8. ASSUME program # "legs", credited[1] > 0 PROVE credited'[1] > 0
  BY <1>1, <1>2, <1>3, <1>7, <1>8
<1>9. ASSUME program # "legs", Acknowledged # {} PROVE credited'[1] > 0
  <2>1. PICK n \in Acknowledged : TRUE
    BY <1>9
  <2>2. n \in Nat /\ n < total
    <3>1. n \in 0..(sequence - 1) /\ sequence <= total /\ total \in Nat
      BY <1>1, <1>4, RouteIsLaid DEF RouteInv, Typed
    <3> QED
      BY <1>1, <3>1
  <2>3. LegAt(n) = 1
    <3>1. LegAt(n) \in 1..Len(legs)
      BY <1>1, <2>2, LegOfTick
    <3>2. Len(legs) = 1
      BY <1>1, <1>9, RouteIsLaid
    <3> QED
      BY <3>1, <3>2
  <2>4. {m \in Acknowledged : Credit(m) = 1} # {}
    BY <1>4, <2>1, <2>3
  <2> QED
    BY <1>1, <1>2, <1>3, <1>7, <2>4
<1> QED
  BY <1>1, <1>5, <1>6, <1>8, <1>9

-----------------------------------------------------------------------------
(* The steps. *)

LEMMA RouteInit == Init => RouteInv
<1> SUFFICES ASSUME Init PROVE RouteInv
  OBVIOUS
<1>1. /\ program \in Programs /\ clock = 0 /\ pc = "driving" /\ sequence = 0
      /\ leg_of = <<>> /\ pending = {} /\ stop_acked = FALSE /\ interrupted = FALSE
      /\ credited = [l \in 1..MostLegs |-> 0]
      /\ packets = {} /\ replies = <<>> /\ late = 0
      /\ actions = Stop /\ client_sequences = NoSequences
  BY DEF Init, ServiceInit
<1>2. Entry = NoEntry /\ DOMAIN client_sequences = Addresses
  BY <1>1, RouteAssumption DEF Entry, NoSequences
<1>3. Typed
  <2>1. total \in Nat
    BY <1>1, RouteIsLaid
  <2>2. IsFiniteSet({})
    BY FS_EmptySet
  <2>3. credited \in [1..MostLegs -> Nat]
    BY <1>1
  <2> QED
    BY <1>1, <2>1, <2>2, <2>3 DEF Typed
<1>4. InOrder /\ InFlight
  BY <1>1 DEF InOrder, InFlight
<1>5. Served
  BY <1>1, <1>2 DEF Served
<1>6. Heard
  BY <1>1 DEF Heard
<1>7. InTime
  BY <1>1 DEF InTime, OnTime, Awaiting
<1> QED
  BY <1>3, <1>4, <1>5, <1>6, <1>7 DEF RouteInv

\* What the steps that neither drive, read nor serve leave as it was: all but
\* the clock, pc, interrupted, late, and packets, to which they may add a stop.
Aside ==
    /\ UNCHANGED <<program, sequence, leg_of, pending, credited, stop_acked, replies>>
    /\ UNCHANGED <<client_sequences>> /\ (actions' = actions \/ actions' = Stop)
    /\ pc' \in {"driving", "stopping", "closed"} /\ (pc # "driving" => pc' # "driving")
    /\ packets' \subseteq packets \union {Packet(sequence, Stop)}
    /\ pc' = "driving" => packets' \subseteq packets
    /\ clock' \in Nat /\ late' \in Nat

LEMMA AsideKeeps ==
    ASSUME RouteInv, Aside
    PROVE  Typed' /\ InOrder' /\ InFlight' /\ Served' /\ Heard'
<1> USE DEF RouteInv, Aside
<1>1. /\ program \in Programs /\ sequence \in Nat /\ legs' = legs /\ total' = total
      /\ \A t : LegAt(t)' = LegAt(t)
      /\ Entry' = Entry /\ \A n : CaughtUp(n)' = CaughtUp(n)
  BY SameRoute DEF Typed, Entry, CaughtUp
<1>2. Typed'
  <2>1. IsFiniteSet(packets \union {Packet(sequence, Stop)})
    BY FS_AddElement DEF Typed
  <2>2. IsFiniteSet(packets')
    BY <2>1, FS_Subset
  <2> QED
    BY <1>1, <2>2 DEF Typed
<1>3. InOrder'
  BY <1>1 DEF InOrder
<1>4. \A n, cmd : MayBe(n, cmd) => MayBe(n, cmd)'
  BY <1>1 DEF MayBe, Sent
<1>5. InFlight'
  <2> SUFFICES ASSUME NEW p \in packets'
               PROVE  /\ p.src = Port /\ p.session = Session
                      /\ p.sequence \in Nat /\ p.cmd \in Drives \union {Stop}
                      /\ MayBe(p.sequence, p.cmd)'
    BY DEF InFlight
  <2>1. CASE p \in packets
    BY <1>4, <2>1 DEF InFlight
  <2>2. CASE p = Packet(sequence, Stop) /\ pc' # "driving"
    BY <1>1, <2>2 DEF Packet, MayBe, Sent
  <2> QED
    BY <2>1, <2>2
<1>6. Served'
  <2>1. \A n : Sent(n) => Sent(n)'
    BY DEF Sent
  <2> QED
    BY <1>1, <1>4, <2>1 DEF Served
<1>7. Heard'
  BY <1>1 DEF Heard
<1> QED
  BY <1>2, <1>3, <1>5, <1>6, <1>7

LEMMA SendKeeps ==
    ASSUME RouteInv, NEW cmd \in Drives \union {Stop}, Send(cmd),
           program = "legs" => cmd = legs[LegAt(clock)].cmd
    PROVE  RouteInv'
<1> USE DEF RouteInv
<1>1. /\ pc = "driving" /\ clock < total /\ sequence = clock
      /\ packets' = packets \union {Packet(sequence, cmd)}
      /\ sequence' = sequence + 1 /\ leg_of' = Append(leg_of, LegAt(clock))
      /\ replies' = <<>> /\ pending' = (pending \ Acknowledged) \union {sequence}
      /\ credited' = [l \in DOMAIN credited |->
                        credited[l] + Cardinality({n \in Acknowledged : Credit(n) = l})]
      /\ UNCHANGED <<client_sequences, actions, program, clock, pc, stop_acked,
                     interrupted, late>>
  BY DEF Send, service
<1>2. /\ program \in Programs /\ sequence \in Nat /\ legs' = legs /\ total' = total
      /\ \A t : LegAt(t)' = LegAt(t)
      /\ Entry' = Entry /\ (\A n : CaughtUp(n)' = CaughtUp(n)) /\ ~stop_acked
  BY <1>1, SameRoute DEF Typed, Entry, CaughtUp, Heard
<1>3. total \in Nat /\ LegAt(clock) \in Nat /\ Len(leg_of) = sequence /\ leg_of \in Seq(Nat)
  <2>1. LegAt(clock) \in 1..Len(legs) /\ Len(legs) \in Nat /\ total \in Nat
    BY <1>1, <1>2, LegOfTick, RouteIsLaid
  <2> QED
    BY <2>1 DEF Typed
<1>4. Typed'
  <2>1. IsFiniteSet(packets')
    BY <1>1, FS_AddElement DEF Typed
  <2>2. leg_of' \in Seq(Nat) /\ Len(leg_of') = sequence'
    BY <1>1, <1>2, <1>3
  <2>3. pending' \subseteq 0..(sequence' - 1)
    <3>1. \A n \in pending' : n \in 0..sequence
      BY <1>1, <1>2 DEF Typed
    <3>2. sequence' - 1 = sequence
      BY <1>1, <1>2
    <3> QED
      BY <3>1, <3>2
  <2>4. credited' \in [1..MostLegs -> Nat]
    BY <1>1, DrainKeeps
  <2>5. sequence' \in Nat /\ sequence' <= total'
    BY <1>1, <1>2, <1>3
  <2> QED
    BY <1>1, <2>1, <2>2, <2>3, <2>4, <2>5 DEF Typed
<1>5. InOrder'
  <2> SUFFICES ASSUME NEW n \in 1..sequence' PROVE leg_of'[n] = LegAt(n - 1)
    BY <1>2 DEF InOrder
  <2>1. CASE n = sequence + 1
    BY <1>1, <1>2, <1>3, <2>1
  <2>2. CASE n # sequence + 1
    BY <1>1, <1>2, <1>3, <2>2 DEF InOrder
  <2> QED
    BY <2>1, <2>2
<1>6. \A n \in Nat : Sent(n) => n < sequence /\ n < sequence' /\ n # sequence' /\ Sent(n)'
  BY <1>1, <1>2 DEF Sent
<1>7. \A c : \A n \in Nat : MayBe(n, c) => MayBe(n, c)'
  BY <1>1, <1>2, <1>6 DEF MayBe
<1>8. InFlight'
  <2> SUFFICES ASSUME NEW p \in packets'
               PROVE  /\ p.src = Port /\ p.session = Session
                      /\ p.sequence \in Nat /\ p.cmd \in Drives \union {Stop}
                      /\ MayBe(p.sequence, p.cmd)'
    BY DEF InFlight
  <2>1. CASE p \in packets
    BY <1>7, <2>1 DEF InFlight
  <2>2. CASE p = Packet(sequence, cmd)
    BY <1>1, <1>2, <2>2 DEF Packet, MayBe, Sent
  <2> QED
    BY <1>1, <2>1, <2>2
<1>9. Served'
  BY <1>1, <1>2, <1>6, <1>7 DEF Served
<1>10. Heard'
  <2>1. \A l \in 1..MostLegs : credited'[l] > 0 =>
          \E n \in 0..(sequence - 1) : LegAt(n) = l /\ CaughtUp(n)
    BY <1>1, DrainKeeps
  <2>2. \A n \in 0..(sequence - 1) : n \in 0..(sequence' - 1)
    BY <1>1, <1>2
  <2>3. \A l \in 1..MostLegs : credited'[l] > 0 =>
          \E n \in 0..(sequence' - 1) : LegAt(n)' = l /\ CaughtUp(n)'
    BY <1>2, <2>1, <2>2
  <2>4. 1..Len(replies') = {} /\ ~stop_acked'
    BY <1>1, <1>2
  <2> QED
    BY <2>3, <2>4 DEF Heard
<1>11. InTime'
  <2> SUFFICES ASSUME program # "legs", late = 0, ~interrupted
               PROVE  OnTime' /\ Awaiting'
    BY <1>1 DEF InTime
  <2>1. OnTime /\ Awaiting
    BY DEF InTime
  <2>2. OnTime'
    <3>1. packets' = {Packet(sequence, cmd)}
      BY <1>1, <2>1 DEF OnTime
    <3> QED
      BY <1>1, <1>2, <3>1 DEF OnTime, Packet
  <2>3. \A n \in pending' : Awaited(n)'
    <3> TAKE n \in pending'
    <3>1. CASE n = sequence
      <4>1. Packet(sequence, cmd) \in packets' /\ Packet(sequence, cmd).sequence = sequence
        BY <1>1 DEF Packet
      <4> QED
        BY <3>1, <4>1 DEF Awaited
    <3>2. CASE n \in pending \ Acknowledged
      <4>1. \E p \in packets : p.sequence = n
        BY <2>1, <3>2 DEF Awaiting, Awaited, Acknowledged, Typed
      <4> QED
        BY <1>1, <4>1 DEF Awaited
    <3> QED
      BY <1>1, <3>1, <3>2
  <2> QED
    BY <1>1, <1>2, <2>1, <2>2, <2>3 DEF Awaiting
<1> QED
  BY <1>4, <1>5, <1>8, <1>9, <1>10, <1>11

LEMMA BeginStopKeeps ==
    ASSUME RouteInv, BeginStop \/ StopAnyway PROVE RouteInv'
<1> USE DEF RouteInv
<1>1. /\ pc = "driving" /\ pc' = "stopping" /\ clock' = 0 /\ sequence' = sequence
      /\ packets' = packets \union {Packet(sequence, Stop)}
      /\ UNCHANGED <<program, replies, pending, stop_acked, credited, late>>
  BY DEF BeginStop, StopAnyway
<1>2. Aside
  <2>1. UNCHANGED <<client_sequences, actions, leg_of>>
    BY DEF BeginStop, StopAnyway, service
  <2> QED
    BY <1>1, <2>1 DEF Aside, Typed
<1>3. InTime'
  <2> SUFFICES ASSUME program # "legs", late = 0, ~interrupted'
               PROVE  OnTime' /\ Awaiting'
    BY <1>1 DEF InTime
  <2>1. BeginStop /\ ~interrupted /\ clock = total
    BY DEF BeginStop, StopAnyway
  <2>2. OnTime /\ Awaiting /\ ~stop_acked
    BY <1>1, <2>1 DEF InTime, Heard
  <2>3. total \in Nat /\ total > 0 /\ sequence <= total /\ sequence \in Nat
    BY RouteIsLaid DEF Typed
  <2>4. packets = {} /\ sequence > 0
    BY <1>1, <2>1, <2>2, <2>3 DEF OnTime
  <2>5. OnTime'
    BY <1>1, <2>4 DEF OnTime, Packet
  <2>6. \A n : Awaited(n) => Awaited(n)'
    BY <1>1 DEF Awaited
  <2>7. Awaited(sequence)'
    <3>1. Packet(sequence, Stop) \in packets' /\ Packet(sequence, Stop).sequence = sequence
      BY <1>1 DEF Packet
    <3> QED
      BY <1>1, <3>1 DEF Awaited
  <2> QED
    BY <1>1, <2>2, <2>4, <2>5, <2>6, <2>7 DEF Awaiting
<1> QED
  BY <1>2, <1>3, AsideKeeps

LEMMA AbandonKeeps ==
    ASSUME RouteInv, Abandon PROVE RouteInv'
<1> USE DEF RouteInv
<1>1. Aside /\ interrupted'
  BY DEF Abandon, Aside, service, Typed
<1> QED
  BY <1>1, AsideKeeps DEF InTime

LEMMA CloseKeeps ==
    ASSUME RouteInv, Close PROVE RouteInv'
<1> USE DEF RouteInv
<1>1. /\ pc = "stopping" /\ pc' = "closed" /\ sequence' = sequence /\ clock' = clock
      /\ packets' = packets \union {Packet(sequence, Stop)}
      /\ UNCHANGED <<program, replies, pending, stop_acked, credited, late, interrupted>>
      /\ stop_acked \/ clock = CONFIRM_TICKS
  BY DEF Close
<1>2. Aside
  BY <1>1 DEF Close, Aside, service, Typed
<1>3. InTime'
  <2> SUFFICES ASSUME program # "legs", late = 0, ~interrupted
               PROVE  OnTime' /\ Awaiting'
    BY <1>1 DEF InTime
  <2>1. OnTime /\ Awaiting
    BY DEF InTime
  <2>2. stop_acked
    BY <1>1, <2>1, RouteAssumption DEF Awaiting
  <2>3. OnTime'
    BY <1>1, <2>1 DEF OnTime, Packet
  <2>4. \A n : Awaited(n) => Awaited(n)'
    BY <1>1 DEF Awaited
  <2> QED
    BY <1>1, <2>1, <2>2, <2>3, <2>4 DEF Awaiting
<1> QED
  BY <1>2, <1>3, AsideKeeps

LEMMA LoseKeeps ==
    ASSUME RouteInv, NEW p \in packets, Lose(p) PROVE RouteInv'
<1> USE DEF RouteInv
<1>1. late \in Nat /\ late' = late + 1
  BY DEF Lose, Typed
<1>2. Aside
  BY <1>1 DEF Lose, Aside, service, route, Typed
<1>3. late' # 0
  BY <1>1
<1> QED
  BY <1>2, <1>3, AsideKeeps DEF InTime

LEMMA WatchdogKeeps ==
    ASSUME RouteInv, Watchdog \/ UNCHANGED vars PROVE RouteInv'
<1> USE DEF RouteInv
<1>1. /\ UNCHANGED <<route, packets, replies, late, client_sequences>>
      /\ actions' = actions \/ actions' = Stop
  BY DEF Watchdog, WatchdogExpires, vars, service
<1>2. Aside
  BY <1>1 DEF Aside, route, Typed
<1>3. InTime'
  BY <1>1 DEF InTime, OnTime, Awaiting, Awaited, route
<1> QED
  BY <1>2, <1>3, AsideKeeps

LEMMA TickKeeps ==
    ASSUME RouteInv, Tick PROVE RouteInv'
<1> USE DEF RouteInv
<1>1. /\ UNCHANGED <<client_sequences, actions, program, pc, sequence, leg_of, pending,
                     credited, stop_acked, interrupted, replies>>
      /\ pc = "driving" => sequence = clock + 1
      /\ pc = "stopping" => ~stop_acked /\ replies = <<>>
      /\ late' = late + Cardinality(packets)
      /\ clock' = IF pc = "closed" THEN clock ELSE clock + 1
      /\ packets' = IF pc = "stopping" THEN packets \union {Packet(sequence, Stop)}
                    ELSE packets
      /\ clock \in Nat /\ late \in Nat /\ pc \in {"driving", "stopping", "closed"}
  BY DEF Tick, ServiceTick, Typed
<1>2. Cardinality(packets) \in Nat /\ (Cardinality(packets) = 0 => packets = {})
  BY FS_CardinalityType, FS_EmptySet DEF Typed
<1>3. Aside
  BY <1>1, <1>2 DEF Aside
<1>4. InTime'
  <2> SUFFICES ASSUME program # "legs", late' = 0, ~interrupted
               PROVE  OnTime' /\ Awaiting'
    BY <1>1 DEF InTime
  <2>1. late = 0 /\ packets = {}
    BY <1>1, <1>2
  <2>2. OnTime /\ Awaiting
    BY <2>1 DEF InTime
  <2>3. pc # "stopping"
    BY <1>1, <2>1, <2>2 DEF Awaiting, Awaited
  <2>4. packets' = {}
    BY <1>1, <2>1, <2>3
  <2>5. OnTime'
    BY <1>1, <2>4 DEF OnTime
  <2>6. \A n : Awaited(n) => Awaited(n)'
    BY <1>1, <2>1 DEF Awaited
  <2> QED
    BY <1>1, <2>2, <2>3, <2>5, <2>6 DEF Awaiting
<1> QED
  BY <1>3, <1>4, AsideKeeps

LEMMA ReadKeeps ==
    ASSUME RouteInv, ReadForStop PROVE RouteInv'
<1> USE DEF RouteInv
<1>1. /\ pc = "stopping" /\ ~stop_acked /\ stop_acked' = StopHeard /\ replies' = <<>>
      /\ UNCHANGED <<client_sequences, actions, program, clock, pc, sequence, leg_of,
                     interrupted, packets, late>>
      /\ IF KeepsCredits THEN Drain ELSE UNCHANGED <<pending, credited>>
  BY DEF ReadForStop, Drain, service
<1>2. /\ program \in Programs /\ sequence \in Nat /\ legs' = legs /\ total' = total
      /\ \A t : LegAt(t)' = LegAt(t)
      /\ Entry' = Entry /\ \A n : CaughtUp(n)' = CaughtUp(n)
  BY <1>1, SameRoute DEF Typed, Entry, CaughtUp
<1>3. /\ pending' \subseteq pending
      /\ credited' \in [1..MostLegs -> Nat]
      /\ \A l \in 1..MostLegs : credited'[l] > 0 =>
           \E n \in 0..(sequence - 1) : LegAt(n) = l /\ CaughtUp(n)
      /\ program # "legs" /\ credited[1] > 0 => credited'[1] > 0
      /\ program # "legs" /\ Acknowledged # {} => credited'[1] > 0
      /\ program # "legs" => pending' = pending \ Acknowledged
  <2>1. CASE KeepsCredits
    <3>1. Drain
      BY <1>1, <2>1
    <3> QED
      BY <3>1, DrainKeeps DEF Drain
  <2>2. CASE ~KeepsCredits
    BY <1>1, <2>2 DEF KeepsCredits, Typed, Heard
  <2> QED
    BY <2>1, <2>2
<1>4. Typed' /\ InOrder' /\ InFlight' /\ Served'
  <2>1. Typed'
    BY <1>1, <1>2, <1>3 DEF Typed
  <2>2. InOrder'
    BY <1>1, <1>2 DEF InOrder
  <2>3. \A n : (\A c : MayBe(n, c)' = MayBe(n, c)) /\ Sent(n)' = Sent(n)
    BY <1>1, <1>2 DEF MayBe, Sent
  <2>4. InFlight'
    BY <1>1, <2>3 DEF InFlight
  <2>5. Served'
    BY <1>1, <1>2, <2>3 DEF Served
  <2> QED
    BY <2>1, <2>2, <2>4, <2>5
<1>5. Heard'
  <2>1. StopHeard => CaughtUp(sequence)
    BY DEF StopHeard, Heard, Typed
  <2> QED
    BY <1>1, <1>2, <1>3, <2>1 DEF Heard
<1>6. InTime'
  <2> SUFFICES ASSUME program # "legs", late = 0, ~interrupted
               PROVE  OnTime' /\ Awaiting'
    BY <1>1 DEF InTime
  <2>1. OnTime /\ Awaiting
    BY DEF InTime
  <2>2. OnTime'
    BY <1>1, <2>1 DEF OnTime
  <2>3. pending' = {}
    <3> SUFFICES ASSUME NEW n \in pending PROVE n \in Acknowledged
      BY <1>3
    <3>1. n # sequence /\ Awaited(n)
      BY <1>2, <2>1 DEF Awaiting, Typed
    <3>2. \E i \in 1..Len(replies) : replies[i].ok /\ replies[i].sequence = n
      BY <1>1, <2>1, <3>1 DEF Awaited, OnTime
    <3> QED
      BY <3>2 DEF Acknowledged, Typed
  <2>4. credited'[1] > 0
    BY <1>1, <1>3, <2>1, <2>3 DEF Awaiting
  <2>5. stop_acked' \/ Awaited(sequence)'
    BY <1>1, <2>1 DEF Awaiting, Awaited, StopHeard, Typed
  <2> QED
    BY <1>1, <2>1, <2>2, <2>3, <2>4, <2>5 DEF Awaiting
<1> QED
  BY <1>4, <1>5, <1>6

LEMMA DeliverKeeps ==
    ASSUME RouteInv, NEW p \in packets, Deliver(p) PROVE RouteInv'
<1> USE DEF RouteInv
<1>1. /\ UNCHANGED <<program, clock, pc, sequence, leg_of, pending, credited, stop_acked,
                     interrupted>>
      /\ packets' = packets \ {p}
      /\ (replies' = Append(replies, Reply(p)) /\ late' = late)
           \/ (replies' = replies /\ late' = late + 1)
  BY DEF Deliver, route
<1>2. /\ program \in Programs /\ sequence \in Nat /\ legs' = legs /\ total' = total
      /\ \A t : LegAt(t)' = LegAt(t)
      /\ replies \in Seq(Replies) /\ late \in Nat
  BY <1>1, SameRoute DEF Typed
<1>3. /\ p.src = Port /\ p.session = Session /\ p.sequence \in Nat
      /\ p.cmd \in Drives \union {Stop} /\ MayBe(p.sequence, p.cmd)
  BY DEF InFlight
<1>4. /\ Reply(p) \in Replies
      /\ Reply(p).sequence = p.sequence /\ Reply(p).ok = Acceptable(p)
      /\ Acceptable(p) \in BOOLEAN
  BY <1>3 DEF Reply, Replies, Acceptable, Stale
<1>5. /\ replies' \in Seq(Replies) /\ late' \in Nat
      /\ \A i \in 1..Len(replies') : \/ i \in 1..Len(replies) /\ replies'[i] = replies[i]
                                     \/ replies'[i] = Reply(p)
  BY <1>1, <1>2, <1>4
<1>6. Typed'
  <2>1. IsFiniteSet(packets')
    BY <1>1, FS_Subset DEF Typed
  <2> QED
    BY <1>1, <1>2, <1>5, <2>1 DEF Typed
<1>7. \A n : (\A c : MayBe(n, c)' = MayBe(n, c)) /\ Sent(n)' = Sent(n)
  BY <1>1, <1>2 DEF MayBe, Sent
<1>8. InOrder' /\ InFlight'
  BY <1>1, <1>2, <1>7 DEF InOrder, InFlight
<1>9. /\ Served'
      /\ \A n \in Int : CaughtUp(n) => Entry' # NoEntry /\ n <= Entry'[2]
      /\ Acceptable(p) => Entry' # NoEntry /\ p.sequence <= Entry'[2]
  <2>1. CASE ~Acceptable(p)
    <3>1. Entry' = Entry /\ UNCHANGED <<client_sequences, actions>>
      BY <2>1 DEF Deliver, Serve, Entry
    <3> QED
      BY <1>7, <2>1, <3>1 DEF Served, CaughtUp
  <2>2. CASE Acceptable(p)
    <3>1. /\ client_sequences' = [client_sequences EXCEPT ![Port] = <<Session, p.sequence>>]
          /\ actions' = p.cmd
      BY <1>3, <2>2 DEF Deliver, Serve
    <3>2. /\ Entry' = <<Session, p.sequence>> /\ Entry' # NoEntry /\ Entry'[1] = Session
          /\ Entry'[2] = p.sequence /\ DOMAIN client_sequences' = Addresses
      BY <3>1, RouteAssumption DEF Entry, NoEntry, Served
    <3>3. Entry # NoEntry => Entry[2] \in Nat /\ Entry[2] <= p.sequence
      BY <1>3, <2>2 DEF Acceptable, Stale, Entry, Served
    <3>4. Served'
      BY <1>3, <1>7, <3>1, <3>2 DEF Served, MayBe
    <3>5. ASSUME NEW n \in Int, CaughtUp(n) PROVE Entry' # NoEntry /\ n <= Entry'[2]
      BY <1>3, <3>2, <3>3, <3>5 DEF CaughtUp
    <3>6. Entry' # NoEntry /\ p.sequence <= Entry'[2]
      BY <1>3, <3>2
    <3> QED
      BY <3>4, <3>5, <3>6
  <2> QED
    BY <2>1, <2>2
<1>10. Heard'
  <2>1. ASSUME NEW i \in 1..Len(replies'), replies'[i].ok
        PROVE  Entry' # NoEntry /\ replies'[i].sequence <= Entry'[2]
    <3>1. CASE i \in 1..Len(replies) /\ replies'[i] = replies[i]
      <4>1. replies[i] \in Replies
        BY <1>2, <3>1
      <4>2. replies[i].sequence \in Int /\ CaughtUp(replies[i].sequence)
        BY <2>1, <3>1, <4>1 DEF Heard, Replies
      <4> QED
        BY <1>9, <3>1, <4>2
    <3>2. CASE replies'[i] = Reply(p)
      BY <1>4, <1>9, <2>1, <3>2
    <3> QED
      BY <1>5, <3>1, <3>2
  <2>2. stop_acked => pc # "driving" /\ Entry' # NoEntry /\ sequence <= Entry'[2]
    BY <1>2, <1>9 DEF Heard
  <2>3. \A l \in 1..MostLegs : credited[l] > 0 =>
          \E n \in 0..(sequence - 1) : LegAt(n) = l /\ Entry' # NoEntry /\ n <= Entry'[2]
    BY <1>2, <1>9 DEF Heard
  <2> QED
    BY <1>1, <1>2, <2>1, <2>2, <2>3 DEF Heard, CaughtUp
<1>11. InTime'
  <2> SUFFICES ASSUME program # "legs", late' = 0, ~interrupted
               PROVE  OnTime' /\ Awaiting'
    BY <1>1 DEF InTime
  <2>1. replies' = Append(replies, Reply(p)) /\ late = 0
    BY <1>1, <1>2
  <2>2. OnTime /\ Awaiting
    BY <2>1 DEF InTime
  <2>3. OnTime'
    BY <1>1, <2>2 DEF OnTime
  <2>4. Acceptable(p)
    <3>1. p.cmd # Fractional
      BY <1>3, ServiceAssumption
    <3>2. p.sequence = IF pc = "driving" THEN sequence - 1 ELSE sequence
      BY <2>2 DEF OnTime
    <3>3. Entry # NoEntry => Entry[2] \in Nat /\ Entry[2] <= p.sequence
      BY <1>2, <3>2 DEF Served, Sent
    <3> QED
      BY <1>3, <3>1, <3>3 DEF Acceptable, Stale, Entry
  <2>5. \A n : Awaited(n) => Awaited(n)'
    <3> SUFFICES ASSUME NEW n, Awaited(n) PROVE Awaited(n)'
      OBVIOUS
    <3>1. /\ Len(replies) + 1 \in 1..Len(replies') /\ replies'[Len(replies) + 1] = Reply(p)
          /\ \A i \in 1..Len(replies) : i \in 1..Len(replies') /\ replies'[i] = replies[i]
      BY <1>2, <1>4, <2>1
    <3>2. CASE \E q \in packets : q # p /\ q.sequence = n
      BY <1>1, <3>2 DEF Awaited
    <3>3. CASE p.sequence = n
      BY <1>4, <2>4, <3>1, <3>3 DEF Awaited
    <3>4. CASE \E i \in 1..Len(replies) : replies[i].ok /\ replies[i].sequence = n
      BY <3>1, <3>4 DEF Awaited
    <3> QED
      BY <3>2, <3>3, <3>4 DEF Awaited
  <2> QED
    BY <1>1, <2>2, <2>3, <2>5 DEF Awaiting
<1> QED
  BY <1>6, <1>8, <1>9, <1>10, <1>11

LEMMA RouteStep == RouteInv /\ [Next]_vars => RouteInv'
<1> SUFFICES ASSUME RouteInv, [Next]_vars PROVE RouteInv'
  OBVIOUS
<1>0. program \in Programs
  BY DEF RouteInv, Typed
<1>1. ASSUME StreamLeg PROVE RouteInv'
  <2>1. clock \in Nat /\ clock < total /\ program = "legs" /\ Send(legs[LegAt(clock)].cmd)
    BY <1>1 DEF StreamLeg, Send, RouteInv, Typed
  <2>2. legs[LegAt(clock)].cmd \in Drives \union {Stop}
    BY <1>0, <2>1, LegOfTick DEF Legs
  <2> QED
    BY <2>1, <2>2, SendKeeps
<1>2. ASSUME StreamSlot PROVE RouteInv'
  <2>1. legs[1].cmd \in Drives \/ program = "legs"
    BY <1>0, RouteIsLaid
  <2>2. CASE program # "legs" /\ Send(legs[1].cmd)
    BY <2>1, <2>2, SendKeeps
  <2>3. CASE program = "slots" /\ Send(Stop)
    BY <2>3, SendKeeps
  <2> QED
    BY <1>2, <2>2, <2>3 DEF StreamSlot
<1>3. ASSUME BeginStop \/ StopAnyway PROVE RouteInv'
  BY <1>3, BeginStopKeeps
<1>4. ASSUME Abandon PROVE RouteInv'
  BY <1>4, AbandonKeeps
<1>5. ASSUME ReadForStop PROVE RouteInv'
  BY <1>5, ReadKeeps
<1>6. ASSUME Close PROVE RouteInv'
  BY <1>6, CloseKeeps
<1>7. ASSUME NEW p \in packets, Deliver(p) PROVE RouteInv'
  BY <1>7, DeliverKeeps
<1>8. ASSUME NEW p \in packets, Lose(p) PROVE RouteInv'
  BY <1>8, LoseKeeps
<1>9. ASSUME Watchdog \/ UNCHANGED vars PROVE RouteInv'
  BY <1>9, WatchdogKeeps
<1>10. ASSUME Tick PROVE RouteInv'
  BY <1>10, TickKeeps
<1> QED
  BY <1>1, <1>2, <1>3, <1>4, <1>5, <1>6, <1>7, <1>8, <1>9, <1>10 DEF Next

LEMMA RouteInvariant == Spec => []RouteInv
  BY RouteInit, RouteStep, PTL DEF Spec

\* Once a stop -- of a gap, of the tail, or the last one -- has been acknowledged,
\* nothing that arrives late of the legs before it drives the base, in a route of
\* any number of segments over any network (build_timeline, run_route).
THEOREM StopsAreHeld == Spec => []StopsHold
<1>1. RouteInv => StopsHold
  <2> SUFFICES ASSUME RouteInv PROVE GapHolds /\ StoppedHolds
    BY DEF StopsHold
  <2> USE DEF RouteInv
  <2>1. program \in Programs /\ sequence \in Nat /\ sequence <= total /\ total \in Nat
    BY RouteIsLaid DEF Typed
  <2>2. StoppedHolds
    <3> SUFFICES ASSUME stop_acked PROVE actions = Stop
      BY DEF StoppedHolds
    <3>1. Entry # NoEntry /\ sequence <= Entry[2]
      BY DEF Heard, CaughtUp
    <3>2. Entry[2] = sequence
      BY <2>1, <3>1 DEF Served, Sent
    <3> QED
      BY <2>1, <3>1, <3>2 DEF Served, MayBe
  <2>3. GapHolds
    <3> DEFINE l == leg_of[sequence]
    <3> SUFFICES ASSUME pc = "driving", sequence > 0, legs[l].cmd = Stop, credited[l] > 0
                 PROVE  actions = Stop
      BY DEF GapHolds
    <3>1. sequence - 1 \in Nat /\ sequence - 1 < total
      BY <2>1
    <3>2. l = LegAt(sequence - 1) /\ l \in 1..Len(legs) /\ l \in 1..MostLegs
      <4>1. l = LegAt(sequence - 1)
        BY <2>1 DEF InOrder
      <4>2. l \in 1..Len(legs)
        BY <2>1, <3>1, <4>1, LegOfTick
      <4>3. Len(legs) \in 1..MostLegs /\ MostLegs \in Nat
        BY <2>1, RouteIsLaid, Segments
      <4> QED
        BY <4>1, <4>2, <4>3
    <3> HIDE DEF l
    <3>3. program = "legs"
      <4> SUFFICES ASSUME program # "legs" PROVE FALSE
        BY DEF Typed
      <4>1. Len(legs) = 1 /\ legs[1].cmd \in Drives
        BY <2>1, RouteIsLaid
      <4>2. l = 1
        BY <3>2, <4>1
      <4> QED
        BY <4>1, <4>2, ServiceAssumption
    <3>4. PICK n \in 0..(sequence - 1) : LegAt(n) = l /\ Entry # NoEntry /\ n <= Entry[2]
      BY <3>2 DEF Heard, CaughtUp
    <3>5. Entry[2] \in Nat /\ Entry[2] < sequence
      BY <3>4 DEF Served, Sent
    <3>6. l <= LegAt(Entry[2]) /\ LegAt(Entry[2]) <= l
      <4>1. Entry[2] < total /\ Entry[2] <= sequence - 1 /\ n \in Nat
        BY <2>1, <3>5
      <4>2. LegAt(n) <= LegAt(Entry[2])
        BY <2>1, <3>4, <3>5, <4>1, LegsInOrder
      <4>3. LegAt(Entry[2]) <= LegAt(sequence - 1)
        BY <2>1, <3>1, <3>5, <4>1, LegsInOrder
      <4> QED
        BY <3>2, <3>4, <4>2, <4>3
    <3>7. LegAt(Entry[2]) = l
      <4>1. LegAt(Entry[2]) \in Int /\ l \in Int
        BY <2>1, <3>2, <3>5, LegOfTick, RouteIsLaid
      <4> QED
        BY <3>6, <4>1
    <3> QED
      BY <3>3, <3>4, <3>5, <3>7 DEF Served, MayBe
  <2> QED
    BY <2>2, <2>3
<1> QED
  BY <1>1, RouteInvariant, PTL

\* The programs that drain their socket until the stop is acknowledged know of
\* every packet the network has answered in time, and exit with 0.
THEOREM SlotsCredited == Spec => []SlotsAreCredited
<1>1. RouteInv => SlotsAreCredited
  <2> SUFFICES ASSUME RouteInv, program # "legs", pc = "closed", ~interrupted, late = 0
               PROVE  pending = {} /\ ExitStatus = 0
    BY DEF SlotsAreCredited, CreditedIfHeard
  <2>1. Awaiting /\ program \in {"slots", "loop"}
    BY DEF RouteInv, InTime, Typed, Programs
  <2>2. stop_acked /\ pending = {} /\ credited[1] > 0
    BY <2>1 DEF Awaiting
  <2>3. ExitStatus = 0
    BY <2>1, <2>2 DEF ExitStatus
  <2> QED
    BY <2>2, <2>3
<1> QED
  BY <1>1, RouteInvariant, PTL

-----------------------------------------------------------------------------
(***************************************************************************)
(* The other client that keeps a session open: module StreamLink, over the *)
(* same service and network.                                               *)
(***************************************************************************)

\* The packets in the network from number n on are all stops.
OnlyStopsFrom(n) == \A p \in packets : p.sequence >= n => p.cmd = Stop

\* Numbers are given out in order, and the service has none it was not sent.
Numbered ==
    /\ sequence \in Nat
    /\ \A p \in packets : /\ p.src = Port /\ p.session = Session
                          /\ p.sequence \in Nat /\ p.sequence < sequence
    /\ Entry # NoEntry =>
         /\ Entry[1] = Session
         /\ Entry[2] \in Nat /\ Entry[2] < sequence
    /\ DOMAIN client_sequences = Addresses
    /\ acknowledged \subseteq Nat /\ \A r \in replies : r.sequence \in Nat

\* Whatever is acknowledged, or about to be, the service has caught up with,
\* while it has not failed.
Acknowledges ==
    restarts = 0 =>
      /\ \A r \in replies : r.ok => Entry # NoEntry /\ r.sequence <= Entry[2]
      /\ \A n \in acknowledged : Entry # NoEntry /\ n <= Entry[2]

\* During stop(), nothing from its first packet on drives.
Stopping ==
    phase \in {"stopping", "tail"} =>
      /\ stop_sequence \in Nat
      /\ OnlyStopsFrom(stop_sequence)
      /\ Entry # NoEntry /\ Entry[2] >= stop_sequence => actions = Stop

\* After it, nothing that the service would still accept drives.
Stopped ==
    result = "true" /\ restarts = 0 =>
      /\ actions = Stop
      /\ Entry # NoEntry
      /\ OnlyStopsFrom(Entry[2])

StopInv ==
    /\ restarts \in Nat
    /\ Numbered /\ Acknowledges /\ Stopping /\ Stopped

LEMMA StopInvStarts == StreamInit => StopInv
  BY StreamAssumption DEF StreamInit, ServiceInit,
         NoSequences, StopInv, Numbered, Acknowledges, Stopping, Stopped,
      OnlyStopsFrom, Entry

\* Sending stops keeps StopInv, whatever stop() remembers of them.
LEMMA StopsKeep ==
    ASSUME StopInv, UNCHANGED <<service, acknowledged, replies, restarts>>,
           result' = result, sequence' \in Nat, sequence <= sequence',
           packets \subseteq packets',
           \A p \in packets' \ packets :
             /\ p.src = Port /\ p.session = Session /\ p.cmd = Stop
             /\ p.sequence \in Nat /\ sequence <= p.sequence /\ p.sequence < sequence',
           \/ stop_sequence' = stop_sequence /\ phase \in {"stopping", "tail"}
           \/ stop_sequence' = sequence
    PROVE  StopInv'
<1> USE DEF StopInv
<1>0. /\ UNCHANGED <<client_sequences, actions>> /\ Entry' = Entry
      /\ sequence \in Nat
      /\ Entry # NoEntry => Entry[2] \in Nat /\ Entry[2] < sequence
  BY DEF service, Entry, Numbered
<1>1. ASSUME NEW p \in packets'
      PROVE  /\ p.src = Port /\ p.session = Session
             /\ p.sequence \in Nat /\ p.sequence < sequence'
             /\ p \in packets \/ (p.cmd = Stop /\ p.sequence >= sequence)
  <2>1. CASE p \in packets
    BY <1>0, <2>1 DEF Numbered
  <2>2. CASE p \notin packets
    BY <1>0, <1>1, <2>2
  <2> QED
    BY <2>1, <2>2
<1>2. Numbered'
  BY <1>0, <1>1 DEF Numbered
<1>3. Acknowledges'
  BY <1>0 DEF Acknowledges
<1>4. Stopping'
  <2>1. CASE stop_sequence' = stop_sequence /\ phase \in {"stopping", "tail"}
    BY <1>0, <1>1, <2>1 DEF Stopping, OnlyStopsFrom
  <2>2. CASE stop_sequence' = sequence
    <3>1. OnlyStopsFrom(sequence)'
      <4>1. ASSUME NEW p \in packets', p.sequence >= sequence PROVE p.cmd = Stop
        <5>1. p \notin packets
          BY <1>0, <4>1 DEF Numbered
        <5> QED
          BY <1>1, <5>1
      <4> QED
        BY <1>1, <4>1, <2>2 DEF OnlyStopsFrom, Numbered
    <3>2. ~(Entry # NoEntry /\ Entry[2] >= sequence)
      BY <1>0
    <3> QED
      BY <1>0, <1>1, <2>2, <3>1, <3>2 DEF Stopping, OnlyStopsFrom, Numbered
  <2> QED
    BY <2>1, <2>2
<1>5. Stopped'
  BY <1>0, <1>1 DEF Stopped, OnlyStopsFrom
<1> QED
  BY <1>2, <1>3, <1>4, <1>5

\* What the service does with one packet, the acknowledgement included.
LEMMA ServingKeeps ==
    ASSUME StopInv, NEW p \in packets, StreamDeliver(p)
    PROVE  StopInv'
<1> USE DEF StopInv
<1>0. /\ packets' \subseteq packets /\ replies' = replies \union {Reply(p)}
      /\ UNCHANGED <<phase, sequence, acknowledged, stop_sequence, result, restarts>>
  BY DEF StreamDeliver, stream
<1>1. /\ p.src = Port /\ p.session = Session /\ p.sequence \in Nat
      /\ p.sequence < sequence /\ sequence \in Nat
      /\ Entry # NoEntry => Entry[1] = Session /\ Entry[2] \in Nat
      /\ Port \in DOMAIN client_sequences
      /\ Reply(p).sequence = p.sequence /\ Reply(p).ok = Acceptable(p)
  BY StreamAssumption DEF Numbered, Reply
<1>2. CASE ~Acceptable(p)
  <2>1. Entry' = Entry /\ UNCHANGED <<client_sequences, actions>>
    BY <1>2 DEF StreamDeliver, Serve, Entry
  <2>2. Numbered'
    BY <1>0, <1>1, <2>1 DEF Numbered
  <2>3. Acknowledges'
    BY <1>0, <1>1, <1>2, <2>1 DEF Acknowledges
  <2>4. Stopping' /\ Stopped'
    BY <1>0, <2>1 DEF Stopping, Stopped, OnlyStopsFrom
  <2> QED
    BY <1>0, <2>2, <2>3, <2>4
<1>3. CASE Acceptable(p)
  <2>1. /\ client_sequences' = [client_sequences EXCEPT ![p.src] = <<p.session, p.sequence>>]
        /\ actions' = p.cmd
    BY <1>3 DEF StreamDeliver, Serve
  <2>2. Entry' = <<Session, p.sequence>> /\ Entry' # NoEntry /\ Entry'[2] = p.sequence
    BY <1>1, <2>1 DEF Entry, NoEntry
  <2>3. Entry # NoEntry => Entry[2] <= p.sequence
    BY <1>1, <1>3 DEF Acceptable, Stale, Entry
  <2>4. Numbered'
    BY <1>0, <1>1, <2>1, <2>2 DEF Numbered
  <2>5. Acknowledges'
    <3>1. SUFFICES ASSUME restarts = 0
                   PROVE  /\ \A r \in replies' : r.ok => r.sequence <= p.sequence
                          /\ \A n \in acknowledged : n <= p.sequence
      BY <1>0, <2>2 DEF Acknowledges
    <3>2. ASSUME NEW r \in replies', r.ok PROVE r.sequence <= p.sequence
      <4>1. CASE r \in replies
        BY <1>1, <2>3, <3>1, <3>2, <4>1 DEF Acknowledges, Numbered
      <4>2. CASE r = Reply(p)
        BY <1>1, <4>2
      <4> QED
        BY <1>0, <4>1, <4>2
    <3>3. ASSUME NEW n \in acknowledged PROVE n <= p.sequence
      BY <1>1, <2>3, <3>1, <3>3 DEF Acknowledges, Numbered
    <3> QED
      BY <3>2, <3>3
  <2>6. Stopping'
    BY <1>0, <1>1, <2>1, <2>2 DEF Stopping, OnlyStopsFrom
  <2>7. Stopped'
    <3>1. SUFFICES ASSUME result = "true", restarts = 0
                   PROVE  p.cmd = Stop /\ OnlyStopsFrom(p.sequence)'
      BY <1>0, <2>1, <2>2 DEF Stopped, OnlyStopsFrom
    <3>2. Entry # NoEntry /\ OnlyStopsFrom(Entry[2])
      BY <3>1 DEF Stopped
    <3>3. p.cmd = Stop
      BY <2>3, <3>2 DEF OnlyStopsFrom
    <3>4. ASSUME NEW q \in packets', q.sequence >= p.sequence PROVE q.cmd = Stop
      <4>1. q \in packets /\ q.sequence \in Nat
        BY <1>0 DEF Numbered
      <4>2. q.sequence >= Entry[2]
        BY <1>1, <2>3, <3>2, <3>4, <4>1
      <4> QED
        BY <3>2, <4>1, <4>2 DEF OnlyStopsFrom
    <3> QED
      BY <1>0, <1>1, <3>3, <3>4 DEF OnlyStopsFrom
  <2> QED
    BY <1>0, <2>4, <2>5, <2>6, <2>7
<1> QED
  BY <1>2, <1>3

LEMMA StopInvKeeps == StopInv /\ [StreamNext]_streamVars => StopInv'
<1> SUFFICES ASSUME StopInv, [StreamNext]_streamVars PROVE StopInv'
  OBVIOUS
<1>1. ASSUME NEW cmd \in Drives \union {Stop}, SendNow(cmd) PROVE StopInv'
  <2>1. /\ UNCHANGED <<service, phase, acknowledged, replies, restarts>>
        /\ Entry' = Entry /\ sequence' = sequence + 1 /\ sequence \in Nat
        /\ phase' = "ready" /\ result' = "none" /\ client_sequences' = client_sequences
    BY <1>1 DEF SendNow, service, Entry, StopInv, Numbered
  <2>2. Numbered'
    <3>1. ASSUME NEW p \in packets'
          PROVE  /\ p.src = Port /\ p.session = Session
                 /\ p.sequence \in Nat /\ p.sequence < sequence'
      BY <1>1, <2>1, <3>1 DEF SendNow, Packet, StopInv, Numbered
    <3> QED
      BY <2>1, <3>1 DEF StopInv, Numbered
  <2>3. Acknowledges' /\ Stopping' /\ Stopped'
    BY <2>1 DEF StopInv, Acknowledges, Stopping, Stopped
  <2> QED
    BY <2>1, <2>2, <2>3 DEF StopInv
<1>2. ASSUME StopBegins PROVE StopInv'
  <2>1. sequence \in Nat
    BY DEF StopInv, Numbered
  <2> QED
    BY <1>2, <2>1, StopsKeep DEF StopBegins, Packet
<1>3. ASSUME StopRetries PROVE StopInv'
  <2>1. sequence \in Nat
    BY DEF StopInv, Numbered
  <2>2. \A p \in packets' \ packets :
          /\ p.src = Port /\ p.session = Session /\ p.cmd = Stop
          /\ p.sequence = sequence
    BY <1>3 DEF StopRetries, Packet
  <2> QED
    BY <1>3, <2>1, <2>2, StopsKeep DEF StopRetries
<1>4. ASSUME StopTail PROVE StopInv'
  <2>1. sequence \in Nat
    BY DEF StopInv, Numbered
  <2> QED
    BY <1>4, <2>1, StopsKeep DEF StopTail, Packet
<1>5. ASSUME StopReturns PROVE StopInv'
  <2>1. UNCHANGED <<client_sequences, actions, Entry, packets, replies, sequence,
                    acknowledged, restarts>> /\ phase' = "ready"
    BY <1>5 DEF StopReturns, service, Entry
  <2>2. Numbered' /\ Acknowledges' /\ Stopping'
    BY <2>1 DEF StopInv, Numbered, Acknowledges, Stopping
  <2>3. Stopped'
    <3>1. SUFFICES ASSUME result' = "true", restarts = 0
                   PROVE  /\ actions = Stop /\ Entry # NoEntry
                          /\ OnlyStopsFrom(Entry[2])
      BY <2>1 DEF Stopped, OnlyStopsFrom
    <3>2. stop_sequence \in acknowledged /\ phase = "tail"
      BY <1>5, <3>1 DEF StopReturns, StopConfirmed
    <3>3. Entry # NoEntry /\ stop_sequence <= Entry[2] /\ Entry[2] \in Nat
      BY <3>1, <3>2 DEF StopInv, Acknowledges, Numbered
    <3>4. /\ stop_sequence \in Nat /\ actions = Stop
          /\ OnlyStopsFrom(stop_sequence)
      BY <3>2, <3>3 DEF StopInv, Stopping
    <3>5. ASSUME NEW p \in packets, p.sequence >= Entry[2] PROVE p.cmd = Stop
      <4>1. p.sequence \in Nat
        BY DEF StopInv, Numbered
      <4> QED
        BY <3>3, <3>4, <3>5, <4>1 DEF OnlyStopsFrom
    <3> QED
      BY <3>3, <3>4, <3>5 DEF OnlyStopsFrom
  <2> QED
    BY <2>1, <2>2, <2>3 DEF StopInv
<1>6. ASSUME NEW r \in replies, DrainOne(r) PROVE StopInv'
  <2>1. /\ UNCHANGED <<client_sequences, actions, Entry, packets, sequence, phase,
                       stop_sequence, result, restarts>>
        /\ replies' \subseteq replies
        /\ \A n \in acknowledged' : n \in acknowledged \/ (r.ok /\ n = r.sequence)
    BY <1>6 DEF DrainOne, service, Entry
  <2> QED
    BY <2>1 DEF StopInv, Numbered, Acknowledges, Stopping, Stopped, OnlyStopsFrom
<1>7. ASSUME NEW p \in packets, StreamDeliver(p) PROVE StopInv'
  BY <1>7, ServingKeeps
<1>8. ASSUME StreamLose PROVE StopInv'
  <2>1. /\ UNCHANGED <<client_sequences, actions, Entry, sequence, phase, acknowledged,
                       stop_sequence, result, restarts>>
        /\ replies' \subseteq replies /\ packets' \subseteq packets
    BY <1>8 DEF StreamLose, service, stream, Entry
  <2> QED
    BY <2>1 DEF StopInv, Numbered, Acknowledges, Stopping, Stopped, OnlyStopsFrom
<1>9. ASSUME Closes \/ Recover \/ StreamTick \/ UNCHANGED streamVars
      PROVE  StopInv'
  <2>1. /\ UNCHANGED <<client_sequences, actions, Entry, packets, replies, sequence,
                       acknowledged, stop_sequence, result, restarts>>
        /\ phase' = phase \/ phase' = "closed"
    BY <1>9 DEF Closes, Recover, ServiceRestarts, StreamTick,
                ServiceTick, streamVars, service,
                stream, Entry
  <2> QED
    BY <2>1 DEF StopInv, Numbered, Acknowledges, Stopping, Stopped, OnlyStopsFrom
<1>10. ASSUME StreamWatchdog PROVE StopInv'
  <2>1. /\ UNCHANGED <<client_sequences, Entry, packets, replies, sequence, phase,
                       acknowledged, stop_sequence, result, restarts>>
        /\ actions' = Stop
    BY <1>10 DEF StreamWatchdog, WatchdogExpires, stream, Entry
  <2> QED
    BY <2>1 DEF StopInv, Numbered, Acknowledges, Stopping, Stopped, OnlyStopsFrom
<1>11. ASSUME Fail PROVE StopInv'
  <2>1. /\ UNCHANGED <<packets, replies, sequence, phase, acknowledged,
                       stop_sequence, result>>
        /\ client_sequences' = NoSequences /\ restarts' = restarts + 1
    BY <1>11 DEF Fail, ServiceEnds, stream
  <2>2. Entry' = NoEntry /\ restarts' \in Nat /\ restarts' # 0
    BY <2>1, StreamAssumption DEF Entry, NoSequences, StopInv
  <2> QED
    BY <2>1, <2>2
    DEF StopInv, Numbered, Acknowledges, Stopping, Stopped, OnlyStopsFrom,
        NoSequences
<1> QED
  BY <1>1, <1>2, <1>3, <1>4, <1>5, <1>6, <1>7, <1>8, <1>9, <1>10, <1>11 DEF StreamNext

\* Of a stop that MotorStream.stop reports as confirmed nothing is undone by
\* the packets of before, however late, while the service lives and the
\* program does not drive again.
THEOREM ConfirmedHolds ==
    StreamSpec => []ConfirmedStopHolds
<1>1. StopInv => ConfirmedStopHolds
  BY DEF StopInv, Stopped, ConfirmedStopHolds
<1> QED
  BY StopInvStarts, StopInvKeeps, <1>1, PTL DEF StreamSpec
-----------------------------------------------------------------------------
(* A stream and the service implement LeasedOrders: the packets under way  *)
(* are the book, the next number is `sequence', the floor is what the      *)
(* service remembers, and the lease is what the watchdog leaves.           *)

StreamPackets ==
    [src : {Port}, session : {Session}, sequence : Nat, cmd : Drives \union {Stop}]

\* The numbers a stream gives, what it sends, and a service that lives while
\* something moves.
LeaseInv ==
    /\ sequence \in 0..(MAX_SEQUENCE + 2)
    /\ phase = "stopping" => sequence <= MAX_SEQUENCE
    /\ packets \in SUBSET StreamPackets
    /\ age \in 0..(WATCHDOG + 1)
    /\ actions # Stop => up

StreamOrder(p) == <<p.session, p.sequence, p.cmd>>

\* A stream starts with nothing sent and nothing moving.
LEMMA LeaseInvStarts == StreamInit => LeaseInv
  BY StreamAssumption, ServiceAssumption DEF StreamInit, ServiceInit, LeaseInv

\* Sending a row of packets keeps LeaseInv.
LEMMA RowKeepsLease ==
    ASSUME LeaseInv, UNCHANGED service, sequence' \in 0..(MAX_SEQUENCE + 2),
           phase' = "stopping" => sequence' <= MAX_SEQUENCE,
           \A p \in packets' : p \in packets \/ p \in StreamPackets
    PROVE  LeaseInv'
  BY DEF LeaseInv, service

\* Every step of a stream keeps LeaseInv.
LEMMA LeaseInvKeeps == LeaseInv /\ [StreamNext]_streamVars => LeaseInv'
<1> SUFFICES ASSUME LeaseInv, [StreamNext]_streamVars PROVE LeaseInv'
  OBVIOUS
<1>0. /\ sequence \in Nat /\ MAX_SEQUENCE \in Nat /\ WATCHDOG \in Nat
      /\ packets \in SUBSET StreamPackets /\ age \in Nat
  BY StreamAssumption, ServiceAssumption DEF LeaseInv
<1>1. ASSUME NEW n \in Nat, NEW cmd \in Drives \union {Stop}
      PROVE  Packet(n, cmd) \in StreamPackets
  BY <1>1 DEF Packet, StreamPackets
<1>2. ASSUME NEW cmd \in Drives \union {Stop}, SendNow(cmd) PROVE LeaseInv'
  <2>1. /\ UNCHANGED service /\ sequence' = sequence + 1 /\ sequence < MAX_SEQUENCE
        /\ phase' = "ready" /\ packets' = packets \union {Packet(sequence, cmd)}
    BY <1>2 DEF SendNow
  <2> QED
    BY <1>0, <1>1, <2>1, RowKeepsLease
<1>3. CASE StopBegins \/ StopRetries
  <2>1. /\ UNCHANGED service /\ sequence' = sequence + 1 /\ sequence < MAX_SEQUENCE
        /\ packets' = packets \union {Packet(sequence, Stop)}
    BY <1>3 DEF StopBegins, StopRetries
  <2> QED
    BY <1>0, <1>1, <2>1, RowKeepsLease
<1>4. CASE StopTail
  <2>1. /\ UNCHANGED service /\ sequence' = sequence + 2 /\ sequence <= MAX_SEQUENCE
        /\ phase' = "tail"
        /\ packets' = packets \union {Packet(sequence, Stop), Packet(sequence + 1, Stop)}
    BY <1>4 DEF StopTail, LeaseInv
  <2> QED
    BY <1>0, <1>1, <2>1, RowKeepsLease
<1>5. CASE \/ StopReturns \/ Closes \/ StreamLose \/ UNCHANGED streamVars
           \/ \E r \in replies : DrainOne(r)
  <2>1. /\ UNCHANGED <<service, sequence>> /\ packets' \subseteq packets
        /\ phase' = "stopping" => phase = "stopping"
    BY <1>5 DEF StopReturns, Closes, StreamLose, streamVars, stream, DrainOne
  <2> QED
    BY <2>1 DEF LeaseInv, service
<1>6. ASSUME NEW p \in packets, StreamDeliver(p) PROVE LeaseInv'
  <2>1. /\ UNCHANGED <<sequence, phase>> /\ packets' \subseteq packets
        /\ up /\ up' = up /\ age' \in {0, age}
    BY <1>6 DEF StreamDeliver, Serve, AgeAfter, stream
  <2> QED
    BY <1>0, <2>1 DEF LeaseInv
<1>7. CASE StreamWatchdog
  BY <1>7 DEF StreamWatchdog, WatchdogExpires, stream, LeaseInv
<1>8. CASE Fail
  BY <1>0, <1>8 DEF Fail, ServiceEnds, stream, LeaseInv
<1>9. CASE Recover
  BY <1>9 DEF Recover, ServiceRestarts, stream, LeaseInv
<1>10. CASE StreamTick
  <2>1. /\ UNCHANGED <<sequence, phase, packets, actions, up>>
        /\ age' = IF age > WATCHDOG THEN age ELSE age + 1
    BY <1>10 DEF StreamTick, ServiceTick
  <2>2. age' \in 0..(WATCHDOG + 1)
    BY <1>0, <2>1 DEF LeaseInv
  <2> QED
    BY <2>1, <2>2 DEF LeaseInv
<1> QED
  BY <1>2, <1>3, <1>4, <1>5, <1>6, <1>7, <1>8, <1>9, <1>10 DEF StreamNext

\* The orders see only these.
LEMMA OrdersSee ==
    ASSUME UNCHANGED <<packets, sequence, client_sequences, actions, age>>
    PROVE  UNCHANGED Orders!vars
  BY DEF Orders!vars, Floor, LeaseLeft

\* A stream starts where the leased orders start.
LEMMA StreamOrdersInit == StreamInit => Orders!Init
<1> SUFFICES ASSUME StreamInit PROVE Orders!Init
  OBVIOUS
<1>1. \A c \in {Session} : Floor(Port, c) = 0
  BY StreamAssumption DEF StreamInit, ServiceInit, NoSequences, Floor
<1> QED
  BY <1>1 DEF StreamInit, ServiceInit, Orders!Init, LeaseLeft

\* A row of new packets, each with its own number, is a row of orders.
LEMMA RowIsIssued ==
    ASSUME LeaseInv, UNCHANGED service,
           sequence' \in 0..(MAX_SEQUENCE + 2), sequence <= sequence',
           packets \subseteq packets',
           \A p \in packets' \ packets :
             p \in StreamPackets /\ sequence <= p.sequence /\ p.sequence < sequence',
           \A p, q \in packets' \ packets : p.sequence = q.sequence => p = q
    PROVE  Orders!Next
<1> DEFINE new == {StreamOrder(p) : p \in packets' \ packets}
<1>1. /\ sequence \in Nat /\ MAX_SEQUENCE \in Nat
  BY StreamAssumption DEF LeaseInv
<1>2. PICK end \in 0..(MAX_SEQUENCE + 2) : end = sequence'
  OBVIOUS
<1>3. new \in Orders!Orders(Session, sequence, end)
  <2>1. ASSUME NEW p \in packets' \ packets
        PROVE  StreamOrder(p) \in {Session} \X (sequence..(end - 1)) \X (Drives \union {Stop})
    <3>1. PICK at \in Nat : at = p.sequence
      BY DEF StreamPackets
    <3>2. at \in sequence..(end - 1)
      BY <1>1, <1>2, <3>1
    <3> QED
      BY <3>1, <3>2 DEF StreamOrder, StreamPackets
  <2>2. \A p, q \in packets' \ packets :
          StreamOrder(p)[2] = StreamOrder(q)[2] => StreamOrder(p) = StreamOrder(q)
    BY DEF StreamOrder
  <2>3. \A o \in new, k \in new : o[2] = k[2] => o = k
    BY <2>2
  <2> QED
    BY <2>1, <2>3 DEF Orders!Orders
<1>4. {StreamOrder(p) : p \in packets}' = {StreamOrder(p) : p \in packets} \union new
  OBVIOUS
<1>5. [c \in {Session} |-> sequence]' = [[c \in {Session} |-> sequence] EXCEPT ![Session] = end]
  BY <1>2
<1>6. UNCHANGED <<[c \in {Session} |-> Floor(Port, c)], actions, LeaseLeft>>
  BY DEF service, Floor, LeaseLeft
<1> HIDE DEF new
<1>7. Orders!Issue(Session, end)
  BY <1>1, <1>2, <1>3, <1>4, <1>5, <1>6 DEF Orders!Issue, StreamOrder
<1>8. \E c \in {Session}, n \in 0..(MAX_SEQUENCE + 2) : Orders!Issue(c, n)
  BY <1>7
<1> QED
  BY <1>8 DEF Orders!Next

\* A packet that leaves the network takes its order off the book.
LEMMA OrderLeaves ==
    ASSUME LeaseInv, NEW p \in packets, packets' = packets \ {p}
    PROVE  {StreamOrder(q) : q \in packets}' =
             {StreamOrder(q) : q \in packets} \ {StreamOrder(p)}
<1>1. ASSUME NEW q \in packets, StreamOrder(q) = StreamOrder(p) PROVE q = p
  <2>1. p \in StreamPackets /\ q \in StreamPackets
    BY DEF LeaseInv
  <2>2. q.session = p.session /\ q.sequence = p.sequence /\ q.cmd = p.cmd
    BY <1>1 DEF StreamOrder
  <2> QED
    BY <2>1, <2>2 DEF StreamPackets
<1> QED
  BY <1>1

\* A packet the service takes is an order obeyed, one it refuses is dropped.
LEMMA ServedIsObeyed ==
    ASSUME StopInv, LeaseInv, NEW p \in packets, StreamDeliver(p)
    PROVE  Orders!Next
<1> DEFINE o == StreamOrder(p)
<1>1. /\ p \in StreamPackets /\ p.src = Port /\ p.session = Session /\ p.sequence \in Nat
      /\ DOMAIN client_sequences = Addresses /\ Addresses = {Port}
      /\ client_sequences[Port] # NoEntry =>
           client_sequences[Port][1] = Session /\ client_sequences[Port][2] \in Nat
  BY StreamAssumption DEF LeaseInv, StreamPackets, StopInv, Numbered, Entry
<1>2. /\ Serve(p) /\ packets' = packets \ {p} /\ UNCHANGED [c \in {Session} |-> sequence]
  BY DEF StreamDeliver, stream
<1>3. {StreamOrder(q) : q \in packets}' = {StreamOrder(q) : q \in packets} \ {o}
  BY <1>2, OrderLeaves
<1>4. o \in {StreamOrder(q) : q \in packets}
  OBVIOUS
<1>5. CASE ~Acceptable(p)
  <2>1. UNCHANGED <<[c \in {Session} |-> Floor(Port, c)], actions, LeaseLeft>>
    BY <1>2, <1>5 DEF Serve, AgeAfter, Floor, LeaseLeft
  <2>2. Orders!Drop(o)
    BY <1>2, <1>3, <2>1 DEF Orders!Drop, StreamOrder
  <2> QED
    BY <1>4, <2>2 DEF Orders!Next, StreamOrder
<1>6. CASE Acceptable(p)
  <2>1. /\ client_sequences' =
             [client_sequences EXCEPT ![p.src] = <<p.session, p.sequence>>]
        /\ actions' = p.cmd /\ age' = 0
    BY <1>2, <1>6 DEF Serve, AgeAfter
  <2>2. Floor(Port, Session) \in Nat /\ Floor(Port, Session) <= p.sequence
    <3>1. client_sequences[Port] # NoEntry => ~(p.sequence < client_sequences[Port][2])
      BY <1>1, <1>6 DEF Acceptable, Stale
    <3> QED
      BY <1>1, <3>1 DEF Floor
  <2>3. Floor(Port, Session)' = p.sequence
    <3>1. client_sequences'[Port] = <<p.session, p.sequence>>
      BY <1>1, <2>1
    <3> QED
      BY <1>1, <3>1 DEF Floor, NoEntry
  <2>4. [c \in {Session} |-> Floor(Port, c)]' =
          [[c \in {Session} |-> Floor(Port, c)] EXCEPT ![Session] = p.sequence]
    BY <2>3
  <2>5. LeaseLeft' = IF p.cmd = Stop THEN 0 ELSE WATCHDOG + 1
    BY <2>1, ServiceAssumption DEF LeaseLeft
  <2>6. o[1] = Session /\ o[2] = p.sequence /\ o[3] = p.cmd
    BY <1>1 DEF StreamOrder
  <2> HIDE DEF o
  <2>7. o[2] >= [c \in {Session} |-> Floor(Port, c)][o[1]]
    BY <1>1, <2>2, <2>6
  <2>8. Orders!Obey(o)
    BY <1>2, <1>3, <2>1, <2>4, <2>5, <2>6, <2>7 DEF Orders!Obey, StreamOrder
  <2> QED
    BY <1>4, <2>8 DEF Orders!Next, StreamOrder
<1> QED
  BY <1>5, <1>6

\* What the network and the service do by themselves.
LEMMA OwnStepsLease ==
    ASSUME LeaseInv, StreamLose \/ StreamWatchdog \/ Fail \/ Recover \/ StreamTick
    PROVE  [Orders!Next]_(Orders!vars)
<1>0. WATCHDOG \in Nat /\ age \in Nat /\ age <= WATCHDOG + 1
  BY ServiceAssumption DEF LeaseInv
<1>1. CASE StreamLose
  <2>1. UNCHANGED <<sequence, client_sequences, actions, age>>
    BY <1>1 DEF StreamLose, service, stream
  <2>2. CASE packets' = packets
    BY <2>1, <2>2, OrdersSee
  <2>3. ASSUME NEW p \in packets, packets' = packets \ {p} PROVE Orders!Next
    <3>1. {StreamOrder(q) : q \in packets}' =
            {StreamOrder(q) : q \in packets} \ {StreamOrder(p)}
      BY <2>3, OrderLeaves
    <3>2. UNCHANGED <<[c \in {Session} |-> Floor(Port, c)], [c \in {Session} |-> sequence],
                      actions, LeaseLeft>>
      BY <2>1 DEF Floor, LeaseLeft
    <3>3. Orders!Drop(StreamOrder(p))
      BY <3>1, <3>2 DEF Orders!Drop, StreamOrder
    <3> QED
      BY <3>3 DEF Orders!Next, StreamOrder
  <2> QED
    BY <1>1, <2>2, <2>3 DEF StreamLose
<1>2. CASE StreamWatchdog
  <2>1. /\ actions # Stop /\ age > WATCHDOG /\ actions' = Stop
        /\ UNCHANGED <<packets, sequence, client_sequences, age>>
    BY <1>2 DEF StreamWatchdog, WatchdogExpires, WatchdogDue, stream
  <2>2. UNCHANGED <<{StreamOrder(q) : q \in packets}, [c \in {Session} |-> Floor(Port, c)],
                    [c \in {Session} |-> sequence]>>
    BY <2>1 DEF Floor
  <2>3. LeaseLeft = 0 /\ LeaseLeft' = 0
    BY <1>0, <2>1 DEF LeaseLeft
  <2>4. Orders!Expire
    BY <2>1, <2>2, <2>3 DEF Orders!Expire, StreamOrder
  <2> QED
    BY <2>4 DEF Orders!Next
<1>3. CASE Fail
  <2>1. /\ actions' = Stop /\ client_sequences' = NoSequences
        /\ UNCHANGED <<packets, sequence>>
    BY <1>3 DEF Fail, ServiceEnds, stream
  <2>2. \A c \in {Session} : Floor(Port, c)' = 0
    BY <2>1, StreamAssumption DEF Floor, NoSequences
  <2>3. /\ UNCHANGED <<{StreamOrder(q) : q \in packets}, [c \in {Session} |-> sequence]>>
        /\ LeaseLeft' = 0
    BY <2>1 DEF LeaseLeft
  <2>4. Orders!Forget
    BY <2>1, <2>2, <2>3 DEF Orders!Forget, StreamOrder
  <2> QED
    BY <2>4 DEF Orders!Next
<1>4. CASE Recover
  BY <1>4, OrdersSee DEF Recover, ServiceRestarts, stream
<1>5. CASE StreamTick
  <2>1. /\ ~WatchdogDue
        /\ age' = IF age > WATCHDOG THEN age ELSE age + 1
        /\ UNCHANGED <<packets, sequence, actions, client_sequences>>
    BY <1>5 DEF StreamTick, ServiceTick
  <2>2. UNCHANGED <<{StreamOrder(q) : q \in packets}, [c \in {Session} |-> Floor(Port, c)],
                    [c \in {Session} |-> sequence]>>
    BY <2>1 DEF Floor
  <2>3. CASE actions = Stop
    <3>1. Orders!Tick
      BY <2>1, <2>2, <2>3 DEF Orders!Tick, LeaseLeft, StreamOrder
    <3> QED
      BY <3>1 DEF Orders!Next
  <2>4. CASE actions # Stop
    <3>1. ~(age > WATCHDOG)
      BY <2>1, <2>4 DEF WatchdogDue, LeaseInv
    <3>2. age' = age + 1
      BY <1>0, <2>1, <3>1
    <3>3. LeaseLeft > 0 /\ LeaseLeft' = LeaseLeft - 1
      BY <1>0, <2>1, <2>4, <3>1, <3>2 DEF LeaseLeft
    <3>4. Orders!Tick
      BY <2>1, <2>2, <2>4, <3>3 DEF Orders!Tick, StreamOrder
    <3> QED
      BY <3>4 DEF Orders!Next
  <2> QED
    BY <2>3, <2>4
<1> QED
  BY <1>1, <1>2, <1>3, <1>4, <1>5

\* Every step of a stream is a step of the leased orders or none of them.
LEMMA StreamStepIsLeased ==
    StopInv /\ LeaseInv /\ [StreamNext]_streamVars => [Orders!Next]_(Orders!vars)
<1> SUFFICES ASSUME StopInv, LeaseInv, [StreamNext]_streamVars
             PROVE  [Orders!Next]_(Orders!vars)
  OBVIOUS
<1>0. sequence \in Nat /\ MAX_SEQUENCE \in Nat
  BY StreamAssumption DEF LeaseInv
<1>1. ASSUME NEW n \in Nat, NEW cmd \in Drives \union {Stop}
      PROVE  Packet(n, cmd) \in StreamPackets /\ Packet(n, cmd).sequence = n
  BY <1>1 DEF Packet, StreamPackets
<1>2. ASSUME NEW cmd \in Drives \union {Stop}, UNCHANGED service, sequence' = sequence + 1,
             sequence < MAX_SEQUENCE, packets' = packets \union {Packet(sequence, cmd)}
      PROVE  Orders!Next
  <2>1. \A p \in packets' \ packets : p = Packet(sequence, cmd)
    BY <1>2
  <2>2. \A p \in packets' \ packets : p \in StreamPackets /\ p.sequence = sequence
    BY <1>0, <1>1, <2>1
  <2>3. \A p, q \in packets' \ packets : p.sequence = q.sequence => p = q
    BY <2>1
  <2>4. sequence' \in 0..(MAX_SEQUENCE + 2) /\ sequence <= sequence'
    BY <1>0, <1>2
  <2>5. \A p \in packets' \ packets :
          p \in StreamPackets /\ sequence <= p.sequence /\ p.sequence < sequence'
    BY <1>0, <1>2, <2>2
  <2> QED
    BY <1>2, <2>3, <2>4, <2>5, RowIsIssued
<1>3. ASSUME NEW cmd \in Drives \union {Stop}, SendNow(cmd) PROVE Orders!Next
  BY <1>2, <1>3 DEF SendNow
<1>4. CASE StopBegins \/ StopRetries
  BY <1>2, <1>4 DEF StopBegins, StopRetries
<1>5. CASE StopTail
  <2>1. /\ UNCHANGED service /\ sequence' = sequence + 2 /\ sequence <= MAX_SEQUENCE
        /\ packets' = packets \union {Packet(sequence, Stop), Packet(sequence + 1, Stop)}
    BY <1>5 DEF StopTail, LeaseInv
  <2>2. ASSUME NEW p \in packets' \ packets
        PROVE  /\ p \in StreamPackets
               /\ \/ p = Packet(sequence, Stop) /\ p.sequence = sequence
                  \/ p = Packet(sequence + 1, Stop) /\ p.sequence = sequence + 1
    BY <1>0, <1>1, <2>1
  <2>3. \A p, q \in packets' \ packets : p.sequence = q.sequence => p = q
    BY <1>0, <2>2
  <2>4. sequence' \in 0..(MAX_SEQUENCE + 2) /\ sequence <= sequence'
    BY <1>0, <2>1
  <2>5. \A p \in packets' \ packets :
          p \in StreamPackets /\ sequence <= p.sequence /\ p.sequence < sequence'
    BY <1>0, <2>1, <2>2
  <2> QED
    BY <2>1, <2>3, <2>4, <2>5, RowIsIssued
<1>6. CASE StopReturns \/ Closes \/ UNCHANGED streamVars \/ \E r \in replies : DrainOne(r)
  <2>1. UNCHANGED <<service, packets, sequence>>
    BY <1>6 DEF StopReturns, Closes, streamVars, stream, DrainOne
  <2> QED
    BY <2>1, OrdersSee DEF service
<1>7. ASSUME NEW p \in packets, StreamDeliver(p) PROVE Orders!Next
  BY <1>7, ServedIsObeyed
<1>8. CASE StreamLose \/ StreamWatchdog \/ Fail \/ Recover \/ StreamTick
  BY <1>8, OwnStepsLease
<1> QED
  BY <1>3, <1>4, <1>5, <1>6, <1>7, <1>8 DEF StreamNext

\* A stream, whatever is lost, reordered or resent and however often the service
\* fails, is obeyed as numbered orders under a lease: each runs for no longer
\* than the watchdog allows, and none after a later one.
THEOREM StreamLeases == StreamSpec => OrdersAreLeased
<1> DEFINE Both == StopInv /\ LeaseInv
<1>1. StreamInit => Both /\ Orders!Init
  BY StopInvStarts, LeaseInvStarts, StreamOrdersInit
<1>2. Both /\ [StreamNext]_streamVars => Both' /\ [Orders!Next]_(Orders!vars)
  BY StopInvKeeps, LeaseInvKeeps, StreamStepIsLeased
<1> QED
  BY <1>1, <1>2, PTL DEF StreamSpec, OrdersAreLeased, Orders!Spec
=============================================================================
