-------------------------- MODULE TurnControlProof --------------------------
(***************************************************************************)
(* Closed-loop turns, module TurnControl: what a turn or a sweep reports   *)
(* is what the base did, a base that is wired the wrong way is stopped     *)
(* within what it takes to notice, and corrections help, for every coast,  *)
(* target, tolerance, time, and for any number of readings and stops that  *)
(* go wrong.                                                               *)
(***************************************************************************)
EXTENDS TurnControl, TLAPS

Speeds == {-1, 0, 1}

Places == {"idle", "prime", "gap", "start", "driving", "stopping", "settling", "deciding",
           "zeroing", "pulse", "resting", "ended"}

Parts == {"main", "correction", "nudge", "wake", "sweep"}

Bases == [heading : Int, speed : Speeds, driven : Speeds, slide : Nat,
          wired : {1, -1}, coast : COASTS]

Readings == [yaw : Int, rate : Speeds, age : 0..STALL + 1]

Turns == [pc : Places, part : Parts, next : {"idle", "gap", "settling", "ended"},
          target : Int, direction : {1, -1}, coast : Int, elapsed : Nat,
          moving : BOOLEAN, atStop : Int, before : Int, achieved : Int, woke : Int,
          slid : Int, floor : Int, tries : Nat, abort : BOOLEAN, exit : {None, 0, 2, 3},
          since : Nat, corrected : Nat, primed : BOOLEAN]

TurnTypes ==
    /\ base \in Bases /\ latest \in Readings /\ turn \in Turns
    /\ learned \in [{"left", "right"} -> Int] /\ faults \in Nat

-----------------------------------------------------------------------------
(* What a reading tells. *)

\* Faults are counted, and a base slides no further than it coasts.
Bounds ==
    /\ turn.since <= faults /\ turn.corrected <= faults
    /\ base.slide <= base.coast
    /\ turn.pc \notin {"driving", "stopping"} => base.driven = 0

\* The slide is over before a wait is.
Slowing ==
    turn.pc \in {"settling", "gap", "resting"} =>
      turn.elapsed <= SETTLE /\ base.slide <= SETTLE - turn.elapsed

\* What m ticks at a rate amount to.
Steps(rate, m) == IF rate = 1 THEN m ELSE IF rate = -1 THEN -m ELSE 0

\* The base has moved m times since the last reading.
MovedOn(m) ==
    /\ base.heading - latest.yaw = Steps(latest.rate, m)
    /\ base.speed \in {latest.rate, 0}

\* A reading of this wait is as many steps behind as readings went wrong since.
Behind(m) ==
    /\ m \in 0..latest.age + 1
    /\ MovedOn(m)
    /\ \A k \in {turn.since, turn.corrected} : m <= faults - k /\ latest.age <= faults - k

Reads ==
    turn.pc = "settling" /\ latest.age < turn.elapsed /\ latest.age <= STALL =>
      \E m \in 0..latest.age + 1 : Behind(m)

Late(k) == Least(STALL + 1, faults - k)

Near(yaw) ==
    \A k \in {turn.since, turn.corrected} :
        yaw - base.heading <= Late(k) /\ base.heading - yaw <= Late(k)

\* The turn is over, and was not cut short.
Closing ==
    \/ turn.pc = "stopping" /\ turn.next = "ended"
    \/ turn.pc = "ended"

Measured == turn.pc = "deciding" \/ (Closing /\ turn.exit = None /\ ~turn.abort)
                \/ (AtEnd /\ turn.exit = 0)

\* What was measured last is where the base is, and it stays there.
Rested ==
    Measured =>
      /\ base.driven = 0 /\ base.slide = 0 /\ Near(turn.achieved)
      /\ turn.pc = "deciding" => Near(Yaw)

\* What main makes of it.
Judged ==
    /\ AtEnd /\ turn.exit = 0 /\ ~Sweeping =>
         Abs(Error) <= Most(TOLERANCE, turn.floor)
    /\ AtEnd /\ turn.exit = 0 => turn.part # "wake"
    /\ Closing /\ turn.part = "wake" => turn.exit # None
    /\ Sweeping => /\ turn.pc \notin {"deciding", "prime", "gap", "start", "driving"}
                   /\ turn.next # "gap"
    /\ turn.pc \in {"zeroing", "pulse", "resting"} => Sweeping
    /\ turn.pc # "idle" => turn.exit \in {None, 2}
    /\ Sweeping => ~turn.abort
    /\ turn.exit # None => Closing \/ turn.pc = "idle"

\* A sweep: the yaw was zeroed, and nothing has gone wrong since.
Undisturbed == Sweeping /\ (turn.corrected = faults \/ turn.since = faults)

Zeroed ==
    Undisturbed =>
      /\ turn.pc = "pulse" => Yaw = 0
      /\ turn.pc = "settling" \/ (turn.pc = "stopping" /\ turn.next = "settling")
           \/ (Closing /\ turn.exit = None) \/ (AtEnd /\ turn.exit = 0)
             => turn.before = 0

TurnInv == Bounds /\ Slowing /\ Reads /\ Rested /\ Judged /\ Zeroed

-----------------------------------------------------------------------------
(* The wrong way. *)

Wanted == Sign(turn.target)
Against == -Wanted

\* How far the base has turned away from the target.
Astray == IF Wanted = 1 THEN -base.heading ELSE base.heading

\* How far it slides on that way, and how far it goes on in all once it is to stop.
Coasting == IF base.speed = Against THEN base.slide ELSE 0

ToCome ==
    IF turn.pc = "stopping" /\ base.driven = Wanted
    THEN Most(LEASE - turn.elapsed, 0) + base.coast ELSE Coasting

Released == LEASE + base.coast + 1
Before == IF turn.primed THEN Released ELSE 0

Priming == turn.pc \in {"prime", "gap"} \/ (turn.pc = "stopping" /\ turn.next = "gap")

\* Not a reading has the base moving while it is driven the wrong way.
Unnoticed == IF latest.rate # 0 THEN STALL + 2
             ELSE IF base.speed = Against THEN latest.age + 1 ELSE 0

WrongInv ==
    base.wired = -1 /\ turn.part = "main" /\ turn.pc # "idle" =>
      /\ Astray + ToCome <= Before + STALL + 1 + Released
      /\ Priming => /\ turn.primed /\ Astray + ToCome <= Released
                    /\ turn.direction = Wanted /\ base.driven # Against
      /\ turn.pc = "prime" => Astray <= 0 /\ base.slide = 0
      /\ turn.pc = "start" => Astray <= Before /\ base.slide = 0
      /\ Priming \/ turn.pc = "start" \/ (turn.pc = "driving" /\ turn.direction = Wanted)
           => latest.rate # Wanted /\ base.speed # Wanted
      /\ turn.pc = "driving" /\ turn.direction = Wanted
           => ~turn.moving /\ Astray <= Before + Unnoticed
      /\ turn.pc = "driving" /\ turn.direction = Against
           => Astray + ToCome <= Before /\ base.driven # Wanted

-----------------------------------------------------------------------------
(* Corrections. *)

\* What is learned, and so what a turn expects, is no less than nothing.
Learnt ==
    /\ turn.coast \in Nat
    /\ \A k \in {"left", "right"} : learned[k] \in Nat \cup {None}

\* How far the base is beyond the target, the way it is driven.
Beyond == IF turn.direction = 1 THEN base.heading - turn.target ELSE turn.target - base.heading

Fresh == latest.yaw = base.heading /\ latest.age = 0

\* The base slides what it coasts; or it has not moved, and was near enough before.
Coasts ==
    \/ /\ base.slide > 0 => base.speed = turn.direction
       /\ base.heading + Steps(turn.direction, base.slide)
            = turn.atStop + Steps(turn.direction, base.coast)
    \/ /\ base.slide = 0 /\ base.heading = turn.atStop
       /\ -turn.coast <= Beyond /\ Beyond <= 0

\* A main turn that nothing disturbs measures what the base coasts.
Straight == base.wired = 1 /\ turn.part = "main" /\ turn.since = faults

Measures ==
    Straight =>
      /\ turn.pc \in {"gap", "settling"} /\ turn.elapsed > 0 => Fresh
      /\ turn.pc = "start" => Fresh /\ base.slide = 0
      /\ turn.pc = "driving" =>
           /\ Fresh
           /\ \/ base.slide = 0 /\ Beyond <= 0
              \/ base.speed = turn.direction /\ base.slide = base.coast
      /\ turn.pc = "settling" \/ (turn.pc = "stopping" /\ turn.next = "settling")
           => turn.abort \/ Coasts

\* How far the base was from its target before the correction, what went wrong
\* until then, and how far it may be afterwards.
Left == Abs(turn.target - turn.before)
Wrong == turn.corrected - turn.since
Reach == IF Wrong = 0 THEN Left ELSE Most(Left, base.coast) + Wrong

\* The floor is no less than the coast, or else the base is near enough not to be driven.
Coarse ==
    base.wired = 1 /\ turn.since = faults /\ turn.part \in {"main", "correction"} =>
      /\ turn.pc = "deciding" => base.coast <= turn.floor \/ Abs(Error) <= turn.coast
      /\ turn.part = "correction" =>
           /\ turn.corrected = faults /\ turn.floor <= Left
           /\ base.coast <= turn.floor \/ Left <= turn.coast

\* A correction that nothing disturbs stays within its reach, and will.
Correcting == base.wired = 1 /\ turn.part = "correction" /\ turn.corrected = faults

Within ==
    /\ base.slide > 0 => base.speed = turn.direction
    /\ -(Left + Wrong) <= Beyond
    /\ Beyond + base.slide <= Reach

Corrects ==
    Correcting =>
      /\ turn.pc \notin {"prime", "gap"} /\ (turn.pc = "stopping" => turn.next # "gap")
      /\ turn.pc # "start" => Within
      /\ turn.pc = "start" =>
           base.slide = 0 /\ Abs(turn.target - base.heading) <= Left + Wrong
      /\ turn.pc \in {"start", "driving"} =>
           Yaw - base.heading <= Wrong /\ base.heading - Yaw <= Wrong

HelpInv == Learnt /\ Measures /\ Coarse /\ Corrects

-----------------------------------------------------------------------------
(* The base and the readings. *)

LEMMA Kinds ==
    /\ COASTS \subseteq Nat /\ TURNS \subseteq Int
    /\ DEFAULT_COAST \in Nat /\ MAX_COAST \in Nat /\ TOLERANCE \in Nat
    /\ MIN_CORRECTION \in Nat /\ MAX_TICKS \in Nat /\ SETTLE \in Nat
    /\ CONFIRM \in Nat /\ LEASE \in Nat /\ FRESH \in Nat /\ STALL \in Nat
    /\ LEASE < CONFIRM /\ FRESH <= STALL /\ STALL < SETTLE
    /\ \A c \in COASTS : c <= SETTLE
BY TurnAssumption, SettleAssumption

\* What a tick does to a base whose treads are driven by d.
Rolled(d) ==
    /\ base'.wired = base.wired /\ base'.coast = base.coast /\ base'.driven = d
    /\ base'.heading = base.heading + base'.speed
    /\ d = 0 => /\ base'.speed = (IF base.slide > 0 THEN base.speed ELSE 0)
                /\ base'.slide = Most(base.slide - 1, 0)
    /\ d # 0 => /\ \/ base'.speed = Steps(base.wired, d)
                   \/ base'.speed = 0 /\ base.speed = 0
                /\ base'.slide <= base.coast

LEMMA RollDoes ==
    ASSUME base \in Bases, NEW d \in Speeds, Roll(d)
    PROVE  base' \in Bases /\ Rolled(d)
<1>1. base.wired * d \in Speeds /\ base.wired * d = Steps(base.wired, d)
  BY DEF Bases, Speeds, Steps
<1>2. base.coast \in Nat
  BY Kinds DEF Bases
<1>3. PICK s \in IF d = 0 THEN {IF base.slide > 0 THEN base.speed ELSE 0}
             ELSE {base.wired * d} \cup (IF base.speed = 0 THEN {0} ELSE {}) :
        \E slide \in IF d = 0 THEN {Most(base.slide - 1, 0)}
                   ELSE IF s = 0 THEN {0}
                   ELSE IF turn.part # "main" THEN 0..base.coast ELSE {base.coast} :
        base' = [base EXCEPT !.heading = @ + s, !.speed = s, !.slide = slide, !.driven = d]
  BY DEF Roll
<1>4. PICK slide \in IF d = 0 THEN {Most(base.slide - 1, 0)}
                   ELSE IF s = 0 THEN {0}
                   ELSE IF turn.part # "main" THEN 0..base.coast ELSE {base.coast} :
        base' = [base EXCEPT !.heading = @ + s, !.speed = s, !.slide = slide, !.driven = d]
  BY <1>3
<1>5. s \in Speeds
  BY <1>1, <1>3 DEF Bases, Speeds
<1>6. slide \in Nat /\ (d # 0 => slide <= base.coast)
  BY <1>2, <1>4 DEF Bases, Most
<1>7. base' = [heading |-> base.heading + s, speed |-> s, driven |-> d, slide |-> slide,
               wired |-> base.wired, coast |-> base.coast]
  BY <1>4 DEF Bases
<1>8. base' \in Bases
  BY <1>5, <1>6, <1>7 DEF Bases, Speeds
<1>9. CASE d = 0
  BY <1>3, <1>4, <1>7, <1>8, <1>9 DEF Rolled
<1>10. CASE d # 0
  BY <1>1, <1>3, <1>6, <1>7, <1>8, <1>10 DEF Rolled
<1> QED
  BY <1>9, <1>10

\* What the client then knows.
Heard ==
    \/ faults' = faults /\ latest' = [yaw |-> base'.heading, rate |-> base'.speed, age |-> 0]
    \/ faults' = faults + 1
       /\ latest' = [yaw |-> base.heading, rate |-> base.speed, age |-> 0]
    \/ faults' = faults + 1 /\ latest' = Older

LEMMA OlderTyped ==
    ASSUME latest \in Readings
    PROVE  /\ Older \in Readings
           /\ Older.yaw = latest.yaw /\ Older.rate = latest.rate
           /\ Older.age = Least(latest.age + 1, STALL + 1)
BY Kinds DEF Readings, Older, Least

LEMMA PumpDoes ==
    ASSUME base \in Bases, base' \in Bases, latest \in Readings, faults \in Nat, Pump
    PROVE  latest' \in Readings /\ faults' \in Nat /\ faults <= faults' /\ Heard
<1>1. Heard
  BY DEF Pump, Fault, Heard
<1>2. latest' \in Readings
  BY <1>1, Kinds, OlderTyped DEF Heard, Readings, Bases
<1> QED
  BY <1>1, <1>2 DEF Heard

LEMMA YawTyped ==
    ASSUME latest \in Readings
    PROVE  /\ Yaw \in Int
           /\ Yaw = (IF latest.age \in 1..FRESH
                     THEN latest.yaw + Steps(latest.rate, latest.age) ELSE latest.yaw)
<1>1. latest.yaw \in Int /\ latest.rate \in Speeds /\ latest.age \in Nat
  BY Kinds DEF Readings
<1>2. latest.rate * latest.age = Steps(latest.rate, latest.age)
  BY <1>1 DEF Speeds, Steps
<1>3. Steps(latest.rate, latest.age) \in Int
  BY <1>1 DEF Steps
<1> QED
  BY <1>1, <1>2, <1>3 DEF Yaw

-----------------------------------------------------------------------------
(* Types. *)

LEMMA IdleTyped == Idle \in Turns
BY DEF Idle, Turns, Places, Parts, None

LEMMA TurnInit == Init => TurnTypes
<1> SUFFICES ASSUME Init PROVE TurnTypes
  OBVIOUS
<1>1. base \in Bases
  BY Kinds DEF Init, Bases, Speeds
<1>2. latest \in Readings
  BY Kinds DEF Init, Readings, Speeds
<1>3. turn \in Turns
  BY IdleTyped DEF Init
<1> QED
  BY <1>1, <1>2, <1>3 DEF Init, TurnTypes, None

\* A turn that comes to its end, and what is measured of it.
LEMMA EndedTyped ==
    ASSUME NEW t \in Turns
    PROVE  /\ Ended(t) \in Turns
           /\ [Ended(t) EXCEPT !.exit = 2] \in Turns
BY DEF Ended, Turns, Places

LEMMA StoredTyped ==
    ASSUME TurnTypes, NEW key \in {"left", "right"}
    PROVE  StoredCoast(key) \in Int
BY Kinds DEF TurnTypes, StoredCoast, None

LEMMA ZeroTyped ==
    ASSUME latest \in Readings, NEW b \in Bases, faults \in Nat, Zero(b)
    PROVE  /\ base' \in Bases /\ base' = [b EXCEPT !.heading = 0]
           /\ latest' \in Readings /\ faults' \in Nat /\ faults <= faults'
           /\ latest'.rate = b.speed
           /\ faults' = faults => latest'.yaw = 0 /\ latest'.age = 0
BY Kinds DEF Zero, Fault, Bases, Readings

LEMMA StillTyped ==
    ASSUME base \in Bases
    PROVE  Still \in Bases
BY DEF Still, Bases, Speeds

\* Where the measurement leads to, in each part of a program.
LEMMA AfterTyped ==
    ASSUME base \in Bases, turn \in Turns, NEW t \in Turns
    PROVE  AfterMain(t) \in Turns /\ AfterCorrection(t) \in Turns /\ AfterNudge(t) \in Turns
           /\ AfterWake(t) \in Turns /\ AfterPulse(t) \in Turns
<1>0. t.tries + 1 \in Nat /\ -t.direction \in {1, -1} /\ base.heading \in Int
  BY DEF Turns, Bases
<1>1. AfterMain(t) \in Turns
  <2> DEFINE coast == t.achieved - t.atStop
             main == [t EXCEPT !.slid = coast]
  <2>1. coast \in Int /\ Floor(coast) \in Int
    BY Kinds DEF Turns, Floor, Most, Abs
  <2>2. main \in Turns
    BY <2>1 DEF Turns
  <2>3. [main EXCEPT !.pc = "deciding", !.floor = Floor(coast)] \in Turns
    BY <2>1, <2>2 DEF Turns, Places
  <2> QED
    BY <2>2, <2>3, EndedTyped DEF AfterMain
<1>2. [t EXCEPT !.pc = "deciding", !.tries = @ + 1] \in Turns
  BY <1>0 DEF Turns, Places
<1>3. AfterCorrection(t) \in Turns /\ AfterNudge(t) \in Turns
  BY <1>2, EndedTyped DEF AfterCorrection, AfterNudge
<1>4. AfterWake(t) \in Turns
  <2>1. [t EXCEPT !.pc = "zeroing", !.part = "sweep", !.tries = 0, !.direction = 1,
                  !.woke = base.heading] \in Turns
    BY <1>0 DEF Turns, Places, Parts
  <2>2. [t EXCEPT !.pc = "resting", !.elapsed = 0, !.tries = 1, !.direction = -@] \in Turns
    BY <1>0 DEF Turns, Places
  <2> QED
    BY <2>1, <2>2, EndedTyped DEF AfterWake
<1>5. AfterPulse(t) \in Turns
  <2>1. [t EXCEPT !.pc = "resting", !.elapsed = 0, !.tries = @ + 1, !.direction = -@] \in Turns
    BY <1>0 DEF Turns, Places
  <2> QED
    BY <2>1, EndedTyped DEF AfterPulse
<1> QED
  BY <1>1, <1>3, <1>4, <1>5

LEMMA TypesStep ==
    ASSUME TurnTypes, Next
    PROVE  TurnTypes'
<1>0. /\ base \in Bases /\ latest \in Readings /\ turn \in Turns /\ faults \in Nat
      /\ learned \in [{"left", "right"} -> Int]
  BY DEF TurnTypes
<1>a. Fault => faults' \in Nat
  BY <1>0 DEF Fault
<1>b. turn.direction \in Speeds /\ 0 \in Speeds /\ base.driven \in Speeds
  BY <1>0 DEF Turns, Speeds, Bases
<1>c. Older \in Readings /\ Yaw \in Int
  BY <1>0, OlderTyped, YawTyped
<1>d. turn.tries + 1 \in Nat /\ turn.elapsed + 1 \in Nat
  BY <1>0 DEF Turns
<1>1. ASSUME NEW degrees \in TURNS, Begin(degrees) PROVE TurnTypes'
  <2>1. degrees \in Int /\ Key(degrees) \in {"left", "right"} /\ Sign(degrees) \in {1, -1}
    BY Kinds DEF Key, Sign
  <2>2. StoredCoast(Key(degrees)) \in Int
    BY <2>1, StoredTyped
  <2>3. base' \in Bases /\ latest' \in Readings /\ faults' \in Nat
    BY <1>0, <1>1, StillTyped, ZeroTyped DEF Begin
  <2>4. PICK prime \in BOOLEAN :
          turn' = [Idle EXCEPT !.pc = IF prime THEN "prime" ELSE "start", !.primed = prime,
                               !.target = degrees, !.direction = Sign(degrees),
                               !.since = faults, !.coast = StoredCoast(Key(degrees))]
    BY <1>1 DEF Begin
  <2>5. turn' \in Turns
    BY <1>0, <2>1, <2>2, <2>4, IdleTyped DEF Turns, Places
  <2> QED
    BY <1>0, <1>1, <2>3, <2>5 DEF Begin, TurnTypes
<1>2. CASE Prime
  <2>1. base' \in Bases
    BY <1>0, <1>b, <1>2, RollDoes DEF Prime
  <2>2. turn' \in Turns
    BY <1>0, <1>2 DEF Prime, Turns, Places
  <2> QED
    BY <1>0, <1>c, <1>2, <2>1, <2>2 DEF Prime, TurnTypes
<1>3. CASE Start
  <2>1. turn' \in Turns
    BY <1>0, <1>3 DEF Start, Turns, Places, Towards
  <2> QED
    BY <1>0, <1>3, <2>1 DEF Start, TurnTypes
<1>4. CASE Turning
  <2>1. base' \in Bases
    BY <1>0, <1>b, <1>4, RollDoes DEF Turning
  <2>2. latest' \in Readings /\ faults' \in Nat
    BY <1>0, <1>4, <2>1, PumpDoes DEF Turning
  <2>3. Least(turn.elapsed + 1, MAX_TICKS) \in Nat
    BY <1>d, Kinds DEF Least
  <2>4. (turn.moving \/ latest.rate # 0) \in BOOLEAN
    OBVIOUS
  <2>5. turn' \in Turns
    BY <1>0, <1>4, <2>3, <2>4 DEF Turning, Turns
  <2> QED
    BY <1>0, <1>4, <2>1, <2>2, <2>5 DEF Turning, TurnTypes
<1>5. CASE Release
  <2>1. Aborted \in BOOLEAN
    BY DEF Aborted, TimedOut, WrongWay, NeverStarted
  <2>2. turn' \in Turns
    BY <1>0, <1>c, <1>5, <2>1 DEF Release, Turns, Places
  <2> QED
    BY <1>0, <1>5, <2>2 DEF Release, TurnTypes
<1>6. CASE StopObeyed
  <2>1. base' \in Bases
    BY <1>0, <1>6 DEF StopObeyed, Bases, Speeds
  <2>2. turn' \in Turns
    BY <1>0, <1>6 DEF StopObeyed, Turns, Places
  <2> QED
    BY <1>0, <1>6, <2>1, <2>2 DEF StopObeyed, TurnTypes
<1>7. CASE StopUnheard
  <2>1. PICK d \in {0, IF turn.elapsed < LEASE THEN base.driven ELSE 0} : Roll(d)
    BY <1>7 DEF StopUnheard
  <2>2. base' \in Bases
    BY <1>0, <1>b, <2>1, RollDoes
  <2>3. [turn EXCEPT !.elapsed = @ + 1] \in Turns
    BY <1>0, <1>d DEF Turns
  <2>4. [turn EXCEPT !.pc = turn.next, !.elapsed = 0] \in Turns
    BY <1>0 DEF Turns, Places
  <2>5. turn' \in Turns
    BY <1>7, <2>3, <2>4 DEF StopUnheard
  <2> QED
    BY <1>0, <1>a, <1>c, <1>7, <2>2, <2>5 DEF StopUnheard, TurnTypes
<1>8. CASE Settle
  <2>1. base' \in Bases
    BY <1>0, <1>b, <1>8, RollDoes DEF Settle
  <2>2. latest' \in Readings /\ faults' \in Nat
    BY <1>0, <1>8, <2>1, PumpDoes DEF Settle
  <2>3. turn' \in Turns
    BY <1>0, <1>d, <1>8 DEF Settle, Turns
  <2> QED
    BY <1>0, <1>8, <2>1, <2>2, <2>3 DEF Settle, TurnTypes
<1>9. CASE Waited
  <2>1. turn' \in Turns
    BY <1>0, <1>9 DEF Waited, Turns, Places
  <2> QED
    BY <1>0, <1>9, <2>1 DEF Waited, TurnTypes
<1>10. CASE Settled
  <2> DEFINE t == [turn EXCEPT !.achieved = Yaw]
  <2>1. t \in Turns
    BY <1>0, <1>c DEF Turns
  <2>2. /\ AfterMain(t) \in Turns /\ AfterCorrection(t) \in Turns /\ AfterNudge(t) \in Turns
        /\ AfterWake(t) \in Turns /\ AfterPulse(t) \in Turns
    BY <1>0, <2>1, AfterTyped
  <2>3. turn.part \in Parts
    BY <1>0 DEF Turns
  <2>4. turn' = CASE turn.part = "main" -> AfterMain(t)
                  [] turn.part = "correction" -> AfterCorrection(t)
                  [] turn.part = "nudge" -> AfterNudge(t)
                  [] turn.part = "wake" -> AfterWake(t)
                  [] turn.part = "sweep" -> AfterPulse(t)
    BY <1>10 DEF Settled
  <2> HIDE DEF t
  <2>5. turn' \in Turns
    BY <2>2, <2>3, <2>4 DEF Parts
  <2> QED
    BY <1>0, <1>10, <2>5 DEF Settled, TurnTypes
<1>11. CASE Decide
  BY <1>0, <1>11, EndedTyped DEF Decide, TurnTypes
<1>12. CASE Correct
  <2>1. turn' \in Turns
    BY <1>0, <1>12 DEF Correct, Turns, Places, Parts
  <2> QED
    BY <1>0, <1>12, <2>1 DEF Correct, TurnTypes
<1>13. CASE BeginNudges
  <2>1. turn' \in Turns
    BY <1>0, <1>c, <1>13 DEF BeginNudges, Turns, Parts
  <2> QED
    BY <1>0, <1>13, <2>1 DEF BeginNudges, TurnTypes
<1>14. ASSUME NEW d \in Speeds, PulseRotate(d) PROVE TurnTypes'
  <2>1. base' \in Bases
    BY <1>0, <1>14, RollDoes DEF PulseRotate
  <2>2. latest' \in Readings /\ faults' \in Nat
    BY <1>0, <1>14, <2>1, PumpDoes DEF PulseRotate
  <2>3. turn' \in Turns
    BY <1>0, <1>c, <1>14 DEF PulseRotate, Turns, Places
  <2> QED
    BY <1>0, <1>14, <2>1, <2>2, <2>3 DEF PulseRotate, TurnTypes
<1>15. CASE Nudge
  <2>1. Sign(Error) \in Speeds
    BY DEF Sign, Speeds
  <2> QED
    BY <1>14, <1>15, <2>1 DEF Nudge
<1>16. CASE Pulse
  BY <1>b, <1>14, <1>16 DEF Pulse
<1>17. CASE BeginSweep
  <2>1. turn' \in Turns
    BY <1>0, <1>17, IdleTyped DEF BeginSweep, Turns, Places, Parts
  <2> QED
    BY <1>0, <1>17, <2>1, StillTyped DEF BeginSweep, TurnTypes
<1>18. CASE ZeroYaw
  <2>1. base' \in Bases /\ latest' \in Readings /\ faults' \in Nat
    BY <1>0, <1>18, ZeroTyped DEF ZeroYaw
  <2>2. turn' \in Turns
    BY <1>0, <1>18 DEF ZeroYaw, Turns, Places
  <2> QED
    BY <1>0, <1>18, <2>1, <2>2 DEF ZeroYaw, TurnTypes
<1>19. CASE Raise
  <2>1. Ended(turn) \in Turns
    BY <1>0, EndedTyped
  <2>2. (IF turn.pc = "stopping" THEN turn.elapsed ELSE 0) \in Nat
    BY <1>0 DEF Turns
  <2>3. turn' \in Turns
    BY <1>19, <2>1, <2>2 DEF Raise, Turns
  <2> QED
    BY <1>0, <1>a, <1>19, <2>3 DEF Raise, TurnTypes
<1>20. CASE Report
  <2>1. Result \in {None, 0, 2, 3}
    BY <1>0 DEF Result, Turns
  <2>2. turn' \in Turns
    BY <1>0, <1>20, <2>1 DEF Report, Turns, Places
  <2>3. ASSUME NEW p \in Int, NEW c \in Int PROVE Blend(p, c) \in Int
    BY Kinds DEF Blend, Most, Least
  <2>4. Key(turn.target) \in {"left", "right"} /\ Abs(turn.slid) \in Int
    BY <1>0 DEF Key, Turns, Abs
  <2>5. learned' \in [{"left", "right"} -> Int]
    BY <1>0, <1>20, <2>3, <2>4 DEF Report
  <2> QED
    BY <1>0, <1>20, <2>2, <2>5 DEF Report, TurnTypes
<1>21. CASE TornSave
  BY <1>0, <1>a, <1>21, IdleTyped DEF TornSave, TurnTypes, None
<1> QED
  BY <1>1, <1>2, <1>3, <1>4, <1>5, <1>6, <1>7, <1>8, <1>9, <1>10, <1>11, <1>12, <1>13, <1>15,
     <1>16, <1>17, <1>18, <1>19, <1>20, <1>21 DEF Next, Step

-----------------------------------------------------------------------------
(* What was measured. *)

LEMMA Numbers ==
    ASSUME TurnTypes
    PROVE  /\ base.heading \in Int /\ base.speed \in Int /\ base.slide \in Nat
           /\ base.coast \in Nat /\ base.coast <= SETTLE /\ base.driven \in Speeds
           /\ latest.yaw \in Int /\ latest.rate \in Speeds /\ latest.age \in Nat
           /\ turn.elapsed \in Nat /\ turn.since \in Nat /\ turn.corrected \in Nat
           /\ turn.achieved \in Int /\ turn.before \in Int /\ turn.target \in Int
           /\ faults \in Nat /\ turn \in Turns
<1>1. /\ base.heading \in Int /\ base.speed \in Speeds /\ base.slide \in Nat
      /\ base.coast \in COASTS /\ base.driven \in Speeds
  BY DEF TurnTypes, Bases
<1>2. latest.yaw \in Int /\ latest.rate \in Speeds /\ latest.age \in Nat
  BY Kinds DEF TurnTypes, Readings
<1>3. turn \in Turns /\ faults \in Nat
  BY DEF TurnTypes
<1>4. /\ turn.elapsed \in Nat /\ turn.since \in Nat /\ turn.corrected \in Nat
      /\ turn.achieved \in Int /\ turn.before \in Int /\ turn.target \in Int
  BY <1>3 DEF Turns
<1>5. base.coast \in Nat /\ base.coast <= SETTLE
  BY <1>1, Kinds
<1>6. base.speed \in Int
  BY <1>1 DEF Speeds
<1> QED
  BY <1>1, <1>2, <1>3, <1>4, <1>5, <1>6

\* A base that is at rest stays where it was measured to be.
LEMMA NearStays ==
    ASSUME TurnTypes, faults' \in Nat, Near(turn.achieved), faults <= faults',
           base'.heading = base.heading, turn'.achieved = turn.achieved,
           turn'.since = turn.since, turn'.corrected = turn.corrected
    PROVE  Near(turn.achieved)'
BY Numbers, Kinds DEF Near, Late, Least

\* A reading at the end of a wait errs by no more than it may be late.
LEMMA BehindIsNear ==
    ASSUME TurnTypes, Bounds, NEW m \in 0..latest.age + 1, Behind(m), latest.age <= STALL
    PROVE  Near(Yaw)
<1>1. Yaw \in Int
  BY YawTyped DEF TurnTypes
<1>2. CASE latest.age \in 1..FRESH
  <2>1. Yaw = latest.yaw + Steps(latest.rate, latest.age)
    BY <1>2, YawTyped DEF TurnTypes
  <2> QED
    BY <1>1, <2>1, Numbers, Kinds DEF Behind, MovedOn, Steps, Speeds, Near, Late, Least, Bounds
<1>3. CASE latest.age \notin 1..FRESH
  <2>1. Yaw = latest.yaw
    BY <1>3, YawTyped DEF TurnTypes
  <2> QED
    BY <1>1, <2>1, Numbers, Kinds DEF Behind, MovedOn, Steps, Speeds, Near, Late, Least, Bounds
<1> QED
  BY <1>2, <1>3

LEMMA PrimePulseKeeps ==
    ASSUME TurnTypes, TurnTypes', TurnInv, Prime
    PROVE  TurnInv'
<1>0. turn.direction \in Speeds
  BY DEF TurnTypes, Turns, Speeds
<1>1. Rolled(turn.direction)
  BY <1>0, RollDoes DEF Prime, TurnTypes
<1>2. turn' = [turn EXCEPT !.pc = "stopping", !.next = "gap", !.elapsed = 0] /\ faults' = faults
  BY DEF Prime
<1>3. Bounds' /\ Slowing' /\ Reads' /\ Rested'
  BY <1>0, <1>1, <1>2, Numbers, Kinds
     DEF TurnInv, Bounds, Slowing, Reads, Rested, Measured, Closing, AtEnd, Turns, Rolled
<1>4. Judged' /\ Zeroed'
  BY <1>2, Numbers
     DEF TurnInv, Prime, Judged, Zeroed, Closing, AtEnd, Sweeping, Undisturbed, Turns, None
<1> QED
  BY <1>3, <1>4 DEF TurnInv

LEMMA BeginKeeps ==
    ASSUME TurnTypes, TurnInv, NEW degrees \in TURNS, Begin(degrees)
    PROVE  TurnInv'
<1>1. /\ base' = [Still EXCEPT !.heading = 0] /\ Still \in Bases
      /\ faults' \in Nat /\ faults <= faults'
  BY StillTyped, ZeroTyped DEF Begin, TurnTypes
<1>2. base'.slide = 0 /\ base'.driven = base.driven /\ base'.coast = base.coast
  BY <1>1 DEF Still, TurnTypes, Bases
<1>3. /\ turn'.pc \in {"prime", "start"} /\ turn'.part = "main" /\ turn'.next = "idle"
      /\ turn'.since = faults /\ turn'.corrected = 0 /\ turn'.exit = None
  BY DEF Begin, Idle
<1>4. Bounds' /\ Slowing' /\ Reads' /\ Rested' /\ Judged' /\ Zeroed'
  BY <1>1, <1>2, <1>3, Numbers
     DEF TurnInv, Begin, Bounds, Slowing, Reads, Rested, Measured, Closing, AtEnd, Judged,
         Zeroed, Sweeping, Undisturbed, None
<1> QED
  BY <1>4 DEF TurnInv

LEMMA StartKeeps ==
    ASSUME TurnTypes, TurnInv, Start
    PROVE  TurnInv'
BY Numbers
   DEF TurnInv, Start, Bounds, Slowing, Reads, Rested, Measured, Closing, AtEnd, Judged,
       Zeroed, Sweeping, Undisturbed, None, Turns

LEMMA TurningKeeps ==
    ASSUME TurnTypes, TurnTypes', TurnInv, Turning
    PROVE  TurnInv'
<1>0. turn.direction \in Speeds \ {0}
  BY DEF TurnTypes, Turns, Speeds
<1>1. Rolled(turn.direction) /\ faults' \in Nat /\ faults <= faults'
  BY <1>0, RollDoes, PumpDoes DEF Turning, TurnTypes
<1>2. /\ turn.pc = "driving" /\ turn'.pc = "driving" /\ turn'.part = turn.part
      /\ turn'.next = turn.next /\ turn'.exit = turn.exit /\ turn'.since = turn.since
      /\ turn'.corrected = turn.corrected /\ turn'.abort = turn.abort
  BY DEF Turning, TurnTypes, Turns
<1>3. Bounds' /\ Slowing' /\ Reads' /\ Rested' /\ Judged' /\ Zeroed'
  BY <1>0, <1>1, <1>2, Numbers
     DEF TurnInv, Bounds, Slowing, Reads, Rested, Measured, Closing, AtEnd, Judged,
         Zeroed, Sweeping, Undisturbed, None, Rolled
<1> QED
  BY <1>3 DEF TurnInv

LEMMA ReleaseKeeps ==
    ASSUME TurnTypes, TurnInv, Release
    PROVE  TurnInv'
BY Numbers
   DEF TurnInv, Release, Bounds, Slowing, Reads, Rested, Measured, Closing, AtEnd, Judged,
       Zeroed, Sweeping, Undisturbed, None, Turns

LEMMA StopObeyedKeeps ==
    ASSUME TurnTypes, TurnTypes', TurnInv, StopObeyed
    PROVE  TurnInv'
<1>1. /\ base'.driven = 0 /\ base'.slide = base.slide /\ base'.heading = base.heading
      /\ base'.coast = base.coast
  BY DEF StopObeyed, TurnTypes, Bases
<1>2. /\ turn.pc = "stopping" /\ turn'.pc = turn.next /\ turn'.elapsed = 0
      /\ turn' = [turn EXCEPT !.pc = turn.next, !.elapsed = 0] /\ faults' = faults
      /\ turn.next \in {"idle", "gap", "settling", "ended"}
  BY DEF StopObeyed, TurnTypes, Turns
<1>3. Bounds' /\ Slowing' /\ Reads'
  BY <1>1, <1>2, Numbers, Kinds DEF TurnInv, Bounds, Slowing, Reads, Turns, TurnTypes, Readings
<1>4. Judged' /\ Zeroed'
  BY <1>2, Numbers
     DEF TurnInv, StopObeyed, Judged, Zeroed, Closing, AtEnd, Sweeping, Undisturbed, Turns, None
<1>5. Rested'
  <2>1. Measured' => turn'.pc = "ended" /\ Measured
    BY <1>2, Numbers DEF Measured, Closing, AtEnd, TurnInv, Judged, None, Turns
  <2>2. Measured => Near(turn.achieved)
    BY DEF TurnInv, Rested
  <2>3. Measured' => Near(turn.achieved)'
    BY <1>1, <1>2, <2>1, <2>2, NearStays, Numbers DEF Turns
  <2> QED
    BY <1>1, <2>1, <2>3 DEF TurnInv, Rested
<1> QED
  BY <1>3, <1>4, <1>5 DEF TurnInv

LEMMA StopUnheardKeeps ==
    ASSUME TurnTypes, TurnTypes', TurnInv, StopUnheard
    PROVE  TurnInv'
<1>1. PICK d \in {0, IF turn.elapsed < LEASE THEN base.driven ELSE 0} : Roll(d)
  BY DEF StopUnheard
<1>2. Rolled(d) /\ d \in Speeds
  BY <1>1, Numbers, RollDoes DEF TurnTypes, Speeds
<1>3. /\ turn.pc = "stopping" /\ turn'.pc \in {"stopping", turn.next}
      /\ turn'.pc # "stopping" => turn'.elapsed = 0 /\ turn.elapsed + 1 >= CONFIRM
      /\ turn'.part = turn.part /\ turn'.next = turn.next /\ turn'.exit = turn.exit
      /\ turn'.abort = turn.abort /\ turn'.since = turn.since
      /\ turn'.corrected = turn.corrected /\ turn'.before = turn.before
      /\ turn'.achieved = turn.achieved /\ turn'.target = turn.target
      /\ turn.next \in {"idle", "gap", "settling", "ended"}
  BY Numbers, Kinds DEF StopUnheard, Turns
<1>4. faults' = faults + 1
  BY DEF StopUnheard, Fault
<1>5. Bounds'
  BY <1>1, <1>2, <1>3, <1>4, Numbers, Kinds DEF TurnInv, Bounds, Rolled, Most
<1>a. base'.slide \in Nat /\ latest'.age \in Nat
  BY Kinds DEF TurnTypes, Bases, Readings
<1>6. Slowing' /\ Reads'
  BY <1>2, <1>3, <1>5, <1>a, Numbers, Kinds DEF Bounds, Slowing, Reads, Rolled
<1>7. Judged' /\ Zeroed'
  BY <1>3, <1>4, Numbers
     DEF TurnInv, Bounds, Judged, Zeroed, Closing, AtEnd, Sweeping, Undisturbed, None
<1>8. Rested'
  <2>1. Measured' => Measured /\ turn'.pc # "deciding"
    BY <1>3 DEF Measured, Closing, AtEnd, TurnInv, Judged, None
  <2>2. Measured => /\ d = 0 /\ base'.heading = base.heading /\ base'.slide = 0
                    /\ base'.driven = 0
    BY <1>1, <1>2, Numbers DEF TurnInv, Rested, Rolled, Most
  <2>3. Measured => Near(turn.achieved)'
    BY <1>3, <1>4, <2>2, Numbers, NearStays DEF TurnInv, Rested
  <2> QED
    BY <2>1, <2>2, <2>3 DEF Rested
<1> QED
  BY <1>5, <1>6, <1>7, <1>8 DEF TurnInv

\* A tick of a wait in which the reading that was m steps behind is heard of
\* again, late or not at all.
LEMMA SettleReads ==
    ASSUME TurnTypes, TurnTypes', TurnInv, Settle
    PROVE  Reads'
<1> SUFFICES ASSUME turn'.pc = "settling", latest'.age < turn'.elapsed, latest'.age <= STALL
             PROVE  \E m \in 0..latest'.age + 1 : Behind(m)'
  BY DEF Reads
<1>1. Rolled(0) /\ Heard
  BY RollDoes, PumpDoes DEF Settle, TurnTypes, Speeds
<1>2. /\ turn.pc = "settling" /\ turn'.elapsed = turn.elapsed + 1
      /\ turn'.since = turn.since /\ turn'.corrected = turn.corrected
  BY Numbers DEF Settle, Turns
<1>3. /\ base'.heading = base.heading + base'.speed
      /\ base'.speed = base.speed \/ base'.speed = 0
      /\ base.speed \in Speeds /\ base'.speed \in Speeds
  BY <1>1 DEF Rolled, TurnTypes, Bases
<1>4. turn.since <= faults /\ turn.corrected <= faults
  BY DEF TurnInv, Bounds
<1>5. CASE faults' = faults
           /\ latest' = [yaw |-> base'.heading, rate |-> base'.speed, age |-> 0]
  <2>1. Behind(0)'
    BY <1>2, <1>3, <1>4, <1>5, Numbers DEF Behind, MovedOn, Steps, Speeds
  <2> QED
    BY <1>5, <2>1
<1>6. CASE faults' = faults + 1
           /\ latest' = [yaw |-> base.heading, rate |-> base.speed, age |-> 0]
  <2>1. CASE base'.speed = base.speed
    <3>1. Behind(1)'
      BY <1>2, <1>3, <1>4, <1>6, <2>1, Numbers DEF Behind, MovedOn, Steps, Speeds
    <3> QED
      BY <1>6, <3>1
  <2>2. CASE base'.speed = 0
    <3>1. Behind(0)'
      BY <1>2, <1>3, <1>4, <1>6, <2>2, Numbers DEF Behind, MovedOn, Steps, Speeds
    <3> QED
      BY <1>6, <3>1
  <2> QED
    BY <1>3, <2>1, <2>2
<1>7. CASE faults' = faults + 1 /\ latest' = Older
  <2>1. /\ latest'.yaw = latest.yaw /\ latest'.rate = latest.rate
        /\ latest'.age = latest.age + 1
    BY <1>7, OlderTyped, Numbers, Kinds DEF Least, TurnTypes
  <2>2. PICK m \in 0..latest.age + 1 : Behind(m)
    BY <1>2, <2>1, Numbers, Kinds DEF TurnInv, Reads
  <2>3. CASE base'.speed = base.speed /\ base.speed = latest.rate
    <3>1. MovedOn(m + 1)'
      BY <1>3, <2>1, <2>2, <2>3, Numbers DEF Behind, MovedOn, Steps, Speeds
    <3>2. Behind(m + 1)'
      BY <1>2, <1>7, <2>1, <2>2, <3>1, Numbers DEF Behind
    <3> QED
      BY <2>1, <2>2, <3>2, Numbers
  <2>4. CASE base'.speed = 0
    <3>1. Behind(m)'
      BY <1>2, <1>3, <1>4, <1>7, <2>1, <2>2, <2>4, Numbers DEF Behind, MovedOn, Steps, Speeds
    <3> QED
      BY <2>1, <2>2, <3>1, Numbers
  <2> QED
    BY <1>3, <2>2, <2>3, <2>4 DEF Behind, MovedOn
<1> QED
  BY <1>1, <1>5, <1>6, <1>7 DEF Heard

LEMMA SettleKeeps ==
    ASSUME TurnTypes, TurnTypes', TurnInv, Settle
    PROVE  TurnInv'
<1>1. Rolled(0) /\ faults' \in Nat /\ faults <= faults'
  BY RollDoes, PumpDoes DEF Settle, TurnTypes, Speeds
<1>2. /\ turn.pc \in {"settling", "gap", "resting"} /\ turn'.pc = turn.pc
      /\ turn'.elapsed = turn.elapsed + 1 /\ turn.elapsed # SETTLE
      /\ turn'.part = turn.part /\ turn'.next = turn.next /\ turn'.exit = turn.exit
      /\ turn'.abort = turn.abort /\ turn'.since = turn.since
      /\ turn'.corrected = turn.corrected /\ turn'.before = turn.before
  BY Numbers DEF Settle, AtRest, Turns
<1>3. Bounds' /\ Slowing'
  BY <1>1, <1>2, Numbers, Kinds DEF TurnInv, Bounds, Slowing, Rolled, Most
<1>4. Rested' /\ Judged' /\ Zeroed'
  BY <1>1, <1>2, Numbers
     DEF TurnInv, Bounds, Rested, Measured, Judged, Zeroed, Closing, AtEnd, Sweeping,
         Undisturbed, None
<1> QED
  BY <1>3, <1>4, SettleReads DEF TurnInv

LEMMA WaitedKeeps ==
    ASSUME TurnTypes, TurnInv, Waited
    PROVE  TurnInv'
BY Numbers
   DEF TurnInv, Waited, Bounds, Slowing, Reads, Rested, Measured, Closing, AtEnd, Judged,
       Zeroed, Sweeping, Undisturbed, None, Turns

\* What the measurement leads to: more of the turn, its end, or the next pulse.
Followed(t, u) ==
    /\ u.achieved = t.achieved /\ u.before = t.before /\ u.target = t.target
    /\ u.since = t.since /\ u.corrected = t.corrected /\ u.abort = t.abort
    /\ u.direction = t.direction \/ t.part \in {"wake", "sweep"}
    /\ u.primed = t.primed /\ u.coast = t.coast
    /\ t.part # "main" => u.floor = t.floor
    /\ \/ /\ u.pc = "deciding" /\ t.part \notin {"wake", "sweep"}
          /\ u.part = t.part /\ u.next = t.next /\ u.exit = t.exit
       \/ /\ u.pc = "stopping" /\ u.next = "ended" /\ u.part = t.part /\ u.elapsed = 0
          /\ u.exit = IF t.part = "wake" THEN 2 ELSE t.exit
       \/ /\ u.pc \in {"zeroing", "resting"} /\ (u.pc = "resting" => u.elapsed = 0)
          /\ t.part \in {"wake", "sweep"} /\ u.part \in {"wake", "sweep"}
          /\ u.next = t.next /\ u.exit = t.exit

LEMMA AfterDoes ==
    ASSUME turn \in Turns, NEW t \in Turns
    PROVE  /\ t.part = "main" => Followed(t, AfterMain(t))
           /\ t.part = "correction" => Followed(t, AfterCorrection(t))
           /\ t.part = "nudge" => Followed(t, AfterNudge(t))
           /\ t.part = "wake" => Followed(t, AfterWake(t))
           /\ t.part = "sweep" => Followed(t, AfterPulse(t))
<1>1. ASSUME t.part = "main" PROVE Followed(t, AfterMain(t))
  <2>1. CASE t.abort
    BY <1>1, <2>1 DEF Followed, AfterMain, Ended, Turns
  <2>2. CASE ~t.abort
    BY <1>1, <2>2 DEF Followed, AfterMain, Turns
  <2> QED
    BY <2>1, <2>2
<1>2. ASSUME t.part = "correction" PROVE Followed(t, AfterCorrection(t))
  <2>1. CASE t.abort \/ t.achieved = t.before
    BY <1>2, <2>1 DEF Followed, AfterCorrection, Ended, Turns
  <2>2. CASE ~(t.abort \/ t.achieved = t.before)
    BY <1>2, <2>2 DEF Followed, AfterCorrection, Turns
  <2> QED
    BY <2>1, <2>2
<1>3. ASSUME t.part = "nudge" PROVE Followed(t, AfterNudge(t))
  <2>1. CASE AfterNudge(t) = Ended(t)
    BY <1>3, <2>1 DEF Followed, Ended, Turns
  <2>2. CASE AfterNudge(t) = [t EXCEPT !.pc = "deciding", !.tries = @ + 1]
    BY <1>3, <2>2 DEF Followed, Turns
  <2> QED
    BY <2>1, <2>2 DEF AfterNudge
<1>4. ASSUME t.part = "wake" PROVE Followed(t, AfterWake(t))
  <2>1. CASE Awake(t)
    BY <1>4, <2>1 DEF Followed, AfterWake, Turns
  <2>2. CASE ~Awake(t) /\ t.tries = 0
    BY <1>4, <2>2 DEF Followed, AfterWake, Turns
  <2>3. CASE ~Awake(t) /\ t.tries # 0
    BY <1>4, <2>3 DEF Followed, AfterWake, Ended, Turns
  <2> QED
    BY <2>1, <2>2, <2>3
<1>5. ASSUME t.part = "sweep" PROVE Followed(t, AfterPulse(t))
  <2>1. CASE t.tries + 1 < PULSES
    BY <1>5, <2>1 DEF Followed, AfterPulse, Turns
  <2>2. CASE ~(t.tries + 1 < PULSES)
    BY <1>5, <2>2 DEF Followed, AfterPulse, Ended, Turns
  <2> QED
    BY <2>1, <2>2
<1> QED
  BY <1>1, <1>2, <1>3, <1>4, <1>5

LEMMA SettledDoes ==
    ASSUME TurnTypes, Settled
    PROVE  /\ Followed(turn, [turn' EXCEPT !.achieved = turn.achieved])
           /\ turn'.achieved = Yaw
<1> DEFINE t == [turn EXCEPT !.achieved = Yaw]
<1>1. t \in Turns /\ turn \in Turns
  BY YawTyped DEF TurnTypes, Turns
<1>2. /\ t.part = turn.part /\ t.achieved = Yaw /\ t.before = turn.before
      /\ t.target = turn.target /\ t.since = turn.since /\ t.corrected = turn.corrected
      /\ t.abort = turn.abort /\ t.direction = turn.direction /\ t.primed = turn.primed
      /\ t.next = turn.next /\ t.exit = turn.exit /\ t.coast = turn.coast
      /\ t.floor = turn.floor
  BY <1>1 DEF Turns
<1>3. turn' = CASE turn.part = "main" -> AfterMain(t)
                [] turn.part = "correction" -> AfterCorrection(t)
                [] turn.part = "nudge" -> AfterNudge(t)
                [] turn.part = "wake" -> AfterWake(t)
                [] turn.part = "sweep" -> AfterPulse(t)
  BY DEF Settled
<1>4. turn.part \in Parts
  BY <1>1 DEF Turns
<1> HIDE DEF t
<1>5. Followed(t, turn') /\ turn' \in Turns
  BY <1>1, <1>2, <1>3, <1>4, AfterDoes, AfterTyped DEF Parts, TurnTypes
<1> QED
  BY <1>1, <1>2, <1>5 DEF Followed, Turns

LEMMA SettledKeeps ==
    ASSUME TurnTypes, TurnTypes', TurnInv, Settled
    PROVE  TurnInv'
<1>1. /\ turn.pc = "settling" /\ turn.elapsed = SETTLE /\ latest.age <= STALL
      /\ base' = base /\ latest' = latest /\ faults' = faults
  BY Numbers, Kinds DEF Settled, AtRest, Stalled
<1>2. base.driven = 0 /\ base.slide = 0
  BY <1>1, Numbers, Kinds DEF TurnInv, Bounds, Slowing
<1>3. Near(Yaw)
  BY <1>1, Numbers, Kinds, BehindIsNear DEF TurnInv, Reads
<1>4. /\ turn'.achieved = Yaw /\ turn'.before = turn.before /\ turn'.since = turn.since
      /\ turn'.corrected = turn.corrected /\ turn'.abort = turn.abort
      /\ \/ /\ turn'.pc = "deciding" /\ turn.part \notin {"wake", "sweep"}
            /\ turn'.part = turn.part /\ turn'.next = turn.next /\ turn'.exit = turn.exit
         \/ /\ turn'.pc = "stopping" /\ turn'.next = "ended" /\ turn'.part = turn.part
            /\ turn'.exit = IF turn.part = "wake" THEN 2 ELSE turn.exit
         \/ /\ turn'.pc \in {"zeroing", "resting"} /\ (turn'.pc = "resting" => turn'.elapsed = 0)
            /\ turn.part \in {"wake", "sweep"} /\ turn'.part \in {"wake", "sweep"}
            /\ turn'.next = turn.next /\ turn'.exit = turn.exit
  BY SettledDoes, Numbers DEF Followed, TurnTypes, Turns
<1>5. Near(Yaw)'
  BY <1>1, <1>3, <1>4 DEF Near, Late, Yaw
<1>6. Bounds' /\ Slowing' /\ Reads'
  BY <1>1, <1>2, <1>4, Numbers, Kinds DEF TurnInv, Bounds, Slowing, Reads
<1>7. Rested'
  BY <1>1, <1>2, <1>4, <1>5 DEF Rested, Near, Late, Yaw
<1>8. Judged' /\ Zeroed'
  BY <1>1, <1>4
     DEF TurnInv, Judged, Zeroed, Closing, AtEnd, Sweeping, Undisturbed, None
<1> QED
  BY <1>6, <1>7, <1>8 DEF TurnInv

LEMMA DecideKeeps ==
    ASSUME TurnTypes, TurnInv, Decide
    PROVE  TurnInv'
<1>1. /\ turn' = Ended(turn) /\ turn.pc = "deciding"
      /\ base' = base /\ latest' = latest /\ faults' = faults
  BY DEF Decide
<1>2. /\ turn'.pc = "stopping" /\ turn'.next = "ended" /\ turn'.part = turn.part
      /\ turn'.exit = turn.exit /\ turn'.abort = turn.abort /\ turn'.since = turn.since
      /\ turn'.corrected = turn.corrected /\ turn'.achieved = turn.achieved
  BY <1>1, Numbers DEF Ended, Turns
<1>3. Near(turn.achieved)'
  BY <1>1, <1>2 DEF TurnInv, Rested, Measured, Near, Late
<1> QED
  BY <1>1, <1>2, <1>3
     DEF TurnInv, Bounds, Slowing, Reads, Rested, Measured, Closing, AtEnd, Judged,
         Zeroed, Sweeping, Undisturbed, None

LEMMA CorrectKeeps ==
    ASSUME TurnTypes, TurnInv, Correct
    PROVE  TurnInv'
BY Numbers
   DEF TurnInv, Correct, Bounds, Slowing, Reads, Rested, Measured, Closing, AtEnd, Judged,
       Zeroed, Sweeping, Undisturbed, None, Turns

LEMMA BeginNudgesKeeps ==
    ASSUME TurnTypes, TurnInv, BeginNudges
    PROVE  TurnInv'
<1>1. /\ turn.pc = "deciding" /\ turn' = [turn EXCEPT !.part = "nudge", !.tries = 0, !.achieved = Yaw]
      /\ base' = base /\ latest' = latest /\ faults' = faults
  BY DEF BeginNudges
<1>2. /\ turn'.pc = "deciding" /\ turn'.next = turn.next /\ turn'.part = "nudge"
      /\ turn'.exit = turn.exit /\ turn'.abort = turn.abort /\ turn'.since = turn.since
      /\ turn'.corrected = turn.corrected /\ turn'.achieved = Yaw
  BY <1>1, Numbers DEF Turns
<1>3. Near(turn.achieved)' /\ Near(Yaw)'
  BY <1>1, <1>2 DEF TurnInv, Rested, Measured, Near, Late, Yaw
<1> QED
  BY <1>1, <1>2, <1>3
     DEF TurnInv, Bounds, Slowing, Reads, Rested, Measured, Closing, AtEnd, Judged,
         Zeroed, Sweeping, Undisturbed, None

LEMMA PulseKeeps ==
    ASSUME TurnTypes, TurnTypes', TurnInv, NEW d \in Speeds, PulseRotate(d),
           turn.pc = "deciding" \/ turn.pc = "pulse"
    PROVE  TurnInv'
<1>1. Rolled(d) /\ faults' \in Nat /\ faults <= faults' /\ base'.slide \in Nat
  BY RollDoes, PumpDoes DEF PulseRotate, TurnTypes, Bases
<1>2. /\ turn'.pc = "stopping" /\ turn'.next = "settling" /\ turn'.part = turn.part
      /\ turn'.exit = turn.exit /\ turn'.abort = turn.abort /\ turn'.since = turn.since
      /\ turn'.corrected = turn.corrected /\ turn'.before = Yaw
  BY Numbers DEF PulseRotate, Turns
<1>3. Bounds'
  BY <1>1, <1>2, Numbers DEF TurnInv, Bounds, Rolled, Most
<1>4. Slowing' /\ Reads' /\ Rested' /\ Judged'
  BY <1>2
     DEF TurnInv, Slowing, Reads, Rested, Measured, Closing, AtEnd, Judged, Sweeping, None
<1>5. Zeroed'
  <2>1. Undisturbed' => Undisturbed
    BY <1>1, <1>2, Numbers DEF Undisturbed, TurnInv, Bounds, Sweeping
  <2>2. Undisturbed => turn.pc = "pulse"
    BY DEF Undisturbed, TurnInv, Judged, Sweeping
  <2> QED
    BY <1>2, <2>1, <2>2 DEF TurnInv, Zeroed, Closing, AtEnd
<1> QED
  BY <1>3, <1>4, <1>5 DEF TurnInv

LEMMA BeginSweepKeeps ==
    ASSUME TurnTypes, TurnInv, BeginSweep
    PROVE  TurnInv'
<1>1. base'.slide = 0 /\ base'.driven = base.driven /\ base'.coast = base.coast
  BY DEF BeginSweep, Still, TurnTypes, Bases
<1>2. /\ turn'.pc = "zeroing" /\ turn'.part = "wake" /\ turn'.next = "idle"
      /\ turn'.since = faults /\ turn'.corrected = 0 /\ turn'.exit = None
      /\ turn'.abort = FALSE
  BY DEF BeginSweep, Idle
<1> QED
  BY <1>1, <1>2, Numbers
     DEF TurnInv, BeginSweep, Bounds, Slowing, Reads, Rested, Measured, Closing, AtEnd, Judged,
         Zeroed, Sweeping, Undisturbed, None

LEMMA ZeroYawKeeps ==
    ASSUME TurnTypes, TurnTypes', TurnInv, ZeroYaw
    PROVE  TurnInv'
<1>1. /\ base' = [base EXCEPT !.heading = 0] /\ faults' \in Nat /\ faults <= faults'
      /\ faults' = faults => latest'.yaw = 0 /\ latest'.age = 0
  BY ZeroTyped DEF ZeroYaw, TurnTypes
<1>2. base'.slide = base.slide /\ base'.driven = base.driven /\ base'.coast = base.coast
  BY <1>1 DEF TurnTypes, Bases
<1>3. /\ turn.pc = "zeroing" /\ turn'.pc = "pulse" /\ turn'.next = turn.next
      /\ turn'.part = turn.part /\ turn'.exit = turn.exit /\ turn'.abort = turn.abort
      /\ turn'.since = turn.since /\ turn'.corrected = faults
  BY Numbers DEF ZeroYaw, Turns
<1>4. Bounds' /\ Slowing' /\ Reads' /\ Rested' /\ Judged'
  BY <1>1, <1>2, <1>3, Numbers
     DEF TurnInv, Bounds, Slowing, Reads, Rested, Measured, Closing, AtEnd, Judged, Sweeping,
         None
<1>5. Zeroed'
  <2>1. Undisturbed' => faults' = faults
    BY <1>1, <1>3, Numbers DEF Undisturbed, TurnInv, Bounds
  <2> QED
    BY <1>1, <1>3, <2>1 DEF Zeroed, Closing, AtEnd, Yaw
<1> QED
  BY <1>4, <1>5 DEF TurnInv

LEMMA RaiseKeeps ==
    ASSUME TurnTypes, TurnInv, Raise
    PROVE  TurnInv'
<1>1. /\ turn.pc \notin {"idle", "ended"} /\ turn.next # "ended"
      /\ base' = base /\ latest' = latest /\ faults' \in Nat /\ faults <= faults'
  BY Numbers DEF Raise, Fault
<1>2. Ended(turn) \in Turns
  BY EndedTyped, Numbers
<1>3. /\ turn'.pc = "stopping" /\ turn'.next = "ended" /\ turn'.part = turn.part
      /\ turn'.exit = 2 /\ turn'.abort = turn.abort /\ turn'.since = turn.since
      /\ turn'.corrected = turn.corrected
  BY <1>2, Numbers DEF Raise, Ended, Turns
<1> QED
  BY <1>1, <1>3, Numbers
     DEF TurnInv, Bounds, Slowing, Reads, Rested, Measured, Closing, AtEnd, Judged,
         Zeroed, Sweeping, Undisturbed, None

LEMMA ReportKeeps ==
    ASSUME TurnTypes, TurnInv, Report
    PROVE  TurnInv'
<1>1. /\ turn.pc = "ended" /\ base' = base /\ latest' = latest /\ faults' = faults
  BY DEF Report
<1>2. /\ turn'.pc = "idle" /\ turn'.next = turn.next
      /\ turn'.part = turn.part /\ turn'.abort = turn.abort /\ turn'.since = turn.since
      /\ turn'.corrected = turn.corrected /\ turn'.before = turn.before
      /\ turn'.achieved = turn.achieved /\ turn'.target = turn.target
      /\ turn'.floor = turn.floor
  BY Numbers DEF Report, Turns
<1>3. Error' = Error /\ Sweeping' = Sweeping /\ ~Closing' /\ turn'.pc # "deciding"
  BY <1>2 DEF Error, Sweeping, Closing
<1>4. turn.exit \in {None, 2}
  BY <1>1 DEF TurnInv, Judged
<1>5. turn'.exit = 0 =>
        /\ turn.exit = None /\ ~turn.abort
        /\ ~Sweeping => Abs(Error) <= Most(TOLERANCE, turn.floor)
  <2>1. turn'.exit = Result
    BY Numbers DEF Report, Turns
  <2> QED
    BY <1>1, <1>4, <2>1 DEF Result, TurnInv, Judged, None
<1>6. Bounds' /\ Slowing' /\ Reads'
  BY <1>1, <1>2 DEF TurnInv, Bounds, Slowing, Reads
<1>7. Rested'
  <2>1. Measured' => Measured /\ turn'.exit = 0
    BY <1>1, <1>2, <1>3, <1>5 DEF Measured, Closing, AtEnd
  <2>2. Measured => base.driven = 0 /\ base.slide = 0 /\ Near(turn.achieved)
    BY DEF TurnInv, Rested
  <2>3. Near(turn.achieved) => Near(turn.achieved)'
    BY <1>1, <1>2 DEF Near, Late
  <2> QED
    BY <1>1, <1>3, <2>1, <2>2, <2>3 DEF Rested
<1>8. Judged'
  <2>1. turn'.exit = 0 => turn.part # "wake"
    BY <1>1, <1>5 DEF TurnInv, Judged, Closing
  <2>2. (AtEnd /\ turn.exit = 0 /\ ~Sweeping => Abs(Error) <= Most(TOLERANCE, turn.floor))'
    BY <1>2, <1>3, <1>5 DEF Error, Most, Abs
  <2> QED
    BY <1>1, <1>2, <1>3, <2>1, <2>2 DEF TurnInv, Judged
<1>9. Zeroed'
  <2>1. Undisturbed' => Undisturbed
    BY <1>1, <1>2 DEF Undisturbed, Sweeping
  <2> QED
    BY <1>1, <1>2, <1>3, <1>5, <2>1 DEF TurnInv, Zeroed, Closing, AtEnd
<1> QED
  BY <1>6, <1>7, <1>8, <1>9 DEF TurnInv

LEMMA TornSaveKeeps ==
    ASSUME TurnTypes, TurnInv, TornSave
    PROVE  TurnInv'
<1>1. /\ turn'.pc = "idle" /\ turn'.part = "main" /\ turn'.next = "idle"
      /\ turn'.since = 0 /\ turn'.corrected = 0 /\ turn'.exit = None /\ turn'.abort = FALSE
  BY DEF TornSave, Idle
<1>2. turn.pc = "ended" /\ base' = base /\ faults' = faults + 1
  BY DEF TornSave, Fault
<1> QED
  BY <1>1, <1>2, Numbers
     DEF TurnInv, Bounds, Slowing, Reads, Rested, Measured, Closing, AtEnd, Judged,
         Zeroed, Sweeping, Undisturbed, None

LEMMA TurnInvInit == Init => TurnInv
<1> SUFFICES ASSUME Init PROVE TurnInv
  OBVIOUS
<1>1. /\ turn.pc = "idle" /\ turn.part = "main" /\ turn.next = "idle"
      /\ turn.since = 0 /\ turn.corrected = 0 /\ turn.exit = None /\ turn.abort = FALSE
  BY DEF Init, Idle
<1>2. base.slide = 0 /\ base.driven = 0 /\ faults = 0 /\ base.coast \in Nat
  BY Kinds DEF Init
<1> QED
  BY <1>1, <1>2
     DEF TurnInv, Bounds, Slowing, Reads, Rested, Measured, Closing, AtEnd, Judged,
         Zeroed, Sweeping, Undisturbed, None

LEMMA TurnInvStep ==
    ASSUME TurnTypes, TurnInv, [Next]_vars
    PROVE  TurnTypes' /\ TurnInv'
<1>1. CASE UNCHANGED vars
  BY <1>1
     DEF vars, TurnTypes, TurnInv, Bounds, Slowing, Reads, Behind, MovedOn, Rested, Near,
         Measured, Closing, AtEnd, Judged, Error, Zeroed, Sweeping, Undisturbed, Late, Yaw
<1>2. CASE Next
  <2>1. TurnTypes'
    BY <1>2, TypesStep
  <2>2. CASE \E degrees \in TURNS : Begin(degrees)
    BY <2>1, <2>2, BeginKeeps
  <2>3. CASE Nudge
    BY <2>1, <2>3, PulseKeeps DEF Nudge, Sign, Speeds
  <2>4. CASE Pulse
    <3>1. turn.direction \in Speeds
      BY DEF TurnTypes, Turns, Speeds
    <3> QED
      BY <2>1, <2>4, <3>1, PulseKeeps DEF Pulse
  <2> QED
    BY <1>2, <2>1, <2>2, <2>3, <2>4, PrimePulseKeeps, StartKeeps, TurningKeeps, ReleaseKeeps,
       StopObeyedKeeps, StopUnheardKeeps, SettleKeeps, WaitedKeeps, SettledKeeps, DecideKeeps,
       CorrectKeeps, BeginNudgesKeeps, BeginSweepKeeps, ZeroYawKeeps, RaiseKeeps, ReportKeeps,
       TornSaveKeeps
       DEF Next, Step
<1> QED
  BY <1>1, <1>2

LEMMA TurnAlways == Spec => [](TurnTypes /\ TurnInv)
<1>1. Init => TurnTypes /\ TurnInv
  BY TurnInit, TurnInvInit
<1>2. TurnTypes /\ TurnInv /\ [Next]_vars => (TurnTypes /\ TurnInv)'
  BY TurnInvStep
<1> QED
  BY <1>1, <1>2, PTL DEF Spec

\* A base that was found awake, nothing having gone wrong, did turn.
FoundAwake ==
    turn.part = "sweep" /\ turn.since = faults => Abs(turn.woke) >= WAKE_MIN

\* confirm_responsive is satisfied: the yaw was zeroed before the pulse, and the
\* reading after it is of a base that is at rest.
LEMMA AwakeIsTrue ==
    ASSUME TurnTypes, TurnInv, Settled, turn.part = "wake"
    PROVE  FoundAwake'
<1> DEFINE t == [turn EXCEPT !.achieved = Yaw]
<1>1. /\ turn.pc = "settling" /\ turn.elapsed = SETTLE /\ latest.age <= STALL
      /\ base' = base /\ faults' = faults
  BY Numbers, Kinds DEF Settled, AtRest, Stalled
<1>2. t \in Turns /\ t.achieved = Yaw /\ t.before = turn.before /\ t.part = "wake"
      /\ t.since = turn.since
  BY YawTyped DEF TurnTypes, Turns
<1>3. turn' = AfterWake(t)
  BY DEF Settled
<1> HIDE DEF t
<1>4. SUFFICES ASSUME turn'.part = "sweep", turn'.since = faults
               PROVE  Abs(turn'.woke) >= WAKE_MIN
  BY <1>1 DEF FoundAwake
<1>5. Awake(t)
  BY <1>2, <1>3, <1>4 DEF AfterWake, Ended, Turns
<1>6. turn'.woke = base.heading /\ turn'.since = turn.since
  BY <1>2, <1>3, <1>5 DEF AfterWake, Turns
<1>7. turn.before = 0
  BY <1>1, <1>4, <1>6 DEF TurnInv, Zeroed, Undisturbed, Sweeping
<1>8. Near(Yaw)
  BY <1>1, Numbers, Kinds, BehindIsNear DEF TurnInv, Reads
<1>9. Yaw \in Int /\ Yaw = base.heading
  BY <1>4, <1>6, <1>8, YawTyped, Numbers, Kinds DEF Near, Late, Least, TurnTypes
<1> QED
  BY <1>2, <1>5, <1>6, <1>7, <1>9 DEF Awake

\* No other step makes a sweep of a program, or changes what its base did.
LEMMA SweepGoesOn ==
    ASSUME TurnTypes, Next, ~(Settled /\ turn.part = "wake"), turn'.part = "sweep"
    PROVE  /\ turn.part = "sweep" /\ turn'.woke = turn.woke /\ turn'.since = turn.since
           /\ faults' \in Nat /\ faults <= faults'
<1>1. /\ turn \in Turns /\ base \in Bases /\ faults \in Nat
  BY DEF TurnTypes
<1>2. faults' = faults \/ Fault => faults' \in Nat /\ faults <= faults'
  BY <1>1 DEF Fault
<1>3. CASE \E degrees \in TURNS : Begin(degrees)
  BY <1>3 DEF Begin, Idle
<1>4. CASE BeginSweep \/ TornSave
  <2>1. CASE BeginSweep
    BY <2>1 DEF BeginSweep, Idle
  <2>2. CASE TornSave
    BY <2>2 DEF TornSave, Idle
  <2> QED
    BY <1>4, <2>1, <2>2
<1>5. CASE Prime \/ Start \/ Turning \/ Release \/ StopObeyed \/ StopUnheard \/ Settle \/ Waited
  BY <1>1, <1>2, <1>5
     DEF Prime, Start, Turning, Release, StopObeyed, StopUnheard, Settle, Waited, Pump, Turns
<1>6. CASE Decide \/ Correct \/ BeginNudges \/ Raise \/ Report \/ ZeroYaw
  BY <1>1, <1>2, <1>6
     DEF Decide, Correct, BeginNudges, Raise, Report, ZeroYaw, Zero, Ended, Turns
<1>7. CASE Nudge \/ Pulse
  BY <1>1, <1>2, <1>7 DEF Nudge, Pulse, PulseRotate, Pump, Turns
<1>8. CASE Settled
  <2> DEFINE t == [turn EXCEPT !.achieved = Yaw]
  <2>1. t \in Turns /\ t.part = turn.part /\ t.woke = turn.woke /\ t.since = turn.since
    BY <1>1, YawTyped DEF TurnTypes, Turns
  <2>2. faults' = faults
    BY <1>8 DEF Settled
  <2>3. turn.part \in Parts \ {"wake"}
    BY <1>1, <1>8 DEF Turns
  <2>4. turn' = CASE turn.part = "main" -> AfterMain(t)
                  [] turn.part = "correction" -> AfterCorrection(t)
                  [] turn.part = "nudge" -> AfterNudge(t)
                  [] turn.part = "wake" -> AfterWake(t)
                  [] turn.part = "sweep" -> AfterPulse(t)
    BY <1>8 DEF Settled
  <2> HIDE DEF t
  <2>5. turn.part = "sweep"
    <3>1. turn'.part = turn.part
      BY <1>1, <1>8, SettledDoes, <2>3 DEF Followed, Turns, Parts
    <3> QED
      BY <3>1
  <2>6. turn' = AfterPulse(t)
    BY <2>4, <2>5
  <2>7. turn'.part = t.part /\ turn'.woke = t.woke /\ turn'.since = t.since
    <3>1. CASE t.tries + 1 < PULSES
      BY <2>1, <2>6, <3>1 DEF AfterPulse, Turns
    <3>2. CASE ~(t.tries + 1 < PULSES)
      BY <2>1, <2>6, <3>2 DEF AfterPulse, Ended, Turns
    <3> QED
      BY <3>1, <3>2
  <2> QED
    BY <1>2, <2>1, <2>2, <2>5, <2>7
<1> QED
  BY <1>3, <1>4, <1>5, <1>6, <1>7, <1>8 DEF Next, Step

LEMMA FoundAwakeStep ==
    ASSUME TurnTypes, TurnInv, FoundAwake, [Next]_vars
    PROVE  FoundAwake'
<1>1. CASE UNCHANGED vars
  BY <1>1 DEF vars, FoundAwake
<1>2. CASE Next /\ ~(Settled /\ turn.part = "wake")
  BY <1>2, SweepGoesOn, Numbers DEF FoundAwake, TurnInv, Bounds
<1> QED
  BY <1>1, <1>2, AwakeIsTrue

\* What a program reports is what the base did: a turn that main takes for made
\* is made, and the pulses of a sweep are those of a base that was awake.
THEOREM SuccessTrue == Spec => []SuccessIsTrue
<1>1. TurnTypes /\ TurnInv => TurnIsTrue
  <2> SUFFICES ASSUME TurnTypes, TurnInv, AtEnd, turn.exit = 0, ~Sweeping
               PROVE  Abs(turn.target - base.heading)
                        <= Most(TOLERANCE, turn.floor) + Least(STALL + 1, faults - turn.since)
    BY DEF TurnIsTrue
  <2>1. Near(turn.achieved)
    BY DEF TurnInv, Rested, Measured
  <2>2. /\ turn.achieved - base.heading <= Least(STALL + 1, faults - turn.since)
        /\ base.heading - turn.achieved <= Least(STALL + 1, faults - turn.since)
    BY <2>1 DEF Near, Late
  <2>3. Abs(turn.target - turn.achieved) <= Most(TOLERANCE, turn.floor)
    BY DEF TurnInv, Judged, Error
  <2>4. /\ Least(STALL + 1, faults - turn.since) \in Int
        /\ Most(TOLERANCE, turn.floor) \in Int
    BY Numbers, Kinds DEF Least, Most, Turns
  <2> QED
    BY <2>2, <2>3, <2>4, Numbers DEF Abs
<1>2. TurnTypes /\ TurnInv /\ FoundAwake => SweepIsTrue
  <2> SUFFICES ASSUME TurnTypes, TurnInv, FoundAwake, AtEnd, turn.exit = 0, Sweeping
               PROVE  /\ turn.part = "sweep"
                      /\ turn.corrected = faults => turn.achieved - turn.before = base.heading
                      /\ turn.since = faults => Abs(turn.woke) >= WAKE_MIN
    BY DEF SweepIsTrue
  <2>1. turn.part = "sweep"
    BY DEF TurnInv, Judged, Sweeping
  <2>2. Near(turn.achieved)
    BY DEF TurnInv, Rested, Measured
  <2>3. turn.corrected = faults => turn.before = 0
    BY <2>1 DEF TurnInv, Zeroed, Undisturbed, Sweeping
  <2>4. turn.corrected = faults => turn.achieved = base.heading
    BY <2>2, Numbers, Kinds DEF Near, Late, Least
  <2> QED
    BY <2>1, <2>3, <2>4, Numbers DEF FoundAwake
<1>3. Init => FoundAwake
  BY DEF Init, Idle, FoundAwake
<1>4. Spec => []FoundAwake
  BY <1>3, FoundAwakeStep, TurnAlways, PTL DEF Spec
<1> QED
  BY <1>1, <1>2, <1>4, TurnAlways, PTL DEF SuccessIsTrue

-----------------------------------------------------------------------------
(* A base that is wired the wrong way. *)

LEMMA Ways ==
    ASSUME TurnTypes
    PROVE  /\ Wanted \in {1, -1} /\ Against \in {1, -1} /\ Against = -Wanted
           /\ Astray \in Int /\ Coasting \in Nat /\ Coasting <= base.slide
           /\ Released \in Nat /\ Before \in Nat
           /\ Unnoticed \in Nat /\ Unnoticed <= STALL + 2
<1>1. Wanted \in {1, -1} /\ Against \in {1, -1} /\ Against = -Wanted
  <2>1. Wanted \in {1, -1}
    BY DEF Wanted, Sign
  <2> QED
    BY <2>1 DEF Against
<1>2. Astray \in Int /\ Coasting \in Nat /\ Coasting <= base.slide
  BY Numbers DEF Astray, Coasting
<1>3. Released \in Nat /\ Before \in Nat
  BY Numbers, Kinds DEF Released, Before
<1>4. Unnoticed \in Nat /\ Unnoticed <= STALL + 2
  BY Numbers, Kinds DEF Unnoticed, TurnTypes, Readings
<1> QED
  BY <1>1, <1>2, <1>3, <1>4

\* What a tick does to it: released it slides out, and driven towards the target
\* it turns away from it.
LEMMA WrongRolls ==
    ASSUME TurnTypes, TurnTypes', base.wired = -1, turn'.target = turn.target,
           Bounds, NEW d \in Speeds, Rolled(d)
    PROVE  /\ Wanted' = Wanted /\ Against' = Against /\ Released' = Released
           /\ d = 0 => /\ Astray' + Coasting' <= Astray + Coasting
                       /\ base'.speed \in {base.speed, 0}
           /\ d = Wanted => /\ Astray' <= Astray + 1 /\ base'.speed \in {Against, 0}
                            /\ base'.speed = 0 => Astray' = Astray /\ base.speed = 0
                            /\ Coasting' <= base.coast
           /\ d = Against => /\ Astray' <= Astray /\ base'.speed \in {Wanted, 0}
                             /\ Coasting' = 0
<1>1. Wanted' = Wanted /\ Against' = Against /\ Released' = Released
  BY DEF Wanted, Against, Released, Rolled
<1>2. /\ base'.heading = base.heading + base'.speed /\ base'.speed \in Speeds
      /\ base'.slide \in Nat /\ base.speed \in Speeds
  BY DEF Rolled, TurnTypes, Bases
<1>3. CASE d = 0
  <2>1. /\ base'.speed = (IF base.slide > 0 THEN base.speed ELSE 0)
        /\ base'.slide = Most(base.slide - 1, 0)
    BY <1>3 DEF Rolled
  <2>2. Astray' + Coasting' <= Astray + Coasting
    BY <1>1, <1>2, <2>1, Ways, Numbers DEF Astray, Coasting, Most, Speeds
  <2> QED
    BY <1>1, <1>3, <2>1, <2>2, Ways
<1>4. CASE d = Wanted
  <2>1. /\ base'.speed = Against \/ (base'.speed = 0 /\ base.speed = 0)
        /\ base'.slide <= base.coast
    BY <1>4, Ways DEF Rolled, Steps
  <2>2. Astray' <= Astray + 1 /\ (base'.speed = 0 => Astray' = Astray)
    BY <1>1, <1>2, <2>1, Ways, Numbers DEF Astray, Speeds
  <2>3. Coasting' <= base.coast
    BY <1>1, <1>2, <2>1, Ways, Numbers DEF Coasting
  <2> QED
    BY <1>1, <1>4, <2>1, <2>2, <2>3, Ways
<1>5. CASE d = Against
  <2>1. base'.speed = Wanted \/ base'.speed = 0
    BY <1>5, Ways DEF Rolled, Steps
  <2>2. Astray' <= Astray /\ Coasting' = 0
    BY <1>1, <1>2, <2>1, Ways, Numbers DEF Astray, Coasting, Speeds
  <2> QED
    BY <1>1, <1>5, <2>1, <2>2, Ways
<1> QED
  BY <1>1, <1>3, <1>4, <1>5

LEMMA WrongBegin ==
    ASSUME TurnTypes, TurnTypes', TurnInv, NEW degrees \in TURNS, Begin(degrees)
    PROVE  WrongInv'
<1>1. /\ base' = [Still EXCEPT !.heading = 0] /\ Still \in Bases
      /\ latest'.rate = 0
  BY StillTyped, ZeroTyped DEF Begin, TurnTypes, Still, Bases
<1>2. /\ base'.heading = 0 /\ base'.slide = 0 /\ base'.speed = 0
      /\ base'.driven = base.driven /\ base'.coast = base.coast
  BY <1>1 DEF Still, TurnTypes, Bases
<1>3. base.driven = 0
  BY DEF Begin, TurnInv, Bounds
<1>4. /\ (turn'.pc = "prime" /\ turn'.primed) \/ (turn'.pc = "start" /\ ~turn'.primed)
      /\ turn'.direction = Sign(degrees) /\ turn'.target = degrees
  BY DEF Begin, Idle
<1>5. PICK a \in Int, c \in Int : Astray' = a /\ ToCome' = c /\ a <= 0 /\ c <= 0
  <2>1. base'.heading \in Int /\ base'.heading <= 0 /\ 0 <= base'.heading
    BY <1>2
  <2>2. Astray' \in Int /\ Astray' <= 0
    BY <2>1 DEF Astray
  <2>3. turn'.pc # "stopping"
    BY <1>4
  <2>4. Coasting' = 0
    BY <1>2 DEF Coasting
  <2> QED
    BY <2>2, <2>3, <2>4 DEF ToCome
<1>6. Wanted' = turn'.direction /\ Wanted' \in {1, -1} /\ Against' = -Wanted'
  <2>1. Wanted' = Sign(degrees)
    BY <1>4 DEF Wanted
  <2>2. Sign(degrees) \in {1, -1}
    BY DEF Sign
  <2> QED
    BY <1>4, <2>1, <2>2 DEF Against
<1>7. PICK b \in Nat, r \in Nat : Before' = b /\ Released' = r
  <2>1. Released' = Released /\ Released \in Nat
    BY <1>2, Ways DEF Released
  <2> QED
    BY <2>1, Kinds DEF Before
<1>8. /\ Astray' + ToCome' <= Before' + STALL + 1 + Released' /\ Astray' + ToCome' <= Released'
      /\ Astray' <= Before' /\ Astray' <= 0
  BY <1>5, <1>7, Kinds
<1>9. latest'.rate # Wanted' /\ base'.speed # Wanted' /\ base'.driven # Against'
  BY <1>1, <1>2, <1>3, <1>6
<1> QED
  BY <1>2, <1>4, <1>6, <1>8, <1>9 DEF WrongInv, Priming

LEMMA WrongPrime ==
    ASSUME TurnTypes, TurnTypes', TurnInv, WrongInv, Prime
    PROVE  WrongInv'
<1> SUFFICES ASSUME base'.wired = -1, turn'.part = "main" PROVE WrongInv'
  BY DEF WrongInv
<1>1. Rolled(turn.direction) /\ turn.direction \in Speeds
  BY RollDoes DEF Prime, TurnTypes, Turns, Speeds
<1>2. /\ turn.pc = "prime" /\ turn'.pc = "stopping" /\ turn'.next = "gap" /\ turn'.elapsed = 0
      /\ turn'.target = turn.target /\ turn'.primed = turn.primed /\ turn.part = "main"
      /\ turn'.direction = turn.direction /\ latest'.rate = latest.rate /\ base.wired = -1
  BY <1>1, Numbers, OlderTyped DEF Prime, Turns, TurnTypes, Rolled
<1>3. /\ turn.primed /\ turn.direction = Wanted /\ Astray <= 0 /\ latest.rate # Wanted
  BY <1>2 DEF WrongInv, Priming
<1>4. /\ Wanted' = Wanted /\ Against' = Against /\ Released' = Released
      /\ Astray' <= Astray + 1 /\ base'.speed \in {Against, 0} /\ base'.driven = Wanted
      /\ base'.coast = base.coast
  BY <1>1, <1>2, <1>3, WrongRolls DEF TurnInv, Rolled
<1>5. ToCome' = LEASE + base.coast
  BY <1>2, <1>4, Kinds DEF ToCome, Most
<1>6. Astray' + ToCome' <= Released
  BY <1>3, <1>4, <1>5, Ways, Numbers, Kinds DEF Released, TurnTypes, Bases, Astray
<1>7. Astray' + ToCome' <= Before + STALL + 1 + Released /\ Before' = Before
  <2>1. Before' = Before
    BY <1>2, <1>4 DEF Before
  <2>2. Astray' \in Int
    BY DEF Astray, TurnTypes, Bases
  <2> QED
    BY <1>5, <1>6, <2>1, <2>2, Ways, Numbers, Kinds
<1> QED
  BY <1>2, <1>3, <1>4, <1>6, <1>7, Ways DEF WrongInv, Priming

LEMMA WrongStart ==
    ASSUME TurnTypes, TurnTypes', TurnInv, WrongInv, Start
    PROVE  WrongInv'
<1> SUFFICES ASSUME base'.wired = -1, turn'.part = "main" PROVE WrongInv'
  BY DEF WrongInv
<1>1. /\ turn.pc = "start" /\ turn'.pc = "driving" /\ ~turn'.moving
      /\ turn'.target = turn.target /\ turn'.primed = turn.primed /\ turn.part = "main"
      /\ turn'.direction \in {1, -1} /\ base' = base /\ latest' = latest
  BY Numbers DEF Start, Turns, Towards
<1>2. Astray <= Before /\ base.slide = 0 /\ latest.rate # Wanted /\ base.speed # Wanted
  BY <1>1 DEF WrongInv
<1>3. base.driven = 0
  BY <1>1 DEF TurnInv, Bounds
<1>4. /\ Wanted' = Wanted /\ Against' = Against /\ Released' = Released /\ Astray' = Astray
      /\ Before' = Before /\ Unnoticed' = Unnoticed
  BY <1>1 DEF Wanted, Against, Released, Astray, Before, Unnoticed
<1>5. ToCome' = 0
  BY <1>1, <1>2 DEF ToCome, Coasting
<1>6. Astray' + ToCome' <= Before + STALL + 1 + Released /\ Astray' <= Before + Unnoticed'
  BY <1>2, <1>4, <1>5, Ways, Kinds
<1> QED
  BY <1>1, <1>2, <1>3, <1>4, <1>5, <1>6, Ways DEF WrongInv, Priming

LEMMA WrongTurning ==
    ASSUME TurnTypes, TurnTypes', TurnInv, WrongInv, Turning
    PROVE  WrongInv'
<1> SUFFICES ASSUME base'.wired = -1, turn'.part = "main" PROVE WrongInv'
  BY DEF WrongInv
<1>1. Rolled(turn.direction) /\ turn.direction \in {1, -1} /\ Heard
  BY RollDoes, PumpDoes DEF Turning, TurnTypes, Turns, Speeds
<1>2. /\ turn.pc = "driving" /\ turn'.pc = "driving" /\ turn'.target = turn.target
      /\ turn'.primed = turn.primed /\ turn.part = "main" /\ base.wired = -1
      /\ turn'.direction = turn.direction /\ turn'.moving = (turn.moving \/ latest.rate # 0)
  BY <1>1, Numbers DEF Turning, Turns, Rolled
<1>3. ~WrongWay /\ latest.age <= STALL
  BY Numbers, Kinds DEF Turning, Aborted, Stalled
<1>4. /\ Wanted' = Wanted /\ Against' = Against /\ Released' = Released /\ Before' = Before
      /\ base'.coast = base.coast /\ base'.driven = turn.direction
  BY <1>1, <1>2 DEF Wanted, Against, Released, Before, Rolled
<1>5. CASE turn.direction = Wanted
  <2>1. ~turn.moving /\ Astray <= Before + Unnoticed /\ latest.rate # Wanted /\ base.speed # Wanted
    BY <1>2, <1>5 DEF WrongInv
  <2>2. latest.rate = 0
    BY <1>2, <1>3, <1>5, <2>1, Ways, Numbers DEF WrongWay, Sign, Speeds
  <2>3. /\ Astray' <= Astray + 1 /\ base'.speed \in {Against, 0}
        /\ base'.speed = 0 => Astray' = Astray /\ base.speed = 0
        /\ Coasting' <= base.coast
    BY <1>1, <1>2, <1>5, WrongRolls DEF TurnInv, Speeds
  <2>4. base.speed \in {Against, 0}
    BY <2>1, Ways DEF TurnTypes, Bases, Speeds
  <2>5. Unnoticed' <= STALL + 2 /\ Unnoticed' \in Nat /\ Astray' \in Int /\ Coasting' \in Nat
    BY Kinds DEF Unnoticed, Astray, Coasting, TurnTypes, Bases, Readings
  <2>6. Astray' <= Before + Unnoticed' /\ latest'.rate # Wanted
    <3>1. CASE faults' = faults
                 /\ latest' = [yaw |-> base'.heading, rate |-> base'.speed, age |-> 0]
      <4>1. Unnoticed' = IF base'.speed # 0 THEN STALL + 2 ELSE 0
        BY <1>4, <2>3, <3>1, Ways DEF Unnoticed
      <4>2. Unnoticed <= STALL + 1 /\ (base.speed = 0 => Unnoticed = 0)
        BY <1>3, <2>2, Ways, Numbers, Kinds DEF Unnoticed
      <4> QED
        BY <2>1, <2>3, <2>5, <3>1, <4>1, <4>2, Ways, Kinds
    <3>2. CASE faults' = faults + 1
                 /\ latest' = [yaw |-> base.heading, rate |-> base.speed, age |-> 0]
      <4>1. Unnoticed' = IF base.speed # 0 THEN STALL + 2
                         ELSE IF base'.speed = Against THEN 1 ELSE 0
        BY <1>4, <3>2, Ways DEF Unnoticed
      <4>2. Unnoticed <= STALL + 1 /\ (base.speed = 0 => Unnoticed = 0)
        BY <1>3, <2>2, Ways, Numbers, Kinds DEF Unnoticed
      <4> QED
        BY <2>1, <2>3, <2>4, <2>5, <3>2, <4>1, <4>2, Ways, Kinds
    <3>3. CASE faults' = faults + 1 /\ latest' = Older
      <4>1. latest'.rate = 0 /\ latest'.age = latest.age + 1
        BY <1>3, <2>2, <3>3, OlderTyped, Numbers, Kinds DEF Least, TurnTypes
      <4>2. Unnoticed' = IF base'.speed = Against THEN latest.age + 2 ELSE 0
        BY <1>4, <4>1, Ways, Numbers DEF Unnoticed
      <4>3. Unnoticed = IF base.speed = Against THEN latest.age + 1 ELSE 0
        BY <2>2 DEF Unnoticed
      <4> QED
        BY <2>1, <2>3, <2>4, <2>5, <4>1, <4>2, <4>3, Ways, Numbers, Kinds
    <3> QED
      BY <1>1, <3>1, <3>2, <3>3 DEF Heard
  <2>7. ToCome' = Coasting'
    BY <1>2 DEF ToCome
  <2>8. Astray' + ToCome' <= Before + STALL + 1 + Released
    BY <2>3, <2>5, <2>6, <2>7, Ways, Numbers, Kinds DEF Released
  <2>9. base'.speed # Wanted /\ Against # Wanted
    BY <2>3, Ways
  <2> QED
    BY <1>2, <1>4, <1>5, <2>1, <2>2, <2>6, <2>8, <2>9 DEF WrongInv, Priming
<1>6. CASE turn.direction = Against
  <2>1. Astray + ToCome <= Before /\ ToCome = Coasting
    BY <1>2, <1>6 DEF WrongInv, ToCome
  <2>2. Astray' <= Astray /\ Coasting' = 0
    BY <1>1, <1>2, <1>6, WrongRolls DEF TurnInv, Speeds
  <2>3. ToCome' = 0 /\ Astray' \in Int
    BY <1>2, <2>2 DEF ToCome, Astray, TurnTypes, Bases
  <2> QED
    BY <1>2, <1>4, <1>6, <2>1, <2>2, <2>3, Ways, Numbers, Kinds DEF WrongInv, Priming
<1> QED
  BY <1>1, <1>5, <1>6, Ways

\* Released, the base goes on no further than a watchdog would let it.
LEMMA WrongStops ==
    ASSUME TurnTypes, TurnTypes', TurnInv, WrongInv, turn.pc = "driving", base' = base,
           latest' = latest, turn'.pc = "stopping", turn'.next # "gap", turn'.elapsed = 0,
           turn'.target = turn.target, turn'.primed = turn.primed, turn'.part = turn.part
    PROVE  WrongInv'
<1> SUFFICES ASSUME base'.wired = -1, turn'.part = "main" PROVE WrongInv'
  BY DEF WrongInv
<1>1. /\ Wanted' = Wanted /\ Against' = Against /\ Released' = Released /\ Astray' = Astray
      /\ Before' = Before
  BY DEF Wanted, Against, Released, Astray, Before
<1>2. /\ ToCome' = (IF base.driven = Wanted THEN LEASE + base.coast ELSE Coasting)
      /\ ToCome = Coasting
  <2>1. Coasting' = Coasting
    BY <1>1 DEF Coasting
  <2>2. Most(LEASE - 0, 0) = LEASE
    BY Kinds DEF Most
  <2> QED
    BY <1>1, <2>1, <2>2 DEF ToCome
<1>3. Astray' + ToCome' <= Before + STALL + 1 + Released
  <2>1. CASE turn.direction = Wanted
    <3>1. Astray <= Before + Unnoticed
      BY <2>1 DEF WrongInv
    <3>2. Coasting <= base.coast
      BY Ways, Numbers DEF TurnInv, Bounds
    <3> QED
      BY <1>1, <1>2, <3>1, <3>2, Ways, Numbers, Kinds DEF Released
  <2>2. CASE turn.direction = Against
    <3>1. Astray + Coasting <= Before /\ base.driven # Wanted
      BY <1>2, <2>2 DEF WrongInv
    <3> QED
      BY <1>1, <1>2, <3>1, Ways, Numbers, Kinds
  <2> QED
    BY <2>1, <2>2, Ways, Numbers DEF Turns
<1> QED
  BY <1>1, <1>3 DEF WrongInv, Priming

\* Nor does it when nothing is driven.
LEMMA WrongRests ==
    ASSUME TurnTypes, TurnInv, WrongInv, base' = base, base.driven = 0,
           turn.pc \notin {"idle", "stopping"}, turn.part = "main",
           turn'.pc \notin {"prime", "gap", "start", "driving"},
           turn'.pc = "stopping" => turn'.next # "gap",
           turn'.target = turn.target, turn'.primed = turn.primed
    PROVE  WrongInv'
<1> SUFFICES ASSUME base'.wired = -1, turn'.part = "main" PROVE WrongInv'
  BY DEF WrongInv
<1>1. /\ Wanted' = Wanted /\ Against' = Against /\ Released' = Released /\ Astray' = Astray
      /\ Before' = Before /\ Coasting' = Coasting
  BY DEF Wanted, Against, Released, Astray, Before, Coasting
<1>2. ToCome' = Coasting /\ ToCome = Coasting
  BY <1>1, Ways DEF ToCome
<1>3. Astray + Coasting <= Before + STALL + 1 + Released
  BY <1>2 DEF WrongInv
<1>4. Astray' + ToCome' <= Before + STALL + 1 + Released
  BY <1>1, <1>2, <1>3
<1> QED
  BY <1>1, <1>4 DEF WrongInv, Priming

LEMMA WrongStopObeyed ==
    ASSUME TurnTypes, TurnTypes', TurnInv, WrongInv, StopObeyed
    PROVE  WrongInv'
<1> SUFFICES ASSUME base'.wired = -1, turn'.part = "main" PROVE WrongInv'
  BY DEF WrongInv
<1>1. /\ base' = [base EXCEPT !.driven = 0] /\ base \in Bases /\ latest' = latest
      /\ turn.pc = "stopping" /\ turn'.pc = turn.next
      /\ turn.next \in {"idle", "gap", "settling", "ended"}
      /\ turn'.target = turn.target /\ turn'.primed = turn.primed /\ turn.part = "main"
      /\ turn'.direction = turn.direction /\ turn'.next = turn.next
  BY Numbers DEF StopObeyed, Turns, TurnTypes
<1>2. /\ base'.heading = base.heading /\ base'.speed = base.speed /\ base'.slide = base.slide
      /\ base'.coast = base.coast /\ base'.driven = 0 /\ base.wired = -1
  BY <1>1 DEF Bases
<1>3. /\ Wanted' = Wanted /\ Against' = Against /\ Released' = Released /\ Astray' = Astray
      /\ Before' = Before /\ Coasting' = Coasting
  BY <1>1, <1>2 DEF Wanted, Against, Released, Astray, Before, Coasting
<1>4. PICK t \in Nat : ToCome' = t /\ t <= ToCome
  <2>1. ToCome' = Coasting
    BY <1>1, <1>3 DEF ToCome
  <2>2. Coasting <= base.coast
    BY Ways, Numbers DEF TurnInv, Bounds
  <2>3. Most(LEASE - turn.elapsed, 0) \in Nat
    BY Numbers, Kinds DEF Most
  <2>4. Coasting <= ToCome
    BY <2>2, <2>3, Ways, Numbers DEF ToCome
  <2> QED
    BY <2>1, <2>4, Ways
<1>5. /\ Astray + ToCome <= Before + STALL + 1 + Released
      /\ Priming => /\ turn.primed /\ Astray + ToCome <= Released /\ turn.direction = Wanted
                    /\ latest.rate # Wanted /\ base.speed # Wanted
  BY <1>1, <1>2 DEF WrongInv
<1>6. ToCome \in Int
  BY Ways, Numbers, Kinds DEF ToCome, Most
<1>7. /\ Astray + t <= Before + STALL + 1 + Released
      /\ Priming => Astray + t <= Released
  BY <1>4, <1>5, <1>6, Ways, Kinds
<1>8. /\ Astray' + ToCome' <= Before + STALL + 1 + Released
      /\ Priming => Astray' + ToCome' <= Released
  BY <1>3, <1>4, <1>7
<1>9. Priming' => Priming
  BY <1>1 DEF Priming
<1> QED
  BY <1>1, <1>2, <1>3, <1>5, <1>8, <1>9, Ways DEF WrongInv

LEMMA WrongStopUnheard ==
    ASSUME TurnTypes, TurnTypes', TurnInv, WrongInv, StopUnheard
    PROVE  WrongInv'
<1> SUFFICES ASSUME base'.wired = -1, turn'.part = "main" PROVE WrongInv'
  BY DEF WrongInv
<1>1. PICK d \in {0, IF turn.elapsed < LEASE THEN base.driven ELSE 0} : Roll(d)
  BY DEF StopUnheard
<1>2. Rolled(d) /\ d \in Speeds
  BY <1>1, Numbers, RollDoes DEF TurnTypes, Speeds
<1>3. /\ turn.pc = "stopping" /\ turn'.target = turn.target /\ turn'.primed = turn.primed
      /\ turn.part = "main" /\ turn'.direction = turn.direction /\ turn'.next = turn.next
      /\ turn.next \in {"idle", "gap", "settling", "ended"} /\ turn.elapsed < CONFIRM
      /\ base.wired = -1
  BY <1>2, Numbers DEF StopUnheard, Turns, Rolled
<1>4. \/ turn'.pc = "stopping" /\ turn'.elapsed = turn.elapsed + 1
      \/ turn'.pc = turn.next /\ turn.elapsed + 1 >= CONFIRM
  BY Numbers, Kinds DEF StopUnheard, Turns
<1>5. /\ Wanted' = Wanted /\ Against' = Against /\ Released' = Released /\ Before' = Before
      /\ base'.coast = base.coast /\ base'.driven = d
  BY <1>2, <1>3, WrongRolls DEF TurnInv, Before, Rolled
<1>6. latest'.rate = latest.rate
  BY OlderTyped DEF StopUnheard, TurnTypes
<1>7. /\ Astray + ToCome <= Before + STALL + 1 + Released
      /\ Priming => /\ turn.primed /\ Astray + ToCome <= Released /\ turn.direction = Wanted
                    /\ base.driven # Against /\ latest.rate # Wanted /\ base.speed # Wanted
  BY <1>3 DEF WrongInv
<1>8. Coasting <= ToCome /\ ToCome \in Nat
  <2>1. Most(LEASE - turn.elapsed, 0) \in Nat /\ Coasting <= base.coast
    BY Ways, Numbers, Kinds DEF Most, TurnInv, Bounds
  <2> QED
    BY <2>1, Ways, Numbers DEF ToCome
<1>9. PICK a \in Int, c \in Nat, t \in Nat :
        Astray' = a /\ Coasting' = c /\ ToCome' = t /\ a + t <= Astray + ToCome
  <2>1. CASE d = 0
    <3>1. PICK a \in Int, c \in Nat : Astray' = a /\ Coasting' = c
      <4>1. Astray' \in Int /\ Coasting' \in Nat
        BY DEF Astray, Coasting, TurnTypes, Bases
      <4> QED
        BY <4>1
    <3>2. a + c <= Astray + Coasting
      BY <1>2, <1>3, <2>1, <3>1, WrongRolls DEF TurnInv
    <3>3. ToCome' = c
      BY <1>5, <2>1, <3>1, Ways DEF ToCome
    <3> QED
      BY <1>8, <3>1, <3>2, <3>3, Ways
  <2>2. CASE d = Wanted
    <3>1. d = base.driven /\ turn.elapsed < LEASE
      BY <1>1, <2>2, Ways
    <3>2. turn'.pc = "stopping" /\ turn'.elapsed = turn.elapsed + 1
      BY <1>4, <3>1, Numbers, Kinds
    <3>3. PICK a \in Int, c \in Nat : Astray' = a /\ Coasting' = c
      <4>1. Astray' \in Int /\ Coasting' \in Nat
        BY DEF Astray, Coasting, TurnTypes, Bases
      <4> QED
        BY <4>1
    <3>4. a <= Astray + 1
      BY <1>2, <1>3, <2>2, <3>3, WrongRolls DEF TurnInv
    <3>5. ToCome = LEASE - turn.elapsed + base.coast
      BY <1>3, <2>2, <3>1, Numbers, Kinds DEF ToCome, Most
    <3>6. ToCome' = Most(LEASE - (turn.elapsed + 1), 0) + base.coast
      BY <1>5, <2>2, <3>2 DEF ToCome
    <3>7. Most(LEASE - (turn.elapsed + 1), 0) = LEASE - (turn.elapsed + 1)
      BY <3>1, Numbers, Kinds DEF Most
    <3>8. PICK t \in Nat : ToCome' = t /\ t = ToCome - 1
      BY <3>1, <3>5, <3>6, <3>7, Numbers, Kinds
    <3> QED
      BY <3>3, <3>4, <3>8, Ways, <1>8
  <2>3. CASE d = Against
    <3>1. Astray' <= Astray /\ Coasting' = 0
      BY <1>2, <1>3, <2>3, WrongRolls DEF TurnInv
    <3>2. ToCome' = 0
      BY <1>5, <2>3, <3>1, Ways DEF ToCome
    <3>3. PICK a \in Int : Astray' = a
      <4>1. Astray' \in Int
        BY DEF Astray, TurnTypes, Bases
      <4> QED
        BY <4>1
    <3> QED
      BY <1>8, <3>1, <3>2, <3>3, Ways
  <2> QED
    BY <1>2, <2>1, <2>2, <2>3, Ways DEF Speeds
<1>10. /\ Astray' + ToCome' <= Before + STALL + 1 + Released
       /\ Priming => Astray' + ToCome' <= Released
  <2>1. /\ a + t <= Before + STALL + 1 + Released
        /\ Priming => a + t <= Released
    BY <1>7, <1>8, <1>9, Ways, Kinds
  <2> QED
    BY <1>9, <2>1
<1>11. Priming' => Priming
  BY <1>3, <1>4 DEF Priming
<1>12. Priming => base'.speed # Wanted /\ base'.driven # Against
  <2>1. CASE d = 0
    BY <1>2, <1>3, <1>5, <1>7, <2>1, Ways, WrongRolls DEF TurnInv
  <2>2. CASE d = Wanted
    BY <1>2, <1>3, <1>5, <2>2, Ways, WrongRolls DEF TurnInv
  <2>3. CASE d = Against
    BY <1>1, <1>7, <2>3, Ways
  <2> QED
    BY <1>2, <2>1, <2>2, <2>3, Ways DEF Speeds
<1>13. turn'.pc \notin {"prime", "start", "driving"}
  BY <1>3, <1>4
<1> QED
  BY <1>3, <1>5, <1>6, <1>7, <1>10, <1>11, <1>12, <1>13 DEF WrongInv

LEMMA WrongSettle ==
    ASSUME TurnTypes, TurnTypes', TurnInv, WrongInv, Settle
    PROVE  WrongInv'
<1> SUFFICES ASSUME base'.wired = -1, turn'.part = "main" PROVE WrongInv'
  BY DEF WrongInv
<1>1. Rolled(0) /\ Heard
  BY RollDoes, PumpDoes DEF Settle, TurnTypes, Speeds
<1>2. /\ turn.pc \in {"settling", "gap", "resting"} /\ turn'.pc = turn.pc
      /\ turn'.target = turn.target /\ turn'.primed = turn.primed /\ turn.part = "main"
      /\ turn'.direction = turn.direction /\ base.wired = -1
  BY <1>1, Numbers DEF Settle, Turns, Rolled
<1>3. /\ Wanted' = Wanted /\ Against' = Against /\ Released' = Released /\ Before' = Before
      /\ base'.driven = 0 /\ base'.speed \in {base.speed, 0}
  BY <1>1, <1>2, WrongRolls DEF TurnInv, Before, Rolled, Speeds
<1>4. /\ Astray + Coasting <= Before + STALL + 1 + Released
      /\ Priming => /\ turn.primed /\ Astray + Coasting <= Released /\ turn.direction = Wanted
                    /\ latest.rate # Wanted /\ base.speed # Wanted
  <2>1. ToCome = Coasting
    BY <1>2 DEF ToCome
  <2> QED
    BY <1>2, <2>1 DEF WrongInv
<1>5. PICK a \in Int, c \in Nat : Astray' = a /\ Coasting' = c
  <2>1. Astray' \in Int /\ Coasting' \in Nat
    BY DEF Astray, Coasting, TurnTypes, Bases
  <2> QED
    BY <2>1
<1>6. a + c <= Astray + Coasting
  BY <1>1, <1>2, <1>5, WrongRolls DEF TurnInv, Speeds
<1>7. ToCome' = c
  BY <1>2, <1>5 DEF ToCome
<1>8. /\ a + c <= Before + STALL + 1 + Released
      /\ Priming => a + c <= Released
  BY <1>4, <1>6, Ways, Kinds
<1>9. /\ Astray' + ToCome' <= Before + STALL + 1 + Released
      /\ Priming => Astray' + ToCome' <= Released
  BY <1>5, <1>7, <1>8
<1>10. Priming => base'.speed # Wanted /\ latest'.rate # Wanted
  BY <1>1, <1>3, <1>4, OlderTyped, Ways DEF Heard, TurnTypes
<1>11. Priming' => Priming
  BY <1>2 DEF Priming
<1>12. base'.driven # Against
  BY <1>3, Ways
<1> QED
  BY <1>2, <1>3, <1>4, <1>9, <1>10, <1>11, <1>12 DEF WrongInv

LEMMA WrongWaited ==
    ASSUME TurnTypes, TurnTypes', TurnInv, WrongInv, Waited
    PROVE  WrongInv'
<1> SUFFICES ASSUME base'.wired = -1, turn'.part = "main" PROVE WrongInv'
  BY DEF WrongInv
<1>1. /\ base' = base /\ latest' = latest /\ turn.elapsed = SETTLE /\ turn.part = "main"
      /\ turn'.target = turn.target /\ turn'.primed = turn.primed
      /\ turn.pc = "gap" /\ turn'.pc = "start"
  BY Numbers DEF Waited, AtRest, Turns, TurnInv, Judged, Sweeping
<1>2. base.slide = 0
  BY <1>1, Numbers, Kinds DEF TurnInv, Slowing
<1>3. /\ Wanted' = Wanted /\ Against' = Against /\ Released' = Released /\ Astray' = Astray
      /\ Before' = Before
  BY <1>1 DEF Wanted, Against, Released, Astray, Before
<1>4. /\ turn.primed /\ Astray + ToCome <= Released /\ latest.rate # Wanted
      /\ base.speed # Wanted
  BY <1>1 DEF WrongInv, Priming
<1>5. ToCome = 0 /\ ToCome' = 0
  BY <1>1, <1>2 DEF ToCome, Coasting
<1>6. Astray <= Before /\ Before = Released
  BY <1>4, <1>5, Ways DEF Before
<1>7. Astray' + ToCome' <= Before + STALL + 1 + Released
  BY <1>3, <1>5, <1>6, Ways, Kinds
<1> QED
  BY <1>1, <1>2, <1>3, <1>4, <1>6, <1>7 DEF WrongInv, Priming

LEMMA WrongRaise ==
    ASSUME TurnTypes, TurnTypes', TurnInv, WrongInv, Raise
    PROVE  WrongInv'
<1> SUFFICES ASSUME base'.wired = -1, turn'.part = "main" PROVE WrongInv'
  BY DEF WrongInv
<1>1. turn.pc \notin {"idle", "ended"} /\ base' = base /\ latest' = latest
  BY DEF Raise
<1>2. Ended(turn) \in Turns
  BY EndedTyped, Numbers
<1>3. /\ turn'.pc = "stopping" /\ turn'.next = "ended" /\ turn'.part = turn.part
      /\ turn'.target = turn.target /\ turn'.primed = turn.primed
      /\ turn'.elapsed = (IF turn.pc = "stopping" THEN turn.elapsed ELSE 0)
  BY <1>2, Numbers DEF Raise, Ended, Turns
<1>4. CASE turn.pc = "stopping"
  <2>1. /\ Wanted' = Wanted /\ Against' = Against /\ Released' = Released /\ Astray' = Astray
        /\ Before' = Before /\ ToCome' = ToCome
    BY <1>1, <1>3, <1>4 DEF Wanted, Against, Released, Astray, Before, ToCome, Coasting
  <2>2. Astray + ToCome <= Before + STALL + 1 + Released
    BY <1>1, <1>3 DEF WrongInv
  <2>3. Astray' + ToCome' <= Before + STALL + 1 + Released
    BY <2>1, <2>2
  <2> QED
    BY <1>3, <2>1, <2>3 DEF WrongInv, Priming
<1>5. CASE turn.pc = "driving"
  BY <1>1, <1>3, <1>5, WrongStops
<1>6. CASE turn.pc \notin {"driving", "stopping"}
  <2>1. base.driven = 0
    BY <1>6 DEF TurnInv, Bounds
  <2> QED
    BY <1>1, <1>3, <1>6, <2>1, WrongRests
<1> QED
  BY <1>4, <1>5, <1>6

LEMMA WrongStep ==
    ASSUME TurnTypes, TurnTypes', TurnInv, WrongInv, Next
    PROVE  WrongInv'
<1>1. CASE Release
  <2>1. /\ turn'.pc = "stopping" /\ turn'.next = "settling" /\ turn'.elapsed = 0
        /\ turn'.target = turn.target /\ turn'.primed = turn.primed
        /\ turn'.part = turn.part
    BY <1>1, Numbers DEF Release, Turns
  <2> QED
    BY <1>1, <2>1, WrongStops DEF Release
<1>2. CASE Settled
  <2>1. SUFFICES ASSUME turn'.part = "main" PROVE WrongInv'
    BY DEF WrongInv
  <2>2. /\ turn'.target = turn.target /\ turn'.primed = turn.primed
        /\ turn'.pc \notin {"prime", "gap", "start", "driving"}
        /\ turn'.pc = "stopping" => turn'.next = "ended"
        /\ turn.part = "main"
    BY <1>2, <2>1, SettledDoes, Numbers DEF Followed, TurnTypes, Turns
  <2>3. turn.pc = "settling" /\ base' = base /\ base.driven = 0
    BY <1>2 DEF Settled, TurnInv, Bounds
  <2> QED
    BY <2>2, <2>3, WrongRests
<1>3. CASE Decide
  <2>1. SUFFICES ASSUME turn'.part = "main" PROVE WrongInv'
    BY DEF WrongInv
  <2>2. /\ turn'.pc = "stopping" /\ turn'.next = "ended" /\ turn.part = "main"
        /\ turn'.target = turn.target /\ turn'.primed = turn.primed
    BY <1>3, <2>1, Numbers DEF Decide, Ended, Turns
  <2>3. turn.pc = "deciding" /\ base' = base /\ base.driven = 0
    BY <1>3 DEF Decide, TurnInv, Bounds
  <2> QED
    BY <2>2, <2>3, WrongRests
\* The corrections, the nudges and the sweeps are not the main turn.
<1>4. CASE Correct \/ BeginNudges \/ Nudge \/ BeginSweep \/ Pulse \/ ZeroYaw
  <2>1. turn'.part # "main"
    BY <1>4, Numbers
       DEF Correct, BeginNudges, Nudge, BeginSweep, Pulse, PulseRotate, ZeroYaw, Idle, Turns,
           TurnInv, Judged, Sweeping
  <2> QED
    BY <2>1 DEF WrongInv
<1>5. CASE Report \/ TornSave
  <2>1. turn'.pc = "idle"
    <3>1. Report => turn'.pc = "idle"
      BY Numbers DEF Report, Turns
    <3>2. TornSave => turn'.pc = "idle"
      BY DEF TornSave, Idle
    <3> QED
      BY <1>5, <3>1, <3>2
  <2> QED
    BY <2>1 DEF WrongInv
<1>6. CASE \E degrees \in TURNS : Begin(degrees)
  BY <1>6, WrongBegin
<1> QED
  BY <1>1, <1>2, <1>3, <1>4, <1>5, <1>6, WrongPrime, WrongStart, WrongTurning,
     WrongStopObeyed, WrongStopUnheard, WrongSettle, WrongWaited, WrongRaise
     DEF Next, Step

LEMMA WrongAlways == Spec => []WrongInv
<1>1. Init => WrongInv
  BY DEF Init, Idle, WrongInv
<1>2. /\ TurnTypes /\ TurnInv /\ WrongInv /\ [Next]_vars /\ (TurnTypes /\ TurnInv)'
        => WrongInv'
  <2>1. ASSUME TurnTypes, TurnInv, WrongInv, UNCHANGED vars PROVE WrongInv'
    BY <2>1
       DEF vars, WrongInv, Priming, Wanted, Against, Astray, Coasting, ToCome, Released, Before,
           Unnoticed
  <2> QED
    BY <2>1, WrongStep
<1> QED
  BY <1>1, <1>2, TurnAlways, PTL DEF Spec

\* A base that is wired the wrong way is stopped before it has turned further than
\* what it takes to notice and to release it.
THEOREM WrongWayBounded == Spec => []WrongWayIsBounded
<1>1. TurnTypes /\ TurnInv /\ WrongInv => WrongWayIsBounded
  <2> SUFFICES ASSUME TurnTypes, TurnInv, WrongInv, base.wired = -1, turn.part = "main",
                      turn.pc # "idle"
               PROVE  Wanted * base.heading >= -(STALL + 1 + Released + Before)
    BY DEF WrongWayIsBounded, Wanted, Released, Before
  <2>1. Astray + ToCome <= Before + STALL + 1 + Released
    BY DEF WrongInv
  <2>2. ToCome \in Nat
    <3>1. Most(LEASE - turn.elapsed, 0) \in Nat
      BY Numbers, Kinds DEF Most
    <3> QED
      BY <3>1, Ways, Numbers DEF ToCome
  <2>3. Astray <= Before + STALL + 1 + Released
    BY <2>1, <2>2, Ways, Kinds
  <2>4. CASE Wanted = 1
    BY <2>3, <2>4, Ways, Numbers, Kinds DEF Astray
  <2>5. CASE Wanted = -1
    <3>1. Wanted * base.heading = -base.heading
      BY <2>5, Numbers
    <3> QED
      BY <2>3, <2>5, <3>1, Ways, Numbers, Kinds DEF Astray
  <2> QED
    BY <2>4, <2>5, Ways
<1> QED
  BY <1>1, TurnAlways, WrongAlways, PTL

-----------------------------------------------------------------------------
(* Corrections help. *)

\* The plan of a turn, which most steps leave alone.
SamePlan ==
    /\ turn'.part = turn.part /\ turn'.target = turn.target /\ turn'.before = turn.before
    /\ turn'.coast = turn.coast /\ turn'.floor = turn.floor
    /\ turn'.since = turn.since /\ turn'.corrected = turn.corrected

LEMMA PlanKept ==
    ASSUME TurnTypes
    PROVE  /\ Prime \/ Start \/ Turning \/ Release \/ StopObeyed \/ StopUnheard => SamePlan
           /\ Settle \/ Waited \/ Decide \/ Report \/ Raise => SamePlan
<1>1. turn \in Turns /\ Ended(turn) \in Turns
  BY Numbers, EndedTyped
<1>2. (Prime => SamePlan) /\ (Start => SamePlan)
  BY <1>1 DEF SamePlan, Prime, Start, Turns
<1>3. Turning => SamePlan
  BY <1>1 DEF SamePlan, Turning, Turns
<1>a. (Release => SamePlan) /\ (StopObeyed => SamePlan)
  BY <1>1 DEF SamePlan, Release, StopObeyed, Turns
<1>4. StopUnheard => SamePlan
  BY <1>1 DEF SamePlan, StopUnheard, Turns
<1>5. Settle \/ Waited => SamePlan
  BY <1>1 DEF SamePlan, Settle, Waited, Turns
<1>6. Decide => SamePlan
  BY <1>1 DEF SamePlan, Decide, Ended, Turns
<1>7. Report => SamePlan
  BY <1>1 DEF SamePlan, Report, Turns
<1>8. Raise => SamePlan
  BY <1>1 DEF SamePlan, Raise, Ended, Turns
<1> QED
  BY <1>2, <1>3, <1>a, <1>4, <1>5, <1>6, <1>7, <1>8

\* What a base does once its treads are driven.
LEMMA RollSlides ==
    ASSUME base \in Bases, NEW d \in Speeds \ {0}, Roll(d)
    PROVE  /\ base'.speed = 0 => base'.slide = 0
           /\ base'.speed # 0 /\ turn.part = "main" => base'.slide = base.coast
<1>1. base.wired * d # 0
  BY DEF Bases, Speeds
<1>2. PICK s \in {base.wired * d} \cup (IF base.speed = 0 THEN {0} ELSE {}) :
        \E slide \in IF s = 0 THEN {0}
                   ELSE IF turn.part # "main" THEN 0..base.coast ELSE {base.coast} :
        base' = [base EXCEPT !.heading = @ + s, !.speed = s, !.slide = slide, !.driven = d]
  BY DEF Roll
<1>3. PICK slide \in IF s = 0 THEN {0}
                   ELSE IF turn.part # "main" THEN 0..base.coast ELSE {base.coast} :
        base' = [base EXCEPT !.heading = @ + s, !.speed = s, !.slide = slide, !.driven = d]
  BY <1>2
<1>4. base'.speed = s /\ base'.slide = slide
  BY <1>3 DEF Bases
<1> QED
  BY <1>3, <1>4

\* A base that is wired right moves the way it is driven, and slides that way.
LEMMA RightRolls ==
    ASSUME TurnTypes, TurnTypes', base.wired = 1, turn'.direction = turn.direction,
           turn'.target = turn.target, NEW d \in Speeds, Rolled(d)
    PROVE  /\ Beyond \in Int /\ Beyond' \in Int /\ base'.heading \in Int
           /\ turn.direction \in {1, -1}
           /\ d = 0 /\ base.slide > 0 /\ base.speed = turn.direction =>
                /\ base'.speed = turn.direction /\ base'.slide = base.slide - 1
                /\ base'.heading = base.heading + turn.direction /\ Beyond' = Beyond + 1
           /\ d = 0 /\ base.slide = 0 =>
                base'.slide = 0 /\ base'.heading = base.heading /\ Beyond' = Beyond
           /\ d = turn.direction =>
                /\ base'.slide <= base.coast
                /\ \/ base'.speed = turn.direction /\ Beyond' = Beyond + 1
                   \/ base'.speed = 0 /\ base.speed = 0 /\ Beyond' = Beyond
<1>1. turn.direction \in {1, -1}
  BY Numbers DEF Turns
<1>2. /\ base'.heading = base.heading + base'.speed /\ base'.speed \in Speeds
      /\ base'.heading \in Int /\ base'.slide \in Nat
  BY DEF Rolled, TurnTypes, Bases
<1>3. Beyond \in Int /\ Beyond' \in Int
  BY <1>2, Numbers DEF Beyond
<1>4. base'.speed = turn.direction => Beyond' = Beyond + 1
  BY <1>1, <1>2, Numbers DEF Beyond
<1>5. base'.speed = 0 => Beyond' = Beyond /\ base'.heading = base.heading
  BY <1>1, <1>2, Numbers DEF Beyond
<1>6. CASE d = 0
  <2>1. base.slide > 0 => base'.speed = base.speed /\ base'.slide = base.slide - 1
    BY <1>6, Numbers DEF Rolled, Most
  <2>2. base.slide = 0 => base'.speed = 0 /\ base'.slide = 0
    BY <1>6, Numbers DEF Rolled, Most
  <2> QED
    BY <1>1, <1>2, <1>3, <1>4, <1>5, <1>6, <2>1, <2>2
<1>7. CASE d = turn.direction
  <2>1. base'.speed = turn.direction \/ (base'.speed = 0 /\ base.speed = 0)
    BY <1>1, <1>7 DEF Rolled, Steps
  <2>2. base'.slide <= base.coast
    BY <1>1, <1>7 DEF Rolled
  <2> QED
    BY <1>1, <1>2, <1>3, <1>4, <1>5, <1>7, <2>1, <2>2
<1> QED
  BY <1>1, <1>2, <1>3, <1>6, <1>7

\* The release angle, as a distance beyond the target.
LEMMA ArrivedBeyond ==
    ASSUME TurnTypes, Learnt
    PROVE  Arrived <=> (IF turn.direction = 1 THEN Yaw - turn.target ELSE turn.target - Yaw)
                         >= -turn.coast
<1>1. Yaw \in Int /\ turn.target \in Int /\ turn.coast \in Int /\ turn.direction \in {1, -1}
  BY YawTyped, Numbers DEF TurnTypes, Learnt, Turns
<1>2. PICK y \in Int, t \in Int, c \in Int : Yaw = y /\ turn.target = t /\ turn.coast = c
  BY <1>1
<1>3. CASE turn.direction = 1
  <2>1. 1 * y = y /\ 1 * t = t
    BY <1>2
  <2> QED
    BY <1>2, <1>3, <2>1 DEF Arrived
<1>4. CASE turn.direction = -1
  <2>1. -1 * y = -y /\ -1 * t = -t
    BY <1>2
  <2> QED
    BY <1>2, <1>4, <2>1 DEF Arrived
<1> QED
  BY <1>1, <1>3, <1>4

LEMMA FreshYaw ==
    ASSUME Fresh
    PROVE  Yaw = base.heading
BY Kinds DEF Fresh, Yaw

\* What is undisturbed is undisturbed before its last step.
LEMMA Heeded ==
    ASSUME TurnTypes, TurnTypes', Heard, turn.since = faults' \/ turn.corrected = faults',
           Bounds
    PROVE  faults' = faults /\ Fresh'
BY Numbers DEF Heard, Fresh, Bounds

\* Coasts are blended of coasts.
LEMMA BlendTyped ==
    ASSUME NEW previous \in Nat \cup {None}, NEW measured \in Nat
    PROVE  Blend(previous, measured) \in Nat
<1> DEFINE clamped == Most(0, Least(MAX_COAST, measured))
<1>1. clamped \in Nat
  BY Kinds DEF Most, Least
<1>2. CASE previous = None
  BY <1>1, <1>2 DEF Blend
<1>3. CASE previous # None
  <2>1. previous \in Nat
    BY <1>3
  <2>2. PICK c \in Nat : clamped = c
    BY <1>1
  <2>3. (35 * (c - previous) + 50) \div 100 \in Int
    BY <2>1
  <2>4. (35 * (c - previous) + 50) \div 100 >= -previous
    BY <2>1
  <2>5. Blend(previous, measured) = previous + (35 * (c - previous) + 50) \div 100
    BY <1>3, <2>2 DEF Blend
  <2>6. PICK q \in Int : q = (35 * (c - previous) + 50) \div 100 /\ q >= -previous
    BY <2>3, <2>4
  <2> QED
    BY <2>1, <2>5, <2>6
<1> QED
  BY <1>2, <1>3

LEMMA LearntStep ==
    ASSUME TurnTypes, TurnTypes', Learnt, Next
    PROVE  Learnt'
<1>0. turn \in Turns /\ turn.coast \in Nat
  BY Numbers DEF Learnt
<1>1. CASE \E degrees \in TURNS : Begin(degrees)
  <2>1. PICK degrees \in TURNS : Begin(degrees)
    BY <1>1
  <2>2. StoredCoast(Key(degrees)) \in Nat
    <3>1. Key(degrees) \in {"left", "right"}
      BY DEF Key
    <3> QED
      BY <3>1, Kinds DEF Learnt, StoredCoast, None
  <2>3. turn'.coast = StoredCoast(Key(degrees)) /\ learned' = learned
    BY <2>1 DEF Begin, Idle
  <2> QED
    BY <2>2, <2>3 DEF Learnt
<1>2. CASE BeginSweep
  BY <1>2 DEF BeginSweep, Idle, Learnt
<1>3. CASE TornSave
  <2>1. turn'.coast = 0 /\ \A k \in {"left", "right"} : learned'[k] = None
    BY <1>3 DEF TornSave, Idle, TurnTypes
  <2> QED
    BY <2>1 DEF Learnt
<1>4. CASE Report
  <2>1. turn'.coast = turn.coast
    BY <1>4, PlanKept DEF SamePlan
  <2>2. Abs(turn.slid) \in Nat
    BY <1>0 DEF Abs, Turns
  <2>3. ASSUME NEW k \in {"left", "right"} PROVE learned'[k] \in Nat \cup {None}
    <3>1. learned'[k] \in {learned[k], Blend(learned[k], Abs(turn.slid))}
      BY <1>4 DEF Report, TurnTypes
    <3>2. learned[k] \in Nat \cup {None}
      BY DEF Learnt
    <3> QED
      BY <2>2, <3>1, <3>2, BlendTyped
  <2> QED
    BY <1>0, <2>1, <2>3 DEF Learnt
<1>5. CASE Settled
  <2>1. turn'.coast = turn.coast /\ learned' = learned
    BY <1>0, <1>5, SettledDoes DEF Followed, TurnTypes, Turns, Settled
  <2> QED
    BY <2>1 DEF Learnt
<1>6. CASE Correct \/ BeginNudges \/ Nudge \/ ZeroYaw \/ Pulse
  <2>1. turn'.coast = turn.coast /\ learned' = learned
    BY <1>0, <1>6 DEF Correct, BeginNudges, Nudge, ZeroYaw, Pulse, PulseRotate, Turns
  <2> QED
    BY <2>1 DEF Learnt
<1>7. CASE Prime \/ Start \/ Turning \/ Release \/ StopObeyed \/ StopUnheard \/ Settle
             \/ Waited \/ Decide \/ Raise
  <2>1. turn'.coast = turn.coast
    BY <1>7, PlanKept DEF SamePlan
  <2>2. learned' = learned
    BY <1>7 DEF Prime, Start, Turning, Release, StopObeyed, StopUnheard, Settle, Waited, Decide,
                Raise
  <2> QED
    BY <2>1, <2>2 DEF Learnt
<1> QED
  BY <1>1, <1>2, <1>3, <1>4, <1>5, <1>6, <1>7 DEF Next, Step

-----------------------------------------------------------------------------
(* What an undisturbed main turn measures. *)

LEMMA MeasuresBegin ==
    ASSUME TurnTypes, TurnTypes', NEW degrees \in TURNS, Begin(degrees)
    PROVE  Measures'
<1> SUFFICES ASSUME Straight' PROVE Measures'
  BY DEF Measures
<1>1. turn'.since = faults /\ turn'.pc \in {"prime", "start"}
  BY DEF Begin, Idle
<1>2. faults' = faults
  BY <1>1 DEF Straight
<1>3. Zero(Still) /\ Still \in Bases
  BY StillTyped DEF Begin, TurnTypes
<1>4. /\ base' = [Still EXCEPT !.heading = 0]
      /\ latest'.yaw = 0 /\ latest'.age = 0
  BY <1>2, <1>3, ZeroTyped, Numbers DEF TurnTypes
<1>5. base'.heading = 0 /\ base'.slide = 0
  BY <1>3, <1>4 DEF Still, TurnTypes, Bases
<1> QED
  BY <1>1, <1>4, <1>5 DEF Measures, Fresh

LEMMA MeasuresStart ==
    ASSUME TurnTypes, TurnTypes', Measures, Start
    PROVE  Measures'
<1> SUFFICES ASSUME Straight' PROVE Measures'
  BY DEF Measures
<1>1. /\ turn.pc = "start" /\ turn'.pc = "driving" /\ turn'.target = turn.target
      /\ turn'.direction = Towards(turn.target, Yaw)
      /\ base' = base /\ latest' = latest /\ faults' = faults
  BY Numbers DEF Start, Turns
<1>2. Straight
  BY <1>1, PlanKept DEF Straight, SamePlan
<1>3. Fresh /\ base.slide = 0
  BY <1>1, <1>2 DEF Measures
<1>4. Beyond' <= 0
  BY <1>1, <1>3, FreshYaw, Numbers DEF Beyond, Towards
<1> QED
  BY <1>1, <1>3, <1>4 DEF Measures, Fresh

LEMMA MeasuresTurning ==
    ASSUME TurnTypes, TurnTypes', TurnInv, TurnInv', Learnt, Measures, Turning
    PROVE  Measures'
<1> SUFFICES ASSUME Straight' PROVE Measures'
  BY DEF Measures
<1>1. turn.direction \in Speeds \ {0}
  BY Numbers DEF Turns, Speeds
<1>2. Rolled(turn.direction) /\ Heard /\ Roll(turn.direction)
  BY <1>1, RollDoes, PumpDoes DEF Turning, TurnTypes
<1>3. /\ turn.pc = "driving" /\ turn'.pc = "driving" /\ turn'.direction = turn.direction
  BY Numbers DEF Turning, Turns
<1>4. SamePlan
  BY PlanKept
<1>5. faults' = faults /\ Fresh'
  BY <1>2, <1>4, Heeded DEF Straight, TurnInv, SamePlan
<1>6. Straight
  BY <1>2, <1>4, <1>5 DEF Straight, SamePlan, Rolled
<1>7. /\ Fresh
      /\ \/ base.slide = 0 /\ Beyond <= 0
         \/ base.speed = turn.direction /\ base.slide = base.coast
  BY <1>3, <1>6 DEF Measures
<1>8. base.wired = 1 /\ turn.part = "main" /\ base'.coast = base.coast
  BY <1>2, <1>6 DEF Straight, Rolled
<1>9. \/ base'.speed = turn.direction /\ Beyond' = Beyond + 1
      \/ base'.speed = 0 /\ base.speed = 0 /\ Beyond' = Beyond
  BY <1>1, <1>2, <1>3, <1>4, <1>8, RightRolls DEF SamePlan
<1>10. /\ base'.speed = 0 => base'.slide = 0
       /\ base'.speed # 0 => base'.slide = base.coast
  BY <1>1, <1>2, <1>8, RollSlides DEF TurnTypes
<1>11. CASE base'.speed = turn.direction
  BY <1>1, <1>3, <1>5, <1>8, <1>10, <1>11 DEF Measures
<1>12. CASE base'.speed # turn.direction
  <2>1. base'.speed = 0 /\ base.speed = 0 /\ Beyond' = Beyond /\ base'.slide = 0
    BY <1>9, <1>10, <1>12
  <2>2. Beyond <= 0
    BY <1>1, <1>7, <2>1
  <2> QED
    BY <1>3, <1>5, <2>1, <2>2 DEF Measures
<1> QED
  BY <1>11, <1>12

LEMMA MeasuresRelease ==
    ASSUME TurnTypes, TurnTypes', Learnt, Measures, Release
    PROVE  Measures'
<1> SUFFICES ASSUME Straight', ~Aborted PROVE Coasts'
  <2>1. turn'.pc = "stopping" /\ turn'.abort = Aborted
    BY Numbers DEF Release, Turns
  <2> QED
    BY <2>1 DEF Measures
<1>1. /\ turn.pc = "driving" /\ turn'.direction = turn.direction /\ turn'.atStop = Yaw
      /\ base' = base /\ latest' = latest /\ faults' = faults /\ Arrived
      /\ turn'.target = turn.target /\ turn'.coast = turn.coast
  BY Numbers DEF Release, Turns
<1>2. Straight
  BY <1>1, PlanKept DEF Straight, SamePlan
<1>3. /\ Fresh
      /\ \/ base.slide = 0 /\ Beyond <= 0
         \/ base.speed = turn.direction /\ base.slide = base.coast
  BY <1>1, <1>2 DEF Measures
<1>4. Yaw = base.heading
  BY <1>3, FreshYaw
<1>5. Beyond >= -turn.coast
  BY <1>1, <1>4, ArrivedBeyond DEF Beyond
<1>6. Beyond' = Beyond
  BY <1>1 DEF Beyond
<1>7. Beyond \in Int /\ turn.coast \in Nat
  BY Numbers DEF Beyond, Learnt
<1> QED
  BY <1>1, <1>3, <1>4, <1>5, <1>6, <1>7, Numbers DEF Coasts

LEMMA MeasuresStopObeyed ==
    ASSUME TurnTypes, TurnTypes', Measures, StopObeyed
    PROVE  Measures'
<1> SUFFICES ASSUME Straight' PROVE Measures'
  BY DEF Measures
<1>1. /\ turn.pc = "stopping" /\ turn'.pc = turn.next /\ turn'.elapsed = 0
      /\ turn'.direction = turn.direction /\ turn'.atStop = turn.atStop
      /\ turn'.abort = turn.abort /\ turn.next \in {"idle", "gap", "settling", "ended"}
      /\ faults' = faults
  BY Numbers DEF StopObeyed, Turns
<1>2. /\ base'.heading = base.heading /\ base'.slide = base.slide /\ base'.speed = base.speed
      /\ base'.coast = base.coast /\ base'.wired = base.wired
  BY DEF StopObeyed, TurnTypes, Bases
<1>3. SamePlan
  BY PlanKept
<1>4. Straight
  BY <1>1, <1>2, <1>3 DEF Straight, SamePlan
<1>5. turn.next = "settling" => turn.abort \/ Coasts
  BY <1>1, <1>4 DEF Measures
<1>6. Coasts => Coasts'
  BY <1>1, <1>2, <1>3 DEF Coasts, Beyond, SamePlan
<1> QED
  BY <1>1, <1>5, <1>6 DEF Measures

LEMMA MeasuresSettle ==
    ASSUME TurnTypes, TurnTypes', TurnInv, Measures, Settle
    PROVE  Measures'
<1> SUFFICES ASSUME Straight' PROVE Measures'
  BY DEF Measures
<1>1. Rolled(0) /\ Heard
  BY RollDoes, PumpDoes DEF Settle, TurnTypes, Speeds
<1>2. /\ turn.pc \in {"settling", "gap", "resting"} /\ turn'.pc = turn.pc
      /\ turn'.direction = turn.direction /\ turn'.atStop = turn.atStop
      /\ turn'.abort = turn.abort
  BY Numbers DEF Settle, Turns
<1>3. SamePlan
  BY PlanKept
<1>4. faults' = faults /\ Fresh'
  BY <1>1, <1>3, Heeded DEF Straight, TurnInv, SamePlan
<1>5. Straight
  BY <1>1, <1>3, <1>4 DEF Straight, SamePlan, Rolled
<1>6. turn.pc = "settling" => turn.abort \/ Coasts
  BY <1>2, <1>5 DEF Measures
<1>7. Coasts => Coasts'
  <2>0. base.wired = 1 /\ base'.coast = base.coast /\ turn.atStop \in Int
    BY <1>1, <1>5, Numbers DEF Straight, Rolled, Turns
  <2>1. /\ Beyond \in Int /\ Beyond' \in Int /\ turn.direction \in {1, -1}
        /\ base.slide > 0 /\ base.speed = turn.direction =>
             /\ base'.speed = turn.direction /\ base'.slide = base.slide - 1
             /\ base'.heading = base.heading + turn.direction
        /\ base.slide = 0 =>
             base'.slide = 0 /\ base'.heading = base.heading /\ Beyond' = Beyond
    BY <1>1, <1>2, <1>3, <2>0, RightRolls DEF SamePlan, Speeds
  <2>2. CASE base.slide > 0
    BY <1>2, <2>0, <2>1, <2>2, Numbers DEF Coasts, Steps
  <2>3. CASE base.slide = 0
    BY <1>2, <1>3, <2>0, <2>1, <2>3, Numbers DEF Coasts, Steps, SamePlan
  <2> QED
    BY <2>2, <2>3, Numbers
<1> QED
  BY <1>2, <1>4, <1>6, <1>7 DEF Measures

LEMMA MeasuresWaited ==
    ASSUME TurnTypes, TurnTypes', TurnInv, Measures, Waited
    PROVE  Measures'
<1> SUFFICES ASSUME Straight' PROVE Measures'
  BY DEF Measures
<1>1. /\ turn.pc \in {"gap", "resting"} /\ turn.elapsed = SETTLE
      /\ turn.pc = "gap" => turn'.pc = "start"
      /\ turn.pc = "resting" => turn'.pc = "zeroing"
      /\ base' = base /\ latest' = latest /\ faults' = faults
  BY Numbers DEF Waited, AtRest, Turns
<1>2. Straight
  BY <1>1, PlanKept DEF Straight, SamePlan
<1>3. turn.pc = "gap" => Fresh /\ base.slide = 0
  BY <1>1, <1>2, Numbers, Kinds DEF Measures, TurnInv, Slowing
<1> QED
  BY <1>1, <1>3 DEF Measures, Fresh

LEMMA MeasuresStep ==
    ASSUME TurnTypes, TurnTypes', TurnInv, TurnInv', Learnt, Measures, Next
    PROVE  Measures'
<1>0. turn \in Turns /\ Ended(turn) \in Turns
  BY Numbers, EndedTyped
\* Where nothing is asked of a main turn.
<1>1. ASSUME \/ turn'.part # "main"
             \/ turn'.pc \in {"idle", "prime", "deciding", "ended", "zeroing"}
             \/ turn'.pc = "stopping" /\ turn'.next # "settling"
      PROVE  Measures'
  BY <1>1 DEF Measures, Straight
<1>2. CASE StopUnheard
  <2>1. faults' = faults + 1 /\ turn'.since = turn.since
    BY <1>2, PlanKept DEF StopUnheard, Fault, SamePlan
  <2> QED
    BY <2>1, Numbers DEF Measures, Straight, TurnInv, Bounds
<1>3. CASE Prime \/ Decide \/ Raise \/ Report \/ TornSave
  <2>1. Prime => turn'.pc = "stopping" /\ turn'.next = "gap"
    BY <1>0 DEF Prime, Turns
  <2>2. Decide \/ Raise => turn'.pc = "stopping" /\ turn'.next = "ended"
    BY <1>0 DEF Decide, Raise, Ended, Turns
  <2>3. Report => turn'.pc = "idle"
    BY <1>0 DEF Report, Turns
  <2>4. TornSave => turn'.pc = "idle"
    BY DEF TornSave, Idle
  <2> QED
    BY <1>1, <1>3, <2>1, <2>2, <2>3, <2>4
<1>4. CASE Correct \/ BeginNudges \/ Nudge \/ BeginSweep \/ Pulse \/ ZeroYaw
  <2>1. turn'.part # "main"
    BY <1>4, Numbers
       DEF Correct, BeginNudges, Nudge, BeginSweep, Pulse, PulseRotate, ZeroYaw, Idle, Turns,
           TurnInv, Judged, Sweeping
  <2> QED
    BY <1>1, <2>1
<1>5. CASE Settled
  <2>1. \/ turn'.pc = "deciding"
        \/ turn'.pc = "stopping" /\ turn'.next = "ended"
        \/ turn'.part \in {"wake", "sweep"}
    BY <1>0, <1>5, SettledDoes DEF Followed, TurnTypes, Turns
  <2> QED
    BY <1>1, <2>1
<1> QED
  BY <1>2, <1>3, <1>4, <1>5, MeasuresBegin, MeasuresStart, MeasuresTurning, MeasuresRelease,
     MeasuresStopObeyed, MeasuresSettle, MeasuresWaited DEF Next, Step

-----------------------------------------------------------------------------
(* How far a correction goes. *)

LEMMA Reaches ==
    ASSUME TurnTypes, Bounds, Correcting
    PROVE  /\ Left \in Nat /\ Wrong \in Nat /\ Reach \in Nat /\ Left + Wrong <= Reach
           /\ Wrong = 0 => Reach = Left
           /\ Wrong # 0 => base.coast + Wrong <= Reach
<1>1. Left \in Nat
  BY Numbers DEF Left, Abs
<1>2. Wrong \in Nat
  BY Numbers DEF Wrong, Correcting, Bounds
<1>3. PICK l \in Nat, w \in Nat, c \in Nat : Left = l /\ Wrong = w /\ base.coast = c
  BY <1>1, <1>2, Numbers
<1> QED
  BY <1>3 DEF Reach, Most

LEMMA ReachKept ==
    ASSUME SamePlan, base'.coast = base.coast
    PROVE  Left' = Left /\ Wrong' = Wrong /\ Reach' = Reach
<1>1. Left' = Left /\ Wrong' = Wrong
  BY DEF SamePlan, Left, Wrong
<1> QED
  BY <1>1 DEF Reach

\* A correction goes on undisturbed only if nothing goes wrong in its next step.
LEMMA CorrectingKept ==
    ASSUME TurnTypes, TurnTypes', Bounds, SamePlan, faults <= faults',
           base'.wired = base.wired, Correcting'
    PROVE  Correcting /\ faults' = faults
BY Numbers DEF Correcting, SamePlan, Bounds, TurnTypes

LEMMA CorrectsCorrect ==
    ASSUME TurnTypes, TurnTypes', TurnInv, TurnInv', Correct
    PROVE  Corrects'
<1> SUFFICES ASSUME Correcting' PROVE Corrects'
  BY DEF Corrects
<1>1. /\ turn.pc = "deciding" /\ turn'.pc = "start" /\ turn'.before = turn.achieved
      /\ turn'.corrected = faults /\ turn'.since = turn.since /\ turn'.target = turn.target
      /\ base' = base /\ latest' = latest /\ faults' = faults
  BY Numbers DEF Correct, Turns
<1>2. base.slide = 0 /\ Near(turn.achieved) /\ Near(Yaw)
  BY <1>1 DEF TurnInv, Rested, Measured
<1>3. Wrong' = faults - turn.since /\ Left' = Abs(turn.target - turn.achieved)
  BY <1>1 DEF Wrong, Left
<1>4. Late(turn.since) <= Wrong' /\ Late(turn.since) \in Int /\ Wrong' \in Int
  BY <1>3, Numbers, Kinds DEF Late, Least
<1>5. Yaw \in Int /\ Yaw' = Yaw
  BY <1>1, YawTyped DEF TurnTypes, Yaw
<1>6. Yaw' - base'.heading <= Wrong' /\ base'.heading - Yaw' <= Wrong'
  BY <1>1, <1>2, <1>4, <1>5, Numbers DEF Near
<1>7. /\ turn.achieved - base.heading <= Wrong' /\ base.heading - turn.achieved <= Wrong'
  BY <1>2, <1>4, Numbers DEF Near
<1>8. Abs(turn'.target - base'.heading) <= Left' + Wrong'
  <2>1. PICK w \in Int : Wrong' = w
    BY <1>4
  <2>2. Abs(turn.target - base.heading) <= Abs(turn.target - turn.achieved) + w
    BY <1>7, <2>1, Numbers DEF Abs
  <2> QED
    BY <1>1, <1>3, <2>1, <2>2
<1> QED
  BY <1>1, <1>2, <1>6, <1>8 DEF Corrects

LEMMA CorrectsStart ==
    ASSUME TurnTypes, TurnTypes', TurnInv, Corrects, Start
    PROVE  Corrects'
<1> SUFFICES ASSUME Correcting' PROVE Corrects'
  BY DEF Corrects
<1>1. /\ turn.pc = "start" /\ turn'.pc = "driving" /\ turn'.direction \in {1, -1}
      /\ base' = base /\ latest' = latest /\ faults' = faults
  BY Numbers DEF Start, Turns, Towards
<1>2. SamePlan
  BY PlanKept
<1>3. Correcting
  BY <1>1, <1>2, CorrectingKept, Numbers DEF TurnInv
<1>4. /\ base.slide = 0 /\ Abs(turn.target - base.heading) <= Left + Wrong
      /\ Yaw - base.heading <= Wrong /\ base.heading - Yaw <= Wrong
  BY <1>1, <1>3 DEF Corrects
<1>5. PICK l \in Nat, w \in Nat, r \in Nat :
        Left = l /\ Wrong = w /\ Reach = r /\ l + w <= r
  BY <1>3, Reaches DEF TurnInv
<1>6. Left' = l /\ Wrong' = w /\ Reach' = r
  BY <1>1, <1>2, <1>5, ReachKept
<1>7. -(l + w) <= Beyond' /\ Beyond' <= l + w /\ Beyond' \in Int
  BY <1>1, <1>2, <1>4, <1>5, Numbers DEF Beyond, Abs, SamePlan
<1>8. Within'
  <2>1. base'.slide = 0
    BY <1>1, <1>4
  <2>2. PICK b \in Int : Beyond' = b
    BY <1>7
  <2>3. -(l + w) <= Beyond' /\ Beyond' + base'.slide <= r
    BY <1>5, <1>7, <2>1, <2>2
  <2> QED
    BY <1>6, <2>1, <2>3 DEF Within
<1>9. Yaw' = Yaw
  BY <1>1 DEF Yaw
<1> QED
  BY <1>1, <1>4, <1>5, <1>6, <1>8, <1>9 DEF Corrects

LEMMA CorrectsTurning ==
    ASSUME TurnTypes, TurnTypes', TurnInv, Learnt, Coarse, Corrects, Turning
    PROVE  Corrects'
<1> SUFFICES ASSUME Correcting' PROVE Corrects'
  BY DEF Corrects
<1>1. turn.direction \in Speeds \ {0} /\ turn.direction \in {1, -1}
  BY Numbers DEF Turns, Speeds
<1>2. /\ Rolled(turn.direction) /\ Heard /\ Roll(turn.direction) /\ faults <= faults'
      /\ base'.coast = base.coast /\ base'.wired = base.wired
  BY <1>1, RollDoes, PumpDoes DEF Turning, TurnTypes, Rolled
<1>3. turn.pc = "driving" /\ turn'.pc = "driving" /\ turn'.direction = turn.direction /\ ~Arrived
  BY Numbers DEF Turning, Turns
<1>4. SamePlan
  BY PlanKept
<1>5. Correcting /\ faults' = faults
  BY <1>2, <1>4, CorrectingKept DEF TurnInv
<1>6. Fresh'
  BY <1>2, <1>4, <1>5, Heeded DEF Correcting, TurnInv, SamePlan
<1>7. /\ Within /\ Yaw - base.heading <= Wrong /\ base.heading - Yaw <= Wrong
  BY <1>3, <1>5 DEF Corrects
<1>8. /\ Left \in Nat /\ Wrong \in Nat /\ Reach \in Nat /\ Left + Wrong <= Reach
      /\ Wrong = 0 => Reach = Left
      /\ Wrong # 0 => base.coast + Wrong <= Reach
  BY <1>5, Reaches DEF TurnInv
<1>9. PICK l \in Nat, w \in Nat, r \in Nat, c \in Nat, k \in Nat, b \in Int, y \in Int :
        Left = l /\ Wrong = w /\ Reach = r /\ base.coast = c /\ turn.coast = k /\ Beyond = b /\ Yaw = y
  <2>1. Beyond \in Int /\ Yaw \in Int /\ turn.coast \in Nat /\ base.coast \in Nat
    BY YawTyped, Numbers DEF Beyond, TurnTypes, Learnt
  <2> QED
    BY <1>8, <2>1
<1>10. -(l + w) <= b /\ b + base.slide <= r /\ (base.slide > 0 => base.speed = turn.direction)
  BY <1>7, <1>9 DEF Within
<1>11. b <= w - k - 1
  <2>1. (IF turn.direction = 1 THEN y - turn.target ELSE turn.target - y) < -k
    BY <1>3, <1>9, ArrivedBeyond, Numbers
  <2> QED
    BY <1>1, <1>7, <1>9, <2>1, Numbers DEF Beyond
\* An undisturbed turn is not corrected where that may do harm.
<1>12. w = 0 => c <= l
  <2>1. SUFFICES ASSUME w = 0 PROVE c <= l
    OBVIOUS
  <2>2. turn.since = faults
    BY <1>5, <1>9, <2>1, Numbers DEF Correcting, Wrong
  <2>3. turn.floor <= Left /\ (base.coast <= turn.floor \/ Left <= turn.coast)
    BY <1>5, <2>2 DEF Coarse, Correcting
  <2>4. ~(l <= k)
    BY <1>9, <1>10, <1>11, <2>1
  <2> QED
    BY <1>9, <2>3, <2>4, Numbers DEF Turns
<1>13. c + w <= r
  BY <1>8, <1>9, <1>12
<1>14. /\ base'.slide <= c /\ base'.slide \in Nat
       /\ \/ base'.speed = turn.direction /\ Beyond' = b + 1
          \/ base'.speed = 0 /\ base.speed = 0 /\ Beyond' = b
  <2>1. base.wired = 1 /\ base'.slide \in Nat
    BY <1>5 DEF Correcting, TurnTypes, Bases
  <2> QED
    BY <1>1, <1>2, <1>3, <1>4, <1>9, <2>1, RightRolls DEF SamePlan
<1>15. base'.speed = 0 => base'.slide = 0
  BY <1>1, <1>2, RollSlides DEF TurnTypes
<1>16. Left' = l /\ Wrong' = w /\ Reach' = r
  BY <1>2, <1>4, <1>9, ReachKept
<1>17. PICK bb \in Int, s \in Nat :
         /\ Beyond' = bb /\ base'.slide = s /\ (bb = b + 1 \/ bb = b) /\ s <= c
         /\ s > 0 => base'.speed = turn.direction
  BY <1>14, <1>15
<1>18. -(l + w) <= bb /\ bb + s <= r
  BY <1>8, <1>9, <1>10, <1>11, <1>13, <1>17
<1>19. Within'
  BY <1>3, <1>16, <1>17, <1>18 DEF Within
<1>20. Yaw' = base'.heading
  BY <1>6, Kinds DEF Fresh, Yaw
<1>21. Yaw' - base'.heading <= Wrong' /\ base'.heading - Yaw' <= Wrong'
  BY <1>16, <1>20, Numbers DEF TurnTypes, Bases
<1> QED
  BY <1>3, <1>19, <1>21 DEF Corrects

LEMMA CorrectsSettle ==
    ASSUME TurnTypes, TurnTypes', TurnInv, Corrects, Settle
    PROVE  Corrects'
<1> SUFFICES ASSUME Correcting' PROVE Corrects'
  BY DEF Corrects
<1>1. /\ Rolled(0) /\ faults <= faults' /\ base'.coast = base.coast /\ base'.wired = base.wired
  BY RollDoes, PumpDoes DEF Settle, TurnTypes, Speeds, Rolled
<1>2. /\ turn.pc \in {"settling", "gap", "resting"} /\ turn'.pc = turn.pc
      /\ turn'.direction = turn.direction /\ turn'.next = turn.next
  BY Numbers DEF Settle, Turns
<1>3. SamePlan
  BY PlanKept
<1>4. Correcting
  BY <1>1, <1>3, CorrectingKept DEF TurnInv
<1>5. turn.pc = "settling" /\ Within
  BY <1>2, <1>4 DEF Corrects, Correcting, TurnInv, Judged, Sweeping
<1>6. PICK l \in Nat, w \in Nat, r \in Nat : Left = l /\ Wrong = w /\ Reach = r
  BY <1>4, Reaches DEF TurnInv
<1>7. Left' = l /\ Wrong' = w /\ Reach' = r
  BY <1>1, <1>3, <1>6, ReachKept
<1>8. /\ Beyond \in Int /\ Beyond' \in Int
      /\ base.slide > 0 /\ base.speed = turn.direction =>
           base'.speed = turn.direction /\ base'.slide = base.slide - 1 /\ Beyond' = Beyond + 1
      /\ base.slide = 0 => base'.slide = 0 /\ Beyond' = Beyond
  BY <1>1, <1>2, <1>3, <1>4, RightRolls DEF SamePlan, Speeds, Correcting
<1>9. -(l + w) <= Beyond /\ Beyond + base.slide <= r
      /\ (base.slide > 0 => base.speed = turn.direction)
  BY <1>5, <1>6 DEF Within
<1>10. Within'
  <2>1. CASE base.slide > 0
    <3>1. /\ base'.speed = turn.direction /\ base'.slide = base.slide - 1
          /\ Beyond' = Beyond + 1
      BY <1>8, <1>9, <2>1
    <3>2. -(l + w) <= Beyond' /\ Beyond' + base'.slide <= r
      BY <1>8, <1>9, <3>1, Numbers
    <3> QED
      BY <1>2, <1>7, <3>1, <3>2 DEF Within
  <2>2. CASE base.slide = 0
    <3>1. base'.slide = 0 /\ Beyond' = Beyond
      BY <1>8, <2>2
    <3> QED
      BY <1>7, <1>9, <2>2, <3>1 DEF Within
  <2> QED
    BY <2>1, <2>2, Numbers
<1> QED
  BY <1>2, <1>5, <1>10 DEF Corrects

\* Steps that leave the base where it is, and where it will slide to.
LEMMA CorrectsStays ==
    ASSUME TurnTypes, TurnTypes', TurnInv, Corrects, Correcting, turn.pc # "start",
           base'.heading = base.heading, base'.slide = base.slide, base'.speed = base.speed,
           base'.coast = base.coast, turn'.direction = turn.direction,
           Left' = Left, Wrong' = Wrong, Reach' = Reach, turn'.target = turn.target,
           turn'.pc \notin {"prime", "gap", "start", "driving"},
           turn'.pc = "stopping" => turn'.next # "gap"
    PROVE  Corrects'
<1>1. Within
  BY DEF Corrects
<1>2. Beyond' = Beyond
  BY DEF Beyond
<1>3. Within'
  BY <1>1, <1>2 DEF Within
<1> QED
  BY <1>3 DEF Corrects

LEMMA CorrectsRaise ==
    ASSUME TurnTypes, TurnTypes', TurnInv, Corrects, Raise
    PROVE  Corrects'
<1> SUFFICES ASSUME Correcting' PROVE Corrects'
  BY DEF Corrects
<1>0. Ended(turn) \in Turns
  BY EndedTyped, Numbers
<1>1. /\ turn'.pc = "stopping" /\ turn'.next = "ended" /\ turn'.direction = turn.direction
      /\ base' = base
  BY <1>0, Numbers DEF Raise, Ended, Turns
<1>2. SamePlan
  BY PlanKept
<1>3. faults <= faults'
  BY Numbers DEF Raise, Fault
<1>4. Correcting
  BY <1>1, <1>2, <1>3, CorrectingKept DEF TurnInv
<1>5. Left' = Left /\ Wrong' = Wrong /\ Reach' = Reach
  BY <1>1, <1>2, ReachKept
<1>6. CASE turn.pc = "start"
  <2>1. base.slide = 0 /\ Abs(turn.target - base.heading) <= Left + Wrong
    BY <1>4, <1>6 DEF Corrects
  <2>2. PICK l \in Nat, w \in Nat, r \in Nat :
          Left = l /\ Wrong = w /\ Reach = r /\ l + w <= r
    BY <1>4, Reaches DEF TurnInv
  <2>3. -(l + w) <= Beyond' /\ Beyond' <= l + w /\ Beyond' \in Int
    BY <1>1, <1>2, <2>1, <2>2, Numbers DEF Beyond, Abs, SamePlan
  <2>4. Within'
    BY <1>1, <1>5, <2>1, <2>2, <2>3 DEF Within
  <2> QED
    BY <1>1, <2>4 DEF Corrects
<1>7. CASE turn.pc # "start"
  BY <1>1, <1>2, <1>4, <1>5, <1>7, CorrectsStays DEF SamePlan
<1> QED
  BY <1>6, <1>7

LEMMA CorrectsStep ==
    ASSUME TurnTypes, TurnTypes', TurnInv, TurnInv', Learnt, Coarse, Corrects, Next
    PROVE  Corrects'
<1>0. turn \in Turns /\ Ended(turn) \in Turns
  BY Numbers, EndedTyped
<1>1. CASE Release \/ StopObeyed \/ Decide \/ Report
  <2> SUFFICES ASSUME Correcting' PROVE Corrects'
    BY DEF Corrects
  <2>1. /\ faults' = faults /\ base'.heading = base.heading /\ base'.slide = base.slide
        /\ base'.speed = base.speed /\ base'.coast = base.coast /\ base'.wired = base.wired
    BY <1>1 DEF Release, StopObeyed, Decide, Report, TurnTypes, Bases
  <2>2. SamePlan
    BY <1>1, PlanKept
  <2>3. Correcting
    BY <2>1, <2>2, CorrectingKept, Numbers DEF TurnInv
  <2>4. Left' = Left /\ Wrong' = Wrong /\ Reach' = Reach
    BY <2>1, <2>2, ReachKept
  <2>5. turn'.direction = turn.direction /\ turn.pc # "start"
    BY <1>0, <1>1 DEF Release, StopObeyed, Decide, Report, Ended, Turns
  <2>6. /\ turn'.pc \notin {"prime", "gap", "start", "driving"}
        /\ turn'.pc = "stopping" => turn'.next # "gap"
    <3>1. Release => turn'.pc = "stopping" /\ turn'.next = "settling"
      BY <1>0 DEF Release, Turns
    <3>2. Decide => turn'.pc = "stopping" /\ turn'.next = "ended"
      BY <1>0 DEF Decide, Ended, Turns
    <3>3. Report => turn'.pc = "idle"
      BY <1>0 DEF Report, Turns
    <3>4. StopObeyed => turn'.pc \in {"idle", "settling", "ended"}
      BY <1>0, <2>3 DEF StopObeyed, Turns, Corrects
    <3> QED
      BY <1>1, <3>1, <3>2, <3>3, <3>4
  <2> QED
    BY <2>1, <2>2, <2>3, <2>4, <2>5, <2>6, CorrectsStays DEF SamePlan
<1>2. CASE Settled
  <2> SUFFICES ASSUME Correcting' PROVE Corrects'
    BY DEF Corrects
  <2>1. base' = base /\ faults' = faults /\ turn.pc = "settling"
    BY <1>2 DEF Settled
  <2>2. /\ turn'.part = "correction" /\ turn.part = "correction"
        /\ turn'.target = turn.target /\ turn'.before = turn.before
        /\ turn'.since = turn.since /\ turn'.corrected = turn.corrected
        /\ turn'.direction = turn.direction
        /\ turn'.pc \in {"deciding", "stopping"} /\ (turn'.pc = "stopping" => turn'.next = "ended")
    BY <1>0, <1>2, SettledDoes DEF Followed, TurnTypes, Turns, Correcting
  <2>3. Correcting
    BY <2>1, <2>2 DEF Correcting
  <2>4. Left' = Left /\ Wrong' = Wrong
    BY <2>2 DEF Left, Wrong
  <2>5. Reach' = Reach
    BY <2>1, <2>4 DEF Reach
  <2> QED
    BY <2>1, <2>2, <2>3, <2>4, <2>5, CorrectsStays
<1>3. CASE StopUnheard
  <2>1. faults' = faults + 1 /\ turn'.corrected = turn.corrected
    BY <1>3, PlanKept DEF StopUnheard, Fault, SamePlan
  <2> QED
    BY <2>1, Numbers DEF Corrects, Correcting, TurnInv, Bounds
\* Other than corrections.
<1>4. CASE \/ BeginNudges \/ Nudge \/ BeginSweep \/ Pulse \/ ZeroYaw \/ TornSave
           \/ \E degrees \in TURNS : Begin(degrees)
  <2>1. BeginNudges \/ Nudge => turn'.part # "correction"
    BY <1>0 DEF BeginNudges, Nudge, PulseRotate, Turns
  <2>2. BeginSweep => turn'.part # "correction"
    BY DEF BeginSweep, Idle
  <2>7. TornSave => turn'.part # "correction"
    BY DEF TornSave, Idle
  <2>6. ASSUME NEW degrees \in TURNS, Begin(degrees) PROVE turn'.part # "correction"
    BY <2>6 DEF Begin, Idle
  <2>3. Pulse => turn'.part # "correction"
    BY <1>0 DEF Pulse, PulseRotate, Turns, TurnInv, Judged, Sweeping
  <2>4. ZeroYaw => turn'.part # "correction"
    BY <1>0 DEF ZeroYaw, Turns, TurnInv, Judged, Sweeping
  <2>5. turn'.part # "correction"
    BY <1>4, <2>1, <2>2, <2>3, <2>4, <2>6, <2>7
  <2> QED
    BY <2>5 DEF Corrects, Correcting
<1>5. CASE Prime \/ Waited
  <2> SUFFICES ASSUME Correcting' PROVE FALSE
    BY DEF Corrects
  <2>1. SamePlan
    BY <1>5, PlanKept
  <2>2. /\ turn.pc \in {"prime", "gap", "resting"} /\ faults' = faults
        /\ base'.wired = base.wired
    BY <1>5, RollDoes DEF Prime, Waited, TurnTypes, Turns, Speeds, Rolled
  <2>3. Correcting
    BY <2>1, <2>2, CorrectingKept, Numbers DEF TurnInv
  <2> QED
    BY <2>2, <2>3 DEF Corrects, Correcting, TurnInv, Judged, Sweeping
<1> QED
  BY <1>1, <1>2, <1>3, <1>4, <1>5, CorrectsCorrect, CorrectsStart, CorrectsTurning,
     CorrectsSettle, CorrectsRaise DEF Next, Step

-----------------------------------------------------------------------------
(* What a turn that nothing disturbs makes of what it measured. *)

\* Steps that leave the plan alone, and decide nothing.
LEMMA CoarseKept ==
    ASSUME TurnTypes, TurnTypes', TurnInv, Coarse, SamePlan, faults <= faults',
           base'.wired = base.wired, base'.coast = base.coast, turn'.pc # "deciding"
    PROVE  Coarse'
<1> SUFFICES ASSUME base'.wired = 1, turn'.since = faults', turn'.part = "correction"
             PROVE  /\ turn'.corrected = faults' /\ turn'.floor <= Left'
                    /\ base'.coast <= turn'.floor \/ Left' <= turn'.coast
  BY DEF Coarse
<1>1. faults' = faults /\ turn.since = faults
  BY Numbers DEF TurnInv, Bounds, SamePlan
<1>2. Left' = Left
  BY DEF SamePlan, Left
<1>3. /\ turn.corrected = faults /\ turn.floor <= Left
      /\ base.coast <= turn.floor \/ Left <= turn.coast
  BY <1>1 DEF Coarse, SamePlan
<1> QED
  BY <1>1, <1>2, <1>3 DEF SamePlan

LEMMA CoarseCorrect ==
    ASSUME TurnTypes, TurnInv, Coarse, Correct
    PROVE  Coarse'
<1>1. /\ turn.pc = "deciding" /\ turn'.pc = "start" /\ turn'.before = turn.achieved
      /\ turn'.corrected = faults /\ turn'.since = turn.since /\ turn'.target = turn.target
      /\ turn'.floor = turn.floor /\ turn'.coast = turn.coast
      /\ base' = base /\ faults' = faults
  BY Numbers DEF Correct, Turns
<1>2. Left' = Abs(Error) /\ Abs(Error) >= turn.floor
  BY <1>1 DEF Left, Error, Correct
<1>3. turn.floor \in Int /\ Abs(Error) \in Int
  BY Numbers DEF Turns, Abs, Error
<1>4. turn.part \in {"main", "correction"}
  BY <1>1, Numbers DEF Correct, Nudging, TurnInv, Judged, Sweeping, Turns, Parts
<1> QED
  BY <1>1, <1>2, <1>3, <1>4 DEF Coarse

\* The coast that the main turn measured bounds the corrections from below.
LEMMA CoarseMain ==
    ASSUME TurnTypes, TurnTypes', TurnInv, Measures, Settled, turn.part = "main",
           base.wired = 1, turn.since = faults, turn'.pc = "deciding"
    PROVE  base.coast <= turn'.floor \/ Abs(Error') <= turn'.coast
<1> DEFINE t == [turn EXCEPT !.achieved = Yaw]
<1>1. /\ turn.pc = "settling" /\ turn.elapsed = SETTLE /\ turn.elapsed > 0
  BY Numbers, Kinds DEF Settled, AtRest
<1>2. base.slide = 0 /\ base.heading \in Int /\ base.coast \in Nat /\ turn.atStop \in Int
  BY <1>1, Numbers, Kinds DEF TurnInv, Slowing, Turns
<1>3. Fresh /\ (turn.abort \/ Coasts)
  BY <1>1 DEF Measures, Straight
<1>4. Yaw = base.heading
  BY <1>3, FreshYaw
<1>a. turn \in Turns /\ Yaw \in Int
  BY <1>2, <1>4, Numbers
<1>5. turn \in Turns /\ t \in Turns
  BY <1>a DEF Turns
<1>6. /\ t.achieved = base.heading /\ t.atStop = turn.atStop /\ t.abort = turn.abort
      /\ t.target = turn.target /\ t.coast = turn.coast
  BY <1>4, <1>5 DEF Turns
<1>7. turn' = AfterMain(t)
  BY DEF Settled
<1> HIDE DEF t
<1>8. ~turn.abort
  BY <1>5, <1>6, <1>7 DEF AfterMain, Ended, Turns
<1>9. /\ turn'.floor = Floor(base.heading - turn.atStop)
      /\ turn'.target = turn.target /\ turn'.coast = turn.coast
      /\ turn'.achieved = base.heading
  <2>1. turn' = [[t EXCEPT !.slid = t.achieved - t.atStop] EXCEPT
                   !.pc = "deciding", !.floor = Floor(t.achieved - t.atStop)]
    BY <1>6, <1>7, <1>8 DEF AfterMain
  <2> QED
    BY <1>5, <1>6, <2>1 DEF Turns
<1>10. turn.direction \in {1, -1} /\ turn.coast \in Int /\ turn.target \in Int
  BY <1>5 DEF Turns
<1>11. CASE base.heading = turn.atStop + Steps(turn.direction, base.coast)
  <2>1. Abs(base.heading - turn.atStop) = base.coast
    BY <1>2, <1>10, <1>11 DEF Abs, Steps
  <2> QED
    BY <1>2, <1>9, <2>1, Kinds DEF Floor, Most
<1>12. CASE -turn.coast <= Beyond /\ Beyond <= 0
  <2>1. Abs(turn.target - base.heading) <= turn.coast
    BY <1>2, <1>10, <1>12 DEF Abs, Beyond
  <2>2. Error' = turn.target - base.heading
    BY <1>9 DEF Error
  <2> QED
    BY <1>9, <2>1, <2>2
<1>13. base.heading + Steps(turn.direction, base.slide) = base.heading
  BY <1>2, <1>10 DEF Steps
<1> QED
  BY <1>3, <1>8, <1>11, <1>12, <1>13 DEF Coasts

\* A correction leaves less to correct than there was.
LEMMA CoarseCorrection ==
    ASSUME TurnTypes, TurnTypes', TurnInv, TurnInv', Coarse, Corrects, Settled,
           turn.part = "correction", base.wired = 1, turn.since = faults,
           turn'.pc = "deciding"
    PROVE  Abs(Error') <= Left
<1>1. /\ turn.pc = "settling" /\ turn.elapsed = SETTLE
      /\ base' = base /\ latest' = latest /\ faults' = faults
  BY DEF Settled, AtRest
<1>2. base.slide = 0 /\ base.heading \in Int
  BY <1>1, Numbers, Kinds DEF TurnInv, Slowing
<1>3. /\ turn'.achieved = Yaw /\ turn'.since = turn.since /\ turn'.target = turn.target
  BY SettledDoes, Numbers DEF Followed, TurnTypes, Turns
<1>4. Correcting
  BY DEF Coarse, Correcting
<1>5. Wrong = 0 /\ Reach = Left /\ Left \in Nat
  BY <1>4, Reaches, Numbers DEF TurnInv, Wrong, Correcting
<1>6. Within
  BY <1>1, <1>4 DEF Corrects
<1>7. turn.direction \in {1, -1} /\ turn.target \in Int /\ turn'.achieved \in Int
  BY Numbers DEF Turns, TurnTypes
<1>8. -Left <= Beyond /\ Beyond <= Left
  BY <1>2, <1>5, <1>6, <1>7 DEF Within, Beyond
<1>9. Abs(turn.target - base.heading) <= Left
  BY <1>2, <1>5, <1>7, <1>8 DEF Abs, Beyond
<1>10. turn'.achieved = base.heading
  <2>1. Near(turn.achieved)'
    BY DEF TurnInv, Rested, Measured
  <2>2. Late(turn.since)' = 0
    <3>1. faults' - turn'.since = 0
      BY <1>1, <1>3, Numbers
    <3> QED
      BY <3>1, Kinds DEF Late, Least
  <2>3. /\ turn'.achieved - base'.heading <= Late(turn.since)'
        /\ base'.heading - turn'.achieved <= Late(turn.since)'
    BY <2>1 DEF Near
  <2> QED
    BY <1>1, <1>2, <1>7, <2>2, <2>3
<1>11. Error' = turn.target - base.heading
  BY <1>3, <1>10 DEF Error
<1> QED
  BY <1>9, <1>11

LEMMA CoarseSettled ==
    ASSUME TurnTypes, TurnTypes', TurnInv, TurnInv', Measures, Coarse, Corrects, Settled
    PROVE  Coarse'
<1> SUFFICES ASSUME base'.wired = 1, turn'.since = faults', turn'.part \in {"main", "correction"}
             PROVE  Coarse'
  BY DEF Coarse
<1>1. /\ turn'.part = turn.part /\ turn'.target = turn.target /\ turn'.before = turn.before
      /\ turn'.since = turn.since /\ turn'.corrected = turn.corrected
      /\ turn'.coast = turn.coast /\ (turn.part # "main" => turn'.floor = turn.floor)
      /\ base' = base /\ faults' = faults
  BY SettledDoes, Numbers DEF Followed, TurnTypes, Turns, Settled
<1>2. base.wired = 1 /\ turn.since = faults /\ turn.part \in {"main", "correction"}
  BY <1>1
<1>3. Left' = Left
  BY <1>1 DEF Left
<1>4. CASE turn.part = "main"
  <2>1. turn'.pc = "deciding" => base'.coast <= turn'.floor \/ Abs(Error') <= turn'.coast
    BY <1>1, <1>2, <1>4, CoarseMain
  <2> QED
    BY <1>1, <1>4, <2>1 DEF Coarse
<1>5. CASE turn.part = "correction"
  <2>1. /\ turn.corrected = faults /\ turn.floor <= Left
        /\ base.coast <= turn.floor \/ Left <= turn.coast
    BY <1>2, <1>5 DEF Coarse
  <2>2. turn'.pc = "deciding" => Abs(Error') <= Left
    BY <1>2, <1>5, CoarseCorrection
  <2>3. Left \in Int /\ turn.coast \in Int /\ Abs(Error') \in Int
    BY <1>1, Numbers DEF Left, Error, Abs, Turns, TurnTypes
  <2>4. turn'.pc = "deciding" => base'.coast <= turn'.floor \/ Abs(Error') <= turn'.coast
    <3>1. PICK e \in Int, l \in Int, c \in Int : Abs(Error') = e /\ Left = l /\ turn.coast = c
      BY <2>3
    <3> QED
      BY <1>1, <1>5, <2>1, <2>2, <3>1
  <2> QED
    BY <1>1, <1>3, <1>5, <2>1, <2>4 DEF Coarse
<1> QED
  BY <1>2, <1>4, <1>5

LEMMA CoarseStep ==
    ASSUME TurnTypes, TurnTypes', TurnInv, TurnInv', Measures, Coarse, Corrects, Next
    PROVE  Coarse'
<1>0. turn \in Turns /\ Ended(turn) \in Turns /\ turn.next # "deciding"
  BY Numbers, EndedTyped DEF Turns
<1>1. CASE Prime \/ Start \/ Turning \/ Release \/ StopObeyed \/ StopUnheard \/ Settle \/ Waited
             \/ Decide \/ Report \/ Raise
  <2>1. SamePlan
    BY <1>1, PlanKept
  <2>2. turn'.pc # "deciding"
    <3>1. Prime \/ Start \/ Turning \/ Release => turn'.pc # "deciding"
      BY <1>0 DEF Prime, Start, Turning, Release, Turns
    <3>2. StopObeyed \/ StopUnheard \/ Settle \/ Waited => turn'.pc # "deciding"
      BY <1>0 DEF StopObeyed, StopUnheard, Settle, Waited, Turns
    <3>3. Decide \/ Report \/ Raise => turn'.pc # "deciding"
      BY <1>0 DEF Decide, Report, Raise, Ended, Turns
    <3> QED
      BY <1>1, <3>1, <3>2, <3>3
  <2>3. base'.wired = base.wired /\ base'.coast = base.coast
    <3>1. \A d \in Speeds : Roll(d) => base'.wired = base.wired /\ base'.coast = base.coast
      BY RollDoes DEF Rolled, TurnTypes
    <3>2. Prime \/ Turning \/ Settle => \E d \in Speeds : Roll(d)
      BY <1>0 DEF Prime, Turning, Settle, Turns, Speeds
    <3>3. StopUnheard => \E d \in Speeds : Roll(d)
      BY Numbers DEF StopUnheard, Speeds
    <3>4. StopObeyed => base'.wired = base.wired /\ base'.coast = base.coast
      BY DEF StopObeyed, TurnTypes, Bases
    <3>5. Start \/ Release \/ Waited \/ Decide \/ Report \/ Raise => base' = base
      BY DEF Start, Release, Waited, Decide, Report, Raise
    <3> QED
      BY <1>1, <3>1, <3>2, <3>3, <3>4, <3>5
  <2>4. faults <= faults'
    <3>1. Turning \/ Settle => faults <= faults'
      BY Numbers DEF Turning, Settle, Pump, Fault
    <3>2. StopUnheard \/ Raise => faults <= faults'
      BY Numbers DEF StopUnheard, Raise, Fault
    <3>3. Prime \/ Start \/ Release \/ StopObeyed \/ Waited \/ Decide \/ Report => faults <= faults'
      BY Numbers DEF Prime, Start, Release, StopObeyed, Waited, Decide, Report
    <3> QED
      BY <1>1, <3>1, <3>2, <3>3
  <2> QED
    BY <2>1, <2>2, <2>3, <2>4, CoarseKept
\* Where a plan begins, and what is no correction.
<1>2. CASE \/ BeginNudges \/ Nudge \/ BeginSweep \/ Pulse \/ ZeroYaw \/ TornSave
           \/ \E degrees \in TURNS : Begin(degrees)
  <2>1. BeginNudges \/ Nudge => turn'.part = "nudge"
    BY <1>0 DEF BeginNudges, Nudge, PulseRotate, Turns
  <2>2. BeginSweep => turn'.part = "wake"
    BY DEF BeginSweep, Idle
  <2>3. Pulse => turn'.part \in {"wake", "sweep"}
    BY <1>0 DEF Pulse, PulseRotate, Turns, TurnInv, Judged, Sweeping
  <2>4. ZeroYaw => turn'.part \in {"wake", "sweep"}
    BY <1>0 DEF ZeroYaw, Turns, TurnInv, Judged, Sweeping
  <2>5. TornSave => turn'.part = "main" /\ turn'.pc # "deciding"
    BY DEF TornSave, Idle
  <2>6. ASSUME NEW degrees \in TURNS, Begin(degrees)
        PROVE  turn'.part = "main" /\ turn'.pc # "deciding"
    BY <2>6 DEF Begin, Idle
  <2> QED
    BY <1>2, <2>1, <2>2, <2>3, <2>4, <2>5, <2>6 DEF Coarse
<1> QED
  BY <1>1, <1>2, CoarseCorrect, CoarseSettled DEF Next, Step

LEMMA HelpAlways == Spec => []HelpInv
<1>1. Init => HelpInv
  BY DEF Init, Idle, HelpInv, Learnt, Measures, Straight, Coarse, Corrects, Correcting
<1>2. /\ TurnTypes /\ TurnInv /\ HelpInv /\ [Next]_vars /\ (TurnTypes /\ TurnInv)'
        => HelpInv'
  <2>1. ASSUME HelpInv, UNCHANGED vars PROVE HelpInv'
    BY <2>1
       DEF vars, HelpInv, Learnt, Measures, Straight, Fresh, Coasts, Beyond, Coarse, Error,
           Corrects, Correcting, Within, Left, Wrong, Reach, Yaw
  <2>2. ASSUME TurnTypes, TurnTypes', TurnInv, TurnInv', HelpInv, Next PROVE HelpInv'
    BY <2>2, LearntStep, MeasuresStep, CoarseStep, CorrectsStep DEF HelpInv
  <2> QED
    BY <2>1, <2>2
<1> QED
  BY <1>1, <1>2, TurnAlways, PTL DEF Spec

\* A correction that nothing disturbs leaves the base no further from its target
\* than it found it, or than the base coasts and what went wrong before hides
\* (execute_turn, min_effective; drive_until_angle).
THEOREM CorrectionHelps == Spec => []CorrectionsHelp
<1>1. TurnTypes /\ TurnInv /\ HelpInv => CorrectionsHelp
  <2> SUFFICES ASSUME TurnTypes, TurnInv, HelpInv, AtEnd, turn.part = "correction",
                      turn.corrected = faults, base.wired = 1
               PROVE  Abs(turn.target - base.heading) <= Reach
    BY DEF CorrectionsHelp, Reach, Left, Wrong
  <2>1. Correcting
    BY DEF Correcting
  <2>2. Within
    BY <2>1 DEF HelpInv, Corrects, AtEnd
  <2>3. PICK l \in Nat, w \in Nat, r \in Nat :
          Left = l /\ Wrong = w /\ Reach = r /\ l + w <= r
    BY <2>1, Reaches DEF TurnInv
  <2>4. PICK b \in Int, s \in Nat : Beyond = b /\ base.slide = s
    BY Numbers DEF Beyond
  <2>5. -r <= b /\ b <= r
    BY <2>2, <2>3, <2>4 DEF Within
  <2>6. -r <= Beyond /\ Beyond <= r
    BY <2>4, <2>5
  <2> QED
    BY <2>3, <2>6, Numbers DEF Abs, Beyond
<1> QED
  BY <1>1, TurnAlways, HelpAlways, PTL
=============================================================================
