-------------------------- MODULE GoalManagerProof --------------------------
(***************************************************************************)
(* Callers of module GoalManager that wait for one goal to end before they *)
(* send the next, for any goals: the node denies no goal that is driven,   *)
(* cancels none that has ended, and the end it publishes is of the goal    *)
(* that was sent last, whatever order the futures complete in.             *)
(***************************************************************************)
EXTENDS GoalManager, TLAPS

\* The handle and the label are of goals, and a goal is in one place at a time:
\* not sent, sent, answered, awaited or reported.
Places ==
    /\ stage \in [Goals -> Stages]
    /\ answered \subseteq Goals /\ awaited \subseteq Goals
    /\ \A g \in Goals : stage[g] \in {"unsent", "sent"} =>
                          g \notin answered \union awaited \union reported
    /\ \A g \in Goals : g \in answered => g \notin awaited \union reported
    /\ \A g \in Goals : g \in awaited => g \notin reported

\* One goal at a time is open, it is the last, and the handle is there exactly
\* while its result is awaited.
OneAtATime ==
    /\ Open \subseteq {last}
    /\ active = NoGoal => awaited = {}
    /\ active # NoGoal => active \in awaited /\ label = active

PatientInv == Places /\ (patient => OneAtATime)

LEMMA InitPatient == Init => PatientInv
  BY GoalAssumption DEF Init, PatientInv, Places, OneAtATime, Open, Stages

\* What is answered or awaited is open.
LEMMA PlacesAreOpen ==
    ASSUME Places
    PROVE  answered \subseteq Open /\ awaited \subseteq Open
  BY DEF Places, Open

\* A step of a goal that leaves alone what the invariant is about.
LEMMA Untouched ==
    ASSUME PatientInv,
           UNCHANGED <<active, label, stage, answered, awaited, patient, last, reported>>
    PROVE  PatientInv'
  BY DEF PatientInv, Places, OneAtATime, Open

\* A request opens a goal when none is open.
LEMMA SendKeeps ==
    ASSUME PatientInv, NEW g \in Goals, Send(g), UNCHANGED patient
    PROVE  PatientInv'
<1>1. Places'
  BY DEF PatientInv, Places, Send, Stages
<1>2. ASSUME patient PROVE OneAtATime'
  <2>1. Open = {} /\ active = NoGoal /\ awaited = {}
    BY <1>2, PlacesAreOpen DEF Send, PatientInv, OneAtATime
  <2>2. Open' \subseteq {g}
    BY <2>1 DEF Send, Open, PatientInv, Places
  <2> QED
    BY <2>1, <2>2 DEF Send, OneAtATime
<1> QED
  BY <1>1, <1>2 DEF PatientInv

\* A response moves a goal from the answered to the awaited or ends it.
LEMMA ResponseKeeps ==
    ASSUME PatientInv, NEW g \in Goals, GoalResponse(g), UNCHANGED patient
    PROVE  PatientInv'
<1>0. /\ UNCHANGED <<stage, last>> /\ g \in answered /\ answered' = answered \ {g}
      /\ \/ UNCHANGED <<active, label, awaited>> /\ reported' = reported \union {g}
         \/ /\ active' = g /\ label' = g /\ awaited' = awaited \union {g}
            /\ UNCHANGED reported
  BY DEF GoalResponse, AwaitResult, nav2
<1>1. Places'
  BY <1>0 DEF PatientInv, Places
<1>2. ASSUME patient PROVE OneAtATime'
  <2>1. OneAtATime /\ g \in Open
    BY <1>0, <1>2, PlacesAreOpen DEF PatientInv
  <2>2. Open' \subseteq Open
    BY <1>0 DEF Open
  <2>3. CASE active' = g
    BY <1>0, <2>1, <2>2, <2>3, GoalAssumption DEF OneAtATime
  <2>4. CASE UNCHANGED <<active, label, awaited>>
    BY <1>0, <2>1, <2>2, <2>4 DEF OneAtATime
  <2> QED
    BY <1>0, <2>3, <2>4
<1> QED
  BY <1>1, <1>2 DEF PatientInv

\* A result ends a goal and drops the handle, which was its own.
LEMMA ResultKeeps ==
    ASSUME PatientInv, NEW g \in Goals, Result(g), UNCHANGED patient
    PROVE  PatientInv'
<1>0. /\ UNCHANGED <<stage, answered, last>> /\ g \in awaited
      /\ awaited' = awaited \ {g} /\ reported' = reported \union {g}
      /\ active' = NoGoal
  BY DEF Result, Forget, nav2
<1>1. Places'
  BY <1>0 DEF PatientInv, Places
<1>2. ASSUME patient PROVE OneAtATime'
  <2>1. OneAtATime /\ awaited \subseteq Open
    BY <1>2, PlacesAreOpen DEF PatientInv
  <2>2. awaited = {g}
    BY <1>0, <2>1 DEF OneAtATime
  <2>3. Open' \subseteq Open
    BY <1>0 DEF Open
  <2> QED
    BY <1>0, <2>1, <2>2, <2>3 DEF OneAtATime
<1> QED
  BY <1>1, <1>2 DEF PatientInv

\* Nav2 answers, preempts and ends goals: what is open stays open.
LEMMA ServerKeeps ==
    ASSUME PatientInv, NEW g \in Goals, Accept(g) \/ Reject(g) \/ End(g),
           UNCHANGED patient
    PROVE  PatientInv'
<1>0. /\ UNCHANGED <<active, label, awaited, last, reported>>
      /\ stage' \in [Goals -> Stages]
      /\ \A h \in Goals : (stage'[h] = "unsent") = (stage[h] = "unsent")
      /\ \A h \in Goals : stage'[h] = "sent" => stage[h] = "sent"
      /\ \/ answered' = answered
         \/ /\ answered' = answered \union {g}
            /\ stage[g] = "sent" /\ stage'[g] # "sent" /\ stage'[g] # "unsent"
  BY DEF Accept, Reject, End, PatientInv, Places, Stages, Results, Executing
<1>1. Places'
  BY <1>0 DEF PatientInv, Places
<1>2. Open' = Open
  BY <1>0 DEF Open
<1> QED
  BY <1>0, <1>1, <1>2 DEF PatientInv, OneAtATime

\* No step breaks PatientInv.
LEMMA PatientStep ==
    ASSUME PatientInv, [Next]_vars
    PROVE  PatientInv'
<1>1. ASSUME NEW g \in Goals, GoalStep(g), UNCHANGED patient PROVE PatientInv'
  <2>1. CASE Feedback(g) \/ Progress(g)
    BY <1>1, <2>1, Untouched DEF Feedback, Progress, nav2
  <2> QED
    BY <1>1, <2>1, SendKeeps, ResponseKeeps, ResultKeeps, ServerKeeps DEF GoalStep
<1>2. CASE (Refuse \/ Cancel \/ Activate) /\ UNCHANGED patient
  BY <1>2, Untouched DEF Refuse, Cancel, KeptAtCancel, Activate, nav2
<1>3. CASE UNCHANGED vars
  BY <1>3, Untouched DEF vars
<1> QED
  BY <1>1, <1>2, <1>3 DEF Next

LEMMA PatientAlways == Spec => []PatientInv
  BY InitPatient, PatientStep, PTL DEF Spec

\* A caller that waits is told of no goal but its own: it can always cancel what
\* Nav2 drives for it, and cancels nothing that has ended.
THEOREM PatientUnderstood == Spec => []PatientIsUnderstood
<1>1. PatientInv => PatientIsUnderstood
  BY DEF PatientInv, Places, OneAtATime, PatientIsUnderstood, NoneMeansNone
<1> QED
  BY <1>1, PatientAlways, PTL

\* The final state published is of the goal that was sent last, so that a caller
\* that waits takes no other end for that of its own goal.
THEOREM EndsOfLast == Spec => EndIsOfLastGoal
<1>1. ASSUME PatientInv, [Next]_vars, patient, reported' # reported,
             status'.state \in Results
      PROVE  status'.goal = last
  <2>1. PICK g \in Goals : GoalResponse(g) \/ Result(g)
    BY <1>1 DEF Next, GoalStep, Send, Feedback, Accept, Reject, Progress, End,
                Refuse, Cancel, Activate, vars
  <2>2. g \in Open
    BY <1>1, <2>1, PlacesAreOpen DEF PatientInv, GoalResponse, Result
  <2>3. CASE GoalResponse(g)
    BY <1>1, <2>3 DEF GoalResponse, Publish, Results
  <2>4. CASE Result(g)
    BY <1>1, <2>2, <2>4 DEF Result, Forget, PatientInv, OneAtATime
  <2> QED
    BY <2>1, <2>3, <2>4
<1>2. PatientInv /\ [Next]_vars =>
        [patient /\ reported' # reported /\ status'.state \in Results
           => status'.goal = last]_vars
  BY <1>1
<1> QED
  BY <1>2, PatientAlways, PTL DEF Spec, EndIsOfLastGoal
=============================================================================
