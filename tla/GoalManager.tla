---------------------------- MODULE GoalManager ----------------------------
(***************************************************************************)
(* NamedGoalManager of named_goal_manager.py, the ROS node that turns      *)
(* poses, named destinations and waypoint lists into goals of the two Nav2 *)
(* actions, and the Nav2 server as far as the node can see it.             *)
(*                                                                         *)
(* rclpy.spin runs one callback at a time; the futures of different goals, *)
(* and their feedback, complete in any order.  A goal stands for its label.*)
(***************************************************************************)
EXTENDS Naturals

CONSTANTS
    PoseGoals,      \* goals of navigate_to_pose
    WaypointGoals,  \* goals of navigate_through_poses
    NoGoal,         \* active_goal_handle is None, active_label is ""
    Hurried         \* the goals that callers who do not wait send: a bound

Goals == PoseGoals \union WaypointGoals

ASSUME GoalAssumption ==
    PoseGoals \cap WaypointGoals = {} /\ NoGoal \notin Goals /\ Hurried \subseteq Goals

VARIABLES
    active,     \* active_goal_handle
    label,      \* active_label
    status,     \* what /house_bot/navigation_status holds: [state, goal]
    ready,      \* is the action server ready?
    stage,      \* goal -> where it is in Nav2
    answered,   \* goals with a response that has not been called back
    awaited,    \* goals whose result has not been called back
    feedback,   \* goals with feedback on its way
    canceled,   \* goals the node has asked Nav2 to cancel
    patient,    \* do the callers wait for a goal to end before the next?
    last,       \* history: the goal sent last
    reported    \* history: goals of which an end has been published

nav2 == <<stage, canceled>>
vars == <<active, label, status, ready, stage, answered, awaited, feedback,
          canceled, patient, last, reported>>

\* RESULT_NAMES and its default: what _result_callback makes of the status.
Results == {"succeeded", "canceled", "aborted", "failed"}
Ends == Results \union {"rejected", "error"}

\* _publish_status, with the label of this moment.
Publish(state) == status' = [state |-> state, goal |-> label']

\* __init__
Init ==
    /\ active = NoGoal /\ label = NoGoal
    /\ status = [state |-> "ready", goal |-> NoGoal]
    /\ ready = FALSE
    /\ stage = [g \in Goals |-> "unsent"]
    /\ answered = {} /\ awaited = {} /\ feedback = {} /\ canceled = {}
    /\ patient \in BOOLEAN
    /\ last = NoGoal /\ reported = {}

-----------------------------------------------------------------------------
(* The callbacks of the node. *)

\* Goals that are sent and of which no end has been published.
Open == {g \in Goals : stage[g] # "unsent"} \ reported

\* _pose_callback, _named_callback, _destination_callback and
\* _waypoints_callback with the server ready.
Send(g) ==
    /\ ready
    /\ stage[g] = "unsent"
    /\ IF patient THEN Open = {} ELSE g \in Hurried
    /\ label' = g
    /\ stage' = [stage EXCEPT ![g] = "sent"]
    /\ last' = g
    /\ Publish("requested")
    /\ UNCHANGED <<active, ready, answered, awaited, feedback, canceled, reported>>

\* An unknown name, an empty list of waypoints, or a server that is not ready.
\* (_destination_callback answers its caller instead and publishes nothing.)
Refuse ==
    /\ UNCHANGED label
    /\ Publish("rejected")
    /\ UNCHANGED <<active, ready, nav2, answered, awaited, feedback, last, reported>>

\* Mutant of KeptAtCancel: the handle is dropped when its goal is cancelled.
DroppedAtCancel == active' = NoGoal

KeptAtCancel == UNCHANGED active

\* _cancel_callback with no handle only answers "No active navigation goal".
Cancel ==
    /\ active # NoGoal
    /\ canceled' = canceled \union {active}
    /\ UNCHANGED label
    /\ Publish("canceling")
    /\ KeptAtCancel
    /\ UNCHANGED <<ready, stage, answered, awaited, feedback, last, reported>>

\* Mutant of AwaitResult: nobody waits for the result.
AwaitNothing(g) == UNCHANGED awaited

AwaitResult(g) == awaited' = awaited \union {g}

Accepted(g) == stage[g] # "rejected"

\* _goal_response_callback; "error" is the future's exception.
GoalResponse(g) ==
    /\ g \in answered
    /\ answered' = answered \ {g}
    /\ \/ \E state \in {"rejected", "error"} :
            /\ state = "rejected" => ~Accepted(g)
            /\ UNCHANGED <<active, label, awaited>>
            /\ Publish(state)
            /\ reported' = reported \union {g}
       \/ /\ Accepted(g)
          /\ active' = g /\ label' = g
          /\ AwaitResult(g)
          /\ Publish("navigating")
          /\ UNCHANGED reported
    /\ UNCHANGED <<ready, nav2, feedback, last>>

\* _feedback_callback; the 0.5 s between two of them is when Nav2 has none on
\* its way.
Feedback(g) ==
    /\ g \in feedback
    /\ feedback' = feedback \ {g}
    /\ UNCHANGED label
    /\ Publish("navigating")
    /\ UNCHANGED <<active, ready, nav2, answered, awaited, last, reported>>

\* Mutant of Forget: the label is emptied and the result published after it.
ForgetFirst(g, state) ==
    active' = NoGoal /\ label' = NoGoal /\ Publish(state)

\* The end of _result_callback: whatever goal the handle is of, it is dropped.
Forget(g, state) ==
    /\ active' = NoGoal /\ label' = NoGoal
    /\ status' = [state |-> state, goal |-> g]

\* _result_callback
Result(g) ==
    /\ g \in awaited
    /\ stage[g] \in Results
    /\ awaited' = awaited \ {g}
    /\ \E state \in {stage[g], "error"} : Forget(g, state)
    /\ reported' = reported \union {g}
    /\ UNCHANGED <<ready, nav2, answered, feedback, last>>

-----------------------------------------------------------------------------
(* Nav2. *)

\* The lifecycle manager activates or deactivates the servers.
Activate ==
    /\ ready' = ~ready
    /\ UNCHANGED <<active, label, status, nav2, answered, awaited, feedback, last,
                   reported>>

Executing == {g \in Goals : stage[g] = "executing"}

SameAction(g, h) == {g, h} \subseteq PoseGoals \/ {g, h} \subseteq WaypointGoals

\* A goal preempts the goal of the same action, which ends aborted; while the
\* other action has one, it can only be rejected.
Accept(g) ==
    /\ stage[g] = "sent"
    /\ \A h \in Executing : SameAction(g, h)
    /\ stage' = [h \in Goals |-> IF h = g THEN "executing"
                                 ELSE IF h \in Executing THEN "aborted" ELSE stage[h]]
    /\ answered' = answered \union {g}
    /\ UNCHANGED <<active, label, status, ready, awaited, feedback, canceled, last,
                   reported>>

Reject(g) ==
    /\ stage[g] = "sent"
    /\ stage' = [stage EXCEPT ![g] = "rejected"]
    /\ answered' = answered \union {g}
    /\ UNCHANGED <<active, label, status, ready, awaited, feedback, canceled, last,
                   reported>>

Progress(g) ==
    /\ stage[g] = "executing" /\ g \notin feedback
    /\ feedback' = feedback \union {g}
    /\ UNCHANGED <<active, label, status, ready, nav2, answered, awaited, last,
                   reported>>

End(g) ==
    /\ stage[g] = "executing"
    /\ \E result \in Results :
         /\ result = "canceled" => g \in canceled
         /\ stage' = [stage EXCEPT ![g] = result]
    /\ UNCHANGED <<active, label, status, ready, answered, awaited, feedback,
                   canceled, last, reported>>

GoalStep(g) ==
    \/ Send(g) \/ GoalResponse(g) \/ Feedback(g) \/ Result(g)
    \/ Accept(g) \/ Reject(g) \/ Progress(g) \/ End(g)

Next ==
    /\ (\E g \in Goals : GoalStep(g)) \/ Refuse \/ Cancel \/ Activate
    /\ UNCHANGED patient

Spec == Init /\ [][Next]_vars

\* Nav2 answers every goal and ends it, and the node's executor runs every
\* callback whose future is done.
FairSpec ==
    /\ Spec
    /\ \A g \in Goals :
         /\ WF_vars((Accept(g) \/ Reject(g)) /\ UNCHANGED patient)
         /\ WF_vars(End(g) /\ UNCHANGED patient)
         /\ WF_vars(GoalResponse(g) /\ UNCHANGED patient)
         /\ WF_vars(Result(g) /\ UNCHANGED patient)

-----------------------------------------------------------------------------
(* Properties. *)

Stages == {"unsent", "sent", "executing", "rejected"} \union Results
States == {"ready", "requested", "navigating", "canceling"} \union Ends

TypeOK ==
    /\ active \in Goals \union {NoGoal} /\ label \in Goals \union {NoGoal}
    /\ status \in [state : States, goal : Goals \union {NoGoal}]
    /\ ready \in BOOLEAN
    /\ stage \in [Goals -> Stages]
    /\ answered \in SUBSET Goals /\ awaited \in SUBSET Goals
    /\ \A g \in awaited : stage[g] \in {"executing"} \union Results
    /\ feedback \in SUBSET Goals /\ canceled \in SUBSET Goals
    /\ patient \in BOOLEAN
    /\ last \in Goals \union {NoGoal} /\ reported \in SUBSET Goals

\* "No active navigation goal" (_cancel_callback): it is only answered when no
\* goal whose acceptance the node has seen is still being driven.
NoneMeansNone ==
    active = NoGoal => \A g \in awaited : stage[g] # "executing"

\* To callers that wait, as smoke_test does, the node speaks of the goal they
\* mean: it denies no goal that Nav2 drives and whose acceptance it has been told
\* of (before that there is no handle yet), it never cancels what has ended, and
\* the status and the answer to a cancellation name the active goal.
PatientIsUnderstood ==
    patient =>
        /\ NoneMeansNone
        /\ active # NoGoal => label = active /\ active \in awaited \ reported

\* The end published next is of the goal sent last: smoke_test waits for any of
\* the final states and takes it for the one of the goal it has just sent.
EndIsOfLastGoal ==
    [][patient /\ reported' # reported /\ status'.state \in Results
         => status'.goal = last]_vars

\* Whatever order the futures complete in, and whoever preempts whom, the end of
\* every goal is published.
EveryGoalReported == \A g \in Goals : g \in Open ~> g \in reported
=============================================================================
