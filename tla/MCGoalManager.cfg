CONSTANTS
    home = home
    kitchen = kitchen
    route = route
    PoseGoals <- Destinations
    NoGoal = NoGoal
    WaypointGoals <- Routes
    Hurried <- Destinations
SPECIFICATION FairSpec
INVARIANTS
    PatientIsUnderstood
PROPERTIES
    EndIsOfLastGoal
    EveryGoalReported
