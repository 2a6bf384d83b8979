CONSTANTS
    home = home
    kitchen = kitchen
    route = route
    PoseGoals <- Destinations
    NoGoal = NoGoal
    WaypointGoals <- NoRoutes
    Hurried <- Destinations
SPECIFICATION Spec
INVARIANTS
    NoneMeansNone
