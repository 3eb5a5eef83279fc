CONSTANTS
    None = None
    Modes = {"MAP"}
    TrackLength = 6
    CarStates <- MCCarStates
    ObstacleArrays <- MCObstacleArrays
    WaypointSpeeds = {1}
    StateStrings = {"StateType.GB_TRACK"}
    SafetyLimit = 2
    trailing_gap = 3
    trailing_p_gain = 1
    trailing_i_gain = 1
    trailing_d_gain = 1
    IMax = 1
    blind_trailing_speed = 1
    SteerTargets = {0}
    SteerThreshold = 1
    NoTopic = NoTopic
    Topics <- MCTopics
    timeout <- MCTimeout
    priority_param <- MCPriority
    position <- MCPosition
    AgeCap = 2
    Commands <- MCCommands
    deadman_buttons <- MCButtons
    static <- MCStatic
    speed_min <- MCSpeedMin
    speed_max = 3
    NoSpeed = NoSpeed
    Buttons = {"LB", "RB"}
    AxisSpeed = 2
    speed_to_erpm_gain = 2
SPECIFICATION MCSpec
INVARIANTS
    ChainTypeOK
    NoLiveSourceOutranks
PROPERTIES
    LBTakesOver
    LettingGoStops
    LostPlannerStops
    DriverStarts
CHECK_DEADLOCK FALSE
