CONSTANTS
    None = None
    Modes = {"PP"}
    TrackLength = 6
    CarStates <- MCCarStates
    ObstacleArrays <- MCObstacleArrays
    WaypointSpeeds = {3}
    StateStrings = {"StateType.GB_TRACK", "StateType.TRAILING"}
    SafetyLimit = 2
    trailing_gap = 3
    trailing_p_gain = 1
    trailing_i_gain = 1
    trailing_d_gain = 1
    IMax = 2
    blind_trailing_speed = 1
    SteerTargets = {0, 1}
    SteerThreshold = 1
SPECIFICATION Spec
PROPERTY TrailingStateTrails
CHECK_DEADLOCK FALSE
