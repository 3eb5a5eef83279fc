CONSTANTS
    NoWpnts = NoWpnts
    TrackLengths <- MCTrackLengths
    CarPositions <- MCCarPositions
    ObstacleArrays <- MCObstacleArrays
    Sectors <- MCSectors
    sector_start <- MCSectorStart
    sector_end <- MCSectorEnd
    AvoidanceLines <- MCAvoidanceLines
    AvoidanceMsgs <- MCAvoidanceMsgs
    initial_state = "GB_TRACK"
    OperatorStates = {}
    TtlChoices = {2}
    TtlMax = 2
    AgeCap = 5
    gb_ego_width_m = 1
    lateral_width_gb_m = 2
    lateral_width_ot_m = 1
    gb_horizon_m = 2
    overtaking_horizon_m = 2
    splini_hyst_timer_sec = 1
SPECIFICATION Spec
INVARIANTS
    CachedLineWithinTtl
