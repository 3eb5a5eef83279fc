CONSTANTS
    NoWpnts = NoWpnts
    TrackLengths <- MCTrackLengths
    CarPositions <- MCCarPositions
    ObstacleArrays <- MCObstacleArrays
    Sectors <- MCSectors
    sector_start <- MCSectorStart
    sector_end <- MCSectorEnd
    AvoidanceLines <- MCAvoidanceLines
    AvoidanceMsgs <- MCAvoidanceMsgs
    initial_state = "GB_TRACK"
    OperatorStates = {}
    TtlChoices = {2}
    TtlMax = 2
    AgeCap = 3
    gb_ego_width_m = 1
    lateral_width_gb_m = 2
    lateral_width_ot_m = 1
    gb_horizon_m = 2
    overtaking_horizon_m = 2
    splini_hyst_timer_sec = 2
    gb_max_s = 4
    d_left = 4
    d_right = 4
    evasion_dist = 1
    spline_bound_mindist = 1
    spline_resolution = 0
    obs_traj_tresh = 2
    lookahead = 3
    prediction_range = 2
    side_switch_d = 0
    post_apex = 1
    Depth = 1
SPECIFICATION SystemSpec
PROPERTIES
    NoSideSwapWhileOvertaking
