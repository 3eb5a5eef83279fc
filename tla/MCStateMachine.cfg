CONSTANTS
    NoWpnts = NoWpnts
    TrackLengths <- MCTrackLengths
    CarPositions <- MCCarPositions
    ObstacleArrays <- MCFewObstacles
    Sectors <- MCSectors
    sector_start <- MCSectorStart
    sector_end <- MCSectorEnd
    AvoidanceLines <- MCAvoidanceLines
    AvoidanceMsgs <- MCFewMsgs
    initial_state = "GB_TRACK"
    OperatorStates = {"OVERTAKE", "FTGONLY"}
    TtlChoices = {1, 2}
    TtlMax = 2
    AgeCap = 3
    gb_ego_width_m = 1
    lateral_width_gb_m = 2
    lateral_width_ot_m = 1
    gb_horizon_m = 2
    overtaking_horizon_m = 2
    splini_hyst_timer_sec = 1
SPECIFICATION FairSpec
INVARIANTS
    TypeOK
    CacheUnderLease
    OvertakeOnLiveLine
PROPERTIES
    OvertakeIsChecked
    ImplementsPlanner
    SplineForgotten
    BackToRaceline
    EventuallyOvertakes
