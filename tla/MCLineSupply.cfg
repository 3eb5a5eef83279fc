CONSTANTS
    Cells = 3
    RequiredLaps = {0, 2}
    NoLine = NoLine
    OldLine = OldLine
    NewLine = NewLine
    MaxLaps = 3
    n_sectors = 2
    start <- MCStart
    end <- MCEnd
    hl_change = 1
    Full = 2
    ParameterValues <- MCParameterValues
    Velocities <- MCVelocities
    NoMsg = NoMsg
    Republishers = {r1}
    WithFile = {r1}
    Planner = planner
    Tuner = tuner
    Link = Link
    MaxChanges = 1
SPECIFICATION SupplySpec
INVARIANTS
    SupplyTypeOK
PROPERTIES
    MapAfterLaps
    ScaledOnce
    SettlesOnScaling
    NewLineReachesAll
CHECK_DEADLOCK FALSE
