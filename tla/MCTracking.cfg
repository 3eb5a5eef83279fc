CONSTANTS
    TrackLength = 4
    Messages <- MCMessages
    CarPositions = {2}
    Views <- MCViews
    None = None
    max_dist = 1
    aggro_multiplier = 2
    MinVs <- MCMinVs
    MaxVs = 4
    min_nb_meas = 1
    ttl_static = 1
    ttl_dynamic = 2
    dist_deletion = 2
    MinUpdates = 0
    MaxTracked = 2
SPECIFICATION MCSpec
INVARIANTS
    TrackingTypeOK
    Forgets
    ComesBack
PROPERTIES
    OneObstacleEach
    Vanishes
