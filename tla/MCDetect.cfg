CONSTANTS
    Line <- MCLine
    Scans <- MCScans
    CarPositions = {0, 4}
    Params <- MCParams
    MaxChanges = 2
SPECIFICATION DetectSpec
INVARIANTS
    DetectTypeOK
    DiesOnlyInRebuild
PROPERTIES
    JudgedByTheLine
    ChangeTakesEffect
CHECK_DEADLOCK FALSE
