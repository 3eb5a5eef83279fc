CONSTANTS
    NSectors = 2
    DigitBase = 2
    NoSectors = NoSectors
    MaxEvents = 2
SPECIFICATION Spec
INVARIANTS
    KnowsFlags
