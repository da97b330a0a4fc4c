SPECIFICATION FairSpec
CONSTANTS
    Kept = {"nv", "sn", "phase"}
    Images = {"boot", "system"}
    Chips = {"RG500U", "RM500U", "EC200U", "EC200S", "EC200T"}
    Scheme <- MCScheme
    Script <- MCScript
    Slices = 2
    MaxInfos = 1
    Tries = 2
    MaxRuns = 1
INVARIANTS SuccessComplete CalibrationKept
PROPERTY Upgrades
