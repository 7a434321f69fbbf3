SPECIFICATION LimiterSpec
CONSTANTS
    MaxFaults = 1
    Callers = {c1, c2}
    LimitPerSec = 2
    SecondLength = 2
    BackoffMax = 2
    Skew = 1
    MaxTime = 4
SYMMETRY CallerSymmetry
CHECK_DEADLOCK FALSE
INVARIANTS LimiterTypeOK PerSecondLimit PerKeyLimit RefusedOnlyWhenFull OldKeysVanish
