CONSTANTS
    Limits <- MCLimits
    Programs = {1, 2}
    Word = 2
    Sizes = {1, 2}
    ArgSizes = {0, 1, 3}
    TopLimit = 19
SPECIFICATION FairSpec
INVARIANTS TypeOK RoomToGrow OutsideOnlyAtMax
PROPERTIES NeverShrinks ReachesMax
CHECK_DEADLOCK FALSE
