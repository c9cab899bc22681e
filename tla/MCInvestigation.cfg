\* More bundles than replans allow, so that the bound cuts the loop off.
CONSTANTS
    None = None
    Stressors = {ar, dodo, combined}
    Combined = combined
    MaxReplans = 1
    MaxBundles = 3
SPECIFICATION FairSpec
INVARIANT ReportIsHonest
PROPERTY WarRoomEnds
\* A war room that has closed, or raised, is over.
CHECK_DEADLOCK FALSE
