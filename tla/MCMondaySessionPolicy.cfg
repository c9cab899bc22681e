CONSTANTS
    None = None
    People = {preparer, alice}
    Preparer = preparer
    Versions = {v1}
    Kinds = {"cfo"}
    MaxRows = 1
    MaxRuns = 2
    MaxOverrides = 0
    MaxInvestigations = 0
    MaxManual = 0
    MaxSessions = 1
SPECIFICATION Spec
INVARIANT PolicyOnPublished
\* A session without a source, with no replacement left, has nothing to do.
CHECK_DEADLOCK FALSE
