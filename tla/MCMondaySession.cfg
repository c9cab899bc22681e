\* Two war rooms of one row each: cards of a superseded recommendation.
CONSTANTS
    None = None
    People = {preparer, alice}
    Preparer = preparer
    Versions = {v1, v2}
    Kinds = {"auto_safe", "blocked", "cfo"}
    MaxRows = 1
    MaxRuns = 2
    MaxOverrides = 1
    MaxInvestigations = 2
    MaxManual = 1
    MaxSessions = 1
SPECIFICATION FairSpec
INVARIANTS ExecutionGate AuditIsTheLedger CardsOfTheSignedVersion EveryStepStandsOnTheSignature
PROPERTY LockReleased
\* A session without a source, with no replacement left, has nothing to do.
CHECK_DEADLOCK FALSE
