\* Three agents for two slots, retried once, with tokens to wait for, then the
\* challenge.
CONSTANTS
    ap = ap
    ar = ar
    dodo = dodo
    sr = sr
    First <- ThreeAgents
    Challenger = sr
    NoChallenger = nobody
    MaxInFlight = 2
    Capacity = 3
    MaxAttempts = 2
    MaxRetries = 3
    MaxRefills = 5
SPECIFICATION FairSpec
INVARIANTS WhatIsHeldIsAccountedFor EveryAgentAccountedFor
PROPERTY WaveEnds
