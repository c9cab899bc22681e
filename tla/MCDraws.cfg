\* Two sessions on two companies, three logs among them; two logs of one company
\* count from the same number and meet on the next.
CONSTANTS
    Workers = {w1, w2}
    Companies = {c1, c2}
    People = {maker, checker}
    Amounts = {50, 100}
    Facilities <- SomeFacilities
    Ceilings <- SomeCeilings
    Proposals <- SomeProposals
    Projections <- SomeProjections
    MaxApprovals = 1
    MaxLogs = 3
    HighestSeq = 2
SPECIFICATION Spec
SYMMETRY Symmetry
INVARIANTS SafeDrawPassesTheGate DoneIsAudited
PROPERTY EveryExecutionIsCovered
CHECK_DEADLOCK FALSE
