\* Three agents, as many as one row can set against each other.
CONSTANTS
    None = None
    Agents = 3
    Docs = {d1, d2}
    Protected = {d2}
    Figures = {low, high}
    MaxConflicts = 2
    MaxLevers = 3
    MaxRejects = 2
SPECIFICATION Spec
SYMMETRY Symmetry
INVARIANTS ObjectionsAreHeard RulingsAreCarriedOut
\* The levers are gated once.
CHECK_DEADLOCK FALSE
