CONSTANTS
    WebhookIds = {e1, e2}
    ToleranceS = 1
    MaxClock = 3
    MaxInFlight = 2
    Payments = {p1, p2}
    Amount <- SameAmount
    Day <- Fridays
    Holidays = {7}
    LagBusinessDays = 2
    SoftRecoveryBps = 7200
    MaxPayouts = 2
SPECIFICATION DodoSpec
INVARIANTS AcceptedOnce FiguresSurviveAnOutage
PROPERTY StagesOnlyAdvance
CHECK_DEADLOCK FALSE
