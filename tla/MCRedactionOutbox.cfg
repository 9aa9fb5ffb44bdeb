SPECIFICATION OutboxFairSpec
CONSTANTS
    ev1 = ev1
    ev2 = ev2
    ev3 = ev3
    Events = {ev1, ev2, ev3}
    Malformed = {ev3}
    BatchSize = 2
    MaxAttempts = 2
    MaxCrashes = 1
INVARIANTS
    SentIsDelivered
PROPERTIES
    EventuallySettled
CHECK_DEADLOCK FALSE
