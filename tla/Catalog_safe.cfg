SPECIFICATION Spec
CONSTANTS
    e1 = e1  e2 = e2  city = city  country = country
    NoJob = NoJob  Nowhere = Nowhere
    Requests = {e1, e2}
    Scopes = {city, country}
    Allowed = {city}
    MaxTries = 1
    Faults = {"queue", "db", "timeout", "rescope"}
INVARIANTS
    TypeOK
    ReadyIsBacked
    NoForeignFetch
    RunningHasAJob
    PendingWasQueued
SYMMETRY Symmetry
CHECK_DEADLOCK FALSE
