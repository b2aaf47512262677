SPECIFICATION Spec
CONSTANTS
    e1 = e1  e2 = e2  city = city  country = country
    NoJob = NoJob  Nowhere = Nowhere
    Requests = {e1}
    Scopes = {city}
    Allowed = {city}
    MaxTries = 1
    Faults = {}
INVARIANTS
    SuccessIsVisible
CHECK_DEADLOCK FALSE
