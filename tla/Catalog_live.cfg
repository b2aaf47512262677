SPECIFICATION FairSpec
CONSTANTS
    e1 = e1  e2 = e2  city = city  country = country
    NoJob = NoJob  Nowhere = Nowhere
    Requests = {e1, e2}
    Scopes = {city}
    Allowed = {city}
    MaxTries = 2
    Faults = {"restart"}
PROPERTIES
    JobsEnd
    JobsWindDown
CHECK_DEADLOCK FALSE
