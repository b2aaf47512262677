SPECIFICATION Spec
CONSTANTS
    near = near  mid = mid  away = away  moon = moon
    old = old  new = new  bare = bare
    None = None  NoHub = NoHub
    NPlaces = 5
    Hubs = {old, new, bare}
    Spots = {near, mid, away, moon}
    Walk <- LineWalk
    Far <- LineFar
    Box <- Boxes
    MaxDays = 3
    Inputs <- Calls
INVARIANTS
    TypeOK
    EachPlaceOnce
    WithinCaps
    HubsInSequence
    AwayOnlyWhenNearIsTaken
    NothingLeftThatFits
    PackedPlanIsValid
PROPERTIES
    KeepsPlanContract
CHECK_DEADLOCK FALSE
