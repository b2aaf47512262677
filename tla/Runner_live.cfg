SPECIFICATION FairSpec
CONSTANTS
    g1 = g1  g2 = g2  r1 = r1  r2 = r2  x = x  y = y
    NoRun = NoRun  Placeholder = Placeholder  Earlier = Earlier
    Requests = {g1, g2}
    Revises = {}
    Sessions = {x}
    SessionOf <- OneSession
    MaxLoops = 1
    Faults = {"abort", "disconnect"}
PROPERTIES
    StreamsEnd
    AbortStopsTheRun
CHECK_DEADLOCK FALSE
