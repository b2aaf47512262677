SPECIFICATION Spec
CONSTANTS
    g1 = g1  g2 = g2  r1 = r1  r2 = r2  x = x  y = y
    NoRun = NoRun  Placeholder = Placeholder  Earlier = Earlier
    Requests = {g1, g2}
    Revises = {}
    Sessions = {x, y}
    SessionOf <- TwoSessions
    MaxLoops = 1
    Faults = {}
INVARIANTS
    RunUsesItsOwnRequest
CHECK_DEADLOCK FALSE
