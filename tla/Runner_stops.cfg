SPECIFICATION Spec
CONSTANTS
    g1 = g1  g2 = g2  r1 = r1  r2 = r2  x = x  y = y
    NoRun = NoRun  Placeholder = Placeholder  Earlier = Earlier
    Requests = {r1, r2}
    Revises = {r1, r2}
    Sessions = {x}
    SessionOf <- OneSession
    MaxLoops = 1
    Faults = {"abort", "timeout", "disconnect", "crash"}
INVARIANTS
    HonestTerminal
    OutcomeIsTrue
    TripIsTheDraft
    LoopCapHolds
    ReviseBudgetIsHeld
PROPERTIES
    AbortIsFinal
    TerminalIsToldOnce
CHECK_DEADLOCK FALSE
