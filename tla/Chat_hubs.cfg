SPECIFICATION Spec
CONSTANTS
    t1 = t1  t2 = t2  h1 = h1  kenya = kenya  springfield = springfield
    HubsDefault = HubsDefault  Unknown = Unknown  None = None  Resolved = Resolved
    Turns = {t1}
    Resumes = {h1}
    Places = {kenya}
    Vague = {}
    Hubless <- LongStayInKenya
    Faults = {}
INVARIANTS
    AnswersResolve
CHECK_DEADLOCK FALSE
