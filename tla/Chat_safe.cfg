SPECIFICATION Spec
CONSTANTS
    t1 = t1  t2 = t2  h1 = h1  kenya = kenya  springfield = springfield
    HubsDefault = HubsDefault  Unknown = Unknown  None = None  Resolved = Resolved
    Turns = {t1, t2}
    Resumes = {h1}
    Places = {kenya, springfield}
    Vague = {springfield}
    Hubless <- LongStayInKenya
    Faults = {"cancel", "db", "graph", "restart"}
INVARIANTS
    TypeOK
    NoSilentChoice
    RowFollowsThread
    NothingSaidIsLost
    AnswersAreHeeded
PROPERTIES
    NothingStaleComesBack
CHECK_DEADLOCK FALSE
