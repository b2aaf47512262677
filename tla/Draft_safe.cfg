SPECIFICATION Spec
CONSTANTS
    None = None
    p = p  t1 = t1  t2 = t2  t3 = t3  g1 = g1  g2 = g2
    Places = {p}
    MaxDays = 3
    Asks = {2, 3}
    Texts <- Said
    Answers <- Replies
    MaxLoops = 2
    MaxRuns = 3
    Gets = {g1, g2}
    Trips = {t1, t2, t3}
SYMMETRY Alike
INVARIANTS
    TypeOK
    WithinOriginalCaps
    ExportShowsTheDraft
PROPERTIES
    PatchIsHonoured
    TripIdentityKept
CHECK_DEADLOCK FALSE
