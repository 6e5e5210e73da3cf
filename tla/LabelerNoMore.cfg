SPECIFICATION LabelerSpec
CONSTANTS
    MaxMail = 2
    Present = 2
    Leaves = {1, 2}
    Held = {}
    PageSize = 1
    Limit = 1
    MaxSweeps = 1
    MaxMishaps = 0
    NoCopy = NoCopy
INVARIANT EmptyMeansNone
CHECK_DEADLOCK FALSE
