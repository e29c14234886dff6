CONSTANTS
    Handler = {h1, h2}
    Thing = {t1, t2}
    FileName = {n1, n2}
    Chat = {chat}
    Nil = Nil
    Parts = 2
    Ranges = 2
    PoolSize = 2
    Window = 2
    MaxUnits = 1
    MaxEnds = 1
    MaxTime = 3
    MaxTerms = 2
    MaxDeliver = 2
    MaxSummaries = 2
    MaxMishaps = 1
SPECIFICATION Spec
CONSTRAINT Focus
SYMMETRY Symmetry
CHECK_DEADLOCK FALSE
INVARIANTS
    TypesOK
    FilesAreInOrder
    UsageIsRight
    SummariesAreRight
