CONSTANTS
    Breakout = {b1, b2}
    Handler = {h1, h2}
    Thing = {t1, t2}
    None = None
    Member = {a, b, c}
    Admin = {a, b}
    ParentDurations = {0, 2}
    BkDuration = 1
    Increase = 1
    PerMinute = 2
    Huge = 1000
    MaxTime = 3
    MaxBusy = 2
    MaxErrors = 1
SPECIFICATION Spec
SYMMETRY Symmetry
CONSTRAINT Focus
CHECK_DEADLOCK FALSE
INVARIANTS
    TypesOK
    ChangesStick
    BreakoutsFollowParent
    TasksAgree
    OneMergeHoldsTheLock
PROPERTY StepsStayInBounds
