SPECIFICATION FairSpec
CONSTANTS
    Procs = {1, 2}
    CHILD_LCORES = 1
    MAX_NFS = 4
    Asked <- MCAsked
    UPS = 1
INVARIANT TypeOK
PROPERTY ParentLast
PROPERTY Terminates
CHECK_DEADLOCK FALSE
