SPECIFICATION MFairSpec
CONSTANTS
    m1 = m1
    m2 = m2
    Migrators = {m1, m2}
    FileCount <- MCFileCount
    Doubtful <- MCDoubtful
    MaxAborts = 2
INVARIANTS
    MigrationsSound
PROPERTIES
    MigrationsFinish
CHECK_DEADLOCK FALSE
