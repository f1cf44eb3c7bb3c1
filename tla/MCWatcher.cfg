SPECIFICATION FairSpec
CONSTANTS
    t1 = t1
    t2 = t2
    Dirs <- MCDirs
    Files <- MCFiles
    Bad = {t2}
    MaxClock = 2
    MaxRestarts = 1
INVARIANTS SeenIsStored FlushComplete StepsInOrder FactOnceIfFinal
PROPERTIES Delivered FlushEnds
CHECK_DEADLOCK FALSE
