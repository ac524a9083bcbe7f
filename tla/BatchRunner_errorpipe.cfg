\* The pipe of the error queue holds one record.
CONSTANTS
    f1 = f1  f2 = f2  f3 = f3  f4 = f4  t1 = t1  t2 = t2  p1 = p1  p2 = p2
    Files = {f1, f2, f3}
    Missing = Missing
    Procs = {p1, p2}
    Threads = {t1, t2}
    Inputs <- ShortListings
    BatchSize = 2
    ErrorPipe = 1
    MaxKills = 0
SPECIFICATION FairSpec
PROPERTY Termination
CHECK_DEADLOCK FALSE
