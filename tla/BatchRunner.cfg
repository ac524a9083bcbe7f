\* Two processes of two threads each, four files, no kills.  Liveness rules
\* out symmetry.
CONSTANTS
    f1 = f1  f2 = f2  f3 = f3  f4 = f4  t1 = t1  t2 = t2  p1 = p1  p2 = p2
    Files = {f1, f2, f3, f4}
    Missing = Missing
    Procs = {p1, p2}
    Threads = {t1, t2}
    Inputs <- Listings
    BatchSize = 2
    ErrorPipe = 4
    MaxKills = 0
SPECIFICATION FairSpec
INVARIANTS
    TypeOK
    FlagMeansNoBatchLeft
    NoFileTwice
    ReturnIsComplete
    
PROPERTIES
    Termination
    ImplementsPreprocessing
