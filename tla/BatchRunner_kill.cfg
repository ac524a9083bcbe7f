\* The same, and both processes may be killed at any moment.
\* A kill may leave the read lock of the file queue held, and then the call
\* spins for ever: the run does not check for deadlock.
CONSTANTS
    f1 = f1  f2 = f2  f3 = f3  f4 = f4  t1 = t1  t2 = t2  p1 = p1  p2 = p2
    Files = {f1, f2, f3, f4}
    Missing = Missing
    Procs = {p1, p2}
    Threads = {t1, t2}
    Inputs <- Listings
    BatchSize = 2
    ErrorPipe = 4
    MaxKills = 2
SPECIFICATION Spec
SYMMETRY Interchangeable
INVARIANTS
    NoFileForgotten
    ResultIsSound
CHECK_DEADLOCK FALSE
