CONSTANTS
    t1 = t1
    t2 = t2
    t3 = t3
    Typedefs = {t1, t2, t3}
    Names <- MCNames
    Fold <- MCFold
    Anonymous = Anonymous
    Primitive = Primitive
    Other = Other
    Models <- MCModels
    MaxRuns = 2

SPECIFICATION FairSpec

INVARIANTS
    TypeOK
    DependenciesFirst
    SuccessIsComplete
    FailureHasReason

PROPERTIES
    RunEnds

\* Nobody has to start another run.
CHECK_DEADLOCK FALSE
