CONSTANTS
    P = P
    Q = Q
    I = I
    J = J
    Aggregate = Aggregate
    Parsers = {P, Q}
    Ids = {I, J}
    InputLists <- MCInputLists
    MaxRuns = 3
    MaxMerges = 2

SPECIFICATION Spec

SYMMETRY Interchangeable

INVARIANTS
    OnlyAcceptedElements
    ReferencesStayInside
    MergedIsDisjointUnion
    RegistryFollowsMerge

 

\* The runs and merges that the bounds allow may all be over.
CHECK_DEADLOCK FALSE
