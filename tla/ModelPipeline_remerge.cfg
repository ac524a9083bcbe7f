CONSTANTS
    P = P
    Q = Q
    I = I
    J = J
    Aggregate = Aggregate
    Parsers = {P, Q}
    Ids = {I, J}
    InputLists <- MCInputLists
    MaxRuns = 3
    MaxMerges = 2

SPECIFICATION Spec

INVARIANT AggregateIsMergeInput

CHECK_DEADLOCK FALSE
