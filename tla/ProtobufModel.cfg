CONSTANTS
    f1 = f1
    f2 = f2
    f3 = f3
    d1 = d1
    d2 = d2
    d3 = d3
    k1 = k1
    k2 = k2
    k3 = k3
    k4 = k4
    Primitive = primitive
    Files = {f1, f2, f3}
    Definitions = {d1, d2, d3}
    Keys = {k1, k2, k3, k4}
    Builtin = {k4}
    Programs <- MCPrograms

SPECIFICATION FairSpec

INVARIANTS
    AcceptsWellFormed
    EverySlotBound
    FieldsInPlace
    OptionsReachDefinitions
    ReportsEveryIssue

PROPERTIES
    Termination
