CONSTANTS
    a = a
    b = b
    c = c
    x = x
    y = y
    z = z
    Activities = {a, b, c}
    Applications = {x, y, z}
    Names <- MCNames
    Programs <- MCPrograms

SPECIFICATION FairSpec

INVARIANTS
    ChainsAreSchedulable
    EcuRunsItsChains

PROPERTY Termination
