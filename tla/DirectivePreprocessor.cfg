CONSTANTS
    a = a
    b = b
    Symbols = {a, b}
    Inputs <- MCInputs

SPECIFICATION Spec

INVARIANTS
    KeepsFirstTrueBranch
    RejectsMalformed
