CONSTANTS
    A = A
    B = B
    C = C
    p = p
    q = q
    U = U
    S = S
    E = E
    T = T
    Implicit = Implicit
    Files = {A, B, C}
    Parts = {p, q, U, S, E, T}
    Programs <- CircularPrograms

SPECIFICATION Spec

INVARIANT ResolvesCircularImports
