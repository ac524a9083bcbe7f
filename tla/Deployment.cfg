CONSTANTS
    f1 = f1
    f2 = f2
    f3 = f3
    s1 = s1
    s2 = s2
    s3 = s3
    d1 = d1
    d2 = d2
    d3 = d3
    a = a
    b = b
    t1 = t1
    t2 = t2
    h1 = h1
    h2 = h2
    p1 = p1
    p2 = p2
    x1 = x1
    x2 = x2
    Files = {f1, f2, f3}
    Specifications = {s1, s2, s3}
    Deployments = {d1, d2, d3}
    Parts = {a, b}
    TypeNames = {a, b}
    Types = {t1, t2}
    Hosts = {h1, h2}
    Properties = {p1, p2}
    Texts = {x1, x2}
    Unset = Unset
    Optional = Optional
    Unresolved = Unresolved
    Programs <- MCPrograms

SPECIFICATION Spec

INVARIANTS
    PropertiesAsDeployed
    RequiredAreSet
    UsesInScope
