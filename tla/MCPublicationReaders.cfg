SPECIFICATION Spec
CONSTANTS
    n1 = n1
    n2 = n2
    t1 = t1
    t2 = t2
    c1 = c1
    c2 = c2
    f1 = f1
    f2 = f2
    off = off
    u1 = u1
    u2 = u2
    k1 = k1
    nokey = nokey
    b1 = b1
    b2 = b2
    tok1 = tok1
    none = none
    nobatch = nobatch
    Resource = {n1, n2}
    Include = {n1}
    Target = {t1}
    Core = {c1}
    CoreOf <- OneCore
    Format = {f1, f2}
    Off = off
    Actor = {u1}
    Key = {k1}
    NoKey = nokey
    Batch = {b1}
    Token = {tok1}
    NoSnapshot = none
    NoBatch = nobatch
    MaxCatalog = 3
    MaxPubs = 2
SYMMETRY Symmetric
INVARIANTS
    ReplayFindsItsPublication
PROPERTIES
    WithdrawalIsFinal
