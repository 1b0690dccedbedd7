SPECIFICATION Spec
CONSTANTS
    c1 = c1
    c2 = c2
    k1 = k1
    k2 = k2
    k3 = k3
    nokey = nokey
    Clients = {c1, c2}
    Appenders = {c1}
    Keys = {k1, k2, k3}
    NoKey = nokey
    Seeded = {k1}
    MaxSent = 2
    MaxFails = 1
    MaxDeletes = 1
INVARIANTS
    StoredOnce
    MonitorFileIsOwn
PROPERTIES
    AppendsAreAtomic
