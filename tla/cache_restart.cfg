SPECIFICATION Spec
CONSTANTS
    h1 = h1  h2 = h2  h3 = h3
    a = a  b = b  c1 = c1  c2 = c2
    Nil = Nil
    Hash = {h1, h2}
    Resp = {a}
    Client = {c1}
    Ref = {1, 2, 3, 4}
    HasDB = TRUE
    MaxEntries = 1
    TTL = 1
    MaxNow = 2
    MaxJobs = 1
    MaxFlushes = 1
    MaxRestarts = 1
SYMMETRY Symmetric
INVARIANT Bounded
