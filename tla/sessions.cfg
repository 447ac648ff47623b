SPECIFICATION Spec
CONSTANTS
    Moving = {{"sessions"}}
    None = None
    Request = {r1, r2}
    Sid = {s1, s2}
    Topic = {t1, t2}
    MaxSessions = 1
    MaxLoopSessions = 1
    MaxAge = 1
    LoopWindow = 1
    PersistSlots = 1
    MaxNow = 2
    MaxRestarts = 1
    p1 = p1  p2 = p2  p3 = p3
    Provider = {p1}  Original = p1  Resolvable = {p1}
    MaxAttempts = 1  InitialDelay = 1  MaxDelay = 1  MaxChain = 0
    Chains <- NoChains  Tiers <- NoChains
    x = x
    Req = 1  Cost = 0  Tok = 0  Limit <- Limits
    Nil = Nil  Agent = {x}  Client = {c1}  Ref = {1}
    Window = 1  Period = 1  Amounts = {0}
SYMMETRY Symmetry
CHECK_DEADLOCK FALSE
INVARIANTS SpendMatchesTable LoopCountExact
PROPERTIES SweptWereIdle StopLosesFew
