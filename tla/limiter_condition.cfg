SPECIFICATION FairSpec
CONSTANTS
    Moving = {{"limiter"}}
    p1 = p1  p2 = p2  p3 = p3
    Provider = {p1, p2, p3}
    Original = p1
    Resolvable = {p1, p2}
    MaxAttempts = 4
    InitialDelay = 2
    MaxDelay = 5
    MaxChain = 2
    Chains <- SomeChains
    Tiers <- SomeTiers
    x = x
    Nil = Nil
    Req = 1  Cost = 0  Tok = 3
    Limit <- Limits
    Window = 2
    Period = 1
    Amounts = {2}
    Agent = {x}
    Client = {c1, c2}
    Ref = {1, 2, 3, 4}
    None = None
    Request = {r1}  Sid = {s1}  Topic = {t1}
    MaxSessions = 1  MaxLoopSessions = 1  MaxAge = 1  LoopWindow = 1
    PersistSlots = 0  MaxNow = 0  MaxRestarts = 0
INVARIANT LimitsWhenConditioned
