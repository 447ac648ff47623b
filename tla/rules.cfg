SPECIFICATION FairSpec
CONSTANTS
    block = block  limit = limit  bad = bad  q1 = q1  q2 = q2  u1 = u1  u2 = u2  poller = poller
    Body = {block, limit, bad}
    Query = {q1, q2}
    Priority <- Priorities
    Fits <- Fit
    Act <- Acts
    Authors = {block}
    Compiles = {block, limit}
    Editor = {u1, u2}
    Poller = poller
    None = None
    MaxId = 2
    MaxEdits = 2
    Stored <- OneRule
INVARIANTS FirstMatchWins ReloadedWhenAlone MirrorFollows
PROPERTY EventuallyCurrent
