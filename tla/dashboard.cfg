SPECIFICATION PartsSpec
CONSTANTS
    e1 = e1  e2 = e2  e3 = e3  c1 = c1
    Nobody = Nobody
    Event = {e1, e2}
    Client = {c1}
    BroadcastCap = 1
    SendCap = 1
    HistoryLimit = 1
    MaxOther = 1
    DBFails = TRUE
    None = None
    Entry = {e1, e2, e3}
    MaxReplays = 1
INVARIANTS NoGap RunNeverPanics ValidMeansFresh
PROPERTIES NoLeak ImplementsCachedQuery EventuallyShown
CHECK_DEADLOCK FALSE
