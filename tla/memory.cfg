SPECIFICATION Spec
CONSTANTS
    a = a  b = b  w1 = w1  w2 = w2
    tea = tea  coffee = coffee  chai = chai
    None = None
    Agent = {a, b}
    Fact = {tea, coffee, chai}
    Says <- Said
    Same <- Sameness
    Near <- Nearness
    Replaces <- Replacing
    Worker = {w1, w2}
    MaxEntries = 2
    MinQuota = 1
    MaxId = 3
SYMMETRY Symmetric
INVARIANTS MemoryMatchesTable DeletedIsGone NoTwins OwnFactsOnly
