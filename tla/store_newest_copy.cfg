SPECIFICATION Spec
CONSTANTS
    Sources = {s1, s2}
    Writers = {w1}
    Readers = {r1}
    Monitors = {}
    NoWriter = NoWriter
    PerSource = 2
    PageSize = 2
    Feeds <- MCFeeds
    NormalTitle <- MCNormalTitle
INVARIANT NewestCopyWins
