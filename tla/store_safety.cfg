SPECIFICATION Spec
CONSTANTS
    Sources = {s1, s2}
    Writers = {w1, w2}
    Readers = {r1}
    Monitors = {}
    NoWriter = NoWriter
    PerSource = 2
    PageSize = 2
    Feeds <- MCFeedsSmall
    NormalTitle <- MCNormalTitle
SYMMETRY Symmetry
INVARIANTS LockExclusion SnapshotWhole HealthMatchesItems DigestSound PageSound
PROPERTY ImplementsBoard
