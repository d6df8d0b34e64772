SPECIFICATION FairSpec
CONSTANTS
    Sources = {s1}
    Writers = {w1, w2}
    Readers = {r1}
    Monitors = {m1}
    NoWriter = NoWriter
    PerSource = 2
    PageSize = 2
    Feeds <- MCFeedsTie
    NormalTitle <- MCNormalTitle
PROPERTIES CallsReturn ReportMatchesItems
