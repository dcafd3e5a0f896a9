SPECIFICATION MigrationSpec
CONSTANTS
    TopStories = TopStories
    Blog = Blog
    none = none
    None = none
    opaque = opaque
    uri = uri
    l1 = l1
    l2 = l2
    l3 = l3
    Published <- DisjointFeeds
    FeedOrder <- TheFeeds
    UriGuids = {uri}
    MaxEntries = 2
    MaxLines = 3
    MaxPolls = 3
INVARIANTS
    FlagsFollow
    FixedPoint
    HashesCurrent
    NeverBack
PROPERTY
    ArticlesKept
CHECK_DEADLOCK FALSE
