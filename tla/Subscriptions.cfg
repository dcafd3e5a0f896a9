CONSTANTS
    u1 = u1
    u2 = u2
    t1 = t1
    x = x
    y = y
    Blank = Blank
    NoTitle = NoTitle
    Reserved = Reserved
    None = None
    Done = Done
    NotLoaded = NotLoaded
    NoFile = NoFile
    Urls = {u1, u2}
    Titles = {t1, Blank}
    Words = {x, y, Reserved}
    Clients = {c1, c2}
    Requests <- PlainRequests
    Found <- SomeFound
    ImportFiles <- SomeImports
    ImportBeside = FALSE
    Unsynced = TRUE
SPECIFICATION Spec
INVARIANT OpmlTypeOK
INVARIANT NoReservedTag
INVARIANT ServedSurvivesRestart
PROPERTY ImplementsSubscriptionList
SYMMETRY AnyClient
