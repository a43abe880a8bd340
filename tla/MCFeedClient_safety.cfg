SPECIFICATION Spec
CONSTANTS
    a1 = a1
    a2 = a2
    Archives <- MCArchives
    NULL = NULL
    NPages = 2
    Retries = 3
    Outcomes = {"ok", "nohdr", "s401", "s403", "s404", "s429", "s500", "ctimeout", "exc"}
    MissingKeyPages = {2}
INVARIANTS
    TypeOK
    ListingComplete
    ArchiveMetadataConsistent
PROPERTY
    ListFeedGroupsTerminates
