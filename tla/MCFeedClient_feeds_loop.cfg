SPECIFICATION Spec
CONSTANTS
    a1 = a1
    a2 = a2
    Archives <- MCArchives
    NULL = NULL
    NPages = 2
    Retries = 3
    Outcomes = {"ok", "s500"}
    MissingKeyPages = {2}
PROPERTY
    ListFeedsTerminates
