CONSTANTS
    t1 = t1
    t2 = t2
    t3 = t3
    c1 = c1
    c2 = c2
    v1 = v1
    NULL = NULL
    Threads <- MCThreads2
    Checksums <- MCChecksums
    Versions <- MCVersions
SYMMETRY MCSymmetry
INIT Init
NEXT Next
INVARIANTS
    TypeOK
    ProductionConsistent
    MetadataReadMatchesSnapshot
PROPERTY
    ImplementsProductionSlot
