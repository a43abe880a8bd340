CONSTANTS
    t1 = t1
    s1 = s1
    c1 = c1
    c2 = c2
    v1 = v1
    NULL = NULL
    Threads <- MCThreads
    Scanners <- MCScanners
    Checksums <- MCChecksums
    Versions <- MCVersions
INIT SInit
NEXT SNext
INVARIANT
    ScanSnapshotConsistent
