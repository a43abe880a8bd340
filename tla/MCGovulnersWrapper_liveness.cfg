CONSTANTS
    t1 = t1
    t2 = t2
    t3 = t3
    c1 = c1
    c2 = c2
    v1 = v1
    NULL = NULL
    Threads <- MCThreads3
    Checksums <- MCChecksums1
    Versions <- MCVersions
    ReaderOps <- MCReaderOps
    UseStagingArgs <- MCUseStagingArgs
SPECIFICATION Spec
PROPERTIES
    WriterAdmitted
    WriteLockReleased
