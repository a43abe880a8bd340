------------------------- MODULE MCGovulnersWrapper -------------------------
(* Small instances of GovulnersWrapper for TLC.                           *)
EXTENDS GovulnersWrapper, TLC

CONSTANTS t1, t2, t3, c1, c2, v1

MCThreads2 == {t1, t2}
MCThreads3 == {t1, t2, t3}
MCChecksums == {c1, c2}
MCChecksums1 == {c1}
MCVersions == {v1}

(* The liveness run narrows the arguments: production only, and readers *)
(* that only query.  The lock protocol is the same for every method.     *)
MCReaderOps == {"query"}
MCUseStagingArgs == {FALSE}

(* Threads are interchangeable, and so are checksums: the wrapper only    *)
(* compares them for equality.                                            *)
MCSymmetry == Permutations(MCThreads2) \cup Permutations(MCChecksums)

=============================================================================
