------------------------- MODULE MCGovulnersScanner -------------------------
(* A small instance of GovulnersScanner for TLC: one scanner beside one   *)
(* thread that may install, unstage or read.                               *)
EXTENDS GovulnersScanner, TLC

CONSTANTS t1, s1, c1, c2, v1

MCThreads == {t1, s1}
MCScanners == {s1}
MCChecksums == {c1, c2}
MCVersions == {v1}

=============================================================================
