-------------------------- MODULE GovulnersScanner --------------------------
(***************************************************************************)
(* GovulnersScanner.get_vulnerabilities of                                 *)
(* src/nextlinux_engine/services/policy_engine/engine/vulns/scanners.py,   *)
(* the QueryLayer entry point of the policy engine, composed with the     *)
(* database lifecycle manager it calls (GovulnersWrapper).                 *)
(*                                                                         *)
(* get_vulnerabilities runs query_vulnerabilities, and when the result is  *)
(* non-empty, the namespace argument is not only nvd and the records name *)
(* related nvd vulnerabilities, a second query, query_vulnerability_-     *)
(* metadata.  Each query takes and releases the read side of the wrapper's *)
(* lock on its own, so between the two the scanner holds no lock and the   *)
(* other threads of GovulnersWrapper (installs, unstage, readers) run.     *)
(* A scanner thread is a thread of GovulnersWrapper that only calls the    *)
(* two queries; its own state records which snapshot each query read.      *)
(***************************************************************************)
EXTENDS GovulnersWrapper

CONSTANTS
    Scanners   \* the threads of Threads that run get_vulnerabilities

VARIABLES
    scan       \* scan[t]: where t is in get_vulnerabilities, and what it read

svars == <<vars, scan>>

(* pc: "idle" before a call, "vulns" in query_vulnerabilities, "related" in *)
(* query_vulnerability_metadata, "returned" once the tuple is returned.     *)
(* onlyNvd: _is_only_nvd_namespace(namespace) of the call's argument.       *)
(* vulns, related: the snapshot each query's session was bound to.          *)
ScanStates == [pc : {"idle", "vulns", "related", "returned"},
               onlyNvd : BOOLEAN,
               vulns : Snapshots \cup {NULL},
               related : Snapshots \cup {NULL}]

ScanIdle == [pc |-> "idle", onlyNvd |-> FALSE, vulns |-> NULL, related |-> NULL]

(* A call of one of the two production queries: a reader of the wrapper   *)
(* that runs query and does not use the staging slot.                     *)
CallQuery(t) ==
    /\ StartReader(t)
    /\ req'[t].op = "query"
    /\ ~req'[t].staging

(* get_vulnerabilities(ids, affected_package, version, namespace) calls   *)
(* query_vulnerabilities.                                                   *)
GetVulnerabilities(t) ==
    /\ scan[t].pc \in {"idle", "returned"}
    /\ CallQuery(t)
    /\ \E nvd \in BOOLEAN :
          scan' = [scan EXCEPT ![t] = [ScanIdle EXCEPT !.pc = "vulns", !.onlyNvd = nvd]]

ScanAcquireRead(t) ==
    /\ AcquireRead(t)
    /\ UNCHANGED scan

(* LockAcquisitionError of either query propagates out of                 *)
(* get_vulnerabilities.                                                    *)
ScanTimeoutRead(t) ==
    /\ TimeoutRead(t)
    /\ scan' = [scan EXCEPT ![t].pc = "idle"]

(* The query runs on a session of the production session maker; an unset *)
(* maker raises ValueError, which propagates.  After the first query the  *)
(* scanner returns at once when the result is empty or the namespace is   *)
(* only nvd, and otherwise queries the metadata of the related nvd        *)
(* vulnerabilities the records name, when there are any.                   *)
ScanQuery(t) ==
    LET m == prod.maker IN
    /\ QueryProduction(t)
    /\ \/ /\ m = NULL
          /\ scan' = [scan EXCEPT ![t].pc = "idle"]
       \/ /\ m # NULL
          /\ scan[t].pc = "vulns"
          /\ \E found, related \in BOOLEAN :
                scan' = [scan EXCEPT ![t].vulns = m,
                                     ![t].pc = IF found /\ ~scan[t].onlyNvd /\ related
                                               THEN "related" ELSE "returned"]
       \/ /\ m # NULL
          /\ scan[t].pc = "related"
          /\ scan' = [scan EXCEPT ![t].related = m, ![t].pc = "returned"]

(* get_vulnerabilities calls query_vulnerability_metadata with the ids of *)
(* the related nvd vulnerabilities.                                        *)
ScanRelated(t) ==
    /\ scan[t].pc = "related"
    /\ pc[t] = "idle"
    /\ CallQuery(t)
    /\ UNCHANGED scan

ScannerThread(t) ==
    \/ GetVulnerabilities(t) \/ ScanAcquireRead(t) \/ ScanTimeoutRead(t)
    \/ ScanQuery(t) \/ ScanRelated(t)

SInit ==
    /\ Init
    /\ scan = [t \in Scanners |-> ScanIdle]

(* The scanners run beside the other threads of the wrapper, which call   *)
(* any of its methods.                                                     *)
SNext ==
    \/ \E t \in Threads \ Scanners : Thread(t) /\ UNCHANGED scan
    \/ \E t \in Scanners : ScannerThread(t)

SSpec == SInit /\ [][SNext]_svars

-----------------------------------------------------------------------------
(* The vulnerability records and the related nvd metadata records that    *)
(* get_vulnerabilities returns come from one snapshot of the database     *)
(* (spec section 7: a reader observes the complete prior or the complete  *)
(* new database, never a mix).                                             *)
ScanSnapshotConsistent ==
    \A t \in Scanners :
        (scan[t].pc = "returned" /\ scan[t].related # NULL)
            => scan[t].related = scan[t].vulns

=============================================================================
