-------------------------- MODULE GovulnersWrapper --------------------------
(***************************************************************************)
(* The database lifecycle manager of                                       *)
(* src/nextlinux_engine/clients/govulners_wrapper.py                       *)
(* (GovulnersWrapperSingleton): the production and the staging slot, each  *)
(* a (dir, version, session maker) triple, the content-addressed snapshot  *)
(* directories on disk, and the reader-writer lock (rwlock.RWLockWrite,    *)
(* writer preferring) that guards them.                                    *)
(*                                                                         *)
(* Every thread runs one public method at a time.  A method is split into  *)
(* the steps at which another thread can observe or change the shared     *)
(* state: each attribute read or assignment of a slot field, each lock    *)
(* acquisition, and the install of the archive on disk.                    *)
(*                                                                         *)
(* A slot directory is named by the archive checksum, the snapshot inside *)
(* it by the db version, so a snapshot is a pair <<checksum, version>>    *)
(* and a session maker is identified by the snapshot file it is bound to. *)
(***************************************************************************)
EXTENDS Naturals, FiniteSets

CONSTANTS
    Threads,    \* threads of the process that call the wrapper
    Checksums,  \* archive checksums offered to update_govulners_db
    Versions,   \* db versions offered to update_govulners_db
    NULL        \* Python None

ASSUME ConstantsAssumption ==
    /\ Checksums # {}
    /\ Versions # {}
    /\ NULL \notin Checksums
    /\ NULL \notin Versions
    /\ NULL \notin Threads

Snapshots == Checksums \X Versions

(* A slot as the three instance attributes _govulners_db_dir_internal,    *)
(* _govulners_db_version_internal and _govulners_db_session_maker_internal *)
(* (and their _staging_ twins).                                            *)
Slots == [dir : Checksums \cup {NULL},
          version : Versions \cup {NULL},
          maker : Snapshots \cup {NULL}]

EmptySlot == [dir |-> NULL, version |-> NULL, maker |-> NULL]

(* Status of the files of a snapshot directory root/checksum/version.     *)
DiskStatus == {"absent", "partial", "complete"}

(* The public methods a thread may be running.                            *)
Ops == {"update", "unstage", "counts", "query"}

(* The argument values the model enumerates: which read-locked method a   *)
(* reader calls, and the use_staging flag of update and counts.           *)
ReaderOps == {"counts", "query"}
UseStagingArgs == BOOLEAN

(* What get_current_govulners_db_checksum last returned: a checksum, None *)
(* or an exception.                                                       *)
Returns == {"none", "value", "error"}

PCs == {"idle",
        "u_lock", "u_install", "u_dir", "u_version", "u_maker",
        "un_dir", "un_version", "un_maker",
        "r_lock", "q_run", "c_maker",
        "rd_dir", "rd_version", "rd_file"}

VARIABLES
    prod,        \* the production slot
    staging,     \* the staging slot
    disk,        \* disk[s]: files of snapshot s under the configured root
    engineMeta,  \* engineMeta[s]: engine_metadata.json of s was written
    readers,     \* threads holding the read side of the lock
    writer,      \* thread holding the write side, or NULL
    wwait,       \* threads registered as writers and waiting for the lock
    pc,          \* pc[t]: the step thread t runs next
    req,         \* req[t]: the method of t and its arguments
    obs,         \* obs[t]: slot fields t has read so far in this method
    ret          \* ret[t]: result of t's last get_current_govulners_db_checksum

lockVars == <<readers, writer, wwait>>
stateVars == <<prod, staging, disk, engineMeta>>
vars == <<prod, staging, disk, engineMeta, readers, writer, wwait,
          pc, req, obs, ret>>

Requests == [op : Ops, snap : Snapshots, staging : BOOLEAN, present : BOOLEAN]

TypeOK ==
    /\ prod \in Slots
    /\ staging \in Slots
    /\ disk \in [Snapshots -> DiskStatus]
    /\ engineMeta \in [Snapshots -> BOOLEAN]
    /\ readers \subseteq Threads
    /\ writer \in Threads \cup {NULL}
    /\ wwait \subseteq Threads
    /\ pc \in [Threads -> PCs]
    /\ req \in [Threads -> Requests]
    /\ obs \in [Threads -> Slots]
    /\ ret \in [Threads -> Returns]

-----------------------------------------------------------------------------
(* The slot a method of t reads: the staging slot when it was called with *)
(* use_staging=True.  unstage_govulners_db clears the staging slot but     *)
(* reads the production one (its req.staging is FALSE).                    *)
ReadSlot(t) == IF req[t].staging THEN staging ELSE prod

(* The arguments of a thread between two methods.                        *)
NoRequest == [op |-> "query", snap |-> CHOOSE s \in Snapshots : TRUE,
              staging |-> FALSE, present |-> FALSE]

(* Leaves the current method of t, by return or by exception: the context *)
(* managers read_lock_access and write_lock_access release in their       *)
(* finally clause whatever side of the lock t holds.  What the method     *)
(* returned is not kept: the properties are stated on what it read.       *)
Finish(t) ==
    /\ pc' = [pc EXCEPT ![t] = "idle"]
    /\ req' = [req EXCEPT ![t] = NoRequest]
    /\ obs' = [obs EXCEPT ![t] = EmptySlot]
    /\ readers' = readers \ {t}
    /\ writer' = IF writer = t THEN NULL ELSE writer
    /\ UNCHANGED <<wwait, ret>>

-----------------------------------------------------------------------------
(***************************************************************************)
(* The reader-writer lock (read_lock_access, write_lock_access over        *)
(* rwlock.RWLockWrite).  A writer registers first; while any writer is    *)
(* registered or holds the lock no new reader gets in; the writer enters  *)
(* once the readers have left.  Either side may give up at its timeout    *)
(* and raise LockAcquisitionError.                                          *)
(***************************************************************************)
AcquireWrite(t) ==
    /\ pc[t] = "u_lock"
    /\ writer = NULL
    /\ readers = {}
    /\ writer' = t
    /\ wwait' = wwait \ {t}
    /\ pc' = [pc EXCEPT ![t] = "u_install"]
    /\ UNCHANGED <<readers, req, obs, ret, stateVars>>

TimeoutWrite(t) ==
    /\ pc[t] = "u_lock"
    /\ pc' = [pc EXCEPT ![t] = "idle"]
    /\ req' = [req EXCEPT ![t] = NoRequest]
    /\ wwait' = wwait \ {t}
    /\ UNCHANGED <<readers, writer, obs, ret, stateVars>>

(* Mutant: a reader-preferring lock (rwlock.RWLockRead) that admits new   *)
(* readers while a writer is registered.                                   *)
AcquireReadIgnoringWriters(t) ==
    /\ pc[t] = "r_lock"
    /\ writer = NULL
    /\ readers' = readers \cup {t}
    /\ pc' = [pc EXCEPT ![t] = IF req[t].op = "query" THEN "q_run" ELSE "c_maker"]
    /\ UNCHANGED <<writer, wwait, req, obs, ret, stateVars>>

(* Mutant: a reader method that forgot "with self.read_lock_access()".    *)
AcquireReadUnlocked(t) ==
    /\ pc[t] = "r_lock"
    /\ pc' = [pc EXCEPT ![t] = IF req[t].op = "query" THEN "q_run" ELSE "c_maker"]
    /\ UNCHANGED <<readers, writer, wwait, req, obs, ret, stateVars>>

AcquireRead(t) ==
    /\ pc[t] = "r_lock"
    /\ writer = NULL
    /\ wwait = {}
    /\ readers' = readers \cup {t}
    /\ pc' = [pc EXCEPT ![t] = IF req[t].op = "query" THEN "q_run" ELSE "c_maker"]
    /\ UNCHANGED <<writer, wwait, req, obs, ret, stateVars>>

TimeoutRead(t) ==
    /\ pc[t] = "r_lock"
    /\ Finish(t)
    /\ UNCHANGED stateVars

-----------------------------------------------------------------------------
(***************************************************************************)
(* update_govulners_db(archive, checksum, version, use_staging)            *)
(***************************************************************************)
update_govulners_db(t) ==
    /\ pc[t] = "idle"
    /\ \E s \in Snapshots, stg \in UseStagingArgs, present \in BOOLEAN :
          req' = [req EXCEPT ![t] = [op |-> "update", snap |-> s,
                                     staging |-> stg, present |-> present]]
    /\ wwait' = wwait \cup {t}
    /\ pc' = [pc EXCEPT ![t] = "u_lock"]
    /\ UNCHANGED <<readers, writer, obs, ret, stateVars>>

(* Mutant: write access taken without the try/finally, so an exception in *)
(* the install leaves the write lock held.                                 *)
InstallArchiveKeepsLock(t) ==
    LET s == req[t].snap IN
    /\ pc[t] = "u_install"
    /\ \/ /\ ~req[t].present
          /\ pc' = [pc EXCEPT ![t] = "idle"]
          /\ req' = [req EXCEPT ![t] = NoRequest]
          /\ UNCHANGED <<lockVars, obs, ret, stateVars>>
       \/ /\ req[t].present
          /\ disk' = [disk EXCEPT ![s] = "complete"]
          /\ engineMeta' = [engineMeta EXCEPT ![s] = TRUE]
          /\ pc' = [pc EXCEPT ![t] = "u_dir"]
          /\ UNCHANGED <<prod, staging, lockVars, req, obs, ret>>

(* Mutant: an extraction error is logged and the install goes on to      *)
(* assign the slot.                                                        *)
InstallArchiveIgnoringExtractError(t) ==
    LET s == req[t].snap IN
    /\ pc[t] = "u_install"
    /\ \/ /\ ~req[t].present
          /\ Finish(t)
          /\ UNCHANGED stateVars
       \/ /\ req[t].present
          /\ disk' = [disk EXCEPT ![s] = "partial"]
          /\ pc' = [pc EXCEPT ![t] = "u_dir"]
          /\ UNCHANGED <<prod, staging, engineMeta, lockVars, req, obs, ret>>
       \/ /\ req[t].present
          /\ disk' = [disk EXCEPT ![s] = "complete"]
          /\ engineMeta' = [engineMeta EXCEPT ![s] = TRUE]
          /\ pc' = [pc EXCEPT ![t] = "u_dir"]
          /\ UNCHANGED <<prod, staging, lockVars, req, obs, ret>>

(* _init_latest_govulners_db: copy the archive into the root (FileNotFound *)
(* when it is missing), extract it into root/checksum/version, remove the *)
(* copy, write engine_metadata.json, build engine and session maker.  An  *)
(* extraction that fails part way (tarfile error, disk full) leaves the    *)
(* files it already overwrote behind.  Any exception propagates out of   *)
(* the with-block: the lock is released and no slot field is assigned.    *)
InstallArchive(t) ==
    LET s == req[t].snap IN
    /\ pc[t] = "u_install"
    /\ \/ /\ ~req[t].present
          /\ Finish(t)
          /\ UNCHANGED stateVars
       \/ /\ req[t].present
          /\ disk' = [disk EXCEPT ![s] = "partial"]
          /\ Finish(t)
          /\ UNCHANGED <<prod, staging, engineMeta>>
       \/ /\ req[t].present
          /\ disk' = [disk EXCEPT ![s] = "complete"]
          /\ engineMeta' = [engineMeta EXCEPT ![s] = TRUE]
          /\ pc' = [pc EXCEPT ![t] = "u_dir"]
          /\ UNCHANGED <<prod, staging, lockVars, req, obs, ret>>

(* Assigns one field of the slot named by use_staging.                    *)
AssignField(t, f, v) ==
    IF req[t].staging
    THEN /\ staging' = [staging EXCEPT ![f] = v]
         /\ UNCHANGED prod
    ELSE /\ prod' = [prod EXCEPT ![f] = v]
         /\ UNCHANGED staging

(* Mutant: the whole snapshot path stored as the dir attribute.           *)
SetDirWholePath(t) ==
    /\ pc[t] = "u_dir"
    /\ AssignField(t, "dir", req[t].snap)
    /\ pc' = [pc EXCEPT ![t] = "u_version"]
    /\ UNCHANGED <<disk, engineMeta, lockVars, req, obs, ret>>

SetDir(t) ==
    /\ pc[t] = "u_dir"
    /\ AssignField(t, "dir", req[t].snap[1])
    /\ pc' = [pc EXCEPT ![t] = "u_version"]
    /\ UNCHANGED <<disk, engineMeta, lockVars, req, obs, ret>>

(* Mutant: the staging branch assigns the production version attribute.   *)
SetVersionProduction(t) ==
    /\ pc[t] = "u_version"
    /\ prod' = [prod EXCEPT !.version = req[t].snap[2]]
    /\ pc' = [pc EXCEPT ![t] = "u_maker"]
    /\ UNCHANGED <<staging, disk, engineMeta, lockVars, req, obs, ret>>

SetVersion(t) ==
    /\ pc[t] = "u_version"
    /\ AssignField(t, "version", req[t].snap[2])
    /\ pc' = [pc EXCEPT ![t] = "u_maker"]
    /\ UNCHANGED <<disk, engineMeta, lockVars, req, obs, ret>>

(* After the session maker, update_govulners_db returns                   *)
(* get_govulners_db_engine_metadata(use_staging), still under the lock.    *)
SetMaker(t) ==
    /\ pc[t] = "u_maker"
    /\ AssignField(t, "maker", req[t].snap)
    /\ pc' = [pc EXCEPT ![t] = "rd_dir"]
    /\ UNCHANGED <<disk, engineMeta, lockVars, req, obs, ret>>

-----------------------------------------------------------------------------
(***************************************************************************)
(* unstage_govulners_db(): assigns None to the three staging fields, with *)
(* no lock taken, then returns the production engine metadata.            *)
(***************************************************************************)
unstage_govulners_db(t) ==
    /\ pc[t] = "idle"
    /\ req' = [req EXCEPT ![t] = [@ EXCEPT !.op = "unstage", !.staging = FALSE]]
    /\ pc' = [pc EXCEPT ![t] = "un_dir"]
    /\ UNCHANGED <<lockVars, obs, ret, stateVars>>

ClearStagingField(t, here, f, next) ==
    /\ pc[t] = here
    /\ staging' = [staging EXCEPT ![f] = NULL]
    /\ pc' = [pc EXCEPT ![t] = next]
    /\ UNCHANGED <<prod, disk, engineMeta, lockVars, req, obs, ret>>

UnstageDir(t) == ClearStagingField(t, "un_dir", "dir", "un_version")
UnstageVersion(t) == ClearStagingField(t, "un_version", "version", "un_maker")
UnstageMaker(t) == ClearStagingField(t, "un_maker", "maker", "rd_dir")

-----------------------------------------------------------------------------
(***************************************************************************)
(* Readers.  query_vulnerabilities / query_vulnerability_metadata /       *)
(* get_vulnerabilities_for_sbom read the production slot once under the   *)
(* read lock; query_record_source_counts(use_staging) opens a session from *)
(* the slot's maker, counts, then reads metadata.json of the same slot     *)
(* through get_govulners_db_metadata.                                       *)
(***************************************************************************)
StartReader(t) ==
    /\ pc[t] = "idle"
    /\ \E op \in ReaderOps, stg \in UseStagingArgs :
          /\ op = "query" => ~stg
          /\ req' = [req EXCEPT ![t] = [@ EXCEPT !.op = op, !.staging = stg]]
    /\ pc' = [pc EXCEPT ![t] = "r_lock"]
    /\ UNCHANGED <<lockVars, obs, ret, stateVars>>

(* govulners_session_scope() on the production slot (ValueError when the  *)
(* maker is unset), then the query on the snapshot file the maker is bound *)
(* to, and the session is closed.                                          *)
QueryProduction(t) ==
    /\ pc[t] = "q_run"
    /\ Finish(t)
    /\ UNCHANGED stateVars

(* govulners_session_scope(use_staging): calls the slot's session maker.  *)
CountsSession(t) ==
    LET m == ReadSlot(t).maker IN
    /\ pc[t] = "c_maker"
    /\ IF m = NULL
       THEN Finish(t)
       ELSE /\ obs' = [obs EXCEPT ![t].maker = m]
            /\ pc' = [pc EXCEPT ![t] = "rd_dir"]
            /\ UNCHANGED <<lockVars, req, ret>>
    /\ UNCHANGED stateVars

-----------------------------------------------------------------------------
(***************************************************************************)
(* _get_metadata_file_contents(name, use_staging): os.path.join(dir,       *)
(* version, name) reads the dir attribute, then the version attribute,     *)
(* then the file.  A production getter raises ValueError on None; a None   *)
(* staging field makes os.path.join raise TypeError.  read_file_to_json    *)
(* returns None for a missing file.  Shared by update_govulners_db         *)
(* (engine_metadata.json), unstage_govulners_db (engine_metadata.json) and *)
(* query_record_source_counts (metadata.json).                             *)
(***************************************************************************)
ReadDir(t) ==
    LET d == ReadSlot(t).dir IN
    /\ pc[t] = "rd_dir"
    /\ IF d = NULL /\ ~req[t].staging
       THEN Finish(t)
       ELSE /\ obs' = [obs EXCEPT ![t].dir = d]
            /\ pc' = [pc EXCEPT ![t] = "rd_version"]
            /\ UNCHANGED <<lockVars, req, ret>>
    /\ UNCHANGED stateVars

ReadVersion(t) ==
    LET v == ReadSlot(t).version IN
    /\ pc[t] = "rd_version"
    /\ IF v = NULL \/ obs[t].dir = NULL
       THEN Finish(t)
       ELSE /\ obs' = [obs EXCEPT ![t].version = v]
            /\ pc' = [pc EXCEPT ![t] = "rd_file"]
            /\ UNCHANGED <<lockVars, req, ret>>
    /\ UNCHANGED stateVars

(* The file read: engine_metadata.json for update and unstage,             *)
(* metadata.json (present once the snapshot is complete) for counts.       *)
ReadFile(t) ==
    /\ pc[t] = "rd_file"
    /\ Finish(t)
    /\ UNCHANGED stateVars

-----------------------------------------------------------------------------
(***************************************************************************)
(* get_current_govulners_db_checksum(): no lock; reads the production dir  *)
(* attribute (ValueError when unset) and returns its base name, the        *)
(* archive checksum, when the directory exists.                            *)
(***************************************************************************)
get_current_govulners_db_checksum(t) ==
    /\ pc[t] = "idle"
    /\ ret' = [ret EXCEPT ![t] =
                 IF prod.dir = NULL THEN "error"
                 ELSE IF \E v \in Versions : disk[<<prod.dir, v>>] # "absent"
                      THEN "value"
                      ELSE "none"]
    /\ UNCHANGED <<stateVars, lockVars, pc, req, obs>>

-----------------------------------------------------------------------------
Init ==
    /\ prod = EmptySlot
    /\ staging = EmptySlot
    /\ disk = [s \in Snapshots |-> "absent"]
    /\ engineMeta = [s \in Snapshots |-> FALSE]
    /\ readers = {}
    /\ writer = NULL
    /\ wwait = {}
    /\ pc = [t \in Threads |-> "idle"]
    /\ req = [t \in Threads |-> NoRequest]
    /\ obs = [t \in Threads |-> EmptySlot]
    /\ ret = [t \in Threads |-> "none"]

(* The steps a thread takes once it is running a method and not waiting. *)
Step(t) ==
    \/ InstallArchive(t) \/ SetDir(t) \/ SetVersion(t) \/ SetMaker(t)
    \/ UnstageDir(t) \/ UnstageVersion(t) \/ UnstageMaker(t)
    \/ QueryProduction(t) \/ CountsSession(t)
    \/ ReadDir(t) \/ ReadVersion(t) \/ ReadFile(t)

Thread(t) ==
    \/ update_govulners_db(t) \/ unstage_govulners_db(t) \/ StartReader(t)
    \/ get_current_govulners_db_checksum(t)
    \/ AcquireWrite(t) \/ TimeoutWrite(t) \/ AcquireRead(t) \/ TimeoutRead(t)
    \/ Step(t)

Next == \E t \in Threads : Thread(t)

(* The code under the lock runs to completion (a scheduled Python thread  *)
(* keeps running; the govulners subprocess is assumed to return), and a   *)
(* free lock is eventually granted to some waiting writer.  Timeouts and  *)
(* the start of a new method are not forced.                              *)
Fairness ==
    /\ \A t \in Threads : WF_vars(Step(t))
    /\ WF_vars(\E t \in Threads : AcquireWrite(t))

Spec == Init /\ [][Next]_vars /\ Fairness

-----------------------------------------------------------------------------
(***************************************************************************)
(* Properties.                                                             *)
(***************************************************************************)

(* A slot whose three fields come from one install, or an unset slot.     *)
Consistent(sl) ==
    \/ sl = EmptySlot
    \/ /\ sl.maker \in Snapshots
       /\ sl.dir = sl.maker[1]
       /\ sl.version = sl.maker[2]

(* Outside the three assignments of update_govulners_db the production    *)
(* slot is never torn: its dir, version and session maker belong to one   *)
(* snapshot (the three separate setters are only safe because the write   *)
(* lock keeps every production reader out while they run).                *)
ProductionConsistent ==
    (writer = NULL \/ req[writer].staging
                   \/ pc[writer] \notin {"u_version", "u_maker"})
        => Consistent(prod)

(* A method that gets as far as reading a metadata file reads the file of *)
(* the snapshot it works on: query_record_source_counts reads the         *)
(* metadata.json of the snapshot its session counted, and                 *)
(* update_govulners_db returns the engine metadata of the snapshot it just *)
(* installed, although both read dir and version in separate steps while  *)
(* other threads install and unstage.                                      *)
MetadataReadMatchesSnapshot ==
    \A t \in Threads :
        pc[t] = "rd_file" =>
            /\ req[t].op = "counts" => obs[t].maker = <<obs[t].dir, obs[t].version>>
            /\ req[t].op = "update" => req[t].snap = <<obs[t].dir, obs[t].version>>

(* Every reader holding the read lock that finds a production snapshot    *)
(* finds its files complete: the matching engine is pointed only at fully *)
(* installed directories (spec sections 3 and 6).                          *)
ReadersSeeCompleteSnapshot ==
    \A t \in readers :
        prod.maker # NULL => disk[prod.maker] = "complete"

(* Outside the assignments of a running install or unstage, the staging  *)
(* slot is unset or whole: its three fields come from one install.  Spec  *)
(* section 5 has unstage take the write side for this; the code's          *)
(* unstage_govulners_db takes no lock.                                      *)
StagingConsistent ==
    (\A t \in Threads :
        /\ pc[t] \notin {"un_version", "un_maker"}
        /\ (req[t].op = "update" /\ req[t].staging)
               => pc[t] \notin {"u_version", "u_maker"})
        => Consistent(staging)

(* A writer registered at the lock eventually gets it, or gives up: the  *)
(* writer preference of RWLockWrite keeps a stream of readers from        *)
(* starving install.                                                       *)
WriterAdmitted ==
    (wwait # {}) ~> (writer # NULL \/ wwait = {})

(* The write lock is always released again, on the error paths of the    *)
(* install included (the finally clause of write_lock_access).            *)
WriteLockReleased ==
    (writer # NULL) ~> (writer = NULL)

-----------------------------------------------------------------------------
(***************************************************************************)
(* The inductive strengthening of ProductionConsistent that the proof in   *)
(* GovulnersWrapperProofs uses.                                             *)
(***************************************************************************)
InstallPCs == {"u_install", "u_dir", "u_version", "u_maker"}

(* Only the holder of the write side is inside the install and the three   *)
(* assignments of update_govulners_db.                                      *)
InstallExclusive ==
    \A t \in Threads : pc[t] \in InstallPCs => writer = t

(* A production install part way through its assignments has already      *)
(* stored the fields it passed.                                            *)
ProductionInFlight ==
    \A t \in Threads :
        (pc[t] \in {"u_version", "u_maker"} /\ ~req[t].staging) =>
            /\ prod.dir = req[t].snap[1]
            /\ pc[t] = "u_maker" => prod.version = req[t].snap[2]

(* With no production install part way through its assignments, the      *)
(* production slot is whole.                                               *)
ProductionWhole ==
    (\A t \in Threads : ~(pc[t] \in {"u_version", "u_maker"} /\ ~req[t].staging))
        => Consistent(prod)

IInv == TypeOK /\ InstallExclusive /\ ProductionInFlight /\ ProductionWhole

-----------------------------------------------------------------------------
(***************************************************************************)
(* The inductive strengthening of MetadataReadMatchesSnapshot.             *)
(***************************************************************************)
(* The two sides of the lock exclude each other.                           *)
LockExclusive == writer # NULL => readers = {}

(* The dir and version fields of a slot are those of snapshot s, or None. *)
Fits(sl, s) == sl.dir \in {s[1], NULL} /\ sl.version \in {s[2], NULL}

(* The staging twins of ProductionInFlight and ProductionWhole, weakened  *)
(* by None: unstage_govulners_db clears staging fields at any time.        *)
StagingInFlight ==
    \A t \in Threads :
        (pc[t] \in {"u_version", "u_maker"} /\ req[t].staging) =>
            /\ staging.dir \in {req[t].snap[1], NULL}
            /\ pc[t] = "u_maker" => staging.version \in {req[t].snap[2], NULL}

StagingWhole ==
    (\A t \in Threads : ~(pc[t] \in {"u_version", "u_maker"} /\ req[t].staging))
        => (staging.maker # NULL => Fits(staging, staging.maker))

(* A reader method past the lock still holds the read side; an update     *)
(* reading back its engine metadata still holds the write side.           *)
ReadersHoldLock ==
    \A t \in Threads :
        /\ (req[t].op \in ReaderOps
              /\ pc[t] \in {"q_run", "c_maker", "rd_dir", "rd_version", "rd_file"})
                => t \in readers
        /\ (req[t].op = "update" /\ pc[t] \in {"rd_dir", "rd_version", "rd_file"})
                => writer = t

(* Each step belongs to one method: only update_govulners_db waits for    *)
(* the write side and installs, only unstage_govulners_db clears staging, *)
(* and only the read-locked methods wait for and hold the read side.      *)
MethodOps ==
    \A t \in Threads :
        /\ pc[t] \in {"u_lock"} \cup InstallPCs => req[t].op = "update"
        /\ pc[t] \in {"un_dir", "un_version", "un_maker"} => req[t].op = "unstage"
        /\ pc[t] \in {"r_lock", "q_run", "c_maker"} => req[t].op \in ReaderOps

(* The snapshot a metadata read is about: the one the counting session is *)
(* bound to, or the one update_govulners_db installed.                    *)
ReadTarget(t) == IF req[t].op = "counts" THEN obs[t].maker ELSE req[t].snap

(* Part way through the two attribute reads, the slot and the fields read *)
(* so far fit the snapshot the read is about.                              *)
ReadInFlight(t) ==
    (req[t].op \in {"counts", "update"} /\ pc[t] \in {"rd_dir", "rd_version", "rd_file"}) =>
        /\ ReadTarget(t) \in Snapshots
        /\ Fits(ReadSlot(t), ReadTarget(t))
        /\ pc[t] \in {"rd_version", "rd_file"} => obs[t].dir \in {ReadTarget(t)[1], NULL}
        /\ pc[t] = "rd_file" => obs[t].dir = ReadTarget(t)[1]
                                /\ obs[t].version = ReadTarget(t)[2]

MetadataReadInFlight == \A t \in Threads : ReadInFlight(t)

MInv ==
    /\ IInv /\ LockExclusive /\ StagingInFlight /\ StagingWhole
    /\ ReadersHoldLock /\ MethodOps /\ MetadataReadInFlight


-----------------------------------------------------------------------------
(***************************************************************************)
(* The refinement mapping to ProductionSlot.  The abstract replace of the  *)
(* production slot happens at the first of the three assignments of a     *)
(* production install (_govulners_db_dir_internal); the other two are     *)
(* stutters.  While they run, the abstract slot is already the snapshot   *)
(* being installed, which no reader can tell apart because the install    *)
(* holds the write lock.                                                   *)
(***************************************************************************)
ProductionInstallers ==
    {t \in Threads : pc[t] \in {"u_version", "u_maker"} /\ ~req[t].staging}

AbsSlot ==
    IF ProductionInstallers # {}
    THEN req[CHOOSE t \in ProductionInstallers : TRUE].snap
    ELSE prod.maker

AbsReady == {s \in Snapshots : disk[s] = "complete"}

(* An install past the extraction has its snapshot completely extracted:  *)
(* no one else touches the directory while it holds the write lock.       *)
InstalledComplete ==
    \A t \in Threads :
        pc[t] \in {"u_dir", "u_version", "u_maker"} => disk[req[t].snap] = "complete"

(* The invariant the refinement proof rests on.                            *)
RInv == IInv /\ InstalledComplete

Abs == INSTANCE ProductionSlot
           WITH Snap <- Snapshots, NoSnap <- NULL,
                slot <- AbsSlot, ready <- AbsReady

(* The production slot behaves as ProductionSlot specifies: it changes     *)
(* only in one atomic replace, to a snapshot whose directory is completely *)
(* extracted, and is never unset again, although update_govulners_db      *)
(* assigns its three fields in separate statements and unstage, reads and  *)
(* re-extractions interleave with it.                                      *)
ImplementsProductionSlot == Abs!ASpec

=============================================================================
