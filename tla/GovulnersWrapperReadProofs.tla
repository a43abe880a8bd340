--------------------- MODULE GovulnersWrapperReadProofs ---------------------
(***************************************************************************)
(* MetadataReadMatchesSnapshot for every set of threads, checksums and     *)
(* versions: _get_metadata_file_contents reads dir and version in two     *)
(* separate attribute reads, yet the file it opens is the one of the       *)
(* snapshot its method works on.  The argument rests on the lock: a counts *)
(* reader holds the read side, so no install runs and the slot it reads    *)
(* can only lose fields to the lock-free unstage; an update holds the      *)
(* write side while it reads back its own fields.                          *)
(***************************************************************************)
EXTENDS GovulnersWrapperProofs

USE ConstantsAssumption

(* The two sides of the lock keep excluding each other: a writer enters    *)
(* only with no reader, a reader only with no writer, and Finish only      *)
(* releases.                                                                *)
LEMMA ThreadLockExclusive ==
    ASSUME TypeOK, LockExclusive, NEW t \in Threads, Thread(t)
    PROVE  LockExclusive'
<1> USE DEF LockExclusive, lockVars
<1>1. CASE AcquireWrite(t) \/ AcquireRead(t)
  BY <1>1 DEF AcquireWrite, AcquireRead
<1>2. CASE TimeoutWrite(t) \/ update_govulners_db(t)
  BY <1>2 DEF TimeoutWrite, update_govulners_db
<1>3. CASE TimeoutRead(t) \/ QueryProduction(t) \/ ReadFile(t)
  BY <1>3 DEF TimeoutRead, QueryProduction, ReadFile, Finish
<1>4. CASE InstallArchive(t) \/ CountsSession(t) \/ ReadDir(t) \/ ReadVersion(t)
  BY <1>4 DEF InstallArchive, CountsSession, ReadDir, ReadVersion, Finish
<1>5. CASE unstage_govulners_db(t) \/ StartReader(t) \/ get_current_govulners_db_checksum(t)
  BY <1>5 DEF unstage_govulners_db, StartReader, get_current_govulners_db_checksum
<1>6. CASE SetDir(t) \/ SetVersion(t) \/ SetMaker(t)
  BY <1>6 DEF SetDir, SetVersion, SetMaker
<1>7. CASE UnstageDir(t) \/ UnstageVersion(t) \/ UnstageMaker(t)
  BY <1>7 DEF UnstageDir, UnstageVersion, UnstageMaker, ClearStagingField
<1>8. QED
  BY <1>1, <1>2, <1>3, <1>4, <1>5, <1>6, <1>7 DEF Thread, Step


(* Every step keeps each thread's pc within its own method.                *)
LEMMA ThreadMethodOps ==
    ASSUME TypeOK, MethodOps, NEW t \in Threads, Thread(t)
    PROVE  MethodOps'
<1> USE DEF MethodOps, TypeOK, InstallPCs, lockVars, stateVars
<1>1. CASE update_govulners_db(t) \/ unstage_govulners_db(t)
  <2>1. CASE update_govulners_db(t)
    <3>1. PICK sn \in Snapshots, stg \in UseStagingArgs, present \in BOOLEAN :
                 req' = [req EXCEPT ![t] = [op |-> "update", snap |-> sn,
                                            staging |-> stg, present |-> present]]
      BY <2>1 DEF update_govulners_db
    <3>2. QED
      BY <2>1, <3>1 DEF update_govulners_db
  <2>2. CASE unstage_govulners_db(t)
    BY <2>2 DEF unstage_govulners_db
  <2>3. QED
    BY <1>1, <2>1, <2>2
<1>2. CASE StartReader(t)
  BY <1>2 DEF StartReader
<1>3. CASE get_current_govulners_db_checksum(t) \/ AcquireWrite(t)
           \/ TimeoutWrite(t) \/ AcquireRead(t) \/ TimeoutRead(t)
  BY <1>3 DEF get_current_govulners_db_checksum, AcquireWrite, TimeoutWrite,
     AcquireRead, TimeoutRead, Finish
<1>4. CASE InstallArchive(t)
  BY <1>4 DEF InstallArchive, Finish
<1>5. CASE SetDir(t) \/ SetVersion(t) \/ SetMaker(t)
  BY <1>5 DEF SetDir, SetVersion, SetMaker, AssignField
<1>6. CASE UnstageDir(t) \/ UnstageVersion(t) \/ UnstageMaker(t)
  BY <1>6 DEF UnstageDir, UnstageVersion, UnstageMaker, ClearStagingField
<1>7. CASE QueryProduction(t) \/ CountsSession(t) \/ ReadDir(t)
           \/ ReadVersion(t) \/ ReadFile(t)
  BY <1>7 DEF QueryProduction, CountsSession, ReadDir, ReadVersion, ReadFile, Finish
<1>8. QED
  BY <1>1, <1>2, <1>3, <1>4, <1>5, <1>6, <1>7 DEF Thread, Step

(* A reader keeps the read side and an update reading back its metadata   *)
(* keeps the write side until the method returns: only Finish releases,   *)
(* and it releases the finishing thread's own side.                        *)
LEMMA ThreadReadersHoldLock ==
    ASSUME TypeOK, ReadersHoldLock, InstallExclusive, MethodOps,
           NEW t \in Threads, Thread(t)
    PROVE  ReadersHoldLock'
<1> USE DEF ReadersHoldLock, TypeOK, lockVars, stateVars, ReaderOps
<1>1. CASE update_govulners_db(t) \/ unstage_govulners_db(t) \/ StartReader(t)
  BY <1>1 DEF update_govulners_db, unstage_govulners_db, StartReader
<1>2. CASE get_current_govulners_db_checksum(t) \/ TimeoutWrite(t)
  BY <1>2 DEF get_current_govulners_db_checksum, TimeoutWrite
<1>3. CASE AcquireWrite(t)
  BY <1>3 DEF AcquireWrite
<1>4. CASE AcquireRead(t)
  BY <1>4 DEF AcquireRead
<1>5. CASE TimeoutRead(t) \/ QueryProduction(t) \/ ReadFile(t)
  BY <1>5 DEF TimeoutRead, QueryProduction, ReadFile, Finish
<1>6. CASE InstallArchive(t)
  BY <1>6 DEF InstallArchive, Finish
<1>7. CASE SetDir(t) \/ SetVersion(t)
  BY <1>7 DEF SetDir, SetVersion, AssignField
<1>8. CASE SetMaker(t)
  <2>1. req[t].op = "update" /\ writer = t
    BY <1>8 DEF SetMaker, InstallExclusive, MethodOps, InstallPCs
  <2>2. UNCHANGED <<readers, writer, req>> /\ pc' = [pc EXCEPT ![t] = "rd_dir"]
    BY <1>8 DEF SetMaker
  <2>3. QED
    BY <2>1, <2>2
<1>9. CASE UnstageDir(t) \/ UnstageVersion(t) \/ UnstageMaker(t)
  BY <1>9 DEF UnstageDir, UnstageVersion, UnstageMaker, ClearStagingField,
     MethodOps, ReaderOps
<1>10. CASE CountsSession(t)
  <2>1. req[t].op \in ReaderOps /\ t \in readers
    BY <1>10 DEF CountsSession, MethodOps
  <2>2. CASE ReadSlot(t).maker = NULL
    BY <1>10, <2>2 DEF CountsSession, Finish
  <2>3. CASE ReadSlot(t).maker # NULL
    BY <1>10, <2>1, <2>3 DEF CountsSession
  <2>4. QED
    BY <2>2, <2>3
<1>12. CASE ReadDir(t)
  BY <1>12 DEF ReadDir, Finish
<1>13. CASE ReadVersion(t)
  BY <1>13 DEF ReadVersion, Finish
<1>11. QED
  BY <1>1, <1>2, <1>3, <1>4, <1>5, <1>6, <1>7, <1>8, <1>9, <1>10, <1>12,
     <1>13 DEF Thread, Step


(* A step of t that is not a staging install between its assignments,    *)
(* before or after, moves no other thread and either leaves staging alone *)
(* or clears one of its fields keeps the staging conjuncts.                *)
LEMMA StagingFrame ==
    ASSUME TypeOK, StagingInFlight, StagingWhole, NEW t \in Threads,
           \A u \in Threads \ {t} : pc'[u] = pc[u] /\ req'[u] = req[u],
           ~(pc[t] \in {"u_version", "u_maker"} /\ req[t].staging),
           ~(pc'[t] \in {"u_version", "u_maker"} /\ req'[t].staging),
           NEW f \in {"dir", "version", "maker"},
           staging' = staging \/ staging' = [staging EXCEPT ![f] = NULL]
    PROVE  StagingInFlight' /\ StagingWhole'
<1>1. staging' \in Slots /\ staging'.dir \in {staging.dir, NULL}
      /\ staging'.version \in {staging.version, NULL}
      /\ staging'.maker \in {staging.maker, NULL}
  BY DEF TypeOK, Slots
<1>2. StagingInFlight'
  BY <1>1 DEF StagingInFlight
<1>3. StagingWhole'
  BY <1>1 DEF StagingWhole, Fits
<1>4. QED
  BY <1>2, <1>3

(* Every step keeps the staging slot's fields those of one snapshot, or   *)
(* None, outside the assignments of a staging install.                     *)
LEMMA ThreadStaging ==
    ASSUME IInv, StagingInFlight, StagingWhole, NEW t \in Threads, Thread(t)
    PROVE  StagingInFlight' /\ StagingWhole'
<1> USE DEF IInv, TypeOK, lockVars, stateVars
<1>1. CASE \/ update_govulners_db(t) \/ unstage_govulners_db(t) \/ StartReader(t)
           \/ get_current_govulners_db_checksum(t) \/ AcquireWrite(t)
           \/ TimeoutWrite(t) \/ AcquireRead(t) \/ TimeoutRead(t)
           \/ InstallArchive(t) \/ QueryProduction(t) \/ CountsSession(t)
           \/ ReadDir(t) \/ ReadVersion(t) \/ ReadFile(t)
  <2>1. /\ \A u \in Threads \ {t} : pc'[u] = pc[u] /\ req'[u] = req[u]
        /\ ~(pc[t] \in {"u_version", "u_maker"})
        /\ ~(pc'[t] \in {"u_version", "u_maker"})
        /\ staging' = staging
    BY <1>1 DEF update_govulners_db, unstage_govulners_db, StartReader,
       get_current_govulners_db_checksum, AcquireWrite, TimeoutWrite,
       AcquireRead, TimeoutRead, InstallArchive, QueryProduction,
       CountsSession, ReadDir, ReadVersion, ReadFile, Finish
  <2>2. QED
    BY <2>1, StagingFrame
<1>2. CASE UnstageDir(t) \/ UnstageVersion(t) \/ UnstageMaker(t)
  <2>1. PICK f \in {"dir", "version", "maker"} :
          /\ \A u \in Threads \ {t} : pc'[u] = pc[u] /\ req'[u] = req[u]
          /\ ~(pc[t] \in {"u_version", "u_maker"})
          /\ ~(pc'[t] \in {"u_version", "u_maker"})
          /\ staging' = [staging EXCEPT ![f] = NULL]
    BY <1>2 DEF UnstageDir, UnstageVersion, UnstageMaker, ClearStagingField
  <2>2. QED
    BY <2>1, StagingFrame
<1>3. CASE SetDir(t) \/ SetVersion(t) \/ SetMaker(t)
  <2>1. \A u \in Threads : u # t => pc[u] \notin InstallPCs
    BY <1>3, OnlyInstaller DEF SetDir, SetVersion, SetMaker, InstallPCs
  <2>2. /\ \A u \in Threads \ {t} : pc'[u] = pc[u] /\ req'[u] = req[u]
        /\ UNCHANGED req
    BY <1>3 DEF SetDir, SetVersion, SetMaker
  <2>3. CASE ~req[t].staging
    <3>1. staging' = staging /\ ~(pc[t] \in {"u_version", "u_maker"} /\ req[t].staging)
          /\ ~(pc'[t] \in {"u_version", "u_maker"} /\ req'[t].staging)
      BY <1>3, <2>2, <2>3 DEF SetDir, SetVersion, SetMaker, AssignField
    <3>2. QED
      BY <2>2, <3>1, StagingFrame
  <2>4. CASE req[t].staging /\ SetDir(t)
    <3>1. staging' = [staging EXCEPT !.dir = req[t].snap[1]] /\ pc'[t] = "u_version"
      BY <2>4 DEF SetDir, AssignField
    <3>2. StagingInFlight'
      BY <2>1, <2>2, <3>1 DEF StagingInFlight, InstallPCs
    <3>3. StagingWhole'
      BY <2>2, <2>4, <3>1 DEF StagingWhole
    <3>4. QED
      BY <3>2, <3>3
  <2>5. CASE req[t].staging /\ SetVersion(t)
    <3>1. staging' = [staging EXCEPT !.version = req[t].snap[2]] /\ pc'[t] = "u_maker"
      BY <2>5 DEF SetVersion, AssignField
    <3>2. staging.dir \in {req[t].snap[1], NULL}
      BY <2>5 DEF SetVersion, StagingInFlight
    <3>3. StagingInFlight'
      BY <2>1, <2>2, <3>1, <3>2 DEF StagingInFlight, InstallPCs
    <3>4. StagingWhole'
      BY <2>2, <2>5, <3>1 DEF StagingWhole
    <3>5. QED
      BY <3>3, <3>4
  <2>6. CASE req[t].staging /\ SetMaker(t)
    <3>1. staging.dir \in {req[t].snap[1], NULL} /\ staging.version \in {req[t].snap[2], NULL}
      BY <2>6 DEF SetMaker, StagingInFlight
    <3>2. staging' = [staging EXCEPT !.maker = req[t].snap]
      BY <2>6 DEF SetMaker, AssignField
    <3>3. StagingInFlight'
      BY <2>1, <2>2, <2>6 DEF SetMaker, StagingInFlight, InstallPCs
    <3>4. StagingWhole'
      BY <3>1, <3>2 DEF StagingWhole, Fits, Slots
    <3>5. QED
      BY <3>3, <3>4
  <2>7. QED
    BY <1>3, <2>3, <2>4, <2>5, <2>6
<1>4. QED
  BY <1>1, <1>2, <1>3 DEF Thread, Step


(* A step that leaves thread u where it is, with its arguments and what it *)
(* has read, and at most clears fields of the slot u reads, keeps u's read *)
(* fitting its snapshot.                                                   *)
LEMMA ReadFrame ==
    ASSUME NEW u \in Threads, ReadInFlight(u),
           pc'[u] = pc[u], req'[u] = req[u], obs'[u] = obs[u],
           ReadSlot(u)'.dir \in {ReadSlot(u).dir, NULL},
           ReadSlot(u)'.version \in {ReadSlot(u).version, NULL}
    PROVE  ReadInFlight(u)'
BY DEF ReadInFlight, ReadTarget, Fits

(* No install assigns a slot field while another thread reads metadata:   *)
(* the installer holds the write side, a counting reader the read side and *)
(* an updating reader the write side itself.                               *)
LEMMA NoInstallDuringRead ==
    ASSUME TypeOK, InstallExclusive, LockExclusive, ReadersHoldLock,
           NEW t \in Threads, NEW u \in Threads, u # t, pc[t] \in InstallPCs,
           req[u].op \in {"counts", "update"}, pc[u] \in {"rd_dir", "rd_version", "rd_file"}
    PROVE  FALSE
<1>1. writer = t
  BY DEF InstallExclusive
<1>2. CASE req[u].op = "counts"
  BY <1>1, <1>2 DEF ReadersHoldLock, LockExclusive, ReaderOps, TypeOK
<1>3. CASE req[u].op = "update"
  BY <1>1, <1>3 DEF ReadersHoldLock
<1>4. QED
  BY <1>2, <1>3

(* Another thread's step keeps the metadata read of u fitting its snapshot. *)
LEMMA OtherReadInFlight ==
    ASSUME MInv, NEW t \in Threads, Thread(t), NEW u \in Threads, u # t
    PROVE  ReadInFlight(u)'
<1> USE DEF MInv, IInv, TypeOK, lockVars, stateVars
<1>1. CASE SetDir(t) \/ SetVersion(t) \/ SetMaker(t)
  <2>1. pc'[u] = pc[u] /\ req'[u] = req[u]
    BY <1>1 DEF SetDir, SetVersion, SetMaker
  <2>2. ~(req[u].op \in {"counts", "update"} /\ pc[u] \in {"rd_dir", "rd_version", "rd_file"})
    BY <1>1, NoInstallDuringRead DEF SetDir, SetVersion, SetMaker, InstallPCs
  <2>3. QED
    BY <2>1, <2>2 DEF ReadInFlight
<1>2. CASE UnstageDir(t) \/ UnstageVersion(t) \/ UnstageMaker(t)
  <2>1. PICK f \in {"dir", "version", "maker"} :
          /\ pc'[u] = pc[u] /\ req'[u] = req[u] /\ obs'[u] = obs[u]
          /\ prod' = prod
          /\ staging' = [staging EXCEPT ![f] = NULL]
    BY <1>2 DEF UnstageDir, UnstageVersion, UnstageMaker, ClearStagingField
  <2>2. /\ ReadSlot(u)'.dir \in {ReadSlot(u).dir, NULL}
        /\ ReadSlot(u)'.version \in {ReadSlot(u).version, NULL}
    BY <2>1 DEF ReadSlot, Slots
  <2>3. QED
    BY <2>1, <2>2, ReadFrame DEF MetadataReadInFlight
<1>3. CASE \/ update_govulners_db(t) \/ unstage_govulners_db(t) \/ StartReader(t)
           \/ get_current_govulners_db_checksum(t) \/ AcquireWrite(t)
           \/ TimeoutWrite(t) \/ AcquireRead(t) \/ TimeoutRead(t)
           \/ InstallArchive(t) \/ QueryProduction(t) \/ CountsSession(t)
           \/ ReadDir(t) \/ ReadVersion(t) \/ ReadFile(t)
  <2>1. /\ pc'[u] = pc[u] /\ req'[u] = req[u] /\ obs'[u] = obs[u]
        /\ prod' = prod /\ staging' = staging
    BY <1>3 DEF update_govulners_db, unstage_govulners_db, StartReader,
       get_current_govulners_db_checksum, AcquireWrite, TimeoutWrite,
       AcquireRead, TimeoutRead, InstallArchive, QueryProduction,
       CountsSession, ReadDir, ReadVersion, ReadFile, Finish
  <2>2. QED
    BY <2>1, ReadFrame DEF MetadataReadInFlight, ReadSlot
<1>4. QED
  BY <1>1, <1>2, <1>3 DEF Thread, Step


(* A step of t that does not leave it reading the metadata of a counts or  *)
(* update call has nothing to keep.                                        *)
LEMMA NotReading ==
    ASSUME NEW t \in Threads,
           ~(req'[t].op \in {"counts", "update"} /\ pc'[t] \in {"rd_dir", "rd_version", "rd_file"})
    PROVE  ReadInFlight(t)'
BY DEF ReadInFlight

(* A thread's own step keeps its metadata read fitting its snapshot.       *)
LEMMA OwnReadInFlight ==
    ASSUME MInv, NEW t \in Threads, Thread(t)
    PROVE  ReadInFlight(t)'
<1> USE DEF MInv, IInv, TypeOK, lockVars, stateVars
<1>1. CASE \/ update_govulners_db(t) \/ unstage_govulners_db(t) \/ StartReader(t)
           \/ get_current_govulners_db_checksum(t) \/ AcquireWrite(t)
           \/ TimeoutWrite(t) \/ AcquireRead(t) \/ TimeoutRead(t)
           \/ InstallArchive(t) \/ QueryProduction(t) \/ ReadFile(t)
           \/ SetDir(t) \/ SetVersion(t) \/ UnstageDir(t) \/ UnstageVersion(t)
  <2>1. pc'[t] \notin {"rd_dir", "rd_version", "rd_file"}
    BY <1>1 DEF update_govulners_db, unstage_govulners_db, StartReader,
       get_current_govulners_db_checksum, AcquireWrite, TimeoutWrite,
       AcquireRead, TimeoutRead, InstallArchive, QueryProduction, ReadFile,
       SetDir, SetVersion, UnstageDir, UnstageVersion, ClearStagingField,
       Finish, PCs
  <2>2. QED
    BY <2>1, NotReading
<1>2. CASE UnstageMaker(t)
  <2>1. req'[t].op = "unstage"
    BY <1>2 DEF UnstageMaker, ClearStagingField, MethodOps
  <2>2. QED
    BY <2>1, NotReading
<1>3. CASE CountsSession(t) /\ ReadSlot(t).maker = NULL
  <2>1. pc'[t] = "idle"
    BY <1>3 DEF CountsSession, Finish
  <2>2. QED
    BY <2>1, NotReading
<1>4. CASE CountsSession(t) /\ ReadSlot(t).maker # NULL
  <2> DEFINE m == ReadSlot(t).maker
  <2> USE DEF m
  <2>1. req[t].op \in ReaderOps /\ t \in readers
    BY <1>4 DEF CountsSession, MethodOps, ReadersHoldLock
  <2>2. \A u \in Threads : pc[u] \notin InstallPCs
    BY <2>1 DEF LockExclusive, InstallExclusive
  <2>3. m \in Snapshots /\ Fits(ReadSlot(t), m)
    <3>1. CASE req[t].staging
      BY <1>4, <2>2, <3>1 DEF StagingWhole, ReadSlot, InstallPCs, Slots
    <3>2. CASE ~req[t].staging
      BY <1>4, <2>2, <3>2 DEF ProductionWhole, Consistent, EmptySlot, ReadSlot,
         InstallPCs, Fits
    <3>3. QED
      BY <3>1, <3>2
  <2>4. /\ obs' = [obs EXCEPT ![t].maker = m]
        /\ pc'[t] = "rd_dir"
        /\ UNCHANGED <<req, prod, staging>>
    BY <1>4 DEF CountsSession
  <2>5. QED
    BY <2>1, <2>3, <2>4 DEF ReadInFlight, ReadTarget, ReadSlot, Fits, ReaderOps
<1>5. CASE ReadDir(t) /\ ReadSlot(t).dir = NULL /\ ~req[t].staging
  BY <1>5, NotReading DEF ReadDir, Finish
<1>6. CASE ReadDir(t) /\ ~(ReadSlot(t).dir = NULL /\ ~req[t].staging)
  <2>1. /\ obs' = [obs EXCEPT ![t].dir = ReadSlot(t).dir]
        /\ pc'[t] = "rd_version"
        /\ UNCHANGED <<req, prod, staging>>
    BY <1>6 DEF ReadDir
  <2>2. ReadInFlight(t) /\ pc[t] = "rd_dir"
    BY <1>6 DEF ReadDir, MetadataReadInFlight
  <2>3. QED
    BY <2>1, <2>2 DEF ReadInFlight, ReadTarget, ReadSlot, Fits
<1>7. CASE ReadVersion(t) /\ (ReadSlot(t).version = NULL \/ obs[t].dir = NULL)
  BY <1>7, NotReading DEF ReadVersion, Finish
<1>8. CASE ReadVersion(t) /\ ~(ReadSlot(t).version = NULL \/ obs[t].dir = NULL)
  <2>1. /\ obs' = [obs EXCEPT ![t].version = ReadSlot(t).version]
        /\ pc'[t] = "rd_file"
        /\ UNCHANGED <<req, prod, staging>>
    BY <1>8 DEF ReadVersion
  <2>2. ReadInFlight(t) /\ pc[t] = "rd_version"
    BY <1>8 DEF ReadVersion, MetadataReadInFlight
  <2>3. QED
    BY <1>8, <2>1, <2>2 DEF ReadInFlight, ReadTarget, ReadSlot, Fits
<1>9. CASE SetMaker(t)
  <2>1. req[t].op = "update" /\ req[t].snap \in Snapshots
    BY <1>9 DEF SetMaker, MethodOps, InstallPCs, Requests
  <2>2. Fits(ReadSlot(t)', req[t].snap)
    <3>1. CASE req[t].staging
      <4>1. staging.dir \in {req[t].snap[1], NULL} /\ staging.version \in {req[t].snap[2], NULL}
        BY <1>9, <3>1 DEF SetMaker, StagingInFlight
      <4>2. staging' = [staging EXCEPT !.maker = req[t].snap] /\ UNCHANGED req
        BY <1>9, <3>1 DEF SetMaker, AssignField
      <4>3. QED
        BY <3>1, <4>1, <4>2 DEF ReadSlot, Fits
    <3>2. CASE ~req[t].staging
      <4>1. prod.dir = req[t].snap[1] /\ prod.version = req[t].snap[2]
        BY <1>9, <3>2 DEF SetMaker, ProductionInFlight
      <4>2. prod' = [prod EXCEPT !.maker = req[t].snap] /\ UNCHANGED req
        BY <1>9, <3>2 DEF SetMaker, AssignField
      <4>3. QED
        BY <3>2, <4>1, <4>2 DEF ReadSlot, Fits
    <3>3. QED
      BY <3>1, <3>2
  <2>3. pc'[t] = "rd_dir" /\ UNCHANGED req
    BY <1>9 DEF SetMaker
  <2>4. QED
    BY <2>1, <2>2, <2>3 DEF ReadInFlight, ReadTarget
<1>10. QED
  BY <1>1, <1>2, <1>3, <1>4, <1>5, <1>6, <1>7, <1>8, <1>9 DEF Thread, Step


(* A step of any thread keeps MInv. *)
LEMMA ThreadMInv ==
    ASSUME MInv, NEW t \in Threads, Thread(t)
    PROVE  MInv'
<1>1. IInv'
  BY ThreadIInv DEF MInv
<1>2. TypeOK'
  BY <1>1 DEF IInv
<1>3. LockExclusive' /\ MethodOps' /\ ReadersHoldLock'
  BY ThreadLockExclusive, ThreadMethodOps, ThreadReadersHoldLock DEF MInv, IInv
<1>4. StagingInFlight' /\ StagingWhole'
  BY ThreadStaging DEF MInv
<1>5. MetadataReadInFlight'
  <2> SUFFICES ASSUME NEW u \in Threads PROVE ReadInFlight(u)'
    BY DEF MetadataReadInFlight
  <2>1. CASE u = t
    BY <2>1, OwnReadInFlight
  <2>2. CASE u # t
    BY <2>2, OtherReadInFlight
  <2>3. QED
    BY <2>1, <2>2
<1>6. QED
  BY <1>1, <1>3, <1>4, <1>5 DEF MInv

(* MInv holds initially. *)
LEMMA InitMInv == Init => MInv
<1> SUFFICES ASSUME Init PROVE MInv
  OBVIOUS
<1>1. IInv
  BY InitIInv
<1>2. \A t \in Threads : pc[t] = "idle"
  BY DEF Init
<1>3. staging = EmptySlot /\ readers = {} /\ writer = NULL
  BY DEF Init
<1>4. QED
  BY <1>1, <1>2, <1>3 DEF MInv, LockExclusive, StagingInFlight, StagingWhole,
     ReadersHoldLock, MethodOps, MetadataReadInFlight, ReadInFlight, InstallPCs,
     EmptySlot

(* Every step of every thread keeps MInv. *)
LEMMA NextMInv == MInv /\ [Next]_vars => MInv'
<1> SUFFICES ASSUME MInv, [Next]_vars PROVE MInv'
  OBVIOUS
<1>1. CASE Next
  BY <1>1, ThreadMInv DEF Next
<1>2. CASE UNCHANGED vars
  BY <1>2 DEF vars, MInv, IInv, TypeOK, InstallExclusive, ProductionInFlight,
     ProductionWhole, LockExclusive, StagingInFlight, StagingWhole,
     ReadersHoldLock, MethodOps, MetadataReadInFlight, ReadInFlight,
     ReadTarget, ReadSlot, Fits
<1>3. QED
  BY <1>1, <1>2

(* MInv's last conjunct, at the file read, is the property itself. *)
LEMMA MInvMatches == MInv => MetadataReadMatchesSnapshot
<1> SUFFICES ASSUME MInv, NEW t \in Threads, pc[t] = "rd_file"
             PROVE  /\ req[t].op = "counts" => obs[t].maker = <<obs[t].dir, obs[t].version>>
                    /\ req[t].op = "update" => req[t].snap = <<obs[t].dir, obs[t].version>>
  BY DEF MetadataReadMatchesSnapshot
<1>1. CASE req[t].op = "counts"
  <2>1. obs[t].maker \in Snapshots /\ obs[t].dir = obs[t].maker[1]
        /\ obs[t].version = obs[t].maker[2]
    BY <1>1 DEF MInv, MetadataReadInFlight, ReadInFlight, ReadTarget
  <2>2. QED
    BY <1>1, <2>1 DEF Snapshots
<1>2. CASE req[t].op = "update"
  <2>1. req[t].snap \in Snapshots /\ obs[t].dir = req[t].snap[1]
        /\ obs[t].version = req[t].snap[2]
    BY <1>2 DEF MInv, MetadataReadInFlight, ReadInFlight, ReadTarget
  <2>2. QED
    BY <1>2, <2>1 DEF Snapshots
<1>3. QED
  BY <1>1, <1>2

(* Every metadata file that query_record_source_counts or                 *)
(* update_govulners_db reads is that of the snapshot the call works on,    *)
(* for any number of threads, checksums and versions, although dir and     *)
(* version are read in separate steps while installs and unstage run.      *)
THEOREM MetadataReadCorrect == Spec => []MetadataReadMatchesSnapshot
<1>1. Init => MInv
  BY InitMInv
<1>2. MInv /\ [Next]_vars => MInv'
  BY NextMInv
<1>3. MInv => MetadataReadMatchesSnapshot
  BY MInvMatches
<1>4. QED
  BY <1>1, <1>2, <1>3, PTL DEF Spec

=============================================================================
