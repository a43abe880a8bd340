----------------------- MODULE GovulnersWrapperProofs -----------------------
(***************************************************************************)
(* Proofs about the database lifecycle manager of GovulnersWrapper, for    *)
(* every set of threads, checksums and versions.                           *)
(***************************************************************************)
EXTENDS GovulnersWrapper, TLAPS

USE ConstantsAssumption

(* The argument record of an idle thread is a well-formed request.        *)
LEMMA NoRequestType == NoRequest \in Requests
<1>1. \E s \in Snapshots : TRUE
  <2>1. PICK c \in Checksums, v \in Versions : TRUE
    OBVIOUS
  <2>2. <<c, v>> \in Snapshots
    BY DEF Snapshots
  <2>3. QED
    BY <2>2
<1>2. (CHOOSE s \in Snapshots : TRUE) \in Snapshots
  BY <1>1
<1>3. QED
  BY <1>2 DEF NoRequest, Requests, Ops

(* Changing the method and use_staging flag of a request keeps it a request. *)
LEMMA RequestUpdate ==
    ASSUME NEW r \in Requests, NEW o \in Ops, NEW b \in BOOLEAN
    PROVE  [r EXCEPT !.op = o, !.staging = b] \in Requests
<1>1. r = [op |-> r.op, snap |-> r.snap, staging |-> r.staging, present |-> r.present]
  BY DEF Requests
<1>2. QED
  BY <1>1 DEF Requests

(* Storing a value of a field's type into one field of a slot keeps it a slot. *)
LEMMA SlotUpdate ==
    ASSUME NEW sl \in Slots, NEW f \in {"dir", "version", "maker"}, NEW v,
           f = "dir" => v \in Checksums \cup {NULL},
           f = "version" => v \in Versions \cup {NULL},
           f = "maker" => v \in Snapshots \cup {NULL}
    PROVE  [sl EXCEPT ![f] = v] \in Slots
<1>1. sl = [dir |-> sl.dir, version |-> sl.version, maker |-> sl.maker]
  BY DEF Slots
<1>2. QED
  BY <1>1 DEF Slots

(* Leaving a method (Finish) keeps every variable in its type.            *)
LEMMA FinishTypeOK ==
    ASSUME TypeOK, NEW t \in Threads, Finish(t), UNCHANGED stateVars
    PROVE  TypeOK'
  BY NoRequestType DEF TypeOK, Finish, stateVars, EmptySlot, Slots, PCs

(* Every step of a thread keeps every variable in its type: the slot      *)
(* fields only ever hold an argument of update_govulners_db or None.      *)
LEMMA ThreadTypeOK ==
    ASSUME TypeOK, NEW t \in Threads, Thread(t)
    PROVE  TypeOK'
<1> USE DEF TypeOK, lockVars, stateVars, PCs, Ops, Returns
<1>1. CASE update_govulners_db(t)
  <2>1. PICK sn \in Snapshots, stg \in UseStagingArgs, present \in BOOLEAN :
               req' = [req EXCEPT ![t] = [op |-> "update", snap |-> sn,
                                          staging |-> stg, present |-> present]]
    BY <1>1 DEF update_govulners_db
  <2>2. [op |-> "update", snap |-> sn, staging |-> stg, present |-> present] \in Requests
    BY DEF Requests, UseStagingArgs
  <2>3. QED
    BY <1>1, <2>1, <2>2 DEF update_govulners_db
<1>2. CASE unstage_govulners_db(t)
  <2>1. [req[t] EXCEPT !.op = "unstage", !.staging = FALSE] \in Requests
    BY RequestUpdate
  <2>2. QED
    BY <1>2, <2>1 DEF unstage_govulners_db
<1>3. CASE StartReader(t)
  <2>1. PICK op \in ReaderOps, stg \in UseStagingArgs :
               req' = [req EXCEPT ![t] = [req[t] EXCEPT !.op = op, !.staging = stg]]
    BY <1>3 DEF StartReader
  <2>2. [req[t] EXCEPT !.op = op, !.staging = stg] \in Requests
    BY RequestUpdate DEF ReaderOps, UseStagingArgs
  <2>3. QED
    BY <1>3, <2>1, <2>2 DEF StartReader
<1>4. CASE get_current_govulners_db_checksum(t)
  BY <1>4 DEF get_current_govulners_db_checksum, Returns
<1>5. CASE AcquireWrite(t)
  BY <1>5 DEF AcquireWrite
<1>6. CASE TimeoutWrite(t)
  BY <1>6, NoRequestType DEF TimeoutWrite
<1>7. CASE AcquireRead(t)
  BY <1>7 DEF AcquireRead
<1>8. CASE TimeoutRead(t)
  BY <1>8, FinishTypeOK DEF TimeoutRead
<1>9. CASE InstallArchive(t)
  <2>1. CASE ~req[t].present /\ Finish(t) /\ UNCHANGED stateVars
    BY <2>1, FinishTypeOK
  <2>2. CASE req[t].present /\ disk' = [disk EXCEPT ![req[t].snap] = "partial"]
             /\ Finish(t) /\ UNCHANGED <<prod, staging, engineMeta>>
    <3>1. disk' \in [Snapshots -> DiskStatus]
      BY <2>2 DEF DiskStatus
    <3>2. QED
      BY <2>2, <3>1, NoRequestType DEF Finish, EmptySlot, Slots
  <2>3. CASE req[t].present /\ disk' = [disk EXCEPT ![req[t].snap] = "complete"]
             /\ engineMeta' = [engineMeta EXCEPT ![req[t].snap] = TRUE]
             /\ pc' = [pc EXCEPT ![t] = "u_dir"]
             /\ UNCHANGED <<prod, staging, lockVars, req, obs, ret>>
    BY <2>3 DEF DiskStatus
  <2>4. QED
    BY <1>9, <2>1, <2>2, <2>3 DEF InstallArchive
<1>10. CASE SetDir(t)
  <2>1. req[t].snap[1] \in Checksums
    BY DEF Requests, Snapshots
  <2>2. /\ [prod EXCEPT !["dir"] = req[t].snap[1]] \in Slots
        /\ [staging EXCEPT !["dir"] = req[t].snap[1]] \in Slots
    BY <2>1, SlotUpdate
  <2>3. QED
    BY <1>10, <2>2 DEF SetDir, AssignField
<1>11. CASE SetVersion(t)
  <2>1. req[t].snap[2] \in Versions
    BY DEF Requests, Snapshots
  <2>2. /\ [prod EXCEPT !["version"] = req[t].snap[2]] \in Slots
        /\ [staging EXCEPT !["version"] = req[t].snap[2]] \in Slots
    BY <2>1, SlotUpdate
  <2>3. QED
    BY <1>11, <2>2 DEF SetVersion, AssignField
<1>12. CASE SetMaker(t)
  <2>1. req[t].snap \in Snapshots
    BY DEF Requests, Snapshots
  <2>2. /\ [prod EXCEPT !["maker"] = req[t].snap] \in Slots
        /\ [staging EXCEPT !["maker"] = req[t].snap] \in Slots
    BY <2>1, SlotUpdate
  <2>3. QED
    BY <1>12, <2>2 DEF SetMaker, AssignField
<1>13. CASE UnstageDir(t) \/ UnstageVersion(t) \/ UnstageMaker(t)
  BY <1>13 DEF UnstageDir, UnstageVersion, UnstageMaker, ClearStagingField, Slots
<1>14. CASE QueryProduction(t) \/ ReadFile(t)
  BY <1>14, FinishTypeOK DEF QueryProduction, ReadFile
<1>15. CASE CountsSession(t)
  <2>1. CASE ReadSlot(t).maker = NULL
    <3>1. Finish(t) /\ UNCHANGED stateVars
      BY <1>15, <2>1 DEF CountsSession
    <3>2. QED
      BY <3>1, FinishTypeOK
  <2>2. CASE ReadSlot(t).maker # NULL
    <3>1. ReadSlot(t).maker \in Snapshots
      BY <2>2 DEF ReadSlot, Slots
    <3>2. [obs[t] EXCEPT !.maker = ReadSlot(t).maker] \in Slots
      BY <3>1, SlotUpdate
    <3>3. QED
      BY <1>15, <2>2, <3>2 DEF CountsSession
  <2>3. QED
    BY <2>1, <2>2
<1>16. CASE ReadDir(t)
  <2>1. ReadSlot(t).dir \in Checksums \cup {NULL}
    BY DEF ReadSlot, Slots
  <2>2. CASE ReadSlot(t).dir = NULL /\ ~req[t].staging
    <3>1. Finish(t) /\ UNCHANGED stateVars
      BY <1>16, <2>2 DEF ReadDir
    <3>2. QED
      BY <3>1, FinishTypeOK
  <2>3. CASE ~(ReadSlot(t).dir = NULL /\ ~req[t].staging)
    <3>1. [obs[t] EXCEPT !.dir = ReadSlot(t).dir] \in Slots
      BY <2>1, SlotUpdate
    <3>2. QED
      BY <1>16, <2>3, <3>1 DEF ReadDir
  <2>4. QED
    BY <2>2, <2>3
<1>17. CASE ReadVersion(t)
  <2>1. ReadSlot(t).version \in Versions \cup {NULL}
    BY DEF ReadSlot, Slots
  <2>2. CASE ReadSlot(t).version = NULL \/ obs[t].dir = NULL
    <3>1. Finish(t) /\ UNCHANGED stateVars
      BY <1>17, <2>2 DEF ReadVersion
    <3>2. QED
      BY <3>1, FinishTypeOK
  <2>3. CASE ~(ReadSlot(t).version = NULL \/ obs[t].dir = NULL)
    <3>1. [obs[t] EXCEPT !.version = ReadSlot(t).version] \in Slots
      BY <2>1, SlotUpdate
    <3>2. QED
      BY <1>17, <2>3, <3>1 DEF ReadVersion
  <2>4. QED
    BY <2>2, <2>3
<1>18. QED
  BY <1>1, <1>2, <1>3, <1>4, <1>5, <1>6, <1>7, <1>8, <1>9, <1>10, <1>11,
     <1>12, <1>13, <1>14, <1>15, <1>16, <1>17 DEF Thread, Step

(* Type correctness: every reachable state has well-typed slots, lock,    *)
(* disk and per-thread state.                                              *)
(* The initial state is well typed.                                       *)
LEMMA InitTypeOK == Init => TypeOK
  BY NoRequestType DEF Init, TypeOK, EmptySlot, Slots, PCs, DiskStatus, Returns

(* Every state the wrapper's threads reach is well typed, for any number
   of threads, checksums and versions. *)
THEOREM TypeCorrect == Spec => []TypeOK
<1>1. Init => TypeOK
  BY InitTypeOK
<1>2. TypeOK /\ [Next]_vars => TypeOK'
  <2> SUFFICES ASSUME TypeOK, [Next]_vars PROVE TypeOK'
    OBVIOUS
  <2>1. CASE Next
    BY <2>1, ThreadTypeOK DEF Next
  <2>2. CASE UNCHANGED vars
    BY <2>2 DEF vars, TypeOK
  <2>3. QED
    BY <2>1, <2>2
<1>3. QED
  BY <1>1, <1>2, PTL DEF Spec

-----------------------------------------------------------------------------
(***************************************************************************)
(* The production slot is never torn.  The three assignments of           *)
(* update_govulners_db are separate statements, so ProductionConsistent   *)
(* is not inductive: it says nothing of a writer between its assignments. *)
(* IInv adds that only the write-lock holder is in the install            *)
(* (InstallExclusive), what a production install part way through its     *)
(* assignments has stored (ProductionInFlight), and that the slot is      *)
(* whole when no such install is under way (ProductionWhole).              *)
(***************************************************************************)
LEMMA InitIInv == Init => IInv
  BY InitTypeOK DEF Init, IInv, InstallExclusive, ProductionInFlight,
     ProductionWhole, Consistent, InstallPCs

(* Leaving a method from any step but the last two assignments keeps IInv. *)
LEMMA FinishIInv ==
    ASSUME IInv, NEW t \in Threads, Finish(t), UNCHANGED stateVars,
           pc[t] \notin {"u_version", "u_maker"}
    PROVE  IInv'
<1>1. TypeOK'
  BY FinishTypeOK DEF IInv
<1>2. QED
  BY <1>1 DEF IInv, Finish, stateVars, InstallExclusive, ProductionInFlight,
     ProductionWhole, InstallPCs, TypeOK

(* A thread inside the install is the only one there.                     *)
LEMMA OnlyInstaller ==
    ASSUME IInv, NEW t \in Threads, pc[t] \in InstallPCs
    PROVE  \A u \in Threads : u # t => pc[u] \notin InstallPCs
  BY DEF IInv, InstallExclusive

(* Every step of a thread keeps IInv.                                      *)
LEMMA ThreadIInv ==
    ASSUME IInv, NEW t \in Threads, Thread(t)
    PROVE  IInv'
<1> USE DEF IInv, InstallExclusive, ProductionInFlight, ProductionWhole,
            InstallPCs, lockVars, stateVars
<1>1. TypeOK'
  BY ThreadTypeOK
<1>2. CASE update_govulners_db(t)
  BY <1>1, <1>2 DEF update_govulners_db, TypeOK
<1>12. CASE unstage_govulners_db(t)
  BY <1>1, <1>12 DEF unstage_govulners_db, TypeOK
<1>13. CASE StartReader(t)
  BY <1>1, <1>13 DEF StartReader, TypeOK
<1>14. CASE get_current_govulners_db_checksum(t)
  BY <1>1, <1>14 DEF get_current_govulners_db_checksum, TypeOK
<1>3. CASE AcquireWrite(t) \/ TimeoutWrite(t) \/ AcquireRead(t)
  BY <1>1, <1>3 DEF AcquireWrite, TimeoutWrite, AcquireRead, TypeOK
<1>4. CASE TimeoutRead(t) \/ QueryProduction(t) \/ ReadFile(t)
  BY <1>4, FinishIInv DEF TimeoutRead, QueryProduction, ReadFile
<1>5. CASE InstallArchive(t)
  <2>1. CASE ~req[t].present /\ Finish(t) /\ UNCHANGED stateVars
    BY <1>5, <2>1, FinishIInv DEF InstallArchive
  <2>2. CASE req[t].present /\ disk' = [disk EXCEPT ![req[t].snap] = "partial"]
             /\ Finish(t) /\ UNCHANGED <<prod, staging, engineMeta>>
    BY <1>1, <1>5, <2>2 DEF InstallArchive, Finish, TypeOK
  <2>3. CASE req[t].present /\ disk' = [disk EXCEPT ![req[t].snap] = "complete"]
             /\ engineMeta' = [engineMeta EXCEPT ![req[t].snap] = TRUE]
             /\ pc' = [pc EXCEPT ![t] = "u_dir"]
             /\ UNCHANGED <<prod, staging, lockVars, req, obs, ret>>
    BY <1>1, <1>5, <2>3 DEF InstallArchive, TypeOK
  <2>4. QED
    BY <1>5, <2>1, <2>2, <2>3 DEF InstallArchive
<1>6. CASE SetDir(t)
  <2>1. \A u \in Threads : u # t => pc[u] \notin InstallPCs
    BY <1>6, OnlyInstaller DEF SetDir
  <2>2. InstallExclusive'
    BY <1>6 DEF SetDir, AssignField, TypeOK
  <2>3. CASE ~req[t].staging
    <3>1. ProductionInFlight'
      BY <1>6, <2>1, <2>3 DEF SetDir, AssignField, TypeOK, Slots
    <3>2. ProductionWhole'
      BY <1>6, <2>1, <2>3 DEF SetDir, AssignField, TypeOK, Consistent, Requests
    <3>3. QED
      BY <1>1, <2>2, <3>1, <3>2
  <2>4. CASE req[t].staging
    <3>2. Consistent(prod)
      BY <1>6, <2>1, <2>4 DEF SetDir
    <3>3. ProductionInFlight' /\ ProductionWhole'
      BY <1>6, <2>1, <2>4, <3>2 DEF SetDir, AssignField, TypeOK
    <3>4. QED
      BY <1>1, <2>2, <3>3
  <2>5. QED
    BY <2>3, <2>4
<1>7. CASE SetVersion(t)
  <2>1. \A u \in Threads : u # t => pc[u] \notin InstallPCs
    BY <1>7, OnlyInstaller DEF SetVersion
  <2>2. InstallExclusive'
    BY <1>7 DEF SetVersion, AssignField, TypeOK
  <2>3. CASE ~req[t].staging
    <3>1. ProductionInFlight'
      BY <1>7, <2>1, <2>3 DEF SetVersion, AssignField, TypeOK, Slots
    <3>2. ProductionWhole'
      BY <1>7, <2>1, <2>3 DEF SetVersion, AssignField, TypeOK, Consistent, Requests
    <3>3. QED
      BY <1>1, <2>2, <3>1, <3>2
  <2>4. CASE req[t].staging
    <3>2. Consistent(prod)
      BY <1>7, <2>1, <2>4 DEF SetVersion
    <3>3. ProductionInFlight' /\ ProductionWhole'
      BY <1>7, <2>1, <2>4, <3>2 DEF SetVersion, AssignField, TypeOK
    <3>4. QED
      BY <1>1, <2>2, <3>3
  <2>5. QED
    BY <2>3, <2>4
<1>8. CASE SetMaker(t)
  <2>1. \A u \in Threads : u # t => pc[u] \notin InstallPCs
    BY <1>8, OnlyInstaller DEF SetMaker
  <2>2. InstallExclusive'
    BY <1>8 DEF SetMaker, AssignField, TypeOK
  <2>3. CASE ~req[t].staging
    <3>1. ProductionInFlight'
      BY <1>8, <2>1, <2>3 DEF SetMaker, AssignField, TypeOK
    <3>2. ProductionWhole'
      BY <1>8, <2>1, <2>3 DEF SetMaker, AssignField, TypeOK, Consistent, Requests, Slots, Snapshots
    <3>3. QED
      BY <1>1, <2>2, <3>1, <3>2
  <2>4. CASE req[t].staging
    <3>2. Consistent(prod)
      BY <1>8, <2>1, <2>4 DEF SetMaker
    <3>3. ProductionInFlight' /\ ProductionWhole'
      BY <1>8, <2>1, <2>4, <3>2 DEF SetMaker, AssignField, TypeOK
    <3>4. QED
      BY <1>1, <2>2, <3>3
  <2>5. QED
    BY <2>3, <2>4
<1>9. CASE UnstageDir(t) \/ UnstageVersion(t) \/ UnstageMaker(t)
  BY <1>1, <1>9 DEF UnstageDir, UnstageVersion, UnstageMaker,
     ClearStagingField, TypeOK
<1>10. CASE CountsSession(t) \/ ReadDir(t) \/ ReadVersion(t)
  <2>1. CASE \/ CountsSession(t) /\ ReadSlot(t).maker = NULL
             \/ ReadDir(t) /\ ReadSlot(t).dir = NULL /\ ~req[t].staging
             \/ ReadVersion(t) /\ (ReadSlot(t).version = NULL \/ obs[t].dir = NULL)
    <3>1. Finish(t) /\ UNCHANGED stateVars /\ pc[t] \notin {"u_version", "u_maker"}
      BY <2>1 DEF CountsSession, ReadDir, ReadVersion
    <3>2. QED
      BY <3>1, FinishIInv
  <2>2. CASE ~(\/ CountsSession(t) /\ ReadSlot(t).maker = NULL
               \/ ReadDir(t) /\ ReadSlot(t).dir = NULL /\ ~req[t].staging
               \/ ReadVersion(t) /\ (ReadSlot(t).version = NULL \/ obs[t].dir = NULL))
    BY <1>1, <1>10, <2>2 DEF CountsSession, ReadDir, ReadVersion, TypeOK
  <2>3. QED
    BY <2>1, <2>2
<1>11. QED
  BY <1>2, <1>3, <1>4, <1>5, <1>6, <1>7, <1>8, <1>9, <1>10, <1>12, <1>13,
     <1>14 DEF Thread, Step

(* The production slot, outside the assignments of an update holding the  *)
(* write lock, holds the dir, version and session maker of one snapshot,  *)
(* for any number of threads, checksums and versions.                      *)
THEOREM ProductionNeverTorn == Spec => []ProductionConsistent
<1>1. IInv /\ [Next]_vars => IInv'
  <2> SUFFICES ASSUME IInv, [Next]_vars PROVE IInv'
    OBVIOUS
  <2>1. CASE Next
    BY <2>1, ThreadIInv DEF Next
  <2>2. CASE UNCHANGED vars
    BY <2>2 DEF vars, IInv, TypeOK, InstallExclusive, ProductionInFlight,
       ProductionWhole, Consistent
  <2>3. QED
    BY <2>1, <2>2
<1>2. IInv => ProductionConsistent
  BY DEF IInv, InstallExclusive, ProductionWhole, ProductionConsistent,
     InstallPCs, TypeOK
<1>3. QED
  BY InitIInv, <1>1, <1>2, PTL DEF Spec

-----------------------------------------------------------------------------
(***************************************************************************)
(* GovulnersWrapper implements ProductionSlot under the mapping AbsSlot,   *)
(* AbsReady.  The invariant is IInv strengthened by InstalledComplete: a   *)
(* production install reaching _govulners_db_dir_internal has extracted    *)
(* its snapshot completely, and, holding the write lock, is the only      *)
(* thread that changes the disk, so the snapshot is still complete when    *)
(* the dir attribute is assigned (the abstract Promote needs s \in ready). *)
(***************************************************************************)
LEMMA NextIInv == IInv /\ [Next]_vars => IInv'
<1> SUFFICES ASSUME IInv, [Next]_vars PROVE IInv'
  OBVIOUS
<1>1. CASE Next
  BY <1>1, ThreadIInv DEF Next
<1>2. CASE UNCHANGED vars
  BY <1>2 DEF vars, IInv, TypeOK, InstallExclusive, ProductionInFlight,
     ProductionWhole, Consistent
<1>3. QED
  BY <1>1, <1>2

(* A step of t that moves no thread into or out of the last two           *)
(* assignments of a production install, and leaves the production slot    *)
(* alone, leaves the abstract slot alone.                                  *)
LEMMA FrameSlot ==
    ASSUME TypeOK, NEW t \in Threads,
           \A u \in Threads \ {t} : pc'[u] = pc[u] /\ req'[u] = req[u],
           t \notin ProductionInstallers, t \notin ProductionInstallers',
           prod' = prod
    PROVE  AbsSlot' = AbsSlot
<1>1. ProductionInstallers' = ProductionInstallers
  BY DEF ProductionInstallers
<1>2. AbsSlot' = AbsSlot
  <2>1. CASE ProductionInstallers = {}
    BY <1>1, <2>1 DEF AbsSlot
  <2>2. CASE ProductionInstallers # {}
    <3>1. PICK c \in ProductionInstallers : c = CHOOSE u \in ProductionInstallers : TRUE
      BY <2>2
    <3>2. c = CHOOSE u \in ProductionInstallers' : TRUE
      BY <1>1, <3>1
    <3>3. c \in Threads \ {t}
      BY <3>1 DEF ProductionInstallers
    <3>4. QED
      BY <1>1, <2>2, <3>1, <3>2, <3>3 DEF AbsSlot
  <2>3. QED
    BY <2>1, <2>2
<1>3. QED
  BY <1>2

(* Every step of a thread keeps its install's snapshot complete.           *)
LEMMA ThreadInstalledComplete ==
    ASSUME IInv, InstalledComplete, NEW t \in Threads, Thread(t)
    PROVE  InstalledComplete'
<1> USE DEF InstalledComplete, IInv, TypeOK, lockVars, stateVars
<1> DEFINE Past == {"u_dir", "u_version", "u_maker"}
<1>1. CASE InstallArchive(t)
  <2>1. \A u \in Threads : u # t => pc[u] \notin InstallPCs
    BY <1>1, OnlyInstaller DEF InstallArchive, InstallPCs
  <2>2. CASE pc' = [pc EXCEPT ![t] = "idle"] /\ req' = [req EXCEPT ![t] = NoRequest]
    BY <2>1, <2>2 DEF InstallPCs
  <2>3. CASE disk' = [disk EXCEPT ![req[t].snap] = "complete"]
             /\ pc' = [pc EXCEPT ![t] = "u_dir"] /\ UNCHANGED req
    BY <2>1, <2>3 DEF InstallPCs, Requests
  <2>4. QED
    BY <1>1, <2>2, <2>3 DEF InstallArchive, Finish
<1>2. CASE update_govulners_db(t) \/ unstage_govulners_db(t) \/ StartReader(t)
  BY <1>2 DEF update_govulners_db, unstage_govulners_db, StartReader
<1>3. CASE get_current_govulners_db_checksum(t) \/ AcquireWrite(t)
           \/ TimeoutWrite(t) \/ AcquireRead(t) \/ TimeoutRead(t)
  BY <1>3 DEF get_current_govulners_db_checksum, AcquireWrite, TimeoutWrite,
     AcquireRead, TimeoutRead, Finish
<1>4. CASE SetDir(t) \/ SetVersion(t) \/ SetMaker(t)
  BY <1>4 DEF SetDir, SetVersion, SetMaker, AssignField
<1>5. CASE UnstageDir(t) \/ UnstageVersion(t) \/ UnstageMaker(t)
  BY <1>5 DEF UnstageDir, UnstageVersion, UnstageMaker, ClearStagingField
<1>6. CASE QueryProduction(t) \/ CountsSession(t) \/ ReadDir(t)
           \/ ReadVersion(t) \/ ReadFile(t)
  BY <1>6 DEF QueryProduction, CountsSession, ReadDir, ReadVersion, ReadFile, Finish
<1>7. QED
  BY <1>1, <1>2, <1>3, <1>4, <1>5, <1>6 DEF Thread, Step


(* The steps that are stutters of ProductionSlot: they leave the disk and  *)
(* the production slot alone and move no thread into or out of the last   *)
(* two assignments of a production install.                                *)
LEMMA OtherStepsStutter ==
    ASSUME TypeOK, NEW t \in Threads,
           \/ update_govulners_db(t) \/ unstage_govulners_db(t) \/ StartReader(t)
           \/ get_current_govulners_db_checksum(t) \/ AcquireWrite(t)
           \/ TimeoutWrite(t) \/ AcquireRead(t) \/ TimeoutRead(t)
           \/ UnstageDir(t) \/ UnstageVersion(t) \/ UnstageMaker(t)
           \/ QueryProduction(t) \/ CountsSession(t) \/ ReadDir(t)
           \/ ReadVersion(t) \/ ReadFile(t)
    PROVE  UNCHANGED <<AbsSlot, AbsReady>>
<1> USE DEF TypeOK, lockVars, stateVars
<1>1. /\ \A u \in Threads \ {t} : pc'[u] = pc[u] /\ req'[u] = req[u]
      /\ t \notin ProductionInstallers /\ t \notin ProductionInstallers'
      /\ prod' = prod /\ disk' = disk
  BY DEF update_govulners_db, unstage_govulners_db, StartReader,
     get_current_govulners_db_checksum, AcquireWrite, TimeoutWrite,
     AcquireRead, TimeoutRead, UnstageDir, UnstageVersion, UnstageMaker,
     ClearStagingField, QueryProduction, CountsSession, ReadDir, ReadVersion,
     ReadFile, Finish, ProductionInstallers
<1>2. AbsSlot' = AbsSlot
  BY <1>1, FrameSlot
<1>3. QED
  BY <1>1, <1>2 DEF AbsReady

(* Every step of a thread is a step or a stutter of ProductionSlot: the    *)
(* extraction is an Extract or a Damage of its snapshot, the production    *)
(* _govulners_db_dir_internal assignment is the Promote, the rest stutter. *)
LEMMA ThreadRefines ==
    ASSUME RInv, NEW t \in Threads, Thread(t)
    PROVE  Abs!ANext \/ UNCHANGED <<AbsSlot, AbsReady>>
<1> USE DEF RInv, IInv, TypeOK, lockVars, stateVars
<1> DEFINE s == req[t].snap
<1>0. s \in Snapshots
  BY DEF Requests
<1>1. CASE InstallArchive(t)
  <2>1. \A u \in Threads \ {t} : pc'[u] = pc[u] /\ req'[u] = req[u]
    BY <1>1 DEF InstallArchive, Finish
  <2>2. t \notin ProductionInstallers /\ t \notin ProductionInstallers'
    BY <1>1 DEF InstallArchive, Finish, ProductionInstallers
  <2>3. AbsSlot' = AbsSlot
    BY <1>1, <2>1, <2>2, FrameSlot DEF InstallArchive
  <2>4. CASE ~req[t].present /\ Finish(t) /\ UNCHANGED stateVars
    BY <2>3, <2>4 DEF AbsReady
  <2>5. CASE disk' = [disk EXCEPT ![s] = "partial"]
    <3>1. AbsReady' = AbsReady \ {s}
      BY <1>0, <2>5 DEF AbsReady
    <3>2. Abs!Damage(s)
      BY <2>3, <3>1 DEF Abs!Damage
    <3>3. QED
      BY <1>0, <3>2 DEF Abs!ANext
  <2>6. CASE disk' = [disk EXCEPT ![s] = "complete"]
    <3>1. AbsReady' = AbsReady \cup {s}
      BY <1>0, <2>6 DEF AbsReady
    <3>2. Abs!Extract(s)
      BY <2>3, <3>1 DEF Abs!Extract
    <3>3. QED
      BY <1>0, <3>2 DEF Abs!ANext
  <2>7. QED
    BY <1>1, <2>4, <2>5, <2>6 DEF InstallArchive
<1>2. CASE SetDir(t) \/ SetVersion(t) \/ SetMaker(t)
  <2>1. \A u \in Threads : u # t => pc[u] \notin InstallPCs
    BY <1>2, OnlyInstaller DEF SetDir, SetVersion, SetMaker, InstallPCs
  <2>2. /\ \A u \in Threads \ {t} : pc'[u] = pc[u] /\ req'[u] = req[u]
        /\ UNCHANGED req /\ disk' = disk
    BY <1>2 DEF SetDir, SetVersion, SetMaker
  <2>3. AbsReady' = AbsReady
    BY <2>2 DEF AbsReady
  <2>4. CASE req[t].staging
    <3>1. t \notin ProductionInstallers /\ t \notin ProductionInstallers'
      BY <2>2, <2>4 DEF ProductionInstallers
    <3>2. prod' = prod
      BY <1>2, <2>4 DEF SetDir, SetVersion, SetMaker, AssignField
    <3>3. QED
      BY <2>2, <2>3, <3>1, <3>2, FrameSlot
  <2>5. CASE ~req[t].staging /\ SetDir(t)
    <3>1. ProductionInstallers' = {t}
      BY <2>1, <2>2, <2>5 DEF SetDir, ProductionInstallers, InstallPCs
    <3>2. AbsSlot' = s
      BY <2>2, <3>1 DEF AbsSlot
    <3>3. s \in AbsReady
      BY <1>0, <2>5 DEF SetDir, InstalledComplete, AbsReady
    <3>4. Abs!Promote(s)
      BY <2>3, <3>2, <3>3 DEF Abs!Promote
    <3>5. QED
      BY <1>0, <3>4 DEF Abs!ANext
  <2>6. CASE ~req[t].staging /\ SetVersion(t)
    <3>1. ProductionInstallers' = {t} /\ ProductionInstallers = {t}
      BY <2>1, <2>2, <2>6 DEF SetVersion, ProductionInstallers, InstallPCs
    <3>2. AbsSlot' = AbsSlot
      BY <2>2, <3>1 DEF AbsSlot
    <3>3. QED
      BY <2>3, <3>2
  <2>7. CASE ~req[t].staging /\ SetMaker(t)
    <3>1. ProductionInstallers' = {} /\ ProductionInstallers = {t}
      BY <2>1, <2>2, <2>7 DEF SetMaker, ProductionInstallers, InstallPCs
    <3>2. prod'.maker = s
      BY <2>7 DEF SetMaker, AssignField, Slots
    <3>3. AbsSlot' = AbsSlot
      BY <2>2, <3>1, <3>2 DEF AbsSlot
    <3>4. QED
      BY <2>3, <3>3
  <2>8. QED
    BY <1>2, <2>4, <2>5, <2>6, <2>7
<1>3. QED
  BY <1>1, <1>2, OtherStepsStutter DEF Thread, Step

(* The production slot implements ProductionSlot: it changes only by one  *)
(* atomic replace, to a snapshot whose directory is completely extracted, *)
(* for any number of threads, checksums and versions.                      *)
THEOREM ProductionRefinement == Spec => ImplementsProductionSlot
<1>1. Init => RInv
  BY InitIInv DEF Init, RInv, InstalledComplete
<1>2. RInv /\ [Next]_vars => RInv'
  <2> SUFFICES ASSUME RInv, [Next]_vars PROVE RInv'
    OBVIOUS
  <2>1. IInv'
    BY NextIInv DEF RInv
  <2>2. CASE Next
    BY <2>1, <2>2, ThreadInstalledComplete DEF Next, RInv
  <2>3. CASE UNCHANGED vars
    BY <2>1, <2>3 DEF vars, RInv, InstalledComplete
  <2>4. QED
    BY <2>2, <2>3
<1>3. Init => Abs!AInit
  BY DEF Init, Abs!AInit, AbsSlot, AbsReady, ProductionInstallers, EmptySlot
<1>4. RInv /\ [Next]_vars => [Abs!ANext]_<<AbsSlot, AbsReady>>
  <2> SUFFICES ASSUME RInv, [Next]_vars
               PROVE  Abs!ANext \/ UNCHANGED <<AbsSlot, AbsReady>>
    OBVIOUS
  <2>1. CASE Next
    BY <2>1, ThreadRefines DEF Next
  <2>2. CASE UNCHANGED vars
    BY <2>2 DEF vars, AbsSlot, AbsReady, ProductionInstallers
  <2>3. QED
    BY <2>1, <2>2
<1>5. QED
  BY <1>1, <1>2, <1>3, <1>4, PTL DEF Spec, ImplementsProductionSlot,
     Abs!ASpec, Abs!avars

=============================================================================
