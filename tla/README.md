# Formal models of nextlinux-engine's vulnerability database and feed sync

These TLA+ modules sit beside the Python sources under `src/nextlinux_engine`.
They model the parts of the engine where several threads, transactions or
remote calls interact:

- the life cycle of the local vulnerability database;
- the reconciliation of feed metadata with the upstream feed service;
- the HTTP clients that list and fetch feeds and the govulners database archive;
- the scanner's vulnerability lookup, which reads the database twice.

Each part is model-checked with TLC on small instances. The proved results are
listed under "Proofs" below.

## The system

| Part (spec name) | Source | What it does |
|---|---|---|
| DatabaseLifecycleManager | `clients/govulners_wrapper.py` (`GovulnersWrapperSingleton`) | Holds a production and a staging *slot*: a directory, a version and a SQLAlchemy session maker. Extracts a downloaded archive into `root/<checksum>/<version>` and points a slot at it. A writer-preferring reader-writer lock (`rwlock.RWLockWrite`) guards the slots. |
| QueryLayer | `govulners_wrapper.py` (queries), `vulns/scanners.py` | Read-locked queries and the `govulners` subprocess scan, always on the production slot. `query_record_source_counts` may count the staging slot. |
| SyncOrchestrator | `feeds/sync_utils.py` (`MetadataSyncUtils`, `LegacySyncUtilProvider`, `GovulnersDBSyncUtilProvider`) | Reconciles the `FeedMetadata`/`FeedGroupMetadata` rows with the upstream listing, in one database unit of work. Then plans which groups to download and reports their results. |
| ArchiveFetcher | `feeds/client.py` | HTTP clients of the legacy feed service and of the govulners DB listing service: retries, pagination, download. |
| AnalysisWatcher | `services/analyzer/watchers/analysis.py` | The analyzer's queue-driven worker pool. |
| LegacyGateUtilProvider | `policy/gate_util_provider.py` | Policy-gate helpers over feed metadata. |

How they interact:

1. The feed sync asks a provider for its feeds (`to_sync`).
2. The client lists them.
3. `sync_metadata` reconciles the database rows with that listing.
4. The provider plans which groups to download.
5. For govulnersdb, the downloaded archive is installed into a slot by `update_govulners_db`: staging first, to validate it, then production.
6. Meanwhile, scans and API queries read the production slot under the read lock.

## Modules

### `GovulnersWrapper` (with `MCGovulnersWrapper`)

**State.**

| Variable | What it is |
|---|---|
| `prod`, `staging` | The slots. Each is a record of the three instance attributes. A session maker is identified by the snapshot `<<checksum, version>>` it is bound to. |
| `disk` | Status of each snapshot directory: absent, partial or complete. |
| `engineMeta` | Whether `engine_metadata.json` has been written. |
| `readers`, `writer`, `wwait` | The lock: the threads holding the read side, the thread holding the write side, and the registered writers. |
| `pc`, `req`, `obs` | Per thread: the method it runs, its arguments, and the slot fields it has read so far. |
| `ret` | What `get_current_govulners_db_checksum` returned. |

**Actions.** A method is cut at every point where another thread can observe
or change shared state. Those points are:

- a lock acquisition, or a timeout of it;
- the archive install: copy, extract, write metadata, build the engine;
- each of the three separate slot assignments (`update_govulners_db`, lines 599-611; `unstage_govulners_db`, lines 626-628);
- each of the two attribute reads of `os.path.join(dir, version, name)` in `_get_metadata_file_contents`;
- the file read.

The `finally` clauses of `read_lock_access` and `write_lock_access` are in
`Finish`: every exit of a method releases whatever side of the lock its thread
holds. An extraction can fail part way and leave a `partial` directory, because
the code extracts in place with no temporary directory.

`get_current_govulners_db_checksum` reads the raising `_govulners_db_dir`
property, so it returns an error before any install (the action keeps this in
`ret`). Spec 4.1 says it returns none when uninitialized. That is one step from
the initial state, which a unit test reaches, so no run is spent on it.

**Abstract specification and refinement.** `ProductionSlot` states what the
manager promises of its production slot, with no lock, thread or field in it:

- `slot` is one snapshot or none;
- `ready` is the set of completely extracted snapshots;
- `Extract(s)` and `Damage(s)` add and remove a snapshot from `ready`;
- `Promote(s)` points the slot at a snapshot in `ready`, in one step;
- nothing ever unsets the slot.

`GovulnersWrapper` implements it through `Abs == INSTANCE ProductionSlot WITH
slot <- AbsSlot, ready <- AbsReady`:

- `AbsReady` is the set of snapshots whose `disk` status is `complete`.
- `AbsSlot` is the snapshot of the production install that is between its
  assignments, if there is one. Otherwise it is `prod.maker`.

So the abstract replace happens at the `_govulners_db_dir_internal`
assignment (line 609). The version and maker assignments are stutters: while
they run, the install holds the write lock, and no reader can tell the two
apart. `InstallArchive` is an `Extract` or a `Damage` of its snapshot. Every
other step is a stutter, and unstage only ever touches staging.
`ImplementsProductionSlot == Abs!ASpec` is checked by `wrapper_safety`. The
mutant that goes on to assign the slot after a failed extraction violates it.

### `GovulnersScanner` (with `MCGovulnersScanner`)

This module composes `GovulnersScanner.get_vulnerabilities`
(`vulns/scanners.py`, lines 301-370) with `GovulnersWrapper`. It `EXTENDS`
the wrapper and adds a set of `Scanners`: threads of the wrapper that call
only the two production queries.

`scan[t]` records four things:

- where `t` is in `get_vulnerabilities`;
- the `_is_only_nvd_namespace` value of its argument;
- which snapshot `query_vulnerabilities` read;
- which snapshot `query_vulnerability_metadata` read.

The scanner's steps are the wrapper's own reader actions, `StartReader`,
`AcquireRead`, `TimeoutRead` and `QueryProduction`, with the scanner's
bookkeeping conjoined:

- a lock timeout or an unset session maker propagates out of the call;
- the early returns are taken on an empty result, an nvd-only namespace, or no related nvd ids. What a query returns is data, so it is chosen freely.

`SNext` runs the scanners beside the wrapper's other threads, whose
`Thread(t)` is unchanged.

**Fairness.** Weak fairness of every step a running thread takes: a scheduled
Python thread keeps running, and the `govulners` subprocess is assumed to
return. There is also weak fairness of granting a free lock to some registered
writer. Timeouts and the start of new methods are never forced.

### `FeedMetadataSync` (with `MCFeedMetadataSync`)

**State.**

| Variable | What it is |
|---|---|
| `dbFeed`, `dbGroup` | The committed rows, abstracted to `enabled`, `tier` (access tier and description) and, for groups, `synced` (`last_sync` set). |
| `fw`, `gw` | The pending writes of the sync's session: a new row (INSERT) or column updates. SQLAlchemy's unit of work UPDATEs only the columns an attribute assignment changed. This is what keeps a concurrent user's `enabled = False` intact. |
| `spc` | The sync's position in `sync_metadata`. |
| `failed`, `returned`, `outcome` | What the sync returned or raised. |
| `inactive` | The session's transaction is dead after a failed flush. |
| `plan`, `report` | The groups planned for download and their reported results. |
| `wish`, `gwish` | The enabled flags users last set. |

**Actions.**

- `StartSync` does the provider's `to_sync` filtering and takes the early return when there is nothing to sync.
- `LoadFeeds` models `_pivot_and_filter_feeds_by_config` over `get_all_feeds`.
- `SyncFeed` models one iteration of the per-feed `try/except/finally db.flush()`. It has four outcomes:
  - success;
  - a group error after some of the groups have been written;
  - a flush error, which leaves the transaction dead;
  - an operation on the dead transaction, which raises again.
- `CommitSync` models the reload and `db.commit()`, or the outer `except` with `db.rollback()`.
- `PlanDownloads` models the providers' `get_groups_to_download`.
- `DownloadGroup` models a group load and `retrieve_group_result`.
  The govulners provider's `retrieve_group_result` reports `success` whatever the group's result. No property checks this, because the spec does not say what that one aggregate result should be.
- `SetFeedEnabled` and `SetGroupEnabled` are the users' toggles. They commit in transactions of their own, between any two steps of a sync.

The caller of `sync_metadata` is not in `src/`. Its behaviour comes from the
spec and is marked `spec_modelled` in the map: it filters the listing to
`to_sync`, downloads and applies the results.

### `FeedClient` (with `MCFeedClient`)

**State.**

| Variable | What it is |
|---|---|
| `latest`, `avail` | The upstream: the listing's entry for the supported schema version, and the archives it still serves. |
| `op`, `pc` | The call the client thread runs (or ran last), and whether `execute_request` is in progress. |
| `url`, `resp`, `count` | `execute_request`'s url, its `HTTPClientResponse` and its attempt counter. |
| `cursor`, `acc` | The page a paginated call requests next, and the records it has collected. A record is named by its page. |
| `planned`, `listed` | The listing entry `list_feed_groups` returned, and the one `get_feed_group_data` re-listed and downloads. |
| `result`, `meta`, `data`, `token` | What the call returned or raised: the `GroupData`'s `response_metadata` checksum, its bytes and its `next_token`. |
| `lastCode` | A history variable: the status of the last HTTP response. It is used only by the error-typing property. |

**Actions.**

- `Attempt` is one iteration of the `while not success and count < retries` loop. The outcome is chosen from `Outcomes`:
  - a 200, with or without a `Content-Type` header. Without one, the `KeyError` handler replaces the content and keeps the old content type;
  - 401, 403 or 404, which raise through `_map_error_to_exception`;
  - 429 or 5xx, which are stored and retried;
  - a connect timeout or another exception, which only overwrites the content.
- `ListFeedsPage`, `ListFeedGroupsPage`, `FollowToken` and `ListingFails` are the two pagination loops. Their difference is where `next_token` is read relative to the `feeds`/`groups` key check.
- `StartGroupData` and `GroupDataDone` are the legacy group-data fetch: the MIME check, then `_extract_response_data`.
- `StartGovulners`, `ListingParsed` and `DownloadDone` are `GovulnersDBServiceClient`. `get_feed_group_data` lists again before it downloads.
- `Publish` and `Retire` are the upstream listing service (not in `src/`, so `spec_modelled`). Between any two client steps it can point its listing at a new archive and stop serving an old one.

**Fairness.** Weak fairness of `ClientStep`, the steps of a call in progress. A
call's requests return within their connect and read timeouts, and the caller's
thread keeps running. New calls and the upstream are never forced.

## Runs

| Run | Expect | Shows |
|---|---|---|
| `wrapper_safety` | pass | The production slot is never torn while the lock is not held for writing. `query_record_source_counts` and `update_govulners_db` read the metadata of the snapshot they counted or installed (the lock-free read of `unstage_govulners_db` is not covered). The production slot implements `ProductionSlot`. |
| `wrapper_liveness` | pass | Writer preference admits a registered writer despite a stream of readers. The write lock is released on every error path. |
| `wrapper_unstage_torn` | violation | `unstage_govulners_db` takes no lock and tears the staging slot. |
| `wrapper_reextract` | violation | A partial re-extraction is visible to readers of production. |
| `scanner_mixed` | violation | `get_vulnerabilities` releases the read lock between its two queries. An install promoted in between makes it return vulnerability records of one snapshot with the related nvd metadata of another (`scanners.py:345`). |
| `sync_safety` | pass | A concurrent user's disable and `last_sync` survive a sync. An aborted sync changes nothing. A committed legacy sync reconciles every listed feed that did not fail. |
| `sync_isolation` | violation | One feed's flush error rolls back every feed. |
| `sync_returned` | violation | A failed, pre-existing feed is returned as updated. |
| `client_safety` | pass | `list_feed_groups` returns or raises even when page 2 comes back without its `groups` key. Under every HTTP outcome, a paginated listing holds each page's records once and in order. A returned govulners `GroupData` holds archive bytes whose checksum is the one in its `response_metadata`, while the upstream publishes and retires archives. |
| `client_feeds_loop` | violation | `list_feeds` re-requests the same url forever once a successful page lacks its `feeds` key (`client.py:283`). |
| `client_errors` | violation | An archive retired between the re-listing and the download answers 404. `_map_error_to_exception` then fails on `exc.response.body` with `AttributeError`, where the spec says a generic status error (`client.py:137`). |

Every property of a passing run has a mutant in `PROJECT.json`: a plausible bug
in the mapped definition that TLC finds violating it.

### Bounds

**Wrapper runs.**

- Two threads, which are enough for a writer and a reader, or two writers, to interleave.
- Two checksums and one version, so two snapshots differ only in their checksum.
- With two checksums, an install can replace production with a different snapshot and re-extract the same one.

**Scanner run.** One scanner and one other thread, two checksums and one
version. That is the least instance in which an install can promote a second
snapshot between the scanner's two queries.

**Sync runs.**

- Feeds `{gov, f1, f2}`: the govulners feed and two legacy feeds.
- One group and one tier. The govulners feed's group and tier are the constants `GovulnersGroup` and `GovulnersTier`, because `list_feeds` and `get_feed_group_data` hard-code them (`client.py:489-497`, `537-540`).
- Two configurations: one with govulnersdb and one without it.

Two legacy feeds are the minimum at which one feed's failure can affect another.

**Client runs.**

- Two pages: the least at which a `next_token` is followed, and at which a last page can be told from the others.
- Three retries, as in the code's `max_retries`. This is enough for a 5xx, then a missing-header 200 reading a stale content type.
- Two archives, so that the upstream can publish a new one and retire the old one within one call.
- `client_safety` uses every outcome, and any 200 for page 2 may lack its `feeds`/`groups` key.

## Proofs

`GovulnersWrapperProofs` holds three theorems about `GovulnersWrapper`. They hold
for every set of threads, checksums and versions, under `ConstantsAssumption`.
That assumption says that `NULL` is none of them and that the checksum and
version sets are non-empty.

**`TypeCorrect`: `Spec => []TypeOK`.**

- `InitTypeOK` shows that `Init` is well typed.
- `ThreadTypeOK` shows that every thread action keeps `TypeOK`. It has one `CASE` per action.
- The record updates of slots and requests go through two lemmas, `SlotUpdate` and `RequestUpdate`, proved by record extensionality.
- Actions that may end the method are split into their `Finish` and their continuing branch.

**`ProductionNeverTorn`: `Spec => []ProductionConsistent`.**

`ProductionConsistent` is not inductive. A step of `update_govulners_db` that
assigns `_govulners_db_dir` but not yet the version leaves production torn, and
the invariant alone cannot say that only that thread will finish the
assignments. The strengthening `IInv` adds three facts:

- `InstallExclusive`: a thread inside the install or the assignments holds the write lock.
- `ProductionInFlight`: while a production update is between its assignments, the slot's fields assigned so far are those of the request.
- `ProductionWhole`: when no production update is between assignments, the production slot is consistent.

`IInv` was model-checked as an invariant first. The proof then shows three things:

- `Init => IInv` (`InitIInv`);
- every thread step preserves it (`ThreadIInv`). The lock makes the assignment steps of other threads impossible (`OnlyInstaller`);
- `IInv => ProductionConsistent`.

**`ProductionRefinement`: `Spec => ImplementsProductionSlot`.**

The proof follows the usual refinement layout. It needs an invariant `RInv`,
which is `IInv` strengthened by `InstalledComplete`: an install past its
extraction has its snapshot completely extracted. Without it, nothing says
that the snapshot is still in `ready` when the dir assignment promotes it.
`InstalledComplete` holds because only the write-lock holder changes the disk
(`OnlyInstaller`). `RInv` was model-checked first. The proof then shows:

- `Init => RInv` and `Init => Abs!AInit`;
- `RInv /\ [Next]_vars => RInv'` (`NextIInv`, `ThreadInstalledComplete`);
- `RInv /\ [Next]_vars => [Abs!ANext]_<<AbsSlot, AbsReady>>` (`ThreadRefines`). It has one case per kind of step:
  - an extraction is an `Extract` or a `Damage`;
  - a production dir assignment is a `Promote`. Before it, no other thread is between assignments, and after it, the installer is the only one;
  - the version and maker assignments keep `AbsSlot`;
  - every other step leaves the disk, `prod` and the set of production installers alone (`OtherStepsStutter`, `FrameSlot`).

The last step is a `PTL` step over these facts.

**`MetadataReadCorrect`: `Spec => []MetadataReadMatchesSnapshot`** (in
`GovulnersWrapperReadProofs`).

`query_record_source_counts` and `update_govulners_db` read the database dir
and the version in separate steps, then read a metadata file. Installs and the
lock-free `unstage_govulners_db` run meanwhile. The property says that the
file read is that of the snapshot the call works on. It is not inductive: the
reads in flight must be tied to the lock and to the slot they read. The
strengthening `MInv` is `IInv` and five more facts:

- `LockExclusive`: the read and write sides of the lock exclude each other.
- `StagingInFlight` and `StagingWhole`: the staging twins of the production facts. Each field may also be None, because unstage clears staging at any time.
- `ReadersHoldLock`: a reader past the lock still holds the read side, and an update reading back its metadata still holds the write side.
- `MethodOps`: each step belongs to one method. Only the update installs and only unstage clears staging.
- `MetadataReadInFlight` (`ReadInFlight(t)` per thread): what a read has fetched so far belongs to the snapshot of its call.

`MInv` was model-checked first. `InitMInv` and `NextMInv` prove the induction.
`NextMInv` has one lemma per group of steps. A thread's own read step is
`OwnReadInFlight`. Another thread's step leaves a read in flight alone
(`OtherReadInFlight`), because no install runs during a read (`NoInstallDuringRead`).

### `FeedMetadataSyncProofs`

These theorems hold for every set of feeds, groups and tiers. They use two
assumptions:

- `FeedSyncAssumption`: the govulners feed is a feed, its group a group and its tier a tier, the tiers are non-empty, and `NULL` is no tier or Boolean.
- `NullNotRecord`: `NULL` is not a row.

The invariants are not inductive alone. A rollback must know that nothing was
committed since the start. The commit must know what the session holds for
each processed feed. The plan must know that a disable is the committed flag.
The strengthening `SInv` is `TypeOK` and seven more conjuncts, all checked
by TLC first:

- `SyncPhases`: what each phase of `sync_metadata` has set up. The listing lies within `to_sync`. The session holds writes only inside the unit of work. The feeds loaded are exactly the listed feeds with a committed row.
- `WritesWellFormed`: the session INSERTs only absent rows, with every column set. It never writes `enabled` or `last_sync` of an existing row. It holds no group of govulnersdb.
- `WishesKept`: a flag a user last turned off is off in the committed row.
- `ReturnedExist`: every returned feed has a committed row.
- `ShapeKept`: from the start of a sync to its rollback, existence and display fields are those it started from.
- `ProcessedReconciled`: in a legacy sync, each feed the loop processed without failing is reconciled in the session's view (`SessionReconciled`).
- `CommittedFeedsReconciled` itself.

The induction has one lemma per action (`StartSyncSInv` ... `SetGroupEnabledSInv`) and then `InitSInv`, `NextSInv` and `SInvInvariant`.
Steps that change only flags share `FlagsOnlyStep`: the download's stamp and the users' toggles.
The commit relies on `CommitKeepsFlags`: the session's view keeps every committed row's flags.

- `SyncTypeCorrect`: `Spec => []TypeOK`.
- `SyncAbortSafe`: `Spec => []AbortedSyncChangesNothing`, from `ShapeKept`.
- `SyncFailureIsolation`: `Spec => []CommittedFeedsReconciled`. At the commit, `ProcessedReconciled` becomes this property.
- `DisabledNotDownloaded`: `Spec => DisabledNeverPlanned`. `PlanStep` shows that only `PlanDownloads` moves from planning to downloading. Its legacy plan names only enabled rows. Its govulners plan names an enabled feed and a group with no row. `WishesKept` then rules out a disabled one.
- `LastSyncKept`: `Spec => LastSyncNeverReset`. `SyncedStep` takes one case per step that writes `dbGroup`. The commit keeps `synced` (`CommitKeepsFlags`). A download only sets it. A toggle writes only `enabled`.

Two changes to `FeedMetadataSync` came out of the proofs. Neither changes a
TLC run:

- The arms of `Apply`'s `CASE` were made disjoint. TLC takes the first true arm, but TLAPS leaves the value of overlapping arms unspecified.
- The govulners listing is built with `SyntheticFeed`, the one feed `GovulnersDBServiceClient.list_feeds` returns, so that the provers can name its records. Its display fields and group are the constants the client hard-codes, the same in every sync.

### `FeedClientProofs`

These theorems hold for every number of pages and retries, every set of
pages without their key and every set of archives. They use
`ClientAssumption`: `NPages` and `Retries` are positive, the skipped pages are
pages, and `NULL` is no archive and no content type. The last clause was
added for the proofs: without it `NewResponse`'s `NULL` content type could be
`"tar"`, and no TLC run changes.

The properties are not inductive alone. A page step must know that the page
parsed is the cursor's page; a download must know that the tar body belongs
to the listed archive. The strengthening `CInv` (in `FeedClient`, checked by
TLC first on `NPages = 3`, two skipped pages and two retries) is `TypeOK`,
the two properties and four conjuncts:

- `RequestPending`: while execute_request runs, the call has no result.
- `ResponseFromUrl`: a page body is the page of the requested url, missing its key only on a `MissingKeyPages` page; a tar body is a successful answer for an archive url, carrying that archive.
- `ListingAtCursor`: a running listing requests its cursor's page.
- `DownloadOfListed`: a govulners archive request is for the entry `listed` holds.

The induction has one lemma per action. `AttemptCInv` takes one case per
outcome of the request (`ServerBodiesFacts` says what the server answers to
each url). The page steps share `TokenStepCInv`; `RefetchCInv` is the
list_feeds re-fetch. The returning steps share `ReturnCInv`. `ListingComplete`
is restated as `CompleteSeq(acc, n, Skippable)` over the reached pages `1..n`
(`CompleteSeqIff`), and two state-free lemmas carry it one page on:
`AppendComplete` when the page is appended, `SkipComplete` when
list_feed_groups skips it.

- `ClientTypeCorrect`: `Spec => []TypeOK`.
- `ListingsComplete`: `Spec => []ListingComplete`.
- `DownloadMetadataConsistent`: `Spec => []ArchiveMetadataConsistent`. `DownloadOfListed` and `ResponseFromUrl` give `data = url.val = listed = meta` at the tar return.

What stays with TLC:

- Liveness: `WriterAdmitted`, `WriteLockReleased` and `ListFeedGroupsTerminates`. TLAPS does not reason about fairness and ENABLED.
- Every violation run. A violation is a finding about a finite instance.
- `GovulnersScanner` has no proof. Its one property is violated.

## Not modelled

- The `govulners` subprocess and the SQL of the queries. They are data, read under the read lock.
- The REST layer, the analyzers and the packaging. They are sequential glue and parsing with no shared state.
- `scan_image_for_vulnerabilities` in `vulns/scanners.py`. It runs the database sync and builds an SBOM, which is pure data. Its scan, `get_vulnerabilities_for_sbom`, is a read-locked reader of the production slot, which `GovulnersWrapper` models as `QueryProduction`.
- `watchers/analysis.py`, the analyzer's queue-driven worker pool. Spec section 1 puts the analysis dispatcher out of the core's scope. The classes it drives are not in the repository: `ImageAnalysisTask`, `ImportTask`, `handle_layer_cache` and the queue client. So neither the tasks nor the layer cache they share can be modelled from source.
- `policy/gate_util_provider.py`. Policy-gate evaluation is out of scope (spec section 1). Note that `LegacyGateUtilProvider.oldest_namespace_feed_sync` (lines 75-90) returns the `last_sync` of the *last* like-namespace with a matching group. Its docstring promises the oldest. This is sequential code a unit test reaches.

## Plan

Done: the `GovulnersWrapper` proofs including the refinement and the metadata
reads, every safety property of the `sync_safety` run and of the
`client_safety` run except the liveness `ListFeedGroupsTerminates`, and the
`GovulnersScanner` composition. Next:

1. A passing property of the scanner composition: once the first query has read a snapshot, the second never fails with an unset slot, because `ProductionSlot` never unsets it.
