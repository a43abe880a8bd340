-------------------------- MODULE FeedMetadataSync --------------------------
(***************************************************************************)
(* Feed and group metadata reconciliation (feeds/sync_utils.py).          *)
(*                                                                         *)
(* MetadataSyncUtils.sync_metadata runs in one database session: it loads *)
(* the feed records, then for every feed of the upstream listing upserts  *)
(* the feed record and (legacy provider) its group records inside a       *)
(* per-feed try/except/finally db.flush(), reloads, and commits; an       *)
(* exception that escapes the loop rolls the session back.  After a      *)
(* successful sync the provider's get_groups_to_download plans the group  *)
(* downloads and retrieve_group_result reports each one.                  *)
(*                                                                         *)
(* The committed tables are dbFeed and dbGroup.  The session is the set   *)
(* of column writes it holds (fw, gw), applied column by column at commit *)
(* (SQLAlchemy UPDATEs only the columns it changed).  Users enable and    *)
(* disable feeds and groups in transactions of their own, at any time.    *)
(* Text fields (description, access_tier) are abstracted to one "tier".  *)
(***************************************************************************)
EXTENDS Naturals, FiniteSets

CONSTANTS
    Feeds,          \* feed names an upstream source may list
    GovulnersFeed,  \* GOVULNERS_DB_FEED_NAME
    GovulnersGroup, \* the one group it lists, govulnersdb:vulnerabilities
    GovulnersTier,  \* the display fields list_feeds hard-codes for both
    Groups,         \* group names
    Tiers,          \* values of the display fields
    ConfigChoices,  \* the sets of feed names sync_configs may hold
    NULL

ASSUME FeedSyncAssumption ==
    /\ GovulnersFeed \in Feeds
    /\ GovulnersGroup \in Groups
    /\ GovulnersTier \in Tiers
    /\ ConfigChoices \subseteq SUBSET Feeds
    /\ Tiers # {}
    /\ NULL \notin Tiers \cup BOOLEAN

Providers == {"legacy", "govulners"}
Keys == Feeds \X Groups

FRec == [enabled : BOOLEAN, tier : Tiers]
GRec == [enabled : BOOLEAN, synced : BOOLEAN, tier : Tiers]
FWrite == [new : BOOLEAN, enabled : BOOLEAN \cup {NULL}, tier : Tiers \cup {NULL}]
GWrite == [new : BOOLEAN, enabled : BOOLEAN \cup {NULL},
           synced : BOOLEAN \cup {NULL}, tier : Tiers \cup {NULL}]
(* None is no record.                                                     *)
ASSUME NullNotRecord == NULL \notin FRec \cup GRec

FNoWrite == [new |-> FALSE, enabled |-> NULL, tier |-> NULL]
GNoWrite == [new |-> FALSE, enabled |-> NULL, synced |-> NULL, tier |-> NULL]

(* One feed of an upstream listing: its display fields and its groups     *)
(* with theirs.                                                            *)
ApiFeeds == UNION {[tier : Tiers, groups : [G -> Tiers]] : G \in SUBSET Groups}

Phases == {"idle", "load", "feeds", "reload", "plan", "download"}
Outcomes == {"none", "ok", "raised"}
Statuses == {"none", "success", "failure"}
Reports == [status : Statuses, ok : BOOLEAN]

VARIABLES
    dbFeed,       \* committed feed_metadata rows, NULL where absent
    dbGroup,      \* committed feed_group_metadata rows, NULL where absent
    fw, gw,       \* column writes held by the sync's session
    spc,          \* phase of the sync
    provider,     \* the SyncUtilProvider running it
    toSync,       \* provider.to_sync
    listing,      \* source_feeds: feed name -> upstream record
    loaded,       \* names in db_feeds, as pivoted at the start
    todo,         \* source feeds the loop has not processed yet
    failed,       \* names in the failed list
    inactive,     \* a flush failed: the session's transaction is dead
    returned,     \* names of the returned db_feeds
    outcome,      \* how the last sync_metadata ended
    plan,         \* groups_to_download
    report,       \* report[k]: status of k's GroupSyncResult
    nonFeedError, \* an exception was raised outside the per-feed boundary
    before,       \* existence and display fields when the sync started
    wish,         \* the last enabled value a user gave each feed
    gwish         \* the last enabled value a user gave each group

syncVars == <<fw, gw, spc, provider, toSync, listing, loaded, todo, failed,
              inactive, returned, outcome, plan, report, nonFeedError, before>>
vars == <<dbFeed, dbGroup, wish, gwish, syncVars>>

(* Existence and display fields of every row: what reconciliation owns.   *)
Shape(f, g) == <<[x \in Feeds |-> IF f[x] = NULL THEN NULL ELSE f[x].tier],
                 [k \in Keys |-> IF g[k] = NULL THEN NULL ELSE g[k].tier]>>

TypeOK ==
    /\ dbFeed \in [Feeds -> FRec \cup {NULL}]
    /\ dbGroup \in [Keys -> GRec \cup {NULL}]
    /\ fw \in [Feeds -> FWrite]
    /\ gw \in [Keys -> GWrite]
    /\ spc \in Phases
    /\ provider \in Providers
    /\ toSync \subseteq Feeds
    /\ listing \in UNION {[S -> ApiFeeds] : S \in SUBSET Feeds}
    /\ loaded \subseteq Feeds
    /\ todo \subseteq DOMAIN listing
    /\ failed \subseteq DOMAIN listing
    /\ inactive \in BOOLEAN
    /\ returned \subseteq Feeds
    /\ outcome \in Outcomes
    /\ plan \subseteq Keys
    /\ report \in [Keys -> Reports]
    /\ nonFeedError \in BOOLEAN
    /\ wish \in [Feeds -> BOOLEAN \cup {NULL}]
    /\ gwish \in [Keys -> BOOLEAN \cup {NULL}]

-----------------------------------------------------------------------------
(* A row as the session sees it: a row the session added is its INSERT; *)
(* otherwise the committed row with the session's column writes over it.  *)
Apply(row, w) ==
    CASE w.new -> [x \in DOMAIN w \ {"new"} |-> w[x]]
      [] ~w.new /\ row = NULL -> NULL
      [] OTHER -> [x \in DOMAIN w \ {"new"} |-> IF w[x] # NULL THEN w[x] ELSE row[x]]

SessionFeed(f) == Apply(dbFeed[f], fw[f])
SessionGroup(k) == Apply(dbGroup[k], gw[k])

(* _get_filtered_sync_configs and _get_feeds_to_sync: the legacy provider *)
(* takes every configured feed but govulnersdb, the govulners provider    *)
(* only govulnersdb.                                                       *)
FeedsToSync(p, configured) ==
    IF p = "legacy" THEN configured \ {GovulnersFeed}
    ELSE configured \cap {GovulnersFeed}

(* The one synthetic feed the govulners client lists, with one group; its *)
(* description and access_tier are constants of list_feeds and           *)
(* get_feed_group_data, the same in every sync.                           *)
SyntheticFeed ==
    [tier |-> GovulnersTier, groups |-> [y \in {GovulnersGroup} |-> GovulnersTier]]

(* The source_feeds the caller passes: the feeds the provider's client    *)
(* lists, restricted by the caller to to_sync.                            *)
Listings(p, ts) ==
    IF p = "legacy"
    THEN UNION {[S -> ApiFeeds] : S \in SUBSET ts}
    ELSE {[x \in ts |-> SyntheticFeed]}

(* _pivot_and_filter_feeds_by_config                                       *)
PivotAndFilter(ts, sourceFound, dbFound) == dbFound \cap (ts \cap sourceFound)

NoReport == [status |-> "none", ok |-> FALSE]
NoFeedWrites == [f \in Feeds |-> FNoWrite]
NoGroupWrites == [k \in Keys |-> GNoWrite]

-----------------------------------------------------------------------------
(***************************************************************************)
(* sync_metadata(source_feeds, to_sync, groups): the provider's wrapper    *)
(* passes groups=False for govulnersdb.  With nothing to sync it returns  *)
(* ({}, []) at once; otherwise it opens the session.                       *)
(***************************************************************************)
StartSync ==
    /\ spc = "idle"
    /\ \E p \in Providers, configured \in ConfigChoices :
         LET ts == FeedsToSync(p, configured) IN
         /\ provider' = p
         /\ toSync' = ts
         /\ failed' = {}
         /\ returned' = {}
         /\ plan' = {}
         /\ report' = [k \in Keys |-> NoReport]
         /\ inactive' = FALSE
         /\ nonFeedError' = FALSE
         /\ before' = Shape(dbFeed, dbGroup)
         /\ IF ts = {}
            THEN /\ outcome' = "ok"
                 /\ listing' = [x \in {} |-> NULL]
                 /\ todo' = {}
                 /\ UNCHANGED spc
            ELSE /\ \E l \in Listings(p, ts) :
                      /\ listing' = l
                      /\ todo' = DOMAIN l
                 /\ outcome' = "none"
                 /\ spc' = "load"
    /\ UNCHANGED <<dbFeed, dbGroup, fw, gw, loaded, wish, gwish>>

(* The except branch around the whole unit of work: db.rollback(), raise. *)
Rollback ==
    /\ outcome' = "raised"
    /\ spc' = "idle"
    /\ fw' = NoFeedWrites
    /\ gw' = NoGroupWrites

(* db_feeds = _pivot_and_filter_feeds_by_config(to_sync, source, get_all_feeds(db)). *)
LoadFeeds ==
    /\ spc = "load"
    /\ \/ /\ Rollback
          /\ nonFeedError' = TRUE
          /\ UNCHANGED loaded
       \/ /\ loaded' = PivotAndFilter(toSync, DOMAIN listing,
                                      {f \in Feeds : dbFeed[f] # NULL})
          /\ spc' = "feeds"
          /\ UNCHANGED <<fw, gw, outcome, nonFeedError>>
    /\ UNCHANGED <<dbFeed, dbGroup, provider, toSync, listing, todo, failed,
                   inactive, returned, plan, report, before, wish, gwish>>

(* Mutant: the new record is built without its display fields.          *)
FeedMetadataWriteBare(f) ==
    IF f \in loaded THEN fw[f]
    ELSE [new |-> TRUE, enabled |-> TRUE, tier |-> NULL]

(* Mutant: db.merge() of a fresh record, which also writes enabled=True   *)
(* over an existing row.                                                   *)
FeedMetadataWriteMerge(f) ==
    IF f \in loaded THEN [fw[f] EXCEPT !.enabled = TRUE]
    ELSE [new |-> TRUE, enabled |-> TRUE, tier |-> listing[f].tier]

(* _sync_feed_metadata: a feed missing from db_feeds gets a new record,   *)
(* enabled; a feed found there is left as it is.                           *)
FeedMetadataWrite(f) ==
    IF f \in loaded THEN fw[f]
    ELSE [new |-> TRUE, enabled |-> TRUE, tier |-> listing[f].tier]

(* Mutant: db.merge() of a fresh group record, which writes last_sync    *)
(* None over an existing row.                                              *)
GroupMetadataWritesMerge(f, S) ==
    [k \in Keys |->
        IF k[1] = f /\ k[2] \in S
        THEN [new |-> SessionGroup(k) = NULL, enabled |-> TRUE, synced |-> FALSE,
              tier |-> listing[f].groups[k[2]]]
        ELSE gw[k]]

(* _sync_feed_group_metadata, for the groups in S: the feed's display     *)
(* fields are assigned; a group the feed does not have yet is created,    *)
(* enabled, with last_sync None; a group it has gets its display fields.  *)
GroupMetadataWrites(f, S) ==
    [k \in Keys |->
        IF k[1] = f /\ k[2] \in S
        THEN IF SessionGroup(k) = NULL
             THEN [new |-> TRUE, enabled |-> TRUE, synced |-> FALSE,
                   tier |-> listing[f].groups[k[2]]]
             ELSE [gw[k] EXCEPT !.tier = listing[f].groups[k[2]]]
        ELSE gw[k]]

(* Mutant: the group pass runs only for a feed created in this sync.     *)
FeedWritesNewFeedsOnly(f, S) ==
    /\ fw' = [fw EXCEPT ![f] = FeedMetadataWrite(f)]
    /\ gw' = IF provider = "legacy" /\ f \notin loaded
             THEN GroupMetadataWrites(f, S) ELSE gw

(* The writes of the loop body for f when the group pass reached the     *)
(* groups in S.                                                            *)
FeedWrites(f, S) ==
    /\ fw' = [fw EXCEPT ![f] =
                 IF provider = "legacy"
                 THEN [FeedMetadataWrite(f) EXCEPT !.tier = listing[f].tier]
                 ELSE FeedMetadataWrite(f)]
    /\ gw' = IF provider = "legacy" THEN GroupMetadataWrites(f, S) ELSE gw

(* One iteration of the loop over source_feeds.items(), with its except   *)
(* (append to failed) and its finally (db.flush()).  Once a flush failed, *)
(* the session's transaction is dead: every later statement raises, so a *)
(* later feed fails unless its iteration touches no database state.  A    *)
(* flush that fails (the one after db.add, or an autoflush in the group   *)
(* pass) kills the transaction.  Any other exception in the group pass    *)
(* leaves the writes made before it in the session.                       *)
SyncFeed ==
    /\ spc = "feeds"
    /\ \E f \in todo :
         LET touchesDb == f \notin loaded \/ provider = "legacy"
             allGroups == DOMAIN listing[f].groups IN
         /\ todo' = todo \ {f}
         /\ \/ /\ inactive
               /\ failed' = IF touchesDb THEN failed \cup {f} ELSE failed
               /\ UNCHANGED <<fw, gw, inactive>>
            \/ /\ ~inactive
               /\ touchesDb
               /\ inactive' = TRUE
               /\ failed' = failed \cup {f}
               /\ UNCHANGED <<fw, gw>>
            \/ /\ ~inactive
               /\ provider = "legacy"
               /\ \E S \in SUBSET allGroups \ {allGroups} : FeedWrites(f, S)
               /\ failed' = failed \cup {f}
               /\ UNCHANGED inactive
            \/ /\ ~inactive
               /\ FeedWrites(f, allGroups)
               /\ UNCHANGED <<failed, inactive>>
    /\ UNCHANGED <<dbFeed, dbGroup, spc, provider, toSync, listing, loaded,
                   returned, outcome, plan, report, nonFeedError, before,
                   wish, gwish>>

EndFeedLoop ==
    /\ spc = "feeds"
    /\ todo = {}
    /\ spc' = "reload"
    /\ UNCHANGED <<dbFeed, dbGroup, fw, gw, provider, toSync, listing, loaded,
                   todo, failed, inactive, returned, outcome, plan, report,
                   nonFeedError, before, wish, gwish>>

(* Mutant: db.commit() before the reload, so an error in the reload      *)
(* raises after the writes are committed.                                  *)
CommitSyncBeforeReload ==
    /\ spc = "reload"
    /\ \/ /\ inactive
          /\ Rollback
          /\ UNCHANGED <<dbFeed, dbGroup, returned, nonFeedError>>
       \/ /\ ~inactive
          /\ Rollback
          /\ nonFeedError' = TRUE
          /\ dbFeed' = [f \in Feeds |-> SessionFeed(f)]
          /\ dbGroup' = [k \in Keys |-> SessionGroup(k)]
          /\ UNCHANGED returned
       \/ /\ ~inactive
          /\ returned' = PivotAndFilter(toSync, DOMAIN listing,
                                        {f \in Feeds : SessionFeed(f) # NULL})
          /\ dbFeed' = [f \in Feeds |-> SessionFeed(f)]
          /\ dbGroup' = [k \in Keys |-> SessionGroup(k)]
          /\ fw' = NoFeedWrites
          /\ gw' = NoGroupWrites
          /\ outcome' = "ok"
          /\ spc' = "plan"
          /\ UNCHANGED nonFeedError
    /\ UNCHANGED <<provider, toSync, listing, loaded, todo, failed, inactive,
                   plan, report, before, wish, gwish>>

(* Reload: db_feeds = _pivot_and_filter_feeds_by_config(..., get_all_feeds(db)), *)
(* then db.commit().  The reload query raises on a dead transaction.      *)
CommitSync ==
    /\ spc = "reload"
    /\ \/ /\ inactive
          /\ Rollback
          /\ UNCHANGED <<dbFeed, dbGroup, returned, nonFeedError>>
       \/ /\ ~inactive
          /\ Rollback
          /\ nonFeedError' = TRUE
          /\ UNCHANGED <<dbFeed, dbGroup, returned>>
       \/ /\ ~inactive
          /\ returned' = PivotAndFilter(toSync, DOMAIN listing,
                                        {f \in Feeds : SessionFeed(f) # NULL})
          /\ dbFeed' = [f \in Feeds |-> SessionFeed(f)]
          /\ dbGroup' = [k \in Keys |-> SessionGroup(k)]
          /\ fw' = NoFeedWrites
          /\ gw' = NoGroupWrites
          /\ outcome' = "ok"
          /\ spc' = "plan"
          /\ UNCHANGED nonFeedError
    /\ UNCHANGED <<provider, toSync, listing, loaded, todo, failed, inactive,
                   plan, report, before, wish, gwish>>

-----------------------------------------------------------------------------
(***************************************************************************)
(* get_groups_to_download over the returned feeds.  Legacy: every enabled *)
(* group of every enabled feed that has a record.  Govulners: one         *)
(* synthetic group, named after the listing's first group, when the      *)
(* first feed is enabled.                                                  *)
(***************************************************************************)
LegacyGroupsToDownload ==
    {k \in Keys : /\ k[1] \in returned
                  /\ dbFeed[k[1]] # NULL
                  /\ dbFeed[k[1]].enabled
                  /\ dbGroup[k] # NULL
                  /\ dbGroup[k].enabled}

GovulnersGroupsToDownload ==
    LET f == CHOOSE x \in returned : TRUE
        g == CHOOSE y \in DOMAIN listing[GovulnersFeed].groups : TRUE
    IN IF dbFeed[f].enabled THEN {<<f, g>>} ELSE {}

PlanDownloads ==
    /\ spc = "plan"
    /\ provider = "govulners" => returned # {}
    /\ plan' = IF provider = "legacy" THEN LegacyGroupsToDownload
               ELSE GovulnersGroupsToDownload
    /\ spc' = "download"
    /\ UNCHANGED <<dbFeed, dbGroup, fw, gw, provider, toSync, listing, loaded,
                   todo, failed, inactive, returned, outcome, report,
                   nonFeedError, before, wish, gwish>>

(* retrieve_group_result: the legacy provider passes the group's own      *)
(* result through; the govulners provider builds a GroupSyncResult with   *)
(* status "success" from the first group's timing.                        *)
RetrieveGroupResult(ok) ==
    [status |-> IF provider = "govulners" \/ ok THEN "success" ELSE "failure",
     ok |-> ok]

(* The caller downloads and loads one planned group; a group loaded       *)
(* successfully gets its last_sync stamped.                                *)
DownloadGroup ==
    /\ spc = "download"
    /\ \E k \in plan, ok \in BOOLEAN :
         /\ plan' = plan \ {k}
         /\ report' = [report EXCEPT ![k] = RetrieveGroupResult(ok)]
         /\ dbGroup' = IF ok /\ dbGroup[k] # NULL
                       THEN [dbGroup EXCEPT ![k].synced = TRUE] ELSE dbGroup
    /\ UNCHANGED <<dbFeed, fw, gw, spc, provider, toSync, listing, loaded, todo,
                   failed, inactive, returned, outcome, nonFeedError, before,
                   wish, gwish>>

EndDownloads ==
    /\ spc = "download"
    /\ plan = {}
    /\ spc' = "idle"
    /\ UNCHANGED <<dbFeed, dbGroup, fw, gw, provider, toSync, listing, loaded,
                   todo, failed, inactive, returned, outcome, plan, report,
                   nonFeedError, before, wish, gwish>>

-----------------------------------------------------------------------------
(* A user enables or disables a feed or a group, in a transaction of its  *)
(* own that commits at once.                                              *)
SetFeedEnabled(f, b) ==
    /\ dbFeed[f] # NULL
    /\ dbFeed' = [dbFeed EXCEPT ![f].enabled = b]
    /\ wish' = [wish EXCEPT ![f] = b]
    /\ UNCHANGED <<dbGroup, gwish, syncVars>>

SetGroupEnabled(k, b) ==
    /\ dbGroup[k] # NULL
    /\ dbGroup' = [dbGroup EXCEPT ![k].enabled = b]
    /\ gwish' = [gwish EXCEPT ![k] = b]
    /\ UNCHANGED <<dbFeed, wish, syncVars>>

-----------------------------------------------------------------------------
Init ==
    /\ dbFeed = [f \in Feeds |-> NULL]
    /\ dbGroup = [k \in Keys |-> NULL]
    /\ fw = NoFeedWrites
    /\ gw = NoGroupWrites
    /\ spc = "idle"
    /\ provider = "legacy"
    /\ toSync = {}
    /\ listing = [x \in {} |-> NULL]
    /\ loaded = {}
    /\ todo = {}
    /\ failed = {}
    /\ inactive = FALSE
    /\ returned = {}
    /\ outcome = "none"
    /\ plan = {}
    /\ report = [k \in Keys |-> NoReport]
    /\ nonFeedError = FALSE
    /\ before = Shape(dbFeed, dbGroup)
    /\ wish = [f \in Feeds |-> NULL]
    /\ gwish = [k \in Keys |-> NULL]

Next ==
    \/ StartSync
    \/ LoadFeeds
    \/ SyncFeed
    \/ EndFeedLoop
    \/ CommitSync
    \/ PlanDownloads
    \/ DownloadGroup
    \/ EndDownloads
    \/ \E f \in Feeds, b \in BOOLEAN : SetFeedEnabled(f, b)
    \/ \E k \in Keys, b \in BOOLEAN : SetGroupEnabled(k, b)

Spec == Init /\ [][Next]_vars

-----------------------------------------------------------------------------
(***************************************************************************)
(* Properties                                                              *)
(***************************************************************************)

(* A feed or group a user disabled is never planned for download: no      *)
(* reconciliation pass, even one running while the user disables it,     *)
(* writes the enabled flag of an existing record back (the upsert in      *)
(* _sync_feed_metadata / _sync_feed_group_metadata instead of a merge).   *)
DisabledNeverPlanned ==
    [][spc = "plan" /\ spc' = "download" =>
         \A k \in plan' : wish[k[1]] # FALSE /\ gwish[k] # FALSE]_vars

(* A group's last_sync, once stamped, is never reset by a later          *)
(* reconciliation pass (spec: last_sync is never overwritten).            *)
LastSyncNeverReset ==
    [][\A k \in Keys : dbGroup[k] # NULL /\ dbGroup[k].synced =>
                          dbGroup'[k] # NULL /\ dbGroup'[k].synced]_vars

(* When sync_metadata raises, the rollback leaves every record that        *)
(* reconciliation owns (its existence and display fields) as it was when  *)
(* the sync started: the per-feed flushes commit nothing.                  *)
AbortedSyncChangesNothing ==
    outcome = "raised" => Shape(dbFeed, dbGroup) = before

(* Failure isolation: after a legacy sync that returned, every listed     *)
(* feed not in the failed list is committed with the upstream display     *)
(* fields and with every upstream group, whatever other feeds did.        *)
CommittedFeedsReconciled ==
    outcome = "ok" /\ provider = "legacy" =>
        \A f \in DOMAIN listing \ failed :
            /\ dbFeed[f] # NULL
            /\ dbFeed[f].tier = listing[f].tier
            /\ \A g \in DOMAIN listing[f].groups :
                  /\ dbGroup[<<f, g>>] # NULL
                  /\ dbGroup[<<f, g>>].tier = listing[f].groups[g]

(* Spec 4.3: an exception raised while processing one feed is recorded   *)
(* and the other feeds still commit; only an error outside the per-feed  *)
(* boundary rolls the whole sync back.                                     *)
FeedErrorsIsolated ==
    outcome = "raised" => nonFeedError

(* sync_metadata's docstring: the returned records include only those     *)
(* successfully updated from upstream, not the failed feeds.              *)
ReturnedOnlySucceeded ==
    outcome = "ok" => returned \cap failed = {}

-----------------------------------------------------------------------------
(***************************************************************************)
(* The inductive strengthening that the proofs in FeedMetadataSyncProofs  *)
(* use.                                                                    *)
(***************************************************************************)

(* What each phase of sync_metadata has set up: the listing is restricted *)
(* to to_sync, which the legacy provider never gives govulnersdb and the  *)
(* govulners provider gives nothing else; the reload runs after the loop; *)
(* the session holds writes only inside the unit of work; and db_feeds    *)
(* names exactly the listed feeds that have a committed record.            *)
SyncPhases ==
    /\ DOMAIN listing \subseteq toSync
    /\ returned \subseteq DOMAIN listing
    /\ provider = "legacy" => GovulnersFeed \notin toSync
    /\ provider = "govulners" =>
           /\ toSync \subseteq {GovulnersFeed}
           /\ \A x \in DOMAIN listing : DOMAIN listing[x].groups # {}
    /\ spc \in {"load", "feeds", "reload"} => outcome = "none"
    /\ spc = "load" => todo = DOMAIN listing /\ failed = {}
    /\ spc = "reload" => todo = {}
    /\ spc \notin {"feeds", "reload"} => fw = NoFeedWrites /\ gw = NoGroupWrites
    /\ spc \in {"feeds", "reload"} =>
           \A f \in DOMAIN listing : f \in loaded <=> dbFeed[f] # NULL

(* The session INSERTs only a row that is not committed, with every      *)
(* column set, and writes the enabled and last_sync columns of no existing *)
(* row.                                                                    *)
FeedWriteOK(w, row) ==
    /\ w.new => w.enabled \in BOOLEAN /\ w.tier \in Tiers /\ row = NULL
    /\ ~w.new => w.enabled = NULL

GroupWriteOK(w, row) ==
    /\ w.new => /\ w.enabled \in BOOLEAN /\ w.synced \in BOOLEAN
                /\ w.tier \in Tiers /\ row = NULL
    /\ ~w.new => w.enabled = NULL /\ w.synced = NULL

(* Every write of the session is well formed, and it never writes a group *)
(* of govulnersdb, which has no committed groups.                         *)
WritesWellFormed ==
    /\ \A f \in Feeds : FeedWriteOK(fw[f], dbFeed[f])
    /\ \A k \in Keys : GroupWriteOK(gw[k], dbGroup[k])
    /\ \A k \in Keys : k[1] = GovulnersFeed => dbGroup[k] = NULL /\ ~gw[k].new

(* The last value a user gave a flag is the committed one when it is a    *)
(* disable.                                                                *)
WishesKept ==
    /\ \A f \in Feeds : wish[f] = FALSE => dbFeed[f] # NULL /\ ~dbFeed[f].enabled
    /\ \A k \in Keys : gwish[k] = FALSE => dbGroup[k] # NULL /\ ~dbGroup[k].enabled

(* The returned records exist. *)
ReturnedExist == \A f \in returned : dbFeed[f] # NULL

(* Until the commit, and after a rollback, the committed shape is the one *)
(* the sync started from.                                                  *)
ShapeKept ==
    (spc \in {"load", "feeds", "reload"} \/ outcome = "raised")
        => Shape(dbFeed, dbGroup) = before

(* The session's view of feed f carries the upstream display fields of   *)
(* f and of every upstream group of f.                                    *)
SessionReconciled(f) ==
    /\ SessionFeed(f) # NULL
    /\ SessionFeed(f).tier = listing[f].tier
    /\ \A g \in DOMAIN listing[f].groups :
           /\ SessionGroup(<<f, g>>) # NULL
           /\ SessionGroup(<<f, g>>).tier = listing[f].groups[g]

(* In a legacy sync, every feed the loop has processed without failing is *)
(* reconciled in the session.                                              *)
ProcessedReconciled ==
    (spc \in {"feeds", "reload"} /\ provider = "legacy") =>
        \A f \in DOMAIN listing \ (todo \cup failed) : SessionReconciled(f)

SInv ==
    /\ TypeOK /\ SyncPhases /\ WritesWellFormed /\ WishesKept /\ ReturnedExist
    /\ ShapeKept /\ ProcessedReconciled /\ CommittedFeedsReconciled

=============================================================================
