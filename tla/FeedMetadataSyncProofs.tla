------------------------ MODULE FeedMetadataSyncProofs ------------------------
(***************************************************************************)
(* Proofs about FeedMetadataSync for any feeds, groups and display values. *)
(***************************************************************************)
EXTENDS FeedMetadataSync, TLAPS

USE FeedSyncAssumption, NullNotRecord

(* Apply on an INSERT: the row the session added. *)
LEMMA ApplyFeedNew ==
    ASSUME NEW row, NEW w \in FWrite, w.new
    PROVE  Apply(row, w) = [enabled |-> w.enabled, tier |-> w.tier]
BY DEF Apply, FWrite

(* Apply on an UPDATE of a committed row: the columns written over it. *)
LEMMA ApplyFeedOld ==
    ASSUME NEW row \in FRec, NEW w \in FWrite, ~w.new
    PROVE  Apply(row, w) = [enabled |-> IF w.enabled # NULL THEN w.enabled ELSE row.enabled,
                            tier |-> IF w.tier # NULL THEN w.tier ELSE row.tier]
BY DEF Apply, FWrite, FRec

(* Apply on an INSERT of a group row. *)
LEMMA ApplyGroupNew ==
    ASSUME NEW row, NEW w \in GWrite, w.new
    PROVE  Apply(row, w) = [enabled |-> w.enabled, synced |-> w.synced, tier |-> w.tier]
BY DEF Apply, GWrite

(* Apply on an UPDATE of a committed group row. *)
LEMMA ApplyGroupOld ==
    ASSUME NEW row \in GRec, NEW w \in GWrite, ~w.new
    PROVE  Apply(row, w) = [enabled |-> IF w.enabled # NULL THEN w.enabled ELSE row.enabled,
                            synced |-> IF w.synced # NULL THEN w.synced ELSE row.synced,
                            tier |-> IF w.tier # NULL THEN w.tier ELSE row.tier]
BY DEF Apply, GWrite, GRec

(* Apply on nothing: no row. *)
LEMMA ApplyNone ==
    ASSUME NEW w, ~w.new
    PROVE  Apply(NULL, w) = NULL
BY DEF Apply

(* The listing's type, as a function on its domain. *)
ListingsSet == UNION {[S -> ApiFeeds] : S \in SUBSET Feeds}

(* A listing is a function from some feeds to upstream feed records. *)
LEMMA ListingIn ==
    ASSUME NEW l
    PROVE  l \in ListingsSet <=> DOMAIN l \subseteq Feeds /\ l \in [DOMAIN l -> ApiFeeds]
BY DEF ListingsSet

(* What one upstream feed record holds. *)
LEMMA ApiFeedFields ==
    ASSUME NEW a \in ApiFeeds
    PROVE  /\ a.tier \in Tiers
           /\ DOMAIN a.groups \subseteq Groups
           /\ a.groups \in [DOMAIN a.groups -> Tiers]
BY DEF ApiFeeds

(* Every source listing a provider can be handed is a well-typed listing   *)
(* of feeds of to_sync, and a govulners listing gives each feed a group.   *)
LEMMA ListingsType ==
    ASSUME NEW p \in Providers, NEW ts \in SUBSET Feeds, NEW l \in Listings(p, ts)
    PROVE  /\ l \in ListingsSet
           /\ DOMAIN l \subseteq ts
           /\ p = "govulners" => \A x \in DOMAIN l : DOMAIN l[x].groups # {}
<1>1. CASE p = "legacy"
  BY <1>1, ListingIn DEF Listings
<1>2. CASE p = "govulners"
  <2>1. l = [x \in ts |-> SyntheticFeed]
    BY <1>2 DEF Listings
  <2>2. SyntheticFeed \in ApiFeeds
    <3>1. SyntheticFeed \in [tier : Tiers, groups : [{GovulnersGroup} -> Tiers]]
      BY FeedSyncAssumption DEF SyntheticFeed
    <3>2. {GovulnersGroup} \in SUBSET Groups
      BY FeedSyncAssumption
    <3>3. \E G \in SUBSET Groups : SyntheticFeed \in [tier : Tiers, groups : [G -> Tiers]]
      BY <3>1, <3>2
    <3>4. QED
      BY <3>3 DEF ApiFeeds
  <2>3. DOMAIN SyntheticFeed.groups # {}
    BY DEF SyntheticFeed
  <2>4. QED
    BY <2>1, <2>2, <2>3, ListingIn
<1>3. QED
  BY <1>1, <1>2 DEF Providers

(* The committed state is that of FeedMetadataSync; the variables a step   *)
(* of sync_metadata or of a user may leave alone.                          *)
LEMMA FeedsToSyncType ==
    ASSUME NEW p \in Providers, NEW c \in ConfigChoices
    PROVE  /\ FeedsToSync(p, c) \subseteq Feeds
           /\ p = "legacy" => GovulnersFeed \notin FeedsToSync(p, c)
           /\ p = "govulners" => FeedsToSync(p, c) \subseteq {GovulnersFeed}
BY DEF FeedsToSync, Providers

(* sync_metadata starting, or returning at once with nothing to sync.     *)
LEMMA StartSyncSInv ==
    ASSUME SInv, StartSync
    PROVE  SInv'
<1> USE DEF SInv
<1>1. PICK p \in Providers, c \in ConfigChoices :
        LET ts == FeedsToSync(p, c) IN
        /\ provider' = p /\ toSync' = ts /\ failed' = {} /\ returned' = {}
        /\ plan' = {} /\ report' = [k \in Keys |-> NoReport]
        /\ inactive' = FALSE /\ nonFeedError' = FALSE
        /\ before' = Shape(dbFeed, dbGroup)
        /\ IF ts = {}
           THEN /\ outcome' = "ok" /\ listing' = [x \in {} |-> NULL]
                /\ todo' = {} /\ spc' = spc
           ELSE /\ \E l \in Listings(p, ts) : listing' = l /\ todo' = DOMAIN l
                /\ outcome' = "none" /\ spc' = "load"
  BY DEF StartSync
<1> DEFINE ts == FeedsToSync(p, c)
<1>2. UNCHANGED <<dbFeed, dbGroup, fw, gw, loaded, wish, gwish>> /\ spc = "idle"
  BY DEF StartSync
<1>3. fw = NoFeedWrites /\ gw = NoGroupWrites
  BY <1>2 DEF SyncPhases
<1>4. ts \subseteq Feeds /\ (p = "legacy" => GovulnersFeed \notin ts)
      /\ (p = "govulners" => ts \subseteq {GovulnersFeed})
  BY FeedsToSyncType
<1>5. /\ listing' \in ListingsSet /\ DOMAIN listing' \subseteq ts /\ todo' = DOMAIN listing'
      /\ (p = "govulners" => \A x \in DOMAIN listing' : DOMAIN listing'[x].groups # {})
      /\ (spc' = "load" \/ (spc' = "idle" /\ DOMAIN listing' = {}))
      /\ (outcome' = "ok" => DOMAIN listing' = {})
      /\ outcome' \in {"ok", "none"}
  <2>1. CASE ts = {}
    <3>1. [x \in {} |-> NULL] \in ListingsSet
      BY ListingIn
    <3>2. QED
      BY <1>1, <1>2, <2>1, <3>1
  <2>2. CASE ts # {}
    <3>1. PICK l \in Listings(p, ts) : listing' = l /\ todo' = DOMAIN l
      BY <1>1, <2>2
    <3>2. QED
      BY <1>1, <1>4, <2>2, <3>1, ListingsType
  <2>3. QED
    BY <2>1, <2>2
<1>6. TypeOK'
  <2>1. NoReport \in Reports
    BY DEF NoReport, Reports, Statuses
  <2>2. listing' \in UNION {[S -> ApiFeeds] : S \in SUBSET Feeds}
    BY <1>5 DEF ListingsSet
  <2>3. report' \in [Keys -> Reports] /\ toSync' \subseteq Feeds
    BY <1>1, <1>4, <2>1
  <2>4. spc' \in Phases /\ outcome' \in Outcomes /\ provider' \in Providers
    BY <1>1, <1>5 DEF Phases, Outcomes
  <2>5. QED
    BY <1>1, <1>2, <1>5, <2>2, <2>3, <2>4 DEF TypeOK
<1>7. SyncPhases'
  BY <1>1, <1>2, <1>3, <1>4, <1>5 DEF SyncPhases
<1>8. (WritesWellFormed /\ WishesKept /\ ReturnedExist /\ ShapeKept)'
  BY <1>1, <1>2 DEF WritesWellFormed, WishesKept, ReturnedExist, ShapeKept
<1>9. (ProcessedReconciled /\ CommittedFeedsReconciled)'
  BY <1>5 DEF ProcessedReconciled, CommittedFeedsReconciled
<1>10. QED
  BY <1>6, <1>7, <1>8, <1>9

(* A session with no writes. *)
LEMMA NoWritesType ==
    /\ NoFeedWrites \in [Feeds -> FWrite]
    /\ NoGroupWrites \in [Keys -> GWrite]
    /\ \A f \in Feeds : ~NoFeedWrites[f].new /\ NoFeedWrites[f].enabled = NULL
    /\ \A k \in Keys : ~NoGroupWrites[k].new /\ NoGroupWrites[k].enabled = NULL
                       /\ NoGroupWrites[k].synced = NULL
BY DEF NoFeedWrites, NoGroupWrites, FNoWrite, GNoWrite, FWrite, GWrite

(* db.rollback() in the except branch of the unit of work, from any phase *)
(* before the commit: the session's writes are dropped and nothing was   *)
(* committed.                                                              *)
LEMMA RollbackSInv ==
    ASSUME SInv, Rollback, spc \in {"load", "feeds", "reload"},
           nonFeedError' \in BOOLEAN,
           UNCHANGED <<dbFeed, dbGroup, provider, toSync, listing, loaded, todo,
                       failed, inactive, returned, plan, report, before, wish, gwish>>
    PROVE  SInv'
<1> USE DEF SInv
<1>1. TypeOK'
  BY NoWritesType DEF Rollback, TypeOK, Phases, Outcomes
<1>2. SyncPhases'
  BY DEF Rollback, SyncPhases
<1>3. WritesWellFormed'
  BY NoWritesType DEF Rollback, WritesWellFormed, FeedWriteOK, GroupWriteOK
<1>4. (WishesKept /\ ReturnedExist)'
  BY DEF WishesKept, ReturnedExist
<1>5. ShapeKept'
  BY DEF Rollback, ShapeKept
<1>6. (ProcessedReconciled /\ CommittedFeedsReconciled)'
  BY DEF Rollback, ProcessedReconciled, CommittedFeedsReconciled
<1>7. QED
  BY <1>1, <1>2, <1>3, <1>4, <1>5, <1>6

(* _pivot_and_filter_feeds_by_config over the committed feeds. *)
LEMMA LoadFeedsSInv ==
    ASSUME SInv, LoadFeeds
    PROVE  SInv'
<1> USE DEF SInv
<1>1. CASE Rollback /\ nonFeedError' = TRUE /\ UNCHANGED loaded
  BY <1>1, RollbackSInv DEF LoadFeeds
<1>2. CASE /\ loaded' = PivotAndFilter(toSync, DOMAIN listing,
                                       {f \in Feeds : dbFeed[f] # NULL})
           /\ spc' = "feeds"
           /\ UNCHANGED <<fw, gw, outcome, nonFeedError>>
  <2>1. spc = "load" /\ todo = DOMAIN listing /\ failed = {}
        /\ UNCHANGED <<dbFeed, dbGroup, provider, toSync, listing, todo, failed,
                       inactive, returned, plan, report, before, wish, gwish>>
    BY DEF LoadFeeds, SyncPhases
  <2>2. TypeOK'
    BY <1>2, <2>1 DEF TypeOK, PivotAndFilter, Phases
  <2>3. SyncPhases'
    <3>1. DOMAIN listing \subseteq Feeds /\ DOMAIN listing \subseteq toSync
      BY ListingIn DEF TypeOK, ListingsSet, SyncPhases
    <3>2. \A f \in DOMAIN listing : f \in loaded' <=> dbFeed[f] # NULL
      BY <1>2, <3>1 DEF PivotAndFilter
    <3>3. QED
      BY <1>2, <2>1, <3>2 DEF SyncPhases
  <2>4. (WritesWellFormed /\ WishesKept /\ ReturnedExist)'
    BY <1>2, <2>1 DEF WritesWellFormed, WishesKept, ReturnedExist
  <2>5. ShapeKept'
    BY <1>2, <2>1 DEF ShapeKept
  <2>6. ProcessedReconciled'
    BY <1>2, <2>1 DEF ProcessedReconciled
  <2>7. CommittedFeedsReconciled'
    BY <1>2, <2>1 DEF CommittedFeedsReconciled
  <2>8. QED
    BY <2>2, <2>3, <2>4, <2>5, <2>6, <2>7
<1>3. QED
  BY <1>1, <1>2 DEF LoadFeeds

(* The session's view of a group: a row, or none exactly when the session *)
(* neither inserted nor found one.                                         *)
LEMMA SessionGroupFacts ==
    ASSUME TypeOK, WritesWellFormed, NEW k \in Keys
    PROVE  /\ SessionGroup(k) \in GRec \cup {NULL}
           /\ SessionGroup(k) = NULL <=> ~gw[k].new /\ dbGroup[k] = NULL
<1>1. gw[k] \in GWrite /\ dbGroup[k] \in GRec \cup {NULL}
  BY DEF TypeOK
<1>2. CASE gw[k].new
  <2>1. SessionGroup(k) = [enabled |-> gw[k].enabled, synced |-> gw[k].synced, tier |-> gw[k].tier]
    BY <1>1, <1>2, ApplyGroupNew DEF SessionGroup
  <2>2. SessionGroup(k) \in GRec
    BY <1>2, <2>1 DEF WritesWellFormed, GroupWriteOK, GRec
  <2>3. QED
    BY <1>2, <2>2
<1>3. CASE ~gw[k].new /\ dbGroup[k] = NULL
  BY <1>3, ApplyNone DEF SessionGroup
<1>4. CASE ~gw[k].new /\ dbGroup[k] # NULL
  <2>1. SessionGroup(k) = [enabled |-> dbGroup[k].enabled, synced |-> dbGroup[k].synced,
                           tier |-> IF gw[k].tier # NULL THEN gw[k].tier ELSE dbGroup[k].tier]
    BY <1>1, <1>4, ApplyGroupOld DEF SessionGroup, WritesWellFormed, GroupWriteOK
  <2>2. SessionGroup(k) \in GRec
    BY <1>1, <1>4, <2>1 DEF GRec, GWrite
  <2>3. QED
    BY <1>4, <2>2
<1>5. QED
  BY <1>2, <1>3, <1>4

(* What the session sees of a feed row: a record or nothing, present    *)
(* exactly when committed or inserted.                                   *)
LEMMA SessionFeedFacts ==
    ASSUME TypeOK, WritesWellFormed, NEW f \in Feeds
    PROVE  /\ SessionFeed(f) \in FRec \cup {NULL}
           /\ SessionFeed(f) = NULL <=> ~fw[f].new /\ dbFeed[f] = NULL
<1>1. fw[f] \in FWrite /\ dbFeed[f] \in FRec \cup {NULL}
  BY DEF TypeOK
<1>2. CASE fw[f].new
  <2>1. SessionFeed(f) = [enabled |-> fw[f].enabled, tier |-> fw[f].tier]
    BY <1>1, <1>2, ApplyFeedNew DEF SessionFeed
  <2>2. SessionFeed(f) \in FRec
    BY <1>2, <2>1 DEF WritesWellFormed, FeedWriteOK, FRec
  <2>3. QED
    BY <1>2, <2>2
<1>3. CASE ~fw[f].new /\ dbFeed[f] = NULL
  BY <1>3, ApplyNone DEF SessionFeed
<1>4. CASE ~fw[f].new /\ dbFeed[f] # NULL
  <2>1. SessionFeed(f) = [enabled |-> dbFeed[f].enabled,
                          tier |-> IF fw[f].tier # NULL THEN fw[f].tier ELSE dbFeed[f].tier]
    BY <1>1, <1>4, ApplyFeedOld DEF SessionFeed, WritesWellFormed, FeedWriteOK
  <2>2. SessionFeed(f) \in FRec
    BY <1>1, <1>4, <2>1 DEF FRec, FWrite
  <2>3. QED
    BY <1>4, <2>2
<1>5. QED
  BY <1>2, <1>3, <1>4

(* What the loop body writes for feed f, and for one of its groups k with *)
(* upstream display value t.                                              *)
FeedWriteAt(f) ==
    IF provider = "legacy"
    THEN [FeedMetadataWrite(f) EXCEPT !.tier = listing[f].tier]
    ELSE FeedMetadataWrite(f)

GroupWriteAt(k, t) ==
    IF SessionGroup(k) = NULL
    THEN [new |-> TRUE, enabled |-> TRUE, synced |-> FALSE, tier |-> t]
    ELSE [gw[k] EXCEPT !.tier = t]

(* The writes _sync_feed_group_metadata stages for one group key. *)
LEMMA GroupMetadataWritesAt ==
    ASSUME NEW f, NEW S, NEW k \in Keys
    PROVE  GroupMetadataWrites(f, S)[k] =
               IF k[1] = f /\ k[2] \in S
               THEN GroupWriteAt(k, listing[f].groups[k[2]]) ELSE gw[k]
BY DEF GroupMetadataWrites, GroupWriteAt

(* A group write is well formed, and the session then sees the group with *)
(* the upstream display value.                                             *)
LEMMA GroupWriteFacts ==
    ASSUME TypeOK, WritesWellFormed, NEW k \in Keys, NEW t \in Tiers
    PROVE  /\ GroupWriteAt(k, t) \in GWrite
           /\ GroupWriteOK(GroupWriteAt(k, t), dbGroup[k])
           /\ Apply(dbGroup[k], GroupWriteAt(k, t)) # NULL
           /\ Apply(dbGroup[k], GroupWriteAt(k, t)).tier = t
<1>1. gw[k] \in GWrite /\ dbGroup[k] \in GRec \cup {NULL} /\ GroupWriteOK(gw[k], dbGroup[k])
  BY DEF TypeOK, WritesWellFormed
<1>2. CASE SessionGroup(k) = NULL
  <2>1. ~gw[k].new /\ dbGroup[k] = NULL
    BY <1>2, SessionGroupFacts
  <2>2. GroupWriteAt(k, t) = [new |-> TRUE, enabled |-> TRUE, synced |-> FALSE, tier |-> t]
    BY <1>2 DEF GroupWriteAt
  <2>3. Apply(dbGroup[k], GroupWriteAt(k, t)) = [enabled |-> TRUE, synced |-> FALSE, tier |-> t]
    BY <2>2, ApplyGroupNew DEF GWrite
  <2>4. [enabled |-> TRUE, synced |-> FALSE, tier |-> t] \in GRec
    BY DEF GRec
  <2>5. QED
    BY <2>1, <2>2, <2>3, <2>4 DEF GWrite, GroupWriteOK
<1>3. CASE SessionGroup(k) # NULL
  <2>1. GroupWriteAt(k, t) = [gw[k] EXCEPT !.tier = t]
    BY <1>3 DEF GroupWriteAt
  <2>2. GroupWriteAt(k, t) \in GWrite /\ GroupWriteOK(GroupWriteAt(k, t), dbGroup[k])
    BY <1>1, <2>1 DEF GWrite, GroupWriteOK
  <2>3. CASE gw[k].new
    <3>1. Apply(dbGroup[k], GroupWriteAt(k, t)) =
            [enabled |-> gw[k].enabled, synced |-> gw[k].synced, tier |-> t]
      BY <1>1, <2>1, <2>2, <2>3, ApplyGroupNew DEF GWrite
    <3>2. [enabled |-> gw[k].enabled, synced |-> gw[k].synced, tier |-> t] \in GRec
      BY <1>1, <2>3 DEF GRec, GroupWriteOK
    <3>3. QED
      BY <2>2, <3>1, <3>2
  <2>4. CASE ~gw[k].new
    <3>1. dbGroup[k] \in GRec
      BY <1>1, <1>3, <2>4, SessionGroupFacts
    <3>2. Apply(dbGroup[k], GroupWriteAt(k, t)) =
            [enabled |-> dbGroup[k].enabled, synced |-> dbGroup[k].synced, tier |-> t]
      BY <1>1, <2>1, <2>2, <2>4, <3>1, ApplyGroupOld DEF GWrite, GroupWriteOK
    <3>3. [enabled |-> dbGroup[k].enabled, synced |-> dbGroup[k].synced, tier |-> t] \in GRec
      BY <3>1 DEF GRec
    <3>4. QED
      BY <2>2, <3>2, <3>3
  <2>5. QED
    BY <2>3, <2>4
<1>4. QED
  BY <1>2, <1>3

(* The feed write of the loop body is well formed; the session then sees *)
(* the feed, with the upstream display fields when the legacy provider    *)
(* assigns them.                                                           *)
LEMMA FeedWriteFacts ==
    ASSUME TypeOK, SyncPhases, WritesWellFormed, spc = "feeds", NEW f \in DOMAIN listing
    PROVE  /\ FeedWriteAt(f) \in FWrite
           /\ FeedWriteOK(FeedWriteAt(f), dbFeed[f])
           /\ Apply(dbFeed[f], FeedWriteAt(f)) # NULL
           /\ provider = "legacy" => Apply(dbFeed[f], FeedWriteAt(f)).tier = listing[f].tier
<1>1. f \in Feeds /\ listing[f].tier \in Tiers
  BY ListingIn, ApiFeedFields DEF TypeOK, ListingsSet
<1>2. fw[f] \in FWrite /\ dbFeed[f] \in FRec \cup {NULL} /\ FeedWriteOK(fw[f], dbFeed[f])
  BY <1>1 DEF TypeOK, WritesWellFormed
<1>3. CASE f \notin loaded
  <2>1. dbFeed[f] = NULL
    BY <1>3 DEF SyncPhases
  <2>2. FeedWriteAt(f) = [new |-> TRUE, enabled |-> TRUE, tier |-> listing[f].tier]
    BY <1>3 DEF FeedWriteAt, FeedMetadataWrite
  <2>3. Apply(dbFeed[f], FeedWriteAt(f)) = [enabled |-> TRUE, tier |-> listing[f].tier]
    BY <1>1, <2>2, ApplyFeedNew DEF FWrite
  <2>4. [enabled |-> TRUE, tier |-> listing[f].tier] \in FRec
    BY <1>1 DEF FRec
  <2>5. QED
    BY <1>1, <2>1, <2>2, <2>3, <2>4 DEF FWrite, FeedWriteOK
<1>4. CASE f \in loaded
  <2>1. dbFeed[f] \in FRec /\ ~fw[f].new
    BY <1>2, <1>4 DEF SyncPhases, FeedWriteOK
  <2>2. FeedWriteAt(f) = IF provider = "legacy" THEN [fw[f] EXCEPT !.tier = listing[f].tier]
                         ELSE fw[f]
    BY <1>4 DEF FeedWriteAt, FeedMetadataWrite
  <2>3. FeedWriteAt(f) \in FWrite /\ FeedWriteOK(FeedWriteAt(f), dbFeed[f])
        /\ ~FeedWriteAt(f).new
    BY <1>1, <1>2, <2>1, <2>2 DEF FWrite, FeedWriteOK
  <2>4. Apply(dbFeed[f], FeedWriteAt(f)) =
          [enabled |-> IF FeedWriteAt(f).enabled # NULL THEN FeedWriteAt(f).enabled ELSE dbFeed[f].enabled,
           tier |-> IF FeedWriteAt(f).tier # NULL THEN FeedWriteAt(f).tier ELSE dbFeed[f].tier]
    BY <2>1, <2>3, ApplyFeedOld
  <2>5. provider = "legacy" => FeedWriteAt(f).tier = listing[f].tier
    BY <1>2, <2>2 DEF FWrite
  <2>6. Apply(dbFeed[f], FeedWriteAt(f)) \in FRec
    BY <2>1, <2>3, <2>4 DEF FRec, FWrite, FeedWriteOK
  <2>7. QED
    BY <1>1, <2>3, <2>4, <2>5, <2>6
<1>5. QED
  BY <1>3, <1>4

(* One iteration of the loop over the source feeds.  Either it writes     *)
(* nothing (a dead transaction, or a flush that kills it) and the feed    *)
(* fails, or it writes the feed and some of its groups, and the feed      *)
(* fails unless the group pass reached every group.                        *)
LEMMA SyncFeedSInv ==
    ASSUME SInv, SyncFeed
    PROVE  SInv'
<1> USE DEF SInv
<1>1. PICK f \in todo :
        /\ todo' = todo \ {f}
        /\ \/ /\ fw' = fw /\ gw' = gw /\ inactive' \in BOOLEAN
              /\ failed' \in {failed, failed \cup {f}}
              /\ provider = "legacy" => f \in failed'
           \/ /\ inactive' = inactive
              /\ \E S \in SUBSET DOMAIN listing[f].groups :
                    /\ FeedWrites(f, S)
                    /\ \/ failed' = failed \cup {f}
                       \/ failed' = failed /\ S = DOMAIN listing[f].groups
  BY DEF SyncFeed, TypeOK
<1>2. /\ spc = "feeds" /\ f \in DOMAIN listing /\ f \in Feeds
      /\ UNCHANGED <<dbFeed, dbGroup, spc, provider, toSync, listing, loaded,
                     returned, outcome, plan, report, nonFeedError, before, wish, gwish>>
  BY ListingIn DEF SyncFeed, TypeOK, ListingsSet
<1>3. (SyncPhases /\ WishesKept /\ ReturnedExist /\ ShapeKept /\ CommittedFeedsReconciled)'
  BY <1>2 DEF SyncPhases, WishesKept, ReturnedExist, ShapeKept, CommittedFeedsReconciled, Shape
<1>4. CASE /\ fw' = fw /\ gw' = gw /\ inactive' \in BOOLEAN
           /\ failed' \in {failed, failed \cup {f}}
           /\ provider = "legacy" => f \in failed'
  <2>1. TypeOK'
    BY <1>1, <1>2, <1>4 DEF TypeOK
  <2>2. WritesWellFormed'
    BY <1>2, <1>4 DEF WritesWellFormed
  <2>3. ProcessedReconciled'
    BY <1>1, <1>2, <1>4 DEF ProcessedReconciled, SessionReconciled, SessionFeed, SessionGroup
  <2>4. QED
    BY <1>3, <2>1, <2>2, <2>3
<1>5. CASE /\ inactive' = inactive
           /\ \E S \in SUBSET DOMAIN listing[f].groups :
                 /\ FeedWrites(f, S)
                 /\ \/ failed' = failed \cup {f}
                    \/ failed' = failed /\ S = DOMAIN listing[f].groups
  <2>1. PICK S \in SUBSET DOMAIN listing[f].groups :
          /\ FeedWrites(f, S)
          /\ \/ failed' = failed \cup {f}
             \/ failed' = failed /\ S = DOMAIN listing[f].groups
    BY <1>5
  <2>2. /\ fw' = [fw EXCEPT ![f] = FeedWriteAt(f)]
        /\ gw' = IF provider = "legacy" THEN GroupMetadataWrites(f, S) ELSE gw
    BY <2>1 DEF FeedWrites, FeedWriteAt
  <2>3. /\ FeedWriteAt(f) \in FWrite
        /\ FeedWriteOK(FeedWriteAt(f), dbFeed[f])
        /\ Apply(dbFeed[f], FeedWriteAt(f)) # NULL
        /\ provider = "legacy" => Apply(dbFeed[f], FeedWriteAt(f)).tier = listing[f].tier
    BY <1>2, FeedWriteFacts
  <2>4. listing[f] \in ApiFeeds
    BY <1>2, ListingIn DEF TypeOK, ListingsSet
  <2>5. \A k \in Keys :
          /\ gw'[k] \in GWrite
          /\ GroupWriteOK(gw'[k], dbGroup[k])
          /\ k[1] # f => gw'[k] = gw[k]
          /\ (provider = "legacy" /\ k[1] = f /\ k[2] \in S) =>
                 /\ Apply(dbGroup[k], gw'[k]) # NULL
                 /\ Apply(dbGroup[k], gw'[k]).tier = listing[f].groups[k[2]]
    <3> SUFFICES ASSUME NEW k \in Keys
                 PROVE  /\ gw'[k] \in GWrite
                        /\ GroupWriteOK(gw'[k], dbGroup[k])
                        /\ k[1] # f => gw'[k] = gw[k]
                        /\ (provider = "legacy" /\ k[1] = f /\ k[2] \in S) =>
                               /\ Apply(dbGroup[k], gw'[k]) # NULL
                               /\ Apply(dbGroup[k], gw'[k]).tier = listing[f].groups[k[2]]
      OBVIOUS
    <3>1. CASE provider = "legacy" /\ k[1] = f /\ k[2] \in S
      <4>1. listing[f].groups[k[2]] \in Tiers
        BY <2>4, <3>1, ApiFeedFields
      <4>2. gw'[k] = GroupWriteAt(k, listing[f].groups[k[2]])
        BY <2>2, <3>1, GroupMetadataWritesAt
      <4>3. QED
        BY <3>1, <4>1, <4>2, GroupWriteFacts
    <3>2. CASE ~(provider = "legacy" /\ k[1] = f /\ k[2] \in S)
      <4>1. gw'[k] = gw[k]
        BY <2>2, <3>2, GroupMetadataWritesAt
      <4>2. QED
        BY <3>2, <4>1 DEF TypeOK, WritesWellFormed
    <3>3. QED
      BY <3>1, <3>2
  <2>6. TypeOK'
    <3>1. fw' \in [Feeds -> FWrite]
      BY <1>2, <2>2, <2>3 DEF TypeOK
    <3>a. gw' = [k \in Keys |-> gw'[k]]
      BY <2>2 DEF TypeOK, GroupMetadataWrites
    <3>b. gw' \in [Keys -> GWrite]
      BY <2>5, <3>a, Zenon
    <3>2. QED
      BY <1>1, <1>2, <2>1, <1>5, <3>1, <3>b DEF TypeOK
  <2>7. WritesWellFormed'
    <3>1. \A x \in Feeds : FeedWriteOK(fw'[x], dbFeed'[x])
      BY <1>2, <2>2, <2>3 DEF TypeOK, WritesWellFormed
    <3>2. \A k \in Keys : k[1] = GovulnersFeed => dbGroup'[k] = NULL /\ ~gw'[k].new
      <4>1. CASE provider = "legacy"
        BY <1>2, <2>5, <4>1 DEF SyncPhases, WritesWellFormed
      <4>2. CASE provider # "legacy"
        BY <1>2, <2>2, <4>2 DEF WritesWellFormed
      <4>3. QED
        BY <4>1, <4>2
    <3>3. QED
      BY <1>2, <2>5, <3>1, <3>2 DEF WritesWellFormed
  <2>8. ProcessedReconciled'
    <3> SUFFICES ASSUME provider = "legacy",
                        NEW x \in DOMAIN listing \ (todo' \cup failed')
                 PROVE  SessionReconciled(x)'
      BY <1>2 DEF ProcessedReconciled
    <3>1. CASE x = f
      <4>1. S = DOMAIN listing[f].groups
        BY <2>1, <3>1
      <4>2. SessionFeed(f)' # NULL /\ SessionFeed(f)'.tier = listing[f].tier
        BY <1>2, <2>2, <2>3 DEF SessionFeed, TypeOK
      <4>3. \A g \in DOMAIN listing[f].groups :
              /\ SessionGroup(<<f, g>>)' # NULL
              /\ SessionGroup(<<f, g>>)'.tier = listing[f].groups[g]
        <5> SUFFICES ASSUME NEW g \in DOMAIN listing[f].groups
                     PROVE  /\ SessionGroup(<<f, g>>)' # NULL
                            /\ SessionGroup(<<f, g>>)'.tier = listing[f].groups[g]
          OBVIOUS
        <5>1. <<f, g>> \in Keys
          BY <1>2, <2>4, ApiFeedFields DEF Keys
        <5>2. QED
          BY <1>2, <2>5, <4>1, <5>1 DEF SessionGroup
      <4>4. QED
        BY <1>2, <3>1, <4>2, <4>3 DEF SessionReconciled
    <3>2. CASE x # f
      <4>1. x \in DOMAIN listing \ (todo \cup failed)
        BY <1>1, <2>1, <3>2
      <4>2. SessionReconciled(x)
        BY <1>2, <4>1 DEF ProcessedReconciled
      <4>3. x \in Feeds /\ listing[x] \in ApiFeeds
        BY ListingIn DEF TypeOK, ListingsSet
      <4>4. \A g \in DOMAIN listing[x].groups : <<x, g>> \in Keys /\ gw'[<<x, g>>] = gw[<<x, g>>]
        BY <2>5, <3>2, <4>3, ApiFeedFields DEF Keys
      <4>5. QED
        BY <1>2, <2>2, <3>2, <4>2, <4>3, <4>4 DEF SessionReconciled, SessionFeed,
           SessionGroup, TypeOK
    <3>3. QED
      BY <3>1, <3>2
  <2>9. QED
    BY <1>3, <2>6, <2>7, <2>8
<1>6. QED
  BY <1>1, <1>4, <1>5

(* The loop over the source feeds ends. *)
LEMMA EndFeedLoopSInv ==
    ASSUME SInv, EndFeedLoop
    PROVE  SInv'
<1> USE DEF SInv
<1>1. TypeOK' /\ SyncPhases'
  BY DEF EndFeedLoop, TypeOK, SyncPhases, Phases
<1>2. (WritesWellFormed /\ WishesKept /\ ReturnedExist /\ ShapeKept)'
  BY DEF EndFeedLoop, WritesWellFormed, WishesKept, ReturnedExist, ShapeKept
<1>3. (ProcessedReconciled /\ CommittedFeedsReconciled)'
  BY DEF EndFeedLoop, ProcessedReconciled, SessionReconciled, SessionFeed,
     SessionGroup, CommittedFeedsReconciled
<1>4. QED
  BY <1>1, <1>2, <1>3

(* get_groups_to_download: the govulners provider names the listing's     *)
(* first group of govulnersdb, which the listing has.                      *)
LEMMA GovulnersPlanType ==
    ASSUME TypeOK, SyncPhases, provider = "govulners", returned # {}
    PROVE  GovulnersGroupsToDownload \subseteq Keys
<1>1. (CHOOSE x \in returned : TRUE) = GovulnersFeed /\ GovulnersFeed \in DOMAIN listing
  BY DEF SyncPhases
<1>2. DOMAIN listing[GovulnersFeed].groups # {}
      /\ DOMAIN listing[GovulnersFeed].groups \subseteq Groups
  BY <1>1, ListingIn, ApiFeedFields DEF SyncPhases, TypeOK, ListingsSet
<1>3. (CHOOSE y \in DOMAIN listing[GovulnersFeed].groups : TRUE) \in Groups
  BY <1>2
<1>4. GovulnersGroupsToDownload
        \subseteq {<<GovulnersFeed, CHOOSE y \in DOMAIN listing[GovulnersFeed].groups : TRUE>>}
  BY <1>1 DEF GovulnersGroupsToDownload
<1>5. GovulnersFeed \in Feeds
  BY FeedSyncAssumption
<1>6. \A y \in Groups : <<GovulnersFeed, y>> \in Keys
  BY <1>5 DEF Keys
<1>7. <<GovulnersFeed, CHOOSE y \in DOMAIN listing[GovulnersFeed].groups : TRUE>> \in Keys
  BY <1>3, <1>6
<1>8. QED
  BY <1>4, <1>7

(* get_groups_to_download fills the plan. *)
LEMMA PlanDownloadsSInv ==
    ASSUME SInv, PlanDownloads
    PROVE  SInv'
<1> USE DEF SInv
<1>1. plan' \subseteq Keys
  <2>1. CASE provider = "legacy"
    BY <2>1 DEF PlanDownloads, LegacyGroupsToDownload
  <2>2. CASE provider # "legacy"
    <3>1. provider = "govulners" /\ returned # {}
      BY <2>2 DEF PlanDownloads, TypeOK, Providers
    <3>2. QED
      BY <2>2, <3>1, GovulnersPlanType DEF PlanDownloads
  <2>3. QED
    BY <2>1, <2>2
<1>2. TypeOK' /\ SyncPhases'
  BY <1>1 DEF PlanDownloads, TypeOK, SyncPhases, Phases
<1>3. (WritesWellFormed /\ WishesKept /\ ReturnedExist /\ ShapeKept)'
  BY DEF PlanDownloads, WritesWellFormed, WishesKept, ReturnedExist, ShapeKept
<1>4. (ProcessedReconciled /\ CommittedFeedsReconciled)'
  BY DEF PlanDownloads, ProcessedReconciled, CommittedFeedsReconciled
<1>5. QED
  BY <1>2, <1>3, <1>4

(* The download loop ends. *)
LEMMA EndDownloadsSInv ==
    ASSUME SInv, EndDownloads
    PROVE  SInv'
<1> USE DEF SInv
<1>1. TypeOK' /\ SyncPhases'
  BY DEF EndDownloads, TypeOK, SyncPhases, Phases
<1>2. (WritesWellFormed /\ WishesKept /\ ReturnedExist /\ ShapeKept)'
  BY DEF EndDownloads, WritesWellFormed, WishesKept, ReturnedExist, ShapeKept
<1>3. (ProcessedReconciled /\ CommittedFeedsReconciled)'
  BY DEF EndDownloads, ProcessedReconciled, CommittedFeedsReconciled
<1>4. QED
  BY <1>1, <1>2, <1>3

(* Committing a session that wrote no enabled or last_sync column of an   *)
(* existing row keeps the row's flags.                                     *)
LEMMA CommitKeepsFlags ==
    ASSUME TypeOK, WritesWellFormed
    PROVE  /\ \A f \in Feeds : dbFeed[f] # NULL =>
                  SessionFeed(f) # NULL /\ SessionFeed(f).enabled = dbFeed[f].enabled
           /\ \A k \in Keys : dbGroup[k] # NULL =>
                  /\ SessionGroup(k) # NULL
                  /\ SessionGroup(k).enabled = dbGroup[k].enabled
                  /\ SessionGroup(k).synced = dbGroup[k].synced
<1>1. ASSUME NEW f \in Feeds, dbFeed[f] # NULL
      PROVE  SessionFeed(f) # NULL /\ SessionFeed(f).enabled = dbFeed[f].enabled
  <2>1. ~fw[f].new /\ fw[f].enabled = NULL /\ dbFeed[f] \in FRec /\ fw[f] \in FWrite
    BY <1>1 DEF WritesWellFormed, FeedWriteOK, TypeOK
  <2>2. QED
    BY <1>1, <2>1, ApplyFeedOld, SessionFeedFacts DEF SessionFeed
<1>2. ASSUME NEW k \in Keys, dbGroup[k] # NULL
      PROVE  /\ SessionGroup(k) # NULL
             /\ SessionGroup(k).enabled = dbGroup[k].enabled
             /\ SessionGroup(k).synced = dbGroup[k].synced
  <2>1. ~gw[k].new /\ gw[k].enabled = NULL /\ gw[k].synced = NULL
        /\ dbGroup[k] \in GRec /\ gw[k] \in GWrite
    BY <1>2 DEF WritesWellFormed, GroupWriteOK, TypeOK
  <2>2. QED
    BY <1>2, <2>1, ApplyGroupOld, SessionGroupFacts DEF SessionGroup
<1>3. QED
  BY <1>1, <1>2

(* Reload and db.commit(): the session's view becomes the committed state. *)
LEMMA CommitSInv ==
    ASSUME SInv, spc = "reload", ~inactive,
           returned' = PivotAndFilter(toSync, DOMAIN listing,
                                      {f \in Feeds : SessionFeed(f) # NULL}),
           dbFeed' = [f \in Feeds |-> SessionFeed(f)],
           dbGroup' = [k \in Keys |-> SessionGroup(k)],
           fw' = NoFeedWrites, gw' = NoGroupWrites,
           outcome' = "ok", spc' = "plan",
           UNCHANGED <<nonFeedError, provider, toSync, listing, loaded, todo, failed,
                       inactive, plan, report, before, wish, gwish>>
    PROVE  SInv'
<1> USE DEF SInv
<1>1. TypeOK'
  <2>1. dbFeed' \in [Feeds -> FRec \cup {NULL}] /\ dbGroup' \in [Keys -> GRec \cup {NULL}]
    BY SessionFeedFacts, SessionGroupFacts
  <2>2. QED
    BY <2>1, NoWritesType DEF TypeOK, PivotAndFilter, Phases, Outcomes
<1>2. SyncPhases'
  BY DEF SyncPhases, PivotAndFilter
<1>3. WritesWellFormed'
  <2>1. \A k \in Keys : k[1] = GovulnersFeed => dbGroup'[k] = NULL
    BY SessionGroupFacts DEF WritesWellFormed
  <2>2. QED
    BY <2>1, NoWritesType DEF WritesWellFormed, FeedWriteOK, GroupWriteOK
<1>4. WishesKept'
  BY CommitKeepsFlags DEF WishesKept, TypeOK
<1>5. ReturnedExist'
  BY DEF ReturnedExist, PivotAndFilter
<1>6. (ShapeKept /\ ProcessedReconciled)'
  BY DEF ShapeKept, ProcessedReconciled
<1>7. CommittedFeedsReconciled'
  <2> SUFFICES ASSUME provider = "legacy", NEW f \in DOMAIN listing \ failed
               PROVE  /\ dbFeed'[f] # NULL
                      /\ dbFeed'[f].tier = listing[f].tier
                      /\ \A g \in DOMAIN listing[f].groups :
                            /\ dbGroup'[<<f, g>>] # NULL
                            /\ dbGroup'[<<f, g>>].tier = listing[f].groups[g]
    BY DEF CommittedFeedsReconciled
  <2>1. SessionReconciled(f)
    BY DEF ProcessedReconciled, SyncPhases
  <2>2. f \in Feeds /\ \A g \in DOMAIN listing[f].groups : <<f, g>> \in Keys
    BY ListingIn, ApiFeedFields DEF TypeOK, ListingsSet, Keys
  <2>3. QED
    BY <2>1, <2>2 DEF SessionReconciled
<1>8. QED
  BY <1>1, <1>2, <1>3, <1>4, <1>5, <1>6, <1>7

(* The end of the unit of work: a rollback or the commit. *)
LEMMA CommitSyncSInv ==
    ASSUME SInv, CommitSync
    PROVE  SInv'
<1>1. CASE inactive /\ Rollback /\ UNCHANGED <<dbFeed, dbGroup, returned, nonFeedError>>
  BY <1>1, RollbackSInv DEF CommitSync, SInv, TypeOK
<1>2. CASE ~inactive /\ Rollback /\ nonFeedError' = TRUE /\ UNCHANGED <<dbFeed, dbGroup, returned>>
  BY <1>2, RollbackSInv DEF CommitSync
<1>3. CASE /\ ~inactive
           /\ returned' = PivotAndFilter(toSync, DOMAIN listing,
                                         {f \in Feeds : SessionFeed(f) # NULL})
           /\ dbFeed' = [f \in Feeds |-> SessionFeed(f)]
           /\ dbGroup' = [k \in Keys |-> SessionGroup(k)]
           /\ fw' = NoFeedWrites /\ gw' = NoGroupWrites
           /\ outcome' = "ok" /\ spc' = "plan"
           /\ UNCHANGED nonFeedError
  BY <1>3, CommitSInv DEF CommitSync
<1>4. QED
  BY <1>1, <1>2, <1>3 DEF CommitSync

(* A step that changes only flags of committed rows (a user's enable or    *)
(* disable, a download stamping last_sync) and what the download loop     *)
(* tracks keeps SInv, given it keeps WishesKept: rows neither appear nor   *)
(* vanish and keep their display fields, so the session's view keeps them *)
(* too.                                                                    *)
LEMMA FlagsOnlyStep ==
    ASSUME SInv,
           dbFeed' \in [Feeds -> FRec \cup {NULL}],
           dbGroup' \in [Keys -> GRec \cup {NULL}],
           \A x \in Feeds : /\ dbFeed'[x] = NULL <=> dbFeed[x] = NULL
                            /\ dbFeed[x] # NULL => dbFeed'[x].tier = dbFeed[x].tier,
           \A k \in Keys : /\ dbGroup'[k] = NULL <=> dbGroup[k] = NULL
                           /\ dbGroup[k] # NULL => dbGroup'[k].tier = dbGroup[k].tier,
           WishesKept',
           plan' \subseteq Keys, report' \in [Keys -> Reports],
           wish' \in [Feeds -> BOOLEAN \cup {NULL}], gwish' \in [Keys -> BOOLEAN \cup {NULL}],
           UNCHANGED <<fw, gw, spc, provider, toSync, listing, loaded, todo, failed,
                       inactive, returned, outcome, nonFeedError, before>>
    PROVE  SInv'
<1> USE DEF SInv
<1>1. Shape(dbFeed', dbGroup') = Shape(dbFeed, dbGroup)
  BY DEF Shape
<1>2. \A x \in Feeds : /\ SessionFeed(x)' = NULL <=> SessionFeed(x) = NULL
                       /\ SessionFeed(x) # NULL => SessionFeed(x)'.tier = SessionFeed(x).tier
  <2> SUFFICES ASSUME NEW x \in Feeds
               PROVE  /\ SessionFeed(x)' = NULL <=> SessionFeed(x) = NULL
                      /\ SessionFeed(x) # NULL => SessionFeed(x)'.tier = SessionFeed(x).tier
    OBVIOUS
  <2>1. fw[x] \in FWrite
    BY DEF TypeOK
  <2>2. CASE fw[x].new
    BY <2>1, <2>2, ApplyFeedNew DEF SessionFeed
  <2>3. CASE ~fw[x].new /\ dbFeed[x] = NULL
    BY <2>3, ApplyNone DEF SessionFeed
  <2>4. CASE ~fw[x].new /\ dbFeed[x] # NULL
    <3>1. dbFeed[x] \in FRec /\ dbFeed'[x] \in FRec /\ fw[x].enabled = NULL
      BY <2>4 DEF TypeOK, WritesWellFormed, FeedWriteOK
    <3>2. SessionFeed(x)' = [enabled |-> dbFeed'[x].enabled,
                             tier |-> IF fw[x].tier # NULL THEN fw[x].tier ELSE dbFeed'[x].tier]
      BY <2>1, <2>4, <3>1, ApplyFeedOld DEF SessionFeed
    <3>3. SessionFeed(x) = [enabled |-> dbFeed[x].enabled,
                            tier |-> IF fw[x].tier # NULL THEN fw[x].tier ELSE dbFeed[x].tier]
      BY <2>1, <2>4, <3>1, ApplyFeedOld DEF SessionFeed
    <3>4. SessionFeed(x)' \in FRec /\ SessionFeed(x) \in FRec
      BY <2>1, <3>1, <3>2, <3>3 DEF FRec, FWrite
    <3>5. QED
      BY <2>4, <3>2, <3>3, <3>4
  <2>5. QED
    BY <2>2, <2>3, <2>4
<1>3. \A k \in Keys : /\ SessionGroup(k)' = NULL <=> SessionGroup(k) = NULL
                      /\ SessionGroup(k) # NULL => SessionGroup(k)'.tier = SessionGroup(k).tier
  <2> SUFFICES ASSUME NEW k \in Keys
               PROVE  /\ SessionGroup(k)' = NULL <=> SessionGroup(k) = NULL
                      /\ SessionGroup(k) # NULL => SessionGroup(k)'.tier = SessionGroup(k).tier
    OBVIOUS
  <2>1. gw[k] \in GWrite
    BY DEF TypeOK
  <2>2. CASE gw[k].new
    BY <2>1, <2>2, ApplyGroupNew DEF SessionGroup
  <2>3. CASE ~gw[k].new /\ dbGroup[k] = NULL
    BY <2>3, ApplyNone DEF SessionGroup
  <2>4. CASE ~gw[k].new /\ dbGroup[k] # NULL
    <3>1. dbGroup[k] \in GRec /\ dbGroup'[k] \in GRec
          /\ gw[k].enabled = NULL /\ gw[k].synced = NULL
      BY <2>4 DEF TypeOK, WritesWellFormed, GroupWriteOK
    <3>2. SessionGroup(k)' = [enabled |-> dbGroup'[k].enabled, synced |-> dbGroup'[k].synced,
                              tier |-> IF gw[k].tier # NULL THEN gw[k].tier ELSE dbGroup'[k].tier]
      BY <2>1, <2>4, <3>1, ApplyGroupOld DEF SessionGroup
    <3>3. SessionGroup(k) = [enabled |-> dbGroup[k].enabled, synced |-> dbGroup[k].synced,
                             tier |-> IF gw[k].tier # NULL THEN gw[k].tier ELSE dbGroup[k].tier]
      BY <2>1, <2>4, <3>1, ApplyGroupOld DEF SessionGroup
    <3>4. SessionGroup(k)' \in GRec /\ SessionGroup(k) \in GRec
      BY <2>1, <3>1, <3>2, <3>3 DEF GRec, GWrite
    <3>5. QED
      BY <2>4, <3>2, <3>3, <3>4
  <2>5. QED
    BY <2>2, <2>3, <2>4
<1>4. TypeOK'
  BY DEF TypeOK
<1>5. SyncPhases'
  BY DEF SyncPhases, TypeOK, ListingsSet, ListingIn
<1>6. WritesWellFormed'
  BY DEF WritesWellFormed, FeedWriteOK, GroupWriteOK
<1>7. ReturnedExist' /\ ShapeKept'
  BY <1>1 DEF ReturnedExist, ShapeKept, SyncPhases, TypeOK, ListingsSet
<1>8. ProcessedReconciled'
  <2> SUFFICES ASSUME spc \in {"feeds", "reload"}, provider = "legacy",
                      NEW x \in DOMAIN listing \ (todo \cup failed)
               PROVE  SessionReconciled(x)'
    BY DEF ProcessedReconciled
  <2>1. SessionReconciled(x)
    BY DEF ProcessedReconciled
  <2>2. x \in Feeds /\ \A g \in DOMAIN listing[x].groups : <<x, g>> \in Keys
    BY ListingIn, ApiFeedFields DEF TypeOK, ListingsSet, Keys
  <2>3. QED
    BY <1>2, <1>3, <2>1, <2>2 DEF SessionReconciled
<1>9. CommittedFeedsReconciled'
  <2> SUFFICES ASSUME outcome = "ok", provider = "legacy", NEW x \in DOMAIN listing \ failed
               PROVE  /\ dbFeed'[x] # NULL
                      /\ dbFeed'[x].tier = listing[x].tier
                      /\ \A g \in DOMAIN listing[x].groups :
                            /\ dbGroup'[<<x, g>>] # NULL
                            /\ dbGroup'[<<x, g>>].tier = listing[x].groups[g]
    BY DEF CommittedFeedsReconciled
  <2>1. x \in Feeds /\ \A g \in DOMAIN listing[x].groups : <<x, g>> \in Keys
    BY ListingIn, ApiFeedFields DEF TypeOK, ListingsSet, Keys
  <2>2. QED
    BY <2>1 DEF CommittedFeedsReconciled
<1>10. QED
  BY <1>4, <1>5, <1>6, <1>7, <1>8, <1>9

(* The caller loads one planned group and stamps its last_sync.           *)
LEMMA DownloadGroupSInv ==
    ASSUME SInv, DownloadGroup
    PROVE  SInv'
<1> USE DEF SInv
<1>1. PICK k \in plan, ok \in BOOLEAN :
        /\ plan' = plan \ {k}
        /\ report' = [report EXCEPT ![k] = RetrieveGroupResult(ok)]
        /\ dbGroup' = IF ok /\ dbGroup[k] # NULL
                      THEN [dbGroup EXCEPT ![k].synced = TRUE] ELSE dbGroup
  BY DEF DownloadGroup
<1>2. k \in Keys /\ RetrieveGroupResult(ok) \in Reports
  BY DEF TypeOK, RetrieveGroupResult, Reports, Statuses
<1>3. /\ dbGroup' \in [Keys -> GRec \cup {NULL}]
      /\ \A x \in Keys : /\ dbGroup'[x] = NULL <=> dbGroup[x] = NULL
                         /\ dbGroup[x] # NULL => dbGroup'[x].tier = dbGroup[x].tier
                                               /\ dbGroup'[x].enabled = dbGroup[x].enabled
  <2>1. CASE ok /\ dbGroup[k] # NULL
    <3>1. dbGroup[k] \in GRec /\ dbGroup' = [dbGroup EXCEPT ![k].synced = TRUE]
      BY <1>1, <1>2, <2>1 DEF TypeOK
    <3>2. [dbGroup[k] EXCEPT !.synced = TRUE] \in GRec
      BY <3>1 DEF GRec
    <3>3. dbGroup' = [dbGroup EXCEPT ![k] = [dbGroup[k] EXCEPT !.synced = TRUE]]
      BY <3>1
    <3>4. dbGroup' \in [Keys -> GRec \cup {NULL}]
      BY <1>2, <3>2, <3>3 DEF TypeOK
    <3>5. ASSUME NEW x \in Keys
          PROVE  /\ dbGroup'[x] = NULL <=> dbGroup[x] = NULL
                 /\ dbGroup[x] # NULL => dbGroup'[x].tier = dbGroup[x].tier
                                       /\ dbGroup'[x].enabled = dbGroup[x].enabled
      <4>1. CASE x = k
        <5>1. dbGroup'[x] = [dbGroup[k] EXCEPT !.synced = TRUE]
          BY <1>2, <3>3, <4>1 DEF TypeOK
        <5>2. dbGroup'[x] # NULL
          BY <3>2, <5>1, NullNotRecord
        <5>3. QED
          BY <2>1, <3>1, <4>1, <5>1, <5>2 DEF GRec
      <4>2. CASE x # k
        BY <3>3, <4>2 DEF TypeOK
      <4>3. QED
        BY <4>1, <4>2
    <3>6. QED
      BY <3>4, <3>5
  <2>2. CASE ~(ok /\ dbGroup[k] # NULL)
    BY <1>1, <2>2 DEF TypeOK
  <2>3. QED
    BY <2>1, <2>2
<1>4. WishesKept'
  BY <1>3 DEF DownloadGroup, WishesKept
<1>5. QED
  BY <1>1, <1>2, <1>3, <1>4, FlagsOnlyStep DEF DownloadGroup, TypeOK

(* A user enables or disables a committed feed. *)
LEMMA SetFeedEnabledSInv ==
    ASSUME SInv, NEW f \in Feeds, NEW b \in BOOLEAN, SetFeedEnabled(f, b)
    PROVE  SInv'
<1> USE DEF SInv
<1>1. /\ dbFeed' \in [Feeds -> FRec \cup {NULL}]
      /\ \A x \in Feeds : /\ dbFeed'[x] = NULL <=> dbFeed[x] = NULL
                          /\ dbFeed[x] # NULL => dbFeed'[x].tier = dbFeed[x].tier
      /\ dbFeed'[f].enabled = b
      /\ \A y \in Feeds \ {f} : dbFeed'[y] = dbFeed[y]
  BY DEF SetFeedEnabled, TypeOK, FRec
<1>2. WishesKept'
  BY <1>1 DEF SetFeedEnabled, WishesKept, TypeOK
<1>3. QED
  BY <1>1, <1>2, FlagsOnlyStep DEF SetFeedEnabled, syncVars, TypeOK

(* A user enables or disables a committed group. *)
LEMMA SetGroupEnabledSInv ==
    ASSUME SInv, NEW k \in Keys, NEW b \in BOOLEAN, SetGroupEnabled(k, b)
    PROVE  SInv'
<1> USE DEF SInv
<1>1. /\ dbGroup' \in [Keys -> GRec \cup {NULL}]
      /\ \A x \in Keys : /\ dbGroup'[x] = NULL <=> dbGroup[x] = NULL
                         /\ dbGroup[x] # NULL => dbGroup'[x].tier = dbGroup[x].tier
      /\ dbGroup'[k].enabled = b
      /\ \A y \in Keys \ {k} : dbGroup'[y] = dbGroup[y]
  BY DEF SetGroupEnabled, TypeOK, GRec
<1>2. WishesKept'
  BY <1>1 DEF SetGroupEnabled, WishesKept, TypeOK
<1>3. QED
  BY <1>1, <1>2, FlagsOnlyStep DEF SetGroupEnabled, syncVars, TypeOK


(* The initial state: no records, no sync under way. *)
LEMMA InitSInv ==
    ASSUME Init
    PROVE  SInv
<1> USE DEF SInv
<1>1. TypeOK
  <2>1. [x \in {} |-> NULL] \in ListingsSet
    <3>1. /\ DOMAIN [x \in {} |-> NULL] \subseteq Feeds
          /\ [x \in {} |-> NULL] \in [DOMAIN [x \in {} |-> NULL] -> ApiFeeds]
      OBVIOUS
    <3>2. QED
      BY <3>1, ListingIn
  <2>2. NoReport \in Reports
    BY DEF NoReport, Reports, Statuses
  <2>3. QED
    BY <2>1, <2>2 DEF Init, TypeOK, ListingsSet, NoFeedWrites, NoGroupWrites,
                      FNoWrite, GNoWrite, FWrite, GWrite, Phases, Providers, Outcomes
<1>2. SyncPhases
  BY DEF Init, SyncPhases
<1>3. WritesWellFormed
  BY DEF Init, WritesWellFormed, FeedWriteOK, GroupWriteOK, NoFeedWrites,
         NoGroupWrites, FNoWrite, GNoWrite
<1>4. WishesKept /\ ReturnedExist /\ ShapeKept /\ ProcessedReconciled
      /\ CommittedFeedsReconciled
  BY DEF Init, WishesKept, ReturnedExist, ShapeKept, ProcessedReconciled,
         CommittedFeedsReconciled
<1>5. QED
  BY <1>1, <1>2, <1>3, <1>4

(* A step that changes nothing. *)
LEMMA StutterSInv ==
    ASSUME SInv, UNCHANGED vars
    PROVE  SInv'
<1> USE DEF SInv
<1>1. WishesKept'
  BY DEF WishesKept, vars
<1>2. QED
  BY <1>1, FlagsOnlyStep DEF vars, syncVars, TypeOK

(* Every step of the specification keeps SInv. *)
LEMMA NextSInv ==
    ASSUME SInv, [Next]_vars
    PROVE  SInv'
<1>1. CASE StartSync
  BY <1>1, StartSyncSInv
<1>2. CASE LoadFeeds
  BY <1>2, LoadFeedsSInv
<1>3. CASE SyncFeed
  BY <1>3, SyncFeedSInv
<1>4. CASE EndFeedLoop
  BY <1>4, EndFeedLoopSInv
<1>5. CASE CommitSync
  BY <1>5, CommitSyncSInv
<1>6. CASE PlanDownloads
  BY <1>6, PlanDownloadsSInv
<1>7. CASE DownloadGroup
  BY <1>7, DownloadGroupSInv
<1>8. CASE EndDownloads
  BY <1>8, EndDownloadsSInv
<1>9. CASE \E f \in Feeds, b \in BOOLEAN : SetFeedEnabled(f, b)
  BY <1>9, SetFeedEnabledSInv
<1>10. CASE \E k \in Keys, b \in BOOLEAN : SetGroupEnabled(k, b)
  BY <1>10, SetGroupEnabledSInv
<1>11. CASE UNCHANGED vars
  BY <1>11, StutterSInv
<1>12. QED
  BY <1>1, <1>2, <1>3, <1>4, <1>5, <1>6, <1>7, <1>8, <1>9, <1>10, <1>11 DEF Next

(* SInv holds in every reachable state. *)
LEMMA SInvInvariant == Spec => []SInv
<1>1. Init => SInv
  BY InitSInv
<1>2. SInv /\ [Next]_vars => SInv'
  BY NextSInv
<1>3. QED
  BY <1>1, <1>2, PTL DEF Spec

(* Every record and every session write sync_metadata and the flag        *)
(* endpoints produce is well typed, for any feeds, groups and tiers.      *)
THEOREM SyncTypeCorrect == Spec => []TypeOK
<1>1. SInv => TypeOK
  BY DEF SInv
<1>2. QED
  BY <1>1, SInvInvariant, PTL

(* When sync_metadata raises, the rollback restores the existence and the *)
(* display fields of every feed and group record, although the per-feed   *)
(* loop flushed its writes to the session and a user may have toggled      *)
(* flags meanwhile.                                                        *)
THEOREM SyncAbortSafe == Spec => []AbortedSyncChangesNothing
<1>1. SInv => AbortedSyncChangesNothing
  BY DEF SInv, ShapeKept, AbortedSyncChangesNothing
<1>2. QED
  BY <1>1, SInvInvariant, PTL

(* Failure isolation of the legacy provider's sync_metadata: once it      *)
(* returns, every listed feed that did not fail is committed with the     *)
(* upstream tier and every upstream group, whatever the other feeds did.  *)
THEOREM SyncFailureIsolation == Spec => []CommittedFeedsReconciled
<1>1. SInv => CommittedFeedsReconciled
  BY DEF SInv
<1>2. QED
  BY <1>1, SInvInvariant, PTL


(* The step DisabledNeverPlanned constrains: the plan a step produces when *)
(* it leaves the plan phase for the download phase.                        *)
PlanRespectsWishes ==
    spc = "plan" /\ spc' = "download" =>
        \A k \in plan' : wish[k[1]] # FALSE /\ gwish[k] # FALSE

(* Only get_groups_to_download takes the sync from planning to the        *)
(* downloads, and the plan it makes skips every flag a user turned off.   *)
LEMMA PlanStep ==
    ASSUME SInv, [Next]_vars
    PROVE  PlanRespectsWishes
<1> USE DEF SInv
<1> SUFFICES ASSUME spc = "plan", spc' = "download", NEW k \in plan'
             PROVE  wish[k[1]] # FALSE /\ gwish[k] # FALSE
  BY DEF PlanRespectsWishes
<1>1. PlanDownloads
  <2>1. ~StartSync /\ ~LoadFeeds /\ ~SyncFeed /\ ~EndFeedLoop /\ ~CommitSync
        /\ ~DownloadGroup /\ ~EndDownloads
    BY DEF StartSync, LoadFeeds, SyncFeed, EndFeedLoop, CommitSync, DownloadGroup,
           EndDownloads
  <2>2. ~\E f \in Feeds, b \in BOOLEAN : SetFeedEnabled(f, b)
    BY DEF SetFeedEnabled, syncVars
  <2>3. ~\E x \in Keys, b \in BOOLEAN : SetGroupEnabled(x, b)
    BY DEF SetGroupEnabled, syncVars
  <2>4. ~UNCHANGED vars
    BY DEF vars, syncVars
  <2>5. QED
    BY <2>1, <2>2, <2>3, <2>4 DEF Next
<1>2. CASE provider = "legacy"
  <2>1. k \in LegacyGroupsToDownload
    BY <1>1, <1>2 DEF PlanDownloads
  <2>2. k \in Keys /\ dbFeed[k[1]] # NULL /\ dbFeed[k[1]].enabled
        /\ dbGroup[k] # NULL /\ dbGroup[k].enabled
    BY <2>1 DEF LegacyGroupsToDownload
  <2>3. k[1] \in Feeds
    BY <2>2 DEF Keys
  <2>4. QED
    BY <2>2, <2>3 DEF WishesKept
<1>3. CASE provider = "govulners"
  <2>1. returned # {} /\ plan' = GovulnersGroupsToDownload
    BY <1>1, <1>3 DEF PlanDownloads
  <2>2. k \in Keys
    BY <1>3, <2>1, GovulnersPlanType
  <2>3. (CHOOSE x \in returned : TRUE) = GovulnersFeed
    BY <1>3, <2>1 DEF SyncPhases
  <2>4. k[1] = GovulnersFeed /\ dbFeed[GovulnersFeed].enabled
    <3> DEFINE g == CHOOSE y \in DOMAIN listing[GovulnersFeed].groups : TRUE
    <3>1. GovulnersGroupsToDownload
            = IF dbFeed[GovulnersFeed].enabled THEN {<<GovulnersFeed, g>>} ELSE {}
      BY <2>3 DEF GovulnersGroupsToDownload
    <3>2. dbFeed[GovulnersFeed].enabled /\ k = <<GovulnersFeed, g>>
      BY <2>1, <3>1
    <3>3. QED
      BY <3>2
  <2>5. dbGroup[k] = NULL
    BY <2>2, <2>4 DEF WritesWellFormed
  <2>6. QED
    BY <2>4, <2>5, <2>2, FeedSyncAssumption DEF WishesKept
<1>4. QED
  BY <1>2, <1>3 DEF TypeOK, Providers

(* get_groups_to_download never names a feed or a group whose enabled     *)
(* flag a user has turned off, even when the toggle commits while the     *)
(* sync's session holds its own writes of the same records.               *)
THEOREM DisabledNotDownloaded == Spec => DisabledNeverPlanned
<1>1. SInv /\ [Next]_vars => PlanRespectsWishes
  BY PlanStep
<1>2. QED
  BY <1>1, SInvInvariant, PTL DEF Spec, DisabledNeverPlanned, PlanRespectsWishes


(* The step LastSyncNeverReset constrains: no stamped group loses its row *)
(* or its stamp.                                                           *)
SyncedKept ==
    \A k \in Keys : dbGroup[k] # NULL /\ dbGroup[k].synced =>
                       dbGroup'[k] # NULL /\ dbGroup'[k].synced

(* The commit writes back the stamp of every committed group, a download *)
(* only sets stamps, a user's toggle writes only the enabled flag, and    *)
(* every other step leaves the committed groups alone.                    *)
LEMMA SyncedStep ==
    ASSUME SInv, [Next]_vars
    PROVE  SyncedKept
<1> USE DEF SInv
<1> SUFFICES ASSUME NEW k \in Keys, dbGroup[k] # NULL, dbGroup[k].synced
             PROVE  dbGroup'[k] # NULL /\ dbGroup'[k].synced
  BY DEF SyncedKept
<1>1. CASE UNCHANGED dbGroup
  BY <1>1
<1>2. CASE CommitSync /\ dbGroup' = [x \in Keys |-> SessionGroup(x)]
  BY <1>2, CommitKeepsFlags
<1>3. CASE DownloadGroup
  <2>1. PICK j \in plan, ok \in BOOLEAN :
          dbGroup' = IF ok /\ dbGroup[j] # NULL
                     THEN [dbGroup EXCEPT ![j].synced = TRUE] ELSE dbGroup
    BY <1>3 DEF DownloadGroup
  <2>2. CASE ok /\ dbGroup[j] # NULL
    <3>1. j \in Keys /\ dbGroup[j] \in GRec /\ dbGroup \in [Keys -> GRec \cup {NULL}]
      BY <2>2 DEF TypeOK
    <3>2. dbGroup'[k] = IF k = j THEN [dbGroup[j] EXCEPT !.synced = TRUE] ELSE dbGroup[k]
      BY <2>1, <2>2, <3>1
    <3>3. [dbGroup[j] EXCEPT !.synced = TRUE] \in GRec
      BY <3>1 DEF GRec
    <3>4. QED
      BY <3>1, <3>2, <3>3, NullNotRecord DEF GRec
  <2>3. CASE ~(ok /\ dbGroup[j] # NULL)
    BY <2>1, <2>3
  <2>4. QED
    BY <2>2, <2>3
<1>4. CASE \E x \in Keys, b \in BOOLEAN : SetGroupEnabled(x, b)
  <2>1. PICK x \in Keys, b \in BOOLEAN : SetGroupEnabled(x, b)
    BY <1>4
  <2>2. dbGroup' = [dbGroup EXCEPT ![x].enabled = b] /\ dbGroup[x] \in GRec
        /\ dbGroup \in [Keys -> GRec \cup {NULL}]
    BY <2>1 DEF SetGroupEnabled, TypeOK
  <2>3. dbGroup'[k] = IF k = x THEN [dbGroup[x] EXCEPT !.enabled = b] ELSE dbGroup[k]
    BY <2>2
  <2>4. [dbGroup[x] EXCEPT !.enabled = b] \in GRec
    BY <2>2 DEF GRec
  <2>5. QED
    BY <2>2, <2>3, <2>4, NullNotRecord DEF GRec
<1>5. QED
  <2>1. CommitSync => UNCHANGED dbGroup \/ dbGroup' = [x \in Keys |-> SessionGroup(x)]
    BY DEF CommitSync
  <2>2. (StartSync \/ LoadFeeds \/ SyncFeed \/ EndFeedLoop \/ PlanDownloads
         \/ EndDownloads \/ \E f \in Feeds, b \in BOOLEAN : SetFeedEnabled(f, b)
         \/ UNCHANGED vars) => UNCHANGED dbGroup
    BY DEF StartSync, LoadFeeds, SyncFeed, EndFeedLoop, PlanDownloads,
           EndDownloads, SetFeedEnabled, vars
  <2>3. QED
    BY <1>1, <1>2, <1>3, <1>4, <2>1, <2>2 DEF Next

(* Once a download has stamped a group's last_sync, no later step resets  *)
(* it: neither a reconciliation pass, whose commit writes the session's   *)
(* view of the group back, nor a user's toggle of the group.              *)
THEOREM LastSyncKept == Spec => LastSyncNeverReset
<1>1. SInv /\ [Next]_vars => SyncedKept
  BY SyncedStep
<1>2. QED
  BY <1>1, SInvInvariant, PTL DEF Spec, LastSyncNeverReset, SyncedKept

=============================================================================
