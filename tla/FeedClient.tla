----------------------------- MODULE FeedClient -----------------------------
(***************************************************************************)
(* The HTTP clients of the feed sync, in                                   *)
(* src/nextlinux_engine/services/policy_engine/engine/feeds/client.py:     *)
(* HTTPBasicAuthClient.execute_request (a bounded retry loop),             *)
(* FeedServiceClient (the paginated legacy feed service) and               *)
(* GovulnersDBServiceClient (a listing manifest and one archive).          *)
(*                                                                         *)
(* One client thread makes one call at a time.  Every attempt of          *)
(* execute_request meets one outcome from the network and server: a 200   *)
(* with or without a Content-Type header, a 4xx or 5xx status, a connect  *)
(* timeout or another exception.  A publisher updates the govulners       *)
(* listing and retires old archives concurrently with the client.         *)
(*                                                                         *)
(* A paginated listing serves pages 1..NPages; page p lists the record p  *)
(* and, unless it is the last page, a next_token naming page p + 1.       *)
(***************************************************************************)
EXTENDS Naturals, Sequences

CONSTANTS
    NPages,           \* pages the paginated endpoints serve
    Retries,          \* attempts execute_request makes (client_config max_retries)
    Archives,         \* checksums of the archives the publisher may publish
    Outcomes,         \* outcomes one HTTP attempt may meet
    MissingKeyPages,  \* pages a 200 may carry without their "feeds"/"groups" key
    NULL

AllOutcomes == {"ok", "nohdr", "s401", "s403", "s404", "s429", "s500",
                "ctimeout", "exc"}

ASSUME ClientAssumption ==
    /\ NPages \in Nat \ {0}
    /\ Retries \in Nat \ {0}
    /\ Outcomes \subseteq AllOutcomes
    /\ "ok" \in Outcomes
    /\ MissingKeyPages \subseteq 1..NPages
    /\ NULL \notin Archives \cup {"json", "tar", "other"}

Pages == 1..NPages

(* What a response body holds: a page (with or without its "feeds" or    *)
(* "groups" key), a listing manifest whose entry for *)
(* the supported schema version is an archive or missing (NULL), archive  *)
(* bytes, or an error text.                                               *)
Bodies == [kind : {"page"}, val : Pages, key : BOOLEAN]
          \cup [kind : {"listing"}, val : Archives \cup {NULL}]
          \cup [kind : {"archive"}, val : Archives]
          \cup [kind : {"error", "empty"}, val : {NULL}]
ErrorBody == [kind |-> "error", val |-> NULL]

(* What a request fetches: a listing page, a legacy group data page, the *)
(* govulners listing.json, or an archive url.                             *)
Urls == [kind : {"page", "data"}, val : Pages]
        \cup [kind : {"listing"}, val : {NULL}]
        \cup [kind : {"archive"}, val : Archives]

ContentTypes == {NULL, "json", "tar", "other"}
Statuses == {1, 200, 401, 403, 404, 429, 500}
StatusOf == [ok |-> 200, nohdr |-> 200, s401 |-> 401, s403 |-> 403,
             s404 |-> 404, s429 |-> 429, s500 |-> 500]

(* HTTPClientResponse and its defaults.                                    *)
Responses == [success : BOOLEAN, status : Statuses, ctype : ContentTypes,
              content : Bodies]
NewResponse == [success |-> FALSE, status |-> 1, ctype |-> NULL,
                content |-> [kind |-> "empty", val |-> NULL]]

(* The calls: the legacy list_feeds, list_feed_groups and                  *)
(* get_feed_group_data, and for govulnersdb the provider's                 *)
(* list_feed_groups followed by the caller's get_feed_group_data, which    *)
(* lists again before it downloads.                                        *)
Ops == {"list_feeds", "list_groups", "group_data",
        "gv_list", "gv_relist", "gv_download"}
Errors == {"InvalidCredentialsError", "InsufficientAccessTierError",
           "AttributeError", "Exception", "HTTPStatusException",
           "JSONDecodeError", "IncompleteJSONError", "UnexpectedMIMEType",
           "GovulnersVersionCommandError", "GovulnersDBUnavailable"}
Results == {"none", "returned"} \cup Errors

VARIABLES
    latest,    \* the listing's entry for the supported schema version, or NULL
    avail,     \* archives the server still serves
    op,        \* the call in progress, or the last one
    pc,        \* "request" while execute_request runs, "idle" between calls
    url,       \* the url execute_request fetches
    resp,      \* its HTTPClientResponse
    count,     \* its attempts so far
    lastCode,  \* history: status of the last HTTP response the call received
    cursor,    \* the page the paginated call fetches next
    acc,       \* the records the paginated call accumulated
    planned,   \* the listing entry list_feed_groups gave the sync
    listed,    \* the listing entry get_feed_group_data downloads
    result,    \* what the last call returned or raised
    meta,      \* response_metadata checksum of the returned GroupData
    data,      \* the archive whose bytes the returned GroupData holds
    token      \* next_token of the returned legacy GroupData

callVars == <<op, pc, url, resp, count, lastCode, cursor, acc, planned,
              listed, result, meta, data, token>>
vars == <<latest, avail, callVars>>

TypeOK ==
    /\ latest \in Archives \cup {NULL}
    /\ avail \subseteq Archives
    /\ op \in Ops
    /\ pc \in {"idle", "request"}
    /\ url \in Urls
    /\ resp \in Responses
    /\ count \in 0..Retries
    /\ lastCode \in Statuses
    /\ cursor \in Pages
    /\ acc \in Seq(Pages)
    /\ planned \in Archives \cup {NULL}
    /\ listed \in Archives \cup {NULL}
    /\ result \in Results
    /\ meta \in Archives \cup {NULL}
    /\ data \in Archives \cup {NULL}
    /\ token \in Pages \cup {NULL}

-----------------------------------------------------------------------------
(* The server.  A 200 carries the url's body, with application/json for  *)
(* every endpoint but an archive (application/x-tar).  A retired archive  *)
(* is answered 404.  Error responses carry a JSON or another body.       *)
ServerBodies(u) ==
    CASE u.kind = "page" ->
           {[kind |-> "page", val |-> u.val, key |-> b] :
              b \in IF u.val \in MissingKeyPages THEN BOOLEAN ELSE {TRUE}}
      [] u.kind = "data"    -> {[kind |-> "page", val |-> u.val, key |-> TRUE]}
      [] u.kind = "listing" -> {[kind |-> "listing", val |-> latest]}
      [] u.kind = "archive" -> {[kind |-> "archive", val |-> u.val]}

ServerCType(u) == IF u.kind = "archive" THEN "tar" ELSE "json"

Possible(u) ==
    IF u.kind = "archive" /\ u.val \notin avail
    THEN {"s404"} \cup (Outcomes \cap {"s500", "ctimeout", "exc"})
    ELSE Outcomes

(* A page's next_token is truthy unless it is the last page (where the   *)
(* server omits it or sends null).                                        *)
HasNextToken(p) == p < NPages

(* execute_request(url) called afresh: a new HTTPClientResponse, count 0. *)
Request(u) ==
    /\ url' = u
    /\ resp' = NewResponse
    /\ count' = 0
    /\ lastCode' = 1
    /\ pc' = "request"

(* The call ends, returning or raising.                                    *)
Return(r) ==
    /\ result' = r
    /\ pc' = "idle"

(* The condition of the while loop of execute_request.                     *)
LoopContinuesOffByOne == ~resp.success /\ count <= Retries

LoopContinues == ~resp.success /\ count < Retries

LoopDone == pc = "request" /\ ~LoopContinues

-----------------------------------------------------------------------------
(***************************************************************************)
(* execute_request: one iteration of the while loop.  A 200 sets success; *)
(* status_code is stored, then r.headers["Content-Type"] raises KeyError  *)
(* when the header is missing and the generic except overwrites content   *)
(* with the error text, leaving success True and content_type as it was.  *)
(* 401, 403 and 404 go through raise_for_status to                        *)
(* _map_error_to_exception, which raises out of the loop; for 404 its     *)
(* message reads exc.response.body, which a requests.Response lacks, so   *)
(* it raises AttributeError.  Other statuses are stored and retried; a    *)
(* timeout or another exception only overwrites content.                  *)
(***************************************************************************)
MapError(o) ==
    CASE o = "s401" -> "InvalidCredentialsError"
      [] o = "s403" -> "InsufficientAccessTierError"
      [] o = "s404" -> "AttributeError"

Attempt ==
    /\ pc = "request" /\ LoopContinues
    /\ count' = count + 1
    /\ \E o \in Possible(url) :
         \/ /\ o = "ok"
            /\ \E b \in ServerBodies(url) :
                 resp' = [success |-> TRUE, status |-> 200,
                          ctype |-> ServerCType(url), content |-> b]
            /\ lastCode' = 200
            /\ UNCHANGED <<pc, result>>
         \/ /\ o = "nohdr"
            /\ resp' = [resp EXCEPT !.success = TRUE, !.status = 200,
                                    !.content = ErrorBody]
            /\ lastCode' = 200
            /\ UNCHANGED <<pc, result>>
         \/ /\ o \in {"s401", "s403", "s404"}
            /\ lastCode' = StatusOf[o]
            /\ Return(MapError(o))
            /\ UNCHANGED resp
         \/ /\ o \in {"s429", "s500"}
            /\ \E ct \in {"json", "other", resp.ctype} :
                 resp' = [resp EXCEPT !.status = StatusOf[o], !.ctype = ct,
                                      !.content = ErrorBody]
            /\ lastCode' = StatusOf[o]
            /\ UNCHANGED <<pc, result>>
         \/ /\ o \in {"ctimeout", "exc"}
            /\ resp' = [resp EXCEPT !.content = ErrorBody]
            /\ UNCHANGED <<lastCode, pc, result>>
    /\ UNCHANGED <<latest, avail, op, url, cursor, acc, planned, listed, meta,
                   data, token>>

-----------------------------------------------------------------------------
(***************************************************************************)
(* FeedServiceClient.list_feeds and list_feed_groups.  Both request the   *)
(* page named by next_token and raise on a failed request or on a body    *)
(* json.loads rejects.  A page with its "feeds"/"groups" key extends the  *)
(* list.  list_feeds follows a truthy next_token only inside the "feeds"  *)
(* branch, so a page without the key leaves more_data True and next_token *)
(* as it was: the same url is fetched again.  list_feed_groups follows    *)
(* next_token whether or not the page had "groups".                       *)
(***************************************************************************)
ListOps == {"list_feeds", "list_groups"}

StartListing ==
    /\ pc = "idle"
    /\ \E o \in ListOps : op' = o
    /\ cursor' = 1
    /\ acc' = <<>>
    /\ result' = "none"
    /\ Request([kind |-> "page", val |-> 1])
    /\ UNCHANGED <<latest, avail, planned, listed, meta, data, token>>

(* A failed request or an unparsable body raises out of the loop.         *)
ListingFails ==
    /\ op \in ListOps /\ LoopDone
    /\ \/ /\ ~resp.success
          /\ Return("Exception")
       \/ /\ resp.success /\ resp.content.kind # "page"
          /\ Return("JSONDecodeError")
    /\ UNCHANGED <<latest, avail, op, url, resp, count, lastCode, cursor, acc,
                   planned, listed, meta, data, token>>

(* Mutant: next_token is read but the url keeps the old one.              *)
FollowTokenUnchanged(p) ==
    IF HasNextToken(p)
    THEN /\ cursor' = cursor
         /\ Request([kind |-> "page", val |-> cursor])
         /\ UNCHANGED result
    ELSE /\ Return("returned")
         /\ UNCHANGED <<url, resp, count, lastCode, cursor>>

(* The page is parsed: follow a truthy next_token or return the list.     *)
FollowToken(p) ==
    IF HasNextToken(p)
    THEN /\ cursor' = p + 1
         /\ Request([kind |-> "page", val |-> p + 1])
         /\ UNCHANGED result
    ELSE /\ Return("returned")
         /\ UNCHANGED <<url, resp, count, lastCode, cursor>>

ListFeedsPage ==
    LET p == resp.content.val IN
    /\ op = "list_feeds" /\ LoopDone
    /\ resp.success /\ resp.content.kind = "page"
    /\ \/ /\ ~resp.content.key
          /\ Request([kind |-> "page", val |-> cursor])
          /\ UNCHANGED <<cursor, acc, result>>
       \/ /\ resp.content.key
          /\ acc' = Append(acc, p)
          /\ FollowToken(p)
    /\ UNCHANGED <<latest, avail, op, planned, listed, meta, data, token>>

(* Mutant: the token is followed only when the page had "groups", as in   *)
(* list_feeds.                                                            *)
ListFeedGroupsPageInsideKey ==
    LET p == resp.content.val IN
    /\ op = "list_groups" /\ LoopDone
    /\ resp.success /\ resp.content.kind = "page"
    /\ \/ /\ ~resp.content.key
          /\ Request([kind |-> "page", val |-> cursor])
          /\ UNCHANGED <<cursor, acc, result>>
       \/ /\ resp.content.key
          /\ acc' = Append(acc, p)
          /\ FollowToken(p)
    /\ UNCHANGED <<latest, avail, op, planned, listed, meta, data, token>>

ListFeedGroupsPage ==
    LET p == resp.content.val IN
    /\ op = "list_groups" /\ LoopDone
    /\ resp.success /\ resp.content.kind = "page"
    /\ acc' = IF resp.content.key THEN Append(acc, p) ELSE acc
    /\ FollowToken(p)
    /\ UNCHANGED <<latest, avail, op, planned, listed, meta, data, token>>

-----------------------------------------------------------------------------
(***************************************************************************)
(* FeedServiceClient.get_feed_group_data for the page a caller's          *)
(* next_token names: one execute_request through                          *)
(* get_raw_feed_group_data; a failure raises, a content type other than   *)
(* application/json raises UnexpectedMIMEType, and _extract_response_data *)
(* reads next_token with ijson (which raises on a body that is not JSON)  *)
(* and turns an empty one into None.                                      *)
(***************************************************************************)
StartGroupData ==
    /\ pc = "idle"
    /\ op' = "group_data"
    /\ \E p \in Pages :
         /\ cursor' = p
         /\ Request([kind |-> "data", val |-> p])
    /\ result' = "none"
    /\ token' = NULL
    /\ UNCHANGED <<latest, avail, acc, planned, listed, meta, data>>

GroupDataDone ==
    /\ op = "group_data" /\ LoopDone
    /\ \/ /\ ~resp.success
          /\ Return("Exception")
          /\ UNCHANGED token
       \/ /\ resp.success /\ resp.ctype # "json"
          /\ Return("UnexpectedMIMEType")
          /\ UNCHANGED token
       \/ /\ resp.success /\ resp.ctype = "json" /\ resp.content.kind # "page"
          /\ Return("IncompleteJSONError")
          /\ UNCHANGED token
       \/ /\ resp.success /\ resp.ctype = "json" /\ resp.content.kind = "page"
          /\ token' = IF HasNextToken(cursor) THEN cursor + 1 ELSE NULL
          /\ Return("returned")
    /\ UNCHANGED <<latest, avail, op, url, resp, count, lastCode, cursor, acc,
                   planned, listed, meta, data>>

(***************************************************************************)
(* GovulnersDBServiceClient.  _list_feed_groups requests listing.json,    *)
(* raises HTTPStatusException on failure, json.loads the body, asks the   *)
(* installed govulners for its supported schema version (which may raise  *)
(* GovulnersVersionCommandError) and raises GovulnersDBUnavailable when    *)
(* the listing has no entry for it.  list_feed_groups returns that entry. *)
(* get_feed_group_data calls _list_feed_groups again, downloads the url   *)
(* of the entry it gets, raises HTTPStatusException on failure and        *)
(* UnexpectedMIMEType unless the type is application/x-tar, and returns   *)
(* the bytes with the checksum of that same entry as response_metadata.  *)
(***************************************************************************)
ListingUrl == [kind |-> "listing", val |-> NULL]

(* list_feed_groups, and get_feed_group_data once the sync has a listing. *)
StartGovulners ==
    /\ pc = "idle"
    /\ \/ op' = "gv_list"
       \/ /\ planned # NULL
          /\ op' = "gv_download"
    /\ result' = "none"
    /\ meta' = NULL
    /\ data' = NULL
    /\ Request(ListingUrl)
    /\ UNCHANGED <<latest, avail, cursor, acc, planned, listed, token>>

ListingParsed ==
    LET entry == resp.content.val IN
    /\ op \in {"gv_list", "gv_download"} /\ url = ListingUrl /\ LoopDone
    /\ \/ /\ ~resp.success
          /\ Return("HTTPStatusException")
          /\ UNCHANGED <<url, resp, count, lastCode, planned, listed>>
       \/ /\ resp.success /\ resp.content.kind # "listing"
          /\ Return("JSONDecodeError")
          /\ UNCHANGED <<url, resp, count, lastCode, planned, listed>>
       \/ /\ resp.success /\ resp.content.kind = "listing"
          /\ Return("GovulnersVersionCommandError")
          /\ UNCHANGED <<url, resp, count, lastCode, planned, listed>>
       \/ /\ resp.success /\ resp.content.kind = "listing" /\ entry = NULL
          /\ Return("GovulnersDBUnavailable")
          /\ UNCHANGED <<url, resp, count, lastCode, planned, listed>>
       \/ /\ resp.success /\ resp.content.kind = "listing" /\ entry # NULL
          /\ op = "gv_list"
          /\ planned' = entry
          /\ Return("returned")
          /\ UNCHANGED <<url, resp, count, lastCode, listed>>
       \/ /\ resp.success /\ resp.content.kind = "listing" /\ entry # NULL
          /\ op = "gv_download"
          /\ listed' = entry
          /\ Request([kind |-> "archive", val |-> entry])
          /\ UNCHANGED <<planned, result>>
    /\ UNCHANGED <<latest, avail, op, cursor, acc, meta, data, token>>

(* Mutant: response_metadata taken from the listing the sync planned with *)
(* rather than from the one whose url was downloaded.                     *)
DownloadDoneFromPlan ==
    /\ op = "gv_download" /\ url.kind = "archive" /\ LoopDone
    /\ \/ /\ ~resp.success
          /\ Return("HTTPStatusException")
          /\ UNCHANGED <<meta, data>>
       \/ /\ resp.success /\ resp.ctype # "tar"
          /\ Return("UnexpectedMIMEType")
          /\ UNCHANGED <<meta, data>>
       \/ /\ resp.success /\ resp.ctype = "tar"
          /\ meta' = planned
          /\ data' = resp.content.val
          /\ Return("returned")
    /\ UNCHANGED <<latest, avail, op, url, resp, count, lastCode, cursor, acc,
                   planned, listed, token>>

DownloadDone ==
    /\ op = "gv_download" /\ url.kind = "archive" /\ LoopDone
    /\ \/ /\ ~resp.success
          /\ Return("HTTPStatusException")
          /\ UNCHANGED <<meta, data>>
       \/ /\ resp.success /\ resp.ctype # "tar"
          /\ Return("UnexpectedMIMEType")
          /\ UNCHANGED <<meta, data>>
       \/ /\ resp.success /\ resp.ctype = "tar"
          /\ meta' = listed
          /\ data' = resp.content.val
          /\ Return("returned")
    /\ UNCHANGED <<latest, avail, op, url, resp, count, lastCode, cursor, acc,
                   planned, listed, token>>

-----------------------------------------------------------------------------
(***************************************************************************)
(* The upstream service, outside src/: it publishes a new archive as the  *)
(* listing's entry, and later stops serving archives it no longer lists.  *)
(***************************************************************************)
Publish ==
    /\ \E a \in Archives \ {latest} :
         /\ latest' = a
         /\ avail' = avail \cup {a}
    /\ UNCHANGED callVars

Retire ==
    /\ \E a \in avail \ {latest} : avail' = avail \ {a}
    /\ UNCHANGED <<latest, callVars>>

-----------------------------------------------------------------------------
Init ==
    /\ latest \in Archives \cup {NULL}
    /\ avail = IF latest = NULL THEN {} ELSE {latest}
    /\ op = "list_feeds"
    /\ pc = "idle"
    /\ url = ListingUrl
    /\ resp = NewResponse
    /\ count = 0
    /\ lastCode = 1
    /\ cursor = 1
    /\ acc = <<>>
    /\ planned = NULL
    /\ listed = NULL
    /\ result = "none"
    /\ meta = NULL
    /\ data = NULL
    /\ token = NULL

(* The steps of a call in progress.                                        *)
ClientStep ==
    \/ Attempt
    \/ ListingFails \/ ListFeedsPage \/ ListFeedGroupsPage
    \/ GroupDataDone
    \/ ListingParsed \/ DownloadDone

Next ==
    \/ StartListing \/ StartGroupData \/ StartGovulners
    \/ ClientStep
    \/ Publish \/ Retire

(* A running call keeps running: the caller's thread is scheduled and     *)
(* every request returns within its connect and read timeouts.  Calls     *)
(* and the publisher are never forced.                                     *)
Fairness == WF_vars(ClientStep)

Spec == Init /\ [][Next]_vars /\ Fairness

(***************************************************************************)
(* Properties.                                                             *)
(***************************************************************************)

(* A paginated listing (list_feeds, list_feed_groups) holds, while it     *)
(* runs, the records of every page before the one it requests, and the   *)
(* list it returns those of every page, each once and in page order.  The *)
(* one page that may be missing is one the service answered without its  *)
(* "groups" key, which list_feed_groups skips.  A lost, repeated or       *)
(* out-of-order next_token breaks it.                                     *)
ListingComplete ==
    (op \in ListOps /\ result \in {"none", "returned"}) =>
        LET reached == 1..(IF result = "returned" THEN NPages ELSE cursor - 1)
            listed_ == {acc[i] : i \in DOMAIN acc}
        IN  /\ \A i \in 1..(Len(acc) - 1) : acc[i] < acc[i + 1]
            /\ listed_ \subseteq reached
            /\ \A pg \in reached \ listed_ :
                 op = "list_groups" /\ pg \in MissingKeyPages

(* The GroupData that GovulnersDBServiceClient.get_feed_group_data returns *)
(* holds archive bytes, and its response_metadata checksum is the         *)
(* checksum of those bytes, however the upstream listing changes between  *)
(* the sync's list_feed_groups, the re-listing and the download.          *)
ArchiveMetadataConsistent ==
    (op = "gv_download" /\ result = "returned") =>
        /\ data \in Archives
        /\ meta = data

(* Every call of the govulners client that fails on a non-2xx status      *)
(* other than 401 and 403 raises HTTPStatusException, the generic status  *)
(* error the service contract names for them.                             *)
GovulnersFetchErrorsTyped ==
    (/\ op \in {"gv_list", "gv_download"}
     /\ result \in Errors
     /\ lastCode \in {404, 429, 500})
        => result = "HTTPStatusException"

(* list_feed_groups returns or raises, whatever pages the service sends:  *)
(* each execute_request is bounded by its retries and every page advances *)
(* the token.                                                              *)
ListFeedGroupsTerminates ==
    (op = "list_groups" /\ pc = "request") ~> (pc = "idle")

(* list_feeds returns or raises, whatever pages the service sends.        *)
ListFeedsTerminates ==
    (op = "list_feeds" /\ pc = "request") ~> (pc = "idle")

-----------------------------------------------------------------------------
(***************************************************************************)
(* The inductive strengthening that the proofs in FeedClientProofs use.   *)
(***************************************************************************)

(* A call that is still requesting has not returned or raised.            *)
RequestPending == pc = "request" => result = "none"

(* A page body is the one the server sends for the url requested: its     *)
(* number is the url's, and it lacks its key only on a page that may.     *)
(* An application/x-tar response is the 200 of an archive url, carrying   *)
(* that archive: only a 200 of the server sets the type, and the loop     *)
(* stops at the first 200.                                                *)
ResponseFromUrl ==
    /\ resp.content.kind = "page" =>
           /\ url.kind \in {"page", "data"}
           /\ resp.content.val = url.val
           /\ ~resp.content.key => resp.content.val \in MissingKeyPages
    /\ resp.ctype = "tar" =>
           /\ url.kind = "archive"
           /\ resp.success
           /\ resp.content = [kind |-> "archive", val |-> url.val]

(* A paginated call requests the page its cursor names.                   *)
ListingAtCursor ==
    (op \in ListOps /\ pc = "request") => url = [kind |-> "page", val |-> cursor]

(* The download of get_feed_group_data fetches the url of the entry it    *)
(* re-listed.                                                              *)
DownloadOfListed ==
    (op = "gv_download" /\ url.kind = "archive") => url.val = listed

CInv ==
    /\ TypeOK /\ RequestPending /\ ResponseFromUrl /\ ListingAtCursor
    /\ DownloadOfListed /\ ListingComplete /\ ArchiveMetadataConsistent

=============================================================================
