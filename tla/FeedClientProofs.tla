-------------------------- MODULE FeedClientProofs --------------------------
(***************************************************************************)
(* Proofs about FeedClient for any number of pages, retries and archives, *)
(* and any set of outcomes the network may produce.                       *)
(***************************************************************************)
EXTENDS FeedClient, SequenceTheorems, TLAPS

USE ClientAssumption

(* The records the model builds are of their types. *)
LEMMA ConstantsTyped ==
    /\ NewResponse \in Responses
    /\ ErrorBody \in Bodies
    /\ ListingUrl \in Urls
    /\ \A p \in Pages : [kind |-> "page", val |-> p] \in Urls
    /\ \A p \in Pages : [kind |-> "data", val |-> p] \in Urls
    /\ \A a \in Archives : [kind |-> "archive", val |-> a] \in Urls
BY DEF NewResponse, Responses, Bodies, ErrorBody, ListingUrl, Urls, Statuses,
       ContentTypes, Pages

(* A url is a page or data url of a page, the listing url, or an archive *)
(* url.                                                                    *)
LEMMA UrlCases ==
    ASSUME NEW u \in Urls
    PROVE  \/ u.kind \in {"page", "data"} /\ u.val \in Pages
              /\ u = [kind |-> u.kind, val |-> u.val]
           \/ u.kind = "listing" /\ u = ListingUrl
           \/ u.kind = "archive" /\ u.val \in Archives
              /\ u = [kind |-> "archive", val |-> u.val]
BY DEF Urls, ListingUrl

(* The body the server sends for a url: a page url's page, keyed unless   *)
(* the page may lack its key; a data url's keyed page; the listing; the   *)
(* archive of an archive url.                                              *)
LEMMA ServerBodiesPage ==
    ASSUME NEW u, u.kind = "page", NEW b \in ServerBodies(u)
    PROVE  \E x \in BOOLEAN : /\ b = [kind |-> "page", val |-> u.val, key |-> x]
                              /\ ~x => u.val \in MissingKeyPages
<1>1. CASE u.val \in MissingKeyPages
  <2>1. ServerBodies(u) = {[kind |-> "page", val |-> u.val, key |-> x] : x \in BOOLEAN}
    BY <1>1 DEF ServerBodies
  <2>2. QED
    BY <1>1, <2>1
<1>2. CASE u.val \notin MissingKeyPages
  <2>1. ServerBodies(u) = {[kind |-> "page", val |-> u.val, key |-> TRUE]}
    BY <1>2 DEF ServerBodies
  <2>2. QED
    BY <2>1
<1>3. QED
  BY <1>1, <1>2

(* A group data url is answered with its page, which has its key.       *)
LEMMA ServerBodiesData ==
    ASSUME NEW u, u.kind = "data"
    PROVE  ServerBodies(u) = {[kind |-> "page", val |-> u.val, key |-> TRUE]}
BY DEF ServerBodies

(* listing.json is answered with the current entry.                      *)
LEMMA ServerBodiesListing ==
    ASSUME NEW u, u.kind = "listing"
    PROVE  ServerBodies(u) = {[kind |-> "listing", val |-> latest]}
BY DEF ServerBodies

(* An archive url is answered with that archive's bytes.                 *)
LEMMA ServerBodiesArchive ==
    ASSUME NEW u, u.kind = "archive"
    PROVE  ServerBodies(u) = {[kind |-> "archive", val |-> u.val]}
BY DEF ServerBodies

(* The server answers a 200 with a body of the body type. *)
LEMMA ServerBodiesType ==
    ASSUME NEW u \in Urls, latest \in Archives \cup {NULL}
    PROVE  ServerBodies(u) \subseteq Bodies
<1> DEFINE PageBodies == [kind : {"page"}, val : Pages, key : BOOLEAN]
<1>1. CASE u.kind = "page" /\ u.val \in Pages
  <2>1. \A x \in BOOLEAN : [kind |-> "page", val |-> u.val, key |-> x] \in PageBodies
    BY <1>1
  <2>3. ServerBodies(u) \subseteq PageBodies
    BY <1>1, <2>1, ServerBodiesPage
  <2>4. QED
    BY <2>3 DEF Bodies
<1>2. CASE u.kind = "data" /\ u.val \in Pages
  <2>1. [kind |-> "page", val |-> u.val, key |-> TRUE] \in PageBodies
    BY <1>2
  <2>2. ServerBodies(u) = {[kind |-> "page", val |-> u.val, key |-> TRUE]}
    BY <1>2, ServerBodiesData
  <2>3. QED
    BY <2>1, <2>2 DEF Bodies
<1>3. CASE u.kind = "listing"
  <2>1. [kind |-> "listing", val |-> latest] \in [kind : {"listing"}, val : Archives \cup {NULL}]
    OBVIOUS
  <2>2. ServerBodies(u) = {[kind |-> "listing", val |-> latest]}
    BY <1>3, ServerBodiesListing
  <2>3. QED
    BY <2>1, <2>2 DEF Bodies
<1>4. CASE u.kind = "archive" /\ u.val \in Archives
  <2>1. [kind |-> "archive", val |-> u.val] \in [kind : {"archive"}, val : Archives]
    BY <1>4
  <2>2. ServerBodies(u) = {[kind |-> "archive", val |-> u.val]}
    BY <1>4, ServerBodiesArchive
  <2>3. QED
    BY <2>1, <2>2 DEF Bodies
<1>5. QED
  BY <1>1, <1>2, <1>3, <1>4, UrlCases

(* A page body the server sends is the url's page, keyed unless the page *)
(* may lack its key; an archive url's body is that archive.              *)
LEMMA ServerBodiesFacts ==
    ASSUME NEW u \in Urls, NEW b \in ServerBodies(u)
    PROVE  /\ b.kind = "page" =>
                 /\ u.kind \in {"page", "data"}
                 /\ b.val = u.val
                 /\ ~b.key => b.val \in MissingKeyPages
           /\ u.kind = "archive" => b = [kind |-> "archive", val |-> u.val]
<1>1. CASE u.kind = "page"
  BY <1>1, ServerBodiesPage
<1>2. CASE u.kind = "data"
  <2>1. b = [kind |-> "page", val |-> u.val, key |-> TRUE]
    BY <1>2, ServerBodiesData
  <2>2. QED
    BY <1>2, <2>1
<1>3. CASE u.kind = "listing"
  <2>1. b = [kind |-> "listing", val |-> latest]
    BY <1>3, ServerBodiesListing
  <2>2. QED
    BY <1>3, <2>1
<1>4. CASE u.kind = "archive"
  <2>1. b = [kind |-> "archive", val |-> u.val]
    BY <1>4, ServerBodiesArchive
  <2>2. QED
    BY <1>4, <2>1
<1>5. QED
  BY <1>1, <1>2, <1>3, <1>4, UrlCases

(* The initial states satisfy CInv. *)
LEMMA InitCInv ==
    ASSUME Init
    PROVE  CInv
<1>1. TypeOK
  BY ConstantsTyped DEF Init, TypeOK, Ops, Statuses, Pages, Results
<1>2. RequestPending /\ ResponseFromUrl /\ ListingAtCursor /\ DownloadOfListed
  BY DEF Init, RequestPending, ResponseFromUrl, ListingAtCursor,
         DownloadOfListed, NewResponse, ListingUrl
<1>3. ListingComplete /\ ArchiveMetadataConsistent
  BY DEF Init, ListingComplete, ArchiveMetadataConsistent
<1>4. QED
  BY <1>1, <1>2, <1>3 DEF CInv

(* list_feeds or list_feed_groups starts at page 1 with an empty list. *)
LEMMA StartListingCInv ==
    ASSUME CInv, StartListing
    PROVE  CInv'
<1>1. TypeOK'
  BY ConstantsTyped DEF CInv, StartListing, Request, TypeOK, ListOps, Ops, Pages,
                        Statuses, Results
<1>2. (RequestPending /\ ResponseFromUrl /\ ListingAtCursor /\ DownloadOfListed)'
  BY DEF StartListing, Request, RequestPending, ResponseFromUrl, ListingAtCursor,
         DownloadOfListed, NewResponse, ListOps
<1>3. (ListingComplete /\ ArchiveMetadataConsistent)'
  BY DEF StartListing, Request, ListingComplete, ArchiveMetadataConsistent, ListOps
<1>4. QED
  BY <1>1, <1>2, <1>3 DEF CInv

(* get_feed_group_data of the legacy client starts on some page. *)
LEMMA StartGroupDataCInv ==
    ASSUME CInv, StartGroupData
    PROVE  CInv'
<1>1. TypeOK'
  BY ConstantsTyped DEF CInv, StartGroupData, Request, TypeOK, Ops, Statuses, Results
<1>2. (RequestPending /\ ResponseFromUrl /\ ListingAtCursor /\ DownloadOfListed)'
  BY DEF StartGroupData, Request, RequestPending, ResponseFromUrl, ListingAtCursor,
         DownloadOfListed, NewResponse, ListOps
<1>3. (ListingComplete /\ ArchiveMetadataConsistent)'
  BY DEF StartGroupData, Request, ListingComplete, ArchiveMetadataConsistent, ListOps
<1>4. QED
  BY <1>1, <1>2, <1>3 DEF CInv

(* A govulners call starts by requesting listing.json. *)
LEMMA StartGovulnersCInv ==
    ASSUME CInv, StartGovulners
    PROVE  CInv'
<1>1. TypeOK'
  BY ConstantsTyped DEF CInv, StartGovulners, Request, TypeOK, Ops, Statuses, Results
<1>2. (RequestPending /\ ResponseFromUrl /\ ListingAtCursor /\ DownloadOfListed)'
  BY DEF StartGovulners, Request, RequestPending, ResponseFromUrl, ListingAtCursor,
         DownloadOfListed, NewResponse, ListOps, ListingUrl
<1>3. (ListingComplete /\ ArchiveMetadataConsistent)'
  BY DEF StartGovulners, Request, ListingComplete, ArchiveMetadataConsistent, ListOps
<1>4. QED
  BY <1>1, <1>2, <1>3 DEF CInv

(* The publisher's steps touch no call state. *)
LEMMA UpstreamCInv ==
    ASSUME CInv, Publish \/ Retire \/ UNCHANGED vars
    PROVE  CInv'
<1>1. TypeOK'
  BY DEF CInv, Publish, Retire, TypeOK, vars, callVars
<1>2. (RequestPending /\ ResponseFromUrl /\ ListingAtCursor /\ DownloadOfListed
       /\ ListingComplete /\ ArchiveMetadataConsistent)'
  BY DEF CInv, Publish, Retire, vars, callVars, RequestPending, ResponseFromUrl,
         ListingAtCursor, DownloadOfListed, ListingComplete, ArchiveMetadataConsistent
<1>3. QED
  BY <1>1, <1>2 DEF CInv

(* One iteration of execute_request's loop.  A 200 ends the loop with the *)
(* server's body; the other outcomes cannot produce application/x-tar,    *)
(* because the loop only runs while no 200 has come.                      *)
LEMMA AttemptCInv ==
    ASSUME CInv, Attempt
    PROVE  CInv'
<1> USE DEF CInv
<1>1. PICK o \in Possible(url) :
        \/ /\ o = "ok"
           /\ \E b \in ServerBodies(url) :
                resp' = [success |-> TRUE, status |-> 200,
                         ctype |-> ServerCType(url), content |-> b]
           /\ lastCode' = 200
           /\ UNCHANGED <<pc, result>>
        \/ /\ o = "nohdr"
           /\ resp' = [resp EXCEPT !.success = TRUE, !.status = 200,
                                   !.content = ErrorBody]
           /\ lastCode' = 200
           /\ UNCHANGED <<pc, result>>
        \/ /\ o \in {"s401", "s403", "s404"}
           /\ lastCode' = StatusOf[o]
           /\ Return(MapError(o))
           /\ UNCHANGED resp
        \/ /\ o \in {"s429", "s500"}
           /\ \E ct \in {"json", "other", resp.ctype} :
                resp' = [resp EXCEPT !.status = StatusOf[o], !.ctype = ct,
                                     !.content = ErrorBody]
           /\ lastCode' = StatusOf[o]
           /\ UNCHANGED <<pc, result>>
        \/ /\ o \in {"ctimeout", "exc"}
           /\ resp' = [resp EXCEPT !.content = ErrorBody]
           /\ UNCHANGED <<lastCode, pc, result>>
  BY DEF Attempt
<1>2. /\ pc = "request" /\ ~resp.success /\ count < Retries
      /\ count' = count + 1
      /\ UNCHANGED <<latest, avail, op, url, cursor, acc, planned, listed, meta,
                     data, token>>
  BY DEF Attempt, LoopContinues
<1>3. resp.ctype # "tar" /\ result = "none"
  BY <1>2 DEF ResponseFromUrl, RequestPending
<1>4. /\ resp \in Responses /\ url \in Urls
      /\ latest \in Archives \cup {NULL}
      /\ ErrorBody \in Bodies /\ ErrorBody.kind = "error"
  BY ConstantsTyped DEF TypeOK, ErrorBody
(* The facts common to all outcomes. *)
<1>5. /\ count' \in 0..Retries
      /\ (ListingAtCursor /\ DownloadOfListed)'
  BY <1>1, <1>2 DEF TypeOK, ListingAtCursor, DownloadOfListed, Return
<1>6. CASE o = "ok"
  <2>1. PICK b \in ServerBodies(url) :
          resp' = [success |-> TRUE, status |-> 200, ctype |-> ServerCType(url),
                   content |-> b]
    BY <1>1, <1>6
  <2>2. b \in Bodies
    BY <1>4, ServerBodiesType
  <2>3. ServerCType(url) \in ContentTypes
    BY DEF ServerCType, ContentTypes
  <2>4. resp' \in Responses
    BY <2>1, <2>2, <2>3 DEF Responses, Statuses
  <2>5. ResponseFromUrl'
    <3>1. /\ b.kind = "page" => /\ url.kind \in {"page", "data"}
                                /\ b.val = url.val
                                /\ ~b.key => b.val \in MissingKeyPages
          /\ url.kind = "archive" => b = [kind |-> "archive", val |-> url.val]
      BY <1>4, ServerBodiesFacts
    <3>2. ServerCType(url) = "tar" => url.kind = "archive"
      BY DEF ServerCType
    <3>3. QED
      BY <1>2, <2>1, <3>1, <3>2 DEF ResponseFromUrl
  <2>6. QED
    BY <1>1, <1>2, <1>3, <1>5, <1>6, <2>4, <2>5
       DEF TypeOK, Statuses, RequestPending, ListingComplete, ArchiveMetadataConsistent
<1>7. CASE o = "nohdr"
  <2>1. resp' = [resp EXCEPT !.success = TRUE, !.status = 200, !.content = ErrorBody]
    BY <1>1, <1>7
  <2>2. resp' = [success |-> TRUE, status |-> 200, ctype |-> resp.ctype,
                 content |-> ErrorBody]
    BY <1>4, <2>1 DEF Responses
  <2>3. resp' \in Responses /\ resp'.ctype = resp.ctype /\ resp'.content.kind = "error"
    BY <1>4, <2>2 DEF Responses, Statuses
  <2>4. QED
    BY <1>1, <1>2, <1>3, <1>5, <1>7, <2>3
       DEF TypeOK, Statuses, RequestPending, ResponseFromUrl, ListingComplete,
           ArchiveMetadataConsistent
<1>8. CASE o \in {"s401", "s403", "s404"}
  <2>1. lastCode' \in Statuses /\ MapError(o) \in Errors
    BY <1>1, <1>8 DEF StatusOf, Statuses, MapError, Errors
  <2>2. QED
    BY <1>1, <1>2, <1>5, <1>8, <2>1
       DEF TypeOK, Return, Results, RequestPending, ResponseFromUrl, ListingComplete,
           ArchiveMetadataConsistent, Errors
<1>9. CASE o \in {"s429", "s500"}
  <2>1. PICK ct \in {"json", "other", resp.ctype} :
          resp' = [resp EXCEPT !.status = StatusOf[o], !.ctype = ct,
                               !.content = ErrorBody]
    BY <1>1, <1>9
  <2>2. /\ StatusOf[o] \in Statuses
        /\ ct \in ContentTypes /\ ct # "tar"
    BY <1>3, <1>4, <1>9, <2>1 DEF StatusOf, Statuses, Responses, ContentTypes
  <2>3. resp' = [success |-> resp.success, status |-> StatusOf[o], ctype |-> ct,
                 content |-> ErrorBody]
    BY <1>4, <2>1 DEF Responses
  <2>4. resp' \in Responses /\ resp'.ctype # "tar" /\ resp'.content.kind = "error"
    BY <1>4, <2>2, <2>3 DEF Responses
  <2>5. lastCode' \in Statuses
    BY <1>1, <1>9 DEF StatusOf, Statuses
  <2>6. QED
    BY <1>1, <1>2, <1>3, <1>5, <1>9, <2>4, <2>5
       DEF TypeOK, RequestPending, ResponseFromUrl, ListingComplete,
           ArchiveMetadataConsistent
<1>10. CASE o \in {"ctimeout", "exc"}
  <2>1. resp' \in Responses /\ resp'.ctype = resp.ctype /\ resp'.content.kind = "error"
    BY <1>1, <1>4, <1>10 DEF Responses
  <2>2. QED
    BY <1>1, <1>2, <1>3, <1>5, <1>10, <2>1
       DEF TypeOK, RequestPending, ResponseFromUrl, ListingComplete,
           ArchiveMetadataConsistent
<1>11. QED
  <2>1. o \in AllOutcomes
    BY <1>1 DEF Possible, AllOutcomes
  <2>2. QED
    BY <1>6, <1>7, <1>8, <1>9, <1>10, <2>1 DEF AllOutcomes

(* ListingComplete pointwise, for a list s of pages: it increases, every *)
(* page it holds is in 1..n, and a page of 1..n it lacks is in M.        *)
CompleteSeq(s, n, M) ==
    /\ \A i \in 1..(Len(s) - 1) : s[i] < s[i + 1]
    /\ \A i \in DOMAIN s : s[i] \in 1..n
    /\ \A pg \in 1..n : (\A i \in DOMAIN s : s[i] # pg) => pg \in M

(* The pages a call may leave out: those list_feed_groups skips. *)
Skippable == IF op = "list_groups" THEN MissingKeyPages ELSE {}

(* The image of a function on a set lies in T when each value does, and   *)
(* misses x when no value is x.                                            *)
LEMMA ImageFacts ==
    ASSUME NEW f, NEW S, NEW T, NEW x
    PROVE  /\ {f[i] : i \in S} \subseteq T <=> \A i \in S : f[i] \in T
           /\ x \notin {f[i] : i \in S} <=> \A i \in S : f[i] # x
BY Zenon

(* ListingComplete is CompleteSeq of the accumulated list over the pages *)
(* reached.                                                               *)
LEMMA CompleteSeqIff ==
    ASSUME op \in ListOps, result \in {"none", "returned"}
    PROVE  ListingComplete <=>
               CompleteSeq(acc, IF result = "returned" THEN NPages ELSE cursor - 1,
                           Skippable)
<1> DEFINE n == IF result = "returned" THEN NPages ELSE cursor - 1
<1>1. ListingComplete <=>
        /\ \A i \in 1..(Len(acc) - 1) : acc[i] < acc[i + 1]
        /\ {acc[i] : i \in DOMAIN acc} \subseteq 1..n
        /\ \A pg \in 1..n \ {acc[i] : i \in DOMAIN acc} :
              op = "list_groups" /\ pg \in MissingKeyPages
  BY DEF ListingComplete
<1>2. \A pg : (op = "list_groups" /\ pg \in MissingKeyPages) <=> pg \in Skippable
  BY DEF Skippable
<1>3. {acc[i] : i \in DOMAIN acc} \subseteq 1..n <=> \A i \in DOMAIN acc : acc[i] \in 1..n
  BY ImageFacts
<1>4. (\A pg \in 1..n \ {acc[i] : i \in DOMAIN acc} :
          op = "list_groups" /\ pg \in MissingKeyPages)
      <=> \A pg \in 1..n : (\A i \in DOMAIN acc : acc[i] # pg) => pg \in Skippable
  <2>1. \A pg : pg \notin {acc[i] : i \in DOMAIN acc} <=> \A i \in DOMAIN acc : acc[i] # pg
    BY ImageFacts
  <2>2. QED
    BY <1>2, <2>1, Zenon
<1>5. QED
  BY <1>1, <1>3, <1>4 DEF CompleteSeq

(* The same reading of ListingComplete in the next state.                *)
LEMMA CompleteSeqIffNext ==
    ASSUME op' \in ListOps, result' \in {"none", "returned"}
    PROVE  ListingComplete' <=>
               CompleteSeq(acc', IF result' = "returned" THEN NPages ELSE cursor' - 1,
                           Skippable')
<1> DEFINE n == IF result' = "returned" THEN NPages ELSE cursor' - 1
<1>1. ListingComplete' <=>
        /\ \A i \in 1..(Len(acc') - 1) : acc'[i] < acc'[i + 1]
        /\ {acc'[i] : i \in DOMAIN acc'} \subseteq 1..n
        /\ \A pg \in 1..n \ {acc'[i] : i \in DOMAIN acc'} :
              op' = "list_groups" /\ pg \in MissingKeyPages
  BY DEF ListingComplete
<1>2. \A pg : (op' = "list_groups" /\ pg \in MissingKeyPages) <=> pg \in Skippable'
  BY DEF Skippable
<1>3. {acc'[i] : i \in DOMAIN acc'} \subseteq 1..n <=> \A i \in DOMAIN acc' : acc'[i] \in 1..n
  BY ImageFacts
<1>4. (\A pg \in 1..n \ {acc'[i] : i \in DOMAIN acc'} :
          op' = "list_groups" /\ pg \in MissingKeyPages)
      <=> \A pg \in 1..n : (\A i \in DOMAIN acc' : acc'[i] # pg) => pg \in Skippable'
  <2>1. \A pg : pg \notin {acc'[i] : i \in DOMAIN acc'} <=> \A i \in DOMAIN acc' : acc'[i] # pg
    BY ImageFacts
  <2>2. QED
    BY <1>2, <2>1, Zenon
<1>5. QED
  BY <1>1, <1>3, <1>4 DEF CompleteSeq

(* Appending the next page keeps a list complete, one page further. *)
LEMMA AppendComplete ==
    ASSUME NEW s \in Seq(Pages), NEW c \in Pages, NEW M, CompleteSeq(s, c - 1, M)
    PROVE  CompleteSeq(Append(s, c), c, M)
<1> DEFINE t == Append(s, c)
<1> USE DEF t
<1>1. /\ c \in Nat \ {0} /\ Len(s) \in Nat /\ DOMAIN s = 1..Len(s)
      /\ Len(t) = Len(s) + 1 /\ DOMAIN t = 1..(Len(s) + 1)
      /\ \A i \in 1..Len(s) : t[i] = s[i]
      /\ t[Len(s) + 1] = c
  BY AppendProperties, LenProperties DEF Pages
<1>2. \A i \in 1..Len(s) : s[i] \in 1..(c - 1)
  BY <1>1 DEF CompleteSeq
<1>3. \A i \in 1..(Len(t) - 1) : t[i] < t[i + 1]
  <2> SUFFICES ASSUME NEW i \in 1..(Len(t) - 1) PROVE t[i] < t[i + 1]
    OBVIOUS
  <2>1. i \in 1..Len(s) /\ Len(s) \in Nat
    BY <1>1
  <2>2. CASE i < Len(s)
    <3>1. s[i] < s[i + 1]
      BY <1>1, <2>2 DEF CompleteSeq
    <3>2. QED
      BY <1>1, <2>2, <3>1
  <2>3. CASE i = Len(s)
    BY <1>1, <1>2, <2>3
  <2>4. QED
    BY <2>1, <2>2, <2>3
<1>4. \A i \in DOMAIN t : t[i] \in 1..c
  BY <1>1, <1>2
<1>5. ASSUME NEW pg \in 1..c, \A i \in DOMAIN t : t[i] # pg
      PROVE  pg \in M
  <2>1. pg \in 1..(c - 1) /\ \A i \in DOMAIN s : s[i] # pg
    BY <1>1, <1>5
  <2>2. QED
    BY <2>1 DEF CompleteSeq
<1>6. QED
  BY <1>3, <1>4, <1>5 DEF CompleteSeq

(* Skipping a page that may be left out keeps a list complete, one page  *)
(* further.                                                               *)
LEMMA SkipComplete ==
    ASSUME NEW s \in Seq(Pages), NEW c \in Pages, NEW M, c \in M,
           CompleteSeq(s, c - 1, M)
    PROVE  CompleteSeq(s, c, M)
<1>1. c \in Nat \ {0}
  BY DEF Pages
<1>2. \A i \in DOMAIN s : s[i] \in 1..c
  BY <1>1 DEF CompleteSeq
<1>3. ASSUME NEW pg \in 1..c, \A i \in DOMAIN s : s[i] # pg
      PROVE  pg \in M
  <2>1. CASE pg = c
    BY <2>1
  <2>2. CASE pg # c
    BY <1>1, <1>3, <2>2 DEF CompleteSeq
  <2>3. QED
    BY <2>1, <2>2
<1>4. QED
  BY <1>2, <1>3 DEF CompleteSeq

(* A parsed page: the list grows by the page, or list_feed_groups skips  *)
(* a page without its "groups" key; then a truthy next_token is followed *)
(* or the list is returned.                                               *)
LEMMA TokenStepCInv ==
    ASSUME CInv, op \in ListOps, pc = "request", resp.success,
           resp.content.kind = "page",
           ~resp.content.key => op = "list_groups",
           acc' = IF resp.content.key THEN Append(acc, resp.content.val) ELSE acc,
           FollowToken(resp.content.val),
           UNCHANGED <<latest, avail, op, planned, listed, meta, data, token>>
    PROVE  CInv'
<1> USE DEF CInv
<1>1. /\ url = [kind |-> "page", val |-> cursor]
      /\ resp.content.val = cursor
      /\ result = "none"
      /\ cursor \in Pages /\ acc \in Seq(Pages)
      /\ ~resp.content.key => cursor \in MissingKeyPages
  BY DEF ListingAtCursor, ResponseFromUrl, RequestPending, TypeOK
<1>2. CompleteSeq(acc, cursor - 1, Skippable)
  BY <1>1, CompleteSeqIff
<1>3. /\ acc' \in Seq(Pages)
      /\ CompleteSeq(acc', cursor, Skippable')
  <2>1. Skippable' = Skippable
    BY DEF Skippable
  <2>2. CASE resp.content.key
    <3>1. acc' = Append(acc, cursor)
      BY <1>1, <2>2
    <3>2. QED
      BY <1>1, <1>2, <2>1, <3>1, AppendComplete, AppendProperties
  <2>3. CASE ~resp.content.key
    <3>1. acc' = acc /\ cursor \in Skippable
      BY <1>1, <2>3 DEF Skippable
    <3>2. QED
      BY <1>1, <1>2, <2>1, <3>1, SkipComplete
  <2>4. QED
    BY <2>2, <2>3
<1>4. ArchiveMetadataConsistent' /\ DownloadOfListed'
  BY DEF ArchiveMetadataConsistent, DownloadOfListed, ListOps
<1>5. CASE cursor < NPages
  <2>1. /\ cursor' = cursor + 1 /\ cursor' \in Pages
        /\ url' = [kind |-> "page", val |-> cursor'] /\ resp' = NewResponse
        /\ count' = 0 /\ lastCode' = 1 /\ pc' = "request" /\ result' = "none"
    BY <1>1, <1>5 DEF FollowToken, HasNextToken, Request, Pages
  <2>2. TypeOK'
    <3>1. (url \in Urls /\ resp \in Responses /\ count \in 0..Retries)'
      BY <2>1, ConstantsTyped
    <3>2. (lastCode \in Statuses /\ pc \in {"idle", "request"} /\ result \in Results)'
      BY <2>1 DEF Statuses, Results
    <3>3. QED
      BY <1>3, <2>1, <3>1, <3>2 DEF TypeOK
  <2>3. (RequestPending /\ ResponseFromUrl /\ ListingAtCursor)'
    BY <2>1 DEF RequestPending, ResponseFromUrl, ListingAtCursor, NewResponse
  <2>4. ListingComplete'
    <3>1. cursor' - 1 = cursor /\ op' \in ListOps
      BY <1>1, <2>1 DEF Pages
    <3>2. QED
      BY <1>3, <2>1, <3>1, CompleteSeqIffNext
  <2>5. QED
    BY <1>4, <2>2, <2>3, <2>4
<1>6. CASE ~(cursor < NPages)
  <2>1. /\ cursor = NPages
        /\ result' = "returned" /\ pc' = "idle"
        /\ UNCHANGED <<url, resp, count, lastCode, cursor>>
    BY <1>1, <1>6 DEF FollowToken, HasNextToken, Return, Pages
  <2>2. TypeOK'
    BY <1>3, <2>1 DEF TypeOK, Results
  <2>3. (RequestPending /\ ResponseFromUrl /\ ListingAtCursor)'
    BY <2>1 DEF RequestPending, ResponseFromUrl, ListingAtCursor
  <2>4. ListingComplete'
    BY <1>3, <2>1, CompleteSeqIffNext
  <2>5. QED
    BY <1>4, <2>2, <2>3, <2>4
<1>7. QED
  BY <1>5, <1>6

(* list_feeds, on a page without its "feeds" key, fetches the same url    *)
(* again.                                                                  *)
LEMMA RefetchCInv ==
    ASSUME CInv, op \in ListOps, pc = "request",
           Request([kind |-> "page", val |-> cursor]),
           UNCHANGED <<cursor, acc, result>>,
           UNCHANGED <<latest, avail, op, planned, listed, meta, data, token>>
    PROVE  CInv'
<1> USE DEF CInv
<1>1. cursor \in Pages
  BY DEF TypeOK
<1>2. TypeOK'
  BY <1>1, ConstantsTyped DEF TypeOK, Request, Statuses
<1>3. (RequestPending /\ ResponseFromUrl /\ ListingAtCursor /\ DownloadOfListed)'
  BY DEF Request, RequestPending, ResponseFromUrl, ListingAtCursor, DownloadOfListed,
         NewResponse, ListOps
<1>4. (ListingComplete /\ ArchiveMetadataConsistent)'
  BY DEF ListingComplete, ArchiveMetadataConsistent, ListOps
<1>5. QED
  BY <1>2, <1>3, <1>4

(* list_feeds parses a page: a re-fetch without "feeds", else a step.    *)
LEMMA ListFeedsPageCInv ==
    ASSUME CInv, ListFeedsPage
    PROVE  CInv'
<1>1. /\ op = "list_feeds" /\ pc = "request" /\ resp.success
      /\ resp.content.kind = "page"
      /\ UNCHANGED <<latest, avail, op, planned, listed, meta, data, token>>
  BY DEF ListFeedsPage, LoopDone
<1>2. CASE ~resp.content.key
  BY <1>1, <1>2, RefetchCInv DEF ListFeedsPage, ListOps
<1>3. CASE resp.content.key
  BY <1>1, <1>3, TokenStepCInv DEF ListFeedsPage, ListOps
<1>4. QED
  BY <1>2, <1>3

(* list_feed_groups parses a page: always a token step.                 *)
LEMMA ListFeedGroupsPageCInv ==
    ASSUME CInv, ListFeedGroupsPage
    PROVE  CInv'
BY TokenStepCInv DEF ListFeedGroupsPage, LoopDone, ListOps

(* A listing manifest's entry is an archive or missing.                   *)
LEMMA ListingBodyVal ==
    ASSUME NEW b \in Bodies, b.kind = "listing"
    PROVE  b.val \in Archives \cup {NULL}
BY DEF Bodies

(* A call that returns leaves the listing and download conjuncts to      *)
(* calls whose return they describe: a raise, or a return of a call that *)
(* neither lists nor downloads.                                           *)
LEMMA ReturnCInv ==
    ASSUME CInv, pc = "request",
           pc' = "idle", result' \in Results \ {"none"},
           result' = "returned" => op \notin ListOps \cup {"gv_download"},
           token' \in Pages \cup {NULL}, planned' \in Archives \cup {NULL},
           UNCHANGED <<latest, avail, op, url, resp, count, lastCode, cursor, acc,
                       listed, meta, data>>
    PROVE  CInv'
<1> USE DEF CInv
<1>1. TypeOK'
  BY DEF TypeOK
<1>2. (RequestPending /\ ResponseFromUrl /\ ListingAtCursor /\ DownloadOfListed)'
  BY DEF RequestPending, ResponseFromUrl, ListingAtCursor, DownloadOfListed
<1>3. (ListingComplete /\ ArchiveMetadataConsistent)'
  BY DEF ListingComplete, ArchiveMetadataConsistent, Results, Errors, ListOps
<1>4. QED
  BY <1>1, <1>2, <1>3

(* A listing raises on a failed request or an unparsable body.            *)
LEMMA ListingFailsCInv ==
    ASSUME CInv, ListingFails
    PROVE  CInv'
<1>1. planned' \in Archives \cup {NULL} /\ token' \in Pages \cup {NULL}
  BY DEF ListingFails, CInv, TypeOK
<1>2. QED
  BY <1>1, ReturnCInv DEF ListingFails, LoopDone, Return, Results, Errors

(* get_feed_group_data returns its page and next token, or raises.      *)
LEMMA GroupDataDoneCInv ==
    ASSUME CInv, GroupDataDone
    PROVE  CInv'
<1>1. token' \in Pages \cup {NULL}
  <2>1. cursor \in Pages /\ token \in Pages \cup {NULL}
    BY DEF CInv, TypeOK
  <2>2. QED
    BY <2>1 DEF GroupDataDone, HasNextToken, Pages
<1>2. planned' \in Archives \cup {NULL}
  BY DEF GroupDataDone, CInv, TypeOK
<1>3. QED
  BY <1>1, <1>2, ReturnCInv DEF GroupDataDone, LoopDone, Return, Results, Errors,
                                 ListOps

(* The govulners listing is parsed: a raise, the entry returned to the   *)
(* sync, or the entry's archive requested and remembered as listed.      *)
LEMMA ListingParsedCInv ==
    ASSUME CInv, ListingParsed
    PROVE  CInv'
<1> DEFINE entry == resp.content.val
<1> USE DEF CInv
<1>1. /\ op \in {"gv_list", "gv_download"} /\ pc = "request"
      /\ UNCHANGED <<latest, avail, op, cursor, acc, meta, data, token>>
      /\ token \in Pages \cup {NULL} /\ planned \in Archives \cup {NULL}
      /\ result = "none"
  BY DEF ListingParsed, LoopDone, TypeOK, RequestPending
<1>2. resp.content.kind = "listing" => entry \in Archives \cup {NULL}
  BY ListingBodyVal DEF TypeOK, Responses
<1>3. CASE /\ resp.content.kind = "listing" /\ entry # NULL /\ op = "gv_download"
           /\ listed' = entry
           /\ Request([kind |-> "archive", val |-> entry])
           /\ UNCHANGED <<planned, result>>
  <2>1. entry \in Archives
    BY <1>2, <1>3
  <2>2. TypeOK'
    BY <1>1, <1>3, <2>1, ConstantsTyped DEF TypeOK, Request, Statuses
  <2>3. (RequestPending /\ ResponseFromUrl /\ ListingAtCursor /\ DownloadOfListed)'
    BY <1>1, <1>3 DEF Request, RequestPending, ResponseFromUrl, ListingAtCursor,
                      DownloadOfListed, NewResponse, ListOps
  <2>4. (ListingComplete /\ ArchiveMetadataConsistent)'
    BY <1>1, <1>3 DEF ListingComplete, ArchiveMetadataConsistent, ListOps
  <2>5. QED
    BY <2>2, <2>3, <2>4
<1>4. CASE /\ resp.content.kind = "listing" /\ entry # NULL /\ op = "gv_list"
           /\ planned' = entry
           /\ Return("returned")
           /\ UNCHANGED <<url, resp, count, lastCode, listed>>
  BY <1>1, <1>2, <1>4, ReturnCInv DEF Return, Results, ListOps
<1>5. CASE /\ Return("HTTPStatusException") \/ Return("JSONDecodeError")
              \/ Return("GovulnersVersionCommandError")
              \/ Return("GovulnersDBUnavailable")
           /\ UNCHANGED <<url, resp, count, lastCode, planned, listed>>
  BY <1>1, <1>5, ReturnCInv DEF Return, Results, Errors
<1>6. QED
  BY <1>3, <1>4, <1>5 DEF ListingParsed

(* The archive's download returns: on a tar body, the listing that named *)
(* the url becomes response_metadata beside the bytes.                    *)
LEMMA DownloadDoneCInv ==
    ASSUME CInv, DownloadDone
    PROVE  CInv'
<1> USE DEF CInv
<1>1. /\ op = "gv_download" /\ pc = "request"
      /\ UNCHANGED <<latest, avail, op, url, resp, count, lastCode, cursor, acc,
                     planned, listed, token>>
      /\ token \in Pages \cup {NULL} /\ planned \in Archives \cup {NULL}
  BY DEF DownloadDone, LoopDone, TypeOK
<1>2. CASE resp.success /\ resp.ctype = "tar"
  <2>1. /\ url.kind = "archive" /\ url.val = listed /\ url.val \in Archives
        /\ resp.content.val = url.val
    <3>1. url.kind = "archive" /\ resp.content = [kind |-> "archive", val |-> url.val]
      BY <1>2 DEF ResponseFromUrl
    <3>2. url.val \in Archives
      BY <3>1, UrlCases DEF TypeOK
    <3>3. QED
      BY <1>1, <3>1, <3>2 DEF DownloadOfListed
  <2>2. meta' = listed /\ data' = url.val /\ result' = "returned" /\ pc' = "idle"
    BY <1>2, <2>1 DEF DownloadDone, Return
  <2>3. TypeOK'
    BY <1>1, <2>1, <2>2 DEF TypeOK, Results
  <2>4. (RequestPending /\ ResponseFromUrl /\ ListingAtCursor /\ DownloadOfListed)'
    BY <1>1, <2>2 DEF RequestPending, ResponseFromUrl, ListingAtCursor,
                      DownloadOfListed
  <2>5. (ListingComplete /\ ArchiveMetadataConsistent)'
    BY <1>1, <2>1, <2>2 DEF ListingComplete, ArchiveMetadataConsistent, ListOps
  <2>6. QED
    BY <2>3, <2>4, <2>5
<1>3. CASE ~(resp.success /\ resp.ctype = "tar")
  <2>1. /\ result' \in {"HTTPStatusException", "UnexpectedMIMEType"}
        /\ pc' = "idle" /\ UNCHANGED <<meta, data>>
    BY <1>3 DEF DownloadDone, Return
  <2>2. QED
    BY <1>1, <2>1, ReturnCInv DEF Results, Errors
<1>4. QED
  BY <1>2, <1>3

(* Every step of the client, of its caller or of the upstream service,   *)
(* and every stutter, keeps CInv.                                          *)
LEMMA NextCInv ==
    ASSUME CInv, [Next]_vars
    PROVE  CInv'
<1>1. CASE StartListing
  BY <1>1, StartListingCInv
<1>2. CASE StartGroupData
  BY <1>2, StartGroupDataCInv
<1>3. CASE StartGovulners
  BY <1>3, StartGovulnersCInv
<1>4. CASE Attempt
  BY <1>4, AttemptCInv
<1>5. CASE ListingFails
  BY <1>5, ListingFailsCInv
<1>6. CASE ListFeedsPage
  BY <1>6, ListFeedsPageCInv
<1>7. CASE ListFeedGroupsPage
  BY <1>7, ListFeedGroupsPageCInv
<1>8. CASE GroupDataDone
  BY <1>8, GroupDataDoneCInv
<1>9. CASE ListingParsed
  BY <1>9, ListingParsedCInv
<1>10. CASE DownloadDone
  BY <1>10, DownloadDoneCInv
<1>11. CASE Publish \/ Retire \/ UNCHANGED vars
  BY <1>11, UpstreamCInv
<1>12. QED
  BY <1>1, <1>2, <1>3, <1>4, <1>5, <1>6, <1>7, <1>8, <1>9, <1>10, <1>11
     DEF Next, ClientStep

(* CInv holds in every reachable state of the client.                    *)
LEMMA CInvInvariant == Spec => []CInv
<1>1. Init => CInv
  BY InitCInv
<1>2. CInv /\ [Next]_vars => CInv'
  BY NextCInv
<1>3. QED
  BY <1>1, <1>2, PTL DEF Spec

(* Every variable of the client and of the server it talks to keeps its  *)
(* type in every reachable state, for every number of pages and retries. *)
THEOREM ClientTypeCorrect == Spec => []TypeOK
BY CInvInvariant, PTL DEF CInv

(* list_feeds and list_feed_groups, in every reachable state, hold a      *)
(* strictly increasing list of the pages reached, missing exactly pages  *)
(* list_feed_groups skipped for their absent "groups" key, whatever the   *)
(* retries, errors and re-fetches of execute_request on the way.         *)
THEOREM ListingsComplete == Spec => []ListingComplete
BY CInvInvariant, PTL DEF CInv

(* A govulners download that returns pairs the archive bytes with the    *)
(* listing whose url it fetched, however the upstream publishes and      *)
(* retires archives between the listing and the download.                *)
THEOREM DownloadMetadataConsistent == Spec => []ArchiveMetadataConsistent
BY CInvInvariant, PTL DEF CInv

=============================================================================
