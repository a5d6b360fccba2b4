------------------------------- MODULE Readers ------------------------------
(***************************************************************************)
(* What reads attestations back: get_one, the pages of search, export, and *)
(* the share links: create, get_json and render_page, revoke.  Each reads  *)
(* a list of rows or ids in one statement and then each receipt with two   *)
(* more reads, of its row and of its blob, while others insert, delete and *)
(* revoke.                                                                 *)
(***************************************************************************)
EXTENDS Blobs

CONSTANTS
  Reader,        \* requests that read receipts
  Filter,        \* the filter of the searches
  PageLimit,     \* their limit
  ShareLimit,    \* the limit of the search that makes a link: 500
  LinkDays,      \* expires_in_days of the links
  MaxLinks       \* bound: how many links are made

VARIABLES
  reader,        \* each request that reads
  walk,          \* a client that follows the cursor of a search
  maker          \* a request that makes a link

readVars == <<reader, walk, maker>>

ASSUME ReadersAssumption ==
  /\ PageLimit \in Nat \ {0} /\ ShareLimit \in Nat \ {0}
  /\ LinkDays \in Nat \ {0}

Idle == [kind |-> "none", status |-> "idle", account |-> 0, link |-> 0, todo |-> <<>>,
         page |-> <<>>, dead |-> FALSE]
NoWalk == [status |-> "idle", account |-> 0, start |-> {}, seen |-> <<>>, cursor |-> None]
NoMaker == [status |-> "idle", account |-> 0, ids |-> <<>>, checked |-> {}]

ReadersTypeOK ==
  /\ \A v \in Reader :
       /\ reader[v].status \in {"idle", "resolve", "row", "blob", "200", "404", "422"}
       /\ reader[v].status = "resolve" => reader[v].link \in DOMAIN links
       /\ reader[v].dead => reader[v].kind = "share"
  /\ walk.status \in {"idle", "more", "done"}
  /\ walk.status = "more" <=> walk.cursor # None
  /\ maker.status \in {"idle", "check"}
  /\ maker.checked \subseteq ToSet(maker.ids)

ReadersInit ==
  /\ reader = [v \in Reader |-> Idle]
  /\ walk = NoWalk
  /\ maker = NoMaker

Read(v, rec) ==
  /\ reader' = [reader EXCEPT ![v] = rec]
  /\ UNCHANGED <<walk, maker, blobVars, tables>>

Dead(l) == links[l].revoked \/ now >= links[l].expires

----------------------------------------------------------------------------
(* resolve_active_link, of get_json and render_page; dead remembers that   *)
(* the link was revoked or expired already when the request came.          *)
Open(v, l) ==
  /\ reader[v].status = "idle"
  /\ l \in DOMAIN links
  /\ Read(v, [Idle EXCEPT !.kind = "share", !.status = "resolve", !.link = l,
                          !.account = links[l].account, !.dead = Dead(l)])

Unresolved(l) == Dead(l)
LooksAtExpiry(l) == now >= links[l].expires   \* mutant
Refused(l) == Unresolved(l)

Resolve(v) ==
  /\ reader[v].status = "resolve"
  /\ \E l \in FetchShareLink(links, reader[v].link) :
       Read(v, IF l = 0 \/ Refused(l)
               THEN [reader[v] EXCEPT !.status = "404"]
               ELSE [reader[v] EXCEPT !.status = "row", !.todo = links[l].ids])

(* export: the rows are listed once.  get_one names one id.                *)
Export(v, a) ==
  /\ reader[v].status = "idle"
  /\ Read(v, [Idle EXCEPT !.kind = "export", !.status = "blob", !.account = a,
                          !.todo = ListAllAttestations(rows, a)])

GetOne(v, a, id) ==
  /\ reader[v].status = "idle"
  /\ Read(v, [Idle EXCEPT !.kind = "get", !.status = "row", !.account = a, !.todo = <<id>>])

(* The next of its list, as a row; an id is looked up again, within the    *)
(* account, and one that is no longer there is skipped, or is a 404.       *)
FetchRow(v) ==
  LET r == reader[v] IN
  /\ r.status = "row"
  /\ r.todo # <<>>
  /\ LET found == FetchAttestation(rows, r.account, Head(r.todo)) IN
     IF found = {}
     THEN Read(v, IF r.kind = "get" THEN [r EXCEPT !.status = "404"]
                  ELSE [r EXCEPT !.todo = Tail(@)])
     ELSE \E x \in found :
            Read(v, [r EXCEPT !.status = "blob", !.todo = <<x>> \o Tail(@)])

(* fetch_and_verify.  A blob that does not verify ends a page with 422, or *)
(* a banner.                                                               *)
Shown(x) == [row |-> x, whole |-> Whole(x.content)]

FetchBlob(v) ==
  LET r == reader[v]
      x == Head(r.todo) IN
  /\ r.status = "blob" /\ r.kind # "export"
  /\ r.todo # <<>>
  /\ Read(v,
       IF BlobVerifies(x.content)
       THEN [r EXCEPT !.page = Append(@, Shown(x)), !.todo = Tail(@), !.status = "row"]
       ELSE [r EXCEPT !.status = "422", !.page = <<>>, !.todo = <<>>])

(* An export goes on, with a line that says so.                            *)
ExportLine(v) ==
  LET r == reader[v]
      x == Head(r.todo) IN
  /\ r.status = "blob" /\ r.kind = "export"
  /\ r.todo # <<>>
  /\ Read(v, [r EXCEPT !.todo = Tail(@),
                       !.page = IF BlobVerifies(x.content) THEN Append(@, Shown(x)) ELSE @])

Answer(v) ==
  /\ reader[v].status \in {"row", "blob"}
  /\ reader[v].todo = <<>>
  /\ Read(v, [reader[v] EXCEPT !.status = "200"])

----------------------------------------------------------------------------
(* search, page after page: start is what matched when the first was read, *)
(* and was there again when each later one was.                            *)
Found(a) == {x \in rows : Matches(x, a, Filter)}

TakePage(w) ==
  LET page == SearchAttestations(rows, w.account, Filter, PageLimit, w.cursor) IN
  /\ walk' = [w EXCEPT !.status = IF page.next = None THEN "done" ELSE "more",
                       !.start = @ \cap rows,
                       !.seen = @ \o page.rows,
                       !.cursor = page.next]
  /\ UNCHANGED <<reader, maker, blobVars, tables>>

FirstPage(a) ==
  /\ walk.status = "idle"
  /\ TakePage([NoWalk EXCEPT !.account = a, !.start = Found(a)])

NextPage == walk.status = "more" /\ TakePage(walk)

----------------------------------------------------------------------------
(* share_links::create, from ids: each is looked up, one after another.    *)
Make(rec) ==
  /\ maker' = rec
  /\ UNCHANGED <<reader, walk, blobVars, tables>>

(* A duplicate in the list is kept, and fetched twice.                     *)
ShareIds(a, ids) ==
  /\ maker.status = "idle"
  /\ Len(links) < MaxLinks
  /\ Make([status |-> "check", account |-> a, ids |-> ids, checked |-> {}])

CheckId ==
  /\ maker.status = "check"
  /\ \E id \in ToSet(maker.ids) \ maker.checked :
       Make(IF FetchAttestation(rows, maker.account, id) = {} THEN NoMaker
            ELSE [maker EXCEPT !.checked = @ \cup {id}])

(* From a filter: the first ShareLimit rows that it matches now.           *)
ShareFilter(a) ==
  LET page == SearchAttestations(rows, a, Filter, ShareLimit, None).rows
      ids == [i \in DOMAIN page |-> IdOf[page[i].content]] IN
  /\ maker.status = "idle"
  /\ Len(links) < MaxLinks
  /\ page # <<>>
  /\ Make([status |-> "check", account |-> a, ids |-> ids, checked |-> ToSet(ids)])

CreateLink ==
  /\ maker.status = "check"
  /\ maker.checked = ToSet(maker.ids)
  /\ links' = CreateShareLink(links,
                NewLink(maker.account, maker.ids, now + LinkDays * DayLength))
  /\ maker' = NoMaker
  /\ UNCHANGED <<reader, walk, blobVars, accounts, keys, rows, usage>>

Revoke(a, l) ==
  LET answer == RevokeShareLink(links, a, l) IN
  /\ answer.updated
  /\ links' = answer.links
  /\ UNCHANGED <<readVars, blobVars, accounts, keys, rows, usage>>

Ids == {IdOf[c] : c \in Contents}
Owners == DOMAIN accounts

ReadersNext ==
  \/ \E v \in Reader \cap actors :
       \/ \E l \in DOMAIN links : Open(v, l)
       \/ \E a \in Owners : Export(v, a) \/ \E id \in Ids : GetOne(v, a, id)
       \/ Resolve(v) \/ FetchRow(v) \/ FetchBlob(v) \/ ExportLine(v) \/ Answer(v)
  \/ "walk" \in actors /\ (NextPage \/ \E a \in Owners : FirstPage(a))
  \/ /\ "maker" \in actors
     /\ \/ \E a \in Owners : ShareFilter(a) \/ \E id, jd \in Ids : ShareIds(a, <<id, jd>>)
        \/ CheckId \/ CreateLink
  \/ "owner" \in actors /\ \E a \in Owners, l \in DOMAIN links : Revoke(a, l)
=============================================================================
