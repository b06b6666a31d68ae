------------------------------ MODULE LinkList ------------------------------
(***************************************************************************)
(* The list of an account's links: the API's keyset pages                  *)
(* (url.repository.ts, listUrls) and the browser tab that gathers them     *)
(* into one infinite query (features/urls/hooks/use-urls.ts), which the    *)
(* dashboard and the list page share although they ask for pages of        *)
(* different lengths.                                                      *)
(*                                                                         *)
(* Links enter the account while the tab is between two pages: new ones    *)
(* with greater ids, concurrent creates that commit late and claimed guest *)
(* links with smaller ones.                                                *)
(***************************************************************************)
EXTENDS Naturals, Sequences, FiniteSets, SequencesExt

CONSTANTS
  Ids,          (* urls.id                                                 *)
  Users,
  Limits,       (* per page that shows the list: the limit it asks for     *)
  Faults,       (* whether requests may fail                               *)
  None

ASSUME IdsAreNumbers == Ids \subseteq Nat \ {0} /\ IsFiniteSet(Ids)
ASSUME TwoPages == Limits \in [{"list", "dashboard"} -> Nat \ {0}]
VARIABLES
  rows,         (* urls: per id, the account whose list has it             *)
  user,         (* the account the tab is signed in to                     *)
  screen,       (* the page the tab shows                                  *)
  cache,        (* the query's data, and history: since is what every      *)
                (* account the pages were read for had when the first page *)
                (* was, outrun that no load started after a deactivation   *)
                (* was confirmed                                           *)
  fetch,        (* the query's load under way                              *)
  delete,       (* the mutation under way                                  *)
  confirmed     (* links this tab was told it has deactivated              *)

vars == <<rows, user, screen, cache, fetch, delete, confirmed>>

Item == [id : Ids, active : BOOLEAN]
Page == [items : Seq(Item), next : Ids \cup {None}]

Data == [pages : Seq(Page), since : SUBSET Ids, outrun : BOOLEAN, failed : BOOLEAN]
NoData == [pages |-> <<>>, since |-> {}, outrun |-> FALSE, failed |-> FALSE]

Load ==
  [kind : {"all", "next"}, limit : Nat \ {0}, todo : Nat, got : Seq(Page),
   cursor : Ids \cup {None}, answer : {None} \cup Page, since : SUBSET Ids,
   outrun : BOOLEAN]

NoDelete == [at |-> "idle"]

ASSUME NoneIsNothing == None \notin Users \cup Ids /\ None \notin Load

TypeOK ==
  /\ rows \in [Ids -> [owner : Users \cup {None}, active : BOOLEAN]]
  /\ user \in Users \cup {None}
  /\ screen \in {"list", "dashboard", "elsewhere"}
  /\ cache \in Data
  /\ fetch \in {None} \cup Load
  /\ delete \in {NoDelete} \cup [at : {"sent", "ok"}, id : Ids]
  /\ confirmed \subseteq Ids

Init ==
  /\ rows = [i \in Ids |-> [owner |-> None, active |-> TRUE]]
  /\ user = None
  /\ screen = "elsewhere"
  /\ cache = NoData
  /\ fetch = None
  /\ delete = NoDelete
  /\ confirmed = {}

-----------------------------------------------------------------------------
(* The API.                                                                *)

Owned(u) == {i \in Ids : rows[i].owner = u}

(* Mutant of NextCursor: the cursor is the row after the page.             *)
CursorOfExtraRow(found, limit) == IF Len(found) > limit THEN found[limit + 1] ELSE None

(* One row more than the page is read, to know whether there is another    *)
(* page; the cursor is the page's last row.                                *)
NextCursor(found, limit) == IF Len(found) > limit THEN found[limit] ELSE None

(* Mutant of ListedFrom: rows from the cursor, not below it.               *)
ListedFromCursor(u, cursor) == {i \in Owned(u) : cursor # None => i <= cursor}

ListedFrom(u, cursor) == {i \in Owned(u) : cursor # None => i < cursor}

(* A set of ids in the order of the query: as many are above the k-th as   *)
(* come before it.                                                         *)
Above(i, S) == {j \in S : j > i}
Descending(S) ==
  [k \in 1..Cardinality(S) |-> CHOOSE i \in S : Cardinality(Above(i, S)) = k - 1]

First(n, s) == SubSeq(s, 1, IF n < Len(s) THEN n ELSE Len(s))

ListUrls(u, cursor, limit) ==
  LET found == First(limit + 1, Descending(ListedFrom(u, cursor)))
      page == First(limit, found) IN
  [items |-> [k \in DOMAIN page |-> [id |-> page[k], active |-> rows[page[k]].active]],
   next |-> NextCursor(found, limit)]

(* A create commits, or a claim moves a guest's link, older than it looks. *)
LinkAppears ==
  /\ \E i \in Ids, u \in Users :
       /\ rows[i].owner = None
       /\ rows' = [rows EXCEPT ![i].owner = u]
  /\ UNCHANGED <<user, screen, cache, fetch, delete, confirmed>>

ServePage ==
  /\ fetch # None /\ fetch.answer = None
  /\ fetch' = [fetch EXCEPT !.answer = ListUrls(user, fetch.cursor, fetch.limit),
                            !.since = IF fetch.got = <<>> THEN Owned(user)
                                      ELSE @ \cap Owned(user)]
  /\ UNCHANGED <<rows, user, screen, cache, delete, confirmed>>

(* deactivate: the caller's own row.                                       *)
ServeDelete ==
  /\ delete.at = "sent"
  /\ rows' = [rows EXCEPT ![delete.id].active = FALSE]
  /\ delete' = [delete EXCEPT !.at = "ok"]
  /\ UNCHANGED <<user, screen, cache, fetch, confirmed>>

-----------------------------------------------------------------------------
(* The tab.                                                                *)

Shows(s) == s \in DOMAIN Limits

(* Every page the data has is loaded again, each from the one before it.   *)
LoadAll(limit, pages) ==
  [kind |-> "all", limit |-> limit, todo |-> IF pages = <<>> THEN 1 ELSE Len(pages),
   got |-> <<>>, cursor |-> None, answer |-> None, since |-> {}, outrun |-> FALSE]

LoadNext(limit, data) ==
  [kind |-> "next", limit |-> limit, todo |-> 1, got |-> data.pages,
   cursor |-> Last(data.pages).next, answer |-> None, since |-> data.since,
   outrun |-> data.outrun \/ fetch # None]

SignIn ==
  /\ user = None
  /\ user' \in Users
  /\ UNCHANGED <<rows, screen, cache, fetch, delete, confirmed>>

(* A logout or a 401: RequireAuth unmounts the page, which cancels its     *)
(* load; the query's data stays.                                           *)
SignOut ==
  /\ user # None
  /\ user' = None
  /\ screen' = "elsewhere"
  /\ fetch' = None
  /\ UNCHANGED <<rows, cache, delete, confirmed>>

(* Leaving a page cancels its load; what a page mounts on is stale.        *)
Navigate ==
  /\ user # None
  /\ screen' \in {"list", "dashboard", "elsewhere"} \ {screen}
  /\ fetch' = IF Shows(screen') THEN LoadAll(Limits[screen'], cache.pages) ELSE None
  /\ UNCHANGED <<rows, user, cache, delete, confirmed>>

(* Five minutes unused, the data is dropped.                               *)
CacheExpires ==
  /\ ~Shows(screen) /\ cache.pages # <<>>
  /\ cache' = NoData
  /\ UNCHANGED <<rows, user, screen, fetch, delete, confirmed>>

(* The network comes back.                                                 *)
Refetch ==
  /\ Shows(screen) /\ fetch = None
  /\ fetch' = LoadAll(Limits[screen], cache.pages)
  /\ UNCHANGED <<rows, user, screen, cache, delete, confirmed>>

(* fetchNextPage takes the place of a refetch under way.                   *)
LoadMore ==
  /\ screen = "list" /\ ~cache.failed
  /\ cache.pages # <<>> /\ Last(cache.pages).next # None
  /\ fetch # None => fetch.kind # "next"
  /\ fetch' = LoadNext(Limits[screen], cache)
  /\ UNCHANGED <<rows, user, screen, cache, delete, confirmed>>

(* Another page to load, or the data to replace.                           *)
HearPage ==
  LET got == Append(fetch.got, fetch.answer) IN
  /\ fetch # None /\ fetch.answer # None
  /\ IF fetch.todo > 1 /\ fetch.answer.next # None
       THEN /\ fetch' = [fetch EXCEPT !.todo = @ - 1, !.got = got,
                                      !.cursor = fetch.answer.next, !.answer = None]
            /\ UNCHANGED cache
       ELSE /\ fetch' = None
            /\ cache' = [pages |-> got, since |-> fetch.since,
                         outrun |-> fetch.outrun, failed |-> FALSE]
  /\ UNCHANGED <<rows, user, screen, delete, confirmed>>

(* Twice, as the query client retries once.                                *)
LoadFails ==
  /\ Faults /\ fetch # None
  /\ fetch' = None
  /\ cache' = [cache EXCEPT !.failed = TRUE]
  /\ UNCHANGED <<rows, user, screen, delete, confirmed>>

(* The button on a link's own page.                                        *)
Deactivate ==
  /\ user # None /\ screen = "elsewhere" /\ delete = NoDelete
  /\ \E i \in Owned(user) :
       rows[i].active /\ delete' = [at |-> "sent", id |-> i]
  /\ UNCHANGED <<rows, user, screen, cache, fetch, confirmed>>

(* The row may have been updated: nothing is invalidated.                  *)
DeleteFails ==
  /\ Faults /\ delete # NoDelete
  /\ delete' = NoDelete
  /\ UNCHANGED <<rows, user, screen, cache, fetch, confirmed>>

(* Mutant of Invalidated: a load under way is as good as a new one.        *)
InvalidatedUnlessLoading ==
  IF ~Shows(screen) \/ fetch # None THEN fetch ELSE LoadAll(Limits[screen], cache.pages)

(* invalidateQueries on a mounted list starts over what is under way,      *)
(* except the first load, which has no data to fall back on.               *)
Invalidated ==
  IF ~Shows(screen) THEN fetch
  ELSE IF fetch # None /\ cache.pages = <<>> THEN [fetch EXCEPT !.outrun = TRUE]
  ELSE LoadAll(Limits[screen], cache.pages)

HearDeleted ==
  /\ delete.at = "ok"
  /\ delete' = NoDelete
  /\ confirmed' = confirmed \cup {delete.id}
  /\ fetch' = Invalidated
  /\ UNCHANGED <<rows, user, screen, cache>>

Next ==
  \/ LinkAppears \/ ServePage \/ ServeDelete
  \/ SignIn \/ SignOut \/ Navigate \/ CacheExpires \/ Refetch \/ LoadMore
  \/ HearPage \/ LoadFails
  \/ Deactivate \/ DeleteFails \/ HearDeleted

Spec == Init /\ [][Next]_vars

-----------------------------------------------------------------------------
Shown(pages) ==
  {i \in Ids : \E p \in DOMAIN pages : \E k \in DOMAIN pages[p].items :
                 pages[p].items[k].id = i}

(* Each item of the pages has a greater id than every later one.           *)
Descends(pages) ==
  \A p, q \in DOMAIN pages :
    \A j \in DOMAIN pages[p].items, k \in DOMAIN pages[q].items :
      p < q \/ (p = q /\ j < k) => pages[p].items[j].id > pages[q].items[k].id

(* The gathered pages are one list, newest first, with no link twice,      *)
(* whatever entered the account between two of them and whichever page     *)
(* asked for which.                                                        *)
OneDescendingList == Descends(cache.pages)

(* What the pages reach down to: everything, or the last cursor.           *)
Reach(pages, i) == pages # <<>> /\ (Last(pages).next = None \/ i >= Last(pages).next)

(* No link is skipped at the edge of a page: every link that was in the    *)
(* account when the first page was read is shown, as far down as the pages *)
(* reach (url.repository.ts:258-269).                                      *)
NothingSkipped == \A i \in cache.since : Reach(cache.pages, i) => i \in Shown(cache.pages)

(* No link the tab was told is deactivated is shown as active.             *)
Heeds(pages) ==
  \A p \in DOMAIN pages : \A k \in DOMAIN pages[p].items :
    pages[p].items[k].id \in confirmed => ~pages[p].items[k].active

(* A list at rest shows a link as inactive once the tab was told that it   *)
(* is (use-urls.ts:31), unless the load that should have refreshed it was  *)
(* the list's first or gave way to "Load more".                            *)
DeactivationShown ==
  Shows(screen) /\ fetch = None /\ ~cache.failed /\ ~cache.outrun => Heeds(cache.pages)

-----------------------------------------------------------------------------
(* What makes these inductive.                                             *)

(* Pages read so far: they descend to the last cursor, which is no link's  *)
(* that is not among them, and miss nothing above it.                      *)
Gathered(pages, since) ==
  /\ Descends(pages)
  /\ \A i \in Shown(pages) : Reach(pages, i)
  /\ \A i \in since : Reach(pages, i) => i \in Shown(pages)

(* A page from a cursor, or the first.                                     *)
Below(i, cursor) == cursor # None => i < cursor
PageFrom(cursor, page, since) ==
  /\ Gathered(<<page>>, {i \in since : Below(i, cursor)})
  /\ \A i \in Shown(<<page>>) : Below(i, cursor)
  /\ page.next # None => Below(page.next, cursor)

(* A load under way goes on from the pages it has, with their last cursor. *)
LoadGathers ==
  fetch # None =>
    /\ Gathered(fetch.got, fetch.since)
    /\ fetch.cursor = IF fetch.got = <<>> THEN None ELSE Last(fetch.got).next
    /\ fetch.got # <<>> => fetch.cursor # None
    /\ fetch.answer # None => PageFrom(fetch.cursor, fetch.answer, fetch.since)

(* What the tab was told has happened; only a mounted list loads, and one  *)
(* that nothing outran has read no confirmed link as active.               *)
LoadHeeds ==
  /\ \A i \in confirmed : ~rows[i].active
  /\ delete.at = "ok" => ~rows[delete.id].active
  /\ ~Shows(screen) => fetch = None
  /\ fetch # None /\ ~fetch.outrun =>
       Heeds(fetch.got) /\ (fetch.answer # None => Heeds(<<fetch.answer>>))

(* The types, the list the pages make up, and what makes it inductive.     *)
IInv ==
  /\ TypeOK
  /\ OneDescendingList
  /\ Gathered(cache.pages, cache.since)
  /\ LoadGathers
  /\ LoadHeeds
  /\ DeactivationShown
=============================================================================
