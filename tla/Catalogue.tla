------------------------------ MODULE Catalogue ------------------------------
(***************************************************************************)
(* Reading the library: the browser's cursor pagination against the keyset *)
(* pages of GET /api/novels, the exclusion of novels that carry a blocked  *)
(* tag, the view of the excluded ones, and the scope of a batch operation, *)
(* all of them over rows that other requests change between two reads.     *)
(*                                                                         *)
(* Each repository call (one @offload worker-thread call) is one step; the *)
(* calls of a request are separate steps, because every one of them is a   *)
(* READ COMMITTED statement of its own.                                    *)
(***************************************************************************)
EXTENDS Integers, FiniteSets, Sequences, SequencesExt

CONSTANTS
    Ids,         \* ids a novel may have; a local upload's id is negative
    Shuffle,     \* [Ids -> Nat]: novel.shuffle, drawn when the row is written
    Libraries,   \* the libraries a behaviour may start from
    Writes,      \* the values a row may be written with
    Searches,    \* the searches the user makes
    Selections,  \* sets of ids a request names: selected, or left out
    PerPage, CountCap, BatchCap, ChunkSize,
    MaxEdits, MaxSearches, MaxFaults, MaxSides     \* bounds of the model

Rows == [like : Nat, match : BOOLEAN, tag : BOOLEAN]
SearchRecords ==
    [kw : BOOLEAN, order : {"id", "like", "random"}, desc : BOOLEAN]

ASSUME CatalogueAssumption ==
    /\ Ids \subseteq Int \ {0} /\ IsFiniteSet(Ids)
    /\ Shuffle \in [Ids -> Nat]
    /\ Writes \subseteq Rows
    /\ \A lib \in Libraries : DOMAIN lib \subseteq Ids /\ \A i \in DOMAIN lib : lib[i] \in Rows
    /\ Searches \subseteq SearchRecords /\ Searches # {}
    /\ Selections \subseteq SUBSET Ids
    /\ {PerPage, CountCap, BatchCap, ChunkSize} \subseteq Nat \ {0}
    /\ BatchCap <= CountCap
    /\ {MaxEdits, MaxSearches, MaxFaults, MaxSides} \subseteq Nat

VARIABLES
    table,      \* the novel table: id -> row, for the ids that exist
    pref,       \* the tag of the rows with tag = TRUE is blocked
    active,     \* the runtime setting exclude_blocked_tag_novels
    tab,        \* systemConfig: the setting as this tab knows it
    client,     \* the list in the browser
    req,        \* its request, if one is in flight
    side,       \* a batch operation or a visit to the excluded novels
    steady,     \* ghost: rows of the first page's listing nobody touched since
    edits, searches, faults, sides     \* counters of the bounds

catalogueVars == <<table, pref, active, tab, client, req, side, steady,
                   edits, searches, faults, sides>>

None == "none"
NoCursor == [id |-> 0, key |-> 0]
NoReq == [state |-> None]
NoSide == [kind |-> None]
Browse(s) == s.order = "random" /\ ~s.kw

-----------------------------------------------------------------------------
(* The query: filters, order and cursor *)

Abs(i) == IF i < 0 THEN -i ELSE i

\* The sort key of a row: time is the absolute value of the id.
Key(s, i) ==
    CASE s.order = "id" -> Abs(i)
      [] s.order = "like" -> table[i].like
      [] s.order = "random" -> Shuffle[i]

\* (k, i) comes strictly before (l, j): rows are compared as the pair of the
\* key and the id, both descending or both ascending.
Precedes(s, k, i, l, j) ==
    LET Less(a, b, c, d) == a < c \/ (a = c /\ b < d)
    IN IF s.order # "random" /\ s.desc THEN Less(l, j, k, i) ELSE Less(k, i, l, j)

\* ORDER BY: the k-th row is the one with k of the rows up to it.
UpTo(s, S, i) == {j \in S : j = i \/ Precedes(s, Key(s, j), j, Key(s, i), i)}
Ordered(s, S) ==
    [k \in 1..Cardinality(S) |-> CHOOSE i \in S : Cardinality(UpTo(s, S, i)) = k]

Matches(kw) == {i \in DOMAIN table : kw => table[i].match}
Blocked(i) == pref /\ table[i].tag
Listed(kw, hide) == {i \in Matches(kw) : ~(hide /\ Blocked(i))}

FirstOf(seq, n) == SubSeq(seq, 1, IF Len(seq) < n THEN Len(seq) ELSE n)

\* The rows after the cursor, one more than a page.
Fetched(s, hide, cur) ==
    LET after == {i \in Listed(s.kw, hide) :
                    cur = NoCursor \/ Precedes(s, cur.key, cur.id, Key(s, i), i)}
    IN FirstOf(Ordered(s, after), PerPage + 1)

CursorAt(s, i) == [id |-> i, key |-> Key(s, i)]

\* The extra row says there is another page; the cursor is the last row shown.
PageByExtra(s, got) ==
    IF Len(got) <= PerPage THEN [ids |-> got, cursor |-> NoCursor]
    ELSE [ids |-> SubSeq(got, 1, PerPage), cursor |-> CursorAt(s, got[PerPage + 1])]

Page(s, got) ==
    IF Len(got) <= PerPage THEN [ids |-> got, cursor |-> NoCursor]
    ELSE [ids |-> SubSeq(got, 1, PerPage), cursor |-> CursorAt(s, got[PerPage])]

\* A browse without conditions starts at a random shuffle value and wraps
\* around to the front when the tail is shorter than a page.
Wrapped(s, tail, all) ==
    FirstOf(tail \o Ordered(s, Range(FirstOf(all, PerPage)) \ Range(tail)), PerPage)

RandomPage(s, hide, start) ==
    LET visible == Listed(FALSE, hide)
        tail == FirstOf(Ordered(s, {i \in visible : Shuffle[i] >= start}), PerPage)
        got  == IF Len(tail) < PerPage /\ start > 0
                THEN Wrapped(s, tail, Ordered(s, visible)) ELSE tail
    IN [ids |-> got,
        cursor |-> IF Len(got) >= PerPage THEN CursorAt(s, Last(got)) ELSE NoCursor]

\* randint(0, max(shuffle)) over the whole table.
Starts == 0 .. Max({Shuffle[i] : i \in DOMAIN table} \cup {0})

\* count_novels: the count stops at CountCap and says so.
CountBounded(kw, hide) ==
    LET n == Cardinality(Listed(kw, hide))
    IN IF n > CountCap THEN [value |-> CountCap, truncated |-> TRUE]
       ELSE [value |-> n, truncated |-> FALSE]

-----------------------------------------------------------------------------
(* The list in the browser *)

\* fetchConfig asks once per tab; until an answer has come the tab excludes.
ConfigIs(hide) == [known |-> TRUE, hide |-> hide]
Unfetched == [known |-> FALSE, hide |-> TRUE]

Empty(s) == [search |-> s, items |-> <<>>, from |-> {}, cursor |-> NoCursor,
             noMore |-> FALSE, bar |-> FALSE, barred |-> FALSE, back |-> FALSE, began |-> 0,
             hides |-> {}]

CatalogueInit ==
    /\ table \in Libraries
    /\ pref = TRUE /\ active \in BOOLEAN
    /\ tab \in {ConfigIs(active), Unfetched}
    /\ client = Empty(CHOOSE s \in Searches : TRUE)
    /\ req = NoReq /\ side = NoSide /\ steady = {}
    /\ edits = 0 /\ searches = 0 /\ faults = 0 /\ sides = 0

\* fetchNovels: it sends the exclusion setting as this tab knows it, which may
\* be another than the one in force.
Request(c, hide, more) ==
    [state |-> "sent", search |-> c.search, hide |-> hide, more |-> more,
     superseded |-> FALSE, cursor |-> IF more THEN c.cursor ELSE NoCursor]

\* handleSearch: reset, then loadNovels. A request in flight is superseded:
\* its answer is dropped and the load is made when it settles.
SupersededReq == [req EXCEPT !.superseded = TRUE]

Load(s, hide) ==
    /\ client' = [Empty(s) EXCEPT !.bar = client.bar]
    /\ req' = IF req = NoReq THEN Request(client', hide, FALSE) ELSE SupersededReq
    /\ steady' = {}

Search(s) ==
    /\ searches < MaxSearches
    /\ searches' = searches + 1
    /\ Load(s, tab.hide)
    /\ UNCHANGED <<table, pref, active, tab, side, edits, faults, sides>>

\* onPopState in a hidden tab: the filters follow the URL, the list stays.
BackWhileHidden(s) ==
    /\ searches < MaxSearches /\ s # client.search
    /\ searches' = searches + 1
    /\ client' = [client EXCEPT !.search = s, !.back = TRUE]
    /\ UNCHANGED <<table, pref, active, tab, req, side, steady, edits, faults, sides>>

LoadMore ==
    /\ req = NoReq /\ ~client.noMore /\ searches > 0
    /\ req' = Request(client, tab.hide, TRUE)
    /\ UNCHANGED <<table, pref, active, tab, client, side, steady, edits, searches, faults, sides>>

\* The server reads the page. The first page of a search with conditions is
\* followed by has_excluded_novels.
ReadPage ==
    /\ req.state = "sent"
    /\ \E start \in Starts :
        LET s == req.search
            first == req.cursor = NoCursor
            page == IF Browse(s) /\ first THEN RandomPage(s, req.hide, start)
                    ELSE Page(s, Fetched(s, req.hide, req.cursor))
        IN /\ ~(Browse(s) /\ first) => start = 0
           /\ req' = [state |-> IF first /\ s.kw THEN "listed" ELSE "answered",
                      search |-> s, hide |-> req.hide,
                      more |-> req.more, superseded |-> req.superseded,
                      cursor |-> req.cursor, page |-> page, bar |-> FALSE, at |-> edits]
           /\ steady' = IF first THEN Listed(s.kw, req.hide) ELSE steady
    /\ UNCHANGED <<table, pref, active, tab, client, side, edits, searches, faults, sides>>

HasExcluded(kw, hide) == hide /\ \E i \in Matches(kw) : Blocked(i)

ReadBar ==
    /\ req.state = "listed"
    /\ req' = [req EXCEPT !.state = "answered", !.bar = HasExcluded(req.search.kw, req.hide)]
    /\ UNCHANGED <<table, pref, active, tab, client, side, steady, edits, searches, faults, sides>>

\* The answer is appended (load more) or becomes the list.
Shown(c, r) ==
    [c EXCEPT !.items = IF r.more THEN @ \o r.page.ids ELSE r.page.ids,
              !.from = IF r.more THEN @ \cup {r.search} ELSE {r.search},
              !.cursor = r.page.cursor,
              !.noMore = r.page.cursor = NoCursor,
              !.hides = IF r.more THEN @ \cup {r.hide} ELSE {r.hide},
              !.began = IF r.cursor = NoCursor THEN r.at ELSE @]

\* hasExcluded is set by every answer to a first load, dropped or not.
Barred(c, r) ==
    IF r.more THEN c ELSE [c EXCEPT !.bar = r.bar, !.barred = ~r.superseded]

KeptAnyway(c, r) == Shown(c, r)
Kept(c, r) == IF r.superseded THEN c ELSE Shown(c, r)
Settled(c, r) == IF r.superseded THEN Request(c, tab.hide, FALSE) ELSE NoReq

Answer ==
    /\ req.state = "answered"
    /\ client' = Kept(Barred(client, req), req)
    /\ req' = Settled(client, req)
    /\ UNCHANGED <<table, pref, active, tab, side, steady, edits, searches, faults, sides>>

RequestFails ==
    /\ req # NoReq /\ faults < MaxFaults
    /\ faults' = faults + 1
    /\ req' = Settled(client, req)
    /\ UNCHANGED <<table, pref, active, tab, client, side, steady, edits, searches, sides>>

-----------------------------------------------------------------------------
(* What other requests and tasks do to the rows *)

\* Rows that change leave the ghost set; a hidden row may come or go.
Touch(changed) ==
    /\ edits < MaxEdits
    /\ edits' = edits + 1
    /\ steady' = steady \ changed
    /\ UNCHANGED <<tab, client, req, side, searches, faults, sides>>

WriteRow(i) ==
    /\ \E row \in Writes : table' = [j \in DOMAIN table \cup {i} |->
                                   IF j = i THEN row ELSE table[j]]
    /\ table' # table
    /\ Touch({i})
    /\ UNCHANGED <<pref, active>>

RemoveRow(i) ==
    /\ i \in DOMAIN table
    /\ table' = [j \in DOMAIN table \ {i} |-> table[j]]
    /\ Touch({i})
    /\ UNCHANGED <<pref, active>>

Tagged == {i \in DOMAIN table : table[i].tag}

TogglePreference == pref' = ~pref /\ Touch(Tagged) /\ UNCHANGED <<table, active>>

\* toggleExclude in this tab sends the opposite of what it knows and takes the
\* answer over; the list is loaded again unless the tab knew nothing before.
ToggleExclusion ==
    /\ edits < MaxEdits
    /\ edits' = edits + 1
    /\ active' = ~tab.hide /\ tab' = ConfigIs(~tab.hide)
    /\ IF tab.known /\ searches > 0 THEN Load(client.search, ~tab.hide)
       ELSE UNCHANGED <<client, req, steady>>
    /\ UNCHANGED <<table, pref, side, searches, faults, sides>>

\* The same in another tab: this one is not told.
OtherTabToggles ==
    active' = ~active /\ Touch({}) /\ UNCHANGED <<table, pref>>

\* A view that mounts later asks again if the first answer never came; the
\* list that is there stays.
FetchConfig ==
    /\ ~tab.known /\ searches > 0
    /\ tab' = ConfigIs(active)
    /\ UNCHANGED <<table, pref, active, client, req, side, steady,
                   edits, searches, faults, sides>>

-----------------------------------------------------------------------------
(* A batch operation: POST /api/novels/batch, and /batch-task without a cap *)

OpenSide ==
    /\ side = NoSide /\ sides < MaxSides
    /\ sides' = sides + 1
    /\ UNCHANGED <<table, pref, active, tab, client, req, steady, edits, searches, faults>>

Move(record) ==
    /\ side' = record
    /\ UNCHANGED <<table, pref, active, tab, client, req, steady, edits, searches, faults, sides>>

Batch(state, kw, excluded, ids) ==
    [kind |-> "batch", state |-> state, kw |-> kw, excluded |-> excluded, ids |-> ids]

BatchSelected(S, capped) ==
    /\ S # {} /\ (capped => Cardinality(S) <= BatchCap)
    /\ OpenSide
    /\ side' = Batch("resolved", FALSE, {}, S)

BatchMatched(kw, excluded, capped) ==
    /\ OpenSide
    /\ side' = Batch(IF capped THEN "counting" ELSE "listing", kw, excluded, {})

\* The scope is refused when the count, which is bounded, exceeds the cap.
OverCap(count) == count.truncated \/ count.value > BatchCap

BatchCount ==
    /\ side.kind = "batch" /\ side.state = "counting"
    /\ Move(IF OverCap(CountBounded(side.kw, active)) THEN NoSide
            ELSE [side EXCEPT !.state = "listing"])

BatchList ==
    /\ side.kind = "batch" /\ side.state = "listing"
    /\ LET ids == Listed(side.kw, active) \ side.excluded
       IN Move(IF ids = {} THEN NoSide
               ELSE [side EXCEPT !.state = "resolved", !.ids = ids])

\* delete_many, or add_tags_to_novels with the blocked tag.
BatchAct ==
    /\ side.kind = "batch" /\ side.state = "resolved"
    /\ \/ table' = [i \in DOMAIN table \ side.ids |-> table[i]]
       \/ table' = [i \in DOMAIN table |->
                      IF i \in side.ids THEN [table[i] EXCEPT !.tag = TRUE] ELSE table[i]]
    /\ steady' = steady \ side.ids
    /\ edits' = edits + 1
    /\ side' = NoSide
    /\ UNCHANGED <<pref, active, tab, client, req, searches, faults, sides>>

-----------------------------------------------------------------------------
(* The excluded novels of a search: GET /api/novels/blocked-ids *)

BlockedView(s) ==
    /\ OpenSide
    /\ side' = [kind |-> "view", state |-> "reading", search |-> s, left |-> <<>>,
                ids |-> <<>>, began |-> edits]

\* list_blocked_ids follows the global setting.
ReadBlockedIds ==
    /\ side.kind = "view" /\ side.state = "reading"
    /\ LET all == IF active THEN {i \in DOMAIN table : Blocked(i)} ELSE {}
       IN Move([side EXCEPT !.state = "filtering", !.left = SetToSeq(all)])

\* filter_ids_in_scope, chunk by chunk; exclusion is not applied again.
InScopeExcluding(kw, ids) == ids \cap Listed(kw, active)
InScope(kw, ids) == ids \cap Listed(kw, FALSE)

FilterChunk ==
    /\ side.kind = "view" /\ side.state = "filtering" /\ side.left # <<>>
    /\ LET chunk == FirstOf(side.left, ChunkSize)
       IN Move([side EXCEPT
            !.left = SubSeq(@, Len(chunk) + 1, Len(@)),
            !.ids = @ \o SetToSeq(InScope(side.search.kw, Range(chunk)))])

\* sort_novel_ids drops the ids that are gone; random keeps the scope's order.
SortView ==
    /\ side.kind = "view" /\ side.state = "filtering" /\ side.left = <<>>
    /\ LET s == side.search IN
       Move([side EXCEPT !.state = "done",
                 !.ids = IF s.order = "random" THEN @
                         ELSE Ordered(s, Range(@) \cap DOMAIN table)])

LeaveView == side.kind = "view" /\ side.state = "done" /\ Move(NoSide)

-----------------------------------------------------------------------------
Side ==
    \/ \E S \in Selections, capped \in BOOLEAN : BatchSelected(S, capped)
    \/ \E kw, capped \in BOOLEAN, excluded \in Selections \cup {{}} :
          BatchMatched(kw, excluded, capped)
    \/ BatchCount \/ BatchList \/ BatchAct
    \/ BlockedView(client.search) \/ ReadBlockedIds \/ FilterChunk \/ SortView \/ LeaveView

Browser ==
    \/ \E s \in Searches : Search(s) \/ BackWhileHidden(s)
    \/ LoadMore \/ ReadPage \/ ReadBar \/ Answer \/ RequestFails
    \/ FetchConfig \/ ToggleExclusion

Others ==
    \/ \E i \in Ids : WriteRow(i) \/ RemoveRow(i)
    \/ TogglePreference \/ OtherTabToggles

CatalogueNext == Browser \/ Side \/ Others

CatalogueSpec == CatalogueInit /\ [][CatalogueNext]_catalogueVars

-----------------------------------------------------------------------------
CatalogueTypeOK ==
    /\ DOMAIN table \subseteq Ids /\ \A i \in DOMAIN table : table[i] \in Rows
    /\ pref \in BOOLEAN /\ active \in BOOLEAN /\ tab \in [known : BOOLEAN, hide : BOOLEAN]
    /\ client.search \in Searches /\ client.from \subseteq Searches
    /\ client.items \in Seq(Ids)
    /\ req.state \in {None, "sent", "listed", "answered"}
    /\ side.kind \in {None, "batch", "view"}
    /\ steady \subseteq DOMAIN table
    /\ edits \in 0 .. MaxEdits + MaxSides

Times(i) == Cardinality({k \in 1 .. Len(client.items) : client.items[k] = i})

\* In a search or an ordered list, a row nobody touched since the first page
\* was read is never shown twice, and a list that ended has shown it, whatever
\* happened to the rows around it (the keyset pagination of
\* NovelQueryBuilder._apply_cursor). A random browse without conditions, which
\* starts anywhere and wraps around, is excused from both: of it only the first
\* page is said to repeat no row.
EachRowOnce ==
    (~client.back /\ Cardinality(client.from) = 1) =>
        /\ ~Browse(client.search) => \A i \in steady : Times(i) <= 1
        /\ (client.noMore /\ ~Browse(client.search) /\ req = NoReq) =>
              \A i \in steady : Times(i) = 1
        /\ (Browse(client.search) /\ Len(client.items) <= PerPage) => IsInjective(client.items)

\* The list holds the answers to one search only, the one in the filters
\* (useCursorPagination's requestSeq and pendingReload), unless the user
\* went Back while the tab was hidden and nothing was loaded since.
ListIsOneSearch == client.back \/ client.from \subseteq {client.search}

\* The list and the view of the excluded novels share no row and leave none of
\* the search's rows out: of a list that ended, every page of which was asked
\* for with the setting in force, with no write since either of them began. The
\* bar that offers the view is then up exactly when there is something in it,
\* if the list's first page was not fetched by a scroll after a failed load.
Partition ==
    /\ Range(client.items) \cap Range(side.ids) = {}
    /\ Range(client.items) \cup Range(side.ids) = Matches(client.search.kw)
    /\ (client.search.kw /\ client.barred) =>
          (client.bar <=> side.ids # <<>>)

ViewBesideList ==
    /\ side.kind = "view" /\ side.state = "done" /\ side.began = edits
    /\ side.search = client.search /\ ~client.back /\ ~Browse(client.search)
    /\ req = NoReq /\ client.noMore /\ client.began = edits

ListAndViewPartition ==
    ViewBesideList /\ client.hides = {active} => Partition

\* The request follows the global setting (useNovels.ts:22), so that the list
\* and the view partition the search in every tab. Refuted: the tab sends what
\* it fetched once, or TRUE, while the view follows the setting in force.
EveryTabPartitions == ViewBesideList => Partition
=============================================================================
