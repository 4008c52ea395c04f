---------------------------- MODULE MetadataEdit ----------------------------
(***************************************************************************)
(* Hanging local books on authors and series (update_metadata.py,          *)
(* batch_edit_metadata.py and the repository statements they run).         *)
(*                                                                         *)
(* A request opens its write transaction when it arrives and commits when  *)
(* its handler returns.  Between the two it may insert the placeholder row *)
(* of an author or a series and then wait for Pixiv to say its name: that  *)
(* wait is the only point where the editor of one book gives up the event  *)
(* loop.  The batch edit also gives it up around its UPDATE statements,    *)
(* which run in a thread.  Everything else a handler does, its lock waits  *)
(* included, occupies the loop, so nothing else in the process moves.      *)
(*                                                                         *)
(* A statement that meets a lock of another transaction waits for it, at   *)
(* most lock_timeout, and its request then fails and rolls back.           *)
(***************************************************************************)
EXTENDS Naturals, FiniteSets

CONSTANTS
    Books,       \* ids of novel rows
    Authors,     \* Pixiv author ids; an author's name is written as its id
    Series,      \* Pixiv series ids; likewise
    Requests,    \* PATCH and batch-metadata requests
    Null,        \* SQL NULL
    Keep,        \* the request does not submit this field
    OwnName,     \* the author name the upload took from the file name
    Unknown,     \* UNKNOWN_AUTHOR
    Free         \* nobody runs on the event loop

Ids == Authors \cup Series

\* Author and series rows are rows of two tables; the markers are nobody's id.
Distinct ==
    /\ Authors \cap Series = {}
    /\ Null \notin Ids /\ Keep \notin Ids /\ Keep # Null
    /\ OwnName # Null /\ Unknown # Null

ASSUME EditAssumption == Distinct

VARIABLES
    local,       \* the novels with source = 'local'; never written
    author, authorName,   \* novel.author_id, novel.author_name
    series, seriesName,   \* novel.series_id, novel.series_name
    named,       \* committed author and series rows -> whether they have a name
    req,         \* request -> its progress
    loop,        \* the request whose handler is running on the event loop
    overtaken    \* history: some request committed while another was under way

editVars == <<local, author, authorName, series, seriesName, named, req, loop, overtaken>>

Phases == {"new", "author", "authorNet", "series", "seriesNet", "write",
           "update", "fill", "finish", "done"}

Request == [phase : Phases, kind : {"patch", "batch"}, books : SUBSET Books,
            author : Authors \cup {Null, Keep}, series : Series \cup {Null, Keep},
            nameRead : {Null, OwnName, Unknown} \cup Authors,
            authorIs : Authors \cup {Null}, seriesIs : Series \cup {Null},
            inserted : SUBSET Ids, rows : SUBSET Books, filled : SUBSET Books]

Done(r) == [r EXCEPT !.phase = "done", !.inserted = {}, !.rows = {},
                     !.filled = {}, !.nameRead = Null, !.authorIs = Null,
                     !.seriesIs = Null]

-----------------------------------------------------------------------------
(* Locks.  An uncommitted placeholder and an uncommitted row change both   *)
(* make the next writer of the same row wait.                              *)

HeldIds(q) == UNION {req[p].inserted : p \in Requests \ {q}}
HeldRows(q) == UNION {req[p].rows \cup req[p].filled : p \in Requests \ {q}}

\* ensure_exists: INSERT ... ON CONFLICT DO NOTHING of a row nobody committed.
EnsureExists(q, id) ==
    IF id \in DOMAIN named THEN req[q].inserted ELSE req[q].inserted \cup {id}

\* lookup_author_profile's local half: get_names_by_ids.
KnownLocally(id) == id \in DOMAIN named /\ named[id]

\* lookup_series_profile's local half: the series row, then any of its novels.
SeriesKnownLocally(s) ==
    KnownLocally(s) \/ \E b \in Books : series[b] = s /\ seriesName[b] # Null

\* The rows the final statements of the request touch: update_author_name
\* also renames every other book of that author.
RowsOfName(q, changed) ==
    IF req[q].authorIs = Null THEN {}
    ELSE {b \in Books : /\ b \in changed \/ author[b] = req[q].author
                        /\ b \in changed \/ authorName[b] # req[q].authorIs}

-----------------------------------------------------------------------------
(* What is written.                                                        *)

\* Slip: unlinking the author never looks at the name.
NameOnUnlinkKept(old) == old

\* _author_columns and its batch form: an unlinked book keeps its name, and
\* one without a name gets UNKNOWN_AUTHOR.
NameOnUnlink(old) == IF old = Null THEN Unknown ELSE old

\* The columns of book b after the request: author, author_name, series name.
NewAuthor(r, b) == IF r.author = Keep THEN author[b] ELSE r.author

NewSeries(r, b) == IF r.series = Keep THEN series[b] ELSE r.series

\* Id and name of a series are cleared together.
NewSeriesName(r, b) ==
    CASE r.series = Keep -> seriesName[b]
      [] r.series = Null -> Null
      [] OTHER           -> r.seriesIs

\* The PATCH decides on the name it read when the request began: when that
\* was not NULL it does not write author_name at all.
PatchName(r, b) ==
    CASE r.author = Keep -> authorName[b]
      [] r.author = Null -> IF r.nameRead = Null THEN NameOnUnlink(Null)
                            ELSE authorName[b]
      [] OTHER           -> r.authorIs

\* The batch writes names by condition: resolved ones with the id, the
\* missing ones of an unlinked author by a second UPDATE ... IS NULL.
BatchName(r, b) ==
    CASE b \in r.filled -> NameOnUnlink(Null)
      [] b \in r.rows /\ r.author \in Authors -> r.authorIs
      [] OTHER -> authorName[b]

\* The commit: novel columns of the changed books, then the author's name on
\* his row and all his books, then the series row.
Commit(q, changed, name) ==
    LET r == req[q] IN
    /\ author' = [b \in Books |-> IF b \in changed THEN NewAuthor(r, b)
                                  ELSE author[b]]
    /\ authorName' =
         [b \in Books |->
            IF r.authorIs # Null /\ author'[b] = r.authorIs THEN r.authorIs
            ELSE name[b]]
    /\ series' = [b \in Books |-> IF b \in changed THEN NewSeries(r, b)
                                  ELSE series[b]]
    /\ seriesName' = [b \in Books |-> IF b \in changed THEN NewSeriesName(r, b)
                                      ELSE seriesName[b]]
    /\ named' = [id \in DOMAIN named \cup r.inserted |->
                   \/ id \in {r.authorIs, r.seriesIs}
                   \/ id \in DOMAIN named /\ named[id]]
    /\ req' = [req EXCEPT ![q] = Done(r)]
    /\ loop' = Free
    /\ UNCHANGED local
    /\ overtaken' = (overtaken \/ \E p \in Requests \ {q} :
                                     req[p].phase \notin {"new", "done"})

-----------------------------------------------------------------------------
(* The handlers.                                                           *)

Step(q, r, next) ==
    /\ req' = [req EXCEPT ![q] = r]
    /\ loop' = next
    /\ UNCHANGED <<local, author, authorName, series, seriesName, named,
                   overtaken>>

\* field_policy: author and series are edited on local books alone.
Editable(b) == b \in local

\* filter_ids_by_source: what the batch leaves of its selection.
Narrowed(books) == {b \in books : Editable(b)}

MayArrive(q, a, s) ==
    loop = Free /\ req[q].phase = "new" /\ <<a, s>> # <<Keep, Keep>>

\* The PATCH reads its book, is refused when the policy does not allow the
\* fields, and keeps the loop.
ArrivePatch(q, b, a, s) ==
    LET r == [req[q] EXCEPT !.kind = "patch", !.author = a, !.series = s,
                            !.books = {b}, !.nameRead = authorName[b]]
    IN
    /\ MayArrive(q, a, s)
    /\ IF Editable(b) THEN Step(q, [r EXCEPT !.phase = "author"], q)
       ELSE Step(q, Done(r), Free)

\* The batch narrows its selection in a thread and has nothing to do when no
\* book is left.
ArriveBatch(q, books, a, s) ==
    LET r == [req[q] EXCEPT !.kind = "batch", !.author = a, !.series = s,
                            !.books = Narrowed(books)]
    IN
    /\ MayArrive(q, a, s)
    /\ Step(q, IF r.books = {} THEN Done(r) ELSE [r EXCEPT !.phase = "author"], Free)

\* The batch resumes on the loop after its selection was narrowed.
Resume(q) ==
    /\ loop = Free
    /\ req[q].kind = "batch"
    /\ req[q].phase \in {"author", "finish"}
    /\ Step(q, req[q], q)

\* The author half: nothing to resolve, or the placeholder and the name.
AuthorColumns(q) ==
    LET r == req[q] IN
    /\ loop = q
    /\ r.phase = "author"
    /\ \/ /\ r.author \notin Authors
          /\ Step(q, [r EXCEPT !.phase = "series"], q)
       \/ /\ r.author \in Authors \ HeldIds(q)
          /\ LET held == [r EXCEPT !.inserted = EnsureExists(q, r.author)] IN
             IF KnownLocally(r.author)
               THEN Step(q, [held EXCEPT !.phase = "series",
                                         !.authorIs = r.author], q)
               ELSE Step(q, [held EXCEPT !.phase = "authorNet"], Free)

\* Pixiv answers, or fails to: the name is then left open.
AuthorAnswer(q, ok) ==
    LET r == req[q] IN
    /\ loop = Free
    /\ r.phase = "authorNet"
    /\ Step(q, [r EXCEPT !.phase = "series",
                         !.authorIs = IF ok THEN r.author ELSE Null], q)

\* The series half.
SeriesColumns(q) ==
    LET r == req[q]
        next == IF r.kind = "patch" THEN "write" ELSE "update"
        on == IF r.kind = "patch" THEN q ELSE Free
    IN
    /\ loop = q
    /\ r.phase = "series"
    /\ \/ /\ r.series \notin Series
          /\ Step(q, [r EXCEPT !.phase = next], on)
       \/ /\ r.series \in Series \ HeldIds(q)
          /\ LET held == [r EXCEPT !.inserted = EnsureExists(q, r.series)] IN
             IF SeriesKnownLocally(r.series)
               THEN Step(q, [held EXCEPT !.phase = next,
                                         !.seriesIs = r.series], on)
               ELSE Step(q, [held EXCEPT !.phase = "seriesNet"], Free)

SeriesAnswer(q, ok) ==
    LET r == req[q] IN
    /\ loop = Free
    /\ r.phase = "seriesNet"
    /\ Step(q, [r EXCEPT !.phase = IF r.kind = "patch" THEN "write" ELSE "update",
                         !.seriesIs = IF ok THEN r.series ELSE Null],
            IF r.kind = "patch" THEN q ELSE Free)

\* update_metadata reads the row afresh, writes it and the handler returns.
SavePatch(q) ==
    LET r == req[q] IN
    /\ loop = q
    /\ r.phase = "write"
    /\ (r.books \cup RowsOfName(q, r.books)) \cap HeldRows(q) = {}
    /\ Commit(q, r.books, [b \in Books |-> IF b \in r.books THEN PatchName(r, b)
                                                        ELSE authorName[b]])

\* update_metadata_many, in a thread: only rows whose values change are
\* written, and so locked.
Changes(r, b) ==
    \/ NewAuthor(r, b) # author[b] \/ NewSeries(r, b) # series[b]
    \/ r.author \in Authors /\ authorName[b] # r.authorIs
    \/ r.series # Keep /\ seriesName[b] # NewSeriesName(r, b)

BatchUpdate(q) ==
    LET r == req[q]
        rows == {b \in r.books : Changes(r, b)}
    IN
    /\ r.phase = "update"
    /\ rows \cap HeldRows(q) = {}
    /\ Step(q, [r EXCEPT !.rows = rows,
                         !.phase = IF r.author = Null THEN "fill" ELSE "finish"],
            loop)

\* The second statement of an unlink: UPDATE ... WHERE author_name IS NULL.
BatchFill(q) ==
    LET r == req[q]
        blank == {b \in r.books : authorName[b] = Null}
    IN
    /\ r.phase = "fill"
    /\ blank \cap HeldRows(q) = {}
    /\ Step(q, [r EXCEPT !.filled = blank, !.phase = "finish"], loop)

\* Back on the loop: the author's and the series' names, and the commit.
BatchFinish(q) ==
    LET r == req[q] IN
    /\ loop = q
    /\ r.phase = "finish"
    /\ RowsOfName(q, r.rows) \cap HeldRows(q) = {}
    /\ Commit(q, r.rows, [b \in Books |-> BatchName(r, b)])

\* A statement of q waits for a lock of another transaction.
Waits(q) ==
    LET r == req[q] IN
    \/ loop = q /\ r.phase = "author" /\ r.author \in HeldIds(q)
    \/ loop = q /\ r.phase = "series" /\ r.series \in HeldIds(q)
    \/ /\ loop = q /\ r.phase = "write"
       /\ (r.books \cup RowsOfName(q, r.books)) \cap HeldRows(q) # {}
    \/ /\ loop = q /\ r.phase = "finish"
       /\ RowsOfName(q, r.rows) \cap HeldRows(q) # {}
    \/ /\ r.phase = "update"
       /\ {b \in r.books : Changes(r, b)} \cap HeldRows(q) # {}
    \/ /\ r.phase = "fill"
       /\ {b \in r.books : authorName[b] = Null} \cap HeldRows(q) # {}

\* Slip: no lock_timeout on the connection.
WaitsForever(q) == FALSE

\* ... for at most lock_timeout.
WaitEnds(q) == Waits(q)

\* The statement fails, the request answers 500 and its transaction is undone.
LockTimeout(q) ==
    /\ WaitEnds(q)
    /\ Step(q, Done(req[q]), IF loop = q THEN Free ELSE loop)

-----------------------------------------------------------------------------
NewRequest == [phase |-> "new", kind |-> "patch", books |-> {}, author |-> Keep,
               series |-> Keep, nameRead |-> Null, authorIs |-> Null,
               seriesIs |-> Null, inserted |-> {}, rows |-> {}, filled |-> {}]

\* Uploaded books have a name and nothing else; others may be linked already.
EditInit ==
    /\ local \in SUBSET Books
    /\ author \in [Books -> Authors \cup {Null}]
    /\ authorName = [b \in Books |-> OwnName]
    /\ series = [b \in Books |-> Null]
    /\ seriesName = [b \in Books |-> Null]
    /\ named = [id \in {author[b] : b \in Books} \ {Null} |-> FALSE]
    /\ req = [q \in Requests |-> NewRequest]
    /\ loop = Free
    /\ overtaken = FALSE

Handler(q) ==
    \/ Resume(q) \/ AuthorColumns(q) \/ SeriesColumns(q)
    \/ \E ok \in BOOLEAN : AuthorAnswer(q, ok) \/ SeriesAnswer(q, ok)
    \/ SavePatch(q) \/ BatchUpdate(q) \/ BatchFill(q) \/ BatchFinish(q)
    \/ LockTimeout(q)

\* PATCH /novels/{id}, with the fields it submits.
PatchNovel(q) ==
    \E b \in Books, a \in Authors \cup {Null, Keep}, s \in Series \cup {Null, Keep} :
       ArrivePatch(q, b, a, s)

\* POST /novels/batch-metadata with apply, over the selection of its scope.
BatchMetadata(q) ==
    \E books \in (SUBSET Books) \ {{}},
       a \in Authors \cup {Null, Keep}, s \in Series \cup {Null, Keep} :
       ArriveBatch(q, books, a, s)

EditNext ==
    \E q \in Requests :
       \/ Handler(q)
       \/ PatchNovel(q) \/ BatchMetadata(q)

EditSpec == EditInit /\ [][EditNext]_editVars

\* The loop serves what is ready, threads run, Pixiv's client comes back, and
\* PostgreSQL ends a lock wait; nobody has to send a request.
EditFairSpec == EditSpec /\ \A q \in Requests : WF_editVars(Handler(q))

-----------------------------------------------------------------------------
EditTypeOK ==
    /\ local \subseteq Books
    /\ author \in [Books -> Authors \cup {Null}]
    /\ authorName \in [Books -> Authors \cup {Null, OwnName, Unknown}]
    /\ series \in [Books -> Series \cup {Null}]
    /\ seriesName \in [Books -> Series \cup {Null}]
    /\ DOMAIN named \subseteq Ids /\ \A id \in DOMAIN named : named[id] \in BOOLEAN
    /\ req \in [Requests -> Request]
    /\ loop \in Requests \cup {Free}
    /\ overtaken \in BOOLEAN

\* As long as no edit has committed while another was under way, names are as
\* promised: a book without an author id shows one, and a book on an author
\* whose row has a name shows that name (update_author_name renames all his
\* books).  Edits that cross are not spoken of: NameWithoutId below.
SerialEditsKeepNames ==
    ~overtaken =>
      \A b \in Books :
        /\ author[b] = Null => authorName[b] # Null
        /\ KnownLocally(author[b]) => authorName[b] = author[b]

\* A request that arrived ends, although handlers hold uncommitted rows while
\* they wait for Pixiv and others then block the loop that would let them go
\* on: nothing but lock_timeout resolves that.
EveryRequestEnds ==
    \A q \in Requests : (req[q].phase # "new") ~> (req[q].phase = "done")

\* LIBRARY_DESIGN.md 3.3 through _author_columns: "every book has an author
\* name to show".  A PATCH that unlinks the author writes no name when it has
\* read one, and an edit that commits meanwhile may have set it to NULL: violated.
NameWithoutId == \A b \in Books : author[b] = Null => authorName[b] # Null
=============================================================================
