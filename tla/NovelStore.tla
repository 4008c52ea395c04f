------------------------------ MODULE NovelStore ------------------------------
(***************************************************************************)
(* Novel rows, their text files, the failure ledger and the author rows    *)
(* (features/novels/ingest.py, persist.py, repo.py, features/failures,     *)
(* features/authors, tasks/novels.py), under concurrent fetch rounds.      *)
(*                                                                         *)
(* A round plans (what is new, what failed too often), downloads without   *)
(* a transaction, collects the author's name, and persists in one write    *)
(* transaction at READ COMMITTED whose statements are steps of their own:  *)
(* the read of the existing rows, the flush, the read of the aggregates,   *)
(* and the rest up to the commit.  Requests and tasks delete novels and    *)
(* authors, clear the ledger, or start further rounds meanwhile.           *)
(*                                                                         *)
(* The text of a novel lives under one path, its anchor; the content of    *)
(* texts and metadata is left out.                                         *)
(***************************************************************************)
EXTENDS Integers, FiniteSets

CONSTANTS
    Novels,         \* ids of works on Pixiv
    Authors,        \* ids of their authors
    AuthorOf(_),    \* novel -> its author
    Rounds,         \* ingest calls (and syncs) that can be under way at once
    MaxRetries,     \* _MAX_RETRIES of the ledger
    MaxKnown,       \* bound on the rows there at the start
    MaxStarts,      \* bound on the rounds of a behaviour
    MaxAttempts,    \* max_attempts of run_write_transaction
    NoEntry,        \* the ledger has no record of the novel
    NoRow           \* there is no author row

AuthorRow == [count : Nat, dated : BOOLEAN]

ASSUME BoundsAssumption ==
    MaxRetries \in Nat \ {0} /\ MaxStarts \in Nat /\ MaxAttempts \in Nat \ {0}

ASSUME NovelAssumption ==
    /\ IsFiniteSet(Novels) /\ \A n \in Novels : AuthorOf(n) \in Authors
    /\ NoEntry \notin 0..MaxRetries /\ NoRow \notin AuthorRow

VARIABLES
    rows,      \* committed novel rows
    files,     \* novels whose text file is on disk
    ledger,    \* failed_novel: novel -> failed_times, or NoEntry
    author,    \* author -> NoRow, or its row
    round,     \* round -> its progress
    deleting,  \* DELETE /novels/{id} requests between unlink and commit
    purging,   \* rows a POST /novels/batch request has deleted and not committed
    cleared,   \* history: novels a user deleted or struck from the ledger, not back since
    started    \* rounds begun so far, at most MaxStarts

vars == <<rows, files, ledger, author, round, deleting, purging, cleared, started>>

Works(a) == {n \in Novels : AuthorOf(n) = a}

Phases == {"idle", "fetch", "persist", "write", "sum", "end", "mark"}

Round == [phase : Phases, kind : {"fetch", "author", "sync"},
          want : SUBSET Novels, meta : SUBSET Novels, todo : SUBSET Novels,
          got : SUBSET Novels, failed : SUBSET Novels, seen : SUBSET Novels,
          held : SUBSET Novels, counted : [Authors -> Nat],
          attempt : 1..MaxAttempts, overrun : BOOLEAN]

NoRound == [phase |-> "idle", kind |-> "fetch", want |-> {}, meta |-> {},
            todo |-> {}, got |-> {}, failed |-> {}, seen |-> {}, held |-> {},
            counted |-> [a \in Authors |-> 0], attempt |-> 1,
            overrun |-> FALSE]

\* The drafts of the persist phase, and their authors.
Batch(r) == round[r].meta \cup round[r].got
BatchAuthors(r) == {AuthorOf(n) : n \in Batch(r)}

InTransaction(r) == round[r].phase \in {"write", "sum", "end"}

\* Rows another open transaction has written or deleted.
HeldBy(r) == purging \cup UNION {round[q].held : q \in Rounds \ {r}}
Held == purging \cup UNION {round[q].held : q \in Rounds}

\* The ledger rows of S that the open batch request has deleted with its novels.
LockedEntries(S) == {n \in S \cap purging : ledger[n] # NoEntry}

\* Rows or ledger entries of S changed under the other rounds: those that
\* list a novel of S, or have aggregated its author, are marked.
Overrun(S) ==
    [q \in Rounds |->
        [round[q] EXCEPT !.overrun =
            \/ @
            \/ round[q].phase # "idle" /\ round[q].want \cap S # {}
            \/ round[q].phase = "end" /\ \E n \in S : AuthorOf(n) \in BatchAuthors(q)]]

-----------------------------------------------------------------------------
(* Plan.                                                                   *)

\* get_skip_ids: recorded failures that reached the threshold.
SkipIds(S) == {n \in S : ledger[n] # NoEntry /\ ledger[n] >= MaxRetries}

\* _plan_batch: a forced round downloads everything it lists, another one the
\* new ids that have not failed too often.
NeedDownload(S, force) == IF force THEN S ELSE (S \ rows) \ SkipIds(S)

Begin(r, kind, S, meta, todo) ==
    /\ round[r].phase = "idle"
    /\ started < MaxStarts
    /\ started' = started + 1
    /\ round' = [round EXCEPT ![r] =
                   [NoRound EXCEPT !.phase = "fetch", !.kind = kind, !.want = S,
                                   !.meta = meta, !.todo = todo]]
    /\ UNCHANGED <<rows, files, ledger, author, deleting, purging, cleared>>

\* A feed, a ranking page or a search (ingest with novels).
StartFeed(r, S, force) ==
    Begin(r, "fetch", S, IF force THEN {} ELSE S \cap rows, NeedDownload(S, force))

\* need_update of the author, negated.
UpdatedToday(a) == author[a] # NoRow /\ author[a].dated

\* author_fetch: skipped when the author was updated today, else all works.
StartAuthor(r, a, force, redownload) ==
    /\ force \/ ~UpdatedToday(a)
    /\ Begin(r, "author", Works(a), IF redownload THEN {} ELSE Works(a) \cap rows,
             NeedDownload(Works(a), redownload))

\* novel_fetch and each branch of failed_retry: the id is downloaded whatever
\* the library or the ledger say.
StartIds(r, n) == Begin(r, "fetch", {n}, {}, {n})

\* A sync: the row must be there; metadata only, no text.
StartSync(r, n) == n \in rows /\ Begin(r, "sync", {n}, {}, {n})

\* POST /novels/{id}/sync
SyncNovel(r) == \E n \in Novels : StartSync(r, n)

-----------------------------------------------------------------------------
(* Download and collect.                                                   *)

\* fetch_novel_and_assets of one novel: "ok" saves its text, "assets" saves
\* it and fails later in the asset pipeline, "missing" is an empty page, a
\* missing one or an exception of the call.
Download(r, n, outcome) ==
    LET ok == outcome \in {"ok", "assets"} IN
    /\ round[r].phase = "fetch"
    /\ round[r].kind # "sync"
    /\ n \in round[r].todo
    /\ round' = [round EXCEPT
                   ![r].todo = @ \ {n},
                   ![r].got = IF ok THEN @ \cup {n} ELSE @,
                   ![r].failed = IF outcome = "ok" THEN @ ELSE @ \cup {n}]
    /\ files' = IF ok THEN files \cup {n} ELSE files
    /\ UNCHANGED <<rows, ledger, author, deleting, purging, cleared, started>>

\* The sync's fetch: metadata, or a 404 that ends the request.
FetchForSync(r, ok) ==
    /\ round[r].phase = "fetch"
    /\ round[r].kind = "sync"
    /\ round' = [round EXCEPT ![r] =
                   IF ok THEN [@ EXCEPT !.todo = {}, !.got = round[r].want,
                                        !.phase = "persist"]
                   ELSE NoRound]
    /\ UNCHANGED <<rows, files, ledger, author, deleting, purging, cleared, started>>

\* The gate of the round: all downloads, their assets and the authors' names
\* are in, and the write transaction can begin.
Gather(r) ==
    /\ round[r].phase = "fetch"
    /\ round[r].kind # "sync"
    /\ round[r].todo = {}
    /\ round' = [round EXCEPT ![r].phase = "persist"]
    /\ UNCHANGED <<rows, files, ledger, author, deleting, purging, cleared, started>>

-----------------------------------------------------------------------------
(* Persist: one write transaction, retried when a lock is not available.   *)

\* Nothing of a round that ends here is kept.
Fail(r) ==
    /\ round' = [round EXCEPT ![r] = NoRound]
    /\ UNCHANGED <<rows, files, ledger, author, deleting, purging, cleared, started>>

\* Another open transaction has inserted the same author's placeholder.
AuthorTaken(r) ==
    \E q \in Rounds \ {r} : /\ InTransaction(q)
                            /\ \E a \in BatchAuthors(r) \cap BatchAuthors(q) :
                                 author[a] = NoRow

\* ensure_exists, then the read of the rows that are there.
ReadExisting(r) ==
    /\ round[r].phase = "persist"
    /\ ~AuthorTaken(r)
    /\ round' = [round EXCEPT ![r].phase = "write",
                              ![r].seen = Batch(r) \cap rows]
    /\ UNCHANGED <<rows, files, ledger, author, deleting, purging, cleared, started>>

\* The flush inserts what was not there and updates what was.  A row that
\* appeared meanwhile is a UniqueViolation; one that vanished a
\* StaleDataError, unless nothing of it had changed.
Flush(r) ==
    LET new == Batch(r) \ round[r].seen IN
    /\ round[r].phase = "write"
    /\ Batch(r) \cap HeldBy(r) = {}
    /\ \/ /\ new \cap rows = {}
          /\ round' = [round EXCEPT ![r].phase = "sum",
                                    ![r].held = new \cup (round[r].seen \cap rows)]
          /\ UNCHANGED <<rows, files, ledger, author, deleting, purging, cleared, started>>
       \/ /\ new \cap rows # {} \/ ~(round[r].seen \subseteq rows)
          /\ Fail(r)

\* forget_many or record meets a ledger row the batch request has deleted.
LedgerTaken(r) ==
    /\ round[r].kind # "sync"
    /\ LockedEntries(round[r].got \cup round[r].failed) # {}

\* A lock wait ended by lock_timeout: a fresh transaction, up to the last
\* attempt.
LockTimeout(r) ==
    /\ \/ round[r].phase = "persist" /\ AuthorTaken(r)
       \/ round[r].phase = "write" /\ Batch(r) \cap HeldBy(r) # {}
       \/ round[r].phase = "end" /\ LedgerTaken(r)
    /\ IF round[r].attempt = MaxAttempts THEN Fail(r)
       ELSE /\ round' = [round EXCEPT ![r].phase = "persist", ![r].seen = {},
                                      ![r].held = {}, ![r].attempt = @ + 1]
            /\ UNCHANGED <<rows, files, ledger, author, deleting, purging, cleared, started>>

\* What the transaction sees: what is committed, and what it inserted itself.
Visible(r) == rows \cup round[r].held

\* Slip: the aggregate is read before the flush's rows are there.
CountCommitted(r, a) == Cardinality(rows \cap Works(a))

\* update_summary's SELECT over one author's novels.
CountNovels(r, a) == Cardinality(Visible(r) \cap Works(a))

ReadSummary(r) ==
    /\ round[r].phase = "sum"
    /\ round' = [round EXCEPT
                   ![r].phase = "end",
                   ![r].counted = [a \in Authors |-> CountNovels(r, a)]]
    /\ UNCHANGED <<rows, files, ledger, author, deleting, purging, cleared, started>>

\* ON CONFLICT DO UPDATE of the aggregates: an author without novels is not
\* in the result and keeps what he had.
SummaryRow(r, a) ==
    LET old == IF author[a] = NoRow
                 THEN [count |-> 0, dated |-> FALSE]
                 ELSE author[a]
        c == round[r].counted[a]
    IN  [old EXCEPT !.count = IF c = 0 THEN @ ELSE c]

\* Slip: only a novel that has a row is recorded, as under a foreign key.
LedgerAfterOfRows(r) ==
    [n \in Novels |-> IF n \in round[r].failed \cap Visible(r)
                        THEN IF ledger[n] = NoEntry THEN 1 ELSE MaxRetries
                      ELSE IF n \in round[r].got THEN NoEntry
                      ELSE ledger[n]]

\* forget_many of the clean successes, then record of every failure; the
\* count saturates here at MaxRetries, the only value it is compared with.
LedgerAfter(r) ==
    [n \in Novels |->
        IF n \in round[r].failed
          THEN IF ledger[n] = NoEntry THEN 1
               ELSE IF ledger[n] < MaxRetries THEN ledger[n] + 1 ELSE ledger[n]
        ELSE IF n \in round[r].got THEN NoEntry
        ELSE ledger[n]]

\* The aggregates, the ledger, the names, and the commit.  A sync keeps out
\* of the ledger.
Commit(r) ==
    LET R == round[r] IN
    /\ R.phase = "end" /\ ~LedgerTaken(r)
    /\ rows' = rows \cup R.held
    /\ author' = [a \in Authors |-> IF a \in BatchAuthors(r) THEN SummaryRow(r, a)
                                    ELSE author[a]]
    /\ ledger' = IF R.kind = "sync" THEN ledger ELSE LedgerAfter(r)
    /\ cleared' = cleared \ R.held
    /\ round' = [Overrun(R.held) EXCEPT ![r] =
                   IF R.kind = "author" THEN [NoRound EXCEPT !.phase = "mark",
                                                !.kind = "author", !.want = R.want]
                   ELSE NoRound]
    /\ UNCHANGED <<files, deleting, purging, started>>

\* author_fetch's last write: last_update of the author row, if there is one.
MarkUpdated(r) ==
    LET A == {AuthorOf(n) : n \in round[r].want} IN
    /\ round[r].phase = "mark"
    /\ author' = [a \in Authors |-> IF a \in A /\ author[a] # NoRow
                                      THEN [author[a] EXCEPT !.dated = TRUE]
                                    ELSE author[a]]
    /\ round' = [round EXCEPT ![r] = NoRound]
    /\ UNCHANGED <<rows, files, ledger, deleting, purging, cleared, started>>

-----------------------------------------------------------------------------
(* Deletion, the ledger's own API, and time.                               *)

\* DELETE /novels/{id}: the ledger row and the novel are marked for deletion
\* and the files are unlinked; the DELETE of the row is sent by the commit
\* (autoflush is off).
DeleteRequest(n) ==
    /\ n \in rows \ deleting
    /\ files' = files \ {n}
    /\ deleting' = deleting \cup {n}
    /\ UNCHANGED <<rows, ledger, author, round, purging, cleared, started>>

DeleteCommit(n) ==
    /\ n \in deleting \ Held
    /\ deleting' = deleting \ {n}
    /\ rows' = rows \ {n}
    /\ ledger' = [ledger EXCEPT ![n] = NoEntry]
    /\ cleared' = cleared \cup {n}
    /\ round' = Overrun({n})
    /\ UNCHANGED <<files, author, purging, started>>

\* The row is locked by another open transaction: the commit waits on the event
\* loop, where that one cannot commit either, until lock_timeout.
DeleteFails(n) ==
    /\ n \in deleting \cap Held
    /\ deleting' = deleting \ {n}
    /\ UNCHANGED <<rows, files, ledger, author, round, purging, cleared, started>>

\* delete_many has committed: the novels and their ledger rows are gone.
PurgeRows(S) ==
    /\ rows' = rows \ S
    /\ ledger' = [n \in Novels |-> IF n \in S THEN NoEntry ELSE ledger[n]]
    /\ cleared' = cleared \cup S
    /\ round' = Overrun(S)
    /\ UNCHANGED <<author, deleting, started>>

\* A chunk of the batch task: the files go after its transaction.
DeleteMany(S) ==
    /\ S # {}
    /\ S \subseteq rows
    /\ S \cap Held = {}
    /\ files' = files \ S
    /\ PurgeRows(S)
    /\ UNCHANGED purging

\* POST /novels/batch: delete_many sends its DELETE and keeps the rows locked,
\* the files go, and the transaction of the request is still open.
BatchRequest(S) ==
    /\ purging = {} /\ S # {}
    /\ S \subseteq rows
    /\ S \cap Held = {}
    /\ files' = files \ S
    /\ purging' = S
    /\ UNCHANGED <<rows, ledger, author, round, deleting, cleared, started>>

BatchCommit ==
    /\ purging # {}
    /\ PurgeRows(purging)
    /\ purging' = {}
    /\ UNCHANGED files

\* The connection is lost before the commit.
BatchFails ==
    /\ purging # {}
    /\ purging' = {}
    /\ UNCHANGED <<rows, files, ledger, author, round, deleting, cleared, started>>

\* author_delete: the rows and the author, neither files nor ledger.  The
\* foreign key keeps him while a transaction writes one of his novels.
DeleteAuthor(a) ==
    /\ author[a] # NoRow
    /\ \A q \in Rounds : InTransaction(q) => a \notin BatchAuthors(q)
    /\ Works(a) \cap purging = {}
    /\ rows' = rows \ Works(a)
    /\ author' = [author EXCEPT ![a] = NoRow]
    /\ cleared' = cleared \cup Works(a)
    /\ round' = Overrun(Works(a))
    /\ UNCHANGED <<files, ledger, deleting, purging, started>>

\* DELETE /failed-novels/{id} (and, for S = Novels, the whole ledger).
ForgetFailures(S) ==
    /\ \E n \in S : ledger[n] # NoEntry
    /\ LockedEntries(S) = {}
    /\ ledger' = [n \in Novels |-> IF n \in S THEN NoEntry ELSE ledger[n]]
    /\ cleared' = cleared \cup S
    /\ round' = Overrun(S)
    /\ UNCHANGED <<rows, files, author, deleting, purging, started>>

\* POST /failed-novels/{id}/reset-count and reset-count of all.
ResetCounts(S) ==
    /\ \E n \in S : ledger[n] # NoEntry
    /\ LockedEntries(S) = {}
    /\ ledger' = [n \in Novels |-> IF n \in S /\ ledger[n] # NoEntry THEN 0
                                   ELSE ledger[n]]
    /\ UNCHANGED <<rows, files, author, round, deleting, purging, cleared, started>>

\* need_update: a day has passed since the author was updated.
NewDay(a) ==
    /\ UpdatedToday(a)
    /\ author' = [author EXCEPT ![a].dated = FALSE]
    /\ UNCHANGED <<rows, files, ledger, round, deleting, purging, cleared, started>>

\* The process dies: open transactions are undone, files stay as they are.
Kill ==
    /\ deleting \cup purging # {} \/ \E r \in Rounds : round[r].phase # "idle"
    /\ round' = [r \in Rounds |-> NoRound]
    /\ deleting' = {} /\ purging' = {}
    /\ UNCHANGED <<rows, files, ledger, author, cleared, started>>

-----------------------------------------------------------------------------
\* A library between two rounds: each row has its text and is counted.
Init ==
    /\ rows \in {S \in SUBSET Novels : Cardinality(S) <= MaxKnown}
    /\ files = rows
    /\ ledger = [n \in Novels |-> NoEntry]
    /\ author = [a \in Authors |->
                   IF rows \cap Works(a) = {} THEN NoRow
                   ELSE [count |-> Cardinality(rows \cap Works(a)), dated |-> FALSE]]
    /\ round = [r \in Rounds |-> NoRound]
    /\ deleting = {} /\ purging = {}
    /\ cleared = {}
    /\ started = 0

\* What a round does by itself once it has begun.
Proceed(r) ==
    \/ \E n \in Novels, o \in {"ok", "assets", "missing"} : Download(r, n, o)
    \/ \E ok \in BOOLEAN : FetchForSync(r, ok)
    \/ Gather(r) \/ ReadExisting(r) \/ Flush(r) \/ LockTimeout(r)
    \/ ReadSummary(r) \/ Commit(r) \/ MarkUpdated(r)

Next ==
    \/ \E r \in Rounds :
         \/ \E S \in (SUBSET Novels) \ {{}}, f \in BOOLEAN : StartFeed(r, S, f)
         \/ \E a \in Authors, f, d \in BOOLEAN : StartAuthor(r, a, f, d)
         \/ \E n \in Novels : StartIds(r, n)
         \/ SyncNovel(r)
         \/ Proceed(r)
    \/ \E n \in Novels : DeleteRequest(n) \/ DeleteCommit(n) \/ DeleteFails(n)
    \/ \E S \in SUBSET Novels : DeleteMany(S) \/ BatchRequest(S)
                            \/ ForgetFailures(S) \/ ResetCounts(S)
    \/ BatchCommit \/ BatchFails
    \/ \E a \in Authors : DeleteAuthor(a) \/ NewDay(a)
    \/ Kill

Spec == Init /\ [][Next]_vars

-----------------------------------------------------------------------------
TypeOK ==
    /\ rows \subseteq Novels /\ files \subseteq Novels
    /\ ledger \in [Novels -> (0..MaxRetries) \cup {NoEntry}]
    /\ author \in [Authors -> AuthorRow \cup {NoRow}]
    /\ round \in [Rounds -> Round]
    /\ deleting \subseteq Novels /\ purging \subseteq Novels /\ cleared \subseteq Novels
    /\ started \in 0..MaxStarts

\* An author who counts as updated today has no work that was passed over:
\* each is in the library, in the ledger, or was removed by the user since.
\* Otherwise author_fetch would skip him and the work be missed.  It rests on
\* record, which keeps a failure of a novel without a row too: failed_novel
\* has no foreign key (failures/repo.py); the comment in _persist_batch that
\* such failures are skipped describes an older schema.
DatedMeansHandled ==
    \A a \in Authors :
        UpdatedToday(a) =>
            \A n \in Works(a) : n \in rows \cup cleared \/ ledger[n] # NoEntry

\* delete_novel.py, batch_operations.py: "DB first, files second" -- a delete
\* that fails leaves the files of the rows that stay.
FailedDeleteKeepsFiles ==
    [][/\ \A n \in rows : DeleteFails(n) => n \in files'
       /\ BatchFails => purging \subseteq files']_vars

\* _persist_batch: "a brand-new novel that failed before persistence has no row
\* and cannot be recorded under the FK". Refuted: the table has no such key and
\* every failure is recorded.
UnwrittenIsUnrecorded ==
    [][\A n \in Novels : ledger[n] = NoEntry /\ ledger'[n] # NoEntry => n \in rows']_vars

\* The count a round writes to its authors is the number of their rows, unless
\* somebody's rows of these authors came or went after it was read.
CountMatchesRows ==
    [][\A r \in Rounds :
         Commit(r) /\ ~round[r].overrun =>
            \A a \in BatchAuthors(r) :
                author'[a].count = Cardinality(rows' \cap Works(a))]_vars
=============================================================================
