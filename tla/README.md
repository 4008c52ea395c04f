# copixiv in TLA+

Specifications of copixiv, a self-hosted Pixiv novel library (FastAPI and
asyncio over PostgreSQL, worker threads for images and EPUBs, a Vue frontend).
The modules translate the Python under `src/src/copixiv/` and the pagination
code under `src/frontend/src/`; paths below are relative to the first.
Safety of the task queue, the cron ticker, the account pool, the EPUB pipeline,
the novel store, the fetch tasks, tags, metadata edits, series repair, library
uploads and the catalogue is proved; liveness is model-checked.

## 1. The system

| Part | State it keeps | Operations | Who it talks to |
|---|---|---|---|
| Task kernel (`tasks/kernel.py`, `tasks/history_repo.py`) | `task_history` rows; in memory the live ids, ad-hoc specs, wake event, two workers | enqueue, worker loop, run and record, recover, start/stop | API and cron enqueue; task functions call everything below |
| Cron ticker (`kernel.py`, `tasks/api.py`) | `scheduled_tasks` rows; in memory a map of timers | edit + reload, tick | kernel (`run_scheduled`) |
| Account pool and client (`pixiv/`) | per account: status, cooldown, last call, two locks | select, authenticate, execute, retry | fetch tasks call it; Pixiv answers |
| Ingest (`features/novels/ingest.py`, `download_novel.py`) | nothing of its own: one round is one coroutine | plan, download, gate, persist | client, downloader, novel table, failure ledger |
| Image downloader, EPUB builder (`storage/`) | futures, novels in flight, outcomes; files | process assets, worker thread, await, drain | shared by all rounds |
| `check_epub` (`tasks/maintenance/epub.py`) | a snapshot of the rows | judge files, write statuses | novel table, files |
| Batch tasks (`tasks/batch.py`) | progress of their row | delete, tag, edit, export in chunks | kernel, novel table |
| Novel repository (`features/novels/repo.py`, `db/base.py`) | `novel`, per-author and per-series aggregates | upsert, aggregate, list, page | ingest, editing, listing |
| Novel editing (`update_metadata.py`, `batch_edit_metadata.py`, `delete_novel.py`, `sync_novel.py`) | nothing of its own | hang a book on an author or a series, delete, sync | novel, author, series rows; Pixiv for a name |
| Catalogue (`novels/api.py`, `useCursorPagination.ts`, `useCollectionViews.ts`) | list, cursor and counters in the browser | load, load more, view of hidden novels, batch scope | novel table, preference, setting |
| Failure ledger (`features/failures/`) | attempts per novel | record, forget, skip | ingest, `failed_retry` |
| Library uploads (`features/library/`) | local rows, fingerprints, a sequence | upload, issue negative ids | novel table, advisory lock |
| Tags (`features/tags`, trigger in `alembic/`) | tag arrays, `reference_count`, aliases, blocked tags | refresh, edit, batch, alias, delete | novel table |
| Authors and series (`features/authors`, `resolve_series.py`) | placeholder and named rows, `last_update` | resolve names, count, mark | ingest, editing |
| Fetch and maintenance tasks (`tasks/novels.py`, `tasks/maintenance/`) | cursors in `setting` | fan out, sweep, resume | all of the above |
| Transactions (`db/`) | sessions, a data epoch | begin/commit, retry of lock conflicts | everyone |
| API, config, notifier, frontend, scripts | — | assembly, CRUD, display | kernel, repositories |

What makes the parts correct, and what is hard about them:

- *Task kernel.* A row runs at most once, in order within its lane, and is
  settled for good; an enqueue is never slept through; leftovers of a dead
  process are written off, not resumed, while rows enqueued before `start()`
  are kept. Hard: one wake event for two workers with a poll beside it, stop
  and cancellation at any await, failing writes, late progress writes.
- *Cron ticker.* Each occurrence is enqueued once or given up for a reason; the
  cache follows the table. Hard: reloads run in threads beside the tick.
- *Account pool.* Of the calls that wait for an answer one at a time per account,
  spaced and out of a cooldown; one refresh of a token at a time; every call comes
  back. Hard: a lock taken inside another lock, errors and cancellation at each
  await, threads that survive a cancellation, state that is stale after a queue.
- *EPUB pipeline.* A row says DONE of exactly the books that are finished. Hard:
  three writers without a common lock, a downloader shared by rounds, a process
  killed between two writes.
- *Ingest and ledger.* An author dated today has no work that was passed over;
  aggregates agree with the rows. Hard: rounds over the same novels, READ
  COMMITTED statements that see others' commits between them, retries of a
  transaction, deletes in between.
- *Fetch tasks.* An author is marked only when his works are handled; results
  are whole; branches end with their task. Hard: lists that shift under a
  paginated walk, `gather` without `return_exceptions`, the 30-minute timeout.
- *Tags.* Counts are exact; an aliased name stays away; a refresh only adds.
  Hard: what a writer read is stale when it writes.
- *Metadata edits.* Every book has an author name to show; requests end. Hard: a
  transaction stays open, with its locks, while Pixiv is asked for a name.
- *Uploads.* Ids are new and climb, texts are unique, a row has its files.
  Hard: files, sequence and rows have three different notions of rollback.
- *Series repair.* A capped, killable task that visits every candidate and
  leaves the author's numbering. Hard: cursors, failing heads of a page, drafts
  over columns read before an await.
- *Catalogue.* Pages join without gap or repetition; the list is one search.
  Hard: keyset cursors over changing rows, answers that come late.

## 2. Modules

| Module | What it is |
|---|---|
| `TaskLifecycle` | the promise of the queue: rows, lanes, claims; no processes, no faults |
| `TaskQueue` | the kernel over its table; refines `TaskLifecycle` |
| `TaskQueueProofs` | inductive invariant, safety theorems, refinement |
| `CronTicker` | the ticker's map against `scheduled_tasks` |
| `CronTickerProofs` | inductive invariant, three safety theorems |
| `PixivAccounts` | the account pool under the client's retry loop |
| `PixivAccountsProofs` | inductive invariant of the two locks, three safety theorems |
| `EpubPipeline` | rounds, downloader threads, sweep, files and `novel.has_epub` |
| `EpubPipelineProofs` | inductive invariant, four step properties |
| `NovelStore` | ingest rounds and syncs over rows, texts, failure ledger and author aggregates; deletes, kills |
| `NovelStoreProofs` | inductive invariant, dates and counts |
| `AuthorFetch` | ranking, search, follow and special-follow tasks: pagination, fan-out, branches, marking |
| `TagStore` | tag arrays, the reference-count trigger, aliases, four kinds of writers |
| `MetadataEdit` | PATCH and batch edits of author and series, statement by statement, with row locks |
| `RowWriterProofs` | of `TagStore` and `MetadataEdit`: lemmas on counts, two inductive invariants, four safety theorems |
| `LibraryUpload` | the upload batch: advisory lock, fingerprints, sequence, files, savepoint, abort |
| `SeriesRepair` | `fix_series_index`: three branches, cursors, kills |
| `FetchProofs` | of `AuthorFetch` and `SeriesRepair`: lemmas on remote lists and sorted pages, two inductive invariants, five safety theorems |
| `Catalogue` | cursor pagination in the browser against keyset queries; hidden novels; batch scopes |
| `LibraryProofs` | of `LibraryUpload` and `Catalogue`: lemmas on the order and its pages, two inductive invariants, six safety theorems |
| `MC*` | instances for TLC |

Definitions marked "Slip" just above a modelled definition are what that
definition would be after a plausible mistake; the mutants of `PROJECT.json`
put them in its place and must break a property. Every module has a type
invariant. It is not listed in the runs, which ask for behaviour; it is proved
with the rest in section 6. Specifications are `Init`, `Next`, `Spec`, `TypeOK`;
in the three that share a proof module with another one the names carry a
prefix (`EditSpec`, `RepairSpec`, `CatalogueSpec` and so on).

How the modules meet. A round is one thing seen four ways: `AuthorFetch` walks
Pixiv's lists and takes `ingest` as one step; `NovelStore` takes that step apart
into plan, download and transaction; `EpubPipeline` follows its assets;
`PixivAccounts` is under every request of it. `TagStore` and `MetadataEdit` are
the column groups of the same row that have writers of their own, and
`SeriesRepair` a task that writes through the same upsert. `TaskQueue` runs the
tasks and takes their bodies as opaque. The row itself is abstracted in each
module to the columns its properties tell apart.

### TaskQueue

`status`, `kind` and `rows` are the `task_history` table; `live`, `adhoc`,
`wake` and the workers' positions are memory and die with the process. A
worker's life is `waiting -> drain -> executing -> notifying -> drain`. The
code between two awaits is one step: `StartRow` is `_next_pending`,
`_run_pending` and `_run_inner` up to the task function, because none of them
suspends; the task function, the notifier and the wait for the event are the
places where others run. `Finish` covers success, failure and the 30-minute
timeout. Every database call may fail: `QueryFails`, `StartFails`,
`FinishFails`, a `RejectRow` or `Start` or `LaneCancelled` that loses its write.
`LaneOf` is the pair of queries, `IN` and `NOT IN`: a row whose `task_func` is
NULL satisfies neither and belongs to lane "none".

Over-approximations: others may act between two rows of one drain pass; a
progress write may be delayed for any time; enqueueing from a thread is one
step (the insert is one statement and the wake-up is scheduled on the loop).

### CronTicker

One tick is 30 s, so the grace of 60 s is 2. A cron expression is its period,
its occurrences are the multiples: what matters to the ticker is "the first one
after t". A reload is four steps, because it runs in a thread: it takes the
time and reads the rows (`ReloadRead`), builds a map from them and the current
map (`ReloadBuild`), assigns it (`ReloadSwap`); `Edit` is the committed request
that asks for it. `Tick` handles the whole map at once. A reload's thread could
in fact also run in the middle of a tick; that is one more overlap of the kind
`crossed` stands for. `crossed` remembers that a reload overlapped a tick or
another reload: the code has no protection there, and the properties that need
it say so.

### PixivAccounts

A call's stages are the awaits of `execute` and `authenticate`: the two lock
queues, the two requests in threads, the cooldown and interval sleeps, the
backoff. An asyncio lock is its FIFO queue. Times are countdowns. An ACTIVE
account whose token has outlived `_AUTH_TTL` is INACTIVE here: the code treats
both alike. Every answer the classification tells apart is an action. A
cancellation may hit every await; it releases the locks, but a thread that was
at work for the call stays behind (`LeaveThread`, `stray`) and ends when Pixiv
answers (`StrayEnds`). It changes nothing the pool keeps, since status and times
are written behind the await; but the next call may by then have started a
request or a refresh of its own. `MaxStray` bounds how many are under way at a
time. `Calls` are the slots of the client's
semaphore, each reused for ever. Backoff may have any length. A call that finds
its account INVALID selects again without one, and the model splits selection
from the entry of `execute` after such a switch, which only adds behaviours.

### EpubPipeline

A text is a body, marked (it has image placeholders) or plain. A book remembers
the text it was built from and whether its images are embedded ("full", which
is `state.is_complete`), boxed, or raw. The worker thread reads the text when it
builds, not when it was submitted: `WorkerReads`, then `WorkerBuilds`,
`WorkerSkips` or `WorkerFails`. `Gate`, `Drain` and `Persist` are the rest of a
round; `future` and `outcome` are the downloader's lists, shared by all rounds.
The sweep reads the rows, judges each row's files, writes the verdicts over
whatever the rows hold by then. A kill loses everything but files and rows.
"Images" land all or none; covers, which never count for completeness, and the
corrupt zip, which is no book, are left out. A round over other novels is a
round with an empty share of the modelled ones. `solo` remembers the rounds
that shared no novel with another round or with a leftover build, `behind` the
novels that changed since the sweep read them: the code gives its guarantees to
these only.

### NovelStore

A round is the coroutine `ingest`: `Begin` (the plan: ids that are new, were not
skipped by the ledger's threshold, or are forced), downloads, then the write
transaction in three statements (`write`: the existing rows are read and the
batch is upserted; `sum`: the aggregates are counted; `end`: ledger, EPUB
statuses and commit), then the author's mark. At READ COMMITTED others commit
between any two of them. A row that another open transaction has written is
`held`; a statement that meets it fails after `lock_timeout`, and
`run_write_transaction` starts again on a fresh session, `MaxAttempts` times. A
unique violation is not retried. Deletes are the single request (`DeleteRequest`,
then `DeleteCommit` or `DeleteFails`), the batch request (`BatchRequest` sends the
DELETE and unlinks the files, the rows stay locked in `purging` until
`BatchCommit` or `BatchFails`), a chunk of the batch task (`DeleteMany`, which
commits first and unlinks after), and the author with his works;
`Kill` ends the process. A round that meets a ledger row such a request has
locked waits, as for a novel (`LedgerTaken`). `cleared` and `overrun` are history: they name the
user's own removals, and the rounds over whose novels others have committed.

### AuthorFetch

`Page` is one step of `_paginate`: a slice of whatever the list is when the next
offset is followed, the threshold asked of a page's last item, the guard on the
number of pages. A branch is `author_fetch` under the gate: plan, follow an
unknown author, walk, ingest, mark, resolve the name. `Gathered` ends a fan-out
when all its branches have; the first failure ends it at once and leaves the
others running (`orphaned`); a timeout cancels them. `Publish` and `Withdraw`
change an author's list under a walk. A forced `novel_follow` asks for every
followed author, dated today or not, and fetches known works again (`StartFollow`,
`Due`, `Ingest`). Simplifications: ingest is one step (it is
`NovelStore`'s subject), so the skip threshold is not here; the task
`author_fetch` alone is a fan-out of one; a search with `minlike = 0` fetches one
page, as in the code.

### TagStore

A row's tags are a bag, since `array_replace` may leave a name twice. The trigger
`sync_tag_refs` is part of every statement that writes the array. What a
transaction read (`ReadRow`, the alias map in `Begin*`) is a step before the
write and may be stale: that is where the properties' exceptions come from.

### MetadataEdit

The handler occupies the event loop except where it awaits Pixiv, and the batch
except during its threaded UPDATEs; `loop` is who runs. A placeholder row that
was inserted and not committed is a lock others wait for, also the ones that
would have to give the loop back: `WaitEnds` is `lock_timeout`. The batch's
UPDATEs write, and so lock, only rows that change. Titles, captions, dates and
favourites are columns with one writer and are left out, as are dry runs, which
roll back.

### LibraryUpload

Each file of a batch is read, locked for (once per transaction), checked against
the fingerprints, then given a coordinate (`floor`, `next`, perhaps `setval` and
`again`), written to disk and inserted under a savepoint. A sequence keeps no part
in a rollback; neither do files. A repeated text may take the preset author and
the EPUB. The handler never awaits in its transaction, so one process never
interleaves two uploads; the advisory lock is for the second process, and the
model lets uploads interleave to see it work. A body is its fingerprint. Deletes
come in the code's two orders: the batch task commits a chunk and then unlinks
(`DeleteRow`, `UnlinkFiles`); a request, single or batch, unlinks and then commits or
fails to (`DeleteRequest`, `DeleteCommits`, `DeleteFails`). `stripped` remembers
the rows that such a request has left without files, or may: `RowHasItsFiles` is
about the others.

### SeriesRepair

`Start` reads cursors and candidates in one transaction and cuts the pages.
Branch by branch and item by item: ask the roster (cached for the run) or the web
page, read the stored columns, write the drafts, advance the cursor, wrap it when
the page was not cut off. `Kill` may come at any step, `FetchFills`, `SetIndex`
and `DeleteNovel` write between any two. `Dead` are the series and novels that
never answer. `authored` are the rows with an `author_id`: the code numbers no
other one, and an orphan without it is mended only if its page names the author
(`task.signed`); otherwise it stays a candidate (`PassUnsigned`). A roster that
comes back empty counts as none. `due` and `looked` are history.

### Catalogue

A search is its filters and order; a row its sort keys, whether it matches, and
whether it carries the blocked tag. A request is sent, listed (the page query),
and answered (the setting and the bounded count are read in a query of their
own); the browser keeps an answer only if its number is the newest. `Side` is a
batch over a scope (by value up to `BatchCap`, by filter beyond) or a visit to
the hidden novels. What a request says about blocked tags is the tab's own copy
of the setting (`tab`): fetched once (`FetchConfig`), TRUE until then or when that
fails, changed by this tab's switch (`ToggleExclusion`) and not by another's
(`OtherTabToggles`); the view of hidden novels follows the setting in force. Left
out is an answer to the one fetch that arrives after this tab's own switch.
`Ordered` is ORDER BY: the k-th row is the one with k rows up to it.
Novels without a date are left out (see section 7).

## 3. What is checked

| Run | Bounds | States | Shows |
|---|---|---|---|
| `task_queue` | 2 rows, 2 lives, 1 failed call | 345k | `RunAtMostOnce`, `FifoPerLane`, `ExecutingRowIsRunning`, `NeverResumed`, `NoLostWakeup`, `RecoverSparesLive`, `EveryRowSettles`, refinement of `TaskLifecycle` |
| `cron` | 1 job, 2 reloads, periods 2 and 3, 7 ticks, 2 edits, 1 restart, 1 fault | 1.2M | `NoDoubleFireUncrossed`, `ExactlyOnce`, `CacheMatchesTable` |
| `pixiv_accounts` | 2 calls, 2 accounts, 1 retry, cooldown and interval of 1, 1 stray thread | 703k | `OneCallPerAccount`, `OneRefreshPerAccount`, `PacedAfterAnswer`, `CallsEnd` |
| `epub` | 1 novel, 2 rounds, 1 fault | 1.3M | `SoloRoundWaits`, `FinishedIsMarked`, `MarkedIsFinished`, `FinishedIsSpared` |
| `epub_converges` | the same, one round at a time | 400k | `Converges` |
| `novel_store` | 2 novels of 1 author, 2 rounds of 2, 2 attempts, threshold 1 | 3.2M | `DatedMeansHandled`, `CountMatchesRows` |
| `author_fetch` | 2 authors, 4 works, gate 1, pages of 1, guard 3, 2 tasks, 1 fault, 1 change | 469k | `NoStrayBranch`, `MarkedIsHandled`, `ResultIsWhole`, `BranchesEnd` |
| `tag_store` | 2 novels, 2 tags, 2 writers | 575k | `RefCountExact`, `AliasedNameStaysAway`, `UncrossedRefreshOnlyAdds` |
| `metadata_edit` | 2 books, 1 author, 1 series, 2 requests | 730k | `SerialEditsKeepNames`, `EveryRequestEnds` |
| `library_upload` | 2 texts, 3 uploads, 2 at a time, 2 fetched ids, 1 row stripped of its files | 5.1M | `InsertNeverClashes`, `RowHasItsFiles`, `CoordsClimb` |
| `series_repair` | 4 novels, 2 series, caps 1 and 2, 2 novels without an author, 1 foreign write, 1 kill | 2.2M | `NothingSkipped`, `RosterIsAuthority`, `NoOrphanStarves` |
| `catalogue` | 4 ids, pages of 2, 3 searches of which 2 in a behaviour, 1 edit, 1 fault, 1 side request, another tab's switch | 5.2M | `EachRowOnce`, `ListIsOneSearch`, `ListAndViewPartition` |

Why these bounds are enough to be interesting. Two rows are one in each lane,
two in one lane, or a leftover and a new one; two lives are a crash or stop with
a recovery; one fault reaches each error path alone. Seven ticks hold several
occurrences of both periods, an occurrence on time, one at the grace and one
past it; two reloads in flight are the smallest overlap. Two calls are enough
for every contention of a lock: they meet on one account when the other one is
invalid or cooling; one thread left behind is beside either of them.
`MCPixivAccountsPinned.cfg` checks the safety part with a strategy that pins both
to one account as well (1.85M states). One novel
with two rounds is the smallest case of a shared downloader; rounds over other
novels are included. Two novels of one author make his row the contended one,
and two attempts show a retry that succeeds and one that is used up. A gate of
one is the narrowest a branch can be stuck behind; pages of one with lists of two
and three give a second page and room for a list to shift. The guard of three
pages is one longer than the list that moves, so that its publication during a
walk cuts no walk and excuses nothing.
Two tags are a source and a target, or a chain that meets its own start. Two
books on one author and one series give every pair of edits, with crossing locks.
Three uploads of up to two files hold a repetition within a batch, across
batches, and across a rollback; two fetched ids put the sequence behind once and
again. A dead orphan that sorts first with a cap of one is the case that starves.
Four ids over two pages of two include a local id at the time of a fetched one
and two rows with one key.

The bounds named in the modules (`Max*`) limit the number of foreign events,
never what one event does. Where section 6 has a theorem, the property holds for
every value of these bounds and every size of the sets, not only of the instance.

Deadlock is checked in `task_queue`, `pixiv_accounts`, `epub` and
`epub_converges`. Elsewhere a behaviour may really stop: the cron clock is
bounded, requests and rounds are bounded in number, a search that ended waits
for the user.

## 4. Fairness

`TaskQueue`: weak fairness of each worker's own steps, of shutdown, of `Start`
and `StopFinish`. The event loop runs what is ready, `wait_for` has a 1 s
timeout, a task function has a 30-minute timeout, systemd restarts the process.
Nobody has to enqueue, stop, crash or fail. `EveryRowSettles` excuses a row
whose outcome write failed, and rows of lane "none".

`PixivAccounts`: weak fairness of each call's steps and of time. Requests have a
timeout, locks are FIFO. Cancellation and new calls are not assumed, nor that a
stray thread ever ends.

`EpubPipeline`: weak fairness of rounds, workers and the sweep, which is a cron
job. Rounds need not start, and no text needs to age: a row may stay PENDING.

`MetadataEdit`: weak fairness of each request's handler: the loop serves what is
ready, threads run, the Pixiv client comes back (its calls end, see
`PixivAccounts`), and PostgreSQL ends a lock wait (`db/engine.py:59`). Nobody has
to send a request.

`SeriesRepair`: weak fairness of `Run` and `Proceed`: the schedule starts the task
again, and a started task goes on. Kills and foreign writes are bounded.

`AuthorFetch`: weak fairness of each branch's steps: the loop runs what is ready,
requests end. Neither the gather nor a timeout is assumed.

`CronTicker` (its clock is bounded), `NovelStore`, `TagStore`, `LibraryUpload` and
`Catalogue` state safety only.

## 5. Statements TLC refutes

What comments, docs or tests of the repository say and the code, as modelled,
does not do. Each cfg checks one statement; run `tlc -config <cfg> <module>`.

| Cfg (module) | Statement | What happens |
|---|---|---|
| `MCTaskQueueOrphan` (`MCTaskQueue`) | `FailedPassLeavesPending`: "log and retry on the next pass (the row, if any, stays pending for that retry)", `tasks/kernel.py:1088` | the outcome write (`kernel.py:601`) fails after the row was written as running: it says running until a later process interrupts it |
| `MCTaskQueueNull` (`MCTaskQueue`) | `LegacyRowsAreServed`: the general lane takes "everything else, including ad-hoc runs and legacy `NULL` rows", `kernel.py:1058`, `tasks/history_repo.py:106` | `NOT IN` (`history_repo.py:119`) is not true of NULL: neither lane ever selects the row. No code of today enqueues one; it would be left by an older schema or inserted by hand |
| `MCCronTickerRace` (`MCCronTicker`) | `NoDoubleFire`: "makes a repeated `_fire_due` with the same *now* a no-op (no double-fire)", `kernel.py:868` | a tick between a reload's copy of a timer (`kernel.py:823`) and its swap (`kernel.py:854`) is undone by the swap; the occurrence is enqueued twice |
| `MCPixivAccountsCooldown` (`MCPixivAccounts`) | `NoRequestInCooldown`: "a cooling account ... is made to actually wait before issuing its next request", `pixiv/account.py:227` | the cooldown is not looked at again behind the lock (`account.py:237`) |
| `MCPixivAccountsToken` (`MCPixivAccounts`) | `DeadTokenIsRetried`: "force a fresh auth on the next attempt", `account.py:277`, and `tests/adapters/test_pixiv_layer.py:416` | `_is_permanent` (`client.py:56`) takes 401 for permanent; there is no next attempt |
| `MCEpubPipelineGate` (`MCEpubPipeline`) | `GateHolds`: "the write transaction only sees novels whose files are actually on disk", `ingest.py:412` | a second round over the same novel has no future to wait for (`image_downloader.py:250`, `:350`) |
| `MCEpubPipelineStale` (`MCEpubPipeline`) | `OldBuildMatches`: "the old build already matches the file", `download_novel.py:79` | the build of that body was lost; the next fetch finds the text unchanged and reports the older book as done |
| `MCEpubPipelineUnread` (`MCEpubPipeline`) | `UnreadIsNotTerminal`: unreadable text "must never be turned into a terminal state", `tasks/maintenance/epub.py:317` | the give-up rule (`epub.py:335`) does not ask |
| `MCMetadataEditName` (`MCMetadataEdit`) | `NameWithoutId`: every book has an author name to show, `docs/LIBRARY_DESIGN.md` 3.3 and `update_metadata.py:231` | an edit whose name lookup fails commits NULL while an unlink, which has read the old name, waits; the unlink writes none |
| `MCLibraryUploadFailure` (`MCLibraryUpload`) | `FailureStaysWithItsFile`: one entry that fails does not affect the others, `features/library/ingest.py:554` | the preset or the EPUB of a repeated text is flushed outside the savepoint; if its row or author has gone, the whole batch rolls back |
| `MCNovelStoreLedger` (`MCNovelStore`) | `UnwrittenIsUnrecorded`: "a brand-new novel that failed before persistence has no `novel` row and cannot be recorded under the FK -- those are skipped", `ingest.py:286` | the ledger has no foreign key (`failures/repo.py:50` says so and why) and `record` keeps every failure. `DatedMeansHandled` and `MarkedIsHandled` rest on the code: were the comment true, both would fail |
| `MCCatalogueStaleTab` (`MCCatalogue`) | `EveryTabPartitions`: the list's exclusion "follows the global setting" (跟随全局设置), `useNovels.ts:19`, `:22` | the tab sends the copy it fetched once, or TRUE, while the view of hidden novels follows the setting in force (`novels/api.py:219`): rows are hidden from the list and absent from the view |
| `MCNovelStoreFiles` (`MCNovelStore`) | `FailedDeleteKeepsFiles`: database first, files second, `delete_novel.py`, `batch_operations.py` | the files go inside the request, before its transaction commits; when the commit fails the row stays without them |

## 6. What is proved

`TaskQueueProofs` proves, for any `MaxTasks`, `MaxSessions` and `MaxFaults` that
satisfy `BoundsAreNaturals`, the type invariant, every safety property of
`TaskQueue`'s run, that a settled row never changes (`SettledIsFinal`), and that it implements `TaskLifecycle`.

The argument. None of the invariants is inductive. `RunAtMostOnce` needs that a
row that waits has never been started (`FreshRows`); that needs that only a row
in `executing` is written as settled and none is written back to pending, so a
lane's row must be known to say running (`LanesSound`: a lane has a row exactly
while it executes, the row says running, no two lanes share it, a manager that
is down has no lanes). `FifoPerLane` needs that ids grow with insertion
(`Frontier`). `NeverResumed` and `RecoverSparesLive` need what the live set means:
it is exactly the waiting rows of this life, and after a successful recovery no
row of an earlier life waits (`OwnersSound`). `IndInv` is the conjunction; one
lemma per action shows that it is kept, one step per conjunct. The refinement
maps each step: `Enqueue` to `Submit`, `StartRow` to `Claim`, `RejectRow` to
`Refuse`, `Finish` to `Settle`, cancellation to `Settle` or `Abandon`, `Crash` to
`Abandon`, `Start` to `Interrupt`, the rest to stutters.

`LibraryProofs` has two parts, the library as it is written and as it is read. Of
`LibraryUpload` it proves the type invariant and the three properties of the
`library_upload` run for any uploads, bodies, batches and bounds that satisfy
`UploadAssumption` (batches are sequences of payloads, bounds and seed are
numbers, the two "nobody" values are nobody's).

The argument. That the insert finds its id and its text free is a fact about the
whole way from the precheck. `LockHeld`: who has written rows or is past the
outer phases holds the lock, so no other upload commits rows in between; a text
that was new stays new (`TextIsNew`), and deletes and crashes only take rows
away. `SequenceAhead` (the sequence is past every coordinate ever given, and past
the floor once it has been set) with `RowsSound` (a row's coordinate was given)
makes a drawn coordinate nobody's (`CoordIsFree`). Files: a coordinate waiting to
be unlinked is no row's, and the only files an upload takes back are those of the
coordinate it has just drawn; so a row seen once keeps its files (`RowsSound`),
unless a delete request has taken them (`stripped`), which needs that there is one row per coordinate (`OneRowPerCoord`). Most steps
write no row: `Moves` says what they may do, `MoveKeeps` that it is harmless;
`Rewrites` and `RewriteKeeps` do the same for the changed duplicate; the insert,
the commit and the steps of others have lemmas of their own. `CoordsClimb`, about
steps, is shown with the invariant (`StepKept`).

Of `Catalogue`, for any finite set of ids, any keys, searches, selections, page
and chunk sizes and bounds (`CatalogueAssumption`): `ListIsOneSearch`,
`EachRowOnce`, `ListAndViewPartition`. None is inductive; `CatalogueInv` is.

First the order. (key, id) is compared as a pair, both directions, and this is a
strict total order on the rows (`OrderFacts`, `BeforeOrders`); so ranks are
distinct and all of `1..n`, and `Ordered` lists every row once (`RankFollowsOrder`,
`OrderedSorts`). A page is then the front of the rows beyond the cursor and its
own cursor the last of them: it holds exactly the rows between the two
(`PageFollowsCursor`). Then the list. `ListOK` says of a request whose answer will
be shown that it is of the search in the filters and continues where the list
ends, and that a superseded one leaves the list empty; this gives
`ListIsOneSearch`. `SteadyOK` reads a cursor as a cut through the order: an
untouched row is in the list exactly once if the cursor has reached it and not at
all if it has not, and the same of a page that is still on its way. Appending a
page moves the cut and joins the two (`HoldsInConcat`); an edit takes its rows out
of `steady` and leaves the keys of the others alone (`RowsChange`). That gives
`EachRowOnce`; its last conjunct, about a browse that begins anywhere and wraps
around, has `BrowseOK` and a lemma of its own (`RandomPageIsDistinct`).
`UntouchedOK` compares counters of edits: as long as none came since the first
page was read, every row of the search is untouched and nothing else is shown;
which rows that is depends on what the pages asked for (`client.hides`), and
`ListAndViewPartition` speaks of lists all of whose pages asked for the setting in
force.
`ViewOK` says the same of the hidden novels, chunk by chunk, and with it
`ListAndViewPartition` is a fact about two sets.

`RowWriterProofs` holds the proofs about the tag arrays and about the author and
series columns. Of `TagStore`, for any finite library, any tags and writers (`TagAssumption`):
`RefCountExact`, `AliasedNameStaysAway`, `UncrossedRefreshOnlyAdds`. A count is
the cardinality of the novels that carry a tag; `WriteRows` is the one operator
every statement writes through, and its lemma adds and subtracts, row by row, what
the trigger does. The alias map is applied one step deep, so what a writer brings
to a row is no alias, or an alias's target (`ResolvedName`, `WriterBrings`), while
the map it read still stands; setting an alias empties its source from every row
(`AliasEmptiesSource`). A refresh writes the union with the row it read, so it
takes nothing away while that row has not changed.

Of `MetadataEdit`, for any books, authors, series and requests whose ids are of two
tables and no markers (`EditAssumption`): `SerialEditsKeepNames`. What a request
has read may be old as soon as another commits; `overtaken` says that this has
happened. `RequestOK` holds before: the name a PATCH has read, the rows a batch
changes and the blanks it fills are what the rows say, and a known author's name
has been found (a miss in the local table goes to Pixiv only for an id that is
not known). A book on an author with a name shows his name and no other, a book
on none shows some name. `StepKeeps` serves every step that commits nothing, `CommitKeeps` the
two commits; a commit that crosses another request sets `overtaken`.

`CronTickerProofs`, for any jobs, periods, reloads and bounds (`CronAssumption`):
`NoDoubleFireUncrossed`, `ExactlyOnce`, `CacheMatchesTable`. None of the three can
be shown of the map in use alone, since a reload brings in another: `TimersOK`
says of every timer, in use or built and not yet assigned, that everything handled
lies before its `next`, and that everything between its setting and its `next` has
been handled; a reload that has only taken the time has missed nothing since.
`CacheOK` says that a reload which is alone carries what the table holds. Both
excuse crossed reloads and nothing else.

`PixivAccountsProofs`, for any calls, any pool of distinct accounts and any limits
(`PoolAssumption`): `OneCallPerAccount`, `OneRefreshPerAccount`,
`PacedAfterAnswer`. `LockOK`, stated once and used for both locks, ties a queue to
the stages of the calls: a call is in the queue of its account, once, exactly in
the stages that need the lock, and who works inside is the queue's head; a
cancellation takes a call out of the middle (`RemoveOnce`). The locks order the
calls that still wait and nothing else: the threads of cancelled calls (`stray`)
are in no queue, and the three properties hold whatever they do. A call that sleeps
out the interval sleeps at least as long as its account has to stay quiet.

`NovelStoreProofs`, for any finite set of novels, any authors, rounds and bounds
(`BoundsAssumption`, `NovelAssumption`): `DatedMeansHandled` and
`CountMatchesRows`. A round of `author_fetch` passes over none of the author's
works: each waits, is in hand, has failed in this round, or is done
(`AuthorRoundOK`); what the transaction has read and upserted covers what it was
given, through every retry on a fresh session (`DraftsOK`). Of the counts,
`AloneOK` says that a round over whose novels nobody has committed still sees what
its statements saw. The steps of others appear in two lemmas: rows that are added
only help, and rows that are removed are the user's (`cleared`) or void the count
(`overrun`).

`EpubPipelineProofs`, for any novels, texts, rounds and faults (`EpubAssumption`:
the markers for "no book", "no row" and "keep" are none of what they mark the
absence of): `SoloRoundWaits`, `FinishedIsMarked`, `MarkedIsFinished`,
`FinishedIsSpared`. The downloader is shared, so the invariant follows one novel
of one round through it (`InReach`: its future is on the list, then among those
the round waits for, then finished) and the verdict on it (`BuildKnown`: a build
under way is one of this text and has not reported, a build that is over has
reported what the files show, and so has the outcome the round has drained).
`SoloStays` is the frame: what other rounds, workers and the sweep do to other
novels leaves both alone. `SweepOK` holds the verdict against the novels whose row
and files have not changed since.

`FetchProofs` is about the two tasks that walk a list page by page while others
write. Of `AuthorFetch`, for any authors, works, lists, gate, page size, page guard
and bounds (`FetchAssumption`: a list of Pixiv is a sequence of works and an
author's list holds his own): `NoStrayBranch`, `MarkedIsHandled`,
`ResultIsWhole`. `WalkOK`: what was listed when the walk began has been seen or is
still at or behind the offset. `FullPage` shows that a page keeps this and that a
walk which ends before the guard has seen the rest, `PublishedRest` that a work at
the head only shifts the rest; a withdrawn one may break it, and is excused by
`shaken`. `ReportOK` says that nothing the branches made is missing from the report
and their results. `SlotsOK` counts: every fan-out that runs on without its task
has cost a failure, so the slots of the model never run out and the `CHOOSE` in
`FanOut` finds a free one; that is the proof that the bound on slots hides nothing.

Of `SeriesRepair`, for any rosters, page sizes, dead ids and bounds
(`RepairAssumption`: ids are positive and finitely many, a novel is of one series
or none, a roster names a novel once): `NothingSkipped`, `RosterIsAuthority`.
`AscendingSorts` shows that the order of a page is one: members are counted up
strictly, so the counts are all of `1..n`. `PageOK` says of every branch that a
candidate whose turn has not come is in the page or after all of it, and that the
page is then cut off; `ItemOK` that it lies past the item under way. A cursor thus
moves over what has been looked at only, and goes back to the start only over an
empty page that was not cut. `RosterIsAuthority` allows writes of others between
the read and the write: a row due for its number ends with it, or with the number
somebody else has given it meanwhile; only rows with an author, and the orphan
whose author is known, are ever due.

The theorems are about the specification without fairness, which the fair ones of
the runs with liveness imply.
In the theorems about steps (`SoloRoundWaits`, `PacedAfterAnswer`, `CoordsClimb`
and the like) the invariant of the state before the step gives the claim. The
proofs take from the constants only the named assumptions; TLC evaluates each of
them in the run of its component.

Every invariant and every action property that a run checks is proved, and so is
the refinement. Only model-checked are the liveness properties (`EveryRowSettles`,
`CallsEnd`, `Converges`, `EveryRequestEnds`, `NoOrphanStarves`, `BranchesEnd`):
liveness under fairness, `ENABLED` and induction over recursive data are outside
what the prover does. `SettledIsFinal` has no run of its own: `ImplementsLifecycle`
breaks with it.

## 7. What modelling the code showed

Besides section 5, and not contradicted by a document of the repository:

- A cancelled call leaves its request, or its refresh, running in a thread and
  releases the locks, so that the next call sends a second one beside it
  (`OneThreadPerAccount`, which TLC refutes with `MCPixivAccountsStray.cfg`).
  `OneCallPerAccount` and `OneRefreshPerAccount` are about the calls that still
  wait.
- A walk that the page guard cuts (`client.py:316`) ends like any other: the
  author is marked although the tail of his list was not asked for.
- `update_summary` counts and then writes: a transaction overtaken by another's
  commit writes a stale count. `CountMatchesRows` is about the others.
- Rows without an `author_id` are never numbered by the series repair
  (`series.py:303`, `:323`, `:357`), and an orphan among them stays a candidate
  for ever, unless its page names the author.
- `POST /novels/batch` unlinks before the request's commit as the single delete
  does; the batch task commits first.

- A refresh that read a row before a user's edit writes the union with what it
  read: tags the edit removed come back, and the alias map it read may be old.
  `AliasedNameStaysAway` and `UncrossedRefreshOnlyAdds` except such crossings.
- Two rounds that insert the same novel: the second meets a unique violation,
  which is not retried, and loses its whole transaction, although `ingest` calls
  concurrent calls safe.
- Deleting a novel never refreshes its author's aggregates, and deleting an
  author leaves the files of his works; the comment on the failure ledger there
  describes a clean-up that is not in the code.
- `_fan_out_author_fetch` gathers without `return_exceptions`: the siblings of a
  failed branch run on without their task. They do end (`BranchesEnd`).
- `fix_series_index`: the docstring lets the cursor stop before a failing row and
  calls the branches disjoint; the code always advances, and branches meet. A row
  deleted while its draft waits is inserted again. A run that finds nothing while
  `sweep_all` is off resets the sweep's cursor.
- `local_axis.py` says callers need no further lock; `CoordsClimb` breaks without
  the advisory lock its only caller takes.
- `useNovels.ts:onPopState` in a hidden tab changes the filters and never loads,
  although its comment calls the load deferred (`client.back` in `Catalogue`).
- A load-more after a failed first load has no cursor and is the first page, but
  the bar for hidden novels keeps its earlier state.
- A NULL `create_time` in a row-value cursor compares as unknown; the rows behind
  it are not listed. Not modelled: rows here have dates.

## 8. Plan

Done, with their proofs: `TaskQueue` and `TaskLifecycle`, `CronTicker`,
`PixivAccounts`, `EpubPipeline`, `NovelStore`, `AuthorFetch`, `TagStore`,
`MetadataEdit`, `SeriesRepair`, `LibraryUpload`, `Catalogue`. No safety property of
a run is left to prove.

To model: task polling in the frontend; the walk of a user's ZIP export.

## 9. Not modelled, and why

Full-text matching, reading history, tokens CRUD, notifications' content, naming
templates, language detection, parsing of Pixiv's answers, decoding of uploads,
the EPUB reader: no state of their own, or pure functions of strings. The data
epoch (`db/data_version.py`): nothing in the source reads it. Schema migrations but
for the tag trigger, scripts, systemd units, backup: run by hand or external. The
frontend but for lists, hidden novels and batch scopes: display. Edits of single
columns (title, caption, date, favourite): one writer and one statement.
