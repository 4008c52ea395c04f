---------------------------- MODULE EpubPipeline ----------------------------
(***************************************************************************)
(* How a novel's EPUB and its novel.has_epub column come about, and stay   *)
(* in agreement.  Three parties write, none of them under a common lock:   *)
(*   - ingest rounds (features/novels/ingest.py, download_novel.py) on the *)
(*     event loop: fetch and save the text, hand the assets to the         *)
(*     downloader, wait at the gate, persist the row;                      *)
(*   - the downloader's worker threads (storage/image_downloader.py,       *)
(*     storage/epub/builder.py): fetch images, build the EPUB, report an   *)
(*     outcome;                                                            *)
(*   - the check_epub sweep (tasks/maintenance/epub.py): reads the rows,   *)
(*     judges them against the files in a thread, writes the verdicts.     *)
(* The downloader is shared by all rounds, and a killed process loses      *)
(* everything but the files and the table.                                 *)
(*                                                                         *)
(* A text is a body, marked when it has image placeholders.  Covers, and   *)
(* which of several images landed, are left out: "the images" land or not. *)
(***************************************************************************)
EXTENDS Naturals, FiniteSets

CONSTANTS Novels, Rounds,
          Bodies,       \* the texts a novel can have at the source
          Marked,       \* those with image placeholders
          Keep,         \* has_epub=None in a draft: leave the column alone
          NoRow, NoText, NoBook,
          MaxRounds,    \* bound: ingest rounds started
          MaxFaults     \* bound: builds that fail, reads of a text that fail,
                        \* kills of the process

EpubStatus == {"NO", "PENDING", "DONE", "NO_IMAGES", "MISSING_SOURCE"}
\* An EPUB file: the text it was built from, and whether it still shows raw
\* markers, has boxes or nothing where images belong, or embeds images.
Books    == [of : Bodies, kind : {"raw", "boxed", "full"}]
Outcomes == {"done", "skipped", "failed"}

ASSUME EpubAssumption ==
    /\ Marked \subseteq Bodies
    /\ NoText \notin Bodies
    /\ NoBook \notin Books /\ NoRow \notin EpubStatus /\ Keep \notin EpubStatus
    /\ MaxRounds \in Nat /\ MaxFaults \in Nat

VARIABLES
    row,      \* novel.has_epub, NoRow before the first insert
    text,     \* the text file at novel.path
    book,     \* its .epub sibling
    pics,     \* an image file of the novel is on disk
    old,      \* the text file is older than _STALE_DAYS
    rpc,      \* where a round is
    ids,      \* the novels it works on; those of other novels are not modelled
    draft,    \* its drafts' has_epub, for the novels it has fetched
    waits,    \* the futures it claimed at the gate that are not finished
    drained,  \* the outcomes it drained
    task,     \* worker thread: the draft of a novel in flight (_in_flight)
    taken,    \* the text the worker has read for its build, Keep before
    future,   \* _futures has the future of the novel's task in flight
    outcome,  \* _outcomes
    spc,      \* where the sweep is
    seen,     \* the statuses it has read
    verdict,  \* its verdicts
    solo,     \* history: rounds that shared their novels with no other
    behind,   \* history: row or files changed since the sweep read the rows
    rounds, faults

diskVars    == <<text, book, pics, old>>
roundVars   == <<rpc, ids, draft, waits, drained>>
loaderVars  == <<task, taken, future, outcome>>
sweepVars   == <<spc, seen, verdict>>
historyVars == <<solo, behind>>
budgets     == <<rounds, faults>>
vars == <<row, diskVars, roundVars, loaderVars, sweepVars, historyVars, budgets>>

NoTask   == [body |-> NoText, offered |-> FALSE]
Tasks    == [body : Bodies \cup {NoText}, offered : BOOLEAN]
NoDrafts == [n \in {} |-> Keep]

\* A legacy row: never classified, its files in any state earlier versions left.
Legacy(n) ==
    /\ row[n] = "NO"
    /\ text[n] \in Bodies \cup {NoText}
    /\ \/ book[n] = NoBook
       \/ /\ book[n] # NoBook /\ book[n].of = text[n]
          /\ book[n].kind # "boxed" => text[n] \in Marked
    /\ old[n] = (text[n] # NoText)

Init ==
    /\ row \in [Novels -> {NoRow, "NO"}]
    /\ text \in [Novels -> Bodies \cup {NoText}]
    /\ book \in [Novels -> Books \cup {NoBook}]
    /\ pics = [n \in Novels |-> FALSE]
    /\ old \in [Novels -> BOOLEAN]
    /\ \A n \in Novels :
          \/ Legacy(n)
          \/ row[n] = NoRow /\ text[n] = NoText /\ book[n] = NoBook /\ ~old[n]
    /\ rpc = [r \in Rounds |-> "idle"]
    /\ ids = [r \in Rounds |-> {}]
    /\ draft = [r \in Rounds |-> NoDrafts]
    /\ waits = [r \in Rounds |-> {}]
    /\ drained = [r \in Rounds |-> NoDrafts]
    /\ task = [n \in Novels |-> NoTask]
    /\ taken = [n \in Novels |-> Keep]
    /\ future = [n \in Novels |-> FALSE]
    /\ outcome = [n \in Novels |-> "none"]
    /\ spc = "idle"
    /\ seen = [n \in Novels |-> NoRow]
    /\ verdict = [n \in Novels |-> Keep]
    /\ solo = Rounds /\ behind = {}
    /\ rounds = 0 /\ faults = 0

Idle(r)   == rpc[r] = "idle"
Full(n)   == book[n] # NoBook /\ book[n].kind = "full"     \* state.is_complete
Touch(S)  == behind' = IF spc = "judging" THEN behind \cup S ELSE {}

----------------------------------------------------------------------------
(* Ingest: the fetch of one novel *)

StartRound(r, S) ==
    /\ Idle(r) /\ rounds < MaxRounds
    /\ rpc' = [rpc EXCEPT ![r] = "fetch"]
    /\ ids' = [ids EXCEPT ![r] = S]
    /\ LET sharers == {q \in Rounds : ~Idle(q) /\ ids[q] \cap S # {}}
           leftovers == {n \in S : task[n] # NoTask \/ outcome[n] # "none"}
       IN solo' = IF sharers = {} /\ leftovers = {} THEN solo ELSE solo \ (sharers \cup {r})
    /\ rounds' = rounds + 1
    /\ UNCHANGED <<row, diskVars, draft, waits, drained, loaderVars, sweepVars,
                   behind, faults>>

\* process_novel_assets for body b, o telling whether the response offers
\* images: an existing book may settle it at once, a novel without images
\* needs nothing, a novel in flight is left to whoever submitted it.
SettledBy(n, b, force) ==
    book[n] # NoBook /\ ~force /\ (b \notin Marked \/ Full(n))

Assets(n, b, o, force) ==
    IF SettledBy(n, b, force)
    THEN outcome' = [outcome EXCEPT ![n] = "done"] /\ UNCHANGED <<task, taken, future>>
    ELSE IF ~o /\ b \notin Marked
    THEN outcome' = [outcome EXCEPT ![n] = "skipped"] /\ UNCHANGED <<task, taken, future>>
    ELSE IF task[n] # NoTask
    THEN UNCHANGED loaderVars
    ELSE /\ task' = [task EXCEPT ![n] = [body |-> b, offered |-> o]]
         /\ taken' = [taken EXCEPT ![n] = Keep]
         /\ future' = [future EXCEPT ![n] = TRUE]
         /\ UNCHANGED outcome

\* The has_epub of a draft: judged from the body, unless the file was kept.
DraftStatus(b, rewrote) ==
    IF ~rewrote THEN Keep ELSE IF b \in Marked THEN "PENDING" ELSE "NO_IMAGES"

\* read_novel_text: a missing, empty or unreadable text compares with nothing.
Unchanged(n, b) == text[n] # NoText /\ text[n] = b

Rewrites(n, b, redownload) == b # NoText /\ (redownload \/ ~Unchanged(n, b))

\* save_novel_text with force, at the row's own path.
SavedText(n, b, rewrote) == IF rewrote THEN b ELSE text[n]

\* fetch_novel_and_assets once webview_novel has answered: without an await,
\* the text is compared and saved and the assets are handed over.
Fetch(r, n, b, o, redownload) ==
    /\ rpc[r] = "fetch" /\ n \in ids[r] \ DOMAIN draft[r]
    /\ LET rewrote == Rewrites(n, b, redownload)
       IN /\ text' = [text EXCEPT ![n] = SavedText(n, b, rewrote)]
          /\ old' = [old EXCEPT ![n] = @ /\ ~rewrote]
          /\ draft' = [draft EXCEPT ![r] =
                 [m \in (DOMAIN @) \cup {n} |-> IF m = n THEN DraftStatus(b, rewrote) ELSE @[m]]]
          /\ Assets(n, b, o, redownload \/ rewrote)
          /\ Touch(IF rewrote THEN {n} ELSE {})
    /\ UNCHANGED <<row, book, pics, rpc, ids, waits, drained, sweepVars, solo,
                   budgets>>

\* The novel is gone, or the request failed: it drops out of the round.
FetchFails(r, n) ==
    /\ rpc[r] = "fetch" /\ n \in ids[r] \ DOMAIN draft[r]
    /\ ids' = [ids EXCEPT ![r] = @ \ {n}]
    /\ UNCHANGED <<row, diskVars, rpc, draft, waits, drained, loaderVars,
                   sweepVars, historyVars, budgets>>

(* Ingest: gate, drain, persist *)

Mine(r) == DOMAIN draft[r]

\* Slip: the gate claims every future there is.
AllFutures(r) == {n \in Novels : future[n]}
OwnFutures(r) == {n \in Mine(r) : future[n]}

\* await_all takes the futures of the round's novels off the list ...
Gate(r) ==
    /\ rpc[r] = "fetch" /\ ids[r] \subseteq Mine(r)
    /\ rpc' = [rpc EXCEPT ![r] = "gate"]
    /\ waits' = [waits EXCEPT ![r] = OwnFutures(r)]
    /\ future' = [n \in Novels |-> future[n] /\ n \notin OwnFutures(r)]
    /\ UNCHANGED <<row, diskVars, ids, draft, drained, task, taken, outcome,
                   sweepVars, historyVars, budgets>>

\* Slip: the drain takes every outcome there is.
AllOutcomes(r) == {n \in Novels : outcome[n] # "none"}
OwnOutcomes(r) == {n \in Mine(r) : outcome[n] # "none"}

\* ... and returns when all of them are finished; the outcomes are drained at
\* once, then the author names are fetched.
Drain(r) ==
    /\ rpc[r] = "gate" /\ waits[r] = {}
    /\ rpc' = [rpc EXCEPT ![r] = "names"]
    /\ drained' = [drained EXCEPT ![r] = [n \in OwnOutcomes(r) |-> outcome[n]]]
    /\ outcome' = [n \in Novels |-> IF n \in OwnOutcomes(r) THEN "none" ELSE outcome[n]]
    /\ UNCHANGED <<row, diskVars, ids, draft, waits, task, taken, future, sweepVars,
                   historyVars, budgets>>

Done(r) == {n \in DOMAIN drained[r] : drained[r][n] = "done"}

\* The upsert writes the draft's status; a new row without one gets the
\* column's default.
Upserted(r, n) ==
    IF n \notin Mine(r) THEN row[n]
    ELSE IF draft[r][n] # Keep THEN draft[r][n]
    ELSE IF row[n] = NoRow THEN "NO" ELSE row[n]

EndRound(r) ==
    /\ rpc' = [rpc EXCEPT ![r] = "idle"]
    /\ ids' = [ids EXCEPT ![r] = {}]
    /\ draft' = [draft EXCEPT ![r] = NoDrafts]
    /\ waits' = [waits EXCEPT ![r] = {}]
    /\ drained' = [drained EXCEPT ![r] = NoDrafts]
    /\ solo' = solo \cup {r}

\* One transaction: upsert first, then DONE for what the pipeline finished.
Persist(r) ==
    /\ rpc[r] = "names"
    /\ row' = [n \in Novels |-> IF n \in Done(r) /\ Upserted(r, n) # NoRow
                                THEN "DONE" ELSE Upserted(r, n)]
    /\ Touch(Mine(r))
    /\ EndRound(r)
    /\ UNCHANGED <<diskVars, loaderVars, sweepVars, budgets>>

\* The task fails, is cancelled or runs out of time.  A cancelled wait cancels
\* the future it is at (n), which drops a task no worker has started.
AbortRound(r, D) ==
    /\ ~Idle(r)
    /\ D \in {{}} \cup {{n} : n \in {m \in waits[r] : taken[m] = Keep}}
    /\ EndRound(r)
    /\ task' = [n \in Novels |-> IF n \in D THEN NoTask ELSE task[n]]
    /\ future' = [n \in Novels |-> future[n] /\ n \notin D]
    /\ UNCHANGED <<row, diskVars, taken, outcome, sweepVars, behind, budgets>>

----------------------------------------------------------------------------
(* The downloader's workers *)

\* download_image: a file that is there stays, a new one is renamed into place
\* whole or not at all.
Landed(n, landed) == pics[n] \/ landed

\* The images offered land or do not; then the builder reads the text.
WorkerReads(n, landed) ==
    /\ task[n] # NoTask /\ taken[n] = Keep
    /\ landed => task[n].offered
    /\ pics' = [pics EXCEPT ![n] = Landed(n, landed)]
    /\ taken' = [taken EXCEPT ![n] = text[n]]
    /\ Touch(IF landed THEN {n} ELSE {})
    /\ UNCHANGED <<row, text, book, old, roundVars, task, future, outcome, sweepVars,
                   solo, budgets>>

\* _replace_image_placeholders over _build_image_map: a marker becomes its
\* image, or a box when the image is not on disk.
BookKind(n) == IF taken[n] \in Marked /\ pics[n] THEN "full" ELSE "boxed"

\* create_epub
NewBook(n) == [of |-> taken[n], kind |-> BookKind(n)]

\* Slip: whatever the builder has written is a finished book.
BuilderVerdict(n) == "done"
\* What is reported of a new book: without images offered nothing is, and the
\* row is left to the sweep.
BookVerdict(n) ==
    IF NewBook(n).kind = "full" THEN "done"
    ELSE IF task[n].offered THEN "failed" ELSE outcome[n]

\* Outcome w is recorded, the future is finished, the novel leaves flight.
Report(n, w) ==
    /\ outcome' = [outcome EXCEPT ![n] = w]
    /\ task' = [task EXCEPT ![n] = NoTask]
    /\ taken' = [taken EXCEPT ![n] = Keep]
    /\ future' = [future EXCEPT ![n] = FALSE]
    /\ waits' = [r \in Rounds |-> waits[r] \ {n}]
    /\ UNCHANGED <<row, text, old, rpc, ids, draft, drained, sweepVars, solo,
                   rounds>>

\* A plain body: the builder writes nothing, the images are removed.
WorkerSkips(n) ==
    /\ task[n] # NoTask /\ taken[n] # Keep /\ task[n].body \notin Marked
    /\ pics' = [pics EXCEPT ![n] = @ /\ ~task[n].offered]
    /\ Report(n, "skipped")
    /\ Touch({n})
    /\ UNCHANGED <<book, faults>>

\* The images are removed once the book is full.
WorkerBuilds(n) ==
    /\ task[n] # NoTask /\ taken[n] # Keep /\ task[n].body \in Marked
    /\ book' = [book EXCEPT ![n] = NewBook(n)]
    /\ pics' = [pics EXCEPT ![n] = @ /\ ~(task[n].offered /\ NewBook(n).kind = "full")]
    /\ Report(n, BookVerdict(n))
    /\ Touch({n})
    /\ UNCHANGED faults

\* create_epub fails, or the task raises; images and the old book stay.
WorkerFails(n) ==
    /\ task[n] # NoTask /\ taken[n] # Keep /\ faults < MaxFaults
    /\ Report(n, "failed")
    /\ faults' = faults + 1
    /\ UNCHANGED <<book, pics, behind>>

----------------------------------------------------------------------------
(* check_epub *)

SweepReads ==
    /\ spc = "idle"
    /\ spc' = "judging"
    /\ seen' = row
    /\ verdict' = [n \in Novels |-> Keep]
    /\ behind' = {}
    /\ UNCHANGED <<row, diskVars, roundVars, loaderVars, solo, budgets>>

\* _no_images_ever_and_stale
GivenUp(n) == old[n] /\ ~pics[n] /\ ~(book[n] # NoBook /\ book[n].kind = "raw")

Plain(n, unread) == ~unread /\ text[n] \notin Marked

JudgeDone(n, unread) ==
    IF book[n] = NoBook THEN "PENDING"
    ELSE IF Full(n) THEN Keep
    ELSE IF Plain(n, unread) THEN "NO_IMAGES"
    ELSE IF ~unread /\ GivenUp(n) THEN "NO_IMAGES"
    ELSE "PENDING"

\* Slip: giving up is considered before the book is looked at.
JudgePendingStale(n, unread) ==
    IF Plain(n, unread) \/ GivenUp(n) THEN "NO_IMAGES"
    ELSE IF ~unread /\ Full(n) THEN "DONE"
    ELSE Keep
JudgePending(n, unread) ==
    IF Plain(n, unread) THEN "NO_IMAGES"
    ELSE IF book[n] = NoBook THEN (IF GivenUp(n) THEN "NO_IMAGES" ELSE Keep)
    ELSE IF unread THEN Keep
    ELSE IF Full(n) THEN "DONE"
    ELSE IF GivenUp(n) THEN "NO_IMAGES" ELSE Keep

\* NO, and MISSING_SOURCE whose text has come back.
JudgeUnclassified(n, unread) ==
    IF unread THEN Keep
    ELSE IF Plain(n, unread) THEN "NO_IMAGES"
    ELSE IF Full(n) THEN "DONE" ELSE "PENDING"

\* Slip: a terminal row is not looked at again.
JudgeTerminal(n) == Keep
JudgeNoImages(n) == IF Full(n) THEN "DONE" ELSE Keep

\* _sweep for a row that was read with status s.
Judge(n, s, unread) ==
    IF text[n] = NoText THEN (IF s = "MISSING_SOURCE" THEN Keep ELSE "MISSING_SOURCE")
    ELSE CASE s = "DONE"      -> JudgeDone(n, unread)
           [] s = "NO_IMAGES" -> JudgeNoImages(n)
           [] s = "PENDING"   -> JudgePending(n, unread)
           [] OTHER           -> JudgeUnclassified(n, unread)

\* The files of one row are read; reading the text may fail.
SweepJudges(n, unread) ==
    /\ spc = "judging" /\ seen[n] # NoRow
    /\ unread => text[n] # NoText /\ faults < MaxFaults
    /\ verdict' = [verdict EXCEPT ![n] = Judge(n, seen[n], unread)]
    /\ seen' = [seen EXCEPT ![n] = NoRow]
    /\ faults' = faults + (IF unread THEN 1 ELSE 0)
    /\ UNCHANGED <<row, diskVars, roundVars, loaderVars, spc, historyVars, rounds>>

\* _flush: the verdicts are written, whatever the rows hold by now.
SweepApplies ==
    /\ spc = "judging" /\ \A n \in Novels : seen[n] = NoRow
    /\ spc' = "idle"
    /\ row' = [n \in Novels |-> IF verdict[n] = Keep THEN row[n] ELSE verdict[n]]
    /\ verdict' = [n \in Novels |-> Keep]
    /\ behind' = {}
    /\ UNCHANGED <<diskVars, roundVars, loaderVars, seen, solo, budgets>>

----------------------------------------------------------------------------
(* Time, and the process *)

\* _STALE_DAYS without a rewrite.
Age(n) ==
    /\ text[n] # NoText /\ ~old[n]
    /\ old' = [old EXCEPT ![n] = TRUE]
    /\ UNCHANGED <<row, text, book, pics, roundVars, loaderVars, sweepVars,
                   historyVars, budgets>>

Crash ==
    /\ faults < MaxFaults
    /\ faults' = faults + 1
    /\ rpc' = [r \in Rounds |-> "idle"]
    /\ ids' = [r \in Rounds |-> {}]
    /\ draft' = [r \in Rounds |-> NoDrafts]
    /\ waits' = [r \in Rounds |-> {}]
    /\ drained' = [r \in Rounds |-> NoDrafts]
    /\ task' = [n \in Novels |-> NoTask]
    /\ taken' = [n \in Novels |-> Keep]
    /\ future' = [n \in Novels |-> FALSE]
    /\ outcome' = [n \in Novels |-> "none"]
    /\ spc' = "idle"
    /\ seen' = [n \in Novels |-> NoRow]
    /\ verdict' = [n \in Novels |-> Keep]
    /\ solo' = Rounds /\ behind' = {}
    /\ UNCHANGED <<row, diskVars, rounds>>

RoundStep(r) ==
    \/ \E n \in Novels, b \in Bodies \cup {NoText}, o, redownload \in BOOLEAN :
          Fetch(r, n, b, o, redownload)
    \/ \E n \in Novels : FetchFails(r, n)
    \/ Gate(r) \/ Drain(r) \/ Persist(r)

WorkerStep(n) ==
    \/ \E landed \in BOOLEAN : WorkerReads(n, landed)
    \/ WorkerSkips(n) \/ WorkerBuilds(n) \/ WorkerFails(n)

SweepStep ==
    \/ SweepReads
    \/ \E n \in Novels, unread \in BOOLEAN : SweepJudges(n, unread)
    \/ SweepApplies

Next ==
    \/ \E r \in Rounds, S \in SUBSET Novels : StartRound(r, S)
    \/ \E r \in Rounds : RoundStep(r)
    \/ \E r \in Rounds, D \in SUBSET Novels : AbortRound(r, D)
    \/ \E n \in Novels : WorkerStep(n) \/ Age(n)
    \/ SweepStep
    \/ Crash

Spec == Init /\ [][Next]_vars

\* Rounds and workers run to their end, and check_epub runs again and again
\* (it is a cron job).
FairSpec ==
    /\ Spec
    /\ \A r \in Rounds : WF_vars(RoundStep(r))
    /\ \A n \in Novels : WF_vars(WorkerStep(n))
    /\ WF_vars(SweepStep)

----------------------------------------------------------------------------
(* Properties *)

TypeOK ==
    /\ row \in [Novels -> EpubStatus \cup {NoRow}]
    /\ text \in [Novels -> Bodies \cup {NoText}]
    /\ book \in [Novels -> Books \cup {NoBook}]
    /\ pics \in [Novels -> BOOLEAN] /\ old \in [Novels -> BOOLEAN]
    /\ rpc \in [Rounds -> {"idle", "fetch", "gate", "names"}]
    /\ ids \in [Rounds -> SUBSET Novels]
    /\ waits \in [Rounds -> SUBSET Novels]
    /\ DOMAIN draft = Rounds /\ DOMAIN drained = Rounds
    /\ \A r \in Rounds :
          /\ draft[r] \in [Mine(r) -> EpubStatus \cup {Keep}] /\ Mine(r) \subseteq ids[r]
          /\ drained[r] \in [DOMAIN drained[r] -> Outcomes]
          /\ DOMAIN drained[r] \subseteq Mine(r)
    /\ task \in [Novels -> Tasks \cup {NoTask}]
    /\ taken \in [Novels -> Bodies \cup {NoText, Keep}]
    /\ future \in [Novels -> BOOLEAN] /\ \A n \in Novels : future[n] => task[n] # NoTask
    /\ outcome \in [Novels -> Outcomes \cup {"none"}]
    /\ spc \in {"idle", "judging"}
    /\ seen \in [Novels -> EpubStatus \cup {NoRow}]
    /\ verdict \in [Novels -> EpubStatus \cup {Keep}]
    /\ solo \subseteq Rounds /\ behind \subseteq Novels

\* ingest's gate and await_all(ids): a round that shares its novels with no
\* other persists them only when their assets are finished, whatever rounds
\* over other novels do with the shared downloader.
SoloRoundWaits ==
    [][\A r \in solo : Persist(r) => \A n \in Mine(r) : task[n] = NoTask]_vars

\* drain_outcomes(ids) and the persist transaction: a round that has rewritten
\* a text whose book is finished marks it DONE, unless its build was reported
\* failed ("done but not marked" was the bug this path was built against).
FinishedIsMarked ==
    [][\A r \in solo : Persist(r) =>
          \A n \in Mine(r) : draft[r][n] = "PENDING" /\ Full(n) =>
              \/ row'[n] = "DONE"
              \/ n \in DOMAIN drained[r] /\ drained[r][n] = "failed"]_vars

\* The downloader's verdict: a round that has rewritten a text with images does
\* not mark DONE a book without them.  (A response without text does bless an
\* old book, whatever it holds; the sweep takes that back.)
MarkedIsFinished ==
    [][\A r \in solo : Persist(r) =>
          \A n \in Done(r) : draft[r][n] = "PENDING" => Full(n)]_vars

\* The sweep's order of questions: a row whose files did not change while it
\* ran keeps its state or is promoted when its book is finished; a finished
\* book is never given up or queued again.
FinishedIsSpared ==
    [][SweepApplies => \A n \in Novels \ behind :
          text[n] \in Marked /\ Full(n) => row'[n] \in {row[n], "DONE"}]_vars

\* The column and the files in the end: once the downloads stop, every row is
\* classified and DONE is said of exactly the finished books, whatever races,
\* crashes and failures went before.
Agreed(n) == row[n] # NoRow =>
    /\ row[n] # "NO"
    /\ row[n] = "DONE" <=> text[n] # NoText /\ Full(n)
Converges == <>[](\A n \in Novels : Agreed(n))

\* ingest.py: "the write transaction only sees novels whose files are actually
\* on disk (no 'downloaded but EPUB not ready yet' race)".  A round that finds
\* its novel in flight, or its future claimed by another round, does not wait.
GateHolds ==
    [][\A r \in Rounds : Persist(r) => \A n \in Mine(r) : task[n] = NoTask]_vars

\* download_novel.py: "a body that did not change must not trigger an EPUB
\* rebuild (the old build already matches the file)".  A build that fails or
\* never runs leaves the finished book of the previous text, and every later
\* fetch of the same text reports that book done.
OldBuildMatches ==
    [][\A r \in Rounds, n \in Novels, b \in Marked, o \in BOOLEAN :
          Fetch(r, n, b, o, FALSE) /\ text[n] = b /\ task[n] = NoTask /\ Full(n)
              => book[n].of = b]_vars

\* epub.py: "missing or unreadable text must never be turned into a terminal
\* state".  A PENDING row without a book is given up unread.
UnreadIsNotTerminal ==
    [][\A n \in Novels : SweepJudges(n, TRUE) => verdict'[n] # "NO_IMAGES"]_vars

=============================================================================
