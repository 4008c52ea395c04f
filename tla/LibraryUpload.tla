--------------------------- MODULE LibraryUpload ---------------------------
(***************************************************************************)
(* POST /library/uploads: a batch of TXT and EPUB files becomes local      *)
(* novels (features/library/api.py, ingest.py, local_axis.py), in one      *)
(* write transaction, while fetch rounds commit Pixiv novels and tasks     *)
(* delete novels and authors in transactions of their own.                 *)
(*                                                                         *)
(* A local novel has the id -c, c its coordinate on the axis of Pixiv ids: *)
(* the next value of a sequence that is pushed past the newest Pixiv id    *)
(* when it has fallen behind.  Sequences keep no part in a rollback.  A    *)
(* body stands for the fingerprint of its normalised text.  Titles and     *)
(* names are left out, decoding is the payload's outcome.                  *)
(*                                                                         *)
(* The handler never awaits inside its transaction, so that in the one     *)
(* process that is deployed two uploads follow each other; the advisory    *)
(* lock is what keeps them apart when they come from two processes, and    *)
(* the model lets them interleave.                                         *)
(***************************************************************************)
EXTENDS Integers, Sequences, FiniteSets

CONSTANTS
    Uploads,      \* requests that can be under way at once
    Bodies,       \* texts
    NoBody,       \* what an undecodable or empty file yields
    Batches,      \* the sequences of payloads that are uploaded
    MaxWater,     \* bound on the Pixiv ids
    MaxBegun,     \* bound on the uploads of a behaviour
    MaxStripped,  \* bound on the novels whose files go before their row
    Seed,         \* seed_coord: the coordinate of now when no Pixiv row exists
    NoOne         \* the advisory lock is free

Payload == [body : Bodies \cup {NoBody}, epub : BOOLEAN]

ASSUME UploadAssumption ==
    /\ Batches \subseteq Seq(Payload)
    /\ MaxWater \in Nat /\ MaxBegun \in Nat /\ MaxStripped \in Nat /\ Seed \in Nat \ {0}
    /\ NoOne \notin Uploads /\ NoBody \notin Bodies

VARIABLES
    rows,       \* committed local novels
    files,      \* <<coordinate, format>> of the files on disk
    author,     \* the preset author has a row
    water,      \* the largest Pixiv id in the library, 0 when there is none
    seq,        \* novel_local_coord_seq: the value nextval returns next
    lock,       \* holder of pg_advisory_xact_lock
    up,         \* upload -> its progress
    unlinking,  \* coordinates of deleted rows whose files are still to go
    leaving,    \* DELETE requests that have not committed: their coordinates
    stripped,   \* history: coordinates whose files such a request has deleted
    top,        \* history: the largest coordinate any file has been given
    begun       \* uploads begun so far, at most MaxBegun

deleteVars == <<unlinking, leaving, stripped>>
vars == <<rows, files, author, water, seq, lock, up, deleteVars, top, begun>>

\* A novel: its coordinate, its text, whether it hangs under the preset
\* author, and has_epub = DONE.
Row == [coord : Nat, body : Bodies, authored : BOOLEAN, epub : BOOLEAN]

Phases == {"idle", "resolve", "open", "file", "preset", "attach", "floor",
           "next", "setval", "again", "write", "insert"}

Upload == [phase : Phases, left : Seq(Payload), preset : BOOLEAN,
           placed : BOOLEAN, target : Nat, saw : Nat, floor : Nat, coord : Nat,
           made : SUBSET Row, patched : SUBSET Row]

NoUpload == [phase |-> "idle", left |-> <<>>, preset |-> FALSE,
             placed |-> FALSE, target |-> 0, saw |-> 0, floor |-> 0,
             coord |-> 0, made |-> {}, patched |-> {}]

At(u, phase) == up[u].phase = phase
File(u) == Head(up[u].left)

\* Rows as transaction u sees them: its own writes over what is committed.
Patched(S, P) == {r \in S : \A p \in P : p.coord # r.coord} \cup P
Seen(u) == Patched(rows, up[u].patched) \cup up[u].made

\* Rows that an open transaction has written, and so locked.
LockedCoords == UNION {{r.coord : r \in up[u].patched} : u \in Uploads} \cup UNION leaving

\* Files of one novel on disk.
Formats == {"txt", "epub"}
FilesOf(c) == {c} \X Formats

-----------------------------------------------------------------------------
(* The request: resolve the author first, then the write transaction.      *)

Begin(u, batch, preset) ==
    /\ At(u, "idle")
    /\ begun < MaxBegun
    /\ begun' = begun + 1
    /\ up' = [up EXCEPT ![u] =
                [NoUpload EXCEPT !.phase = IF preset THEN "resolve" ELSE "open",
                                 !.left = batch, !.preset = preset]]
    /\ UNCHANGED <<rows, files, author, water, seq, lock, deleteVars, top>>

\* lookup_author_profile and ensure_exists, committed before any lock is held.
ResolveAuthor(u) ==
    /\ At(u, "resolve")
    /\ author' = TRUE
    /\ up' = [up EXCEPT ![u].phase = "open"]
    /\ UNCHANGED <<rows, files, water, seq, lock, deleteVars, top, begun>>

\* The write transaction begins, with ensure_exists once more: the row of an
\* author deleted meanwhile is inserted and not yet committed.
Open(u) ==
    /\ At(u, "open")
    /\ up' = [up EXCEPT ![u].phase = "file", ![u].placed = up[u].preset /\ ~author]
    /\ UNCHANGED <<rows, files, author, water, seq, lock, deleteVars, top, begun>>

\* An error outside the savepoint aborts the transaction of the whole batch.
\* What is on disk stays there.
Abort(u) ==
    /\ up' = [up EXCEPT ![u] = NoUpload]
    /\ lock' = IF lock = u THEN NoOne ELSE lock

\* The entry has its result; on to the next one.
NextFile(R) == [R EXCEPT !.phase = "file", !.left = Tail(@), !.target = 0,
                         !.saw = 0, !.floor = 0, !.coord = 0]

\* decode_txt and read_epub find a text in the file.
Readable(f) == f.body # NoBody

\* parse_upload refuses the file, or normalisation leaves no text.
Unreadable(u) ==
    /\ At(u, "file")
    /\ up[u].left # <<>>
    /\ ~Readable(File(u))
    /\ up' = [up EXCEPT ![u] = NextFile(@)]
    /\ UNCHANGED <<rows, files, author, water, seq, lock, deleteVars, top, begun>>

\* Slip: no lock is taken.
MayEnterUnlocked(u) == TRUE

\* _lock_local_ids: taken with the first readable file, kept to the end.
MayEnter(u) == lock \in {u, NoOne}

\* _find_local_duplicate: a row with the same text goes its own way, if there
\* is anything to do to it.
Precheck(u) ==
    LET same == {r \in Seen(u) : r.body = File(u).body} IN
    /\ At(u, "file")
    /\ up[u].left # <<>>
    /\ Readable(File(u))
    /\ MayEnter(u)
    /\ lock' = u
    /\ up' = [up EXCEPT ![u] =
                IF same = {} THEN [@ EXCEPT !.phase = "floor"]
                ELSE IF up[u].preset \/ File(u).epub
                  THEN [@ EXCEPT !.phase = "preset",
                                 !.target = (CHOOSE r \in same : TRUE).coord]
                ELSE NextFile(@)]
    /\ UNCHANGED <<rows, files, author, water, seq, deleteVars, top, begun>>

-----------------------------------------------------------------------------
(* A duplicate: the preset author, and the EPUB the row does not have yet. *)

Target(u) == {r \in Seen(u) : r.coord = up[u].target}

\* The transaction writes its own version of row r.
Patch(R, r) ==
    IF \E m \in R.made : m.coord = r.coord
      THEN [R EXCEPT !.made = Patched(@, {r})]
      ELSE [R EXCEPT !.patched = Patched(@, {r})]

AuthorThere(u) == author \/ up[u].placed

\* A row that a DELETE request has deleted cannot be written before it ends.
Unlocked(r) == r.coord \notin UNION leaving

\* _apply_preset_to_duplicate: the row may have gone since the precheck; an
\* author who has gone fails the foreign key of the flush.
ApplyPreset(u) ==
    /\ At(u, "preset")
    /\ IF Target(u) = {}
         THEN up' = [up EXCEPT ![u] = NextFile(@)] /\ UNCHANGED lock
       ELSE IF ~up[u].preset \/ \A r \in Target(u) : r.authored
         THEN up' = [up EXCEPT ![u].phase = "attach"] /\ UNCHANGED lock
       ELSE IF ~AuthorThere(u) THEN Abort(u)
       ELSE \E r \in Target(u) :
              /\ Unlocked(r)
              /\ up' = [up EXCEPT ![u] = [Patch(@, [r EXCEPT !.authored = TRUE])
                                            EXCEPT !.phase = "attach"]]
              /\ UNCHANGED lock
    /\ UNCHANGED <<rows, files, author, water, seq, deleteVars, top, begun>>

\* Slip: the row is marked whether or not the file was written.
AttachedEpub(written, r) == [r EXCEPT !.epub = TRUE]

\* has_epub becomes DONE when the file is there.
AttachEpub(written, r) == [r EXCEPT !.epub = written \/ @]

\* _attach_epub_to_existing: the file first, the row after it.  A row deleted
\* since it was loaded makes the flush fail.
Attach(u, written) ==
    LET file == <<up[u].target, "epub">>
        due == File(u).epub /\ ~(file \in files /\ \E r \in Target(u) : r.epub)
    IN
    /\ At(u, "attach")
    /\ files' = IF due /\ written THEN files \cup {file} ELSE files
    /\ IF ~due THEN up' = [up EXCEPT ![u] = NextFile(@)] /\ UNCHANGED lock
       ELSE IF Target(u) = {}
         THEN IF written THEN Abort(u)
              ELSE up' = [up EXCEPT ![u] = NextFile(@)] /\ UNCHANGED lock
       ELSE \E r \in Target(u) :
              /\ Unlocked(r) \/ AttachEpub(written, r) = r
              /\ up' = [up EXCEPT ![u] = NextFile(
                          IF AttachEpub(written, r) = r THEN @
                          ELSE Patch(@, AttachEpub(written, r)))]
              /\ UNCHANGED lock
    /\ UNCHANGED <<rows, author, water, seq, deleteVars, top, begun>>

\* lock_timeout: another upload keeps the advisory lock, or another
\* transaction (a delete or an edit in a worker thread, whose commit waits for
\* the event loop this handler occupies) keeps the duplicate's row.
LockTimeout(u) ==
    /\ \/ /\ At(u, "file")
          /\ up[u].left # <<>>
          /\ Readable(File(u))
          /\ lock \notin {u, NoOne}
       \/ /\ At(u, "preset") \/ At(u, "attach")
          /\ Target(u) \cap rows # {}
    /\ Abort(u)
    /\ UNCHANGED <<rows, files, author, water, seq, deleteVars, top, begun>>

-----------------------------------------------------------------------------
(* A new text: a coordinate, the files, the row.                           *)

\* pixiv_watermark + 1, or the seed.
Floor == IF water = 0 THEN Seed ELSE water + 1

ReadFloor(u) ==
    /\ At(u, "floor")
    /\ up' = [up EXCEPT ![u].phase = "next", ![u].saw = water, ![u].floor = Floor]
    /\ UNCHANGED <<rows, files, author, water, seq, lock, deleteVars, top, begun>>

\* Slip: the sequence is set to the floor whenever it differs, back as well.
BehindOrAhead(c, floor) == c # floor

Behind(c, floor) == c < floor

\* A file is given its coordinate.
Draw(u, c) ==
    /\ up' = [up EXCEPT ![u].phase = "write", ![u].coord = c]
    /\ top' = IF c > top THEN c ELSE top

NextVal(u) ==
    /\ At(u, "next")
    /\ seq' = seq + 1
    /\ IF Behind(seq, up[u].floor)
         THEN up' = [up EXCEPT ![u].phase = "setval"] /\ UNCHANGED top
         ELSE Draw(u, seq)
    /\ UNCHANGED <<rows, files, author, water, lock, deleteVars, begun>>

\* setval(floor, false): the next value is the floor.
SetVal(u) ==
    /\ At(u, "setval")
    /\ seq' = up[u].floor
    /\ up' = [up EXCEPT ![u].phase = "again"]
    /\ UNCHANGED <<rows, files, author, water, lock, deleteVars, top, begun>>

NextValAgain(u) ==
    /\ At(u, "again")
    /\ seq' = seq + 1
    /\ Draw(u, seq)
    /\ UNCHANGED <<rows, files, author, water, lock, deleteVars, begun>>

\* The text, and the original of an EPUB; an OSError takes back both.
WriteFiles(u, ok) ==
    /\ At(u, "write")
    /\ files' = IF ok THEN files \cup ({up[u].coord} \X (IF File(u).epub THEN Formats
                                                         ELSE {"txt"}))
                ELSE files \ FilesOf(up[u].coord)
    /\ up' = [up EXCEPT ![u] = IF ok THEN [@ EXCEPT !.phase = "insert"] ELSE NextFile(@)]
    /\ UNCHANGED <<rows, author, water, seq, lock, deleteVars, top, begun>>

\* The id or the text of the file at hand has a row already.
Clash(u) == \E r \in Seen(u) : r.coord = up[u].coord \/ r.body = File(u).body

\* The savepoint: an IntegrityError costs this file alone.
InsertRow(u) ==
    /\ At(u, "insert")
    /\ IF Clash(u) \/ (up[u].preset /\ ~AuthorThere(u))
         THEN /\ files' = files \ FilesOf(up[u].coord)
              /\ up' = [up EXCEPT ![u] = NextFile(@)]
         ELSE /\ up' = [up EXCEPT ![u] = NextFile(
                          [@ EXCEPT !.made = up[u].made \cup
                             {[coord |-> up[u].coord, body |-> File(u).body,
                               authored |-> up[u].preset, epub |-> File(u).epub]}])]
              /\ UNCHANGED files
    /\ UNCHANGED <<rows, author, water, seq, lock, deleteVars, top, begun>>

Commit(u) ==
    /\ At(u, "file")
    /\ up[u].left = <<>>
    /\ rows' = Seen(u)
    /\ author' = AuthorThere(u)
    /\ Abort(u)
    /\ UNCHANGED <<files, water, seq, deleteVars, top, begun>>

-----------------------------------------------------------------------------
(* The others.                                                             *)

\* A fetch round commits a newer Pixiv novel.
FetchCommits ==
    /\ water < MaxWater
    /\ water' = water + 1
    /\ UNCHANGED <<rows, files, author, seq, lock, up, deleteVars, top, begun>>

\* The batch task: delete_many commits; the files go after it.
DeleteRow(r) ==
    /\ r \in rows
    /\ r.coord \notin LockedCoords
    /\ rows' = rows \ {r}
    /\ unlinking' = unlinking \cup {r.coord}
    /\ UNCHANGED <<files, author, water, seq, lock, up, leaving, stripped, top, begun>>

UnlinkFiles(c) ==
    /\ c \in unlinking
    /\ unlinking' = unlinking \ {c}
    /\ files' = files \ FilesOf(c)
    /\ UNCHANGED <<rows, author, water, seq, lock, up, leaving, stripped, top, begun>>

\* DELETE /novels/{id}, POST /novels/batch: the handler deletes the rows and
\* their files; the transaction is the request's and is still open.
DeleteRequest(D) ==
    /\ D # {}
    /\ D \subseteq {r.coord : r \in rows} \ LockedCoords
    /\ Cardinality(stripped \cup D) <= MaxStripped
    /\ leaving' = leaving \cup {D}
    /\ stripped' = stripped \cup D
    /\ files' = {f \in files : f[1] \notin D}
    /\ UNCHANGED <<rows, author, water, seq, lock, up, unlinking, top, begun>>

DeleteCommits(D) ==
    /\ leaving' = leaving \ {D}
    /\ rows' = {r \in rows : r.coord \notin D}
    /\ UNCHANGED <<files, author, water, seq, lock, up, unlinking, stripped, top, begun>>

\* The commit of the request fails: the rows stay, without their files.
DeleteFails(D) ==
    /\ leaving' = leaving \ {D}
    /\ UNCHANGED <<rows, files, author, water, seq, lock, up, unlinking, stripped,
                   top, begun>>

\* author_delete: his novels and his row, no files; a foreign key that an
\* open transaction has checked holds it up.
DeleteAuthor ==
    /\ author
    /\ \A u \in Uploads : \A r \in up[u].made \cup up[u].patched : ~r.authored
    /\ \A r \in rows : r.authored => r.coord \notin LockedCoords
    /\ author' = FALSE
    /\ rows' = {r \in rows : ~r.authored}
    /\ UNCHANGED <<files, water, seq, lock, up, deleteVars, top, begun>>

\* The process dies or the connection is lost.
Crash ==
    /\ unlinking # {} \/ leaving # {} \/ \E u \in Uploads : ~At(u, "idle")
    /\ up' = [u \in Uploads |-> NoUpload]
    /\ lock' = NoOne
    /\ unlinking' = {}
    /\ leaving' = {}
    /\ UNCHANGED <<rows, files, author, water, seq, stripped, top, begun>>

-----------------------------------------------------------------------------
Init ==
    /\ rows = {} /\ files = {}
    /\ author \in BOOLEAN
    /\ water = 0 /\ seq = 1 /\ top = 0 /\ begun = 0
    /\ lock = NoOne
    /\ up = [u \in Uploads |-> NoUpload]
    /\ unlinking = {} /\ leaving = {} /\ stripped = {}

Step(u) ==
    \/ ResolveAuthor(u) \/ Open(u) \/ Unreadable(u) \/ Precheck(u)
    \/ ApplyPreset(u) \/ ReadFloor(u) \/ NextVal(u) \/ SetVal(u)
    \/ NextValAgain(u) \/ InsertRow(u) \/ Commit(u) \/ LockTimeout(u)
    \/ \E ok \in BOOLEAN : Attach(u, ok) \/ WriteFiles(u, ok)

Next ==
    \/ \E u \in Uploads :
         \/ \E b \in Batches, p \in BOOLEAN : Begin(u, b, p)
         \/ Step(u)
    \/ FetchCommits \/ DeleteAuthor \/ Crash
    \/ \E r \in rows : DeleteRow(r)
    \/ \E c \in unlinking : UnlinkFiles(c)
    \/ \E D \in SUBSET {r.coord : r \in rows} : DeleteRequest(D)
    \/ \E D \in leaving : DeleteCommits(D) \/ DeleteFails(D)

Spec == Init /\ [][Next]_vars

-----------------------------------------------------------------------------
TypeOK ==
    /\ rows \subseteq Row
    /\ files \subseteq Nat \X Formats
    /\ author \in BOOLEAN
    /\ water \in 0..MaxWater
    /\ seq \in Nat \ {0} /\ top \in Nat /\ begun \in 0..MaxBegun
    /\ lock \in Uploads \cup {NoOne}
    /\ up \in [Uploads -> Upload]
    /\ unlinking \subseteq Nat /\ stripped \subseteq Nat
    /\ leaving \subseteq SUBSET stripped

\* local_axis.py: coordinates climb and are never given twice, whatever is
\* rolled back, deleted or crashed in between, and lie past the newest Pixiv
\* id the upload has seen.
CoordsClimb ==
    [][\A u \in Uploads :
         ~At(u, "write") /\ up'[u].phase = "write" =>
            /\ up'[u].coord > top
            /\ up'[u].coord > up'[u].saw]_vars

\* _lock_local_ids with the precheck: at its insert a file's id and text are
\* free, so that the unique indexes never refuse an upload.
InsertNeverClashes == \A u \in Uploads : At(u, "insert") => ~Clash(u)

\* A committed local novel has its text on disk, and its EPUB when it says so,
\* through repeated texts, failed writes, aborts, crashes and the batch task's
\* deletes.  Only a DELETE request may have taken its files before the row:
\* while it has not committed, and for good when its commit fails.
RowHasItsFiles ==
    \A r \in rows : r.coord \notin stripped =>
        /\ <<r.coord, "txt">> \in files
        /\ r.epub => <<r.coord, "epub">> \in files

\* ingest_uploads: "one entry that fails does not affect the others" -- no
\* abort of an upload takes back what its other files have done.  A duplicate
\* whose row or author has gone fails outside the savepoint: violated.
FailureStaysWithItsFile ==
    [][\A u \in Uploads :
         /\ ApplyPreset(u) \/ LockTimeout(u) \/ \E ok \in BOOLEAN : Attach(u, ok)
         /\ up[u].made \cup up[u].patched # {}
         => up'[u].phase # "idle"]_vars
=============================================================================
