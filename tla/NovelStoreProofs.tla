-------------------------- MODULE NovelStoreProofs --------------------------
(***************************************************************************)
(* What a dated author and a written count promise, for any novels,        *)
(* authors, rounds and bounds.                                             *)
(***************************************************************************)
EXTENDS NovelStore, FiniteSetTheorems, TLAPS

\* Novels that have been dealt with: they have a row, or the user removed
\* them, or their failure is on record.
Kept == rows \cup cleared
Done == Kept \cup {n \in Novels : ledger[n] # NoEntry}

Drafts(R)       == R.meta \cup R.got
DraftAuthors(R) == {AuthorOf(n) : n \in Drafts(R)}

\* A round of author_fetch passes over none of the author's works: they wait,
\* are in hand, have failed in it, or are done.
AuthorRoundOK(R, done) ==
    R.kind = "author" =>
      /\ R.phase # "idle" => \E a \in Authors : R.want = Works(a)
      /\ R.phase \notin {"idle", "mark"} =>
           R.want \subseteq R.todo \cup Drafts(R) \cup R.failed \cup done
      /\ R.phase = "mark" => R.want \subseteq done

\* What the transaction has read and written covers its drafts, but for the
\* novels the user has removed since.
DraftsOK(R, kept) ==
    /\ Drafts(R) \subseteq R.want /\ R.todo \subseteq R.want
    /\ R.phase \notin {"idle", "fetch"} => R.todo = {}
    /\ R.phase = "mark" => R.kind = "author"
    /\ R.phase = "write" => R.seen \subseteq Drafts(R) /\ R.seen \subseteq kept
    /\ R.phase \in {"sum", "end"} => Drafts(R) \subseteq R.held \cup kept

\* A round over whose novels nobody else has committed.
AloneOK(R, rs) ==
    ~R.overrun =>
      /\ R.phase = "write" => R.seen \subseteq rs
      /\ R.phase \in {"sum", "end"} => Drafts(R) \subseteq R.held \cup rs
      /\ R.phase = "end" =>
           \A a \in DraftAuthors(R) :
             R.counted[a] = Cardinality((rs \cup R.held) \cap Works(a))

RoundOK(R, rs, kept, done) ==
    AuthorRoundOK(R, done) /\ DraftsOK(R, kept) /\ AloneOK(R, rs)

IndInv == /\ TypeOK /\ DatedMeansHandled
          /\ \A r \in Rounds : RoundOK(round[r], rows, Kept, Done)
----------------------------------------------------------------------------
(* Rounds and the steps of others *)

LEMMA CountIsNat ==
    ASSUME NEW S, NEW a
    PROVE  /\ IsFiniteSet(S \cap Works(a)) /\ Cardinality(S \cap Works(a)) \in Nat
           /\ S \cap Works(a) # {} => Cardinality(S \cap Works(a)) # 0
<1>1. S \cap Works(a) \in SUBSET Novels
  BY DEF Works
<1>2. IsFiniteSet(S \cap Works(a))
  BY <1>1, NovelAssumption, FS_Subset
<1>3. QED
  BY <1>2, FS_CardinalityType, FS_EmptySet

LEMMA NoRoundOK ==
    ASSUME NEW rs, NEW kept, NEW done
    PROVE  NoRound \in Round /\ RoundOK(NoRound, rs, kept, done)
<1>1. NoRound \in Round
  BY BoundsAssumption DEF NoRound, Round, Phases
<1>2. RoundOK(NoRound, rs, kept, done)
  BY DEF NoRound, RoundOK, AuthorRoundOK, DraftsOK, AloneOK, Drafts
<1>3. QED
  BY <1>1, <1>2

\* A round stays sound while others commit, when it is marked as overrun by
\* those who remove or add what it relies on.
LEMMA RoundPersists ==
    ASSUME NEW R \in Round, NEW b \in BOOLEAN, R.overrun => b,
           NEW rs, NEW kept, NEW done, RoundOK(R, rs, kept, done),
           NEW rs2, NEW kept2, NEW done2, kept \subseteq kept2, done \subseteq done2,
           ~b => /\ R.phase # "idle" => R.want \cap rs \subseteq rs2
                 /\ R.phase = "end" =>
                      \A a \in DraftAuthors(R) : rs2 \cap Works(a) = rs \cap Works(a)
    PROVE  RoundOK([R EXCEPT !.overrun = b], rs2, kept2, done2)
<1> DEFINE Q == [R EXCEPT !.overrun = b]
<1>1. /\ Q.phase = R.phase /\ Q.kind = R.kind /\ Q.want = R.want /\ Q.meta = R.meta
      /\ Q.todo = R.todo /\ Q.got = R.got /\ Q.failed = R.failed /\ Q.seen = R.seen
      /\ Q.held = R.held /\ Q.counted = R.counted /\ Q.overrun = b
  BY DEF Round
<1> HIDE DEF Q
<1>2. Drafts(Q) = Drafts(R) /\ DraftAuthors(Q) = DraftAuthors(R)
  BY <1>1 DEF Drafts, DraftAuthors
<1>3. AuthorRoundOK(Q, done2)
  BY <1>1, <1>2 DEF RoundOK, AuthorRoundOK
<1>4. DraftsOK(Q, kept2)
  BY <1>1, <1>2 DEF RoundOK, DraftsOK
<1>5. AloneOK(Q, rs2)
  <2> SUFFICES ASSUME ~b PROVE AloneOK(Q, rs2)
    BY <1>1 DEF AloneOK
  <2>1. R.phase = "write" => R.seen \subseteq rs2
    BY DEF RoundOK, AloneOK, DraftsOK
  <2>2. R.phase \in {"sum", "end"} => Drafts(R) \subseteq R.held \cup rs2
    BY DEF RoundOK, AloneOK, DraftsOK
  <2>3. ASSUME R.phase = "end", NEW a \in DraftAuthors(R)
        PROVE  R.counted[a] = Cardinality((rs2 \cup R.held) \cap Works(a))
    <3>1. (rs2 \cup R.held) \cap Works(a) = (rs \cup R.held) \cap Works(a)
      BY <2>3
    <3>2. QED
      BY <2>3, <3>1 DEF RoundOK, AloneOK
  <2>4. QED
    BY <1>1, <1>2, <2>1, <2>2, <2>3 DEF AloneOK
<1>6. QED
  BY <1>3, <1>4, <1>5 DEF RoundOK, Q

\* Nothing of what a round relies on changes under it.
LEMMA RoundStays ==
    ASSUME NEW R \in Round, NEW rs, NEW kept, NEW done, RoundOK(R, rs, kept, done),
           NEW kept2, NEW done2, kept \subseteq kept2, done \subseteq done2
    PROVE  RoundOK(R, rs, kept2, done2)
BY DEF RoundOK, AuthorRoundOK, DraftsOK, AloneOK

\* The author rows, when nobody becomes dated and nothing is forgotten.
LEMMA DatedStays ==
    ASSUME DatedMeansHandled, Done \subseteq Done',
           \A a \in Authors : UpdatedToday(a)' => UpdatedToday(a)
    PROVE  DatedMeansHandled'
BY DEF DatedMeansHandled, Done, Kept, Works

\* A step of round r that commits nothing.
LEMMA OwnStepKeeps ==
    ASSUME IndInv, NEW r \in Rounds,
           UNCHANGED <<rows, ledger, author, deleting, purging, cleared>>,
           files' \subseteq Novels, started' \in 0..MaxStarts,
           round' \in [Rounds -> Round],
           \A q \in Rounds \ {r} : round'[q] = round[q],
           RoundOK(round'[r], rows, Kept, Done)
    PROVE  IndInv'
<1>1. Kept' = Kept /\ Done' = Done
  BY DEF Kept, Done
<1>2. TypeOK'
  BY DEF IndInv, TypeOK
<1>3. DatedMeansHandled'
  BY <1>1, DatedStays DEF IndInv, UpdatedToday
<1>4. \A q \in Rounds : RoundOK(round'[q], rows', Kept', Done')
  BY <1>1 DEF IndInv
<1>5. QED
  BY <1>2, <1>3, <1>4 DEF IndInv

----------------------------------------------------------------------------
(* Each step keeps the invariant *)

LEMMA InitEstablishes == Init => IndInv
<1> SUFFICES ASSUME Init PROVE IndInv
  OBVIOUS
<1>1. \A a \in Authors : author[a] = NoRow \/ (author[a] \in AuthorRow /\ ~author[a].dated)
  BY CountIsNat DEF Init, AuthorRow
<1>2. author \in [Authors -> AuthorRow \cup {NoRow}]
  BY <1>1 DEF Init
<1>3. round \in [Rounds -> Round] /\ \A r \in Rounds : RoundOK(round[r], rows, Kept, Done)
  BY NoRoundOK DEF Init
<1>4. TypeOK
  BY <1>2, <1>3, BoundsAssumption DEF Init, TypeOK
<1>5. DatedMeansHandled
  BY <1>1 DEF DatedMeansHandled, UpdatedToday
<1>6. QED
  BY <1>3, <1>4, <1>5 DEF IndInv

\* A round starts: what it lists is in its plan, known, or done with.
LEMMA BeginKeeps ==
    ASSUME IndInv, NEW r \in Rounds, NEW kind \in {"fetch", "author", "sync"},
           NEW S \in SUBSET Novels, NEW meta \in SUBSET S, NEW todo \in SUBSET S,
           Begin(r, kind, S, meta, todo),
           kind = "author" => (\E a \in Authors : S = Works(a)) /\ S \subseteq todo \cup meta \cup Done
    PROVE  IndInv'
<1> DEFINE X == [NoRound EXCEPT !.phase = "fetch", !.kind = kind, !.want = S,
                                !.meta = meta, !.todo = todo]
<1>1. /\ X \in Round /\ X.phase = "fetch" /\ X.kind = kind /\ X.want = S
      /\ X.meta = meta /\ X.got = {} /\ X.todo = todo /\ X.failed = {}
  BY NoRoundOK DEF NoRound, Round, Phases
<1>2. RoundOK(X, rows, Kept, Done)
  BY <1>1 DEF RoundOK, AuthorRoundOK, DraftsOK, AloneOK, Drafts
<1>3. round' = [round EXCEPT ![r] = X]
  BY DEF Begin
<1> HIDE DEF X
<1>4. /\ round' \in [Rounds -> Round] /\ round'[r] = X
      /\ \A q \in Rounds \ {r} : round'[q] = round[q]
  BY <1>1, <1>3 DEF IndInv, TypeOK
<1>5. /\ UNCHANGED <<rows, ledger, author, deleting, purging, cleared>>
      /\ files' \subseteq Novels /\ started' \in 0..MaxStarts
  BY BoundsAssumption DEF Begin, IndInv, TypeOK
<1>6. QED
  BY <1>2, <1>4, <1>5, OwnStepKeeps

LEMMA StartKeeps ==
    ASSUME IndInv, NEW r \in Rounds,
           \/ \E S \in (SUBSET Novels) \ {{}}, f \in BOOLEAN : StartFeed(r, S, f)
           \/ \E a \in Authors, f, d \in BOOLEAN : StartAuthor(r, a, f, d)
           \/ \E n \in Novels : StartIds(r, n)
           \/ SyncNovel(r)
    PROVE  IndInv'
<1>1. ASSUME NEW S \in SUBSET Novels, NEW f \in BOOLEAN
      PROVE  NeedDownload(S, f) \in SUBSET S
  BY DEF NeedDownload, SkipIds
<1>2. ASSUME NEW S \in SUBSET Novels, NEW f \in BOOLEAN, StartFeed(r, S, f)
      PROVE  IndInv'
  <2>1. (IF f THEN {} ELSE S \cap rows) \in SUBSET S
    OBVIOUS
  <2>2. QED
    BY <1>1, <1>2, <2>1, BeginKeeps DEF StartFeed
<1>3. ASSUME NEW a \in Authors, NEW f \in BOOLEAN, NEW d \in BOOLEAN,
             StartAuthor(r, a, f, d)
      PROVE  IndInv'
  <2> DEFINE S == Works(a)
             meta == IF d THEN {} ELSE S \cap rows
             todo == NeedDownload(S, d)
  <2>1. S \in SUBSET Novels /\ meta \in SUBSET S
    BY DEF Works
  <2>2. todo \in SUBSET S
    BY <1>1, <2>1
  <2>3. S \subseteq todo \cup meta \cup Done
    BY <2>1 DEF NeedDownload, SkipIds, Done, Kept
  <2>4. Begin(r, "author", S, meta, todo)
    BY <1>3 DEF StartAuthor
  <2> HIDE DEF meta, todo
  <2>5. QED
    BY <2>1, <2>2, <2>3, <2>4, BeginKeeps
<1>4. ASSUME NEW n \in Novels, StartIds(r, n) PROVE IndInv'
  BY <1>4, BeginKeeps DEF StartIds
<1>5. ASSUME NEW n \in Novels, StartSync(r, n) PROVE IndInv'
  BY <1>5, BeginKeeps DEF StartSync
<1>6. QED
  BY <1>2, <1>3, <1>4, <1>5 DEF SyncNovel

LEMMA DownloadKeeps ==
    ASSUME IndInv, NEW r \in Rounds, NEW n \in Novels,
           NEW o \in {"ok", "assets", "missing"}, Download(r, n, o)
    PROVE  IndInv'
<1> DEFINE R == round[r]
           Q == round'[r]
<1>1. R \in Round /\ RoundOK(R, rows, Kept, Done) /\ R.phase = "fetch" /\ n \in R.todo
  BY DEF IndInv, TypeOK, Download
<1>2. /\ UNCHANGED <<rows, ledger, author, deleting, purging, cleared>>
      /\ files' \subseteq Novels /\ started' \in 0..MaxStarts
      /\ \A q \in Rounds \ {r} : round'[q] = round[q]
  BY DEF Download, IndInv, TypeOK
<1>3. /\ Q = [R EXCEPT !.todo = R.todo \ {n},
                       !.got = IF o \in {"ok", "assets"} THEN R.got \cup {n} ELSE R.got,
                       !.failed = IF o = "ok" THEN R.failed ELSE R.failed \cup {n}]
      /\ round' = [round EXCEPT ![r] = Q]
  BY DEF Download, IndInv, TypeOK
<1>4. /\ Q \in Round /\ Q.phase = "fetch" /\ Q.kind = R.kind /\ Q.want = R.want
      /\ Q.meta = R.meta /\ Q.todo = R.todo \ {n}
      /\ Q.got \in SUBSET (R.got \cup {n}) /\ R.got \subseteq Q.got
      /\ R.failed \subseteq Q.failed /\ (n \in Q.got \/ n \in Q.failed)
  <2> DEFINE got == IF o \in {"ok", "assets"} THEN R.got \cup {n} ELSE R.got
             failed == IF o = "ok" THEN R.failed ELSE R.failed \cup {n}
  <2>1. /\ got \subseteq Novels /\ failed \subseteq Novels /\ R.got \subseteq got
        /\ got \in SUBSET (R.got \cup {n}) /\ R.failed \subseteq failed
        /\ n \in got \/ n \in failed
    BY <1>1 DEF Round
  <2>2. Q = [R EXCEPT !.todo = R.todo \ {n}, !.got = got, !.failed = failed]
    BY <1>3
  <2> HIDE DEF Q, R, got, failed
  <2>3. /\ Q.phase = R.phase /\ Q.kind = R.kind /\ Q.want = R.want /\ Q.meta = R.meta
        /\ Q.todo = R.todo \ {n} /\ Q.got = got /\ Q.failed = failed
    BY <1>1, <2>2 DEF Round
  <2>4. Q \in Round
    BY <1>1, <2>1, <2>2 DEF Round
  <2>5. QED
    BY <1>1, <2>1, <2>3, <2>4
<1> HIDE DEF R, Q
<1>5. RoundOK(Q, rows, Kept, Done)
  <2>1. AuthorRoundOK(Q, Done)
    BY <1>1, <1>4 DEF RoundOK, AuthorRoundOK, Drafts
  <2>2. DraftsOK(Q, Kept) /\ AloneOK(Q, rows)
    BY <1>1, <1>4 DEF RoundOK, AuthorRoundOK, DraftsOK, AloneOK, Drafts
  <2>3. QED
    BY <2>1, <2>2 DEF RoundOK
<1>6. round' \in [Rounds -> Round]
  BY <1>3, <1>4 DEF IndInv, TypeOK
<1>7. QED
  BY <1>2, <1>5, <1>6, OwnStepKeeps DEF Q

LEMMA FailKeeps ==
    ASSUME IndInv, NEW r \in Rounds, Fail(r)
    PROVE  IndInv'
<1>1. /\ UNCHANGED <<rows, ledger, author, deleting, purging, cleared>>
      /\ files' \subseteq Novels /\ started' \in 0..MaxStarts
      /\ round' = [round EXCEPT ![r] = NoRound]
  BY DEF Fail, IndInv, TypeOK
<1>2. /\ round' \in [Rounds -> Round] /\ round'[r] = NoRound
      /\ \A q \in Rounds \ {r} : round'[q] = round[q]
  BY <1>1, NoRoundOK DEF IndInv, TypeOK
<1>3. QED
  BY <1>1, <1>2, NoRoundOK, OwnStepKeeps

LEMMA FetchForSyncKeeps ==
    ASSUME IndInv, NEW r \in Rounds, NEW ok \in BOOLEAN, FetchForSync(r, ok)
    PROVE  IndInv'
<1> DEFINE R == round[r]
           X == [R EXCEPT !.todo = {}, !.got = R.want, !.phase = "persist"]
<1>1. CASE ~ok
  BY <1>1, FailKeeps DEF FetchForSync, Fail
<1>2. CASE ok
  <2>1. R \in Round /\ RoundOK(R, rows, Kept, Done) /\ R.phase = "fetch" /\ R.kind = "sync"
    BY DEF IndInv, TypeOK, FetchForSync
  <2>2. round' = [round EXCEPT ![r] = X]
    BY <1>2 DEF FetchForSync
  <2>3. /\ UNCHANGED <<rows, ledger, author, deleting, purging, cleared>>
        /\ files' \subseteq Novels /\ started' \in 0..MaxStarts
    BY DEF FetchForSync, IndInv, TypeOK
  <2> HIDE DEF R
  <2>4. /\ X \in Round /\ X.phase = "persist" /\ X.kind = "sync" /\ X.want = R.want
        /\ X.meta = R.meta /\ X.todo = {} /\ X.got = R.want
    BY <2>1 DEF Round, Phases
  <2> HIDE DEF X
  <2>5. RoundOK(X, rows, Kept, Done)
    BY <2>1, <2>4 DEF RoundOK, AuthorRoundOK, DraftsOK, AloneOK, Drafts
  <2>6. /\ round' \in [Rounds -> Round] /\ round'[r] = X
        /\ \A q \in Rounds \ {r} : round'[q] = round[q]
    BY <2>2, <2>4 DEF IndInv, TypeOK
  <2>7. QED
    BY <2>3, <2>5, <2>6, OwnStepKeeps
<1>3. QED
  BY <1>1, <1>2

LEMMA GatherKeeps ==
    ASSUME IndInv, NEW r \in Rounds, Gather(r)
    PROVE  IndInv'
<1> DEFINE R == round[r]
           X == [R EXCEPT !.phase = "persist"]
<1>1. R \in Round /\ RoundOK(R, rows, Kept, Done) /\ R.phase = "fetch" /\ R.todo = {}
  BY DEF IndInv, TypeOK, Gather
<1>2. round' = [round EXCEPT ![r] = X]
  BY DEF Gather
<1>3. /\ UNCHANGED <<rows, ledger, author, deleting, purging, cleared>>
      /\ files' \subseteq Novels /\ started' \in 0..MaxStarts
  BY DEF Gather, IndInv, TypeOK
<1> HIDE DEF R
<1>4. /\ X \in Round /\ X.phase = "persist" /\ X.kind = R.kind /\ X.want = R.want
      /\ X.meta = R.meta /\ X.todo = {} /\ X.got = R.got /\ X.failed = R.failed
  BY <1>1 DEF Round, Phases
<1> HIDE DEF X
<1>5. RoundOK(X, rows, Kept, Done)
  BY <1>1, <1>4 DEF RoundOK, AuthorRoundOK, DraftsOK, AloneOK, Drafts
<1>6. /\ round' \in [Rounds -> Round] /\ round'[r] = X
      /\ \A q \in Rounds \ {r} : round'[q] = round[q]
  BY <1>2, <1>4 DEF IndInv, TypeOK
<1>7. QED
  BY <1>3, <1>5, <1>6, OwnStepKeeps

LEMMA ReadExistingKeeps ==
    ASSUME IndInv, NEW r \in Rounds, ReadExisting(r)
    PROVE  IndInv'
<1> DEFINE R == round[r]
           seen == Drafts(R) \cap rows
           X == [R EXCEPT !.phase = "write", !.seen = seen]
<1>1. /\ R \in Round /\ RoundOK(R, rows, Kept, Done) /\ R.phase = "persist"
      /\ rows \subseteq Novels
  BY DEF IndInv, TypeOK, ReadExisting
<1>2. round' = [round EXCEPT ![r] = X]
  BY DEF ReadExisting, Batch, Drafts, IndInv, TypeOK
<1>3. /\ UNCHANGED <<rows, ledger, author, deleting, purging, cleared>>
      /\ files' \subseteq Novels /\ started' \in 0..MaxStarts
  BY DEF ReadExisting, IndInv, TypeOK
<1>4. seen \subseteq Novels /\ seen \subseteq Drafts(R) /\ seen \subseteq rows
  BY <1>1
<1> HIDE DEF R, seen
<1>5. /\ X \in Round /\ X.phase = "write" /\ X.kind = R.kind /\ X.want = R.want
      /\ X.meta = R.meta /\ X.todo = R.todo /\ X.got = R.got /\ X.failed = R.failed
      /\ X.seen = seen
  BY <1>1, <1>4 DEF Round, Phases
<1> HIDE DEF X
<1>6. RoundOK(X, rows, Kept, Done)
  BY <1>1, <1>4, <1>5 DEF RoundOK, AuthorRoundOK, DraftsOK, AloneOK, Drafts, Kept
<1>7. /\ round' \in [Rounds -> Round] /\ round'[r] = X
      /\ \A q \in Rounds \ {r} : round'[q] = round[q]
  BY <1>2, <1>5 DEF IndInv, TypeOK
<1>8. QED
  BY <1>3, <1>6, <1>7, OwnStepKeeps

LEMMA FlushKeeps ==
    ASSUME IndInv, NEW r \in Rounds, Flush(r)
    PROVE  IndInv'
<1> DEFINE R == round[r]
           held == (Drafts(R) \ R.seen) \cup (R.seen \cap rows)
           X == [R EXCEPT !.phase = "sum", !.held = held]
<1>1. CASE Fail(r)
  BY <1>1, FailKeeps
<1>2. CASE ~Fail(r)
  <2>1. /\ R \in Round /\ RoundOK(R, rows, Kept, Done) /\ R.phase = "write"
        /\ rows \subseteq Novels
    BY DEF IndInv, TypeOK, Flush
  <2>2. round' = [round EXCEPT ![r] = X]
    BY <1>2 DEF Flush, Batch, Drafts, IndInv, TypeOK
  <2>3. /\ UNCHANGED <<rows, ledger, author, deleting, purging, cleared>>
        /\ files' \subseteq Novels /\ started' \in 0..MaxStarts
    BY <1>2 DEF Flush, IndInv, TypeOK
  <2>4. held \subseteq Novels
    BY <2>1 DEF Round, Drafts
  <2>5. Drafts(R) \subseteq held \cup Kept /\ (R.seen \subseteq rows => Drafts(R) \subseteq held)
    BY <2>1 DEF RoundOK, DraftsOK
  <2> HIDE DEF R, held
  <2>6. /\ X \in Round /\ X.phase = "sum" /\ X.kind = R.kind /\ X.want = R.want
        /\ X.meta = R.meta /\ X.todo = R.todo /\ X.got = R.got /\ X.failed = R.failed
        /\ X.held = held /\ X.overrun = R.overrun
    BY <2>1, <2>4 DEF Round, Phases
  <2> HIDE DEF X
  <2>7. RoundOK(X, rows, Kept, Done)
    BY <2>1, <2>5, <2>6 DEF RoundOK, AuthorRoundOK, DraftsOK, AloneOK, Drafts
  <2>8. /\ round' \in [Rounds -> Round] /\ round'[r] = X
        /\ \A q \in Rounds \ {r} : round'[q] = round[q]
    BY <2>2, <2>6 DEF IndInv, TypeOK
  <2>9. QED
    BY <2>3, <2>7, <2>8, OwnStepKeeps
<1>3. QED
  BY <1>1, <1>2

LEMMA LockTimeoutKeeps ==
    ASSUME IndInv, NEW r \in Rounds, LockTimeout(r)
    PROVE  IndInv'
<1> DEFINE R == round[r]
           X == [R EXCEPT !.phase = "persist", !.seen = {}, !.held = {},
                     !.attempt = R.attempt + 1]
<1>1. CASE R.attempt = MaxAttempts
  BY <1>1, FailKeeps DEF LockTimeout
<1>2. CASE R.attempt # MaxAttempts
  <2>1. /\ R \in Round /\ RoundOK(R, rows, Kept, Done) /\ R.phase \in {"persist", "write", "end"}
    BY DEF IndInv, TypeOK, LockTimeout
  <2>2. round' = [round EXCEPT ![r] = X]
    BY <1>2 DEF LockTimeout, IndInv, TypeOK
  <2>3. /\ UNCHANGED <<rows, ledger, author, deleting, purging, cleared>>
        /\ files' \subseteq Novels /\ started' \in 0..MaxStarts
    BY <1>2 DEF LockTimeout, IndInv, TypeOK
  <2> HIDE DEF R
  <2>4. R.attempt + 1 \in 1..MaxAttempts
    BY <1>2, <2>1, BoundsAssumption DEF Round
  <2>5. /\ X \in Round /\ X.phase = "persist" /\ X.kind = R.kind /\ X.want = R.want
        /\ X.meta = R.meta /\ X.todo = R.todo /\ X.got = R.got /\ X.failed = R.failed
    BY <2>1, <2>4 DEF Round, Phases
  <2> HIDE DEF X
  <2>6. RoundOK(X, rows, Kept, Done)
    BY <2>1, <2>5 DEF RoundOK, AuthorRoundOK, DraftsOK, AloneOK, Drafts
  <2>7. /\ round' \in [Rounds -> Round] /\ round'[r] = X
        /\ \A q \in Rounds \ {r} : round'[q] = round[q]
    BY <2>2, <2>5 DEF IndInv, TypeOK
  <2>8. QED
    BY <2>3, <2>6, <2>7, OwnStepKeeps
<1>3. QED
  BY <1>1, <1>2

LEMMA ReadSummaryKeeps ==
    ASSUME IndInv, NEW r \in Rounds, ReadSummary(r)
    PROVE  IndInv'
<1> DEFINE R == round[r]
           count == [a \in Authors |-> Cardinality((rows \cup R.held) \cap Works(a))]
           X == [R EXCEPT !.phase = "end", !.counted = count]
<1>1. R \in Round /\ RoundOK(R, rows, Kept, Done) /\ R.phase = "sum"
  BY DEF IndInv, TypeOK, ReadSummary
<1>2. round' = [round EXCEPT ![r] = X]
  BY DEF ReadSummary, CountNovels, Visible, IndInv, TypeOK
<1>3. /\ UNCHANGED <<rows, ledger, author, deleting, purging, cleared>>
      /\ files' \subseteq Novels /\ started' \in 0..MaxStarts
  BY DEF ReadSummary, IndInv, TypeOK
<1> HIDE DEF R
<1>4. count \in [Authors -> Nat]
  BY CountIsNat
<1>5. \A a \in Authors : count[a] = Cardinality((rows \cup R.held) \cap Works(a))
  OBVIOUS
<1>6. DraftAuthors(R) \subseteq Authors
  BY <1>1, NovelAssumption DEF DraftAuthors, Drafts, Round
<1> HIDE DEF count
<1>7. /\ X \in Round /\ X.phase = "end" /\ X.kind = R.kind /\ X.want = R.want
      /\ X.meta = R.meta /\ X.todo = R.todo /\ X.got = R.got /\ X.failed = R.failed
      /\ X.held = R.held /\ X.overrun = R.overrun /\ X.counted = count
  BY <1>1, <1>4 DEF Round, Phases
<1> HIDE DEF X
<1>8. Drafts(X) = Drafts(R) /\ DraftAuthors(X) = DraftAuthors(R)
  BY <1>7 DEF Drafts, DraftAuthors
<1>9. RoundOK(X, rows, Kept, Done)
  BY <1>1, <1>5, <1>6, <1>7, <1>8 DEF RoundOK, AuthorRoundOK, DraftsOK, AloneOK
<1>10. /\ round' \in [Rounds -> Round] /\ round'[r] = X
       /\ \A q \in Rounds \ {r} : round'[q] = round[q]
  BY <1>2, <1>7 DEF IndInv, TypeOK
<1>11. QED
  BY <1>3, <1>9, <1>10, OwnStepKeeps

\* Somebody commits a change of the rows in S and marks who relies on them.
LEMMA OverrunOK ==
    ASSUME IndInv, NEW S \in SUBSET Novels,
           rows' \ rows \subseteq S, rows \ rows' \subseteq S,
           Kept \subseteq Kept', Done \subseteq Done'
    PROVE  /\ Overrun(S) \in [Rounds -> Round]
           /\ \A q \in Rounds : RoundOK(Overrun(S)[q], rows', Kept', Done')
<1> SUFFICES ASSUME NEW q \in Rounds
             PROVE  /\ Overrun(S)[q] \in Round
                    /\ RoundOK(Overrun(S)[q], rows', Kept', Done')
  BY DEF Overrun
<1> DEFINE R == round[q]
           b == \/ R.overrun
                \/ R.phase # "idle" /\ R.want \cap S # {}
                \/ R.phase = "end" /\ \E n \in S : AuthorOf(n) \in DraftAuthors(R)
<1>1. R \in Round /\ RoundOK(R, rows, Kept, Done) /\ b \in BOOLEAN
  BY DEF IndInv, TypeOK, Round
<1>2. Overrun(S)[q] = [R EXCEPT !.overrun = b]
  BY DEF Overrun, DraftAuthors, Drafts, BatchAuthors, Batch
<1>3. R.overrun => b
  OBVIOUS
<1>4. ~b => /\ R.phase # "idle" => R.want \cap rows \subseteq rows'
            /\ R.phase = "end" =>
                 \A a \in DraftAuthors(R) : rows' \cap Works(a) = rows \cap Works(a)
  <2> SUFFICES ASSUME ~b
               PROVE  /\ R.phase # "idle" => R.want \cap rows \subseteq rows'
                      /\ R.phase = "end" =>
                           \A a \in DraftAuthors(R) :
                             rows' \cap Works(a) = rows \cap Works(a)
    OBVIOUS
  <2>1. ASSUME R.phase # "idle" PROVE R.want \cap rows \subseteq rows'
    BY <2>1
  <2>2. ASSUME R.phase = "end", NEW a \in DraftAuthors(R)
        PROVE  rows' \cap Works(a) = rows \cap Works(a)
    <3>1. \A n \in S : AuthorOf(n) # a
      BY <2>2
    <3>2. \A n \in Works(a) : n \notin S
      BY <3>1 DEF Works
    <3>3. QED
      BY <3>2
  <2>3. QED
    BY <2>1, <2>2
<1> HIDE DEF R, b
<1>5. [R EXCEPT !.overrun = b] \in Round
  BY <1>1 DEF Round
<1>6. RoundOK([R EXCEPT !.overrun = b], rows', Kept', Done')
  BY <1>1, <1>3, <1>4, RoundPersists
<1>7. QED
  BY <1>2, <1>5, <1>6

\* What a commit writes to an author.
LEMMA SummaryRowType ==
    ASSUME TypeOK, NEW r \in Rounds, NEW a \in Authors
    PROVE  /\ SummaryRow(r, a) \in AuthorRow
           /\ SummaryRow(r, a).dated <=> UpdatedToday(a)
           /\ round[r].counted[a] # 0 => SummaryRow(r, a).count = round[r].counted[a]
<1> DEFINE old == IF author[a] = NoRow THEN [count |-> 0, dated |-> FALSE] ELSE author[a]
           c == round[r].counted[a]
<1>1. author[a] \in AuthorRow \cup {NoRow} /\ c \in Nat
  BY DEF TypeOK, Round
<1>2. old \in AuthorRow /\ (old.dated <=> UpdatedToday(a))
  BY <1>1 DEF AuthorRow, UpdatedToday
<1>3. SummaryRow(r, a) = [old EXCEPT !.count = IF c = 0 THEN old.count ELSE c]
  BY DEF SummaryRow
<1> HIDE DEF old, c
<1>4. QED
  BY <1>1, <1>2, <1>3 DEF AuthorRow, c

\* What a commit writes to the ledger.
LEMMA LedgerAfterType ==
    ASSUME TypeOK, NEW r \in Rounds
    PROVE  /\ LedgerAfter(r) \in [Novels -> (0..MaxRetries) \cup {NoEntry}]
           /\ \A n \in Novels :
                /\ n \in round[r].failed => LedgerAfter(r)[n] # NoEntry
                /\ ledger[n] # NoEntry /\ n \notin round[r].got => LedgerAfter(r)[n] # NoEntry
<1> SUFFICES ASSUME NEW n \in Novels
             PROVE  /\ LedgerAfter(r)[n] \in (0..MaxRetries) \cup {NoEntry}
                    /\ n \in round[r].failed => LedgerAfter(r)[n] # NoEntry
                    /\ ledger[n] # NoEntry /\ n \notin round[r].got
                         => LedgerAfter(r)[n] # NoEntry
  BY DEF LedgerAfter
<1>1. ledger[n] \in (0..MaxRetries) \cup {NoEntry} /\ NoEntry \notin 0..MaxRetries
  BY NovelAssumption DEF TypeOK
<1>2. CASE n \in round[r].failed
  <2>1. LedgerAfter(r)[n] = IF ledger[n] = NoEntry THEN 1
                            ELSE IF ledger[n] < MaxRetries THEN ledger[n] + 1 ELSE ledger[n]
    BY <1>2 DEF LedgerAfter
  <2>2. LedgerAfter(r)[n] \in 0..MaxRetries
    BY <1>1, <2>1, BoundsAssumption
  <2>3. QED
    BY <1>1, <2>2
<1>3. CASE n \notin round[r].failed
  BY <1>1, <1>3 DEF LedgerAfter
<1>4. QED
  BY <1>2, <1>3

LEMMA CommitKeeps ==
    ASSUME IndInv, NEW r \in Rounds, Commit(r)
    PROVE  IndInv'
<1> DEFINE R == round[r]
           X == IF R.kind = "author" THEN [NoRound EXCEPT !.phase = "mark", !.kind = "author", !.want = R.want]
                ELSE NoRound
<1>1. /\ R \in Round /\ RoundOK(R, rows, Kept, Done) /\ R.phase = "end"
      /\ TypeOK /\ DatedMeansHandled
  BY DEF IndInv, TypeOK, Commit
<1>2. /\ rows' = rows \cup R.held /\ cleared' = cleared \ R.held
      /\ ledger' = IF R.kind = "sync" THEN ledger ELSE LedgerAfter(r)
      /\ author' = [a \in Authors |-> IF a \in BatchAuthors(r) THEN SummaryRow(r, a)
                                      ELSE author[a]]
      /\ round' = [Overrun(R.held) EXCEPT ![r] = X]
      /\ UNCHANGED <<files, deleting, purging, started>>
  BY DEF Commit
<1> HIDE DEF R, X
<1>3. /\ R.held \in SUBSET Novels /\ R.want \in SUBSET Novels /\ R.got \subseteq Drafts(R)
      /\ Drafts(R) \subseteq R.held \cup Kept
  BY <1>1 DEF Round, Drafts, RoundOK, DraftsOK
<1>4. Kept' = Kept \cup R.held
  BY <1>2 DEF Kept
<1>5. Done \subseteq Done'
  <2> SUFFICES ASSUME NEW n \in Done, n \notin Kept' PROVE n \in Done'
    BY DEF Done
  <2>1. n \in Novels /\ ledger[n] # NoEntry /\ n \notin R.got
    BY <1>3, <1>4 DEF Done
  <2>2. ledger'[n] # NoEntry
    BY <1>1, <1>2, <2>1, LedgerAfterType DEF R
  <2>3. QED
    BY <2>1, <2>2 DEF Done
<1>6. /\ Overrun(R.held) \in [Rounds -> Round]
      /\ \A q \in Rounds : RoundOK(Overrun(R.held)[q], rows', Kept', Done')
  BY <1>2, <1>3, <1>4, <1>5, OverrunOK
<1>7. X \in Round /\ RoundOK(X, rows', Kept', Done')
  <2>1. CASE R.kind # "author"
    BY <2>1, NoRoundOK DEF X
  <2>2. CASE R.kind = "author"
    <3>1. R.want \subseteq Done'
      <4> SUFFICES ASSUME NEW n \in R.want PROVE n \in Done'
        OBVIOUS
      <4>1. n \in Drafts(R) \/ n \in R.failed \/ n \in Done
        BY <1>1, <2>2 DEF RoundOK, AuthorRoundOK, DraftsOK
      <4>2. CASE n \in Drafts(R)
        BY <1>3, <1>4, <4>2 DEF Done
      <4>3. CASE n \in R.failed
        <5>1. n \in Novels /\ ledger'[n] # NoEntry
          BY <1>1, <1>2, <1>3, <2>2, <4>3, LedgerAfterType DEF R
        <5>2. QED
          BY <5>1 DEF Done
      <4>4. QED
        BY <1>5, <4>1, <4>2, <4>3
    <3>2. \E a \in Authors : R.want = Works(a)
      BY <1>1, <2>2 DEF RoundOK, AuthorRoundOK
    <3>3. X = [NoRound EXCEPT !.phase = "mark", !.kind = "author", !.want = R.want]
      BY <2>2 DEF X
    <3>4. /\ X \in Round /\ X.phase = "mark" /\ X.kind = "author" /\ X.want = R.want
          /\ X.meta = {} /\ X.got = {} /\ X.todo = {}
      BY <1>3, <3>3, NoRoundOK DEF NoRound, Round, Phases
    <3>5. QED
      BY <3>1, <3>2, <3>4 DEF RoundOK, AuthorRoundOK, DraftsOK, AloneOK, Drafts
  <2>3. QED
    BY <2>1, <2>2
<1>8. /\ round' \in [Rounds -> Round]
      /\ \A q \in Rounds : RoundOK(round'[q], rows', Kept', Done')
  BY <1>2, <1>6, <1>7
<1>9. /\ author' \in [Authors -> AuthorRow \cup {NoRow}]
      /\ \A a \in Authors : UpdatedToday(a)' => UpdatedToday(a)
  <2> SUFFICES ASSUME NEW a \in Authors
               PROVE  /\ author'[a] \in AuthorRow \cup {NoRow}
                      /\ UpdatedToday(a)' => UpdatedToday(a)
    BY <1>2
  <2>1. CASE a \in BatchAuthors(r)
    BY <1>1, <1>2, <2>1, SummaryRowType DEF UpdatedToday
  <2>2. CASE a \notin BatchAuthors(r)
    BY <1>1, <1>2, <2>2 DEF UpdatedToday, TypeOK
  <2>3. QED
    BY <2>1, <2>2
<1>10. TypeOK'
  <2>1. ledger' \in [Novels -> (0..MaxRetries) \cup {NoEntry}]
    BY <1>1, <1>2, LedgerAfterType DEF TypeOK
  <2>2. QED
    BY <1>1, <1>2, <1>3, <1>8, <1>9, <2>1 DEF TypeOK
<1>11. DatedMeansHandled'
  BY <1>1, <1>5, <1>9, DatedStays
<1>12. QED
  BY <1>8, <1>10, <1>11 DEF IndInv

LEMMA MarkUpdatedKeeps ==
    ASSUME IndInv, NEW r \in Rounds, MarkUpdated(r)
    PROVE  IndInv'
<1> DEFINE R == round[r]
           A == {AuthorOf(n) : n \in R.want}
<1>1. /\ R \in Round /\ RoundOK(R, rows, Kept, Done) /\ R.phase = "mark"
      /\ TypeOK /\ DatedMeansHandled
  BY DEF IndInv, TypeOK, MarkUpdated
<1>2. /\ author' = [a \in Authors |-> IF a \in A /\ author[a] # NoRow
                                      THEN [author[a] EXCEPT !.dated = TRUE] ELSE author[a]]
      /\ round' = [round EXCEPT ![r] = NoRound]
      /\ UNCHANGED <<rows, files, ledger, deleting, purging, cleared, started>>
  BY DEF MarkUpdated
<1>3. PICK b \in Authors : R.want = Works(b) /\ R.want \subseteq Done
  BY <1>1 DEF RoundOK, AuthorRoundOK, DraftsOK
<1>4. Kept' = Kept /\ Done' = Done
  BY <1>2 DEF Kept, Done
<1>5. ASSUME NEW a \in Authors
      PROVE  /\ author'[a] \in AuthorRow \cup {NoRow}
             /\ UpdatedToday(a)' => UpdatedToday(a) \/ a = b
  <2>1. CASE a \in A /\ author[a] # NoRow
    <3>1. a = b
      BY <1>3, <2>1 DEF Works
    <3>2. author'[a] = [author[a] EXCEPT !.dated = TRUE] /\ author[a] \in AuthorRow
      BY <1>1, <1>2, <2>1 DEF TypeOK
    <3>3. author'[a] \in AuthorRow
      BY <3>2 DEF AuthorRow
    <3>4. QED
      BY <3>1, <3>3
  <2>2. CASE ~(a \in A /\ author[a] # NoRow)
    BY <1>1, <1>2, <2>2 DEF TypeOK, UpdatedToday
  <2>3. QED
    BY <2>1, <2>2
<1>6. DatedMeansHandled'
  <2> SUFFICES ASSUME NEW a \in Authors, UpdatedToday(a)', NEW n \in Works(a)
               PROVE  n \in Done
    BY <1>2 DEF DatedMeansHandled, Done, Kept
  <2>1. n \in Novels
    BY DEF Works
  <2>2. CASE a = b
    BY <1>3, <2>2
  <2>3. CASE UpdatedToday(a)
    BY <1>1, <2>1, <2>3 DEF DatedMeansHandled, Done, Kept
  <2>4. QED
    BY <1>5, <2>2, <2>3
<1>7. /\ round' \in [Rounds -> Round]
      /\ \A q \in Rounds : RoundOK(round'[q], rows', Kept', Done')
  BY <1>2, <1>4, NoRoundOK DEF IndInv, TypeOK
<1>8. TypeOK'
  <2>1. author' \in [Authors -> AuthorRow \cup {NoRow}]
    BY <1>2, <1>5
  <2>2. QED
    BY <1>1, <1>2, <1>7, <2>1 DEF TypeOK
<1>9. QED
  BY <1>6, <1>7, <1>8 DEF IndInv

\* A commit of somebody who is not a round: the rows in S go or are touched,
\* and what goes was removed by the user.
LEMMA OutsiderKeeps ==
    ASSUME IndInv, NEW S \in SUBSET Novels, rows' \subseteq rows, rows \ rows' \subseteq S,
           Kept \subseteq Kept', Done \subseteq Done', round' = Overrun(S),
           files' \subseteq Novels, deleting' \subseteq Novels, purging' \subseteq Novels,
           cleared' \subseteq Novels,
           ledger' \in [Novels -> (0..MaxRetries) \cup {NoEntry}],
           author' \in [Authors -> AuthorRow \cup {NoRow}],
           \A a \in Authors : UpdatedToday(a)' => UpdatedToday(a),
           started' = started
    PROVE  IndInv'
<1>1. /\ round' \in [Rounds -> Round]
      /\ \A q \in Rounds : RoundOK(round'[q], rows', Kept', Done')
  BY OverrunOK
<1>2. TypeOK'
  BY <1>1 DEF IndInv, TypeOK
<1>3. DatedMeansHandled'
  BY DatedStays DEF IndInv
<1>4. QED
  BY <1>1, <1>2, <1>3 DEF IndInv

LEMMA DeleteKeeps ==
    ASSUME IndInv,
           \/ \E n \in Novels : DeleteCommit(n)
           \/ \E S \in SUBSET Novels : DeleteMany(S) \/ ForgetFailures(S)
           \/ BatchCommit
           \/ \E a \in Authors : DeleteAuthor(a)
    PROVE  IndInv'
<1>1. TypeOK
  BY DEF IndInv
<1>2. ASSUME NEW n \in Novels, DeleteCommit(n) PROVE IndInv'
  <2>1. /\ rows' = rows \ {n} /\ cleared' = cleared \cup {n}
        /\ ledger' = [ledger EXCEPT ![n] = NoEntry] /\ round' = Overrun({n})
        /\ deleting' = deleting \ {n} /\ UNCHANGED <<files, author, purging, started>>
    BY <1>2 DEF DeleteCommit
  <2>2. Kept \subseteq Kept' /\ n \in Kept'
    BY <2>1 DEF Kept
  <2>3. Done \subseteq Done'
    BY <1>1, <2>1, <2>2 DEF Done, TypeOK
  <2>4. ledger' \in [Novels -> (0..MaxRetries) \cup {NoEntry}]
    BY <1>1, <2>1 DEF TypeOK
  <2>5. \A a \in Authors : UpdatedToday(a)' => UpdatedToday(a)
    BY <2>1 DEF UpdatedToday
  <2>6. QED
    BY <1>1, <2>1, <2>2, <2>3, <2>4, <2>5, OutsiderKeeps DEF TypeOK
<1>3. ASSUME NEW S \in SUBSET Novels, PurgeRows(S), files' \subseteq files,
             purging' \subseteq Novels
      PROVE  IndInv'
  <2>1. /\ rows' = rows \ S /\ cleared' = cleared \cup S
        /\ ledger' = [n \in Novels |-> IF n \in S THEN NoEntry ELSE ledger[n]]
        /\ round' = Overrun(S) /\ UNCHANGED <<author, deleting, started>>
    BY <1>3 DEF PurgeRows
  <2>2. Kept \subseteq Kept' /\ S \subseteq Kept'
    BY <2>1 DEF Kept
  <2>3. Done \subseteq Done'
    BY <2>1, <2>2 DEF Done
  <2>4. ledger' \in [Novels -> (0..MaxRetries) \cup {NoEntry}]
    BY <1>1, <2>1 DEF TypeOK
  <2>5. \A a \in Authors : UpdatedToday(a)' => UpdatedToday(a)
    BY <2>1 DEF UpdatedToday
  <2>6. QED
    BY <1>1, <1>3, <2>1, <2>2, <2>3, <2>4, <2>5, OutsiderKeeps DEF TypeOK
<1>4. ASSUME NEW S \in SUBSET Novels, ForgetFailures(S) PROVE IndInv'
  <2>1. /\ cleared' = cleared \cup S
        /\ ledger' = [n \in Novels |-> IF n \in S THEN NoEntry ELSE ledger[n]]
        /\ round' = Overrun(S) /\ UNCHANGED <<rows, files, author, deleting, purging, started>>
    BY <1>4 DEF ForgetFailures
  <2>2. Kept \subseteq Kept' /\ S \subseteq Kept'
    BY <2>1 DEF Kept
  <2>3. Done \subseteq Done'
    BY <2>1, <2>2 DEF Done
  <2>4. ledger' \in [Novels -> (0..MaxRetries) \cup {NoEntry}]
    BY <1>1, <2>1 DEF TypeOK
  <2>5. \A a \in Authors : UpdatedToday(a)' => UpdatedToday(a)
    BY <2>1 DEF UpdatedToday
  <2>6. QED
    BY <1>1, <2>1, <2>2, <2>3, <2>4, <2>5, OutsiderKeeps DEF TypeOK
<1>5. ASSUME NEW a \in Authors, DeleteAuthor(a) PROVE IndInv'
  <2>1. /\ rows' = rows \ Works(a) /\ cleared' = cleared \cup Works(a)
        /\ author' = [author EXCEPT ![a] = NoRow] /\ round' = Overrun(Works(a))
        /\ UNCHANGED <<files, ledger, deleting, purging, started>>
    BY <1>5 DEF DeleteAuthor
  <2>2. Kept \subseteq Kept' /\ Works(a) \in SUBSET Novels
    BY <2>1 DEF Kept, Works
  <2>3. Done \subseteq Done'
    BY <2>1, <2>2 DEF Done
  <2>4. \A b \in Authors : UpdatedToday(b)' => UpdatedToday(b)
    BY <1>1, <2>1 DEF UpdatedToday, TypeOK
  <2>5. QED
    BY <1>1, <2>1, <2>2, <2>3, <2>4, OutsiderKeeps DEF TypeOK
<1>6. ASSUME NEW S \in SUBSET Novels, DeleteMany(S) PROVE IndInv'
  BY <1>1, <1>3, <1>6 DEF DeleteMany, TypeOK
<1>7. CASE BatchCommit
  <2>1. /\ purging \in SUBSET Novels /\ PurgeRows(purging)
        /\ files' \subseteq files /\ purging' \subseteq Novels
    BY <1>1, <1>7 DEF BatchCommit, TypeOK
  <2>2. QED
    BY <1>3, <2>1
<1>8. QED
  BY <1>2, <1>4, <1>5, <1>6, <1>7

\* Steps that commit no row: rounds go on as they were, or end with the process.
LEMMA BystanderKeeps ==
    ASSUME IndInv, UNCHANGED <<rows, cleared, started>>, Done \subseteq Done',
           files' \subseteq Novels, deleting' \subseteq Novels, purging' \subseteq Novels,
           ledger' \in [Novels -> (0..MaxRetries) \cup {NoEntry}],
           author' \in [Authors -> AuthorRow \cup {NoRow}],
           \A a \in Authors : UpdatedToday(a)' => UpdatedToday(a),
           round' = round \/ round' = [r \in Rounds |-> NoRound]
    PROVE  IndInv'
<1>1. Kept' = Kept
  BY DEF Kept
<1>2. \A r \in Rounds : round[r] \in Round /\ RoundOK(round[r], rows, Kept, Done)
  BY DEF IndInv, TypeOK
<1>3. /\ round' \in [Rounds -> Round]
      /\ \A r \in Rounds : RoundOK(round'[r], rows', Kept', Done')
  <2>1. CASE round' = round
    BY <1>1, <1>2, <2>1, RoundStays DEF IndInv, TypeOK
  <2>2. CASE round' = [r \in Rounds |-> NoRound]
    BY <2>2, NoRoundOK
  <2>3. QED
    BY <2>1, <2>2
<1>4. TypeOK'
  BY <1>3 DEF IndInv, TypeOK
<1>5. DatedMeansHandled'
  BY DatedStays DEF IndInv
<1>6. QED
  BY <1>3, <1>4, <1>5 DEF IndInv

LEMMA BystandersKeep ==
    ASSUME IndInv,
           \/ \E n \in Novels : DeleteRequest(n) \/ DeleteFails(n)
           \/ \E S \in SUBSET Novels : BatchRequest(S) \/ ResetCounts(S)
           \/ BatchFails
           \/ \E a \in Authors : NewDay(a)
           \/ Kill
    PROVE  IndInv'
<1>1. TypeOK
  BY DEF IndInv
<1>2. (ledger' = ledger /\ rows' = rows /\ cleared' = cleared) => Done' = Done
  BY DEF Done, Kept
<1>3. author' = author => \A a \in Authors : UpdatedToday(a)' => UpdatedToday(a)
  BY DEF UpdatedToday
<1>4. ASSUME \/ \E n \in Novels : DeleteRequest(n) \/ DeleteFails(n)
             \/ \E S \in SUBSET Novels : BatchRequest(S)
             \/ BatchFails
      PROVE  IndInv'
  <2>1. /\ UNCHANGED <<rows, ledger, author, round, cleared, started>>
        /\ files' \subseteq Novels /\ deleting' \subseteq Novels /\ purging' \subseteq Novels
    BY <1>1, <1>4 DEF DeleteRequest, DeleteFails, BatchRequest, BatchFails, TypeOK
  <2>2. QED
    BY <1>1, <1>2, <1>3, <2>1, BystanderKeeps DEF TypeOK
<1>5. ASSUME NEW S \in SUBSET Novels, ResetCounts(S) PROVE IndInv'
  <2>1. /\ ledger' = [n \in Novels |-> IF n \in S /\ ledger[n] # NoEntry THEN 0
                                       ELSE ledger[n]]
        /\ UNCHANGED <<rows, files, author, round, deleting, purging, cleared, started>>
    BY <1>5 DEF ResetCounts
  <2>2. 0 \in 0..MaxRetries /\ 0 # NoEntry
    BY BoundsAssumption, NovelAssumption
  <2>3. ledger' \in [Novels -> (0..MaxRetries) \cup {NoEntry}]
    BY <1>1, <2>1, <2>2 DEF TypeOK
  <2>4. Done \subseteq Done'
    BY <2>1, <2>2 DEF Done, Kept
  <2>5. QED
    BY <1>1, <1>3, <2>1, <2>3, <2>4, BystanderKeeps DEF TypeOK
<1>6. ASSUME NEW a \in Authors, NewDay(a) PROVE IndInv'
  <2>1. /\ author[a] # NoRow /\ author' = [author EXCEPT ![a].dated = FALSE]
        /\ UNCHANGED <<rows, files, ledger, round, deleting, purging, cleared, started>>
    BY <1>6 DEF NewDay, UpdatedToday
  <2>2. author[a] \in AuthorRow
    BY <1>1, <2>1 DEF TypeOK
  <2>3. [author[a] EXCEPT !.dated = FALSE] \in AuthorRow
        /\ ~[author[a] EXCEPT !.dated = FALSE].dated
    BY <2>2 DEF AuthorRow
  <2>4. author' = [author EXCEPT ![a] = [author[a] EXCEPT !.dated = FALSE]]
    BY <2>1
  <2>5. author' \in [Authors -> AuthorRow \cup {NoRow}]
    BY <1>1, <2>3, <2>4 DEF TypeOK
  <2>6. \A b \in Authors : UpdatedToday(b)' => UpdatedToday(b)
    BY <1>1, <2>3, <2>4 DEF TypeOK, UpdatedToday
  <2>7. QED
    BY <1>1, <1>2, <2>1, <2>5, <2>6, BystanderKeeps DEF TypeOK
<1>7. CASE Kill
  <2>1. /\ round' = [r \in Rounds |-> NoRound] /\ deleting' = {} /\ purging' = {}
        /\ UNCHANGED <<rows, files, ledger, author, cleared, started>>
    BY <1>7 DEF Kill
  <2>2. QED
    BY <1>1, <1>2, <1>3, <2>1, BystanderKeeps DEF TypeOK
<1>8. QED
  BY <1>4, <1>5, <1>6, <1>7

LEMMA NextKeeps ==
    ASSUME IndInv, [Next]_vars
    PROVE  IndInv'
<1>1. CASE UNCHANGED vars
  <2>1. Kept' = Kept /\ Done' = Done
    BY <1>1 DEF vars, Kept, Done
  <2>2. TypeOK' /\ DatedMeansHandled'
    BY <1>1 DEF vars, IndInv, TypeOK, DatedMeansHandled, UpdatedToday
  <2>3. QED
    BY <1>1, <2>1, <2>2 DEF vars, IndInv
<1>2. ASSUME NEW r \in Rounds, Proceed(r) PROVE IndInv'
  BY <1>2, DownloadKeeps, FetchForSyncKeeps, GatherKeeps, ReadExistingKeeps, FlushKeeps,
     LockTimeoutKeeps, ReadSummaryKeeps, CommitKeeps, MarkUpdatedKeeps DEF Proceed
<1>3. CASE Next
  BY <1>2, <1>3, StartKeeps, DeleteKeeps, BystandersKeep DEF Next
<1>4. QED
  BY <1>1, <1>3

----------------------------------------------------------------------------
(* Theorems *)

\* Along every behaviour each round accounts for what it lists, and the author
\* rows are dated only when all their works are dealt with.
THEOREM NovelInvariance == Spec => []IndInv
<1>1. Init => IndInv
  BY InitEstablishes
<1>2. IndInv /\ [Next]_vars => IndInv'
  BY NextKeeps
<1>3. QED
  BY <1>1, <1>2, PTL DEF Spec

\* The state stays within its types.
THEOREM NovelTypes == Spec => []TypeOK
<1>1. IndInv => TypeOK
  BY DEF IndInv
<1>2. QED
  BY <1>1, NovelInvariance, PTL

\* An author who counts as updated today has no work that was passed over
\* (author_fetch, need_update): whatever rounds, deletions, failed flushes,
\* lock timeouts and crashes came in between.
THEOREM DatedIsHandled == Spec => []DatedMeansHandled
<1>1. IndInv => DatedMeansHandled
  BY DEF IndInv
<1>2. QED
  BY <1>1, NovelInvariance, PTL

\* The novel count a round commits for an author is the number of his rows,
\* unless somebody committed rows of his works under the round.
LEMMA CommitCounts ==
    ASSUME IndInv, NEW r \in Rounds, Commit(r), ~round[r].overrun,
           NEW a \in BatchAuthors(r)
    PROVE  author'[a].count = Cardinality(rows' \cap Works(a))
<1> DEFINE R == round[r]
<1>1. /\ R \in Round /\ RoundOK(R, rows, Kept, Done) /\ R.phase = "end" /\ TypeOK
  BY DEF IndInv, TypeOK, Commit
<1>2. a \in DraftAuthors(R)
  BY DEF DraftAuthors, Drafts, BatchAuthors, Batch
<1>3. a \in Authors
  BY <1>1, <1>2, NovelAssumption DEF DraftAuthors, Drafts, Round
<1>4. /\ Drafts(R) \subseteq R.held \cup rows
      /\ R.counted[a] = Cardinality((rows \cup R.held) \cap Works(a))
  BY <1>1, <1>2 DEF RoundOK, AloneOK
<1>5. PICK n \in Drafts(R) : AuthorOf(n) = a
  BY <1>2 DEF DraftAuthors
<1>6. n \in (rows \cup R.held) \cap Works(a)
  BY <1>1, <1>4, <1>5 DEF Works, Drafts, Round
<1>7. R.counted[a] # 0
  BY <1>4, <1>6, CountIsNat
<1>8. author'[a] = SummaryRow(r, a) /\ rows' = rows \cup R.held
  BY <1>3 DEF Commit
<1>9. QED
  BY <1>1, <1>3, <1>4, <1>7, <1>8, SummaryRowType

\* As an action property of every behaviour: the novel_count of an author row
\* (update_summary) is the number of his committed novels when it is written.
THEOREM CountsMatch == Spec => CountMatchesRows
<1>1. IndInv /\ [Next]_vars =>
        [\A r \in Rounds :
           Commit(r) /\ ~round[r].overrun =>
             \A a \in BatchAuthors(r) :
               author'[a].count = Cardinality(rows' \cap Works(a))]_vars
  BY CommitCounts
<1>2. QED
  BY <1>1, NovelInvariance, PTL DEF Spec, CountMatchesRows
=============================================================================
